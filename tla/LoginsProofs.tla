--------------------------- MODULE LoginsProofs ---------------------------
(***************************************************************************)
(* Proofs about Logins, for any number of connections and names and any    *)
(* limit on the connections of an address.                                 *)
(***************************************************************************)
EXTENDS Logins, TLAPS

\* What a login has been told when it is at a prompt, and whose login it is.
LoginInv ==
  \A c \in Conns :
    /\ conn[c] = "none" => user[c] = None
    /\ login[c] # None =>
         /\ login[c].prompt \notin {"InputName", "kill me", "none"} => login[c].name \in Names
         /\ login[c].prompt \in {"details", "InputCre"} =>
              login[c].Player \in Bodies \/ login[c].missed
         /\ login[c].Player # None => body[login[c].Player] # "unloaded"
         /\ user[c] # None => login[c].Player = user[c]

\* Who has written his answers into a body plays it for as long as it exists, so
\* that nobody who comes later can enter it.
AuthorInv ==
  \A b \in Bodies : author[b] # None /\ body[b] # "destructed" =>
    body[b] = "live" /\ conn[author[b]] # "none" /\ user[author[b]] = b

\* A body of the creators' is loaded for those only who are creators, and whose answers a
\* player's file holds plays the body of the file for as long as it exists.
FileInv ==
  /\ \A b \in saving : body[b] = "live"
  /\ \A n \in Names :
       /\ body[<<"creators", n>>] # "unloaded" => saved[n] = "creators"
       /\ /\ saved[n] = "players" /\ written[n] # None
          /\ body[<<"players", n>>] # "destructed"
          => /\ body[<<"players", n>>] = "live"
             /\ conn[written[n]] # "none"
             /\ user[written[n]] = <<"players", n>>

IInv ==
  /\ TypeOK /\ UserExists /\ OneDriver /\ OwnAnswers /\ AlwaysAsked
  /\ LoginInv /\ AuthorInv /\ FileInv

\* What a step does to the files, unless a character is completed in it: a body that
\* exists is saved with the answers it holds, or a player is made a creator.
FileStep ==
  \/ UNCHANGED files
  \/ \E b \in Bodies : body[b] # "unloaded" /\ Save(b, author[b])
  \/ \E l \in LoginObjects : saved' = Promoted(l) /\ UNCHANGED written

-----------------------------------------------------------------------------
(* Files *)

\* Every name has two bodies.
LEMMA BodyIs ==
  /\ \A b \in Bodies : /\ NameOf(b) \in Names
                       /\ b \in {<<"players", NameOf(b)>>, <<"creators", NameOf(b)>>}
  /\ \A n \in Names : /\ <<"players", n>> \in Bodies /\ <<"creators", n>> \in Bodies
                      /\ <<"players", n>> # <<"creators", n>>
                      /\ NameOf(<<"players", n>>) = n /\ NameOf(<<"creators", n>>) = n
BY DEF Bodies, NameOf

\* Saving a body makes its player's file a player's only if it is his player's body, and
\* leaves the other files alone.
LEMMA SaveIs ==
  ASSUME TypeOK, FileInv, NEW b \in Bodies, body[b] # "unloaded",
         NEW who \in Conns \cup {None}, Save(b, who)
  PROVE  /\ saved' \in [Names -> {"players", "creators", "none"}]
         /\ written' \in [Names -> Conns \cup {None}]
         /\ \A n \in Names :
              /\ saved[n] = "creators" => saved'[n] = "creators"
              /\ n # NameOf(b) => saved'[n] = saved[n] /\ written'[n] = written[n]
              /\ n = NameOf(b) => written'[n] = who
              /\ n = NameOf(b) /\ saved'[n] = "players" => b = <<"players", n>>
<1>1. NameOf(b) \in Names
  BY BodyIs
<1>2. saved' = [saved EXCEPT ![NameOf(b)] = IF @ = "creators" THEN "creators" ELSE "players"]
      /\ written' = [written EXCEPT ![NameOf(b)] = who]
  BY DEF Save, SavedBy
<1>3. saved' \in [Names -> {"players", "creators", "none"}]
      /\ written' \in [Names -> Conns \cup {None}]
  BY <1>1, <1>2 DEF TypeOK
<1>4. ASSUME NEW n \in Names, n = NameOf(b), saved'[n] = "players" PROVE b = <<"players", n>>
  <2>1. saved[n] # "creators"
    BY <1>2, <1>4 DEF TypeOK
  <2> QED
    BY <2>1, <1>4, BodyIs DEF FileInv
<1> QED
  BY <1>1, <1>2, <1>3, <1>4 DEF TypeOK

\* A player's file has nobody's answers, those that it had or those of the player's body.
LEMMA FileStepIs ==
  ASSUME TypeOK, FileInv, FileStep
  PROVE  /\ saved' \in [Names -> {"players", "creators", "none"}]
         /\ written' \in [Names -> Conns \cup {None}]
         /\ \A n \in Names :
              /\ saved[n] = "creators" => saved'[n] = "creators"
              /\ saved'[n] = "players" =>
                   \/ saved[n] = "players" /\ written'[n] = written[n]
                   \/ written'[n] = author[<<"players", n>>]
<1>1. CASE UNCHANGED files
  BY <1>1 DEF files, TypeOK
<1>2. CASE \E b \in Bodies : body[b] # "unloaded" /\ Save(b, author[b])
  <2> PICK b \in Bodies : body[b] # "unloaded" /\ Save(b, author[b])
    BY <1>2
  <2>1. author[b] \in Conns \cup {None}
    BY DEF TypeOK
  <2> QED
    BY <2>1, SaveIs
<1>3. CASE \E l \in LoginObjects : saved' = Promoted(l) /\ UNCHANGED written
  <2> PICK l \in LoginObjects : saved' = Promoted(l) /\ UNCHANGED written
    BY <1>3
  <2>1. saved' = IF l.yescre /\ saved[l.name] = "players"
                   THEN [saved EXCEPT ![l.name] = "creators"] ELSE saved
    BY DEF Promoted
  <2> QED
    BY <2>1 DEF TypeOK
<1> QED
  BY <1>1, <1>2, <1>3 DEF FileStep

\* So whoever plays a body still finds no answers but his own in its file.
LEMMA FileStepOwn ==
  ASSUME IInv, FileStep, NEW c \in Conns, conn[c] = "open", user[c] \in Bodies,
         saved'[NameOf(user[c])] = "players"
  PROVE  written'[NameOf(user[c])] \in {c, None}
<1> DEFINE b == user[c]
           n == NameOf(user[c])
<1>1. n \in Names /\ b \in {<<"players", n>>, <<"creators", n>>}
  BY BodyIs
<1>2. body[b] = "live"
  BY LoginsAssumption DEF IInv, UserExists
<1>3. b = <<"players", n>>
  BY <1>1, <1>2, FileStepIs DEF IInv, FileInv
<1>4. author[b] \in {c, None} /\ (saved[n] = "players" => written[n] \in {c, None})
  BY DEF IInv, OwnAnswers
<1> QED
  BY <1>1, <1>3, <1>4, FileStepIs DEF IInv

-----------------------------------------------------------------------------
(* What the handlers do to the invariant, whichever handler it is *)

\* A handler that asks for something else leaves everybody where he is.
LEMMA AskKeeps ==
  ASSUME IInv, NEW c \in Conns, NEW l \in LoginObjects, Ask(c, l),
         conn[c] = "open", user[c] = None, login[c] # None,
         l.prompt \notin {"InputName", "kill me", "none"} => l.name \in Names,
         l.prompt \in {"details", "InputCre"} => l.Player \in Bodies \/ l.missed,
         l.Player # None => body[l.Player] # "unloaded",
         l.prompt = "none" =>
           l.missed \/ (l.Player \in Bodies /\ body[l.Player] = "destructed")
  PROVE  IInv'
<1> USE LoginsAssumption DEF Ask, files
<1>1. TypeOK'
  BY DEF IInv, TypeOK
<1>2. UserExists'
  BY DEF IInv, TypeOK, UserExists
<1>3. OneDriver' /\ OwnAnswers'
  BY DEF IInv, OneDriver, OwnAnswers
<1>4. AlwaysAsked'
  BY DEF IInv, TypeOK, AlwaysAsked
<1>5. LoginInv'
  BY DEF IInv, TypeOK, LoginInv
<1>6. AuthorInv' /\ FileInv'
  BY DEF IInv, AuthorInv, FileInv
<1> QED
  BY <1>1, <1>2, <1>3, <1>4, <1>5, <1>6 DEF IInv

\* A login that is not destructed has what it had.
LEMMA DestructLogins ==
  ASSUME IInv, NEW bs \in SUBSET Bodies, NEW cs \in SUBSET Conns, Destruct(bs, cs),
         UNCHANGED user
  PROVE  LoginInv'
<1> SUFFICES ASSUME NEW d \in Conns
             PROVE  /\ conn'[d] = "none" => user'[d] = None
                    /\ login'[d] # None =>
                         /\ login'[d].prompt \notin {"InputName", "kill me", "none"} =>
                              login'[d].name \in Names
                         /\ login'[d].prompt \in {"details", "InputCre"} =>
                              login'[d].Player \in Bodies \/ login'[d].missed
                         /\ login'[d].Player # None => body'[login'[d].Player] # "unloaded"
                         /\ user'[d] # None => login'[d].Player = user'[d]
  BY DEF LoginInv
<1>1. conn'[d] = "none" => conn[d] = "none"
  BY DEF Destruct
<1>2. login'[d] # None => login'[d] = login[d] /\ login[d] \in LoginObjects
  BY DEF Destruct, IInv, TypeOK
<1>3. \A b \in Bodies : body[b] # "unloaded" => body'[b] # "unloaded"
  BY DEF Destruct, IInv, TypeOK
<1>4. login[d] \in LoginObjects => login[d].Player \in Bodies \cup {None}
  BY DEF LoginObjects
<1> QED
  BY <1>1, <1>2, <1>3, <1>4 DEF IInv, LoginInv

\* destruct closes the connections of what it destructs, so that none is left with
\* a body or a login that does not exist.
LEMMA DestructKeeps ==
  ASSUME IInv, NEW bs \in SUBSET Bodies, NEW cs \in SUBSET Conns, Destruct(bs, cs),
         UNCHANGED <<user, author>>, FileStep, callouts' \in BOOLEAN
  PROVE  IInv'
<1> USE LoginsAssumption DEF Destruct
<1>1. TypeOK'
  BY FileStepIs DEF IInv, TypeOK
<1>2. UserExists'
  BY DEF IInv, TypeOK, UserExists
<1>3. OneDriver'
  BY DEF IInv, TypeOK, OneDriver
<1>4. OwnAnswers'
  BY FileStepOwn DEF IInv, TypeOK, OwnAnswers
<1>5. AlwaysAsked'
  BY DEF IInv, TypeOK, AlwaysAsked
<1>6. LoginInv'
  BY DestructLogins
<1>7. AuthorInv'
  BY DEF IInv, TypeOK, AuthorInv
<1>8. FileInv'
  <2>1. \A b \in saving' : body'[b] = "live"
    BY DEF IInv, TypeOK, FileInv
  <2>2. \A n \in Names : body'[<<"creators", n>>] # "unloaded" => saved'[n] = "creators"
    BY FileStepIs, BodyIs DEF IInv, TypeOK, FileInv
  <2>3. ASSUME NEW n \in Names, saved'[n] = "players", written'[n] # None,
               body'[<<"players", n>>] # "destructed"
        PROVE  /\ body'[<<"players", n>>] = "live"
               /\ conn'[written'[n]] # "none"
               /\ user'[written'[n]] = <<"players", n>>
    <3>1. <<"players", n>> \in Bodies /\ written'[n] \in Conns
      BY <2>3, FileStepIs, BodyIs DEF IInv
    <3>2. body[<<"players", n>>] # "destructed"
      BY <2>3, <3>1 DEF IInv, TypeOK
    <3>3. /\ body[<<"players", n>>] = "live"
          /\ conn[written'[n]] # "none"
          /\ user[written'[n]] = <<"players", n>>
      <4>1. CASE saved[n] = "players" /\ written'[n] = written[n]
        BY <2>3, <3>2, <4>1 DEF IInv, FileInv
      <4>2. CASE written'[n] = author[<<"players", n>>]
        BY <2>3, <3>1, <3>2, <4>2 DEF IInv, AuthorInv
      <4> QED
        BY <2>3, <4>1, <4>2, FileStepIs DEF IInv
    <3> QED
      BY <2>3, <3>1, <3>3 DEF IInv, TypeOK
  <2> QED
    BY <2>1, <2>2, <2>3 DEF FileInv
<1> QED
  BY <1>1, <1>2, <1>3, <1>4, <1>5, <1>6, <1>7, <1>8 DEF IInv

\* exec into a body that exists and that nobody is in.  Nobody else's answers are in
\* it, or in its file: he would be in it himself.
LEMMA EnterKeeps ==
  ASSUME IInv, NEW c \in Conns, NEW b \in Bodies, NEW l \in LoginObjects, Enter(c, b, l),
         conn[c] = "open", user[c] = None, l.Player = b,
         body[b] # "destructed", ~Interactive(b),
         body[b] = "unloaded" => b = FileOf(NameOf(b)),
         \/ UNCHANGED <<author, files>>
         \/ /\ body[b] # "unloaded" /\ author' = [author EXCEPT ![b] = c]
            /\ Save(b, c),
         UNCHANGED callouts
  PROVE  IInv'
<1> USE LoginsAssumption DEF Enter
<1> DEFINE m == [l EXCEPT !.prompt = "none"]
<1>0. m \in LoginObjects /\ m.prompt = "none" /\ m.Player = b
  BY DEF LoginObjects, Prompts
<1> HIDE DEF m
<1>00. login' = [login EXCEPT ![c] = m]
  BY DEF m
<1>f. /\ saved' \in [Names -> {"players", "creators", "none"}]
      /\ written' \in [Names -> Conns \cup {None}]
      /\ author' = author \/ author' = [author EXCEPT ![b] = c]
      /\ \A n \in Names :
           /\ saved[n] = "creators" => saved'[n] = "creators"
           /\ \/ saved'[n] = saved[n] /\ written'[n] = written[n]
              \/ /\ written'[n] = c /\ n = NameOf(b)
                 /\ saved'[n] = "players" => b = <<"players", n>>
  <2>1. CASE UNCHANGED <<author, files>>
    BY <2>1 DEF IInv, TypeOK, files
  <2>2. CASE body[b] # "unloaded" /\ author' = [author EXCEPT ![b] = c] /\ Save(b, c)
    BY <2>2, SaveIs DEF IInv
  <2> QED
    BY <2>1, <2>2
<1>1. TypeOK'
  BY <1>0, <1>00, <1>f DEF IInv, TypeOK
<1>2. UserExists'
  BY DEF IInv, TypeOK, UserExists
<1>3. \A d \in Conns : conn[d] = "open" => user[d] # b
  BY DEF IInv, TypeOK, UserExists, Interactive
<1>4. author[b] = None
  BY DEF IInv, TypeOK, AuthorInv, Interactive
<1>5. OneDriver'
  BY <1>3 DEF IInv, TypeOK, OneDriver
<1>6. OwnAnswers'
  <2> SUFFICES ASSUME NEW d \in Conns, conn'[d] = "open", user'[d] \in Bodies
               PROVE  /\ author'[user'[d]] \in {d, None}
                      /\ saved'[NameOf(user'[d])] = "players" =>
                           written'[NameOf(user'[d])] \in {d, None}
    BY DEF OwnAnswers
  <2>1. author'[user'[d]] \in {d, None}
    BY <1>3, <1>4, <1>f DEF IInv, TypeOK, OwnAnswers
  <2>2. ASSUME d = c, saved'[NameOf(b)] = "players" PROVE written'[NameOf(b)] \in {c, None}
    <3>1. NameOf(b) \in Names
      BY BodyIs
    <3>2. CASE written'[NameOf(b)] = c
      BY <3>2
    <3>3. CASE saved'[NameOf(b)] = saved[NameOf(b)] /\ written'[NameOf(b)] = written[NameOf(b)]
      <4>1. b = <<"players", NameOf(b)>>
        <5>1. CASE body[b] = "unloaded"
          BY <2>2, <3>3, <5>1 DEF FileOf
        <5>2. CASE body[b] # "unloaded"
          BY <2>2, <3>1, <3>3, <5>2, BodyIs DEF IInv, FileInv
        <5> QED
          BY <5>1, <5>2
      <4>2. written[NameOf(b)] = None \/
              (/\ body[b] = "live" /\ conn[written[NameOf(b)]] # "none"
               /\ user[written[NameOf(b)]] = b /\ written[NameOf(b)] \in Conns)
        <5> DEFINE n == NameOf(b)
        <5>1. n \in Names /\ saved[n] = "players" /\ b = <<"players", n>>
              /\ written[n] \in Conns \cup {None}
          BY <2>2, <3>1, <3>3, <4>1 DEF IInv, TypeOK
        <5> HIDE DEF n
        <5>2. written[n] # None =>
                body[b] = "live" /\ conn[written[n]] # "none" /\ user[written[n]] = b
          BY <5>1 DEF IInv, FileInv
        <5> QED
          BY <5>1, <5>2 DEF n
      <4> QED
        BY <3>3, <4>2 DEF Interactive
    <3> QED
      BY <1>f, <3>1, <3>2, <3>3
  <2>3. ASSUME d # c, saved'[NameOf(user'[d])] = "players"
        PROVE  written'[NameOf(user'[d])] \in {d, None}
    <3>1. user'[d] = user[d] /\ conn[d] = "open" /\ user[d] # b /\ user[d] \in Bodies
      BY <1>3, <2>3 DEF IInv, TypeOK
    <3>2. NameOf(user[d]) \in Names
          /\ user[d] \in {<<"players", NameOf(user[d])>>, <<"creators", NameOf(user[d])>>}
      BY <3>1, BodyIs
    <3>3. body[user[d]] = "live"
      BY <3>1 DEF IInv, UserExists
    <3>4. user[d] = <<"players", NameOf(user[d])>>
      BY <1>f, <2>3, <3>1, <3>2, <3>3 DEF IInv, FileInv
    <3>5. saved'[NameOf(user[d])] = saved[NameOf(user[d])]
          /\ written'[NameOf(user[d])] = written[NameOf(user[d])]
      BY <1>f, <2>3, <3>1, <3>2, <3>4
    <3> QED
      BY <2>3, <3>1, <3>5 DEF IInv, OwnAnswers
  <2>4. d = c => user'[d] = b
    BY DEF IInv, TypeOK
  <2> QED
    BY <2>1, <2>2, <2>3, <2>4
<1>7. AlwaysAsked'
  BY DEF IInv, TypeOK, AlwaysAsked
<1>8. LoginInv'
  <2> SUFFICES ASSUME NEW d \in Conns
               PROVE  /\ conn'[d] = "none" => user'[d] = None
                      /\ login'[d] # None =>
                           /\ login'[d].prompt \notin {"InputName", "kill me", "none"} =>
                                login'[d].name \in Names
                           /\ login'[d].prompt \in {"details", "InputCre"} =>
                                login'[d].Player \in Bodies \/ login'[d].missed
                           /\ login'[d].Player # None => body'[login'[d].Player] # "unloaded"
                           /\ user'[d] # None => login'[d].Player = user'[d]
    BY DEF LoginInv
  <2>1. CASE d = c
    BY <2>1, <1>0, <1>00 DEF IInv, TypeOK
  <2>2. CASE d # c
    <3>1. user'[d] = user[d] /\ login'[d] = login[d] /\ conn'[d] = conn[d]
      BY <2>2, <1>00 DEF IInv, TypeOK
    <3>2. \A e \in Bodies : body[e] # "unloaded" => body'[e] # "unloaded"
      BY DEF IInv, TypeOK
    <3>3. login[d] # None => login[d].Player \in Bodies \cup {None}
      BY DEF IInv, TypeOK, LoginObjects
    <3> QED
      BY <3>1, <3>2, <3>3 DEF IInv, LoginInv
  <2> QED
    BY <2>1, <2>2
<1>9. AuthorInv'
  BY <1>4, <1>f DEF IInv, TypeOK, AuthorInv
<1>10. FileInv'
  <2>1. \A e \in saving' : body'[e] = "live"
    BY DEF IInv, TypeOK, FileInv
  <2>2. ASSUME NEW n \in Names, body'[<<"creators", n>>] # "unloaded"
        PROVE  saved'[n] = "creators"
    <3>1. CASE body[<<"creators", n>>] # "unloaded"
      BY <1>f, <3>1 DEF IInv, FileInv
    <3>2. CASE body[<<"creators", n>>] = "unloaded"
      <4>1. b = <<"creators", n>>
        BY <2>2, <3>2, BodyIs DEF IInv, TypeOK
      <4>2. saved[n] = "creators"
        BY <3>2, <4>1, BodyIs DEF FileOf
      <4> QED
        BY <1>f, <4>2
    <3> QED
      BY <3>1, <3>2
  <2>3. ASSUME NEW n \in Names, saved'[n] = "players", written'[n] # None,
               body'[<<"players", n>>] # "destructed"
        PROVE  /\ body'[<<"players", n>>] = "live"
               /\ conn'[written'[n]] # "none"
               /\ user'[written'[n]] = <<"players", n>>
    <3>1. <<"players", n>> \in Bodies /\ <<"players", n>> # None /\ written'[n] \in Conns
      BY <1>f, <2>3, BodyIs
    <3>2. body[<<"players", n>>] # "destructed"
      BY <2>3, <3>1 DEF IInv, TypeOK
    <3>3. CASE written'[n] = c /\ b = <<"players", n>>
      BY <3>1, <3>2, <3>3 DEF IInv, TypeOK
    <3>4. CASE saved'[n] = saved[n] /\ written'[n] = written[n]
      <4>1. /\ body[<<"players", n>>] = "live"
            /\ conn[written[n]] # "none"
            /\ user[written[n]] = <<"players", n>>
        BY <2>3, <3>2, <3>4 DEF IInv, FileInv
      <4>2. written[n] # c
        BY <3>1, <4>1
      <4> QED
        BY <3>1, <3>4, <4>1, <4>2 DEF IInv, TypeOK
    <3> QED
      BY <1>f, <2>3, <3>3, <3>4
  <2> QED
    BY <2>1, <2>2, <2>3 DEF FileInv
<1> QED
  BY <1>1, <1>2, <1>5, <1>6, <1>7, <1>8, <1>9, <1>10 DEF IInv

\* exec refuses a body that is in play, which the answers and its file are those of
\* another by now: it is destructed and its connection closes.
LEMMA RefusedKeeps ==
  ASSUME IInv, NEW c \in Conns, NEW b \in Bodies, Destruct({b}, {c}), body[b] = "live",
         UNCHANGED <<user, callouts>>, author' = [author EXCEPT ![b] = c], Save(b, c)
  PROVE  IInv'
<1> USE LoginsAssumption DEF Destruct
<1>f. /\ saved' \in [Names -> {"players", "creators", "none"}]
      /\ written' \in [Names -> Conns \cup {None}]
      /\ \A n \in Names :
           /\ saved[n] = "creators" => saved'[n] = "creators"
           /\ n # NameOf(b) => saved'[n] = saved[n] /\ written'[n] = written[n]
           /\ n = NameOf(b) /\ saved'[n] = "players" => b = <<"players", n>>
  BY SaveIs DEF IInv
<1>1. TypeOK'
  BY <1>f DEF IInv, TypeOK
<1>2. UserExists'
  BY DEF IInv, TypeOK, UserExists
<1>3. OneDriver'
  BY DEF IInv, TypeOK, OneDriver
<1>4. OwnAnswers'
  <2> SUFFICES ASSUME NEW d \in Conns, conn'[d] = "open", user'[d] \in Bodies
               PROVE  /\ author'[user'[d]] \in {d, None}
                      /\ saved'[NameOf(user'[d])] = "players" =>
                           written'[NameOf(user'[d])] \in {d, None}
    BY DEF OwnAnswers
  <2>1. user'[d] = user[d] /\ conn[d] = "open" /\ user[d] # b /\ user[d] \in Bodies
    BY DEF IInv, TypeOK
  <2>2. author'[user[d]] \in {d, None}
    BY <2>1 DEF IInv, TypeOK, OwnAnswers
  <2>3. ASSUME saved'[NameOf(user[d])] = "players"
        PROVE  written'[NameOf(user[d])] \in {d, None}
    <3>1. NameOf(user[d]) \in Names
          /\ user[d] \in {<<"players", NameOf(user[d])>>, <<"creators", NameOf(user[d])>>}
      BY <2>1, BodyIs
    <3>2. body[user[d]] = "live"
      BY <2>1 DEF IInv, UserExists
    <3>3. user[d] = <<"players", NameOf(user[d])>>
      BY <1>f, <2>3, <3>1, <3>2 DEF IInv, FileInv
    <3> QED
      BY <1>f, <2>1, <2>3, <3>1, <3>3 DEF IInv, OwnAnswers
  <2> QED
    BY <2>1, <2>2, <2>3
<1>5. AlwaysAsked'
  BY DEF IInv, TypeOK, AlwaysAsked
<1>6. LoginInv'
  <2>1. {b} \in SUBSET Bodies /\ {c} \in SUBSET Conns /\ Destruct({b}, {c}) /\ UNCHANGED user
    OBVIOUS
  <2> HIDE DEF Destruct
  <2> QED
    BY ZenonT(30), <2>1, DestructLogins
<1>7. AuthorInv'
  BY DEF IInv, TypeOK, AuthorInv
<1>8. FileInv'
  <2>1. \A e \in saving' : body'[e] = "live"
    BY DEF IInv, TypeOK, FileInv
  <2>2. \A n \in Names : body'[<<"creators", n>>] # "unloaded" => saved'[n] = "creators"
    BY <1>f, BodyIs DEF IInv, TypeOK, FileInv
  <2>3. ASSUME NEW n \in Names, saved'[n] = "players", written'[n] # None,
               body'[<<"players", n>>] # "destructed"
        PROVE  /\ body'[<<"players", n>>] = "live"
               /\ conn'[written'[n]] # "none"
               /\ user'[written'[n]] = <<"players", n>>
    <3>1. <<"players", n>> \in Bodies /\ written'[n] \in Conns
      BY <1>f, <2>3, BodyIs
    <3>2. b # <<"players", n>> /\ body[<<"players", n>>] # "destructed"
      BY <2>3, <3>1 DEF IInv, TypeOK
    <3>3. saved'[n] = saved[n] /\ written'[n] = written[n]
      BY <1>f, <2>3, <3>2
    <3>4. /\ body[<<"players", n>>] = "live"
          /\ conn[written[n]] # "none"
          /\ user[written[n]] = <<"players", n>>
      BY <2>3, <3>2, <3>3 DEF IInv, FileInv
    <3> QED
      BY <2>3, <3>1, <3>2, <3>3, <3>4 DEF IInv, TypeOK
  <2> QED
    BY <2>1, <2>2, <2>3 DEF FileInv
<1> QED
  BY <1>1, <1>2, <1>3, <1>4, <1>5, <1>6, <1>7, <1>8 DEF IInv

\* eventEnterGame enters or destructs the body, so that the invariant holds
\* either way.
LEMMA EnterGameKeeps ==
  ASSUME IInv, NEW c \in Conns, NEW b \in Bodies, NEW l \in LoginObjects,
         eventEnterGame(c, b, l),
         conn[c] = "open", user[c] = None, l.Player = b, body[b] # "destructed",
         body[b] = "unloaded" => b = FileOf(NameOf(b)),
         \/ UNCHANGED <<author, files>>
         \/ /\ body[b] # "unloaded" /\ author' = [author EXCEPT ![b] = c]
            /\ Save(b, c),
         UNCHANGED callouts
  PROVE  IInv'
<1>1. CASE ~Interactive(b)
  BY <1>1, EnterKeeps DEF eventEnterGame
<1>2. CASE Interactive(b) /\ UNCHANGED <<author, files>>
  <2>1. Destruct({b}, {c}) /\ UNCHANGED user
    BY <1>2 DEF eventEnterGame
  <2>2. {b} \in SUBSET Bodies /\ {c} \in SUBSET Conns /\ callouts' \in BOOLEAN
    BY DEF IInv, TypeOK
  <2>3. FileStep
    BY <1>2 DEF FileStep
  <2> QED
    BY ZenonT(30), <1>2, <2>1, <2>2, <2>3, DestructKeeps
<1>3. CASE Interactive(b) /\ author' = [author EXCEPT ![b] = c] /\ Save(b, c)
  BY <1>3, RefusedKeeps DEF eventEnterGame, Interactive
<1> QED
  BY <1>1, <1>2, <1>3

-----------------------------------------------------------------------------
(* The handlers *)

\* The file that player_object looks for is one of the name's.
LEMMA FileOfType ==
  ASSUME NEW n \in Names
  PROVE  FileOf(n) \in Bodies /\ NameOf(FileOf(n)) = n
BY DEF FileOf, Bodies, NameOf

\* A new connection has a login that has asked for a name, or is closed at once.
LEMMA LogonKeeps == ASSUME IInv, NEW c \in Conns, Logon(c) PROVE IInv'
<1> USE LoginsAssumption DEF Logon, files
<1>1. conn[c] = "none" /\ user[c] = None
  <2>1. c \notin 1 .. c - 1
    BY DEF Conns
  <2> QED
    BY <2>1 DEF IInv, TypeOK, LoginInv, Accepted
<1>2. NewLogin \in LoginObjects /\ NewLogin.prompt = "InputName" /\ NewLogin.Player = None
  BY DEF NewLogin, LoginObjects, Prompts, Enders
<1>3. TypeOK'
  <2>1. conn' \in [Conns -> {"none", "open", "closed"}] /\ orphans' \in BOOLEAN
    BY DEF IInv, TypeOK
  <2>2. login' \in [Conns -> LoginObjects \cup {None}]
    BY <1>2 DEF IInv, TypeOK
  <2> QED
    BY <2>1, <2>2 DEF IInv, TypeOK
<1>4. UserExists'
  BY <1>1, <1>2 DEF IInv, TypeOK, UserExists
<1>5. OneDriver' /\ OwnAnswers'
  BY <1>1 DEF IInv, TypeOK, OneDriver, OwnAnswers, Bodies
<1>6. AlwaysAsked'
  BY <1>2 DEF IInv, TypeOK, AlwaysAsked
<1>7. LoginInv'
  <2> SUFFICES ASSUME NEW d \in Conns
               PROVE  /\ conn'[d] = "none" => user'[d] = None
                      /\ login'[d] # None =>
                           /\ login'[d].prompt \notin {"InputName", "kill me", "none"} =>
                                login'[d].name \in Names
                           /\ login'[d].prompt \in {"details", "InputCre"} =>
                                login'[d].Player \in Bodies \/ login'[d].missed
                           /\ login'[d].Player # None => body'[login'[d].Player] # "unloaded"
                           /\ user'[d] # None => login'[d].Player = user'[d]
    BY DEF LoginInv
  <2>1. body' = body /\ user' = user /\ (conn'[d] = "none" => conn[d] = "none")
    BY DEF IInv, TypeOK
  <2>2. login'[d] = login[d] \/ (login'[d] = NewLogin /\ d = c)
    BY DEF IInv, TypeOK
  <2>3. CASE login'[d] = login[d]
    BY <2>1, <2>3 DEF IInv, LoginInv
  <2>4. CASE login'[d] = NewLogin /\ d = c
    BY <1>1, <1>2, <2>1, <2>4
  <2> QED
    BY <2>2, <2>3, <2>4
<1>8. AuthorInv' /\ FileInv'
  BY DEF IInv, TypeOK, AuthorInv, FileInv
<1> QED
  BY <1>3, <1>4, <1>5, <1>6, <1>7, <1>8 DEF IInv

\* An answer to a prompt that leads to the next one.
LEMMA PromptKeeps ==
  ASSUME IInv, NEW c \in Conns, NEW p \in Prompts \ {"none"},
         conn[c] = "open", user[c] = None, login[c] # None, AskFor(c, p),
         p \notin {"InputName", "kill me"} => login[c].name \in Names,
         p \in {"details", "InputCre"} => login[c].Player \in Bodies \/ login[c].missed
  PROVE  IInv'
<1> DEFINE m == [login[c] EXCEPT !.prompt = p]
<1>1. login[c] \in LoginObjects
  BY DEF IInv, TypeOK
<1>2. m \in LoginObjects /\ m.prompt = p /\ m.Player = login[c].Player
      /\ m.name = login[c].name /\ m.missed = login[c].missed
  BY <1>1 DEF LoginObjects
<1>3. Ask(c, m)
  BY DEF AskFor
<1>4. login[c].Player # None => body[login[c].Player] # "unloaded"
  BY DEF IInv, LoginInv
<1> HIDE DEF m
<1> QED
  BY <1>2, <1>3, <1>4, AskKeeps

\* A login that is turned away goes with its connection.
LEMMA TurnAwayKeeps == ASSUME IInv, NEW c \in Conns, TurnAway(c) PROVE IInv'
<1>1. Destruct({}, {c}) /\ UNCHANGED <<user, author>> /\ FileStep /\ callouts' \in BOOLEAN
  BY DEF TurnAway, FileStep, IInv, TypeOK
<1> QED
  BY <1>1, DestructKeeps

\* A login whose body could not be loaded stays where it is.
LEMMA MissedKeeps ==
  ASSUME IInv, NEW c \in Conns, NEW l \in LoginObjects, l.name \in Names,
         conn[c] = "open", user[c] = None, login[c] # None, NEW p \in {"none", "details"},
         l.Player = login[c].Player, Ask(c, [Missed(l) EXCEPT !.prompt = p])
  PROVE  IInv'
<1> DEFINE m == [Missed(l) EXCEPT !.prompt = p]
<1>1. m \in LoginObjects /\ m.prompt = p /\ m.missed /\ m.name = l.name /\ m.Player = l.Player
  BY DEF Missed, LoginObjects, Prompts
<1>2. login[c].Player # None => body[login[c].Player] # "unloaded"
  BY DEF IInv, LoginInv
<1> HIDE DEF m
<1>3. Ask(c, m)
  BY DEF m
<1> QED
  BY <1>1, <1>2, <1>3, AskKeeps

\* An existing player enters his body, unless it is not there, was destructed or somebody
\* is in it.
LEMMA InputNameKeeps ==
  ASSUME IInv, NEW c \in Conns, NEW n \in Names, InputName(c, n)
  PROVE  IInv'
<1> DEFINE b == FileOf(n)
           a == [login[c] EXCEPT !.name = n]
           l == [a EXCEPT !.Player = b]
           k == [l EXCEPT !.ender = "eventCheckPending"]
           e == [l EXCEPT !.prompt = "none"]
<1>1. conn[c] = "open" /\ user[c] = None /\ login[c] # None /\ login[c] \in LoginObjects
  BY DEF InputName, AtName, AtPrompt, IInv, TypeOK
<1>2. b \in Bodies /\ b = FileOf(NameOf(b))
  BY FileOfType
<1>3. \/ body[b] = "unloaded" /\ (Fails(c, Missed(a)) \/ TurnAway(c))
      \/ body[b] = "destructed" /\ Ask(c, e)
      \/ /\ body[b] # "destructed"
         /\ eventEnterGame(c, b, k)
         /\ UNCHANGED <<author, files, callouts>>
  BY DEF InputName, InputPassword, Fails
<1> HIDE DEF b
<1>4. k \in LoginObjects /\ k.Player = b
  BY <1>1, <1>2 DEF LoginObjects, Enders
<1>5. e \in LoginObjects /\ e.Player = b /\ e.prompt = "none"
  BY <1>1, <1>2 DEF LoginObjects, Prompts
<1>6. a \in LoginObjects /\ a.Player = login[c].Player /\ a.name = n
  BY <1>1 DEF LoginObjects
<1> HIDE DEF a, k, e
<1>7. CASE Fails(c, Missed(a))
  BY <1>1, <1>6, <1>7, MissedKeeps DEF Fails
<1>8. CASE TurnAway(c)
  BY <1>8, TurnAwayKeeps
<1>9. CASE body[b] = "destructed" /\ Ask(c, e)
  BY <1>1, <1>2, <1>5, <1>9, AskKeeps
<1>10. CASE /\ body[b] # "destructed"
            /\ eventEnterGame(c, b, k)
            /\ UNCHANGED <<author, files, callouts>>
  BY <1>1, <1>2, <1>4, <1>10, EnterGameKeeps
<1> QED
  BY <1>3, <1>7, <1>8, <1>9, <1>10

\* A new name is kept in the login.
LEMMA CreateKeeps ==
  ASSUME IInv, NEW c \in Conns, NEW n \in Names, eventCreatePlayer(c, n)
  PROVE  IInv'
<1> DEFINE m == [login[c] EXCEPT !.prompt = "ConfirmName", !.name = n]
<1>1. conn[c] = "open" /\ user[c] = None /\ login[c] # None /\ login[c] \in LoginObjects
  BY DEF eventCreatePlayer, AtName, AtPrompt, IInv, TypeOK
<1>2. m \in LoginObjects /\ m.prompt = "ConfirmName" /\ m.name = n
      /\ m.Player = login[c].Player
  BY <1>1 DEF LoginObjects, Prompts
<1>3. Ask(c, m)
  BY DEF eventCreatePlayer
<1>4. login[c].Player # None => body[login[c].Player] # "unloaded"
  BY <1>1 DEF IInv, LoginInv
<1> HIDE DEF m
<1> QED
  BY <1>1, <1>2, <1>3, <1>4, AskKeeps

\* The body of a new character is loaded, whatever has become of it before, or missed.
LEMMA ConfirmPasswordKeeps == ASSUME IInv, NEW c \in Conns, ConfirmPassword(c) PROVE IInv'
<1> USE LoginsAssumption
<1>1. conn[c] = "open" /\ user[c] = None /\ login[c] # None /\ login[c].name \in Names
      /\ login[c] \in LoginObjects
  BY DEF ConfirmPassword, AtPrompt, IInv, TypeOK, LoginInv
<1> DEFINE b == FileOf(login[c].name)
           m == [login[c] EXCEPT !.prompt = "details", !.Player = b]
<1>2. CASE AskFor(c, "CreatePassword")
  BY <1>1, <1>2, PromptKeeps DEF Prompts
<1>3. CASE /\ login' = [login EXCEPT ![c].prompt = "details", ![c].Player = b]
           /\ body' = [body EXCEPT ![b] = IF @ = "unloaded" THEN "live" ELSE @]
           /\ UNCHANGED <<conn, user, author, saving, files, orphans, callouts>>
  <2>1. b \in Bodies /\ (body[b] = "unloaded" => b = FileOf(NameOf(b)))
    BY <1>1, FileOfType
  <2>2. login' = [login EXCEPT ![c] = m]
    BY <1>1, <1>3 DEF IInv, TypeOK
  <2>0. /\ body' = [body EXCEPT ![b] = IF @ = "unloaded" THEN "live" ELSE @]
        /\ UNCHANGED <<conn, user, author, saving, files, orphans, callouts>>
    BY <1>3
  <2> HIDE DEF b
  <2>3. m \in LoginObjects /\ m.prompt = "details" /\ m.Player = b /\ m.name = login[c].name
    BY <1>1, <2>1 DEF LoginObjects, Prompts
  <2> HIDE DEF m
  <2> USE DEF files
  <2>4. TypeOK'
    BY <2>0, <2>1, <2>2, <2>3 DEF IInv, TypeOK
  <2>5. UserExists'
    BY <2>0, <2>1, <2>2, <2>3 DEF IInv, TypeOK, UserExists
  <2>6. OneDriver' /\ OwnAnswers'
    BY <2>0, <2>2 DEF IInv, OneDriver, OwnAnswers
  <2>7. AlwaysAsked'
    BY <2>0, <2>1, <2>2, <2>3 DEF IInv, TypeOK, AlwaysAsked
  <2>8. LoginInv'
    <3> SUFFICES ASSUME NEW d \in Conns
                 PROVE  /\ conn'[d] = "none" => user'[d] = None
                        /\ login'[d] # None =>
                             /\ login'[d].prompt \notin {"InputName", "kill me", "none"} =>
                                  login'[d].name \in Names
                             /\ login'[d].prompt \in {"details", "InputCre"} =>
                                  login'[d].Player \in Bodies \/ login'[d].missed
                             /\ login'[d].Player # None => body'[login'[d].Player] # "unloaded"
                             /\ user'[d] # None => login'[d].Player = user'[d]
      BY DEF LoginInv
    <3>1. CASE d = c
      BY <1>1, <2>0, <2>1, <2>2, <2>3, <3>1 DEF IInv, TypeOK
    <3>2. CASE d # c
      BY <2>0, <2>1, <2>2, <3>2 DEF IInv, TypeOK, LoginInv, LoginObjects
    <3> QED
      BY <3>1, <3>2
  <2>9. AuthorInv'
    BY <2>0, <2>1 DEF IInv, TypeOK, AuthorInv
  <2>10. FileInv'
    <3>1. ASSUME NEW n \in Names, body'[<<"creators", n>>] # "unloaded"
          PROVE  saved'[n] = "creators"
      <4>1. CASE body[<<"creators", n>>] # "unloaded"
        BY <2>0, <4>1 DEF IInv, FileInv
      <4>2. CASE body[<<"creators", n>>] = "unloaded"
        <5>1. b = <<"creators", n>>
          BY <2>0, <3>1, <4>2, BodyIs DEF IInv, TypeOK
        <5> QED
          BY <2>0, <2>1, <4>2, <5>1, BodyIs DEF FileOf
      <4> QED
        BY <4>1, <4>2
    <3>2. /\ \A d \in Bodies : body[d] = "live" => body'[d] = "live"
          /\ \A d \in Bodies : body'[d] # "destructed" => body[d] # "destructed"
      BY <2>0, <2>1 DEF IInv, TypeOK
    <3> QED
      BY <2>0, <3>1, <3>2, BodyIs DEF IInv, TypeOK, FileInv
  <2> QED
    BY <2>4, <2>5, <2>6, <2>7, <2>8, <2>9, <2>10 DEF IInv
<1>4. CASE \E p \in {"none", "details"} : Ask(c, [Missed(login[c]) EXCEPT !.prompt = p])
  BY <1>1, <1>4, MissedKeeps
<1> QED
  BY <1>2, <1>3, <1>4 DEF ConfirmPassword, LoadBody, Fails

\* The last answer completes the character, unless its body was destructed.
LEMMA InputCreKeeps == ASSUME IInv, NEW c \in Conns, InputCre(c) PROVE IInv'
<1>1. /\ conn[c] = "open" /\ user[c] = None /\ login[c] # None /\ login[c] \in LoginObjects
      /\ login[c].name \in Names
      /\ login[c].Player \in Bodies \/ (login[c].Player = None /\ login[c].missed)
      /\ login[c].Player # None => body[login[c].Player] # "unloaded"
  BY DEF InputCre, AtPrompt, IInv, TypeOK, LoginInv, LoginObjects
<1> PICK yes \in BOOLEAN : eventCompleteChar(c, [login[c] EXCEPT !.yescre = yes])
  BY DEF InputCre
<1> DEFINE b == login[c].Player
           l == [login[c] EXCEPT !.yescre = yes]
           k == [l EXCEPT !.ender = "eventCre"]
           e == [l EXCEPT !.prompt = "none"]
<1>2. l.Player = b
  BY <1>1 DEF LoginObjects
<1>3. k \in LoginObjects /\ k.Player = b
  BY <1>1 DEF LoginObjects, Enders
<1>4. e \in LoginObjects /\ e.Player = b /\ e.prompt = "none" /\ e.missed = login[c].missed
  BY <1>1 DEF LoginObjects, Prompts
<1>5. CASE b = None \/ body[b] = "destructed"
  <2>1. Ask(c, e)
    BY <1>2, <1>5 DEF eventCompleteChar, Fails
  <2> HIDE DEF e
  <2> QED
    BY <2>1, <1>1, <1>4, <1>5, AskKeeps, LoginsAssumption
<1>6. CASE b # None /\ body[b] # "destructed"
  <2>1. /\ eventEnterGame(c, b, k)
        /\ author' = [author EXCEPT ![b] = c]
        /\ Save(b, c)
        /\ UNCHANGED callouts
    BY <1>2, <1>6 DEF eventCompleteChar
  <2>2. b \in Bodies /\ body[b] # "unloaded"
    BY <1>1, <1>6
  <2> HIDE DEF k
  <2> QED
    BY <2>1, <2>2, <1>1, <1>3, <1>6, EnterGameKeeps
<1> QED
  BY <1>5, <1>6

\* The time that a login may take is over: its body goes with it.
LEMMA TimeoutKeeps == ASSUME IInv, NEW c \in Conns, eventTimeout(c) PROVE IInv'
<1>1. login[c].Player \in Bodies
  BY DEF eventTimeout, IInv, TypeOK, LoginInv
<1>2. Destruct({login[c].Player}, {c}) /\ UNCHANGED <<user, author, files, callouts>>
  BY DEF eventTimeout
<1>3. {login[c].Player} \in SUBSET Bodies /\ {c} \in SUBSET Conns
  BY <1>1
<1>4. FileStep /\ callouts' \in BOOLEAN
  BY <1>2 DEF FileStep, IInv, TypeOK
<1> QED
  BY <1>2, <1>3, <1>4, DestructKeeps

\* Saving a file and the end of the call-out thread change nothing that connections,
\* logins and bodies have to do with each other.
LEMMA OthersKeep ==
  ASSUME IInv, UNCHANGED <<conn, user, login, body, author>>, FileStep,
         saving' \in SUBSET saving, orphans' \in BOOLEAN, callouts' \in BOOLEAN
  PROVE  IInv'
<1> USE DEF IInv
<1>1. TypeOK'
  BY FileStepIs DEF TypeOK
<1>2. UserExists' /\ OneDriver' /\ AlwaysAsked'
  BY DEF UserExists, OneDriver, AlwaysAsked
<1>3. OwnAnswers'
  BY FileStepOwn DEF OwnAnswers
<1>4. LoginInv'
  BY DEF LoginInv
<1>5. AuthorInv'
  BY DEF AuthorInv
<1>6. FileInv'
  BY FileStepIs, BodyIs DEF FileInv, AuthorInv
<1> QED
  BY <1>1, <1>2, <1>3, <1>4, <1>5, <1>6

-----------------------------------------------------------------------------
(* Every state *)

\* Every reachable state satisfies the invariant.
THEOREM Inductive == Spec => []IInv
<1> USE LoginsAssumption
<1>1. Init => IInv
  <2> USE DEF Init
  <2>1. Init => TypeOK
    <3> SUFFICES ASSUME Init PROVE TypeOK
      OBVIOUS
    <3>1. conn \in [Conns -> {"none", "open", "closed"}]
      OBVIOUS
    <3>2. user \in [Conns -> Bodies \cup {None}] /\ login \in [Conns -> LoginObjects \cup {None}]
      OBVIOUS
    <3>3. body \in [Bodies -> {"unloaded", "live", "destructed"}]
      OBVIOUS
    <3>4. author \in [Bodies -> Conns \cup {None}] /\ saving \in SUBSET Bodies
      OBVIOUS
    <3>5. saved \in [Names -> {"players", "creators", "none"}]
          /\ written \in [Names -> Conns \cup {None}]
      OBVIOUS
    <3> QED
      BY <3>1, <3>2, <3>3, <3>4, <3>5 DEF TypeOK
  <2>2. Init => UserExists /\ OneDriver /\ OwnAnswers /\ AlwaysAsked
    BY DEF UserExists, OneDriver, OwnAnswers, AlwaysAsked
  <2>3. Init => LoginInv
    BY DEF LoginInv
  <2>4. Init => AuthorInv /\ FileInv
    BY BodyIs DEF AuthorInv, FileInv
  <2> QED
    BY <2>1, <2>2, <2>3, <2>4 DEF IInv
<1>2. IInv /\ [Next]_vars => IInv'
  <2> SUFFICES ASSUME IInv, [Next]_vars PROVE IInv'
    OBVIOUS
  <2>1. ASSUME NEW c \in Conns, Logon(c) PROVE IInv'
    BY <2>1, LogonKeeps
  <2>2. ASSUME NEW c \in Conns, NoName(c) PROVE IInv'
    BY <2>2, PromptKeeps, TurnAwayKeeps DEF NoName, AtPrompt, Prompts
  <2>3. ASSUME NEW c \in Conns, NotAllowed(c) PROVE IInv'
    BY <2>3, TurnAwayKeeps DEF NotAllowed
  <2>4. ASSUME NEW c \in Conns, InvalidName(c) PROVE IInv'
    BY <2>4, PromptKeeps DEF InvalidName, AtPrompt, Prompts
  <2>5. ASSUME NEW c \in Conns, NEW n \in Names, InputName(c, n) PROVE IInv'
    BY <2>5, InputNameKeeps
  <2>6. ASSUME NEW c \in Conns, NEW n \in Names, eventCreatePlayer(c, n) PROVE IInv'
    BY <2>6, CreateKeeps
  <2>7. ASSUME NEW c \in Conns, ConfirmName(c) PROVE IInv'
    <3>1. login[c].name \in Names
      BY <2>7 DEF ConfirmName, AtPrompt, IInv, LoginInv
    <3> QED
      BY <2>7, <3>1, PromptKeeps DEF ConfirmName, AtPrompt, Prompts
  <2>8. ASSUME NEW c \in Conns, AgeCheck(c) PROVE IInv'
    <3>1. login[c].name \in Names
      BY <2>8 DEF AgeCheck, AtPrompt, IInv, LoginInv
    <3> QED
      BY <2>8, <3>1, PromptKeeps, TurnAwayKeeps DEF AgeCheck, AtPrompt, Prompts
  <2>9. ASSUME NEW c \in Conns, CreatePassword(c) PROVE IInv'
    <3>1. login[c].name \in Names
      BY <2>9 DEF CreatePassword, AtPrompt, IInv, LoginInv
    <3> QED
      BY <2>9, <3>1, PromptKeeps DEF CreatePassword, AtPrompt, Prompts
  <2>10. ASSUME NEW c \in Conns, ConfirmPassword(c) PROVE IInv'
    BY <2>10, ConfirmPasswordKeeps
  <2>11. ASSUME NEW c \in Conns, InputDetails(c) PROVE IInv'
    <3>1. login[c].name \in Names /\ (login[c].Player \in Bodies \/ login[c].missed)
      BY <2>11 DEF InputDetails, AtPrompt, IInv, LoginInv
    <3> QED
      BY <2>11, <3>1, PromptKeeps DEF InputDetails, AtPrompt, Prompts
  <2>12. ASSUME NEW c \in Conns, InputCre(c) PROVE IInv'
    BY <2>12, InputCreKeeps
  <2>13. ASSUME NEW c \in Conns, cmdQuit(c) PROVE IInv'
    <3>1. Destruct({user[c]}, {}) /\ user[c] \in Bodies /\ UNCHANGED <<user, author>>
          /\ Save(user[c], author[user[c]]) /\ callouts' \in BOOLEAN
      BY <2>13 DEF cmdQuit, IInv, TypeOK
    <3>2. body[user[c]] = "live"
      BY <2>13 DEF cmdQuit, IInv, UserExists
    <3>3. {user[c]} \in SUBSET Bodies /\ {} \in SUBSET Conns
      BY <3>1
    <3>4. FileStep
      BY <3>1, <3>2 DEF FileStep
    <3> QED
      BY <3>1, <3>3, <3>4, DestructKeeps
  <2>14. ASSUME NEW c \in Conns, HangUp(c) PROVE IInv'
    <3> USE <2>14 DEF HangUp, IInv, files
    <3>1. TypeOK'
      BY DEF TypeOK
    <3>2. UserExists' /\ OneDriver' /\ OwnAnswers' /\ AlwaysAsked'
      BY DEF TypeOK, UserExists, OneDriver, OwnAnswers, AlwaysAsked
    <3>3. LoginInv'
      BY DEF TypeOK, LoginInv
    <3>4. AuthorInv' /\ FileInv'
      BY DEF TypeOK, AuthorInv, FileInv
    <3> QED
      BY <3>1, <3>2, <3>3, <3>4
  <2>15. ASSUME NEW c \in Conns, eventCheckPending(c) PROVE IInv'
    BY <2>15, TurnAwayKeeps DEF eventCheckPending
  <2>16. ASSUME NEW c \in Conns, eventCre(c) PROVE IInv'
    <3>1. Destruct({}, {c}) /\ login[c] \in LoginObjects /\ UNCHANGED <<user, author>>
          /\ saved' = Promoted(login[c]) /\ UNCHANGED written /\ callouts' \in BOOLEAN
      BY <2>16 DEF eventCre, IInv, TypeOK
    <3>2. FileStep
      BY <3>1 DEF FileStep
    <3> QED
      BY <3>1, <3>2, DestructKeeps
  <2>17. ASSUME NEW c \in Conns, eventTimeout(c) PROVE IInv'
    BY <2>17, TimeoutKeeps
  <2>18. ASSUME NEW b \in Bodies, save_player(b) PROVE IInv'
    <3>1. body[b] # "unloaded"
      BY <2>18 DEF save_player, IInv, FileInv
    <3>2. FileStep
      BY <2>18, <3>1 DEF save_player, FileStep
    <3> QED
      BY <2>18, <3>2, OthersKeep DEF save_player, IInv, TypeOK
  <2>19. CASE OrphanFires
    BY <2>19, OthersKeep DEF OrphanFires, FileStep, IInv, TypeOK
  <2>20. CASE Restart
    <3> USE <2>20 DEF Restart, IInv
    <3>1. TypeOK'
      BY DEF TypeOK
    <3>2. UserExists' /\ OneDriver' /\ OwnAnswers' /\ AlwaysAsked'
      BY DEF UserExists, OneDriver, OwnAnswers, AlwaysAsked
    <3>3. LoginInv'
      BY DEF LoginInv
    <3>4. AuthorInv' /\ FileInv'
      BY BodyIs DEF AuthorInv, FileInv
    <3> QED
      BY <3>1, <3>2, <3>3, <3>4
  <2>21. CASE UNCHANGED vars
    BY <2>21, OthersKeep DEF vars, FileStep, IInv, TypeOK
  <2> QED
    BY <2>1, <2>2, <2>3, <2>4, <2>5, <2>6, <2>7, <2>8, <2>9, <2>10, <2>11, <2>12, <2>13,
       <2>14, <2>15, <2>16, <2>17, <2>18, <2>19, <2>20, <2>21 DEF Next
<1> QED
  BY <1>1, <1>2, PTL DEF Spec

\* Types: what a handler finds in a login, and where a player's file may be.
THEOREM TypeCorrect == Spec => []TypeOK
<1>1. IInv => TypeOK
  BY DEF IInv
<1> QED
  BY <1>1, Inductive, PTL

\* Two connections are never for the same body.
THEOREM OneDriverEver == Spec => []OneDriver
<1>1. IInv => OneDriver
  BY DEF IInv
<1> QED
  BY <1>1, Inductive, PTL

\* An open connection is always for a login or a body that exists.
THEOREM UserExistsEver == Spec => []UserExists
<1>1. IInv => UserExists
  BY DEF IInv
<1> QED
  BY <1>1, Inductive, PTL

\* A login without a prompt has met a body that was destructed or could not be loaded.
THEOREM AskedUnlessDestructed == Spec => []AlwaysAsked
<1>1. IInv => AlwaysAsked
  BY DEF IInv
<1> QED
  BY <1>1, Inductive, PTL

\* The answers in a body that is played, and in its player's file, are its player's own.
THEOREM AnswersAreOwn == Spec => []OwnAnswers
<1>1. IInv => OwnAnswers
  BY DEF IInv
<1> QED
  BY <1>1, Inductive, PTL

\* Neither saving nor promoting, of whichever body, takes a creator's file back.
THEOREM CreatorsStay == Spec => StaysCreator
<1>1. IInv /\ [Next]_vars =>
        [\A n \in Names : saved[n] = "creators" => saved'[n] = "creators"]_vars
  <2> SUFFICES ASSUME IInv, Next, NEW n \in Names, saved[n] = "creators"
               PROVE  saved'[n] = "creators"
    OBVIOUS
  <2>1. saved \in [Names -> {"players", "creators", "none"}]
    BY DEF IInv, TypeOK
  <2>2. \A b : SavedBy(b)[n] = "creators"
    BY <2>1 DEF SavedBy
  <2>3. \A l : Promoted(l)[n] = "creators"
    BY <2>1 DEF Promoted
  <2>4. saved' = saved \/ (\E b : saved' = SavedBy(b)) \/ (\E l : saved' = Promoted(l))
    BY DEF Next, Logon, NoName, NotAllowed, InvalidName, InputName, InputPassword,
       eventCreatePlayer, ConfirmName, AgeCheck, CreatePassword, ConfirmPassword, LoadBody,
       InputDetails, InputCre, eventCompleteChar, Save, files, cmdQuit, HangUp, eventCheckPending, eventCre, eventTimeout,
       save_player, OrphanFires, Restart, Ask, AskFor, Fails, TurnAway
  <2> QED
    BY <2>2, <2>3, <2>4
<1> QED
  BY <1>1, Inductive, PTL DEF Spec, StaysCreator
=============================================================================
