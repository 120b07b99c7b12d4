------------------------------ MODULE Logins ------------------------------
(***************************************************************************)
(* How a connection becomes a player: the login object that asks for a     *)
(* name and creates characters, the player files, the bodies loaded for    *)
(* them, and the call-outs that are to clear the login objects away.       *)
(*                                                                         *)
(* Code:  secure/lib/connect.c, player_object and compile_object of        *)
(* secure/daemon/master.c, lib/interactive.c, lib/user/autosave.c and      *)
(* secure/cmds/admins/encre.c of lib.ds, over the driver's exec, destruct  *)
(* and call_out.                                                           *)
(*                                                                         *)
(* A line from a client, and a call-out, runs one handler to its end, so   *)
(* an action is a handler.  find_player is a stub in this driver and finds *)
(* nobody: what the code does when it finds someone never happens.         *)
(***************************************************************************)
EXTENDS Naturals, FiniteSets

CONSTANTS
  MaxConns,   \* bound: the connections made between two starts of the driver
  Names,      \* the names of players
  SameIpMax,  \* SAME_IP_MAX; 0 for no limit, or if the site's address is exempt
  None

\* Connections are numbered as they come, and so are their login objects.
Conns == 1 .. MaxConns

\* A player's file is under players or, once he was promoted, under creators,
\* and the object named like the file is his body.
Bodies == {"players", "creators"} \X Names
NameOf(b) == b[2]

VARIABLES
  conn,      \* a connection's channel
  user,      \* the body that a connection is for, None while it is for its login
  login,     \* the login object of a connection
  body,      \* the object loaded for a player file
  author,    \* the login whose answers a body holds, None for those of its file
  saving,    \* the bodies whose call-outs to save_player are pending
  saved,     \* where the file of a player is
  written,   \* history: the login whose answers a file holds, None if it was not
             \* created since the driver started
  orphans,   \* a call-out to a destructed object is pending
  callouts   \* the call-out thread is alive

files == <<saved, written>>
vars == <<conn, user, login, body, author, saving, files, orphans, callouts>>

\* The function that input_to installed last; "none" when a handler failed or
\* the connection is for a body.  "details" stands for InputGender,
\* InputCapName, InputEmail, InputRealName and InputRace.
Prompts == {"InputName", "kill me", "ConfirmName", "AgeCheck", "CreatePassword",
            "ConfirmPassword", "details", "InputCre", "none"}

\* Where the login object is destructed: by eventCheckPending or eventCre.
Enders == {"eventCheckPending", "eventCre", "none"}

\* missed is a history: its body could not be loaded.
LoginObjects == [prompt : Prompts, name : Names \cup {None}, Player : Bodies \cup {None},
                 missed : BOOLEAN, yescre : BOOLEAN, ender : Enders]

ASSUME LoginsAssumption ==
  MaxConns \in Nat /\ SameIpMax \in Nat /\ None \notin Conns \cup Names \cup Bodies \cup LoginObjects

TypeOK ==
  /\ conn \in [Conns -> {"none", "open", "closed"}]
  /\ user \in [Conns -> Bodies \cup {None}]
  /\ login \in [Conns -> LoginObjects \cup {None}]
  /\ body \in [Bodies -> {"unloaded", "live", "destructed"}]
  /\ author \in [Bodies -> Conns \cup {None}]
  /\ saving \in SUBSET Bodies
  /\ saved \in [Names -> {"players", "creators", "none"}]
  /\ written \in [Names -> Conns \cup {None}]
  /\ orphans \in BOOLEAN
  /\ callouts \in BOOLEAN

NewLogin == [prompt |-> "InputName", name |-> None, Player |-> None,
             missed |-> FALSE, yescre |-> FALSE, ender |-> "none"]

Init ==
  /\ conn = [c \in Conns |-> "none"]
  /\ user = [c \in Conns |-> None]
  /\ login = [c \in Conns |-> None]
  /\ body = [b \in Bodies |-> "unloaded"]
  /\ author = [b \in Bodies |-> None]
  /\ saving = {}
  /\ saved = [n \in Names |-> "none"]
  /\ written = [n \in Names |-> None]
  /\ orphans = FALSE
  /\ callouts = TRUE

-----------------------------------------------------------------------------
\* destruct of bodies and of login objects.  It closes their connections and
\* leaves their call-outs pending: eventTimeout of a login, which is armed for as
\* long as the login exists, and save_player of a body.  A body that is destructed
\* is still what load_object finds for its file (ObjectManager).
Destruct(bs, cs) ==
  /\ body' = [b \in Bodies |-> IF b \in bs /\ body[b] = "live" THEN "destructed" ELSE body[b]]
  /\ conn' = [c \in Conns |->
       IF conn[c] = "open" /\ (user[c] \in bs \/ (user[c] = None /\ c \in cs))
         THEN "closed" ELSE conn[c]]
  /\ login' = [c \in Conns |-> IF c \in cs THEN None ELSE login[c]]
  /\ saving' = saving \ bs
  /\ orphans' = (orphans \/ cs # {} \/ saving \cap bs # {})

\* interactive: the attribute that exec moves goes with the object, not with the channel.
Interactive(b) == body[b] = "live" /\ \E c \in Conns : conn[c] # "none" /\ user[c] = b

AtPrompt(c, p) ==
  /\ conn[c] = "open"
  /\ user[c] = None
  /\ login[c] # None
  /\ login[c].prompt = p

Ask(c, l) ==
  /\ login' = [login EXCEPT ![c] = l]
  /\ UNCHANGED <<conn, user, body, author, saving, files, orphans, callouts>>

AskFor(c, p) == Ask(c, [login[c] EXCEPT !.prompt = p])

\* Destruct of connect.c before a body is known.
TurnAway(c) == Destruct({}, {c}) /\ UNCHANGED <<user, author, files, callouts>>

\* A handler fails: input_to had taken its handler away and nothing installs another.
Fails(c, l) == Ask(c, [l EXCEPT !.prompt = "none"])
-----------------------------------------------------------------------------
\* The connections that were made since the driver started.
Accepted == {c \in Conns : conn[c] # "none"}

\* users(): the connections that are for an object in a room.  One that is closed, but
\* whose body is still there, is among them; a login, or what was destructed, is not.
InGame == {c \in Conns : user[c] \in Bodies /\ body[user[c]] = "live"}

\* query_ip_number, a stub, has the same address for everybody.
CheckIp == SameIpMax = 0 \/ Cardinality(InGame) < SameIpMax

Logon(c) ==
  /\ Accepted = 1 .. c - 1
  /\ IF CheckIp
       THEN /\ conn' = [conn EXCEPT ![c] = "open"]
            /\ login' = [login EXCEPT ![c] = NewLogin]
            /\ UNCHANGED orphans
       ELSE /\ conn' = [conn EXCEPT ![c] = "closed"]
            /\ orphans' = TRUE
            /\ UNCHANGED login
  /\ UNCHANGED <<user, body, author, saving, files, callouts>>

\* exec, then Setup, whose call-outs are to save the player.
Enter(c, b, l) ==
  /\ user' = [user EXCEPT ![c] = b]
  /\ login' = [login EXCEPT ![c] = [l EXCEPT !.prompt = "none"]]
  /\ body' = [body EXCEPT ![b] = IF @ = "unloaded" THEN "live" ELSE @]
  /\ saving' = saving \cup {b}
  /\ UNCHANGED <<conn, orphans>>

\* Mutant: the login goes, the body stays.
RefuseOnly(c, b, l) ==
  IF Interactive(b) THEN Destruct({}, {c}) /\ UNCHANGED user ELSE Enter(c, b, l)

\* exec refuses a body that has a connection; the handler then destructs both.
eventEnterGame(c, b, l) ==
  IF Interactive(b) THEN Destruct({b}, {c}) /\ UNCHANGED user ELSE Enter(c, b, l)

\* Mutant: whoever has no file yet has no directory either.
FileAsSaved(n) == <<saved[n], n>>

\* The file that player_object loads.
FileOf(n) == <<IF saved[n] = "creators" THEN "creators" ELSE "players", n>>

\* Mutant: nothing is armed to destruct the login.
PasswordUnarmed(c, n) ==
  LET b == FileOf(n)
      l == [login[c] EXCEPT !.name = n, !.Player = b]
  IN IF body[b] = "destructed"
       THEN Fails(c, l)
       ELSE eventEnterGame(c, b, l) /\ UNCHANGED <<author, files, callouts>>

\* player_object of a body that is not loaded yet may end in an error, or find nothing.
Missed(l) == [l EXCEPT !.missed = TRUE]

\* The body is touched, which fails if it was destructed, before it is entered.
InputPassword(c, n) ==
  LET b == FileOf(n)
      k == [login[c] EXCEPT !.name = n]
      l == [k EXCEPT !.Player = b]
  IN \/ body[b] = "unloaded" /\ (Fails(c, Missed(k)) \/ TurnAway(c))
     \/ body[b] = "destructed" /\ Fails(c, l)
     \/ /\ body[b] # "destructed"
        /\ eventEnterGame(c, b, [l EXCEPT !.ender = "eventCheckPending"])
        /\ UNCHANGED <<author, files, callouts>>

NoName(c) ==
  \/ AtPrompt(c, "InputName") /\ AskFor(c, "kill me")
  \/ AtPrompt(c, "kill me") /\ TurnAway(c)

AtName(c) == AtPrompt(c, "InputName") \/ AtPrompt(c, "kill me")

\* The mud is locked, or the name, the site or a linked character is not let in.
NotAllowed(c) == AtName(c) /\ TurnAway(c)

InputName(c, n) ==
  /\ AtName(c)
  /\ saved[n] # "none"
  /\ InputPassword(c, n)

\* valid_name, and eventConnect of the banish daemon, let a new name pass.
eventCreatePlayer(c, n) ==
  /\ AtName(c)
  /\ saved[n] = "none"
  /\ Ask(c, [login[c] EXCEPT !.prompt = "ConfirmName", !.name = n])

InvalidName(c) == AtPrompt(c, "kill me") /\ AskFor(c, "InputName")

\* Mutant: no prompt after the name was declined.
ConfirmNameOnce(c) ==
  /\ AtPrompt(c, "ConfirmName")
  /\ \E p \in {"AgeCheck", "none"} : AskFor(c, p)

ConfirmName(c) ==
  /\ AtPrompt(c, "ConfirmName")
  /\ \E p \in {"AgeCheck", "InputName"} : AskFor(c, p)

AgeCheck(c) ==
  /\ AtPrompt(c, "AgeCheck")
  /\ AskFor(c, "CreatePassword") \/ TurnAway(c)

CreatePassword(c) == AtPrompt(c, "CreatePassword") /\ AskFor(c, "ConfirmPassword")

\* The passwords agree: the body is loaded.  That there is none is not noticed here.
LoadBody(c, b) ==
  \/ /\ login' = [login EXCEPT ![c].prompt = "details", ![c].Player = b]
     /\ body' = [body EXCEPT ![b] = IF @ = "unloaded" THEN "live" ELSE @]
     /\ UNCHANGED <<conn, user, author, saving, files, orphans, callouts>>
  \/ /\ body[b] = "unloaded"
     /\ \/ Fails(c, Missed(login[c]))
        \/ Ask(c, [Missed(login[c]) EXCEPT !.prompt = "details"])

ConfirmPassword(c) ==
  /\ AtPrompt(c, "ConfirmPassword")
  /\ AskFor(c, "CreatePassword") \/ LoadBody(c, FileOf(login[c].name))

InputDetails(c) == AtPrompt(c, "details") /\ AskFor(c, "InputCre")

\* Mutant: the file is written to where the body was loaded from.
SavedAsLoaded(b) == [saved EXCEPT ![NameOf(b)] = b[1]]

\* A player's file is written where it is found, as a player's if there is none.
SavedBy(b) ==
  [saved EXCEPT ![NameOf(b)] = IF @ = "creators" THEN "creators" ELSE "players"]

\* save_object of a body with the answers of "who".
Save(b, who) ==
  /\ saved' = SavedBy(b)
  /\ written' = [written EXCEPT ![NameOf(b)] = who]

\* Mutant: the answers are kept for later, so that nothing fails.
CompleteUntouched(c, l) ==
  /\ l.Player \in Bodies
  /\ author' = [author EXCEPT ![l.Player] = c]
  /\ Save(l.Player, c)
  /\ eventEnterGame(c, l.Player, [l EXCEPT !.ender = "eventCre"])
  /\ UNCHANGED callouts

\* The answers go into the body, whoever else may be in it by now, and SetPassword
\* saves it: valid_apply lets the body and the login pass.
eventCompleteChar(c, l) ==
  IF l.Player = None \/ body[l.Player] = "destructed"
    THEN Fails(c, l)
    ELSE /\ author' = [author EXCEPT ![l.Player] = c]
         /\ Save(l.Player, c)
         /\ eventEnterGame(c, l.Player, [l EXCEPT !.ender = "eventCre"])
         /\ UNCHANGED callouts

InputCre(c) ==
  /\ AtPrompt(c, "InputCre")
  /\ \E yes \in BOOLEAN : eventCompleteChar(c, [login[c] EXCEPT !.yescre = yes])
-----------------------------------------------------------------------------
cmdQuit(c) ==
  /\ conn[c] = "open"
  /\ user[c] \in Bodies
  /\ Save(user[c], author[user[c]])
  /\ Destruct({user[c]}, {})
  /\ UNCHANGED <<user, author, callouts>>

\* The client goes.  Nothing tells the objects: connectionClosed is never called.
HangUp(c) ==
  /\ conn[c] = "open"
  /\ conn' = [conn EXCEPT ![c] = "closed"]
  /\ UNCHANGED <<user, login, body, author, saving, files, orphans, callouts>>

save_player(b) ==
  /\ callouts
  /\ b \in saving
  /\ saving' = saving \ {b}
  /\ Save(b, author[b])
  /\ UNCHANGED <<conn, user, login, body, author, orphans, callouts>>

\* The ten second call-out of eventEnterGame finds the login gone: the call-outs
\* below come earlier.
eventCheckPending(c) ==
  /\ callouts
  /\ login[c] # None
  /\ login[c].ender = "eventCheckPending"
  /\ TurnAway(c)

\* cmd of encre moves the file of a player who wants to be a creator, if he has one.
Promoted(l) ==
  IF l.yescre /\ saved[l.name] = "players" THEN [saved EXCEPT ![l.name] = "creators"] ELSE saved

eventCre(c) ==
  /\ callouts
  /\ login[c] # None
  /\ login[c].ender = "eventCre"
  /\ saved' = Promoted(login[c])
  /\ Destruct({}, {c})
  /\ UNCHANGED <<user, author, written, callouts>>

\* A login that still has its connection arms the call-out again: query_idle is 0.
eventTimeout(c) ==
  /\ callouts
  /\ login[c] # None
  /\ user[c] # None
  /\ Destruct({login[c].Player}, {c})
  /\ UNCHANGED <<user, author, files, callouts>>

\* The error of a call-out to a destructed object ends the call-out thread.
OrphanFires ==
  /\ callouts
  /\ orphans
  /\ callouts' = FALSE
  /\ orphans' = FALSE
  /\ UNCHANGED <<conn, user, login, body, author, saving, files>>

\* The driver stops, or crashes, and starts again with the files.
Restart ==
  /\ Accepted # {}
  /\ conn' = [c \in Conns |-> "none"]
  /\ user' = [c \in Conns |-> None]
  /\ login' = [c \in Conns |-> None]
  /\ body' = [b \in Bodies |-> "unloaded"]
  /\ author' = [b \in Bodies |-> None]
  /\ written' = [n \in Names |-> None]
  /\ saving' = {}
  /\ orphans' = FALSE
  /\ callouts' = TRUE
  /\ UNCHANGED saved

Next ==
  \/ \E c \in Conns :
       \/ Logon(c) \/ NoName(c) \/ NotAllowed(c) \/ InvalidName(c)
       \/ \E n \in Names : InputName(c, n) \/ eventCreatePlayer(c, n)
       \/ ConfirmName(c) \/ AgeCheck(c) \/ CreatePassword(c) \/ ConfirmPassword(c)
       \/ InputDetails(c) \/ InputCre(c)
       \/ cmdQuit(c) \/ HangUp(c)
       \/ eventCheckPending(c) \/ eventCre(c) \/ eventTimeout(c)
  \/ \E b \in Bodies : save_player(b)
  \/ OrphanFires
  \/ Restart

\* The call-out thread runs what is due.
Fairness ==
  \A c \in Conns : WF_vars(eventCheckPending(c)) /\ WF_vars(eventCre(c))

Spec == Init /\ [][Next]_vars /\ Fairness
-----------------------------------------------------------------------------
\* No two connections are for the same body: although logins find the
\* body of a name that is in play, or that another login has loaded to create it.
OneDriver ==
  \A c, d \in Conns :
    c # d /\ conn[c] = "open" /\ conn[d] = "open" /\ user[c] \in Bodies => user[c] # user[d]

\* An open connection is for a login or a body that exists, although load_object
\* finds destructed bodies and exec would let a connection into one.
UserExists ==
  \A c \in Conns : conn[c] = "open" =>
    IF user[c] = None THEN login[c] # None ELSE body[user[c]] = "live"

\* Whoever is still at a login has been asked something, unless the body of his name
\* has been destructed since the driver started, or could not be loaded for him.
AlwaysAsked ==
  \A c \in Conns : conn[c] = "open" /\ user[c] = None /\ login[c].prompt = "none" =>
    \/ login[c].missed
    \/ login[c].Player \in Bodies /\ body[login[c].Player] = "destructed"

\* A character in play holds its file's answers or those of its own player, not those
\* of somebody who was creating a character of the same name at the same time; and so
\* does its file, which the other's completion writes as well, while it is a player's.
OwnAnswers ==
  \A c \in Conns : conn[c] = "open" /\ user[c] \in Bodies =>
    LET n == NameOf(user[c]) IN
    /\ author[user[c]] \in {c, None}
    /\ saved[n] = "players" => written[n] \in {c, None}

\* Who has been made a creator stays one, whichever body of his is saved later.
StaysCreator ==
  [][\A n \in Names : saved[n] = "creators" => saved'[n] = "creators"]_vars

\* A login that has handed its connection over is destructed in the end, if the
\* call-out thread lives: it does not stay behind as a second object of the player.
LoginsEnd ==
  \A c \in Conns : login[c] # None /\ user[c] # None ~> login[c] = None \/ ~callouts
=============================================================================
