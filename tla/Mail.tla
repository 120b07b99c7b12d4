------------------------------- MODULE Mail -------------------------------
(***************************************************************************)
(* The post boxes through which users read, delete, save and send mail,    *)
(* over the daemons of PostOffice.  A line that a user types goes to the   *)
(* handler that input_to installed last and runs to its end, so that an    *)
(* action is a line.                                                       *)
(*                                                                         *)
(* Code:  secure/obj/post.c of lib.ds.                                     *)
(***************************************************************************)
EXTENDS PostOffice

CONSTANTS
  Mailers,   \* the post boxes, of which there may be several to a user
  Readers,   \* bound: the users whose folders are looked into
  MaxTo,     \* bound: the addressees of a letter
  MaxNew,    \* bound: the letters in a user's "new"
  MaxBox,    \* bound: the letters in a folder that a user saves to
  MaxPrompts \* bound: with so many handlers waiting a user only quits or answers

ASSUME MailAssumption ==
  Readers \subseteq Users /\ {MaxTo, MaxNew, MaxBox, MaxPrompts} \subseteq Nat

VARIABLES
  contract, \* find_player and input_to keep the contract that the mudlib is written
            \* for; or do what this repository's efuns do
  post,     \* the mail in the daemons and their files
  box,      \* __BoxInfo and __Delete of a mailer
  where,    \* __Owner, __Folder and __CommandLine, the owner None if it is not in use
  shares,   \* the mailers whose __BoxInfo has the mappings of FOLDERS_D's
  told,     \* the mailers with __IncomingFlag set
  draft,    \* the letter that is being written, named by its date
  begun,    \* how many were
  prompts   \* the handlers that input_to has installed for a user, the last one first

vars == <<contract, post, box, where, shares, told, draft, begun, prompts>>

\* What a mailer shows of a letter.
Lines == [id : Letters, read : BOOLEAN, del : BOOLEAN]

Prompt(m, fn, arg, range) == [m |-> m, fn |-> fn, arg |-> arg, range |-> range]
Ask(m, fn) == Prompt(m, fn, None, <<0, 0>>)

Prompts ==
  [m : Mailers, fn : {"index", "write", "confirm_delete"}, arg : {None},
   range : {<<0, 0>>}]
  \cup [m : Mailers, fn : {"next_folder"}, arg : Folders \cup {None}, range : {<<0, 0>>}]
  \cup [m : Mailers, fn : {"confirm_quit"}, arg : {"q", "Q"}, range : {<<0, 0>>}]
  \cup [m : Mailers, fn : {"unread_delete"}, arg : {None}, range : Nat \X Nat]

Unused == [who |-> None, folder |-> None, commandLine |-> FALSE]

TypeOK ==
  /\ contract \in BOOLEAN
  /\ post \in Posts
  /\ box \in [Mailers -> Seq(Lines)]
  /\ where \in [Mailers -> [who : Users \cup {None}, folder : Folders \cup {None},
                            commandLine : BOOLEAN]]
  /\ shares \subseteq Mailers /\ told \subseteq Mailers
  /\ draft \in [Mailers -> Letters \cup {None}]
  /\ begun \in 0 .. MaxLetters
  /\ prompts \in [Users -> Seq(Prompts)]

Init ==
  /\ contract \in BOOLEAN
  /\ post = NoPost
  /\ box = [m \in Mailers |-> <<>>]
  /\ where = [m \in Mailers |-> Unused]
  /\ shares = {} /\ told = {}
  /\ draft = [m \in Mailers |-> None]
  /\ begun = 0
  /\ prompts = [u \in Users |-> <<>>]

-----------------------------------------------------------------------------
\* What every action is made of.

Owner(m) == where[m].who
Marked(m) == {i \in DOMAIN box[m] : box[m][i].del}
Of(u) == {m \in Mailers : Owner(m) = u}

\* The mappings that a mailer shares are FOLDERS_D's until that loads another folder.
Sharing(p) ==
  IF p.cache.who = post.cache.who /\ p.cache.folder = post.cache.folder THEN shares ELSE {}

\* The line of user u is taken from the last handler and `more' are installed.
Answer(u, more) == prompts' = [prompts EXCEPT ![u] = more \o Tail(@)]

\* A mutant of AskWith, which follows.
AskWithout(m, fn, arg, range) ==
  IF contract THEN <<Prompt(m, fn, None, range)>> ELSE <<>>

\* input_to with an argument after the function: here that is the integer flag, and the
\* call an error which ends the line.
AskWith(m, fn, arg, range) ==
  IF contract THEN <<Prompt(m, fn, arg, range)>> ELSE <<>>

\* The handler that waits for user u.
Awaits(u, m, fn) ==
  /\ prompts[u] # <<>>
  /\ Head(prompts[u]).m = m /\ Head(prompts[u]).fn = fn
  /\ Owner(m) = u

\* restore_box
Show(p, m, u, folder) ==
  LET q == Load(p, u, folder) IN
  /\ post' = q
  /\ box' = [box EXCEPT ![m] = [i \in DOMAIN q.cache.box |->
       [id |-> q.cache.box[i].id, read |-> q.cache.box[i].read, del |-> FALSE]]]
  /\ where' = [where EXCEPT ![m] = [@ EXCEPT !.who = u, !.folder = folder]]
  /\ shares' = Sharing(q) \cup {m}

\* save_box
SaveBox(m) == DeletePosts(post, Owner(m), where[m].folder, Marked(m), Len(box[m]))

\* eventDestruct
Destruct(m) ==
  /\ where' = [where EXCEPT ![m] = Unused]
  /\ box' = [box EXCEPT ![m] = <<>>]
  /\ told' = told \ {m}
  /\ draft' = [draft EXCEPT ![m] = None]

\* A line that changes nothing but what waits for the next one.
OnlyAsks(u, more) ==
  /\ Answer(u, more)
  /\ UNCHANGED <<contract, post, box, where, shares, told, draft, begun>>

-----------------------------------------------------------------------------
\* do_mail and start_post without arguments, or with the letter's addressees; the
\* object is new.
StartMail(u, m) ==
  /\ u \in Readers /\ prompts[u] = <<>> /\ Owner(m) = None
  /\ \A v \in Users : \A i \in DOMAIN prompts[v] : prompts[v][i].m # m
  /\ Show(post, m, u, "new")
  /\ prompts' = [prompts EXCEPT ![u] = <<Ask(m, "index")>>]
  /\ UNCHANGED <<contract, told, draft, begun>>

StartPost(u, m) ==
  /\ prompts[u] = <<>> /\ Owner(m) = None /\ begun < MaxLetters
  /\ \A v \in Users : \A i \in DOMAIN prompts[v] : prompts[v][i].m # m
  /\ where' = [where EXCEPT ![m] = [who |-> u, folder |-> None, commandLine |-> TRUE]]
  /\ begun' = begun + 1
  /\ draft' = [draft EXCEPT ![m] = begun + 1]
  /\ prompts' = [prompts EXCEPT ![u] = <<Ask(m, "write")>>]
  /\ UNCHANGED <<contract, post, box, shares, told>>

\* The user leaves the game, with the mailers in the inventory.
Leave(u) ==
  /\ Of(u) # {}
  /\ where' = [m \in Mailers |-> IF m \in Of(u) THEN Unused ELSE where[m]]
  /\ box' = [m \in Mailers |-> IF m \in Of(u) THEN <<>> ELSE box[m]]
  /\ draft' = [m \in Mailers |-> IF m \in Of(u) THEN None ELSE draft[m]]
  /\ shares' = shares \ Of(u) /\ told' = told \ Of(u)
  /\ prompts' = [prompts EXCEPT ![u] = <<>>]
  /\ UNCHANGED <<contract, post, begun>>

\* mail_status, when user u enters the game and when anybody fingers him.
MailStatus(u) ==
  /\ u \in Readers
  /\ post' = Load(post, u, "new")
  /\ shares' = Sharing(post')
  /\ UNCHANGED <<contract, box, where, told, draft, begun, prompts>>

\* A handler of a mailer that was destructed has no object to run in.
Swallow(u) ==
  /\ prompts[u] # <<>> /\ Owner(Head(prompts[u]).m) # u
  /\ OnlyAsks(u, <<>>)

-----------------------------------------------------------------------------
\* index_cmd

\* A command after incoming_post is refused, whatever it is.
Refuse(u, m) ==
  /\ Awaits(u, m, "index") /\ m \in told
  /\ told' = told \ {m}
  /\ Answer(u, <<Ask(m, "index")>>)
  /\ UNCHANGED <<contract, post, box, where, shares, draft, begun>>

Command(u, m) ==
  /\ Awaits(u, m, "index") /\ m \notin told
  /\ Len(prompts[u]) < MaxPrompts  \* bound

\* read_letter at index x of `lines', with the prompts that the line has made before;
\* where the mailer's mappings are FOLDERS_D's, the latter reads as read too, and is not
\* saved again.
ReadLetter(u, m, x, lines, before) ==
  /\ \E p \in IF lines[x].read THEN {post} ELSE MarkRead(post, u, where[m].folder, x) :
       /\ post' = IF m \in Sharing(p)
                  THEN [p EXCEPT !.cache.box =
                         AsRead(@, {i \in DOMAIN @ : @[i].id = lines[x].id})]
                  ELSE p
       /\ shares' = Sharing(p)
       /\ Answer(u, IF ~lines[x].read /\ x \notin DOMAIN p.cache.box THEN before
                    ELSE <<Ask(m, "index")>> \o before)
  /\ box' = [box EXCEPT ![m] = [lines EXCEPT ![x].read = TRUE]]
  /\ UNCHANGED <<contract, where, told, draft, begun>>

Read(u, m, x) ==
  /\ Command(u, m) /\ x \in DOMAIN box[m]
  /\ ReadLetter(u, m, x, box[m], <<>>)

Again(S, m) == [i \in 1 .. Cardinality(S) |-> Ask(m, "index")]
Mark(lines, S, del) == [i \in DOMAIN lines |-> IF i \in S THEN [lines[i] EXCEPT !.del = del] ELSE lines[i]]

\* The loop of delete_letter: it stops to ask at the first unread letter (no menu has
\* the option "unread delete") and prompts at each that is marked already.
Scan(u, m, lines, from, to) ==
  LET asked == {i \in from .. to : ~lines[i].del /\ ~lines[i].read}
      last == IF asked = {} THEN to ELSE Min(asked) - 1
  IN
  /\ box' = [box EXCEPT ![m] = Mark(lines, from .. last, TRUE)]
  /\ Answer(u, (IF asked = {} THEN <<Ask(m, "index")>>
                ELSE AskWith(m, "unread_delete", None, <<last + 1, to>>))
               \o Again({i \in from .. last : lines[i].del}, m))
  /\ UNCHANGED <<contract, post, where, shares, told, draft, begun>>

Delete(u, m, from, to) ==
  /\ Command(u, m) /\ from <= to /\ {from, to} \subseteq DOMAIN box[m]
  /\ Scan(u, m, box[m], from, to)

\* "d" without a letter: the current one, and then the next unmarked one is read.
DeleteAndRead(u, m, x) ==
  LET lines == Mark(box[m], {x}, TRUE)
      left == {i \in DOMAIN lines : i > x /\ ~lines[i].del}
  IN
  /\ Command(u, m) /\ x \in DOMAIN box[m] /\ left # {}
  /\ box[m][x].del \/ box[m][x].read
  /\ ReadLetter(u, m, Min(left), lines, Again({i \in {x} : box[m][i].del}, m))

Undelete(u, m, from, to) ==
  /\ Command(u, m) /\ from <= to /\ {from, to} \subseteq DOMAIN box[m]
  /\ box' = [box EXCEPT ![m] = Mark(@, from .. to, FALSE)]
  /\ Answer(u, <<Ask(m, "index")>> \o Again({i \in from .. to : ~box[m][i].del}, m))
  /\ UNCHANGED <<contract, post, where, shares, told, draft, begun>>

\* The prompt says that the default is "n" and the code takes "y"; the letters from the
\* one that was asked for on are scanned again.
UnreadDelete(u, m) ==
  LET from == Head(prompts[u]).range[1]
      to == Head(prompts[u]).range[2]
  IN
  /\ Awaits(u, m, "unread_delete")
  /\ \E S \in {{}, {from}} :
       LET lines == Mark(box[m], S, TRUE) IN
       IF from < to THEN Scan(u, m, lines, from, to)
       ELSE /\ box' = [box EXCEPT ![m] = lines]
            /\ Answer(u, <<Ask(m, "index")>>)
            /\ UNCHANGED <<contract, post, where, shares, told, draft, begun>>

\* save_letter to a folder, which takes the mailer's own mapping and marks it as read, or
\* to a file.
SaveLetter(u, m, x, folder) ==
  LET p == AddPost(post, u, folder, box[m][x].id) IN
  /\ Command(u, m) /\ x \in DOMAIN box[m]
  /\ folder \in Saved /\ Len(post.file[<<u, folder>>]) < MaxBox
  /\ post' = p
  /\ shares' = Sharing(p)
  /\ box' = [box EXCEPT ![m][x].read = TRUE, ![m][x].del = TRUE]
  /\ Answer(u, <<Ask(m, "index")>>)
  /\ UNCHANGED <<contract, where, told, draft, begun>>

\* The letter is shown afterwards unless the user came from the menu, or no later one
\* is left.
SaveToFile(u, m, x) ==
  LET lines == Mark(box[m], {x}, TRUE) IN
  /\ Command(u, m) /\ x \in DOMAIN box[m]
  /\ \/ (\E i \in DOMAIN lines : i > x /\ ~lines[i].del) /\ ReadLetter(u, m, x, lines, <<>>)
     \/ /\ box' = [box EXCEPT ![m] = lines]
        /\ Answer(u, <<Ask(m, "index")>>)
        /\ UNCHANGED <<contract, post, where, shares, told, draft, begun>>

-----------------------------------------------------------------------------
\* The next folder, and the way out.  Whether an option is set is the user's choice at
\* any time.

\* next_folder, with the answer to the question that it may have asked; an answer that
\* is neither is asked for again, without the folder, and the folder is changed all the
\* same.
NextFolder(u, m, folder, answer) ==
  /\ Show(IF answer = "y" THEN SaveBox(m) ELSE post, m, u, folder)
  /\ Answer(u, <<Ask(m, "index")>>
               \o (IF answer = "?" THEN <<Prompt(m, "next_folder", None, <<0, 0>>)>>
                   ELSE <<>>))
  /\ UNCHANGED <<contract, told, draft, begun>>

ChangeFolder(u, m, folder) ==
  /\ Command(u, m) /\ u \in Readers
  /\ \/ NextFolder(u, m, folder, "y")
     \/ /\ Marked(m) # {}  \* option "delete"
        /\ OnlyAsks(u, AskWith(m, "next_folder", folder, <<0, 0>>))

AnswerFolder(u, m) ==
  /\ Awaits(u, m, "next_folder")
  /\ \E answer \in {"y", "n", "?"} : NextFolder(u, m, Head(prompts[u]).arg, answer)

\* really_quit and the end of confirm_delete
Exit(u, m, p) ==
  /\ Destruct(m)
  /\ post' = p
  /\ shares' = Sharing(p) \ {m}
  /\ Answer(u, <<>>)
  /\ UNCHANGED <<contract, begun>>

ReallyQuit(u, m, cmd) ==
  \/ cmd = "q" /\ Exit(u, m, SaveBox(m))
  \/ (cmd = "Q" \/ Marked(m) = {}) /\ Exit(u, m, post)
  \/ cmd = "q" /\ Marked(m) # {} /\ OnlyAsks(u, <<Ask(m, "confirm_delete")>>)

\* Also from the other menus, whose commands do not look at __IncomingFlag; what else
\* they do changes nothing here, and a user at one of them counts as one at the index.
Quit(u, m, cmd) ==
  /\ Awaits(u, m, "index")
  /\ \/ ReallyQuit(u, m, cmd)
     \/ OnlyAsks(u, AskWith(m, "confirm_quit", cmd, <<0, 0>>))

ConfirmQuit(u, m) ==
  /\ Awaits(u, m, "confirm_quit")
  /\ \/ ReallyQuit(u, m, Head(prompts[u]).arg)
     \/ OnlyAsks(u, <<Ask(m, "index")>>)
     \/ OnlyAsks(u, AskWith(m, "confirm_quit", Head(prompts[u]).arg, <<0, 0>>))

ConfirmDelete(u, m) ==
  /\ Awaits(u, m, "confirm_delete")
  /\ \/ \E p \in {SaveBox(m), post} : Exit(u, m, p)
     \/ OnlyAsks(u, <<Ask(m, "confirm_delete")>>)

-----------------------------------------------------------------------------
\* Sending

\* "m", "f" and "r", up to the handler that takes the letter's last command.
Write(u, m) ==
  /\ Command(u, m) /\ begun < MaxLetters
  /\ begun' = begun + 1
  /\ draft' = [draft EXCEPT ![m] = begun + 1]
  /\ Answer(u, <<Ask(m, "write")>>)
  /\ UNCHANGED <<contract, post, box, where, shares, told>>

Forget(u, m) ==
  /\ Awaits(u, m, "write")
  /\ draft' = [draft EXCEPT ![m] = None]
  /\ Answer(u, <<Ask(m, "index")>>)
  /\ UNCHANGED <<contract, post, box, where, shares, told, begun>>

\* The mailers that get incoming_post: of each user that was served and found the one
\* that present() finds.
Informed(served, found, one) ==
  {m \in Mailers : /\ Owner(m) \in found \cap ToSet(served)
                   /\ one[Owner(m)] = m /\ where[m].folder = "new"}

\* A mutant of Incoming, which follows.
IncomingLast(p, m) ==
  LET cached == p.file[<<Owner(m), "new">>] IN
  box[m] \o [i \in 1 .. Len(cached) - Len(box[m]) |->
               [id |-> cached[i].id, read |-> cached[i].read, del |-> FALSE]]

\* incoming_post: the folder as it is, each letter with the mark that it had.
Incoming(p, m) ==
  LET cached == p.file[<<Owner(m), "new">>] IN
  [i \in DOMAIN cached |->
     [id |-> cached[i].id, read |-> cached[i].read,
      del |-> LET old == {j \in DOMAIN box[m] : box[m][j].id = cached[i].id}
              IN  old # {} /\ box[m][Max(old)].del]]

\* handle_send_choice "s", send_post and notify_send.  Users are found if find_player
\* works and they play, as those with a mailer do.  The rest of the line is lost with
\* the first who was not found.
Send(u, m, to, found) ==
  LET l == draft[m]
      p == SendPost(post, l, to, found)
      served == Served(to, found)
      ok == served = <<>> \/ ToSet(served) \subseteq found
      exits == ok /\ where[m].commandLine
  IN
  /\ Awaits(u, m, "write")
  /\ \A v \in Users : Len(post.file[<<v, "new">>]) + Len(to) <= MaxNew  \* bound
  /\ IF contract THEN \A n \in Mailers : Owner(n) # None => Owner(n) \in found
     ELSE found = {}
  /\ \E one \in [Users -> Mailers \cup {None}] :
       /\ \A v \in Users : IF Of(v) = {} THEN one[v] = None ELSE one[v] \in Of(v)
       /\ LET informed == Informed(served, found, one) IN
          /\ box' = [n \in Mailers |-> IF n = m /\ exits THEN <<>>
                                       ELSE IF n \in informed THEN Incoming(p, n) ELSE box[n]]
          /\ told' = (told \cup informed) \ (IF exits THEN {m} ELSE {})
          /\ shares' = Sharing(p) \ informed
  /\ post' = p
  /\ where' = IF exits THEN [where EXCEPT ![m] = Unused] ELSE where
  /\ draft' = [draft EXCEPT ![m] = None]
  /\ Answer(u, IF ok /\ ~exits THEN <<Ask(m, "index")>> ELSE <<>>)
  /\ UNCHANGED <<contract, begun>>

\* The addressees that are users; distinct_array is taken of what the user typed.
Addressees == {to \in UNION {[1 .. n -> Users] : n \in 0 .. MaxTo} : IsInjective(to)}

\* The mailer that takes the next line of user u.
Asking(u) == IF prompts[u] = <<>> THEN {} ELSE {Head(prompts[u]).m}

Line(u, m) ==
  \/ Refuse(u, m)
  \/ \E x \in DOMAIN box[m] : Read(u, m, x) \/ DeleteAndRead(u, m, x) \/ SaveToFile(u, m, x)
  \/ \E x, y \in DOMAIN box[m] : Delete(u, m, x, y) \/ Undelete(u, m, x, y)
  \/ UnreadDelete(u, m)
  \/ \E x \in DOMAIN box[m], f \in Saved : SaveLetter(u, m, x, f)
  \/ \E f \in Folders : ChangeFolder(u, m, f)
  \/ AnswerFolder(u, m)
  \/ \E cmd \in {"q", "Q"} : Quit(u, m, cmd)
  \/ ConfirmQuit(u, m) \/ ConfirmDelete(u, m)
  \/ Write(u, m) \/ Forget(u, m)
  \/ \E to \in Addressees, found \in SUBSET Users : Send(u, m, to, found)

Next ==
  \/ \E u \in Users : Leave(u) \/ MailStatus(u) \/ Swallow(u)
  \/ \E u \in Users, m \in Mailers : StartMail(u, m) \/ StartPost(u, m)
  \/ \E u \in Users : \E m \in Asking(u) : Line(u, m)

Spec == Init /\ [][Next]_vars

-----------------------------------------------------------------------------
Ids(b) == [i \in DOMAIN b |-> b[i].id]
Listed(p, b) == {p.file[b][i].id : i \in DOMAIN p.file[b]}
Copies(p, b, l) == {i \in DOMAIN p.file[b] : p.file[b][i].id = l}

\* FOLDERS_D's one folder in memory is the saved one of the same owner and name: it lists
\* the same letters in the same order (mark_read and delete_posts take an index), and
\* what is saved as read is read in it.
CacheIsSaved ==
  LET c == post.cache
      saved == post.file[<<c.who, c.folder>>] IN
  c.who # None /\ c.folder # None =>
    /\ Ids(c.box) = Ids(saved)
    /\ \A i \in DOMAIN saved : saved[i].read => c.box[i].read

\* A letter's file names only folders that list the letter, so that it is removed when
\* the last of them drops it.
RecordsAreListed ==
  \A l \in Letters : \A b \in post.refs[l] : l \in post.kept /\ l \in Listed(post, b)

\* A letter that stays in a folder stays on record for it, so that it can be read,
\* whatever other users and folders do with it; unless the folder listed it twice.
StaysOnRecord ==
  [][\A l \in Letters : \A b \in post.refs[l] :
       l \in Listed(post', b) => b \in post'.refs[l] \/ Cardinality(Copies(post, b, l)) > 1]_post

\* A letter leaves a folder only if a mailer of the owner's shows it there as marked,
\* although marks and mailers go by index and mail may have come in between.
LeavesIfMarked ==
  [][\A b \in Boxes, l \in Letters :
       Cardinality(Copies(post', b, l)) < Cardinality(Copies(post, b, l)) =>
         \E m \in Of(b[1]) : /\ where[m].folder = b[2]
                             /\ \E i \in Marked(m) : box[m][i].id = l]_post

\* Under the contract the mailer that a user types at shows all of "new", at the index
\* that FOLDERS_D has it at, unless another one was left behind by an error.
ShowsNewMail ==
  contract => \A u \in Users, m \in Mailers :
    /\ Of(u) = {m} /\ where[m].folder = "new"
    /\ \E i \in DOMAIN prompts[u] : prompts[u][i].m = m
    => Ids(box[m]) = Ids(post.file[<<u, "new">>])

\* verbs/common/mail.c: "The mailer will properly route any mail you send to the proper
\* home town for the player or players you intend it to go to."
ReachesAll ==
  [][\A u \in Users, m \in Mailers, to \in Addressees, found \in SUBSET Users :
       Send(u, m, to, found) =>
         \A i \in DOMAIN to : draft[m] \in Listed(post', <<Delivered(to)[i], "new">>)]_vars
=============================================================================
