------------------------------ MODULE Sessions ------------------------------
(***************************************************************************)
(* Who is connected to what: the object that each connection drives, the   *)
(* handlers of its input lines, exec() that gives a connection to another  *)
(* object, input_to(), this_player(), and destruct() of a user.            *)
(*                                                                         *)
(* Code:  ObjectShell, InputHandlerSet, the handlers of ProcessInputHandler*)
(* and InputToEfun, ExecEfun, ThisPlayerEfun, CompiledObject.destruct,     *)
(* RuntimeContext and InContext.                                           *)
(*                                                                         *)
(* One reader at a time serves a connection (Connections, its monitor), so *)
(* the thread that serves c is called c.  All LPC code runs under the game *)
(* lock; looking up the user and its handlers, and removing a handler,     *)
(* happen outside it.  connect() returns an object that no other code      *)
(* touches before the shell has linked it.                                 *)
(***************************************************************************)
EXTENDS Integers, Sequences, SequencesExt

CONSTANTS
  Conns,       \* connections; also the threads that serve them
  Others,      \* other threads that run LPC: the call-out thread
  Objects,     \* objects that may be users
  None,        \* no object, no connection: Java's null
  SharedBodies,\* whether LPC code calls exec() into an object that was
               \* destructed or has had another connection
  MaxCallbacks \* bound: calls of input_to

ASSUME SessionsAssumption ==
  /\ Conns \cap Others = {}
  /\ None \notin Conns \cup Objects
  /\ SharedBodies \in BOOLEAN
  /\ MaxCallbacks \in Nat

VARIABLES
  obj,        \* CONNECTION_OBJECT_ATTRIBUTE: the object that a connection drives
  open,       \* Connection.isOpen
  input,      \* a connection's InputHandlerSet: its input_to handlers, newest
              \* first; ProcessInputHandler comes after them
  link,       \* OBJECT_CONNECTION_ATTRIBUTE: an object's connection
  switch,     \* OBJECT_SWITCH_TO: where its connection went
  listens,    \* whether it has the OBJECT_DESTRUCT_LISTENER
  handlers,   \* OBJECT_INPUT_HANDLER_ATTRIBUTE: whose InputHandlerSet it has
  destructed, \* CompiledObject._destructed
  had,        \* history: the connections that an object has had
  game,       \* who is inside the game lock
  pc,         \* where each thread is
  user,       \* the object that a thread took for its line's user
  set,        \* the InputHandlerSet that it is copying or removing from
  todo,       \* the copy of the handlers that are left for its line
  top,        \* the oldest frame's object in the thread's call stack
  player,     \* the attribute "this_player" of its ThreadContext
  home,       \* history: the connection for which each callback was installed
  ran,        \* history: how often each callback ran (2: more than once)
  raced       \* the connections whose ArrayList of handlers was changed by one
              \* thread while another used it: no telling what it contains

attributes == <<link, switch, listens, handlers>>
bodies == <<attributes, destructed, had>>
context == <<user, set, todo, top, player>>
callbacks == <<input, home, ran, raced>>
vars == <<obj, open, bodies, game, pc, context, callbacks>>

Threads == Conns \cup Others

\* Where a thread runs LPC code, inside the game lock.
InLpc == {"logon", "callback", "process", "call_out"}

\* The places of a connection's thread until it has been registered with the
\* selector: the acceptor's work, one connection at a time.
Accepting == {"connected", "logon"}

TypeOK ==
  /\ obj \in [Conns -> Objects \cup {None}]
  /\ open \in [Conns -> BOOLEAN]
  /\ input \in [Conns -> Seq(1..MaxCallbacks)]
  /\ link \in [Objects -> Conns \cup {None}]
  /\ switch \in [Objects -> Objects \cup {None}]
  /\ listens \in [Objects -> BOOLEAN]
  /\ handlers \in [Objects -> Conns \cup {None}]
  /\ destructed \in [Objects -> BOOLEAN]
  /\ had \in [Objects -> SUBSET Conns]
  /\ game \in {{}} \cup {{t} : t \in Threads}
  /\ pc \in [Threads -> {"idle", "connected", "waiting", "next", "line", "cloning",
                         "handling", "removing", "call"} \cup InLpc]
  /\ user \in [Threads -> Objects \cup {None}]
  /\ set \in [Threads -> Conns \cup {None}]
  /\ todo \in [Threads -> Seq(1..MaxCallbacks)]
  /\ top \in [Threads -> Objects \cup {None}]
  /\ player \in [Threads -> Objects \cup {None}]
  /\ home \in Seq(Conns)
  /\ Len(home) <= MaxCallbacks
  /\ ran \in [1..MaxCallbacks -> 0..2]
  /\ raced \subseteq Conns

Init ==
  /\ obj = [c \in Conns |-> None]
  /\ open = [c \in Conns |-> TRUE]
  /\ input = [c \in Conns |-> <<>>]
  /\ link = [o \in Objects |-> None]
  /\ switch = [o \in Objects |-> None]
  /\ listens = [o \in Objects |-> FALSE]
  /\ handlers = [o \in Objects |-> None]
  /\ destructed = [o \in Objects |-> FALSE]
  /\ had = [o \in Objects |-> {}]
  /\ game = {}
  /\ pc = [t \in Threads |-> "idle"]
  /\ user = [t \in Threads |-> None]
  /\ set = [t \in Threads |-> None]
  /\ todo = [t \in Threads |-> <<>>]
  /\ top = [t \in Threads |-> None]
  /\ player = [t \in Threads |-> None]
  /\ home = <<>>
  /\ ran = [h \in 1..MaxCallbacks |-> 0]
  /\ raced = {}

-----------------------------------------------------------------------------
(* Lookups *)

\* ThisPlayerEfun.getUser: a switched object stands for the one it went to.
User(o) == IF link[o] # None THEN o ELSE switch[o]

\* this_player(): the attribute of the context, or else the oldest frame.
ThisPlayer(t) == User(IF player[t] # None THEN player[t] ELSE top[t])

\* ObjectShell.getInputHandlers; None where it throws.
HandlerSet(o) == IF User(o) = None THEN None ELSE handlers[User(o)]

\* Mutant of Without: the newest handler is removed.
WithoutNewest(s, h) == IF s = <<>> THEN s ELSE Tail(s)

\* InputHandlerSet.remove; a handler is in a set once at most.
Without(s, h) ==
  LET places == {i \in 1..Len(s) : s[i] = h}
  IN IF places = {} THEN s ELSE RemoveAt(s, CHOOSE i \in places : TRUE)

-----------------------------------------------------------------------------
(* A new connection: connectionCreated, on the acceptor thread.             *)

\* connect() returns a new object; the shell links it with the connection.
Connect(c, o) ==
  /\ pc[c] = "idle" /\ obj[c] = None /\ open[c]
  /\ \A d \in Conns : pc[d] \notin Accepting
  /\ game = {}
  /\ ~destructed[o] /\ had[o] = {} /\ \A t \in Others : top[t] # o
  /\ link' = [link EXCEPT ![o] = c]
  /\ listens' = [listens EXCEPT ![o] = TRUE]
  /\ handlers' = [handlers EXCEPT ![o] = c]
  /\ obj' = [obj EXCEPT ![c] = o]
  /\ had' = [had EXCEPT ![o] = {c}]
  /\ pc' = [pc EXCEPT ![c] = "connected"]
  /\ user' = [user EXCEPT ![c] = o]
  /\ UNCHANGED <<open, switch, destructed, game, set, todo, top, player, callbacks>>

\* connect() returned no object.
Refuse(c) ==
  /\ pc[c] = "idle" /\ obj[c] = None /\ open[c]
  /\ \A d \in Conns : pc[d] \notin Accepting
  /\ game = {}
  /\ open' = [open EXCEPT ![c] = FALSE]
  /\ UNCHANGED <<obj, bodies, game, pc, context, callbacks>>

\* InContext.execute: take the lock, push the first frame.
Enter(t, o, from, to) ==
  /\ pc[t] = from
  /\ game = {}
  /\ game' = {t}
  /\ top' = [top EXCEPT ![t] = o]
  /\ pc' = [pc EXCEPT ![t] = to]

Logon(c) ==
  /\ Enter(c, user[c], "connected", "logon")
  /\ UNCHANGED <<obj, open, bodies, user, set, todo, player, callbacks>>

\* Pop the frame, release the lock.
Leave(t, from, to) ==
  /\ pc[t] = from
  /\ game' = {}
  /\ top' = [top EXCEPT ![t] = None]
  /\ pc' = [pc EXCEPT ![t] = to]

LogonEnds(c) ==
  /\ Leave(c, "logon", "waiting")
  /\ user' = [user EXCEPT ![c] = None]
  /\ player' = [player EXCEPT ![c] = None]
  /\ UNCHANGED <<obj, open, bodies, set, todo, callbacks>>

-----------------------------------------------------------------------------
(* Input: ObjectShell.inputReceived and handleInput.                        *)

\* The channel is read; what is read holds one or more lines.
Input(c) ==
  /\ pc[c] = "waiting"
  /\ open[c]
  /\ pc' = [pc EXCEPT ![c] = "next"]
  /\ UNCHANGED <<obj, open, bodies, game, context, callbacks>>

\* The channel cannot be read: the connection is closed, and nobody tells its user.
ReadFails(c) ==
  /\ pc[c] = "waiting"
  /\ open[c]
  /\ open' = [open EXCEPT ![c] = FALSE]
  /\ UNCHANGED <<obj, bodies, game, pc, context, callbacks>>

\* The next line: its user is looked up, a new context is activated.
Line(c) ==
  /\ pc[c] = "next"
  /\ user' = [user EXCEPT ![c] = obj[c]]
  /\ player' = [player EXCEPT ![c] = None]
  /\ pc' = [pc EXCEPT ![c] = "line"]
  /\ UNCHANGED <<obj, open, bodies, game, set, todo, top, callbacks>>

NoMoreLines(c) ==
  /\ pc[c] = "next"
  /\ pc' = [pc EXCEPT ![c] = "waiting"]
  /\ user' = [user EXCEPT ![c] = None]
  /\ player' = [player EXCEPT ![c] = None]
  /\ UNCHANGED <<obj, open, bodies, game, set, todo, top, callbacks>>

\* getInputHandlers throws outside handleInput's try: the reader gives up.
NoHandlers(c) ==
  /\ pc[c] = "line"
  /\ HandlerSet(user[c]) = None
  /\ pc' = [pc EXCEPT ![c] = "waiting"]
  /\ user' = [user EXCEPT ![c] = None]
  /\ player' = [player EXCEPT ![c] = None]
  /\ UNCHANGED <<obj, open, bodies, game, set, todo, top, callbacks>>

\* The handlers are copied, outside the game lock.
StartClone(c) ==
  /\ pc[c] = "line"
  /\ HandlerSet(user[c]) # None
  /\ set' = [set EXCEPT ![c] = HandlerSet(user[c])]
  /\ todo' = [todo EXCEPT ![c] = input[HandlerSet(user[c])]]
  /\ pc' = [pc EXCEPT ![c] = "cloning"]
  /\ UNCHANGED <<obj, open, bodies, game, user, top, player, callbacks>>

EndClone(c) ==
  /\ pc[c] = "cloning"
  /\ pc' = [pc EXCEPT ![c] = "handling"]
  /\ set' = [set EXCEPT ![c] = None]
  /\ UNCHANGED <<obj, open, bodies, game, user, todo, top, player, callbacks>>

\* An input_to handler that is not to run leaves the line to the next one: the
\* line is an escape, or getInputHandlers throws inside the try.
PassOn(c) ==
  /\ pc[c] = "handling"
  /\ todo[c] # <<>>
  /\ todo' = [todo EXCEPT ![c] = Tail(@)]
  /\ UNCHANGED <<obj, open, bodies, game, pc, user, set, top, player, callbacks>>

\* InputToEfun.Handler takes the line: it removes itself, outside the game lock.
StartRemove(c) ==
  /\ pc[c] = "handling"
  /\ todo[c] # <<>>
  /\ HandlerSet(user[c]) # None
  /\ set' = [set EXCEPT ![c] = HandlerSet(user[c])]
  /\ pc' = [pc EXCEPT ![c] = "removing"]
  /\ UNCHANGED <<obj, open, bodies, game, user, todo, top, player, callbacks>>

\* Mutant of EndRemove: the handler stays in the set.
EndRemoveNothing(c) ==
  /\ pc[c] = "removing"
  /\ set' = [set EXCEPT ![c] = None]
  /\ pc' = [pc EXCEPT ![c] = "call"]
  /\ UNCHANGED <<obj, open, bodies, game, user, todo, top, player, callbacks>>

EndRemove(c) ==
  /\ pc[c] = "removing"
  /\ input' = [input EXCEPT ![set[c]] = Without(@, Head(todo[c]))]
  /\ set' = [set EXCEPT ![c] = None]
  /\ pc' = [pc EXCEPT ![c] = "call"]
  /\ UNCHANGED <<obj, open, bodies, game, user, todo, top, player, home, ran, raced>>

\* Call the function that was given to input_to.
Callback(c) ==
  /\ Enter(c, user[c], "call", "callback")
  /\ todo' = [todo EXCEPT ![c] = Tail(@)]
  /\ ran' = [ran EXCEPT ![Head(todo[c])] = IF @ = 0 THEN 1 ELSE 2]
  /\ UNCHANGED <<obj, open, bodies, user, set, player, input, home, raced>>

\* It returned: the line has been dealt with.
CallbackEnds(c) ==
  /\ Leave(c, "callback", "next")
  /\ todo' = [todo EXCEPT ![c] = <<>>]
  /\ UNCHANGED <<obj, open, bodies, user, set, player, callbacks>>

\* It threw an LpcRuntimeException: the line goes on to the next handler.
CallbackFails(c) ==
  /\ Leave(c, "callback", "handling")
  /\ UNCHANGED <<obj, open, bodies, user, set, todo, player, callbacks>>

\* ProcessInputHandler: process_input() in the user; a destructed one has no
\* implementation left to run it.
Process(c) ==
  /\ Enter(c, user[c], "handling", "process")
  /\ todo[c] = <<>>
  /\ ~destructed[user[c]]
  /\ UNCHANGED <<obj, open, bodies, user, set, todo, player, callbacks>>

ProcessNothing(c) ==
  /\ pc[c] = "handling"
  /\ todo[c] = <<>>
  /\ destructed[user[c]]
  /\ pc' = [pc EXCEPT ![c] = "next"]
  /\ UNCHANGED <<obj, open, bodies, game, context, callbacks>>

ProcessEnds(c) ==
  /\ Leave(c, "process", "next")
  /\ UNCHANGED <<obj, open, bodies, user, set, todo, player, callbacks>>

-----------------------------------------------------------------------------
(* Call-outs: a new context, the owner as oldest frame.                     *)

\* Mutant of CallOut: without the game lock.
CallOutUnlocked(t, o) ==
  /\ pc[t] = "idle"
  /\ game' = game \cup {t}
  /\ top' = [top EXCEPT ![t] = o]
  /\ pc' = [pc EXCEPT ![t] = "call_out"]
  /\ UNCHANGED <<obj, open, bodies, user, set, todo, player, callbacks>>

CallOut(t, o) ==
  /\ Enter(t, o, "idle", "call_out")
  /\ UNCHANGED <<obj, open, bodies, user, set, todo, player, callbacks>>

CallOutEnds(t) ==
  /\ Leave(t, "call_out", "idle")
  /\ player' = [player EXCEPT ![t] = None]
  /\ UNCHANGED <<obj, open, bodies, user, set, todo, callbacks>>

-----------------------------------------------------------------------------
(* What LPC code does.                                                      *)

\* this_player() keeps the oldest frame's object in the context if it is a user.
Remember(t) ==
  player' = [player EXCEPT ![t] =
    IF @ = None /\ User(top[t]) # None THEN top[t] ELSE @]

AskPlayer(t) ==
  /\ pc[t] \in InLpc
  /\ Remember(t)
  /\ UNCHANGED <<obj, open, bodies, game, pc, user, set, todo, top, callbacks>>

\* input_to(): prepend a handler to those of this_player().  The list is used
\* without a lock: a change in the middle of another thread's use is a race.
InputTo(t) ==
  LET s == HandlerSet(ThisPlayer(t)) IN
  /\ pc[t] \in InLpc
  /\ Len(home) < MaxCallbacks
  /\ ThisPlayer(t) # None
  /\ s # None
  /\ Remember(t)
  /\ input' = [input EXCEPT ![s] = <<Len(home) + 1>> \o @]
  /\ home' = Append(home, s)
  /\ raced' = raced \cup ({s} \cap {set[u] : u \in Threads})
  /\ UNCHANGED <<obj, open, bodies, game, pc, user, set, todo, top, ran>>

\* Mutants of CopyListener, CopyHandlers and MoveLink, which follow.
CopyNoListener(old, to) == listens

CopyHandlersIfMissing(old, to) ==
  [handlers EXCEPT ![to] = IF @ = None THEN handlers[old] ELSE @]

CopyLink(old, to) == [link EXCEPT ![to] = link[old]]

\* switchConnectionObject copies every "user." attribute that the old object has...
CopyListener(old, to) == [listens EXCEPT ![to] = listens[old] \/ @]

CopyHandlers(old, to) ==
  [handlers EXCEPT ![to] = IF handlers[old] # None THEN handlers[old] ELSE @]

\* ...the one that says where its connection went included, which then is set anew...
CopySwitch(old, to) ==
  [switch EXCEPT ![to] = IF switch[old] # None THEN switch[old] ELSE @, ![old] = to]

\* ...and takes the connection from it.
MoveLink(old, to) == [link EXCEPT ![to] = link[old], ![old] = None]

\* exec(to, from), where from has connection c; refused if "to" has one already.
Exec(t, c, to) ==
  LET old == obj[c] IN
  /\ pc[t] \in InLpc
  /\ old # None /\ link[old] = c
  /\ link[to] = None
  /\ SharedBodies \/ (~destructed[to] /\ had[to] \subseteq {c})
  /\ listens' = CopyListener(old, to)
  /\ handlers' = CopyHandlers(old, to)
  /\ switch' = CopySwitch(old, to)
  /\ link' = MoveLink(old, to)
  /\ obj' = [obj EXCEPT ![c] = to]
  /\ had' = [had EXCEPT ![to] = @ \cup {c}]
  /\ UNCHANGED <<open, destructed, game, pc, context, callbacks>>

\* destruct(o): its listener closes the connection it has, then its attributes are
\* cleared.
Destruct(t, o) ==
  /\ pc[t] \in InLpc
  /\ ~destructed[o]
  /\ destructed' = [destructed EXCEPT ![o] = TRUE]
  /\ open' = IF listens[o] /\ link[o] # None THEN [open EXCEPT ![link[o]] = FALSE] ELSE open
  /\ listens' = [listens EXCEPT ![o] = FALSE]
  /\ link' = [link EXCEPT ![o] = None]
  /\ switch' = [switch EXCEPT ![o] = None]
  /\ handlers' = [handlers EXCEPT ![o] = None]
  /\ UNCHANGED <<obj, had, game, pc, context, callbacks>>

-----------------------------------------------------------------------------
ConnNext(c) ==
  \/ \E o \in Objects : Connect(c, o)
  \/ Refuse(c) \/ Logon(c) \/ LogonEnds(c)
  \/ Input(c) \/ ReadFails(c) \/ Line(c) \/ NoMoreLines(c) \/ NoHandlers(c) \/ StartClone(c) \/ EndClone(c)
  \/ PassOn(c) \/ StartRemove(c) \/ EndRemove(c)
  \/ Callback(c) \/ CallbackEnds(c) \/ CallbackFails(c)
  \/ Process(c) \/ ProcessNothing(c) \/ ProcessEnds(c)

LpcNext(t) ==
  \/ AskPlayer(t) \/ InputTo(t)
  \/ \E o \in Objects : Destruct(t, o) \/ \E c \in Conns : Exec(t, c, o)

Next ==
  \/ \E c \in Conns : ConnNext(c)
  \/ \E t \in Others : CallOutEnds(t) \/ \E o \in Objects : CallOut(t, o)
  \/ \E t \in Threads : LpcNext(t)

Spec == Init /\ [][Next]_vars

-----------------------------------------------------------------------------
(* Properties *)

\* Connections and users pair off, whatever exec() and destruct() do: who has a
\* connection is the object it drives, and a connection drives an object that has
\* it unless that one has been destructed.
Linked ==
  /\ \A o \in Objects : link[o] # None => obj[link[o]] = o
  /\ \A c \in Conns : obj[c] # None => link[obj[c]] = c \/ destructed[obj[c]]

\* The handlers of whoever has a connection are the connection's own, through any
\* number of exec() calls: what input_to() installed before is still there.
OwnHandlers == \A o \in Objects : link[o] # None => handlers[o] = link[o]

\* A connection that drives an object is closed when that object is destructed.  It is
\* closed by nothing else that LPC code does, such as the destruction of an object that
\* has given it away, but only by a read of its own that fails.
ClosesWithUser ==
  [][\A c \in Conns : open[c] /\ obj[c] # None =>
       LET gone == ~destructed[obj[c]] /\ destructed'[obj[c]] IN
       /\ gone => ~open'[c]
       /\ ~open'[c] => gone \/ (pc[c] = "waiting" /\ UNCHANGED bodies)]_vars

\* A callback of input_to takes one line, however the line's user is switched or
\* destructed under way.
CallbackOnce == \A h \in 1..Len(home) : home[h] \in raced \/ ran[h] <= 1

\* One that has not taken a line waits among the handlers of the connection for
\* which it was installed, or is just taking one.
CallbackWaits ==
  \A h \in 1..Len(home) :
    \/ ran[h] > 0 \/ home[h] \in raced
    \/ h \in Range(input[home[h]])
    \/ pc[home[h]] = "call" /\ Head(todo[home[h]]) = h

\* After exec() this_player() is the object that has the connection now: while a
\* connection's thread runs LPC for it, this_player() is what it drives.
PlayerFollowsExec ==
  \A c \in Conns : pc[c] \in InLpc /\ ~destructed[top[c]] /\ ~destructed[obj[c]]
    => ThisPlayer(c) = obj[c]
=============================================================================
