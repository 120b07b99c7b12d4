----------------------------- MODULE Connections -----------------------------
(***************************************************************************)
(* The threads of the telnet server and the locks they take: the acceptor  *)
(* that registers connections, the selector that finds which have input,   *)
(* the pool of readers, and whoever runs LPC code and so writes to or      *)
(* closes any connection.                                                  *)
(*                                                                         *)
(* Code:  TelnetChannelConnectionHandler, TelnetChannelConnection,         *)
(* ChannelListener, and the two ways that LPC code reaches a connection,   *)
(* write/tell_object (getWriter) and destruct (close).                     *)
(*                                                                         *)
(* A chunk is what one read returns.  A selection key is valid as long as  *)
(* its connection is open: closing the channel cancels it.  A client that  *)
(* has hung up leaves its channel readable for ever: each read returns -1, *)
(* which readInput ignores, until LPC code closes the connection.  One     *)
(* whose connection broke makes a read throw, which closes it.             *)
(***************************************************************************)
EXTENDS Integers, Sequences

CONSTANTS
  Conns,       \* the connections that clients make
  Readers,     \* the threads of the handler's pool
  Others,      \* other threads that run LPC, the call-out thread for one
  Acceptor,    \* the listener's thread
  NoConn,      \* no connection
  CrossWrites, \* whether LPC code writes to connections of other users
  MaxChunks    \* bound: chunks that a client sends

ASSUME ConnectionsAssumption ==
  /\ Acceptor \notin Readers \cup Others
  /\ Readers \cap Others = {}
  /\ NoConn \notin Conns
  /\ CrossWrites \in BOOLEAN
  /\ MaxChunks \in Nat

VARIABLES
  sel,       \* what the selector thread does
  selected,  \* the keys it has yet to process
  current,   \* the key it is processing, its interest cleared
  stage,     \* how far each connection has come
  open,      \* TelnetChannelConnection.isOpen
  interest,  \* whether a key's interest set has OP_READ
  queued,    \* how many ConnectionReaders of each connection wait for a thread
  client,    \* whether the client is there, has hung up, or its connection broke
  sent,      \* chunks that the client has sent
  read,      \* chunks that have been read from the channel
  shell,     \* chunks that the shell was given, in order
  pc,        \* where each thread is
  conn,      \* the connection that a reader or the acceptor serves
  chunk,     \* the chunk that a reader holds, or 0
  peer,      \* the connection that a thread in LPC writes to
  monitor,   \* who owns each connection's monitor: {} or a singleton
  game       \* who owns the game lock: {} or a singleton

netVars == <<sel, selected, current, interest, queued>>
dataVars == <<client, sent, read, shell>>
vars == <<sel, selected, current, stage, open, interest, queued, client, sent, read,
          shell, pc, conn, chunk, peer, monitor, game>>

Threads == Readers \cup Others \cup {Acceptor}

TypeOK ==
  /\ sel \in {"select", "process", "dead"}
  /\ selected \subseteq Conns
  /\ current \in Conns \cup {NoConn}
  /\ stage \in [Conns -> {"new", "created", "registered", "failed"}]
  /\ open \in [Conns -> BOOLEAN]
  /\ interest \in [Conns -> BOOLEAN]
  /\ queued \in [Conns -> Nat]
  /\ client \in [Conns -> {"there", "gone", "broken"}]
  /\ sent \in [Conns -> 0..MaxChunks]
  /\ read \in [Conns -> 0..MaxChunks]
  /\ shell \in [Conns -> Seq(1..MaxChunks)]
  /\ pc \in [Threads -> {"idle", "start", "armed", "read", "creating", "register",
                         "lpc", "writing", "dead"}]
  /\ conn \in [Threads -> Conns \cup {NoConn}]
  /\ chunk \in [Threads -> 0..MaxChunks]
  /\ peer \in [Threads -> Conns \cup {NoConn}]
  /\ monitor \in [Conns -> SUBSET Threads]
  /\ game \subseteq Threads

Init ==
  /\ sel = "select"
  /\ selected = {}
  /\ current = NoConn
  /\ stage = [c \in Conns |-> "new"]
  /\ open = [c \in Conns |-> TRUE]
  /\ interest = [c \in Conns |-> FALSE]
  /\ queued = [c \in Conns |-> 0]
  /\ client = [c \in Conns |-> "there"]
  /\ sent = [c \in Conns |-> 0]
  /\ read = [c \in Conns |-> 0]
  /\ shell = [c \in Conns |-> <<>>]
  /\ pc = [t \in Threads |-> "idle"]
  /\ conn = [t \in Threads |-> NoConn]
  /\ chunk = [t \in Threads |-> 0]
  /\ peer = [t \in Threads |-> NoConn]
  /\ monitor = [c \in Conns |-> {}]
  /\ game = {}

-----------------------------------------------------------------------------
(* The client *)

Send(c) ==
  /\ client[c] = "there"
  /\ sent[c] < MaxChunks
  /\ sent' = [sent EXCEPT ![c] = @ + 1]
  /\ UNCHANGED <<netVars, stage, open, client, read, shell, pc, conn, chunk, peer, monitor, game>>

\* It closes the socket, or the network loses it.
HangUp(c) ==
  /\ client[c] = "there"
  /\ \E how \in {"gone", "broken"} : client' = [client EXCEPT ![c] = how]
  /\ UNCHANGED <<netVars, stage, open, sent, read, shell, pc, conn, chunk, peer, monitor, game>>

-----------------------------------------------------------------------------
(* The acceptor: ChannelListener.acceptConnections, newConnection.          *)

Accept(c) ==
  /\ pc[Acceptor] = "idle"
  /\ stage[c] = "new"
  /\ stage' = [stage EXCEPT ![c] = "created"]
  /\ conn' = [conn EXCEPT ![Acceptor] = c]
  /\ pc' = [pc EXCEPT ![Acceptor] = "creating"]
  /\ UNCHANGED <<netVars, open, dataVars, chunk, peer, monitor, game>>

\* connectionCreated runs connect() and logon() in LPC.
Logon ==
  /\ pc[Acceptor] = "creating"
  /\ game = {}
  /\ game' = {Acceptor}
  /\ pc' = [pc EXCEPT ![Acceptor] = "lpc"]
  /\ UNCHANGED <<netVars, stage, open, dataVars, conn, chunk, peer, monitor>>

LogonEnds ==
  /\ pc[Acceptor] = "lpc"
  /\ game' = {}
  /\ pc' = [pc EXCEPT ![Acceptor] = "register"]
  /\ UNCHANGED <<netVars, stage, open, dataVars, conn, chunk, peer, monitor>>

\* Only I/O exceptions are caught: an LPC error ends the acceptor thread.
LogonFails ==
  /\ pc[Acceptor] = "lpc"
  /\ game' = {}
  /\ pc' = [pc EXCEPT ![Acceptor] = "dead"]
  /\ UNCHANGED <<netVars, stage, open, dataVars, conn, chunk, peer, monitor>>

\* A closed channel cannot be registered: the NetException is logged.
Register ==
  LET c == conn[Acceptor] IN
  /\ pc[Acceptor] = "register"
  /\ stage' = [stage EXCEPT ![c] = IF open[c] THEN "registered" ELSE "failed"]
  /\ interest' = [interest EXCEPT ![c] = open[c]]
  /\ conn' = [conn EXCEPT ![Acceptor] = NoConn]
  /\ pc' = [pc EXCEPT ![Acceptor] = "idle"]
  /\ UNCHANGED <<sel, selected, current, queued, open, dataVars, chunk, peer, monitor, game>>

-----------------------------------------------------------------------------
(* The selector: select and readConnections.                                *)

Readable ==
  {c \in Conns : open[c] /\ interest[c] /\ (read[c] < sent[c] \/ client[c] # "there")}

Select ==
  /\ sel = "select"
  /\ Readable # {}
  /\ selected' = Readable
  /\ sel' = "process"
  /\ UNCHANGED <<current, interest, queued, stage, open, dataVars, pc, conn, chunk, peer, monitor, game>>

\* Mutant of ClearInterest: without interestOps(0).
ClearNothing(c) ==
  /\ sel = "process"
  /\ current = NoConn
  /\ c \in selected
  /\ open[c]
  /\ selected' = selected \ {c}
  /\ current' = c
  /\ UNCHANGED <<sel, interest, queued, stage, open, dataVars, pc, conn, chunk, peer, monitor, game>>

\* key.interestOps(0)
ClearInterest(c) ==
  /\ sel = "process"
  /\ current = NoConn
  /\ c \in selected
  /\ open[c]
  /\ interest' = [interest EXCEPT ![c] = FALSE]
  /\ selected' = selected \ {c}
  /\ current' = c
  /\ UNCHANGED <<sel, queued, stage, open, dataVars, pc, conn, chunk, peer, monitor, game>>

\* The key was cancelled since select returned: interestOps throws a
\* CancelledKeyException, which nothing catches.
SelectorDies(c) ==
  /\ sel = "process"
  /\ current = NoConn
  /\ c \in selected
  /\ ~open[c]
  /\ sel' = "dead"
  /\ UNCHANGED <<selected, current, interest, queued, stage, open, dataVars, pc, conn, chunk, peer, monitor, game>>

\* Queue a ConnectionReader, or cancel the key of a closed connection.
Dispatch ==
  /\ sel = "process"
  /\ current # NoConn
  /\ queued' = IF open[current] THEN [queued EXCEPT ![current] = @ + 1] ELSE queued
  /\ current' = NoConn
  /\ UNCHANGED <<sel, selected, interest, stage, open, dataVars, pc, conn, chunk, peer, monitor, game>>

SelectAgain ==
  /\ sel = "process"
  /\ current = NoConn
  /\ selected = {}
  /\ sel' = "select"
  /\ UNCHANGED <<selected, current, interest, queued, stage, open, dataVars, pc, conn, chunk, peer, monitor, game>>

-----------------------------------------------------------------------------
(* A reader: ConnectionReader.run, readInput.                               *)

\* Mutant of PickUp: the queue may be empty.
PickUpBlindly(r, c) ==
  /\ pc[r] = "idle"
  /\ stage[c] = "registered"
  /\ queued' = [queued EXCEPT ![c] = @ - 1]
  /\ conn' = [conn EXCEPT ![r] = c]
  /\ pc' = [pc EXCEPT ![r] = "start"]
  /\ UNCHANGED <<sel, selected, current, interest, stage, open, dataVars, chunk, peer, monitor, game>>

PickUp(r, c) ==
  /\ pc[r] = "idle"
  /\ queued[c] > 0
  /\ queued' = [queued EXCEPT ![c] = @ - 1]
  /\ conn' = [conn EXCEPT ![r] = c]
  /\ pc' = [pc EXCEPT ![r] = "start"]
  /\ UNCHANGED <<sel, selected, current, interest, stage, open, dataVars, chunk, peer, monitor, game>>

\* Mutant of Arm: reads stay disabled.
ArmNothing(r) ==
  /\ pc[r] = "start"
  /\ open[conn[r]]
  /\ pc' = [pc EXCEPT ![r] = "armed"]
  /\ UNCHANGED <<netVars, stage, open, dataVars, conn, chunk, peer, monitor, game>>

\* interestOps(OP_READ) comes before the read.
Arm(r) ==
  /\ pc[r] = "start"
  /\ open[conn[r]]
  /\ interest' = [interest EXCEPT ![conn[r]] = TRUE]
  /\ pc' = [pc EXCEPT ![r] = "armed"]
  /\ UNCHANGED <<sel, selected, current, queued, stage, open, dataVars, conn, chunk, peer, monitor, game>>

\* The connection was closed while the reader waited for a thread.
GiveUp(r) ==
  /\ pc[r] = "start"
  /\ ~open[conn[r]]
  /\ pc' = [pc EXCEPT ![r] = "idle"]
  /\ conn' = [conn EXCEPT ![r] = NoConn]
  /\ UNCHANGED <<netVars, stage, open, dataVars, chunk, peer, monitor, game>>

\* Mutant of Read: readInput is not synchronized.
ReadUnlocked(r) ==
  LET c == conn[r] IN
  /\ pc[r] = "armed"
  /\ IF open[c] /\ read[c] < sent[c]
       THEN /\ read' = [read EXCEPT ![c] = @ + 1]
            /\ chunk' = [chunk EXCEPT ![r] = read[c] + 1]
       ELSE UNCHANGED <<read, chunk>>
  /\ pc' = [pc EXCEPT ![r] = "read"]
  /\ UNCHANGED <<netVars, stage, open, client, sent, shell, conn, peer, monitor, game>>

\* Enter the synchronized readInput and read the channel, if still connected.
Read(r) ==
  LET c == conn[r] IN
  /\ pc[r] = "armed"
  /\ monitor[c] = {}
  /\ monitor' = [monitor EXCEPT ![c] = {r}]
  /\ IF open[c] /\ read[c] < sent[c]
       THEN /\ read' = [read EXCEPT ![c] = @ + 1]
            /\ chunk' = [chunk EXCEPT ![r] = read[c] + 1]
       ELSE UNCHANGED <<read, chunk>>
  /\ pc' = [pc EXCEPT ![r] = "read"]
  /\ UNCHANGED <<netVars, stage, open, client, sent, shell, conn, peer, game>>

\* The read throws an IOException: readInput closes the connection and the
\* NetException it throws instead is logged.
ReadFails(r) ==
  LET c == conn[r] IN
  /\ pc[r] = "armed"
  /\ monitor[c] = {}
  /\ open[c] /\ client[c] = "broken"
  /\ open' = [open EXCEPT ![c] = FALSE]
  /\ pc' = [pc EXCEPT ![r] = "idle"]
  /\ conn' = [conn EXCEPT ![r] = NoConn]
  /\ UNCHANGED <<netVars, stage, dataVars, chunk, peer, monitor, game>>

\* Pass the input to the shell, which runs LPC code, still inside readInput.
InputReceived(r) ==
  /\ pc[r] = "read"
  /\ chunk[r] # 0
  /\ game = {}
  /\ game' = {r}
  /\ shell' = [shell EXCEPT ![conn[r]] = Append(@, chunk[r])]
  /\ chunk' = [chunk EXCEPT ![r] = 0]
  /\ pc' = [pc EXCEPT ![r] = "lpc"]
  /\ UNCHANGED <<netVars, stage, open, client, sent, read, conn, peer, monitor>>

InputHandled(r) ==
  /\ pc[r] = "lpc"
  /\ game' = {}
  /\ pc' = [pc EXCEPT ![r] = "read"]
  /\ UNCHANGED <<netVars, stage, open, dataVars, conn, chunk, peer, monitor>>

\* Leave readInput.
ReadEnds(r) ==
  /\ pc[r] = "read"
  /\ chunk[r] = 0
  /\ monitor' = [monitor EXCEPT ![conn[r]] = {}]
  /\ conn' = [conn EXCEPT ![r] = NoConn]
  /\ pc' = [pc EXCEPT ![r] = "idle"]
  /\ UNCHANGED <<netVars, stage, open, dataVars, chunk, peer, game>>

-----------------------------------------------------------------------------
(* LPC code, run by whichever thread owns the game lock.                    *)

Enter(t) ==
  /\ pc[t] = "idle"
  /\ game = {}
  /\ game' = {t}
  /\ pc' = [pc EXCEPT ![t] = "lpc"]
  /\ UNCHANGED <<netVars, stage, open, dataVars, conn, chunk, peer, monitor>>

Leave(t) ==
  /\ pc[t] = "lpc"
  /\ game' = {}
  /\ pc' = [pc EXCEPT ![t] = "idle"]
  /\ UNCHANGED <<netVars, stage, open, dataVars, conn, chunk, peer, monitor>>

\* write, tell_object: getWriter is synchronized on the connection.
Write(t, c) ==
  /\ pc[t] = "lpc"
  /\ stage[c] \in {"created", "registered"}
  /\ CrossWrites \/ conn[t] = c
  /\ peer' = [peer EXCEPT ![t] = c]
  /\ pc' = [pc EXCEPT ![t] = "writing"]
  /\ UNCHANGED <<netVars, stage, open, dataVars, conn, chunk, monitor, game>>

\* Mutant of Written: getWriter is not synchronized.
WrittenUnlocked(t) ==
  /\ pc[t] = "writing"
  /\ peer' = [peer EXCEPT ![t] = NoConn]
  /\ pc' = [pc EXCEPT ![t] = "lpc"]
  /\ UNCHANGED <<netVars, stage, open, dataVars, conn, chunk, monitor, game>>

Written(t) ==
  /\ pc[t] = "writing"
  /\ monitor[peer[t]] \subseteq {t}
  /\ peer' = [peer EXCEPT ![t] = NoConn]
  /\ pc' = [pc EXCEPT ![t] = "lpc"]
  /\ UNCHANGED <<netVars, stage, open, dataVars, conn, chunk, monitor, game>>

\* The user object is destructed: its connection is closed, without a lock.
Close(t, c) ==
  /\ pc[t] = "lpc"
  /\ stage[c] \in {"created", "registered"}
  /\ open[c]
  /\ open' = [open EXCEPT ![c] = FALSE]
  /\ UNCHANGED <<netVars, stage, dataVars, pc, conn, chunk, peer, monitor, game>>

-----------------------------------------------------------------------------
AcceptorNext == Logon \/ LogonEnds \/ LogonFails \/ Register

SelectorNext(c) == ClearInterest(c) \/ SelectorDies(c)

ReaderNext(r) ==
  \/ Arm(r) \/ GiveUp(r) \/ Read(r) \/ ReadFails(r) \/ InputReceived(r) \/ InputHandled(r) \/ ReadEnds(r)
  \/ \E c \in Conns : PickUp(r, c)

LpcNext(t) == Written(t) \/ \E c \in Conns : Write(t, c) \/ Close(t, c)

Next ==
  \/ \E c \in Conns : Send(c) \/ HangUp(c) \/ Accept(c) \/ SelectorNext(c)
  \/ AcceptorNext
  \/ Select \/ Dispatch \/ SelectAgain
  \/ \E r \in Readers : ReaderNext(r)
  \/ \E t \in Others : Enter(t) \/ Leave(t)
  \/ \E t \in Threads : LpcNext(t)

Spec == Init /\ [][Next]_vars

(***************************************************************************)
(* Fairness.  A thread that can run does.  The pool's queue is first in,   *)
(* first out, monitors pass nobody over for ever, and LPC code ends        *)
(* (ExecutionTimeCheck) however often it writes: SF on picking up, on      *)
(* taking a lock and on the end of LPC code.                               *)
(***************************************************************************)
Fairness ==
  /\ WF_vars(Select) /\ WF_vars(Dispatch) /\ WF_vars(SelectAgain)
  /\ WF_vars(\E c \in Conns : ClearInterest(c) \/ SelectorDies(c))
  /\ \A c \in Conns : SF_vars(\E r \in Readers : PickUp(r, c))
  /\ \A r \in Readers :
       /\ WF_vars(Arm(r)) /\ WF_vars(GiveUp(r)) /\ WF_vars(ReadEnds(r))
       /\ SF_vars(Read(r) \/ ReadFails(r)) /\ SF_vars(InputReceived(r)) /\ SF_vars(InputHandled(r))
  /\ \A t \in Others : SF_vars(Leave(t))
  /\ SF_vars(LogonEnds \/ LogonFails)
  /\ \A t \in Threads : WF_vars(Written(t))

FairSpec == Spec /\ Fairness

-----------------------------------------------------------------------------
(* Safety *)

\* What stands for "this connection may have input": the interest of its key, the
\* selector having it in hand, a queued ConnectionReader, one that has not re-armed.
Signals(c) ==
  {<<"key", c>> : x \in {c} \cap {d \in Conns : interest[d]}}
    \cup {<<"selector", c>> : x \in {c} \cap {current}}
    \cup {<<"queue", i>> : i \in 1..queued[c]}
    \cup {<<"reader", r>> : r \in {q \in Readers : pc[q] = "start" /\ conn[q] = c}}

\* No registered connection is ever forgotten, nor signalled twice: until it is
\* closed there is just one signal for it, however selector and readers interleave.
OneSignal ==
  \A c \in Conns : stage[c] = "registered" /\ open[c]
    => \E s \in Signals(c) : Signals(c) = {s}

\* Input reaches the shell in the order in which it was sent, nothing twice and
\* nothing left out, although several readers may work for one connection.
InOrder ==
  \A c \in Conns : \A i \in 1..Len(shell[c]) : shell[c][i] = i

\* The deadly embrace: LPC code waits for the monitor of a connection whose
\* reader waits for the game lock.
Embrace ==
  \E t \in Threads, r \in Readers :
    /\ pc[t] = "writing" /\ monitor[peer[t]] = {r} /\ t # r
    /\ pc[r] = "read" /\ chunk[r] # 0

\* There is no way out of it.
EmbraceIsForEver == [][Embrace => Embrace']_vars

(* Liveness *)

\* What a client sends to an open connection reaches the shell, unless the selector
\* has died or the threads are in the deadly embrace.
InputArrives ==
  \A c \in Conns : \A k \in 1..MaxChunks :
    (stage[c] = "registered" /\ sent[c] >= k)
      ~> (Len(shell[c]) >= k \/ ~open[c] \/ sel = "dead" \/ Embrace)
=============================================================================
