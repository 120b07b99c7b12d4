-------------------------- MODULE ConnectionsProofs --------------------------
(***************************************************************************)
(* Proofs about Connections, for any number of connections, readers and    *)
(* chunks, with or without LPC code that writes to other users.            *)
(***************************************************************************)
EXTENDS Connections, TLAPS

\* Which places a thread of each kind can be in, and what it serves there: a reader
\* outside the pool has a connection, and only a reader about to pass it on has a chunk.
PlaceInv ==
  /\ \A r \in Readers :
       /\ pc[r] \in {"idle", "start", "armed", "read", "lpc", "writing"}
       /\ pc[r] # "idle" => conn[r] \in Conns
  /\ \A t \in Others : pc[t] \in {"idle", "lpc", "writing"}
  /\ pc[Acceptor] \in {"idle", "creating", "register", "lpc", "writing", "dead"}
  /\ pc[Acceptor] # "idle" => conn[Acceptor] \in Conns
  /\ \A t \in Threads : chunk[t] # 0 => t \in Readers /\ pc[t] = "read"

\* Who runs LPC code owns the game lock, and a reader from the read on owns the monitor
\* of its connection.
LockInv ==
  /\ \A t \in Threads : pc[t] \in {"lpc", "writing"} => game = {t}
  /\ \A r \in Readers : pc[r] \in {"read", "lpc", "writing"} => monitor[conn[r]] = {r}

\* A reader that has taken connection c from the queue and not yet re-armed its key.
Starting(r, c) == pc[r] = "start" /\ conn[r] = c

\* OneSignal, closed and unregistered connections included: what may stand for a
\* connection excludes all else that may, and a key in the selector's hand still has
\* its interest.
SignalOf(c) ==
  /\ stage[c] # "registered" =>
       /\ ~interest[c] /\ current # c /\ queued[c] = 0
       /\ \A r \in Readers : ~Starting(r, c)
  /\ c \in selected => interest[c]
  /\ interest[c] => current # c /\ queued[c] = 0 /\ \A r \in Readers : ~Starting(r, c)
  /\ current = c => queued[c] = 0 /\ \A r \in Readers : ~Starting(r, c)
  /\ queued[c] \in {0, 1}
  /\ queued[c] = 1 => \A r \in Readers : ~Starting(r, c)
  /\ \A q, r \in Readers : Starting(q, c) /\ Starting(r, c) => q = r
  /\ stage[c] = "registered" /\ open[c] =>
       \/ interest[c] \/ current = c \/ queued[c] = 1
       \/ \E r \in Readers : Starting(r, c)

\* The acceptor has its connection for itself until it has registered it.
AcceptInv == pc[Acceptor] \notin {"idle", "dead"} => stage[conn[Acceptor]] = "created"

SignalInv == AcceptInv /\ \A c \in Conns : SignalOf(c)

\* Reader r has read a chunk of connection c and has yet to pass it on.
Holds(r, c) == conn[r] = c /\ chunk[r] # 0

\* InOrder, with what has been read: all of it is the shell's but the chunk in the hand
\* of the reader that owns the monitor, which is the next.
OrderInv ==
  /\ InOrder
  /\ \A c \in Conns :
       /\ read[c] = Len(shell[c]) \/ \E r \in Readers : Holds(r, c)
       /\ \A r \in Readers : Holds(r, c) => chunk[r] = Len(shell[c]) + 1 /\ read[c] = chunk[r]

IInv == TypeOK /\ PlaceInv /\ LockInv /\ SignalInv /\ OrderInv

-----------------------------------------------------------------------------
\* Every variable keeps its type.
LEMMA TypeKept == TypeOK /\ PlaceInv /\ [Next]_vars => TypeOK'

<1> SUFFICES ASSUME TypeOK, PlaceInv, [Next]_vars PROVE TypeOK'
  OBVIOUS
<1> USE ConnectionsAssumption
<1>1. ASSUME NEW c \in Conns, Send(c) PROVE TypeOK'
  BY <1>1 DEF Send, TypeOK, PlaceInv, Threads, netVars, dataVars
<1>2. ASSUME NEW c \in Conns, HangUp(c) PROVE TypeOK'
  BY <1>2 DEF HangUp, TypeOK, PlaceInv, Threads, netVars, dataVars
<1>3. ASSUME NEW c \in Conns, Accept(c) PROVE TypeOK'
  BY <1>3 DEF Accept, TypeOK, PlaceInv, Threads, netVars, dataVars
<1>4. ASSUME Logon PROVE TypeOK'
  BY <1>4 DEF Logon, TypeOK, PlaceInv, Threads, netVars, dataVars
<1>5. ASSUME LogonEnds PROVE TypeOK'
  BY <1>5 DEF LogonEnds, TypeOK, PlaceInv, Threads, netVars, dataVars
<1>6. ASSUME LogonFails PROVE TypeOK'
  BY <1>6 DEF LogonFails, TypeOK, PlaceInv, Threads, netVars, dataVars
<1>7. ASSUME Register PROVE TypeOK'
  BY <1>7 DEF Register, TypeOK, PlaceInv, Threads, netVars, dataVars
<1>8. ASSUME Select PROVE TypeOK'
  BY <1>8 DEF Select, Readable, TypeOK, PlaceInv, Threads, netVars, dataVars
<1>9. ASSUME NEW c \in Conns, ClearInterest(c) PROVE TypeOK'
  BY <1>9 DEF ClearInterest, TypeOK, PlaceInv, Threads, netVars, dataVars
<1>10. ASSUME NEW c \in Conns, SelectorDies(c) PROVE TypeOK'
  BY <1>10 DEF SelectorDies, TypeOK, PlaceInv, Threads, netVars, dataVars
<1>11. ASSUME Dispatch PROVE TypeOK'
  BY <1>11 DEF Dispatch, TypeOK, PlaceInv, Threads, netVars, dataVars
<1>12. ASSUME SelectAgain PROVE TypeOK'
  BY <1>12 DEF SelectAgain, TypeOK, PlaceInv, Threads, netVars, dataVars
<1>13. ASSUME NEW r \in Readers, NEW c \in Conns, PickUp(r, c) PROVE TypeOK'
  BY SMTT(30), <1>13 DEF PickUp, TypeOK, PlaceInv, Threads, netVars, dataVars
<1>14. ASSUME NEW r \in Readers, Arm(r) PROVE TypeOK'
  BY <1>14 DEF Arm, TypeOK, PlaceInv, Threads, netVars, dataVars
<1>15. ASSUME NEW r \in Readers, GiveUp(r) PROVE TypeOK'
  BY <1>15 DEF GiveUp, TypeOK, PlaceInv, Threads, netVars, dataVars
<1>16. ASSUME NEW r \in Readers, Read(r) PROVE TypeOK'
  <2>1. read' \in [Conns -> 0..MaxChunks] /\ chunk' \in [Threads -> 0..MaxChunks]
    <3>1. CASE open[conn[r]] /\ read[conn[r]] < sent[conn[r]]
      <4>1. read[conn[r]] + 1 \in 0..MaxChunks
        BY <1>16, <3>1 DEF Read, TypeOK, PlaceInv
      <4>2. /\ read' = [read EXCEPT ![conn[r]] = @ + 1]
            /\ chunk' = [chunk EXCEPT ![r] = read[conn[r]] + 1]
        BY <1>16, <3>1 DEF Read
      <4> QED
        BY <4>1, <4>2 DEF TypeOK
    <3> QED
      BY <1>16, <3>1 DEF Read, TypeOK
  <2> QED
    BY <1>16, <2>1 DEF Read, TypeOK, Threads, netVars
<1>17. ASSUME NEW r \in Readers, ReadFails(r) PROVE TypeOK'
  BY <1>17 DEF ReadFails, TypeOK, PlaceInv, Threads, netVars, dataVars
<1>18. ASSUME NEW r \in Readers, InputReceived(r) PROVE TypeOK'
  BY <1>18 DEF InputReceived, TypeOK, PlaceInv, Threads, netVars, dataVars
<1>19. ASSUME NEW r \in Readers, InputHandled(r) PROVE TypeOK'
  BY <1>19 DEF InputHandled, TypeOK, PlaceInv, Threads, netVars, dataVars
<1>20. ASSUME NEW r \in Readers, ReadEnds(r) PROVE TypeOK'
  BY <1>20 DEF ReadEnds, TypeOK, PlaceInv, Threads, netVars, dataVars
<1>21. ASSUME NEW t \in Others, Enter(t) PROVE TypeOK'
  BY <1>21 DEF Enter, TypeOK, PlaceInv, Threads, netVars, dataVars
<1>22. ASSUME NEW t \in Others, Leave(t) PROVE TypeOK'
  BY <1>22 DEF Leave, TypeOK, PlaceInv, Threads, netVars, dataVars
<1>23. ASSUME NEW t \in Threads, NEW c \in Conns, Write(t, c) PROVE TypeOK'
  BY <1>23 DEF Write, TypeOK, PlaceInv, Threads, netVars, dataVars
<1>24. ASSUME NEW t \in Threads, Written(t) PROVE TypeOK'
  BY <1>24 DEF Written, TypeOK, PlaceInv, Threads, netVars, dataVars
<1>25. ASSUME NEW t \in Threads, NEW c \in Conns, Close(t, c) PROVE TypeOK'
  BY <1>25 DEF Close, TypeOK, PlaceInv, Threads, netVars, dataVars
<1>26. CASE UNCHANGED vars
  BY <1>26 DEF vars, TypeOK, PlaceInv, Threads, netVars, dataVars
<1> QED
  BY <1>1, <1>2, <1>3, <1>4, <1>5, <1>6, <1>7, <1>8, <1>9, <1>10, <1>11, <1>12, <1>13,
     <1>14, <1>15, <1>16, <1>17, <1>18, <1>19, <1>20, <1>21, <1>22, <1>23, <1>24, <1>25,
     <1>26 DEF Next, AcceptorNext, SelectorNext, ReaderNext, LpcNext

\* Threads keep to the places of their kind.
LEMMA PlaceKept == TypeOK /\ PlaceInv /\ [Next]_vars => PlaceInv'

<1> SUFFICES ASSUME TypeOK, PlaceInv, [Next]_vars PROVE PlaceInv'
  OBVIOUS
<1> USE ConnectionsAssumption
<1>1. ASSUME NEW c \in Conns, Send(c) PROVE PlaceInv'
  BY <1>1 DEF Send, TypeOK, PlaceInv, Threads, netVars, dataVars
<1>2. ASSUME NEW c \in Conns, HangUp(c) PROVE PlaceInv'
  BY <1>2 DEF HangUp, TypeOK, PlaceInv, Threads, netVars, dataVars
<1>3. ASSUME NEW c \in Conns, Accept(c) PROVE PlaceInv'
  BY <1>3 DEF Accept, TypeOK, PlaceInv, Threads, netVars, dataVars
<1>4. ASSUME Logon PROVE PlaceInv'
  BY <1>4 DEF Logon, TypeOK, PlaceInv, Threads, netVars, dataVars
<1>5. ASSUME LogonEnds PROVE PlaceInv'
  BY <1>5 DEF LogonEnds, TypeOK, PlaceInv, Threads, netVars, dataVars
<1>6. ASSUME LogonFails PROVE PlaceInv'
  BY <1>6 DEF LogonFails, TypeOK, PlaceInv, Threads, netVars, dataVars
<1>7. ASSUME Register PROVE PlaceInv'
  BY <1>7 DEF Register, TypeOK, PlaceInv, Threads, netVars, dataVars
<1>8. ASSUME Select PROVE PlaceInv'
  BY <1>8 DEF Select, Readable, TypeOK, PlaceInv, Threads, netVars, dataVars
<1>9. ASSUME NEW c \in Conns, ClearInterest(c) PROVE PlaceInv'
  BY <1>9 DEF ClearInterest, TypeOK, PlaceInv, Threads, netVars, dataVars
<1>10. ASSUME NEW c \in Conns, SelectorDies(c) PROVE PlaceInv'
  BY <1>10 DEF SelectorDies, TypeOK, PlaceInv, Threads, netVars, dataVars
<1>11. ASSUME Dispatch PROVE PlaceInv'
  BY <1>11 DEF Dispatch, TypeOK, PlaceInv, Threads, netVars, dataVars
<1>12. ASSUME SelectAgain PROVE PlaceInv'
  BY <1>12 DEF SelectAgain, TypeOK, PlaceInv, Threads, netVars, dataVars
<1>13. ASSUME NEW r \in Readers, NEW c \in Conns, PickUp(r, c) PROVE PlaceInv'
  BY <1>13 DEF PickUp, TypeOK, PlaceInv, Threads, netVars, dataVars
<1>14. ASSUME NEW r \in Readers, Arm(r) PROVE PlaceInv'
  BY <1>14 DEF Arm, TypeOK, PlaceInv, Threads, netVars, dataVars
<1>15. ASSUME NEW r \in Readers, GiveUp(r) PROVE PlaceInv'
  BY <1>15 DEF GiveUp, TypeOK, PlaceInv, Threads, netVars, dataVars
<1>16. ASSUME NEW r \in Readers, Read(r) PROVE PlaceInv'
  BY <1>16 DEF Read, TypeOK, PlaceInv, Threads, netVars, dataVars
<1>17. ASSUME NEW r \in Readers, ReadFails(r) PROVE PlaceInv'
  BY <1>17 DEF ReadFails, TypeOK, PlaceInv, Threads, netVars, dataVars
<1>18. ASSUME NEW r \in Readers, InputReceived(r) PROVE PlaceInv'
  BY <1>18 DEF InputReceived, TypeOK, PlaceInv, Threads, netVars, dataVars
<1>19. ASSUME NEW r \in Readers, InputHandled(r) PROVE PlaceInv'
  BY <1>19 DEF InputHandled, TypeOK, PlaceInv, Threads, netVars, dataVars
<1>20. ASSUME NEW r \in Readers, ReadEnds(r) PROVE PlaceInv'
  BY <1>20 DEF ReadEnds, TypeOK, PlaceInv, Threads, netVars, dataVars
<1>21. ASSUME NEW t \in Others, Enter(t) PROVE PlaceInv'
  BY <1>21 DEF Enter, TypeOK, PlaceInv, Threads, netVars, dataVars
<1>22. ASSUME NEW t \in Others, Leave(t) PROVE PlaceInv'
  BY <1>22 DEF Leave, TypeOK, PlaceInv, Threads, netVars, dataVars
<1>23. ASSUME NEW t \in Threads, NEW c \in Conns, Write(t, c) PROVE PlaceInv'
  BY <1>23 DEF Write, TypeOK, PlaceInv, Threads, netVars, dataVars
<1>24. ASSUME NEW t \in Threads, Written(t) PROVE PlaceInv'
  BY <1>24 DEF Written, TypeOK, PlaceInv, Threads, netVars, dataVars
<1>25. ASSUME NEW t \in Threads, NEW c \in Conns, Close(t, c) PROVE PlaceInv'
  BY <1>25 DEF Close, TypeOK, PlaceInv, Threads, netVars, dataVars
<1>26. CASE UNCHANGED vars
  BY <1>26 DEF vars, TypeOK, PlaceInv, Threads, netVars, dataVars
<1> QED
  BY <1>1, <1>2, <1>3, <1>4, <1>5, <1>6, <1>7, <1>8, <1>9, <1>10, <1>11, <1>12, <1>13,
     <1>14, <1>15, <1>16, <1>17, <1>18, <1>19, <1>20, <1>21, <1>22, <1>23, <1>24, <1>25,
     <1>26 DEF Next, AcceptorNext, SelectorNext, ReaderNext, LpcNext

\* No lock is taken from its owner.
LEMMA LockKept == TypeOK /\ PlaceInv /\ LockInv /\ [Next]_vars => LockInv'

<1> SUFFICES ASSUME TypeOK, PlaceInv, LockInv, [Next]_vars PROVE LockInv'
  OBVIOUS
<1> USE ConnectionsAssumption
<1>1. ASSUME NEW c \in Conns, Send(c) PROVE LockInv'
  BY <1>1 DEF Send, TypeOK, PlaceInv, LockInv, Threads, netVars, dataVars
<1>2. ASSUME NEW c \in Conns, HangUp(c) PROVE LockInv'
  BY <1>2 DEF HangUp, TypeOK, PlaceInv, LockInv, Threads, netVars, dataVars
<1>3. ASSUME NEW c \in Conns, Accept(c) PROVE LockInv'
  BY <1>3 DEF Accept, TypeOK, PlaceInv, LockInv, Threads, netVars, dataVars
<1>4. ASSUME Logon PROVE LockInv'
  BY <1>4 DEF Logon, TypeOK, PlaceInv, LockInv, Threads, netVars, dataVars
<1>5. ASSUME LogonEnds PROVE LockInv'
  <2>1. \A t \in Threads : pc[t] \in {"lpc", "writing"} => t = Acceptor
    BY <1>5 DEF LogonEnds, LockInv, Threads
  <2> QED
    BY <1>5, <2>1 DEF LogonEnds, TypeOK, PlaceInv, LockInv, Threads, netVars, dataVars
<1>6. ASSUME LogonFails PROVE LockInv'
  <2>1. \A t \in Threads : pc[t] \in {"lpc", "writing"} => t = Acceptor
    BY <1>6 DEF LogonFails, LockInv, Threads
  <2> QED
    BY <1>6, <2>1 DEF LogonFails, TypeOK, PlaceInv, LockInv, Threads, netVars, dataVars
<1>7. ASSUME Register PROVE LockInv'
  BY <1>7 DEF Register, TypeOK, PlaceInv, LockInv, Threads, netVars, dataVars
<1>8. ASSUME Select PROVE LockInv'
  BY <1>8 DEF Select, Readable, TypeOK, PlaceInv, LockInv, Threads, netVars, dataVars
<1>9. ASSUME NEW c \in Conns, ClearInterest(c) PROVE LockInv'
  BY <1>9 DEF ClearInterest, TypeOK, PlaceInv, LockInv, Threads, netVars, dataVars
<1>10. ASSUME NEW c \in Conns, SelectorDies(c) PROVE LockInv'
  BY <1>10 DEF SelectorDies, TypeOK, PlaceInv, LockInv, Threads, netVars, dataVars
<1>11. ASSUME Dispatch PROVE LockInv'
  BY <1>11 DEF Dispatch, TypeOK, PlaceInv, LockInv, Threads, netVars, dataVars
<1>12. ASSUME SelectAgain PROVE LockInv'
  BY <1>12 DEF SelectAgain, TypeOK, PlaceInv, LockInv, Threads, netVars, dataVars
<1>13. ASSUME NEW r \in Readers, NEW c \in Conns, PickUp(r, c) PROVE LockInv'
  BY <1>13 DEF PickUp, TypeOK, PlaceInv, LockInv, Threads, netVars, dataVars
<1>14. ASSUME NEW r \in Readers, Arm(r) PROVE LockInv'
  BY <1>14 DEF Arm, TypeOK, PlaceInv, LockInv, Threads, netVars, dataVars
<1>15. ASSUME NEW r \in Readers, GiveUp(r) PROVE LockInv'
  BY <1>15 DEF GiveUp, TypeOK, PlaceInv, LockInv, Threads, netVars, dataVars
<1>16. ASSUME NEW r \in Readers, Read(r) PROVE LockInv'
  <2>1. conn[r] \in Conns /\ r \in Threads
    BY <1>16 DEF Read, PlaceInv, Threads
  <2>2. \A q \in Readers : q # r /\ pc[q] \in {"read", "lpc", "writing"} => conn[q] # conn[r]
    BY <1>16 DEF Read, LockInv
  <2>3. \A q \in Readers : pc'[q] \in {"read", "lpc", "writing"} => monitor'[conn'[q]] = {q}
    BY <1>16, <2>1, <2>2 DEF Read, TypeOK, PlaceInv, LockInv, Threads, netVars
  <2>4. \A t \in Threads : pc'[t] \in {"lpc", "writing"} => game' = {t}
    BY <1>16, <2>1 DEF Read, TypeOK, LockInv, netVars
  <2> QED
    BY <2>3, <2>4 DEF LockInv
<1>17. ASSUME NEW r \in Readers, ReadFails(r) PROVE LockInv'
  BY <1>17 DEF ReadFails, TypeOK, PlaceInv, LockInv, Threads, netVars, dataVars
<1>18. ASSUME NEW r \in Readers, InputReceived(r) PROVE LockInv'
  BY <1>18 DEF InputReceived, TypeOK, PlaceInv, LockInv, Threads, netVars, dataVars
<1>19. ASSUME NEW r \in Readers, InputHandled(r) PROVE LockInv'
  <2>1. \A t \in Threads : pc[t] \in {"lpc", "writing"} => t = r
    BY <1>19 DEF InputHandled, LockInv, Threads
  <2> QED
    BY <1>19, <2>1 DEF InputHandled, TypeOK, PlaceInv, LockInv, Threads, netVars, dataVars
<1>20. ASSUME NEW r \in Readers, ReadEnds(r) PROVE LockInv'
  <2>1. conn[r] \in Conns /\ r \in Threads
    BY <1>20 DEF ReadEnds, PlaceInv, Threads
  <2>2. \A q \in Readers : q # r /\ pc[q] \in {"read", "lpc", "writing"} => conn[q] # conn[r]
    BY <1>20 DEF ReadEnds, LockInv
  <2>3. \A q \in Readers : pc'[q] \in {"read", "lpc", "writing"} => monitor'[conn'[q]] = {q}
    BY <1>20, <2>1, <2>2 DEF ReadEnds, TypeOK, PlaceInv, LockInv, Threads, netVars
  <2>4. \A t \in Threads : pc'[t] \in {"lpc", "writing"} => game' = {t}
    BY <1>20, <2>1 DEF ReadEnds, TypeOK, LockInv, netVars
  <2> QED
    BY <2>3, <2>4 DEF LockInv
<1>21. ASSUME NEW t \in Others, Enter(t) PROVE LockInv'
  BY <1>21 DEF Enter, TypeOK, PlaceInv, LockInv, Threads, netVars, dataVars
<1>22. ASSUME NEW t \in Others, Leave(t) PROVE LockInv'
  <2>1. \A u \in Threads : pc[u] \in {"lpc", "writing"} => u = t
    BY <1>22 DEF Leave, LockInv, Threads
  <2> QED
    BY <1>22, <2>1 DEF Leave, TypeOK, PlaceInv, LockInv, Threads, netVars, dataVars
<1>23. ASSUME NEW t \in Threads, NEW c \in Conns, Write(t, c) PROVE LockInv'
  BY <1>23 DEF Write, TypeOK, PlaceInv, LockInv, Threads, netVars, dataVars
<1>24. ASSUME NEW t \in Threads, Written(t) PROVE LockInv'
  BY <1>24 DEF Written, TypeOK, PlaceInv, LockInv, Threads, netVars, dataVars
<1>25. ASSUME NEW t \in Threads, NEW c \in Conns, Close(t, c) PROVE LockInv'
  BY <1>25 DEF Close, TypeOK, PlaceInv, LockInv, Threads, netVars, dataVars
<1>26. CASE UNCHANGED vars
  BY <1>26 DEF vars, TypeOK, PlaceInv, LockInv, Threads, netVars, dataVars
<1> QED
  BY <1>1, <1>2, <1>3, <1>4, <1>5, <1>6, <1>7, <1>8, <1>9, <1>10, <1>11, <1>12, <1>13,
     <1>14, <1>15, <1>16, <1>17, <1>18, <1>19, <1>20, <1>21, <1>22, <1>23, <1>24, <1>25,
     <1>26 DEF Next, AcceptorNext, SelectorNext, ReaderNext, LpcNext

\* What a step does not say of a connection stays as it was.
LEMMA SignalSame ==
  ASSUME NEW c \in Conns, SignalOf(c), stage'[c] = stage[c], interest'[c] = interest[c],
         queued'[c] = queued[c], current' = c <=> current = c, c \in selected' => c \in selected,
         open'[c] => open[c], \A r \in Readers : Starting(r, c)' <=> Starting(r, c)
  PROVE  SignalOf(c)'
BY DEF SignalOf

\* A signal moves from key to selector to queue to reader to key, and never doubles.
LEMMA SignalKept == TypeOK /\ PlaceInv /\ SignalInv /\ [Next]_vars => SignalInv'

<1> SUFFICES ASSUME TypeOK, PlaceInv, SignalInv, [Next]_vars PROVE SignalInv'
  OBVIOUS
<1> USE ConnectionsAssumption
<1>1. ASSUME NEW c \in Conns, Send(c) PROVE SignalInv'
  <2>1. UNCHANGED <<stage, interest, queued, current, selected>> /\ \A d \in Conns : open'[d] => open[d]
    BY <1>1 DEF Send, netVars, dataVars, Starting, TypeOK, PlaceInv, Threads
  <2>2. \A d \in Conns, q \in Readers : Starting(q, d)' <=> Starting(q, d)
    BY <1>1 DEF Send, netVars, dataVars, Starting, TypeOK, PlaceInv, Threads
  <2>3. AcceptInv'
    BY <1>1 DEF Send, netVars, dataVars, Starting, TypeOK, PlaceInv, Threads, SignalInv, AcceptInv
  <2> QED
    BY <2>1, <2>2, <2>3, SignalSame DEF SignalInv
<1>2. ASSUME NEW c \in Conns, HangUp(c) PROVE SignalInv'
  <2>1. UNCHANGED <<stage, interest, queued, current, selected>> /\ \A d \in Conns : open'[d] => open[d]
    BY <1>2 DEF HangUp, netVars, dataVars, Starting, TypeOK, PlaceInv, Threads
  <2>2. \A d \in Conns, q \in Readers : Starting(q, d)' <=> Starting(q, d)
    BY <1>2 DEF HangUp, netVars, dataVars, Starting, TypeOK, PlaceInv, Threads
  <2>3. AcceptInv'
    BY <1>2 DEF HangUp, netVars, dataVars, Starting, TypeOK, PlaceInv, Threads, SignalInv, AcceptInv
  <2> QED
    BY <2>1, <2>2, <2>3, SignalSame DEF SignalInv
<1>3. ASSUME NEW c \in Conns, Accept(c) PROVE SignalInv'
  <2>1. ASSUME NEW d \in Conns, d # c PROVE SignalOf(d)'
    <3>1. /\ stage'[d] = stage[d] /\ interest'[d] = interest[d] /\ queued'[d] = queued[d]
          /\ current' = d <=> current = d
          /\ d \in selected' => d \in selected
          /\ open'[d] => open[d]
      BY <1>3, <2>1 DEF Accept, netVars, dataVars, Starting, TypeOK, PlaceInv, Threads, SignalInv, SignalOf
    <3>2. \A q \in Readers : Starting(q, d)' <=> Starting(q, d)
      BY <1>3, <2>1 DEF Accept, netVars, dataVars, Starting, TypeOK, PlaceInv, Threads
    <3> QED
      BY <3>1, <3>2, SignalSame DEF SignalInv
  <2>2. SignalOf(c)'
    BY <1>3 DEF Accept, netVars, dataVars, Starting, TypeOK, PlaceInv, Threads, SignalInv, SignalOf, AcceptInv
  <2>3. AcceptInv'
    BY <1>3 DEF Accept, netVars, dataVars, Starting, TypeOK, PlaceInv, Threads, SignalInv, SignalOf, AcceptInv
  <2> QED
    BY <2>1, <2>2, <2>3 DEF SignalInv
<1>4. ASSUME Logon PROVE SignalInv'
  <2>1. UNCHANGED <<stage, interest, queued, current, selected>> /\ \A d \in Conns : open'[d] => open[d]
    BY <1>4 DEF Logon, netVars, dataVars, Starting, TypeOK, PlaceInv, Threads
  <2>2. \A d \in Conns, q \in Readers : Starting(q, d)' <=> Starting(q, d)
    BY <1>4 DEF Logon, netVars, dataVars, Starting, TypeOK, PlaceInv, Threads
  <2>3. AcceptInv'
    BY <1>4 DEF Logon, netVars, dataVars, Starting, TypeOK, PlaceInv, Threads, SignalInv, AcceptInv
  <2> QED
    BY <2>1, <2>2, <2>3, SignalSame DEF SignalInv
<1>5. ASSUME LogonEnds PROVE SignalInv'
  <2>1. UNCHANGED <<stage, interest, queued, current, selected>> /\ \A d \in Conns : open'[d] => open[d]
    BY <1>5 DEF LogonEnds, netVars, dataVars, Starting, TypeOK, PlaceInv, Threads
  <2>2. \A d \in Conns, q \in Readers : Starting(q, d)' <=> Starting(q, d)
    BY <1>5 DEF LogonEnds, netVars, dataVars, Starting, TypeOK, PlaceInv, Threads
  <2>3. AcceptInv'
    BY <1>5 DEF LogonEnds, netVars, dataVars, Starting, TypeOK, PlaceInv, Threads, SignalInv, AcceptInv
  <2> QED
    BY <2>1, <2>2, <2>3, SignalSame DEF SignalInv
<1>6. ASSUME LogonFails PROVE SignalInv'
  <2>1. UNCHANGED <<stage, interest, queued, current, selected>> /\ \A d \in Conns : open'[d] => open[d]
    BY <1>6 DEF LogonFails, netVars, dataVars, Starting, TypeOK, PlaceInv, Threads
  <2>2. \A d \in Conns, q \in Readers : Starting(q, d)' <=> Starting(q, d)
    BY <1>6 DEF LogonFails, netVars, dataVars, Starting, TypeOK, PlaceInv, Threads
  <2>3. AcceptInv'
    BY <1>6 DEF LogonFails, netVars, dataVars, Starting, TypeOK, PlaceInv, Threads, SignalInv, AcceptInv
  <2> QED
    BY <2>1, <2>2, <2>3, SignalSame DEF SignalInv
<1>7. ASSUME Register PROVE SignalInv'
  <2>0. PICK e \in Conns : e = conn[Acceptor]
    BY <1>7 DEF Register, netVars, dataVars, Starting, TypeOK, PlaceInv, Threads
  <2>1. ASSUME NEW d \in Conns, d # e PROVE SignalOf(d)'
    <3>1. /\ stage'[d] = stage[d] /\ interest'[d] = interest[d] /\ queued'[d] = queued[d]
          /\ current' = d <=> current = d
          /\ d \in selected' => d \in selected
          /\ open'[d] => open[d]
      BY <1>7, <2>0, <2>1 DEF Register, netVars, dataVars, Starting, TypeOK, PlaceInv, Threads, SignalInv, SignalOf
    <3>2. \A q \in Readers : Starting(q, d)' <=> Starting(q, d)
      BY <1>7, <2>0, <2>1 DEF Register, netVars, dataVars, Starting, TypeOK, PlaceInv, Threads
    <3> QED
      BY <3>1, <3>2, SignalSame DEF SignalInv
  <2>2. SignalOf(e)'
    BY <1>7, <2>0 DEF Register, netVars, dataVars, Starting, TypeOK, PlaceInv, Threads, SignalInv, SignalOf, AcceptInv
  <2>3. AcceptInv'
    BY <1>7, <2>0 DEF Register, netVars, dataVars, Starting, TypeOK, PlaceInv, Threads, SignalInv, SignalOf, AcceptInv
  <2> QED
    BY <2>1, <2>2, <2>3 DEF SignalInv
<1>8. ASSUME Select PROVE SignalInv'
  <2>1. \A d \in Conns, q \in Readers : Starting(q, d)' <=> Starting(q, d)
    BY <1>8 DEF Select, netVars, dataVars, Starting, TypeOK, PlaceInv, Threads
  <2>2. /\ UNCHANGED <<stage, interest, queued, current, open, pc, conn>>
        /\ \A d \in selected' : interest[d]
    BY <1>8 DEF Select, netVars, dataVars, Starting, TypeOK, PlaceInv, Threads, Readable
  <2> QED
    BY <2>1, <2>2 DEF SignalInv, SignalOf, AcceptInv
<1>9. ASSUME NEW c \in Conns, ClearInterest(c) PROVE SignalInv'
  <2>1. ASSUME NEW d \in Conns, d # c PROVE SignalOf(d)'
    <3>1. /\ stage'[d] = stage[d] /\ interest'[d] = interest[d] /\ queued'[d] = queued[d]
          /\ current' = d <=> current = d
          /\ d \in selected' => d \in selected
          /\ open'[d] => open[d]
      BY <1>9, <2>1 DEF ClearInterest, netVars, dataVars, Starting, TypeOK, PlaceInv, Threads, SignalInv, SignalOf
    <3>2. \A q \in Readers : Starting(q, d)' <=> Starting(q, d)
      BY <1>9, <2>1 DEF ClearInterest, netVars, dataVars, Starting, TypeOK, PlaceInv, Threads
    <3> QED
      BY <3>1, <3>2, SignalSame DEF SignalInv
  <2>2. SignalOf(c)'
    BY <1>9 DEF ClearInterest, netVars, dataVars, Starting, TypeOK, PlaceInv, Threads, SignalInv, SignalOf, AcceptInv
  <2>3. AcceptInv'
    BY <1>9 DEF ClearInterest, netVars, dataVars, Starting, TypeOK, PlaceInv, Threads, SignalInv, SignalOf, AcceptInv
  <2> QED
    BY <2>1, <2>2, <2>3 DEF SignalInv
<1>10. ASSUME NEW c \in Conns, SelectorDies(c) PROVE SignalInv'
  <2>1. UNCHANGED <<stage, interest, queued, current, selected>> /\ \A d \in Conns : open'[d] => open[d]
    BY <1>10 DEF SelectorDies, netVars, dataVars, Starting, TypeOK, PlaceInv, Threads
  <2>2. \A d \in Conns, q \in Readers : Starting(q, d)' <=> Starting(q, d)
    BY <1>10 DEF SelectorDies, netVars, dataVars, Starting, TypeOK, PlaceInv, Threads
  <2>3. AcceptInv'
    BY <1>10 DEF SelectorDies, netVars, dataVars, Starting, TypeOK, PlaceInv, Threads, SignalInv, AcceptInv
  <2> QED
    BY <2>1, <2>2, <2>3, SignalSame DEF SignalInv
<1>11. ASSUME Dispatch PROVE SignalInv'
  <2>0. PICK e \in Conns : e = current
    BY <1>11 DEF Dispatch, netVars, dataVars, Starting, TypeOK, PlaceInv, Threads
  <2>1. ASSUME NEW d \in Conns, d # e PROVE SignalOf(d)'
    <3>1. /\ stage'[d] = stage[d] /\ interest'[d] = interest[d] /\ queued'[d] = queued[d]
          /\ current' = d <=> current = d
          /\ d \in selected' => d \in selected
          /\ open'[d] => open[d]
      BY <1>11, <2>0, <2>1 DEF Dispatch, netVars, dataVars, Starting, TypeOK, PlaceInv, Threads, SignalInv, SignalOf
    <3>2. \A q \in Readers : Starting(q, d)' <=> Starting(q, d)
      BY <1>11, <2>0, <2>1 DEF Dispatch, netVars, dataVars, Starting, TypeOK, PlaceInv, Threads
    <3> QED
      BY <3>1, <3>2, SignalSame DEF SignalInv
  <2>2. SignalOf(e)'
    BY <1>11, <2>0 DEF Dispatch, netVars, dataVars, Starting, TypeOK, PlaceInv, Threads, SignalInv, SignalOf, AcceptInv
  <2>3. AcceptInv'
    BY <1>11, <2>0 DEF Dispatch, netVars, dataVars, Starting, TypeOK, PlaceInv, Threads, SignalInv, SignalOf, AcceptInv
  <2> QED
    BY <2>1, <2>2, <2>3 DEF SignalInv
<1>12. ASSUME SelectAgain PROVE SignalInv'
  <2>1. UNCHANGED <<stage, interest, queued, current, selected>> /\ \A d \in Conns : open'[d] => open[d]
    BY <1>12 DEF SelectAgain, netVars, dataVars, Starting, TypeOK, PlaceInv, Threads
  <2>2. \A d \in Conns, q \in Readers : Starting(q, d)' <=> Starting(q, d)
    BY <1>12 DEF SelectAgain, netVars, dataVars, Starting, TypeOK, PlaceInv, Threads
  <2>3. AcceptInv'
    BY <1>12 DEF SelectAgain, netVars, dataVars, Starting, TypeOK, PlaceInv, Threads, SignalInv, AcceptInv
  <2> QED
    BY <2>1, <2>2, <2>3, SignalSame DEF SignalInv
<1>13. ASSUME NEW r \in Readers, NEW c \in Conns, PickUp(r, c) PROVE SignalInv'
  <2>1. ASSUME NEW d \in Conns, d # c PROVE SignalOf(d)'
    <3>1. /\ stage'[d] = stage[d] /\ interest'[d] = interest[d] /\ queued'[d] = queued[d]
          /\ current' = d <=> current = d
          /\ d \in selected' => d \in selected
          /\ open'[d] => open[d]
      BY <1>13, <2>1 DEF PickUp, netVars, dataVars, Starting, TypeOK, PlaceInv, Threads, SignalInv, SignalOf
    <3>2. \A q \in Readers : Starting(q, d)' <=> Starting(q, d)
      BY <1>13, <2>1 DEF PickUp, netVars, dataVars, Starting, TypeOK, PlaceInv, Threads
    <3> QED
      BY <3>1, <3>2, SignalSame DEF SignalInv
  <2>2. SignalOf(c)'
    BY <1>13 DEF PickUp, netVars, dataVars, Starting, TypeOK, PlaceInv, Threads, SignalInv, SignalOf, AcceptInv
  <2>3. AcceptInv'
    BY <1>13 DEF PickUp, netVars, dataVars, Starting, TypeOK, PlaceInv, Threads, SignalInv, SignalOf, AcceptInv
  <2> QED
    BY <2>1, <2>2, <2>3 DEF SignalInv
<1>14. ASSUME NEW r \in Readers, Arm(r) PROVE SignalInv'
  <2>0. PICK e \in Conns : e = conn[r]
    BY <1>14 DEF Arm, netVars, dataVars, Starting, TypeOK, PlaceInv, Threads
  <2>1. ASSUME NEW d \in Conns, d # e PROVE SignalOf(d)'
    <3>1. /\ stage'[d] = stage[d] /\ interest'[d] = interest[d] /\ queued'[d] = queued[d]
          /\ current' = d <=> current = d
          /\ d \in selected' => d \in selected
          /\ open'[d] => open[d]
      BY <1>14, <2>0, <2>1 DEF Arm, netVars, dataVars, Starting, TypeOK, PlaceInv, Threads, SignalInv, SignalOf
    <3>2. \A q \in Readers : Starting(q, d)' <=> Starting(q, d)
      BY <1>14, <2>0, <2>1 DEF Arm, netVars, dataVars, Starting, TypeOK, PlaceInv, Threads
    <3> QED
      BY <3>1, <3>2, SignalSame DEF SignalInv
  <2>2. SignalOf(e)'
    BY <1>14, <2>0 DEF Arm, netVars, dataVars, Starting, TypeOK, PlaceInv, Threads, SignalInv, SignalOf, AcceptInv
  <2>3. AcceptInv'
    BY <1>14, <2>0 DEF Arm, netVars, dataVars, Starting, TypeOK, PlaceInv, Threads, SignalInv, SignalOf, AcceptInv
  <2> QED
    BY <2>1, <2>2, <2>3 DEF SignalInv
<1>15. ASSUME NEW r \in Readers, GiveUp(r) PROVE SignalInv'
  <2>0. PICK e \in Conns : e = conn[r]
    BY <1>15 DEF GiveUp, netVars, dataVars, Starting, TypeOK, PlaceInv, Threads
  <2>1. ASSUME NEW d \in Conns, d # e PROVE SignalOf(d)'
    <3>1. /\ stage'[d] = stage[d] /\ interest'[d] = interest[d] /\ queued'[d] = queued[d]
          /\ current' = d <=> current = d
          /\ d \in selected' => d \in selected
          /\ open'[d] => open[d]
      BY <1>15, <2>0, <2>1 DEF GiveUp, netVars, dataVars, Starting, TypeOK, PlaceInv, Threads, SignalInv, SignalOf
    <3>2. \A q \in Readers : Starting(q, d)' <=> Starting(q, d)
      BY <1>15, <2>0, <2>1 DEF GiveUp, netVars, dataVars, Starting, TypeOK, PlaceInv, Threads
    <3> QED
      BY <3>1, <3>2, SignalSame DEF SignalInv
  <2>2. SignalOf(e)'
    BY <1>15, <2>0 DEF GiveUp, netVars, dataVars, Starting, TypeOK, PlaceInv, Threads, SignalInv, SignalOf, AcceptInv
  <2>3. AcceptInv'
    BY <1>15, <2>0 DEF GiveUp, netVars, dataVars, Starting, TypeOK, PlaceInv, Threads, SignalInv, SignalOf, AcceptInv
  <2> QED
    BY <2>1, <2>2, <2>3 DEF SignalInv
<1>16. ASSUME NEW r \in Readers, Read(r) PROVE SignalInv'
  <2>1. UNCHANGED <<stage, interest, queued, current, selected>> /\ \A d \in Conns : open'[d] => open[d]
    BY <1>16 DEF Read, netVars, dataVars, Starting, TypeOK, PlaceInv, Threads
  <2>2. \A d \in Conns, q \in Readers : Starting(q, d)' <=> Starting(q, d)
    BY <1>16 DEF Read, netVars, dataVars, Starting, TypeOK, PlaceInv, Threads
  <2>3. AcceptInv'
    BY <1>16 DEF Read, netVars, dataVars, Starting, TypeOK, PlaceInv, Threads, SignalInv, AcceptInv
  <2> QED
    BY <2>1, <2>2, <2>3, SignalSame DEF SignalInv
<1>17. ASSUME NEW r \in Readers, ReadFails(r) PROVE SignalInv'
  <2>1. UNCHANGED <<stage, interest, queued, current, selected>> /\ \A d \in Conns : open'[d] => open[d]
    BY <1>17 DEF ReadFails, netVars, dataVars, Starting, TypeOK, PlaceInv, Threads
  <2>2. \A d \in Conns, q \in Readers : Starting(q, d)' <=> Starting(q, d)
    BY <1>17 DEF ReadFails, netVars, dataVars, Starting, TypeOK, PlaceInv, Threads
  <2>3. AcceptInv'
    BY <1>17 DEF ReadFails, netVars, dataVars, Starting, TypeOK, PlaceInv, Threads, SignalInv, AcceptInv
  <2> QED
    BY <2>1, <2>2, <2>3, SignalSame DEF SignalInv
<1>18. ASSUME NEW r \in Readers, InputReceived(r) PROVE SignalInv'
  <2>1. UNCHANGED <<stage, interest, queued, current, selected>> /\ \A d \in Conns : open'[d] => open[d]
    BY <1>18 DEF InputReceived, netVars, dataVars, Starting, TypeOK, PlaceInv, Threads
  <2>2. \A d \in Conns, q \in Readers : Starting(q, d)' <=> Starting(q, d)
    BY <1>18 DEF InputReceived, netVars, dataVars, Starting, TypeOK, PlaceInv, Threads
  <2>3. AcceptInv'
    BY <1>18 DEF InputReceived, netVars, dataVars, Starting, TypeOK, PlaceInv, Threads, SignalInv, AcceptInv
  <2> QED
    BY <2>1, <2>2, <2>3, SignalSame DEF SignalInv
<1>19. ASSUME NEW r \in Readers, InputHandled(r) PROVE SignalInv'
  <2>1. UNCHANGED <<stage, interest, queued, current, selected>> /\ \A d \in Conns : open'[d] => open[d]
    BY <1>19 DEF InputHandled, netVars, dataVars, Starting, TypeOK, PlaceInv, Threads
  <2>2. \A d \in Conns, q \in Readers : Starting(q, d)' <=> Starting(q, d)
    BY <1>19 DEF InputHandled, netVars, dataVars, Starting, TypeOK, PlaceInv, Threads
  <2>3. AcceptInv'
    BY <1>19 DEF InputHandled, netVars, dataVars, Starting, TypeOK, PlaceInv, Threads, SignalInv, AcceptInv
  <2> QED
    BY <2>1, <2>2, <2>3, SignalSame DEF SignalInv
<1>20. ASSUME NEW r \in Readers, ReadEnds(r) PROVE SignalInv'
  <2>1. UNCHANGED <<stage, interest, queued, current, selected>> /\ \A d \in Conns : open'[d] => open[d]
    BY <1>20 DEF ReadEnds, netVars, dataVars, Starting, TypeOK, PlaceInv, Threads
  <2>2. \A d \in Conns, q \in Readers : Starting(q, d)' <=> Starting(q, d)
    BY <1>20 DEF ReadEnds, netVars, dataVars, Starting, TypeOK, PlaceInv, Threads
  <2>3. AcceptInv'
    BY <1>20 DEF ReadEnds, netVars, dataVars, Starting, TypeOK, PlaceInv, Threads, SignalInv, AcceptInv
  <2> QED
    BY <2>1, <2>2, <2>3, SignalSame DEF SignalInv
<1>21. ASSUME NEW t \in Others, Enter(t) PROVE SignalInv'
  <2>1. UNCHANGED <<stage, interest, queued, current, selected>> /\ \A d \in Conns : open'[d] => open[d]
    BY <1>21 DEF Enter, netVars, dataVars, Starting, TypeOK, PlaceInv, Threads
  <2>2. \A d \in Conns, q \in Readers : Starting(q, d)' <=> Starting(q, d)
    BY <1>21 DEF Enter, netVars, dataVars, Starting, TypeOK, PlaceInv, Threads
  <2>3. AcceptInv'
    BY <1>21 DEF Enter, netVars, dataVars, Starting, TypeOK, PlaceInv, Threads, SignalInv, AcceptInv
  <2> QED
    BY <2>1, <2>2, <2>3, SignalSame DEF SignalInv
<1>22. ASSUME NEW t \in Others, Leave(t) PROVE SignalInv'
  <2>1. UNCHANGED <<stage, interest, queued, current, selected>> /\ \A d \in Conns : open'[d] => open[d]
    BY <1>22 DEF Leave, netVars, dataVars, Starting, TypeOK, PlaceInv, Threads
  <2>2. \A d \in Conns, q \in Readers : Starting(q, d)' <=> Starting(q, d)
    BY <1>22 DEF Leave, netVars, dataVars, Starting, TypeOK, PlaceInv, Threads
  <2>3. AcceptInv'
    BY <1>22 DEF Leave, netVars, dataVars, Starting, TypeOK, PlaceInv, Threads, SignalInv, AcceptInv
  <2> QED
    BY <2>1, <2>2, <2>3, SignalSame DEF SignalInv
<1>23. ASSUME NEW t \in Threads, NEW c \in Conns, Write(t, c) PROVE SignalInv'
  <2>1. UNCHANGED <<stage, interest, queued, current, selected>> /\ \A d \in Conns : open'[d] => open[d]
    BY <1>23 DEF Write, netVars, dataVars, Starting, TypeOK, PlaceInv, Threads
  <2>2. \A d \in Conns, q \in Readers : Starting(q, d)' <=> Starting(q, d)
    BY <1>23 DEF Write, netVars, dataVars, Starting, TypeOK, PlaceInv, Threads
  <2>3. AcceptInv'
    BY <1>23 DEF Write, netVars, dataVars, Starting, TypeOK, PlaceInv, Threads, SignalInv, AcceptInv
  <2> QED
    BY <2>1, <2>2, <2>3, SignalSame DEF SignalInv
<1>24. ASSUME NEW t \in Threads, Written(t) PROVE SignalInv'
  <2>1. UNCHANGED <<stage, interest, queued, current, selected>> /\ \A d \in Conns : open'[d] => open[d]
    BY <1>24 DEF Written, netVars, dataVars, Starting, TypeOK, PlaceInv, Threads
  <2>2. \A d \in Conns, q \in Readers : Starting(q, d)' <=> Starting(q, d)
    BY <1>24 DEF Written, netVars, dataVars, Starting, TypeOK, PlaceInv, Threads
  <2>3. AcceptInv'
    BY <1>24 DEF Written, netVars, dataVars, Starting, TypeOK, PlaceInv, Threads, SignalInv, AcceptInv
  <2> QED
    BY <2>1, <2>2, <2>3, SignalSame DEF SignalInv
<1>25. ASSUME NEW t \in Threads, NEW c \in Conns, Close(t, c) PROVE SignalInv'
  <2>1. UNCHANGED <<stage, interest, queued, current, selected>> /\ \A d \in Conns : open'[d] => open[d]
    BY <1>25 DEF Close, netVars, dataVars, Starting, TypeOK, PlaceInv, Threads
  <2>2. \A d \in Conns, q \in Readers : Starting(q, d)' <=> Starting(q, d)
    BY <1>25 DEF Close, netVars, dataVars, Starting, TypeOK, PlaceInv, Threads
  <2>3. AcceptInv'
    BY <1>25 DEF Close, netVars, dataVars, Starting, TypeOK, PlaceInv, Threads, SignalInv, AcceptInv
  <2> QED
    BY <2>1, <2>2, <2>3, SignalSame DEF SignalInv
<1>26. CASE UNCHANGED vars
  BY <1>26 DEF vars, SignalInv, SignalOf, AcceptInv, Starting
<1> QED
  BY <1>1, <1>2, <1>3, <1>4, <1>5, <1>6, <1>7, <1>8, <1>9, <1>10, <1>11, <1>12, <1>13,
     <1>14, <1>15, <1>16, <1>17, <1>18, <1>19, <1>20, <1>21, <1>22, <1>23, <1>24, <1>25,
     <1>26 DEF Next, AcceptorNext, SelectorNext, ReaderNext, LpcNext

\* It takes a step that reads, passes on a chunk or drops one to disturb the order.
LEMMA OrderSame ==
  ASSUME OrderInv, UNCHANGED <<read, shell, chunk>>,
         \A r \in Readers : chunk[r] # 0 => conn'[r] = conn[r]
  PROVE  OrderInv'
<1>1. ASSUME NEW r \in Readers, NEW c \in Conns PROVE Holds(r, c)' <=> Holds(r, c)
  BY DEF Holds
<1> QED
  BY <1>1 DEF OrderInv, InOrder

\* Chunks are read and passed on under one monitor.
LEMMA OrderKept == TypeOK /\ PlaceInv /\ LockInv /\ OrderInv /\ [Next]_vars => OrderInv'

<1> SUFFICES ASSUME TypeOK, PlaceInv, LockInv, OrderInv, [Next]_vars PROVE OrderInv'
  OBVIOUS
<1> USE ConnectionsAssumption
<1>1. ASSUME NEW c \in Conns, Send(c) PROVE OrderInv'
  <2>1. UNCHANGED <<read, shell, chunk, conn>>
    BY <1>1 DEF Send, dataVars
  <2> QED
    BY <2>1, OrderSame
<1>2. ASSUME NEW c \in Conns, HangUp(c) PROVE OrderInv'
  <2>1. UNCHANGED <<read, shell, chunk, conn>>
    BY <1>2 DEF HangUp, dataVars
  <2> QED
    BY <2>1, OrderSame
<1>3. ASSUME NEW c \in Conns, Accept(c) PROVE OrderInv'
  <2>1. UNCHANGED <<read, shell, chunk>> /\ \A r \in Readers : conn'[r] = conn[r]
    BY <1>3 DEF Accept, dataVars, TypeOK, Threads
  <2> QED
    BY <2>1, OrderSame
<1>4. ASSUME Logon PROVE OrderInv'
  <2>1. UNCHANGED <<read, shell, chunk, conn>>
    BY <1>4 DEF Logon, dataVars
  <2> QED
    BY <2>1, OrderSame
<1>5. ASSUME LogonEnds PROVE OrderInv'
  <2>1. UNCHANGED <<read, shell, chunk, conn>>
    BY <1>5 DEF LogonEnds, dataVars
  <2> QED
    BY <2>1, OrderSame
<1>6. ASSUME LogonFails PROVE OrderInv'
  <2>1. UNCHANGED <<read, shell, chunk, conn>>
    BY <1>6 DEF LogonFails, dataVars
  <2> QED
    BY <2>1, OrderSame
<1>7. ASSUME Register PROVE OrderInv'
  <2>1. UNCHANGED <<read, shell, chunk>> /\ \A r \in Readers : conn'[r] = conn[r]
    BY <1>7 DEF Register, dataVars, TypeOK, Threads
  <2> QED
    BY <2>1, OrderSame
<1>8. ASSUME Select PROVE OrderInv'
  <2>1. UNCHANGED <<read, shell, chunk, conn>>
    BY <1>8 DEF Select, dataVars
  <2> QED
    BY <2>1, OrderSame
<1>9. ASSUME NEW c \in Conns, ClearInterest(c) PROVE OrderInv'
  <2>1. UNCHANGED <<read, shell, chunk, conn>>
    BY <1>9 DEF ClearInterest, dataVars
  <2> QED
    BY <2>1, OrderSame
<1>10. ASSUME NEW c \in Conns, SelectorDies(c) PROVE OrderInv'
  <2>1. UNCHANGED <<read, shell, chunk, conn>>
    BY <1>10 DEF SelectorDies, dataVars
  <2> QED
    BY <2>1, OrderSame
<1>11. ASSUME Dispatch PROVE OrderInv'
  <2>1. UNCHANGED <<read, shell, chunk, conn>>
    BY <1>11 DEF Dispatch, dataVars
  <2> QED
    BY <2>1, OrderSame
<1>12. ASSUME SelectAgain PROVE OrderInv'
  <2>1. UNCHANGED <<read, shell, chunk, conn>>
    BY <1>12 DEF SelectAgain, dataVars
  <2> QED
    BY <2>1, OrderSame
<1>13. ASSUME NEW r \in Readers, NEW c \in Conns, PickUp(r, c) PROVE OrderInv'
  <2>1. UNCHANGED <<read, shell, chunk>> /\ \A q \in Readers : chunk[q] # 0 => conn'[q] = conn[q]
    BY <1>13 DEF PickUp, dataVars, TypeOK, PlaceInv, Threads
  <2> QED
    BY <2>1, OrderSame
<1>14. ASSUME NEW r \in Readers, Arm(r) PROVE OrderInv'
  <2>1. UNCHANGED <<read, shell, chunk, conn>>
    BY <1>14 DEF Arm, dataVars
  <2> QED
    BY <2>1, OrderSame
<1>15. ASSUME NEW r \in Readers, GiveUp(r) PROVE OrderInv'
  <2>1. UNCHANGED <<read, shell, chunk>> /\ \A q \in Readers : chunk[q] # 0 => conn'[q] = conn[q]
    BY <1>15 DEF GiveUp, dataVars, TypeOK, PlaceInv, Threads
  <2> QED
    BY <2>1, OrderSame
<1>16. ASSUME NEW r \in Readers, Read(r) PROVE OrderInv'
  <2>0. PICK d \in Conns : d = conn[r]
    BY <1>16 DEF Read, PlaceInv
  <2>1. conn' = conn /\ conn[r] = d /\ r \in Threads
    BY <1>16, <2>0 DEF Read, Threads
  <2>2. \A q \in Readers : ~Holds(q, d)
    BY <1>16, <2>1 DEF Read, LockInv, PlaceInv, Holds, Threads
  <2>3. read[d] = Len(shell[d])
    BY <2>2 DEF OrderInv
  <2>5. InOrder'
    BY <1>16 DEF Read, OrderInv, InOrder
  <2>6. ASSUME NEW c \in Conns, c # d
        PROVE  /\ read'[c] = Len(shell'[c]) \/ \E q \in Readers : Holds(q, c)'
               /\ \A q \in Readers : Holds(q, c)' =>
                    chunk'[q] = Len(shell'[c]) + 1 /\ read'[c] = chunk'[q]
    <3>1. read'[c] = read[c] /\ shell' = shell /\ \A q \in Readers : q # r => chunk'[q] = chunk[q]
      BY <1>16, <2>1, <2>6 DEF Read, TypeOK, Threads
    <3>2. ~Holds(r, c)'
      BY <1>16, <2>1, <2>6 DEF Read, Holds
    <3> QED
      BY <2>1, <2>6, <3>1, <3>2 DEF OrderInv, Holds
  <2>7. CASE open[d] /\ read[d] < sent[d]
    <3>1. /\ chunk' = [chunk EXCEPT ![r] = read[d] + 1]
          /\ read' = [read EXCEPT ![d] = read[d] + 1]
          /\ shell' = shell /\ conn' = conn
      BY <1>16, <2>1, <2>7 DEF Read
    <3>2. /\ chunk'[r] = Len(shell'[d]) + 1 /\ read'[d] = chunk'[r]
          /\ chunk'[r] # 0
      BY <2>1, <2>3, <3>1 DEF TypeOK
    <3>3. \A q \in Readers : Holds(q, d)' => q = r
      BY <2>1, <2>2, <3>1 DEF Holds, TypeOK, Threads
    <3>4. Holds(r, d)'
      BY <2>1, <3>1, <3>2 DEF Holds
    <3> QED
      BY <2>5, <2>6, <3>2, <3>3, <3>4 DEF OrderInv
  <2>8. CASE ~(open[d] /\ read[d] < sent[d])
    BY <1>16, <2>1, <2>5, <2>8 DEF Read, OrderInv, Holds
  <2> QED
    BY <2>7, <2>8
<1>17. ASSUME NEW r \in Readers, ReadFails(r) PROVE OrderInv'
  <2>1. UNCHANGED <<read, shell, chunk>> /\ \A q \in Readers : chunk[q] # 0 => conn'[q] = conn[q]
    BY <1>17 DEF ReadFails, dataVars, TypeOK, PlaceInv, Threads
  <2> QED
    BY <2>1, OrderSame
<1>18. ASSUME NEW r \in Readers, InputReceived(r) PROVE OrderInv'
  <2>0. PICK d \in Conns : d = conn[r]
    BY <1>18 DEF InputReceived, PlaceInv
  <2>1. /\ conn[r] = d /\ r \in Threads /\ Holds(r, d)
        /\ shell' = [shell EXCEPT ![d] = Append(@, chunk[r])]
        /\ chunk' = [chunk EXCEPT ![r] = 0] /\ read' = read /\ conn' = conn
    BY <1>18, <2>0 DEF InputReceived, Holds, Threads
  <2>2. chunk[r] = Len(shell[d]) + 1 /\ read[d] = chunk[r] /\ shell[d] \in Seq(1..MaxChunks)
    BY <2>1 DEF OrderInv, TypeOK
  <2>3. \A q \in Readers : Holds(q, d) => q = r
    <3>1. monitor[d] = {r}
      BY <1>18, <2>1 DEF InputReceived, LockInv
    <3>2. ASSUME NEW q \in Readers, Holds(q, d) PROVE monitor[d] = {q}
      BY <3>2 DEF LockInv, PlaceInv, Holds, Threads
    <3> QED
      BY <3>1, <3>2
  <2>4. InOrder'
    <3>1. ASSUME NEW i \in 1..Len(shell'[d]) PROVE shell'[d][i] = i
      BY <2>1, <2>2, <3>1 DEF OrderInv, InOrder, TypeOK
    <3>2. \A c \in Conns : c # d => shell'[c] = shell[c]
      BY <2>1 DEF TypeOK
    <3> QED
      BY <3>1, <3>2 DEF OrderInv, InOrder
  <2>5. ASSUME NEW c \in Conns, c # d
        PROVE  /\ read'[c] = Len(shell'[c]) \/ \E q \in Readers : Holds(q, c)'
               /\ \A q \in Readers : Holds(q, c)' =>
                    chunk'[q] = Len(shell'[c]) + 1 /\ read'[c] = chunk'[q]
    <3>1. shell'[c] = shell[c] /\ \A q \in Readers : q # r => chunk'[q] = chunk[q]
      BY <2>1, <2>5 DEF TypeOK, Threads
    <3>2. \A q \in Readers : Holds(q, c)' <=> Holds(q, c)
      BY <2>1, <2>5, <3>1 DEF Holds
    <3>3. ~Holds(r, c)
      BY <2>1, <2>5 DEF Holds
    <3> QED
      BY <2>1, <3>1, <3>2, <3>3 DEF OrderInv
  <2>6. read'[d] = Len(shell'[d]) /\ \A q \in Readers : ~Holds(q, d)'
    BY <2>1, <2>2, <2>3 DEF Holds, TypeOK, Threads
  <2> QED
    BY <2>4, <2>5, <2>6 DEF OrderInv
<1>19. ASSUME NEW r \in Readers, InputHandled(r) PROVE OrderInv'
  <2>1. UNCHANGED <<read, shell, chunk, conn>>
    BY <1>19 DEF InputHandled, dataVars
  <2> QED
    BY <2>1, OrderSame
<1>20. ASSUME NEW r \in Readers, ReadEnds(r) PROVE OrderInv'
  <2>1. UNCHANGED <<read, shell, chunk>> /\ \A q \in Readers : chunk[q] # 0 => conn'[q] = conn[q]
    BY <1>20 DEF ReadEnds, dataVars, TypeOK, PlaceInv, Threads
  <2> QED
    BY <2>1, OrderSame
<1>21. ASSUME NEW t \in Others, Enter(t) PROVE OrderInv'
  <2>1. UNCHANGED <<read, shell, chunk, conn>>
    BY <1>21 DEF Enter, dataVars
  <2> QED
    BY <2>1, OrderSame
<1>22. ASSUME NEW t \in Others, Leave(t) PROVE OrderInv'
  <2>1. UNCHANGED <<read, shell, chunk, conn>>
    BY <1>22 DEF Leave, dataVars
  <2> QED
    BY <2>1, OrderSame
<1>23. ASSUME NEW t \in Threads, NEW c \in Conns, Write(t, c) PROVE OrderInv'
  <2>1. UNCHANGED <<read, shell, chunk, conn>>
    BY <1>23 DEF Write, dataVars
  <2> QED
    BY <2>1, OrderSame
<1>24. ASSUME NEW t \in Threads, Written(t) PROVE OrderInv'
  <2>1. UNCHANGED <<read, shell, chunk, conn>>
    BY <1>24 DEF Written, dataVars
  <2> QED
    BY <2>1, OrderSame
<1>25. ASSUME NEW t \in Threads, NEW c \in Conns, Close(t, c) PROVE OrderInv'
  <2>1. UNCHANGED <<read, shell, chunk, conn>>
    BY <1>25 DEF Close, dataVars
  <2> QED
    BY <2>1, OrderSame
<1>26. CASE UNCHANGED vars
  BY <1>26, OrderSame DEF vars
<1> QED
  BY <1>1, <1>2, <1>3, <1>4, <1>5, <1>6, <1>7, <1>8, <1>9, <1>10, <1>11, <1>12, <1>13,
     <1>14, <1>15, <1>16, <1>17, <1>18, <1>19, <1>20, <1>21, <1>22, <1>23, <1>24, <1>25,
     <1>26 DEF Next, AcceptorNext, SelectorNext, ReaderNext, LpcNext

-----------------------------------------------------------------------------
LEMMA InitHolds == Init => IInv
BY ConnectionsAssumption DEF Init, IInv, TypeOK, PlaceInv, LockInv, SignalInv, SignalOf, AcceptInv, OrderInv, InOrder, Starting, Holds, Threads

\* What all these theorems follow from.
THEOREM Inductive == Spec => []IInv
<1>1. IInv /\ [Next]_vars => IInv'
  BY TypeKept, PlaceKept, LockKept, SignalKept, OrderKept DEF IInv
<1> QED
  BY <1>1, InitHolds, PTL DEF Spec

\* TypeOK
THEOREM TypeCorrect == Spec => []TypeOK
BY Inductive, PTL DEF IInv

\* Of an open connection, there is always one signal for it on its way round.
THEOREM AlwaysOneSignal == Spec => []OneSignal
<1>1. IInv => OneSignal
  <2> SUFFICES ASSUME IInv, NEW c \in Conns, stage[c] = "registered", open[c]
               PROVE  \E s \in Signals(c) : Signals(c) = {s}
    BY DEF OneSignal
  <2>1. SignalInv
    BY DEF IInv
  <2>2. CASE interest[c]
    <3>1. Signals(c) = {<<"key", c>>}
      BY <2>1, <2>2 DEF SignalInv, SignalOf, Signals, Starting
    <3> QED
      BY <3>1
  <2>3. CASE current = c
    <3>1. Signals(c) = {<<"selector", c>>}
      BY <2>1, <2>3 DEF SignalInv, SignalOf, Signals, Starting
    <3> QED
      BY <3>1
  <2>4. CASE queued[c] = 1
    <3>1. Signals(c) = {<<"queue", 1>>}
      BY <2>1, <2>4 DEF SignalInv, SignalOf, Signals, Starting
    <3> QED
      BY <3>1
  <2>5. ASSUME NEW r \in Readers, Starting(r, c)
        PROVE  \E s \in Signals(c) : Signals(c) = {s}
    <3>1. queued[c] = 0 /\ ~interest[c] /\ current # c
      BY <2>1, <2>5 DEF SignalInv, SignalOf
    <3>2. {q \in Readers : pc[q] = "start" /\ conn[q] = c} = {r}
      BY <2>1, <2>5 DEF SignalInv, SignalOf, Starting
    <3>3. Signals(c) = {<<"reader", r>>}
      BY <3>1, <3>2 DEF Signals
    <3> QED
      BY <3>3
  <2> QED
    BY <2>1, <2>2, <2>3, <2>4, <2>5 DEF SignalInv, SignalOf
<1> QED
  BY <1>1, Inductive, PTL

\* The shell gets every connection's input in the order of the client.
THEOREM AlwaysInOrder == Spec => []InOrder
<1>1. IInv => InOrder
  BY DEF IInv, OrderInv
<1> QED
  BY <1>1, Inductive, PTL

\* No step of any thread resolves the deadly embrace.
THEOREM NoWayOut == Spec => EmbraceIsForEver
<1>1. IInv /\ [Next]_vars => [Embrace => Embrace']_vars
  <2> SUFFICES ASSUME IInv, Next, NEW u \in Threads, NEW q \in Readers,
                      pc[u] = "writing", monitor[peer[u]] = {q}, u # q,
                      pc[q] = "read", chunk[q] # 0
               PROVE  Embrace'
    BY DEF Embrace
  <2> DEFINE Stuck == /\ pc'[u] = "writing" /\ monitor'[peer'[u]] = {q}
                      /\ pc'[q] = "read" /\ chunk'[q] # 0
  <2>0. TypeOK /\ PlaceInv /\ LockInv /\ game = {u} /\ q \in Threads
    BY DEF IInv, LockInv, Threads
  <2>1. ASSUME NEW c \in Conns, Send(c) PROVE Stuck
    BY <2>0, <2>1, ConnectionsAssumption DEF Send, TypeOK, PlaceInv, LockInv, Threads, netVars, dataVars
  <2>2. ASSUME NEW c \in Conns, HangUp(c) PROVE Stuck
    BY <2>0, <2>2, ConnectionsAssumption DEF HangUp, TypeOK, PlaceInv, LockInv, Threads, netVars, dataVars
  <2>3. ASSUME NEW c \in Conns, Accept(c) PROVE Stuck
    BY <2>0, <2>3, ConnectionsAssumption DEF Accept, TypeOK, PlaceInv, LockInv, Threads, netVars, dataVars
  <2>4. ASSUME Logon PROVE Stuck
    BY <2>0, <2>4, ConnectionsAssumption DEF Logon, TypeOK, PlaceInv, LockInv, Threads, netVars, dataVars
  <2>5. ASSUME LogonEnds PROVE Stuck
    BY <2>0, <2>5, ConnectionsAssumption DEF LogonEnds, TypeOK, PlaceInv, LockInv, Threads, netVars, dataVars
  <2>6. ASSUME LogonFails PROVE Stuck
    BY <2>0, <2>6, ConnectionsAssumption DEF LogonFails, TypeOK, PlaceInv, LockInv, Threads, netVars, dataVars
  <2>7. ASSUME Register PROVE Stuck
    BY <2>0, <2>7, ConnectionsAssumption DEF Register, TypeOK, PlaceInv, LockInv, Threads, netVars, dataVars
  <2>8. ASSUME Select PROVE Stuck
    BY <2>0, <2>8, ConnectionsAssumption DEF Select, Readable, TypeOK, PlaceInv, LockInv, Threads, netVars, dataVars
  <2>9. ASSUME NEW c \in Conns, ClearInterest(c) PROVE Stuck
    BY <2>0, <2>9, ConnectionsAssumption DEF ClearInterest, TypeOK, PlaceInv, LockInv, Threads, netVars, dataVars
  <2>10. ASSUME NEW c \in Conns, SelectorDies(c) PROVE Stuck
    BY <2>0, <2>10, ConnectionsAssumption DEF SelectorDies, TypeOK, PlaceInv, LockInv, Threads, netVars, dataVars
  <2>11. ASSUME Dispatch PROVE Stuck
    BY <2>0, <2>11, ConnectionsAssumption DEF Dispatch, TypeOK, PlaceInv, LockInv, Threads, netVars, dataVars
  <2>12. ASSUME SelectAgain PROVE Stuck
    BY <2>0, <2>12, ConnectionsAssumption DEF SelectAgain, TypeOK, PlaceInv, LockInv, Threads, netVars, dataVars
  <2>13. ASSUME NEW r \in Readers, NEW c \in Conns, PickUp(r, c) PROVE Stuck
    BY <2>0, <2>13, ConnectionsAssumption DEF PickUp, TypeOK, PlaceInv, LockInv, Threads, netVars, dataVars
  <2>14. ASSUME NEW r \in Readers, Arm(r) PROVE Stuck
    BY <2>0, <2>14, ConnectionsAssumption DEF Arm, TypeOK, PlaceInv, LockInv, Threads, netVars, dataVars
  <2>15. ASSUME NEW r \in Readers, GiveUp(r) PROVE Stuck
    BY <2>0, <2>15, ConnectionsAssumption DEF GiveUp, TypeOK, PlaceInv, LockInv, Threads, netVars, dataVars
  <2>16. ASSUME NEW r \in Readers, Read(r) PROVE Stuck
    <3>1. r # u /\ r # q /\ conn[r] # peer[u] /\ r \in Threads
      BY <2>16 DEF Read, Threads
    <3>2. pc'[u] = pc[u] /\ pc'[q] = pc[q] /\ chunk'[q] = chunk[q] /\ peer' = peer
      BY <2>0, <2>16, <3>1 DEF Read, TypeOK
    <3>3. monitor'[peer[u]] = monitor[peer[u]]
      BY <2>0, <2>16, <3>1 DEF Read, TypeOK
    <3> QED
      BY <3>2, <3>3
  <2>17. ASSUME NEW r \in Readers, ReadFails(r) PROVE Stuck
    BY <2>0, <2>17, ConnectionsAssumption DEF ReadFails, TypeOK, PlaceInv, LockInv, Threads, netVars, dataVars
  <2>18. ASSUME NEW r \in Readers, InputReceived(r) PROVE Stuck
    BY <2>0, <2>18, ConnectionsAssumption DEF InputReceived, TypeOK, PlaceInv, LockInv, Threads, netVars, dataVars
  <2>19. ASSUME NEW r \in Readers, InputHandled(r) PROVE Stuck
    BY <2>0, <2>19, ConnectionsAssumption DEF InputHandled, TypeOK, PlaceInv, LockInv, Threads, netVars, dataVars
  <2>20. ASSUME NEW r \in Readers, ReadEnds(r) PROVE Stuck
    <3>1. r # u /\ r # q /\ monitor[conn[r]] = {r} /\ r \in Threads
      BY <2>0, <2>20 DEF ReadEnds, LockInv, Threads
    <3>2. conn[r] # peer[u]
      BY <3>1
    <3>3. pc'[u] = pc[u] /\ pc'[q] = pc[q] /\ chunk' = chunk /\ peer' = peer
      BY <2>0, <2>20, <3>1 DEF ReadEnds, TypeOK
    <3>4. monitor'[peer[u]] = monitor[peer[u]]
      BY <2>0, <2>20, <3>2 DEF ReadEnds, TypeOK
    <3> QED
      BY <3>3, <3>4
  <2>21. ASSUME NEW t \in Others, Enter(t) PROVE Stuck
    BY <2>0, <2>21, ConnectionsAssumption DEF Enter, TypeOK, PlaceInv, LockInv, Threads, netVars, dataVars
  <2>22. ASSUME NEW t \in Others, Leave(t) PROVE Stuck
    BY <2>0, <2>22, ConnectionsAssumption DEF Leave, TypeOK, PlaceInv, LockInv, Threads, netVars, dataVars
  <2>23. ASSUME NEW t \in Threads, NEW c \in Conns, Write(t, c) PROVE Stuck
    BY <2>0, <2>23, ConnectionsAssumption DEF Write, TypeOK, PlaceInv, LockInv, Threads, netVars, dataVars
  <2>24. ASSUME NEW t \in Threads, Written(t) PROVE Stuck
    BY <2>0, <2>24, ConnectionsAssumption DEF Written, TypeOK, PlaceInv, LockInv, Threads, netVars, dataVars
  <2>25. ASSUME NEW t \in Threads, NEW c \in Conns, Close(t, c) PROVE Stuck
    BY <2>0, <2>25, ConnectionsAssumption DEF Close, TypeOK, PlaceInv, LockInv, Threads, netVars, dataVars
  <2>26. Stuck
    BY <2>1, <2>2, <2>3, <2>4, <2>5, <2>6, <2>7, <2>8, <2>9, <2>10, <2>11, <2>12, <2>13,
       <2>14, <2>15, <2>16, <2>17, <2>18, <2>19, <2>20, <2>21, <2>22, <2>23, <2>24,
       <2>25 DEF Next, AcceptorNext, SelectorNext, ReaderNext, LpcNext
  <2> QED
    BY <2>26 DEF Embrace
<1> QED
  BY <1>1, Inductive, PTL DEF Spec, EmbraceIsForEver

-----------------------------------------------------------------------------

\* The threads that run LPC code, those that wait for a monitor in it included.
RunsLpc == {t \in Threads : pc[t] \in {"lpc", "writing"}}

Lock == INSTANCE GameLock WITH running <- RunsLpc

\* The game lock is never left locked by a thread that is not in LPC code.
OwnerRuns == game = {} \/ \E t \in RunsLpc : game = {t}

LEMMA GameIsRunning == LockInv /\ OwnerRuns => RunsLpc = game
BY DEF LockInv, OwnerRuns, RunsLpc

LEMMA GameIsRunningNext == LockInv' /\ OwnerRuns' => RunsLpc' = game'
BY DEF LockInv, OwnerRuns, RunsLpc

\* What a step does to the game lock: nothing, or one thread takes it and enters
\* LPC code, or leaves that and gives it back.
LockStep ==
  \/ UNCHANGED game /\ \A t \in RunsLpc : t \in RunsLpc'
  \/ \E t \in Threads : game = {} /\ game' = {t} /\ t \in RunsLpc'
  \/ \E t \in Threads : game = {t} /\ game' = {}

LEMMA LockSteps ==
  ASSUME TypeOK, PlaceInv, LockInv, [Next]_vars
  PROVE  LockStep
<1> USE ConnectionsAssumption
<1>1. ASSUME NEW t \in Others, Enter(t) PROVE game = {} /\ game' = {t} /\ t \in RunsLpc'
  BY <1>1 DEF Enter, TypeOK, RunsLpc, Threads
<1>2. ASSUME Logon PROVE game = {} /\ game' = {Acceptor} /\ Acceptor \in RunsLpc'
  BY <1>2 DEF Logon, TypeOK, RunsLpc, Threads
<1>3. ASSUME NEW r \in Readers, InputReceived(r)
      PROVE  game = {} /\ game' = {r} /\ r \in RunsLpc'
  BY <1>3 DEF InputReceived, TypeOK, RunsLpc, Threads
<1>4. ASSUME NEW t \in Others, Leave(t) PROVE game = {t} /\ game' = {}
  BY <1>4 DEF Leave, LockInv, Threads
<1>5. ASSUME LogonEnds \/ LogonFails PROVE game = {Acceptor} /\ game' = {}
  BY <1>5 DEF LogonEnds, LogonFails, LockInv, Threads
<1>6. ASSUME NEW r \in Readers, InputHandled(r) PROVE game = {r} /\ game' = {}
  BY <1>6 DEF InputHandled, LockInv, Threads
<1> DEFINE Stays == UNCHANGED game /\ \A t \in RunsLpc : t \in RunsLpc'
<1>7. ASSUME NEW c \in Conns, Send(c) \/ HangUp(c) \/ Accept(c) \/ SelectorNext(c)
      PROVE  Stays
  BY <1>7 DEF Send, HangUp, Accept, SelectorNext, ClearInterest, SelectorDies, RunsLpc, TypeOK, Threads
<1>8. CASE Register \/ Select \/ Dispatch \/ SelectAgain
  <2> Stays
    BY <1>8 DEF Register, Select, Dispatch, SelectAgain, RunsLpc, TypeOK, Threads
  <2> QED
    BY DEF LockStep
<1>9. ASSUME NEW r \in Readers, Arm(r) \/ GiveUp(r) \/ Read(r) \/ ReadFails(r) \/ ReadEnds(r)
      PROVE  Stays
  BY <1>9 DEF Arm, GiveUp, Read, ReadFails, ReadEnds, RunsLpc, TypeOK, Threads
<1>10. ASSUME NEW r \in Readers, NEW c \in Conns, PickUp(r, c) PROVE Stays
  BY <1>10 DEF PickUp, RunsLpc, TypeOK, Threads
<1>11. ASSUME NEW t \in Threads, Written(t) PROVE Stays
  BY <1>11 DEF Written, RunsLpc, TypeOK
<1>12. ASSUME NEW t \in Threads, NEW c \in Conns, Write(t, c) \/ Close(t, c) PROVE Stays
  BY <1>12 DEF Write, Close, RunsLpc, TypeOK
<1>13. CASE UNCHANGED vars
  BY <1>13 DEF vars, RunsLpc, LockStep
<1> HIDE DEF Stays
<1>14. Stays => LockStep
  BY DEF LockStep, Stays
<1>15. CASE \E r \in Readers : ReaderNext(r)
  BY <1>3, <1>6, <1>9, <1>10, <1>14, <1>15 DEF ReaderNext, LockStep, Threads
<1>16. CASE \E t \in Threads : LpcNext(t)
  BY <1>11, <1>12, <1>14, <1>16 DEF LpcNext
<1>17. CASE AcceptorNext
  BY <1>2, <1>5, <1>8, <1>17 DEF AcceptorNext, LockStep, Threads
<1>18. CASE \E t \in Others : Enter(t) \/ Leave(t)
  BY <1>1, <1>4, <1>18 DEF LockStep, Threads
<1> QED
  BY <1>7, <1>8, <1>13, <1>14, <1>15, <1>16, <1>17, <1>18 DEF Next

\* Whoever has the game lock is in LPC code, so a thread that waits for it waits for
\* LPC code to end.
THEOREM OwnerRunsEver == Spec => []OwnerRuns
<1>1. Init => OwnerRuns
  BY DEF Init, OwnerRuns
<1>2. IInv /\ OwnerRuns /\ [Next]_vars => OwnerRuns'
  <2> SUFFICES ASSUME IInv, OwnerRuns, [Next]_vars PROVE OwnerRuns'
    OBVIOUS
  <2>1. LockStep
    BY LockSteps DEF IInv
  <2> QED
    BY <2>1 DEF LockStep, OwnerRuns
<1> QED
  BY <1>1, <1>2, Inductive, PTL DEF Spec

\* The acceptor, the readers and the other threads implement GameLock: no two of them
\* are ever inside LPC code, waiting for a monitor included.
THEOREM OneAtATime == Spec => Lock!Spec
<1>1. Init => Lock!Init
  BY DEF Init, Lock!Init, RunsLpc
<1>2. IInv /\ IInv' /\ OwnerRuns /\ OwnerRuns' /\ [Next]_vars => [Lock!Next]_RunsLpc
  <2> SUFFICES ASSUME IInv, IInv', OwnerRuns, OwnerRuns', [Next]_vars
               PROVE  Lock!Next \/ UNCHANGED RunsLpc
    OBVIOUS
  <2>1. RunsLpc = game /\ RunsLpc' = game'
    BY GameIsRunning, GameIsRunningNext DEF IInv
  <2>2. LockStep
    BY LockSteps DEF IInv
  <2> QED
    BY <2>1, <2>2 DEF LockStep, Lock!Next, Lock!Start, Lock!Stop
<1> QED
  BY <1>1, <1>2, Inductive, OwnerRunsEver, PTL DEF Spec, Lock!Spec

=============================================================================
