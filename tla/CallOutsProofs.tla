--------------------------- MODULE CallOutsProofs ---------------------------
(***************************************************************************)
(* Proofs about CallOuts, for any number of threads, entries and handles.  *)
(***************************************************************************)
EXTENDS CallOuts, TLAPS

Steps == {"idle", "lpc", "adding", "searching",
          "top", "check", "waiting", "fire", "dead"}

\* Who may be where: the threads that are inside LPC code are those that own the
\* game lock, so there is one at most; an entry is in hand just while the
\* call-out thread waits for that lock.
LockInv ==
  /\ \A t \in Threads : pc[t] \in {"lpc", "adding", "searching"} <=> game = {t}
  /\ game = {} \/ \E t \in Threads : game = {t}
  /\ \A t \in Users : pc[t] \in {"idle", "lpc", "adding", "searching"}
  /\ pc[CallOut] # "idle"
  /\ hand # {} <=> pc[CallOut] = "fire"
  /\ \A e, f \in hand : e = f

\* Where an entry is, and which numbers are in use.
PlaceInv ==
  /\ \A e \in Registered : e.seq \in 1..issued
  /\ \A s \in 1..issued : \E e \in Registered : e.seq = s
  /\ \A e, f \in Registered : e.seq = f.seq => e = f
  /\ queue \cap hand = {} /\ queue \cap fired = {} /\ hand \cap fired = {}

\* What the last MaxId handles are, counting back from the next one.
RecentIds ==
  \A e \in Registered :
    LET back == issued + 1 - e.seq
    IN back < MaxId => e.id = nextId - back \/ e.id = nextId - back + MaxId

\* Before IdGenerator wraps an entry's handle is its number.
FirstIds ==
  issued <= MaxId =>
    /\ \A e \in Registered : e.id = e.seq
    /\ issued < MaxId => nextId = issued + 1

\* Polls are counted during a search only.
SearchInv ==
  /\ OnePollPerSearch
  /\ \A t \in Threads : pc[t] # "searching" => polls[t] = 0

\* The bound on the number of entries.
BoundInv ==
  /\ issued <= MaxCallOuts
  /\ \A t \in Threads : pc[t] = "adding" => issued < MaxCallOuts

-----------------------------------------------------------------------------
\* Every variable of the call-out manager keeps its type, and handles stay
\* within IdGenerator's range.
THEOREM TypeCorrect == Spec => []TypeOK
<1> USE CallOutAssumption
<1>1. Init => TypeOK
  BY DEF Init, TypeOK, Threads
<1>2. TypeOK /\ [Next]_vars => TypeOK'
  <2> SUFFICES ASSUME TypeOK, [Next]_vars PROVE TypeOK'
    OBVIOUS
  <2>1. ASSUME NEW t \in Users, Enter(t)
        PROVE  TypeOK'
    BY <2>1, TypeOK DEF TypeOK, Threads, Enter
  <2>2. ASSUME NEW t \in Users, Leave(t)
        PROVE  TypeOK'
    BY <2>2, TypeOK DEF TypeOK, Threads, Leave
  <2>3. ASSUME NEW t \in Threads, CallOutEfun(t)
        PROVE  TypeOK'
    BY <2>3, TypeOK DEF TypeOK, Threads, CallOutEfun
  <2>4. ASSUME NEW t \in Threads, Add(t)
        PROVE  TypeOK'
    BY <2>4, TypeOK DEF TypeOK, Threads, Add, NextId, Notified, Entry
  <2>5. ASSUME NEW t \in Threads, SearchByName(t)
        PROVE  TypeOK'
    BY <2>5, TypeOK DEF TypeOK, Threads, SearchByName
  <2>6. ASSUME NEW t \in Threads, SearchEnds(t)
        PROVE  TypeOK'
    BY <2>6, TypeOK DEF TypeOK, Threads, SearchEnds
  <2>7. ASSUME NEW t \in Threads, Throw(t)
        PROVE  TypeOK'
    BY <2>7, TypeOK DEF TypeOK, Threads, Throw, Unwound
  <2>8. ASSUME ReadClock
        PROVE  TypeOK'
    BY <2>8, TypeOK DEF TypeOK, Threads, ReadClock
  <2>9. ASSUME NothingQueued
        PROVE  TypeOK'
    BY <2>9, TypeOK DEF TypeOK, Threads, NothingQueued
  <2>10. ASSUME TimedOut
        PROVE  TypeOK'
    BY <2>10, TypeOK DEF TypeOK, Threads, TimedOut
  <2>11. ASSUME SpuriousWakeUp
        PROVE  TypeOK'
    BY <2>11, TypeOK DEF TypeOK, Threads, SpuriousWakeUp
  <2>12. ASSUME Fire
        PROVE  TypeOK'
    BY <2>12, TypeOK DEF TypeOK, Threads, Fire
  <2>13. ASSUME Fired
        PROVE  TypeOK'
    BY <2>13, TypeOK DEF TypeOK, Threads, Fired
  <2>14. ASSUME NEW e \in queue, TooEarly(e)
        PROVE  TypeOK'
    BY <2>14, TypeOK DEF TypeOK, Threads, TooEarly, Heads, Entry
  <2>15. ASSUME NEW e \in queue, Take(e)
        PROVE  TypeOK'
    BY <2>15, TypeOK DEF TypeOK, Threads, Take, Heads, Entry
  <2>16. ASSUME Tick
        PROVE  TypeOK'
    BY <2>16, TypeOK DEF TypeOK, Threads, Tick
  <2>17. CASE UNCHANGED vars
    BY <2>17, TypeOK DEF TypeOK, Threads, vars
  <2> QED
    BY <2>1, <2>2, <2>3, <2>4, <2>5, <2>6, <2>7, <2>8, <2>9, <2>10, <2>11, <2>12, <2>13, <2>14, <2>15, <2>16, <2>17 DEF Next, UserNext, LpcNext, CallOutNext
<1>3. QED
  BY <1>1, <1>2, PTL DEF Spec

\* Only one thread at a time is inside LPC code, the owner of the game lock, and an
\* entry is in the call-out thread's hand just while that thread waits for it.
THEOREM LockCorrect == Spec => []LockInv
<1> USE CallOutAssumption
<1>1. Init => LockInv
  BY DEF Init, LockInv, Threads
<1>2. TypeOK /\ LockInv /\ [Next]_vars => LockInv'
  <2> SUFFICES ASSUME TypeOK, LockInv, [Next]_vars PROVE LockInv'
    OBVIOUS
  <2>1. ASSUME NEW t \in Users, Enter(t)
        PROVE  LockInv'
    BY <2>1, TypeOK, LockInv DEF TypeOK, LockInv, Threads, Enter
  <2>2. ASSUME NEW t \in Users, Leave(t)
        PROVE  LockInv'
    BY <2>2, TypeOK, LockInv DEF TypeOK, LockInv, Threads, Leave
  <2>3. ASSUME NEW t \in Threads, CallOutEfun(t)
        PROVE  LockInv'
    BY <2>3, TypeOK, LockInv DEF TypeOK, LockInv, Threads, CallOutEfun
  <2>4. ASSUME NEW t \in Threads, Add(t)
        PROVE  LockInv'
    BY <2>4, TypeOK, LockInv DEF TypeOK, LockInv, Threads, Add, NextId, Notified, Entry
  <2>5. ASSUME NEW t \in Threads, SearchByName(t)
        PROVE  LockInv'
    BY <2>5, TypeOK, LockInv DEF TypeOK, LockInv, Threads, SearchByName
  <2>6. ASSUME NEW t \in Threads, SearchEnds(t)
        PROVE  LockInv'
    BY <2>6, TypeOK, LockInv DEF TypeOK, LockInv, Threads, SearchEnds
  <2>7. ASSUME NEW t \in Threads, Throw(t)
        PROVE  LockInv'
    BY <2>7, TypeOK, LockInv DEF TypeOK, LockInv, Threads, Throw, Unwound
  <2>8. ASSUME ReadClock
        PROVE  LockInv'
    BY <2>8, TypeOK, LockInv DEF TypeOK, LockInv, Threads, ReadClock
  <2>9. ASSUME NothingQueued
        PROVE  LockInv'
    BY <2>9, TypeOK, LockInv DEF TypeOK, LockInv, Threads, NothingQueued
  <2>10. ASSUME TimedOut
        PROVE  LockInv'
    BY <2>10, TypeOK, LockInv DEF TypeOK, LockInv, Threads, TimedOut
  <2>11. ASSUME SpuriousWakeUp
        PROVE  LockInv'
    BY <2>11, TypeOK, LockInv DEF TypeOK, LockInv, Threads, SpuriousWakeUp
  <2>12. ASSUME Fire
        PROVE  LockInv'
    BY <2>12, TypeOK, LockInv DEF TypeOK, LockInv, Threads, Fire
  <2>13. ASSUME Fired
        PROVE  LockInv'
    BY <2>13, TypeOK, LockInv DEF TypeOK, LockInv, Threads, Fired
  <2>14. ASSUME NEW e \in queue, TooEarly(e)
        PROVE  LockInv'
    BY <2>14, TypeOK, LockInv DEF TypeOK, LockInv, Threads, TooEarly, Heads, Entry
  <2>15. ASSUME NEW e \in queue, Take(e)
        PROVE  LockInv'
    BY <2>15, TypeOK, LockInv DEF TypeOK, LockInv, Threads, Take, Heads, Entry
  <2>16. ASSUME Tick
        PROVE  LockInv'
    BY <2>16, TypeOK, LockInv DEF TypeOK, LockInv, Threads, Tick
  <2>17. CASE UNCHANGED vars
    BY <2>17, TypeOK, LockInv DEF TypeOK, LockInv, Threads, vars
  <2> QED
    BY <2>1, <2>2, <2>3, <2>4, <2>5, <2>6, <2>7, <2>8, <2>9, <2>10, <2>11, <2>12, <2>13, <2>14, <2>15, <2>16, <2>17 DEF Next, UserNext, LpcNext, CallOutNext
<1>3. QED
  BY <1>1, <1>2, TypeCorrect, PTL DEF Spec

\* No more entries are created than the bound allows.
THEOREM BoundCorrect == Spec => []BoundInv
<1> USE CallOutAssumption
<1>1. Init => BoundInv
  BY DEF Init, BoundInv, LockInv, Threads
<1>2. TypeOK /\ LockInv /\ BoundInv /\ [Next]_vars => BoundInv'
  <2> SUFFICES ASSUME TypeOK, LockInv, BoundInv, [Next]_vars PROVE BoundInv'
    OBVIOUS
  <2>1. ASSUME NEW t \in Users, Enter(t)
        PROVE  BoundInv'
    BY <2>1, TypeOK, LockInv, BoundInv DEF TypeOK, BoundInv, LockInv, Threads, Enter
  <2>2. ASSUME NEW t \in Users, Leave(t)
        PROVE  BoundInv'
    BY <2>2, TypeOK, LockInv, BoundInv DEF TypeOK, BoundInv, LockInv, Threads, Leave
  <2>3. ASSUME NEW t \in Threads, CallOutEfun(t)
        PROVE  BoundInv'
    BY <2>3, TypeOK, LockInv, BoundInv DEF TypeOK, BoundInv, LockInv, Threads, CallOutEfun
  <2>4. ASSUME NEW t \in Threads, Add(t)
        PROVE  BoundInv'
    BY <2>4, TypeOK, LockInv, BoundInv DEF TypeOK, BoundInv, LockInv, Threads, Add, NextId, Notified, Entry
  <2>5. ASSUME NEW t \in Threads, SearchByName(t)
        PROVE  BoundInv'
    BY <2>5, TypeOK, LockInv, BoundInv DEF TypeOK, BoundInv, LockInv, Threads, SearchByName
  <2>6. ASSUME NEW t \in Threads, SearchEnds(t)
        PROVE  BoundInv'
    BY <2>6, TypeOK, LockInv, BoundInv DEF TypeOK, BoundInv, LockInv, Threads, SearchEnds
  <2>7. ASSUME NEW t \in Threads, Throw(t)
        PROVE  BoundInv'
    BY <2>7, TypeOK, LockInv, BoundInv DEF TypeOK, BoundInv, LockInv, Threads, Throw, Unwound
  <2>8. ASSUME ReadClock
        PROVE  BoundInv'
    BY <2>8, TypeOK, LockInv, BoundInv DEF TypeOK, BoundInv, LockInv, Threads, ReadClock
  <2>9. ASSUME NothingQueued
        PROVE  BoundInv'
    BY <2>9, TypeOK, LockInv, BoundInv DEF TypeOK, BoundInv, LockInv, Threads, NothingQueued
  <2>10. ASSUME TimedOut
        PROVE  BoundInv'
    BY <2>10, TypeOK, LockInv, BoundInv DEF TypeOK, BoundInv, LockInv, Threads, TimedOut
  <2>11. ASSUME SpuriousWakeUp
        PROVE  BoundInv'
    BY <2>11, TypeOK, LockInv, BoundInv DEF TypeOK, BoundInv, LockInv, Threads, SpuriousWakeUp
  <2>12. ASSUME Fire
        PROVE  BoundInv'
    BY <2>12, TypeOK, LockInv, BoundInv DEF TypeOK, BoundInv, LockInv, Threads, Fire
  <2>13. ASSUME Fired
        PROVE  BoundInv'
    BY <2>13, TypeOK, LockInv, BoundInv DEF TypeOK, BoundInv, LockInv, Threads, Fired
  <2>14. ASSUME NEW e \in queue, TooEarly(e)
        PROVE  BoundInv'
    BY <2>14, TypeOK, LockInv, BoundInv DEF TypeOK, BoundInv, LockInv, Threads, TooEarly, Heads, Entry
  <2>15. ASSUME NEW e \in queue, Take(e)
        PROVE  BoundInv'
    BY <2>15, TypeOK, LockInv, BoundInv DEF TypeOK, BoundInv, LockInv, Threads, Take, Heads, Entry
  <2>16. ASSUME Tick
        PROVE  BoundInv'
    BY <2>16, TypeOK, LockInv, BoundInv DEF TypeOK, BoundInv, LockInv, Threads, Tick
  <2>17. CASE UNCHANGED vars
    BY <2>17, TypeOK, LockInv, BoundInv DEF TypeOK, BoundInv, LockInv, Threads, vars
  <2> QED
    BY <2>1, <2>2, <2>3, <2>4, <2>5, <2>6, <2>7, <2>8, <2>9, <2>10, <2>11, <2>12, <2>13, <2>14, <2>15, <2>16, <2>17 DEF Next, UserNext, LpcNext, CallOutNext
<1>3. QED
  BY <1>1, <1>2, TypeCorrect, LockCorrect, PTL DEF Spec

-----------------------------------------------------------------------------
(* Only Add, Take and Fire move entries; the lemmas below say so once.       *)

EntryVars == <<queue, hand, fired, issued, nextId>>

\* Entries are touched by add, by the thread's poll and by its call into LPC only.
LEMMA OnlyThreeMove ==
  ASSUME [Next]_vars
  PROVE  \/ UNCHANGED EntryVars
         \/ \E t \in Threads : Add(t)
         \/ \E e \in queue : Take(e)
         \/ Fire
  BY DEF Next, UserNext, LpcNext, CallOutNext, EntryVars, vars, Enter, Leave, CallOutEfun,
         SearchByName, SearchEnds, Throw, ReadClock, NothingQueued, TimedOut,
         SpuriousWakeUp, Fired, TooEarly, Tick

\* Take and Fire move an entry, they neither create nor drop one.
LEMMA MovesKeepRegistered ==
  ASSUME TypeOK, LockInv, (\E e \in queue : Take(e)) \/ Fire
  PROVE  Registered' = Registered /\ issued' = issued /\ nextId' = nextId
<1>1. CASE Fire
  BY <1>1 DEF Fire, Registered
<1>2. ASSUME NEW e \in queue, Take(e) PROVE Registered' = Registered
  BY <1>2 DEF Take, Registered, LockInv
<1>3. QED
  BY <1>1, <1>2 DEF Take, Fire

\* What add puts into the queue, and the handle that comes next.
LEMMA AddRegisters ==
  ASSUME TypeOK, NEW t \in Threads, Add(t)
  PROVE  LET e == [seq |-> issued + 1, id |-> nextId, at |-> due[t]]
         IN /\ Registered' = Registered \cup {e}
            /\ queue' = queue \cup {e} /\ hand' = hand /\ fired' = fired
            /\ issued' = issued + 1
            /\ e \in Entry
  BY CallOutAssumption DEF Add, Registered, Entry, TypeOK, Threads

\* No entry is lost or doubled between call_out and the call.
THEOREM PlaceCorrect == Spec => []PlaceInv
<1> USE CallOutAssumption
<1>1. Init => PlaceInv
  BY DEF Init, PlaceInv, Registered
<1>2. TypeOK /\ LockInv /\ PlaceInv /\ [Next]_vars => PlaceInv'
  <2> SUFFICES ASSUME TypeOK, LockInv, PlaceInv, [Next]_vars PROVE PlaceInv'
    OBVIOUS
  <2> Registered \subseteq Entry
    BY DEF TypeOK, Registered
  <2>1. CASE UNCHANGED EntryVars
    BY <2>1 DEF EntryVars, PlaceInv, Registered
  <2>2. ASSUME NEW t \in Threads, Add(t) PROVE PlaceInv'
    <3> DEFINE new == [seq |-> issued + 1, id |-> nextId, at |-> due[t]]
    <3>1. /\ Registered' = Registered \cup {new} /\ issued' = issued + 1
          /\ queue' = queue \cup {new} /\ hand' = hand /\ fired' = fired
      BY <2>2, AddRegisters
    <3>2. new.seq = issued + 1 /\ issued \in Nat
      BY DEF TypeOK
    <3>3. new \notin Registered
      BY <3>2 DEF PlaceInv
    <3> HIDE DEF new
    <3>4. (\A e \in Registered : e.seq \in 1..issued)'
      BY <3>1, <3>2 DEF PlaceInv
    <3>5. (\A s \in 1..issued : \E e \in Registered : e.seq = s)'
      BY <3>1, <3>2 DEF PlaceInv
    <3>6. (\A e, f \in Registered : e.seq = f.seq => e = f)'
      BY <3>1, <3>2 DEF PlaceInv, Entry
    <3>7. (queue \cap hand = {} /\ queue \cap fired = {} /\ hand \cap fired = {})'
      BY <3>1, <3>3 DEF PlaceInv, Registered
    <3> QED
      BY <3>4, <3>5, <3>6, <3>7 DEF PlaceInv
  <2>3. ASSUME NEW e \in queue, Take(e) PROVE PlaceInv'
    <3>1. Registered' = Registered /\ issued' = issued
      BY <2>3, MovesKeepRegistered
    <3>2. (queue \cap hand = {} /\ queue \cap fired = {} /\ hand \cap fired = {})'
      BY <2>3 DEF Take, PlaceInv
    <3> QED
      BY <3>1, <3>2 DEF PlaceInv
  <2>4. CASE Fire
    <3>1. Registered' = Registered /\ issued' = issued
      BY <2>4, MovesKeepRegistered
    <3>2. (queue \cap hand = {} /\ queue \cap fired = {} /\ hand \cap fired = {})'
      BY <2>4 DEF Fire, PlaceInv
    <3> QED
      BY <3>1, <3>2 DEF PlaceInv
  <2> QED
    BY <2>1, <2>2, <2>3, <2>4, OnlyThreeMove
<1>3. QED
  BY <1>1, <1>2, TypeCorrect, LockCorrect, PTL DEF Spec

\* Every entry ever created is queued, in hand, or has been called, and is in one
\* of these places only.
THEOREM NothingIsLost == Spec => []NothingLost
<1>1. TypeOK /\ PlaceInv => NothingLost
  <2> SUFFICES ASSUME TypeOK, PlaceInv PROVE {e.seq : e \in Registered} = 1..issued
    BY DEF PlaceInv, NothingLost
  <2> QED
    BY DEF PlaceInv
<1>2. QED
  BY <1>1, TypeCorrect, PlaceCorrect, PTL

-----------------------------------------------------------------------------
\* During a search by name at most one entry leaves the queue, and it is then in
\* hand: the search holds the game lock that the call-out thread needs to go on.
THEOREM SearchCorrect == Spec => []SearchInv
<1> USE CallOutAssumption
<1>1. Init => SearchInv
  BY DEF Init, SearchInv, OnePollPerSearch, LockInv, Threads
<1>2. TypeOK /\ LockInv /\ SearchInv /\ [Next]_vars => SearchInv'
  <2> SUFFICES ASSUME TypeOK, LockInv, SearchInv, [Next]_vars PROVE SearchInv'
    OBVIOUS
  <2>1. ASSUME NEW t \in Users, Enter(t)
        PROVE  SearchInv'
    BY <2>1, TypeOK, LockInv, SearchInv DEF TypeOK, SearchInv, OnePollPerSearch, LockInv, Threads, Enter
  <2>2. ASSUME NEW t \in Users, Leave(t)
        PROVE  SearchInv'
    BY <2>2, TypeOK, LockInv, SearchInv DEF TypeOK, SearchInv, OnePollPerSearch, LockInv, Threads, Leave
  <2>3. ASSUME NEW t \in Threads, CallOutEfun(t)
        PROVE  SearchInv'
    BY <2>3, TypeOK, LockInv, SearchInv DEF TypeOK, SearchInv, OnePollPerSearch, LockInv, Threads, CallOutEfun
  <2>4. ASSUME NEW t \in Threads, Add(t)
        PROVE  SearchInv'
    BY <2>4, TypeOK, LockInv, SearchInv DEF TypeOK, SearchInv, OnePollPerSearch, LockInv, Threads, Add, NextId, Notified, Entry
  <2>5. ASSUME NEW t \in Threads, SearchByName(t)
        PROVE  SearchInv'
    BY <2>5, TypeOK, LockInv, SearchInv DEF TypeOK, SearchInv, OnePollPerSearch, LockInv, Threads, SearchByName
  <2>6. ASSUME NEW t \in Threads, SearchEnds(t)
        PROVE  SearchInv'
    BY <2>6, TypeOK, LockInv, SearchInv DEF TypeOK, SearchInv, OnePollPerSearch, LockInv, Threads, SearchEnds
  <2>7. ASSUME NEW t \in Threads, Throw(t)
        PROVE  SearchInv'
    BY <2>7, TypeOK, LockInv, SearchInv DEF TypeOK, SearchInv, OnePollPerSearch, LockInv, Threads, Throw, Unwound
  <2>8. ASSUME ReadClock
        PROVE  SearchInv'
    BY <2>8, TypeOK, LockInv, SearchInv DEF TypeOK, SearchInv, OnePollPerSearch, LockInv, Threads, ReadClock
  <2>9. ASSUME NothingQueued
        PROVE  SearchInv'
    BY <2>9, TypeOK, LockInv, SearchInv DEF TypeOK, SearchInv, OnePollPerSearch, LockInv, Threads, NothingQueued
  <2>10. ASSUME TimedOut
        PROVE  SearchInv'
    BY <2>10, TypeOK, LockInv, SearchInv DEF TypeOK, SearchInv, OnePollPerSearch, LockInv, Threads, TimedOut
  <2>11. ASSUME SpuriousWakeUp
        PROVE  SearchInv'
    BY <2>11, TypeOK, LockInv, SearchInv DEF TypeOK, SearchInv, OnePollPerSearch, LockInv, Threads, SpuriousWakeUp
  <2>12. ASSUME Fire
        PROVE  SearchInv'
    BY <2>12, TypeOK, LockInv, SearchInv DEF TypeOK, SearchInv, OnePollPerSearch, LockInv, Threads, Fire
  <2>13. ASSUME Fired
        PROVE  SearchInv'
    BY <2>13, TypeOK, LockInv, SearchInv DEF TypeOK, SearchInv, OnePollPerSearch, LockInv, Threads, Fired
  <2>14. ASSUME NEW e \in queue, TooEarly(e)
        PROVE  SearchInv'
    BY <2>14, TypeOK, LockInv, SearchInv DEF TypeOK, SearchInv, OnePollPerSearch, LockInv, Threads, TooEarly, Heads, Entry
  <2>15. ASSUME NEW e \in queue, Take(e)
        PROVE  SearchInv'
    BY <2>15, TypeOK, LockInv, SearchInv DEF TypeOK, SearchInv, OnePollPerSearch, LockInv, Threads, Take, Heads, Entry
  <2>16. ASSUME Tick
        PROVE  SearchInv'
    BY <2>16, TypeOK, LockInv, SearchInv DEF TypeOK, SearchInv, OnePollPerSearch, LockInv, Threads, Tick
  <2>17. CASE UNCHANGED vars
    BY <2>17, TypeOK, LockInv, SearchInv DEF TypeOK, SearchInv, OnePollPerSearch, LockInv, Threads, vars
  <2> QED
    BY <2>1, <2>2, <2>3, <2>4, <2>5, <2>6, <2>7, <2>8, <2>9, <2>10, <2>11, <2>12, <2>13, <2>14, <2>15, <2>16, <2>17 DEF Next, UserNext, LpcNext, CallOutNext
<1>3. QED
  BY <1>1, <1>2, TypeCorrect, LockCorrect, PTL DEF Spec

\* find_call_out(name) meets at most one poll while it walks the queue without
\* its lock, however many threads there are: who polls must then take the game
\* lock, which the search holds.
THEOREM OnePoll == Spec => []OnePollPerSearch
  BY SearchCorrect, PTL DEF SearchInv

-----------------------------------------------------------------------------
IdInv == RecentIds /\ FirstIds /\ HandlesFarApart

\* IdGenerator hands out a handle again only after MaxId - 1 others.
THEOREM IdsCorrect == Spec => []IdInv
<1> USE CallOutAssumption
<1>1. Init => IdInv
  BY DEF Init, IdInv, RecentIds, FirstIds, HandlesFarApart, Registered
<1>2. TypeOK /\ LockInv /\ PlaceInv /\ IdInv /\ [Next]_vars => IdInv'
  <2> SUFFICES ASSUME TypeOK, LockInv, PlaceInv, IdInv, [Next]_vars PROVE IdInv'
    OBVIOUS
  <2>1. CASE Registered' = Registered /\ issued' = issued /\ nextId' = nextId
    BY <2>1 DEF IdInv, RecentIds, FirstIds, HandlesFarApart
  <2>2. ASSUME NEW t \in Threads, Add(t) PROVE IdInv'
    <3> DEFINE new == [seq |-> issued + 1, id |-> nextId, at |-> due[t]]
    <3>1. Registered' = Registered \cup {new} /\ issued' = issued + 1
      BY <2>2, AddRegisters
    <3>2. new.seq = issued + 1 /\ new.id = nextId
      OBVIOUS
    <3> HIDE DEF new
    <3>3. nextId' = IF nextId = MaxId THEN 1 ELSE nextId + 1
      BY <2>2 DEF Add, NextId
    <3>4. issued \in Nat /\ nextId \in 1..MaxId /\ MaxId \in Nat
      BY DEF TypeOK
    <3>5. \A e \in Registered : e.seq \in 1..issued /\ e.id \in 1..MaxId
      BY DEF PlaceInv, TypeOK, Registered, Entry
    <3>6. RecentIds'
      BY <3>1, <3>2, <3>3, <3>4, <3>5 DEF IdInv, RecentIds
    <3>7. FirstIds'
      BY <3>1, <3>2, <3>3, <3>4, <3>5 DEF IdInv, FirstIds
    <3>8. HandlesFarApart'
      BY <3>1, <3>2, <3>4, <3>5 DEF IdInv, RecentIds, HandlesFarApart
    <3> QED
      BY <3>6, <3>7, <3>8 DEF IdInv
  <2>3. CASE UNCHANGED EntryVars
    BY <2>3, <2>1 DEF EntryVars, Registered
  <2> QED
    BY <2>1, <2>2, <2>3, OnlyThreeMove, MovesKeepRegistered
<1>3. QED
  BY <1>1, <1>2, TypeCorrect, LockCorrect, PlaceCorrect, PTL DEF Spec

\* Two entries with one handle are at least a full round of IdGenerator apart,
\* for any number of handles.
THEOREM HandlesAreFarApart == Spec => []HandlesFarApart
  BY IdsCorrect, PTL DEF IdInv

-----------------------------------------------------------------------------
\* Before handles repeat, what peek returns is the first entry by deadline, and
\* by number among equal deadlines.
LEMMA HeadIsFirst ==
  ASSUME TypeOK, PlaceInv, IdInv, issued <= MaxId, NEW e \in Heads
  PROVE  \A f \in queue \ {e} : e.at < f.at \/ (e.at = f.at /\ e.seq < f.seq)
<1>1. \A f \in queue : f.id = f.seq
  BY DEF IdInv, FirstIds, Registered
<1>2. \A f, g \in queue : f.id = g.id => f = g
  BY <1>1 DEF PlaceInv, Registered
<1>3. e \in queue /\ \A f \in queue \ {e} : Before(e, f)
  BY <1>2 DEF Heads
<1> QED
  BY <1>1, <1>3 DEF Before

\* While handles do not repeat, the call-out thread never sleeps past a queued
\* deadline by more than the age of its clock reading: add's notify is not lost.
THEOREM SleepCorrect == Spec => []NeverOversleeps
<1> USE CallOutAssumption
<1>1. Init => NeverOversleeps
  BY DEF Init, NeverOversleeps, Threads
<1>2. TypeOK /\ PlaceInv /\ IdInv /\ NeverOversleeps /\ [Next]_vars => NeverOversleeps'
  <2> SUFFICES ASSUME TypeOK, PlaceInv, IdInv, NeverOversleeps, [Next]_vars PROVE NeverOversleeps'
    OBVIOUS
  <2>1. ASSUME NEW t \in Users, Enter(t)
        PROVE  NeverOversleeps'
    BY <2>1, TypeOK, PlaceInv, IdInv, NeverOversleeps DEF TypeOK, NeverOversleeps, Threads, Enter
  <2>2. ASSUME NEW t \in Users, Leave(t)
        PROVE  NeverOversleeps'
    BY <2>2, TypeOK, PlaceInv, IdInv, NeverOversleeps DEF TypeOK, NeverOversleeps, Threads, Leave
  <2>3. ASSUME NEW t \in Threads, CallOutEfun(t)
        PROVE  NeverOversleeps'
    BY <2>3, TypeOK, PlaceInv, IdInv, NeverOversleeps DEF TypeOK, NeverOversleeps, Threads, CallOutEfun
  <2>4. ASSUME NEW t \in Threads, Add(t)
        PROVE  NeverOversleeps'
    BY <2>4, TypeOK, PlaceInv, IdInv, NeverOversleeps DEF TypeOK, NeverOversleeps, Threads, Add, NextId, Notified, Entry
  <2>5. ASSUME NEW t \in Threads, SearchByName(t)
        PROVE  NeverOversleeps'
    BY <2>5, TypeOK, PlaceInv, IdInv, NeverOversleeps DEF TypeOK, NeverOversleeps, Threads, SearchByName
  <2>6. ASSUME NEW t \in Threads, SearchEnds(t)
        PROVE  NeverOversleeps'
    BY <2>6, TypeOK, PlaceInv, IdInv, NeverOversleeps DEF TypeOK, NeverOversleeps, Threads, SearchEnds
  <2>7. ASSUME NEW t \in Threads, Throw(t)
        PROVE  NeverOversleeps'
    BY <2>7, TypeOK, PlaceInv, IdInv, NeverOversleeps DEF TypeOK, NeverOversleeps, Threads, Throw, Unwound
  <2>8. ASSUME ReadClock
        PROVE  NeverOversleeps'
    BY <2>8, TypeOK, PlaceInv, IdInv, NeverOversleeps DEF TypeOK, NeverOversleeps, Threads, ReadClock
  <2>9. ASSUME NothingQueued
        PROVE  NeverOversleeps'
    BY <2>9, TypeOK, PlaceInv, IdInv, NeverOversleeps DEF TypeOK, NeverOversleeps, Threads, NothingQueued
  <2>10. ASSUME TimedOut
        PROVE  NeverOversleeps'
    BY <2>10, TypeOK, PlaceInv, IdInv, NeverOversleeps DEF TypeOK, NeverOversleeps, Threads, TimedOut
  <2>11. ASSUME SpuriousWakeUp
        PROVE  NeverOversleeps'
    BY <2>11, TypeOK, PlaceInv, IdInv, NeverOversleeps DEF TypeOK, NeverOversleeps, Threads, SpuriousWakeUp
  <2>12. ASSUME Fire
        PROVE  NeverOversleeps'
    BY <2>12, TypeOK, PlaceInv, IdInv, NeverOversleeps DEF TypeOK, NeverOversleeps, Threads, Fire
  <2>13. ASSUME Fired
        PROVE  NeverOversleeps'
    BY <2>13, TypeOK, PlaceInv, IdInv, NeverOversleeps DEF TypeOK, NeverOversleeps, Threads, Fired
  <2>14. ASSUME NEW e \in queue, TooEarly(e)
        PROVE  NeverOversleeps'
    <3> SUFFICES ASSUME issued <= MaxId, NEW f \in queue
                 PROVE  now + (e.at - clock) <= f.at + (now - clock)
      BY <2>14 DEF TooEarly, NeverOversleeps
    <3>1. e.at <= f.at
      BY <2>14, HeadIsFirst DEF TooEarly, TypeOK, Entry
    <3> QED
      BY <2>14, <3>1 DEF TypeOK, Entry
  <2>15. ASSUME NEW e \in queue, Take(e)
        PROVE  NeverOversleeps'
    BY <2>15, TypeOK, PlaceInv, IdInv, NeverOversleeps DEF TypeOK, NeverOversleeps, Threads, Take, Heads, Entry
  <2>16. ASSUME Tick
        PROVE  NeverOversleeps'
    <3>1. UNCHANGED <<pc, issued, queue>> /\ nap'.lag = nap.lag
          /\ nap'.left = IF nap.left > 0 THEN nap.left - 1 ELSE 0
      BY <2>16 DEF Tick, TypeOK
    <3>2. now' = now \/ now' = now + 1
      BY <2>16 DEF Tick
    <3> QED
      BY <3>1, <3>2 DEF NeverOversleeps, TypeOK, Entry
  <2>17. CASE UNCHANGED vars
    BY <2>17, TypeOK, PlaceInv, IdInv, NeverOversleeps DEF TypeOK, NeverOversleeps, Threads, vars
  <2> QED
    BY <2>1, <2>2, <2>3, <2>4, <2>5, <2>6, <2>7, <2>8, <2>9, <2>10, <2>11, <2>12, <2>13, <2>14, <2>15, <2>16, <2>17 DEF Next, UserNext, LpcNext, CallOutNext
<1>3. QED
  BY <1>1, <1>2, TypeCorrect, PlaceCorrect, IdsCorrect, PTL DEF Spec

-----------------------------------------------------------------------------
\* The implementation of call_out keeps the promises of CallOutService, as long
\* as IdGenerator does not wrap.
THEOREM CallOutsImplementService ==
  ASSUME MaxCallOuts <= MaxId
  PROVE  Spec => ServiceSpec
<1> USE CallOutAssumption
<1>1. Init => Service!Init
  BY DEF Init, Service!Init, Threads
<1>2. TypeOK /\ LockInv /\ PlaceInv /\ IdInv /\ BoundInv /\ [Next]_vars
        => [Service!Next]_Service!svars
  <2> SUFFICES ASSUME TypeOK, LockInv, PlaceInv, IdInv, BoundInv, [Next]_vars
               PROVE  [Service!Next]_Service!svars
    OBVIOUS
  <2> DEFINE Same == UNCHANGED <<now, queue, hand, fired>>
                     /\ (pc[CallOut] # "dead")' = (pc[CallOut] # "dead")
  <2>0. Same => UNCHANGED Service!svars
    BY Zenon DEF Service!svars
  <2>1. ASSUME NEW t \in Users, UserNext(t) PROVE Same
    BY <2>1 DEF UserNext, Enter, Leave, TypeOK, Threads
  <2>2. ASSUME NEW t \in Threads, Add(t) PROVE Service!Register
    <3> DEFINE new == [seq |-> issued + 1, id |-> nextId, at |-> due[t]]
    <3>1. queue' = queue \cup {new} /\ UNCHANGED <<now, hand, fired>>
      BY <2>2 DEF Add
    <3>2. new.seq = issued + 1
      OBVIOUS
    <3>3. \A f \in Registered : f.seq < issued + 1
      BY DEF PlaceInv, TypeOK
    <3>4. (pc[CallOut] # "dead")' = (pc[CallOut] # "dead")
      BY <2>2 DEF Add, Notified, TypeOK, Threads
    <3> HIDE DEF new
    <3> QED
      BY <3>1, <3>2, <3>3, <3>4 DEF Service!Register, Registered
  <2>3. ASSUME NEW e \in queue, Take(e) PROVE Service!Take
    <3>1. \A f \in queue \ {e} : Service!Earlier(e, f)
      BY <2>3, HeadIsFirst DEF Take, BoundInv, TypeOK, Service!Earlier
    <3>2. hand = {}
      BY <2>3 DEF Take, LockInv
    <3>3. e.at <= now
      BY <2>3 DEF Take, TypeOK, Entry
    <3>4. pc[CallOut] # "dead" /\ (pc[CallOut] # "dead")'
      BY <2>3 DEF Take, TypeOK, Threads
    <3> QED
      BY <2>3, <3>1, <3>2, <3>3, <3>4 DEF Take, Service!Take
  <2>4. ASSUME Fire PROVE Service!Run
    <3>1. hand # {} /\ pc[CallOut] # "dead" /\ (pc[CallOut] # "dead")'
      BY <2>4 DEF Fire, LockInv, TypeOK, Threads
    <3> QED
      BY <2>4, <3>1 DEF Fire, Service!Run
  <2>5. ASSUME NEW t \in Threads, Throw(t) PROVE Same \/ Service!GoDown
    <3>1. CASE t = CallOut
      <4>1. hand = {} /\ pc'[CallOut] = "dead"
        BY <2>5, <3>1 DEF Throw, Unwound, LockInv, TypeOK, Threads
      <4> QED
        BY <2>5, <4>1 DEF Throw, Service!GoDown
    <3>2. CASE t # CallOut
      BY <2>5, <3>2 DEF Throw, TypeOK, Threads
    <3> QED
      BY <3>1, <3>2
  <2>6. ASSUME NEW t \in Threads, CallOutEfun(t) \/ SearchByName(t) \/ SearchEnds(t)
        PROVE  Same
    BY <2>6 DEF CallOutEfun, SearchByName, SearchEnds, TypeOK, Threads
  <2>7. CASE ReadClock \/ NothingQueued \/ TimedOut \/ SpuriousWakeUp \/ Fired
    <3> Same
      BY <2>7 DEF ReadClock, NothingQueued, TimedOut, SpuriousWakeUp, Fired, TypeOK, Threads
    <3> QED
      BY <2>0
  <2>8. ASSUME NEW e \in queue, TooEarly(e) PROVE Same
    BY <2>8 DEF TooEarly, TypeOK, Threads
  <2>9. CASE Tick
    <3>1. UNCHANGED <<queue, hand, fired, pc>> /\ now' \in {now, now + 1}
      BY <2>9 DEF Tick
    <3>2. CASE now' = now
      BY <2>0, <3>1, <3>2
    <3>3. CASE now' = now + 1
      BY <3>1, <3>3 DEF Service!Tick, Service!Next
    <3> QED
      BY <3>1, <3>2, <3>3
  <2>10. CASE UNCHANGED vars
    BY <2>0, <2>10 DEF vars
  <2> HIDE DEF Same
  <2> QED
    BY <2>0, <2>1, <2>2, <2>3, <2>4, <2>5, <2>6, <2>7, <2>8, <2>9, <2>10
    DEF Next, LpcNext, CallOutNext, Service!Next
<1>3. QED
  BY <1>1, <1>2, TypeCorrect, LockCorrect, PlaceCorrect, IdsCorrect, BoundCorrect, PTL
  DEF Spec, ServiceSpec, Service!Spec

-----------------------------------------------------------------------------

\* The threads that run LPC code, whatever efun they are in.
RunsLpc == {t \in Threads : pc[t] \in {"lpc", "adding", "searching"}}

Lock == INSTANCE GameLock WITH running <- RunsLpc

LEMMA OwnerRuns == LockInv => RunsLpc = game
BY DEF LockInv, RunsLpc

\* What a step does to the game lock: nothing, or one thread takes it or gives it back.
LEMMA LockSteps ==
  ASSUME TypeOK, LockInv, [Next]_vars
  PROVE  \/ UNCHANGED game
         \/ \E t \in Threads : game = {} /\ game' = {t}
         \/ \E t \in Threads : game = {t} /\ game' = {}
<1>1. ASSUME NEW t \in Users, Enter(t) PROVE game = {} /\ game' = {t}
  BY <1>1 DEF Enter
<1>2. ASSUME NEW t \in Users, Leave(t) PROVE game = {t} /\ game' = {}
  BY <1>2 DEF Leave, LockInv, Threads
<1>3. ASSUME NEW t \in Threads, Throw(t) PROVE game = {t} /\ game' = {}
  BY <1>3 DEF Throw, LockInv
<1>4. ASSUME Fire PROVE game = {} /\ game' = {CallOut}
  BY <1>4 DEF Fire
<1>5. ASSUME Fired PROVE game = {CallOut} /\ game' = {}
  BY <1>5 DEF Fired, LockInv, Threads
<1>6. ASSUME NEW t \in Threads, CallOutEfun(t) \/ Add(t) \/ SearchByName(t) \/ SearchEnds(t)
      PROVE  UNCHANGED game
  BY <1>6 DEF CallOutEfun, Add, SearchByName, SearchEnds
<1>7. CASE ReadClock \/ NothingQueued \/ TimedOut \/ SpuriousWakeUp \/ Tick
  BY <1>7 DEF ReadClock, NothingQueued, TimedOut, SpuriousWakeUp, Tick
<1>8. ASSUME NEW e \in queue, TooEarly(e) \/ Take(e) PROVE UNCHANGED game
  BY <1>8 DEF TooEarly, Take
<1>9. CASE UNCHANGED vars
  BY <1>9 DEF vars
<1> QED
  BY <1>1, <1>2, <1>3, <1>4, <1>5, <1>6, <1>7, <1>8, <1>9
  DEF Next, UserNext, LpcNext, CallOutNext, Threads

\* Users' threads and the call-out thread implement GameLock: no two of them are
\* ever inside LPC code, an efun that is called in the middle of it included.
THEOREM OneAtATime == Spec => Lock!Spec
<1>1. Init => Lock!Init
  BY CallOutAssumption DEF Init, Lock!Init, RunsLpc, Threads
<1>2. TypeOK /\ LockInv /\ LockInv' /\ [Next]_vars => [Lock!Next]_RunsLpc
  <2> SUFFICES ASSUME TypeOK, LockInv, LockInv', [Next]_vars
               PROVE  Lock!Next \/ UNCHANGED RunsLpc
    OBVIOUS
  <2>1. RunsLpc = game
    BY OwnerRuns
  <2>2. RunsLpc' = game'
    BY DEF LockInv, RunsLpc
  <2> QED
    BY <2>1, <2>2, LockSteps DEF Lock!Next, Lock!Start, Lock!Stop
<1> QED
  BY <1>1, <1>2, TypeCorrect, LockCorrect, PTL DEF Spec, Lock!Spec

=============================================================================
