------------------------------ MODULE CallOuts ------------------------------
(***************************************************************************)
(* The call-out manager: the call_out efun that LPC threads use to         *)
(* register a delayed call, the priority queue behind it, and the one      *)
(* "call-out" thread that sleeps until the first deadline, takes the entry *)
(* and calls it while holding the game lock.                               *)
(*                                                                         *)
(* Code:  CallOutManager, CallOutEfun, FindCallOutEfun, IdGenerator and    *)
(* InContext.  One tick of `now' is the 100 ms that call_out multiplies    *)
(* its delay with.                                                         *)
(*                                                                         *)
(* A block that is synchronized on CallOutManager._lock is one action.     *)
(* The game lock is a variable, because it is held over many actions.      *)
(***************************************************************************)
EXTENDS Integers, FiniteSets

CONSTANTS
  Users,        \* the threads that run LPC: connection readers, acceptor
  CallOut,      \* the thread named "call-out"
  Delays,       \* the delays LPC code passes to call_out
  MaxId,        \* IdGenerator._last: handles are 1..MaxId
  MaxCallOuts,  \* bound: how many entries are registered in all
  MaxTime       \* bound: the clock stays here, as do all deadlines

ASSUME CallOutAssumption ==
  /\ CallOut \notin Users
  /\ Delays \subseteq Int
  /\ MaxId \in Nat \ {0}
  /\ MaxCallOuts \in Nat
  /\ MaxTime \in Nat

VARIABLES
  now,      \* System.currentTimeMillis()
  queue,    \* CallOutManager._queue
  nextId,   \* IdGenerator._id
  issued,   \* how many entries have been created; numbers them (their identity)
  game,     \* who owns the game lock: {} or a singleton
  pc,       \* where each thread is
  due,      \* the local `time' of a thread inside call_out
  polls,    \* how often the queue shrank under a thread's search
  clock,    \* the local `now' of the call-out thread
  nap,      \* its _lock.wait: the time left, and how old `clock' was at the start
  hand,     \* its local `entry': {} or a singleton
  fired     \* the entries whose callable has been called (history)

vars == <<now, queue, nextId, issued, game, pc, due, polls, clock, nap, hand, fired>>

Threads == Users \cup {CallOut}

Entry == [seq : Nat \ {0}, id : 1..MaxId, at : Int]

Registered == queue \cup hand \cup fired

TypeOK ==
  /\ now \in 0..MaxTime
  /\ queue \subseteq Entry
  /\ nextId \in 1..MaxId
  /\ issued \in Nat
  /\ game \subseteq Threads
  /\ pc \in [Threads -> {"idle", "lpc", "adding", "searching",
                         "top", "check", "waiting", "fire", "dead"}]
  /\ due \in [Threads -> Int]
  /\ polls \in [Threads -> Nat]
  /\ clock \in 0..now
  /\ nap \in [left : Nat, lag : Nat]
  /\ hand \subseteq Entry
  /\ fired \subseteq Entry

Init ==
  /\ now = 0
  /\ queue = {}
  /\ nextId = 1
  /\ issued = 0
  /\ game = {}
  /\ pc = [t \in Threads |-> IF t = CallOut THEN "top" ELSE "idle"]
  /\ due = [t \in Threads |-> 0]
  /\ polls = [t \in Threads |-> 0]
  /\ clock = 0
  /\ nap = [left |-> 0, lag |-> 0]
  /\ hand = {}
  /\ fired = {}

-----------------------------------------------------------------------------
(* LPC code.  Whoever runs it owns the game lock (RuntimeContext.obtain     *)
(* throws otherwise), so these actions are those of the owner.              *)

\* A user thread starts running LPC code (InContext.execute).
Enter(t) ==
  /\ pc[t] = "idle"
  /\ game = {}
  /\ game' = {t}
  /\ pc' = [pc EXCEPT ![t] = "lpc"]
  /\ UNCHANGED <<now, queue, nextId, issued, due, polls, clock, nap, hand, fired>>

Leave(t) ==
  /\ pc[t] = "lpc"
  /\ game' = {}
  /\ pc' = [pc EXCEPT ![t] = "idle"]
  /\ UNCHANGED <<now, queue, nextId, issued, due, polls, clock, nap, hand, fired>>

\* call_out(f, delay): the deadline is computed first ...
CallOutEfun(t) ==
  /\ pc[t] = "lpc"
  /\ issued < MaxCallOuts
  /\ \E delay \in Delays :
       /\ now + delay <= MaxTime
       /\ due' = [due EXCEPT ![t] = now + delay]
  /\ pc' = [pc EXCEPT ![t] = "adding"]
  /\ UNCHANGED <<now, queue, nextId, issued, game, polls, clock, nap, hand, fired>>

\* Mutants of NextId: one never wraps, the other wraps an id too soon.
NextIdNoWrap == nextId + 1
NextIdSkipsLast == IF nextId + 1 >= MaxId THEN 1 ELSE nextId + 1

\* IdGenerator.next: hand out _id, start again at _first after _last.
NextId == IF nextId = MaxId THEN 1 ELSE nextId + 1

\* Mutant of Notified: add forgets to notify.
NotNotified == pc[CallOut]

\* _lock.notify: a waiting call-out thread goes round its loop again.
Notified == IF pc[CallOut] = "waiting" THEN "top" ELSE pc[CallOut]

\* ... then CallOutManager.add queues the entry and notifies.
Add(t) ==
  /\ pc[t] = "adding"
  /\ queue' = queue \cup {[seq |-> issued + 1, id |-> nextId, at |-> due[t]]}
  /\ issued' = issued + 1
  /\ nextId' = NextId
  /\ pc' = [pc EXCEPT ![CallOut] = Notified, ![t] = "lpc"]
  /\ due' = [due EXCEPT ![t] = 0]
  /\ UNCHANGED <<now, game, polls, clock, nap, hand, fired>>

\* find_call_out(name) walks CallOutManager.all() without taking _lock.
SearchByName(t) ==
  /\ pc[t] = "lpc"
  /\ pc' = [pc EXCEPT ![t] = "searching"]
  /\ UNCHANGED <<now, queue, nextId, issued, game, due, polls, clock, nap, hand, fired>>

SearchEnds(t) ==
  /\ pc[t] = "searching"
  /\ pc' = [pc EXCEPT ![t] = "lpc"]
  /\ polls' = [polls EXCEPT ![t] = 0]
  /\ UNCHANGED <<now, queue, nextId, issued, game, due, clock, nap, hand, fired>>

-----------------------------------------------------------------------------
(* An exception leaves the LPC code: a user's command is abandoned, but the *)
(* call-out thread ends, since poll() catches InterruptedException only.    *)

Unwound(t) == IF t = CallOut THEN "dead" ELSE "idle"

Throw(t) ==
  /\ \/ pc[t] = "lpc"
     \/ pc[t] = "searching" /\ polls[t] > 0  \* ConcurrentModificationException
  /\ game' = {}
  /\ pc' = [pc EXCEPT ![t] = Unwound(t)]
  /\ polls' = [polls EXCEPT ![t] = 0]
  /\ UNCHANGED <<now, queue, nextId, issued, due, clock, nap, hand, fired>>

-----------------------------------------------------------------------------
(* The call-out thread: CallOutManager.poll, processNextCallout, execute.   *)

\* Mutant of Before: equal deadlines are not told apart by id.
BeforeByTime(e, f) == e.id # f.id /\ e.at <= f.at

\* Entry.compareTo.
Before(e, f) == e.id # f.id /\ (e.at < f.at \/ (e.at = f.at /\ e.id < f.id))

\* What PriorityQueue.peek may return.  Two entries with one handle compare as
\* equal whatever their deadlines; the order is not transitive then and the
\* heap's root may be any entry.
Heads ==
  {e \in queue : \/ \A f \in queue \ {e} : Before(e, f)
                 \/ \E f, g \in queue : f # g /\ f.id = g.id}

\* `now' is read before _lock is taken.
ReadClock ==
  /\ pc[CallOut] = "top"
  /\ clock' = now
  /\ pc' = [pc EXCEPT ![CallOut] = "check"]
  /\ UNCHANGED <<now, queue, nextId, issued, game, due, polls, nap, hand, fired>>

\* Mutant of NothingQueued: the loop ends with the queue.
NothingQueuedEnds ==
  /\ pc[CallOut] = "check"
  /\ queue = {}
  /\ pc' = [pc EXCEPT ![CallOut] = "idle"]
  /\ UNCHANGED <<now, queue, nextId, issued, game, due, polls, clock, nap, hand, fired>>

NothingQueued ==
  /\ pc[CallOut] = "check"
  /\ queue = {}
  /\ pc' = [pc EXCEPT ![CallOut] = "top"]
  /\ UNCHANGED <<now, queue, nextId, issued, game, due, polls, clock, nap, hand, fired>>

TooEarly(e) ==
  /\ pc[CallOut] = "check"
  /\ e \in Heads
  /\ e.at > clock
  /\ nap' = [left |-> e.at - clock, lag |-> now - clock]
  /\ pc' = [pc EXCEPT ![CallOut] = "waiting"]
  /\ UNCHANGED <<now, queue, nextId, issued, game, due, polls, clock, hand, fired>>

\* Mutant of Take: the entry is peeked at, not polled.
TakePeeks(e) ==
  /\ pc[CallOut] = "check"
  /\ e \in Heads
  /\ e.at <= clock
  /\ hand' = {e}
  /\ pc' = [pc EXCEPT ![CallOut] = "fire"]
  /\ UNCHANGED <<now, queue, nextId, issued, game, due, polls, clock, nap, fired>>

Take(e) ==
  /\ pc[CallOut] = "check"
  /\ e \in Heads
  /\ e.at <= clock
  /\ queue' = queue \ {e}
  /\ hand' = {e}
  /\ polls' = [t \in Threads |-> IF pc[t] = "searching" THEN polls[t] + 1 ELSE polls[t]]
  /\ pc' = [pc EXCEPT ![CallOut] = "fire"]
  /\ UNCHANGED <<now, nextId, issued, game, due, clock, nap, fired>>

TimedOut ==
  /\ pc[CallOut] = "waiting"
  /\ nap.left = 0
  /\ pc' = [pc EXCEPT ![CallOut] = "top"]
  /\ UNCHANGED <<now, queue, nextId, issued, game, due, polls, clock, nap, hand, fired>>

\* Object.wait may return for no reason.
SpuriousWakeUp ==
  /\ pc[CallOut] = "waiting"
  /\ pc' = [pc EXCEPT ![CallOut] = "top"]
  /\ UNCHANGED <<now, queue, nextId, issued, game, due, polls, clock, nap, hand, fired>>

\* Mutant of Fire: the callable is called outside InContext, without the lock.
FireUnlocked ==
  /\ pc[CallOut] = "fire"
  /\ fired' = fired \cup hand
  /\ hand' = {}
  /\ pc' = [pc EXCEPT ![CallOut] = "lpc"]
  /\ UNCHANGED <<now, queue, nextId, issued, game, due, polls, clock, nap>>

\* execute: wait for the game lock, then call the callable.
Fire ==
  /\ pc[CallOut] = "fire"
  /\ game = {}
  /\ game' = {CallOut}
  /\ fired' = fired \cup hand
  /\ hand' = {}
  /\ pc' = [pc EXCEPT ![CallOut] = "lpc"]
  /\ UNCHANGED <<now, queue, nextId, issued, due, polls, clock, nap>>

Fired ==
  /\ pc[CallOut] = "lpc"
  /\ game' = {}
  /\ pc' = [pc EXCEPT ![CallOut] = "top"]
  /\ UNCHANGED <<now, queue, nextId, issued, due, polls, clock, nap, hand, fired>>

\* Time passes.  At MaxTime the clock reading stays, every deadline having
\* come, but a sleeper's time still runs out.
Tick ==
  /\ now < MaxTime \/ nap.left > 0
  /\ now' = IF now < MaxTime THEN now + 1 ELSE now
  /\ nap' = [nap EXCEPT !.left = IF nap.left > 0 THEN nap.left - 1 ELSE 0]
  /\ UNCHANGED <<queue, nextId, issued, game, pc, due, polls, clock, hand, fired>>

-----------------------------------------------------------------------------
UserNext(t) == Enter(t) \/ Leave(t)

LpcNext(t) ==
  CallOutEfun(t) \/ Add(t) \/ SearchByName(t) \/ SearchEnds(t) \/ Throw(t)

CallOutNext ==
  \/ ReadClock \/ NothingQueued \/ TimedOut \/ SpuriousWakeUp \/ Fire \/ Fired
  \/ \E e \in queue : TooEarly(e) \/ Take(e)

Next ==
  \/ \E t \in Users : UserNext(t)
  \/ \E t \in Threads : LpcNext(t)
  \/ CallOutNext
  \/ Tick

Spec == Init /\ [][Next]_vars

(***************************************************************************)
(* Fairness.  Time passes and a thread that can run does.  LPC code ends,  *)
(* however many efuns it calls, because ExecutionTimeCheck stops it: SF on *)
(* Leave and Fired.  A JVM monitor is not handed over in the order of      *)
(* arrival, but no thread is passed over for ever: SF on Fire.             *)
(***************************************************************************)
Fairness ==
  /\ WF_vars(Tick)
  /\ \A t \in Users : SF_vars(Leave(t))
  /\ \A t \in Threads : WF_vars(Add(t)) /\ WF_vars(SearchEnds(t))
  /\ WF_vars(ReadClock) /\ WF_vars(NothingQueued) /\ WF_vars(TimedOut)
  /\ WF_vars(\E e \in queue : TooEarly(e) \/ Take(e))
  /\ SF_vars(Fire) /\ SF_vars(Fired)

FairSpec == Spec /\ Fairness

-----------------------------------------------------------------------------
(* Safety *)

\* No entry is lost or doubled on its way from call_out to the call: each one
\* ever created is queued, in the call-out thread's hand, or has been called,
\* and it is in one of these places only.
NothingLost ==
  /\ {e.seq : e \in Registered} = 1..issued
  /\ \A e, f \in Registered : e.seq = f.seq => e = f
  /\ queue \cap hand = {} /\ queue \cap fired = {} /\ hand \cap fired = {}

\* A handle is not given out again before all the others were, so the handle that
\* LPC code keeps for find_call_out names one entry until IdGenerator wraps.
HandlesFarApart ==
  \A e, f \in Registered : e.seq < f.seq /\ e.id = f.id => f.seq - e.seq >= MaxId

\* The notify in add is not lost: while the call-out thread has time to sleep,
\* it ends no later than any queued deadline, but for the age that its clock
\* reading had when it went to sleep.  (Until handles repeat: see Heads.)
NeverOversleeps ==
  pc[CallOut] = "waiting" /\ issued <= MaxId
    => \A e \in queue : nap.left = 0 \/ now + nap.left <= e.at + nap.lag

\* A search by name walks the queue without its lock, but under the game lock:
\* at most one entry leaves during the walk, and the call-out thread then waits
\* with it in hand.  A search by the callback itself sees no change.
OnePollPerSearch ==
  \A t \in Threads :
    pc[t] = "searching" /\ polls[t] > 0
      => polls[t] = 1 /\ t # CallOut /\ pc[CallOut] = "fire" /\ hand # {}

\* What call_out promises (CallOutService): never early, in order, at most once.
Service ==
  INSTANCE CallOutService WITH
    pending <- queue, taken <- hand, done <- fired, up <- pc[CallOut] # "dead"

ServiceSpec == Service!Spec

(* Liveness *)

\* A registered entry is called in the end, unless an error in some earlier
\* callback ended the call-out thread.
EventuallyFires ==
  \A s \in 1..MaxCallOuts :
    (\E e \in queue : e.seq = s)
      ~> (pc[CallOut] = "dead" \/ \E e \in fired : e.seq = s)
=============================================================================
