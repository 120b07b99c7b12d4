-------------------------- MODULE CallOutService --------------------------
(***************************************************************************)
(* What call_out promises to LPC code: a registered entry stays pending    *)
(* until the service takes it, entries are taken only when due, in order   *)
(* of deadline and, for equal deadlines, of registration; every entry is   *)
(* run at most once.  The service may go down; nothing is taken after.     *)
(***************************************************************************)
EXTENDS Integers

VARIABLES
  now,      \* the clock
  pending,  \* registered entries, not yet taken
  taken,    \* the entry taken and not yet run: {} or a singleton
  done,     \* the entries whose function has been called
  up        \* whether the service is running

svars == <<now, pending, taken, done, up>>

Earlier(e, f) == e.at < f.at \/ (e.at = f.at /\ e.seq < f.seq)

Init ==
  /\ now = 0
  /\ pending = {}
  /\ taken = {}
  /\ done = {}
  /\ up = TRUE

Register ==
  \E e \in pending' :
    /\ \A f \in pending \cup taken \cup done : f.seq < e.seq
    /\ pending' = pending \cup {e}
    /\ UNCHANGED <<now, taken, done, up>>

Take ==
  \E e \in pending :
    /\ up
    /\ taken = {}
    /\ e.at <= now
    /\ \A f \in pending \ {e} : Earlier(e, f)
    /\ pending' = pending \ {e}
    /\ taken' = {e}
    /\ UNCHANGED <<now, done, up>>

Run ==
  /\ taken # {}
  /\ done' = done \cup taken
  /\ taken' = {}
  /\ UNCHANGED <<now, pending, up>>

GoDown ==
  /\ taken = {}
  /\ up' = FALSE
  /\ UNCHANGED <<now, pending, taken, done>>

Tick ==
  /\ now' = now + 1
  /\ UNCHANGED <<pending, taken, done, up>>

Next == Register \/ Take \/ Run \/ GoDown \/ Tick

Spec == Init /\ [][Next]_svars
===========================================================================
