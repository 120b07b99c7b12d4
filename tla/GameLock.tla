------------------------------ MODULE GameLock ------------------------------
(***************************************************************************)
(* What all LPC code relies on: one thread at a time runs it.  A thread    *)
(* starts when no other one runs LPC code and has the game to itself until *)
(* it stops; who comes next starts from an idle game.                      *)
(*                                                                         *)
(* Code:  InContext.execute, with what its callers promise by calling LPC  *)
(* code through nothing else.                                              *)
(***************************************************************************)
CONSTANT Threads

VARIABLE running  \* the threads that run LPC code

Init == running = {}

Start(t) == running = {} /\ running' = {t}

Stop(t) == running = {t} /\ running' = {}

Next == \E t \in Threads : Start(t) \/ Stop(t)

Spec == Init /\ [][Next]_running
=============================================================================
