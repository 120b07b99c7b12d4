-------------------------- MODULE MCObjectManager --------------------------
(* Small instances of ObjectManager for TLC. *)
EXTENDS ObjectManager, TLC

\* The master object "/m", "/a", which inherits it, and "/v", which has no source.
MCInherits == [f \in Files |-> IF f = "a" THEN {<<"m", "">>} ELSE {}]
MCMaster == <<"m", "">>
=============================================================================
