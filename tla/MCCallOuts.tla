----------------------------- MODULE MCCallOuts -----------------------------
(* Small instances of CallOuts for TLC. *)
EXTENDS CallOuts

\* A call_out in the past, at once, and later.
SomeDelays == {-1, 0, 2}
=============================================================================
