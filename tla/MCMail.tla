------------------------------ MODULE MCMail ------------------------------
(* Small instances of Mail for TLC. *)
EXTENDS Mail, TLC

CONSTANTS ann, bob

\* bob's mail goes to ann.
MCForward == (ann :> None) @@ (bob :> ann)

MCNoForward == (ann :> None) @@ (bob :> None)

Symmetry == Permutations(Mailers)
=============================================================================
