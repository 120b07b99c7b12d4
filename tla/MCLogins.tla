----------------------------- MODULE MCLogins -----------------------------
(* Small instances of Logins for TLC. *)
EXTENDS Logins, TLC
=============================================================================
