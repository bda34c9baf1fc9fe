------------------------------ MODULE MCAccounts ------------------------------
(* Small instances of Accounts for TLC. *)
EXTENDS Accounts

CONSTANTS p1, p2, u1, u2, u3
=============================================================================
