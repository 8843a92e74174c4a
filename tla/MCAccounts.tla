----------------------------- MODULE MCAccounts -----------------------------
(* Small instances of Accounts for TLC.                                     *)
EXTENDS Accounts

CONSTANTS m1, m2, p1, p2
=============================================================================
