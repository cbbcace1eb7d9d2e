------------------------------ MODULE MCAccounts ------------------------------
(***************************************************************************)
(* Instances of Accounts for TLC.                                          *)
(***************************************************************************)
EXTENDS Accounts, TLC

CONSTANTS u1, u2, b1, b2, none

\* The bootstrapped administrator alone.
OneAdmin == [u \in User |-> IF u = u1 THEN "admin" ELSE none]

TwoAdmins == [u \in User |-> "admin"]

MCSymmetry == Permutations({b1, b2})
===============================================================================
