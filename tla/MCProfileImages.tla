---------------------------- MODULE MCProfileImages ----------------------------
(***************************************************************************)
(* An instance of ProfileImages for TLC.                                   *)
(***************************************************************************)
EXTENDS ProfileImages, TLC

CONSTANTS n1, n2, n3, n4, c1, c2, c3, none

MCSymmetry == Permutations(Client) \cup Permutations(Name)
===============================================================================
