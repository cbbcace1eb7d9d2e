---------------------------- MODULE MCLoginLimiter ----------------------------
(***************************************************************************)
(* An instance of LoginLimiter for TLC.                                    *)
(***************************************************************************)
EXTENDS LoginLimiter, TLC

CONSTANTS k1, k2, c1, c2, none

MCSymmetry == Permutations({c1, c2})
===============================================================================
