------------------------------- MODULE MCOutbox -------------------------------
(***************************************************************************)
(* The instance of Outbox for TLC.                                         *)
(***************************************************************************)
EXTENDS Outbox

CONSTANTS d1, d2
=============================================================================
