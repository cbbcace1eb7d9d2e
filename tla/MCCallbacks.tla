------------------------------ MODULE MCCallbacks ------------------------------
(***************************************************************************)
(* The instance of Callbacks for TLC.                                      *)
(***************************************************************************)
EXTENDS Callbacks

CONSTANTS d1

\* The first statuses of an order.
MCStatus == {"awaiting_receipt", "received_by_shipping", "shipment_prepared"}
MCOpening == {"awaiting_receipt"}
MCSteps ==
  {<<"awaiting_receipt", "received_by_shipping">>, <<"received_by_shipping", "shipment_prepared">>}
=============================================================================
