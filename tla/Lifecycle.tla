------------------------------ MODULE Lifecycle ------------------------------
(***************************************************************************)
(* The shipment statuses, the relation between them that                   *)
(* ShipmentStatus.CanTransitionTo allows, the statuses each role may set,  *)
(* and the statuses the staff portal offers for a shipment.                *)
(* A module of constants: it has no variables, and no RECURSIVE operator.  *)
(***************************************************************************)

\* StatusCreated .. StatusReadyForPickup: declared, but no code path stores
\* them (Create starts at "awaiting_receipt").
PreHandoverStatus == {"created", "label_created", "ready_for_pickup"}

\* The statuses of a shipment on its way to the customer.
ForwardStatus ==
  {"awaiting_receipt", "received_by_shipping", "shipment_prepared",
   "in_transit", "arrived_at_destination_hub", "out_for_delivery",
   "delivered", "delivery_failed", "delivery_rescheduled", "cancelled"}

\* The statuses of an outbound shipment that travels back undelivered.
ReturnToSenderStatus ==
  {"return_to_sender_requested", "return_to_sender_prepared",
   "return_to_sender_in_transit", "return_to_sender_received"}

\* The statuses of a customer return.
CustomerReturnStatus ==
  {"return_requested", "return_authorized", "return_label_created",
   "waiting_for_customer_handover", "return_received_by_shipping",
   "return_prepared", "return_in_transit", "return_received_at_warehouse",
   "return_completed"}

OutboundStatus == PreHandoverStatus \cup ForwardStatus \cup ReturnToSenderStatus

ShipmentStatus == OutboundStatus \cup CustomerReturnStatus

Role == {"admin", "employee", "shipping_admin", "warehouse_employee",
         "delivery_employee", "support"}

(***************************************************************************)
(* The transition table.  Interruptible are the statuses from which an     *)
(* outbound shipment may be sent back.                                     *)
(***************************************************************************)
\* Slip: a delivered shipment may still be sent back.
InterruptibleOnceDelivered ==
  {"received_by_shipping", "shipment_prepared", "in_transit",
   "arrived_at_destination_hub", "out_for_delivery", "delivery_failed",
   "delivery_rescheduled", "delivered"}

Interruptible ==
  {"received_by_shipping", "shipment_prepared", "in_transit",
   "arrived_at_destination_hub", "out_for_delivery", "delivery_failed",
   "delivery_rescheduled"}

Cancellable == PreHandoverStatus \cup {"awaiting_receipt"}

ForwardTransitions ==
  {<<"created", "label_created">>,
   <<"label_created", "ready_for_pickup">>,
   <<"ready_for_pickup", "awaiting_receipt">>,
   <<"awaiting_receipt", "received_by_shipping">>,
   <<"received_by_shipping", "shipment_prepared">>,
   <<"shipment_prepared", "in_transit">>,
   <<"in_transit", "arrived_at_destination_hub">>,
   <<"arrived_at_destination_hub", "out_for_delivery">>,
   <<"out_for_delivery", "delivered">>,
   <<"out_for_delivery", "delivery_failed">>,
   <<"delivery_failed", "delivery_rescheduled">>,
   <<"delivery_rescheduled", "out_for_delivery">>}

\* Slip: the last step ends as a customer's return does.
ReturnToSenderTransitionsCrossed ==
  {<<"return_to_sender_requested", "return_to_sender_prepared">>,
   <<"return_to_sender_prepared", "return_to_sender_in_transit">>,
   <<"return_to_sender_in_transit", "return_received_at_warehouse">>}

ReturnToSenderTransitions ==
  {<<"return_to_sender_requested", "return_to_sender_prepared">>,
   <<"return_to_sender_prepared", "return_to_sender_in_transit">>,
   <<"return_to_sender_in_transit", "return_to_sender_received">>}

CustomerReturnTransitions ==
  {<<"return_requested", "return_authorized">>,
   <<"return_authorized", "return_label_created">>,
   <<"return_label_created", "waiting_for_customer_handover">>,
   <<"waiting_for_customer_handover", "return_received_by_shipping">>,
   <<"return_received_by_shipping", "return_prepared">>,
   <<"return_prepared", "return_in_transit">>,
   <<"return_in_transit", "return_received_at_warehouse">>,
   <<"return_received_at_warehouse", "return_completed">>}

Transitions ==
  ForwardTransitions \cup ReturnToSenderTransitions \cup CustomerReturnTransitions
    \cup (Interruptible \X {"return_to_sender_requested"})
    \cup (Cancellable \X {"cancelled"})

CanTransitionTo(status, next) == <<status, next>> \in Transitions

\* No transition leaves these.
TerminalStatus ==
  {"delivered", "cancelled", "return_to_sender_received", "return_completed"}

(***************************************************************************)
(* Who may set which status (canManageStatus), and what the portal offers  *)
(* (nextStatuses): every allowed successor but "cancelled" and the         *)
(* pre-handover statuses and "awaiting_receipt", absent from its list.     *)
(***************************************************************************)
FullAccessRole == {"admin", "employee", "shipping_admin"}

CanManageStatus(role, status) ==
  \/ role \in FullAccessRole
  \/ /\ role = "warehouse_employee"
     /\ status \in {"received_by_shipping", "shipment_prepared", "in_transit",
                    "arrived_at_destination_hub"}
  \/ /\ role = "support"
     /\ status \in {"delivery_rescheduled", "return_authorized", "return_completed"}
  \/ /\ role = "delivery_employee"
     /\ status \in {"out_for_delivery", "delivered", "delivery_failed"}

PortalOffered ==
  ShipmentStatus \ (PreHandoverStatus \cup {"awaiting_receipt", "cancelled"})

NextStatuses(status) == {next \in PortalOffered : CanTransitionTo(status, next)}
==============================================================================
