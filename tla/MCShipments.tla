----------------------------- MODULE MCShipments -----------------------------
(***************************************************************************)
(* Instances of Shipments for TLC.  The calls of a run are built by one    *)
(* constructor per operation; a run's .cfg names the set of calls it uses. *)
(***************************************************************************)
EXTENDS Shipments, TLC

CONSTANTS r1, r2, s1, k1, k2, k3, o1, o2, b1, b2, h1, h2, e1, none

\* k3 is a key too long for the suffix of a create call's event.
MCKeyLength == [k \in Key |-> IF k = k3 THEN 120 ELSE 36]

MCSymmetry == Permutations({r1, r2})

Blank ==
  [op |-> "note", source |-> s1, key |-> none, ship |-> 1, role |-> "shipping_admin",
   from |-> none, to |-> none, stops |-> NoStops, eta |-> none,
   order |-> none, body |-> none, handover |-> none]

CreateCall(key, order, body, handover) ==
  [Blank EXCEPT !.op = "create", !.key = key, !.order = order, !.body = body,
                !.handover = handover]

ReturnCall(key, order, body, orig) ==
  [Blank EXCEPT !.op = "create_return", !.key = key, !.order = order, !.body = body,
                !.ship = orig]

MoveCall(key, id, from, to, role) ==
  [Blank EXCEPT !.op = "transition", !.key = key, !.ship = id, !.from = from,
                !.to = to, !.role = role]

CancelCall(key, id) == [Blank EXCEPT !.op = "cancel", !.key = key, !.ship = id]

StopsCall(key, n) ==
  [Blank EXCEPT !.op = "stops", !.key = key, !.stops = n, !.role = "delivery_employee"]

EtaCall(key, eta) == [Blank EXCEPT !.op = "eta", !.key = key, !.eta = eta]

NoteCall(key, n) == [Blank EXCEPT !.key = key, !.stops = n]

\* The role a shift of staff uses for a status: the least one allowed to set it.
RoleFor(to) ==
  IF CanManageStatus("warehouse_employee", to) THEN "warehouse_employee"
  ELSE IF CanManageStatus("delivery_employee", to) THEN "delivery_employee"
  ELSE IF CanManageStatus("support", to) THEN "support" ELSE "employee"

StaffMoves(id, pairs) == {MoveCall(none, id, p[1], p[2], RoleFor(p[2])) : p \in pairs}

OnTheRoad ==
  <<"awaiting_receipt", "received_by_shipping", "shipment_prepared", "in_transit",
    "arrived_at_destination_hub", "out_for_delivery">>

EmptySeed == {<<>>}

RoundSeed == {OnTheRoad}

\* A van on its round: deliveries, failures, stops, windows, notes and a
\* cancellation of the same shipment at once, some with a key, one by a role
\* that may not do it.
RoundCalls ==
  {MoveCall(k1, 1, "out_for_delivery", "delivered", "delivery_employee"),
   MoveCall(none, 1, "out_for_delivery", "delivery_failed", "delivery_employee"),
   MoveCall(none, 1, "out_for_delivery", "delivered", "support"),
   CancelCall(k2, 1), StopsCall(none, 3), StopsCall(k1, 0),
   EtaCall(none, e1), NoteCall(k2, 7)}

\* An empty database, or one order on the road.
CreateSeed == {<<>>, OnTheRoad}

\* Two orders, repeated and contradictory create calls, and their returns.  The
\* order on the road is delivered meanwhile, or goes all the way back, and a
\* shipment that may be a return is moved on or cancelled.
CreateCalls ==
  {CreateCall(k1, o1, b1, h1), CreateCall(k2, o1, b1, h1), CreateCall(k1, o1, b2, h1),
   CreateCall(k2, o2, b1, h2), CreateCall(k3, o2, b1, h2), CreateCall(k3, o2, b2, h1),
   ReturnCall(k3, o1, b1, 1), ReturnCall(k2, o1, b1, 1), ReturnCall(k1, o2, b1, 2),
   CancelCall(none, 2)}
    \cup StaffMoves(1, {<<"out_for_delivery", "delivered">>,
                        <<"out_for_delivery", "return_to_sender_requested">>,
                        <<"delivered", "return_to_sender_requested">>})
    \cup StaffMoves(1, ReturnToSenderTransitions)
    \cup StaffMoves(2, {<<"return_authorized", "return_label_created">>})

\* One order, handed over by two identical calls.
TwinCalls == {CreateCall(k1, o1, b1, h1)}
=============================================================================
