------------------------------ MODULE Callbacks ------------------------------
(***************************************************************************)
(* The shipment service and the callback outbox together, and what the     *)
(* e-commerce application learns of the shipments from them.               *)
(*                                                                         *)
(* The service is its ledger (ShipmentsRecordsProofs shows that it         *)
(* implements one): each line of the log is written in the transaction     *)
(* that inserts the outbox row of the same number.  The dispatchers are    *)
(* Outbox, step by step.  Nothing but the table joins them.                *)
(***************************************************************************)
EXTENDS Outbox

CONSTANTS
  Status, Opening, Steps,   \* the ledger's: the life cycle
  MaxShipments              \* bound: shipments in the book

ASSUME CallbacksAssumption == Opening \subseteq Status /\ MaxShipments \in Nat

VARIABLES
  book, log,   \* the ledger: shipments, and a line for each recorded event
  newest,      \* per shipment, the newest line that the endpoint has accepted
  shown        \* per shipment, the line that it has accepted last

service == <<book, log>>
view == <<newest, shown>>
allVars == <<vars, service, view>>

Ledger == INSTANCE ShipmentLedger

-----------------------------------------------------------------------------
\* Slip: the callback is written after the commit, and the service stops before.
RecordUnqueued ==
  /\ Len(log) + 1 \in RowId
  /\ Ledger!Change /\ Len(book') <= MaxShipments
  /\ UNCHANGED <<vars, view>>

\* A change of the service, with the outbox row of its event.
Record ==
  /\ Len(log) + 1 \in RowId
  /\ Ledger!Change /\ Len(book') <= MaxShipments
  /\ Enqueue(Len(log) + 1)
  /\ UNCHANGED view

\* A callback is posted, and may be accepted.
Deliver(d) ==
  /\ Post(d)
  /\ LET line == Head(disp[d].batch).id
         ship == log[line].ship
     IN IF seen'[line].accepted > seen[line].accepted
        THEN /\ newest' = [newest EXCEPT ![ship] = IF line > @ THEN line ELSE @]
             /\ shown' = [shown EXCEPT ![ship] = line]
        ELSE UNCHANGED view
  /\ UNCHANGED service

\* The other steps of a dispatcher, and of time.
Work(d) ==
  /\ Claim(d) \/ Mark(d) \/ MarkFails(d) \/ Crash(d) \/ Restart(d)
  /\ UNCHANGED <<service, view>>

Pass == Tick /\ UNCHANGED <<service, view>>

\* No shipment is there yet; a line's number bounds the number of its shipment.
CallbacksInit ==
  /\ Init
  /\ book = <<>> /\ log = <<>>
  /\ newest = [ship \in RowId |-> 0]
  /\ shown = [ship \in RowId |-> 0]

CallbacksNext ==
  \/ Record
  \/ \E d \in Dispatcher : Deliver(d) \/ Work(d)
  \/ Pass

CallbacksSpec == CallbacksInit /\ [][CallbacksNext]_allVars

(***************************************************************************)
(* Fairness as in Outbox.  Nothing forces the service to record events, or *)
(* the endpoint to accept.                                                 *)
(***************************************************************************)
FairCallbacksSpec ==
  /\ CallbacksSpec
  /\ WF_allVars(Pass)
  /\ \A d \in Dispatcher :
       /\ WF_allVars(Claim(d) /\ Work(d)) /\ WF_allVars(Deliver(d))
       /\ WF_allVars(Mark(d) /\ Work(d)) /\ WF_allVars(Restart(d) /\ Work(d))

-----------------------------------------------------------------------------
(***************************************************************************)
(* Properties.                                                             *)
(***************************************************************************)

LastLine(ship, line) ==
  log[line].ship = ship /\ \A j \in DOMAIN log : log[j].ship = ship => j <= line

\* Whatever was lost, repeated or overtaken on the way: once the callback of a
\* shipment's last event is marked delivered, the application knows the
\* shipment's status, if it keeps the newest of the callbacks it accepts.
CaughtUp ==
  \A ship \in DOMAIN book : \A line \in DOMAIN log :
    (LastLine(ship, line) /\ row[line].status = "delivered") =>
      newest[ship] \in DOMAIN log /\ log[newest[ship]].status = book[ship].status

OneDispatcher == \A d, e \in Dispatcher : d = e

\* With one dispatcher, a callback arrives after a newer one of its shipment only
\* when it was posted before, or its claim was lost, so that an application that
\* believes the last callback is misled by failures alone.
InOrderUnlessRepeated ==
  OneDispatcher =>
    \A ship \in DOMAIN book :
      shown[ship] < newest[ship] =>
        seen[shown[ship]].posts > 1 \/ seen[shown[ship]].recovered > 0

\* Every recorded event is known to the application in the end, itself or by a
\* newer one of its shipment, unless its callback was given up (the dispatchers are
\* enabled, as in Outbox).
EventuallyKnown ==
  \A line \in RowId :
    line \in DOMAIN log ~>
      line \in DOMAIN log /\ (newest[log[line].ship] >= line \/ row[line].status = "failed")
=============================================================================
