------------------------------ MODULE Shipments ------------------------------
(***************************************************************************)
(* The shipment service (internal/services/shipment_service.go) on its     *)
(* database.  Concurrent requests create shipments and returns, move them  *)
(* through their life cycle and annotate them.  A step is one round trip   *)
(* to MySQL: what one request reads in a step may be stale when it uses it *)
(* in a later one.                                                         *)
(*                                                                         *)
(* The database is InnoDB at its default isolation, REPEATABLE READ: the   *)
(* first plain SELECT of a transaction fixes the snapshot its plain        *)
(* SELECTs read; SELECT ... FOR UPDATE reads and locks the latest row;     *)
(* unique indexes are enforced against the latest rows.  A transaction     *)
(* keeps no row visible to the others before it commits, so its writes are *)
(* one step, the commit.                                                   *)
(***************************************************************************)
EXTENDS Naturals, Integers, Sequences, FiniteSets, Lifecycle

CONSTANTS
  Request,     \* goroutines serving a request each, one after the other
  Source,      \* values of the X-Service-Name header ("shipping-portal" for the portal)
  Key,         \* Idempotency-Key values
  KeyLength,   \* their length in characters
  Order,       \* order ids
  Body,        \* what else a create call says: customer, carrier, address, items
  Handover,    \* handover codes
  Eta,         \* delivery windows
  None,        \* an absent value (NULL, or an empty string)
  Calls,       \* the calls clients make (a set of records, see Call)
  SeedPaths,   \* the statuses an outbound shipment in the database may have been through
  SeedOrder, SeedBody, SeedHandover, SeedSource, SeedKey,  \* and what it holds
  MaxEvents,   \* bound on the rows of shipment_events
  Faults       \* whether database calls may fail

NoStops == -1

Op == {"create", "create_return", "transition", "cancel", "stops", "eta", "note"}

(***************************************************************************)
(* A call: the operation, the caller's source service and idempotency key, *)
(* the shipment it names, the role it acts in, and the operation's         *)
(* arguments.  An operation ignores the fields it has no argument for.     *)
(* The key None is one that this request alone uses: the portal makes one  *)
(* from the request's id.                                                  *)
(***************************************************************************)
Call ==
  [op : Op, source : Source, key : Key \cup {None}, ship : Nat, role : Role,
   from : ShipmentStatus \cup {None}, to : ShipmentStatus \cup {None},
   stops : Nat \cup {NoStops}, eta : Eta \cup {None},
   order : Order \cup {None}, body : Body \cup {None},
   handover : Handover \cup {None}]

CreateOps == {"create", "create_return"}

ASSUME NoneAssumption ==
  None \notin (Key \cup Order \cup Body \cup Handover \cup Eta \cup ShipmentStatus \cup Call)

ASSUME KeyLengthAssumption == KeyLength \in [Key -> 1..128]

\* A create call passed validateCreateInput or validateReturnInput: it has a
\* key, an order, a body and, for an outbound shipment, a handover code.
ASSUME CallsAssumption ==
  /\ Calls \subseteq Call
  /\ \A c \in Calls :
       c.op \in CreateOps => c.key # None /\ c.order # None /\ c.body # None
  /\ \A c \in Calls : c.op = "create" => c.handover # None

ASSUME SeedAssumption ==
  /\ \A path \in SeedPaths :
       /\ path \in Seq(ForwardStatus \cup ReturnToSenderStatus)
       /\ path # <<>> => path[1] = "awaiting_receipt"
       /\ \A i \in 1..(Len(path) - 1) : CanTransitionTo(path[i], path[i + 1])
  /\ SeedOrder \in Order /\ SeedBody \in Body /\ SeedHandover \in Handover
  /\ SeedSource \in Source /\ SeedKey \in Key

ASSUME BoundAssumption == MaxEvents \in Nat /\ Faults \in BOOLEAN

VARIABLES
  shipments,   \* table shipments: a row per id, in the order of their commits
  events,      \* table shipment_events
  audit,       \* table audit_logs
  outbox,      \* table outbox_events (the rows as inserted)
  req          \* what each request slot is doing

vars == <<shipments, events, audit, outbox, req>>

tables == <<shipments, events, audit, outbox>>

Row ==
  [isReturn : BOOLEAN, orig : Nat, order : Order, body : Body,
   handover : Handover \cup {None}, source : Source, key : Key,
   status : ShipmentStatus, version : Nat, stops : Nat \cup {NoStops},
   eta : Eta \cup {None}, deliveredAt : BOOLEAN]

Suffix == {"", "/handed-over", "/created"}

\* "custom" is whatever type AddEvent's caller states; it is kept apart from the
\* service's own types, although nothing forbids a caller to state one of them.
EventType ==
  {"shipment_handed_over", "return_authorized", "status_changed",
   "stops_updated", "eta_updated", "custom"}

Event ==
  [ship : Nat, source : Source, key : Key \cup {None}, suffix : Suffix,
   type : EventType, status : ShipmentStatus]

AuditRow ==
  [ship : Nat, action : EventType, old : ShipmentStatus \cup {None},
   new : ShipmentStatus]

Payload ==
  [ship : Nat, event : Nat, status : ShipmentStatus,
   stops : Nat \cup {NoStops}, eta : Eta \cup {None}]

Phase == {"idle", "peek", "lookup", "lock", "write", "insert", "done"}

\* How a call was answered: HTTP 201/200, 200 for a replay, and the errors of
\* respondError: 404, 409, 409, 403, 422 and 500.
Code ==
  {None, "applied", "replayed", "not_found", "conflict", "invalid_transition",
   "forbidden", "invalid_event", "internal"}

(***************************************************************************)
(* A request slot: its call and its place in the handler; the transition   *)
(* it is to make (from, to); the status and version of the row it locked;  *)
(* how many shipments its snapshot shows; and, when done, the answer and   *)
(* the shipment in it.                                                     *)
(***************************************************************************)
Slot ==
  [phase : Phase, call : Calls \cup {None},
   from : ShipmentStatus \cup {None}, to : ShipmentStatus \cup {None},
   status : ShipmentStatus \cup {None}, version : Nat, snap : Nat,
   code : Code, ship : Nat]

IdleSlot ==
  [phase |-> "idle", call |-> None, from |-> None, to |-> None,
   status |-> None, version |-> 0, snap |-> 0, code |-> None, ship |-> 0]

Busy == {r \in Request : req[r].phase \notin {"idle", "done"}}

-----------------------------------------------------------------------------
(***************************************************************************)
(* Steps of a request within its slot.                                     *)
(***************************************************************************)
Answer(r, c, code, id) ==
  req' = [req EXCEPT ![r] =
            [IdleSlot EXCEPT !.phase = "done", !.call = c, !.code = code, !.ship = id]]

Goto(r, ph) == req' = [req EXCEPT ![r].phase = ph]

Refuse(r, code) ==
  /\ Answer(r, req[r].call, code, 0)
  /\ UNCHANGED tables

Replay(r, id) ==
  /\ Answer(r, req[r].call, "replayed", id)
  /\ UNCHANGED tables

At(r, ph, ops) == req[r].phase = ph /\ req[r].call.op \in ops

\* The commit succeeds; with faults, its acknowledgement may be lost.
Committed(r, id) ==
  \/ Answer(r, req[r].call, "applied", id)
  \/ Faults /\ Answer(r, req[r].call, "internal", 0)

-----------------------------------------------------------------------------
(***************************************************************************)
(* recordEvent: an event row, an audit row and an outbox row, written in   *)
(* the transaction that changes the shipment.                              *)
(***************************************************************************)
SuffixLength(suffix) ==
  CASE suffix = "" -> 0 [] suffix = "/handed-over" -> 12 [] suffix = "/created" -> 8

KeyTooLong(c, suffix) ==
  c.key # None /\ KeyLength[c.key] + SuffixLength(suffix) > 128

\* The rows a (source_service, idempotency_key) names.  A key of one request
\* alone, like the event id that stands in for an empty key, names none.
EventsOf(c, suffix) ==
  {i \in DOMAIN events : /\ c.key # None
                         /\ events[i].source = c.source
                         /\ events[i].key = c.key
                         /\ events[i].suffix = suffix}

\* Slip: no unique index on (source_service, idempotency_key).
RecordableUnindexed(c, suffix) == ~KeyTooLong(c, suffix)

Recordable(c, suffix) == ~KeyTooLong(c, suffix) /\ EventsOf(c, suffix) = {}

\* Slip: the audit row is made from the row after its UPDATE.
RecordEventAuditLate(c, id, row, type, old, suffix, stops) ==
  /\ events' = Append(events,
       [ship |-> id, source |-> c.source, key |-> c.key, suffix |-> suffix,
        type |-> type, status |-> row.status])
  /\ audit' = Append(audit, [ship |-> id, action |-> type, old |-> row.status, new |-> row.status])
  /\ outbox' = Append(outbox,
       [ship |-> id, event |-> Len(events) + 1, status |-> row.status,
        stops |-> IF stops = NoStops THEN row.stops ELSE stops, eta |-> row.eta])

\* The payload takes remaining_stops from the event, else from the shipment;
\* its delivery window is the shipment's.
RecordEvent(c, id, row, type, old, suffix, stops) ==
  /\ events' = Append(events,
       [ship |-> id, source |-> c.source, key |-> c.key, suffix |-> suffix,
        type |-> type, status |-> row.status])
  /\ audit' = Append(audit, [ship |-> id, action |-> type, old |-> old, new |-> row.status])
  /\ outbox' = Append(outbox,
       [ship |-> id, event |-> Len(events) + 1, status |-> row.status,
        stops |-> IF stops = NoStops THEN row.stops ELSE stops, eta |-> row.eta])

\* recordEvent's errors roll the transaction back: 422 for the key's length,
\* 500 for the unique index.
RecordFails(r, suffix) ==
  \/ /\ KeyTooLong(req[r].call, suffix)
     /\ Refuse(r, "invalid_event")
  \/ /\ ~KeyTooLong(req[r].call, suffix)
     /\ EventsOf(req[r].call, suffix) # {}
     /\ Refuse(r, "internal")

-----------------------------------------------------------------------------
(***************************************************************************)
(* The start of a request: the checks made before the database is used.    *)
(***************************************************************************)
StopsRole == {"delivery_employee"} \cup FullAccessRole
EtaRole   == {"support", "delivery_employee"} \cup FullAccessRole

Permitted(c) ==
  CASE c.op = "transition" -> CanManageStatus(c.role, c.to)
    [] c.op = "stops" -> c.role \in StopsRole /\ c.stops >= 0
    [] c.op = "eta" -> c.role \in EtaRole
    [] OTHER -> TRUE

\* Every open request may still add an event.
Begin(r, c) ==
  /\ req[r].phase \in {"idle", "done"}
  /\ Len(events) + Cardinality(Busy) < MaxEvents
  /\ \/ /\ Permitted(c)
        /\ req' = [req EXCEPT ![r] =
             [IdleSlot EXCEPT !.phase = IF c.op = "cancel" THEN "peek" ELSE "lookup",
                              !.call = c, !.from = c.from, !.to = c.to]]
     \/ ~Permitted(c) /\ Answer(r, c, "forbidden", 0)
  /\ UNCHANGED tables

-----------------------------------------------------------------------------
(***************************************************************************)
(* Cancel reads the shipment outside any transaction and turns the call    *)
(* into a transition from the status it read.                              *)
(***************************************************************************)
AlreadyCancelled == {"cancelled", "return_to_sender_requested"}

Uncancellable ==
  {"delivered", "return_to_sender_prepared", "return_to_sender_in_transit",
   "return_to_sender_received"}

CancelTarget(status) ==
  IF status = "awaiting_receipt" THEN "cancelled" ELSE "return_to_sender_requested"

Peek(r) ==
  /\ At(r, "peek", {"cancel"})
  /\ LET id == req[r].call.ship IN
     \/ /\ ~(id \in DOMAIN shipments /\ ~shipments[id].isReturn)
        /\ Refuse(r, "not_found")
     \/ /\ id \in DOMAIN shipments /\ ~shipments[id].isReturn
        /\ \/ shipments[id].status \in AlreadyCancelled /\ Replay(r, id)
           \/ shipments[id].status \in Uncancellable /\ Refuse(r, "invalid_transition")
           \/ /\ shipments[id].status \notin AlreadyCancelled \cup Uncancellable
              /\ req' = [req EXCEPT ![r] =
                   [@ EXCEPT !.phase = "lookup", !.from = shipments[id].status,
                             !.to = CancelTarget(shipments[id].status)]]
              /\ UNCHANGED tables

-----------------------------------------------------------------------------
(***************************************************************************)
(* Transition, UpdateStops, UpdateETA and AddEvent look their key up among *)
(* the events, lock the shipment's row, check it, and write.               *)
(***************************************************************************)
UpdateOps == {"transition", "cancel", "stops", "eta", "note"}

Lookup(r) ==
  /\ At(r, "lookup", UpdateOps)
  /\ \/ \E i \in EventsOf(req[r].call, "") : Replay(r, events[i].ship)
     \/ /\ EventsOf(req[r].call, "") = {}
        /\ Goto(r, "lock")
        /\ UNCHANGED tables

\* Slip: SELECT without FOR UPDATE.
LockedNever(id) == FALSE

\* Slip: a request that was answered keeps its transaction open.
LockedForever(id) ==
  \E p \in Request : /\ req[p].phase \in {"write", "done"} /\ req[p].call.ship = id
                     /\ req[p].call.op \in UpdateOps

Locked(id) == \E p \in Request : req[p].phase = "write" /\ req[p].call.ship = id

\* Slip: UpdateStops does not look at the status.
AcceptableAnywhere(r, status) ==
  CASE req[r].call.op \in {"transition", "cancel"} ->
         status = req[r].from /\ CanTransitionTo(status, req[r].to)
    [] OTHER -> TRUE

\* What an operation asks of the row it locked.
Acceptable(r, status) ==
  CASE req[r].call.op \in {"transition", "cancel"} ->
         status = req[r].from /\ CanTransitionTo(status, req[r].to)
    [] req[r].call.op = "stops" -> status = "out_for_delivery"
    [] OTHER -> TRUE

\* SELECT ... FOR UPDATE waits for the transaction that holds the row.
Lock(r) ==
  /\ At(r, "lock", UpdateOps)
  /\ LET id == req[r].call.ship IN
     \/ id \notin DOMAIN shipments /\ Refuse(r, "not_found")
     \/ /\ id \in DOMAIN shipments
        /\ ~Locked(id)
        /\ \/ /\ Acceptable(r, shipments[id].status)
              /\ req' = [req EXCEPT ![r] =
                   [@ EXCEPT !.phase = "write", !.status = shipments[id].status,
                             !.version = shipments[id].version]]
              /\ UNCHANGED tables
           \/ /\ ~Acceptable(r, shipments[id].status)
              /\ Refuse(r, "invalid_transition")

\* Slip: the stops of a delivered shipment are one less than none.
AdvancedBelowZero(r, row) ==
  [row EXCEPT !.status = req[r].to, !.version = req[r].version + 1,
              !.stops = IF req[r].to = "delivered" THEN @ - 1 ELSE @,
              !.deliveredAt = @ \/ req[r].to = "delivered"]

\* The row as Transition's UPDATE leaves it, and the guard of that UPDATE.
Advanced(r, row) ==
  [row EXCEPT !.status = req[r].to, !.version = req[r].version + 1,
              !.stops = IF req[r].to = "delivered" THEN 0 ELSE @,
              !.deliveredAt = @ \/ req[r].to = "delivered"]

GuardMatches(r, row) == row.status = req[r].from /\ row.version = req[r].version

CommitTransition(r) ==
  /\ At(r, "write", {"transition", "cancel"})
  /\ LET c == req[r].call
         row == Advanced(r, shipments[c.ship])
     IN IF GuardMatches(r, shipments[c.ship])
        THEN \/ /\ Recordable(c, "")
                /\ shipments' = [shipments EXCEPT ![c.ship] = row]
                /\ RecordEvent(c, c.ship, row, "status_changed", req[r].status, "", NoStops)
                /\ Committed(r, c.ship)
             \/ RecordFails(r, "")
        ELSE Refuse(r, "invalid_transition")

\* Slip: recordEvent's error is returned, but the UPDATE is committed.
CommitStopsUnrecorded(r) ==
  /\ At(r, "write", {"stops"})
  /\ LET c == req[r].call
         row == [shipments[c.ship] EXCEPT !.stops = c.stops, !.version = req[r].version + 1]
     IN \/ /\ Recordable(c, "")
           /\ shipments' = [shipments EXCEPT ![c.ship] = row]
           /\ RecordEvent(c, c.ship, row, "stops_updated", None, "", c.stops)
           /\ Committed(r, c.ship)
        \/ /\ ~Recordable(c, "")
           /\ shipments' = [shipments EXCEPT ![c.ship] = row]
           /\ Answer(r, c, IF KeyTooLong(c, "") THEN "invalid_event" ELSE "internal", 0)
           /\ UNCHANGED <<events, audit, outbox>>

\* UpdateStops and UpdateETA write the row they locked, without a guard.
CommitStops(r) ==
  /\ At(r, "write", {"stops"})
  /\ LET c == req[r].call
         row == [shipments[c.ship] EXCEPT !.stops = c.stops, !.version = req[r].version + 1]
     IN \/ /\ Recordable(c, "")
           /\ shipments' = [shipments EXCEPT ![c.ship] = row]
           /\ RecordEvent(c, c.ship, row, "stops_updated", None, "", c.stops)
           /\ Committed(r, c.ship)
        \/ RecordFails(r, "")

\* Slip: the callback is made from the shipment before its UPDATE.
CommitEtaStaleCallback(r) ==
  /\ At(r, "write", {"eta"})
  /\ LET c == req[r].call
         row == [shipments[c.ship] EXCEPT !.eta = c.eta, !.version = req[r].version + 1]
     IN \/ /\ Recordable(c, "")
           /\ shipments' = [shipments EXCEPT ![c.ship] = row]
           /\ RecordEvent(c, c.ship, shipments[c.ship], "eta_updated", None, "", NoStops)
           /\ Committed(r, c.ship)
        \/ RecordFails(r, "")

CommitEta(r) ==
  /\ At(r, "write", {"eta"})
  /\ LET c == req[r].call
         row == [shipments[c.ship] EXCEPT !.eta = c.eta, !.version = req[r].version + 1]
     IN \/ /\ Recordable(c, "")
           /\ shipments' = [shipments EXCEPT ![c.ship] = row]
           /\ RecordEvent(c, c.ship, row, "eta_updated", None, "", NoStops)
           /\ Committed(r, c.ship)
        \/ RecordFails(r, "")

\* AddEvent leaves the shipment as it is; its stops go into the event only.
CommitNote(r) ==
  /\ At(r, "write", {"note"})
  /\ LET c == req[r].call IN
     \/ /\ Recordable(c, "")
        /\ RecordEvent(c, c.ship, shipments[c.ship], "custom", None, "", c.stops)
        /\ Committed(r, c.ship)
        /\ UNCHANGED shipments
     \/ RecordFails(r, "")

-----------------------------------------------------------------------------
(***************************************************************************)
(* Create and CreateReturn: look the key up among the shipments, insert,   *)
(* and when a unique index refuses the row, look again by key or business  *)
(* key.  Both look-ups are plain SELECTs: they read one snapshot.          *)
(***************************************************************************)
BusinessKey(isReturn, order, orig) == <<isReturn, order, orig>>

BusinessKeyOf(row) == BusinessKey(row.isReturn, row.order, row.orig)

WantedBusinessKey(c) ==
  BusinessKey(c.op = "create_return", c.order, IF c.op = "create_return" THEN c.ship ELSE 0)

\* shipmentMatchesCreate and shipmentMatchesReturn.
Matches(row, c) ==
  /\ row.isReturn = (c.op = "create_return")
  /\ row.order = c.order /\ row.body = c.body
  /\ IF row.isReturn THEN row.orig = c.ship ELSE row.handover = c.handover

SameKey(row, c) == row.source = c.source /\ row.key = c.key

\* The answer for a row found: a replay, or 409 when it says something else.
AnswerFound(r, id) ==
  \/ Matches(shipments[id], req[r].call) /\ Replay(r, id)
  \/ ~Matches(shipments[id], req[r].call) /\ Refuse(r, "conflict")

LookupCreate(r) ==
  /\ At(r, "lookup", CreateOps)
  /\ LET found == {id \in DOMAIN shipments : SameKey(shipments[id], req[r].call)} IN
     \/ \E id \in found : AnswerFound(r, id)
     \/ /\ found = {}
        /\ req' = [req EXCEPT ![r] = [@ EXCEPT !.phase = "insert", !.snap = Len(shipments)]]
        /\ UNCHANGED tables

NewRow(c) ==
  IF c.op = "create"
  THEN [isReturn |-> FALSE, orig |-> 0, order |-> c.order, body |-> c.body,
        handover |-> c.handover, source |-> c.source, key |-> c.key,
        status |-> "awaiting_receipt", version |-> 1, stops |-> NoStops,
        eta |-> c.eta, deliveredAt |-> FALSE]
  ELSE [isReturn |-> TRUE, orig |-> c.ship, order |-> c.order, body |-> c.body,
        handover |-> None, source |-> c.source, key |-> c.key,
        status |-> "return_authorized", version |-> 1, stops |-> NoStops,
        eta |-> None, deliveredAt |-> FALSE]

\* Slip: no unique index on business_key.
DuplicatesByKey(row) ==
  {id \in DOMAIN shipments :
     \/ SameKey(shipments[id], row)
     \/ row.handover # None /\ shipments[id].handover = row.handover}

\* The unique indexes of table shipments: (source_service, idempotency_key),
\* business_key, handover_code.
Duplicates(row) ==
  {id \in DOMAIN shipments :
     \/ SameKey(shipments[id], row)
     \/ BusinessKeyOf(shipments[id]) = BusinessKeyOf(row)
     \/ row.handover # None /\ shipments[id].handover = row.handover}

\* What the second look-up finds in the snapshot, lowest id first.
Rediscovered(r) ==
  {id \in 1..req[r].snap : \/ SameKey(shipments[id], req[r].call)
                           \/ BusinessKeyOf(shipments[id]) = WantedBusinessKey(req[r].call)}

Lowest(ids) == {id \in ids : \A other \in ids : id <= other}

\* CreateReturn reads the original shipment in the same snapshot.
OriginalMissing(r) ==
  /\ req[r].call.op = "create_return"
  /\ req[r].call.ship \notin 1..req[r].snap

\* Slip: recordEvent's error is returned, but the INSERT is committed.
InsertShipmentUnrecorded(r) ==
  /\ At(r, "insert", CreateOps)
  /\ LET c == req[r].call
         row == NewRow(c)
         suffix == IF c.op = "create" THEN "/handed-over" ELSE "/created"
         type == IF c.op = "create" THEN "shipment_handed_over" ELSE "return_authorized"
         old == IF c.op = "create" THEN "created" ELSE None
     IN \/ OriginalMissing(r) /\ Refuse(r, "not_found")
        \/ /\ ~OriginalMissing(r)
           /\ Duplicates(row) # {}
           /\ \/ \E id \in Lowest(Rediscovered(r)) : AnswerFound(r, id)
              \/ Rediscovered(r) = {} /\ Refuse(r, "internal")
        \/ /\ ~OriginalMissing(r)
           /\ Duplicates(row) = {}
           /\ shipments' = Append(shipments, row)
           /\ \/ /\ Recordable(c, suffix)
                 /\ RecordEvent(c, Len(shipments) + 1, row, type, old, suffix, NoStops)
                 /\ Committed(r, Len(shipments) + 1)
              \/ /\ ~Recordable(c, suffix)
                 /\ Answer(r, c, IF KeyTooLong(c, suffix) THEN "invalid_event" ELSE "internal", 0)
                 /\ UNCHANGED <<events, audit, outbox>>

InsertShipment(r) ==
  /\ At(r, "insert", CreateOps)
  /\ LET c == req[r].call
         row == NewRow(c)
         suffix == IF c.op = "create" THEN "/handed-over" ELSE "/created"
         type == IF c.op = "create" THEN "shipment_handed_over" ELSE "return_authorized"
         old == IF c.op = "create" THEN "created" ELSE None
     IN \/ OriginalMissing(r) /\ Refuse(r, "not_found")
        \/ /\ ~OriginalMissing(r)
           /\ Duplicates(row) # {}
           /\ \/ \E id \in Lowest(Rediscovered(r)) : AnswerFound(r, id)
              \/ Rediscovered(r) = {} /\ Refuse(r, "internal")
        \/ /\ ~OriginalMissing(r)
           /\ Duplicates(row) = {}
           /\ Recordable(c, suffix)
           /\ shipments' = Append(shipments, row)
           /\ RecordEvent(c, Len(shipments) + 1, row, type, old, suffix, NoStops)
           /\ Committed(r, Len(shipments) + 1)
        \/ /\ ~OriginalMissing(r)
           /\ Duplicates(row) = {}
           /\ RecordFails(r, suffix)

-----------------------------------------------------------------------------
(***************************************************************************)
(* A database call fails (a lost connection, a deadlock, a cancelled       *)
(* request context, a stopped server): the transaction is rolled back.     *)
(***************************************************************************)
Fail(r) ==
  /\ Faults
  /\ r \in Busy
  /\ Refuse(r, "internal")

\* The database at the start: empty, or one shipment an earlier run of the
\* service created and moved along a path.
SeedLast(path) == path[Len(path)]

SeedRow(path) ==
  [isReturn |-> FALSE, orig |-> 0, order |-> SeedOrder, body |-> SeedBody,
   handover |-> SeedHandover, source |-> SeedSource, key |-> SeedKey,
   status |-> SeedLast(path), version |-> Len(path),
   stops |-> IF SeedLast(path) = "delivered" THEN 0 ELSE NoStops,
   eta |-> None, deliveredAt |-> SeedLast(path) = "delivered"]

SeedType(i) == IF i = 1 THEN "shipment_handed_over" ELSE "status_changed"

Seeded(path) ==
  /\ shipments = IF path = <<>> THEN <<>> ELSE <<SeedRow(path)>>
  /\ events = [i \in DOMAIN path |->
       [ship |-> 1, source |-> SeedSource,
        key |-> IF i = 1 THEN SeedKey ELSE None,
        suffix |-> IF i = 1 THEN "/handed-over" ELSE "",
        type |-> SeedType(i), status |-> path[i]]]
  /\ audit = [i \in DOMAIN path |->
       [ship |-> 1, action |-> SeedType(i),
        old |-> IF i = 1 THEN "created" ELSE path[i - 1], new |-> path[i]]]
  /\ outbox = [i \in DOMAIN path |->
       [ship |-> 1, event |-> i, status |-> path[i],
        stops |-> IF path[i] = "delivered" THEN 0 ELSE NoStops, eta |-> None]]

Init == (\E path \in SeedPaths : Seeded(path)) /\ req = [r \in Request |-> IdleSlot]

Step(r) ==
  \/ Peek(r)
  \/ Lookup(r)
  \/ Lock(r)
  \/ CommitTransition(r)
  \/ CommitStops(r)
  \/ CommitEta(r)
  \/ CommitNote(r)
  \/ LookupCreate(r)
  \/ InsertShipment(r)

\* No request is being served, and no client calls.
Quiet == Busy = {} /\ UNCHANGED vars

Next ==
  \/ \E r \in Request :
       \/ \E c \in Calls : Begin(r, c)
       \/ Step(r)
       \/ Fail(r)
  \/ Quiet

Spec == Init /\ [][Next]_vars

(***************************************************************************)
(* A request that can take its next database step takes it; InnoDB grants  *)
(* a row lock to its waiters in turn, so a waiter for a row that is        *)
(* released again and again gets it.                                       *)
(***************************************************************************)
FairSpec == Spec /\ \A r \in Request : SF_vars(Step(r))

-----------------------------------------------------------------------------
(***************************************************************************)
(* Properties.                                                             *)
(***************************************************************************)

\* Every table holds rows of its type, and every slot is a slot.
TypeOK ==
  /\ shipments \in Seq(Row)
  /\ events \in Seq(Event)
  /\ audit \in Seq(AuditRow)
  /\ outbox \in Seq(Payload)
  /\ req \in [Request -> Slot]

\* The order of a request's steps: what it has learnt and holds in each phase.
\* A row it locked is still as it read it and is locked by it alone; a
\* transition it is about to write is allowed from that row; the snapshot of a
\* create call shows shipments that are still there.
RequestsInOrder ==
  \A r \in Request :
    /\ r \in Busy => req[r].call \in Calls
    /\ req[r].phase = "write" =>
         LET c == req[r].call IN
         /\ c.ship \in DOMAIN shipments
         /\ req[r].status = shipments[c.ship].status
         /\ req[r].version = shipments[c.ship].version
         /\ Acceptable(r, req[r].status)
         /\ \A p \in Request : req[p].phase = "write" /\ req[p].call.ship = c.ship => p = r
    /\ req[r].phase = "insert" => req[r].snap <= Len(shipments)

\* An outbound shipment only ever has outbound statuses past the handover, and
\* a return only those of a return; a return's original is an older shipment.
DirectionKept ==
  \A id \in DOMAIN shipments :
    IF shipments[id].isReturn
    THEN /\ shipments[id].status \in CustomerReturnStatus
         /\ shipments[id].orig \in 1..(id - 1)
    ELSE shipments[id].status \in ForwardStatus \cup ReturnToSenderStatus

\* delivered_at is set exactly on delivered shipments, and a delivered
\* shipment has no stops left, whatever UpdateStops raced with the delivery.
DeliveredSettled ==
  \A id \in DOMAIN shipments :
    /\ shipments[id].deliveredAt <=> shipments[id].status = "delivered"
    /\ shipments[id].status = "delivered" => shipments[id].stops = 0

\* The audit rows of a shipment that set its status.
Moves(id) ==
  {i \in DOMAIN audit :
     audit[i].ship = id
       /\ audit[i].action \in {"shipment_handed_over", "return_authorized", "status_changed"}}

\* The audit log explains every shipment: its moves start with its creation,
\* each continues where the one before it ended along an allowed transition,
\* and the last one ends in the shipment's status.  (Two requests that both
\* moved it from the same status would break the chain.)
AuditTrail ==
  \A id \in DOMAIN shipments :
    /\ \E i \in Moves(id) : audit[i].action # "status_changed"
    /\ \A i \in Moves(id) :
         /\ audit[i].action = "status_changed" => CanTransitionTo(audit[i].old, audit[i].new)
         /\ (\A j \in Moves(id) : i <= j) <=> audit[i].action # "status_changed"
         /\ (\A j \in Moves(id) : j <= i) => audit[i].new = shipments[id].status
    /\ \A i, j \in Moves(id) :
         (i < j /\ \A k \in Moves(id) : k <= i \/ j <= k) => audit[j].old = audit[i].new

\* The audit rows of a shipment that came with a new version of it.
Revisions(id) == {i \in DOMAIN audit : audit[i].ship = id /\ audit[i].action # "custom"}

\* No update is lost: a shipment's version is the number of recorded changes.
VersionCountsChanges ==
  \A id \in DOMAIN shipments : shipments[id].version = Cardinality(Revisions(id))

Latest(id) == {i \in DOMAIN outbox : /\ outbox[i].ship = id
                                     /\ \A j \in DOMAIN outbox : outbox[j].ship = id => j <= i}

\* Each event has its audit row and its callback, and the last callback queued
\* for a shipment carries its current status, delivery window and, unless
\* AddEvent stated its own, its remaining stops.
CallbacksCurrent ==
  /\ Len(audit) = Len(events) /\ Len(outbox) = Len(events)
  /\ \A i \in DOMAIN events :
       /\ audit[i].ship = events[i].ship /\ audit[i].new = events[i].status
       /\ outbox[i].event = i /\ outbox[i].ship = events[i].ship
       /\ outbox[i].status = events[i].status
  /\ \A id \in DOMAIN shipments : \E i \in Latest(id) :
       /\ outbox[i].status = shipments[id].status
       /\ outbox[i].eta = shipments[id].eta
       /\ events[i].type # "custom" => outbox[i].stops = shipments[id].stops

Succeeded(r) == req[r].phase = "done" /\ req[r].code \in {"applied", "replayed"}

\* The call's key already names an event of another shipment.
KeyTaken(c) == \E i \in EventsOf(c, "") : events[i].ship # c.ship

\* However often a client repeats a call with its key, and however the repeats
\* interleave, at most one of them is applied, and all that succeed answer with
\* one shipment.  The exception is a cancellation whose key was used for another
\* shipment: Transition answers it with that one, and Cancel, once its own
\* shipment is cancelled, with its own.
RepeatsAgree ==
  \A r, p \in Request :
    (/\ r # p /\ Succeeded(r) /\ Succeeded(p)
     /\ req[r].call = req[p].call /\ req[r].call.key # None)
    => /\ ~(req[r].code = "applied" /\ req[p].code = "applied")
       /\ \/ req[r].ship = req[p].ship
          \/ req[r].call.op = "cancel" /\ KeyTaken(req[r].call)

\* An order has one outbound shipment, and one return for each original that its
\* return calls name (CreateReturn does not compare the order with the original's);
\* a create call that succeeded answers with that shipment, holding what the call
\* said.
CreatesConverge ==
  /\ \A a, b \in DOMAIN shipments :
       BusinessKeyOf(shipments[a]) = BusinessKeyOf(shipments[b]) => a = b
  /\ \A r \in Request :
       (Succeeded(r) /\ req[r].call.op \in CreateOps) =>
         /\ req[r].ship \in DOMAIN shipments
         /\ Matches(shipments[req[r].ship], req[r].call)
         /\ BusinessKeyOf(shipments[req[r].ship]) = WantedBusinessKey(req[r].call)

\* A shipment in a terminal status keeps it, whichever requests read the
\* shipment before it got there.
TerminalFinal ==
  [][\A id \in DOMAIN shipments :
       shipments[id].status \in TerminalStatus => shipments'[id].status = shipments[id].status]_vars

\* Every request is answered.
EveryCallAnswered == \A r \in Request : r \in Busy ~> req[r].phase = "done"

\* The service keeps the promise of ShipmentLedger: a row is an entry of the
\* book, an event a line of the log.
Ledger == INSTANCE ShipmentLedger WITH
  Status  <- ShipmentStatus,
  Opening <- {"awaiting_receipt", "return_authorized"},
  Steps   <- Transitions,
  book    <- [id \in DOMAIN shipments |->
                [isReturn |-> shipments[id].isReturn, status |-> shipments[id].status,
                 version |-> shipments[id].version]],
  log     <- [i \in DOMAIN events |-> [ship |-> events[i].ship, status |-> events[i].status]]

\* Every step of every request is one atomic step of the ledger, or none: no
\* status is skipped, no version lost, no line missing or doubled, and an INSERT or
\* UPDATE whose event recordEvent refuses is not committed.
ImplementsLedger == Ledger!Spec

(***************************************************************************)
(* What the repository says of the service and the code does not do.       *)
(***************************************************************************)

\* README.md:27: creation is idempotent.  Repeating a create call, in a service
\* none of whose database calls fail, would never be answered with a 500.
RepeatedCreateReplayed ==
  \A r \in Request :
    (req[r].phase = "done" /\ req[r].call.op \in CreateOps) => req[r].code # "internal"
=============================================================================
