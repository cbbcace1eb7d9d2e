--------------------------- MODULE ShipmentsProofs ---------------------------
(***************************************************************************)
(* Proofs about Shipments, for every set of requests, calls, keys, orders  *)
(* and every bound.                                                        *)
(***************************************************************************)
EXTENDS Shipments, SequenceTheorems, TLAPS

\* A row read from a table has the type of its table.
LEMMA RowsTyped ==
  ASSUME TypeOK
  PROVE  /\ DOMAIN shipments = 1..Len(shipments) /\ Len(shipments) \in Nat
         /\ \A id \in DOMAIN shipments :
              /\ id \in Nat /\ shipments[id] \in Row
              /\ shipments[id].status \in ShipmentStatus /\ shipments[id].version \in Nat
         /\ \A i \in DOMAIN events : i \in Nat /\ events[i] \in Event /\ events[i].ship \in Nat
<1>1. \A id \in DOMAIN shipments : shipments[id] \in Row
  BY ElementOfSeq DEF TypeOK
<1>2. \A i \in DOMAIN events : events[i] \in Event
  BY ElementOfSeq DEF TypeOK
<1>3. \A id \in DOMAIN shipments :
        shipments[id].status \in ShipmentStatus /\ shipments[id].version \in Nat
  BY <1>1 DEF Row
<1>4. \A i \in DOMAIN events : events[i].ship \in Nat
  BY <1>2 DEF Event
<1> QED
  BY <1>1, <1>2, <1>3, <1>4, LenProperties DEF TypeOK

(***************************************************************************)
(* Types of the records the actions build.                                 *)
(***************************************************************************)

\* The slot of a request that was answered.
LEMMA AnswerType ==
  ASSUME NEW c \in Calls, NEW code \in Code, NEW id \in Nat
  PROVE  [IdleSlot EXCEPT !.phase = "done", !.call = c, !.code = code, !.ship = id] \in Slot
  BY DEF IdleSlot, Slot, Phase, Code

\* The slot of a request that begins.
LEMMA BeginType ==
  ASSUME NEW c \in Calls, NEW ph \in Phase
  PROVE  [IdleSlot EXCEPT !.phase = ph, !.call = c, !.from = c.from, !.to = c.to] \in Slot
  BY CallsAssumption DEF IdleSlot, Slot, Phase, Code, Call

\* Answering leaves every other slot alone.
LEMMA AnswerKeepsType ==
  ASSUME req \in [Request -> Slot], NEW r \in Request, NEW c \in Calls,
         NEW code \in Code, NEW id \in Nat, Answer(r, c, code, id)
  PROVE  req' \in [Request -> Slot]
  BY AnswerType DEF Answer

\* RecordEvent appends a well-typed row to each of its three tables.
LEMMA RecordEventType ==
  ASSUME TypeOK, NEW c \in Calls, NEW id \in Nat, NEW row \in Row, NEW type \in EventType,
         NEW old \in ShipmentStatus \cup {None}, NEW suffix \in Suffix,
         NEW stops \in Nat \cup {NoStops}, RecordEvent(c, id, row, type, old, suffix, stops)
  PROVE  events' \in Seq(Event) /\ audit' \in Seq(AuditRow) /\ outbox' \in Seq(Payload)
<1>1. c \in Call
  BY CallsAssumption
<1>2. [ship |-> id, source |-> c.source, key |-> c.key, suffix |-> suffix,
       type |-> type, status |-> row.status] \in Event
  BY <1>1 DEF Event, Call, Row
<1>3. [ship |-> id, action |-> type, old |-> old, new |-> row.status] \in AuditRow
  BY DEF AuditRow, Row
<1>4. [ship |-> id, event |-> Len(events) + 1, status |-> row.status,
       stops |-> IF stops = NoStops THEN row.stops ELSE stops, eta |-> row.eta] \in Payload
  BY DEF Payload, Row, TypeOK
<1> QED
  BY <1>2, <1>3, <1>4, AppendProperties DEF RecordEvent, TypeOK

\* The row a create call inserts.
LEMMA NewRowType ==
  ASSUME NEW c \in Calls, c.op \in CreateOps
  PROVE  NewRow(c) \in Row
<1>1. c \in Call
  BY CallsAssumption
<1>2. c.key \in Key /\ c.order \in Order /\ c.body \in Body
  BY <1>1, CallsAssumption DEF Call
<1>3. "awaiting_receipt" \in ShipmentStatus /\ "return_authorized" \in ShipmentStatus
  BY DEF ShipmentStatus, OutboundStatus, ForwardStatus, CustomerReturnStatus
<1>4. CASE c.op = "create"
  BY <1>1, <1>2, <1>3, <1>4 DEF NewRow, Row, Call
<1>5. CASE c.op # "create"
  BY <1>1, <1>2, <1>3, <1>5 DEF NewRow, Row, Call
<1> QED
  BY <1>4, <1>5

\* The transition table relates statuses.
LEMMA TransitionTypes ==
  ASSUME NEW from, NEW to, <<from, to>> \in Transitions
  PROVE  from \in ShipmentStatus /\ to \in ShipmentStatus
  BY DEF Transitions, ForwardTransitions, ReturnToSenderTransitions,
         CustomerReturnTransitions, Interruptible, Cancellable, ShipmentStatus, OutboundStatus,
         ForwardStatus, ReturnToSenderStatus, CustomerReturnStatus, PreHandoverStatus

(***************************************************************************)
(* Every step keeps the types.                                             *)
(***************************************************************************)

\* Refusals and replays touch nothing but the slot.
LEMMA RefuseType ==
  ASSUME TypeOK, NEW r \in Request, req[r].call \in Calls, NEW code \in Code,
         Refuse(r, code)
  PROVE  TypeOK'
  BY AnswerKeepsType DEF Refuse, TypeOK, tables

LEMMA ReplayType ==
  ASSUME TypeOK, NEW r \in Request, req[r].call \in Calls, NEW id \in Nat, Replay(r, id)
  PROVE  TypeOK'
  BY AnswerKeepsType DEF Replay, TypeOK, tables, Code

LEMMA RecordFailsType ==
  ASSUME TypeOK, NEW r \in Request, req[r].call \in Calls, NEW suffix, RecordFails(r, suffix)
  PROVE  TypeOK'
  BY RefuseType DEF RecordFails, Code

\* A commit of a row that has its type, with its records.
LEMMA CommitType ==
  ASSUME TypeOK, NEW r \in Request, req[r].call \in Calls, NEW id \in Nat,
         NEW row \in Row, NEW type \in EventType,
         NEW old \in ShipmentStatus \cup {None}, NEW suffix \in Suffix,
         NEW stops \in Nat \cup {NoStops},
         RecordEvent(req[r].call, id, row, type, old, suffix, stops),
         Committed(r, id), shipments' \in Seq(Row)
  PROVE  TypeOK'
<1>1. req' \in [Request -> Slot]
  BY AnswerKeepsType DEF Committed, TypeOK, Code
<1> QED
  BY <1>1, RecordEventType DEF TypeOK

LEMMA TypeStep ==
  ASSUME TypeOK, RequestsInOrder, [Next]_vars
  PROVE  TypeOK'
<1>0. ASSUME UNCHANGED vars PROVE TypeOK'
  BY <1>0 DEF vars, TypeOK
<1> SUFFICES ASSUME NEW r \in Request, (\E c \in Calls : Begin(r, c)) \/ Step(r) \/ Fail(r)
             PROVE  TypeOK'
  BY <1>0 DEF Next, Quiet
<1>1. ASSUME NEW c \in Calls, Begin(r, c) PROVE TypeOK'
  <2>1. CASE Answer(r, c, "forbidden", 0)
    BY <1>1, <2>1, AnswerKeepsType DEF Begin, TypeOK, tables, Code
  <2>2. CASE req' = [req EXCEPT ![r] =
             [IdleSlot EXCEPT !.phase = IF c.op = "cancel" THEN "peek" ELSE "lookup",
                              !.call = c, !.from = c.from, !.to = c.to]]
    BY <1>1, <2>2, BeginType DEF Begin, TypeOK, tables, Phase
  <2> QED
    BY <1>1, <2>1, <2>2 DEF Begin
<1> DEFINE c == req[r].call
<1>2. ASSUME Step(r) \/ Fail(r) PROVE c \in Calls /\ c \in Call /\ req[r] \in Slot
  <2>1. r \in Busy
    BY <1>2 DEF Busy, Step, Fail, At, Peek, Lookup, Lock, CommitTransition, CommitStops,
                CommitEta, CommitNote, LookupCreate, InsertShipment
  <2> QED
    BY <2>1, CallsAssumption DEF RequestsInOrder, TypeOK
<1>3. CASE Fail(r)
  BY <1>2, <1>3, RefuseType DEF Fail, Code
<1>4. CASE Peek(r)
  <2>1. c.ship \in Nat
    BY <1>2, <1>4 DEF Step, Call
  <2>2. CASE /\ c.ship \in DOMAIN shipments
             /\ req' = [req EXCEPT ![r] =
                   [@ EXCEPT !.phase = "lookup", !.from = shipments[c.ship].status,
                             !.to = CancelTarget(shipments[c.ship].status)]]
             /\ UNCHANGED tables
    <3>1. shipments[c.ship].status \in ShipmentStatus
      BY <2>2, RowsTyped
    <3>2. CancelTarget(shipments[c.ship].status) \in ShipmentStatus
      BY DEF CancelTarget, ShipmentStatus, OutboundStatus, ForwardStatus, ReturnToSenderStatus
    <3> QED
      BY <1>2, <1>4, <2>2, <3>1, <3>2 DEF TypeOK, Slot, Phase, tables, Step
  <2> QED
    BY <1>2, <1>4, <2>1, <2>2, RefuseType, ReplayType DEF Peek, Step, Code
<1>5. CASE Lookup(r)
  <2>1. \A i \in EventsOf(c, "") : events[i].ship \in Nat
    BY RowsTyped DEF EventsOf
  <2>2. CASE Goto(r, "lock") /\ UNCHANGED tables
    BY <1>2, <1>5, <2>2 DEF Step, Goto, TypeOK, Slot, Phase, tables
  <2>3. CASE \E i \in EventsOf(c, "") : Replay(r, events[i].ship)
    BY <1>2, <1>5, <2>1, <2>3, ReplayType DEF Step
  <2> QED
    BY <1>5, <2>2, <2>3 DEF Lookup
<1>6. CASE Lock(r)
  <2>1. CASE /\ c.ship \in DOMAIN shipments
             /\ req' = [req EXCEPT ![r] =
                   [@ EXCEPT !.phase = "write", !.status = shipments[c.ship].status,
                             !.version = shipments[c.ship].version]]
             /\ UNCHANGED tables
    <3>1. shipments[c.ship].status \in ShipmentStatus /\ shipments[c.ship].version \in Nat
      BY <2>1, RowsTyped
    <3> QED
      BY <1>2, <1>6, <2>1, <3>1 DEF TypeOK, Slot, Phase, tables, Step
  <2> QED
    BY <1>2, <1>6, <2>1, RefuseType DEF Lock, Step, Code
<1>7. CASE CommitTransition(r)
  <2>1. c.ship \in DOMAIN shipments /\ CanTransitionTo(req[r].status, req[r].to)
    BY <1>2, <1>7 DEF CommitTransition, At, RequestsInOrder, Acceptable
  <2>a. req[r].to \in ShipmentStatus /\ req[r].status \in ShipmentStatus
    BY <2>1, TransitionTypes DEF CanTransitionTo
  <2>b. shipments[c.ship] \in Row /\ req[r].version + 1 \in Nat
    BY <1>2, <1>7, <2>1, RowsTyped DEF Slot, Step
  <2>2. Advanced(r, shipments[c.ship]) \in Row
    BY <2>a, <2>b DEF Advanced, Row
  <2>3. [shipments EXCEPT ![c.ship] = Advanced(r, shipments[c.ship])] \in Seq(Row)
    BY <2>1, <2>2, ExceptSeq DEF TypeOK
  <2> QED
    BY <1>2, <1>7, <2>a, <2>1, <2>2, <2>3, CommitType, RecordFailsType, RefuseType
       DEF CommitTransition, Step, EventType, Suffix, Call, TypeOK, Code, NoStops
<1>8. CASE CommitStops(r)
  <2> DEFINE row == [shipments[c.ship] EXCEPT !.stops = c.stops, !.version = req[r].version + 1]
  <2>a. c.ship \in DOMAIN shipments
    BY <1>8 DEF CommitStops, At, RequestsInOrder
  <2>b. shipments[c.ship] \in Row /\ req[r].version + 1 \in Nat /\ c.stops \in Nat \cup {NoStops}
    BY <1>2, <1>8, <2>a, RowsTyped DEF Slot, Step, Call
  <2>1. c.ship \in DOMAIN shipments /\ row \in Row /\ c.ship \in Nat /\ c.stops \in Nat \cup {NoStops}
    BY <2>a, <2>b, RowsTyped DEF Row
  <2>2. [shipments EXCEPT ![c.ship] = row] \in Seq(Row)
    BY <2>1, ExceptSeq DEF TypeOK
  <2> QED
    BY <1>2, <1>8, <2>1, <2>2, CommitType, RecordFailsType
       DEF CommitStops, Step, EventType, Suffix
<1>9. CASE CommitEta(r)
  <2> DEFINE row == [shipments[c.ship] EXCEPT !.eta = c.eta, !.version = req[r].version + 1]
  <2>a. c.ship \in DOMAIN shipments
    BY <1>9 DEF CommitEta, At, RequestsInOrder
  <2>b. shipments[c.ship] \in Row /\ req[r].version + 1 \in Nat /\ c.eta \in Eta \cup {None}
    BY <1>2, <1>9, <2>a, RowsTyped DEF Slot, Step, Call
  <2>1. c.ship \in DOMAIN shipments /\ row \in Row /\ c.ship \in Nat
    BY <2>a, <2>b, RowsTyped DEF Row
  <2>2. [shipments EXCEPT ![c.ship] = row] \in Seq(Row)
    BY <2>1, ExceptSeq DEF TypeOK
  <2> QED
    BY <1>2, <1>9, <2>1, <2>2, CommitType, RecordFailsType
       DEF CommitEta, Step, EventType, Suffix, NoStops
<1>10. CASE CommitNote(r)
  <2>1. shipments[c.ship] \in Row /\ c.ship \in Nat /\ c.stops \in Nat \cup {NoStops}
    BY <1>2, <1>10, RowsTyped DEF CommitNote, At, RequestsInOrder, Step, Call
  <2> QED
    BY <1>2, <1>10, <2>1, CommitType, RecordFailsType
       DEF CommitNote, Step, EventType, Suffix, TypeOK
<1>11. CASE LookupCreate(r)
  <2>1. DOMAIN shipments \subseteq Nat /\ Len(shipments) \in Nat
    BY DEF TypeOK
  <2>2. CASE /\ req' = [req EXCEPT ![r] = [@ EXCEPT !.phase = "insert", !.snap = Len(shipments)]]
             /\ UNCHANGED tables
    BY <1>2, <1>11, <2>1, <2>2 DEF TypeOK, Slot, Phase, tables, Step
  <2>3. ASSUME NEW id \in DOMAIN shipments, AnswerFound(r, id) PROVE TypeOK'
    BY <1>2, <1>11, <2>1, <2>3, ReplayType, RefuseType DEF AnswerFound, Step, Code
  <2> QED
    BY <1>11, <2>2, <2>3 DEF LookupCreate
<1>12. CASE InsertShipment(r)
  <2>1. c \in Calls /\ req[r].snap \in Nat
    BY <1>2, <1>12 DEF Step, Slot
  <2>2. NewRow(c) \in Row
    BY <1>12, <2>1, NewRowType DEF InsertShipment, At
  <2>3. ASSUME NEW id \in Lowest(Rediscovered(r)), AnswerFound(r, id) PROVE TypeOK'
    <3>1. id \in Nat
      BY <2>1, <2>3 DEF Rediscovered, Lowest
    <3> QED
      BY <2>1, <2>3, <3>1, ReplayType, RefuseType DEF AnswerFound, Code
  <2>4. ASSUME NEW type \in EventType, NEW old \in ShipmentStatus \cup {None},
               NEW suffix \in Suffix,
               shipments' = Append(shipments, NewRow(c)),
               RecordEvent(c, Len(shipments) + 1, NewRow(c), type, old, suffix, NoStops),
               Committed(r, Len(shipments) + 1)
        PROVE  TypeOK'
    <3>1. shipments' \in Seq(Row) /\ Len(shipments) + 1 \in Nat
      BY <2>2, <2>4, AppendProperties DEF TypeOK
    <3> QED
      BY <2>1, <2>2, <2>4, <3>1, CommitType DEF NoStops
  <2>5. "created" \in ShipmentStatus
    BY DEF ShipmentStatus, OutboundStatus, PreHandoverStatus
  <2> QED
    BY <1>12, <2>1, <2>3, <2>4, <2>5, RefuseType, RecordFailsType
       DEF InsertShipment, Code, EventType, Suffix
<1> QED
  BY <1>1, <1>3, <1>4, <1>5, <1>6, <1>7, <1>8, <1>9, <1>10, <1>11, <1>12 DEF Step

(***************************************************************************)
(* Every step keeps the requests in order.                                 *)
(***************************************************************************)

\* A step of r that ends outside the lock, adds rows at the end at most, and
\* leaves the rows others have locked as they are.
LEMMA OrderKept ==
  ASSUME TypeOK, RequestsInOrder, NEW r \in Request, NEW s,
         req' = [req EXCEPT ![r] = s], s.phase # "write",
         s.phase \notin {"idle", "done"} => s.call \in Calls,
         s.phase = "insert" => s.snap <= Len(shipments'),
         Len(shipments') \in Nat, Len(shipments) <= Len(shipments'),
         DOMAIN shipments \subseteq DOMAIN shipments',
         \A p \in Request \ {r} : req[p].phase = "write" =>
           shipments'[req[p].call.ship] = shipments[req[p].call.ship]
  PROVE  RequestsInOrder'
<1> SUFFICES ASSUME NEW p \in Request
             PROVE  /\ (p \in Busy)' => (req[p].call \in Calls)'
                    /\ (req[p].phase = "write")' =>
                         LET c == req'[p].call IN
                         /\ (c.ship \in DOMAIN shipments')
                         /\ req'[p].status = shipments'[c.ship].status
                         /\ req'[p].version = shipments'[c.ship].version
                         /\ Acceptable(p, req[p].status)'
                         /\ \A q \in Request : (req'[q].phase = "write" /\ req'[q].call.ship = c.ship) => q = p
                    /\ (req[p].phase = "insert")' => req'[p].snap <= Len(shipments')
  BY DEF RequestsInOrder
<1>1. CASE p = r
  BY <1>1 DEF TypeOK, Busy
<1>2. CASE p # r
  <2>1. req'[p] = req[p]
    BY <1>2 DEF TypeOK
  <2>2. (p \in Busy)' => (req[p].call \in Calls)'
    BY <2>1 DEF RequestsInOrder, Busy
  <2>3. (req[p].phase = "insert")' => req'[p].snap <= Len(shipments')
    <3>1. req[p].snap \in Nat /\ Len(shipments) \in Nat
      BY RowsTyped DEF TypeOK, Slot
    <3> QED
      BY <2>1, <3>1 DEF RequestsInOrder
  <2>4. ASSUME req[p].phase = "write"
        PROVE  LET c == req[p].call IN
               /\ c.ship \in DOMAIN shipments'
               /\ req[p].status = shipments'[c.ship].status
               /\ req[p].version = shipments'[c.ship].version
               /\ \A q \in Request : (req'[q].phase = "write" /\ req'[q].call.ship = c.ship) => q = p
    BY <1>2, <2>4 DEF RequestsInOrder, TypeOK
  <2>5. ASSUME req[p].phase = "write" PROVE Acceptable(p, req[p].status)'
    BY <2>1, <2>5 DEF RequestsInOrder, Acceptable
  <2> QED
    BY <2>1, <2>2, <2>3, <2>4, <2>5
<1> QED
  BY <1>1, <1>2

\* A step of r that changes its slot alone.
LEMMA SlotInOrder ==
  ASSUME TypeOK, RequestsInOrder, NEW r \in Request, NEW s,
         req' = [req EXCEPT ![r] = s], s.phase # "write", s.call \in Calls,
         s.phase = "insert" => s.snap = Len(shipments), shipments' = shipments
  PROVE  RequestsInOrder'
<1>1. /\ Len(shipments') \in Nat /\ Len(shipments) <= Len(shipments')
      /\ s.phase = "insert" => s.snap <= Len(shipments')
  BY RowsTyped
<1> QED
  BY <1>1, OrderKept

\* Arithmetic of lengths, for the steps that append a row or none.
LEMMA LongerByOne ==
  ASSUME NEW n \in Nat, NEW m, m = n \/ m = n + 1
  PROVE  m \in Nat /\ n <= m /\ 1..n \subseteq 1..m
  OBVIOUS

\* The answer to a request, with no table changed, or with a commit to the row
\* it locked, or with a new row.
LEMMA AnswerInOrder ==
  ASSUME TypeOK, RequestsInOrder, NEW r \in Request, NEW c, NEW code, NEW id,
         Answer(r, c, code, id),
         \/ shipments' = shipments
         \/ \E row : /\ req[r].phase = "write"
                     /\ shipments' = [shipments EXCEPT ![req[r].call.ship] = row]
         \/ \E row \in Row : shipments' = Append(shipments, row)
  PROVE  RequestsInOrder'
<1> DEFINE s == [IdleSlot EXCEPT !.phase = "done", !.call = c, !.code = code, !.ship = id]
<1>1. req' = [req EXCEPT ![r] = s] /\ s.phase = "done"
  BY DEF Answer, IdleSlot
<1> HIDE DEF s
<1>2. CASE shipments' = shipments
  <2>1. Len(shipments') \in Nat /\ Len(shipments) <= Len(shipments')
    BY <1>2, RowsTyped
  <2> QED
    BY <1>1, <1>2, <2>1, OrderKept
<1>3. ASSUME NEW row, req[r].phase = "write",
             shipments' = [shipments EXCEPT ![req[r].call.ship] = row]
      PROVE  RequestsInOrder'
  <2>1. \A p \in Request \ {r} :
          req[p].phase = "write" => req[p].call.ship # req[r].call.ship /\ req[p].call.ship \in DOMAIN shipments
    BY <1>3 DEF RequestsInOrder
  <2>2. Len(shipments') = Len(shipments) /\ DOMAIN shipments' = DOMAIN shipments
    BY <1>3 DEF TypeOK
  <2>3. \A p \in Request \ {r} : req[p].phase = "write" =>
          shipments'[req[p].call.ship] = shipments[req[p].call.ship]
    BY <1>3, <2>1
  <2>4. Len(shipments') \in Nat /\ Len(shipments) <= Len(shipments')
    <3>1. Len(shipments) \in Nat
      BY RowsTyped
    <3> QED
      BY <2>2, <3>1, LongerByOne
  <2> QED
    BY <1>1, <2>2, <2>3, <2>4, OrderKept
<1>4. ASSUME NEW row \in Row, shipments' = Append(shipments, row) PROVE RequestsInOrder'
  <2>1. /\ Len(shipments') = Len(shipments) + 1
        /\ DOMAIN shipments' = 1..(Len(shipments) + 1)
        /\ \A i \in DOMAIN shipments : shipments'[i] = shipments[i]
    BY <1>4, RowsTyped, AppendProperties DEF TypeOK
  <2>2. \A p \in Request : req[p].phase = "write" => req[p].call.ship \in DOMAIN shipments
    BY DEF RequestsInOrder
  <2>3. \A p \in Request \ {r} : req[p].phase = "write" =>
          shipments'[req[p].call.ship] = shipments[req[p].call.ship]
    BY <2>1, <2>2
  <2>4. /\ Len(shipments') \in Nat /\ Len(shipments) <= Len(shipments')
        /\ DOMAIN shipments \subseteq DOMAIN shipments'
    <3>1. Len(shipments) \in Nat /\ DOMAIN shipments = 1..Len(shipments)
      BY RowsTyped
    <3> QED
      BY <2>1, <3>1, LongerByOne
  <2> QED
    BY <1>1, <2>3, <2>4, OrderKept
<1> QED
  BY <1>2, <1>3, <1>4

LEMMA OrderStep ==
  ASSUME TypeOK, RequestsInOrder, [Next]_vars
  PROVE  RequestsInOrder'
<1>0. ASSUME UNCHANGED vars PROVE RequestsInOrder'
  BY <1>0 DEF vars, RequestsInOrder, Busy, Acceptable
<1> SUFFICES ASSUME NEW r \in Request, (\E c \in Calls : Begin(r, c)) \/ Step(r) \/ Fail(r)
             PROVE  RequestsInOrder'
  BY <1>0 DEF Next, Quiet
<1> DEFINE c == req[r].call
<1>1. ASSUME NEW code, NEW id, Answer(r, c, code, id), UNCHANGED tables PROVE RequestsInOrder'
  BY <1>1, AnswerInOrder DEF tables
<1>2. ASSUME NEW d \in Calls, Begin(r, d) PROVE RequestsInOrder'
  <2>1. CASE Answer(r, d, "forbidden", 0)
    BY <1>2, <2>1, AnswerInOrder DEF Begin, tables
  <2>2. CASE ~Answer(r, d, "forbidden", 0)
    <3> DEFINE s == [IdleSlot EXCEPT !.phase = IF d.op = "cancel" THEN "peek" ELSE "lookup",
                              !.call = d, !.from = d.from, !.to = d.to]
    <3>1. req' = [req EXCEPT ![r] = s] /\ shipments' = shipments
      BY <1>2, <2>2 DEF Begin, tables
    <3>2. s.phase \in {"peek", "lookup"} /\ s.call = d
      BY DEF IdleSlot
    <3> HIDE DEF s
    <3> QED
      BY <3>1, <3>2, SlotInOrder
  <2> QED
    BY <2>1, <2>2
<1>3. ASSUME NEW code, Refuse(r, code) PROVE RequestsInOrder'
  BY <1>1, <1>3 DEF Refuse
<1>4. ASSUME NEW id, Replay(r, id) PROVE RequestsInOrder'
  BY <1>1, <1>4 DEF Replay
<1>5. ASSUME NEW suffix, RecordFails(r, suffix) PROVE RequestsInOrder'
  BY <1>3, <1>5 DEF RecordFails
<1>6. ASSUME Step(r) PROVE c \in Calls /\ r \in Busy
  <2>1. r \in Busy
    BY <1>6 DEF Busy, Step, At, Peek, Lookup, Lock, CommitTransition, CommitStops,
                CommitEta, CommitNote, LookupCreate, InsertShipment
  <2> QED
    BY <2>1 DEF RequestsInOrder
<1>7. CASE Fail(r)
  BY <1>3, <1>7 DEF Fail
<1>8. CASE Peek(r)
  <2> DEFINE s == [req[r] EXCEPT !.phase = "lookup", !.from = shipments[c.ship].status,
                             !.to = CancelTarget(shipments[c.ship].status)]
  <2>1. CASE req' = [req EXCEPT ![r] = s] /\ UNCHANGED tables
    <3>1. s.phase = "lookup" /\ s.call = c
      BY DEF TypeOK, Slot
    <3> HIDE DEF s
    <3> QED
      BY <1>6, <1>8, <2>1, <3>1, SlotInOrder DEF tables, Step
  <2> QED
    BY <1>3, <1>4, <1>8, <2>1 DEF Peek
<1>9. CASE Lookup(r)
  <2> DEFINE s == [req[r] EXCEPT !.phase = "lock"]
  <2>1. CASE Goto(r, "lock") /\ UNCHANGED tables
    <3>1. req' = [req EXCEPT ![r] = s] /\ s.phase = "lock" /\ s.call = c
      BY <2>1 DEF Goto, TypeOK, Slot
    <3> HIDE DEF s
    <3> QED
      BY <1>6, <1>9, <2>1, <3>1, SlotInOrder DEF tables, Step
  <2> QED
    BY <1>4, <1>9, <2>1 DEF Lookup
<1>10. CASE Lock(r)
  <2> DEFINE s == [req[r] EXCEPT !.phase = "write", !.status = shipments[c.ship].status,
                             !.version = shipments[c.ship].version]
  <2>1. CASE /\ c.ship \in DOMAIN shipments /\ ~Locked(c.ship)
             /\ Acceptable(r, shipments[c.ship].status)
             /\ req' = [req EXCEPT ![r] = s]
             /\ UNCHANGED tables
    <3>1. /\ req'[r].phase = "write" /\ req'[r].call = c
          /\ req'[r].status = shipments[c.ship].status
          /\ req'[r].version = shipments[c.ship].version
          /\ req'[r].from = req[r].from /\ req'[r].to = req[r].to
      BY <2>1 DEF TypeOK, Slot
    <3>2. \A p \in Request \ {r} : req'[p] = req[p]
      BY <2>1 DEF TypeOK
    <3>3. \A p \in Request \ {r} : req[p].phase = "write" => req[p].call.ship # c.ship
      BY <2>1 DEF Locked
    <3>4. shipments' = shipments
      BY <2>1 DEF tables
    <3>5. Acceptable(r, req[r].status)'
      BY <2>1, <3>1 DEF Acceptable
    <3>6. \A p \in Request \ {r} : Acceptable(p, req[p].status) => Acceptable(p, req[p].status)'
      BY <3>2 DEF Acceptable
    <3>7. c \in Calls
      BY <1>6, <1>10 DEF Step
    <3> SUFFICES ASSUME NEW p \in Request
                 PROVE  /\ (p \in Busy)' => (req[p].call \in Calls)'
                        /\ (req[p].phase = "write")' =>
                             /\ req'[p].call.ship \in DOMAIN shipments'
                             /\ req'[p].status = shipments'[req'[p].call.ship].status
                             /\ req'[p].version = shipments'[req'[p].call.ship].version
                             /\ Acceptable(p, req[p].status)'
                             /\ \A q \in Request :
                                  (req'[q].phase = "write" /\ req'[q].call.ship = req'[p].call.ship) => q = p
                        /\ (req[p].phase = "insert")' => req'[p].snap <= Len(shipments')
      BY DEF RequestsInOrder
    <3>8. CASE p = r
      BY <2>1, <3>1, <3>2, <3>3, <3>4, <3>5, <3>7, <3>8
    <3>9. CASE p # r
      <4>1. /\ (p \in Busy)' => (req[p].call \in Calls)'
            /\ (req[p].phase = "insert")' => req'[p].snap <= Len(shipments')
        BY <3>2, <3>4, <3>9 DEF RequestsInOrder, Busy
      <4>2. (req[p].phase = "write")' =>
                             /\ req'[p].call.ship \in DOMAIN shipments'
                             /\ req'[p].status = shipments'[req'[p].call.ship].status
                             /\ req'[p].version = shipments'[req'[p].call.ship].version
                             /\ Acceptable(p, req[p].status)'
        BY <3>2, <3>4, <3>6, <3>9 DEF RequestsInOrder
      <4>3. (req[p].phase = "write")' => \A q \in Request :
              (req'[q].phase = "write" /\ req'[q].call.ship = req'[p].call.ship) => q = p
        BY <3>1, <3>2, <3>3, <3>9 DEF RequestsInOrder
      <4> QED
        BY <4>1, <4>2, <4>3
    <3> QED
      BY <3>8, <3>9
  <2> QED
    BY <1>3, <1>10, <2>1 DEF Lock
<1>11. CASE CommitTransition(r)
  <2>1. CASE /\ shipments' = [shipments EXCEPT ![c.ship] = Advanced(r, shipments[c.ship])]
             /\ Committed(r, c.ship)
    BY <1>11, <2>1, AnswerInOrder DEF CommitTransition, At, Committed
  <2> QED
    BY <1>3, <1>5, <1>11, <2>1 DEF CommitTransition
<1>12. CASE CommitStops(r)
  <2>1. CASE /\ shipments' = [shipments EXCEPT ![c.ship] = [@ EXCEPT !.stops = c.stops, !.version = req[r].version + 1]]
             /\ Committed(r, c.ship)
    BY <1>12, <2>1, AnswerInOrder DEF CommitStops, At, Committed
  <2> QED
    BY <1>5, <1>12, <2>1 DEF CommitStops
<1>13. CASE CommitEta(r)
  <2>1. CASE /\ shipments' = [shipments EXCEPT ![c.ship] = [@ EXCEPT !.eta = c.eta, !.version = req[r].version + 1]]
             /\ Committed(r, c.ship)
    BY <1>13, <2>1, AnswerInOrder DEF CommitEta, At, Committed
  <2> QED
    BY <1>5, <1>13, <2>1 DEF CommitEta
<1>14. CASE CommitNote(r)
  <2>1. CASE shipments' = shipments /\ Committed(r, c.ship)
    BY <2>1, AnswerInOrder DEF Committed
  <2> QED
    BY <1>5, <1>14, <2>1 DEF CommitNote
<1>15. CASE LookupCreate(r)
  <2> DEFINE s == [req[r] EXCEPT !.phase = "insert", !.snap = Len(shipments)]
  <2>1. CASE req' = [req EXCEPT ![r] = s] /\ UNCHANGED tables
    <3>1. s.phase = "insert" /\ s.call = c /\ s.snap = Len(shipments)
      BY DEF TypeOK, Slot
    <3> HIDE DEF s
    <3> QED
      BY <1>6, <1>15, <2>1, <3>1, SlotInOrder DEF tables, Step
  <2> QED
    BY <1>3, <1>4, <1>15, <2>1 DEF LookupCreate, AnswerFound
<1>16. CASE InsertShipment(r)
  <2>1. CASE shipments' = Append(shipments, NewRow(c)) /\ Committed(r, Len(shipments) + 1)
    <3>1. NewRow(c) \in Row
      BY <1>6, <1>16, NewRowType DEF Step, InsertShipment, At
    <3> QED
      BY <2>1, <3>1, AnswerInOrder DEF Committed
  <2> QED
    BY <1>3, <1>4, <1>5, <1>16, <2>1 DEF InsertShipment, AnswerFound
<1> QED
  BY <1>2, <1>7, <1>8, <1>9, <1>10, <1>11, <1>12, <1>13, <1>14, <1>15, <1>16 DEF Step

(***************************************************************************)
(* What a step does to the tables, whichever request takes it.             *)
(***************************************************************************)
Moved(row, to) ==
  [row EXCEPT !.status = to, !.version = row.version + 1,
              !.stops = IF to = "delivered" THEN 0 ELSE @,
              !.deliveredAt = @ \/ to = "delivered"]

Restopped(row, n) == [row EXCEPT !.stops = n, !.version = row.version + 1]

Rescheduled(row, window) == [row EXCEPT !.eta = window, !.version = row.version + 1]

Logged(id, action, old, status) ==
  /\ \E e \in Event : e.ship = id /\ e.status = status /\ events' = Append(events, e)
  /\ audit' = Append(audit, [ship |-> id, action |-> action, old |-> old, new |-> status])

Opened(c) ==
  /\ c.op \in CreateOps
  /\ c.op = "create_return" => c.ship \in 1..Len(shipments)
  /\ shipments' = Append(shipments, NewRow(c))
  /\ IF c.op = "create"
     THEN Logged(Len(shipments) + 1, "shipment_handed_over", "created", NewRow(c).status)
     ELSE Logged(Len(shipments) + 1, "return_authorized", None, NewRow(c).status)

MovedTo(id, to) ==
  /\ CanTransitionTo(shipments[id].status, to)
  /\ shipments' = [shipments EXCEPT ![id] = Moved(shipments[id], to)]
  /\ Logged(id, "status_changed", shipments[id].status, to)

RestoppedTo(id, n) ==
  /\ shipments[id].status = "out_for_delivery"
  /\ shipments' = [shipments EXCEPT ![id] = Restopped(shipments[id], n)]
  /\ Logged(id, "stops_updated", None, shipments[id].status)

RescheduledTo(id, window) ==
  /\ shipments' = [shipments EXCEPT ![id] = Rescheduled(shipments[id], window)]
  /\ Logged(id, "eta_updated", None, shipments[id].status)

Noted(id) ==
  /\ shipments' = shipments
  /\ Logged(id, "custom", None, shipments[id].status)

TableStep ==
  \/ UNCHANGED <<shipments, events, audit>>
  \/ \E c \in Calls : Opened(c)
  \/ \E id \in DOMAIN shipments :
       \/ \E to \in ShipmentStatus : MovedTo(id, to)
       \/ \E n \in Nat \cup {NoStops} : RestoppedTo(id, n)
       \/ \E window \in Eta \cup {None} : RescheduledTo(id, window)
       \/ Noted(id)

\* The rows RecordEvent adds.
LEMMA RecordsLogged ==
  ASSUME NEW c \in Calls, NEW id \in Nat, NEW row, row.status \in ShipmentStatus,
         NEW type \in EventType, NEW old, NEW suffix \in Suffix, NEW stops,
         RecordEvent(c, id, row, type, old, suffix, stops)
  PROVE  Logged(id, type, old, row.status)
<1> DEFINE e == [ship |-> id, source |-> c.source, key |-> c.key, suffix |-> suffix,
                 type |-> type, status |-> row.status]
<1>1. e \in Event /\ e.ship = id /\ e.status = row.status
  BY CallsAssumption DEF Event, Call
<1>2. events' = Append(events, e)
  BY DEF RecordEvent
<1>3. audit' = Append(audit, [ship |-> id, action |-> type, old |-> old, new |-> row.status])
  BY DEF RecordEvent
<1> HIDE DEF e
<1> QED
  BY <1>1, <1>2, <1>3 DEF Logged

\* Every step of the service is one of these, on the rows as they are: what a
\* request read earlier does not show.
LEMMA EveryStepOnTables ==
  ASSUME TypeOK, RequestsInOrder, [Next]_vars
  PROVE  TableStep
<1> USE DEF TableStep
<1>0. ASSUME UNCHANGED tables PROVE TableStep
  BY <1>0 DEF tables
<1>1. ASSUME UNCHANGED vars PROVE TableStep
  BY <1>1 DEF vars
<1> SUFFICES ASSUME NEW r \in Request, (\E c \in Calls : Begin(r, c)) \/ Step(r) \/ Fail(r)
             PROVE  TableStep
  BY <1>1 DEF Next, Quiet
<1> DEFINE c == req[r].call
<1>2. ASSUME NEW code, Refuse(r, code) PROVE TableStep
  BY <1>0, <1>2 DEF Refuse
<1>3. ASSUME NEW id, Replay(r, id) PROVE TableStep
  BY <1>0, <1>3 DEF Replay
<1>4. ASSUME NEW suffix, RecordFails(r, suffix) PROVE TableStep
  BY <1>2, <1>4 DEF RecordFails
<1>5. CASE (\E d \in Calls : Begin(r, d)) \/ Fail(r) \/ Peek(r) \/ Lookup(r) \/ Lock(r) \/ LookupCreate(r)
  BY <1>0, <1>2, <1>3, <1>5 DEF Begin, Fail, Peek, Lookup, Lock, LookupCreate, AnswerFound
<1>6. ASSUME req[r].phase = "write"
      PROVE  /\ c \in Calls /\ c \in Call /\ c.ship \in DOMAIN shipments /\ c.ship \in Nat
             /\ req[r].version = shipments[c.ship].version
             /\ req[r].status = shipments[c.ship].status
             /\ shipments[c.ship] \in Row /\ shipments[c.ship].status \in ShipmentStatus
             /\ Acceptable(r, shipments[c.ship].status)
  <2>1. c \in Calls /\ c.ship \in DOMAIN shipments /\ Acceptable(r, shipments[c.ship].status)
    BY <1>6 DEF RequestsInOrder, Busy
  <2> QED
    BY <1>6, <2>1, RowsTyped, CallsAssumption DEF RequestsInOrder
<1>7. CASE CommitTransition(r)
  <2> DEFINE row == Advanced(r, shipments[c.ship])
  <2>1. req[r].phase = "write" /\ CanTransitionTo(shipments[c.ship].status, req[r].to)
    BY <1>6, <1>7 DEF CommitTransition, At, Acceptable
  <2>2. req[r].to \in ShipmentStatus
    BY <2>1, TransitionTypes DEF CanTransitionTo
  <2>3. row = Moved(shipments[c.ship], req[r].to) /\ row.status = req[r].to
    BY <1>6, <2>1 DEF Advanced, Moved, Row
  <2>4. CASE /\ shipments' = [shipments EXCEPT ![c.ship] = row]
             /\ RecordEvent(c, c.ship, row, "status_changed", req[r].status, "", NoStops)
    <3>1. Logged(c.ship, "status_changed", req[r].status, row.status)
      BY <1>6, <2>1, <2>2, <2>3, <2>4, RecordsLogged DEF EventType, Suffix
    <3>2. MovedTo(c.ship, req[r].to)
      BY <1>6, <2>1, <2>3, <2>4, <3>1 DEF MovedTo
    <3> QED
      BY <1>6, <2>1, <2>2, <3>2
  <2> QED
    BY <1>2, <1>4, <1>7, <2>4 DEF CommitTransition
<1>8. CASE CommitStops(r)
  <2> DEFINE row == [shipments[c.ship] EXCEPT !.stops = c.stops, !.version = req[r].version + 1]
  <2>1. /\ req[r].phase = "write" /\ shipments[c.ship].status = "out_for_delivery"
        /\ c.stops \in Nat \cup {NoStops}
    BY <1>6, <1>8 DEF CommitStops, At, Acceptable, Call
  <2>2. row = Restopped(shipments[c.ship], c.stops) /\ row.status = shipments[c.ship].status
    BY <1>6, <2>1 DEF Restopped, Row
  <2>3. CASE /\ shipments' = [shipments EXCEPT ![c.ship] = row]
             /\ RecordEvent(c, c.ship, row, "stops_updated", None, "", c.stops)
    <3>1. Logged(c.ship, "stops_updated", None, row.status)
      BY <1>6, <2>1, <2>2, <2>3, RecordsLogged DEF EventType, Suffix
    <3>2. RestoppedTo(c.ship, c.stops)
      BY <2>1, <2>2, <2>3, <3>1 DEF RestoppedTo
    <3> QED
      BY <1>6, <2>1, <3>2
  <2> QED
    BY <1>4, <1>8, <2>3 DEF CommitStops
<1>9. CASE CommitEta(r)
  <2> DEFINE row == [shipments[c.ship] EXCEPT !.eta = c.eta, !.version = req[r].version + 1]
  <2>1. req[r].phase = "write" /\ c.eta \in Eta \cup {None}
    BY <1>6, <1>9 DEF CommitEta, At, Call
  <2>2. row = Rescheduled(shipments[c.ship], c.eta) /\ row.status = shipments[c.ship].status
    BY <1>6, <2>1 DEF Rescheduled, Row
  <2>3. CASE /\ shipments' = [shipments EXCEPT ![c.ship] = row]
             /\ RecordEvent(c, c.ship, row, "eta_updated", None, "", NoStops)
    <3>1. Logged(c.ship, "eta_updated", None, row.status)
      BY <1>6, <2>1, <2>2, <2>3, RecordsLogged DEF EventType, Suffix
    <3>2. RescheduledTo(c.ship, c.eta)
      BY <2>2, <2>3, <3>1 DEF RescheduledTo
    <3> QED
      BY <1>6, <2>1, <3>2
  <2> QED
    BY <1>4, <1>9, <2>3 DEF CommitEta
<1>10. CASE CommitNote(r)
  <2>1. CASE /\ RecordEvent(c, c.ship, shipments[c.ship], "custom", None, "", c.stops)
             /\ UNCHANGED shipments
    <3>1. req[r].phase = "write"
      BY <1>10 DEF CommitNote, At
    <3>2. Logged(c.ship, "custom", None, shipments[c.ship].status)
      BY <1>6, <2>1, <3>1, RecordsLogged DEF EventType, Suffix
    <3> QED
      BY <1>6, <2>1, <3>1, <3>2 DEF Noted
  <2> QED
    BY <1>4, <1>10, <2>1 DEF CommitNote
<1>11. CASE InsertShipment(r)
  <2>1. /\ c \in Calls /\ c.op \in CreateOps /\ req[r].snap \in Nat
        /\ req[r].snap <= Len(shipments) /\ Len(shipments) \in Nat
    BY <1>11, RowsTyped DEF InsertShipment, At, RequestsInOrder, Busy, TypeOK, Slot
  <2>2. NewRow(c) \in Row /\ NewRow(c).status \in ShipmentStatus
    BY <2>1, NewRowType DEF Row
  <2>a. Len(shipments) + 1 \in Nat
    BY <2>1
  <2>3. CASE /\ ~OriginalMissing(r)
             /\ shipments' = Append(shipments, NewRow(c))
             /\ RecordEvent(c, Len(shipments) + 1, NewRow(c),
                            IF c.op = "create" THEN "shipment_handed_over" ELSE "return_authorized",
                            IF c.op = "create" THEN "created" ELSE None,
                            IF c.op = "create" THEN "/handed-over" ELSE "/created", NoStops)
    <3>1. c.op = "create_return" => c.ship \in 1..Len(shipments)
      BY <2>1, <2>3 DEF OriginalMissing
    <3>2. CASE c.op = "create"
      <4>1. RecordEvent(c, Len(shipments) + 1, NewRow(c), "shipment_handed_over", "created", "/handed-over", NoStops)
        BY <2>3, <3>2
      <4>2. Logged(Len(shipments) + 1, "shipment_handed_over", "created", NewRow(c).status)
        BY <2>a, <2>1, <2>2, <4>1, RecordsLogged DEF EventType, Suffix
      <4> QED
        BY <2>1, <2>3, <3>1, <3>2, <4>2 DEF Opened
    <3>3. CASE c.op # "create"
      <4>1. RecordEvent(c, Len(shipments) + 1, NewRow(c), "return_authorized", None, "/created", NoStops)
        BY <2>3, <3>3
      <4>2. Logged(Len(shipments) + 1, "return_authorized", None, NewRow(c).status)
        BY <2>a, <2>1, <2>2, <4>1, RecordsLogged DEF EventType, Suffix
      <4> QED
        BY <2>1, <2>3, <3>1, <3>3, <4>2 DEF Opened
    <3> QED
      BY <3>2, <3>3
  <2> QED
    BY <1>2, <1>3, <1>4, <1>11, <2>3 DEF InsertShipment, AnswerFound
<1> QED
  BY <1>5, <1>7, <1>8, <1>9, <1>10, <1>11 DEF Step

(***************************************************************************)
(* The inductive invariant of the rows.                                    *)
(***************************************************************************)
RowInv == DirectionKept /\ DeliveredSettled

IInv == TypeOK /\ RequestsInOrder /\ RowInv

\* One row of RowInv.
RowOK(id, row) ==
  /\ IF row.isReturn THEN row.status \in CustomerReturnStatus /\ row.orig \in 1..(id - 1)
     ELSE row.status \in ForwardStatus \cup ReturnToSenderStatus
  /\ row.deliveredAt <=> row.status = "delivered"
  /\ row.status = "delivered" => row.stops = 0

\* An allowed transition keeps a row in its direction; none leaves "delivered".
LEMMA MoveKeepsRow ==
  ASSUME NEW id \in Nat, NEW row \in Row, RowOK(id, row), NEW to \in ShipmentStatus,
         CanTransitionTo(row.status, to)
  PROVE  RowOK(id, Moved(row, to))
<1>1. row.status # "delivered"
  BY DEF CanTransitionTo, Transitions, ForwardTransitions, ReturnToSenderTransitions,
         CustomerReturnTransitions, Interruptible, Cancellable, PreHandoverStatus
<1>2. row.status \in CustomerReturnStatus => to \in CustomerReturnStatus
  BY DEF CanTransitionTo, Transitions, ForwardTransitions, ReturnToSenderTransitions,
         CustomerReturnTransitions, Interruptible, Cancellable, PreHandoverStatus,
         CustomerReturnStatus
<1>3. row.status \in ForwardStatus \cup ReturnToSenderStatus =>
        to \in ForwardStatus \cup ReturnToSenderStatus
  BY DEF CanTransitionTo, Transitions, ForwardTransitions, ReturnToSenderTransitions,
         CustomerReturnTransitions, Interruptible, Cancellable, PreHandoverStatus,
         ForwardStatus, ReturnToSenderStatus
<1>4. /\ Moved(row, to).status = to
      /\ Moved(row, to).isReturn = row.isReturn /\ Moved(row, to).orig = row.orig
      /\ Moved(row, to).deliveredAt = (row.deliveredAt \/ to = "delivered")
      /\ (to = "delivered" => Moved(row, to).stops = 0)
  BY DEF Moved, Row
<1>5. "delivered" \notin CustomerReturnStatus
  BY DEF CustomerReturnStatus
<1> QED
  BY <1>1, <1>2, <1>3, <1>4, <1>5 DEF RowOK

\* The changed rows are rows.
LEMMA ChangedRows ==
  ASSUME NEW row \in Row
  PROVE  /\ \A to \in ShipmentStatus : Moved(row, to) \in Row
         /\ \A n \in Nat \cup {NoStops} : Restopped(row, n) \in Row
         /\ \A window \in Eta \cup {None} : Rescheduled(row, window) \in Row
<1>1. row.version + 1 \in Nat /\ row.deliveredAt \in BOOLEAN /\ row.stops \in Nat \cup {NoStops}
  BY DEF Row
<1>2. ASSUME NEW to \in ShipmentStatus PROVE Moved(row, to) \in Row
  <2>1. (row.deliveredAt \/ to = "delivered") \in BOOLEAN
    OBVIOUS
  <2>2. (IF to = "delivered" THEN 0 ELSE row.stops) \in Nat \cup {NoStops}
    BY <1>1
  <2> QED
    BY <1>1, <2>1, <2>2 DEF Moved, Row
<1>3. ASSUME NEW n \in Nat \cup {NoStops} PROVE Restopped(row, n) \in Row
  BY <1>1 DEF Restopped, Row
<1>4. ASSUME NEW window \in Eta \cup {None} PROVE Rescheduled(row, window) \in Row
  BY <1>1 DEF Rescheduled, Row
<1> QED
  BY <1>2, <1>3, <1>4

LEMMA RowStep ==
  ASSUME TypeOK, RowInv, TableStep
  PROVE  RowInv'
<1>1. \A id \in DOMAIN shipments : id \in Nat /\ shipments[id] \in Row /\ RowOK(id, shipments[id])
  BY RowsTyped DEF RowInv, DirectionKept, DeliveredSettled, RowOK
<1>2. ASSUME shipments' = shipments PROVE RowInv'
  BY <1>2 DEF RowInv, DirectionKept, DeliveredSettled
<1>3. ASSUME NEW id \in DOMAIN shipments, NEW row \in Row, RowOK(id, row),
             shipments' = [shipments EXCEPT ![id] = row]
      PROVE  RowInv'
  <2>1. \A k \in DOMAIN shipments' : RowOK(k, shipments'[k])
    BY <1>1, <1>3
  <2> QED
    BY <2>1 DEF RowInv, DirectionKept, DeliveredSettled, RowOK
<1>4. ASSUME NEW c \in Calls, Opened(c) PROVE RowInv'
  <2>1. NewRow(c) \in Row
    BY <1>4, NewRowType DEF Opened
  <2>2. RowOK(Len(shipments) + 1, NewRow(c))
    <3>1. Len(shipments) \in Nat
      BY RowsTyped
    <3>2. CASE c.op = "create"
      BY <1>4, <3>2 DEF Opened, RowOK, NewRow, ForwardStatus
    <3>3. CASE c.op # "create"
      <4>1. c.op = "create_return"
        BY <1>4, <3>3 DEF Opened, CreateOps
      <4>2. c.ship \in 1..(Len(shipments) + 1 - 1)
        BY <1>4, <3>1, <4>1 DEF Opened
      <4> QED
        BY <3>3, <4>2 DEF RowOK, NewRow, CustomerReturnStatus
    <3> QED
      BY <3>2, <3>3
  <2>3. /\ DOMAIN shipments' = 1..(Len(shipments) + 1)
        /\ \A i \in 1..Len(shipments) : shipments'[i] = shipments[i]
        /\ shipments'[Len(shipments) + 1] = NewRow(c)
    BY <1>4, <2>1, AppendProperties DEF Opened, TypeOK
  <2>4. \A k \in DOMAIN shipments' : RowOK(k, shipments'[k])
    BY <1>1, <2>2, <2>3, RowsTyped
  <2> QED
    BY <2>4 DEF RowInv, DirectionKept, DeliveredSettled, RowOK
<1>5. ASSUME NEW id \in DOMAIN shipments, NEW to \in ShipmentStatus, MovedTo(id, to) PROVE RowInv'
  <2>1. Moved(shipments[id], to) \in Row
    BY <1>1, ChangedRows
  <2>2. RowOK(id, Moved(shipments[id], to))
    BY <1>1, <1>5, MoveKeepsRow DEF MovedTo
  <2> QED
    BY <1>3, <1>5, <2>1, <2>2 DEF MovedTo
<1>6. ASSUME NEW id \in DOMAIN shipments, NEW n \in Nat \cup {NoStops}, RestoppedTo(id, n) PROVE RowInv'
  <2>1. Restopped(shipments[id], n) \in Row
    BY <1>1, ChangedRows
  <2>2. RowOK(id, Restopped(shipments[id], n))
    BY <1>1, <1>6 DEF RestoppedTo, Restopped, RowOK, Row
  <2> QED
    BY <1>3, <1>6, <2>1, <2>2 DEF RestoppedTo
<1>7. ASSUME NEW id \in DOMAIN shipments, NEW window \in Eta \cup {None}, RescheduledTo(id, window)
      PROVE  RowInv'
  <2>1. Rescheduled(shipments[id], window) \in Row
    BY <1>1, ChangedRows
  <2>2. RowOK(id, Rescheduled(shipments[id], window))
    BY <1>1, <1>7 DEF Rescheduled, RowOK, Row
  <2> QED
    BY <1>3, <1>7, <2>1, <2>2 DEF RescheduledTo
<1> QED
  BY <1>2, <1>4, <1>5, <1>6, <1>7 DEF TableStep, Noted

(***************************************************************************)
(* The database at the start.                                              *)
(***************************************************************************)
LEMMA SeedTypes ==
  ASSUME NEW path \in SeedPaths
  PROVE
  /\ path \in Seq(ShipmentStatus)
  /\ \A i \in DOMAIN path : i \in Nat /\ path[i] \in ForwardStatus \cup ReturnToSenderStatus
  /\ \A i \in DOMAIN path : path[i] \in ShipmentStatus
  /\ \A i \in DOMAIN path : i # 1 => i - 1 \in DOMAIN path
  /\ path # <<>> => /\ SeedLast(path) \in ForwardStatus \cup ReturnToSenderStatus
                        /\ SeedLast(path) \in ShipmentStatus
  /\ Len(path) \in Nat
  /\ DOMAIN path = 1..Len(path)
<1> DEFINE S == ForwardStatus \cup ReturnToSenderStatus
<1>1. path \in Seq(S)
  BY SeedAssumption
<1>2. S \subseteq ShipmentStatus
  BY DEF ShipmentStatus, OutboundStatus
<1>3. Len(path) \in Nat /\ DOMAIN path = 1..Len(path) /\ path \in [1..Len(path) -> S]
  BY <1>1, LenProperties
<1> HIDE DEF S
<1>4. \A i \in DOMAIN path : i \in Nat /\ path[i] \in S
  BY <1>3
<1>5. path # <<>> => Len(path) \in DOMAIN path
  BY <1>1, <1>3, EmptySeq
<1>6. path # <<>> => SeedLast(path) \in S
  BY <1>4, <1>5 DEF SeedLast
<1>7. \A i \in DOMAIN path : i # 1 => i - 1 \in DOMAIN path
  BY <1>3
<1>8. path \in Seq(ShipmentStatus)
  BY <1>2, <1>3, SeqDef
<1> QED
  BY <1>2, <1>3, <1>4, <1>6, <1>7, <1>8 DEF S

LEMMA SeedRowOK ==
  ASSUME NEW path \in SeedPaths, path # <<>>
  PROVE  SeedRow(path) \in Row /\ RowOK(1, SeedRow(path))
<1>1. SeedRow(path) \in Row
  BY SeedTypes, SeedAssumption DEF SeedRow, Row
<1>2. RowOK(1, SeedRow(path))
  BY SeedTypes DEF SeedRow, RowOK
<1> QED
  BY <1>1, <1>2

LEMMA InitOK == Init => IInv
<1> SUFFICES ASSUME Init PROVE IInv
  OBVIOUS
<1>0. PICK path \in SeedPaths : Seeded(path)
  BY DEF Init
<1>1. shipments \in Seq(Row) /\ \A id \in DOMAIN shipments : id = 1 /\ RowOK(id, shipments[id])
  <2>1. CASE path = <<>>
    BY <1>0, <2>1 DEF Seeded
  <2>2. CASE path # <<>>
    <3> DEFINE row == SeedRow(path)
    <3>1. row \in Row /\ RowOK(1, row) /\ shipments = <<row>>
      BY <1>0, <2>2, SeedRowOK DEF Seeded
    <3> HIDE DEF row
    <3>2. <<row>> \in Seq(Row) /\ DOMAIN <<row>> = 1..1 /\ <<row>>[1] = row
      BY <3>1
    <3> QED
      BY <3>1, <3>2
  <2> QED
    BY <2>1, <2>2
<1>2. \A i \in DOMAIN path : SeedType(i) \in EventType
  BY DEF SeedType, EventType
<1>3. events \in Seq(Event)
  <2>1. \A i \in DOMAIN path : events[i] \in Event
    BY <1>0, <1>2, SeedTypes, SeedAssumption DEF Seeded, Event, Suffix
  <2>2. events \in [1..Len(path) -> Event]
    BY <1>0, <2>1, SeedTypes DEF Seeded
  <2> QED
    BY <2>2, SeedTypes, SeqDef
<1>4. audit \in Seq(AuditRow)
  <2>1. "created" \in ShipmentStatus
    BY DEF ShipmentStatus, OutboundStatus, PreHandoverStatus
  <2>2. \A i \in DOMAIN path : audit[i] \in AuditRow
    BY <1>0, <1>2, <2>1, SeedTypes DEF Seeded, AuditRow
  <2>3. audit \in [1..Len(path) -> AuditRow]
    BY <1>0, <2>2, SeedTypes DEF Seeded
  <2> QED
    BY <2>3, SeedTypes, SeqDef
<1>5. outbox \in Seq(Payload)
  <2>1. \A i \in DOMAIN path : outbox[i] \in Payload
    BY <1>0, SeedTypes DEF Seeded, Payload
  <2>2. outbox \in [1..Len(path) -> Payload]
    BY <1>0, <2>1, SeedTypes DEF Seeded
  <2> QED
    BY <2>2, SeedTypes, SeqDef
<1>6. req \in [Request -> Slot]
  BY DEF Init, IdleSlot, Slot, Phase, Code
<1>7. TypeOK
  BY <1>1, <1>3, <1>4, <1>5, <1>6 DEF TypeOK
<1>8. RequestsInOrder
  BY DEF Init, RequestsInOrder, IdleSlot, Busy
<1>9. RowInv
  BY <1>1 DEF RowInv, DirectionKept, DeliveredSettled, RowOK
<1> QED
  BY <1>7, <1>8, <1>9 DEF IInv

(***************************************************************************)
(* The invariants, for every reachable state.                              *)
(***************************************************************************)
LEMMA Inductive == Spec => []IInv
<1>1. ASSUME IInv, [Next]_vars PROVE IInv'
  BY <1>1, TypeStep, OrderStep, EveryStepOnTables, RowStep DEF IInv
<1> QED
  BY <1>1, InitOK, PTL DEF Spec

\* Every table of every reachable state holds rows of its type.
THEOREM TypeCorrect == Spec => []TypeOK
<1>1. IInv => TypeOK
  BY DEF IInv
<1> QED
  BY <1>1, Inductive, PTL

\* Whatever the requests and however they interleave, a request that is about
\* to write holds its row alone and the row is as it read it.
THEOREM OrderCorrect == Spec => []RequestsInOrder
<1>1. IInv => RequestsInOrder
  BY DEF IInv
<1> QED
  BY <1>1, Inductive, PTL

\* No request takes an outbound shipment into the statuses of a return, or a
\* return into those of an outbound shipment.
THEOREM DirectionCorrect == Spec => []DirectionKept
<1>1. IInv => DirectionKept
  BY DEF IInv, RowInv
<1> QED
  BY <1>1, Inductive, PTL

\* A delivery and an update of the remaining stops cannot undo each other.
THEOREM DeliveredCorrect == Spec => []DeliveredSettled
<1>1. IInv => DeliveredSettled
  BY DEF IInv, RowInv
<1> QED
  BY <1>1, Inductive, PTL

\* Nothing leaves a terminal status.
LEMMA TerminalHasNoNext ==
  ASSUME NEW from \in TerminalStatus, NEW to
  PROVE  ~CanTransitionTo(from, to)
BY DEF TerminalStatus, CanTransitionTo, Transitions, ForwardTransitions,
       ReturnToSenderTransitions, CustomerReturnTransitions, Interruptible, Cancellable,
       PreHandoverStatus

\* No request, however stale what it read, moves a shipment out of a terminal
\* status.
THEOREM TerminalCorrect == Spec => TerminalFinal
<1> DEFINE Kept == \A id \in DOMAIN shipments :
      shipments[id].status \in TerminalStatus => shipments'[id].status = shipments[id].status
<1>1. ASSUME IInv, [Next]_vars PROVE Kept
  <2>1. TableStep
    BY <1>1, EveryStepOnTables DEF IInv
  <2>2. \A id \in DOMAIN shipments : shipments[id] \in Row
    BY <1>1, RowsTyped DEF IInv
  <2>3. CASE shipments' = shipments
    BY <2>3
  <2>4. ASSUME NEW c \in Calls, Opened(c) PROVE Kept
    <3>1. NewRow(c) \in Row
      BY <2>4, NewRowType DEF Opened
    <3> QED
      BY <1>1, <2>4, <3>1, AppendProperties, RowsTyped DEF Opened, IInv, TypeOK
  <2>5. ASSUME NEW id \in DOMAIN shipments, NEW to \in ShipmentStatus, MovedTo(id, to) PROVE Kept
    <3>1. shipments[id].status \notin TerminalStatus
      BY <2>5, TerminalHasNoNext DEF MovedTo
    <3> QED
      BY <2>5, <3>1 DEF MovedTo
  <2>6. ASSUME NEW id \in DOMAIN shipments, NEW n \in Nat \cup {NoStops}, RestoppedTo(id, n)
        PROVE  Kept
    <3>1. Restopped(shipments[id], n).status = shipments[id].status
      BY <2>2 DEF Restopped, Row
    <3> QED
      BY <2>6, <3>1 DEF RestoppedTo
  <2>7. ASSUME NEW id \in DOMAIN shipments, NEW window \in Eta \cup {None}, RescheduledTo(id, window)
        PROVE  Kept
    <3>1. Rescheduled(shipments[id], window).status = shipments[id].status
      BY <2>2 DEF Rescheduled, Row
    <3> QED
      BY <2>7, <3>1 DEF RescheduledTo
  <2> QED
    BY <2>1, <2>3, <2>4, <2>5, <2>6, <2>7 DEF TableStep, Noted
<1>2. ASSUME IInv, [Next]_vars PROVE [Kept]_vars
  BY <1>1, <1>2
<1> QED
  BY <1>2, Inductive, PTL DEF Spec, TerminalFinal
=============================================================================
