------------------------ MODULE ShipmentsRecordsProofs ------------------------
(***************************************************************************)
(* Proofs about what Shipments records and answers, for every set of       *)
(* requests, calls, keys, orders and every bound: the service implements   *)
(* ShipmentLedger, a version counts the recorded changes, the audit log    *)
(* explains every status, creates converge, repeats agree, and the last    *)
(* callback says what the shipment is.                                     *)
(***************************************************************************)
EXTENDS ShipmentsProofs, FiniteSetTheorems

EntryOf(row) == [isReturn |-> row.isReturn, status |-> row.status, version |-> row.version]
LineOf(event) == [ship |-> event.ship, status |-> event.status]

\* The ledger's variables, as ImplementsLedger has them.
Book == [id \in DOMAIN shipments |->
           [isReturn |-> shipments[id].isReturn, status |-> shipments[id].status,
            version |-> shipments[id].version]]
Log == [i \in DOMAIN events |-> [ship |-> events[i].ship, status |-> events[i].status]]

-----------------------------------------------------------------------------
(***************************************************************************)
(* The book and the log follow the tables.                                 *)
(***************************************************************************)

\* What is appended to a sequence is appended to its image.
LEMMA AppendIndex ==
  ASSUME NEW S, NEW s \in Seq(S), NEW e \in S
  PROVE  /\ Len(s) \in Nat /\ DOMAIN s = 1 .. Len(s)
         /\ DOMAIN Append(s, e) = 1 .. (Len(s) + 1)
         /\ \A i \in 1 .. Len(s) : Append(s, e)[i] = s[i]
         /\ Append(s, e)[Len(s) + 1] = e
  BY AppendProperties, LenProperties

LEMMA BookIsSeq ==
  ASSUME TypeOK
  PROVE  Book \in Seq(Ledger!Entry) /\ Len(Book) = Len(shipments)
<1>1. \A id \in DOMAIN shipments : Book[id] \in Ledger!Entry
  BY RowsTyped DEF Book, Ledger!Entry, Row
<1>2. Book \in [1 .. Len(shipments) -> Ledger!Entry]
  BY <1>1, RowsTyped DEF Book
<1> QED
  BY <1>2, RowsTyped, SeqDef, LenProperties

LEMMA LogIsSeq ==
  ASSUME TypeOK
  PROVE  Log \in Seq(Ledger!Line) /\ Len(Log) = Len(events)
<1>0. Len(events) \in Nat /\ DOMAIN events = 1 .. Len(events)
  BY LenProperties DEF TypeOK
<1>1. \A i \in DOMAIN events : Log[i] \in Ledger!Line
  BY RowsTyped DEF Log, Ledger!Line, Event
<1>2. Log \in [1 .. Len(events) -> Ledger!Line]
  BY <1>0, <1>1 DEF Log
<1> QED
  BY <1>0, <1>2, SeqDef, LenProperties

LEMMA BookEntry ==
  ASSUME TypeOK, NEW id \in DOMAIN shipments
  PROVE  /\ id \in DOMAIN Book /\ shipments[id] \in Row
         /\ Book[id] = EntryOf(shipments[id]) /\ Book[id].status = shipments[id].status
         /\ Book[id].version = shipments[id].version
  BY RowsTyped DEF Book, EntryOf

LEMMA BookOpened ==
  ASSUME TypeOK, NEW row \in Row, shipments' = Append(shipments, row)
  PROVE  Book' = Append(Book, EntryOf(row))
<1>1. EntryOf(row) \in Ledger!Entry
  BY DEF EntryOf, Ledger!Entry, Row
<1>2. /\ Len(shipments) \in Nat /\ DOMAIN shipments = 1 .. Len(shipments)
      /\ DOMAIN shipments' = 1 .. (Len(shipments) + 1)
      /\ \A i \in 1 .. Len(shipments) : shipments'[i] = shipments[i]
      /\ shipments'[Len(shipments) + 1] = row
  BY AppendIndex DEF TypeOK
<1>a. Book \in Seq(Ledger!Entry) /\ Len(Book) = Len(shipments)
  BY BookIsSeq
<1>3. /\ DOMAIN Append(Book, EntryOf(row)) = 1 .. (Len(shipments) + 1)
      /\ \A i \in 1 .. Len(shipments) : Append(Book, EntryOf(row))[i] = Book[i]
      /\ Append(Book, EntryOf(row))[Len(shipments) + 1] = EntryOf(row)
  BY <1>1, <1>a, AppendIndex
<1>4. \A i \in 1 .. Len(shipments) : Book'[i] = Book[i]
  BY <1>2 DEF Book
<1>5. Book'[Len(shipments) + 1] = EntryOf(row)
  BY <1>2 DEF Book, EntryOf
<1>6. Append(Book, EntryOf(row)) \in Seq(Ledger!Entry) /\ Book' \in [1 .. (Len(shipments) + 1) -> Ledger!Entry]
  <2>1. \A i \in 1 .. Len(shipments) : Book[i] \in Ledger!Entry
    BY <1>2, <1>a, ElementOfSeq
  <2>2. \A i \in 1 .. (Len(shipments) + 1) : Book'[i] \in Ledger!Entry
    BY <1>1, <1>2, <1>4, <1>5, <2>1
  <2>3. Book' = [i \in 1 .. (Len(shipments) + 1) |-> Book'[i]]
    BY <1>2 DEF Book
  <2> HIDE DEF Book
  <2> QED
    BY <1>1, <1>a, <2>2, <2>3, AppendProperties
<1>7. \A i \in 1 .. (Len(shipments) + 1) : Book'[i] = Append(Book, EntryOf(row))[i]
  BY <1>2, <1>3, <1>4, <1>5
<1> QED
  BY <1>3, <1>6, <1>7, LenProperties

LEMMA BookChanged ==
  ASSUME TypeOK, NEW id \in DOMAIN shipments, NEW row \in Row,
         shipments' = [shipments EXCEPT ![id] = row]
  PROVE  Book' = [Book EXCEPT ![id] = EntryOf(row)]
  BY RowsTyped DEF Book, EntryOf

LEMMA LogWritten ==
  ASSUME TypeOK, NEW id, NEW action, NEW old, NEW status, Logged(id, action, old, status)
  PROVE  Log' = Append(Log, [ship |-> id, status |-> status]) /\ Len(Log') = Len(Log) + 1
<1>1. PICK e \in Event : e.ship = id /\ e.status = status /\ events' = Append(events, e)
  BY DEF Logged
<1>2. /\ Len(events) \in Nat /\ DOMAIN events = 1 .. Len(events)
      /\ DOMAIN events' = 1 .. (Len(events) + 1)
      /\ \A i \in 1 .. Len(events) : events'[i] = events[i]
      /\ events'[Len(events) + 1] = e
  BY <1>1, AppendIndex DEF TypeOK
<1>3. LineOf(e) \in Ledger!Line /\ LineOf(e) = [ship |-> id, status |-> status]
  BY <1>1 DEF LineOf, Ledger!Line, Event
<1>4. Append(Log, LineOf(e)) =
        [i \in 1 .. (Len(events) + 1) |-> IF i <= Len(events) THEN Log[i] ELSE LineOf(e)]
  BY <1>2, <1>3, LogIsSeq
<1>5. \A i \in 1 .. Len(events) : Log'[i] = Log[i]
  BY <1>2 DEF Log
<1>6. Log'[Len(events) + 1] = LineOf(e)
  BY <1>2 DEF Log, LineOf
<1>7. Log' = Append(Log, LineOf(e))
  BY <1>2, <1>3, <1>4, <1>5, <1>6 DEF Log
<1>8. Len(Append(Log, LineOf(e))) = Len(Log) + 1
  BY <1>3, LogIsSeq, AppendProperties
<1> QED
  BY <1>3, <1>7, <1>8
-----------------------------------------------------------------------------
(***************************************************************************)
(* The service implements the ledger.                                      *)
(***************************************************************************)

\* One seeded shipment, or none, is a ledger an earlier run may have left.
LEMMA LedgerInit == Init => Ledger!Init
<1> SUFFICES ASSUME Init PROVE Ledger!Init
  OBVIOUS
<1>0. PICK path \in SeedPaths : Seeded(path)
  BY DEF Init
<1>1. TypeOK
  BY InitOK DEF IInv
<1>2. Book \in Seq(Ledger!Entry) /\ Log \in Seq(Ledger!Line)
  BY <1>1, BookIsSeq, LogIsSeq
<1>3. ASSUME NEW id \in DOMAIN Book PROVE Ledger!Reported(id)
  <2>1. path # <<>> /\ shipments = <<SeedRow(path)>> /\ id = 1
    <3>1. path # <<>>
      <4>1. DOMAIN Book = DOMAIN shipments
        BY DEF Book
      <4>2. path = <<>> => shipments = <<>>
        BY <1>0 DEF Seeded
      <4> QED
        BY <1>3, <4>1, <4>2
    <3>2. shipments = <<SeedRow(path)>>
      BY <1>0, <3>1 DEF Seeded
    <3> QED
      BY <1>3, <3>1, <3>2 DEF Book
  <2>2. Len(path) \in DOMAIN path /\ \A j \in DOMAIN path : j <= Len(path)
    BY <2>1, SeedTypes, EmptySeq
  <2>3. shipments[id].status = path[Len(path)]
    BY <2>1 DEF SeedRow, SeedLast
  <2>4. /\ DOMAIN events = DOMAIN path
        /\ events[Len(path)].ship = 1 /\ events[Len(path)].status = path[Len(path)]
    BY <1>0, <2>2 DEF Seeded
  <2> QED
    BY <1>3, <2>1, <2>2, <2>3, <2>4 DEF Ledger!Reported, Book
<1> QED
  BY <1>2, <1>3 DEF Ledger!Init, Book, Log

\* What a step does to the tables is a step of the ledger.
LEMMA LedgerStep ==
  ASSUME TypeOK, TableStep
  PROVE  Ledger!Next \/ UNCHANGED <<Book, Log>>
<1>1. CASE UNCHANGED <<shipments, events, audit>>
  BY <1>1 DEF Book, Log
<1>2. ASSUME NEW c \in Calls, Opened(c) PROVE Ledger!Next
  <2> DEFINE row == NewRow(c)
  <2>1. /\ row \in Row /\ row.version = 1 /\ row.isReturn \in BOOLEAN
        /\ row.status \in {"awaiting_receipt", "return_authorized"}
    BY <1>2, NewRowType DEF Opened, NewRow, Row
  <2>2. Book' = Append(Book, [isReturn |-> row.isReturn, status |-> row.status, version |-> 1])
    BY <1>2, <2>1, BookOpened DEF Opened, EntryOf
  <2>3. Log' = Append(Log, [ship |-> Len(Book) + 1, status |-> row.status]) /\ Len(Log') = Len(Log) + 1
    BY <1>2, LogWritten, BookIsSeq DEF Opened
  <2> HIDE DEF row
  <2>4. Ledger!Open(row.isReturn, row.status)
    BY <2>2, <2>3 DEF Ledger!Open, Ledger!Write, Book, Log
  <2> QED
    BY <2>1, <2>3, <2>4 DEF Ledger!Next, Ledger!Change, Log
<1>3. ASSUME NEW id \in DOMAIN shipments
      PROVE  /\ id \in DOMAIN Book /\ shipments[id] \in Row
             /\ Book[id] = EntryOf(shipments[id]) /\ Book[id].status = shipments[id].status
  BY <1>3, BookEntry
<1>4. ASSUME NEW id \in DOMAIN shipments, NEW to \in ShipmentStatus, MovedTo(id, to)
      PROVE  Ledger!Next
  <2>1. Book' = [Book EXCEPT ![id] = EntryOf(Moved(shipments[id], to))]
    BY <1>3, <1>4, ChangedRows, BookChanged DEF MovedTo
  <2>2. Log' = Append(Log, [ship |-> id, status |-> to]) /\ Len(Log') = Len(Log) + 1
    BY <1>4, LogWritten DEF MovedTo
  <2>3. EntryOf(Moved(shipments[id], to)) =
          [Book[id] EXCEPT !.status = to, !.version = @ + 1]
    <3>1. shipments[id] \in Row /\ Book[id] = EntryOf(shipments[id])
      BY BookEntry
    <3>2. /\ Moved(shipments[id], to).isReturn = shipments[id].isReturn
          /\ Moved(shipments[id], to).status = to
          /\ Moved(shipments[id], to).version = shipments[id].version + 1
      BY <3>1 DEF Moved, Row
    <3> DEFINE f == [Book[id] EXCEPT !.status = to, !.version = shipments[id].version + 1]
               g == EntryOf(Moved(shipments[id], to))
    <3>3. g = [isReturn |-> shipments[id].isReturn, status |-> to,
               version |-> shipments[id].version + 1]
      BY <3>2 DEF EntryOf
    <3>4. /\ Book[id] \in [isReturn : BOOLEAN, status : ShipmentStatus, version : Nat]
          /\ Book[id].isReturn = shipments[id].isReturn
          /\ Book[id].version = shipments[id].version
      BY <3>1 DEF EntryOf, Row
    <3>5. f \in [isReturn : BOOLEAN, status : ShipmentStatus, version : Nat]
      <4>1. shipments[id].version + 1 \in Nat
        BY <3>1 DEF Row
      <4> QED
        BY <3>4, <4>1
    <3>6. g \in [isReturn : BOOLEAN, status : ShipmentStatus, version : Nat]
      BY <3>1, <3>3 DEF Row
    <3>7. f.isReturn = g.isReturn /\ f.status = g.status /\ f.version = g.version
      BY <3>3, <3>4
    <3>8. f = g
      BY <3>5, <3>6, <3>7
    <3> QED
      BY <3>4, <3>8
  <2>4. Book' = [Book EXCEPT ![id].status = to, ![id].version = @ + 1]
    BY <1>3, <2>1, <2>3 DEF EntryOf
  <2>5. <<Book[id].status, to>> \in Transitions
    BY <1>4, BookEntry DEF MovedTo, CanTransitionTo
  <2>6. Ledger!Advance(id, to)
    BY <2>2, <2>4, <2>5 DEF Ledger!Advance, Ledger!Write, Book, Log
  <2> QED
    BY <1>3, <2>2, <2>6 DEF Ledger!Next, Ledger!Change, Book, Log
<1>5. ASSUME NEW id \in DOMAIN shipments, NEW row \in Row,
             shipments' = [shipments EXCEPT ![id] = row],
             EntryOf(row) = [EntryOf(shipments[id]) EXCEPT !.version = @ + 1],
             Log' = Append(Log, [ship |-> id, status |-> shipments[id].status]),
             Len(Log') = Len(Log) + 1
      PROVE  Ledger!Next
  <2>1. Book' = [Book EXCEPT ![id] = EntryOf(row)]
    BY <1>5, BookChanged
  <2>2. Book' = [Book EXCEPT ![id].version = @ + 1]
    BY <1>3, <1>5, <2>1 DEF EntryOf
  <2>3. Book[id].status = shipments[id].status
    BY BookEntry
  <2>4. Ledger!Amend(id)
    BY <1>5, <2>2, <2>3 DEF Ledger!Amend, Ledger!Write, Book, Log
  <2> QED
    BY <1>3, <1>5, <2>4 DEF Ledger!Next, Ledger!Change, Book, Log
<1>6. ASSUME NEW id \in DOMAIN shipments, NEW n \in Nat \cup {NoStops}, RestoppedTo(id, n)
      PROVE  Ledger!Next
  <2>1. EntryOf(Restopped(shipments[id], n)) = [EntryOf(shipments[id]) EXCEPT !.version = @ + 1]
    BY <1>3 DEF Restopped, EntryOf, Row
  <2>2. /\ Log' = Append(Log, [ship |-> id, status |-> shipments[id].status])
        /\ Len(Log') = Len(Log) + 1
    BY <1>6, LogWritten DEF RestoppedTo
  <2>3. Restopped(shipments[id], n) \in Row
    BY <1>3, ChangedRows
  <2> QED
    BY <1>5, <1>6, <2>1, <2>2, <2>3 DEF RestoppedTo
<1>7. ASSUME NEW id \in DOMAIN shipments, NEW window \in Eta \cup {None}, RescheduledTo(id, window)
      PROVE  Ledger!Next
  <2>1. EntryOf(Rescheduled(shipments[id], window)) =
          [EntryOf(shipments[id]) EXCEPT !.version = @ + 1]
    BY <1>3 DEF Rescheduled, EntryOf, Row
  <2>2. /\ Log' = Append(Log, [ship |-> id, status |-> shipments[id].status])
        /\ Len(Log') = Len(Log) + 1
    BY <1>7, LogWritten DEF RescheduledTo
  <2>3. Rescheduled(shipments[id], window) \in Row
    BY <1>3, ChangedRows
  <2> QED
    BY <1>5, <1>7, <2>1, <2>2, <2>3 DEF RescheduledTo
<1>8. ASSUME NEW id \in DOMAIN shipments, Noted(id) PROVE Ledger!Next
  <2>1. /\ Log' = Append(Log, [ship |-> id, status |-> shipments[id].status])
        /\ Len(Log') = Len(Log) + 1
    BY <1>8, LogWritten DEF Noted
  <2>2. Book' = Book /\ Book[id].status = shipments[id].status
    BY <1>3, <1>8 DEF Noted, Book, EntryOf
  <2>3. Ledger!Remark(id)
    BY <2>1, <2>2 DEF Ledger!Remark, Ledger!Write, Book, Log
  <2> QED
    BY <1>3, <2>1, <2>3 DEF Ledger!Next, Ledger!Change, Book, Log
<1> QED
  BY <1>1, <1>2, <1>4, <1>6, <1>7, <1>8 DEF TableStep

\* Every request, wherever it is interleaved with others, repeated, refused or
\* cut off, is one atomic step of the ledger or none.
THEOREM LedgerImplemented == Spec => ImplementsLedger
<1>1. ASSUME IInv, [Next]_vars PROVE [Ledger!Next]_<<Book, Log>>
  BY <1>1, EveryStepOnTables, LedgerStep DEF IInv
<1> QED
  BY <1>1, LedgerInit, Inductive, PTL DEF Spec, ImplementsLedger, Ledger!Spec, Book, Log

-----------------------------------------------------------------------------
(***************************************************************************)
(* A version counts the recorded changes, and the audit log explains every *)
(* status.                                                                 *)
(***************************************************************************)

MoveActions == {"shipment_handed_over", "return_authorized", "status_changed"}

\* AuditTrail for one shipment: its moves are the rows moves of log, and its
\* status is status.
Explains(log, moves, status) ==
  /\ \E i \in moves : log[i].action # "status_changed"
  /\ \A i \in moves :
       /\ log[i].action = "status_changed" => CanTransitionTo(log[i].old, log[i].new)
       /\ (\A j \in moves : i <= j) <=> log[i].action # "status_changed"
       /\ (\A j \in moves : j <= i) => log[i].new = status
  /\ \A i, j \in moves :
       (i < j /\ \A k \in moves : k <= i \/ j <= k) => log[j].old = log[i].new

\* An audit row is about a shipment there is.
AuditRefers == \A i \in DOMAIN audit : audit[i].ship \in DOMAIN shipments

RecordInv == AuditRefers /\ VersionCountsChanges /\ AuditTrail

\* A move appended to the log of a shipment.
LEMMA MoveExplained ==
  ASSUME NEW log, NEW next, NEW moves, NEW n \in Nat, NEW status, NEW to,
         \A i \in moves : i \in Nat /\ i < n /\ next[i] = log[i],
         Explains(log, moves, status), CanTransitionTo(status, to),
         next[n].action = "status_changed", next[n].old = status, next[n].new = to
  PROVE  Explains(next, moves \cup {n}, to)
<1>1. \E i \in moves \cup {n} : next[i].action # "status_changed"
  BY DEF Explains
<1>2. ASSUME NEW i \in moves \cup {n}
      PROVE  /\ next[i].action = "status_changed" => CanTransitionTo(next[i].old, next[i].new)
             /\ (\A j \in moves \cup {n} : j <= i) => next[i].new = to
  BY <1>2 DEF Explains
<1>3. ASSUME NEW i \in moves \cup {n}
      PROVE  (\A j \in moves \cup {n} : i <= j) <=> next[i].action # "status_changed"
  <2>1. CASE i \in moves
    <3>1. (\A j \in moves \cup {n} : i <= j) <=> (\A j \in moves : i <= j)
      BY <2>1
    <3> QED
      BY <2>1, <3>1 DEF Explains
  <2>2. CASE i = n
    <3>1. PICK j \in moves : TRUE
      BY DEF Explains
    <3>2. ~ (n <= j)
      BY <3>1
    <3> QED
      BY <2>2, <3>1, <3>2
  <2> QED
    BY <1>3, <2>1, <2>2
<1>4. ASSUME NEW i \in moves \cup {n}, NEW j \in moves \cup {n},
             i < j, \A k \in moves \cup {n} : k <= i \/ j <= k
      PROVE  next[j].old = next[i].new
  <2>1. i \in moves
    BY <1>4
  <2>2. CASE j \in moves
    BY <1>4, <2>1, <2>2 DEF Explains
  <2>3. CASE j = n
    <3>1. ASSUME NEW k \in moves PROVE k <= i
      <4>1. (k <= i \/ n <= k) /\ k \in Nat /\ k < n
        BY <1>4, <2>3
      <4> QED
        BY <4>1
    <3> QED
      BY <2>1, <2>3, <3>1 DEF Explains
  <2> QED
    BY <2>2, <2>3
<1> QED
  BY <1>1, <1>2, <1>3, <1>4 DEF Explains

\* The log of a shipment that no move was appended to.
LEMMA StillExplained ==
  ASSUME NEW log, NEW next, NEW moves, NEW status,
         \A i \in moves : next[i] = log[i], Explains(log, moves, status)
  PROVE  Explains(next, moves, status)
  BY DEF Explains

\* The log of a shipment just created.
LEMMA CreationExplained ==
  ASSUME NEW next, NEW n \in Nat, NEW status,
         next[n].action # "status_changed", next[n].new = status
  PROVE  Explains(next, {n}, status)
  BY DEF Explains

\* What a change writes to the audit log, and which rows of it are whose.
LEMMA AuditWritten ==
  ASSUME TypeOK, NEW id \in Nat, NEW action \in EventType,
         NEW old \in ShipmentStatus \cup {None}, NEW status \in ShipmentStatus,
         Logged(id, action, old, status)
  PROVE  /\ Len(audit) \in Nat /\ DOMAIN audit = 1 .. Len(audit)
         /\ DOMAIN audit' = 1 .. (Len(audit) + 1)
         /\ \A i \in DOMAIN audit : audit'[i] = audit[i]
         /\ audit'[Len(audit) + 1] =
              [ship |-> id, action |-> action, old |-> old, new |-> status]
<1> DEFINE row == [ship |-> id, action |-> action, old |-> old, new |-> status]
<1>1. row \in AuditRow
  BY DEF AuditRow
<1>2. audit' = Append(audit, row) /\ audit \in Seq(AuditRow)
  BY DEF Logged, TypeOK
<1> HIDE DEF row
<1>3. /\ Len(audit) \in Nat /\ DOMAIN audit = 1 .. Len(audit)
      /\ DOMAIN audit' = 1 .. (Len(audit) + 1)
      /\ \A i \in DOMAIN audit : audit'[i] = audit[i]
      /\ audit'[Len(audit) + 1] = row
  BY <1>1, <1>2, AppendIndex
<1> QED
  BY <1>3 DEF row

LEMMA AuditOwners ==
  ASSUME TypeOK, NEW id \in Nat, NEW action \in EventType,
         NEW old \in ShipmentStatus \cup {None}, NEW status \in ShipmentStatus,
         Logged(id, action, old, status), NEW s
  PROVE  /\ Moves(s)' = IF s = id /\ action \in MoveActions
                        THEN Moves(s) \cup {Len(audit) + 1} ELSE Moves(s)
         /\ Revisions(s)' = IF s = id /\ action # "custom"
                            THEN Revisions(s) \cup {Len(audit) + 1} ELSE Revisions(s)
<1> DEFINE n == Len(audit) + 1
<1>1. /\ n \notin DOMAIN audit /\ DOMAIN audit' = DOMAIN audit \cup {n}
      /\ \A i \in DOMAIN audit : audit'[i] = audit[i]
      /\ audit'[n].ship = id /\ audit'[n].action = action
  <2>1. /\ Len(audit) \in Nat /\ DOMAIN audit = 1 .. Len(audit)
        /\ DOMAIN audit' = 1 .. (Len(audit) + 1)
        /\ \A i \in DOMAIN audit : audit'[i] = audit[i]
        /\ audit'[n] = [ship |-> id, action |-> action, old |-> old, new |-> status]
    BY AuditWritten
  <2> QED
    BY <2>1
<1> HIDE DEF n
<1>2. Moves(s)' = IF s = id /\ action \in MoveActions THEN Moves(s) \cup {n} ELSE Moves(s)
  BY <1>1 DEF Moves, MoveActions
<1>3. Revisions(s)' = IF s = id /\ action # "custom" THEN Revisions(s) \cup {n} ELSE Revisions(s)
  BY <1>1 DEF Revisions
<1> QED
  BY <1>2, <1>3 DEF n

LEMMA RevisionsFinite ==
  ASSUME TypeOK, NEW s
  PROVE  /\ IsFiniteSet(Revisions(s)) /\ Cardinality(Revisions(s)) \in Nat
         /\ Len(audit) + 1 \notin Revisions(s)
<1>1. Len(audit) \in Nat /\ DOMAIN audit = 1 .. Len(audit)
  BY LenProperties DEF TypeOK
<1>2. IsFiniteSet(1 .. Len(audit))
  BY <1>1, FS_Interval
<1>3. Revisions(s) \in SUBSET (1 .. Len(audit))
  BY <1>1 DEF Revisions
<1>4. IsFiniteSet(Revisions(s))
  BY <1>2, <1>3, FS_Subset
<1> QED
  BY <1>1, <1>3, <1>4, FS_CardinalityType

\* The audit trail of one shipment, and the rows it is made of.
LEMMA TrailExplains ==
  /\ AuditTrail <=> \A s \in DOMAIN shipments : Explains(audit, Moves(s), shipments[s].status)
  /\ \A s : \A i \in Moves(s) : i \in DOMAIN audit
  BY DEF AuditTrail, Explains, Moves

\* A change to the shipment id, logged with its move to status.
LEMMA RecordsKept ==
  ASSUME TypeOK, RecordInv, NEW id \in Nat, NEW action \in EventType,
         NEW old \in ShipmentStatus \cup {None}, NEW status \in ShipmentStatus,
         Logged(id, action, old, status),
         DOMAIN shipments \subseteq DOMAIN shipments',
         DOMAIN shipments' = DOMAIN shipments \cup {id},
         \A s \in DOMAIN shipments \ {id} : shipments'[s] = shipments[s],
         shipments'[id].status = status,
         IF id \in DOMAIN shipments
         THEN /\ action \notin {"shipment_handed_over", "return_authorized"}
              /\ action = "status_changed" =>
                   old = shipments[id].status /\ CanTransitionTo(old, status)
              /\ action # "status_changed" => status = shipments[id].status
              /\ shipments'[id].version =
                   IF action = "custom" THEN shipments[id].version
                   ELSE shipments[id].version + 1
         ELSE /\ action \in {"shipment_handed_over", "return_authorized"}
              /\ shipments'[id].version = 1
  PROVE  RecordInv'
<1> DEFINE n == Len(audit) + 1
<1>1. /\ n \in Nat /\ DOMAIN audit' = DOMAIN audit \cup {n}
      /\ \A i \in DOMAIN audit : i \in Nat /\ i < n /\ audit'[i] = audit[i]
      /\ audit'[n].ship = id /\ audit'[n].action = action
      /\ audit'[n].old = old /\ audit'[n].new = status
  <2>1. /\ Len(audit) \in Nat /\ DOMAIN audit = 1 .. Len(audit)
        /\ DOMAIN audit' = 1 .. (Len(audit) + 1)
        /\ \A i \in DOMAIN audit : audit'[i] = audit[i]
        /\ audit'[n] = [ship |-> id, action |-> action, old |-> old, new |-> status]
    BY AuditWritten
  <2> QED
    BY <2>1
<1>2. \A s : /\ Moves(s)' = IF s = id /\ action \in MoveActions THEN Moves(s) \cup {n} ELSE Moves(s)
             /\ Revisions(s)' = IF s = id /\ action # "custom"
                                THEN Revisions(s) \cup {n} ELSE Revisions(s)
  BY AuditOwners
<1>3. \A s : /\ IsFiniteSet(Revisions(s)) /\ Cardinality(Revisions(s)) \in Nat
             /\ n \notin Revisions(s)
  BY RevisionsFinite
<1> HIDE DEF n
<1>4. AuditRefers'
  BY <1>1 DEF RecordInv, AuditRefers
<1>5. ASSUME id \notin DOMAIN shipments PROVE Moves(id) = {} /\ Revisions(id) = {}
  BY <1>5 DEF RecordInv, AuditRefers, Moves, Revisions
<1>6. ASSUME NEW s \in DOMAIN shipments'
      PROVE  shipments'[s].version = Cardinality(Revisions(s)')
  <2>1. ASSUME s # id PROVE shipments'[s].version = Cardinality(Revisions(s)')
    <3>1. s \in DOMAIN shipments /\ shipments'[s] = shipments[s] /\ Revisions(s)' = Revisions(s)
      BY <1>2, <1>6, <2>1
    <3> QED
      BY <3>1 DEF RecordInv, VersionCountsChanges
  <2>2. Cardinality(Revisions(id) \cup {n}) = Cardinality(Revisions(id)) + 1
    BY <1>3, FS_AddElement
  <2>3. ASSUME id \in DOMAIN shipments PROVE shipments'[id].version = Cardinality(Revisions(id)')
    <3>1. shipments[id].version = Cardinality(Revisions(id))
      BY <2>3 DEF RecordInv, VersionCountsChanges
    <3>2. CASE action = "custom"
      BY <1>2, <2>3, <3>1, <3>2
    <3>3. CASE action # "custom"
      <4>1. Revisions(id)' = Revisions(id) \cup {n}
        BY <1>2, <3>3
      <4> QED
        BY <2>2, <2>3, <3>1, <3>3, <4>1
    <3> QED
      BY <3>2, <3>3
  <2>4. ASSUME id \notin DOMAIN shipments PROVE shipments'[id].version = Cardinality(Revisions(id)')
    <3>1. Cardinality(Revisions(id)) = 0
      BY <1>5, <2>4, FS_EmptySet
    <3>2. action # "custom"
      BY <2>4
    <3>3. Revisions(id)' = Revisions(id) \cup {n}
      BY <1>2, <3>2
    <3> QED
      BY <2>2, <2>4, <3>1, <3>3
  <2> QED
    BY <2>1, <2>3, <2>4
<1>7. VersionCountsChanges'
  BY <1>6 DEF VersionCountsChanges
<1>8. \A s : \A i \in Moves(s) : i \in Nat /\ i < n /\ audit'[i] = audit[i]
  BY <1>1, TrailExplains
<1>9. ASSUME NEW s \in DOMAIN shipments'
      PROVE  Explains(audit', Moves(s)', shipments'[s].status)
  <2>1. ASSUME s \in DOMAIN shipments, shipments'[s].status = shipments[s].status, Moves(s)' = Moves(s)
        PROVE  Explains(audit', Moves(s)', shipments'[s].status)
    <3>1. Explains(audit, Moves(s), shipments[s].status)
      BY <2>1, TrailExplains DEF RecordInv
    <3>2. Explains(audit', Moves(s), shipments[s].status)
      BY <1>8, <3>1, StillExplained
    <3> QED
      BY <2>1, <3>2
  <2>2. CASE s # id
    BY <1>2, <1>9, <2>1, <2>2
  <2>3. CASE s = id /\ id \in DOMAIN shipments /\ action # "status_changed"
    <3>1. action \notin MoveActions /\ shipments'[id].status = shipments[id].status
      BY <2>3 DEF MoveActions
    <3> QED
      BY <1>2, <2>1, <2>3, <3>1
  <2>4. CASE s = id /\ id \in DOMAIN shipments /\ action = "status_changed"
    <3>1. /\ Explains(audit, Moves(id), shipments[id].status)
          /\ CanTransitionTo(shipments[id].status, status) /\ old = shipments[id].status
      BY <2>4, TrailExplains DEF RecordInv
    <3>2. Moves(id)' = Moves(id) \cup {n}
      BY <1>2, <2>4 DEF MoveActions
    <3>3. Explains(audit', Moves(id) \cup {n}, status)
      BY <1>1, <1>8, <2>4, <3>1, MoveExplained
    <3> QED
      BY <2>4, <3>2, <3>3
  <2>5. CASE s = id /\ id \notin DOMAIN shipments
    <3>1. action \in MoveActions /\ action # "status_changed"
      BY <2>5 DEF MoveActions
    <3>2. Moves(id)' = {n}
      BY <1>2, <1>5, <2>5, <3>1
    <3>3. Explains(audit', {n}, status)
      BY <1>1, <3>1, CreationExplained
    <3> QED
      BY <2>5, <3>2, <3>3
  <2> QED
    BY <2>2, <2>3, <2>4, <2>5
<1>10. AuditTrail'
  BY <1>9 DEF AuditTrail, Explains
<1> QED
  BY <1>4, <1>7, <1>10 DEF RecordInv

\* A logged change of the row id.
LEMMA RowRecorded ==
  ASSUME TypeOK, RecordInv, NEW id \in DOMAIN shipments, NEW row \in Row,
         shipments' = [shipments EXCEPT ![id] = row],
         NEW action \in {"status_changed", "stops_updated", "eta_updated", "custom"},
         NEW old \in ShipmentStatus \cup {None}, Logged(id, action, old, row.status),
         action = "status_changed" =>
           old = shipments[id].status /\ CanTransitionTo(old, row.status),
         action # "status_changed" => row.status = shipments[id].status,
         row.version = IF action = "custom" THEN shipments[id].version
                       ELSE shipments[id].version + 1
  PROVE  RecordInv'
<1>1. id \in Nat /\ row.status \in ShipmentStatus /\ action \in EventType
  BY RowsTyped DEF Row, EventType
<1>2. /\ DOMAIN shipments' = DOMAIN shipments /\ shipments'[id] = row
      /\ \A s \in DOMAIN shipments \ {id} : shipments'[s] = shipments[s]
  OBVIOUS
<1> QED
  BY <1>1, <1>2, RecordsKept

LEMMA RecordStep ==
  ASSUME TypeOK, RecordInv, TableStep
  PROVE  RecordInv'
<1>1. CASE UNCHANGED <<shipments, events, audit>>
  BY <1>1 DEF RecordInv, AuditRefers, VersionCountsChanges, Revisions, AuditTrail, Moves
<1>2. ASSUME NEW c \in Calls, Opened(c) PROVE RecordInv'
  <2> DEFINE id == Len(shipments) + 1
             row == NewRow(c)
  <2>1. row \in Row /\ row.status \in ShipmentStatus /\ row.version = 1
    BY <1>2, NewRowType DEF Opened, NewRow, Row
  <2>2. PICK action \in {"shipment_handed_over", "return_authorized"},
             old \in ShipmentStatus \cup {None} : Logged(id, action, old, row.status)
    <3>1. "created" \in ShipmentStatus
      BY DEF ShipmentStatus, OutboundStatus, PreHandoverStatus
    <3> QED
      BY <1>2, <3>1 DEF Opened
  <2>3. shipments' = Append(shipments, row) /\ shipments \in Seq(Row)
    BY <1>2 DEF Opened, TypeOK
  <2> HIDE DEF row
  <2>4. /\ Len(shipments) \in Nat /\ DOMAIN shipments = 1 .. Len(shipments)
        /\ DOMAIN shipments' = 1 .. (Len(shipments) + 1)
        /\ \A i \in 1 .. Len(shipments) : shipments'[i] = shipments[i]
        /\ shipments'[Len(shipments) + 1] = row
    BY <2>1, <2>3, AppendIndex
  <2>5. /\ id \in Nat /\ id \notin DOMAIN shipments
        /\ DOMAIN shipments' = DOMAIN shipments \cup {id} /\ shipments'[id] = row
        /\ \A s \in DOMAIN shipments \ {id} : shipments'[s] = shipments[s]
    BY <2>4
  <2>6. action \in EventType
    BY DEF EventType
  <2> HIDE DEF id
  <2> QED
    BY <2>1, <2>2, <2>5, <2>6, RecordsKept
<1>3. ASSUME NEW id \in DOMAIN shipments
      PROVE  shipments[id] \in Row /\ shipments[id].status \in ShipmentStatus
  BY RowsTyped
<1>4. ASSUME NEW id \in DOMAIN shipments, NEW to \in ShipmentStatus, MovedTo(id, to)
      PROVE  RecordInv'
  <2> DEFINE row == Moved(shipments[id], to)
  <2>1. row \in Row /\ row.status = to /\ row.version = shipments[id].version + 1
    <3>1. row.status = to /\ row.version = shipments[id].version + 1
      BY <1>3 DEF Moved, Row
    <3> QED
      BY <1>3, <3>1, ChangedRows
  <2>2. /\ shipments' = [shipments EXCEPT ![id] = row]
        /\ Logged(id, "status_changed", shipments[id].status, to)
        /\ CanTransitionTo(shipments[id].status, to)
    BY <1>4 DEF MovedTo
  <2> HIDE DEF row
  <2> QED
    BY <1>3, <2>1, <2>2, RowRecorded
<1>5. ASSUME NEW id \in DOMAIN shipments, NEW n \in Nat \cup {NoStops}, RestoppedTo(id, n)
      PROVE  RecordInv'
  <2> DEFINE row == Restopped(shipments[id], n)
  <2>1. row \in Row /\ row.status = shipments[id].status /\ row.version = shipments[id].version + 1
    <3>1. row.status = shipments[id].status /\ row.version = shipments[id].version + 1
      BY <1>3 DEF Restopped, Row
    <3> QED
      BY <1>3, <3>1, ChangedRows
  <2>2. /\ shipments' = [shipments EXCEPT ![id] = row]
        /\ Logged(id, "stops_updated", None, row.status)
    BY <1>5, <2>1 DEF RestoppedTo
  <2> HIDE DEF row
  <2> QED
    BY <2>1, <2>2, RowRecorded
<1>6. ASSUME NEW id \in DOMAIN shipments, NEW window \in Eta \cup {None}, RescheduledTo(id, window)
      PROVE  RecordInv'
  <2> DEFINE row == Rescheduled(shipments[id], window)
  <2>1. row \in Row /\ row.status = shipments[id].status /\ row.version = shipments[id].version + 1
    <3>1. row.status = shipments[id].status /\ row.version = shipments[id].version + 1
      BY <1>3 DEF Rescheduled, Row
    <3> QED
      BY <1>3, <3>1, ChangedRows
  <2>2. /\ shipments' = [shipments EXCEPT ![id] = row]
        /\ Logged(id, "eta_updated", None, row.status)
    BY <1>6, <2>1 DEF RescheduledTo
  <2> HIDE DEF row
  <2> QED
    BY <2>1, <2>2, RowRecorded
<1>7. ASSUME NEW id \in DOMAIN shipments, Noted(id) PROVE RecordInv'
  <2>1. shipments' = [shipments EXCEPT ![id] = shipments[id]]
    BY <1>7, RowsTyped DEF Noted, TypeOK
  <2> QED
    BY <1>3, <1>7, <2>1, RowRecorded DEF Noted
<1> QED
  BY <1>1, <1>2, <1>4, <1>5, <1>6, <1>7 DEF TableStep

\* One seeded shipment, or none, has the records of its path.
LEMMA RecordInit == Init => RecordInv
<1> SUFFICES ASSUME Init PROVE RecordInv
  OBVIOUS
<1>1. PICK path \in SeedPaths : Seeded(path)
  BY DEF Init
<1>2. CASE path = <<>>
  <2>1. DOMAIN shipments = {} /\ DOMAIN audit = {}
    BY <1>1, <1>2 DEF Seeded
  <2> QED
    BY <2>1 DEF RecordInv, AuditRefers, VersionCountsChanges, AuditTrail
<1>3. CASE path # <<>>
  <2>1. /\ DOMAIN shipments = {1} /\ shipments[1].version = Len(path)
        /\ shipments[1].status = path[Len(path)]
    <3> DEFINE row == SeedRow(path)
    <3>1. shipments = <<row>> /\ row.version = Len(path) /\ row.status = path[Len(path)]
      BY <1>1, <1>3 DEF Seeded, SeedRow, SeedLast
    <3> HIDE DEF row
    <3> QED
      BY <3>1
  <2>2. /\ Len(path) \in Nat /\ Len(path) >= 1 /\ DOMAIN path = 1 .. Len(path)
        /\ \A i \in 1 .. (Len(path) - 1) : CanTransitionTo(path[i], path[i + 1])
    BY <1>3, SeedTypes, SeedAssumption, EmptySeq
  <2>3. /\ DOMAIN audit = 1 .. Len(path)
        /\ \A i \in 1 .. Len(path) :
             /\ audit[i].ship = 1 /\ audit[i].new = path[i]
             /\ audit[i].action = IF i = 1 THEN "shipment_handed_over" ELSE "status_changed"
             /\ i # 1 => audit[i].old = path[i - 1]
    BY <1>1, <2>2 DEF Seeded, SeedType
  <2>4. Moves(1) = 1 .. Len(path) /\ Revisions(1) = 1 .. Len(path)
    BY <2>3 DEF Moves, Revisions
  <2>5. VersionCountsChanges
    <3>1. Cardinality(1 .. Len(path)) = Len(path)
      BY <2>2, FS_Interval
    <3> QED
      BY <2>1, <2>4, <3>1 DEF VersionCountsChanges
  <2>6. Explains(audit, 1 .. Len(path), path[Len(path)])
    <3>1. \E i \in 1 .. Len(path) : audit[i].action # "status_changed"
      BY <2>2, <2>3
    <3>2. ASSUME NEW i \in 1 .. Len(path)
          PROVE  /\ audit[i].action = "status_changed" => CanTransitionTo(audit[i].old, audit[i].new)
                 /\ (\A j \in 1 .. Len(path) : i <= j) <=> audit[i].action # "status_changed"
                 /\ (\A j \in 1 .. Len(path) : j <= i) => audit[i].new = path[Len(path)]
      <4>1. audit[i].action = "status_changed" <=> i # 1
        BY <2>3
      <4>2. ASSUME i # 1 PROVE CanTransitionTo(audit[i].old, audit[i].new)
        <5>1. i - 1 \in 1 .. (Len(path) - 1) /\ (i - 1) + 1 = i
          BY <2>2, <4>2
        <5>2. CanTransitionTo(path[i - 1], path[(i - 1) + 1])
          BY <2>2, <5>1
        <5> QED
          BY <2>3, <4>2, <5>1, <5>2
      <4>3. (\A j \in 1 .. Len(path) : i <= j) <=> i = 1
        BY <2>2
      <4>4. (\A j \in 1 .. Len(path) : j <= i) => i = Len(path)
        <5> DEFINE last == Len(path)
        <5>1. last \in Nat /\ i \in Nat /\ i <= last /\ last \in 1 .. last
          BY <2>2
        <5> HIDE DEF last
        <5>2. last <= i => i = last
          BY <5>1
        <5>3. (\A j \in 1 .. last : j <= i) => i = last
          BY <5>1, <5>2
        <5> QED
          BY <5>3 DEF last
      <4> QED
        BY <2>3, <4>1, <4>2, <4>3, <4>4
    <3>3. ASSUME NEW i \in 1 .. Len(path), NEW j \in 1 .. Len(path),
                 i < j, \A k \in 1 .. Len(path) : k <= i \/ j <= k
          PROVE  audit[j].old = audit[i].new
      <4>1. i + 1 \in 1 .. Len(path)
        BY <2>2, <3>3
      <4>2. j = i + 1
        BY <2>2, <3>3, <4>1
      <4>3. j # 1 /\ j - 1 = i
        BY <2>2, <4>2
      <4> QED
        BY <2>3, <4>3
    <3> QED
      BY <3>1, <3>2, <3>3 DEF Explains
  <2>7. AuditTrail
    BY <2>1, <2>4, <2>6, TrailExplains
  <2> QED
    BY <2>1, <2>3, <2>5, <2>7 DEF RecordInv, AuditRefers
<1> QED
  BY <1>2, <1>3

LEMMA RecordsHold == Spec => []RecordInv
<1>1. ASSUME IInv, RecordInv, [Next]_vars PROVE RecordInv'
  BY <1>1, EveryStepOnTables, RecordStep DEF IInv
<1> QED
  BY <1>1, RecordInit, Inductive, PTL DEF Spec

\* No update is lost, whatever requests race: a shipment's version is the number
\* of changes the audit log records of it.
THEOREM NoUpdateLost == Spec => []VersionCountsChanges
<1>1. RecordInv => VersionCountsChanges
  BY DEF RecordInv
<1> QED
  BY <1>1, RecordsHold, PTL

\* The audit log explains every status: each move it records continues the one
\* before it, from the creation to the status the row has.
THEOREM AuditExplainsStatus == Spec => []AuditTrail
<1>1. RecordInv => AuditTrail
  BY DEF RecordInv
<1> QED
  BY <1>1, RecordsHold, PTL
-----------------------------------------------------------------------------
(***************************************************************************)
(* What a step does to the request that takes it, and to the tables.       *)
(***************************************************************************)

\* A row keeps what its creation said.
SameOrigin(row, old) ==
  /\ row.isReturn = old.isReturn /\ row.orig = old.orig
  /\ row.order = old.order /\ row.body = old.body /\ row.handover = old.handover
  /\ row.source = old.source /\ row.key = old.key

Refusal == {"not_found", "conflict", "invalid_transition", "forbidden", "invalid_event", "internal"}

GoesOn(r) ==
  /\ \E s \in Slot : s.phase \notin {"idle", "done"} /\ req' = [req EXCEPT ![r] = s]
  /\ UNCHANGED tables

TurnedDown(r) ==
  /\ \E c \in Calls, code \in Refusal : Answer(r, c, code, 0)
  /\ UNCHANGED tables

\* Why a call may be answered as one that was already applied to shipment id.
Known(c, id) ==
  \/ c.op \in CreateOps /\ id \in DOMAIN shipments /\ Matches(shipments[id], c)
  \/ c.op = "cancel" /\ id = c.ship
  \/ c.op \in UpdateOps /\ \E i \in EventsOf(c, "") : events[i].ship = id

Replays(r) ==
  /\ req[r].call \in Calls
  /\ \E id \in Nat : Replay(r, id) /\ Known(req[r].call, id)

Inserts(c, id, row, type, suffix, stops) ==
  /\ c.op \in CreateOps
  /\ id = Len(shipments) + 1 /\ row = NewRow(c) /\ Duplicates(row) = {}
  /\ shipments' = Append(shipments, row)
  /\ type # "custom" /\ stops = NoStops

Updates(c, id, row, type, suffix, stops) ==
  /\ c.op \in UpdateOps
  /\ id = c.ship /\ id \in DOMAIN shipments /\ SameOrigin(row, shipments[id])
  /\ shipments' = [shipments EXCEPT ![id] = row]
  /\ suffix = "" /\ (type = "custom" \/ stops \in {NoStops, row.stops})

Written(r, c, id, row, type, old, suffix, stops) ==
  /\ Recordable(c, suffix) /\ RecordEvent(c, id, row, type, old, suffix, stops)
  /\ Committed(r, id)
  /\ Inserts(c, id, row, type, suffix, stops) \/ Updates(c, id, row, type, suffix, stops)

Writes(r) ==
  /\ req[r].call \in Calls
  /\ \E id \in Nat, row \in Row, type \in EventType, old \in ShipmentStatus \cup {None},
        suffix \in Suffix, stops \in Nat \cup {NoStops} :
       Written(r, req[r].call, id, row, type, old, suffix, stops)

\* A step of r goes on, answers without a change, or commits one change and
\* answers.
LEMMA Outcomes ==
  ASSUME TypeOK, RequestsInOrder, TypeOK', NEW r \in Request,
         (\E c \in Calls : Begin(r, c)) \/ Step(r) \/ Fail(r)
  PROVE  GoesOn(r) \/ TurnedDown(r) \/ Replays(r) \/ Writes(r)
<1> DEFINE c == req[r].call
<1>1. ASSUME NEW s, req' = [req EXCEPT ![r] = s], s.phase \notin {"idle", "done"},
             UNCHANGED tables
      PROVE  GoesOn(r)
  <2>1. s \in Slot
    BY <1>1 DEF TypeOK
  <2> QED
    BY <1>1, <2>1 DEF GoesOn
<1>2. ASSUME NEW d \in Calls, NEW code \in Refusal, Answer(r, d, code, 0), UNCHANGED tables
      PROVE  TurnedDown(r)
  BY <1>2 DEF TurnedDown
<1>3. ASSUME c \in Calls, NEW code \in Refusal, Refuse(r, code) PROVE TurnedDown(r)
  BY <1>2, <1>3 DEF Refuse
<1>4. ASSUME c \in Calls, NEW suffix, RecordFails(r, suffix) PROVE TurnedDown(r)
  BY <1>3, <1>4 DEF RecordFails, Refusal
<1>5. ASSUME c \in Calls, NEW id \in Nat, Replay(r, id), Known(c, id) PROVE Replays(r)
  BY <1>5 DEF Replays
<1>6. ASSUME c \in Calls, NEW id \in Nat, NEW row \in Row, NEW type \in EventType,
             NEW old \in ShipmentStatus \cup {None}, NEW suffix \in Suffix,
             NEW stops \in Nat \cup {NoStops},
             Written(r, c, id, row, type, old, suffix, stops)
      PROVE  Writes(r)
  BY <1>6 DEF Writes
<1>7. ASSUME NEW d \in Calls, Begin(r, d) PROVE GoesOn(r) \/ TurnedDown(r)
  <2>1. CASE Answer(r, d, "forbidden", 0)
    BY <1>2, <1>7, <2>1 DEF Begin, Refusal
  <2>2. CASE ~Answer(r, d, "forbidden", 0)
    <3> DEFINE s == [IdleSlot EXCEPT !.phase = IF d.op = "cancel" THEN "peek" ELSE "lookup",
                              !.call = d, !.from = d.from, !.to = d.to]
    <3>1. req' = [req EXCEPT ![r] = s] /\ UNCHANGED tables
      BY <1>7, <2>2 DEF Begin
    <3>2. s.phase \in {"peek", "lookup"}
      BY DEF IdleSlot
    <3> HIDE DEF s
    <3> QED
      BY <1>1, <3>1, <3>2
  <2> QED
    BY <2>1, <2>2
<1>8. ASSUME r \in Busy PROVE c \in Calls /\ c \in Call /\ req[r] \in Slot
  BY <1>8, CallsAssumption DEF RequestsInOrder, TypeOK
<1>9. CASE Fail(r)
  BY <1>3, <1>8, <1>9 DEF Fail, Refusal
<1>10. ASSUME Step(r) PROVE c \in Calls /\ c \in Call /\ c.ship \in Nat /\ req[r] \in Slot
  <2>1. r \in Busy
    BY <1>10 DEF Busy, Step, At, Peek, Lookup, Lock, CommitTransition, CommitStops,
                CommitEta, CommitNote, LookupCreate, InsertShipment
  <2> QED
    BY <1>8, <2>1 DEF Call
<1>11. CASE Peek(r)
  <2> DEFINE s == [req[r] EXCEPT !.phase = "lookup", !.from = shipments[c.ship].status,
                             !.to = CancelTarget(shipments[c.ship].status)]
  <2>1. CASE req' = [req EXCEPT ![r] = s] /\ UNCHANGED tables
    <3>1. s.phase = "lookup"
      BY <1>10, <1>11 DEF Step, Slot
    <3> HIDE DEF s
    <3> QED
      BY <1>1, <2>1, <3>1
  <2>2. CASE Replay(r, c.ship)
    BY <1>5, <1>10, <1>11, <2>2 DEF Step, Known, Peek, At
  <2>3. CASE Refuse(r, "not_found") \/ Refuse(r, "invalid_transition")
    BY <1>3, <1>10, <1>11, <2>3 DEF Step, Refusal
  <2> QED
    BY <1>11, <2>1, <2>2, <2>3 DEF Peek
<1>12. CASE Lookup(r)
  <2>1. ASSUME NEW i \in EventsOf(c, ""), Replay(r, events[i].ship) PROVE Replays(r)
    <3>1. events[i].ship \in Nat /\ c.op \in UpdateOps
      BY <1>12, RowsTyped DEF EventsOf, Lookup, At
    <3> QED
      BY <1>5, <1>10, <1>12, <2>1, <3>1 DEF Step, Known
  <2> DEFINE s == [req[r] EXCEPT !.phase = "lock"]
  <2>2. CASE req' = [req EXCEPT ![r] = s] /\ UNCHANGED tables
    <3>1. s.phase = "lock"
      BY <1>10, <1>12 DEF Step, Slot
    <3> HIDE DEF s
    <3> QED
      BY <1>1, <2>2, <3>1
  <2>3. Goto(r, "lock") => req' = [req EXCEPT ![r] = s]
    BY DEF Goto
  <2> HIDE DEF s
  <2> QED
    BY <1>12, <2>1, <2>2, <2>3 DEF Lookup
<1>13. CASE Lock(r)
  <2> DEFINE s == [req[r] EXCEPT !.phase = "write", !.status = shipments[c.ship].status,
                             !.version = shipments[c.ship].version]
  <2>1. CASE req' = [req EXCEPT ![r] = s] /\ UNCHANGED tables
    <3>1. s.phase = "write"
      BY <1>10, <1>13 DEF Step, Slot
    <3> HIDE DEF s
    <3> QED
      BY <1>1, <2>1, <3>1
  <2>2. CASE Refuse(r, "not_found") \/ Refuse(r, "invalid_transition")
    BY <1>3, <1>10, <1>13, <2>2 DEF Step, Refusal
  <2> QED
    BY <1>13, <2>1, <2>2 DEF Lock
<1>14. ASSUME req[r].phase = "write", c.op \in UpdateOps
       PROVE  /\ c \in Calls /\ c \in Call /\ c.ship \in DOMAIN shipments /\ c.ship \in Nat
              /\ req[r].version = shipments[c.ship].version
              /\ req[r].status = shipments[c.ship].status
              /\ shipments[c.ship] \in Row /\ shipments[c.ship].status \in ShipmentStatus
              /\ Acceptable(r, shipments[c.ship].status)
  <2>1. r \in Busy
    BY <1>14 DEF Busy
  <2>2. /\ c.ship \in DOMAIN shipments /\ Acceptable(r, shipments[c.ship].status)
        /\ req[r].version = shipments[c.ship].version
        /\ req[r].status = shipments[c.ship].status
    BY <1>14 DEF RequestsInOrder
  <2> QED
    BY <1>8, <2>1, <2>2, RowsTyped
<1>15. CASE CommitTransition(r)
  <2> DEFINE row == Advanced(r, shipments[c.ship])
  <2>0. req[r].phase = "write" /\ c.op \in {"transition", "cancel"} /\ c.op \in UpdateOps
    BY <1>15 DEF CommitTransition, At, UpdateOps
  <2>1. CanTransitionTo(shipments[c.ship].status, req[r].to)
    BY <1>14, <2>0 DEF Acceptable
  <2>2. req[r].to \in ShipmentStatus
    BY <2>1, TransitionTypes DEF CanTransitionTo
  <2>3. row = Moved(shipments[c.ship], req[r].to) /\ row \in Row
    <3>1. row = Moved(shipments[c.ship], req[r].to)
      BY <1>14, <2>0 DEF Advanced, Moved, Row
    <3> QED
      BY <1>14, <2>0, <2>2, <3>1, ChangedRows
  <2>4. SameOrigin(row, shipments[c.ship])
    BY <1>14, <2>0 DEF SameOrigin, Advanced, Row
  <2> HIDE DEF row
  <2>5. CASE /\ Recordable(c, "") /\ shipments' = [shipments EXCEPT ![c.ship] = row]
             /\ RecordEvent(c, c.ship, row, "status_changed", req[r].status, "", NoStops)
             /\ Committed(r, c.ship)
    <3>1. Updates(c, c.ship, row, "status_changed", "", NoStops)
      BY <1>14, <2>0, <2>4, <2>5 DEF Updates
    <3>2. Written(r, c, c.ship, row, "status_changed", req[r].status, "", NoStops)
      BY <2>5, <3>1 DEF Written
    <3> QED
      BY <1>6, <1>14, <2>0, <2>3, <3>2 DEF EventType, Suffix
  <2> QED
    BY <1>3, <1>4, <1>14, <1>15, <2>0, <2>5 DEF CommitTransition, row, Refusal
<1>16. CASE CommitStops(r)
  <2> DEFINE row == [shipments[c.ship] EXCEPT !.stops = c.stops, !.version = req[r].version + 1]
  <2>0. req[r].phase = "write" /\ c.op \in UpdateOps
    BY <1>16 DEF CommitStops, At, UpdateOps
  <2>1. c.stops \in Nat \cup {NoStops}
    BY <1>14, <2>0 DEF Call
  <2>2. row = Restopped(shipments[c.ship], c.stops) /\ row \in Row /\ row.stops = c.stops
    <3>1. row = Restopped(shipments[c.ship], c.stops) /\ row.stops = c.stops
      BY <1>14, <2>0 DEF Restopped, Row
    <3> QED
      BY <1>14, <2>0, <2>1, <3>1, ChangedRows
  <2>3. SameOrigin(row, shipments[c.ship])
    BY <1>14, <2>0 DEF SameOrigin, Row
  <2> HIDE DEF row
  <2>4. CASE /\ Recordable(c, "") /\ shipments' = [shipments EXCEPT ![c.ship] = row]
             /\ RecordEvent(c, c.ship, row, "stops_updated", None, "", c.stops)
             /\ Committed(r, c.ship)
    <3>1. Updates(c, c.ship, row, "stops_updated", "", c.stops)
      BY <1>14, <2>0, <2>2, <2>3, <2>4 DEF Updates
    <3>2. Written(r, c, c.ship, row, "stops_updated", None, "", c.stops)
      BY <2>4, <3>1 DEF Written
    <3> QED
      BY <1>6, <1>14, <2>0, <2>1, <2>2, <3>2 DEF EventType, Suffix
  <2> QED
    BY <1>4, <1>14, <1>16, <2>0, <2>4 DEF CommitStops, row
<1>17. CASE CommitEta(r)
  <2> DEFINE row == [shipments[c.ship] EXCEPT !.eta = c.eta, !.version = req[r].version + 1]
  <2>0. req[r].phase = "write" /\ c.op \in UpdateOps
    BY <1>17 DEF CommitEta, At, UpdateOps
  <2>1. c.eta \in Eta \cup {None}
    BY <1>14, <2>0 DEF Call
  <2>2. row \in Row
    <3>1. row = Rescheduled(shipments[c.ship], c.eta)
      BY <1>14, <2>0 DEF Rescheduled, Row
    <3> QED
      BY <1>14, <2>0, <2>1, <3>1, ChangedRows
  <2>3. SameOrigin(row, shipments[c.ship])
    BY <1>14, <2>0 DEF SameOrigin, Row
  <2> HIDE DEF row
  <2>4. CASE /\ Recordable(c, "") /\ shipments' = [shipments EXCEPT ![c.ship] = row]
             /\ RecordEvent(c, c.ship, row, "eta_updated", None, "", NoStops)
             /\ Committed(r, c.ship)
    <3>1. Updates(c, c.ship, row, "eta_updated", "", NoStops)
      BY <1>14, <2>0, <2>3, <2>4 DEF Updates
    <3>2. Written(r, c, c.ship, row, "eta_updated", None, "", NoStops)
      BY <2>4, <3>1 DEF Written
    <3> QED
      BY <1>6, <1>14, <2>0, <2>2, <3>2 DEF EventType, Suffix
  <2> QED
    BY <1>4, <1>14, <1>17, <2>0, <2>4 DEF CommitEta, row
<1>18. CASE CommitNote(r)
  <2>0. req[r].phase = "write" /\ c.op \in UpdateOps
    BY <1>18 DEF CommitNote, At, UpdateOps
  <2>1. c.stops \in Nat \cup {NoStops}
    BY <1>14, <2>0 DEF Call
  <2>2. shipments = [shipments EXCEPT ![c.ship] = shipments[c.ship]]
    BY DEF TypeOK
  <2>3. CASE /\ Recordable(c, "") /\ UNCHANGED shipments /\ Committed(r, c.ship)
             /\ RecordEvent(c, c.ship, shipments[c.ship], "custom", None, "", c.stops)
    <3>1. Updates(c, c.ship, shipments[c.ship], "custom", "", c.stops)
      BY <1>14, <2>0, <2>2, <2>3 DEF Updates, SameOrigin
    <3>2. Written(r, c, c.ship, shipments[c.ship], "custom", None, "", c.stops)
      BY <2>3, <3>1 DEF Written
    <3> QED
      BY <1>6, <1>14, <2>0, <2>1, <3>2 DEF EventType, Suffix
  <2> QED
    BY <1>4, <1>14, <1>18, <2>0, <2>3 DEF CommitNote
<1>19. ASSUME NEW id \in DOMAIN shipments, AnswerFound(r, id), c \in Calls, c.op \in CreateOps
       PROVE  Replays(r) \/ TurnedDown(r)
  BY <1>3, <1>5, <1>19, RowsTyped DEF AnswerFound, Known, Refusal
<1>20. CASE LookupCreate(r)
  <2> DEFINE s == [req[r] EXCEPT !.phase = "insert", !.snap = Len(shipments)]
  <2>1. CASE req' = [req EXCEPT ![r] = s] /\ UNCHANGED tables
    <3>1. s.phase = "insert"
      BY <1>10, <1>20 DEF Step, Slot
    <3> HIDE DEF s
    <3> QED
      BY <1>1, <2>1, <3>1
  <2> QED
    BY <1>10, <1>19, <1>20, <2>1 DEF LookupCreate, At, Step
<1>21. CASE InsertShipment(r)
  <2>1. /\ c \in Calls /\ c.op \in CreateOps /\ req[r].snap \in Nat
        /\ req[r].snap <= Len(shipments) /\ Len(shipments) \in Nat
        /\ DOMAIN shipments = 1 .. Len(shipments)
    BY <1>10, <1>21, RowsTyped DEF InsertShipment, At, RequestsInOrder, Slot, Step
  <2>2. NewRow(c) \in Row /\ Len(shipments) + 1 \in Nat
    BY <2>1, NewRowType
  <2>3. ASSUME NEW id \in Lowest(Rediscovered(r)), AnswerFound(r, id)
        PROVE  Replays(r) \/ TurnedDown(r)
    <3>1. id \in DOMAIN shipments
      BY <2>1 DEF Lowest, Rediscovered
    <3> QED
      BY <1>19, <2>1, <2>3, <3>1
  <2>4. ASSUME NEW type \in EventType \ {"custom"}, NEW old \in ShipmentStatus \cup {None},
               NEW suffix \in Suffix, Duplicates(NewRow(c)) = {}, Recordable(c, suffix),
               shipments' = Append(shipments, NewRow(c)),
               RecordEvent(c, Len(shipments) + 1, NewRow(c), type, old, suffix, NoStops),
               Committed(r, Len(shipments) + 1)
        PROVE  Writes(r)
    <3>1. Inserts(c, Len(shipments) + 1, NewRow(c), type, suffix, NoStops)
      BY <2>1, <2>4 DEF Inserts
    <3>2. Written(r, c, Len(shipments) + 1, NewRow(c), type, old, suffix, NoStops)
      BY <2>4, <3>1 DEF Written
    <3> QED
      BY <1>6, <2>1, <2>2, <2>4, <3>2
  <2>5. "created" \in ShipmentStatus
    BY DEF ShipmentStatus, OutboundStatus, PreHandoverStatus
  <2> QED
    BY <1>3, <1>4, <1>21, <2>1, <2>3, <2>4, <2>5 DEF InsertShipment, EventType, Suffix, Refusal
<1> QED
  BY <1>7, <1>9, <1>11, <1>12, <1>13, <1>15, <1>16, <1>17, <1>18, <1>20, <1>21 DEF Step

LEMMA StepOutcome ==
  ASSUME IInv, [Next]_vars
  PROVE  \/ UNCHANGED vars
         \/ \E r \in Request : GoesOn(r) \/ TurnedDown(r) \/ Replays(r) \/ Writes(r)
<1>1. TypeOK'
  BY TypeStep DEF IInv
<1> QED
  BY <1>1, Outcomes DEF Next, Quiet, IInv

\* The slots of the others.
LEMMA OthersKept ==
  ASSUME TypeOK, NEW r \in Request,
         GoesOn(r) \/ TurnedDown(r) \/ Replays(r) \/ Writes(r)
  PROVE  \A p \in Request : p # r => req'[p] = req[p]
  BY DEF GoesOn, TurnedDown, Replays, Replay, Writes, Written, Committed, Answer, TypeOK

\* What the answer to r is.
LEMMA AnswerSlot ==
  ASSUME TypeOK, NEW r \in Request, NEW c, NEW code, NEW id, Answer(r, c, code, id)
  PROVE  /\ req'[r].phase = "done" /\ req'[r].call = c
         /\ req'[r].code = code /\ req'[r].ship = id
  BY DEF TypeOK, Answer, IdleSlot

-----------------------------------------------------------------------------
(***************************************************************************)
(* Creates and returns converge on one shipment.                           *)
(***************************************************************************)

\* An outbound shipment has no original.
OrigKept == \A id \in DOMAIN shipments : ~shipments[id].isReturn => shipments[id].orig = 0

ConvergeInv == OrigKept /\ CreatesConverge

\* A row that says what a create call says is the row of its business key.
LEMMA MatchesWanted ==
  ASSUME NEW c \in Calls, NEW row \in Row, Matches(row, c), ~row.isReturn => row.orig = 0
  PROVE  BusinessKeyOf(row) = WantedBusinessKey(c)
  BY DEF Matches, BusinessKeyOf, WantedBusinessKey, BusinessKey, Row

\* The row a create call inserts says what the call says.
LEMMA NewRowMatches ==
  ASSUME NEW c \in Calls, c.op \in CreateOps
  PROVE  /\ Matches(NewRow(c), c) /\ NewRow(c) \in Row
         /\ ~NewRow(c).isReturn => NewRow(c).orig = 0
         /\ BusinessKeyOf(NewRow(c)) = WantedBusinessKey(c)
<1>1. Matches(NewRow(c), c) /\ (~NewRow(c).isReturn => NewRow(c).orig = 0)
  BY DEF NewRow, Matches, CreateOps
<1> QED
  BY <1>1, NewRowType, MatchesWanted

\* What a row keeps is what its business key and its creator are made of.
LEMMA OriginMatches ==
  ASSUME NEW row, NEW old, SameOrigin(row, old)
  PROVE  /\ BusinessKeyOf(row) = BusinessKeyOf(old)
         /\ \A c : Matches(row, c) <=> Matches(old, c)
         /\ row.isReturn = old.isReturn /\ row.orig = old.orig
  BY DEF SameOrigin, BusinessKeyOf, BusinessKey, Matches

\* The shipments after a write: the one written, and the others as they were.
LEMMA WrittenRows ==
  ASSUME TypeOK, NEW r \in Request, NEW c, NEW id \in Nat, NEW row \in Row, NEW type, NEW old,
         NEW suffix, NEW stops, Written(r, c, id, row, type, old, suffix, stops)
  PROVE  /\ DOMAIN shipments' = DOMAIN shipments \cup {id} /\ shipments'[id] = row
         /\ \A s \in DOMAIN shipments : s # id => shipments'[s] = shipments[s]
         /\ id \in DOMAIN shipments => SameOrigin(row, shipments[id])
<1>1. CASE Inserts(c, id, row, type, suffix, stops)
  <2>1. /\ Len(shipments) \in Nat /\ DOMAIN shipments = 1 .. Len(shipments)
        /\ DOMAIN shipments' = 1 .. (Len(shipments) + 1)
        /\ \A i \in 1 .. Len(shipments) : shipments'[i] = shipments[i]
        /\ shipments'[Len(shipments) + 1] = row
    BY <1>1, AppendIndex DEF Inserts, TypeOK
  <2> QED
    BY <1>1, <2>1 DEF Inserts
<1>2. CASE Updates(c, id, row, type, suffix, stops)
  BY <1>2 DEF Updates, TypeOK
<1> QED
  BY <1>1, <1>2 DEF Written

\* A shipment that is there stays, with what its creation said.
LEMMA RowsStay ==
  ASSUME IInv, [Next]_vars
  PROVE  /\ DOMAIN shipments \subseteq DOMAIN shipments'
         /\ \A id \in DOMAIN shipments : SameOrigin(shipments'[id], shipments[id])
<1>1. CASE UNCHANGED tables
  BY <1>1 DEF tables, SameOrigin
<1>2. ASSUME NEW r \in Request, Writes(r)
      PROVE  /\ DOMAIN shipments \subseteq DOMAIN shipments'
             /\ \A id \in DOMAIN shipments : SameOrigin(shipments'[id], shipments[id])
  <2>1. PICK id \in Nat, row \in Row, type \in EventType, old \in ShipmentStatus \cup {None},
             suffix \in Suffix, stops \in Nat \cup {NoStops} :
               Written(r, req[r].call, id, row, type, old, suffix, stops)
    BY <1>2 DEF Writes
  <2>2. /\ DOMAIN shipments' = DOMAIN shipments \cup {id} /\ shipments'[id] = row
        /\ \A s \in DOMAIN shipments : s # id => shipments'[s] = shipments[s]
        /\ id \in DOMAIN shipments => SameOrigin(row, shipments[id])
    BY <2>1, WrittenRows DEF IInv
  <2> QED
    BY <2>2 DEF SameOrigin
<1> QED
  BY <1>1, <1>2, StepOutcome DEF vars, tables, GoesOn, TurnedDown, Replays, Replay

\* The rows keep one shipment to a business key.
LEMMA KeysStayUnique ==
  ASSUME IInv, ConvergeInv, [Next]_vars
  PROVE  /\ OrigKept'
         /\ \A a, b \in DOMAIN shipments' :
              BusinessKeyOf(shipments'[a]) = BusinessKeyOf(shipments'[b]) => a = b
<1> DEFINE Goal == /\ OrigKept'
                   /\ \A a, b \in DOMAIN shipments' :
                        BusinessKeyOf(shipments'[a]) = BusinessKeyOf(shipments'[b]) => a = b
<1>1. CASE UNCHANGED tables
  BY <1>1 DEF tables, ConvergeInv, OrigKept, CreatesConverge
<1>2. ASSUME NEW r \in Request, Writes(r) PROVE Goal
  <2> DEFINE c == req[r].call
  <2>1. PICK id \in Nat, row \in Row, type \in EventType, old \in ShipmentStatus \cup {None},
             suffix \in Suffix, stops \in Nat \cup {NoStops} :
               Written(r, c, id, row, type, old, suffix, stops)
    BY <1>2 DEF Writes
  <2>2. /\ DOMAIN shipments' = DOMAIN shipments \cup {id} /\ shipments'[id] = row
        /\ \A s \in DOMAIN shipments : s # id => shipments'[s] = shipments[s]
        /\ id \in DOMAIN shipments => SameOrigin(row, shipments[id])
    BY <2>1, WrittenRows DEF IInv
  <2>3. ~row.isReturn => row.orig = 0
    <3>1. CASE Inserts(c, id, row, type, suffix, stops)
      BY <1>2, <3>1, NewRowMatches DEF Inserts, Writes
    <3>2. CASE Updates(c, id, row, type, suffix, stops)
      BY <3>2 DEF Updates, SameOrigin, ConvergeInv, OrigKept
    <3> QED
      BY <2>1, <3>1, <3>2 DEF Written
  <2>4. \A s \in DOMAIN shipments : s # id => BusinessKeyOf(shipments[s]) # BusinessKeyOf(row)
    <3>1. CASE Inserts(c, id, row, type, suffix, stops)
      BY <3>1 DEF Inserts, Duplicates
    <3>2. CASE Updates(c, id, row, type, suffix, stops)
      <4>1. id \in DOMAIN shipments /\ BusinessKeyOf(row) = BusinessKeyOf(shipments[id])
        BY <3>2, OriginMatches DEF Updates
      <4> QED
        BY <4>1 DEF ConvergeInv, CreatesConverge
    <3> QED
      BY <2>1, <3>1, <3>2 DEF Written
  <2>5. OrigKept'
    BY <2>2, <2>3 DEF OrigKept, ConvergeInv
  <2>6. ASSUME NEW a \in DOMAIN shipments', NEW b \in DOMAIN shipments',
               BusinessKeyOf(shipments'[a]) = BusinessKeyOf(shipments'[b])
        PROVE  a = b
    BY <2>2, <2>4, <2>6 DEF ConvergeInv, CreatesConverge
  <2> QED
    BY <2>5, <2>6
<1> QED
  BY <1>1, <1>2, StepOutcome DEF vars, tables, GoesOn, TurnedDown, Replays, Replay

\* What a create call that succeeded was answered with.
CreateKept(r) ==
  (Succeeded(r) /\ req[r].call.op \in CreateOps) =>
     /\ req[r].ship \in DOMAIN shipments
     /\ Matches(shipments[req[r].ship], req[r].call)
     /\ BusinessKeyOf(shipments[req[r].ship]) = WantedBusinessKey(req[r].call)

\* An answer stays true while the request's slot is not used again.
LEMMA CreateStaysKept ==
  ASSUME IInv, [Next]_vars, NEW p \in Request, CreateKept(p), req'[p] = req[p]
  PROVE  CreateKept(p)'
  BY RowsStay, OriginMatches DEF CreateKept, Succeeded

LEMMA ConvergeStep ==
  ASSUME IInv, ConvergeInv, [Next]_vars
  PROVE  ConvergeInv'
<1>0. \A p \in Request : CreateKept(p)
  BY DEF ConvergeInv, CreatesConverge, CreateKept
<1>1. CASE UNCHANGED vars
  BY <1>1 DEF vars, ConvergeInv, OrigKept, CreatesConverge, Succeeded
<1>2. ASSUME NEW r \in Request, GoesOn(r) \/ TurnedDown(r) \/ Replays(r) \/ Writes(r)
      PROVE  \A p \in Request : CreateKept(p)'
  <2>1. \A p \in Request : p # r => CreateKept(p)'
    BY <1>0, <1>2, OthersKept, CreateStaysKept DEF IInv
  <2>2. CASE GoesOn(r) \/ TurnedDown(r)
    <3>1. ~Succeeded(r)'
      <4>1. CASE GoesOn(r)
        BY <4>1 DEF GoesOn, Succeeded, IInv, TypeOK
      <4>2. CASE TurnedDown(r)
        BY <4>2, AnswerSlot DEF TurnedDown, Succeeded, Refusal, IInv
      <4> QED
        BY <2>2, <4>1, <4>2
    <3> QED
      BY <2>1, <3>1 DEF CreateKept
  <2>3. CASE Replays(r)
    <3>1. PICK id \in Nat : Replay(r, id) /\ Known(req[r].call, id)
      BY <2>3 DEF Replays
    <3>2. req'[r].call = req[r].call /\ req'[r].ship = id
      BY <3>1, AnswerSlot DEF Replay, IInv
    <3>3. ASSUME req[r].call.op \in CreateOps
          PROVE  /\ id \in DOMAIN shipments /\ Matches(shipments[id], req[r].call)
                 /\ BusinessKeyOf(shipments[id]) = WantedBusinessKey(req[r].call)
      <4>1. id \in DOMAIN shipments /\ Matches(shipments[id], req[r].call)
        BY <3>1, <3>3 DEF Known, CreateOps, UpdateOps
      <4>2. shipments[id] \in Row /\ (~shipments[id].isReturn => shipments[id].orig = 0)
        BY <4>1, RowsTyped DEF IInv, ConvergeInv, OrigKept
      <4> QED
        BY <2>3, <4>1, <4>2, MatchesWanted DEF Replays
    <3>4. CreateKept(r)'
      BY <3>1, <3>2, <3>3 DEF CreateKept, Replay, tables
    <3> QED
      BY <2>1, <3>4
  <2>4. CASE Writes(r)
    <3> DEFINE c == req[r].call
    <3>1. PICK id \in Nat, row \in Row, type \in EventType, old \in ShipmentStatus \cup {None},
               suffix \in Suffix, stops \in Nat \cup {NoStops} :
                 Written(r, c, id, row, type, old, suffix, stops)
      BY <2>4 DEF Writes
    <3>2. /\ DOMAIN shipments' = DOMAIN shipments \cup {id} /\ shipments'[id] = row
          /\ \A s \in DOMAIN shipments : s # id => shipments'[s] = shipments[s]
          /\ id \in DOMAIN shipments => SameOrigin(row, shipments[id])
      BY <3>1, WrittenRows DEF IInv
    <3>3. req'[r].call = c /\ (req'[r].code # "internal" => req'[r].ship = id)
      BY <3>1, AnswerSlot DEF Written, Committed, IInv
    <3>4. c.op \in CreateOps => Matches(row, c) /\ BusinessKeyOf(row) = WantedBusinessKey(c)
      BY <2>4, <3>1, NewRowMatches DEF Writes, Written, Inserts, Updates, CreateOps, UpdateOps
    <3>5. CreateKept(r)'
      BY <3>2, <3>3, <3>4 DEF CreateKept, Succeeded
    <3> QED
      BY <2>1, <3>5
  <2> QED
    BY <1>2, <2>2, <2>3, <2>4
<1> QED
  BY <1>1, <1>2, KeysStayUnique, StepOutcome DEF ConvergeInv, CreatesConverge, CreateKept, Succeeded

LEMMA ConvergeInit == Init => ConvergeInv
<1> SUFFICES ASSUME Init PROVE ConvergeInv
  OBVIOUS
<1>0. PICK path \in SeedPaths : Seeded(path)
  BY DEF Init
<1>1. \A id \in DOMAIN shipments : id = 1 /\ shipments[id].orig = 0
  <2>1. CASE path = <<>>
    BY <1>0, <2>1 DEF Seeded
  <2>2. CASE path # <<>>
    <3> DEFINE row == SeedRow(path)
    <3>1. row.orig = 0 /\ shipments = <<row>>
      BY <1>0, <2>2 DEF Seeded, SeedRow
    <3> HIDE DEF row
    <3> QED
      BY <3>1
  <2> QED
    BY <2>1, <2>2
<1>2. \A r \in Request : ~Succeeded(r)
  BY DEF Init, Succeeded, IdleSlot
<1> QED
  BY <1>1, <1>2 DEF ConvergeInv, OrigKept, CreatesConverge

LEMMA Converges == Spec => []ConvergeInv
<1>1. ASSUME IInv, ConvergeInv, [Next]_vars PROVE ConvergeInv'
  BY <1>1, ConvergeStep
<1> QED
  BY <1>1, ConvergeInit, Inductive, PTL DEF Spec

\* However creates and returns race, repeat or contradict each other, an order
\* has one outbound shipment and one return for each original, and a create call is only
\* ever answered with the shipment that says what the call says.
THEOREM CreatesCorrect == Spec => []CreatesConverge
<1>1. ConvergeInv => CreatesConverge
  BY DEF ConvergeInv
<1> QED
  BY <1>1, Converges, PTL

-----------------------------------------------------------------------------
(***************************************************************************)
(* Repeats of a call agree.                                                *)
(***************************************************************************)

\* The unique index on (source_service, idempotency_key) of the events.
KeysUnique ==
  \A i, j \in DOMAIN events :
    (/\ events[i].key # None /\ events[i].key = events[j].key
     /\ events[i].source = events[j].source /\ events[i].suffix = events[j].suffix) => i = j

\* An update call that succeeded: the event of its key, or a cancellation of a
\* shipment that was cancelled already.
UpdateKept(r) ==
  Succeeded(r) =>
    /\ req[r].call \in Calls
    /\ (req[r].call.op \in UpdateOps /\ req[r].call.key # None) =>
         \/ /\ \E i \in EventsOf(req[r].call, "") : events[i].ship = req[r].ship
            /\ req[r].code = "applied" => req[r].ship = req[r].call.ship
         \/ /\ req[r].call.op = "cancel"
            /\ req[r].ship = req[r].call.ship /\ req[r].code = "replayed"

AppliedOnce ==
  \A r, p \in Request :
    (/\ r # p /\ req[r].call = req[p].call /\ req[r].call.key # None
     /\ Succeeded(r) /\ Succeeded(p))
    => ~(req[r].code = "applied" /\ req[p].code = "applied")

RepeatInv == KeysUnique /\ (\A r \in Request : UpdateKept(r)) /\ AppliedOnce

\* The event a write adds.
EventAdded(n, c, id, suffix) ==
  /\ n \notin DOMAIN events /\ DOMAIN events' = DOMAIN events \cup {n}
  /\ \A i \in DOMAIN events : events'[i] = events[i]
  /\ events'[n].ship = id /\ events'[n].source = c.source
  /\ events'[n].key = c.key /\ events'[n].suffix = suffix

LEMMA WrittenEvents ==
  ASSUME TypeOK, NEW c \in Calls, NEW id \in Nat, NEW row \in Row, NEW type \in EventType,
         NEW old \in ShipmentStatus \cup {None}, NEW suffix \in Suffix,
         NEW stops \in Nat \cup {NoStops}, RecordEvent(c, id, row, type, old, suffix, stops)
  PROVE  \E n : EventAdded(n, c, id, suffix)
<1> DEFINE e == [ship |-> id, source |-> c.source, key |-> c.key, suffix |-> suffix,
                 type |-> type, status |-> row.status]
           n == Len(events) + 1
<1>1. e \in Event /\ e.ship = id /\ e.source = c.source /\ e.key = c.key /\ e.suffix = suffix
  BY CallsAssumption DEF Event, Call, Row
<1>2. events' = Append(events, e) /\ events \in Seq(Event)
  BY DEF RecordEvent, TypeOK
<1> HIDE DEF e
<1>3. /\ Len(events) \in Nat /\ DOMAIN events = 1 .. Len(events)
      /\ DOMAIN events' = 1 .. (Len(events) + 1)
      /\ \A i \in 1 .. Len(events) : events'[i] = events[i]
      /\ events'[Len(events) + 1] = e
  BY <1>1, <1>2, AppendIndex
<1>4. /\ n \notin DOMAIN events /\ DOMAIN events' = DOMAIN events \cup {n}
      /\ \A i \in DOMAIN events : events'[i] = events[i]
  BY <1>3
<1>5. EventAdded(n, c, id, suffix)
  BY <1>1, <1>3, <1>4 DEF EventAdded
<1> QED
  BY <1>5

\* An event that was recorded stays.
LEMMA EventsStay ==
  ASSUME IInv, [Next]_vars
  PROVE  \A i \in DOMAIN events : i \in DOMAIN events' /\ events'[i] = events[i]
<1>1. CASE UNCHANGED tables
  BY <1>1 DEF tables
<1>2. ASSUME NEW r \in Request, Writes(r)
      PROVE  \A i \in DOMAIN events : i \in DOMAIN events' /\ events'[i] = events[i]
  <2>1. PICK id \in Nat, row \in Row, type \in EventType, old \in ShipmentStatus \cup {None},
             suffix \in Suffix, stops \in Nat \cup {NoStops} :
               Written(r, req[r].call, id, row, type, old, suffix, stops)
    BY <1>2 DEF Writes
  <2>2. req[r].call \in Calls /\ TypeOK
    BY <1>2 DEF Writes, IInv
  <2>3. RecordEvent(req[r].call, id, row, type, old, suffix, stops)
    BY <2>1 DEF Written
  <2>4. \E n : EventAdded(n, req[r].call, id, suffix)
    BY <2>2, <2>3, WrittenEvents
  <2> QED
    BY <2>4 DEF EventAdded
<1> QED
  BY <1>1, <1>2, StepOutcome DEF vars, tables, GoesOn, TurnedDown, Replays, Replay

LEMMA UpdateStaysKept ==
  ASSUME IInv, [Next]_vars, NEW p \in Request, UpdateKept(p), req'[p] = req[p]
  PROVE  UpdateKept(p)'
  BY EventsStay DEF UpdateKept, Succeeded, EventsOf

\* The slots of the others keep what RepeatInv says of two of them.
LEMMA OthersAppliedOnce ==
  ASSUME NEW r \in Request, AppliedOnce, \A p \in Request : p # r => req'[p] = req[p],
         \A p \in Request : (/\ p # r /\ req'[r].call = req[p].call /\ req[p].call.key # None
                             /\ Succeeded(p) /\ req[p].code = "applied" /\ Succeeded(r)')
                            => req'[r].code # "applied"
  PROVE  AppliedOnce'
  BY DEF AppliedOnce, Succeeded

LEMMA RepeatStep ==
  ASSUME IInv, ConvergeInv, RepeatInv, [Next]_vars
  PROVE  RepeatInv'
<1>1. CASE UNCHANGED vars
  BY <1>1 DEF vars, RepeatInv, KeysUnique, UpdateKept, AppliedOnce, Succeeded, EventsOf
<1>2. ASSUME NEW r \in Request, GoesOn(r) \/ TurnedDown(r) \/ Replays(r) \/ Writes(r)
      PROVE  RepeatInv'
  <2>0. \A p \in Request : p # r => req'[p] = req[p]
    BY <1>2, OthersKept DEF IInv
  <2>1. \A p \in Request : p # r => UpdateKept(p)'
    BY <2>0, UpdateStaysKept DEF RepeatInv
  <2>2. CASE GoesOn(r) \/ TurnedDown(r)
    <3>1. ~Succeeded(r)'
      <4>1. CASE GoesOn(r)
        BY <4>1 DEF GoesOn, Succeeded, IInv, TypeOK
      <4>2. CASE TurnedDown(r)
        BY <4>2, AnswerSlot DEF TurnedDown, Succeeded, Refusal, IInv
      <4> QED
        BY <2>2, <4>1, <4>2
    <3>2. UpdateKept(r)' /\ AppliedOnce'
      BY <2>0, <3>1, OthersAppliedOnce DEF UpdateKept, RepeatInv
    <3>3. KeysUnique'
      BY <2>2 DEF GoesOn, TurnedDown, tables, KeysUnique, RepeatInv
    <3> QED
      BY <2>1, <3>2, <3>3 DEF RepeatInv
  <2>3. CASE Replays(r)
    <3>1. PICK id \in Nat : Replay(r, id) /\ Known(req[r].call, id)
      BY <2>3 DEF Replays
    <3>2. req'[r].call = req[r].call /\ req'[r].ship = id /\ req'[r].code = "replayed"
      BY <3>1, AnswerSlot DEF Replay, IInv
    <3>3. UpdateKept(r)'
      BY <2>3, <3>1, <3>2 DEF UpdateKept, Replays, Known, Replay, tables, EventsOf, CreateOps, UpdateOps
    <3>4. AppliedOnce'
      BY <2>0, <3>2, OthersAppliedOnce DEF RepeatInv
    <3>5. KeysUnique'
      BY <3>1 DEF Replay, tables, KeysUnique, RepeatInv
    <3> QED
      BY <2>1, <3>3, <3>4, <3>5 DEF RepeatInv
  <2>4. CASE Writes(r)
    <3> DEFINE c == req[r].call
    <3>1. PICK id \in Nat, row \in Row, type \in EventType, old \in ShipmentStatus \cup {None},
               suffix \in Suffix, stops \in Nat \cup {NoStops} :
                 Written(r, c, id, row, type, old, suffix, stops)
      BY <2>4 DEF Writes
    <3>2. c \in Calls /\ TypeOK
      BY <2>4 DEF Writes, IInv
    <3>3. RecordEvent(c, id, row, type, old, suffix, stops)
      BY <3>1 DEF Written
    <3>5. Recordable(c, suffix)
      BY <3>1 DEF Written
    <3>4. PICK n : EventAdded(n, c, id, suffix)
      BY <3>2, <3>3, WrittenEvents
    <3>6. KeysUnique'
      <4>1. \A i \in DOMAIN events :
              ~(/\ events[i].key # None /\ events[i].key = c.key
                /\ events[i].source = c.source /\ events[i].suffix = suffix)
        BY <3>5 DEF Recordable, EventsOf
      <4> QED
        BY <3>4, <4>1 DEF EventAdded, KeysUnique, RepeatInv
    <3>7. /\ req'[r].call = c
          /\ req'[r].code = "internal" \/ (req'[r].ship = id /\ req'[r].code = "applied")
      <4>1. CASE Answer(r, c, "applied", id)
        BY <3>2, <4>1, AnswerSlot
      <4>2. CASE Answer(r, c, "internal", 0)
        BY <3>2, <4>2, AnswerSlot
      <4> QED
        BY <3>1, <4>1, <4>2 DEF Written, Committed
    <3>8. c.op \in UpdateOps => suffix = "" /\ id = c.ship
      BY <3>1 DEF Written, Inserts, Updates, CreateOps, UpdateOps
    <3>9. UpdateKept(r)'
      <4>1. ASSUME c.op \in UpdateOps, c.key # None PROVE n \in EventsOf(c, "")'
        BY <3>2, <3>4, <3>7, <3>8, <4>1 DEF EventAdded, EventsOf
      <4> QED
        BY <3>2, <3>4, <3>7, <3>8, <4>1 DEF EventAdded, UpdateKept, Succeeded, EventsOf
    <3>10. ASSUME NEW p \in Request, p # r, req'[r].call = req[p].call, req[p].call.key # None,
                  Succeeded(p), req[p].code = "applied"
           PROVE  FALSE
      <4>1. CASE Inserts(c, id, row, type, suffix, stops)
        <5>1. /\ req[p].ship \in DOMAIN shipments
              /\ BusinessKeyOf(shipments[req[p].ship]) = WantedBusinessKey(c)
          BY <3>7, <3>10, <4>1 DEF ConvergeInv, CreatesConverge, Inserts
        <5>2. BusinessKeyOf(row) = WantedBusinessKey(c)
          BY <3>2, <4>1, NewRowMatches DEF Inserts
        <5> QED
          BY <4>1, <5>1, <5>2 DEF Inserts, Duplicates
      <4>2. CASE Updates(c, id, row, type, suffix, stops)
        <5>1. EventsOf(c, "") # {}
          BY <3>7, <3>10, <4>2 DEF RepeatInv, UpdateKept, Updates
        <5> QED
          BY <3>5, <4>2, <5>1 DEF Recordable, Updates
      <4> QED
        BY <3>1, <4>1, <4>2 DEF Written
    <3>11. AppliedOnce'
      BY <2>0, <3>10, OthersAppliedOnce DEF RepeatInv
    <3> QED
      BY <2>1, <3>6, <3>9, <3>11 DEF RepeatInv
  <2> QED
    BY <1>2, <2>2, <2>3, <2>4
<1> QED
  BY <1>1, <1>2, StepOutcome

LEMMA RepeatInit == Init => RepeatInv
<1> SUFFICES ASSUME Init PROVE RepeatInv
  OBVIOUS
<1>0. PICK path \in SeedPaths : Seeded(path)
  BY DEF Init
<1>1. KeysUnique
  <2>1. \A i \in DOMAIN events : events[i].key # None => i = 1
    BY <1>0 DEF Seeded
  <2> QED
    BY <2>1 DEF KeysUnique
<1>2. \A r \in Request : ~Succeeded(r)
  BY DEF Init, Succeeded, IdleSlot
<1> QED
  BY <1>1, <1>2 DEF RepeatInv, UpdateKept, AppliedOnce

LEMMA RepeatsHold == Spec => []RepeatInv
<1>1. ASSUME IInv, ConvergeInv, RepeatInv, [Next]_vars PROVE RepeatInv'
  BY <1>1, RepeatStep
<1> QED
  BY <1>1, RepeatInit, Inductive, Converges, PTL DEF Spec

\* Two requests that succeeded with the same call were answered alike.
LEMMA AnsweredAlike ==
  ASSUME ConvergeInv, RepeatInv, TypeOK, NEW r \in Request, NEW p \in Request,
         r # p, Succeeded(r), Succeeded(p), req[r].call = req[p].call, req[r].call.key # None
  PROVE  req[r].ship = req[p].ship \/ (req[r].call.op = "cancel" /\ KeyTaken(req[r].call))
<1> DEFINE c == req[r].call
<1>1. CASE c.op \in CreateOps
  <2>1. /\ req[r].ship \in DOMAIN shipments /\ req[p].ship \in DOMAIN shipments
        /\ BusinessKeyOf(shipments[req[r].ship]) = WantedBusinessKey(c)
        /\ BusinessKeyOf(shipments[req[p].ship]) = WantedBusinessKey(c)
    BY <1>1 DEF ConvergeInv, CreatesConverge
  <2> QED
    BY <2>1 DEF ConvergeInv, CreatesConverge
<1>2. CASE c.op \in UpdateOps
  <2>1. UpdateKept(r) /\ UpdateKept(p)
    BY DEF RepeatInv
  <2>2. \A i, j \in EventsOf(c, "") : i = j
    BY DEF EventsOf, KeysUnique, RepeatInv
  <2>3. \/ \E i \in EventsOf(c, "") : events[i].ship = req[r].ship
        \/ c.op = "cancel" /\ req[r].ship = c.ship
    BY <1>2, <2>1 DEF UpdateKept
  <2>4. \/ \E i \in EventsOf(c, "") : events[i].ship = req[p].ship
        \/ c.op = "cancel" /\ req[p].ship = c.ship
    BY <1>2, <2>1 DEF UpdateKept
  <2> QED
    BY <2>2, <2>3, <2>4 DEF KeyTaken
<1>3. c.op \in CreateOps \/ c.op \in UpdateOps
  <2>1. c \in Call
    BY CallsAssumption DEF RepeatInv, UpdateKept
  <2> QED
    BY <2>1 DEF Call, Op, CreateOps, UpdateOps
<1> QED
  BY <1>1, <1>2, <1>3

\* However a client's repeats of a call interleave, at most one is applied and
\* all that succeed name one shipment, unless it is a cancellation whose key
\* was used for another shipment.
THEOREM RepeatsCorrect == Spec => []RepeatsAgree
<1>1. (IInv /\ ConvergeInv /\ RepeatInv) => RepeatsAgree
  BY AnsweredAlike DEF IInv, RepeatsAgree, RepeatInv, AppliedOnce
<1> QED
  BY <1>1, Inductive, Converges, RepeatsHold, PTL

-----------------------------------------------------------------------------
(***************************************************************************)
(* The last callback of a shipment says what the shipment is.              *)
(***************************************************************************)

\* The three rows of a write stand at one place of their tables.
RecordAdded(n, id, row, type, stops) ==
  /\ n \in Nat /\ \A i \in DOMAIN events : i \in Nat /\ i < n
  /\ DOMAIN events' = DOMAIN events \cup {n}
  /\ DOMAIN outbox = DOMAIN events /\ DOMAIN outbox' = DOMAIN events \cup {n}
  /\ Len(audit') = Len(events') /\ Len(outbox') = Len(events')
  /\ \A i \in DOMAIN events :
       events'[i] = events[i] /\ audit'[i] = audit[i] /\ outbox'[i] = outbox[i]
  /\ events'[n].ship = id /\ events'[n].type = type /\ events'[n].status = row.status
  /\ audit'[n].ship = id /\ audit'[n].new = row.status
  /\ outbox'[n].ship = id /\ outbox'[n].event = n /\ outbox'[n].status = row.status
  /\ outbox'[n].eta = row.eta
  /\ outbox'[n].stops = IF stops = NoStops THEN row.stops ELSE stops

LEMMA WrittenRecords ==
  ASSUME TypeOK, Len(audit) = Len(events), Len(outbox) = Len(events),
         NEW c \in Calls, NEW id \in Nat, NEW row \in Row, NEW type \in EventType,
         NEW old \in ShipmentStatus \cup {None}, NEW suffix \in Suffix,
         NEW stops \in Nat \cup {NoStops}, RecordEvent(c, id, row, type, old, suffix, stops)
  PROVE  RecordAdded(Len(events) + 1, id, row, type, stops)
<1> DEFINE n == Len(events) + 1
           e == [ship |-> id, source |-> c.source, key |-> c.key, suffix |-> suffix,
                 type |-> type, status |-> row.status]
           a == [ship |-> id, action |-> type, old |-> old, new |-> row.status]
           p == [ship |-> id, event |-> n, status |-> row.status,
                 stops |-> IF stops = NoStops THEN row.stops ELSE stops, eta |-> row.eta]
<1>1. e \in Event /\ e.ship = id /\ e.type = type /\ e.status = row.status
  BY CallsAssumption DEF Event, Call, Row
<1>2. a \in AuditRow /\ a.ship = id /\ a.new = row.status
  BY DEF AuditRow, Row
<1>3. /\ p \in Payload /\ p.ship = id /\ p.event = n /\ p.status = row.status /\ p.eta = row.eta
      /\ p.stops = IF stops = NoStops THEN row.stops ELSE stops
  <2>1. n \in Nat
    BY LenProperties DEF TypeOK
  <2> QED
    BY <2>1 DEF Payload, Row
<1>4. events' = Append(events, e) /\ audit' = Append(audit, a) /\ outbox' = Append(outbox, p)
  BY DEF RecordEvent
<1> HIDE DEF e, a, p
<1>5. /\ Len(events) \in Nat /\ DOMAIN events = 1 .. Len(events)
      /\ DOMAIN events' = 1 .. n
      /\ \A i \in 1 .. Len(events) : events'[i] = events[i]
      /\ events'[n] = e
  BY <1>1, <1>4, AppendIndex DEF TypeOK
<1>6. /\ DOMAIN audit = 1 .. Len(events) /\ DOMAIN audit' = 1 .. n
      /\ \A i \in 1 .. Len(events) : audit'[i] = audit[i]
      /\ audit'[n] = a
  BY <1>2, <1>4, AppendIndex DEF TypeOK
<1>7. /\ DOMAIN outbox = 1 .. Len(events) /\ DOMAIN outbox' = 1 .. n
      /\ \A i \in 1 .. Len(events) : outbox'[i] = outbox[i]
      /\ outbox'[n] = p
  BY <1>3, <1>4, AppendIndex DEF TypeOK
<1>8. Len(events') = n /\ Len(audit') = n /\ Len(outbox') = n
  BY <1>1, <1>2, <1>3, <1>4, AppendProperties DEF TypeOK
<1>9. /\ n \in Nat /\ \A i \in DOMAIN events : i \in Nat /\ i < n
      /\ DOMAIN events' = DOMAIN events \cup {n}
  BY <1>5
<1> HIDE DEF n
<1>10. /\ DOMAIN outbox = DOMAIN events /\ DOMAIN outbox' = DOMAIN events \cup {n}
       /\ \A i \in DOMAIN events :
            events'[i] = events[i] /\ audit'[i] = audit[i] /\ outbox'[i] = outbox[i]
  BY <1>5, <1>6, <1>7, <1>9
<1>11. RecordAdded(n, id, row, type, stops)
  BY <1>1, <1>2, <1>3, <1>5, <1>6, <1>7, <1>8, <1>9, <1>10 DEF RecordAdded
<1> QED
  BY <1>11 DEF n

\* What CallbacksCurrent says of the records, and of one shipment.
RecordsMatch ==
  /\ Len(audit) = Len(events) /\ Len(outbox) = Len(events)
  /\ \A i \in DOMAIN events :
       /\ audit[i].ship = events[i].ship /\ audit[i].new = events[i].status
       /\ outbox[i].event = i /\ outbox[i].ship = events[i].ship
       /\ outbox[i].status = events[i].status

Told(id) ==
  \E i \in Latest(id) :
    /\ outbox[i].status = shipments[id].status
    /\ outbox[i].eta = shipments[id].eta
    /\ events[i].type # "custom" => outbox[i].stops = shipments[id].stops

LEMMA CallbackParts == CallbacksCurrent <=> RecordsMatch /\ \A id \in DOMAIN shipments : Told(id)
  BY DEF CallbacksCurrent, RecordsMatch, Told

LEMMA CallbackStep ==
  ASSUME IInv, CallbacksCurrent, [Next]_vars
  PROVE  CallbacksCurrent'
<1>1. CASE UNCHANGED tables
  BY <1>1 DEF tables, CallbacksCurrent, Latest
<1>2. ASSUME NEW r \in Request, Writes(r) PROVE CallbacksCurrent'
  <2> DEFINE c == req[r].call
  <2>1. PICK id \in Nat, row \in Row, type \in EventType, old \in ShipmentStatus \cup {None},
             suffix \in Suffix, stops \in Nat \cup {NoStops} :
               Written(r, c, id, row, type, old, suffix, stops)
    BY <1>2 DEF Writes
  <2>2. /\ DOMAIN shipments' = DOMAIN shipments \cup {id} /\ shipments'[id] = row
        /\ \A s \in DOMAIN shipments : s # id => shipments'[s] = shipments[s]
        /\ id \in DOMAIN shipments => SameOrigin(row, shipments[id])
    BY <2>1, WrittenRows DEF IInv
  <2>3. c \in Calls /\ TypeOK /\ Len(audit) = Len(events) /\ Len(outbox) = Len(events)
    BY <1>2 DEF Writes, IInv, CallbacksCurrent
  <2>4. RecordEvent(c, id, row, type, old, suffix, stops)
    BY <2>1 DEF Written
  <2>5. PICK n : RecordAdded(n, id, row, type, stops)
    BY <2>3, <2>4, WrittenRecords
  <2>6. type = "custom" \/ stops \in {NoStops, row.stops}
    BY <2>1 DEF Written, Inserts, Updates
  <2>7. RecordsMatch'
    BY <2>5, CallbackParts DEF RecordAdded, RecordsMatch
  <2>8. ASSUME NEW s \in DOMAIN shipments, s # id PROVE Told(s)'
    <3>1. PICK i \in Latest(s) : /\ outbox[i].status = shipments[s].status
                                 /\ outbox[i].eta = shipments[s].eta
                                 /\ events[i].type # "custom" => outbox[i].stops = shipments[s].stops
      BY CallbackParts DEF Told
    <3>2. i \in DOMAIN events /\ i \in Latest(s)'
      BY <2>5, <2>8, <3>1 DEF RecordAdded, Latest
    <3> QED
      BY <2>2, <2>5, <2>8, <3>1, <3>2 DEF RecordAdded, Told
  <2>9. Told(id)'
    <3>1. n \in Latest(id)'
      BY <2>5 DEF RecordAdded, Latest
    <3>2. outbox'[n].stops = row.stops \/ type = "custom"
      BY <2>5, <2>6 DEF RecordAdded
    <3> QED
      BY <2>2, <2>5, <3>1, <3>2 DEF RecordAdded, Told
  <2> QED
    BY <2>2, <2>7, <2>8, <2>9, CallbackParts DEF CallbacksCurrent, RecordsMatch, Told
<1> QED
  BY <1>1, <1>2, StepOutcome DEF vars, tables, GoesOn, TurnedDown, Replays, Replay

LEMMA CallbackInit == Init => CallbacksCurrent
<1> SUFFICES ASSUME Init PROVE CallbacksCurrent
  OBVIOUS
<1>0. PICK path \in SeedPaths : Seeded(path)
  BY DEF Init
<1>1. TypeOK
  BY InitOK DEF IInv
<1>2. RecordsMatch
  <2>1. /\ DOMAIN events = DOMAIN path /\ DOMAIN audit = DOMAIN path
        /\ DOMAIN outbox = DOMAIN path
    BY <1>0 DEF Seeded
  <2>2. Len(audit) = Len(events) /\ Len(outbox) = Len(events)
    BY <1>1, <2>1, LenProperties DEF TypeOK
  <2>3. \A i \in DOMAIN events :
          /\ audit[i].ship = events[i].ship /\ audit[i].new = events[i].status
          /\ outbox[i].event = i /\ outbox[i].ship = events[i].ship
          /\ outbox[i].status = events[i].status
    BY <1>0, <2>1 DEF Seeded
  <2> QED
    BY <2>2, <2>3 DEF RecordsMatch
<1>3. ASSUME NEW id \in DOMAIN shipments PROVE Told(id)
  <2>1. path # <<>>
    <3>1. path = <<>> => shipments = <<>>
      BY <1>0 DEF Seeded
    <3> QED
      BY <1>3, <3>1
  <2> DEFINE row == SeedRow(path)
             n == Len(path)
  <2>2. /\ shipments = <<row>> /\ row.status = path[n] /\ row.eta = None
        /\ row.stops = IF path[n] = "delivered" THEN 0 ELSE NoStops
    BY <1>0, <2>1 DEF Seeded, SeedRow, SeedLast
  <2> HIDE DEF row
  <2>3. id = 1 /\ shipments[id] = row
    BY <1>3, <2>2
  <2>4. n \in DOMAIN path /\ \A j \in DOMAIN path : j <= n
    BY <2>1, SeedTypes, EmptySeq
  <2>5. /\ DOMAIN outbox = DOMAIN path
        /\ outbox[n].ship = 1 /\ outbox[n].status = path[n] /\ outbox[n].eta = None
        /\ outbox[n].stops = IF path[n] = "delivered" THEN 0 ELSE NoStops
    BY <1>0, <2>4 DEF Seeded
  <2>6. n \in Latest(id)
    BY <2>3, <2>4, <2>5 DEF Latest
  <2> QED
    BY <2>2, <2>3, <2>5, <2>6 DEF Told
<1> QED
  BY <1>2, <1>3, CallbackParts

\* Whatever the requests and however they interleave, each change queues its
\* callback with its event, and the last callback of a shipment carries the
\* shipment as it is.
THEOREM CallbacksTellTheState == Spec => []CallbacksCurrent
<1>1. ASSUME IInv, CallbacksCurrent, [Next]_vars PROVE CallbacksCurrent'
  BY <1>1, CallbackStep
<1> QED
  BY <1>1, CallbackInit, Inductive, PTL DEF Spec
=============================================================================
