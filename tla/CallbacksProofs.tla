---------------------------- MODULE CallbacksProofs ----------------------------
(***************************************************************************)
(* Proofs about Callbacks, for any life cycle, any number of shipments,    *)
(* events, dispatchers and faults: joining the service to the outbox       *)
(* breaks neither, and the application catches up.  With one dispatcher,   *)
(* callbacks overtake each other by failures alone.                        *)
(***************************************************************************)
EXTENDS Callbacks, OutboxProofs

Reported(ship) ==
  \E i \in DOMAIN log : log[i].status = book[ship].status /\ LastLine(ship, i)

LedgerTyped ==
  /\ book \in Seq(Ledger!Entry) /\ log \in Seq(Ledger!Line)
  /\ Len(book) <= Len(log)
  /\ \A i \in DOMAIN log : i \in RowId /\ log[i].ship \in DOMAIN book

\* The lines and the rows of the table are the same, and the application has
\* seen nothing else.
Joined ==
  \A id \in RowId : (row[id].status # "absent" \/ seen[id].accepted > 0) => id \in DOMAIN log

\* What the application knows: a line of the shipment, no older than any line it
\* has accepted.
ViewOK ==
  /\ newest \in [RowId -> Nat]
  /\ \A ship \in RowId :
       newest[ship] # 0 => newest[ship] \in DOMAIN log /\ log[newest[ship]].ship = ship
  /\ \A i \in DOMAIN log : seen[i].accepted > 0 => newest[log[i].ship] >= i

ViewInv ==
  LedgerTyped /\ Joined /\ ViewOK /\ \A ship \in DOMAIN book : Reported(ship)

-----------------------------------------------------------------------------
\* What any step of the ledger does: a line about one entry, which has the
\* status the line reports.
LEMMA LedgerGrows ==
  ASSUME LedgerTyped, Ledger!Change
  PROVE  \E ship \in Nat, status \in Status :
           /\ log' = Append(log, [ship |-> ship, status |-> status])
           /\ book' \in Seq(Ledger!Entry) /\ Len(book') <= Len(book) + 1
           /\ DOMAIN book \subseteq DOMAIN book'
           /\ ship \in DOMAIN book' /\ book'[ship].status = status
           /\ \A s \in DOMAIN book' : s # ship => s \in DOMAIN book /\ book'[s] = book[s]
<1>1. /\ Len(book) \in Nat /\ DOMAIN book = 1 .. Len(book)
      /\ \A s \in DOMAIN book : book[s] \in Ledger!Entry /\ s \in Nat
      /\ book \in [1 .. Len(book) -> Ledger!Entry]
  BY LenProperties DEF LedgerTyped
<1>2. ASSUME NEW isReturn \in BOOLEAN, NEW status \in Opening, Ledger!Open(isReturn, status)
      PROVE  \E ship \in Nat, st \in Status :
               /\ log' = Append(log, [ship |-> ship, status |-> st])
               /\ book' \in Seq(Ledger!Entry) /\ Len(book') <= Len(book) + 1
               /\ DOMAIN book \subseteq DOMAIN book'
               /\ ship \in DOMAIN book' /\ book'[ship].status = st
               /\ \A s \in DOMAIN book' : s # ship => s \in DOMAIN book /\ book'[s] = book[s]
  <2> DEFINE e == [isReturn |-> isReturn, status |-> status, version |-> 1]
  <2>1. e \in Ledger!Entry /\ e.status = status /\ status \in Status
    BY CallbacksAssumption DEF Ledger!Entry
  <2>2. book' = Append(book, e) /\ log' = Append(log, [ship |-> Len(book) + 1, status |-> status])
    BY <1>2 DEF Ledger!Open, Ledger!Write
  <2> HIDE DEF e
  <2>3. /\ book' \in Seq(Ledger!Entry) /\ Len(book') = Len(book) + 1
        /\ DOMAIN book' = 1 .. (Len(book) + 1)
        /\ \A i \in 1 .. Len(book) : book'[i] = book[i]
        /\ book'[Len(book) + 1] = e
    BY <2>1, <2>2, AppendProperties, LenProperties DEF LedgerTyped
  <2>4. /\ Len(book) + 1 \in Nat /\ Len(book) + 1 \in DOMAIN book'
        /\ DOMAIN book \subseteq DOMAIN book' /\ Len(book') <= Len(book) + 1
        /\ \A s \in DOMAIN book' : s # Len(book) + 1 => s \in DOMAIN book /\ book'[s] = book[s]
    BY <1>1, <2>3
  <2>5. book'[Len(book) + 1].status = status
    BY <2>1, <2>3
  <2> QED
    BY <2>1, <2>2, <2>3, <2>4, <2>5
<1>3. ASSUME NEW id \in DOMAIN book, NEW e \in Ledger!Entry, book' = [book EXCEPT ![id] = e],
             log' = Append(log, [ship |-> id, status |-> e.status])
      PROVE  \E ship \in Nat, st \in Status :
               /\ log' = Append(log, [ship |-> ship, status |-> st])
               /\ book' \in Seq(Ledger!Entry) /\ Len(book') <= Len(book) + 1
               /\ DOMAIN book \subseteq DOMAIN book'
               /\ ship \in DOMAIN book' /\ book'[ship].status = st
               /\ \A s \in DOMAIN book' : s # ship => s \in DOMAIN book /\ book'[s] = book[s]
  <2>1. e.status \in Status /\ id \in Nat
    BY <1>1 DEF Ledger!Entry
  <2>2. book' \in [1 .. Len(book) -> Ledger!Entry] /\ DOMAIN book' = 1 .. Len(book)
    BY <1>1, <1>3
  <2>3. book' \in Seq(Ledger!Entry)
    BY <1>1, <2>2, SeqDef
  <2>4. Len(book') = Len(book)
    BY <1>1, <2>2, <2>3, LenProperties
  <2>5. /\ book'[id] = e /\ DOMAIN book' = DOMAIN book
        /\ \A s \in DOMAIN book' : s # id => s \in DOMAIN book /\ book'[s] = book[s]
    BY <1>3
  <2>6. Len(book') <= Len(book) + 1
    BY <1>1, <2>4
  <2> QED
    BY <1>3, <2>1, <2>3, <2>5, <2>6
<1>4. ASSUME NEW id \in DOMAIN book PROVE book[id] \in Ledger!Entry /\ book[id].version + 1 \in Nat
  BY <1>1 DEF Ledger!Entry
<1>5. ASSUME NEW id \in DOMAIN book, NEW next \in Status, Ledger!Advance(id, next)
      PROVE  \E e \in Ledger!Entry : /\ book' = [book EXCEPT ![id] = e]
                                     /\ log' = Append(log, [ship |-> id, status |-> e.status])
  <2> DEFINE v == book[id].version + 1
             e == [book[id] EXCEPT !.status = next, !.version = v]
  <2>1. v \in Nat /\ book[id] \in Ledger!Entry
    BY <1>4
  <2>2. book' = [book EXCEPT ![id] = e]
    BY <1>5 DEF Ledger!Advance
  <2> HIDE DEF v
  <2>3. e \in Ledger!Entry /\ e.status = next
    BY <2>1 DEF Ledger!Entry
  <2>4. log' = Append(log, [ship |-> id, status |-> next])
    BY <1>5 DEF Ledger!Advance, Ledger!Write
  <2> QED
    BY <2>2, <2>3, <2>4
<1>6. ASSUME NEW id \in DOMAIN book, Ledger!Amend(id)
      PROVE  \E e \in Ledger!Entry : /\ book' = [book EXCEPT ![id] = e]
                                     /\ log' = Append(log, [ship |-> id, status |-> e.status])
  <2> DEFINE v == book[id].version + 1
             e == [book[id] EXCEPT !.version = v]
  <2>1. v \in Nat /\ book[id] \in Ledger!Entry
    BY <1>4
  <2>2. book' = [book EXCEPT ![id] = e]
    BY <1>6 DEF Ledger!Amend
  <2> HIDE DEF v
  <2>3. e \in Ledger!Entry /\ e.status = book[id].status
    BY <2>1 DEF Ledger!Entry
  <2>4. log' = Append(log, [ship |-> id, status |-> book[id].status])
    BY <1>6 DEF Ledger!Amend, Ledger!Write
  <2> QED
    BY <2>2, <2>3, <2>4
<1>7. ASSUME NEW id \in DOMAIN book, Ledger!Remark(id)
      PROVE  \E e \in Ledger!Entry : /\ book' = [book EXCEPT ![id] = e]
                                     /\ log' = Append(log, [ship |-> id, status |-> e.status])
  <2>1. book' = [book EXCEPT ![id] = book[id]]
    BY <1>1, <1>7 DEF Ledger!Remark
  <2> QED
    BY <1>4, <1>7, <2>1 DEF Ledger!Remark, Ledger!Write
<1> QED
  BY <1>2, <1>3, <1>5, <1>6, <1>7 DEF Ledger!Change

-----------------------------------------------------------------------------
\* The outbox alone adds no row to its table, and nothing but a post changes
\* what was accepted.
LEMMA RowsStay ==
  ASSUME IInv, Tick \/ \E d \in Dispatcher :
                 Claim(d) \/ Mark(d) \/ MarkFails(d) \/ Crash(d) \/ Restart(d)
  PROVE  \A id \in RowId : /\ row'[id].status # "absent" => row[id].status # "absent"
                           /\ seen'[id].accepted = seen[id].accepted
<1>0. row \in [RowId -> Row] /\ seen \in [RowId -> Seen]
  BY Types DEF IInv
<1>1. ASSUME NEW d \in Dispatcher, Claim(d), NEW id \in RowId
      PROVE  /\ row'[id].status # "absent" => row[id].status # "absent"
             /\ seen'[id].accepted = seen[id].accepted
  <2>1. PICK ids \in Queue(Released) :
          /\ ids # <<>>
          /\ row' = [i \in RowId |->
               IF i \in Ids(ids)
               THEN [Released[i] EXCEPT !.status = "processing", !.attempts = @ + 1, !.age = 0]
               ELSE Released[i]]
          /\ seen' = [i \in RowId |->
               IF Stale(i) THEN [seen[i] EXCEPT !.recovered = @ + 1] ELSE seen[i]]
    BY <1>1 DEF Claim
  <2>2. seen'[id].accepted = seen[id].accepted
    BY <1>0, <2>1 DEF Seen
  <2>3. Released[id].status # "absent" => row[id].status # "absent"
    BY ReleasedTypes DEF Stale
  <2>4. id \in Ids(ids) => Released[id].status = "pending"
    <3> SUFFICES ASSUME NEW i \in DOMAIN ids PROVE Released[ids[i]].status = "pending"
      BY DEF Ids
    <3>1. ids[i] \in Due(Released)
      BY <2>1, ReleasedTypes, QueueTypes
    <3> QED
      BY <3>1 DEF Due
  <2>5. id \notin Ids(ids) => row'[id] = Released[id]
    BY <2>1
  <2> QED
    BY <2>2, <2>3, <2>4, <2>5
<1>2. ASSUME NEW d \in Dispatcher, Mark(d), NEW id \in RowId
      PROVE  /\ row'[id].status # "absent" => row[id].status # "absent"
             /\ seen'[id].accepted = seen[id].accepted
  <2> DEFINE head == Head(disp[d].batch).id
  <2>1. disp[d].phase = "mark" /\ seen' = seen
    BY <1>2 DEF Mark, MarkDelivered, MarkRetry
  <2>2. head \in RowId /\ row[head].status = "processing"
    BY <2>1, HeadEntry DEF EntryOK, Entry
  <2>3. \E status, wait : Write(head, status, wait)
    BY <1>2 DEF Mark, MarkDelivered, MarkRetry
  <2>4. id # head => row'[id] = row[id]
    BY <1>0, <2>3 DEF Write
  <2> QED
    BY <2>1, <2>2, <2>4
<1>3. ASSUME Tick, NEW id \in RowId
      PROVE  /\ row'[id].status # "absent" => row[id].status # "absent"
             /\ seen'[id].accepted = seen[id].accepted
  <2>1. row[id].status = "absent" => row'[id] = row[id]
    BY <1>0, <1>3 DEF Tick
  <2>2. seen' = seen
    BY <1>3 DEF Tick
  <2> QED
    BY <2>1, <2>2
<1>4. ASSUME NEW d \in Dispatcher, MarkFails(d) \/ Crash(d) \/ Restart(d)
      PROVE  row' = row /\ seen' = seen
  BY <1>4 DEF MarkFails, Crash, Restart
<1> QED
  BY <1>1, <1>2, <1>3, <1>4

\* The callback posted is the head of the batch; no other changes.
LEMMA PostSeen ==
  ASSUME IInv, NEW d \in Dispatcher, Post(d)
  PROVE  LET line == Head(disp[d].batch).id IN
         /\ line \in RowId /\ row[line].status = "processing" /\ row' = row
         /\ \A id \in RowId : id # line => seen'[id] = seen[id]
<1> DEFINE line == Head(disp[d].batch).id
<1>1. line \in RowId /\ row[line].status = "processing"
  BY HeadEntry DEF Post, EntryOK, Entry
<1>2. \E s : seen' = [seen EXCEPT ![line] = s]
  BY DEF Post
<1>3. seen \in [RowId -> Seen] /\ row' = row
  BY Types DEF IInv, Post
<1> QED
  BY <1>1, <1>2, <1>3

-----------------------------------------------------------------------------
LEMMA ViewInit == CallbacksInit => ViewInv
<1> SUFFICES ASSUME CallbacksInit PROVE ViewInv
  OBVIOUS
<1>1. book = <<>> /\ log = <<>> /\ newest = [ship \in RowId |-> 0]
  BY DEF CallbacksInit
<1>2. DOMAIN book = {} /\ DOMAIN log = {} /\ LedgerTyped
  BY <1>1 DEF LedgerTyped
<1>3. Joined
  BY DEF CallbacksInit, Init, Joined, NoRow, Unseen
<1> QED
  BY <1>1, <1>2, <1>3 DEF ViewInv, ViewOK

\* Nothing of the ledger and the view changes, and no row is added.
LEMMA ViewStays ==
  ASSUME ViewInv, UNCHANGED <<book, log, newest>>,
         \A id \in RowId : /\ row'[id].status # "absent" => row[id].status # "absent"
                           /\ seen'[id].accepted = seen[id].accepted
  PROVE  ViewInv'
<1>1. LedgerTyped' /\ \A ship \in DOMAIN book' : Reported(ship)'
  BY DEF ViewInv, LedgerTyped, Reported, LastLine
<1>2. Joined'
  BY DEF ViewInv, Joined
<1>3. ViewOK'
  BY DEF ViewInv, ViewOK, LedgerTyped
<1> QED
  BY <1>1, <1>2, <1>3 DEF ViewInv

LEMMA RecordOK ==
  ASSUME IInv, ViewInv, Record
  PROVE  ViewInv'
<1> DEFINE n == Len(log) + 1
<1>1. PICK ship \in Nat, status \in Status :
        /\ log' = Append(log, [ship |-> ship, status |-> status])
        /\ book' \in Seq(Ledger!Entry) /\ Len(book') <= Len(book) + 1
        /\ DOMAIN book \subseteq DOMAIN book'
        /\ ship \in DOMAIN book' /\ book'[ship].status = status
        /\ \A s \in DOMAIN book' : s # ship => s \in DOMAIN book /\ book'[s] = book[s]
  BY LedgerGrows DEF Record, ViewInv
<1>2. /\ Len(log) \in Nat /\ DOMAIN log = 1 .. Len(log) /\ log' \in Seq(Ledger!Line)
      /\ Len(log') = n /\ DOMAIN log' = 1 .. n
      /\ \A i \in 1 .. Len(log) : log'[i] = log[i]
      /\ log'[n] = [ship |-> ship, status |-> status]
  <2> DEFINE line == [ship |-> ship, status |-> status]
  <2>1. line \in Ledger!Line /\ log \in Seq(Ledger!Line) /\ log' = Append(log, line)
    BY <1>1 DEF Ledger!Line, ViewInv, LedgerTyped
  <2> HIDE DEF line
  <2>2. /\ Len(log) \in Nat /\ DOMAIN log = 1 .. Len(log) /\ log' \in Seq(Ledger!Line)
        /\ Len(log') = n /\ DOMAIN log' = 1 .. n
        /\ \A i \in 1 .. Len(log) : log'[i] = log[i]
        /\ log'[n] = line
    BY <2>1, AppendProperties, LenProperties
  <2> QED
    BY <2>2 DEF line
<1>3. /\ n \in RowId /\ Enqueue(n) /\ newest' = newest
  BY DEF Record, view
<1>4. /\ n \notin DOMAIN log /\ DOMAIN log' = DOMAIN log \cup {n}
      /\ \A i \in DOMAIN log : i \in Nat /\ i < n /\ log'[i] = log[i]
      /\ log'[n].ship = ship /\ log'[n].status = status /\ n \in Nat
  BY <1>2
<1>5. /\ \A id \in RowId : id # n => row'[id] = row[id]
      /\ seen' = seen
  BY <1>3, Types DEF IInv, Enqueue
<1>6. LedgerTyped'
  <2>1. Len(book') <= Len(log')
    <3>1. Len(book) \in Nat /\ Len(book') \in Nat /\ Len(book) <= Len(log)
      BY <1>1, LenProperties DEF ViewInv, LedgerTyped
    <3> QED
      BY <1>1, <1>2, <3>1
  <2>2. \A i \in DOMAIN log' : i \in RowId /\ log'[i].ship \in DOMAIN book'
    BY <1>1, <1>3, <1>4 DEF ViewInv, LedgerTyped
  <2> QED
    BY <1>1, <1>2, <2>1, <2>2 DEF LedgerTyped
<1> HIDE DEF n
<1>7. Joined'
  BY <1>4, <1>5 DEF ViewInv, Joined
<1>8. seen[n].accepted = 0 \/ ~(seen[n].accepted > 0)
  BY <1>3, <1>4 DEF ViewInv, Joined
<1>9. ViewOK'
  <2>1. \A s \in RowId : newest'[s] # 0 =>
          newest'[s] \in DOMAIN log' /\ log'[newest'[s]].ship = s
    BY <1>3, <1>4 DEF ViewInv, ViewOK
  <2>2. ASSUME NEW i \in DOMAIN log', seen'[i].accepted > 0 PROVE newest'[log'[i].ship] >= i
    <3>1. i \in DOMAIN log
      BY <1>3, <1>4, <1>5, <2>2 DEF ViewInv, Joined
    <3> QED
      BY <1>3, <1>4, <1>5, <2>2, <3>1 DEF ViewInv, ViewOK
  <2> QED
    BY <1>3, <2>1, <2>2 DEF ViewInv, ViewOK
<1>10. ASSUME NEW s \in DOMAIN book' PROVE Reported(s)'
  <2>1. CASE s = ship
    <3>1. n \in DOMAIN log' /\ log'[n].status = book'[s].status /\ log'[n].ship = s
      BY <1>1, <1>4, <2>1
    <3>2. \A j \in DOMAIN log' : j <= n
      BY <1>4
    <3> QED
      BY <3>1, <3>2 DEF Reported, LastLine
  <2>2. CASE s # ship
    <3>1. s \in DOMAIN book /\ book'[s] = book[s]
      BY <1>1, <2>2
    <3>2. PICK i \in DOMAIN log : log[i].status = book[s].status /\ LastLine(s, i)
      BY <3>1 DEF ViewInv, Reported
    <3>3. i \in DOMAIN log' /\ log'[i].status = book'[s].status /\ LastLine(s, i)'
      BY <1>4, <2>2, <3>1, <3>2 DEF LastLine
    <3> QED
      BY <3>3 DEF Reported
  <2> QED
    BY <2>1, <2>2
<1> QED
  BY <1>6, <1>7, <1>9, <1>10 DEF ViewInv

LEMMA DeliverOK ==
  ASSUME IInv, ViewInv, NEW d \in Dispatcher, Deliver(d)
  PROVE  ViewInv'
<1> DEFINE line == Head(disp[d].batch).id
           ship == log[line].ship
<1>1. /\ line \in RowId /\ row[line].status = "processing" /\ row' = row
      /\ \A id \in RowId : id # line => seen'[id] = seen[id]
  BY PostSeen DEF Deliver
<1>2. UNCHANGED <<book, log>>
  BY DEF Deliver, service
<1>3. line \in DOMAIN log
  BY <1>1 DEF ViewInv, Joined
<1>4. /\ DOMAIN book \subseteq RowId /\ ship \in RowId
      /\ \A i \in DOMAIN log : i \in Nat
  <2>1. /\ Len(book) \in Nat /\ Len(log) \in Nat /\ Len(book) <= Len(log)
        /\ DOMAIN book = 1 .. Len(book) /\ DOMAIN log = 1 .. Len(log)
    BY LenProperties DEF ViewInv, LedgerTyped
  <2>2. DOMAIN book \subseteq DOMAIN log
    BY <2>1
  <2> QED
    BY <1>3, <2>1, <2>2 DEF ViewInv, LedgerTyped
<1>5. LedgerTyped' /\ \A s \in DOMAIN book' : Reported(s)'
  BY <1>2 DEF ViewInv, LedgerTyped, Reported, LastLine
<1>6. Joined'
  BY <1>1, <1>2, <1>3 DEF ViewInv, Joined
<1>7. CASE seen'[line].accepted > seen[line].accepted
  <2>1. newest' = [newest EXCEPT ![ship] = IF line > newest[ship] THEN line ELSE newest[ship]]
    BY <1>7 DEF Deliver
  <2>2. newest \in [RowId -> Nat] /\ line \in Nat
    BY <1>3, <1>4 DEF ViewInv, ViewOK
  <2> HIDE DEF line, ship
  <2>3. /\ newest' \in [RowId -> Nat] /\ newest'[ship] >= line
        /\ newest'[ship] = line \/ newest'[ship] = newest[ship]
        /\ \A s \in RowId : newest'[s] >= newest[s]
        /\ \A s \in RowId : s # ship => newest'[s] = newest[s]
    BY <1>4, <2>1, <2>2
  <2>4. log[line].ship = ship
    BY DEF ship
  <2>5. \A s \in RowId : newest'[s] # 0 => newest'[s] \in DOMAIN log' /\ log'[newest'[s]].ship = s
    BY <1>2, <1>3, <1>4, <2>3, <2>4 DEF ViewInv, ViewOK
  <2>6. ASSUME NEW i \in DOMAIN log', seen'[i].accepted > 0 PROVE newest'[log'[i].ship] >= i
    <3>1. i \in DOMAIN log /\ i \in RowId /\ i \in Nat /\ log[i].ship \in RowId /\ log'[i] = log[i]
      BY <1>2, <1>4, <2>6 DEF ViewInv, LedgerTyped
    <3>2. CASE i = line
      BY <2>3, <2>4, <3>1, <3>2
    <3>3. CASE i # line
      <4>1. newest[log[i].ship] >= i
        BY <1>1, <2>6, <3>1, <3>3 DEF ViewInv, ViewOK
      <4>2. newest'[log[i].ship] >= newest[log[i].ship] /\ newest'[log[i].ship] \in Nat
            /\ newest[log[i].ship] \in Nat
        BY <2>2, <2>3, <3>1
      <4> QED
        BY <3>1, <4>1, <4>2
    <3> QED
      BY <3>2, <3>3
  <2>7. ViewOK'
    BY <2>3, <2>5, <2>6 DEF ViewOK
  <2> QED
    BY <1>5, <1>6, <2>7 DEF ViewInv
<1>8. CASE ~(seen'[line].accepted > seen[line].accepted)
  <2>1. newest' = newest
    BY <1>8 DEF Deliver, view
  <2>2. seen[line].accepted \in Nat /\ seen'[line].accepted \in Nat
    <3>1. IInv'
      BY PostOK DEF Deliver
    <3> QED
      BY <1>1, <3>1, Types DEF IInv, TypeOK
  <2>3. ~(seen'[line].accepted > seen[line].accepted)
    BY <1>8
  <2> HIDE DEF line, ship
  <2>4. \A i \in DOMAIN log : seen'[i].accepted > 0 => seen[i].accepted > 0
    <3> SUFFICES ASSUME NEW i \in DOMAIN log, seen'[i].accepted > 0 PROVE seen[i].accepted > 0
      OBVIOUS
    <3>1. CASE i = line
      BY <2>2, <2>3, <3>1
    <3>2. CASE i # line
      BY <1>1, <3>2 DEF ViewInv, LedgerTyped
    <3> QED
      BY <3>1, <3>2
  <2>5. ViewOK'
    BY <1>2, <2>1, <2>4 DEF ViewInv, ViewOK
  <2> QED
    BY <1>5, <1>6, <2>5 DEF ViewInv
<1> QED
  BY <1>7, <1>8

\* The system takes steps of the outbox only.
LEMMA OutboxSteps ==
  ASSUME [CallbacksNext]_allVars
  PROVE  [Next]_vars
<1>1. ASSUME NEW d \in Dispatcher, Deliver(d) \/ Work(d) PROVE Next
  BY <1>1 DEF Deliver, Work, Next
<1>2. Record => Next
  BY DEF Record, Next
<1>3. Pass => Next
  BY DEF Pass, Next
<1> QED
  BY <1>1, <1>2, <1>3 DEF CallbacksNext, allVars

LEMMA ViewStep ==
  ASSUME IInv, ViewInv, [CallbacksNext]_allVars
  PROVE  ViewInv'
<1>1. CASE UNCHANGED allVars
  <2>1. UNCHANGED <<book, log, newest>> /\ row' = row /\ seen' = seen
    BY <1>1 DEF allVars, vars, service, view
  <2> QED
    BY <2>1, ViewStays
<1>2. ASSUME Pass \/ \E d \in Dispatcher : Work(d) PROVE ViewInv'
  <2>1. UNCHANGED <<book, log, newest>>
    BY <1>2 DEF Pass, Work, service, view
  <2>2. \A id \in RowId : /\ row'[id].status # "absent" => row[id].status # "absent"
                          /\ seen'[id].accepted = seen[id].accepted
    BY <1>2, RowsStay DEF Pass, Work
  <2> QED
    BY <2>1, <2>2, ViewStays
<1> QED
  BY <1>1, <1>2, RecordOK, DeliverOK DEF CallbacksNext

LEMMA CallbacksInductive == CallbacksSpec => [](IInv /\ ViewInv)
<1>1. CallbacksInit => IInv /\ ViewInv
  BY InitOK, ViewInit DEF CallbacksInit
<1>2. ASSUME IInv, ViewInv, [CallbacksNext]_allVars PROVE IInv' /\ ViewInv'
  BY <1>2, OutboxSteps, InvStep, ViewStep
<1> QED
  BY <1>1, <1>2, PTL DEF CallbacksSpec

\* Whatever is lost, repeated or overtaken, the application has caught up with a
\* shipment once the callback of its last event is marked delivered.
THEOREM CallbacksCatchUp == CallbacksSpec => []CaughtUp
<1>1. ASSUME IInv, ViewInv PROVE CaughtUp
  <2> SUFFICES ASSUME NEW ship \in DOMAIN book, NEW line \in DOMAIN log,
                      LastLine(ship, line), row[line].status = "delivered"
               PROVE  newest[ship] \in DOMAIN log /\ log[newest[ship]].status = book[ship].status
    BY DEF CaughtUp
  <2>1. line \in RowId /\ log[line].ship = ship
    BY <1>1 DEF ViewInv, LedgerTyped, LastLine
  <2>2. seen[line].accepted > 0
    BY <1>1, <2>1 DEF IInv, RowOK
  <2>3. /\ \A i \in DOMAIN log : i \in Nat /\ i > 0
        /\ ship \in RowId
    <3>1. /\ Len(book) \in Nat /\ Len(log) \in Nat /\ Len(book) <= Len(log)
          /\ DOMAIN book = 1 .. Len(book) /\ DOMAIN log = 1 .. Len(log)
      BY <1>1, LenProperties DEF ViewInv, LedgerTyped
    <3>2. ship \in DOMAIN log
      BY <3>1
    <3> QED
      BY <1>1, <3>1, <3>2 DEF ViewInv, LedgerTyped
  <2>4. newest[ship] >= line /\ newest[ship] \in Nat
    BY <1>1, <2>1, <2>2, <2>3 DEF ViewInv, ViewOK
  <2>5. newest[ship] \in DOMAIN log /\ log[newest[ship]].ship = ship
    BY <1>1, <2>3, <2>4 DEF ViewInv, ViewOK
  <2>6. newest[ship] = line
    BY <2>3, <2>4, <2>5 DEF LastLine
  <2>7. PICK i \in DOMAIN log : log[i].status = book[ship].status /\ LastLine(ship, i)
    BY <1>1 DEF ViewInv, Reported
  <2>8. i = line
    BY <2>1, <2>3, <2>7 DEF LastLine
  <2> QED
    BY <2>5, <2>6, <2>7, <2>8
<1> QED
  BY <1>1, CallbacksInductive, PTL

-----------------------------------------------------------------------------
(***************************************************************************)
(* The order of the posts, with one dispatcher.  A row that was never      *)
(* tried is due since it was inserted, so it is claimed before the rows    *)
(* inserted after it, and posted before them.                              *)
(***************************************************************************)

\* Waits for its first attempt.
Fresh(id) == row[id].status = "pending" /\ row[id].attempts = 0

\* Never posted, and never lost by a dispatcher.
Unposted(id) == seen[id].posts = 0 /\ seen[id].recovered = 0

\* Rows are inserted in their order, and the fresh ones are the last of them and
\* have waited the longer the sooner they came.
InRow(x, y) ==
  x < y =>
    /\ row[y].status # "absent" => row[x].status # "absent"
    /\ Fresh(x) => row[y].status = "absent" \/ (Fresh(y) /\ row[x].wait <= row[y].wait)

RowTried(id) ==
  /\ Fresh(id) => row[id].wait <= 0
  /\ row[id].status = "pending" /\ row[id].attempts > 0 => ~Unposted(id)
  /\ row[id].status = "processing" => row[id].attempts > 0

Follows(d, i, id) == \E j \in DOMAIN disp[d].batch : j > i /\ disp[d].batch[j].id = id

\* No later row overtakes an entry that was never posted.
EntryFirst(d, i) ==
  LET x == disp[d].batch[i].id IN
  Unposted(x) => \A y \in RowId : x < y =>
    seen[y].posts = 0 /\ (row[y].status = "absent" \/ Fresh(y) \/ Follows(d, i, y))

HeadPosted(d) == disp[d].phase = "mark" => seen[disp[d].batch[1].id].posts > 0

OrderInv ==
  /\ \A x, y \in RowId : InRow(x, y)
  /\ \A id \in RowId : RowTried(id)
  /\ \A d \in Dispatcher : HeadPosted(d) /\ \A i \in DOMAIN disp[d].batch : EntryFirst(d, i)

LEMMA OrderInit == Init => OrderInv
<1> SUFFICES ASSUME Init PROVE OrderInv
  OBVIOUS
<1>1. /\ \A id \in RowId : row[id].status = "absent" /\ row[id].attempts = 0
      /\ \A d \in Dispatcher : disp[d].phase = "idle" /\ DOMAIN disp[d].batch = {}
  BY Rest DEF Init, NoRow
<1> QED
  BY <1>1 DEF OrderInv, InRow, RowTried, HeadPosted, EntryFirst, Fresh

\* A fresh row was never posted.
LEMMA FreshUnposted ==
  ASSUME IInv, NEW id \in RowId, row[id].status = "absent" \/ Fresh(id)
  PROVE  seen[id].posts = 0
  BY Types DEF IInv, RowOK, Fresh, Seen, Row

LEMMA OrderEnqueue ==
  ASSUME IInv, OrderInv, NEW id \in RowId, Enqueue(id)
  PROVE  OrderInv'
<1>1. /\ row[id].status = "absent" /\ UNCHANGED <<disp, seen>>
      /\ \A other \in RowId : other # id => row'[other] = row[other]
      /\ row'[id].status = "pending" /\ row'[id].attempts = 0 /\ row'[id].wait = 0
      /\ \A other \in RowId : other < id => row[other].status # "absent"
  BY Types DEF IInv, Enqueue, NoRow
<1>2. \A x \in RowId : x \in Nat /\ row[x] \in Row
  BY Types, Constants DEF IInv
<1>3. ASSUME NEW x \in RowId, NEW y \in RowId PROVE InRow(x, y)'
  <2>0. InRow(x, y) /\ RowTried(x) /\ x \in Nat /\ y \in Nat
    BY <1>2 DEF OrderInv
  <2>1. CASE x = id
    <3>1. x < y => row'[y].status = "absent"
      BY <1>1, <2>0, <2>1 DEF InRow
    <3> QED
      BY <2>0, <2>1, <1>1, <3>1 DEF InRow
  <2>2. CASE y = id /\ x # id
    <3>1. Fresh(x)' => row'[x].wait <= 0
      BY <1>1, <2>0, <2>2 DEF RowTried, Fresh
    <3>2. Fresh(y)' /\ row'[y].wait = 0
      BY <1>1, <2>2 DEF Fresh
    <3>3. x < y => row'[x].status # "absent"
      BY <1>1, <2>2
    <3> QED
      BY <3>1, <3>2, <3>3 DEF InRow
  <2>3. CASE y # id /\ x # id
    BY <1>1, <2>0, <2>3 DEF InRow, Fresh
  <2> QED
    BY <2>1, <2>2, <2>3
<1>4. ASSUME NEW x \in RowId PROVE RowTried(x)'
  BY <1>1, <1>2 DEF OrderInv, RowTried, Fresh, Unposted
<1>5. ASSUME NEW d \in Dispatcher, NEW i \in DOMAIN disp[d].batch PROVE EntryFirst(d, i)'
  BY <1>1 DEF OrderInv, EntryFirst, Unposted, Fresh, Follows
<1>6. \A d \in Dispatcher : HeadPosted(d)'
  BY <1>1 DEF OrderInv, HeadPosted
<1> QED
  BY <1>1, <1>3, <1>4, <1>5, <1>6 DEF OrderInv

\* Fresh rows grow overdue together.
LEMMA OrderTick ==
  ASSUME IInv, OrderInv, Tick
  PROVE  OrderInv'
<1>1. ASSUME NEW x \in RowId
      PROVE  /\ x \in Nat /\ row[x].wait \in Int /\ row'[x].wait \in Int
             /\ row'[x].status = row[x].status /\ row'[x].attempts = row[x].attempts
             /\ row[x].status = "pending" =>
                  row'[x].wait = IF row[x].wait > -MaxLag THEN row[x].wait - 1 ELSE row[x].wait
  <2>1. row[x] \in Row /\ x \in Nat /\ row[x].wait \in Int /\ row[x].wait - 1 \in Int
    BY Types, Constants DEF IInv, Row
  <2>2. CASE row[x].status = "pending"
    <3>1. row'[x] = [row[x] EXCEPT !.wait = IF row[x].wait > -MaxLag THEN row[x].wait - 1 ELSE row[x].wait]
      BY <2>2 DEF Tick
    <3> QED
      BY <2>1, <3>1 DEF Row
  <2>3. CASE row[x].status = "processing"
    <3>1. row'[x] = [row[x] EXCEPT !.age = IF @ < StaleAfter THEN @ + 1 ELSE @]
      BY <2>3 DEF Tick
    <3> QED
      BY <2>1, <2>3, <3>1 DEF Row
  <2>4. CASE row[x].status \notin {"pending", "processing"}
    BY <2>1, <2>4 DEF Tick
  <2> QED
    BY <2>2, <2>3, <2>4
<1>2. /\ UNCHANGED seen
      /\ \A d \in Dispatcher : disp'[d].batch = disp[d].batch /\ disp'[d].phase = disp[d].phase
  <2>1. \A d \in Dispatcher : disp[d] \in Disp
    BY Types DEF IInv
  <2> QED
    BY <2>1 DEF Tick, Disp
<1>3. \A x \in RowId : Fresh(x)' <=> Fresh(x)
  BY <1>1 DEF Fresh
<1>4. ASSUME NEW x \in RowId, NEW y \in RowId PROVE InRow(x, y)'
  <2>1. InRow(x, y) /\ x \in Nat /\ y \in Nat
    BY <1>1 DEF OrderInv
  <2>2. ASSUME Fresh(x), Fresh(y), row[x].wait <= row[y].wait PROVE row'[x].wait <= row'[y].wait
    BY <1>1, <2>2, Constants DEF Fresh
  <2> QED
    BY <1>1, <1>3, <2>1, <2>2 DEF InRow
<1>5. ASSUME NEW x \in RowId PROVE RowTried(x)'
  <2>1. RowTried(x)
    BY DEF OrderInv
  <2>2. Fresh(x) => row'[x].wait <= 0
    BY <1>1, <2>1, Constants DEF RowTried, Fresh
  <2> QED
    BY <1>1, <1>2, <1>3, <2>1, <2>2 DEF RowTried, Unposted
<1>6. ASSUME NEW d \in Dispatcher, NEW i \in DOMAIN disp'[d].batch PROVE EntryFirst(d, i)'
  <2>1. EntryFirst(d, i) /\ disp'[d].batch = disp[d].batch
    BY <1>2, <1>6 DEF OrderInv
  <2> QED
    BY <1>1, <1>2, <1>3, <2>1 DEF EntryFirst, Unposted, Follows
<1>7. \A d \in Dispatcher : HeadPosted(d)'
  BY <1>2 DEF OrderInv, HeadPosted
<1> QED
  BY <1>4, <1>5, <1>6, <1>7 DEF OrderInv

\* A row that one dispatcher alone could hold, at the head of its batch, comes
\* before none of the others that were never posted.
LEMMA HeadAlone ==
  ASSUME IInv, OrderInv, OneDispatcher, NEW d \in Dispatcher, disp[d].phase \in {"post", "mark"},
         NEW e \in Dispatcher, NEW i \in DOMAIN disp[e].batch, i # 1, Unposted(disp[e].batch[i].id)
  PROVE  ~(disp[e].batch[i].id < disp[d].batch[1].id)
<1>1. e = d /\ i \in Nat /\ i >= 1
  BY Batches DEF OneDispatcher, IInv
<1>2. PICK head \in RowId : head = disp[d].batch[1].id /\ 1 \in DOMAIN disp[d].batch
  BY HeadEntry DEF Entry
<1>3. row[head].status = "processing"
  BY <1>2, HeldFresh
<1>4. ASSUME Follows(d, i, head) PROVE FALSE
  <2>1. PICK j \in DOMAIN disp[d].batch : j > i /\ disp[d].batch[j].id = head
    BY <1>4 DEF Follows
  <2>2. j = 1
    BY <1>2, <2>1 DEF IInv, Exclusive
  <2> QED
    BY <1>1, <2>1, <2>2
<1>5. EntryFirst(d, i)
  BY <1>1 DEF OrderInv
<1> QED
  BY <1>1, <1>2, <1>3, <1>4, <1>5 DEF EntryFirst, Fresh

LEMMA OrderPost ==
  ASSUME IInv, OrderInv, OneDispatcher, NEW d \in Dispatcher, Post(d)
  PROVE  OrderInv'
<1>1. PICK head \in RowId : head = Head(disp[d].batch).id
  BY HeadEntry DEF Post, Entry
<1>2. /\ disp[d].phase = "post" /\ row' = row /\ head = disp[d].batch[1].id
      /\ \A id \in RowId : id # head => seen'[id] = seen[id]
      /\ seen[head] \in Seen
  <2>1. disp[d].phase = "post"
    BY DEF Post
  <2>2. Head(disp[d].batch) = disp[d].batch[1]
    BY <2>1, HeadEntry
  <2>3. row' = row /\ \A id \in RowId : id # head => seen'[id] = seen[id]
    BY <1>1, PostSeen
  <2>4. seen[head] \in Seen
    BY Types DEF IInv
  <2> QED
    BY <1>1, <2>1, <2>2, <2>3, <2>4
<1>3. /\ seen'[head].posts = seen[head].posts + 1 /\ seen'[head].recovered = seen[head].recovered
      /\ \A e \in Dispatcher : disp'[e].batch = disp[e].batch
  <2>1. PICK outcome \in {"success", "retryable", "permanent"}, after \in Seen :
          /\ disp' = [disp EXCEPT ![d].phase = "mark", ![d].outcome = outcome]
          /\ seen' = [seen EXCEPT ![head] = after]
          /\ after.posts = seen[head].posts + 1 /\ after.recovered = seen[head].recovered
    BY <1>1, Posted
  <2> QED
    BY <2>1, Types DEF IInv, Disp
<1>4. seen'[head].posts > 0 /\ ~(seen'[head].posts = 0)
  BY <1>2, <1>3 DEF Seen
<1>6. \A x, y \in RowId : InRow(x, y)'
  BY <1>2 DEF OrderInv, InRow, Fresh
<1>7. \A x \in RowId : RowTried(x)'
  BY <1>2, <1>4 DEF OrderInv, RowTried, Fresh, Unposted
<1>8. \A e \in Dispatcher : HeadPosted(e)'
  BY <1>2, <1>4, <1>3 DEF OneDispatcher, HeadPosted
<1>9. ASSUME NEW e \in Dispatcher, NEW i \in DOMAIN disp[e].batch PROVE EntryFirst(e, i)'
  <2> DEFINE x == disp[e].batch[i].id
  <2> SUFFICES ASSUME seen'[x].posts = 0, seen'[x].recovered = 0, NEW y \in RowId, x < y
               PROVE  seen'[y].posts = 0 /\ (row'[y].status = "absent" \/ Fresh(y)' \/ Follows(e, i, y)')
    BY <1>3 DEF EntryFirst, Unposted
  <2>1. x \in RowId /\ x # head
    BY <1>4, HeldFresh
  <2>2. Unposted(x) /\ i # 1
    BY <1>2, <2>1 DEF Unposted, OneDispatcher
  <2>3. y # head
    BY <1>2, <2>2, HeadAlone
  <2>4. EntryFirst(e, i)
    BY DEF OrderInv
  <2>5. seen[y].posts = 0 /\ (row[y].status = "absent" \/ Fresh(y) \/ Follows(e, i, y))
    BY <2>2, <2>4 DEF EntryFirst
  <2> QED
    BY <1>2, <1>3, <2>3, <2>5 DEF Fresh, Follows
<1> QED
  BY <1>3, <1>6, <1>7, <1>8, <1>9 DEF OrderInv

\* The head is done with, and written or not.
LEMMA OrderDone ==
  ASSUME IInv, OrderInv, OneDispatcher, NEW d \in Dispatcher, disp[d].phase = "mark", NextInBatch(d),
         UNCHANGED seen, NEW head \in RowId, head = Head(disp[d].batch).id,
         row'[head].attempts = row[head].attempts, row'[head].status # "absent",
         \A id \in RowId : id # head => row'[id] = row[id]
  PROVE  OrderInv'
<1>1. /\ disp'[d].phase \in {"idle", "post"}
      /\ \A e \in Dispatcher : e # d => disp'[e] = disp[e]
      /\ \A i \in DOMAIN disp'[d].batch :
           i \in Nat \ {0} /\ i + 1 \in DOMAIN disp[d].batch /\ disp'[d].batch[i] = disp[d].batch[i + 1]
      /\ Len(disp'[d].batch) = Len(disp[d].batch) - 1
      /\ disp' \in [Dispatcher -> Disp]
  BY Moved
<1>2. /\ head = disp[d].batch[1].id /\ row[head].status = "processing" /\ EntryOK(d, 1)
      /\ row[head] \in Row /\ seen[head] \in Seen
  BY HeadEntry, HeldFresh, Types DEF IInv
<1>3. seen[head].posts > 0 /\ ~(seen[head].posts = 0)
  BY <1>2 DEF OrderInv, HeadPosted, Seen
<1>4. row[head].attempts > 0 /\ ~(row[head].attempts = 0)
  BY <1>2, <1>3 DEF IInv, RowOK, Seen, Row
<1>5. \A x \in RowId : Fresh(x)' <=> Fresh(x)
  BY <1>2, <1>4 DEF Fresh
<1>6. \A x, y \in RowId : InRow(x, y)'
  <2> SUFFICES ASSUME NEW x \in RowId, NEW y \in RowId, x < y PROVE InRow(x, y)'
    BY DEF InRow
  <2>1. InRow(x, y)
    BY DEF OrderInv
  <2>2. row'[x].status = "absent" <=> row[x].status = "absent"
    BY <1>2
  <2>3. row'[y].status = "absent" <=> row[y].status = "absent"
    BY <1>2
  <2>4. Fresh(x) => row'[x] = row[x]
    BY <1>2 DEF Fresh
  <2>5. Fresh(y) => row'[y] = row[y]
    BY <1>2 DEF Fresh
  <2> QED
    BY <1>5, <2>1, <2>2, <2>3, <2>4, <2>5 DEF InRow
<1>7. \A x \in RowId : RowTried(x)'
  BY <1>3, <1>4 DEF OrderInv, RowTried, Fresh, Unposted
<1>8. \A e \in Dispatcher : HeadPosted(e)'
  BY <1>1 DEF OneDispatcher, HeadPosted
<1>9. ASSUME NEW e \in Dispatcher, NEW i \in DOMAIN disp'[e].batch PROVE EntryFirst(e, i)'
  <2> DEFINE x == disp[d].batch[i + 1].id
  <2>1. /\ e = d /\ i \in Nat \ {0} /\ i + 1 \in DOMAIN disp[d].batch
        /\ disp'[e].batch[i] = disp[d].batch[i + 1] /\ i + 1 # 1
    BY <1>1 DEF OneDispatcher
  <2> SUFFICES ASSUME Unposted(x), NEW y \in RowId, x < y
               PROVE  seen[y].posts = 0 /\ (row'[y].status = "absent" \/ Fresh(y)' \/ Follows(d, i, y)')
    BY <2>1 DEF EntryFirst, Unposted
  <2>2. y # head
    BY <1>2, <2>1, HeadAlone
  <2>3. EntryFirst(d, i + 1)
    BY <2>1 DEF OrderInv
  <2>4. seen[y].posts = 0 /\ (row[y].status = "absent" \/ Fresh(y) \/ Follows(d, i + 1, y))
    BY <2>3 DEF EntryFirst
  <2>5. ASSUME Follows(d, i + 1, y) PROVE Follows(d, i, y)'
    <3>1. PICK j \in DOMAIN disp[d].batch : j > i + 1 /\ disp[d].batch[j].id = y
      BY <2>5 DEF Follows
    <3>2. j \in Nat /\ j >= 2 /\ j <= Len(disp[d].batch) /\ Len(disp[d].batch) \in Nat
      BY <2>1, <3>1, Batches DEF IInv
    <3>3. DOMAIN disp'[d].batch = 1 .. Len(disp'[d].batch)
      BY <1>1, LenProperties DEF Disp
    <3>4. j - 1 \in DOMAIN disp'[d].batch
      BY <1>1, <3>2, <3>3
    <3>5. disp'[d].batch[j - 1] = disp[d].batch[(j - 1) + 1] /\ (j - 1) + 1 = j
      BY <1>1, <3>2, <3>4
    <3>6. j - 1 > i
      BY <2>1, <3>1, <3>2
    <3> QED
      BY <3>1, <3>4, <3>5, <3>6 DEF Follows
  <2> QED
    BY <1>5, <2>2, <2>4, <2>5
<1> QED
  BY <1>6, <1>7, <1>8, <1>9 DEF OrderInv

LEMMA OrderMark ==
  ASSUME IInv, OrderInv, OneDispatcher, NEW d \in Dispatcher, Mark(d) \/ MarkFails(d)
  PROVE  OrderInv'
<1>1. /\ disp[d].phase = "mark" /\ NextInBatch(d) /\ UNCHANGED seen
  BY DEF Mark, MarkDelivered, MarkRetry, MarkFails
<1>2. PICK head \in RowId : head = Head(disp[d].batch).id /\ row[head].status = "processing"
  BY <1>1, HeadEntry DEF Entry, EntryOK
<1>3. \/ row' = row
      \/ \E status \in {"delivered", "pending", "failed"}, wait \in Int : Write(head, status, wait)
  BY <1>2, DelayTypes DEF Mark, MarkDelivered, MarkRetry, MarkFails
<1>4. CASE row' = row
  BY <1>1, <1>2, <1>4, OrderDone
<1>5. ASSUME NEW status \in {"delivered", "pending", "failed"}, NEW wait \in Int, Write(head, status, wait)
      PROVE  OrderInv'
  <2>1. /\ \A other \in RowId : other # head => row'[other] = row[other]
        /\ row'[head].status = status /\ row'[head].attempts = row[head].attempts
    BY <1>5, Written DEF RowStatus
  <2> QED
    BY <1>1, <1>2, <2>1, OrderDone
<1> QED
  BY <1>3, <1>4, <1>5

\* An empty batch promises nothing.
LEMMA OrderCrash ==
  ASSUME IInv, OrderInv, OneDispatcher, NEW d \in Dispatcher, Crash(d) \/ Restart(d)
  PROVE  OrderInv'
<1>1. UNCHANGED <<row, seen>>
  BY DEF Crash, Restart
<1>2. PICK ph \in {"idle", "down"} : disp' = [disp EXCEPT ![d] = [Resting EXCEPT !.phase = ph]]
  <2>1. Resting = [Resting EXCEPT !.phase = "idle"]
    BY DEF Resting
  <2> QED
    BY <2>1 DEF Crash, Restart
<1>3. \A e \in Dispatcher : e = d
  BY DEF OneDispatcher
<1>4. \A e \in Dispatcher : disp'[e].phase # "mark" /\ DOMAIN disp'[e].batch = {}
  BY <1>2, <1>3, Rest, Types DEF Resting, IInv
<1>5. (\A x, y \in RowId : InRow(x, y)') /\ \A x \in RowId : RowTried(x)'
  BY <1>1 DEF OrderInv, InRow, RowTried, Fresh, Unposted
<1> QED
  BY <1>4, <1>5 DEF OrderInv, HeadPosted

\* The claim takes the fresh rows in their order, before it takes a later one.
LEMMA OrderClaim ==
  ASSUME IInv, OrderInv, OneDispatcher, NEW d \in Dispatcher, Claim(d)
  PROVE  OrderInv'
<1>1. PICK ids \in Queue(Released) :
        /\ ids # <<>>
        /\ row' = [id \in RowId |->
             IF id \in Ids(ids)
             THEN [Released[id] EXCEPT !.status = "processing", !.attempts = @ + 1, !.age = 0]
             ELSE Released[id]]
        /\ disp' = [disp EXCEPT ![d] =
             [Resting EXCEPT
                !.phase = "post",
                !.batch = [i \in DOMAIN ids |-> [id |-> ids[i], attempts |-> row[ids[i]].attempts + 1]]]]
        /\ seen' = [id \in RowId |->
             IF Stale(id) THEN [seen[id] EXCEPT !.recovered = @ + 1] ELSE seen[id]]
  BY DEF Claim
<1>2. /\ Released \in [RowId -> Row]
      /\ \A id \in RowId : /\ Released[id].attempts = row[id].attempts
                           /\ Stale(id) => Released[id].status = "pending"
                           /\ ~Stale(id) => Released[id] = row[id]
  BY ReleasedTypes
<1>3. /\ DOMAIN ids = 1 .. Len(ids) /\ Len(ids) \in Nat
      /\ \A i \in DOMAIN ids : ids[i] \in RowId /\ Released[ids[i]].status = "pending"
      /\ \A i, j \in DOMAIN ids : i < j => Before(Released, ids[i], ids[j])
      /\ \A id \in Due(Released) \ Ids(ids) : \A i \in DOMAIN ids : Before(Released, ids[i], id)
  <2>1. /\ DOMAIN ids = 1 .. Len(ids) /\ Len(ids) \in Nat
        /\ \A i \in DOMAIN ids : ids[i] \in Due(Released)
    BY <1>1, <1>2, QueueTypes
  <2>2. /\ \A i, j \in DOMAIN ids : i < j => Before(Released, ids[i], ids[j])
        /\ \A id \in Due(Released) \ Ids(ids) : \A i \in DOMAIN ids : Before(Released, ids[i], id)
    BY <1>1 DEF Queue
  <2> QED
    BY <2>1, <2>2 DEF Due
<1>4. ASSUME NEW id \in RowId
      PROVE  /\ id \in Nat /\ row[id] \in Row /\ seen[id] \in Seen
             /\ id \in Ids(ids) => /\ row'[id].status = "processing" /\ row'[id].attempts = row[id].attempts + 1
                                   /\ row[id].status = "pending" \/ Stale(id)
             /\ id \notin Ids(ids) /\ ~Stale(id) => row'[id] = row[id]
             /\ Stale(id) => ~Unposted(id)' /\ row[id].status = "processing"
             /\ id \notin Ids(ids) /\ Stale(id) => /\ row'[id].status = "pending"
                                                   /\ row'[id].attempts = row[id].attempts
             /\ ~Stale(id) => seen'[id] = seen[id]
             /\ seen'[id].posts = seen[id].posts
  <2>1. id \in Nat /\ row[id] \in Row /\ seen[id] \in Seen /\ Released[id] \in Row
    BY <1>2, Types, Constants DEF IInv
  <2>2. /\ Stale(id) => seen'[id].recovered = seen[id].recovered + 1
        /\ ~Stale(id) => seen'[id] = seen[id]
        /\ seen'[id].posts = seen[id].posts
    BY <1>1, <2>1 DEF Seen
  <2>3. Stale(id) => ~Unposted(id)'
    <3>1. seen[id].recovered \in Nat
      BY <2>1 DEF Seen
    <3> QED
      BY <2>2, <3>1 DEF Unposted
  <2>4. id \in Ids(ids) => /\ row'[id].status = "processing" /\ row'[id].attempts = row[id].attempts + 1
                           /\ Released[id].status = "pending"
    <3>1. id \in Ids(ids) => Released[id].status = "pending"
      BY <1>3 DEF Ids
    <3>2. id \in Ids(ids) => row'[id].status = "processing" /\ row'[id].attempts = Released[id].attempts + 1
      BY <1>1, <2>1 DEF Row
    <3> QED
      BY <1>2, <3>1, <3>2
  <2>5. id \notin Ids(ids) => row'[id] = Released[id]
    BY <1>1
  <2> QED
    BY <1>2, <2>1, <2>2, <2>3, <2>4, <2>5 DEF Stale
<1>5. ASSUME NEW id \in RowId
      PROVE  /\ row'[id].status = "absent" <=> row[id].status = "absent"
             /\ Fresh(id)' => Fresh(id) /\ id \notin Ids(ids) /\ row'[id] = row[id]
             /\ Fresh(id) /\ id \notin Ids(ids) => Fresh(id)' /\ row'[id] = row[id]
             /\ Fresh(id) => Released[id] = row[id] /\ id \in Due(Released)
  <2>1. RowTried(id) /\ row[id].attempts \in Nat
    BY <1>4 DEF OrderInv, Row
  <2>2. Stale(id) => row[id].attempts > 0
    BY <1>4, <2>1 DEF RowTried
  <2>3. Fresh(id) => ~Stale(id)
    BY <1>4 DEF Fresh
  <2>4. Fresh(id) => Released[id] = row[id] /\ id \in Due(Released)
    BY <1>2, <2>1, <2>3 DEF Fresh, RowTried, Due
  <2> QED
    BY <1>4, <2>1, <2>2, <2>3, <2>4 DEF Fresh
\* Of two fresh rows, the earlier is claimed first.
<1>6. ASSUME NEW x \in RowId, NEW y \in RowId, x < y, Fresh(x), Fresh(y)
      PROVE  ~Before(Released, y, x)
  <2>1. InRow(x, y) /\ row[x].wait \in Int /\ row[y].wait \in Int
    BY <1>4 DEF OrderInv, Row
  <2>2. row[x].wait <= row[y].wait
    BY <1>6, <2>1 DEF InRow, Fresh
  <2> QED
    BY <1>4, <1>5, <1>6, <2>1, <2>2 DEF Before
<1>7. ASSUME NEW x \in RowId, NEW y \in RowId, x < y, Fresh(x), x \notin Ids(ids), Fresh(y)
      PROVE  y \notin Ids(ids)
  <2> SUFFICES ASSUME NEW i \in DOMAIN ids, ids[i] = y PROVE FALSE
    BY DEF Ids
  <2>1. Before(Released, y, x)
    BY <1>3, <1>5, <1>7
  <2> QED
    BY <1>6, <1>7, <2>1
<1>8. \A x, y \in RowId : InRow(x, y)'
  <2> SUFFICES ASSUME NEW x \in RowId, NEW y \in RowId, x < y PROVE InRow(x, y)'
    BY DEF InRow
  <2>1. InRow(x, y)
    BY DEF OrderInv
  <2>2. ASSUME Fresh(x)'
        PROVE  row'[y].status = "absent" \/ (Fresh(y)' /\ row'[x].wait <= row'[y].wait)
    <3>1. Fresh(x) /\ x \notin Ids(ids) /\ row'[x] = row[x]
      BY <1>5, <2>2
    <3>2. CASE row[y].status = "absent"
      BY <1>5, <3>2
    <3>3. CASE row[y].status # "absent"
      <4>1. Fresh(y) /\ row[x].wait <= row[y].wait
        BY <2>1, <3>1, <3>3 DEF InRow
      <4>2. Fresh(y)' /\ row'[y] = row[y]
        BY <1>5, <1>7, <3>1, <4>1
      <4> QED
        BY <3>1, <4>1, <4>2
    <3> QED
      BY <3>2, <3>3
  <2> QED
    BY <1>5, <2>1, <2>2 DEF InRow
<1>9. ASSUME NEW x \in RowId PROVE RowTried(x)'
  <2>1. RowTried(x) /\ row[x].attempts \in Nat
    BY <1>4 DEF OrderInv, Row
  <2>2. CASE x \in Ids(ids)
    BY <1>4, <2>1, <2>2 DEF RowTried, Fresh
  <2>3. CASE x \notin Ids(ids) /\ Stale(x)
    BY <1>4, <1>5, <2>1, <2>3 DEF RowTried, Fresh
  <2>4. CASE x \notin Ids(ids) /\ ~Stale(x)
    BY <1>4, <2>1, <2>4 DEF RowTried, Fresh, Unposted
  <2> QED
    BY <2>2, <2>3, <2>4
<1>10. /\ disp'[d].phase = "post" /\ DOMAIN disp'[d].batch = DOMAIN ids
       /\ \A i \in DOMAIN ids : disp'[d].batch[i].id = ids[i]
  BY <1>1, Types DEF IInv, Resting
<1>11. ASSUME NEW i \in DOMAIN ids PROVE EntryFirst(d, i)'
  <2>1. PICK x \in RowId : x = ids[i] /\ x \in Ids(ids)
    BY <1>3 DEF Ids
  <2> SUFFICES ASSUME seen'[x].posts = 0, seen'[x].recovered = 0, NEW y \in RowId, x < y
               PROVE  seen'[y].posts = 0 /\ (row'[y].status = "absent" \/ Fresh(y)' \/ Follows(d, i, y)')
    BY <1>10, <2>1 DEF EntryFirst, Unposted
  <2>2. ~Stale(x) /\ row[x].status = "pending" /\ Unposted(x)
    BY <1>4, <2>1 DEF Unposted
  <2>3. Fresh(x)
    <3>1. RowTried(x) /\ row[x].attempts \in Nat
      BY <1>4 DEF OrderInv, Row
    <3> QED
      BY <2>2, <3>1 DEF RowTried, Fresh
  <2>4. row[y].status = "absent" \/ Fresh(y)
    BY <2>2, <2>3 DEF OrderInv, InRow
  <2>5. seen'[y].posts = 0
    BY <1>4, <2>4, FreshUnposted
  <2>6. ASSUME Fresh(y), y \in Ids(ids) PROVE Follows(d, i, y)'
    <3>1. PICK j \in DOMAIN ids : ids[j] = y
      BY <2>6 DEF Ids
    <3>2. ~(j < i)
      BY <1>3, <1>6, <2>1, <2>3, <2>6, <3>1
    <3>3. j # i
      BY <1>4, <2>1, <3>1
    <3>4. j > i
      BY <1>3, <3>2, <3>3
    <3> QED
      BY <1>10, <3>1, <3>4 DEF Follows
  <2> QED
    BY <1>5, <2>4, <2>5, <2>6
<1>12. \A e \in Dispatcher : e = d
  BY DEF OneDispatcher
<1> QED
  BY <1>8, <1>9, <1>10, <1>11, <1>12 DEF OrderInv, HeadPosted

LEMMA OrderStep ==
  ASSUME IInv, OrderInv, OneDispatcher, [Next]_vars
  PROVE  OrderInv'
<1>1. CASE UNCHANGED vars
  BY <1>1 DEF vars, OrderInv, InRow, RowTried, HeadPosted, EntryFirst, Fresh, Unposted, Follows
<1>2. ASSUME NEW d \in Dispatcher,
             Claim(d) \/ Post(d) \/ Mark(d) \/ MarkFails(d) \/ Crash(d) \/ Restart(d)
      PROVE  OrderInv'
  BY <1>2, OrderClaim, OrderPost, OrderMark, OrderCrash
<1> QED
  BY <1>1, <1>2, OrderEnqueue, OrderTick DEF Next

-----------------------------------------------------------------------------
\* What was posted or recovered stays so.
LEMMA SeenGrows ==
  ASSUME IInv, [Next]_vars, NEW id \in RowId
  PROVE  /\ seen[id].posts \in Nat /\ seen'[id].posts \in Nat
         /\ seen[id].recovered \in Nat /\ seen'[id].recovered \in Nat
         /\ seen'[id].posts >= seen[id].posts /\ seen'[id].recovered >= seen[id].recovered
<1>1. seen[id] \in Seen /\ seen'[id] \in Seen
  <2>1. IInv'
    BY InvStep
  <2> QED
    BY <2>1 DEF IInv, TypeOK, Seen
<1>2. ASSUME NEW d \in Dispatcher, Post(d) PROVE seen'[id].posts >= seen[id].posts /\ seen'[id].recovered >= seen[id].recovered
  <2>1. PICK head \in RowId : head = Head(disp[d].batch).id
    BY <1>2, HeadEntry DEF Post, Entry
  <2>2. PICK outcome \in {"success", "retryable", "permanent"}, after \in Seen :
          /\ disp' = [disp EXCEPT ![d].phase = "mark", ![d].outcome = outcome]
          /\ seen' = [seen EXCEPT ![head] = after]
          /\ after.posts = seen[head].posts + 1 /\ after.recovered = seen[head].recovered
    BY <1>2, <2>1, Posted
  <2>3. seen' = [seen EXCEPT ![head] = after] /\ seen \in [RowId -> Seen]
    BY <2>2, Types DEF IInv
  <2> QED
    BY <1>1, <2>2, <2>3 DEF Seen
<1>3. ASSUME NEW d \in Dispatcher, Claim(d) PROVE seen'[id].posts >= seen[id].posts /\ seen'[id].recovered >= seen[id].recovered
  <2>1. seen' = [other \in RowId |->
                   IF Stale(other) THEN [seen[other] EXCEPT !.recovered = @ + 1] ELSE seen[other]]
    BY <1>3 DEF Claim
  <2> QED
    BY <1>1, <2>1 DEF Seen
<1>4. ASSUME seen' = seen PROVE seen'[id].posts >= seen[id].posts /\ seen'[id].recovered >= seen[id].recovered
  BY <1>1, <1>4 DEF Seen
<1>5. \/ seen' = seen
      \/ \E d \in Dispatcher : Post(d) \/ Claim(d)
  BY DEF Next, vars, Enqueue, Tick, Mark, MarkDelivered, MarkRetry, MarkFails, Crash, Restart
<1> QED
  BY <1>1, <1>2, <1>3, <1>4, <1>5 DEF Seen

\* The last callback that the application accepted of a shipment is the newest,
\* unless it was posted again or lost by a dispatcher.
ShownOK ==
  /\ shown \in [RowId -> Nat]
  /\ \A ship \in RowId : newest[ship] # 0 =>
       /\ shown[ship] \in DOMAIN log /\ seen[newest[ship]].posts > 0
       /\ shown[ship] < newest[ship] =>
            seen[shown[ship]].posts > 1 \/ seen[shown[ship]].recovered > 0

LEMMA ShownStays ==
  ASSUME IInv, ViewInv, ShownOK, [Next]_vars, UNCHANGED view, DOMAIN log \subseteq DOMAIN log'
  PROVE  ShownOK'
<1>1. UNCHANGED <<newest, shown>>
  BY DEF view
<1>2. ASSUME NEW ship \in RowId, newest[ship] # 0
      PROVE  /\ shown[ship] \in DOMAIN log' /\ seen'[newest[ship]].posts > 0
             /\ shown[ship] < newest[ship] =>
                  seen'[shown[ship]].posts > 1 \/ seen'[shown[ship]].recovered > 0
  <2>1. newest[ship] \in RowId /\ shown[ship] \in RowId /\ shown[ship] \in DOMAIN log
    BY <1>2 DEF ViewInv, ViewOK, LedgerTyped, ShownOK
  <2> QED
    BY <1>2, <2>1, SeenGrows DEF ShownOK
<1> QED
  BY <1>1, <1>2 DEF ShownOK

LEMMA ShownDelivered ==
  ASSUME IInv, ViewInv, OrderInv, OneDispatcher, ShownOK, NEW d \in Dispatcher, Deliver(d)
  PROVE  ShownOK'
<1> DEFINE ship == log[Head(disp[d].batch).id].ship
<1>1. PICK line \in RowId : /\ line = Head(disp[d].batch).id /\ line = disp[d].batch[1].id
                            /\ 1 \in DOMAIN disp[d].batch
  BY HeadEntry DEF Deliver, Post, Entry
<1>2. /\ row[line].status = "processing" /\ UNCHANGED <<book, log>> /\ [Next]_vars /\ Post(d)
      /\ disp[d].phase = "post"
  <2>1. Next /\ Post(d) /\ UNCHANGED <<book, log>>
    BY DEF Deliver, Next, service
  <2>2. disp[d].phase = "post"
    BY <2>1 DEF Post
  <2>3. row[line].status = "processing"
    BY <1>1, HeldFresh
  <2> QED
    BY <2>1, <2>2, <2>3
<1>3. line \in DOMAIN log /\ line \in Nat /\ ship \in RowId
  <2>1. line \in DOMAIN log /\ line \in Nat
    BY <1>2, Constants DEF ViewInv, Joined
  <2>2. DOMAIN book \subseteq DOMAIN log
    BY LenProperties DEF ViewInv, LedgerTyped
  <2> QED
    BY <1>1, <2>1, <2>2 DEF ViewInv, LedgerTyped
<1>4. CASE UNCHANGED view
  BY <1>2, <1>4, ShownStays
<1>5. CASE ~UNCHANGED view
  <2>1. /\ newest' = [newest EXCEPT ![ship] = IF line > newest[ship] THEN line ELSE newest[ship]]
        /\ shown' = [shown EXCEPT ![ship] = line]
    BY <1>1, <1>5 DEF Deliver
  <2>2. newest \in [RowId -> Nat] /\ shown \in [RowId -> Nat]
    BY DEF ViewInv, ViewOK, ShownOK
  <2> HIDE DEF ship
  <2>3. /\ shown' \in [RowId -> Nat] /\ shown'[ship] = line
        /\ newest'[ship] = IF line > newest[ship] THEN line ELSE newest[ship]
        /\ \A s \in RowId : s # ship => newest'[s] = newest[s] /\ shown'[s] = shown[s]
    BY <1>3, <2>1, <2>2
  <2>4. seen'[line].posts = seen[line].posts + 1 /\ seen[line].posts \in Nat
    <3>1. PICK outcome \in {"success", "retryable", "permanent"}, after \in Seen :
            /\ disp' = [disp EXCEPT ![d].phase = "mark", ![d].outcome = outcome]
            /\ seen' = [seen EXCEPT ![line] = after]
            /\ after.posts = seen[line].posts + 1
      BY <1>1, <1>2, Posted
    <3> QED
      BY <3>1, Types DEF IInv, Seen
  <2>5. ASSUME NEW s \in RowId, s # ship, newest'[s] # 0
        PROVE  /\ shown'[s] \in DOMAIN log' /\ seen'[newest'[s]].posts > 0
               /\ shown'[s] < newest'[s] =>
                    seen'[shown'[s]].posts > 1 \/ seen'[shown'[s]].recovered > 0
    <3>1. /\ newest'[s] = newest[s] /\ shown'[s] = shown[s] /\ newest[s] # 0
          /\ newest[s] \in RowId /\ shown[s] \in RowId /\ shown[s] \in DOMAIN log
      BY <2>3, <2>5 DEF ViewInv, ViewOK, LedgerTyped, ShownOK
    <3> QED
      BY <1>2, <3>1, SeenGrows DEF ShownOK
  <2>6. seen'[newest'[ship]].posts > 0
    <3>1. CASE newest'[ship] = line
      BY <2>4, <3>1
    <3>2. CASE newest'[ship] # line
      <4>1. newest'[ship] = newest[ship] /\ newest[ship] # 0 /\ newest[ship] \in Nat
        BY <1>3, <2>2, <2>3, <3>2, Constants DEF ViewInv, LedgerTyped
      <4>2. newest[ship] \in RowId /\ seen[newest[ship]].posts > 0
        BY <1>3, <4>1 DEF ViewInv, ViewOK, LedgerTyped, ShownOK
      <4> QED
        BY <1>2, <4>1, <4>2, SeenGrows
    <3> QED
      BY <3>1, <3>2
  \* A newer callback was posted before this one: this one is posted again, or
  \* was recovered.
  <2>7. ASSUME line < newest'[ship] PROVE seen'[line].posts > 1 \/ seen'[line].recovered > 0
    <3>1. newest'[ship] = newest[ship] /\ newest[ship] # 0 /\ newest[ship] > line
      BY <1>3, <2>2, <2>3, <2>7
    <3>2. newest[ship] \in RowId /\ seen[newest[ship]].posts > 0
      BY <1>3, <3>1 DEF ViewInv, ViewOK, LedgerTyped, ShownOK
    <3>3. seen[newest[ship]].posts # 0 /\ seen[line].recovered \in Nat
      BY <1>2, <3>2, SeenGrows
    <3>4. ~Unposted(line)
      BY <1>1, <3>1, <3>2, <3>3 DEF OrderInv, EntryFirst
    <3>5. seen'[line].recovered >= seen[line].recovered /\ seen'[line].recovered \in Nat
      BY <1>2, SeenGrows
    <3> QED
      BY <2>4, <3>3, <3>4, <3>5 DEF Unposted
  <2> QED
    BY <1>2, <1>3, <2>3, <2>5, <2>6, <2>7 DEF ShownOK
<1> QED
  BY <1>4, <1>5

LEMMA ShownStep ==
  ASSUME IInv, ViewInv, OrderInv, OneDispatcher, ShownOK, [CallbacksNext]_allVars
  PROVE  ShownOK'
<1>1. [Next]_vars
  BY OutboxSteps
<1>2. CASE Record
  <2>1. /\ DOMAIN log = 1 .. Len(log) /\ Len(log) \in Nat
        /\ DOMAIN log' = 1 .. (Len(log) + 1)
    <3>1. PICK ship \in Nat, status \in Status : log' = Append(log, [ship |-> ship, status |-> status])
      BY <1>2, LedgerGrows DEF Record, ViewInv
    <3>2. log \in Seq(Ledger!Line)
      BY DEF ViewInv, LedgerTyped
    <3> QED
      BY <3>1, <3>2, LenProperties
  <2>2. DOMAIN log \subseteq DOMAIN log'
    BY <2>1
  <2> QED
    BY <1>1, <1>2, <2>2, ShownStays DEF Record
<1>3. CASE UNCHANGED allVars \/ Pass \/ \E d \in Dispatcher : Work(d)
  <2>1. UNCHANGED view /\ log' = log
    BY <1>3 DEF allVars, Pass, Work, service
  <2> QED
    BY <1>1, <2>1, ShownStays
<1> QED
  BY <1>2, <1>3, ShownDelivered DEF CallbacksNext

\* With one dispatcher, callbacks of a shipment arrive in the order of its
\* events, but for those that were posted again or recovered from a lost claim.
THEOREM CallbacksInOrder == CallbacksSpec => []InOrderUnlessRepeated
<1> DEFINE Inv == OneDispatcher => OrderInv /\ ShownOK
<1>1. CallbacksInit => Inv
  <2> SUFFICES ASSUME CallbacksInit PROVE OrderInv /\ ShownOK
    OBVIOUS
  <2>1. OrderInv
    BY OrderInit DEF CallbacksInit
  <2>2. ShownOK
    BY DEF CallbacksInit, ShownOK
  <2> QED
    BY <2>1, <2>2
<1>2. ASSUME IInv, ViewInv, Inv, [CallbacksNext]_allVars PROVE Inv'
  BY <1>2, OutboxSteps, OrderStep, ShownStep DEF OneDispatcher
<1>3. ASSUME IInv, ViewInv, Inv PROVE InOrderUnlessRepeated
  <2> SUFFICES ASSUME OneDispatcher, NEW ship \in DOMAIN book, shown[ship] < newest[ship]
               PROVE  seen[shown[ship]].posts > 1 \/ seen[shown[ship]].recovered > 0
    BY DEF InOrderUnlessRepeated
  <2>1. DOMAIN book \subseteq DOMAIN log
    BY <1>3, LenProperties DEF ViewInv, LedgerTyped
  <2>2. ship \in RowId /\ shown[ship] \in Nat /\ newest[ship] \in Nat
    BY <1>3, <2>1 DEF ViewInv, LedgerTyped, ViewOK, ShownOK
  <2> QED
    BY <1>3, <2>2 DEF ShownOK
<1> QED
  BY <1>1, <1>2, <1>3, CallbacksInductive, PTL DEF CallbacksSpec
=============================================================================
