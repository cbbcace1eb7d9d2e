----------------------------- MODULE OutboxProofs -----------------------------
(***************************************************************************)
(* Proofs about Outbox, for any number of dispatchers, rows and faults,    *)
(* any batch and any durations that LeaseAssumption admits: no dispatcher  *)
(* writes over another's claim, marks are true, duplicates have a cause,   *)
(* a marked callback stays marked, and retries wait as long as they should.*)
(*                                                                         *)
(* The marks are not guarded by the row's status, so all of it rests on    *)
(* time: a claimed row is never older than the requests of its batch have  *)
(* taken, and so it is never stale while its dispatcher is at work.        *)
(***************************************************************************)
EXTENDS Outbox, SequenceTheorems, FiniteSetTheorems, WellFoundedInduction, TLAPS

Row == [status : RowStatus, attempts : Nat, wait : Int, age : Nat]
Entry == [id : RowId, attempts : Nat]
Disp == [phase : Phases, batch : Seq(Entry), outcome : Outcomes, busy : Nat]
Seen == [posts : Nat, accepted : Nat, lost : Nat, refused : Nat, recovered : Nat]

\* Every acceptance beforehand has its cause: a further one may follow.
Settled(id) == seen[id].accepted <= seen[id].lost + seen[id].recovered

\* A row, whoever holds it.
RowOK(id) ==
  /\ row[id].status = "absent" => row[id].attempts = 0
  /\ row[id].status \in {"absent", "pending"} =>
       Settled(id) /\ row[id].attempts < MaxAttempts + seen[id].recovered
  /\ seen[id].accepted <= 1 + seen[id].lost + seen[id].recovered
  /\ seen[id].posts <= row[id].attempts
  /\ row[id].attempts <= MaxAttempts + seen[id].recovered
  /\ row[id].status = "delivered" => seen[id].accepted > 0
  /\ row[id].status = "failed" => seen[id].refused > 0 \/ row[id].attempts >= MaxAttempts

\* The i-th entry of a dispatcher's batch and its row.  The row is no older than
\* the requests that are done, at their longest, and the present one.
EntryOK(d, i) ==
  LET entry == disp[d].batch[i]
      id    == entry.id
      posted == disp[d].phase = "mark" /\ i = 1
  IN /\ row[id].status = "processing"
     /\ row[id].attempts = entry.attempts
     /\ row[id].age + Len(disp[d].batch) * RequestTimeout <= Batch * RequestTimeout + disp[d].busy
     /\ ~posted => Settled(id) /\ seen[id].posts < row[id].attempts
     /\ posted => /\ disp[d].outcome = "success" => seen[id].accepted > 0
                  /\ disp[d].outcome = "permanent" => seen[id].refused > 0
                  /\ disp[d].outcome # "success" => Settled(id)

DispOK(d) ==
  /\ disp[d].batch # <<>> <=> disp[d].phase \in {"post", "mark"}
  /\ disp[d].busy <= RequestTimeout
  /\ disp[d].phase = "mark" => disp[d].outcome # "none"

\* No row is in two places of the batches.
Exclusive ==
  \A d, e \in Dispatcher :
    \A i \in DOMAIN disp[d].batch, j \in DOMAIN disp[e].batch :
      disp[d].batch[i].id = disp[e].batch[j].id => d = e /\ i = j

IInv ==
  /\ TypeOK
  /\ \A id \in RowId : RowOK(id)
  /\ \A d \in Dispatcher : DispOK(d) /\ \A i \in DOMAIN disp[d].batch : EntryOK(d, i)
  /\ Exclusive

-----------------------------------------------------------------------------
LEMMA Constants ==
  /\ RowId \subseteq Nat /\ MaxFaults \in Nat /\ MaxLag \in Nat
  /\ Batch \in Nat /\ MaxAttempts \in Nat /\ RetryBase \in Nat /\ RetryCap \in Nat
  /\ StaleAfter \in Nat /\ RequestTimeout \in Nat
  /\ Batch > 0 /\ MaxAttempts > 0 /\ RequestTimeout > 0
  /\ Batch * RequestTimeout \in Nat /\ Batch * RequestTimeout < StaleAfter
  BY OutboxAssumption, LeaseAssumption

LEMMA Types ==
  TypeOK <=> /\ row \in [RowId -> Row] /\ disp \in [Dispatcher -> Disp]
             /\ seen \in [RowId -> Seen] /\ faults \in 0..MaxFaults
  BY DEF TypeOK, Row, Entry, Disp, Seen

\* The time of n requests.
LEMMA Times ==
  ASSUME NEW n \in Nat
  PROVE  /\ n * RequestTimeout \in Nat
         /\ n > 0 => /\ (n - 1) * RequestTimeout = n * RequestTimeout - RequestTimeout
                     /\ n * RequestTimeout >= RequestTimeout
         /\ n <= Batch => n * RequestTimeout <= Batch * RequestTimeout
  BY Constants, SMTT(30)

LEMMA Batches ==
  ASSUME TypeOK, NEW d \in Dispatcher
  PROVE  /\ disp[d] \in Disp /\ disp[d].batch \in Seq(Entry)
         /\ Len(disp[d].batch) \in Nat /\ DOMAIN disp[d].batch = 1..Len(disp[d].batch)
         /\ \A i \in DOMAIN disp[d].batch : disp[d].batch[i] \in Entry
  BY Types DEF Disp

LEMMA InitOK == Init => IInv
  BY Constants DEF Init, IInv, TypeOK, RowOK, DispOK, Exclusive, Settled, NoRow, Resting, Unseen,
     RowStatus, Phases, Outcomes

\* A claimed row is not stale, and it is a row.
LEMMA HeldFresh ==
  ASSUME IInv, NEW d \in Dispatcher, NEW i \in DOMAIN disp[d].batch
  PROVE  LET id == disp[d].batch[i].id IN
         id \in RowId /\ row[id].status = "processing" /\ ~Stale(id)
<1> DEFINE id == disp[d].batch[i].id
           n == Len(disp[d].batch)
<1>1. id \in RowId /\ n \in Nat /\ n > 0 /\ disp[d].busy \in Nat
  BY Batches DEF IInv, Entry, Disp
<1>2. /\ row[id].status = "processing" /\ row[id].age \in Nat
      /\ row[id].age + n * RequestTimeout <= Batch * RequestTimeout + disp[d].busy
      /\ disp[d].busy <= RequestTimeout
  BY <1>1, Types DEF IInv, EntryOK, DispOK, Row
<1> HIDE DEF n, id
<1>3. n * RequestTimeout \in Nat /\ n * RequestTimeout >= RequestTimeout
  BY <1>1, Times
<1>4. row[id].age < StaleAfter
  BY <1>1, <1>2, <1>3, Constants
<1> QED
  BY <1>1, <1>2, <1>4, Constants DEF Stale, id

\* A row whose status is not "processing" is in no batch.
LEMMA Unheld ==
  ASSUME IInv, NEW id \in RowId, row[id].status # "processing" \/ Stale(id)
  PROVE  \A d \in Dispatcher : \A i \in DOMAIN disp[d].batch : disp[d].batch[i].id # id
  BY HeldFresh

\* What a dispatcher holds stays right when it and its rows stay as they are.
LEMMA HeldKept ==
  ASSUME NEW d \in Dispatcher, disp'[d] = disp[d], IInv,
         NEW i \in DOMAIN disp[d].batch,
         LET id == disp[d].batch[i].id IN row'[id] = row[id] /\ seen'[id] = seen[id]
  PROVE  EntryOK(d, i)'
  BY DEF IInv, EntryOK, Settled

LEMMA RowKept ==
  ASSUME NEW id \in RowId, IInv, row'[id] = row[id], seen'[id] = seen[id]
  PROVE  RowOK(id)'
  BY DEF IInv, RowOK, Settled

\* A step of one dispatcher, which touches rows no other holds.
LEMMA DispatcherStep ==
  ASSUME IInv, NEW d \in Dispatcher, NEW Touched,
         row' \in [RowId -> Row], seen' \in [RowId -> Seen], disp' \in [Dispatcher -> Disp],
         faults' \in 0..MaxFaults,
         \A e \in Dispatcher : e # d => disp'[e] = disp[e],
         \A id \in RowId : id \notin Touched => row'[id] = row[id] /\ seen'[id] = seen[id],
         \A id \in RowId : id \in Touched => RowOK(id)',
         \A e \in Dispatcher : \A i \in DOMAIN disp[e].batch :
           e # d => disp[e].batch[i].id \notin Touched,
         DispOK(d)', \A i \in DOMAIN disp'[d].batch : EntryOK(d, i)',
         Exclusive'
  PROVE  IInv'
<1>1. TypeOK'
  BY DEF TypeOK, Row, Entry, Disp, Seen
<1>2. \A id \in RowId : RowOK(id)'
  BY RowKept
<1>3. ASSUME NEW e \in Dispatcher
      PROVE  DispOK(e)' /\ \A i \in DOMAIN disp'[e].batch : EntryOK(e, i)'
  <2>1. CASE e = d
    BY <2>1
  <2>2. CASE e # d
    <3>1. disp'[e] = disp[e] /\ DispOK(e)'
      BY <2>2 DEF IInv, DispOK
    <3>2. ASSUME NEW i \in DOMAIN disp[e].batch PROVE EntryOK(e, i)'
      <4>1. disp[e].batch[i].id \in RowId \ Touched
        BY <2>2, HeldFresh
      <4> QED
        BY <3>1, <4>1, HeldKept
    <3> QED
      BY <3>1, <3>2
  <2> QED
    BY <2>1, <2>2
<1> QED
  BY <1>1, <1>2, <1>3 DEF IInv

\* A batch that keeps some of its entries, in their order or not, keeps them apart.
LEMMA ExclusiveKept ==
  ASSUME IInv, NEW d \in Dispatcher, NEW skip \in Nat,
         \A e \in Dispatcher : e # d => disp'[e] = disp[e],
         \A i \in DOMAIN disp'[d].batch :
           i \in Nat /\ i + skip \in DOMAIN disp[d].batch /\ disp'[d].batch[i] = disp[d].batch[i + skip]
  PROVE  Exclusive'
<1> SUFFICES ASSUME NEW a \in Dispatcher, NEW b \in Dispatcher,
                    NEW i \in DOMAIN disp'[a].batch, NEW j \in DOMAIN disp'[b].batch,
                    disp'[a].batch[i].id = disp'[b].batch[j].id
             PROVE  a = b /\ i = j
  BY DEF Exclusive
<1>1. CASE a = d /\ b = d
  BY <1>1 DEF IInv, Exclusive
<1>2. CASE a = d /\ b # d
  BY <1>2 DEF IInv, Exclusive
<1>3. CASE a # d /\ b = d
  BY <1>3 DEF IInv, Exclusive
<1>4. CASE a # d /\ b # d
  BY <1>4 DEF IInv, Exclusive
<1> QED
  BY <1>1, <1>2, <1>3, <1>4

-----------------------------------------------------------------------------
\* The entry at the head of a batch at work.
LEMMA HeadEntry ==
  ASSUME IInv, NEW d \in Dispatcher, disp[d].phase \in {"post", "mark"}
  PROVE  /\ disp[d].batch # <<>> /\ 1 \in DOMAIN disp[d].batch
         /\ Len(disp[d].batch) \in Nat /\ Len(disp[d].batch) >= 1
         /\ Head(disp[d].batch) = disp[d].batch[1] /\ Head(disp[d].batch) \in Entry
         /\ EntryOK(d, 1)
         /\ \A e \in Dispatcher : \A i \in DOMAIN disp[e].batch :
              disp[e].batch[i].id = Head(disp[d].batch).id => e = d /\ i = 1
<1>1. /\ disp[d].batch \in Seq(Entry) /\ disp[d].batch # <<>>
      /\ DOMAIN disp[d].batch = 1..Len(disp[d].batch) /\ Len(disp[d].batch) \in Nat
  BY Batches DEF IInv, DispOK
<1>2. Len(disp[d].batch) >= 1
  BY <1>1, EmptySeq
<1>3. 1 \in DOMAIN disp[d].batch /\ Head(disp[d].batch) = disp[d].batch[1]
  BY <1>1, <1>2
<1> QED
  BY <1>1, <1>2, <1>3, Batches DEF IInv, Exclusive

LEMMA Rest ==
  Resting \in Disp /\ Resting.batch = <<>> /\ Resting.phase = "idle" /\ Resting.outcome = "none"
    /\ Resting.busy = 0 /\ DOMAIN Resting.batch = {}
<1>1. <<>> \in Seq(Entry) /\ DOMAIN <<>> = {}
  BY EmptySeq
<1> QED
  BY <1>1 DEF Resting, Disp, Phases, Outcomes

\* What moving on to the next entry leaves of the batch.
LEMMA Moved ==
  ASSUME IInv, NEW d \in Dispatcher, disp[d].phase = "mark", NextInBatch(d)
  PROVE  /\ disp' \in [Dispatcher -> Disp]
         /\ \A e \in Dispatcher : e # d => disp'[e] = disp[e]
         /\ disp'[d].outcome = "none" /\ disp'[d].busy = 0
         /\ disp'[d].phase \in {"idle", "post"}
         /\ disp'[d].batch # <<>> <=> disp'[d].phase = "post"
         /\ Len(disp'[d].batch) = Len(disp[d].batch) - 1
         /\ \A i \in DOMAIN disp'[d].batch :
              i \in Nat \ {0} /\ i + 1 \in DOMAIN disp[d].batch /\ disp'[d].batch[i] = disp[d].batch[i + 1]
<1> DEFINE batch == disp[d].batch
           next == IF Len(batch) = 1 THEN Resting ELSE [Resting EXCEPT !.phase = "post", !.batch = Tail(batch)]
<1>1. /\ batch \in Seq(Entry) /\ batch # <<>> /\ Len(batch) \in Nat /\ Len(batch) >= 1
      /\ DOMAIN batch = 1..Len(batch)
  BY HeadEntry, Batches DEF IInv
<1>2. disp' = [disp EXCEPT ![d] = next]
  BY DEF NextInBatch
<1>3. disp'[d] = next /\ \A e \in Dispatcher : e # d => disp'[e] = disp[e]
  BY <1>2 DEF IInv, TypeOK
<1>4. CASE Len(batch) = 1
  <2>1. next = Resting
    BY <1>4
  <2>2. next \in Disp
    BY <2>1, Rest
  <2> HIDE DEF next
  <2>3. disp' \in [Dispatcher -> Disp]
    BY <1>2, <2>2, Types DEF IInv
  <2> QED
    BY <1>1, <1>3, <1>4, <2>1, <2>3, Rest, EmptySeq
<1>5. CASE Len(batch) # 1
  <2>1. /\ Tail(batch) \in Seq(Entry) /\ Len(Tail(batch)) = Len(batch) - 1
        /\ \A i \in 1..Len(Tail(batch)) : Tail(batch)[i] = batch[i + 1]
        /\ DOMAIN Tail(batch) = 1..Len(Tail(batch))
    BY <1>1, HeadTailProperties, LenProperties
  <2>2. /\ next.phase = "post" /\ next.batch = Tail(batch) /\ next.outcome = "none" /\ next.busy = 0
    BY <1>5 DEF Resting
  <2>3. next \in Disp
    BY <1>5, <2>1 DEF Resting, Disp, Phases, Outcomes
  <2> HIDE DEF next
  <2>4. disp' \in [Dispatcher -> Disp]
    BY <1>2, <2>3, Types DEF IInv
  <2>5. Tail(batch) # <<>>
    <3> DEFINE tail == Tail(batch)
    <3>1. Len(tail) \in Nat /\ Len(tail) # 0
      BY <1>1, <1>5, <2>1
    <3> HIDE DEF tail
    <3>2. tail # <<>>
      BY <3>1
    <3> QED
      BY <3>2 DEF tail
  <2>6. \A i \in DOMAIN Tail(batch) : i \in Nat \ {0} /\ i + 1 \in DOMAIN batch /\ Tail(batch)[i] = batch[i + 1]
    BY <1>1, <2>1
  <2> QED
    BY <1>3, <2>1, <2>2, <2>4, <2>5, <2>6
<1> QED
  BY <1>4, <1>5

\* The head of the batch is done with, and no other row is touched.
LEMMA HeadDone ==
  ASSUME IInv, NEW d \in Dispatcher, disp[d].phase = "mark", NextInBatch(d),
         row' \in [RowId -> Row], UNCHANGED seen, faults' \in 0..MaxFaults,
         NEW head \in RowId, head = Head(disp[d].batch).id, RowOK(head)',
         \A id \in RowId : id # head => row'[id] = row[id]
  PROVE  IInv'
<1>1. /\ disp' \in [Dispatcher -> Disp] /\ \A e \in Dispatcher : e # d => disp'[e] = disp[e]
      /\ disp'[d].busy = 0 /\ disp'[d].phase # "mark"
      /\ disp'[d].batch # <<>> <=> disp'[d].phase \in {"post", "mark"}
      /\ Len(disp'[d].batch) = Len(disp[d].batch) - 1
      /\ \A i \in DOMAIN disp'[d].batch :
           i \in Nat \ {0} /\ i + 1 \in DOMAIN disp[d].batch /\ disp'[d].batch[i] = disp[d].batch[i + 1]
  BY Moved
<1>2. Exclusive'
  BY <1>1, ExclusiveKept
<1>3. DispOK(d)'
  BY <1>1, Constants DEF DispOK
<1>4. ASSUME NEW i \in DOMAIN disp'[d].batch PROVE EntryOK(d, i)'
  <2> DEFINE id == disp[d].batch[i + 1].id
             n == Len(disp[d].batch)
  <2>1. i \in Nat /\ i + 1 \in DOMAIN disp[d].batch /\ disp'[d].batch[i] = disp[d].batch[i + 1] /\ i + 1 # 1
    BY <1>1
  <2>2. id \in RowId /\ id # head
    BY <2>1, HeadEntry, HeldFresh
  <2>3. row'[id] = row[id] /\ seen'[id] = seen[id]
    BY <2>2
  <2>4. EntryOK(d, i + 1) /\ row[id].age \in Nat /\ n \in Nat /\ n >= 1 /\ disp[d].busy \in Nat
        /\ disp[d].busy <= RequestTimeout
    BY <2>1, <2>2, HeadEntry, Batches, Types DEF IInv, Row, Disp, DispOK
  <2>5. row[id].age + n * RequestTimeout <= Batch * RequestTimeout + disp[d].busy
    BY <2>4 DEF EntryOK
  <2>6. row[id].age + (n - 1) * RequestTimeout <= Batch * RequestTimeout
    <3> HIDE DEF n, id
    <3>1. (n - 1) * RequestTimeout = n * RequestTimeout - RequestTimeout /\ n * RequestTimeout \in Nat
      BY <2>4, Times
    <3> QED
      BY <2>4, <2>5, <3>1, Constants
  <2>7. row'[id].age + Len(disp'[d].batch) * RequestTimeout <= Batch * RequestTimeout + disp'[d].busy
    BY <1>1, <2>3, <2>6, Constants
  <2> QED
    BY <1>1, <2>1, <2>3, <2>4, <2>7 DEF EntryOK, Settled
<1> DEFINE Touched == {head}
<1>5. \A e \in Dispatcher : \A i \in DOMAIN disp[e].batch : e # d => disp[e].batch[i].id \notin Touched
  BY HeadEntry
<1>6. /\ \A id \in RowId : id \notin Touched => row'[id] = row[id] /\ seen'[id] = seen[id]
      /\ \A id \in RowId : id \in Touched => RowOK(id)'
  OBVIOUS
<1>7. seen' \in [RowId -> Seen]
  BY Types DEF IInv
<1> HIDE DEF Touched
<1> QED
  BY <1>1, <1>2, <1>3, <1>4, <1>5, <1>6, <1>7, DispatcherStep

-----------------------------------------------------------------------------
LEMMA EnqueueOK ==
  ASSUME IInv, NEW id \in RowId, Enqueue(id)
  PROVE  IInv'
<1>1. /\ row[id].status = "absent" /\ UNCHANGED <<disp, seen, faults>>
      /\ row' = [row EXCEPT ![id] = [NoRow EXCEPT !.status = "pending"]]
  BY DEF Enqueue
<1>2. row' \in [RowId -> Row] /\ \A other \in RowId : other # id => row'[other] = row[other]
  BY <1>1, Types, Constants DEF IInv, NoRow, Row, RowStatus
<1>3. row'[id].status = "pending" /\ row'[id].attempts = 0
  BY <1>1, Types DEF IInv, NoRow
<1>4. RowOK(id)'
  BY <1>1, <1>3, Types, Constants DEF IInv, RowOK, Settled, Row, Seen
<1>5. ASSUME NEW d \in Dispatcher PROVE DispOK(d)' /\ \A i \in DOMAIN disp'[d].batch : EntryOK(d, i)'
  <2>1. disp'[d] = disp[d] /\ DispOK(d)'
    BY <1>1 DEF IInv, DispOK
  <2>2. ASSUME NEW i \in DOMAIN disp[d].batch PROVE EntryOK(d, i)'
    <3>1. disp[d].batch[i].id \in RowId /\ disp[d].batch[i].id # id
      BY <1>1, HeldFresh
    <3> QED
      BY <1>1, <1>2, <2>1, <3>1, HeldKept
  <2> QED
    BY <2>1, <2>2
<1>6. \A other \in RowId : RowOK(other)'
  BY <1>1, <1>2, <1>4, RowKept
<1>7. TypeOK'
  BY <1>1, <1>2 DEF IInv, TypeOK, Row
<1>8. Exclusive'
  BY <1>1 DEF IInv, Exclusive
<1> QED
  BY <1>5, <1>6, <1>7, <1>8 DEF IInv

LEMMA RowWritten ==
  ASSUME NEW r \in Row, NEW status \in RowStatus, NEW wait \in Int
  PROVE  [r EXCEPT !.status = status, !.wait = wait, !.age = 0] \in Row
  BY DEF Row

LEMMA Written ==
  ASSUME IInv, NEW id \in RowId, NEW status \in RowStatus, NEW wait \in Int, Write(id, status, wait)
  PROVE  /\ row' \in [RowId -> Row] /\ \A other \in RowId : other # id => row'[other] = row[other]
         /\ row'[id].status = status /\ row'[id].attempts = row[id].attempts
  BY Types DEF IInv, Row, Write

\* Only the head of the batch is written, as its outcome says.
LEMMA MarkDeliveredOK ==
  ASSUME IInv, NEW d \in Dispatcher, MarkDelivered(d)
  PROVE  IInv'
<1>1. PICK head \in RowId : head = Head(disp[d].batch).id
  BY HeadEntry DEF MarkDelivered, Entry
<1>2. /\ disp[d].phase = "mark" /\ disp[d].outcome = "success" /\ NextInBatch(d)
      /\ UNCHANGED <<seen, faults>>
      /\ Write(head, "delivered", 0)
  BY <1>1 DEF MarkDelivered
<1>3. /\ row' \in [RowId -> Row] /\ \A id \in RowId : id # head => row'[id] = row[id]
      /\ row'[head].status = "delivered" /\ row'[head].attempts = row[head].attempts
  BY <1>2, Written DEF RowStatus
<1>4. seen[head].accepted > 0
  BY <1>1, <1>2, HeadEntry DEF EntryOK
<1>5. RowOK(head)'
  BY <1>2, <1>3, <1>4 DEF IInv, RowOK
<1> QED
  BY <1>1, <1>2, <1>3, <1>5, HeadDone DEF IInv, TypeOK

LEMMA DelayTypes ==
  ASSUME NEW attempts, NEW delay \in BackoffDelays(attempts)
  PROVE  delay \in Int
  BY Constants DEF BackoffDelays

LEMMA MarkRetryOK ==
  ASSUME IInv, NEW d \in Dispatcher, MarkRetry(d)
  PROVE  IInv'
<1>1. PICK head \in RowId : head = Head(disp[d].batch).id
  BY HeadEntry DEF MarkRetry, Entry
<1>2. /\ disp[d].phase = "mark" /\ disp[d].outcome \in {"retryable", "permanent"} /\ NextInBatch(d)
      /\ UNCHANGED <<seen, faults>>
  BY DEF MarkRetry
<1>3. /\ EntryOK(d, 1) /\ Head(disp[d].batch) = disp[d].batch[1]
      /\ row[head].attempts = Head(disp[d].batch).attempts /\ row[head].attempts \in Nat
  BY <1>1, <1>2, HeadEntry, Types DEF EntryOK, IInv, Row
<1>4. Settled(head) /\ (disp[d].outcome = "permanent" => seen[head].refused > 0)
  BY <1>1, <1>2, <1>3 DEF EntryOK
<1>5. PICK status \in {"pending", "failed"}, wait \in Int :
        /\ Write(head, status, wait)
        /\ status = "pending" <=> MayRetry(d)
  BY <1>1, DelayTypes DEF MarkRetry
<1>6. /\ row' \in [RowId -> Row] /\ \A id \in RowId : id # head => row'[id] = row[id]
      /\ row'[head].status = status /\ row'[head].attempts = row[head].attempts
  BY <1>5, Written DEF RowStatus
<1>7. status = "pending" => row[head].attempts < MaxAttempts
  BY <1>3, <1>5 DEF MayRetry
<1>8. status = "failed" => seen[head].refused > 0 \/ row[head].attempts >= MaxAttempts
  BY <1>2, <1>3, <1>4, <1>5, Constants DEF MayRetry
<1>9. seen[head].recovered \in Nat
  BY Types DEF IInv, Seen
<1>10. RowOK(head)'
  BY <1>2, <1>3, <1>4, <1>6, <1>7, <1>8, <1>9, Constants DEF IInv, RowOK, Settled
<1> QED
  BY <1>1, <1>2, <1>6, <1>10, HeadDone DEF IInv, TypeOK

LEMMA MarkFailsOK ==
  ASSUME IInv, NEW d \in Dispatcher, MarkFails(d)
  PROVE  IInv'
<1>1. PICK head \in RowId : head = Head(disp[d].batch).id
  BY HeadEntry DEF MarkFails, Entry
<1>2. disp[d].phase = "mark" /\ NextInBatch(d) /\ UNCHANGED <<row, seen>> /\ faults' \in 0..MaxFaults
  BY Constants DEF MarkFails, IInv, TypeOK
<1>3. RowOK(head)' /\ row' \in [RowId -> Row]
  BY <1>2, Types, RowKept DEF IInv
<1> QED
  BY <1>1, <1>2, <1>3, HeadDone

\* A dispatcher with an empty batch and no request, before and after.
LEMMA Emptied ==
  ASSUME IInv, NEW d \in Dispatcher, NEW ph \in {"idle", "down"}, UNCHANGED <<row, seen>>,
         disp' = [disp EXCEPT ![d] = [Resting EXCEPT !.phase = ph]], faults' \in 0..MaxFaults
  PROVE  IInv'
<1> DEFINE rest == [Resting EXCEPT !.phase = ph]
<1>1. /\ rest \in Disp /\ rest.batch = <<>> /\ rest.phase = ph /\ rest.busy = 0
      /\ DOMAIN rest.batch = {}
  BY Rest DEF Disp, Phases, Resting
<1> HIDE DEF rest
<1>2. disp' \in [Dispatcher -> Disp] /\ disp'[d] = rest /\ \A e \in Dispatcher : e # d => disp'[e] = disp[e]
  BY <1>1, Types DEF IInv, rest
<1>3. DispOK(d)' /\ DOMAIN disp'[d].batch = {}
  <2>1. disp'[d].batch = <<>> /\ DOMAIN disp'[d].batch = {}
    BY <1>1, <1>2
  <2>2. disp'[d].phase = "idle" \/ disp'[d].phase = "down"
    BY <1>1, <1>2
  <2>3. disp'[d].busy <= RequestTimeout
    <3>1. disp'[d].busy = 0
      BY <1>1, <1>2
    <3>2. RequestTimeout \in Nat
      BY Constants
    <3> QED
      BY <3>1, <3>2
  <2> QED
    BY <2>1, <2>2, <2>3 DEF DispOK
<1>4. Exclusive'
  BY <1>2, <1>3, ExclusiveKept
<1>5. row' \in [RowId -> Row] /\ seen' \in [RowId -> Seen]
  BY Types DEF IInv
<1> DEFINE Touched == {}
<1>6. /\ \A id \in RowId : id \notin Touched => row'[id] = row[id] /\ seen'[id] = seen[id]
      /\ \A id \in RowId : id \in Touched => RowOK(id)'
      /\ \A e \in Dispatcher : \A i \in DOMAIN disp[e].batch : e # d => disp[e].batch[i].id \notin Touched
  OBVIOUS
<1> HIDE DEF Touched
<1> QED
  BY <1>2, <1>3, <1>4, <1>5, <1>6, DispatcherStep

LEMMA CrashOK ==
  ASSUME IInv, NEW d \in Dispatcher, Crash(d) \/ Restart(d)
  PROVE  IInv'
<1>1. CASE Crash(d)
  <2>1. faults' \in 0..MaxFaults
    BY <1>1, Constants DEF Crash, IInv, TypeOK
  <2> QED
    BY <1>1, <2>1, Emptied DEF Crash
<1>2. CASE Restart(d)
  <2>1. Resting = [Resting EXCEPT !.phase = "idle"] /\ faults' \in 0..MaxFaults
    BY <1>2 DEF Resting, Restart, IInv, TypeOK
  <2>2. disp' = [disp EXCEPT ![d] = [Resting EXCEPT !.phase = "idle"]]
    BY <1>2, <2>1 DEF Restart
  <2> QED
    BY <1>2, <2>1, <2>2, Emptied DEF Restart
<1> QED
  BY <1>1, <1>2

-----------------------------------------------------------------------------
\* What a post does: one of its outcomes, and what the endpoint has then seen.
LEMMA Posted ==
  ASSUME IInv, NEW d \in Dispatcher, Post(d), NEW head \in RowId, head = Head(disp[d].batch).id
  PROVE  \E outcome \in {"success", "retryable", "permanent"}, after \in Seen :
        /\ disp' = [disp EXCEPT ![d].phase = "mark", ![d].outcome = outcome]
        /\ seen' = [seen EXCEPT ![head] = after]
        /\ after.posts = seen[head].posts + 1 /\ after.recovered = seen[head].recovered
        /\ outcome = "success" => after.accepted = seen[head].accepted + 1 /\ after.lost = seen[head].lost
        /\ outcome # "success" => \/ after.accepted = seen[head].accepted /\ after.lost = seen[head].lost
                                  \/ after.accepted = seen[head].accepted + 1 /\ after.lost = seen[head].lost + 1
        /\ after.refused >= seen[head].refused
        /\ outcome = "permanent" => after.refused = seen[head].refused + 1
<1>1. seen[head] \in Seen /\ seen \in [RowId -> Seen]
  BY Types DEF IInv
<1>2. seen[head].posts + 1 \in Nat /\ seen[head].accepted + 1 \in Nat /\ seen[head].lost + 1 \in Nat
      /\ seen[head].refused + 1 \in Nat /\ seen[head].refused >= seen[head].refused
      /\ seen[head].refused + 1 >= seen[head].refused
  BY <1>1 DEF Seen
<1>3. CASE /\ disp' = [disp EXCEPT ![d].phase = "mark", ![d].outcome = "success"]
           /\ seen' = [seen EXCEPT ![head].posts = @ + 1, ![head].accepted = @ + 1]
  <2> DEFINE after == [seen[head] EXCEPT !.posts = @ + 1, !.accepted = @ + 1]
  <2>1. /\ after \in Seen /\ after.posts = seen[head].posts + 1 /\ after.recovered = seen[head].recovered
        /\ after.accepted = seen[head].accepted + 1 /\ after.lost = seen[head].lost
        /\ after.refused = seen[head].refused
    BY <1>1, <1>2 DEF Seen
  <2>2. seen' = [seen EXCEPT ![head] = after]
    BY <1>3
  <2> HIDE DEF after
  <2> QED
    BY <1>2, <1>3, <2>1, <2>2
<1>4. CASE /\ disp' = [disp EXCEPT ![d].phase = "mark", ![d].outcome = "retryable"]
           /\ seen' = [seen EXCEPT ![head].posts = @ + 1, ![head].accepted = @ + 1, ![head].lost = @ + 1]
  <2> DEFINE after == [seen[head] EXCEPT !.posts = @ + 1, !.accepted = @ + 1, !.lost = @ + 1]
  <2>1. /\ after \in Seen /\ after.posts = seen[head].posts + 1 /\ after.recovered = seen[head].recovered
        /\ after.accepted = seen[head].accepted + 1 /\ after.lost = seen[head].lost + 1
        /\ after.refused = seen[head].refused
    BY <1>1, <1>2 DEF Seen
  <2>2. seen' = [seen EXCEPT ![head] = after]
    BY <1>4
  <2> HIDE DEF after
  <2> QED
    BY <1>2, <1>4, <2>1, <2>2
<1>5. CASE /\ disp' = [disp EXCEPT ![d].phase = "mark", ![d].outcome = "retryable"]
           /\ seen' = [seen EXCEPT ![head].posts = @ + 1]
  <2> DEFINE after == [seen[head] EXCEPT !.posts = @ + 1]
  <2>1. /\ after \in Seen /\ after.posts = seen[head].posts + 1 /\ after.recovered = seen[head].recovered
        /\ after.accepted = seen[head].accepted /\ after.lost = seen[head].lost
        /\ after.refused = seen[head].refused
    BY <1>1, <1>2 DEF Seen
  <2>2. seen' = [seen EXCEPT ![head] = after]
    BY <1>5
  <2> HIDE DEF after
  <2> QED
    BY <1>2, <1>5, <2>1, <2>2
<1>6. CASE /\ disp' = [disp EXCEPT ![d].phase = "mark", ![d].outcome = "permanent"]
           /\ seen' = [seen EXCEPT ![head].posts = @ + 1, ![head].refused = @ + 1]
  <2> DEFINE after == [seen[head] EXCEPT !.posts = @ + 1, !.refused = @ + 1]
  <2>1. /\ after \in Seen /\ after.posts = seen[head].posts + 1 /\ after.recovered = seen[head].recovered
        /\ after.accepted = seen[head].accepted /\ after.lost = seen[head].lost
        /\ after.refused = seen[head].refused + 1
    BY <1>1, <1>2 DEF Seen
  <2>2. seen' = [seen EXCEPT ![head] = after]
    BY <1>6
  <2> HIDE DEF after
  <2> QED
    BY <1>2, <1>6, <2>1, <2>2
<1> QED
  BY <1>3, <1>4, <1>5, <1>6 DEF Post

LEMMA PostOK ==
  ASSUME IInv, NEW d \in Dispatcher, Post(d)
  PROVE  IInv'
<1>1. PICK head \in RowId : head = Head(disp[d].batch).id
  BY HeadEntry DEF Post, Entry
<1>2. disp[d].phase = "post" /\ UNCHANGED <<row, faults>>
  BY DEF Post
<1>3. PICK outcome \in {"success", "retryable", "permanent"}, after \in Seen :
        /\ disp' = [disp EXCEPT ![d].phase = "mark", ![d].outcome = outcome]
        /\ seen' = [seen EXCEPT ![head] = after]
        /\ after.posts = seen[head].posts + 1 /\ after.recovered = seen[head].recovered
        /\ outcome = "success" => after.accepted = seen[head].accepted + 1 /\ after.lost = seen[head].lost
        /\ outcome # "success" => \/ after.accepted = seen[head].accepted /\ after.lost = seen[head].lost
                                  \/ after.accepted = seen[head].accepted + 1 /\ after.lost = seen[head].lost + 1
        /\ after.refused >= seen[head].refused
        /\ outcome = "permanent" => after.refused = seen[head].refused + 1
  BY <1>1, Posted
<1> DEFINE next == [disp[d] EXCEPT !.phase = "mark", !.outcome = outcome]
<1>4. /\ next \in Disp /\ next.phase = "mark" /\ next.outcome = outcome
      /\ next.batch = disp[d].batch /\ next.busy = disp[d].busy
  BY Batches DEF IInv, Disp, Phases, Outcomes
<1>5. disp' = [disp EXCEPT ![d] = next]
  BY <1>3
<1> HIDE DEF next
<1>6. /\ disp' \in [Dispatcher -> Disp] /\ disp'[d] = next
      /\ \A e \in Dispatcher : e # d => disp'[e] = disp[e]
  BY <1>4, <1>5, Types DEF IInv
<1>7. /\ seen' \in [RowId -> Seen] /\ seen'[head] = after
      /\ \A id \in RowId : id # head => seen'[id] = seen[id]
  BY <1>3, Types DEF IInv
<1>8. /\ Settled(head) /\ seen[head].posts < row[head].attempts
      /\ row[head].status = "processing" /\ row[head] \in Row /\ seen[head] \in Seen /\ RowOK(head)
  BY <1>1, <1>2, HeadEntry, Types DEF IInv, EntryOK
<1>9. RowOK(head)'
  <2>1. after.accepted <= 1 + after.lost + after.recovered
    BY <1>3, <1>8 DEF Settled, Seen
  <2>2. after.posts <= row[head].attempts
    BY <1>3, <1>8 DEF Seen, Row
  <2>3. row[head].attempts <= MaxAttempts + after.recovered
    BY <1>3, <1>8 DEF RowOK
  <2> QED
    BY <1>2, <1>7, <1>8, <2>1, <2>2, <2>3 DEF RowOK
<1>10. Exclusive'
  <2>1. \A i \in DOMAIN disp'[d].batch :
          i \in Nat /\ i + 0 \in DOMAIN disp[d].batch /\ disp'[d].batch[i] = disp[d].batch[i + 0]
    BY <1>4, <1>6, Batches DEF IInv
  <2> QED
    BY <1>6, <2>1, ExclusiveKept
<1>11. DispOK(d)'
  <2>1. disp'[d].batch # <<>>
    BY <1>2, <1>4, <1>6, HeadEntry
  <2>2. disp'[d].busy <= RequestTimeout
    BY <1>4, <1>6 DEF IInv, DispOK
  <2>3. disp'[d].phase = "mark" /\ disp'[d].outcome # "none"
    BY <1>3, <1>4, <1>6
  <2> QED
    BY <2>1, <2>2, <2>3 DEF DispOK
<1>12. ASSUME NEW i \in DOMAIN disp'[d].batch PROVE EntryOK(d, i)'
  <2>1. i \in DOMAIN disp[d].batch /\ EntryOK(d, i)
    BY <1>4, <1>6, <1>12 DEF IInv
  <2>2. CASE i = 1
    <3>1. disp[d].batch[1].id = head
      BY <1>1, <1>2, HeadEntry
    <3>2. outcome = "success" => after.accepted > 0
      BY <1>3, <1>8 DEF Seen
    <3>3. outcome = "permanent" => after.refused > 0
      BY <1>3, <1>8 DEF Seen
    <3>4. outcome # "success" => after.accepted <= after.lost + after.recovered
      BY <1>3, <1>8 DEF Settled, Seen
    <3> QED
      BY <1>2, <1>4, <1>6, <1>7, <2>1, <2>2, <3>1, <3>2, <3>3, <3>4 DEF EntryOK, Settled
  <2>3. CASE i # 1
    <3>1. disp[d].batch[i].id \in RowId /\ disp[d].batch[i].id # head
      BY <1>1, <1>2, <2>1, <2>3, HeadEntry, HeldFresh
    <3> QED
      BY <1>2, <1>4, <1>6, <1>7, <2>1, <2>3, <3>1 DEF EntryOK, Settled
  <2> QED
    BY <2>2, <2>3
<1> DEFINE Touched == {head}
<1>13. /\ \A e \in Dispatcher : \A i \in DOMAIN disp[e].batch : e # d => disp[e].batch[i].id \notin Touched
       /\ \A id \in RowId : id \notin Touched => row'[id] = row[id] /\ seen'[id] = seen[id]
       /\ \A id \in RowId : id \in Touched => RowOK(id)'
  BY <1>1, <1>2, <1>7, <1>9, HeadEntry
<1>14. row' \in [RowId -> Row] /\ faults' \in 0..MaxFaults
  BY <1>2, Types DEF IInv
<1> HIDE DEF Touched
<1> QED
  BY <1>6, <1>7, <1>10, <1>11, <1>12, <1>13, <1>14, DispatcherStep

\* The list of the queue: rows that are due, each once.
LEMMA QueueTypes ==
  ASSUME NEW rows \in [RowId -> Row], NEW ids \in Queue(rows), ids # <<>>
  PROVE  /\ ids \in Seq(Due(rows)) /\ Len(ids) \in 1..Batch /\ DOMAIN ids = 1..Len(ids) /\ Len(ids) \in Nat
         /\ \A i \in DOMAIN ids : ids[i] \in Due(rows)
         /\ \A i, j \in DOMAIN ids : ids[i] = ids[j] => i = j
<1>1. PICK n \in 0..Batch : ids \in [1..n -> Due(rows)]
  BY DEF Queue
<1>2. ids \in Seq(Due(rows)) /\ n \in Nat
  BY <1>1, SeqDef, Constants
<1>3. Len(ids) = n /\ DOMAIN ids = 1..n
  BY <1>1, <1>2, LenProperties
<1>4. n # 0
  BY <1>2, <1>3, EmptySeq
<1>5. ASSUME NEW i \in DOMAIN ids, NEW j \in DOMAIN ids, ids[i] = ids[j], i # j
      PROVE  FALSE
  <2>1. i < j \/ j < i
    BY <1>3, <1>5
  <2>2. Before(rows, ids[i], ids[i])
    BY <1>5, <2>1 DEF Queue
  <2>3. ids[i] \in RowId /\ ids[i] \in Nat /\ rows[ids[i]].wait \in Int
    BY <1>1, <1>3, Constants DEF Due, Row
  <2> QED
    BY <2>2, <2>3 DEF Before
<1> QED
  BY <1>1, <1>2, <1>3, <1>4, <1>5, Constants

LEMMA ReleasedTypes ==
  ASSUME IInv
  PROVE  /\ Released \in [RowId -> Row]
         /\ \A id \in RowId :
              /\ Released[id].attempts = row[id].attempts
              /\ Stale(id) => Released[id].status = "pending"
              /\ ~Stale(id) => Released[id] = row[id]
<1>1. ASSUME NEW id \in RowId
      PROVE  [row[id] EXCEPT !.status = "pending", !.wait = 0, !.age = 0] \in Row
  <2>1. row[id] \in Row /\ "pending" \in RowStatus /\ 0 \in Int
    BY Types DEF IInv, RowStatus
  <2> QED
    BY <2>1, RowWritten
<1> QED
  BY <1>1, Types DEF Released, IInv, Row

LEMMA ClaimOK ==
  ASSUME IInv, NEW d \in Dispatcher, Claim(d)
  PROVE  IInv'
<1> DEFINE rows == Released
           claimed(id) == [rows[id] EXCEPT !.status = "processing", !.attempts = @ + 1, !.age = 0]
           entry(id) == [id |-> id, attempts |-> row[id].attempts + 1]
<1>1. PICK ids \in Queue(rows) :
        /\ ids # <<>>
        /\ row' = [id \in RowId |-> IF id \in Ids(ids) THEN claimed(id) ELSE rows[id]]
        /\ disp' = [disp EXCEPT ![d] = [Resting EXCEPT !.phase = "post",
                                                       !.batch = [i \in DOMAIN ids |-> entry(ids[i])]]]
  BY DEF Claim
<1>2. /\ disp[d].phase = "idle" /\ UNCHANGED faults
      /\ seen' = [id \in RowId |-> IF Stale(id) THEN [seen[id] EXCEPT !.recovered = @ + 1] ELSE seen[id]]
  BY DEF Claim
<1>3. /\ rows \in [RowId -> Row]
      /\ \A id \in RowId : /\ rows[id].attempts = row[id].attempts
                           /\ Stale(id) => rows[id].status = "pending"
                           /\ ~Stale(id) => rows[id] = row[id]
  BY ReleasedTypes
<1> HIDE DEF rows
<1>4. /\ ids \in Seq(Due(rows)) /\ Len(ids) \in 1..Batch /\ DOMAIN ids = 1..Len(ids) /\ Len(ids) \in Nat
      /\ \A i \in DOMAIN ids : ids[i] \in Due(rows)
      /\ \A i, j \in DOMAIN ids : ids[i] = ids[j] => i = j
  BY <1>1, <1>3, QueueTypes, Zenon
<1>5. \A i \in DOMAIN ids : ids[i] \in RowId /\ rows[ids[i]].status = "pending" /\ ids[i] \in Ids(ids)
  BY <1>4 DEF Due, Ids
<1>6. \A id \in Ids(ids) : id \in RowId /\ rows[id].status = "pending"
  BY <1>5 DEF Ids
\* A claimed row: it was pending, or it is recovered.
<1>7. ASSUME NEW id \in RowId, rows[id].status = "pending"
      PROVE  row[id].status = "pending" \/ Stale(id)
  BY <1>3, <1>7
<1>8. ASSUME NEW id \in RowId
      PROVE  /\ seen'[id] \in Seen
             /\ seen'[id].posts = seen[id].posts /\ seen'[id].accepted = seen[id].accepted
             /\ seen'[id].lost = seen[id].lost /\ seen'[id].refused = seen[id].refused
             /\ Stale(id) => seen'[id].recovered = seen[id].recovered + 1
             /\ ~Stale(id) => seen'[id] = seen[id]
  <2>1. seen[id] \in Seen
    BY Types DEF IInv
  <2>2. [seen[id] EXCEPT !.recovered = @ + 1] \in Seen
    BY <2>1 DEF Seen
  <2> QED
    BY <1>2, <2>1, <2>2 DEF Seen
<1>9. seen' \in [RowId -> Seen]
  BY <1>2, <1>8
<1>10. ASSUME NEW id \in RowId
       PROVE  claimed(id) \in Row /\ claimed(id).status = "processing"
                /\ claimed(id).attempts = row[id].attempts + 1 /\ claimed(id).age = 0
  <2>1. rows[id] \in Row /\ rows[id].attempts \in Nat
    BY <1>3 DEF Row
  <2>2. rows[id].attempts + 1 \in Nat
    BY <2>1
  <2> QED
    BY <1>3, <2>1, <2>2 DEF Row, RowStatus
<1>11. row' \in [RowId -> Row]
  BY <1>1, <1>3, <1>10
\* Every due or recovered row may be claimed once more.
<1>12. ASSUME NEW id \in RowId, row[id].status = "pending" \/ Stale(id)
       PROVE  /\ seen'[id].accepted <= seen'[id].lost + seen'[id].recovered
              /\ row[id].attempts < MaxAttempts + seen'[id].recovered
              /\ seen'[id].posts <= row[id].attempts
  <2>1. RowOK(id) /\ row[id] \in Row /\ seen[id] \in Seen
    BY Types DEF IInv
  <2>2. CASE ~Stale(id)
    BY <1>8, <1>12, <2>1, <2>2 DEF RowOK, Settled
  <2>3. CASE Stale(id)
    <3>1. seen'[id].recovered = seen[id].recovered + 1
      BY <1>8, <2>3
    <3>2. /\ seen[id].accepted <= 1 + seen[id].lost + seen[id].recovered
          /\ row[id].attempts <= MaxAttempts + seen[id].recovered
          /\ seen[id].posts <= row[id].attempts
      BY <2>1 DEF RowOK
    <3> QED
      BY <1>8, <2>1, <3>1, <3>2, Constants DEF Row, Seen
  <2> QED
    BY <2>2, <2>3
<1>13. ASSUME NEW id \in RowId, id \in Ids(ids)
       PROVE  RowOK(id)' /\ row'[id] = claimed(id)
  <2>1. row'[id] = claimed(id)
    BY <1>1, <1>13
  <2>2. /\ seen'[id].accepted <= seen'[id].lost + seen'[id].recovered
        /\ row[id].attempts < MaxAttempts + seen'[id].recovered
        /\ seen'[id].posts <= row[id].attempts
    BY <1>6, <1>7, <1>12, <1>13
  <2>3. seen'[id] \in Seen /\ row[id] \in Row
    BY <1>9, Types DEF IInv
  <2>4. /\ seen'[id].accepted <= 1 + seen'[id].lost + seen'[id].recovered
        /\ row[id].attempts + 1 <= MaxAttempts + seen'[id].recovered
        /\ seen'[id].posts <= row[id].attempts + 1
    BY <2>2, <2>3, Constants DEF Seen, Row
  <2> QED
    BY <1>10, <2>1, <2>4 DEF RowOK
<1>14. ASSUME NEW id \in RowId, id \notin Ids(ids)
       PROVE  RowOK(id)'
  <2>1. row'[id] = rows[id]
    BY <1>1, <1>14
  <2>2. CASE ~Stale(id)
    BY <1>3, <1>8, <2>1, <2>2, RowKept
  <2>3. CASE Stale(id)
    <3>1. row'[id].status = "pending" /\ row'[id].attempts = row[id].attempts
      BY <1>3, <2>1, <2>3
    <3>2. /\ seen'[id].accepted <= seen'[id].lost + seen'[id].recovered
          /\ row[id].attempts < MaxAttempts + seen'[id].recovered
          /\ seen'[id].posts <= row[id].attempts
      BY <1>12, <2>3
    <3>3. seen'[id] \in Seen /\ row[id] \in Row
      BY <1>9, Types DEF IInv
    <3>4. /\ seen'[id].accepted <= 1 + seen'[id].lost + seen'[id].recovered
          /\ row[id].attempts <= MaxAttempts + seen'[id].recovered
      BY <3>2, <3>3, Constants DEF Seen, Row
    <3> QED
      BY <3>1, <3>2, <3>4 DEF RowOK, Settled
  <2> QED
    BY <2>2, <2>3
<1> DEFINE batch == [i \in DOMAIN ids |-> entry(ids[i])]
           next == [Resting EXCEPT !.phase = "post", !.batch = batch]
<1>15. \A id \in RowId : entry(id) \in Entry /\ entry(id).id = id /\ entry(id).attempts = row[id].attempts + 1
  <2>1. ASSUME NEW id \in RowId PROVE row[id].attempts + 1 \in Nat
    BY Types DEF IInv, Row
  <2> QED
    BY <2>1 DEF Entry
<1> HIDE DEF entry, claimed
<1>16. /\ batch \in Seq(Entry) /\ batch # <<>> /\ Len(batch) = Len(ids) /\ DOMAIN batch = DOMAIN ids
       /\ \A i \in DOMAIN ids : batch[i] = entry(ids[i])
  <2>1. batch \in [1..Len(ids) -> Entry]
    BY <1>4, <1>5, <1>15
  <2>2. batch \in Seq(Entry)
    BY <1>4, <2>1, SeqDef
  <2>3. DOMAIN batch = DOMAIN ids /\ \A i \in DOMAIN ids : batch[i] = entry(ids[i])
    OBVIOUS
  <2> HIDE DEF batch
  <2>4. Len(batch) = Len(ids) /\ Len(batch) # 0
    BY <1>4, <2>2, <2>3, LenProperties
  <2> QED
    BY <2>2, <2>3, <2>4, EmptySeq
<1> HIDE DEF batch
<1>17. next \in Disp /\ next.phase = "post" /\ next.batch = batch /\ next.outcome = "none" /\ next.busy = 0
  BY <1>16, Rest DEF Disp, Phases, Resting
<1>18. disp' = [disp EXCEPT ![d] = next]
  BY <1>1 DEF batch
<1> HIDE DEF next
<1>19. /\ disp' \in [Dispatcher -> Disp] /\ disp'[d] = next
       /\ \A e \in Dispatcher : e # d => disp'[e] = disp[e]
  BY <1>17, <1>18, Types DEF IInv
<1>20. DispOK(d)'
  <2>1. next.busy <= RequestTimeout
    BY <1>17, Constants
  <2> QED
    BY <1>16, <1>17, <1>19, <2>1 DEF DispOK
<1>21. ASSUME NEW i \in DOMAIN disp'[d].batch PROVE EntryOK(d, i)'
  <2>1. PICK id \in RowId : i \in DOMAIN ids /\ id = ids[i] /\ id \in Ids(ids)
    BY <1>5, <1>16, <1>17, <1>19
  <2>2. /\ disp'[d].batch[i].id = id /\ disp'[d].batch[i].attempts = row[id].attempts + 1
        /\ Len(disp'[d].batch) = Len(ids) /\ disp'[d].busy = 0 /\ disp'[d].phase = "post"
    BY <1>15, <1>16, <1>17, <1>19, <2>1
  <2>3. row'[id].status = "processing" /\ row'[id].attempts = row[id].attempts + 1 /\ row'[id].age = 0
    BY <1>10, <1>13, <2>1
  <2>4. 0 + Len(ids) * RequestTimeout <= Batch * RequestTimeout + 0
    BY <1>4, Times, Constants
  <2>5. /\ seen'[id].accepted <= seen'[id].lost + seen'[id].recovered
        /\ seen'[id].posts < row[id].attempts + 1
    <3>1. seen'[id].posts <= row[id].attempts /\ seen'[id].accepted <= seen'[id].lost + seen'[id].recovered
      BY <1>6, <1>7, <1>12, <2>1
    <3>2. seen'[id].posts \in Nat /\ row[id].attempts \in Nat
      BY <1>9, Types DEF IInv, Seen, Row
    <3> QED
      BY <3>1, <3>2
  <2> QED
    BY <2>2, <2>3, <2>4, <2>5 DEF EntryOK, Settled
<1> DEFINE Touched == {id \in RowId : row[id].status = "pending" \/ Stale(id)}
<1>22. \A e \in Dispatcher : \A i \in DOMAIN disp[e].batch : disp[e].batch[i].id \notin Touched
  BY HeldFresh
<1>23. \A id \in RowId : id \in Touched => RowOK(id)'
  BY <1>13, <1>14
<1>24. \A id \in RowId : id \notin Touched => row'[id] = row[id] /\ seen'[id] = seen[id]
  <2> SUFFICES ASSUME NEW id \in RowId, id \notin Touched PROVE row'[id] = row[id] /\ seen'[id] = seen[id]
    OBVIOUS
  <2>1. ~Stale(id) /\ id \notin Ids(ids)
    BY <1>6, <1>7
  <2> QED
    BY <1>1, <1>3, <1>8, <2>1
<1>25. \A i \in DOMAIN ids : ids[i] \in Touched
  BY <1>5, <1>7
<1> HIDE DEF Touched
<1>26. Exclusive'
  <2> SUFFICES ASSUME NEW a \in Dispatcher, NEW b \in Dispatcher,
                      NEW i \in DOMAIN disp'[a].batch, NEW j \in DOMAIN disp'[b].batch,
                      disp'[a].batch[i].id = disp'[b].batch[j].id
               PROVE  a = b /\ i = j
    BY DEF Exclusive
  <2>1. \A k \in DOMAIN disp'[d].batch : k \in DOMAIN ids /\ disp'[d].batch[k].id = ids[k] /\ ids[k] \in Touched
    BY <1>5, <1>15, <1>16, <1>17, <1>19, <1>25
  <2>2. CASE a = d /\ b = d
    BY <1>4, <2>1, <2>2
  <2>3. CASE a = d /\ b # d
    BY <1>19, <1>22, <2>1, <2>3
  <2>4. CASE a # d /\ b = d
    BY <1>19, <1>22, <2>1, <2>4
  <2>5. CASE a # d /\ b # d
    BY <1>19, <2>5 DEF IInv, Exclusive
  <2> QED
    BY <2>2, <2>3, <2>4, <2>5
<1>27. faults' \in 0..MaxFaults
  BY <1>2, Types DEF IInv
<1> QED
  BY <1>9, <1>11, <1>19, <1>20, <1>21, <1>22, <1>23, <1>24, <1>26, <1>27, DispatcherStep

\* Time makes claimed rows older, and their dispatchers' requests longer.
LEMMA TickOK ==
  ASSUME IInv, Tick
  PROVE  IInv'
<1>1. \A id \in RowId : /\ row'[id] \in Row
                        /\ row'[id].status = row[id].status /\ row'[id].attempts = row[id].attempts
                        /\ row'[id].age \in {row[id].age, row[id].age + 1}
  <2> SUFFICES ASSUME NEW id \in RowId
               PROVE  /\ row'[id] \in Row
                      /\ row'[id].status = row[id].status /\ row'[id].attempts = row[id].attempts
                      /\ row'[id].age \in {row[id].age, row[id].age + 1}
    OBVIOUS
  <2>1. row[id] \in Row /\ row[id].wait - 1 \in Int /\ row[id].age + 1 \in Nat
    BY Types DEF IInv, Row
  <2>2. CASE row[id].status = "pending"
    <3>1. row'[id] = [row[id] EXCEPT !.wait = IF @ > -MaxLag THEN @ - 1 ELSE @]
      BY <2>2 DEF Tick
    <3> QED
      BY <2>1, <3>1 DEF Row
  <2>3. CASE row[id].status = "processing"
    <3>1. row'[id] = [row[id] EXCEPT !.age = IF @ < StaleAfter THEN @ + 1 ELSE @]
      BY <2>3 DEF Tick
    <3> QED
      BY <2>1, <3>1 DEF Row
  <2>4. CASE row[id].status \notin {"pending", "processing"}
    BY <2>1, <2>4 DEF Tick
  <2> QED
    BY <2>2, <2>3, <2>4
<1>2. ASSUME NEW d \in Dispatcher
      PROVE  /\ disp'[d] \in Disp
             /\ disp'[d].phase = disp[d].phase /\ disp'[d].batch = disp[d].batch
             /\ disp'[d].outcome = disp[d].outcome
             /\ disp[d].phase \in {"post", "mark"} => disp'[d].busy = disp[d].busy + 1
             /\ disp[d].phase \notin {"post", "mark"} => disp'[d].busy = disp[d].busy
  <2>1. disp[d] \in Disp /\ disp[d].busy + 1 \in Nat
    BY Types DEF IInv, Disp
  <2> QED
    BY <2>1 DEF Tick, Disp
<1>3. TypeOK'
  <2>1. row' \in [RowId -> Row] /\ disp' \in [Dispatcher -> Disp]
    BY <1>1, <1>2 DEF Tick
  <2>2. UNCHANGED <<seen, faults>>
    BY DEF Tick
  <2> QED
    BY <2>1, <2>2 DEF TypeOK, IInv, Row, Disp, Entry
<1>4. UNCHANGED seen
  BY DEF Tick
<1>5. \A id \in RowId : RowOK(id)'
  BY <1>1, <1>4 DEF IInv, RowOK, Settled
<1>6. ASSUME NEW d \in Dispatcher PROVE DispOK(d)'
  <2>1. DispOK(d) /\ disp[d].busy \in Nat
    BY Types DEF IInv, Disp
  <2>2. disp[d].phase \in {"post", "mark"} => disp[d].busy < RequestTimeout
    BY DEF Tick
  <2>3. disp'[d].busy <= RequestTimeout
    <3>1. RequestTimeout \in Nat /\ disp[d].busy <= RequestTimeout
      BY <2>1, Constants DEF DispOK
    <3>2. \/ disp'[d].busy = disp[d].busy + 1 /\ disp[d].busy < RequestTimeout
          \/ disp'[d].busy = disp[d].busy
      BY <1>2, <2>2
    <3> QED
      BY <2>1, <3>1, <3>2
  <2> QED
    BY <1>2, <2>1, <2>3 DEF DispOK
<1>7. ASSUME NEW d \in Dispatcher, NEW i \in DOMAIN disp'[d].batch PROVE EntryOK(d, i)'
  <2> DEFINE n == Len(disp[d].batch)
  <2>1. i \in DOMAIN disp[d].batch /\ EntryOK(d, i) /\ disp[d].phase \in {"post", "mark"}
        /\ n \in Nat /\ disp[d].busy \in Nat
    <3>1. i \in DOMAIN disp[d].batch
      BY <1>2, <1>7
    <3>2. disp[d].batch # <<>>
      BY <3>1, Batches, EmptySeq DEF IInv
    <3> QED
      BY <3>1, <3>2, Batches DEF IInv, DispOK, Disp
  <2>2. PICK id \in RowId : id = disp[d].batch[i].id
    BY <2>1, HeldFresh
  <2>3. row[id].age \in Nat /\ row[id].age + n * RequestTimeout <= Batch * RequestTimeout + disp[d].busy
    BY <2>1, <2>2, Types DEF EntryOK, IInv, Row
  <2>4. n * RequestTimeout \in Nat
    BY <2>1, Times
  <2>5. row'[id].age + n * RequestTimeout <= Batch * RequestTimeout + disp'[d].busy
    <3> HIDE DEF n
    <3>1. row'[id].age \in {row[id].age, row[id].age + 1} /\ disp'[d].busy = disp[d].busy + 1
      BY <1>1, <1>2, <2>1
    <3> QED
      BY <2>1, <2>3, <2>4, <3>1, Constants
  <2> QED
    BY <1>1, <1>2, <1>4, <2>1, <2>2, <2>5 DEF EntryOK, Settled
<1>8. Exclusive'
  BY <1>2 DEF IInv, Exclusive
<1> QED
  BY <1>3, <1>5, <1>6, <1>7, <1>8 DEF IInv

LEMMA InvStep ==
  ASSUME IInv, [Next]_vars
  PROVE  IInv'
<1>1. CASE UNCHANGED vars
  <2>1. UNCHANGED <<row, disp, seen, faults>>
    BY <1>1 DEF vars
  <2>2. TypeOK' /\ Exclusive'
    <3>1. TypeOK'
      BY <2>1 DEF IInv, TypeOK
    <3>2. Exclusive'
      BY <2>1 DEF IInv, Exclusive
    <3> QED
      BY <3>1, <3>2
  <2>3. \A id \in RowId : RowOK(id)'
    BY <2>1, RowKept
  <2>4. \A d \in Dispatcher : DispOK(d)'
    BY <2>1 DEF IInv, DispOK
  <2>5. ASSUME NEW d \in Dispatcher, NEW i \in DOMAIN disp[d].batch PROVE EntryOK(d, i)'
    BY <2>1, HeldKept
  <2> QED
    BY <2>1, <2>2, <2>3, <2>4, <2>5 DEF IInv
<1>2. ASSUME NEW d \in Dispatcher,
             Claim(d) \/ Post(d) \/ Mark(d) \/ MarkFails(d) \/ Crash(d) \/ Restart(d)
      PROVE  IInv'
  BY <1>2, ClaimOK, PostOK, MarkDeliveredOK, MarkRetryOK, MarkFailsOK, CrashOK DEF Mark
<1> QED
  BY <1>1, <1>2, EnqueueOK, TickOK DEF Next

LEMMA Inductive == Spec => []IInv
<1>1. IInv /\ [Next]_vars => IInv'
  BY InvStep
<1> QED
  BY <1>1, InitOK, PTL DEF Spec

-----------------------------------------------------------------------------
\* Rows, dispatchers and counters have their types.
THEOREM OutboxTyped == Spec => []TypeOK
<1>1. IInv => TypeOK
  BY DEF IInv
<1> QED
  BY <1>1, Inductive, PTL

\* No dispatcher writes over another's claim, although nothing but time keeps
\* them apart.
THEOREM ClaimsCorrect == Spec => []ExclusiveClaims
<1>1. ASSUME IInv PROVE ExclusiveClaims
  <2> SUFFICES ASSUME NEW d \in Dispatcher, NEW i \in DOMAIN disp[d].batch
               PROVE  LET entry == disp[d].batch[i] IN
                      /\ row[entry.id].status = "processing"
                      /\ row[entry.id].attempts = entry.attempts
                      /\ \A j \in DOMAIN disp[d].batch : disp[d].batch[j].id = entry.id => j = i
                      /\ \A other \in Dispatcher \ {d} : entry.id \notin InBatch(other)
    BY DEF ExclusiveClaims
  <2>1. EntryOK(d, i) /\ Exclusive
    BY <1>1 DEF IInv
  <2> QED
    BY <2>1 DEF EntryOK, Exclusive, InBatch
<1> QED
  BY <1>1, Inductive, PTL

\* What is marked delivered was accepted, what is marked failed was refused or
\* has used up its attempts.
THEOREM MarksCorrect == Spec => []MarksAreTrue
<1>1. IInv => MarksAreTrue
  BY DEF IInv, RowOK, MarksAreTrue
<1> QED
  BY <1>1, Inductive, PTL

\* A callback accepted twice had an answer lost or a claim recovered; attempts
\* exceed their limit by recovered claims only.
THEOREM DuplicatesCorrect == Spec => []DuplicatesExplained
<1>1. IInv => DuplicatesExplained
  BY DEF IInv, RowOK, DuplicatesExplained
<1> QED
  BY <1>1, Inductive, PTL

\* A marked callback is never claimed, posted or marked again.
THEOREM MarksFinal == Spec => FinalMarks
<1> DEFINE Final(id) == row[id].status \in {"delivered", "failed"}
           Stay == \A id \in RowId : Final(id) =>
                     row'[id].status = row[id].status /\ seen'[id].posts = seen[id].posts
<1>1. ASSUME IInv, Next PROVE Stay
  <2> SUFFICES ASSUME NEW id \in RowId, Final(id)
               PROVE  row'[id].status = row[id].status /\ seen'[id].posts = seen[id].posts
    OBVIOUS
  <2>1. /\ \A d \in Dispatcher : \A i \in DOMAIN disp[d].batch : disp[d].batch[i].id # id
        /\ ~Stale(id) /\ row \in [RowId -> Row] /\ seen \in [RowId -> Seen]
    BY <1>1, Unheld, Types DEF IInv, Stale
  <2>2. ASSUME NEW d \in Dispatcher, disp[d].phase \in {"post", "mark"}
        PROVE  Head(disp[d].batch).id # id
    BY <1>1, <2>1, <2>2, HeadEntry
  <2>3. CASE Tick
    BY <2>1, <2>3 DEF Tick
  <2>4. ASSUME NEW other \in RowId, Enqueue(other) PROVE Stay
    BY <2>1, <2>4 DEF Enqueue
  <2>5. ASSUME NEW d \in Dispatcher, Claim(d)
        PROVE  row'[id] = row[id] /\ seen'[id] = seen[id]
    <3>1. Released \in [RowId -> Row] /\ Released[id] = row[id]
      BY <1>1, <2>1, ReleasedTypes
    <3>2. PICK ids \in Queue(Released) :
            /\ ids # <<>>
            /\ row' = [other \in RowId |-> IF other \in Ids(ids)
                         THEN [Released[other] EXCEPT !.status = "processing", !.attempts = @ + 1, !.age = 0]
                         ELSE Released[other]]
      BY <2>5 DEF Claim
    <3>3. \A i \in DOMAIN ids : ids[i] \in Due(Released)
      BY <3>1, <3>2, QueueTypes, Zenon
    <3>4. id \notin Ids(ids)
      BY <3>1, <3>3 DEF Ids, Due
    <3> QED
      BY <2>1, <2>5, <3>1, <3>2, <3>4 DEF Claim
  <2>6. ASSUME NEW d \in Dispatcher, Post(d) PROVE UNCHANGED row /\ seen'[id] = seen[id]
    BY <2>1, <2>2, <2>6 DEF Post
  <2>7. ASSUME NEW d \in Dispatcher, Mark(d) PROVE row'[id] = row[id] /\ UNCHANGED seen
    BY <2>1, <2>2, <2>7 DEF Mark, MarkDelivered, MarkRetry, Write
  <2>8. ASSUME NEW d \in Dispatcher, MarkFails(d) \/ Crash(d) \/ Restart(d)
        PROVE  UNCHANGED <<row, seen>>
    BY <2>8 DEF MarkFails, Crash, Restart
  <2> QED
    BY <1>1, <2>3, <2>4, <2>5, <2>6, <2>7, <2>8 DEF Next
<1>2. IInv /\ [Next]_vars => [Stay]_vars
  BY <1>1
<1> QED
  BY <1>2, Inductive, PTL DEF Spec, FinalMarks

-----------------------------------------------------------------------------
(***************************************************************************)
(* The delays.  The provers know nothing of powers, but the library knows  *)
(* how many subsets a finite set has; and nothing of recursion, but that   *)
(* the natural numbers are well founded.                                   *)
(***************************************************************************)
LEMMA PowersOfTwo ==
  2^0 = 1 /\ \A n \in Nat : 2^n \in Nat /\ 2^(n + 1) = 2 * 2^n
<1>1. ASSUME NEW n \in Nat
      PROVE  /\ IsFiniteSet(SUBSET (1..n)) /\ Cardinality(SUBSET (1..n)) = 2^n
             /\ Cardinality(SUBSET (1..n)) \in Nat
  <2>1. IsFiniteSet(1..n) /\ Cardinality(1..n) = n
    BY FS_Interval
  <2>2. IsFiniteSet(SUBSET (1..n)) /\ Cardinality(SUBSET (1..n)) = 2^Cardinality(1..n)
    BY <2>1, FS_SUBSET, Zenon
  <2> QED
    BY <2>1, <2>2, FS_CardinalityType, Zenon
<1>2. 2^0 = 1
  <2>1. SUBSET (1..0) = {{}}
    OBVIOUS
  <2>2. Cardinality(SUBSET (1..0)) = 1
    BY <2>1, FS_Singleton
  <2> QED
    BY <1>1, <2>2, Zenon
<1>3. ASSUME NEW n \in Nat PROVE 2^(n + 1) = 2 * 2^n
  <2> DEFINE S == SUBSET (1..n)
             T == {X \cup {n + 1} : X \in S}
             f == [X \in S |-> X \cup {n + 1}]
  <2>1. SUBSET (1..(n + 1)) = S \cup T
    <3>1. ASSUME NEW Y \in SUBSET (1..(n + 1)), n + 1 \in Y PROVE Y \in T
      <4>1. Y \ {n + 1} \in S /\ Y = (Y \ {n + 1}) \cup {n + 1}
        BY <3>1
      <4> QED
        BY <4>1
    <3>2. ASSUME NEW Y \in SUBSET (1..(n + 1)), n + 1 \notin Y PROVE Y \in S
      BY <3>2
    <3>3. 1..n \subseteq 1..(n + 1) /\ n + 1 \in 1..(n + 1)
      OBVIOUS
    <3>4. \A X \in S : X \in SUBSET (1..(n + 1)) /\ X \cup {n + 1} \in SUBSET (1..(n + 1))
      BY <3>3
    <3>5. SUBSET (1..(n + 1)) \subseteq S \cup T
      BY <3>1, <3>2
    <3>6. S \subseteq SUBSET (1..(n + 1)) /\ T \subseteq SUBSET (1..(n + 1))
      BY <3>4
    <3> HIDE DEF S, T
    <3> QED
      BY <3>5, <3>6, Zenon
  <2>2. S \cap T = {}
    OBVIOUS
  <2>3. f \in Bijection(S, T)
    <3>1. f \in Surjection(S, T)
      BY DEF Surjection
    <3>2. ASSUME NEW X \in S, NEW Y \in S, f[X] = f[Y] PROVE X = Y
      <4>1. X = f[X] \ {n + 1} /\ Y = f[Y] \ {n + 1}
        OBVIOUS
      <4> QED
        BY <3>2, <4>1
    <3>3. f \in Injection(S, T)
      BY <3>1, <3>2 DEF Injection, IsInjective, Surjection
    <3> QED
      BY <3>1, <3>3 DEF Bijection
  <2>4. IsFiniteSet(S) /\ Cardinality(S) \in Nat
    BY <1>1
  <2> HIDE DEF S, T, f
  <2>5. IsFiniteSet(T) /\ Cardinality(T) = Cardinality(S)
    BY <2>3, <2>4, FS_Bijection DEF ExistsBijection
  <2>6. Cardinality(S \cup T) = Cardinality(S) + Cardinality(T)
    <3>1. Cardinality(S \cap T) = 0
      BY <2>2, FS_EmptySet
    <3> QED
      BY <2>4, <2>5, <3>1, FS_Union
  <2>7. Cardinality(SUBSET (1..(n + 1))) = 2 * Cardinality(S)
    <3>1. Cardinality(SUBSET (1..(n + 1))) = Cardinality(S) + Cardinality(S)
      BY <2>1, <2>5, <2>6, Zenon
    <3>2. \A k \in Nat : k + k = 2 * k
      OBVIOUS
    <3> QED
      BY <2>4, <3>1, <3>2, Zenon
  <2>8. Cardinality(SUBSET (1..(n + 1))) = 2^(n + 1) /\ Cardinality(S) = 2^n
    <3>1. n + 1 \in Nat
      OBVIOUS
    <3> QED
      BY <1>1, <3>1, Zenon DEF S
  <2> QED
    BY <2>7, <2>8, Zenon
<1>4. \A n \in Nat : 2^n \in Nat
  BY <1>1, Zenon
<1> QED
  BY <1>2, <1>3, <1>4, Zenon

LEMMA LeastNumber ==
  ASSUME NEW S, S \subseteq Nat, S # {}
  PROVE  \E n \in S : \A m \in S : n <= m
<1>1. \E n \in S : \A m \in S : <<m, n>> \notin OpToRel(<, Nat)
  BY NatLessThanWellFounded, WFMin, Zenon
<1>2. \A m, n \in Nat : m < n => <<m, n>> \in OpToRel(<, Nat)
  BY DEF OpToRel
<1>3. \E n \in S : \A m \in S : ~(m < n)
  BY <1>1, <1>2, Zenon
<1> QED
  BY <1>3

\* What the recursion computes.
LEMMA DoubledIs ==
  \A n \in Nat : Doubled[n] = RetryBase * 2^n
<1> DEFINE Power(n) == 2^n
           Step(g) == [n \in Nat |-> IF n = 0 THEN RetryBase ELSE 2 * g[n - 1]]
           h == [n \in Nat |-> RetryBase * Power(n)]
<1>1. Power(0) = 1 /\ \A n \in Nat : Power(n) \in Nat /\ Power(n + 1) = 2 * Power(n)
  BY PowersOfTwo, Zenon
<1> HIDE DEF Power
<1>2. h = Step(h)
  <2>1. ASSUME NEW n \in Nat, n # 0 PROVE h[n] = 2 * h[n - 1]
    <3>1. PICK m \in Nat : n = m + 1 /\ m = n - 1
      BY <2>1
    <3>2. h[n] = RetryBase * Power(m + 1) /\ h[n - 1] = RetryBase * Power(m)
      BY <3>1
    <3>3. \A p, q \in Nat : p * (2 * q) = 2 * (p * q)
      OBVIOUS
    <3> QED
      BY <1>1, <3>2, <3>3, Constants
  <2>2. h[0] = RetryBase
    BY <1>1, Constants
  <2> QED
    BY <2>1, <2>2
<1>3. Doubled = Step(Doubled)
  <2>1. Doubled = CHOOSE g : g = Step(g)
    BY DEF Doubled
  <2> HIDE DEF Step, h
  <2> QED
    BY <1>2, <2>1
<1>4. /\ Doubled[0] = RetryBase
      /\ \A n \in Nat : n # 0 => Doubled[n] = 2 * Doubled[n - 1]
  BY <1>3
<1>5. ASSUME NEW n \in Nat, Doubled[n] # h[n] PROVE FALSE
  <2> DEFINE Wrong == {m \in Nat : Doubled[m] # h[m]}
  <2>1. PICK m \in Wrong : \A k \in Wrong : m <= k
    <3>1. Wrong \subseteq Nat /\ Wrong # {}
      BY <1>5
    <3> HIDE DEF Wrong
    <3> QED
      BY <3>1, LeastNumber
  <2>2. m \in Nat /\ Doubled[m] # h[m] /\ m # 0
    BY <1>2, <1>4
  <2>3. m - 1 \in Nat /\ m - 1 \notin Wrong
    BY <2>1, <2>2
  <2>4. Doubled[m - 1] = h[m - 1]
    BY <2>3
  <2>5. h[m] = 2 * h[m - 1]
    BY <1>2, <2>2
  <2> QED
    BY <1>4, <2>2, <2>4, <2>5
<1>6. \A n \in Nat : h[n] = RetryBase * Power(n)
  OBVIOUS
<1> HIDE DEF h
<1> QED
  BY <1>5, <1>6, Zenon DEF Power

LEMMA DelayIs ==
  ASSUME NEW k \in Nat, k >= 1, NEW delay \in BackoffDelays(k)
  PROVE  LET full  == RetryBase * 2^(k - 1)
             least == IF k > 1 /\ full > RetryCap THEN RetryCap ELSE full
         IN delay \in least .. (least + least \div 4)
<1> DEFINE full == Doubled[k - 1]
<1>1. k - 1 \in Nat
  OBVIOUS
<1>2. full = RetryBase * 2^(k - 1) /\ 2^(k - 1) \in Nat
  BY <1>1, DoubledIs, PowersOfTwo, Zenon
<1>3. \A n \in Nat : RetryBase * n \in Nat
  BY Constants
<1>4. full \in Nat
  BY <1>2, <1>3, Zenon
<1>5. delay \in IF k > 1 /\ full >= RetryCap THEN {RetryCap} ELSE full .. (full + full \div 4)
  BY DEF BackoffDelays
<1> HIDE DEF full
<1>6. LET least == IF k > 1 /\ full > RetryCap THEN RetryCap ELSE full
      IN delay \in least .. (least + least \div 4)
  BY <1>4, <1>5, Constants
<1> QED
  BY <1>2, <1>6, Zenon

LEMMA MarkWrites ==
  ASSUME IInv, NEW d \in Dispatcher, Mark(d)
  PROVE  \E head \in RowId, status \in {"delivered", "pending", "failed"}, wait \in Int :
           Write(head, status, wait)
<1>1. Head(disp[d].batch).id \in RowId
  BY HeadEntry DEF Mark, MarkDelivered, MarkRetry, Entry
<1>2. CASE MarkDelivered(d)
  BY <1>1, <1>2 DEF MarkDelivered
<1>3. CASE MarkRetry(d)
  BY <1>1, <1>3, DelayTypes DEF MarkRetry
<1> QED
  BY <1>2, <1>3 DEF Mark

LEMMA WaitWritten ==
  ASSUME IInv, NEW id \in RowId, NEW status \in RowStatus, NEW wait \in Int, Write(id, status, wait)
  PROVE  row'[id].wait = wait
<1>1. PICK r \in Row : r = row[id]
  BY Types DEF IInv
<1>2. row'[id] = [r EXCEPT !.status = status, !.wait = wait, !.age = 0]
  BY <1>1, Types DEF IInv, Write
<1> QED
  BY <1>2 DEF Row

\* A row that is being processed has been claimed once at least.
Tried == \A id \in RowId : row[id].status = "processing" => row[id].attempts >= 1

LEMMA TriedStep ==
  ASSUME IInv, Tried, [Next]_vars
  PROVE  Tried'
<1>0. row \in [RowId -> Row]
  BY Types DEF IInv
<1> SUFFICES ASSUME NEW id \in RowId, row'[id].status = "processing" PROVE row'[id].attempts >= 1
  BY DEF Tried
<1>1. CASE Tick
  <2>1. row'[id].status = row[id].status /\ row'[id].attempts = row[id].attempts
    BY <1>0, <1>1 DEF Tick, Row
  <2> QED
    BY <2>1 DEF Tried
<1>2. ASSUME NEW other \in RowId, Enqueue(other) PROVE row'[id] = row[id] \/ row'[id].status = "pending"
  BY <1>0, <1>2 DEF Enqueue, NoRow
<1>3. ASSUME NEW d \in Dispatcher, Claim(d)
      PROVE  row'[id].attempts >= 1
  <2>1. Released \in [RowId -> Row] /\ (Released[id] = row[id] \/ Released[id].status = "pending")
    BY <1>0, ReleasedTypes DEF Released, IInv, Row
  <2>2. PICK ids \in Queue(Released) :
          row' = [other \in RowId |-> IF other \in Ids(ids)
                       THEN [Released[other] EXCEPT !.status = "processing", !.attempts = @ + 1, !.age = 0]
                       ELSE Released[other]]
    BY <1>3 DEF Claim
  <2>3. CASE id \in Ids(ids)
    <3>1. PICK r \in Row : r = Released[id]
      BY <2>1
    <3>2. row'[id] = [r EXCEPT !.status = "processing", !.attempts = @ + 1, !.age = 0]
      BY <2>2, <2>3, <3>1
    <3>3. row'[id].attempts = r.attempts + 1 /\ r.attempts \in Nat
      BY <3>2 DEF Row
    <3> QED
      BY <3>3
  <2>4. CASE id \notin Ids(ids)
    BY <2>1, <2>2, <2>4 DEF Tried
  <2> QED
    BY <2>3, <2>4
<1>4. ASSUME NEW d \in Dispatcher, Mark(d) PROVE row'[id] = row[id] \/ row'[id].status # "processing"
  <2>1. PICK head \in RowId, status \in {"delivered", "pending", "failed"}, wait \in Int :
          Write(head, status, wait)
    BY <1>4, MarkWrites
  <2>2. status \in RowStatus
    BY DEF RowStatus
  <2> QED
    BY <2>1, <2>2, Written
<1>5. ASSUME NEW d \in Dispatcher, Post(d) \/ MarkFails(d) \/ Crash(d) \/ Restart(d) PROVE row' = row
  BY <1>5 DEF Post, MarkFails, Crash, Restart
<1> QED
  BY <1>1, <1>2, <1>3, <1>4, <1>5 DEF Next, vars, Tried

\* A retry is never sooner than the base doubled for every attempt but the first,
\* or than the cap, and never later than that by more than a quarter.
THEOREM RetriesTimed == Spec => RetryDelay
<1> DEFINE Timed == \A id \in RowId :
             (row[id].status = "processing" /\ row'[id].status = "pending" /\ ~Stale(id)) =>
               LET k     == row[id].attempts
                   full  == RetryBase * 2^(k - 1)
                   least == IF k > 1 /\ full > RetryCap THEN RetryCap ELSE full
               IN row'[id].wait \in least .. (least + least \div 4)
<1>1. Init => Tried
  BY DEF Init, Tried, NoRow
<1>2. ASSUME IInv, Tried, Next PROVE Timed
  <2> SUFFICES ASSUME NEW id \in RowId, row[id].status = "processing", row'[id].status = "pending", ~Stale(id)
               PROVE  LET k     == row[id].attempts
                          full  == RetryBase * 2^(k - 1)
                          least == IF k > 1 /\ full > RetryCap THEN RetryCap ELSE full
                      IN row'[id].wait \in least .. (least + least \div 4)
    OBVIOUS
  <2>0. row \in [RowId -> Row] /\ row[id].attempts \in Nat /\ row[id].attempts >= 1
    BY <1>2, Types DEF IInv, Tried, Row
  <2>1. ASSUME Tick PROVE FALSE
    <3>1. row'[id].status = row[id].status
      BY <2>0, <2>1 DEF Tick
    <3> QED
      BY <3>1
  <2>2. ASSUME NEW other \in RowId, Enqueue(other) PROVE FALSE
    BY <2>0, <2>2 DEF Enqueue
  <2>3. ASSUME NEW d \in Dispatcher, Claim(d) PROVE FALSE
    <3>1. Released \in [RowId -> Row] /\ Released[id] = row[id]
      BY <1>2, ReleasedTypes
    <3>2. PICK ids \in Queue(Released) :
            row' = [other \in RowId |-> IF other \in Ids(ids)
                         THEN [Released[other] EXCEPT !.status = "processing", !.attempts = @ + 1, !.age = 0]
                         ELSE Released[other]]
      BY <2>3 DEF Claim
    <3> QED
      BY <2>0, <3>1, <3>2 DEF Row
  <2>4. ASSUME NEW d \in Dispatcher, MarkDelivered(d) PROVE FALSE
    <3>1. PICK head \in RowId : Write(head, "delivered", 0)
      BY <1>2, <2>4, HeadEntry DEF MarkDelivered, Entry
    <3>2. "delivered" \in RowStatus /\ 0 \in Int
      BY DEF RowStatus
    <3>3. row'[head].status = "delivered" /\ \A other \in RowId : other # head => row'[other] = row[other]
      BY <1>2, <3>1, <3>2, Written
    <3> QED
      BY <3>3
  <2>5. ASSUME NEW d \in Dispatcher, MarkRetry(d)
        PROVE  row'[id].wait \in BackoffDelays(row[id].attempts)
    <3>1. PICK head \in RowId : head = Head(disp[d].batch).id
      BY <1>2, <2>5, HeadEntry DEF MarkRetry, Entry
    <3>2. row[head].attempts = Head(disp[d].batch).attempts
      BY <1>2, <2>5, <3>1, HeadEntry DEF MarkRetry, EntryOK
    <3>3. \/ \E delay \in BackoffDelays(row[head].attempts) : Write(head, "pending", delay)
          \/ Write(head, "failed", 0)
      BY <2>5, <3>1, <3>2 DEF MarkRetry
    <3>4. {"pending", "failed"} \subseteq RowStatus /\ 0 \in Int
      BY DEF RowStatus
    <3>5. CASE Write(head, "failed", 0)
      BY <1>2, <3>4, <3>5, Written
    <3>6. CASE \E delay \in BackoffDelays(row[head].attempts) : Write(head, "pending", delay)
      <4>1. PICK delay \in BackoffDelays(row[head].attempts) : Write(head, "pending", delay)
        BY <3>6
      <4>2. delay \in Int
        BY DelayTypes
      <4>3. row'[head].wait = delay /\ \A other \in RowId : other # head => row'[other] = row[other]
        BY <1>2, <3>4, <4>1, <4>2, Written, WaitWritten
      <4>4. head = id
        BY <4>3
      <4> QED
        BY <4>3, <4>4
    <3> QED
      BY <3>3, <3>5, <3>6
  <2>6. ASSUME NEW d \in Dispatcher, Post(d) \/ MarkFails(d) \/ Crash(d) \/ Restart(d) PROVE FALSE
    BY <2>6 DEF Post, MarkFails, Crash, Restart
  <2>7. \E d \in Dispatcher : MarkRetry(d)
    BY <1>2, <2>1, <2>2, <2>3, <2>4, <2>6 DEF Next, Mark
  <2>8. row'[id].wait \in BackoffDelays(row[id].attempts)
    BY <2>5, <2>7
  <2> QED
    BY <2>0, <2>8, DelayIs, Zenon
<1>3. IInv /\ Tried /\ [Next]_vars => [Timed]_vars /\ Tried'
  BY <1>2, TriedStep
<1> HIDE DEF Timed
<1>4. Spec => [][Timed]_vars
  BY <1>1, <1>3, Inductive, PTL DEF Spec
<1> USE DEF Timed
<1> QED
  BY <1>4, Zenon DEF RetryDelay
=============================================================================
