-------------------------------- MODULE Outbox --------------------------------
(***************************************************************************)
(* The callback outbox (internal/outbox/dispatcher.go).  Rows of table     *)
(* outbox_events are claimed in batches, posted to the e-commerce endpoint *)
(* one after the other, and marked.  Dispatchers crash and restart, the    *)
(* endpoint refuses, fails, or accepts while its answer is lost, and the   *)
(* write that marks a row may fail.                                        *)
(*                                                                         *)
(* Time is relative, so that behaviours need not end with a clock: a row   *)
(* keeps how long until its next attempt (wait; negative when overdue) and *)
(* how long since it was last written (age), a dispatcher how long its     *)
(* present request has taken.                                              *)
(***************************************************************************)
EXTENDS Integers, Sequences, FiniteSets

CONSTANTS
  Dispatcher,      \* running instances of the service
  RowId,           \* the ids of the rows, numbers in the order of insertion
  Batch,           \* rows claimed at once (10)
  MaxAttempts,     \* OUTBOX_MAX_ATTEMPTS
  RetryBase,       \* OUTBOX_RETRY_BASE_DELAY
  RetryCap,        \* the longest delay (30 minutes)
  StaleAfter,      \* OUTBOX_PROCESSING_STALE_AFTER
  RequestTimeout,  \* REQUEST_TIMEOUT
  MaxLag,          \* bound: overdue times are told apart up to this
  MaxFaults        \* bound: crashes and failed writes, together

ASSUME OutboxAssumption ==
  /\ RowId \subseteq Nat
  /\ {Batch, MaxAttempts, RetryBase, RetryCap, StaleAfter, RequestTimeout} \subseteq Nat \ {0}
  /\ {MaxLag, MaxFaults} \subseteq Nat

\* A whole batch of timeouts is shorter than StaleAfter, as it is by default (10
\* times 10 s, 2 min).  Load (config.go) does not compare the two durations.
ASSUME LeaseAssumption == Batch * RequestTimeout < StaleAfter

VARIABLES
  row,      \* table outbox_events
  disp,     \* what each dispatcher is doing
  seen,     \* what the endpoint and the operators have seen of each row
  faults    \* faults so far

vars == <<row, disp, seen, faults>>

RowStatus == {"absent", "pending", "processing", "delivered", "failed"}

NoRow == [status |-> "absent", attempts |-> 0, wait |-> 0, age |-> 0]

\* A dispatcher's phase, the rows of its batch still to be handled (with the
\* attempts it read when it claimed them), the outcome of its last request, and
\* the time its present request has taken.
Phases == {"down", "idle", "post", "mark"}
Outcomes == {"none", "success", "permanent", "retryable"}

Resting == [phase |-> "idle", batch |-> <<>>, outcome |-> "none", busy |-> 0]

\* For each row: how often it was posted, accepted, accepted with the answer
\* lost, refused for good, and recovered from a stale claim.
Unseen == [posts |-> 0, accepted |-> 0, lost |-> 0, refused |-> 0, recovered |-> 0]

-----------------------------------------------------------------------------
(***************************************************************************)
(* backoffDelay: the base, doubled for each attempt after the first, at    *)
(* most the cap, with up to a quarter of jitter on delays below the cap.   *)
(***************************************************************************)
Doubled[n \in Nat] == IF n = 0 THEN RetryBase ELSE 2 * Doubled[n - 1]

\* Slip: the delay is doubled for the first attempt too.
BackoffDelaysEarlyDoubling(attempts) ==
  LET delay == Doubled[attempts]
  IN IF attempts > 1 /\ delay >= RetryCap THEN {RetryCap}
     ELSE delay .. (delay + delay \div 4)

BackoffDelays(attempts) ==
  LET delay == Doubled[IF attempts < 1 THEN 0 ELSE attempts - 1]
  IN IF attempts > 1 /\ delay >= RetryCap THEN {RetryCap}
     ELSE delay .. (delay + delay \div 4)

\* Slip: of the rows due at once, the last one first.
BeforeLastFirst(rows, a, b) ==
  \/ rows[a].wait < rows[b].wait
  \/ rows[a].wait = rows[b].wait /\ a > b

\* Rows in the order of the claim: ORDER BY next_attempt_at, id.
Before(rows, a, b) ==
  \/ rows[a].wait < rows[b].wait
  \/ rows[a].wait = rows[b].wait /\ a < b

\* Slip: any claim may be released.
StaleAtOnce(id) == row[id].status = "processing"

\* Slip: claims are never released.
StaleNever(id) == FALSE

Stale(id) == row[id].status = "processing" /\ row[id].age >= StaleAfter

\* The table once the stale claims are released.
Released ==
  [id \in RowId |-> IF Stale(id)
                    THEN [row[id] EXCEPT !.status = "pending", !.wait = 0, !.age = 0]
                    ELSE row[id]]

\* Slip: the claim does not look at the status.
DueAnyStatus(rows) ==
  {id \in RowId : rows[id].status \in {"pending", "delivered"} /\ rows[id].wait <= 0}

Due(rows) == {id \in RowId : rows[id].status = "pending" /\ rows[id].wait <= 0}

Ids(list) == {list[i] : i \in DOMAIN list}

\* The list of the due rows in their order, cut off after Batch: the one element.
Queue(rows) ==
  {ids \in UNION {[1..n -> Due(rows)] : n \in 0..Batch} :
     /\ \A i, j \in DOMAIN ids : i < j => Before(rows, ids[i], ids[j])
     /\ \A id \in Due(rows) \ Ids(ids) :
          Len(ids) = Batch /\ \A i \in DOMAIN ids : Before(rows, ids[i], id)}

\* Releasing stale claims and claiming due rows is one transaction, under the
\* locks of its SELECT ... FOR UPDATE.
Claim(d) ==
  /\ disp[d].phase = "idle"
  /\ LET rows == Released IN
     \E ids \in Queue(rows) :
        /\ ids # <<>>
        /\ row' = [id \in RowId |->
             IF id \in Ids(ids)
             THEN [rows[id] EXCEPT !.status = "processing", !.attempts = @ + 1, !.age = 0]
             ELSE rows[id]]
        /\ disp' = [disp EXCEPT ![d] =
             [Resting EXCEPT
                !.phase = "post",
                !.batch = [i \in DOMAIN ids |-> [id |-> ids[i], attempts |-> row[ids[i]].attempts + 1]]]]
        /\ seen' = [id \in RowId |->
             IF Stale(id) THEN [seen[id] EXCEPT !.recovered = @ + 1] ELSE seen[id]]
  /\ UNCHANGED faults

\* The POST: accepted (2xx); accepted with the answer lost on the way, or a
\* timeout; not accepted but worth a retry (5xx, 429, no connection); refused
\* for good (400, 401, 403, 404, 422).
Post(d) ==
  /\ disp[d].phase = "post"
  /\ LET id == Head(disp[d].batch).id
         Outcome(o) == disp' = [disp EXCEPT ![d].phase = "mark", ![d].outcome = o]
     IN \/ /\ Outcome("success")
           /\ seen' = [seen EXCEPT ![id].posts = @ + 1, ![id].accepted = @ + 1]
        \/ /\ Outcome("retryable")
           /\ seen' = [seen EXCEPT ![id].posts = @ + 1, ![id].accepted = @ + 1,
                                   ![id].lost = @ + 1]
        \/ /\ Outcome("retryable")
           /\ seen' = [seen EXCEPT ![id].posts = @ + 1]
        \/ /\ Outcome("permanent")
           /\ seen' = [seen EXCEPT ![id].posts = @ + 1, ![id].refused = @ + 1]
  /\ UNCHANGED <<row, faults>>

\* On to the next row of the batch, or back to waiting for the ticker.
NextInBatch(d) ==
  disp' = [disp EXCEPT ![d] =
    IF Len(@.batch) = 1 THEN Resting
    ELSE [Resting EXCEPT !.phase = "post", !.batch = Tail(disp[d].batch)]]

\* Slip: a status the claim does not know.
WriteUnknown(id, status, wait) ==
  row' = [row EXCEPT ![id].status = IF status = "pending" THEN "retry" ELSE status,
                     ![id].wait = wait, ![id].age = 0]

\* The row's write: WHERE id = ?, whatever its status has become.
Write(id, status, wait) ==
  row' = [row EXCEPT ![id].status = status, ![id].wait = wait, ![id].age = 0]

\* Slip: an error of the transport alone counts as a failure, no status does.
MarkDeliveredAnyStatus(d) ==
  /\ disp[d].phase = "mark" /\ disp[d].outcome \in {"success", "permanent"}
  /\ Write(Head(disp[d].batch).id, "delivered", 0)
  /\ NextInBatch(d)
  /\ UNCHANGED <<seen, faults>>

MarkDelivered(d) ==
  /\ disp[d].phase = "mark" /\ disp[d].outcome = "success"
  /\ Write(Head(disp[d].batch).id, "delivered", 0)
  /\ NextInBatch(d)
  /\ UNCHANGED <<seen, faults>>

\* Slip: one attempt is enough for a permanent failure.
MayRetryNever(d) == FALSE

\* Slip: one attempt too many.
MayRetryOnceMore(d) ==
  disp[d].outcome = "retryable" /\ Head(disp[d].batch).attempts <= MaxAttempts

MayRetry(d) == disp[d].outcome = "retryable" /\ Head(disp[d].batch).attempts < MaxAttempts

MarkRetry(d) ==
  /\ disp[d].phase = "mark" /\ disp[d].outcome \in {"retryable", "permanent"}
  /\ LET entry == Head(disp[d].batch) IN
     \/ /\ MayRetry(d)
        /\ \E delay \in BackoffDelays(entry.attempts) : Write(entry.id, "pending", delay)
     \/ ~MayRetry(d) /\ Write(entry.id, "failed", 0)
  /\ NextInBatch(d)
  /\ UNCHANGED <<seen, faults>>

\* The write fails: the row stays "processing" until its claim is stale.
MarkFails(d) ==
  /\ faults < MaxFaults
  /\ disp[d].phase = "mark"
  /\ NextInBatch(d)
  /\ faults' = faults + 1
  /\ UNCHANGED <<row, seen>>

\* The instance stops (a crash, or a cancelled context: then neither the
\* request nor the write after it succeeds) and comes back.
Crash(d) ==
  /\ faults < MaxFaults
  /\ disp[d].phase # "down"
  /\ disp' = [disp EXCEPT ![d] = [Resting EXCEPT !.phase = "down"]]
  /\ faults' = faults + 1
  /\ UNCHANGED <<row, seen>>

Restart(d) ==
  /\ disp[d].phase = "down"
  /\ disp' = [disp EXCEPT ![d] = Resting]
  /\ UNCHANGED <<row, seen, faults>>

\* recordEvent's insert, in a transaction of the shipment service: rows appear
\* in the order of their ids.
Enqueue(id) ==
  /\ row[id].status = "absent"
  /\ \A other \in RowId : other < id => row[other].status # "absent"
  /\ row' = [row EXCEPT ![id] = [NoRow EXCEPT !.status = "pending"]]
  /\ UNCHANGED <<disp, seen, faults>>

\* Time passes, while no request lasts longer than its timeout allows and no
\* answer waits longer to be marked.  Ages and lags stop at their bounds.
Tick ==
  /\ \A d \in Dispatcher : disp[d].phase \in {"post", "mark"} => disp[d].busy < RequestTimeout
  /\ row' = [id \in RowId |->
       CASE row[id].status = "pending" ->
              [row[id] EXCEPT !.wait = IF @ > -MaxLag THEN @ - 1 ELSE @]
         [] row[id].status = "processing" ->
              [row[id] EXCEPT !.age = IF @ < StaleAfter THEN @ + 1 ELSE @]
         [] OTHER -> row[id]]
  /\ disp' = [d \in Dispatcher |->
       IF disp[d].phase \in {"post", "mark"} THEN [disp[d] EXCEPT !.busy = @ + 1] ELSE disp[d]]
  /\ UNCHANGED <<seen, faults>>

Init ==
  /\ row = [id \in RowId |-> NoRow]
  /\ disp = [d \in Dispatcher |-> Resting]
  /\ seen = [id \in RowId |-> Unseen]
  /\ faults = 0

Mark(d) == MarkDelivered(d) \/ MarkRetry(d)

Next ==
  \/ \E id \in RowId : Enqueue(id)
  \/ \E d \in Dispatcher :
       Claim(d) \/ Post(d) \/ Mark(d) \/ MarkFails(d) \/ Crash(d) \/ Restart(d)
  \/ Tick

Spec == Init /\ [][Next]_vars

(***************************************************************************)
(* The ticker keeps firing, a request ends with an answer or a timeout, a  *)
(* stopped instance is started again, time passes.  Nothing forces the     *)
(* endpoint to accept, or the service to record events.                    *)
(***************************************************************************)
FairSpec ==
  /\ Spec
  /\ WF_vars(Tick)
  /\ \A d \in Dispatcher :
       WF_vars(Claim(d)) /\ WF_vars(Post(d)) /\ WF_vars(Mark(d)) /\ WF_vars(Restart(d))

-----------------------------------------------------------------------------
(***************************************************************************)
(* Properties.                                                             *)
(***************************************************************************)

\* Rows, dispatchers and counters have their types.
TypeOK ==
  /\ row \in [RowId -> [status : RowStatus, attempts : Nat, wait : Int, age : Nat]]
  /\ disp \in [Dispatcher ->
       [phase : Phases, batch : Seq([id : RowId, attempts : Nat]), outcome : Outcomes, busy : Nat]]
  /\ seen \in [RowId ->
       [posts : Nat, accepted : Nat, lost : Nat, refused : Nat, recovered : Nat]]
  /\ faults \in 0..MaxFaults

InBatch(d) == {disp[d].batch[i].id : i \in DOMAIN disp[d].batch}

\* A row is in the hands of one dispatcher at most, and marked "processing"
\* with the attempts that dispatcher read: although the mark is not guarded by
\* the row's status, no dispatcher writes over another's.  It rests on the
\* timing alone: a whole batch of timeouts is shorter than StaleAfter.
ExclusiveClaims ==
  \A d \in Dispatcher : \A i \in DOMAIN disp[d].batch :
    LET entry == disp[d].batch[i] IN
    /\ row[entry.id].status = "processing"
    /\ row[entry.id].attempts = entry.attempts
    /\ \A j \in DOMAIN disp[d].batch : disp[d].batch[j].id = entry.id => j = i
    /\ \A other \in Dispatcher \ {d} : entry.id \notin InBatch(other)

\* A callback marked delivered was accepted by the endpoint, and one marked
\* failed was refused for good or has used up its attempts.
MarksAreTrue ==
  \A id \in RowId :
    /\ row[id].status = "delivered" => seen[id].accepted > 0
    /\ row[id].status = "failed" => seen[id].refused > 0 \/ row[id].attempts >= MaxAttempts

\* The endpoint receives a callback twice only after an answer was lost or a
\* stale claim was recovered; a claim is made once per attempt, and attempts
\* exceed the limit only by recovered claims.
DuplicatesExplained ==
  \A id \in RowId :
    /\ seen[id].accepted <= 1 + seen[id].lost + seen[id].recovered
    /\ seen[id].posts <= row[id].attempts
    /\ row[id].attempts <= MaxAttempts + seen[id].recovered

\* A delivered or failed callback stays so: it is never claimed or posted again.
FinalMarks ==
  [][\A id \in RowId :
       row[id].status \in {"delivered", "failed"} =>
         row'[id].status = row[id].status /\ seen'[id].posts = seen[id].posts]_vars

\* The k-th failed attempt delays the next one by RetryBase * 2^(k-1), from the
\* second on by the cap when that is less, and by at most a quarter more: retries
\* never come sooner than promised, and never later than 5/4 of the cap or of the
\* base, which nobody compares with the cap.
RetryDelay ==
  [][\A id \in RowId :
       (row[id].status = "processing" /\ row'[id].status = "pending" /\ ~Stale(id)) =>
         LET k     == row[id].attempts
             full  == RetryBase * 2^(k - 1)
             least == IF k > 1 /\ full > RetryCap THEN RetryCap ELSE full
         IN row'[id].wait \in least .. (least + least \div 4)]_vars

\* Every recorded callback is delivered or given up in the end, although
\* instances crash and writes fail on the way.  The dispatchers are enabled: without
\* a callback URL Run and DeliverDue return at once, and the rows stay pending.
EveryCallbackSettled ==
  \A id \in RowId :
    row[id].status = "pending" ~> row[id].status \in {"delivered", "failed"}
=============================================================================
