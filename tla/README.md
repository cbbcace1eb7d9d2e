# A verification of shipping-service

TLA+ models of the shipping service, the TLC configurations that check them on
small instances, and theorems about them that TLAPS proves for every instance.
The models are translated from the Go source; `PROJECT.json` maps every
definition to the lines it stands for, lists the runs, the mutations each
property detects, the hazards in the code and the disagreements found between
the code and what the repository says of it.

Checking a module: `tlc -config ShipmentsRound.cfg MCShipments`. Proving one:
`tlapm ShipmentsProofs.tla`.

## 1. The system

The service keeps shipments for an e-commerce application. It is one Go process
(several may run at once) in front of one MySQL database.

| Part | State it keeps | Operations | What makes it correct |
| --- | --- | --- | --- |
| Shipment service (`internal/services`, `internal/handlers`) | tables `shipments`, `shipment_events`, `audit_logs`, inserts into `outbox_events` | Create, CreateReturn, Transition, Cancel, UpdateStops, UpdateETA, AddEvent | one shipment per order, and one return per order and original, whatever is repeated; only allowed transitions; each change writes its event, audit row and callback, all or none |
| Life cycle (`internal/models`) | none | CanTransitionTo, canManageStatus, nextStatuses | outbound shipments and returns stay apart; terminal statuses are terminal |
| Outbox dispatcher (`internal/outbox`) | `outbox_events`: status, attempts, next attempt | claim, post, mark, release stale claims | every callback is settled; marks are true; duplicates only where the protocol cannot avoid them |
| Portal accounts and sessions (`internal/portal`) | `users`, `browser_sessions` | log in and out, change password, create, disable, enable, re-assign | a change of an account ends its sessions; an administrator remains |
| Portal shipment pages (`internal/portal`) | none of their own | lists, labels, scan; transition and stops through the shipment service | as the service |
| Login limiter (`internal/portal/limiter.go`) | attempts per address and e-mail, in memory | Allow, Reset | a bounded number of attempts per window, and no refusal before it is used up |
| Profile images (`internal/portal/images.go`) | files, `users.profile_image_filename` | save, replace, delete | the file the column names is there; little is left behind |
| Migrations (`migrations`, `internal/database`) | `schema_migrations` and the schema | Open, Migrate, Apply | recorded and served only when complete, also after a crash or beside another instance |
| Start-up and shutdown (`cmd/server`) | none | start, drain, stop | nothing recorded is lost |
| Middleware, metrics, configuration, contracts, templates | none that a decision reads, except what a call carries | | |

How they interact: handlers and portal pages call the shipment service; the
service and the dispatcher share nothing but the table `outbox_events`; the
dispatcher posts to the e-commerce application, which in turn calls the API; the
portal's sessions decide who may call the service and in which role. All
synchronisation is the database's: row locks (`SELECT ... FOR UPDATE`), unique
indexes, transactions. Only the login limiter has a mutex, and the files of the
profile images and the schema's DDL statements are in no transaction at all.

What is hard to test here:

* two requests at once on one shipment, one order or one key, and what each
  read before the other committed;
* a plain read outside the transaction that acts on it (Cancel, the count of
  administrators, the version in ChangePassword, the account in Login);
* an answer or an acknowledgement that is lost after the work was done;
* a dispatcher that dies between a post and its mark, or whose claim another
  instance takes for stale;
* a long legal path through a table of transitions with aliases;
* a start-up that stops between two DDL statements, or runs beside another;
* a file and the column that names it, written one after the other by
  overlapping requests.

The complete list, each at its line and with the properties that watch it (or the
reason why none does), is `hazards` in `PROJECT.json`.

## 2. The modules

| Module | Models |
| --- | --- |
| `Lifecycle` | the statuses, the transition relation, role rules; constants only |
| `Shipments` | the shipment service with concurrent requests on its database |
| `ShipmentLedger` | what the service promises: a book changed in atomic steps, each of which writes one line to a log |
| `Outbox` | the dispatchers, the outbox rows and the e-commerce endpoint |
| `Callbacks` | the service's ledger and `Outbox` together, and what the application learns |
| `Accounts` | the portal's accounts, sessions and requests |
| `LoginLimiter` | the limiter's map and the log-ins that go through it |
| `LoginPromise` | what the limiter promises of each key, without a map |
| `ProfileImages` | the image directory, the column and the requests that write both |
| `Migrations` | instances that apply a script of statements to one database |
| `MigrationScript` | the program's four migrations as such a script, and the databases it may find |
| `MC...` | the instances TLC checks |
| `ShipmentsProofs`, `ShipmentsRecordsProofs`, `OutboxProofs`, `CallbacksProofs`, `AccountsProofs`, `LoginLimiterProofs`, `ProfileImagesProofs`, `MigrationsProofs` | theorems and proofs |

### Shipments

*State.* `shipments`, `events`, `audit` and `outbox` are the four tables; a row's
number is its place in the table, in the order of the commits. `req` holds what
each request in progress is doing.

*Steps.* One action per round trip to the database:

| Action | Code |
| --- | --- |
| `Begin` | the handler and the checks that come before any database access |
| `Peek` | Cancel's read outside a transaction |
| `Lookup` | the look-up of the idempotency key among the events |
| `Lock` | `SELECT ... FOR UPDATE` and the checks on the row |
| `CommitTransition`, `CommitStops`, `CommitEta`, `CommitNote` | the UPDATE, recordEvent and the commit of Transition (and Cancel), UpdateStops, UpdateETA, AddEvent |
| `LookupCreate` | the look-up of the key among the shipments, which fixes the snapshot |
| `InsertShipment` | the INSERT, the second look-up after a duplicate, recordEvent and the commit of Create and CreateReturn |
| `Fail` | a database call fails and the transaction is rolled back |

A commit whose acknowledgement is lost is the second alternative of `Committed`.
That a transaction which returns an error leaves nothing is the database's doing;
the code's is to return recordEvent's error, and the mutations of `ImplementsLedger`
are those that do not.

*What it rests on.* InnoDB at its default isolation, REPEATABLE READ, which the
code does not change: the first plain SELECT of a transaction fixes what its
plain SELECTs see, FOR UPDATE reads and locks the latest row, unique indexes are
enforced against the latest rows. The updates of a transaction become visible
together, so they are one step. `BEGIN`, and the read of a return's original,
which happens in the snapshot fixed before, are not steps of their own.

*What is abstracted.* A key is a model value with a length: only its identity
and its length matter. Keys of clients do not end in `/handed-over` or
`/created`, so a suffixed key never equals a plain one. `Body` stands for
customer, carrier, service level, address and items, which the code compares
together. A delivery window is one value. Names, titles, places and times of an
event are left out (the type a caller of AddEvent states is `custom`, also when it
is spelt like one of the service's own), and so are random numbers (a collision would be a failed
database call). Field validation is the assumption `CallsAssumption` on the calls.
The key `None` is a key that one request alone uses: the portal makes its keys
from the request's id. The API's role middleware admits fewer roles than the
service's own checks, so the model lets more calls in.

### Outbox

*State.* `row` is the table, `disp` what each dispatcher is doing, `seen` what
the endpoint has received (history variables for the properties), `faults` a
count of crashes and failed writes.

`Claim` is claimDueEvents, one transaction under its locks: release the stale
claims, then claim due rows in order. `Post` is the request and its outcome,
`MarkDelivered` and `MarkRetry` the row's write, `NextInBatch` the loop of
DeliverDue, `Crash` and `Restart` the process, `Enqueue` the insert of
recordEvent, `Tick` the passing of time.

*Time* is relative: a row keeps how long until its next attempt and how long
since it was written, so the state space is finite without a last moment.
A request lasts at most its timeout, and its answer is marked within it; so a
batch takes at most Batch x RequestTimeout. `LeaseAssumption` says that this is
less than StaleAfter, as it is by default (10 x 10 s against 2 min). The
exclusiveness of claims depends on it: `config.go` lets both durations be set
and does not compare them.

### Callbacks

The composition: `EXTENDS Outbox`, and an instance of `ShipmentLedger` in place of
the service. That is no weaker than `Shipments` itself, which implements the
ledger (`LedgerImplemented`), and leaves the state space to the dispatcher.
`Record` is a step of the ledger and the `Enqueue` of its row, one transaction in
recordEvent; a line of the log and its row have one number. (Transactions on
different shipments may commit out of the order of their ids. The properties
compare the lines of one shipment, whose row lock keeps theirs in order.)
`Deliver` is `Post` and what the endpoint makes of it; `Work` and `Pass` are the
rest of `Outbox`, unchanged.

`newest` and `shown` are the application's knowledge and not of this repository:
the newest callback it has accepted of a shipment, and the last one. The payload
has no number to tell which is newer; an application can compare the times of
the events, except those of AddEvent, which the caller may state. What an
application that believes the last callback can rely on is `InOrderUnlessRepeated`,
for one dispatcher; with several, two batches of one shipment's callbacks may be
posted side by side.

### Accounts

*State.* `user` is the table users, `session` the row each browser's cookie names
(no other row can be found again), `req` the request each browser has under way.
`changes`, in all three, is a history variable: how often the account was
disabled or had its role or password changed, and what of that a session or a
request knew when its credentials were accepted. The program stores only
`security_version`, and the properties ask whether that is enough. `overtaken`,
in an account, is one too: a change of password has written a version that was
computed before another change, so the versions have fallen behind the changes.

A request runs through `ReadSession`, `Authenticate`, `ReadTarget`, `CountAdmins`
and its write (`CreateUser`, `ChangeUserStatus`, `ChangeUserRole`,
`ChangePassword`); a log-in through `Login` and `StartSession`. Each is one
database round trip or one transaction, so any of them may come between another
request's read and its write.

*What is abstracted.* Passwords: a log-in may always be refused, and succeeds
for an active account. A browser has one request under way.

### LoginLimiter

*State.* `attempts` is the map, `req` each client's log-in. `Allow` and `Reset`
hold the mutex and are one step each; `Compare` (the account and bcrypt) and
`StartSession` lie between them, so other log-ins with the same key come in
between. `Restart` empties the map. `Tick` brings the end of every window nearer;
an expired entry stays one tick behind, and stays in the map until it is used,
reset or pruned. `granted` and `forgotten` are history variables: what became of
one key (`Watched`) within the last window, counted since each moment of it.

`LoginPromise` has no map: a key has `Limit` attempts in a window that its first
attempt opens. `KeepsPromise` is the refinement: what a key has used is its
entry's count as long as the entry has not expired.

### ProfileImages

*State.* `column` is `profile_image_filename`, `files` and `temporaries` the
directory, `req` the requests of the account. Every upload draws a name that was
never used (128 random bits), so accounts share no file, and one is enough.

`CreateTemp` and `Rename` are Save, `UpdateColumn` and `ClearColumn` the UPDATE of
the two handlers, `RemoveNew` and `RemoveOld` the calls of Delete. Where Rename
fails, the deferred removal of the temporary file may fail too. The UPDATE may
fail, or take effect while its answer is lost; Delete may fail, and the handler
does not look. `disturbances` counts overlaps, stops and failures, `doubted` keeps
the names whose UPDATE was reported as failed though it took effect.

### Migrations

*State.* `schema` is the set of tables, columns and indexes, `blank` the columns
that are empty in the rows that were there before them, `recorded` the table
schema_migrations, `inst` where each instance is in its start-up.

Apply runs in a transaction, but MySQL commits implicitly at every DDL statement
and Apply's first statement is one: its effects appear one statement at a time.
`Check` is HasColumn, HasIndex or HasTable, `Execute` the statement that follows,
so another instance may come between the two. A statement the database refuses
ends the program (`log.Fatal`), and `Start` is its next start. The statements are
data: `MigrationScript` has the program's, one element for each, in its order,
and the theorems are about any script.

*What it rests on* (external): MySQL refuses to add what exists, to drop what is
missing and to index uniquely what is not unique; `CREATE TABLE IF NOT EXISTS`
and each model of AutoMigrate are one statement. The two tables that AutoMigrate
is called for are new or complete in every database the program has written.

## 3. The runs

| Run | Instance | Shows |
| --- | --- | --- |
| `ShipmentsRound` | 2 requests with fair steps, 8 calls on a shipment out for delivery, faults | `RequestsInOrder`, `DeliveredSettled`, `AuditTrail`, `VersionCountsChanges`, `CallbacksCurrent`, `RepeatsAgree`, `ImplementsLedger`, `EveryCallAnswered` |
| `ShipmentsCreate` | 2 requests, 9 create and return calls, 2 orders, 3 keys, an order that is delivered or goes back, faults | `DirectionKept`, `CreatesConverge`, `TerminalFinal`, `ImplementsLedger` |
| `Outbox` | 2 fair dispatchers, 2 rows, batches of 2, 3 attempts, delays up to the cap, a fault | `ExclusiveClaims`, `MarksAreTrue`, `DuplicatesExplained`, `FinalMarks`, `RetryDelay`, `EveryCallbackSettled` |
| `Callbacks` | 2 events of one or two shipments, one fair dispatcher, batches of 2, 2 attempts, a fault | `CaughtUp`, `InOrderUnlessRepeated`, `EventuallyKnown` |
| `AccountsSessions` | 2 accounts, 2 browsers, all operations | `SessionsInvalidated`, `OnlyOvertakenComeBack`, `NewSessionWorks` |
| `LoginLimiter` | 2 keys, 2 clients, limit 2, window of 2 ticks, a map pruned above 1 entry, a restart | `GuessBudget`, `KeepsPromise` |
| `ProfileImages` | 3 requests, 4 uploads, 4 disturbances | `NamedFileExists`, `LeftoversBounded` |
| `Migrations` | 2 instances, the program's script, new and old databases, a crash | `RecordedComplete`, `ServesComplete`, `StableOnceServed`, `EventuallyServes` |

All but two of these also check a type invariant; the module's definitions and the
comments above the properties say exactly what each means.

Four runs end in a counterexample: the repository says something that the code
does not do (`findings` in `PROJECT.json`).

| Run | The repository says | The code does |
| --- | --- | --- |
| `ShipmentsTwinCreate` | creation is idempotent (`README.md:27`, `docs/openapi.yaml:137`) | of two overlapping calls one may answer 500: the look-up after the duplicate reads the old snapshot. A later repeat succeeds |
| `AccountsPassword` | a change of password ends the sessions (`README.md:37`) | two changes at once write one version, and the session of the first survives |
| `AccountsFinalAdmin` | the final active administrator cannot be disabled (`portal/handler.go:592`) | two administrators who disable each other both succeed |
| `MigrationsUpgrade` | migrations are applied through `schema_migrations` (`README.md:28`) | an old table with two rows refuses a unique index that is asked for before the column is filled, at every start |

Smaller disagreements came up while modelling; the passing runs contain them as
the code has them:

* `shipment_service.go:31` has an error for a key that "was already used for a
  different request", but Transition, UpdateStops, UpdateETA and AddEvent (line
  380) answer such a key as a replay that names the other request's shipment.
  In `ShipmentsRound`, k1 and k2 are each used for two different calls. Cancel,
  which answers before that look-up once its shipment is cancelled (line 474),
  then answers two equal calls with different shipments: the exception in
  `RepeatsAgree`.
* `README.md:158` and `config.go:112` let OUTBOX_RETRY_BASE_DELAY be any duration,
  and the first retry waits that long even when it is longer than the cap of 30
  minutes, which only the doubled delays are compared with
  (`dispatcher.go:225`). `RetryDelay` says so.
* `README.md:28` says that runtime code no longer relies on AutoMigrate; the third
  migration (`migrations.go:31`), which runs at start-up, calls it.
* `middleware/auth.go:63` admits keys of 1 to 128 characters, but create calls
  append `/handed-over` and return calls `/created`, so keys above 116 (120)
  characters are refused with 422. `k3` is such a key in `ShipmentsCreate`.
* `README.md:114` lets `return_in_transit` follow `return_label_created`; in
  `models.go` three statuses lie in between.
* `README.md:160` calls OUTBOX_MAX_ATTEMPTS the maximum of delivery attempts. The
  release of a stale claim does not compare the attempts with it, so a dispatcher
  that dies in the last attempt costs one more. `DuplicatesExplained` bounds the
  attempts by the maximum and the number of such recoveries.

### Bounds, and why they are enough

* Two requests (browsers, dispatchers): every race in the code is between a read
  and a write of one actor and a write of one other. A third waits on the same
  lock as the second.
* `MaxEvents` bounds the rows of `shipment_events`, and so how much can happen in
  a behaviour. In `ShipmentsCreate` it leaves room for an order on the road to go
  all the way back, in `ShipmentsRound` for several events on top of the seed. The
  rest of the transition table, a return's life above all, is covered by the
  theorems `DirectionCorrect` and `TerminalCorrect` alone, which hold for every path.
  A request begins only when every open one still fits.
* `SeedPaths` start a run from a shipment that an earlier run of the service moved
  there: the rows are those the service itself would have written
  (`SeedAssumption` asks for allowed paths).
* `MaxLag` and the ceiling of a row's age bound the times told apart; beyond them
  a row is just overdue, or just stale. RetryBase 4 and RetryCap 6 reach the cap
  at the second attempt, with a quarter of a delay at least one tick.
* `Callbacks` has two events: order of arrival, the newest callback and the last
  one are matters of a pair. They fit into one batch or two, and belong to one
  shipment or to two. Two dispatchers on one table are the matter of `Outbox`, and
  of `CallbacksCatchUp`, which is proved for any number.
* `MaxFaults` bounds crashes and failed writes together. Fairness does not need
  it, but a system that crashes for ever settles nothing.
* `MaxVersion` bounds `security_version`, the number of changes to an account.
* The limiter's map is pruned above one entry, so that the other key's attempts
  prune it; `MaxGranted` exceeds what `GuessBudget` allows in one window by one
  where a log-in has succeeded once, and by three where none has.
* Four names and three requests let two uploads and a deletion overlap and a
  fourth upload follow; `MaxDisturbances` leaves each its fault.
* The migrations' scripts are the program's. Rows matter up to two: one row cannot
  contradict a unique index. One crash, beside every failed statement.
* Request slots, browsers and clients are interchangeable, and symmetric in the
  runs without liveness properties.

### Fairness

* `Shipments!FairSpec`: strong fairness of each request's steps. A request that
  is not waiting runs on; one that waits for a row lock is served in turn by
  InnoDB, also when the lock is taken and released over and over. Clients are
  not obliged to call, and database calls do not fail in that run, or answer with
  an error when they do.
* `Migrations!FairSpec`: weak fairness of an instance's steps, the next start
  included: `docker-compose.yml` has `restart: unless-stopped`. Crashes are bounded,
  failed statements are not.
* `Outbox!FairSpec`: weak fairness of the ticker's claim, the post (the client
  has a timeout), the mark, the restart (a supervisor restarts the process) and of
  time. The dispatchers are enabled: without a callback URL Run ends at once and
  every row stays pending. Nothing obliges the endpoint to accept.
* `Callbacks!FairCallbacksSpec`: the same; nothing obliges the service to record.

### Mutations

Every property of a passing run is tested against a mutation of the model that a
plausible slip in the code would produce (definitions with the comment "Slip:");
TLC finds the property violated. They are listed in `PROJECT.json`.

## 4. The proofs

| Theorem | States | Module |
| --- | --- | --- |
| `TypeCorrect` | `Spec => []TypeOK` | `ShipmentsProofs` |
| `OrderCorrect` | `Spec => []RequestsInOrder`: who writes a shipment holds its lock alone, and nothing has changed since it looked | |
| `DirectionCorrect` | `Spec => []DirectionKept` | |
| `DeliveredCorrect` | `Spec => []DeliveredSettled` | |
| `TerminalCorrect` | `Spec => TerminalFinal` | |
| `LedgerImplemented` | `Spec => ImplementsLedger`, the refinement of `ShipmentLedger` | `ShipmentsRecordsProofs` |
| `NoUpdateLost`, `AuditExplainsStatus` | `Spec => []VersionCountsChanges`, `Spec => []AuditTrail` | |
| `CreatesCorrect`, `RepeatsCorrect` | `Spec => []CreatesConverge`, `Spec => []RepeatsAgree` | |
| `CallbacksTellTheState` | `Spec => []CallbacksCurrent` | |
| `OutboxTyped` | `Spec => []TypeOK` | `OutboxProofs` |
| `ClaimsCorrect` | `Spec => []ExclusiveClaims` | |
| `MarksCorrect`, `DuplicatesCorrect` | `Spec => []MarksAreTrue`, `Spec => []DuplicatesExplained` | |
| `MarksFinal`, `RetriesTimed` | `Spec => FinalMarks`, `Spec => RetryDelay` | |
| `CallbacksCatchUp` | `CallbacksSpec => []CaughtUp` | `CallbacksProofs` |
| `CallbacksInOrder` | `CallbacksSpec => []InOrderUnlessRepeated` | |
| `AccountsTyped` | `Spec => []TypeOK` | `AccountsProofs` |
| `SessionsCorrect` | `Spec => []SessionsInvalidated` | |
| `ComebacksExplained`, `StartsCorrect` | `Spec => OnlyOvertakenComeBack`, `Spec => NewSessionWorks` | |
| `LimiterTyped` | `Spec => []TypeOK` | `LoginLimiterProofs` |
| `PromiseKept` | `Spec => KeepsPromise`, the refinement of `LoginPromise` | |
| `BudgetKept` | `Spec => []GuessBudget` | |
| `ImagesTyped`, `NamedFileKept` | `Spec => []TypeOK`, `Spec => []NamedFileExists` | `ProfileImagesProofs` |
| `LeftoversCorrect` | `Spec => []LeftoversBounded` | |
| `MigrationsTyped` | `Spec => []TypeOK` | `MigrationsProofs` |
| `RecordsCorrect`, `ServingCorrect` | `Spec => []RecordedComplete`, `Spec => []ServesComplete` | |
| `ServingStable` | `Spec => StableOnceServed` | |

They hold for every value of the constants that the assumptions of the module
admit (`CallsAssumption`, `SeedAssumption`, `OutboxAssumption`, `LeaseAssumption`,
`CallbacksAssumption`, `AccountsAssumption`, `LimiterAssumption`, `ImagesAssumption`,
`MigrationsAssumption` and the others there): any number of actors, rows, keys,
calls, scripts, and any bounds.

*Shipments.* The invariant of a table alone is not inductive: that UpdateStops
leaves a delivered shipment at zero stops depends on the row it locked still
being out for delivery. `IInv` joins to the types that every request in phase
"write" holds its row alone and that the row is as it read it
(`RequestsInOrder`), and what holds of each row (`RowInv`). The proof goes
through one abstraction: `TableStep` says what any step may do to the table (
nothing, append an opening row, or change one row along an allowed transition or
within its status). `EveryStepOnTables` shows that each action is such a step;
the invariants of the rows, and `TerminalFinal`, then follow from `TableStep`
alone and facts about the transition relation.

The records follow from the same abstraction: a row changed is an entry of the
book changed, and the event appended is its line of the log. `AuditTrail` and
`VersionCountsChanges` need `AuditRefers` beside them, that no audit row is about
a shipment that does not exist yet, so that a new shipment starts with its own
row alone.

What a request answers is proved through a second abstraction, `Outcomes`: a
step of a request goes on without a change, turns the call down without a
change, replays it for a reason that the tables show (`Known`), or commits one
change (`Writes`). `CreatesConverge` needs that an outbound shipment never has an original (`OrigKept`): otherwise
the unique index on it would not say what `BusinessKeyOf` says. `RepeatsAgree`
needs the unique index on the keys of events (`KeysUnique`) and, for each update
that succeeded, what its answer rests on (`UpdateKept`): the event of its key, or
a cancellation that found its shipment cancelled. A repeat of an applied call
would have to insert a second event with its key. `CallbacksCurrent` is
inductive beside `IInv`: a commit appends one event, one audit row and one
callback (`RecordAdded`), and the callback becomes the last of its shipment.
The attempt to prove `RepeatsAgree` showed that it was false as first stated,
where a cancellation repeats a key that belongs to another shipment; TLC had not
met the case, as that run has one shipment.

*Outbox.* A mark is written by id, whatever the row's status is by then, so
everything rests on time. `EntryOK` says how: the age of a claimed row, plus the
timeouts of the requests still in its dispatcher's batch, is at most the time of
a whole batch and what the present request has taken. With `LeaseAssumption` a
claimed row is therefore not stale (`HeldFresh`), so no claim releases it
(`Unheld`), batches stay disjoint (`Exclusive`), and a mark finds the row as its
dispatcher claimed it. The accounts of posts and acceptances (`RowOK`) follow the
entry: `Settled` until the post, and explained by the outcome until the mark.

The delay is computed by recursion in the model, as by the loop in the code, and
`RetryDelay` compares it with a power of two. Neither `^` nor a recursive function
means anything to the provers beyond what is shown of it: `PowersOfTwo` derives
2^(n+1) = 2 * 2^n from the number of subsets of a finite set, and `DoubledIs`
computes the loop for every attempt by taking the least one where it would be
wrong (`LeastNumber`, from the well-foundedness of the numbers), in place of the
induction theorem that the provers cannot instantiate. `Tried` adds that a row
in processing has been claimed. The proof corrected the property: the cap
applies from the second delay on.

*Callbacks.* Every step is a step of `Outbox` or a stutter (`OutboxSteps`), so its
invariant holds in the composition. `ViewInv` adds that the lines of the log are
the rows of the table, that the newest callback accepted is no older than any
that was accepted, and that the last line of a shipment carries its status.
A row marked delivered was accepted, and the newest cannot be newer than the last.

With one dispatcher, `OrderInv` says why callbacks keep their order: rows that wait
for their first attempt are due from the start and are the last ones of the
table, in their order (`InRow`), so a claim takes them in it; and no row later
than an entry that was never posted has been posted, or can be before that entry
is (`EntryFirst`). A callback that is accepted after a newer one was therefore
posted before, or recovered (`ShownOK`).

*Accounts.* The sessions' invariant needs that no session and no request under
way knows more of an account than there is (`Seen`), and that the version counts
the changes unless a change of password has overtaken one (`AccountOK`). Every
other write moves the version on (`Onward`). The exception for overtaken accounts
is not of the proof's making: without it the property is false
(`AccountsPassword`).

A refused session may work again across it: where a change of password has set the
version back below that of a session inserted later, an administrator who enables
the account, active or not, raises the version to the session's.
`OnlyOvertakenComeBack` says that this is the only way, and the run has it. The
proof has two parts: every other write of an account deletes its sessions
(`OnlyEnabledComesBack`), and where nothing was overtaken the version has passed
whatever a session knows.

A new session works because the version it is about to store is the account's for
as long as no change came between (`StartOK`): each change moves both the version
and the count of changes.

*LoginLimiter.* A stored entry counts at least one attempt and at most `Limit`
(`MapOK`), so an entry and its absence are told apart by what has been used.
`PruningUnseen` shows that pruning takes only entries the promise has forgotten;
then each action is a step of `LoginPromise` or a stutter.

`GuessBudget` follows from that refinement: `BudgetInv` counts by the promise's
`used`, not by the map. A bound for the whole period alone is not inductive, as
time passing forgets the oldest attempts only. It holds since every moment of
the period: what the open window has used, at most Limit - 1 of one window that
ran out, and Limit for each time the key was forgotten; and without the
Limit - 1 since the moment the open window began. Before a window that ran out
none can count, since its first attempt is already older than the period.

*ProfileImages.* A name is drawn once. So a name that is not yet in the column is
its request's alone (`PairOK`), and one that the column has lost never comes back,
which makes a late removal of an old file harmless (`SlotOK`).

What is left behind is bounded through a debt (`DebtInv`): `Orphans`, the files that
the column does not name and nobody will remove, and for each request that has
not decided yet the file it may still orphan, together at most the disturbances
so far. One of the requests owes nothing if it has read the column as it is: it
removes that file. A request that begins beside others pays for its debt by the
overlap, and a stop or a failed call for the one file it leaves.

*Migrations.* No statement undoes what another has done (`NothingReturns`, an
assumption on scripts that TLC checks of the program's). So what an instance has
passed stays done whatever the others do (`Knows`), and an instance that serves
knows every version to be recorded and complete.

Only model-checked are the four liveness properties (`EveryCallAnswered`,
`EveryCallbackSettled`, `EventuallyKnown`, `EventuallyServes`): liveness under
fairness needs ENABLED, which the provers do not treat. Every other property of
a passing run is a theorem. The four counterexamples need no proof.

## 5. What is not modelled

* The ten seconds in which the HTTP servers drain at shutdown: a stop of the
  process is a crash in the models, which is what the drain may end in.
* Read-only pages and look-ups, rendering, labels, QR codes, metrics, headers,
  token comparison, contracts and configuration parsing: no state that a decision
  reads. The durations and limits that the configuration yields are constants.
* The audit rows of the portal, which are written after the fact and whose
  failure is ignored; the names and e-mail addresses of accounts.
* The types and places of columns, and databases whose schema is neither new nor
  the one the second migration upgrades.

## 6. What may come next

1. Facts that the runs do not state and a proof could: that the transition table
   lets every shipment reach a terminal status, and that an administrator
   remains when no two requests overlap.
2. The drain at shutdown beside the dispatcher's last batch.
