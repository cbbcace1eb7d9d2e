------------------------------ MODULE Migrations ------------------------------
(***************************************************************************)
(* The schema migrations (migrations/migrations.go, Apply), which every    *)
(* instance of the program runs when it starts (cmd/server/main.go).       *)
(*                                                                         *)
(* MySQL commits at every DDL statement and Apply's first statement is     *)
(* one, so its transaction is over before the first migration begins: each *)
(* statement commits on its own, and an instance may stop between any two, *)
(* or find what another instance has just done.  A statement that fails    *)
(* ends the program; its supervisor starts it again.                       *)
(*                                                                         *)
(* The schema is a set of items (tables, columns, indexes).  A script is   *)
(* the sequence of a migration's statements; MigrationScript has the       *)
(* program's.                                                              *)
(***************************************************************************)
EXTENDS Naturals, Sequences, FiniteSets

CONSTANTS
  Instance,    \* instances of the program that share the database
  Script,      \* the scripts of the migrations, in order
  Item,
  Starts,      \* the databases the program may find: a schema and a number of rows
  MaxCrashes   \* bound on the stops that no statement causes

Versions == 1 .. Len(Script)

(***************************************************************************)
(* A statement and the item it is about:                                   *)
(*   "table"   CREATE TABLE IF NOT EXISTS, with the columns and indexes on *)
(*   "model"   AutoMigrate of a model: HasTable, CREATE TABLE              *)
(*   "column"  HasColumn, ADD COLUMN                                       *)
(*   "blank"   the same, and rows that exist have the empty value          *)
(*   "index"   HasIndex, CREATE INDEX; if unique, on a column              *)
(*   "drop"    HasIndex, DROP INDEX                                        *)
(*   "fill"    UPDATE of a column WHERE it is empty                        *)
(***************************************************************************)
Adding == {"table", "model", "column", "blank", "index"}
Checked == {"model", "column", "blank", "index", "drop"}

Statement == [kind : Adding \cup {"drop", "fill"}, item : Item, on : SUBSET Item]

Statements == UNION {{Script[v][p] : p \in 1 .. Len(Script[v])} : v \in Versions}

\* Nothing that one statement drops is what another is about or brings with it.
NothingReturns ==
  \A s, t \in Statements : (s.kind = "drop" /\ t.kind # "drop") =>
    t.item # s.item /\ (t.kind = "table" => s.item \notin t.on)

ASSUME MigrationsAssumption ==
  /\ Script \in Seq(Seq(Statement)) /\ Len(Script) > 0
  /\ \A v \in Versions : Len(Script[v]) > 0
  /\ NothingReturns
  /\ Starts \subseteq [schema : SUBSET Item, rows : Nat]
  /\ MaxCrashes \in Nat

VARIABLES
  schema,    \* the items of the database
  blank,     \* columns that are empty in the rows that were there before them
  rows,      \* how many rows each table had at the start
  recorded,  \* table schema_migrations
  inst,      \* what each instance is doing
  crashes

database == <<schema, blank, recorded>>
vars == <<schema, blank, rows, recorded, inst, crashes>>

Phase == {"down", "count", "check", "execute", "record", "serve"}

Place == [phase : Phase, version : Nat, position : Nat]
Down == [phase |-> "down", version |-> 1, position |-> 1]

Goto(i, ph, v, p) == inst' = [inst EXCEPT ![i] = [phase |-> ph, version |-> v, position |-> p]]
Stop(i) == inst' = [inst EXCEPT ![i] = Down]

The(i) == Script[inst[i].version][inst[i].position]

\* A statement at a place: checked first, or executed at once.
GotoStatement(i, v, p) ==
  Goto(i, IF Script[v][p].kind \in Checked THEN "check" ELSE "execute", v, p)

\* Slip: the version is recorded before its last statement.
AdvanceShort(i) ==
  LET v == inst[i].version  p == inst[i].position IN
  IF p + 1 < Len(Script[v]) THEN GotoStatement(i, v, p + 1) ELSE Goto(i, "record", v, p)

Advance(i) ==
  LET v == inst[i].version  p == inst[i].position IN
  IF p < Len(Script[v]) THEN GotoStatement(i, v, p + 1) ELSE Goto(i, "record", v, p)

\* Slip: nothing tells the last version from the others.
NextVersionOn(i) == Goto(i, "count", inst[i].version + 1, 1)

NextVersion(i) ==
  IF inst[i].version < Len(Script) THEN Goto(i, "count", inst[i].version + 1, 1)
  ELSE Goto(i, "serve", inst[i].version, 1)

-----------------------------------------------------------------------------
\* The program opens the database and creates schema_migrations if it is missing.
Start(i) ==
  /\ inst[i].phase = "down"
  /\ Goto(i, "count", 1, 1)
  /\ UNCHANGED database

\* Slip: the version is recorded as it is begun, to keep other instances out.
CountAndRecord(i) ==
  /\ inst[i].phase = "count"
  /\ IF inst[i].version \in recorded THEN NextVersion(i) ELSE GotoStatement(i, inst[i].version, 1)
  /\ recorded' = recorded \cup {inst[i].version}
  /\ UNCHANGED <<schema, blank>>

\* Has the version been recorded?
Count(i) ==
  /\ inst[i].phase = "count"
  /\ IF inst[i].version \in recorded THEN NextVersion(i) ELSE GotoStatement(i, inst[i].version, 1)
  /\ UNCHANGED database

\* Slip: an index is created without a look.
SatisfiedUnlessIndex(s) ==
  IF s.kind = "drop" THEN s.item \notin schema ELSE s.kind # "index" /\ s.item \in schema

\* HasTable, HasColumn or HasIndex says there is nothing to do.
Satisfied(s) == IF s.kind = "drop" THEN s.item \notin schema ELSE s.item \in schema

Check(i) ==
  /\ inst[i].phase = "check"
  /\ IF Satisfied(The(i)) THEN Advance(i)
     ELSE Goto(i, "execute", inst[i].version, inst[i].position)
  /\ UNCHANGED database

\* The database refuses a statement: the item exists, or is missing, or a unique
\* index is asked for on a column that is empty in two rows.
Refused(s) ==
  \/ s.kind \in Checked \ {"drop"} /\ s.item \in schema
  \/ s.kind \in {"drop", "fill"} /\ s.item \notin schema
  \/ s.kind = "index" /\ rows >= 2 /\ s.on \cap blank # {}

Added(s) ==
  IF s.kind \notin Adding THEN {}
  ELSE IF s.kind = "table" /\ s.item \notin schema THEN {s.item} \cup s.on
  ELSE {s.item}

Perform(s) ==
  /\ schema' = IF s.kind = "drop" THEN schema \ {s.item} ELSE schema \cup Added(s)
  /\ blank' = IF s.kind = "fill" THEN blank \ {s.item}
              ELSE IF s.kind = "blank" /\ rows > 0 THEN blank \cup {s.item}
              ELSE blank
  /\ UNCHANGED recorded

Execute(i) ==
  /\ inst[i].phase = "execute"
  /\ IF Refused(The(i)) THEN Stop(i) /\ UNCHANGED database
     ELSE Perform(The(i)) /\ Advance(i)

\* The primary key refuses a version that another instance has recorded.
Record(i) ==
  /\ inst[i].phase = "record"
  /\ IF inst[i].version \in recorded THEN Stop(i) ELSE NextVersion(i)
  /\ recorded' = recorded \cup {inst[i].version}
  /\ UNCHANGED <<schema, blank>>

\* The program stops, before or after it serves: a crash, a lost connection.
Crash(i) ==
  /\ inst[i].phase # "down"
  /\ crashes < MaxCrashes
  /\ crashes' = crashes + 1
  /\ Stop(i)
  /\ UNCHANGED <<database, rows>>

Init ==
  /\ \E s \in Starts : schema = s.schema /\ rows = s.rows
  /\ blank = {} /\ recorded = {}
  /\ inst = [i \in Instance |-> Down]
  /\ crashes = 0

Step(i) ==
  /\ Start(i) \/ Count(i) \/ Check(i) \/ Execute(i) \/ Record(i)
  /\ UNCHANGED <<rows, crashes>>

\* Every instance serves and no crash is left.
Quiet == (\A i \in Instance : inst[i].phase = "serve") /\ UNCHANGED vars

Next == (\E i \in Instance : Step(i) \/ Crash(i)) \/ Quiet

Spec == Init /\ [][Next]_vars

\* An instance goes on, and its supervisor starts it again.
FairSpec == Spec /\ \A i \in Instance : WF_vars(Step(i))

-----------------------------------------------------------------------------
(***************************************************************************)
(* Properties.                                                             *)
(***************************************************************************)

\* The schema, the instances and the records have their types.
TypeOK ==
  /\ schema \subseteq Item /\ blank \subseteq Item
  /\ rows \in Nat /\ crashes \in 0 .. MaxCrashes
  /\ recorded \subseteq Versions
  /\ inst \in [Instance -> Place]
  /\ \A i \in Instance :
       /\ inst[i].version \in Versions
       /\ inst[i].position \in 1 .. Len(Script[inst[i].version])

\* What a statement leaves for good.
Done(s) ==
  IF s.kind = "drop" THEN s.item \notin schema
  ELSE s.item \in schema /\ (s.kind = "fill" => s.item \notin blank)

Complete(v) == \A p \in 1 .. Len(Script[v]) : Done(Script[v][p])

\* A version is recorded only when every statement of it has taken effect and
\* the versions before it are recorded, whatever crashed and whoever raced: a
\* record never lets a start-up skip work that was not done.
RecordedComplete == \A v \in recorded : Complete(v) /\ \A w \in 1 .. v : w \in recorded

\* An instance serves only on the complete schema.
ServesComplete ==
  \A i \in Instance : inst[i].phase = "serve" => \A v \in Versions : Complete(v)

\* Once an instance serves, no other instance that is still migrating changes
\* the schema or the rows under it.
StableOnceServed ==
  [][(\E i \in Instance : inst[i].phase = "serve") => UNCHANGED <<schema, blank>>]_vars

\* Instances that trip over each other or crash get through in the end.
EventuallyServes == \A i \in Instance : <>[](inst[i].phase = "serve")

(***************************************************************************)
(* What the repository says and the code does not do.                      *)
(***************************************************************************)

\* README.md:28: versioned migrations are applied through schema_migrations.
MigrationsApplied == <>(recorded = Versions)
=============================================================================
