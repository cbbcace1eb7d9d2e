--------------------------- MODULE MigrationsProofs ---------------------------
(***************************************************************************)
(* Proofs about Migrations, for every script in which nothing dropped      *)
(* comes back, any number of instances and any number of crashes.  What a  *)
(* statement has done no statement of any instance undoes, so an instance  *)
(* may rely on the statements it has passed, on the versions it found      *)
(* recorded, and, once it serves, on all of them.                          *)
(***************************************************************************)
EXTENDS Migrations, TLAPS

\* What an instance that has come this far knows of the database.
Knows(i) ==
  LET at == inst[i] IN
  /\ at.version \in Versions
  /\ at.position \in 1 .. Len(Script[at.version])
  /\ at.phase # "down" => \A w \in 1 .. at.version - 1 : w \in recorded
  /\ at.phase = "check" => The(i).kind \in Checked
  /\ at.phase \in {"check", "execute"} =>
       \A p \in 1 .. at.position - 1 : Done(Script[at.version][p])
  /\ at.phase = "record" => Complete(at.version)
  /\ at.phase = "serve" => recorded = Versions

IInv == TypeOK /\ RecordedComplete /\ \A i \in Instance : Knows(i)

-----------------------------------------------------------------------------
(***************************************************************************)
(* Facts about scripts.                                                    *)
(***************************************************************************)
LEMMA ScriptTypes ==
  /\ Len(Script) \in Nat \ {0} /\ Versions = 1 .. Len(Script)
  /\ \A v \in Versions :
       /\ Len(Script[v]) \in Nat \ {0}
       /\ \A p \in 1 .. Len(Script[v]) : Script[v][p] \in Statement /\ Script[v][p] \in Statements
<1>1. Len(Script) \in Nat \ {0} /\ Versions = 1 .. Len(Script)
  BY MigrationsAssumption DEF Versions
<1>2. ASSUME NEW v \in Versions
      PROVE  /\ Len(Script[v]) \in Nat \ {0}
             /\ \A p \in 1 .. Len(Script[v]) : Script[v][p] \in Statement /\ Script[v][p] \in Statements
  <2>1. Script[v] \in Seq(Statement)
    BY <1>1, <1>2, MigrationsAssumption
  <2> QED
    BY <1>2, <2>1, MigrationsAssumption DEF Statements
<1> QED
  BY <1>1, <1>2

\* A statement that is not refused leaves itself done, and whatever was done.
LEMMA PerformDone ==
  ASSUME NEW t \in Statement, t \in Statements, ~Refused(t), Perform(t)
  PROVE  /\ Done(t)'
         /\ \A s \in Statements : Done(s) => Done(s)'
<1>1. Done(t)'
  BY DEF Perform, Done, Added, Refused, Adding, Checked, Statement
<1>2. ASSUME NEW s \in Statements, Done(s) PROVE Done(s)'
  <2>1. CASE t.kind = "drop"
    BY <1>2, <2>1, MigrationsAssumption DEF NothingReturns, Perform, Done, Added
  <2>2. CASE t.kind # "drop" /\ s.kind = "drop"
    BY <1>2, <2>2, MigrationsAssumption DEF NothingReturns, Perform, Done, Added
  <2>3. CASE t.kind # "drop" /\ s.kind # "drop"
    <3>1. s.item \in schema'
      BY <1>2, <2>3 DEF Perform, Done
    <3>2. s.kind = "fill" => s.item \notin blank'
      BY <1>2, <2>3 DEF Perform, Done, Refused, Checked
    <3> QED
      BY <2>3, <3>1, <3>2 DEF Done
  <2> QED
    BY <2>1, <2>2, <2>3
<1> QED
  BY <1>1, <1>2

\* A statement that is done is refused, or changes nothing.
LEMMA DoneIsIdle ==
  ASSUME NEW t \in Statement, Done(t), ~Refused(t), Perform(t)
  PROVE  UNCHANGED <<schema, blank>>
<1>1. CASE t.kind = "drop"
  BY <1>1 DEF Done, Refused
<1>2. CASE t.kind = "fill"
  BY <1>2 DEF Done, Perform, Added, Adding
<1>3. CASE t.kind = "table"
  BY <1>3 DEF Done, Perform, Added, Adding
<1>4. CASE t.kind \in Checked \ {"drop"}
  BY <1>4 DEF Done, Refused
<1> QED
  BY <1>1, <1>2, <1>3, <1>4 DEF Statement, Adding, Checked

\* What the check finds in place is done.
LEMMA SatisfiedDone ==
  ASSUME NEW t \in Statement, t.kind \in Checked, Satisfied(t)
  PROVE  Done(t)
  BY DEF Satisfied, Done, Checked

-----------------------------------------------------------------------------
(***************************************************************************)
(* One step of an instance moves it alone.                                 *)
(***************************************************************************)
\* No statement is undone and no record lost.
Preserved ==
  /\ \A s \in Statements : Done(s) => Done(s)'
  /\ recorded \subseteq recorded'

LEMMA PreservedKnows ==
  ASSUME IInv, Preserved, recorded' \subseteq Versions,
         NEW j \in Instance, inst'[j] = inst[j]
  PROVE  Knows(j)'
<1>1. Knows(j) /\ recorded \subseteq Versions
  BY DEF IInv, TypeOK
<1>2. \A v \in Versions : Complete(v) => Complete(v)'
  BY ScriptTypes DEF Preserved, Complete
<1>3. inst[j].phase = "serve" => recorded' = Versions
  BY <1>1 DEF Knows, Preserved
<1>4. /\ inst[j].phase # "down" => \A w \in 1 .. inst[j].version - 1 : w \in recorded'
      /\ inst[j].phase \in {"check", "execute"} =>
           \A p \in 1 .. inst[j].position - 1 : Done(Script[inst[j].version][p])'
  BY <1>1, ScriptTypes DEF Knows, Preserved
<1> QED
  BY <1>1, <1>2, <1>3, <1>4 DEF Knows, The

\* It is enough that the instance that moves knows what its new place asks for.
LEMMA MoveOK ==
  ASSUME IInv, NEW i \in Instance, Preserved,
         schema' \subseteq Item, blank' \subseteq Item,
         UNCHANGED rows, crashes' \in 0 .. MaxCrashes,
         recorded' \subseteq Versions,
         RecordedComplete',
         NEW place \in Place, inst' = [inst EXCEPT ![i] = place],
         Knows(i)'
  PROVE  IInv'
<1>1. inst' \in [Instance -> Place] /\ inst'[i] = place
  BY DEF IInv, TypeOK
<1>2. \A j \in Instance : Knows(j)'
  <2> SUFFICES ASSUME NEW j \in Instance, j # i PROVE Knows(j)'
    OBVIOUS
  <2>1. inst'[j] = inst[j]
    BY DEF IInv, TypeOK
  <2> QED
    BY <2>1, PreservedKnows
<1>3. TypeOK'
  BY <1>1, <1>2 DEF IInv, TypeOK, Knows
<1> QED
  BY <1>2, <1>3 DEF IInv

LEMMA StillComplete ==
  ASSUME IInv, Preserved, UNCHANGED recorded
  PROVE  RecordedComplete'
  BY ScriptTypes DEF IInv, TypeOK, RecordedComplete, Complete, Preserved

LEMMA DatabaseKept ==
  ASSUME IInv, UNCHANGED <<schema, blank>>, recorded \subseteq recorded'
  PROVE  Preserved
  BY DEF Preserved, Done

\* An instance that stops needs to know nothing.
LEMMA StopOK ==
  ASSUME IInv, NEW i \in Instance, Stop(i), UNCHANGED <<schema, blank, recorded, rows>>,
         crashes' \in 0 .. MaxCrashes
  PROVE  IInv'
<1>1. Down \in Place
  BY DEF Down, Place, Phase
<1>2. Preserved /\ RecordedComplete'
  BY DatabaseKept, StillComplete
<1>3. inst' = [inst EXCEPT ![i] = Down] /\ inst'[i] = Down
  BY DEF Stop, IInv, TypeOK
<1>4. Knows(i)'
  BY <1>3, ScriptTypes DEF Knows, Down
<1> QED
  BY <1>1, <1>2, <1>3, <1>4, MoveOK DEF IInv, TypeOK

\* From a statement that is done to the next, or to the record.
LEMMA AdvanceOK ==
  ASSUME IInv, NEW i \in Instance, inst[i].phase \in {"check", "execute"},
         Preserved, NEW t, t = The(i), Done(t)', Advance(i),
         schema' \subseteq Item, blank' \subseteq Item, UNCHANGED <<recorded, rows, crashes>>
  PROVE  IInv'
<1>0. PICK v \in Versions, p \in Nat :
        v = inst[i].version /\ p = inst[i].position /\ p \in 1 .. Len(Script[v])
  BY ScriptTypes DEF IInv, Knows
<1>1. /\ p \in Nat /\ v \in Nat /\ Len(Script[v]) \in Nat
      /\ \A w \in 1 .. v - 1 : w \in recorded
  <2>1. p \in Nat /\ v \in Nat /\ Len(Script[v]) \in Nat
    BY <1>0, ScriptTypes
  <2> QED
    BY <1>0, <2>1 DEF IInv, Knows
<1>2. \A q \in 1 .. p : Done(Script[v][q])'
  <2> SUFFICES ASSUME NEW q \in 1 .. p PROVE Done(Script[v][q])'
    OBVIOUS
  <2>1. CASE q = p
    BY <1>0, <2>1 DEF The
  <2>2. CASE q # p
    <3>1. q \in 1 .. p - 1 /\ q \in 1 .. Len(Script[v])
      BY <1>0, <1>1, <2>2
    <3>2. Done(Script[v][q]) /\ Script[v][q] \in Statements
      BY <1>0, <1>1, <3>1, ScriptTypes DEF IInv, Knows
    <3> QED
      BY <3>2 DEF Preserved
  <2> QED
    BY <2>1, <2>2
<1>3. RecordedComplete'
  BY StillComplete
<1>4. CASE p < Len(Script[v])
  <2> DEFINE ph == IF Script[v][p + 1].kind \in Checked THEN "check" ELSE "execute"
             place == [phase |-> ph, version |-> v, position |-> p + 1]
  <2>1. inst' = [inst EXCEPT ![i] = place]
    BY <1>0, <1>4 DEF Advance, GotoStatement, Goto
  <2>2. place \in Place /\ inst'[i] = place /\ p + 1 \in 1 .. Len(Script[v])
    BY <1>0, <1>1, <1>4, <2>1 DEF Place, Phase, IInv, TypeOK
  <2>3. Knows(i)'
    BY <1>0, <1>1, <1>2, <2>2 DEF Knows, The
  <2> HIDE DEF place
  <2> QED
    BY <1>3, <2>1, <2>2, <2>3, MoveOK DEF IInv, TypeOK
<1>5. CASE ~(p < Len(Script[v]))
  <2> DEFINE place == [phase |-> "record", version |-> v, position |-> p]
  <2>1. inst' = [inst EXCEPT ![i] = place]
    BY <1>0, <1>5 DEF Advance, Goto
  <2>2. place \in Place /\ inst'[i] = place /\ p = Len(Script[v])
    BY <1>0, <1>1, <1>5, <2>1 DEF Place, Phase, IInv, TypeOK
  <2>3. Knows(i)'
    BY <1>0, <1>1, <1>2, <2>2 DEF Knows, Complete
  <2> HIDE DEF place
  <2> QED
    BY <1>3, <2>1, <2>2, <2>3, MoveOK DEF IInv, TypeOK
<1> QED
  BY <1>4, <1>5

\* From a version that is recorded to the next, or to serving.
LEMMA NextVersionOK ==
  ASSUME IInv, NEW i \in Instance, inst[i].phase # "down", NextVersion(i),
         inst[i].version \in recorded', recorded \subseteq recorded', recorded' \subseteq Versions,
         RecordedComplete', UNCHANGED <<schema, blank, rows, crashes>>
  PROVE  IInv'
<1> DEFINE v == inst[i].version
<1>1. /\ v \in Versions /\ v \in Nat /\ Len(Script) \in Nat /\ Versions = 1 .. Len(Script)
      /\ \A w \in 1 .. v : w \in recorded'
  BY ScriptTypes DEF IInv, Knows
<1>2. Preserved
  BY DatabaseKept
<1>3. CASE v < Len(Script)
  <2> DEFINE place == [phase |-> "count", version |-> v + 1, position |-> 1]
  <2>1. inst' = [inst EXCEPT ![i] = place]
    BY <1>3 DEF NextVersion, Goto
  <2>2. place \in Place /\ inst'[i] = place /\ v + 1 \in Versions
    BY <1>1, <1>3, <2>1 DEF Place, Phase, IInv, TypeOK
  <2>3. Knows(i)'
    BY <1>1, <2>2, ScriptTypes DEF Knows
  <2> HIDE DEF place
  <2> QED
    BY <1>2, <2>1, <2>2, <2>3, MoveOK DEF IInv, TypeOK
<1>4. CASE ~(v < Len(Script))
  <2> DEFINE place == [phase |-> "serve", version |-> v, position |-> 1]
  <2>1. inst' = [inst EXCEPT ![i] = place]
    BY <1>4 DEF NextVersion, Goto
  <2>2. place \in Place /\ inst'[i] = place /\ v = Len(Script)
    BY <1>1, <1>4, <2>1 DEF Place, Phase, IInv, TypeOK
  <2>3. Knows(i)'
    BY <1>1, <2>2, ScriptTypes DEF Knows
  <2> HIDE DEF place
  <2> QED
    BY <1>2, <2>1, <2>2, <2>3, MoveOK DEF IInv, TypeOK
<1> QED
  BY <1>3, <1>4

-----------------------------------------------------------------------------
LEMMA InitOK == Init => IInv
<1> SUFFICES ASSUME Init PROVE IInv
  OBVIOUS
<1>1. schema \subseteq Item /\ rows \in Nat
  BY MigrationsAssumption DEF Init
<1>2. TypeOK
  BY <1>1, ScriptTypes, MigrationsAssumption DEF Init, TypeOK, Down, Place, Phase
<1>3. RecordedComplete
  BY DEF Init, RecordedComplete
<1>4. \A i \in Instance : Knows(i)
  BY ScriptTypes DEF Init, Knows, Down
<1> QED
  BY <1>2, <1>3, <1>4 DEF IInv

LEMMA StartOK ==
  ASSUME IInv, NEW i \in Instance, Start(i), UNCHANGED <<rows, crashes>>
  PROVE  IInv'
<1> DEFINE place == [phase |-> "count", version |-> 1, position |-> 1]
<1>1. inst' = [inst EXCEPT ![i] = place] /\ UNCHANGED <<schema, blank, recorded>>
  BY DEF Start, Goto, database
<1>2. place \in Place /\ inst'[i] = place
  BY <1>1 DEF Place, Phase, IInv, TypeOK
<1>3. Knows(i)'
  BY <1>2, ScriptTypes DEF Knows
<1> HIDE DEF place
<1>4. Preserved /\ RecordedComplete'
  BY <1>1, DatabaseKept, StillComplete
<1> QED
  BY <1>1, <1>2, <1>3, <1>4, MoveOK DEF IInv, TypeOK

LEMMA CountOK ==
  ASSUME IInv, NEW i \in Instance, Count(i), UNCHANGED <<rows, crashes>>
  PROVE  IInv'
<1> DEFINE v == inst[i].version
<1>1. inst[i].phase = "count" /\ UNCHANGED <<schema, blank, recorded>>
  BY DEF Count, database
<1>2. Preserved /\ RecordedComplete'
  BY <1>1, DatabaseKept, StillComplete
<1>3. CASE v \in recorded
  BY <1>1, <1>2, <1>3, NextVersionOK DEF Count, IInv, TypeOK
<1>4. CASE v \notin recorded
  <2> DEFINE ph == IF Script[v][1].kind \in Checked THEN "check" ELSE "execute"
             place == [phase |-> ph, version |-> v, position |-> 1]
  <2>1. inst' = [inst EXCEPT ![i] = place]
    BY <1>4 DEF Count, GotoStatement, Goto
  <2>2. v \in Versions /\ v \in Nat /\ \A w \in 1 .. v - 1 : w \in recorded'
    BY <1>1, ScriptTypes DEF IInv, Knows
  <2>3. place \in Place /\ inst'[i] = place
    BY <2>1, <2>2 DEF Place, Phase, IInv, TypeOK
  <2>4. Knows(i)'
    BY <2>2, <2>3, ScriptTypes DEF Knows, The
  <2> HIDE DEF place
  <2> QED
    BY <1>1, <1>2, <2>1, <2>3, <2>4, MoveOK DEF IInv, TypeOK
<1> QED
  BY <1>3, <1>4

LEMMA TheTypes ==
  ASSUME IInv, NEW i \in Instance
  PROVE  The(i) \in Statement /\ The(i) \in Statements
  BY ScriptTypes DEF IInv, Knows, The

LEMMA CheckOK ==
  ASSUME IInv, NEW i \in Instance, Check(i), UNCHANGED <<rows, crashes>>
  PROVE  IInv'
<1>1. inst[i].phase = "check" /\ UNCHANGED <<schema, blank, recorded>>
  BY DEF Check, database
<1>2. Preserved /\ RecordedComplete'
  BY <1>1, DatabaseKept, StillComplete
<1>3. CASE Satisfied(The(i))
  <2>1. PICK t \in Statement : t = The(i) /\ t \in Statements
    BY TheTypes
  <2>2. Done(t)
    BY <1>1, <1>3, <2>1, SatisfiedDone DEF IInv, Knows
  <2>3. Done(t)'
    BY <1>2, <2>1, <2>2 DEF Preserved
  <2> QED
    BY <1>1, <1>2, <1>3, <2>1, <2>3, AdvanceOK DEF Check, IInv, TypeOK
<1>4. CASE ~Satisfied(The(i))
  <2> DEFINE place == [phase |-> "execute", version |-> inst[i].version,
                       position |-> inst[i].position]
  <2>1. inst' = [inst EXCEPT ![i] = place]
    BY <1>4 DEF Check, Goto
  <2>2. place \in Place /\ inst'[i] = place
    BY <2>1, ScriptTypes DEF Place, Phase, IInv, TypeOK
  <2>3. Knows(i)'
    <3>1. \A s : Done(s) => Done(s)'
      BY <1>1 DEF Done
    <3>2. /\ inst'[i].phase = "execute" /\ recorded' = recorded
          /\ inst'[i].version = inst[i].version /\ inst'[i].position = inst[i].position
      BY <1>1, <2>2
    <3>3. Knows(i)
      BY DEF IInv
    <3> QED
      BY <1>1, <3>1, <3>2, <3>3 DEF Knows
  <2> HIDE DEF place
  <2> QED
    BY <1>1, <1>2, <2>1, <2>2, <2>3, MoveOK DEF IInv, TypeOK
<1> QED
  BY <1>3, <1>4

LEMMA ExecuteOK ==
  ASSUME IInv, NEW i \in Instance, Execute(i), UNCHANGED <<rows, crashes>>
  PROVE  IInv'
<1>1. PICK t \in Statement : t = The(i) /\ t \in Statements
  BY TheTypes
<1>2. inst[i].phase = "execute"
  BY DEF Execute
<1>3. CASE Refused(t)
  BY <1>1, <1>3, StopOK DEF Execute, database, IInv, TypeOK
<1>4. CASE ~Refused(t)
  <2>1. Perform(t) /\ Advance(i) /\ UNCHANGED recorded
    BY <1>1, <1>4 DEF Execute, Perform
  <2>2. schema' \subseteq Item /\ blank' \subseteq Item
    BY <2>1 DEF Perform, Added, Statement, IInv, TypeOK
  <2>3. Done(t)' /\ Preserved
    BY <1>1, <1>4, <2>1, PerformDone DEF Preserved
  <2> QED
    BY <1>1, <1>2, <2>1, <2>2, <2>3, AdvanceOK
<1> QED
  BY <1>3, <1>4

LEMMA RecordOK ==
  ASSUME IInv, NEW i \in Instance, Record(i), UNCHANGED <<rows, crashes>>
  PROVE  IInv'
<1> DEFINE v == inst[i].version
<1>1. /\ inst[i].phase = "record" /\ UNCHANGED <<schema, blank>>
      /\ recorded' = recorded \cup {v}
      /\ v \in Versions /\ Complete(v) /\ \A w \in 1 .. v - 1 : w \in recorded
  BY DEF Record, IInv, Knows
<1>2. CASE v \in recorded
  BY <1>1, <1>2, StopOK DEF Record, IInv, TypeOK
<1>3. CASE v \notin recorded
  <2>1. recorded' \subseteq Versions /\ recorded \subseteq recorded' /\ v \in recorded'
    BY <1>1 DEF IInv, TypeOK
  <2>2. RecordedComplete'
    BY <1>1, ScriptTypes DEF IInv, RecordedComplete, Complete, Done
  <2> QED
    BY <1>1, <1>3, <2>1, <2>2, NextVersionOK DEF Record
<1> QED
  BY <1>2, <1>3

LEMMA InvStep ==
  ASSUME IInv, [Next]_vars
  PROVE  IInv'
<1>1. ASSUME NEW i \in Instance, Step(i) PROVE IInv'
  BY <1>1, StartOK, CountOK, CheckOK, ExecuteOK, RecordOK DEF Step
<1>2. ASSUME NEW i \in Instance, Crash(i) PROVE IInv'
  <2>1. crashes' \in 0 .. MaxCrashes
    BY <1>2, MigrationsAssumption DEF Crash, IInv, TypeOK
  <2> QED
    BY <1>2, <2>1, StopOK DEF Crash, database
<1>3. CASE UNCHANGED vars
  BY <1>3 DEF vars, IInv, TypeOK, RecordedComplete, Complete, Done, Knows, The
<1> QED
  BY <1>1, <1>2, <1>3 DEF Next, Quiet

LEMMA Inductive == Spec => []IInv
<1>1. IInv /\ [Next]_vars => IInv'
  BY InvStep
<1> QED
  BY <1>1, InitOK, PTL DEF Spec

LEMMA ServingKnows ==
  ASSUME IInv, NEW i \in Instance, inst[i].phase = "serve"
  PROVE  \A v \in Versions : Complete(v)
  BY DEF IInv, Knows, RecordedComplete

\* The schema, the instances and the records have their types.
THEOREM MigrationsTyped == Spec => []TypeOK
<1>1. IInv => TypeOK
  BY DEF IInv
<1> QED
  BY <1>1, Inductive, PTL

\* A recorded version has taken effect, and so have the ones before it.
THEOREM RecordsCorrect == Spec => []RecordedComplete
<1>1. IInv => RecordedComplete
  BY DEF IInv
<1> QED
  BY <1>1, Inductive, PTL

\* An instance that serves has the whole schema.
THEOREM ServingCorrect == Spec => []ServesComplete
<1>1. IInv => ServesComplete
  BY ServingKnows DEF ServesComplete
<1> QED
  BY <1>1, Inductive, PTL

\* ... and keeps it as it is, though other instances may still be migrating.
THEOREM ServingStable == Spec => StableOnceServed
<1> DEFINE Stable == (\E i \in Instance : inst[i].phase = "serve") => UNCHANGED <<schema, blank>>
<1>1. ASSUME IInv, [Next]_vars PROVE Stable
  <2> SUFFICES ASSUME NEW i \in Instance, inst[i].phase = "serve"
               PROVE  UNCHANGED <<schema, blank>>
    OBVIOUS
  <2>1. \A v \in Versions : Complete(v)
    BY <1>1, ServingKnows
  <2>2. ASSUME NEW j \in Instance, Execute(j) PROVE UNCHANGED <<schema, blank>>
    <3>1. The(j) \in Statement /\ Done(The(j))
      BY <1>1, <2>1, TheTypes DEF IInv, Knows, Complete, The
    <3> QED
      BY <2>2, <3>1, DoneIsIdle DEF Execute, database
  <2>3. ASSUME NEW j \in Instance, Step(j) PROVE UNCHANGED <<schema, blank>>
    BY <2>2, <2>3 DEF Step, Start, Count, Check, Record, database
  <2> QED
    BY <1>1, <2>3 DEF Next, Crash, Quiet, database, vars
<1>2. IInv /\ [Next]_vars => [Stable]_vars
  BY <1>1
<1> QED
  BY <1>2, Inductive, PTL DEF Spec, StableOnceServed
=============================================================================
