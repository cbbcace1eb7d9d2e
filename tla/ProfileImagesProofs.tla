-------------------------- MODULE ProfileImagesProofs --------------------------
(***************************************************************************)
(* Proofs about ProfileImages: for any number of requests and uploads, the *)
(* file that the column names is there, unless its UPDATE was reported as  *)
(* failed.  A name is drawn once, so the name of an upload that is not yet *)
(* in the column is in nobody else's hands, and a name that the column has *)
(* lost never comes back.  And each disturbance leaves one file behind at  *)
(* most: requests that have not decided yet owe for the files that the     *)
(* overlap they began with may still orphan.                               *)
(***************************************************************************)
EXTENDS ProfileImages, FiniteSetTheorems, TLAPS

\* What a request holds, against the column and the files.
SlotOK(c) ==
  LET r == req[c] IN
  /\ r.old \in given \cup {NoName} /\ r.new \in given \cup {NoName}
  /\ r.phase \in {"rename", "update", "removeNew"} => r.new \in Name
  /\ r.phase \in {"rename", "update"} => r.new # column /\ r.new # r.old
  /\ r.phase = "update" => r.new \in files
  /\ r.phase = "removeNew" /\ r.new = column => r.new \in doubted
  /\ r.phase = "removeOld" /\ r.old # NoName => r.old # column

\* An upload is one request's, and until it is in the column no other read it.
PairOK(c, d) ==
  /\ req[c].new = req[d].new => req[c].new = NoName
  /\ req[c].phase \in {"rename", "update"} => req[c].new # req[d].old

IInv ==
  /\ TypeOK
  /\ column \in given \cup {NoName}
  /\ NamedFileExists
  /\ \A c \in Client : SlotOK(c)
  /\ \A c, d \in Client : c # d => PairOK(c, d)

LEMMA Counts ==
  /\ Cardinality(Busy) \in Nat
  /\ \A n \in Nat : disturbances \in Nat /\ Disturb(n) => disturbances' \in Nat
<1>1. Cardinality(Busy) \in Nat
  BY ImagesAssumption, FS_Subset, FS_CardinalityType DEF Busy
<1> QED
  BY <1>1 DEF Disturb

LEMMA InitOK == Init => IInv
  BY ImagesAssumption DEF Init, IInv, TypeOK, NamedFileExists, SlotOK, PairOK, Idle, Request, Phase

\* A request that is idle again holds nothing.
LEMMA IdleOK ==
  ASSUME IInv, NEW c \in Client, End(c), given' = given
  PROVE  /\ req' \in [Client -> Request] /\ SlotOK(c)'
         /\ \A d \in Client : d # c => req'[d] = req[d] /\ PairOK(c, d)' /\ PairOK(d, c)'
<1>1. /\ req' \in [Client -> Request] /\ req'[c] = Idle
      /\ \A d \in Client : d # c => req'[d] = req[d]
  BY DEF End, IInv, TypeOK, Idle, Request, Phase
<1>2. SlotOK(c)'
  BY <1>1 DEF SlotOK, Idle
<1>3. ASSUME NEW d \in Client, d # c PROVE PairOK(c, d)' /\ PairOK(d, c)'
  BY <1>1, <1>3, ImagesAssumption DEF PairOK, Idle, IInv, SlotOK, TypeOK
<1> QED
  BY <1>1, <1>2, <1>3

\* Two requests of which neither moved.
LEMMA OthersPaired ==
  ASSUME IInv, NEW c \in Client, NEW d \in Client, c # d,
         req'[c] = req[c], req'[d] = req[d]
  PROVE  PairOK(c, d)'
  BY DEF IInv, PairOK

LEMMA BeginOK ==
  ASSUME IInv, NEW c \in Client, NEW ph \in {"create", "clear"}, Begin(c, ph)
  PROVE  IInv'
<1> DEFINE s == [Idle EXCEPT !.phase = ph, !.old = column]
<1>1. s \in Request /\ s.phase = ph /\ s.old = column /\ s.new = NoName
  <2>1. Idle \in Request /\ ph \in Phase /\ column \in Name \cup {NoName}
    BY DEF Idle, Request, Phase, IInv, TypeOK
  <2>2. s \in Request
    BY <2>1 DEF Request
  <2> QED
    BY <2>1, <2>2 DEF Idle, Request
<1>2. req' = [req EXCEPT ![c] = s] /\ UNCHANGED <<column, files, temporaries, given, doubted>>
  BY DEF Begin
<1>3. disturbances' \in Nat
  BY Counts DEF Begin, IInv, TypeOK
<1>4. /\ req' \in [Client -> Request] /\ req'[c] = s
      /\ \A d \in Client : d # c => req'[d] = req[d]
  BY <1>1, <1>2 DEF IInv, TypeOK
<1> HIDE DEF s
<1>5. ASSUME NEW d \in Client PROVE SlotOK(d)'
  <2>1. CASE d = c
    BY <1>1, <1>2, <1>4, <2>1 DEF IInv, SlotOK
  <2>2. CASE d # c
    BY <1>2, <1>4, <2>2 DEF IInv, SlotOK
  <2> QED
    BY <2>1, <2>2
<1>6. ASSUME NEW d \in Client, d # c PROVE PairOK(c, d)' /\ PairOK(d, c)'
  BY <1>1, <1>4, <1>6 DEF PairOK, IInv, SlotOK
<1>7. \A d, e \in Client : d # e => PairOK(d, e)'
  BY <1>4, <1>6, OthersPaired
<1>8. TypeOK'
  BY <1>2, <1>3, <1>4, <1>5 DEF IInv, TypeOK, SlotOK
<1> QED
  BY <1>2, <1>5, <1>7, <1>8 DEF IInv, NamedFileExists

LEMMA CreateTempOK ==
  ASSUME IInv, NEW c \in Client, CreateTemp(c)
  PROVE  IInv'
<1>0. UNCHANGED <<column, doubted, disturbances, files>>
  BY DEF CreateTemp, Calm
<1>1. CASE End(c) /\ UNCHANGED <<files, temporaries, given>>
  <2>1. \A d \in Client : SlotOK(d)'
    BY <1>0, <1>1, IdleOK DEF IInv, SlotOK
  <2>2. \A d, e \in Client : d # e => PairOK(d, e)'
    BY <1>1, IdleOK, OthersPaired
  <2>3. TypeOK'
    BY <1>0, <1>1, <2>1, IdleOK DEF IInv, TypeOK, SlotOK
  <2> QED
    BY <1>0, <1>1, <2>1, <2>2, <2>3 DEF IInv, NamedFileExists
<1>2. ASSUME NEW n \in Name \ given,
             req' = [req EXCEPT ![c].phase = "rename", ![c].new = n],
             temporaries' = temporaries \cup {n}, given' = given \cup {n}
      PROVE  IInv'
  <2>1. /\ req' \in [Client -> Request]
        /\ req'[c] = [phase |-> "rename", old |-> req[c].old, new |-> n]
        /\ \A d \in Client : d # c => req'[d] = req[d]
    BY <1>2 DEF IInv, TypeOK, Request, Phase
  <2>2. /\ n # column /\ n # NoName
        /\ \A d \in Client : n # req[d].old /\ n # req[d].new
    BY <1>2, ImagesAssumption DEF IInv, SlotOK
  <2>3. ASSUME NEW d \in Client PROVE SlotOK(d)'
    <3>1. CASE d = c
      BY <1>0, <1>2, <2>1, <2>2, <3>1 DEF IInv, SlotOK
    <3>2. CASE d # c
      BY <1>0, <1>2, <2>1, <3>2 DEF IInv, SlotOK
    <3> QED
      BY <3>1, <3>2
  <2>4. ASSUME NEW d \in Client, d # c PROVE PairOK(c, d)' /\ PairOK(d, c)'
    <3>1. PairOK(c, d)'
      BY <2>1, <2>2, <2>4 DEF PairOK
    <3>2. PairOK(d, c)'
      BY <2>1, <2>2, <2>4 DEF PairOK, IInv
    <3> QED
      BY <3>1, <3>2
  <2>5. \A d, e \in Client : d # e => PairOK(d, e)'
    BY <2>1, <2>4, OthersPaired
  <2>6. TypeOK'
    BY <1>0, <1>2, <2>1, <2>3 DEF IInv, TypeOK, SlotOK
  <2> QED
    BY <1>0, <1>2, <2>3, <2>5, <2>6 DEF IInv, NamedFileExists
<1> QED
  BY <1>1, <1>2 DEF CreateTemp

\* A request goes to another phase with what it holds.
LEMMA GotoOK ==
  ASSUME IInv, NEW c \in Client, NEW ph \in {"update", "removeOld", "removeNew"}, Goto(c, ph),
         ph = "update" => req[c].phase = "rename"
  PROVE  /\ req' \in [Client -> Request]
         /\ req'[c].phase = ph /\ req'[c].old = req[c].old /\ req'[c].new = req[c].new
         /\ \A d \in Client : d # c => req'[d] = req[d]
         /\ \A d, e \in Client : d # e => PairOK(d, e)'
<1>1. /\ req' \in [Client -> Request]
      /\ req'[c] = [phase |-> ph, old |-> req[c].old, new |-> req[c].new]
      /\ \A d \in Client : d # c => req'[d] = req[d]
  BY DEF Goto, IInv, TypeOK, Request, Phase
<1>2. ASSUME NEW d \in Client, d # c PROVE PairOK(c, d)' /\ PairOK(d, c)'
  BY <1>1, <1>2 DEF PairOK, IInv
<1> QED
  BY <1>1, <1>2, OthersPaired

LEMMA RenameOK ==
  ASSUME IInv, NEW c \in Client, Rename(c)
  PROVE  IInv'
<1>0. /\ UNCHANGED <<column, given, doubted>> /\ req[c].phase = "rename"
      /\ temporaries' \subseteq temporaries /\ disturbances' \in Nat
  BY Counts DEF Rename, Calm, store, IInv, TypeOK
<1>1. CASE files' = files \cup {req[c].new} /\ Goto(c, "update")
  <2>1. \A d \in Client : SlotOK(d)'
    BY <1>0, <1>1, GotoOK DEF IInv, SlotOK
  <2>2. TypeOK'
    BY <1>0, <1>1, <2>1, GotoOK DEF IInv, TypeOK, SlotOK
  <2> QED
    BY <1>0, <1>1, <2>1, <2>2, GotoOK DEF IInv, NamedFileExists
<1>2. CASE UNCHANGED files /\ End(c)
  <2>1. \A d \in Client : SlotOK(d)'
    BY <1>0, <1>2, IdleOK DEF IInv, SlotOK
  <2>2. \A d, e \in Client : d # e => PairOK(d, e)'
    BY <1>0, <1>2, IdleOK, OthersPaired
  <2>3. TypeOK'
    BY <1>0, <1>2, <2>1, IdleOK DEF IInv, TypeOK, SlotOK
  <2> QED
    BY <1>0, <1>2, <2>1, <2>2, <2>3 DEF IInv, NamedFileExists
<1> QED
  BY <1>1, <1>2 DEF Rename, store

\* The column takes the upload of a request, or is emptied.
LEMMA UpdateColumnOK ==
  ASSUME IInv, NEW c \in Client, UpdateColumn(c)
  PROVE  IInv'
<1> DEFINE n == req[c].new
<1>0. /\ req[c].phase = "update" /\ UNCHANGED <<files, temporaries, given>>
      /\ n \in Name /\ n \in given /\ n \in files /\ n # column /\ n # NoName
      /\ n # req[c].old
      /\ \A d \in Client : d # c => n # req[d].old /\ n # req[d].new
  BY ImagesAssumption DEF UpdateColumn, Write, IInv, SlotOK, PairOK
<1>1. ASSUME column' = n, NEW ph \in {"removeOld", "removeNew"}, Goto(c, ph),
             doubted' = doubted \/ doubted' = doubted \cup ({n} \ {NoName}),
             ph = "removeNew" => n \in doubted', disturbances' \in Nat
      PROVE  IInv'
  <2>1. ASSUME NEW d \in Client PROVE SlotOK(d)'
    <3>1. CASE d = c
      BY <1>0, <1>1, <3>1, GotoOK DEF IInv, SlotOK
    <3>2. CASE d # c
      BY <1>0, <1>1, <3>2, GotoOK DEF IInv, SlotOK
    <3> QED
      BY <3>1, <3>2
  <2>2. TypeOK'
    BY <1>0, <1>1, <2>1, GotoOK DEF IInv, TypeOK, SlotOK
  <2> QED
    BY <1>0, <1>1, <2>1, <2>2, GotoOK DEF IInv, NamedFileExists
<1>2. CASE UNCHANGED column /\ Goto(c, "removeNew") /\ Calm
  <2>1. UNCHANGED <<column, files, temporaries, given, doubted, disturbances>>
    BY <1>0, <1>2 DEF Calm
  <2>2. \A d \in Client : SlotOK(d)'
    BY <1>0, <1>2, <2>1, GotoOK DEF IInv, SlotOK
  <2>3. TypeOK'
    BY <1>2, <2>1, <2>2, GotoOK DEF IInv, TypeOK, SlotOK
  <2> QED
    BY <1>2, <2>1, <2>2, <2>3, GotoOK DEF IInv, NamedFileExists
<1>3. CASE column' = n /\ Goto(c, "removeOld") /\ Calm
  BY <1>1, <1>3 DEF Calm, IInv, TypeOK
<1>4. CASE /\ column' = n /\ Goto(c, "removeNew")
           /\ doubted' = doubted \cup ({n} \ {NoName}) /\ Disturb(1)
  BY <1>0, <1>1, <1>4, Counts DEF IInv, TypeOK
<1> QED
  BY <1>2, <1>3, <1>4 DEF UpdateColumn, Write

LEMMA ClearColumnOK ==
  ASSUME IInv, NEW c \in Client, ClearColumn(c)
  PROVE  IInv'
<1>0. /\ req[c].phase = "clear" /\ UNCHANGED <<files, temporaries, given>>
      /\ doubted' = doubted /\ disturbances' \in Nat
      /\ column' \in {column, NoName}
  BY Counts DEF ClearColumn, Write, Calm, IInv, TypeOK
<1>1. CASE End(c)
  <2>1. \A d \in Client : SlotOK(d)'
    BY <1>0, <1>1, IdleOK, ImagesAssumption DEF IInv, SlotOK
  <2>2. \A d, e \in Client : d # e => PairOK(d, e)'
    BY <1>0, <1>1, IdleOK, OthersPaired
  <2>3. TypeOK'
    BY <1>0, <1>1, <2>1, IdleOK DEF IInv, TypeOK, SlotOK
  <2> QED
    BY <1>0, <1>1, <2>1, <2>2, <2>3 DEF IInv, NamedFileExists
<1>2. CASE column' = NoName /\ Goto(c, "removeOld")
  <2>1. \A d \in Client : SlotOK(d)'
    BY <1>0, <1>2, GotoOK, ImagesAssumption DEF IInv, SlotOK
  <2>2. TypeOK'
    BY <1>0, <1>2, <2>1, GotoOK DEF IInv, TypeOK, SlotOK
  <2> QED
    BY <1>0, <1>2, <2>1, <2>2, GotoOK DEF IInv, NamedFileExists
<1> QED
  BY <1>1, <1>2 DEF ClearColumn, Write

\* A removal takes neither the column's file nor an upload on its way there.
LEMMA DeleteOK ==
  ASSUME IInv, NEW c \in Client, NEW name, Delete(c, name),
         name = column => column \in doubted \cup {NoName},
         \A d \in Client : d # c /\ req[d].phase = "update" => req[d].new # name
  PROVE  IInv'
<1>0. /\ UNCHANGED <<column, temporaries, given, doubted>> /\ disturbances' \in Nat
      /\ End(c) /\ (files' = files \ {name} \/ files' = files)
  BY Counts DEF Delete, Calm, IInv, TypeOK
<1>1. ASSUME NEW d \in Client PROVE SlotOK(d)'
  <2>1. CASE d = c
    BY <1>0, <2>1, IdleOK
  <2>2. CASE d # c
    BY <1>0, <2>2, IdleOK DEF IInv, SlotOK
  <2> QED
    BY <2>1, <2>2
<1>2. \A d, e \in Client : d # e => PairOK(d, e)'
  BY <1>0, IdleOK, OthersPaired
<1>3. TypeOK'
  BY <1>0, <1>1, IdleOK DEF IInv, TypeOK, SlotOK
<1>4. NamedFileExists'
  BY <1>0 DEF IInv, NamedFileExists
<1> QED
  BY <1>0, <1>1, <1>2, <1>3, <1>4 DEF IInv

LEMMA CrashOK ==
  ASSUME IInv, Crash
  PROVE  IInv'
<1>1. /\ UNCHANGED <<column, files, temporaries, given, doubted>>
      /\ req' = [c \in Client |-> Idle] /\ disturbances' \in Nat
  BY Counts DEF Crash, IInv, TypeOK
<1>2. TypeOK'
  BY <1>1 DEF IInv, TypeOK, Idle, Request, Phase
<1> QED
  BY <1>1, <1>2 DEF IInv, NamedFileExists, SlotOK, PairOK, Idle

LEMMA InvStep ==
  ASSUME IInv, [Next]_vars
  PROVE  IInv'
<1>1. ASSUME NEW c \in Client, RemoveOld(c) PROVE IInv'
  <2>1. /\ req[c].old = column => column \in doubted \cup {NoName}
        /\ \A d \in Client : d # c /\ req[d].phase = "update" => req[d].new # req[c].old
    BY <1>1 DEF RemoveOld, IInv, SlotOK, PairOK
  <2> QED
    BY <1>1, <2>1, DeleteOK DEF RemoveOld
<1>2. ASSUME NEW c \in Client, RemoveNew(c) PROVE IInv'
  <2>1. /\ req[c].new = column => column \in doubted \cup {NoName}
        /\ \A d \in Client : d # c /\ req[d].phase = "update" => req[d].new # req[c].new
    BY <1>2, ImagesAssumption DEF RemoveNew, IInv, SlotOK, PairOK
  <2> QED
    BY <1>2, <2>1, DeleteOK DEF RemoveNew
<1>3. CASE UNCHANGED vars
  BY <1>3 DEF vars, IInv, TypeOK, NamedFileExists, SlotOK, PairOK
<1> QED
  BY <1>1, <1>2, <1>3, BeginOK, CreateTempOK, RenameOK, UpdateColumnOK, ClearColumnOK, CrashOK
  DEF Next

LEMMA Inductive == Spec => []IInv
<1>1. IInv /\ [Next]_vars => IInv'
  BY InvStep
<1> QED
  BY <1>1, InitOK, PTL DEF Spec

\* The column, the files and the requests have their types.
THEOREM ImagesTyped == Spec => []TypeOK
<1>1. IInv => TypeOK
  BY DEF IInv
<1> QED
  BY <1>1, Inductive, PTL

\* The column never names a file that is gone, but for an UPDATE that took effect
\* and was reported as failed.
THEOREM NamedFileKept == Spec => []NamedFileExists
<1>1. IInv => NamedFileExists
  BY DEF IInv
<1> QED
  BY <1>1, Inductive, PTL

-----------------------------------------------------------------------------
(***************************************************************************)
(* What is left behind.  A file becomes an orphan when the column names    *)
(* another and no request will remove it.  Of the requests that have not   *)
(* decided yet what the column names, one may have read its present name   *)
(* and will remove the file; each of the others may yet orphan one, which  *)
(* an overlap has already been counted for.                                *)
(***************************************************************************)
Undecided == {c \in Client : req[c].phase \in {"create", "rename", "update", "clear"}}

KnowsColumn == \E c \in Undecided : req[c].old = column

\* Files that requests under way may still orphan, at the cost of overlaps before.
Debt == IF KnowsColumn THEN Cardinality(Undecided) - 1 ELSE Cardinality(Undecided)

\* A request that may still remove a file, or has yet to write its name.
Keeps(c, f) ==
  \/ req[c].new = f /\ req[c].phase \in {"update", "removeNew"}
  \/ req[c].old = f /\ req[c].phase \in {"create", "rename", "update", "clear", "removeOld"}

Writes(c, f) == req[c].phase = "rename" /\ req[c].new = f

Orphans ==
  {f \in files : f # column /\ \A c \in Client : ~Keeps(c, f)}
    \cup {f \in temporaries : \A c \in Client : ~Writes(c, f)}

DebtInv ==
  /\ IsFiniteSet(files) /\ IsFiniteSet(temporaries)
  /\ Cardinality(Orphans) + Debt <= disturbances

LEMMA OrphansFinite ==
  ASSUME IsFiniteSet(files), IsFiniteSet(temporaries)
  PROVE  IsFiniteSet(Orphans) /\ Cardinality(Orphans) \in Nat
<1>1. IsFiniteSet(files \cup temporaries)
  BY FS_Union
<1>2. Orphans \in SUBSET (files \cup temporaries)
  BY DEF Orphans
<1> QED
  BY <1>1, <1>2, FS_Subset, FS_CardinalityType

LEMMA DebtTypes ==
  /\ IsFiniteSet(Undecided) /\ Cardinality(Undecided) \in Nat
  /\ KnowsColumn => Cardinality(Undecided) >= 1
  /\ Debt \in Nat
<1>1. IsFiniteSet(Undecided) /\ Cardinality(Undecided) \in Nat
  BY ImagesAssumption, FS_Subset, FS_CardinalityType DEF Undecided
<1>2. KnowsColumn => Cardinality(Undecided) # 0
  BY <1>1, FS_EmptySet DEF KnowsColumn
<1> QED
  BY <1>1, <1>2 DEF Debt

\* The union of two finite sets is no larger than both.
LEMMA Together ==
  ASSUME NEW A, NEW B, IsFiniteSet(A), IsFiniteSet(B)
  PROVE  /\ IsFiniteSet(A \cup B) /\ Cardinality(A \cup B) \in Nat
         /\ Cardinality(A) \in Nat /\ Cardinality(B) \in Nat
         /\ Cardinality(A \cup B) <= Cardinality(A) + Cardinality(B)
<1>1. /\ IsFiniteSet(A \cup B) /\ IsFiniteSet(A \cap B)
      /\ Cardinality(A \cup B) = Cardinality(A) + Cardinality(B) - Cardinality(A \cap B)
  BY FS_Union, FS_Subset
<1>2. /\ Cardinality(A) \in Nat /\ Cardinality(B) \in Nat /\ Cardinality(A \cap B) \in Nat
      /\ Cardinality(A \cup B) \in Nat
  BY <1>1, FS_CardinalityType
<1> QED
  BY <1>1, <1>2, Z3

\* What pays for how many files: a smaller debt, a disturbance.
LEMMA Balance ==
  \A d, e, x, y \in Nat :
    /\ e <= d /\ y = x => e + x <= d + y
    /\ e <= d - 1 /\ y = x => 1 + e + x <= d + y
    /\ e <= d /\ y = x + 1 => 1 + e + x <= d + y
    /\ e <= d - 1 /\ y = x + 1 => 2 + e + x <= d + y
    /\ e + x <= d + y => 0 + e + x <= d + y
    /\ \A n \in Nat : 2 + e + x <= d + y /\ n <= 2 => n + e + x <= d + y
  OBVIOUS

\* A step pays for the files it orphans: from the debt, or by a disturbance.
LEMMA Paid ==
  ASSUME IInv, DebtInv, IsFiniteSet(files'), IsFiniteSet(temporaries'),
         NEW Lost, IsFiniteSet(Lost), Orphans' \subseteq Orphans \cup Lost,
         Debt' \in Nat, disturbances' \in Nat,
         Cardinality(Lost) + Debt' + disturbances <= Debt + disturbances'
  PROVE  DebtInv'
<1>1. IsFiniteSet(Orphans) /\ Cardinality(Orphans) \in Nat
  BY OrphansFinite DEF DebtInv
<1>2. /\ IsFiniteSet(Orphans \cup Lost) /\ Cardinality(Orphans \cup Lost) \in Nat
      /\ Cardinality(Lost) \in Nat
      /\ Cardinality(Orphans \cup Lost) <= Cardinality(Orphans) + Cardinality(Lost)
  BY <1>1, Together
<1>3. Cardinality(Orphans') <= Cardinality(Orphans \cup Lost) /\ Cardinality(Orphans') \in Nat
  BY <1>2, FS_Subset, FS_CardinalityType
<1>4. Debt \in Nat /\ disturbances \in Nat
  BY DebtTypes DEF IInv, TypeOK
<1> QED
  BY <1>1, <1>2, <1>3, <1>4 DEF DebtInv

LEMMA PaidNothing ==
  ASSUME IInv, DebtInv, IsFiniteSet(files'), IsFiniteSet(temporaries'),
         Orphans' \subseteq Orphans, Debt' \in Nat, disturbances' \in Nat,
         Debt' + disturbances <= Debt + disturbances'
  PROVE  DebtInv'
<1> DEFINE Lost == {}
<1>1. IsFiniteSet(Lost) /\ Cardinality(Lost) = 0 /\ Orphans' \subseteq Orphans \cup Lost
  BY FS_EmptySet
<1> HIDE DEF Lost
<1>2. Debt \in Nat /\ disturbances \in Nat
  BY DebtTypes DEF IInv, TypeOK
<1>3. Cardinality(Lost) + Debt' + disturbances <= Debt + disturbances'
  BY <1>1, <1>2, Balance
<1> QED
  BY <1>1, <1>3, Paid

LEMMA PaidOne ==
  ASSUME IInv, DebtInv, IsFiniteSet(files'), IsFiniteSet(temporaries'),
         NEW f, Orphans' \subseteq Orphans \cup {f}, Debt' \in Nat, disturbances' \in Nat,
         1 + Debt' + disturbances <= Debt + disturbances'
  PROVE  DebtInv'
<1> DEFINE Lost == {f}
<1>1. IsFiniteSet(Lost) /\ Cardinality(Lost) = 1 /\ Orphans' \subseteq Orphans \cup Lost
  BY FS_Singleton
<1> HIDE DEF Lost
<1>2. Debt \in Nat /\ disturbances \in Nat
  BY DebtTypes DEF IInv, TypeOK
<1>3. Cardinality(Lost) + Debt' + disturbances <= Debt + disturbances'
  BY <1>1, <1>2, Balance
<1> QED
  BY <1>1, <1>3, Paid

LEMMA PaidTwo ==
  ASSUME IInv, DebtInv, IsFiniteSet(files'), IsFiniteSet(temporaries'),
         NEW f, NEW g, Orphans' \subseteq Orphans \cup {f, g}, Debt' \in Nat, disturbances' \in Nat,
         2 + Debt' + disturbances <= Debt + disturbances'
  PROVE  DebtInv'
<1> DEFINE Lost == {f} \cup {g}
<1>1. /\ IsFiniteSet(Lost) /\ Cardinality(Lost) \in Nat /\ Cardinality(Lost) <= 2
      /\ Orphans' \subseteq Orphans \cup Lost
  <2>1. /\ IsFiniteSet({f}) /\ Cardinality({f}) = 1
        /\ IsFiniteSet({g}) /\ Cardinality({g}) = 1
    BY FS_Singleton
  <2>2. IsFiniteSet(Lost) /\ Cardinality(Lost) \in Nat /\ Cardinality(Lost) <= 1 + 1
    BY <2>1, Together
  <2> QED
    BY <2>2
<1> HIDE DEF Lost
<1>2. Debt \in Nat /\ disturbances \in Nat
  BY DebtTypes DEF IInv, TypeOK
<1>3. Cardinality(Lost) + Debt' + disturbances <= Debt + disturbances'
  BY <1>1, <1>2, Balance
<1> QED
  BY <1>1, <1>3, Paid

-----------------------------------------------------------------------------
\* The debt of a request that has decided.
LEMMA Decided ==
  ASSUME NEW c \in Undecided, Undecided' = Undecided \ {c},
         \A d \in Client : d # c => req'[d] = req[d]
  PROVE  /\ Debt \in Nat /\ Debt' \in Nat
         /\ Debt' <= Debt
         /\ ~KnowsColumn => Debt' <= Debt - 1
         /\ column' = column /\ req[c].old # column => Debt' <= Debt - 1
<1>1. /\ IsFiniteSet(Undecided) /\ Cardinality(Undecided) \in Nat /\ Debt \in Nat
      /\ KnowsColumn => Cardinality(Undecided) >= 1
  BY DebtTypes
<1>2. /\ Cardinality(Undecided') = Cardinality(Undecided) - 1
      /\ Cardinality(Undecided') \in Nat
  BY <1>1, FS_RemoveElement, FS_CardinalityType
<1>3. KnowsColumn' => Cardinality(Undecided') # 0
  <2>1. KnowsColumn' => Undecided' # {}
    BY DEF KnowsColumn
  <2>2. IsFiniteSet(Undecided')
    BY <1>1, FS_RemoveElement
  <2> QED
    BY <2>1, <2>2, FS_EmptySet
<1>4. ASSUME column' = column, req[c].old # column
      PROVE  KnowsColumn => KnowsColumn'
  BY <1>4 DEF KnowsColumn, Undecided
<1> QED
  BY <1>1, <1>2, <1>3, <1>4 DEF Debt

\* Where nobody decides, and nobody's name and the column's changes, the debt stays.
LEMMA DebtStays ==
  ASSUME Undecided' = Undecided, column' = column,
         \A d \in Undecided : req'[d].old = req[d].old
  PROVE  Debt' = Debt /\ Debt \in Nat
  BY DebtTypes DEF Debt, KnowsColumn

LEMMA DebtInit == Init => DebtInv
<1> SUFFICES ASSUME Init PROVE DebtInv
  OBVIOUS
<1>1. files = {} /\ temporaries = {} /\ disturbances = 0 /\ Orphans = {}
  BY DEF Init, Orphans
<1>2. Undecided = {}
  BY DEF Init, Undecided, Idle
<1>3. Debt = 0
  BY <1>2, FS_EmptySet DEF Debt, KnowsColumn
<1> QED
  BY <1>1, <1>3, FS_EmptySet DEF DebtInv

\* A request that begins knows the column, and pays for the one that did before.
LEMMA BeginPaid ==
  ASSUME IInv, DebtInv, NEW c \in Client, NEW ph \in {"create", "clear"}, Begin(c, ph)
  PROVE  DebtInv'
<1>1. /\ req[c].phase = "idle" /\ UNCHANGED <<column, files, temporaries>>
      /\ req'[c].phase = ph /\ req'[c].old = column
      /\ \A d \in Client : d # c => req'[d] = req[d]
  BY DEF Begin, Idle, IInv, TypeOK
<1>2. disturbances' = disturbances + (IF Busy = {} THEN 0 ELSE 1) /\ disturbances \in Nat
  BY DEF Begin, Disturb, IInv, TypeOK
<1>3. Undecided' = Undecided \cup {c} /\ c \notin Undecided
  BY <1>1 DEF Undecided
<1>4. KnowsColumn'
  BY <1>1, <1>3 DEF KnowsColumn
<1>5. /\ Cardinality(Undecided') = Cardinality(Undecided) + 1
      /\ Cardinality(Undecided) \in Nat /\ IsFiniteSet(Undecided) /\ Debt \in Nat
  BY <1>3, DebtTypes, FS_AddElement
<1>6. Debt' = Cardinality(Undecided)
  BY <1>4, <1>5 DEF Debt
<1>7. Debt' + disturbances <= Debt + disturbances'
  <2>1. CASE Busy = {}
    <3>1. Undecided = {}
      BY <2>1 DEF Busy, Undecided
    <3> QED
      BY <1>2, <1>5, <1>6, <2>1, <3>1, FS_EmptySet
  <2>2. CASE Busy # {}
    BY <1>2, <1>5, <1>6, <2>2 DEF Debt
  <2> QED
    BY <2>1, <2>2
<1>8. Orphans' \subseteq Orphans
  <2>1. \A f : \A d \in Client : Keeps(d, f) => Keeps(d, f)'
    BY <1>1 DEF Keeps
  <2>2. \A f : \A d \in Client : Writes(d, f) => Writes(d, f)'
    BY <1>1 DEF Writes
  <2> QED
    BY <1>1, <2>1, <2>2 DEF Orphans
<1>9. disturbances' \in Nat /\ Debt' \in Nat
  BY <1>2, <1>5, <1>6
<1> QED
  BY <1>1, <1>7, <1>8, <1>9, PaidNothing DEF DebtInv

\* A request ends, or goes on with what it holds.
LEMMA OneMoves ==
  ASSUME IInv, NEW c \in Client, End(c) \/ \E ph \in Phase : Goto(c, ph)
  PROVE  /\ \A d \in Client : d # c => req'[d] = req[d]
         /\ End(c) => req'[c].phase = "idle"
         /\ \A ph \in Phase : Goto(c, ph) =>
              req'[c].phase = ph /\ req'[c].old = req[c].old /\ req'[c].new = req[c].new
  BY DEF End, Goto, IInv, TypeOK, Idle, Request

\* A request that decides, once its upload has its final name.
DecidesNow(c) ==
  /\ c \in Undecided /\ req[c].phase # "rename"
  /\ Undecided' = Undecided \ {c}
  /\ \A d \in Client : d # c => req'[d] = req[d]
  /\ files' = files /\ temporaries' = temporaries

\* What a decision can orphan: the file that the column named, unless another
\* request read its name, and the file whose name this one read.
LEMMA DecisionLoses ==
  ASSUME IInv, DebtInv, NEW c \in Client, DecidesNow(c),
         \A f : Keeps(c, f) => Keeps(c, f)' \/ f = column' \/ f = req[c].old
  PROVE  /\ Orphans' \subseteq Orphans \cup {column, req[c].old}
         /\ column' = column => Orphans' \subseteq Orphans \cup {req[c].old}
         /\ column' = column /\ req[c].old = column => Orphans' \subseteq Orphans
         /\ KnowsColumn => Orphans' \subseteq Orphans \cup {req[c].old}
         /\ (\A f : Keeps(c, f) => Keeps(c, f)' \/ f = column') =>
              /\ Orphans' \subseteq Orphans \cup {column}
              /\ KnowsColumn => Orphans' \subseteq Orphans
<1>1. \A f : \A d \in Client : d # c => (Keeps(d, f)' <=> Keeps(d, f))
  BY DEF DecidesNow, Keeps
<1>2. ASSUME NEW f \in temporaries', \A d \in Client : ~Writes(d, f)' PROVE f \in Orphans
  <2>1. \A d \in Client : ~Writes(d, f)
    BY <1>2 DEF DecidesNow, Writes
  <2> QED
    BY <1>2, <2>1 DEF DecidesNow, Orphans
<1>3. ASSUME NEW f \in files', f # column', \A d \in Client : ~Keeps(d, f)', f \notin Orphans
      PROVE  \/ f = column /\ column' # column /\ (KnowsColumn => Keeps(c, f))
             \/ f # column /\ f = req[c].old /\ ~(Keeps(c, f) => Keeps(c, f)' \/ f = column')
  <2>1. f = column \/ \E d \in Client : Keeps(d, f)
    BY <1>3 DEF DecidesNow, Orphans
  <2>2. ASSUME f # column
        PROVE  f = req[c].old /\ ~(Keeps(c, f) => Keeps(c, f)' \/ f = column')
    BY <1>1, <1>3, <2>1, <2>2
  <2>3. ASSUME f = column, KnowsColumn PROVE Keeps(c, f)
    <3>1. PICK d \in Undecided : req[d].old = column
      BY <2>3 DEF KnowsColumn
    <3>2. d \in Client /\ Keeps(d, f)
      BY <2>3, <3>1 DEF Undecided, Keeps
    <3> QED
      BY <1>1, <1>3, <3>2
  <2> QED
    BY <1>3, <2>2, <2>3
<1>4. \A f \in Orphans' : \/ f \in temporaries' /\ \A d \in Client : ~Writes(d, f)'
                          \/ f \in files' /\ f # column' /\ \A d \in Client : ~Keeps(d, f)'
  BY DEF Orphans
<1>5. ASSUME NEW f \in Orphans', f \notin Orphans
      PROVE  \/ f = column /\ column' # column /\ (KnowsColumn => f = req[c].old)
             \/ f # column /\ f = req[c].old
  <2>1. f \in files' /\ f # column' /\ \A d \in Client : ~Keeps(d, f)'
    BY <1>2, <1>4, <1>5
  <2>2. Keeps(c, f) => f = req[c].old
    BY <2>1
  <2> QED
    BY <1>3, <1>5, <2>1, <2>2
<1>6. ASSUME \A f : Keeps(c, f) => Keeps(c, f)' \/ f = column', NEW f \in Orphans', f \notin Orphans
      PROVE  f = column /\ ~KnowsColumn
  <2>1. f \in files' /\ f # column' /\ \A d \in Client : ~Keeps(d, f)'
    BY <1>2, <1>4, <1>6
  <2>2. ~Keeps(c, f)
    BY <1>6, <2>1
  <2> QED
    BY <1>3, <1>6, <2>1, <2>2
<1> QED
  BY <1>5, <1>6

\* Nothing was written: the request's own old file may be an orphan.
LEMMA DecisionFailed ==
  ASSUME IInv, DebtInv, NEW c \in Client, DecidesNow(c), column' = column, UNCHANGED disturbances,
         \A f : Keeps(c, f) => Keeps(c, f)' \/ f = column' \/ f = req[c].old
  PROVE  DebtInv'
<1>1. IsFiniteSet(files') /\ IsFiniteSet(temporaries') /\ disturbances \in Nat /\ disturbances' \in Nat
  BY DEF DecidesNow, DebtInv, IInv, TypeOK
<1>2. /\ Debt \in Nat /\ Debt' \in Nat /\ Debt' <= Debt
      /\ req[c].old # column => Debt' <= Debt - 1
  BY Decided DEF DecidesNow
<1>3. CASE req[c].old = column
  <2>1. Orphans' \subseteq Orphans
    BY <1>3, DecisionLoses
  <2>2. Debt' + disturbances <= Debt + disturbances'
    BY <1>1, <1>2, Balance
  <2> QED
    BY <1>1, <1>2, <2>1, <2>2, PaidNothing
<1>4. CASE req[c].old # column
  <2>1. Orphans' \subseteq Orphans \cup {req[c].old}
    BY DecisionLoses
  <2>2. 1 + Debt' + disturbances <= Debt + disturbances'
    BY <1>1, <1>2, <1>4, Balance
  <2> QED
    BY <1>1, <1>2, <2>1, <2>2, PaidOne
<1> QED
  BY <1>3, <1>4

\* The column was written and the request knows: what the column named before is
\* paid for by the debt, if it is an orphan.
LEMMA DecisionTook ==
  ASSUME IInv, DebtInv, NEW c \in Client, DecidesNow(c), UNCHANGED disturbances,
         \A f : Keeps(c, f) => Keeps(c, f)' \/ f = column'
  PROVE  DebtInv'
<1>1. IsFiniteSet(files') /\ IsFiniteSet(temporaries') /\ disturbances \in Nat /\ disturbances' \in Nat
  BY DEF DecidesNow, DebtInv, IInv, TypeOK
<1>2. /\ Debt \in Nat /\ Debt' \in Nat /\ Debt' <= Debt
      /\ ~KnowsColumn => Debt' <= Debt - 1
  BY Decided DEF DecidesNow
<1>3. CASE KnowsColumn
  <2>1. Orphans' \subseteq Orphans
    BY <1>3, DecisionLoses
  <2>2. Debt' + disturbances <= Debt + disturbances'
    BY <1>1, <1>2, Balance
  <2> QED
    BY <1>1, <1>2, <2>1, <2>2, PaidNothing
<1>4. CASE ~KnowsColumn
  <2>1. Orphans' \subseteq Orphans \cup {column}
    BY DecisionLoses
  <2>2. 1 + Debt' + disturbances <= Debt + disturbances'
    BY <1>1, <1>2, <1>4, Balance
  <2> QED
    BY <1>1, <1>2, <2>1, <2>2, PaidOne
<1> QED
  BY <1>3, <1>4

\* The column was written and the request believes that it was not: a fault pays
\* for the old file, which the request now leaves alone.
LEMMA DecisionDoubted ==
  ASSUME IInv, DebtInv, NEW c \in Client, DecidesNow(c), disturbances' = disturbances + 1,
         \A f : Keeps(c, f) => Keeps(c, f)' \/ f = column' \/ f = req[c].old
  PROVE  DebtInv'
<1>1. IsFiniteSet(files') /\ IsFiniteSet(temporaries') /\ disturbances \in Nat /\ disturbances' \in Nat
  BY DEF DecidesNow, DebtInv, IInv, TypeOK
<1>2. /\ Debt \in Nat /\ Debt' \in Nat /\ Debt' <= Debt
      /\ ~KnowsColumn => Debt' <= Debt - 1
  BY Decided DEF DecidesNow
<1>3. CASE KnowsColumn
  <2>1. Orphans' \subseteq Orphans \cup {req[c].old}
    BY <1>3, DecisionLoses
  <2>2. 1 + Debt' + disturbances <= Debt + disturbances'
    BY <1>1, <1>2, Balance
  <2> QED
    BY <1>1, <1>2, <2>1, <2>2, PaidOne
<1>4. CASE ~KnowsColumn
  <2>1. Orphans' \subseteq Orphans \cup {column, req[c].old}
    BY DecisionLoses
  <2>2. 2 + Debt' + disturbances <= Debt + disturbances'
    BY <1>1, <1>2, <1>4, Balance
  <2> QED
    BY <1>1, <1>2, <2>1, <2>2, PaidTwo
<1> QED
  BY <1>3, <1>4

LEMMA Deciding ==
  ASSUME IInv, NEW c \in Client, c \in Undecided, req[c].phase # "rename",
         End(c) \/ \E ph \in {"removeOld", "removeNew"} : Goto(c, ph),
         UNCHANGED <<files, temporaries>>
  PROVE  DecidesNow(c)
<1>1. \A d \in Client : d # c => req'[d] = req[d]
  BY OneMoves DEF Phase
<1>2. req'[c].phase \in {"idle", "removeOld", "removeNew"}
  BY OneMoves DEF Phase
<1>3. Undecided' = Undecided \ {c}
  BY <1>1, <1>2 DEF Undecided
<1> QED
  BY <1>1, <1>3 DEF DecidesNow

LEMMA UpdateColumnPaid ==
  ASSUME IInv, DebtInv, NEW c \in Client, UpdateColumn(c)
  PROVE  DebtInv'
<1>1. req[c].phase = "update" /\ c \in Undecided /\ UNCHANGED <<files, temporaries>>
  BY DEF UpdateColumn, Write, Undecided
<1>2. CASE column' = req[c].new /\ Goto(c, "removeOld") /\ Calm
  <2>1. DecidesNow(c)
    BY <1>1, <1>2, Deciding
  <2>2. \A f : Keeps(c, f) => Keeps(c, f)' \/ f = column'
    BY <1>1, <1>2, OneMoves DEF Keeps, Phase
  <2> QED
    BY <1>2, <2>1, <2>2, DecisionTook DEF Calm
<1>3. CASE UNCHANGED column /\ Goto(c, "removeNew") /\ Calm
  <2>1. DecidesNow(c)
    BY <1>1, <1>3, Deciding
  <2>2. \A f : Keeps(c, f) => Keeps(c, f)' \/ f = column' \/ f = req[c].old
    BY <1>1, <1>3, OneMoves DEF Keeps, Phase
  <2> QED
    BY <1>3, <2>1, <2>2, DecisionFailed DEF Calm
<1>4. CASE column' = req[c].new /\ Goto(c, "removeNew") /\ Disturb(1)
  <2>1. DecidesNow(c)
    BY <1>1, <1>4, Deciding
  <2>2. \A f : Keeps(c, f) => Keeps(c, f)' \/ f = column' \/ f = req[c].old
    BY <1>1, <1>4, OneMoves DEF Keeps, Phase
  <2> QED
    BY <1>4, <2>1, <2>2, DecisionDoubted DEF Disturb
<1> QED
  BY <1>2, <1>3, <1>4 DEF UpdateColumn, Write

LEMMA ClearColumnPaid ==
  ASSUME IInv, DebtInv, NEW c \in Client, ClearColumn(c)
  PROVE  DebtInv'
<1>1. req[c].phase = "clear" /\ c \in Undecided /\ UNCHANGED <<files, temporaries>>
  BY DEF ClearColumn, Write, Undecided
<1>2. CASE Goto(c, "removeOld") /\ Calm
  <2>1. DecidesNow(c)
    BY <1>1, <1>2, Deciding
  <2>2. \A f : Keeps(c, f) => Keeps(c, f)' \/ f = column'
    BY <1>1, <1>2, OneMoves DEF Keeps, Phase
  <2> QED
    BY <1>2, <2>1, <2>2, DecisionTook DEF Calm
<1>3. \A f : Keeps(c, f) => Keeps(c, f)' \/ f = column' \/ f = req[c].old
  BY <1>1 DEF Keeps
<1>4. CASE UNCHANGED column /\ End(c) /\ Calm
  BY <1>1, <1>3, <1>4, Deciding, DecisionFailed DEF Calm
<1>5. CASE End(c) /\ Disturb(1)
  BY <1>1, <1>3, <1>5, Deciding, DecisionDoubted DEF Disturb
<1> QED
  BY <1>2, <1>4, <1>5 DEF ClearColumn, Write

LEMMA CreateTempPaid ==
  ASSUME IInv, DebtInv, NEW c \in Client, CreateTemp(c)
  PROVE  DebtInv'
<1>1. req[c].phase = "create" /\ c \in Undecided /\ UNCHANGED <<column, disturbances, files>>
  BY DEF CreateTemp, Calm, Undecided
<1>2. CASE End(c) /\ UNCHANGED temporaries
  <2>1. DecidesNow(c)
    BY <1>1, <1>2, Deciding
  <2>2. \A f : Keeps(c, f) => Keeps(c, f)' \/ f = column' \/ f = req[c].old
    BY <1>1 DEF Keeps
  <2> QED
    BY <1>1, <2>1, <2>2, DecisionFailed
<1>3. ASSUME NEW n \in Name \ given,
             req' = [req EXCEPT ![c].phase = "rename", ![c].new = n],
             temporaries' = temporaries \cup {n}
      PROVE  DebtInv'
  <2>1. /\ req'[c].phase = "rename" /\ req'[c].old = req[c].old /\ req'[c].new = n
        /\ \A d \in Client : d # c => req'[d] = req[d]
    BY <1>3 DEF IInv, TypeOK, Request
  <2>2. Undecided' = Undecided /\ \A d \in Undecided : req'[d].old = req[d].old
    BY <1>1, <2>1 DEF Undecided
  <2>3. Debt' = Debt /\ Debt \in Nat
    BY <1>1, <2>2, DebtStays
  <2>4. IsFiniteSet(files') /\ IsFiniteSet(temporaries')
    BY <1>1, <1>3, FS_AddElement DEF DebtInv
  <2>5. \A f : \A d \in Client : (Keeps(d, f) => Keeps(d, f)') /\ (Writes(d, f) => Writes(d, f)')
    BY <1>1, <2>1 DEF Keeps, Writes
  <2>6. Orphans' \subseteq Orphans
    <3>1. Writes(c, n)'
      BY <2>1 DEF Writes
    <3>2. ASSUME NEW f \in files', f # column', \A d \in Client : ~Keeps(d, f)' PROVE f \in Orphans
      BY <1>1, <2>5, <3>2 DEF Orphans
    <3>3. ASSUME NEW f \in temporaries', \A d \in Client : ~Writes(d, f)' PROVE f \in Orphans
      BY <1>3, <2>5, <3>1, <3>3 DEF Orphans
    <3> QED
      BY <3>2, <3>3 DEF Orphans
  <2>7. disturbances \in Nat
    BY DEF IInv, TypeOK
  <2>8. disturbances' \in Nat /\ Debt' + disturbances <= Debt + disturbances'
    BY <1>1, <2>3, <2>7, Balance
  <2> QED
    BY <2>3, <2>4, <2>6, <2>8, PaidNothing
<1> QED
  BY <1>1, <1>2, <1>3 DEF CreateTemp

LEMMA RenamePaid ==
  ASSUME IInv, DebtInv, NEW c \in Client, Rename(c)
  PROVE  DebtInv'
<1>1. /\ req[c].phase = "rename" /\ c \in Undecided /\ column' = column
      /\ temporaries' \subseteq temporaries /\ disturbances \in Nat
  BY DEF Rename, Undecided, IInv, TypeOK, store
<1>2. IsFiniteSet(files') /\ IsFiniteSet(temporaries')
  BY <1>1, FS_AddElement, FS_Subset DEF DebtInv, Rename, store
<1>3. \A d \in Client : d # c => req'[d] = req[d]
  BY OneMoves DEF Rename, Phase
<1>4. CASE /\ files' = files \cup {req[c].new} /\ Goto(c, "update") /\ Calm
           /\ temporaries' = temporaries \ {req[c].new}
  <2>1. req'[c].phase = "update" /\ req'[c].old = req[c].old /\ req'[c].new = req[c].new
    BY <1>4, OneMoves DEF Phase
  <2>2. Undecided' = Undecided /\ \A d \in Undecided : req'[d].old = req[d].old
    BY <1>1, <1>3, <2>1 DEF Undecided
  <2>3. Debt' = Debt /\ Debt \in Nat
    BY <1>1, <2>2, DebtStays
  <2>4. \A f : \A d \in Client : /\ Keeps(d, f) => Keeps(d, f)'
                                 /\ Writes(d, f) => Writes(d, f)' \/ f = req[c].new
    BY <1>1, <1>3, <2>1 DEF Keeps, Writes
  <2>5. Keeps(c, req[c].new)'
    BY <2>1 DEF Keeps
  <2>6. Orphans' \subseteq Orphans
    <3>1. ASSUME NEW f \in files', f # column', \A d \in Client : ~Keeps(d, f)' PROVE f \in Orphans
      BY <1>1, <1>4, <2>1, <2>4, <2>5, <3>1 DEF Orphans
    <3>2. ASSUME NEW f \in temporaries', \A d \in Client : ~Writes(d, f)' PROVE f \in Orphans
      BY <1>1, <1>4, <2>4, <3>2 DEF Orphans
    <3> QED
      BY <3>1, <3>2 DEF Orphans
  <2>7. disturbances' \in Nat /\ Debt' + disturbances <= Debt + disturbances'
    BY <1>1, <1>4, <2>3, Balance DEF Calm
  <2> QED
    BY <1>2, <2>3, <2>6, <2>7, PaidNothing
<1>5. ASSUME UNCHANGED files, End(c)
      PROVE  /\ Debt \in Nat /\ Debt' \in Nat /\ Debt' <= Debt
             /\ req[c].old # column => Debt' <= Debt - 1
             /\ Orphans' \subseteq Orphans \cup {req[c].old, req[c].new}
             /\ req[c].new \notin temporaries' => Orphans' \subseteq Orphans \cup {req[c].old}
             /\ column \in Orphans' => column \in Orphans \cup {req[c].new}
             /\ req[c].new \notin temporaries' => (column \in Orphans' => column \in Orphans)
  <2>1. req'[c].phase = "idle" /\ Undecided' = Undecided \ {c}
    BY <1>3, <1>5, OneMoves DEF Undecided
  <2>2. /\ Debt \in Nat /\ Debt' \in Nat /\ Debt' <= Debt
        /\ req[c].old # column => Debt' <= Debt - 1
    BY <1>1, <1>3, <2>1, Decided
  <2>3. \A f : \A d \in Client : /\ d # c /\ Keeps(d, f) => Keeps(d, f)'
                                 /\ Keeps(c, f) => f = req[c].old
                                 /\ Writes(d, f) => Writes(d, f)' \/ f = req[c].new
    BY <1>1, <1>3 DEF Keeps, Writes
  <2>4. \A f \in Orphans' :
          \/ f \in Orphans
          \/ f = req[c].old /\ f # column
          \/ f = req[c].new /\ f \in temporaries'
    BY <1>1, <1>5, <2>3 DEF Orphans
  <2> QED
    BY <2>2, <2>4
<1>6. CASE UNCHANGED files /\ End(c) /\ Calm /\ temporaries' = temporaries \ {req[c].new}
  <2>1. req[c].new \notin temporaries' /\ disturbances' = disturbances
    BY <1>6 DEF Calm
  <2>2. CASE req[c].old = column
    <3>1. disturbances' \in Nat /\ Debt' + disturbances <= Debt + disturbances'
      BY <1>1, <1>5, <1>6, <2>1, Balance
    <3>2. Orphans' \subseteq Orphans
      BY <1>5, <1>6, <2>1, <2>2
    <3> QED
      BY <1>2, <1>5, <1>6, <3>1, <3>2, PaidNothing
  <2>3. CASE req[c].old # column
    <3>1. disturbances' \in Nat /\ 1 + Debt' + disturbances <= Debt + disturbances'
      BY <1>1, <1>5, <1>6, <2>1, <2>3, Balance
    <3> QED
      BY <1>2, <1>5, <1>6, <2>1, <3>1, PaidOne
  <2> QED
    BY <2>2, <2>3
<1>7. CASE UNCHANGED store /\ End(c) /\ Disturb(1)
  <2>1. files' = files /\ disturbances' = disturbances + 1 /\ disturbances' \in Nat
    BY <1>1, <1>7 DEF store, Disturb
  <2>2. CASE req[c].old = column
    <3>1. 1 + Debt' + disturbances <= Debt + disturbances'
      BY <1>1, <1>5, <1>7, <2>1, Balance
    <3>2. Orphans' \subseteq Orphans \cup {req[c].new}
      BY <1>5, <1>7, <2>1, <2>2
    <3> QED
      BY <1>2, <1>5, <1>7, <2>1, <3>1, <3>2, PaidOne
  <2>3. CASE req[c].old # column
    <3>1. 2 + Debt' + disturbances <= Debt + disturbances'
      BY <1>1, <1>5, <1>7, <2>1, <2>3, Balance
    <3> QED
      BY <1>2, <1>5, <1>7, <2>1, <3>1, PaidTwo
  <2> QED
    BY <2>2, <2>3
<1> QED
  BY <1>4, <1>6, <1>7 DEF Rename

LEMMA DeletePaid ==
  ASSUME IInv, DebtInv, NEW c \in Client, NEW name, Delete(c, name),
         req[c].phase \in {"removeOld", "removeNew"},
         \A f : Keeps(c, f) => f = name
  PROVE  DebtInv'
<1>1. /\ UNCHANGED <<column, temporaries>> /\ disturbances \in Nat
      /\ End(c) /\ files' \subseteq files
      /\ \A d \in Client : d # c => req'[d] = req[d]
      /\ req'[c].phase = "idle"
  BY OneMoves DEF Delete, IInv, TypeOK
<1>2. Undecided' = Undecided /\ \A d \in Undecided : req'[d].old = req[d].old
  BY <1>1 DEF Undecided
<1>3. Debt' = Debt /\ Debt \in Nat
  BY <1>1, <1>2, DebtStays
<1>4. IsFiniteSet(files') /\ IsFiniteSet(temporaries')
  BY <1>1, FS_Subset DEF DebtInv
<1>5. \A f : \A d \in Client : /\ Keeps(d, f) => Keeps(d, f)' \/ f = name
                               /\ Writes(d, f) => Writes(d, f)'
  BY <1>1 DEF Keeps, Writes
<1>6. Orphans' \subseteq Orphans \cup (files' \cap {name})
  <2>1. ASSUME NEW f \in files', f # column', \A d \in Client : ~Keeps(d, f)', f # name PROVE f \in Orphans
    BY <1>1, <1>5, <2>1 DEF Orphans
  <2>2. ASSUME NEW f \in temporaries', \A d \in Client : ~Writes(d, f)' PROVE f \in Orphans
    BY <1>1, <1>5, <2>2 DEF Orphans
  <2> QED
    BY <2>1, <2>2 DEF Orphans
<1>7. CASE files' = files \ {name} /\ Calm
  <2>1. Orphans' \subseteq Orphans
    BY <1>6, <1>7
  <2>2. disturbances' \in Nat /\ Debt' + disturbances <= Debt + disturbances'
    BY <1>1, <1>3, <1>7, Balance DEF Calm
  <2> QED
    BY <1>3, <1>4, <2>1, <2>2, PaidNothing
<1>8. CASE Disturb(1)
  <2>1. disturbances' = disturbances + 1 /\ disturbances' \in Nat
    BY <1>1, <1>8 DEF Disturb
  <2>2. 1 + Debt' + disturbances <= Debt + disturbances'
    BY <1>1, <1>3, <2>1, Balance
  <2> QED
    BY <1>3, <1>4, <1>6, <2>1, <2>2, PaidOne
<1> QED
  BY <1>7, <1>8 DEF Delete

\* A function on a finite set has no more values than the set has elements.
LEMMA Image ==
  ASSUME NEW S, IsFiniteSet(S), NEW F, DOMAIN F = S, F = [x \in S |-> F[x]]
  PROVE  /\ IsFiniteSet({F[x] : x \in S}) /\ Cardinality({F[x] : x \in S}) \in Nat
         /\ Cardinality({F[x] : x \in S}) <= Cardinality(S)
<1> DEFINE T == {F[x] : x \in S}
<1>1. F \in Surjection(S, T)
  BY DEF Surjection
<1>2. IsFiniteSet(T) /\ Cardinality(T) <= Cardinality(S)
  BY <1>1, FS_Surjection
<1> QED
  BY <1>2, FS_CardinalityType

\* The undecided requests that read another name than the column's present one.
Outdated == {c \in Undecided : req[c].old # column}

LEMMA OutdatedOwe == IsFiniteSet(Outdated) /\ Cardinality(Outdated) \in Nat /\ Cardinality(Outdated) <= Debt
<1>1. IsFiniteSet(Undecided) /\ Cardinality(Undecided) \in Nat
  BY DebtTypes
<1>2. IsFiniteSet(Outdated) /\ Cardinality(Outdated) \in Nat /\ Cardinality(Outdated) <= Cardinality(Undecided)
  BY <1>1, FS_Subset, FS_CardinalityType DEF Outdated
<1>3. CASE KnowsColumn
  <2>1. PICK c \in Undecided : req[c].old = column
    BY <1>3 DEF KnowsColumn
  <2>2. IsFiniteSet(Undecided \ {c}) /\ Cardinality(Undecided \ {c}) = Cardinality(Undecided) - 1
    BY <1>1, FS_RemoveElement
  <2>3. Outdated \in SUBSET (Undecided \ {c})
    BY <2>1 DEF Outdated
  <2>4. Cardinality(Outdated) <= Cardinality(Undecided) - 1
    BY <2>2, <2>3, FS_Subset
  <2> QED
    BY <1>2, <1>3, <2>4 DEF Debt
<1>4. CASE ~KnowsColumn
  BY <1>2, <1>4 DEF Debt
<1> QED
  BY <1>3, <1>4

\* A stop orphans a file of every request, and of the outdated ones a second,
\* that the overlap they began with has paid for.
LEMMA CrashPaid ==
  ASSUME IInv, DebtInv, Crash
  PROVE  DebtInv'
<1> DEFINE F == [c \in Busy |-> IF req[c].phase = "removeOld" THEN req[c].old ELSE req[c].new]
           G == [c \in Outdated |-> req[c].old]
           Fs == {F[c] : c \in Busy}
           Gs == {G[c] : c \in Outdated}
<1>1. /\ UNCHANGED <<column, files, temporaries>>
      /\ disturbances' = disturbances + Cardinality(Busy)
      /\ \A c \in Client : req'[c].phase = "idle"
      /\ disturbances \in Nat
  BY DEF Crash, Disturb, Idle, IInv, TypeOK
<1>2. IsFiniteSet(files') /\ IsFiniteSet(temporaries')
  BY <1>1 DEF DebtInv
<1>3. Debt' = 0
  <2>1. Undecided' = {}
    BY <1>1 DEF Undecided
  <2> QED
    BY <2>1, FS_EmptySet DEF Debt, KnowsColumn
<1>4. /\ IsFiniteSet(Busy) /\ Cardinality(Busy) \in Nat
      /\ IsFiniteSet(Fs) /\ Cardinality(Fs) \in Nat /\ Cardinality(Fs) <= Cardinality(Busy)
  <2>1. IsFiniteSet(Busy) /\ Cardinality(Busy) \in Nat
    BY ImagesAssumption, FS_Subset, FS_CardinalityType DEF Busy
  <2>2. DOMAIN F = Busy /\ F = [c \in Busy |-> F[c]]
    OBVIOUS
  <2> HIDE DEF F
  <2> QED
    BY <2>1, <2>2, Image
<1>5. /\ IsFiniteSet(Gs) /\ Cardinality(Gs) \in Nat /\ Cardinality(Gs) <= Debt /\ Debt \in Nat
  <2>1. DOMAIN G = Outdated /\ G = [c \in Outdated |-> G[c]]
    OBVIOUS
  <2> HIDE DEF G
  <2>2. IsFiniteSet(Gs) /\ Cardinality(Gs) \in Nat /\ Cardinality(Gs) <= Cardinality(Outdated)
    BY <2>1, OutdatedOwe, Image
  <2> QED
    BY <2>2, OutdatedOwe, DebtTypes
<1>6. Orphans' \subseteq Orphans \cup (Fs \cup Gs)
  <2>1. ASSUME NEW f \in files, f # column, NEW c \in Client, Keeps(c, f) PROVE f \in Fs \cup Gs
    <3>1. CASE req[c].new = f /\ req[c].phase \in {"update", "removeNew"}
      <4>1. c \in Busy /\ F[c] = f
        BY <3>1 DEF Busy
      <4> QED
        BY <4>1
    <3>2. CASE req[c].old = f /\ req[c].phase = "removeOld"
      <4>1. c \in Busy /\ F[c] = f
        BY <3>2 DEF Busy
      <4> QED
        BY <4>1
    <3>3. CASE req[c].old = f /\ req[c].phase \in {"create", "rename", "update", "clear"}
      <4>1. c \in Outdated /\ G[c] = f
        BY <2>1, <3>3 DEF Outdated, Undecided
      <4> QED
        BY <4>1
    <3> QED
      BY <2>1, <3>1, <3>2, <3>3 DEF Keeps
  <2>2. ASSUME NEW f \in temporaries, NEW c \in Client, Writes(c, f) PROVE f \in Fs \cup Gs
    <3>1. c \in Busy /\ F[c] = f
      BY <2>2 DEF Busy, Writes
    <3> QED
      BY <3>1
  <2> HIDE DEF Fs, Gs
  <2> QED
    BY <1>1, <2>1, <2>2 DEF Orphans
<1> HIDE DEF Fs, Gs
<1>7. /\ IsFiniteSet(Fs \cup Gs) /\ Cardinality(Fs \cup Gs) \in Nat
      /\ Cardinality(Fs \cup Gs) <= Cardinality(Fs) + Cardinality(Gs)
  BY <1>4, <1>5, Together
<1>8. disturbances' \in Nat /\ Debt' \in Nat
  BY <1>1, <1>3, <1>4
<1>9. Cardinality(Fs \cup Gs) + Debt' + disturbances <= Debt + disturbances'
  <2>1. \A a, b, f, g, d, x \in Nat : a <= f + g /\ f <= b /\ g <= d => a + 0 + x <= d + (x + b)
    OBVIOUS
  <2> QED
    BY <1>1, <1>3, <1>4, <1>5, <1>7, <2>1
<1> QED
  BY <1>2, <1>6, <1>7, <1>8, <1>9, Paid

LEMMA DebtStep ==
  ASSUME IInv, DebtInv, [Next]_vars
  PROVE  DebtInv'
<1>1. ASSUME NEW c \in Client, RemoveOld(c) PROVE DebtInv'
  BY <1>1, DeletePaid DEF RemoveOld, Keeps
<1>2. ASSUME NEW c \in Client, RemoveNew(c) PROVE DebtInv'
  BY <1>2, DeletePaid DEF RemoveNew, Keeps
<1>3. CASE UNCHANGED vars
  BY <1>3 DEF vars, DebtInv, Orphans, Debt, KnowsColumn, Undecided, Keeps, Writes
<1> QED
  BY <1>1, <1>2, <1>3, BeginPaid, CreateTempPaid, RenamePaid, UpdateColumnPaid, ClearColumnPaid, CrashPaid
  DEF Next

LEMMA LeftoversAreOrphans ==
  ASSUME DebtInv, IInv
  PROVE  LeftoversBounded
<1>1. Leftovers \in SUBSET Orphans
  <2>1. \A f : \A c \in Client : (Keeps(c, f) \/ Writes(c, f)) => f \in Held
    BY DEF Keeps, Writes, Held, Busy
  <2> QED
    BY <2>1 DEF Leftovers, Orphans
<1>2. IsFiniteSet(Orphans) /\ Cardinality(Orphans) \in Nat
  BY OrphansFinite DEF DebtInv
<1>3. Cardinality(Leftovers) <= Cardinality(Orphans) /\ Cardinality(Leftovers) \in Nat
  BY <1>1, <1>2, FS_Subset, FS_CardinalityType
<1>4. Debt \in Nat /\ disturbances \in Nat
  BY DebtTypes DEF IInv, TypeOK
<1> QED
  BY <1>2, <1>3, <1>4 DEF DebtInv, LeftoversBounded

\* However uploads and deletions of one account overlap, stop and fail, each
\* overlap, stopped request or failed call leaves one file behind at most.
THEOREM LeftoversCorrect == Spec => []LeftoversBounded
<1>1. Init => DebtInv
  BY DebtInit
<1>2. IInv /\ DebtInv /\ [Next]_vars => DebtInv'
  BY DebtStep
<1>3. IInv /\ DebtInv => LeftoversBounded
  BY LeftoversAreOrphans
<1> QED
  BY <1>1, <1>2, <1>3, Inductive, PTL DEF Spec
=============================================================================
