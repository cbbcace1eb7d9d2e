-------------------------- MODULE LoginLimiterProofs --------------------------
(***************************************************************************)
(* Proofs about LoginLimiter: for all keys, clients, limits and windows,   *)
(* and for every length at which the map is pruned, the limiter implements *)
(* LoginPromise, and no key gets more attempts in the time of a window     *)
(* than twice the limit and what its log-ins buy.                          *)
(***************************************************************************)
EXTENDS LoginLimiter, TLAPS

\* A stored entry counts at least the attempt that stored it.
MapOK ==
  /\ DOMAIN attempts \subseteq Key
  /\ \A k \in DOMAIN attempts :
       /\ attempts[k] \in [count : Nat, left : -1 .. Window]
       /\ attempts[k].count \in 1 .. Limit

IInv == TypeOK /\ MapOK

LEMMA EntryTypes ==
  ASSUME IInv, NEW k \in Key
  PROVE  /\ Current(k) \in Attempt /\ Current(k).count \in 0 .. Limit
         /\ Current(k).left \in 0 .. Window
         /\ Counted(k) = [count |-> Current(k).count + 1, left |-> Current(k).left]
<1>1. Entry(Pruned, k) \in Attempt /\ Entry(Pruned, k).count \in 0 .. Limit
  BY LimiterAssumption DEF IInv, MapOK, Pruned, Entry, Zero, Attempt
<1>2. Current(k) \in Attempt /\ Current(k).count \in 0 .. Limit /\ Current(k).left \in 0 .. Window
  BY <1>1, LimiterAssumption DEF Current, Expired, Attempt
<1> QED
  BY <1>2 DEF Counted, Attempt

\* Pruning takes nothing that Promise sees, and Current reads what Promise reads.
LEMMA PruningUnseen ==
  ASSUME IInv
  PROVE  /\ DOMAIN Pruned \subseteq DOMAIN attempts
         /\ \A k \in DOMAIN Pruned : Pruned[k] = attempts[k]
         /\ \A k \in Key : Live(k) => k \in DOMAIN Pruned
         /\ \A k \in Key : IF Live(k) THEN Current(k) = attempts[k]
                           ELSE Current(k) = [count |-> 0, left |-> Window]
<1>1. /\ DOMAIN Pruned \subseteq DOMAIN attempts
      /\ \A k \in DOMAIN Pruned : Pruned[k] = attempts[k]
      /\ \A k \in Key : Live(k) => k \in DOMAIN Pruned
  BY DEF Pruned, Live
<1>2. ASSUME NEW k \in Key, Live(k) PROVE Current(k) = attempts[k]
  BY <1>1, <1>2 DEF Current, Entry, Live
<1>3. ASSUME NEW k \in Key, ~Live(k) PROVE Current(k) = [count |-> 0, left |-> Window]
  BY <1>1, <1>3 DEF Current, Entry, Live, Zero, Expired
<1> QED
  BY <1>1, <1>2, <1>3

LEMMA HistoryTypes ==
  ASSUME NEW h \in [Ages -> Nat]
  PROVE  Noted(h) \in [Ages -> Nat] /\ Older(h) \in [Ages -> Nat]
<1>1. Noted(h) \in [Ages -> Nat]
  BY LimiterAssumption DEF Noted, Ages
<1>2. Older(h) \in [Ages -> Nat]
  BY LimiterAssumption DEF Older, Ages
<1> QED
  BY <1>1, <1>2

LEMMA InitOK == Init => IInv /\ Promise!Init
<1> SUFFICES ASSUME Init PROVE IInv /\ Promise!Init
  OBVIOUS
<1>1. DOMAIN attempts = {}
  BY DEF Init
<1>2. NoLogin \in Login /\ NoHistory \in [Ages -> Nat]
  BY DEF NoLogin, Login, Phase, NoHistory
<1>3. IInv
  BY <1>1, <1>2 DEF Init, IInv, TypeOK, MapOK
<1>4. Promise!Init
  BY <1>1 DEF Init, Promise!Init, Promise!Answers, used, left, Live
<1> QED
  BY <1>3, <1>4

-----------------------------------------------------------------------------
\* Each action keeps the invariant and is a step of the promise, or none.
LEMMA AllowStep ==
  ASSUME IInv, NEW c \in Client, NEW k \in Key, Allow(c, k)
  PROVE  IInv' /\ (Promise!Grant(k) \/ Promise!Refuse(k))
<1>1. /\ Current(k) \in Attempt /\ Current(k).count \in 0 .. Limit
      /\ Current(k).left \in 0 .. Window
      /\ Counted(k) = [count |-> Current(k).count + 1, left |-> Current(k).left]
  BY EntryTypes
<1>2. answer' = [key |-> k, allowed |-> Current(k).count < Limit] /\ answer' \in [key : Key, allowed : BOOLEAN]
  BY DEF Allow
<1>3. CASE Current(k).count >= Limit
  <2>1. attempts' = Pruned /\ UNCHANGED <<req, granted, forgotten>>
    BY <1>1, <1>3, LimiterAssumption DEF Allow, history
  <2>2. DOMAIN attempts' \subseteq DOMAIN attempts /\ \A x \in DOMAIN attempts' : attempts'[x] = attempts[x]
    BY <2>1, PruningUnseen
  <2>3. IInv'
    BY <1>2, <2>1, <2>2 DEF IInv, TypeOK, MapOK
  <2>4. \A x \in Key : Live(x)' <=> Live(x)
    BY <2>1, <2>2, PruningUnseen DEF Live
  <2>5. used' = used /\ left' = left
    BY <2>2, <2>4 DEF used, left, Live
  <2>6. Current(k).count = Limit /\ ~(Current(k).count < Limit)
    BY <1>1, <1>3, LimiterAssumption
  <2>7. used[k] = Limit
    BY <2>6, PruningUnseen, LimiterAssumption DEF used
  <2> QED
    BY <1>2, <2>3, <2>5, <2>6, <2>7 DEF Promise!Refuse
<1>4. CASE Current(k).count < Limit
  <2>1. /\ attempts' = Stored(Pruned, k, Counted(k))
        /\ req' = [req EXCEPT ![c] = [phase |-> "compare", key |-> k]]
        /\ granted' = IF k = Watched THEN Noted(granted) ELSE granted
        /\ UNCHANGED forgotten
    BY <1>1, <1>4, LimiterAssumption DEF Allow
  <2>2. /\ DOMAIN attempts' \subseteq DOMAIN attempts \cup {k} /\ k \in DOMAIN attempts'
        /\ attempts'[k] = Counted(k)
        /\ \A x \in DOMAIN attempts' \ {k} : x \in DOMAIN attempts /\ attempts'[x] = attempts[x]
        /\ \A x \in Key \ {k} : Live(x) => x \in DOMAIN attempts'
    BY <2>1, PruningUnseen DEF Stored
  <2>3. Counted(k) \in Attempt /\ Counted(k).count \in 1 .. Limit /\ Counted(k).left \in 0 .. Window
    BY <1>1, <1>4, LimiterAssumption DEF Attempt
  <2>4. MapOK'
    BY <2>2, <2>3 DEF IInv, MapOK, Attempt
  <2>5. granted' \in [Ages -> Nat] /\ forgotten' \in [Ages -> Nat]
    BY <2>1, HistoryTypes DEF IInv, TypeOK
  <2>6. req' \in [Client -> Login]
    BY <2>1 DEF IInv, TypeOK, Login, Phase
  <2>7. IInv'
    BY <1>2, <2>4, <2>5, <2>6 DEF IInv, TypeOK, MapOK, Attempt
  <2>8. Live(k)' /\ \A x \in Key \ {k} : Live(x)' <=> Live(x)
    BY <2>2, <2>3, LimiterAssumption DEF Live, Expired
  <2>9. used[k] = Current(k).count
    BY PruningUnseen DEF used
  <2>10. \A x \in Key \ {k} : Live(x) => attempts'[x] = attempts[x]
    BY <2>2
  <2>11. /\ used' = [used EXCEPT ![k] = Current(k).count + 1]
         /\ left' = [left EXCEPT ![k] = Current(k).left]
    <3>1. used' = [x \in Key |-> IF x = k THEN Current(k).count + 1 ELSE used[x]]
      BY <1>1, <2>2, <2>8, <2>10 DEF used
    <3>2. left' = [x \in Key |-> IF x = k THEN Current(k).left ELSE left[x]]
      BY <1>1, <2>2, <2>8, <2>10 DEF left
    <3> QED
      BY <3>1, <3>2 DEF used, left
  <2>12. used[k] < Limit /\ answer' = [key |-> k, allowed |-> TRUE]
    BY <1>2, <1>4, <2>9
  <2>13. Current(k).left = IF used[k] = 0 THEN Window ELSE left[k]
    <3>1. CASE Live(k)
      BY <2>9, <3>1, PruningUnseen DEF left, Live, IInv, MapOK
    <3>2. CASE ~Live(k)
      BY <3>2, PruningUnseen DEF used
    <3> QED
      BY <3>1, <3>2
  <2>14. Promise!Grant(k)
    BY <2>9, <2>11, <2>12, <2>13 DEF Promise!Grant, used, left
  <2> QED
    BY <2>7, <2>14
<1> QED
  BY <1>1, <1>3, <1>4, LimiterAssumption

LEMMA ResetStep ==
  ASSUME IInv, NEW c \in Client, Reset(c)
  PROVE  /\ IInv'
         /\ IF req[c].key \in Key THEN Promise!Forget({req[c].key})
            ELSE UNCHANGED <<used, left, answer>>
<1> DEFINE k == req[c].key
<1>1. /\ attempts' = [x \in DOMAIN attempts \ {k} |-> attempts[x]]
      /\ req' = [req EXCEPT ![c] = NoLogin]
      /\ forgotten' = IF k = Watched THEN Noted(forgotten) ELSE forgotten
      /\ UNCHANGED <<answer, granted>>
  BY DEF Reset, End
<1>2. req' \in [Client -> Login] /\ forgotten' \in [Ages -> Nat]
  BY <1>1, HistoryTypes DEF IInv, TypeOK, NoLogin, Login, Phase
<1>3. /\ DOMAIN attempts' = DOMAIN attempts \ {k}
      /\ \A x \in DOMAIN attempts' : attempts'[x] = attempts[x]
  BY <1>1
<1>4. IInv'
  BY <1>1, <1>2, <1>3 DEF IInv, TypeOK, MapOK
<1>5. \A x \in Key : Live(x)' <=> Live(x) /\ x # k
  BY <1>3 DEF Live
<1>6. /\ used' = [x \in Key |-> IF x \in {k} THEN 0 ELSE used[x]]
      /\ left' = [x \in Key |-> IF x \in {k} THEN 0 ELSE left[x]]
  BY <1>3, <1>5 DEF used, left, Live
<1> QED
  BY <1>1, <1>4, <1>6 DEF Promise!Forget, used, left

LEMMA RestartStep ==
  ASSUME IInv, Restart
  PROVE  IInv' /\ Promise!Forget(Key)
<1>1. /\ DOMAIN attempts' = {} /\ req' = [c \in Client |-> NoLogin]
      /\ forgotten' = Noted(forgotten) /\ UNCHANGED <<answer, granted>>
  BY DEF Restart
<1>2. IInv'
  BY <1>1, HistoryTypes DEF IInv, TypeOK, MapOK, NoLogin, Login, Phase
<1>3. used' = [x \in Key |-> 0] /\ left' = [x \in Key |-> 0]
  BY <1>1 DEF used, left, Live
<1> QED
  BY <1>1, <1>2, <1>3 DEF Promise!Forget

LEMMA TickStep ==
  ASSUME IInv, Tick
  PROVE  IInv' /\ Promise!Tick
<1>1. /\ DOMAIN attempts' = DOMAIN attempts
      /\ \A k \in DOMAIN attempts :
           attempts'[k] = [attempts[k] EXCEPT !.left = IF Expired(attempts[k]) THEN @ ELSE @ - 1]
      /\ granted' = Older(granted) /\ forgotten' = Older(forgotten)
      /\ UNCHANGED <<answer, req>>
  BY DEF Tick
<1>2. \A k \in DOMAIN attempts :
        /\ attempts'[k] \in Attempt /\ attempts'[k].count = attempts[k].count
        /\ attempts'[k].left = IF Expired(attempts[k]) THEN attempts[k].left ELSE attempts[k].left - 1
  BY <1>1, LimiterAssumption DEF IInv, MapOK, Attempt, Expired
<1>3. IInv'
  BY <1>1, <1>2, HistoryTypes DEF IInv, TypeOK, MapOK, Attempt
<1>4. \A k \in Key : Live(k)' <=> Live(k) /\ attempts[k].left # 0
  BY <1>1, <1>2, LimiterAssumption DEF Live, Expired, IInv, MapOK
<1>5. /\ used' = [k \in Key |-> IF left[k] = 0 THEN 0 ELSE used[k]]
      /\ left' = [k \in Key |-> IF left[k] = 0 THEN 0 ELSE left[k] - 1]
  BY <1>2, <1>4 DEF used, left, Live, Expired
<1> QED
  BY <1>1, <1>3, <1>5 DEF Promise!Tick

\* A log-in between Allow and Reset does not touch the map.
LEMMA QuietStep ==
  ASSUME IInv, \/ \E c \in Client : Compare(c) \/ StartSession(c)
               \/ UNCHANGED vars
  PROVE  IInv' /\ UNCHANGED <<used, left, answer>>
<1>1. UNCHANGED <<attempts, answer, granted, forgotten>>
  BY DEF Compare, StartSession, limiterVars, history, vars
<1>2. req' \in [Client -> Login]
  BY DEF Compare, StartSession, Goto, End, vars, IInv, TypeOK, NoLogin, Login, Phase
<1> QED
  BY <1>1, <1>2 DEF IInv, TypeOK, MapOK, used, left, Live

LEMMA NextStep ==
  ASSUME IInv, [Next]_vars
  PROVE  IInv' /\ [Promise!Next]_<<used, left, answer>>
<1>1. ASSUME NEW c \in Client, NEW k \in Key, Allow(c, k)
      PROVE  IInv' /\ Promise!Next
  BY <1>1, AllowStep DEF Promise!Next
<1>2. ASSUME NEW c \in Client, Reset(c)
      PROVE  IInv' /\ [Promise!Next]_<<used, left, answer>>
  BY <1>2, ResetStep DEF Promise!Next
<1>3. CASE Restart
  BY <1>3, RestartStep DEF Promise!Next
<1>4. CASE Tick
  BY <1>4, TickStep DEF Promise!Next
<1>5. CASE (\E c \in Client : Compare(c) \/ StartSession(c)) \/ UNCHANGED vars
  BY <1>5, QuietStep
<1> QED
  BY <1>1, <1>2, <1>3, <1>4, <1>5 DEF Next

LEMMA Inductive == Spec => []IInv
<1>1. IInv /\ [Next]_vars => IInv'
  BY NextStep
<1> QED
  BY <1>1, InitOK, PTL DEF Spec

\* The map, the log-ins and the histories have their types.
THEOREM LimiterTyped == Spec => []TypeOK
<1>1. IInv => TypeOK
  BY DEF IInv
<1> QED
  BY <1>1, Inductive, PTL

\* The limiter does what LoginPromise says, however long its map may grow before
\* it is pruned: a key is refused if and only if its own window is used up, and
\* only the window's end, a log-in or a restart gives attempts back.
THEOREM PromiseKept == Spec => KeepsPromise
<1>1. IInv /\ [Next]_vars => [Promise!Next]_<<used, left, answer>>
  BY NextStep
<1> QED
  BY <1>1, InitOK, Inductive, PTL DEF Spec, KeepsPromise, Promise!Spec, Promise!vars

-----------------------------------------------------------------------------
(***************************************************************************)
(* The budget of one key.  Its attempts since any moment belong to the     *)
(* open window, to windows that a log-in or a restart closed later, and to *)
(* one window at most that ran out: as that one lasted Window ticks, its   *)
(* first attempt is older than a window, and Limit - 1 of it are counted.  *)
(* So the bound must be known for every age, and must be the sharper one   *)
(* for the ages since the open window began.                               *)
(***************************************************************************)
Credit(a) == Limit * forgotten[a]

\* The age of the open window.
Opened == Window - left[Watched]

BudgetInv ==
  /\ used[Watched] > 0 =>
       /\ \A a \in Ages : granted[a] <= used[Watched] + (Limit - 1) + Credit(a)
       /\ \A a \in Ages : a <= Opened => granted[a] <= used[Watched] + Credit(a)
       /\ \A a \in Ages : a < Opened => granted[a] <= (used[Watched] - 1) + Credit(a)
  /\ used[Watched] = 0 =>
       /\ \A a \in Ages : granted[a] <= (Limit - 1) + Credit(a)
       /\ granted[0] <= Credit(0)

LEMMA BudgetTypes ==
  ASSUME IInv
  PROVE  /\ used[Watched] \in 0 .. Limit /\ left[Watched] \in 0 .. Window
         /\ Opened \in 0 .. Window
         /\ \A a \in Ages : granted[a] \in Nat /\ forgotten[a] \in Nat /\ Credit(a) \in Nat
         /\ 0 \in Ages /\ Window \in Ages /\ Ages \subseteq Nat
<1>1. used[Watched] \in 0 .. Limit /\ left[Watched] \in 0 .. Window
  BY LimiterAssumption DEF used, left, Live, Expired, IInv, MapOK
<1>2. Opened \in 0 .. Window
  BY <1>1, LimiterAssumption DEF Opened
<1>3. \A a \in Ages : granted[a] \in Nat /\ forgotten[a] \in Nat
  BY DEF IInv, TypeOK
<1>4. \A m, n \in Nat : m * n \in Nat
  OBVIOUS
<1>5. \A a \in Ages : Credit(a) \in Nat
  BY <1>3, <1>4, LimiterAssumption DEF Credit
<1> QED
  BY <1>1, <1>2, <1>3, <1>5, LimiterAssumption DEF Ages

\* One more event forgotten is worth Limit attempts.
LEMMA CreditNoted ==
  ASSUME IInv, forgotten' = Noted(forgotten)
  PROVE  \A a \in Ages : Credit(a)' = Credit(a) + Limit
<1>1. \A m, n \in Nat : m * (n + 1) = m * n + m
  OBVIOUS
<1>2. ASSUME NEW a \in Ages PROVE Credit(a)' = Credit(a) + Limit
  <2>1. forgotten'[a] = forgotten[a] + 1 /\ forgotten[a] \in Nat
    BY BudgetTypes DEF Noted
  <2> QED
    BY <1>1, <2>1, LimiterAssumption DEF Credit
<1> QED
  BY <1>2

LEMMA BudgetInit == Init => BudgetInv
<1> SUFFICES ASSUME Init PROVE BudgetInv
  OBVIOUS
<1>1. IInv
  BY InitOK
<1>2. used[Watched] = 0 /\ \A a \in Ages : granted[a] = 0
  BY LimiterAssumption DEF Init, used, Live, NoHistory
<1> QED
  BY <1>1, <1>2, BudgetTypes, LimiterAssumption DEF BudgetInv

\* Nothing happened to the key.
LEMMA BudgetUnmoved ==
  ASSUME BudgetInv, used'[Watched] = used[Watched], left'[Watched] = left[Watched],
         UNCHANGED history
  PROVE  BudgetInv'
  BY DEF BudgetInv, Credit, Opened, history

LEMMA BudgetGranted ==
  ASSUME IInv, BudgetInv, Promise!Grant(Watched), granted' = Noted(granted), UNCHANGED forgotten
  PROVE  BudgetInv'
<1>1. /\ used'[Watched] = used[Watched] + 1
      /\ left'[Watched] = IF used[Watched] = 0 THEN Window ELSE left[Watched]
  BY LimiterAssumption DEF Promise!Grant, used, left
<1>2. \A a \in Ages : granted'[a] = granted[a] + 1 /\ Credit(a)' = Credit(a)
  BY DEF Noted, Credit
<1>3. used[Watched] \in Nat /\ Limit \in Nat /\ Limit >= 1
  BY BudgetTypes, LimiterAssumption
<1>4. CASE used[Watched] = 0
  <2>1. Opened' = 0
    BY <1>1, <1>4, LimiterAssumption DEF Opened
  <2>2. \A a \in Ages : granted'[a] <= 1 + (Limit - 1) + Credit(a)'
    BY <1>2, <1>3, <1>4, BudgetTypes DEF BudgetInv
  <2>3. granted'[0] <= 1 + Credit(0)'
    BY <1>2, <1>4, BudgetTypes DEF BudgetInv
  <2>4. used'[Watched] = 1
    BY <1>1, <1>4
  <2> QED
    BY <2>1, <2>2, <2>3, <2>4, BudgetTypes DEF BudgetInv
<1>5. CASE used[Watched] > 0
  <2>1. Opened' = Opened
    BY <1>1, <1>5 DEF Opened
  <2>2. ASSUME NEW a \in Ages
        PROVE  /\ granted'[a] <= (used[Watched] + 1) + (Limit - 1) + Credit(a)'
               /\ a <= Opened => granted'[a] <= (used[Watched] + 1) + Credit(a)'
               /\ a < Opened => granted'[a] <= ((used[Watched] + 1) - 1) + Credit(a)'
    BY <1>2, <1>3, <1>5, BudgetTypes DEF BudgetInv
  <2>3. used'[Watched] > 0
    BY <1>1, <1>3
  <2> QED
    BY <1>1, <1>3, <2>1, <2>2, <2>3 DEF BudgetInv
<1> QED
  BY <1>3, <1>4, <1>5

LEMMA BudgetForgotten ==
  ASSUME IInv, BudgetInv, used'[Watched] = 0, forgotten' = Noted(forgotten), UNCHANGED granted
  PROVE  BudgetInv'
<1>1. used[Watched] \in 0 .. Limit /\ Limit \in Nat /\ Limit >= 1
  BY BudgetTypes, LimiterAssumption
<1>2. \A a \in Ages : Credit(a)' = Credit(a) + Limit
  BY CreditNoted
<1>3. ASSUME NEW a \in Ages
      PROVE  granted'[a] <= (Limit - 1) + Credit(a)'
  BY <1>1, <1>2, BudgetTypes DEF BudgetInv
<1>4. granted'[0] <= Credit(0)'
  BY <1>1, <1>2, BudgetTypes DEF BudgetInv
<1> QED
  BY <1>3, <1>4 DEF BudgetInv

LEMMA BudgetTick ==
  ASSUME IInv, BudgetInv, Promise!Tick, granted' = Older(granted), forgotten' = Older(forgotten)
  PROVE  BudgetInv'
<1>1. /\ used'[Watched] = IF left[Watched] = 0 THEN 0 ELSE used[Watched]
      /\ left'[Watched] = IF left[Watched] = 0 THEN 0 ELSE left[Watched] - 1
  BY LimiterAssumption DEF Promise!Tick
<1>2. used[Watched] \in 0 .. Limit /\ Limit \in Nat /\ Limit >= 1 /\ Opened \in 0 .. Window
      /\ left[Watched] \in 0 .. Window /\ Window \in Nat
  BY BudgetTypes, LimiterAssumption
<1>3. ASSUME NEW a \in Ages
      PROVE  \/ a = 0 /\ granted'[a] = 0 /\ Credit(a)' = 0
             \/ /\ a - 1 \in Ages /\ granted'[a] = granted[a - 1] /\ Credit(a)' = Credit(a - 1)
  BY LimiterAssumption DEF Older, Credit, Ages
<1>4. CASE used[Watched] = 0
  <2>1. used'[Watched] = 0
    BY <1>1, <1>4
  <2>2. \A a \in Ages : granted'[a] <= (Limit - 1) + Credit(a)'
    BY <1>2, <1>3, <1>4 DEF BudgetInv
  <2>3. granted'[0] <= Credit(0)'
    BY <1>3, BudgetTypes DEF Ages
  <2> QED
    BY <2>1, <2>2, <2>3 DEF BudgetInv
<1>5. CASE used[Watched] > 0 /\ left[Watched] = 0
  <2>1. used'[Watched] = 0 /\ Opened = Window
    BY <1>1, <1>2, <1>5 DEF Opened
  <2>2. \A a \in Ages : granted'[a] <= (Limit - 1) + Credit(a)'
    <3> SUFFICES ASSUME NEW a \in Ages PROVE granted'[a] <= (Limit - 1) + Credit(a)'
      OBVIOUS
    <3>1. CASE a = 0 /\ granted'[a] = 0 /\ Credit(a)' = 0
      BY <1>2, <3>1
    <3>2. CASE a - 1 \in Ages /\ granted'[a] = granted[a - 1] /\ Credit(a)' = Credit(a - 1)
      <4>1. a - 1 < Opened
        BY <1>2, <2>1 DEF Ages
      <4>2. granted[a - 1] <= (used[Watched] - 1) + Credit(a - 1)
        BY <1>5, <3>2, <4>1 DEF BudgetInv
      <4> QED
        BY <1>2, <3>2, <4>2, BudgetTypes
    <3> QED
      BY <1>3, <3>1, <3>2
  <2>3. granted'[0] <= Credit(0)'
    BY <1>3, BudgetTypes DEF Ages
  <2> QED
    BY <2>1, <2>2, <2>3 DEF BudgetInv
<1>6. CASE used[Watched] > 0 /\ left[Watched] # 0
  <2>1. used'[Watched] = used[Watched] /\ Opened' = Opened + 1
    BY <1>1, <1>2, <1>6 DEF Opened
  <2>2. ASSUME NEW a \in Ages
        PROVE  /\ granted'[a] <= used[Watched] + (Limit - 1) + Credit(a)'
               /\ a <= Opened + 1 => granted'[a] <= used[Watched] + Credit(a)'
               /\ a < Opened + 1 => granted'[a] <= (used[Watched] - 1) + Credit(a)'
    <3>1. CASE a = 0 /\ granted'[a] = 0 /\ Credit(a)' = 0
      BY <1>2, <1>6, <3>1
    <3>2. CASE a - 1 \in Ages /\ granted'[a] = granted[a - 1] /\ Credit(a)' = Credit(a - 1)
      <4>1. /\ granted[a - 1] <= used[Watched] + (Limit - 1) + Credit(a - 1)
            /\ a - 1 <= Opened => granted[a - 1] <= used[Watched] + Credit(a - 1)
            /\ a - 1 < Opened => granted[a - 1] <= (used[Watched] - 1) + Credit(a - 1)
        BY <1>6, <3>2 DEF BudgetInv
      <4>2. (a <= Opened + 1 => a - 1 <= Opened) /\ (a < Opened + 1 => a - 1 < Opened)
        BY <1>2 DEF Ages
      <4> QED
        BY <3>2, <4>1, <4>2
    <3> QED
      BY <1>3, <3>1, <3>2
  <2> QED
    BY <1>6, <2>1, <2>2 DEF BudgetInv
<1> QED
  BY <1>2, <1>4, <1>5, <1>6

LEMMA BudgetStep ==
  ASSUME IInv, BudgetInv, [Next]_vars
  PROVE  BudgetInv'
<1>1. ASSUME NEW c \in Client, NEW k \in Key, Allow(c, k) PROVE BudgetInv'
  <2>1. Promise!Grant(k) \/ Promise!Refuse(k)
    BY <1>1, AllowStep
  <2>2. Current(k).count = used[k] /\ used[k] \in Nat
    BY EntryTypes, PruningUnseen DEF used, Live
  <2>3. CASE Promise!Refuse(k)
    <3>1. UNCHANGED <<used, left>> /\ ~(used[k] < Limit)
      BY <2>3, LimiterAssumption DEF Promise!Refuse
    <3>2. UNCHANGED history
      BY <1>1, <2>2, <3>1 DEF Allow
    <3> QED
      BY <3>1, <3>2, BudgetUnmoved
  <2>4. CASE Promise!Grant(k)
    <3>1. used[k] < Limit
      BY <2>4 DEF Promise!Grant
    <3>2. granted' = (IF k = Watched THEN Noted(granted) ELSE granted) /\ UNCHANGED forgotten
      BY <1>1, <2>2, <3>1, LimiterAssumption DEF Allow
    <3>3. CASE k = Watched
      BY <2>4, <3>2, <3>3, BudgetGranted
    <3>4. CASE k # Watched
      <4>1. used'[Watched] = used[Watched] /\ left'[Watched] = left[Watched]
        BY <2>4, <3>4, LimiterAssumption DEF Promise!Grant, used, left
      <4> QED
        BY <3>2, <3>4, <4>1, BudgetUnmoved DEF history
    <3> QED
      BY <3>3, <3>4
  <2> QED
    BY <2>1, <2>3, <2>4
<1>2. ASSUME NEW c \in Client, Reset(c) PROVE BudgetInv'
  <2> DEFINE k == req[c].key
  <2>1. /\ forgotten' = IF k = Watched THEN Noted(forgotten) ELSE forgotten
        /\ UNCHANGED granted
        /\ IF k \in Key THEN Promise!Forget({k}) ELSE UNCHANGED <<used, left, answer>>
    BY <1>2, ResetStep DEF Reset
  <2> HIDE DEF k
  <2>2. CASE k = Watched
    <3>1. used'[Watched] = 0
      BY <2>1, <2>2, LimiterAssumption DEF Promise!Forget
    <3> QED
      BY <2>1, <2>2, <3>1, BudgetForgotten
  <2>3. CASE k # Watched
    <3>1. used'[Watched] = used[Watched] /\ left'[Watched] = left[Watched]
      BY <2>1, <2>3, LimiterAssumption DEF Promise!Forget
    <3> QED
      BY <2>1, <2>3, <3>1, BudgetUnmoved DEF history
  <2> QED
    BY <2>2, <2>3
<1>3. CASE Restart
  <2>1. Promise!Forget(Key) /\ forgotten' = Noted(forgotten) /\ UNCHANGED granted
    BY <1>3, RestartStep DEF Restart
  <2>2. used'[Watched] = 0
    BY <2>1, LimiterAssumption DEF Promise!Forget
  <2> QED
    BY <2>1, <2>2, BudgetForgotten
<1>4. CASE Tick
  <2>1. Promise!Tick
    BY <1>4, TickStep
  <2> QED
    BY <1>4, <2>1, BudgetTick DEF Tick
<1>5. CASE (\E c \in Client : Compare(c) \/ StartSession(c)) \/ UNCHANGED vars
  <2>1. UNCHANGED history
    BY <1>5 DEF Compare, StartSession, history, vars
  <2> QED
    BY <1>5, <2>1, QuietStep, BudgetUnmoved
<1> QED
  BY <1>1, <1>2, <1>3, <1>4, <1>5 DEF Next

\* In any period as long as a window, a key has less than twice the limit of
\* attempts, and the limit for each log-in that succeeded, and for each restart.
THEOREM BudgetKept == Spec => []GuessBudget
<1>1. IInv /\ BudgetInv /\ [Next]_vars => BudgetInv'
  BY BudgetStep
<1>2. ASSUME IInv, BudgetInv PROVE GuessBudget
  <2>1. granted[Window] <= used[Watched] + (Limit - 1) + Credit(Window)
    BY <1>2, BudgetTypes, LimiterAssumption DEF BudgetInv
  <2> QED
    BY <1>2, <2>1, BudgetTypes, LimiterAssumption DEF GuessBudget, Total, Credit
<1> QED
  BY <1>1, <1>2, BudgetInit, Inductive, PTL DEF Spec
=============================================================================
