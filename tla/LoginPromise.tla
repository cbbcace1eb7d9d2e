----------------------------- MODULE LoginPromise -----------------------------
(***************************************************************************)
(* What the log-in limiter promises (internal/portal/limiter.go): each key *)
(* has Limit attempts in a window that its first attempt opens and that    *)
(* nothing prolongs; only an attempt beyond them is refused.  A log-in     *)
(* that succeeds, and a restart of the process, forget the attempts.       *)
(* Nothing else does: neither other keys nor the pruning of the map.       *)
(***************************************************************************)
EXTENDS Naturals

CONSTANTS
  Key,     \* an address and an e-mail address
  Limit,   \* attempts per window
  Window   \* length of a window, in ticks

VARIABLES
  used,    \* the attempts of each key's window
  left,    \* how long each key's window still lasts
  answer   \* what Allow last answered, and to which key

vars == <<used, left, answer>>

Answers == [key : Key, allowed : BOOLEAN]

Init ==
  /\ used = [k \in Key |-> 0]
  /\ left = [k \in Key |-> 0]
  /\ answer \in Answers

Grant(k) ==
  /\ used[k] < Limit
  /\ used' = [used EXCEPT ![k] = @ + 1]
  /\ left' = [left EXCEPT ![k] = IF used[k] = 0 THEN Window ELSE @]
  /\ answer' = [key |-> k, allowed |-> TRUE]

Refuse(k) ==
  /\ used[k] = Limit
  /\ answer' = [key |-> k, allowed |-> FALSE]
  /\ UNCHANGED <<used, left>>

Forget(keys) ==
  /\ used' = [k \in Key |-> IF k \in keys THEN 0 ELSE used[k]]
  /\ left' = [k \in Key |-> IF k \in keys THEN 0 ELSE left[k]]
  /\ UNCHANGED answer

Tick ==
  /\ used' = [k \in Key |-> IF left[k] = 0 THEN 0 ELSE used[k]]
  /\ left' = [k \in Key |-> IF left[k] = 0 THEN 0 ELSE left[k] - 1]
  /\ UNCHANGED answer

Next ==
  \/ \E k \in Key : Grant(k) \/ Refuse(k) \/ Forget({k})
  \/ Forget(Key)
  \/ Tick

Spec == Init /\ [][Next]_vars
=============================================================================
