----------------------------- MODULE LoginLimiter -----------------------------
(***************************************************************************)
(* The limiter of log-in attempts (internal/portal/limiter.go) and the     *)
(* log-ins that go through it (portal/handler.go, Login).  Allow and Reset *)
(* run under the limiter's mutex and are atomic; between them a log-in     *)
(* compares a password and starts a session, while others use the map.     *)
(*                                                                         *)
(* Time is relative: a tick brings the end of every window one nearer.     *)
(***************************************************************************)
EXTENDS Integers, FiniteSets

CONSTANTS
  Key,         \* an address and an e-mail address
  Client,      \* the log-ins under way at once
  NoKey,
  Limit,       \* 6 in the program
  Window,      \* ten minutes in the program
  MaxEntries,  \* 10_000 in the program: a longer map is pruned
  Watched,     \* the key whose attempts the history variables count
  MaxGranted,  \* bound on its attempts in one period
  MaxForgotten \* bound on how often a period forgets them before a restart

ASSUME LimiterAssumption ==
  /\ NoKey \notin Key /\ Watched \in Key
  /\ Limit \in Nat \ {0} /\ Window \in Nat /\ MaxEntries \in Nat
  /\ MaxGranted \in Nat /\ MaxForgotten \in Nat

VARIABLES
  attempts,   \* the map: for some keys, the attempts counted and the time to the reset
  answer,     \* what Allow last answered, and to which key
  req,        \* each client's log-in
  granted,    \* for each age in ticks, the attempts of Watched allowed since then
  forgotten   \* for each age in ticks, the log-ins of Watched and restarts since then

limiterVars == <<attempts, answer>>
history == <<granted, forgotten>>
vars == <<attempts, answer, req, granted, forgotten>>

\* loginAttempt.  A reset that has passed stays one tick behind.
Attempt == [count : Nat, left : -1 .. Window]

\* The value a Go map yields for a key it lacks: a reset in the year 1.
Zero == [count |-> 0, left |-> -1]

Phase == {"idle", "compare", "start", "reset"}
Login == [phase : Phase, key : Key \cup {NoKey}]
NoLogin == [phase |-> "idle", key |-> NoKey]

\* A history counts, for each age, the events that are no older.  A tick makes all
\* of them one older, and those beyond the window are lost from sight.
Ages == 0 .. Window
NoHistory == [age \in Ages |-> 0]
Noted(h) == [age \in Ages |-> h[age] + 1]
Older(h) == [age \in Ages |-> IF age = 0 THEN 0 ELSE h[age - 1]]
Total(h) == h[Window]

Goto(c, ph) == req' = [req EXCEPT ![c].phase = ph]
End(c) == req' = [req EXCEPT ![c] = NoLogin]

-----------------------------------------------------------------------------
\* Slip: a window ends one tick early.
ExpiredEarly(a) == a.left <= 0

\* now.After(attempt.reset)
Expired(a) == a.left < 0

Entry(map, k) == IF k \in DOMAIN map THEN map[k] ELSE Zero

\* Only a map longer than MaxEntries is walked, and only expired entries go.
Pruned ==
  [k \in {x \in DOMAIN attempts :
            Cardinality(DOMAIN attempts) > MaxEntries => ~Expired(attempts[x])}
     |-> attempts[k]]

\* The entry Allow decides by: an expired one begins anew.
Current(k) ==
  LET a == Entry(Pruned, k) IN
  IF Expired(a) THEN [count |-> 0, left |-> Window] ELSE a

Stored(map, k, a) == [x \in DOMAIN map \cup {k} |-> IF x = k THEN a ELSE map[x]]

\* Slip: the attempt that opens a window is not counted.
CountedFirstFree(k) ==
  [Current(k) EXCEPT !.count = IF Expired(Entry(Pruned, k)) THEN @ ELSE @ + 1]

Counted(k) == [Current(k) EXCEPT !.count = @ + 1]

\* Slip: an attempt that is refused is counted too.
AllowCountingRefused(c, k) ==
  /\ req[c].phase = "idle"
  /\ k = Watched => Total(granted) < MaxGranted
  /\ answer' = [key |-> k, allowed |-> Current(k).count < Limit]
  /\ attempts' = Stored(Pruned, k, Counted(k))
  /\ \/ Current(k).count >= Limit /\ UNCHANGED <<req, history>>
     \/ /\ Current(k).count < Limit
        /\ req' = [req EXCEPT ![c] = [phase |-> "compare", key |-> k]]
        /\ granted' = IF k = Watched THEN Noted(granted) ELSE granted
        /\ UNCHANGED forgotten

\* Allow, as Login calls it.
Allow(c, k) ==
  /\ req[c].phase = "idle"
  /\ k = Watched => Total(granted) < MaxGranted
  /\ answer' = [key |-> k, allowed |-> Current(k).count < Limit]
  /\ \/ /\ Current(k).count >= Limit
        /\ attempts' = Pruned
        /\ UNCHANGED <<req, history>>
     \/ /\ Current(k).count < Limit
        /\ attempts' = Stored(Pruned, k, Counted(k))
        /\ req' = [req EXCEPT ![c] = [phase |-> "compare", key |-> k]]
        /\ granted' = IF k = Watched THEN Noted(granted) ELSE granted
        /\ UNCHANGED forgotten

-----------------------------------------------------------------------------
\* The account is read and the password compared, which takes a while.  A
\* failure leaves the attempt counted.
Compare(c) ==
  /\ req[c].phase = "compare"
  /\ Goto(c, "start") \/ End(c)
  /\ UNCHANGED <<limiterVars, history>>

\* last_login_at and the session are written; an error ends the log-in.
StartSession(c) ==
  /\ req[c].phase = "start"
  /\ Goto(c, "reset") \/ End(c)
  /\ UNCHANGED <<limiterVars, history>>

\* Reset, at the end of a log-in.
Reset(c) ==
  /\ req[c].phase = "reset"
  /\ attempts' = [k \in DOMAIN attempts \ {req[c].key} |-> attempts[k]]
  /\ forgotten' = IF req[c].key = Watched THEN Noted(forgotten) ELSE forgotten
  /\ End(c)
  /\ UNCHANGED <<answer, granted>>

\* The process stops and starts: the map is empty.
Restart ==
  /\ Total(forgotten) < MaxForgotten
  /\ attempts' = << >>
  /\ req' = [c \in Client |-> NoLogin]
  /\ forgotten' = Noted(forgotten)
  /\ UNCHANGED <<answer, granted>>

Tick ==
  /\ attempts' = [k \in DOMAIN attempts |->
       [attempts[k] EXCEPT !.left = IF Expired(attempts[k]) THEN @ ELSE @ - 1]]
  /\ granted' = Older(granted) /\ forgotten' = Older(forgotten)
  /\ UNCHANGED <<answer, req>>

Init ==
  /\ attempts = << >>
  /\ answer \in [key : Key, allowed : BOOLEAN]
  /\ req = [c \in Client |-> NoLogin]
  /\ granted = NoHistory /\ forgotten = NoHistory

Next ==
  \/ \E c \in Client :
       \/ \E k \in Key : Allow(c, k)
       \/ Compare(c) \/ StartSession(c) \/ Reset(c)
  \/ Restart
  \/ Tick

Spec == Init /\ [][Next]_vars

-----------------------------------------------------------------------------
(***************************************************************************)
(* Properties.                                                             *)
(***************************************************************************)

\* The map, the log-ins and the histories have their types; an entry has counted
\* an attempt at least, and Limit of them at most.
TypeOK ==
  /\ DOMAIN attempts \subseteq Key
  /\ \A k \in DOMAIN attempts : attempts[k] \in Attempt /\ attempts[k].count \in 1 .. Limit
  /\ answer \in [key : Key, allowed : BOOLEAN]
  /\ req \in [Client -> Login]
  /\ granted \in [Ages -> Nat] /\ forgotten \in [Ages -> Nat]

\* In any period as long as a window, wherever it begins, a key has less than
\* twice the limit of attempts, and no more than the limit for each log-in that
\* succeeded (or restart) in the period: the failures that a success forgets,
\* those of parallel log-ins included, buy that much and no more.
GuessBudget == Total(granted) <= 2 * Limit - 1 + Limit * Total(forgotten)

\* A key's window, as the promise has it.
Live(k) == k \in DOMAIN attempts /\ ~Expired(attempts[k])
used == [k \in Key |-> IF Live(k) THEN attempts[k].count ELSE 0]
left == [k \in Key |-> IF Live(k) THEN attempts[k].left ELSE 0]

Promise == INSTANCE LoginPromise

\* The map, whenever it is pruned and whatever stale entries it keeps, does what
\* LoginPromise says: no attempt is refused to a key that has attempts left.
KeepsPromise == Promise!Spec
=============================================================================
