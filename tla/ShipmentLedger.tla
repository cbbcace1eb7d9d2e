---------------------------- MODULE ShipmentLedger ----------------------------
(***************************************************************************)
(* What the shipment service promises, without requests, keys, locks or    *)
(* snapshots: a book of shipments that changes one entry at a time, in     *)
(* atomic steps, each of which writes one line to the log that the         *)
(* customer's timeline and the callbacks to e-commerce are made from.      *)
(***************************************************************************)
EXTENDS Naturals, Sequences

CONSTANTS
  Status,    \* the statuses of an entry
  Opening,   \* those it may be opened in
  Steps      \* the pairs it may move along

VARIABLES
  book,   \* the entries: direction, status, version
  log     \* the lines: the entry a line is about and the status it reports

Entry == [isReturn : BOOLEAN, status : Status, version : Nat]

Line == [ship : Nat, status : Status]

\* The last line about an entry reports its status.
Reported(id) ==
  \E i \in DOMAIN log :
    /\ log[i] = [ship |-> id, status |-> book[id].status]
    /\ \A j \in DOMAIN log : log[j].ship = id => j <= i

\* A ledger an earlier run may have left.
Init ==
  /\ book \in Seq(Entry)
  /\ log \in Seq(Line)
  /\ \A id \in DOMAIN book : Reported(id)

Write(id, status) == log' = Append(log, [ship |-> id, status |-> status])

Open(isReturn, status) ==
  /\ book' = Append(book, [isReturn |-> isReturn, status |-> status, version |-> 1])
  /\ Write(Len(book) + 1, status)

Advance(id, next) ==
  /\ <<book[id].status, next>> \in Steps
  /\ book' = [book EXCEPT ![id].status = next, ![id].version = @ + 1]
  /\ Write(id, next)

\* The stops or the delivery window change.
Amend(id) ==
  /\ book' = [book EXCEPT ![id].version = @ + 1]
  /\ Write(id, book[id].status)

\* A line for the timeline alone.
Remark(id) == Write(id, book[id].status) /\ UNCHANGED book

Change ==
  \/ \E isReturn \in BOOLEAN, status \in Opening : Open(isReturn, status)
  \/ \E id \in DOMAIN book :
       \/ \E next \in Status : Advance(id, next)
       \/ Amend(id)
       \/ Remark(id)

\* Every change writes one line.  (The first conjunct follows from the second; by it
\* TLC sees at once that most steps of an implementation are no change.)
Next == Len(log') = Len(log) + 1 /\ Change

Spec == Init /\ [][Next]_<<book, log>>
=============================================================================
