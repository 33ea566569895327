----------------------------- MODULE PagedWalk -----------------------------
(***************************************************************************)
(* What following the cursors of an archive list promises: rows are shown  *)
(* in their order, none twice, and when the list says it has ended, every  *)
(* row that was there when the walk began has been shown, whatever was     *)
(* inserted meanwhile.                                                     *)
(***************************************************************************)
EXTENDS Naturals

CONSTANTS
  Row,
  Before(_, _)    \* the first row comes before the second in the list

\* The order is strict and total.
StrictOrder ==
  /\ \A r \in Row : ~Before(r, r)
  /\ \A r, s \in Row : r = s \/ Before(r, s) \/ Before(s, r)
  /\ \A r, s, t \in Row : Before(r, s) /\ Before(s, t) => Before(r, t)

VARIABLES
  table,   \* the rows the list is about
  start,   \* those that were there when the walk began
  shown,   \* the rows shown
  status   \* "walk", "done" (a page without a cursor was shown), "idle"

vars == <<table, start, shown, status>>

Init ==
  /\ table \in SUBSET Row /\ start = {} /\ shown = {} /\ status = "idle"

\* A walk begins, with filters of its own.
Begin ==
  /\ status' = "walk" /\ shown' = {}
  /\ table' \in SUBSET Row /\ start' = table'

Insert ==
  /\ table' \in SUBSET Row /\ table \subseteq table'
  /\ UNCHANGED <<start, shown, status>>

\* Rows the walk has already passed.
Passed(r) == \E q \in shown : Before(r, q)

\* A page: rows of the table behind all rows shown, and all rows of the table
\* that come before one of them and have not been passed.
Show ==
  /\ status = "walk"
  /\ shown \subseteq shown' /\ shown' \subseteq shown \cup table
  /\ \A s \in shown' \ shown : \A q \in shown : Before(q, s)
  /\ \A s \in shown' \ shown : \A r \in table : Before(r, s) => r \in shown' \/ Passed(r)
  /\ \/ status' = "walk"
     \/ status' = "done" /\ \A r \in table : r \in shown' \/ Passed(r)
  /\ UNCHANGED <<table, start>>

\* The walk is given up, or something else is asked for.
GiveUp == status' = "idle" /\ UNCHANGED <<table, start, shown>>
Forget == status' = "idle" /\ shown' = {} /\ start' = {} /\ table' \in SUBSET Row

Next == Begin \/ Insert \/ Show \/ GiveUp \/ Forget

Spec == Init /\ [][Next]_vars

-----------------------------------------------------------------------------
\* A finished walk has shown every row that was in the list when it began.
WalkComplete == status = "done" => start \subseteq shown
=============================================================================
