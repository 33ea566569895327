-------------------------- MODULE PagedWalkProofs --------------------------
(***************************************************************************)
(* The walk is complete and in order, for every set of rows, every strict  *)
(* order and every way to cut the list into pages.                         *)
(***************************************************************************)
EXTENDS PagedWalk, TLAPS

\* What a walk has not shown of its start lies behind all it has shown.
RestBehind == \A r \in start \ shown, q \in shown : Before(q, r)

IInv ==
  /\ table \subseteq Row /\ start \subseteq table /\ shown \subseteq table
  /\ status \in {"walk", "done", "idle"}
  /\ status = "walk" => RestBehind
  /\ WalkComplete

\* A page leaves what it does not show behind everything shown, and the last
\* page leaves nothing of the start: a row passed over would lie before a
\* row shown, and the rest of the start lies behind them.
LEMMA ShowKeeps ==
  ASSUME StrictOrder, IInv, Show
  PROVE  IInv'
<1>1. /\ status = "walk" /\ RestBehind
      /\ table' = table /\ start' = start /\ shown \subseteq shown' /\ shown' \subseteq table
  BY DEF IInv, Show
<1>2. \A r \in start \ shown : ~Passed(r)
  <2> SUFFICES ASSUME NEW r \in start \ shown, NEW q \in shown, Before(r, q)
               PROVE  FALSE
    BY DEF Passed
  <2>1. Before(q, r) /\ r \in Row /\ q \in Row
    BY <1>1 DEF RestBehind, IInv
  <2> QED BY <2>1 DEF StrictOrder
<1>3. status' = "done" => start \subseteq shown'
  BY <1>1, <1>2 DEF Show, IInv
<1>4. status' = "walk" => RestBehind'
  <2> SUFFICES ASSUME NEW r \in start \ shown', NEW q \in shown'
               PROVE  status' = "walk" => Before(q, r)
    BY <1>1 DEF RestBehind
  <2>1. CASE q \in shown
    BY <1>1, <2>1 DEF RestBehind
  <2>2. CASE q \notin shown
    <3>1. r \in table /\ r \notin shown' /\ ~Passed(r) /\ r \in Row /\ q \in Row /\ r # q
      BY <1>1, <1>2 DEF IInv
    <3>2. ~Before(r, q)
      BY <2>2, <3>1 DEF Show
    <3> QED BY <3>1, <3>2 DEF StrictOrder
  <2> QED BY <2>1, <2>2
<1> QED BY <1>1, <1>3, <1>4 DEF IInv, Show, WalkComplete

LEMMA StepKeeps ==
  ASSUME StrictOrder, IInv, [Next]_vars
  PROVE  IInv'
<1>1. CASE Begin
  BY <1>1 DEF IInv, Begin, RestBehind, WalkComplete
<1>2. CASE Insert
  <2>1. start' = start /\ shown' = shown /\ status' = status /\ table \subseteq table' /\ table' \subseteq Row
    BY <1>2 DEF Insert
  <2> QED BY <2>1 DEF IInv, RestBehind, WalkComplete
<1>3. CASE Show
  BY <1>3, ShowKeeps
<1>4. CASE GiveUp
  BY <1>4 DEF IInv, GiveUp, WalkComplete
<1>5. CASE Forget
  BY <1>5 DEF IInv, Forget, WalkComplete
<1>6. CASE UNCHANGED vars
  BY <1>6 DEF IInv, vars, RestBehind, WalkComplete
<1> QED BY <1>1, <1>2, <1>3, <1>4, <1>5, <1>6 DEF Next

\* A walk that follows next_cursor to a page without one has shown every row
\* that was in the list when it began, whatever the pages, the filters and the
\* rows inserted meanwhile.
THEOREM WalkIsComplete ==
  ASSUME StrictOrder
  PROVE  Spec => []WalkComplete
<1>1. Init => IInv
  BY DEF Init, IInv, WalkComplete
<1>2. IInv /\ [Next]_vars => IInv'
  BY StepKeeps
<1>3. IInv => WalkComplete
  BY DEF IInv
<1> QED BY <1>1, <1>2, <1>3, PTL DEF Spec
=============================================================================
