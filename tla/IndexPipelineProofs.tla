------------------------ MODULE IndexPipelineProofs ------------------------
(***************************************************************************)
(* The indexing programs, for all archives, batches, limits, faults and    *)
(* crashes.  First what each step reads and does, the shape of the state   *)
(* and the flock; then, when archives are committed one at a time, that no *)
(* scan passes over one; last, indexTables, directories and snapshot.           *)
(***************************************************************************)
EXTENDS IndexPipelineInv, FiniteSetTheorems, WellFoundedInduction, TLAPS

-----------------------------------------------------------------------------
(* Least and greatest ids.                                                 *)

LEMMA LeastFacts ==
  ASSUME NEW S, S \subseteq Nat, S # {}
  PROVE  Least(S) \in S /\ \A y \in S : Least(S) <= y
<1>1. PICK x \in S : \A y \in S : ~(<<y, x>> \in OpToRel(<, Nat))
  BY WFMin, NatLessThanWellFounded
<1>2. x \in Nat /\ \A y \in S : ~(y < x)
  BY <1>1 DEF OpToRel
<1>3. \A y \in S : x <= y
  BY <1>2
<1> QED BY <1>3 DEF Least

\* A finite set of ids has a greatest one: otherwise take the smallest
\* counterexample and leave out one of its elements.
LEMMA GreatestExists ==
  ASSUME NEW S, S \subseteq Nat, IsFiniteSet(S), S # {}
  PROVE  \E x \in S : \A y \in S : y <= x
<1> DEFINE Bad(T) == T # {} /\ ~\E x \in T : \A y \in T : y <= x
           B == {n \in Nat : \E T \in SUBSET S : Cardinality(T) = n /\ Bad(T)}
<1> SUFFICES ASSUME Bad(S) PROVE FALSE
  OBVIOUS
<1>1. Cardinality(S) \in B
  BY FS_CardinalityType
<1>2. PICK n \in B : \A k \in B : ~(<<k, n>> \in OpToRel(<, Nat))
  <2>1. B \subseteq Nat /\ B # {}
    BY <1>1
  <2> HIDE DEF B
  <2> QED BY <2>1, WFMin, NatLessThanWellFounded
<1>3. n \in Nat /\ \A k \in B : ~(k < n)
  BY <1>2 DEF OpToRel
<1>4. PICK T \in SUBSET S : Cardinality(T) = n /\ Bad(T)
  OBVIOUS
<1>5. PICK x \in T : TRUE
  BY <1>4
<1>6. IsFiniteSet(T) /\ x \in Nat /\ T \subseteq Nat
  BY <1>4, FS_Subset
<1>7. Cardinality(T \ {x}) = n - 1 /\ n \in Nat
  BY <1>3, <1>4, <1>5, <1>6, FS_RemoveElement
<1>8. n - 1 \in Nat
  <2>1. n # 0
    BY <1>4, <1>5, <1>6, FS_EmptySet
  <2> QED BY <1>3, <2>1
<1>9. n - 1 \notin B
  BY <1>3, <1>8
<1>10. ~Bad(T \ {x})
  BY <1>4, <1>7, <1>8, <1>9
<1>11. CASE T \ {x} = {}
  <2>1. \A y \in T : y <= x
    BY <1>6, <1>11
  <2> QED BY <1>4, <1>5, <2>1
<1>12. CASE T \ {x} # {}
  <2>1. PICK m \in T \ {x} : \A y \in T \ {x} : y <= m
    BY <1>10, <1>12
  <2>2. CASE x <= m
    <3>1. \A y \in T : y <= m
      BY <2>1, <2>2
    <3> QED BY <1>4, <2>1, <3>1
  <2>3. CASE ~(x <= m)
    <3>1. \A y \in T : y <= x
      BY <1>6, <2>1, <2>3
    <3> QED BY <1>4, <1>5, <3>1
  <2> QED BY <2>2, <2>3
<1> QED BY <1>11, <1>12

LEMMA GreatestFacts ==
  ASSUME NEW S, S \subseteq Nat, IsFiniteSet(S), S # {}
  PROVE  Greatest(S) \in S /\ \A y \in S : y <= Greatest(S)
<1>1. PICK x \in S : \A y \in S : x >= y
  BY GreatestExists
<1> QED BY <1>1 DEF Greatest

LEMMA LeastBatch ==
  ASSUME NEW S \in SUBSET Batches, S # {}
  PROVE  Least(S) \in S /\ Least(S) \in Batches /\ Least(S) \in Nat /\ \A y \in S : Least(S) <= y
BY LeastFacts, ArchivesAssumption

LEMMA LeastArchive ==
  ASSUME NEW S \in SUBSET Archives, S # {}
  PROVE  Least(S) \in S /\ Least(S) \in Archives /\ Least(S) \in Nat /\ \A y \in S : Least(S) <= y
BY LeastFacts, ArchivesAssumption

-----------------------------------------------------------------------------
(* The locals of a program.                                                *)

LEMMA StartingFacts ==
  ASSUME NEW c \in Pcs, NEW k \in Batches \cup {NoBatch},
         NEW t \in {"none", "start", "poll", "scan", "rebuild", "reload", "build"}
  PROVE  /\ Starting(t, k, c) \in Locals /\ Starting(t, k, c).pc = c /\ Starting(t, k, c).task = t
         /\ Starting(t, k, c).b = k
BY DEF Starting, Locals, Builders

LEMMA RestingFacts ==
  ASSUME NEW c \in Pcs
  PROVE  Resting(c) \in Locals /\ Resting(c).pc = c /\ Resting(c).task = "none"
BY StartingFacts DEF Resting

LEMMA GotoFacts ==
  ASSUME proc \in [Programs -> Locals], NEW p \in Programs, NEW c \in Pcs
  PROVE  /\ Goto(p, c) \in Locals /\ Goto(p, c).pc = c /\ Goto(p, c).task = proc[p].task
         /\ Goto(p, c).b = proc[p].b /\ Goto(p, c).ids = proc[p].ids
         /\ Goto(p, c).todo = proc[p].todo /\ Goto(p, c).good = proc[p].good
         /\ Goto(p, c).sha = proc[p].sha /\ Goto(p, c).list = proc[p].list
<1> DEFINE r == proc[p]
<1>1. r \in Locals /\ Goto(p, c) = [r EXCEPT !.pc = c]
  BY DEF Goto
<1> HIDE DEF r
<1>2. /\ [r EXCEPT !.pc = c] \in Locals /\ [r EXCEPT !.pc = c].pc = c
      /\ [r EXCEPT !.pc = c].task = r.task
      /\ [r EXCEPT !.pc = c].b = r.b /\ [r EXCEPT !.pc = c].ids = r.ids
      /\ [r EXCEPT !.pc = c].todo = r.todo /\ [r EXCEPT !.pc = c].good = r.good
      /\ [r EXCEPT !.pc = c].sha = r.sha /\ [r EXCEPT !.pc = c].list = r.list
  BY <1>1 DEF Locals
<1> QED BY <1>1, <1>2 DEF r

LEMMA PcFacts ==
  /\ LockPcs \subseteq Pcs /\ BuildPcs \subseteq Pcs /\ "idle" \in Pcs /\ "down" \in Pcs
  /\ LockPcs \cap BuildPcs = {} /\ "idle" \notin LockPcs \cup BuildPcs
  /\ "down" \notin LockPcs \cup BuildPcs
BY DEF Pcs, LockPcs, BuildPcs


\* Program p takes a step, the other program stays where it is.
Moved(p) ==
  /\ proc' \in [Programs -> Locals]
  /\ \A q \in Programs : q # p => proc'[q] = proc[q]

\* Program p leaves its operation by an exception.
Out(p) ==
  /\ Moved(p) /\ lock' \in {lock, Unlocked(p)} /\ proc'[p].task = "none"
  /\ proc'[p].pc = IF proc[p].task = "poll" THEN "idle" ELSE "down"

LEMMA MovesFacts ==
  ASSUME proc \in [Programs -> Locals], NEW p \in Programs, NEW STATE m, m \in Locals, Moves(p, m)
  PROVE  Moved(p) /\ proc'[p] = m
BY DEF Moves, Moved

LEMMA OutFacts ==
  ASSUME proc \in [Programs -> Locals], NEW p \in Programs, Throw(p)
  PROVE  Out(p)
<1> DEFINE c == IF proc[p].task = "poll" THEN "idle" ELSE "down"
<1>1. c \in Pcs /\ c = IF proc[p].task = "poll" THEN "idle" ELSE "down"
  BY PcFacts
<1>2. Moves(p, Resting(c)) /\ lock' = Unlocked(p)
  BY DEF Throw, Thrown
<1> HIDE DEF c
<1>3. Resting(c) \in Locals /\ Resting(c).pc = c /\ Resting(c).task = "none"
  BY <1>1, RestingFacts
<1>4. Moved(p) /\ proc'[p] = Resting(c)
  BY <1>2, <1>3, MovesFacts
<1> QED BY <1>1, <1>2, <1>3, <1>4 DEF Out

LEMMA ProgramFacts ==
  ASSUME TInv, NEW p \in Programs
  PROVE  /\ proc \in [Programs -> Locals] /\ proc[p] \in Locals /\ Shape(p, proc[p])
         /\ proc[p].pc \in LockPcs => lock = p
         /\ proc[p].todo \in SUBSET (Archives \cup Batches) /\ proc[p].good \in SUBSET Archives
         /\ proc[p].ids \in SUBSET (Archives \cup Batches) /\ proc[p].list \in SUBSET Listed
         /\ proc[p].sha \in Builders /\ proc[p].b \in Batches \cup {NoBatch}
<1>1. proc \in [Programs -> Locals] /\ Shape(p, proc[p]) /\ (proc[p].pc \in LockPcs => lock = p)
  BY DEF TInv, ProcType
<1>2. proc[p] \in Locals
  BY <1>1
<1> QED BY <1>1, <1>2 DEF Locals

-----------------------------------------------------------------------------
(* What a statement does: it is executed or not, and the program goes on   *)
(* with the locals m or is thrown out of its operation.                    *)

\* The statement na, nb (new contents of the two tables) as the program sees it.
Runs(p, na, nb, m) ==
  \/ Moves(p, m) /\ lock' = lock /\ archive' = na /\ batch' = nb
  \/ Throw(p) /\ archive' = na /\ batch' = nb
  \/ Throw(p) /\ archive' = archive /\ batch' = batch

LEMMA StatementRuns ==
  ASSUME NEW p, NEW STATE s, NEW STATE m, Statement(p, s, m)
  PROVE  Runs(p, NewArchive(s), NewBatch(s), m)
BY DEF Statement, Executed, GivenUp, Delayed, Runs

LEMMA ChangingRuns ==
  ASSUME NEW p, NEW STATE s, NEW STATE m, ChangingStatement(p, s, m)
  PROVE  \/ NewBatch(s) # batch /\ Runs(p, NewArchive(s), NewBatch(s), m)
         \/ Throw(p) /\ archive' = archive /\ batch' = batch
BY StatementRuns DEF ChangingStatement, Delayed, tables

LEMMA StatementCases ==
  ASSUME proc \in [Programs -> Locals], NEW p \in Programs,
         NEW STATE na, NEW STATE nb, NEW STATE m, m \in Locals, Runs(p, na, nb, m)
  PROVE  \/ Moved(p) /\ proc'[p] = m /\ lock' = lock /\ archive' = na /\ batch' = nb
         \/ Out(p) /\ archive' = na /\ batch' = nb
         \/ Out(p) /\ archive' = archive /\ batch' = batch
BY MovesFacts, OutFacts DEF Runs

LEMMA ChangingCases ==
  ASSUME proc \in [Programs -> Locals], NEW p \in Programs, NEW STATE s,
         NEW STATE m, m \in Locals, ChangingStatement(p, s, m), NewArchive(s) = archive
  PROVE  /\ archive' = archive
         /\ \/ Moved(p) /\ proc'[p] = m /\ lock' = lock /\ batch' = NewBatch(s) /\ batch' # batch
            \/ Out(p) /\ batch' = NewBatch(s)
            \/ Out(p) /\ batch' = batch
BY ChangingRuns, MovesFacts, OutFacts DEF Runs

Published(b, sha) ==
  /\ State(b) = "BUILDING" /\ archive' = ReadyArchives(b)
  /\ batch' = [batch EXCEPT ![b] = [state |-> "READY", sha |-> sha]]

LEMMA PublishCases ==
  ASSUME proc \in [Programs -> Locals], NEW p \in Programs, NEW STATE b, NEW STATE sha,
         NEW STATE m, m \in Locals, ChangingStatement(p, Sql("ready", b, NoArchive, sha), m)
  PROVE  \/ Moved(p) /\ proc'[p] = m /\ lock' = lock /\ Published(b, sha)
         \/ Out(p) /\ Published(b, sha)
         \/ Out(p) /\ archive' = archive /\ batch' = batch
<1> DEFINE s == Sql("ready", b, NoArchive, sha)
<1>1. s.do = "ready" /\ s.b = b /\ s.sha = sha
  BY DEF Sql
<1>2. ChangingStatement(p, s, m)
  OBVIOUS
<1> HIDE DEF s
<1>3. NewBatch(s) # batch =>
        /\ State(b) = "BUILDING" /\ NewArchive(s) = ReadyArchives(b)
        /\ NewBatch(s) = [batch EXCEPT ![b] = [state |-> "READY", sha |-> sha]]
  BY <1>1 DEF NewBatch, NewArchive, Publishable, ReadyBatch, State
<1> QED BY <1>2, <1>3, ChangingRuns, MovesFacts, OutFacts DEF Runs, Published

\* What each kind of statement does to the tables.
LEMMA EffectFacts ==
  ASSUME NEW s
  PROVE  /\ s.do \in {"interrupt", "requeue", "attach", "archiveParsed", "archiveFailed"} =>
              NewBatch(s) = batch
         /\ s.do \in {"create", "batchParsed", "batchFailed", "claim", "reset", "buildFailed"} =>
              NewArchive(s) = archive
         /\ s.do = "interrupt" => NewArchive(s) = InterruptedArchives(s.b)
         /\ s.do = "requeue" => NewArchive(s) = Requeued(s.b)
         /\ s.do = "attach" => NewArchive(s) = Attached(s.a, s.b)
         /\ s.do = "archiveParsed" => NewArchive(s) = MarkedArchive(s.a, TRUE)
         /\ s.do = "archiveFailed" => NewArchive(s) = MarkedArchive(s.a, FALSE)
         /\ s.do = "create" => NewBatch(s) = Created
         /\ s.do = "batchParsed" => NewBatch(s) = BatchState(s.b, "PARSED")
         /\ s.do = "batchFailed" => NewBatch(s) = BatchState(s.b, "FAILED")
         /\ s.do = "claim" => NewBatch(s) = Claimed(s.b)
         /\ s.do = "reset" => NewBatch(s) = ResetBuilding(s.b)
         /\ s.do = "buildFailed" => NewBatch(s) = BuildFailed(s.b)
BY DEF NewArchive, NewBatch, MarkedBatch

\* What the statement sent at each point does.
LEMMA SentFacts ==
  ASSUME NEW p
  PROVE  LET m == proc[p]
             first == Least(m.todo)
             does(na, nb) == NewArchive(Sent(p)) = na /\ NewBatch(Sent(p)) = nb
         IN /\ m.pc = "recoverArchives" /\ m.todo # {} => does(InterruptedArchives(first), batch)
            /\ m.pc = "recoverBatch" => does(archive, BatchState(first, "FAILED"))
            /\ m.pc = "create" => does(archive, Created)
            /\ m.pc = "attach" /\ m.todo # {} => does(Attached(first, m.b), batch)
            /\ m.pc = "mark" /\ m.todo # {} => does(MarkedArchive(first, first \in m.good), batch)
            /\ m.pc = "mark" /\ m.todo = {} => does(archive, MarkedBatch(m.b, m.good # {}))
            /\ m.pc = "unwritten" /\ m.todo # {} => does(MarkedArchive(first, FALSE), batch)
            /\ m.pc = "unwritten" /\ m.todo = {} => does(archive, MarkedBatch(m.b, FALSE))
            /\ m.pc = "retract" => does(archive, BatchState(m.b, "FAILED"))
            /\ m.pc = "requeue" => does(Requeued(m.b), batch)
            /\ m.pc = "reset" => does(archive, ResetBuilding(first))
            /\ m.pc = "discarded" => does(archive, BuildFailed(first))
            /\ m.pc = "claim" => does(archive, Claimed(m.b))
            /\ m.pc = "abandoned" => does(archive, BuildFailed(m.b))
            /\ m.pc = "republish" => Sent(p) = Sql("ready", first, NoArchive, m.sha)
            /\ m.pc = "publish" => Sent(p) = Sql("ready", m.b, NoArchive, p)
<1> DEFINE m == proc[p]
           first == Least(m.todo)
           s == Sent(p)
           does(na, nb) == NewArchive(s) = na /\ NewBatch(s) = nb
<1>1. /\ m.pc = "recoverArchives" /\ m.todo # {} => s.do = "interrupt" /\ s.b = first
      /\ m.pc = "recoverBatch" => s.do = "batchFailed" /\ s.b = first
      /\ m.pc = "create" => s.do = "create"
      /\ m.pc = "attach" /\ m.todo # {} => s.do = "attach" /\ s.b = m.b /\ s.a = first
      /\ m.pc = "mark" /\ m.todo # {} /\ first \in m.good => s.do = "archiveParsed" /\ s.a = first
      /\ m.pc = "mark" /\ m.todo # {} /\ first \notin m.good => s.do = "archiveFailed" /\ s.a = first
      /\ m.pc = "mark" /\ m.todo = {} /\ m.good # {} => s.do = "batchParsed" /\ s.b = m.b
      /\ m.pc = "mark" /\ m.todo = {} /\ m.good = {} => s.do = "batchFailed" /\ s.b = m.b
      /\ m.pc = "unwritten" /\ m.todo # {} => s.do = "archiveFailed" /\ s.a = first
      /\ m.pc = "unwritten" /\ m.todo = {} => s.do = "batchFailed" /\ s.b = m.b
      /\ m.pc = "retract" => s.do = "batchFailed" /\ s.b = m.b
      /\ m.pc = "requeue" => s.do = "requeue" /\ s.b = m.b
      /\ m.pc = "reset" => s.do = "reset" /\ s.b = first
      /\ m.pc = "discarded" => s.do = "buildFailed" /\ s.b = first
      /\ m.pc = "claim" => s.do = "claim" /\ s.b = m.b
      /\ m.pc = "abandoned" => s.do = "buildFailed" /\ s.b = m.b
  BY DEF Sent, OnBatch, OnArchive, Sql
<1>2. /\ m.pc = "republish" => s = Sql("ready", first, NoArchive, m.sha)
      /\ m.pc = "publish" => s = Sql("ready", m.b, NoArchive, p)
  BY DEF Sent
<1> HIDE DEF m, first, s
<1>3. /\ m.pc = "recoverArchives" /\ m.todo # {} => does(InterruptedArchives(first), batch)
      /\ m.pc = "recoverBatch" => does(archive, BatchState(first, "FAILED"))
      /\ m.pc = "create" => does(archive, Created)
      /\ m.pc = "attach" /\ m.todo # {} => does(Attached(first, m.b), batch)
  BY <1>1, EffectFacts
<1>4. /\ m.pc = "mark" /\ m.todo # {} => does(MarkedArchive(first, first \in m.good), batch)
      /\ m.pc = "mark" /\ m.todo = {} => does(archive, MarkedBatch(m.b, m.good # {}))
  BY <1>1, EffectFacts DEF MarkedArchive, MarkedBatch
<1>5. /\ m.pc = "unwritten" /\ m.todo # {} => does(MarkedArchive(first, FALSE), batch)
      /\ m.pc = "unwritten" /\ m.todo = {} => does(archive, MarkedBatch(m.b, FALSE))
      /\ m.pc = "retract" => does(archive, BatchState(m.b, "FAILED"))
      /\ m.pc = "requeue" => does(Requeued(m.b), batch)
  BY <1>1, EffectFacts DEF MarkedBatch
<1>6. /\ m.pc = "reset" => does(archive, ResetBuilding(first))
      /\ m.pc = "discarded" => does(archive, BuildFailed(first))
      /\ m.pc = "claim" => does(archive, Claimed(m.b))
      /\ m.pc = "abandoned" => does(archive, BuildFailed(m.b))
  BY <1>1, EffectFacts
<1> QED BY <1>2, <1>3, <1>4, <1>5, <1>6 DEF m, first, s

LEMMA ArchiveStatesType ==
  ASSUME TablesType, NEW S, NEW s \in {"NONE", "PENDING", "PARSED", "FAILED", "INDEXED"}
  PROVE  /\ ArchiveStates(S, s) \in [Archives -> ArchiveRows]
         /\ \A a \in Archives : /\ ArchiveStates(S, s)[a].batch = archive[a].batch
                                /\ ArchiveStates(S, s)[a].state = IF a \in S THEN s ELSE archive[a].state
                                /\ a \notin S => ArchiveStates(S, s)[a] = archive[a]
BY DEF ArchiveStates, TablesType, ArchiveRows

LEMMA BatchStateType ==
  ASSUME TablesType, NEW b \in Batches,
         NEW s \in {"NONE", "PARSING", "PARSED", "BUILDING", "READY", "FAILED"}
  PROVE  /\ BatchState(b, s) \in [Batches -> BatchRows] /\ BatchState(b, s)[b].state = s
         /\ \A c \in Batches : c # b => BatchState(b, s)[c] = batch[c]
BY DEF BatchState, TablesType, BatchRows, Builders

-----------------------------------------------------------------------------
(* The steps of a scan, one lemma each: what they read and what they do.   *)

Still == UNCHANGED <<rows, snapshot>>

LEMMA RecoverListFacts ==
  ASSUME TInv, NEW p \in Programs, RecoverList(p)
  PROVE  /\ proc[p].pc = "recover" /\ Still /\ UNCHANGED <<indexTables, dirs, lock>>
         /\ Moved(p) /\ proc'[p].pc = "recoverArchives" /\ proc'[p].task = proc[p].task
         /\ proc'[p].ids = BatchesIn({"PARSING"}) /\ proc'[p].todo = BatchesIn({"PARSING"})
<1> DEFINE r == proc[p]
           f == BatchesIn({"PARSING"})
           m == [r EXCEPT !.ids = f, !.todo = f, !.pc = "recoverArchives"]
<1>1. /\ r.pc = "recover" /\ Moves(p, m) /\ UNCHANGED rows /\ UNCHANGED snapshot
      /\ UNCHANGED <<indexTables, dirs, lock>>
  BY DEF RecoverList, tables, indexTables
<1>2. r \in Locals /\ f \in SUBSET Batches
  BY ProgramFacts DEF BatchesIn
<1> HIDE DEF r, f
<1>3. m \in Locals /\ m.pc = "recoverArchives" /\ m.task = r.task /\ m.ids = f /\ m.todo = f
  BY <1>2 DEF Locals, Pcs, LockPcs
<1> HIDE DEF m
<1>4. Moved(p) /\ proc'[p] = m
  BY <1>1, <1>3, ProgramFacts, MovesFacts
<1> QED BY <1>1, <1>3, <1>4 DEF r, f, Still, tables, indexTables

LEMMA RecoverArchivesFacts ==
  ASSUME TInv, NEW p \in Programs, RecoverArchives(p)
  PROVE  /\ proc[p].pc = "recoverArchives" /\ proc[p].todo # {} /\ Still /\ UNCHANGED dirs
         /\ batch' = batch /\ archive' \in {archive, InterruptedArchives(Least(proc[p].todo))}
         /\ \/ Out(p)
            \/ /\ Moved(p) /\ lock' = lock /\ archive' = InterruptedArchives(Least(proc[p].todo))
               /\ proc'[p] = Goto(p, "recoverBatch")
<1>1. Goto(p, "recoverBatch") \in Locals
  BY ProgramFacts, GotoFacts DEF Pcs, LockPcs
<1>2. Runs(p, InterruptedArchives(Least(proc[p].todo)), batch, Goto(p, "recoverBatch"))
  BY SentFacts, StatementRuns DEF RecoverArchives
<1>3. proc[p].pc = "recoverArchives" /\ proc[p].todo # {} /\ Still /\ UNCHANGED dirs
  BY DEF RecoverArchives, Still
<1> QED BY <1>1, <1>2, <1>3, ProgramFacts, StatementCases

LEMMA RecoverBatchFacts ==
  ASSUME TInv, NEW p \in Programs, RecoverBatch(p)
  PROVE  /\ proc[p].pc = "recoverBatch" /\ Still /\ UNCHANGED dirs
         /\ archive' = archive /\ batch' \in {batch, BatchState(Least(proc[p].todo), "FAILED")}
         /\ \/ Out(p)
            \/ /\ Moved(p) /\ lock' = lock /\ batch' = BatchState(Least(proc[p].todo), "FAILED")
               /\ proc'[p].pc = "recoverArchives" /\ proc'[p].task = proc[p].task
               /\ proc'[p].ids = proc[p].ids /\ proc'[p].todo = proc[p].todo \ {Least(proc[p].todo)}
<1> DEFINE r == proc[p]
           b == Least(r.todo)
           m == [r EXCEPT !.todo = r.todo \ {b}, !.pc = "recoverArchives"]
<1>1. /\ r.pc = "recoverBatch" /\ UNCHANGED rows /\ UNCHANGED snapshot /\ UNCHANGED dirs
      /\ Runs(p, archive, BatchState(b, "FAILED"), m)
  <2>1. /\ r.pc = "recoverBatch" /\ UNCHANGED rows /\ UNCHANGED snapshot /\ UNCHANGED dirs
        /\ Statement(p, Sent(p), m)
    BY DEF RecoverBatch
  <2>2. NewArchive(Sent(p)) = archive /\ NewBatch(Sent(p)) = BatchState(b, "FAILED")
    BY <2>1, SentFacts
  <2> HIDE DEF r, m, b
  <2> QED BY <2>1, <2>2, StatementRuns
<1>2. r \in Locals
  BY ProgramFacts
<1> HIDE DEF r, b
<1>3. m \in Locals /\ m.pc = "recoverArchives" /\ m.task = r.task /\ m.ids = r.ids
      /\ m.todo = r.todo \ {b}
  BY <1>2 DEF Locals, Pcs, LockPcs
<1> HIDE DEF m
<1>4. \/ Moved(p) /\ proc'[p] = m /\ lock' = lock /\ archive' = archive /\ batch' = BatchState(b, "FAILED")
      \/ Out(p) /\ archive' = archive /\ batch' = BatchState(b, "FAILED")
      \/ Out(p) /\ archive' = archive /\ batch' = batch
  BY <1>1, <1>3, ProgramFacts, StatementCases
<1> QED BY <1>1, <1>3, <1>4 DEF r, b, Still

LEMMA RecoverFilesFacts ==
  ASSUME TInv, NEW p \in Programs, RecoverFiles(p)
  PROVE  /\ proc[p].pc = "recoverArchives" /\ proc[p].todo = {}
         /\ Still /\ UNCHANGED <<indexTables, building, segment>>
         /\ parsed' = [b \in Batches |-> IF b \in proc[p].ids THEN {} ELSE parsed[b]]
         /\ Moved(p)
         /\ \/ proc[p].task = "start" /\ proc'[p] = Goto(p, "cleanup") /\ lock' = "free"
            \/ proc[p].task # "start" /\ proc'[p] = Goto(p, "select") /\ lock' = lock
<1>1. Goto(p, "cleanup") \in Locals /\ Goto(p, "select") \in Locals
  BY ProgramFacts, GotoFacts DEF Pcs, LockPcs, BuildPcs
<1>2. \/ proc[p].task = "start" /\ Moves(p, Goto(p, "cleanup")) /\ lock' = "free"
      \/ proc[p].task # "start" /\ Moves(p, Goto(p, "select")) /\ lock' = lock
  BY DEF RecoverFiles, tables, indexTables
<1>3. \/ proc[p].task = "start" /\ Moved(p) /\ proc'[p] = Goto(p, "cleanup") /\ lock' = "free"
      \/ proc[p].task # "start" /\ Moved(p) /\ proc'[p] = Goto(p, "select") /\ lock' = lock
  BY <1>1, <1>2, ProgramFacts, MovesFacts
<1> QED BY <1>3 DEF RecoverFiles, Still, tables, indexTables

\* The end of a scan.
Ended(p) ==
  /\ Moved(p) /\ lock' = "free"
  /\ \/ /\ proc[p].task = "poll" /\ proc'[p].pc = "interrupted" /\ proc'[p].task = "poll"
        /\ Spend(Overlap(p))
     \/ proc[p].task # "poll" /\ proc'[p].pc = "down" /\ proc'[p].task = "none"

LEMMA ScannedFacts ==
  ASSUME TInv, NEW p \in Programs, Scanned(p)
  PROVE  Ended(p)
<1>1. CASE proc[p].task = "poll"
  <2>1. Moves(p, Starting("poll", NoBatch, "interrupted"))
    BY <1>1 DEF Scanned
  <2>2. /\ Starting("poll", NoBatch, "interrupted") \in Locals
        /\ Starting("poll", NoBatch, "interrupted").pc = "interrupted"
        /\ Starting("poll", NoBatch, "interrupted").task = "poll"
    BY StartingFacts DEF Pcs, BuildPcs
  <2>3. Moved(p) /\ proc'[p] = Starting("poll", NoBatch, "interrupted")
    BY <2>1, <2>2, ProgramFacts, MovesFacts
  <2> QED BY <1>1, <2>2, <2>3 DEF Ended, Scanned
<1>2. CASE proc[p].task # "poll"
  <2>1. Moves(p, Resting("down"))
    BY <1>2 DEF Scanned
  <2>2. Resting("down") \in Locals /\ Resting("down").pc = "down" /\ Resting("down").task = "none"
    BY RestingFacts, PcFacts
  <2>3. Moved(p) /\ proc'[p] = Resting("down")
    BY <2>1, <2>2, ProgramFacts, MovesFacts
  <2> QED BY <1>2, <2>2, <2>3 DEF Ended, Scanned
<1> QED BY <1>1, <1>2

LEMMA SelectFacts ==
  ASSUME TInv, NEW p \in Programs, Select(p)
  PROVE  /\ proc[p].pc = "select" /\ Still /\ UNCHANGED <<indexTables, dirs>>
         /\ \/ Ended(p)
            \/ /\ Moved(p) /\ lock' = lock /\ proc'[p].pc = "create" /\ proc'[p].task = proc[p].task
               /\ \E bad \in SUBSET Archives :
                    /\ proc'[p].ids = Outcomes(Selected, bad)
                    /\ proc'[p].todo = Outcomes(Selected, bad)
                    /\ proc'[p].good \subseteq Outcomes(Selected, bad)
<1>1. proc[p].pc = "select" /\ Still /\ UNCHANGED <<indexTables, dirs>>
  BY DEF Select, Still, tables, indexTables
<1>2. CASE Selected = {} /\ Scanned(p)
  BY <1>1, <1>2, ScannedFacts
<1>3. ASSUME NEW bad \in SUBSET (Selected \cap Unparsable), lock' = lock,
             Moves(p, [proc[p] EXCEPT !.ids = Outcomes(Selected, bad),
                                      !.todo = Outcomes(Selected, bad), !.pc = "create",
                                      !.good = {a \in Outcomes(Selected, bad) : Parses(bad, a)}])
      PROVE  /\ Moved(p) /\ lock' = lock /\ proc'[p].pc = "create" /\ proc'[p].task = proc[p].task
             /\ proc'[p].ids = Outcomes(Selected, bad) /\ proc'[p].todo = Outcomes(Selected, bad)
             /\ proc'[p].good \subseteq Outcomes(Selected, bad)
  <2> DEFINE r == proc[p]
             t == Outcomes(Selected, bad)
             g == {a \in t : Parses(bad, a)}
             m == [r EXCEPT !.ids = t, !.todo = t, !.pc = "create", !.good = g]
  <2>1. Moves(p, m)
    BY <1>3
  <2>2. r \in Locals /\ g \subseteq t
    BY ProgramFacts
  <2>3. t \in SUBSET Archives
    <3>1. Selected \subseteq Archives
      BY DEF Selected, UpTo, ListPending, ListAfter, TInv, RowsType
    <3> QED BY <3>1 DEF Outcomes
  <2>4. g \in SUBSET Archives
    BY <2>2, <2>3
  <2> HIDE DEF r, t, g
  <2>5. m \in Locals /\ m.pc = "create" /\ m.task = r.task /\ m.ids = t /\ m.todo = t /\ m.good = g
    BY <2>2, <2>3, <2>4 DEF Locals, Pcs, LockPcs
  <2> HIDE DEF m
  <2>6. Moved(p) /\ proc'[p] = m
    BY <2>1, <2>5, ProgramFacts, MovesFacts
  <2> QED BY <1>3, <2>2, <2>5, <2>6 DEF r, t
<1>4. \/ Selected = {} /\ Scanned(p)
      \/ lock' = lock /\ \E bad \in SUBSET (Selected \cap Unparsable) :
           Moves(p, [proc[p] EXCEPT !.ids = Outcomes(Selected, bad), !.todo = Outcomes(Selected, bad),
                                    !.pc = "create",
                                    !.good = {a \in Outcomes(Selected, bad) : Parses(bad, a)}])
  BY DEF Select, tables, indexTables
<1> QED BY <1>1, <1>2, <1>3, <1>4, CommandsAssumption

LEMMA CreateBatchFacts ==
  ASSUME TInv, NEW p \in Programs, CreateBatch(p)
  PROVE  /\ proc[p].pc = "create" /\ Unused # {} /\ Still /\ UNCHANGED dirs
         /\ archive' = archive /\ batch' \in {batch, BatchState(Least(Unused), "PARSING")}
         /\ \/ Out(p)
            \/ /\ Moved(p) /\ lock' = lock /\ batch' = BatchState(Least(Unused), "PARSING")
               /\ proc'[p].pc = "attach" /\ proc'[p].task = proc[p].task /\ proc'[p].b = Least(Unused)
               /\ proc'[p].ids = proc[p].ids /\ proc'[p].todo = proc[p].todo
               /\ proc'[p].good = proc[p].good
<1> DEFINE r == proc[p]
           b == Least(Unused)
           m == [r EXCEPT !.b = b, !.pc = "attach"]
<1>1. /\ r.pc = "create" /\ Unused # {} /\ UNCHANGED rows /\ UNCHANGED snapshot /\ UNCHANGED dirs
      /\ Runs(p, archive, BatchState(b, "PARSING"), m)
  <2>1. /\ r.pc = "create" /\ Unused # {} /\ UNCHANGED rows /\ UNCHANGED snapshot /\ UNCHANGED dirs
        /\ Statement(p, Sent(p), m)
    BY DEF CreateBatch
  <2>2. NewArchive(Sent(p)) = archive /\ NewBatch(Sent(p)) = BatchState(b, "PARSING")
    BY <2>1, SentFacts DEF Created
  <2> HIDE DEF r, m, b
  <2> QED BY <2>1, <2>2, StatementRuns
<1>2. r \in Locals /\ b \in Batches
  BY <1>1, ProgramFacts, LeastBatch DEF Unused, BatchesIn
<1> HIDE DEF r, b
<1>3. /\ m \in Locals /\ m.pc = "attach" /\ m.task = r.task /\ m.b = b /\ m.ids = r.ids
      /\ m.todo = r.todo /\ m.good = r.good
  BY <1>2 DEF Locals, Pcs, LockPcs
<1> HIDE DEF m
<1>4. \/ Moved(p) /\ proc'[p] = m /\ lock' = lock /\ archive' = archive /\ batch' = BatchState(b, "PARSING")
      \/ Out(p) /\ archive' = archive /\ batch' = BatchState(b, "PARSING")
      \/ Out(p) /\ archive' = archive /\ batch' = batch
  BY <1>1, <1>3, ProgramFacts, StatementCases
<1> QED BY <1>1, <1>3, <1>4 DEF r, b, Still

LEMMA AttachArchiveFacts ==
  ASSUME TInv, NEW p \in Programs, AttachArchive(p)
  PROVE  LET a == Least(proc[p].todo)
         IN /\ proc[p].pc = "attach" /\ proc[p].todo # {} /\ Still /\ UNCHANGED dirs
            /\ batch' = batch /\ archive' \in {archive, Attached(a, proc[p].b)}
            /\ \/ Out(p)
               \/ /\ Moved(p) /\ lock' = lock /\ archive' = Attached(a, proc[p].b)
                  /\ proc'[p].pc = "attach" /\ proc'[p].task = proc[p].task
                  /\ proc'[p].b = proc[p].b /\ proc'[p].ids = proc[p].ids
                  /\ proc'[p].todo = proc[p].todo \ {a} /\ proc'[p].good = proc[p].good
<1> DEFINE r == proc[p]
           a == Least(r.todo)
           m == [r EXCEPT !.todo = r.todo \ {a}]
<1>1. /\ r.pc = "attach" /\ r.todo # {} /\ UNCHANGED rows /\ UNCHANGED snapshot /\ UNCHANGED dirs
      /\ Runs(p, Attached(a, r.b), batch, m)
  <2>1. /\ r.pc = "attach" /\ r.todo # {} /\ UNCHANGED rows /\ UNCHANGED snapshot /\ UNCHANGED dirs
        /\ Statement(p, Sent(p), m)
    BY DEF AttachArchive
  <2>2. NewArchive(Sent(p)) = Attached(a, r.b) /\ NewBatch(Sent(p)) = batch
    BY <2>1, SentFacts
  <2> HIDE DEF r, m, a
  <2> QED BY <2>1, <2>2, StatementRuns
<1>2. r \in Locals
  BY ProgramFacts
<1> HIDE DEF r, a
<1>3. /\ m \in Locals /\ m.pc = r.pc /\ m.task = r.task /\ m.b = r.b /\ m.ids = r.ids
      /\ m.todo = r.todo \ {a} /\ m.good = r.good
  BY <1>2 DEF Locals
<1> HIDE DEF m
<1>4. \/ Moved(p) /\ proc'[p] = m /\ lock' = lock /\ archive' = Attached(a, r.b) /\ batch' = batch
      \/ Out(p) /\ archive' = Attached(a, r.b) /\ batch' = batch
      \/ Out(p) /\ archive' = archive /\ batch' = batch
  BY <1>1, <1>3, ProgramFacts, StatementCases
<1> QED BY <1>1, <1>3, <1>4 DEF r, a, Still

LEMMA WriteParsedFacts ==
  ASSUME TInv, NEW p \in Programs, WriteParsed(p)
  PROVE  /\ proc[p].pc = "attach" /\ proc[p].todo = {}
         /\ Still /\ UNCHANGED <<indexTables, building, segment, lock>>
         /\ Moved(p) /\ proc'[p].task = proc[p].task /\ proc'[p].b = proc[p].b
         /\ proc'[p].ids = proc[p].ids /\ proc'[p].todo = proc[p].ids
         /\ \/ /\ proc[p].good # {} /\ parsed' = [parsed EXCEPT ![proc[p].b] = proc[p].good]
               /\ proc'[p].pc = "mark" /\ proc'[p].good = proc[p].good
            \/ parsed' = parsed /\ proc'[p].pc \in {"mark", "unwritten"} /\ proc'[p].good = {}
<1> DEFINE r == proc[p]
           m == [r EXCEPT !.todo = r.ids, !.pc = "mark"]
           c == IF r.good = {} THEN "mark" ELSE "unwritten"
           n == [r EXCEPT !.todo = r.ids, !.good = {}, !.pc = c]
<1>1. /\ r.pc = "attach" /\ r.todo = {} /\ UNCHANGED rows /\ UNCHANGED snapshot
      /\ UNCHANGED <<indexTables, building, segment, lock>>
      /\ \/ r.good # {} /\ parsed' = [parsed EXCEPT ![r.b] = r.good] /\ Moves(p, m)
         \/ parsed' = parsed /\ Moves(p, n)
  BY DEF WriteParsed, tables, indexTables
<1>2. r \in Locals /\ c \in {"mark", "unwritten"}
  BY ProgramFacts
<1> HIDE DEF r, c
<1>3. /\ m \in Locals /\ m.pc = "mark" /\ m.task = r.task /\ m.b = r.b /\ m.ids = r.ids
      /\ m.todo = r.ids /\ m.good = r.good
  BY <1>2 DEF Locals, Pcs, LockPcs
<1>4. /\ n \in Locals /\ n.pc = c /\ n.task = r.task /\ n.b = r.b /\ n.ids = r.ids
      /\ n.todo = r.ids /\ n.good = {}
  BY <1>2 DEF Locals, Pcs, LockPcs
<1> HIDE DEF m, n
<1>5. \/ /\ r.good # {} /\ parsed' = [parsed EXCEPT ![r.b] = r.good]
         /\ Moved(p) /\ proc'[p] = m
      \/ parsed' = parsed /\ Moved(p) /\ proc'[p] = n
  BY <1>1, <1>3, <1>4, ProgramFacts, MovesFacts
<1> QED BY <1>1, <1>2, <1>3, <1>4, <1>5 DEF r, Still, tables, indexTables

LEMMA MarkArchiveFacts ==
  ASSUME TInv, NEW p \in Programs, MarkArchive(p)
  PROVE  LET a == Least(proc[p].todo)
         IN /\ proc[p].pc = "mark" /\ proc[p].todo # {} /\ Still /\ UNCHANGED dirs
            /\ batch' = batch /\ archive' \in {archive, MarkedArchive(a, a \in proc[p].good)}
            /\ \/ Out(p)
               \/ /\ Moved(p) /\ lock' = lock /\ archive' = MarkedArchive(a, a \in proc[p].good)
                  /\ proc'[p].pc = "mark" /\ proc'[p].task = proc[p].task
                  /\ proc'[p].b = proc[p].b /\ proc'[p].ids = proc[p].ids
                  /\ proc'[p].todo = proc[p].todo \ {a} /\ proc'[p].good = proc[p].good
<1> DEFINE r == proc[p]
           a == Least(r.todo)
           na == MarkedArchive(a, a \in r.good)
           m == [r EXCEPT !.todo = r.todo \ {a}]
<1>1. /\ r.pc = "mark" /\ r.todo # {} /\ UNCHANGED rows /\ UNCHANGED snapshot /\ UNCHANGED dirs
      /\ Runs(p, na, batch, m)
  <2>1. /\ r.pc = "mark" /\ r.todo # {} /\ UNCHANGED rows /\ UNCHANGED snapshot /\ UNCHANGED dirs
        /\ Statement(p, Sent(p), m)
    BY DEF MarkArchive
  <2>2. NewArchive(Sent(p)) = na /\ NewBatch(Sent(p)) = batch
    BY <2>1, SentFacts
  <2> HIDE DEF r, m, a, na
  <2> QED BY <2>1, <2>2, StatementRuns
<1>2. r \in Locals
  BY ProgramFacts
<1> HIDE DEF r, a, na
<1>3. /\ m \in Locals /\ m.pc = r.pc /\ m.task = r.task /\ m.b = r.b /\ m.ids = r.ids
      /\ m.todo = r.todo \ {a} /\ m.good = r.good
  BY <1>2 DEF Locals
<1> HIDE DEF m
<1>4. \/ Moved(p) /\ proc'[p] = m /\ lock' = lock /\ archive' = na /\ batch' = batch
      \/ Out(p) /\ archive' = na /\ batch' = batch
      \/ Out(p) /\ archive' = archive /\ batch' = batch
  BY <1>1, <1>3, ProgramFacts, StatementCases
<1>5. /\ r.pc = "mark" /\ r.todo # {} /\ Still /\ UNCHANGED dirs
      /\ batch' = batch /\ archive' \in {archive, na}
      /\ \/ Out(p)
         \/ /\ Moved(p) /\ lock' = lock /\ archive' = na
            /\ proc'[p].pc = "mark" /\ proc'[p].task = r.task
            /\ proc'[p].b = r.b /\ proc'[p].ids = r.ids
            /\ proc'[p].todo = r.todo \ {a} /\ proc'[p].good = r.good
  BY <1>1, <1>3, <1>4 DEF Still
<1> QED BY <1>5 DEF r, a, na

LEMMA FinishScanFacts ==
  ASSUME TInv, NEW p \in Programs, FinishScan(p)
  PROVE  LET after == MarkedBatch(proc[p].b, proc[p].good # {})
         IN /\ proc[p].pc = "mark" /\ proc[p].todo = {} /\ Still /\ UNCHANGED dirs
            /\ archive' = archive /\ batch' \in {batch, after}
            /\ \/ Out(p)
               \/ Ended(p) /\ batch' = after
<1> DEFINE after == MarkedBatch(proc[p].b, proc[p].good # {})
<1>0. NewArchive(Sent(p)) = archive /\ NewBatch(Sent(p)) = after
  BY SentFacts DEF FinishScan
<1>1. CASE archive' = archive /\ batch' = after /\ Scanned(p)
  BY <1>1, ScannedFacts DEF FinishScan, Still
<1>2. CASE Throw(p) /\ archive' = archive /\ batch' \in {batch, after}
  BY <1>2, OutFacts, ProgramFacts DEF FinishScan, Still
<1> QED BY <1>0, <1>1, <1>2 DEF FinishScan, Executed, GivenUp, Delayed

LEMMA MarkUnwrittenFacts ==
  ASSUME TInv, NEW p \in Programs, MarkUnwritten(p)
  PROVE  LET a == Least(proc[p].todo)
         IN /\ proc[p].pc = "unwritten" /\ Still /\ UNCHANGED dirs
            /\ \/ /\ proc[p].todo = {} /\ Out(p) /\ archive' = archive
                  /\ batch' \in {batch, MarkedBatch(proc[p].b, FALSE)}
               \/ /\ proc[p].todo # {} /\ batch' = batch
                  /\ archive' \in {archive, MarkedArchive(a, FALSE)}
                  /\ Moved(p) /\ lock' = lock
                  /\ proc'[p].pc = "unwritten" /\ proc'[p].task = proc[p].task
                  /\ proc'[p].b = proc[p].b /\ proc'[p].ids = proc[p].ids
                  /\ proc'[p].todo = proc[p].todo \ {a} /\ proc'[p].good = proc[p].good
<1> DEFINE r == proc[p]
           a == Least(r.todo)
           m == [r EXCEPT !.todo = r.todo \ {a}]
<1>1. /\ r.pc = "unwritten" /\ UNCHANGED rows /\ UNCHANGED snapshot /\ UNCHANGED dirs
      /\ \/ /\ r.todo = {} /\ Throw(p)
            /\ \/ archive' = archive /\ batch' = MarkedBatch(r.b, FALSE)
               \/ archive' = archive /\ batch' = batch
         \/ /\ r.todo # {} /\ lock' = lock /\ Moves(p, m)
            /\ \/ archive' = MarkedArchive(a, FALSE) /\ batch' = batch
               \/ archive' = archive /\ batch' = batch
  <2>1. CASE r.todo = {}
    BY <2>1, SentFacts DEF MarkUnwritten, Executed, GivenUp, Delayed
  <2>2. CASE r.todo # {}
    BY <2>2, SentFacts DEF MarkUnwritten, Executed, GivenUp, Delayed
  <2> QED BY <2>1, <2>2
<1>2. r \in Locals
  BY ProgramFacts
<1> HIDE DEF r, a
<1>3. /\ m \in Locals /\ m.pc = r.pc /\ m.task = r.task /\ m.b = r.b /\ m.ids = r.ids
      /\ m.todo = r.todo \ {a} /\ m.good = r.good
  BY <1>2 DEF Locals
<1> HIDE DEF m
<1>4. CASE r.todo = {}
  BY <1>1, <1>4, ProgramFacts, OutFacts DEF r, Still
<1>5. CASE r.todo # {}
  <2>1. Moved(p) /\ proc'[p] = m
    BY <1>1, <1>3, <1>5, ProgramFacts, MovesFacts
  <2> QED BY <1>1, <1>3, <1>5, <2>1 DEF r, a, Still
<1> QED BY <1>4, <1>5

-----------------------------------------------------------------------------
(* The steps of a rebuild.                                                 *)

LEMMA RetractBatchFacts ==
  ASSUME TInv, NEW p \in Programs, RetractBatch(p)
  PROVE  /\ proc[p].pc = "retract" /\ Still /\ UNCHANGED dirs
         /\ archive' = archive /\ batch' \in {batch, BatchState(proc[p].b, "FAILED")}
         /\ \/ Out(p)
            \/ /\ Moved(p) /\ lock' = lock /\ batch' = BatchState(proc[p].b, "FAILED")
               /\ proc'[p] = Goto(p, "requeue")
<1>1. Goto(p, "requeue") \in Locals
  BY ProgramFacts, GotoFacts DEF Pcs, LockPcs
<1>2. Runs(p, archive, BatchState(proc[p].b, "FAILED"), Goto(p, "requeue"))
  BY SentFacts, StatementRuns DEF RetractBatch
<1>3. proc[p].pc = "retract" /\ Still /\ UNCHANGED dirs
  BY DEF RetractBatch, Still
<1> QED BY <1>1, <1>2, <1>3, ProgramFacts, StatementCases

LEMMA RequeueArchivesFacts ==
  ASSUME TInv, NEW p \in Programs, RequeueArchives(p)
  PROVE  /\ proc[p].pc = "requeue" /\ Still /\ UNCHANGED dirs
         /\ batch' = batch /\ archive' \in {archive, Requeued(proc[p].b)}
         /\ \/ Out(p)
            \/ Moved(p) /\ lock' = lock /\ proc'[p] = Goto(p, "erase")
<1>1. Goto(p, "erase") \in Locals
  BY ProgramFacts, GotoFacts DEF Pcs, LockPcs
<1>2. Runs(p, Requeued(proc[p].b), batch, Goto(p, "erase"))
  BY SentFacts, StatementRuns DEF RequeueArchives
<1>3. proc[p].pc = "requeue" /\ Still /\ UNCHANGED dirs
  BY DEF RequeueArchives, Still
<1> QED BY <1>1, <1>2, <1>3, ProgramFacts, StatementCases

LEMMA EraseBatchFacts ==
  ASSUME TInv, NEW p \in Programs, EraseBatch(p)
  PROVE  /\ proc[p].pc = "erase" /\ Still /\ UNCHANGED indexTables /\ Out(p)
         /\ parsed' = [parsed EXCEPT ![proc[p].b] = {}]
         /\ building' = [building EXCEPT ![proc[p].b] = NoDir]
         /\ segment' = [segment EXCEPT ![proc[p].b] = NoDir]
BY ProgramFacts, OutFacts DEF EraseBatch, Still, tables, indexTables

-----------------------------------------------------------------------------
(* The steps of the recovery of interrupted builds.                        *)

LEMMA ListBuildingFacts ==
  ASSUME TInv, NEW p \in Programs, ListBuilding(p)
  PROVE  /\ proc[p].pc = "interrupted" /\ Still /\ UNCHANGED <<indexTables, dirs, lock>>
         /\ Moved(p) /\ proc'[p].pc = "inspect" /\ proc'[p].task = proc[p].task
         /\ proc'[p].todo = BatchesIn({"BUILDING"})
<1> DEFINE r == proc[p]
           f == BatchesIn({"BUILDING"})
           m == [r EXCEPT !.todo = f, !.pc = "inspect"]
<1>1. /\ r.pc = "interrupted" /\ Moves(p, m) /\ UNCHANGED rows /\ UNCHANGED snapshot
      /\ UNCHANGED <<indexTables, dirs, lock>>
  BY DEF ListBuilding, tables, indexTables
<1>2. r \in Locals /\ f \in SUBSET Batches
  BY ProgramFacts DEF BatchesIn
<1> HIDE DEF r, f
<1>3. m \in Locals /\ m.pc = "inspect" /\ m.task = r.task /\ m.todo = f
  BY <1>2 DEF Locals, Pcs, BuildPcs
<1> HIDE DEF m
<1>4. Moved(p) /\ proc'[p] = m
  BY <1>1, <1>3, ProgramFacts, MovesFacts
<1> QED BY <1>1, <1>3, <1>4 DEF r, f, Still, tables, indexTables

LEMMA InspectBatchFacts ==
  ASSUME TInv, NEW p \in Programs, InspectBatch(p)
  PROVE  LET b == Least(proc[p].todo)
         IN /\ proc[p].pc = "inspect" /\ proc[p].todo # {}
            /\ Still /\ UNCHANGED <<indexTables, dirs, lock>>
            /\ Moved(p) /\ proc'[p].task = proc[p].task /\ proc'[p].todo = proc[p].todo
            /\ \/ proc'[p].pc = "reset" /\ segment[b] = NoDir
               \/ /\ proc'[p].pc = "republish" /\ segment[b] # NoDir
                  /\ proc'[p].sha = segment[b].builder
               \/ proc'[p].pc = "discard" /\ segment[b] # NoDir
<1> DEFINE r == proc[p]
           b == Least(r.todo)
           h == segment[b].builder
           m(c) == [r EXCEPT !.sha = h, !.pc = c]
<1>1. /\ r.pc = "inspect" /\ r.todo # {} /\ UNCHANGED rows /\ UNCHANGED snapshot
      /\ UNCHANGED <<indexTables, dirs, lock>>
      /\ \/ Moves(p, m("reset")) /\ segment[b] = NoDir
         \/ Moves(p, m("republish")) /\ segment[b] # NoDir
         \/ Moves(p, m("discard")) /\ segment[b] # NoDir
  BY DEF InspectBatch, tables, indexTables
<1>2. r \in Locals /\ h \in Builders
  <2>1. Shape(p, r) /\ r \in Locals
    BY ProgramFacts
  <2>2. b \in Batches
    BY <1>1, <2>1, LeastBatch DEF Shape
  <2> QED BY <2>1, <2>2 DEF TInv, DirsType, Dirs
<1> HIDE DEF r, b, h
<1>3. ASSUME NEW c \in {"reset", "republish", "discard"}
      PROVE  m(c) \in Locals /\ m(c).pc = c /\ m(c).task = r.task /\ m(c).todo = r.todo /\ m(c).sha = h
  BY <1>2 DEF Locals, Pcs, BuildPcs
<1> HIDE DEF m
<1>4. /\ Moved(p)
      /\ \/ proc'[p] = m("reset") /\ segment[b] = NoDir
         \/ proc'[p] = m("republish") /\ segment[b] # NoDir
         \/ proc'[p] = m("discard") /\ segment[b] # NoDir
  BY <1>1, <1>3, ProgramFacts, MovesFacts
<1>5. /\ r.pc = "inspect" /\ r.todo # {} /\ Still /\ UNCHANGED <<indexTables, dirs, lock>>
      /\ Moved(p) /\ proc'[p].task = r.task /\ proc'[p].todo = r.todo
      /\ \/ proc'[p].pc = "reset" /\ segment[b] = NoDir
         \/ proc'[p].pc = "republish" /\ segment[b] # NoDir /\ proc'[p].sha = h
         \/ proc'[p].pc = "discard" /\ segment[b] # NoDir
  BY <1>1, <1>3, <1>4 DEF Still, tables, indexTables
<1> QED BY <1>5 DEF r, b, h

LEMMA HandledFacts ==
  ASSUME TInv, NEW p \in Programs
  PROVE  /\ Handled(p) \in Locals /\ Handled(p).pc = "inspect" /\ Handled(p).task = proc[p].task
         /\ Handled(p).todo = proc[p].todo \ {Least(proc[p].todo)}
<1> DEFINE r == proc[p]
           b == Least(r.todo)
           m == [r EXCEPT !.todo = r.todo \ {b}, !.pc = "inspect"]
<1>1. r \in Locals /\ Handled(p) = m
  BY ProgramFacts DEF Handled
<1> HIDE DEF r, b
<1>2. m \in Locals /\ m.pc = "inspect" /\ m.task = r.task /\ m.todo = r.todo \ {b}
  BY <1>1 DEF Locals, Pcs, BuildPcs
<1> HIDE DEF m
<1> QED BY <1>1, <1>2 DEF r, b

LEMMA ResetBatchFacts ==
  ASSUME TInv, NEW p \in Programs, ResetBatch(p)
  PROVE  /\ proc[p].pc = "reset" /\ Still /\ UNCHANGED dirs /\ archive' = archive
         /\ batch' \in {batch, ResetBuilding(Least(proc[p].todo))}
         /\ \/ Out(p)
            \/ /\ Moved(p) /\ proc'[p] = Handled(p) /\ lock' = lock /\ batch' # batch
<1>1. /\ ChangingStatement(p, Sent(p), Handled(p))
      /\ NewArchive(Sent(p)) = archive /\ NewBatch(Sent(p)) = ResetBuilding(Least(proc[p].todo))
  BY SentFacts DEF ResetBatch
<1>2. proc[p].pc = "reset" /\ Still /\ UNCHANGED dirs
  BY DEF ResetBatch, Still
<1> QED BY <1>1, <1>2, ProgramFacts, HandledFacts, ChangingCases

LEMMA RepublishFacts ==
  ASSUME TInv, NEW p \in Programs, Republish(p)
  PROVE  /\ proc[p].pc = "republish" /\ Still /\ UNCHANGED dirs
         /\ \/ /\ Moved(p) /\ proc'[p] = Handled(p) /\ lock' = lock
               /\ Published(Least(proc[p].todo), proc[p].sha)
            \/ Out(p) /\ Published(Least(proc[p].todo), proc[p].sha)
            \/ Out(p) /\ archive' = archive /\ batch' = batch
<1>1. ChangingStatement(p, Sql("ready", Least(proc[p].todo), NoArchive, proc[p].sha), Handled(p))
  BY SentFacts DEF Republish
<1>2. proc[p].pc = "republish" /\ Still /\ UNCHANGED dirs
  BY DEF Republish, Still
<1> QED BY <1>1, <1>2, ProgramFacts, HandledFacts, PublishCases

LEMMA DiscardFilesFacts ==
  ASSUME TInv, NEW p \in Programs, DiscardFiles(p)
  PROVE  /\ proc[p].pc = "discard" /\ Still /\ UNCHANGED <<indexTables, parsed, lock>>
         /\ building' = [building EXCEPT ![Least(proc[p].todo)] = NoDir]
         /\ segment' = [segment EXCEPT ![Least(proc[p].todo)] = NoDir]
         /\ Moved(p) /\ proc'[p] = Goto(p, "discarded")
<1>1. Goto(p, "discarded") \in Locals
  BY ProgramFacts, GotoFacts DEF Pcs, BuildPcs
<1> QED BY <1>1, ProgramFacts, MovesFacts DEF DiscardFiles, Still, tables, indexTables

LEMMA DiscardBatchFacts ==
  ASSUME TInv, NEW p \in Programs, DiscardBatch(p)
  PROVE  /\ proc[p].pc = "discarded" /\ Still /\ UNCHANGED dirs /\ archive' = archive
         /\ batch' \in {batch, BuildFailed(Least(proc[p].todo))}
         /\ \/ Out(p)
            \/ /\ Moved(p) /\ proc'[p] = Handled(p) /\ lock' = lock /\ batch' # batch
<1>1. /\ ChangingStatement(p, Sent(p), Handled(p))
      /\ NewArchive(Sent(p)) = archive /\ NewBatch(Sent(p)) = BuildFailed(Least(proc[p].todo))
  BY SentFacts DEF DiscardBatch
<1>2. proc[p].pc = "discarded" /\ Still /\ UNCHANGED dirs
  BY DEF DiscardBatch, Still
<1> QED BY <1>1, <1>2, ProgramFacts, HandledFacts, ChangingCases

-----------------------------------------------------------------------------
(* The steps of loading a snapshot.                                        *)

LEMMA CleanupBuildingFacts ==
  ASSUME TInv, NEW p \in Programs, CleanupBuilding(p)
  PROVE  /\ proc[p].pc = "cleanup" /\ Still /\ UNCHANGED <<indexTables, parsed, segment, lock>>
         /\ building' = [b \in Batches |-> NoDir]
         /\ Moved(p) /\ proc'[p] = Goto(p, "interrupted")
<1>1. Goto(p, "interrupted") \in Locals
  BY ProgramFacts, GotoFacts DEF Pcs, BuildPcs
<1> QED BY <1>1, ProgramFacts, MovesFacts DEF CleanupBuilding, Still, tables, indexTables

LEMMA RecoveredFacts ==
  ASSUME TInv, NEW p \in Programs, Recovered(p)
  PROVE  /\ proc[p].pc = "inspect" /\ proc[p].todo = {}
         /\ Still /\ UNCHANGED <<indexTables, dirs, lock>>
         /\ Moved(p) /\ proc'[p] \in {Goto(p, "list"), Goto(p, "pick")}
<1>1. Goto(p, "list") \in Locals /\ Goto(p, "pick") \in Locals
  BY ProgramFacts, GotoFacts DEF Pcs, BuildPcs
<1>2. Moves(p, Goto(p, "list")) \/ Moves(p, Goto(p, "pick"))
  BY DEF Recovered
<1> QED BY <1>1, <1>2, ProgramFacts, MovesFacts DEF Recovered, Still, tables, indexTables

LEMMA ListReadyFacts ==
  ASSUME TInv, NEW p \in Programs, ListReady(p)
  PROVE  /\ proc[p].pc = "list" /\ Still /\ UNCHANGED <<indexTables, dirs, lock>>
         /\ Moved(p) /\ proc'[p].pc = "load" /\ proc'[p].task = proc[p].task
         /\ proc'[p].list = {[b |-> b, sha |-> batch[b].sha] : b \in BatchesIn({"READY"})}
<1> DEFINE r == proc[p]
           f == {[b |-> b, sha |-> batch[b].sha] : b \in BatchesIn({"READY"})}
           m == [r EXCEPT !.pc = "load", !.list = f]
<1>1. /\ r.pc = "list" /\ Moves(p, m) /\ UNCHANGED rows /\ UNCHANGED snapshot
      /\ UNCHANGED <<indexTables, dirs, lock>>
  BY DEF ListReady, tables, indexTables
<1>2. r \in Locals
  BY ProgramFacts
<1>3. f \in SUBSET Listed
  <2>1. \A b \in BatchesIn({"READY"}) : b \in Batches /\ batch[b].sha \in Builders
    BY DEF BatchesIn, TInv, TablesType, BatchRows
  <2> QED BY <2>1 DEF Listed
<1> HIDE DEF r, f
<1>4. m \in Locals /\ m.pc = "load" /\ m.task = r.task /\ m.list = f
  BY <1>2, <1>3 DEF Locals, Pcs, BuildPcs
<1> HIDE DEF m
<1>5. Moved(p) /\ proc'[p] = m
  BY <1>1, <1>4, ProgramFacts, MovesFacts
<1> QED BY <1>1, <1>4, <1>5 DEF r, f, Still, tables, indexTables

LEMMA EnterFacts ==
  ASSUME TInv, NEW p \in Programs, NEW c \in Pcs,
         NEW t \in {"none", "start", "poll", "scan", "rebuild", "reload", "build"}, Enter(p, t, c)
  PROVE  Moved(p) /\ proc'[p].pc = c /\ proc'[p].task = t /\ proc'[p].b = NoBatch
<1>1. Moves(p, Starting(t, NoBatch, c))
  BY DEF Enter
<1>2. /\ Starting(t, NoBatch, c) \in Locals /\ Starting(t, NoBatch, c).pc = c
      /\ Starting(t, NoBatch, c).task = t /\ Starting(t, NoBatch, c).b = NoBatch
  BY StartingFacts
<1>3. Moved(p) /\ proc'[p] = Starting(t, NoBatch, c)
  BY <1>1, <1>2, ProgramFacts, MovesFacts
<1> QED BY <1>2, <1>3

LEMMA RestFacts ==
  ASSUME TInv, NEW p \in Programs, NEW c \in {"idle", "down"}, Moves(p, Resting(c))
  PROVE  Moved(p) /\ proc'[p].pc = c /\ proc'[p].task = "none"
<1>1. Resting(c) \in Locals /\ Resting(c).pc = c /\ Resting(c).task = "none"
  BY RestingFacts, PcFacts
<1>2. Moved(p) /\ proc'[p] = Resting(c)
  BY <1>1, ProgramFacts, MovesFacts
<1> QED BY <1>1, <1>2

LEMMA LoadSnapshotFacts ==
  ASSUME TInv, NEW p \in Programs, LoadSnapshot(p)
  PROVE  /\ proc[p].pc = "load" /\ UNCHANGED <<rows, indexTables, dirs>>
         /\ \/ /\ \A r \in proc[p].list : Loads(r)
               /\ snapshot' = IF p = "server" THEN Loaded(p) ELSE snapshot
               /\ Moved(p) /\ lock' = lock
               /\ \/ proc[p].task = "reload" /\ proc'[p].pc = "interrupted" /\ proc'[p].task = "build"
                  \/ proc[p].task = "build" /\ proc'[p].pc = "down" /\ proc'[p].task = "none"
                  \/ /\ proc[p].task \notin {"reload", "build"}
                     /\ proc'[p].pc = "idle" /\ proc'[p].task = "none"
            \/ Out(p) /\ snapshot' = snapshot
<1>1. proc[p].pc = "load" /\ UNCHANGED <<rows, indexTables, dirs>>
  BY DEF LoadSnapshot, tables, indexTables
<1>2. CASE \A r \in proc[p].list : Loads(r)
  <2>1. snapshot' = (IF p = "server" THEN Loaded(p) ELSE snapshot) /\ lock' = lock
    BY <1>2 DEF LoadSnapshot
  <2>2. \/ proc[p].task = "reload" /\ Enter(p, "build", "interrupted")
        \/ proc[p].task = "build" /\ Moves(p, Resting("down"))
        \/ proc[p].task \notin {"reload", "build"} /\ Moves(p, Resting("idle"))
    <3>1. CASE proc[p].task = "reload"
      BY <1>2, <3>1 DEF LoadSnapshot
    <3>2. CASE proc[p].task = "build"
      BY <1>2, <3>2 DEF LoadSnapshot
    <3>3. CASE proc[p].task \notin {"reload", "build"}
      BY <1>2, <3>3 DEF LoadSnapshot
    <3> QED BY <3>1, <3>2, <3>3
  <2>3. CASE proc[p].task = "reload" /\ Enter(p, "build", "interrupted")
    BY <1>1, <1>2, <2>1, <2>3, EnterFacts DEF Pcs, BuildPcs
  <2>4. CASE proc[p].task = "build" /\ Moves(p, Resting("down"))
    BY <1>1, <1>2, <2>1, <2>4, RestFacts
  <2>5. CASE proc[p].task \notin {"reload", "build"} /\ Moves(p, Resting("idle"))
    BY <1>1, <1>2, <2>1, <2>5, RestFacts
  <2> QED BY <2>2, <2>3, <2>4, <2>5
<1>3. CASE ~\A r \in proc[p].list : Loads(r)
  BY <1>1, <1>3, ProgramFacts, OutFacts DEF LoadSnapshot
<1> QED BY <1>2, <1>3

-----------------------------------------------------------------------------
(* The steps of a build.                                                   *)

LEMMA PickBatchFacts ==
  ASSUME TInv, NEW p \in Programs, PickBatch(p)
  PROVE  /\ proc[p].pc = "pick" /\ Still /\ UNCHANGED <<indexTables, dirs>>
         /\ \/ Out(p)
            \/ /\ BatchesIn({"PARSED"}) # {} /\ Moved(p) /\ lock' = lock
               /\ proc'[p].pc = "claim" /\ proc'[p].task = proc[p].task
               /\ proc'[p].b = Least(BatchesIn({"PARSED"}))
<1> DEFINE r == proc[p]
           f == BatchesIn({"PARSED"})
           b == Least(f)
           m == [r EXCEPT !.b = b, !.pc = "claim"]
<1>1. /\ r.pc = "pick" /\ UNCHANGED rows /\ UNCHANGED snapshot /\ UNCHANGED <<indexTables, dirs>>
      /\ Throw(p) \/ (f # {} /\ lock' = lock /\ Moves(p, m))
  BY DEF PickBatch, tables, indexTables
<1>2. r \in Locals /\ (f # {} => b \in Batches)
  BY ProgramFacts, LeastBatch DEF BatchesIn
<1> HIDE DEF r, b, f
<1>3. b \in Batches => m \in Locals /\ m.pc = "claim" /\ m.task = r.task /\ m.b = b
  BY <1>2 DEF Locals, Pcs, BuildPcs
<1> HIDE DEF m
<1>4. CASE Throw(p)
  BY <1>1, <1>4, ProgramFacts, OutFacts DEF r, Still, tables, indexTables
<1>5. CASE f # {} /\ lock' = lock /\ Moves(p, m)
  <2>1. Moved(p) /\ proc'[p] = m
    BY <1>2, <1>3, <1>5, ProgramFacts, MovesFacts
  <2> QED BY <1>1, <1>2, <1>3, <1>5, <2>1 DEF r, b, f, Still, tables, indexTables
<1> QED BY <1>1, <1>4, <1>5

LEMMA ClaimBatchFacts ==
  ASSUME TInv, NEW p \in Programs, ClaimBatch(p)
  PROVE  /\ proc[p].pc = "claim" /\ Still /\ UNCHANGED dirs /\ archive' = archive
         /\ batch' \in {batch, Claimed(proc[p].b)}
         /\ \/ Out(p)
            \/ Moved(p) /\ proc'[p] = Goto(p, "read") /\ lock' = lock /\ batch' # batch
<1>1. /\ ChangingStatement(p, Sent(p), Goto(p, "read"))
      /\ NewArchive(Sent(p)) = archive /\ NewBatch(Sent(p)) = Claimed(proc[p].b)
  BY SentFacts DEF ClaimBatch
<1>2. proc[p].pc = "claim" /\ Still /\ UNCHANGED dirs
  BY DEF ClaimBatch, Still
<1>3. Goto(p, "read") \in Locals
  BY ProgramFacts, GotoFacts DEF Pcs, BuildPcs
<1> QED BY <1>1, <1>2, <1>3, ProgramFacts, ChangingCases

LEMMA ReadParsedFacts ==
  ASSUME TInv, NEW p \in Programs, ReadParsed(p)
  PROVE  /\ proc[p].pc = "read" /\ Still /\ UNCHANGED <<indexTables, dirs, lock>>
         /\ Moved(p)
         /\ \/ /\ proc'[p].pc = "prepare" /\ proc'[p].task = proc[p].task /\ proc'[p].b = proc[p].b
               /\ proc'[p].good = parsed[proc[p].b]
            \/ proc'[p] = Goto(p, "abandon")
<1> DEFINE r == proc[p]
           g == parsed[r.b]
           m == [r EXCEPT !.good = g, !.pc = "prepare"]
<1>1. /\ r.pc = "read" /\ UNCHANGED rows /\ UNCHANGED snapshot /\ UNCHANGED <<indexTables, dirs, lock>>
      /\ Moves(p, m) \/ Moves(p, Goto(p, "abandon"))
  BY DEF ReadParsed, tables, indexTables
<1>2. Goto(p, "abandon") \in Locals
  BY ProgramFacts, GotoFacts DEF Pcs, BuildPcs
<1>3. r \in Locals /\ g \in SUBSET Archives
  <2>1. r \in Locals /\ Shape(p, r)
    BY ProgramFacts
  <2>2. r.b \in Batches
    BY <1>1, <2>1 DEF Shape
  <2> QED BY <2>1, <2>2 DEF TInv, DirsType
<1> HIDE DEF r, g
<1>4. m \in Locals /\ m.pc = "prepare" /\ m.task = r.task /\ m.b = r.b /\ m.good = g
  BY <1>3 DEF Locals, Pcs, BuildPcs
<1> HIDE DEF m
<1>5. Moved(p) /\ (proc'[p] = m \/ proc'[p] = Goto(p, "abandon"))
  BY <1>1, <1>2, <1>4, ProgramFacts, MovesFacts
<1> QED BY <1>1, <1>4, <1>5 DEF r, g, Still, tables, indexTables

LEMMA PrepareDirectoryFacts ==
  ASSUME TInv, NEW p \in Programs, PrepareDirectory(p)
  PROVE  /\ proc[p].pc = "prepare" /\ Still /\ UNCHANGED <<indexTables, parsed, lock>>
         /\ segment' = [segment EXCEPT ![proc[p].b] = NoDir] /\ Moved(p)
         /\ \/ /\ building' = [building EXCEPT ![proc[p].b] =
                                 [builder |-> p, archives |-> proc[p].good, intact |-> FALSE]]
               /\ proc'[p] = Goto(p, "store")
            \/ /\ building' = [building EXCEPT ![proc[p].b] = NoDir]
               /\ proc'[p] = Goto(p, "abandon")
<1>1. Goto(p, "abandon") \in Locals /\ Goto(p, "store") \in Locals
  BY ProgramFacts, GotoFacts DEF Pcs, BuildPcs
<1> QED BY <1>1, ProgramFacts, MovesFacts DEF PrepareDirectory, Still, tables, indexTables

LEMMA StoreFilesFacts ==
  ASSUME TInv, NEW p \in Programs, StoreFiles(p)
  PROVE  /\ proc[p].pc = "store" /\ Still /\ UNCHANGED <<indexTables, parsed, segment, lock>>
         /\ Moved(p)
         /\ \/ /\ building[proc[p].b].builder = p /\ proc'[p] = Goto(p, "rename")
               /\ building' = [building EXCEPT ![proc[p].b] =
                                 [building[proc[p].b] EXCEPT !.intact = TRUE]]
            \/ /\ building' = [building EXCEPT ![proc[p].b] = NoDir]
               /\ proc'[p] = Goto(p, "abandon")
<1>1. Goto(p, "abandon") \in Locals /\ Goto(p, "rename") \in Locals
  BY ProgramFacts, GotoFacts DEF Pcs, BuildPcs
<1> QED BY <1>1, ProgramFacts, MovesFacts DEF StoreFiles, Still, tables, indexTables

LEMMA RenameDirectoryFacts ==
  ASSUME TInv, NEW p \in Programs, RenameDirectory(p)
  PROVE  /\ proc[p].pc = "rename" /\ Still /\ UNCHANGED <<indexTables, parsed, lock>>
         /\ building' = [building EXCEPT ![proc[p].b] = NoDir] /\ Moved(p)
         /\ \/ /\ building[proc[p].b] # NoDir /\ segment[proc[p].b] = NoDir
               /\ segment' = [segment EXCEPT ![proc[p].b] = building[proc[p].b]]
               /\ proc'[p] = Goto(p, "publish")
            \/ segment' = segment /\ proc'[p] = Goto(p, "abandon")
<1>1. Goto(p, "abandon") \in Locals /\ Goto(p, "publish") \in Locals
  BY ProgramFacts, GotoFacts DEF Pcs, BuildPcs
<1> QED BY <1>1, ProgramFacts, MovesFacts DEF RenameDirectory, Still, tables, indexTables

LEMMA PublishBatchFacts ==
  ASSUME TInv, NEW p \in Programs, PublishBatch(p)
  PROVE  /\ proc[p].pc = "publish" /\ Still /\ UNCHANGED dirs
         /\ \/ Moved(p) /\ proc'[p] = Goto(p, "list") /\ lock' = lock /\ Published(proc[p].b, p)
            \/ Out(p) /\ Published(proc[p].b, p)
            \/ Out(p) /\ archive' = archive /\ batch' = batch
<1>1. ChangingStatement(p, Sql("ready", proc[p].b, NoArchive, p), Goto(p, "list"))
  BY SentFacts DEF PublishBatch
<1>2. proc[p].pc = "publish" /\ Still /\ UNCHANGED dirs
  BY DEF PublishBatch, Still
<1>3. Goto(p, "list") \in Locals
  BY ProgramFacts, GotoFacts DEF Pcs, BuildPcs
<1> QED BY <1>1, <1>2, <1>3, ProgramFacts, PublishCases

LEMMA AbandonFilesFacts ==
  ASSUME TInv, NEW p \in Programs, AbandonFiles(p)
  PROVE  /\ proc[p].pc = "abandon" /\ Still /\ UNCHANGED <<indexTables, parsed, lock>>
         /\ building' = [building EXCEPT ![proc[p].b] = NoDir]
         /\ segment' = [segment EXCEPT ![proc[p].b] = NoDir]
         /\ Moved(p) /\ proc'[p] = Goto(p, "abandoned")
<1>1. Goto(p, "abandoned") \in Locals
  BY ProgramFacts, GotoFacts DEF Pcs, BuildPcs
<1> QED BY <1>1, ProgramFacts, MovesFacts DEF AbandonFiles, Still, tables, indexTables

LEMMA AbandonBatchFacts ==
  ASSUME TInv, NEW p \in Programs, AbandonBatch(p)
  PROVE  /\ proc[p].pc = "abandoned" /\ Still /\ UNCHANGED dirs /\ archive' = archive
         /\ batch' \in {batch, BuildFailed(proc[p].b)} /\ Out(p)
<1>1. /\ ChangingStatement(p, Sent(p), Thrown(p))
      /\ NewArchive(Sent(p)) = archive /\ NewBatch(Sent(p)) = BuildFailed(proc[p].b)
  BY SentFacts DEF AbandonBatch
<1>2. proc[p].pc = "abandoned" /\ Still /\ UNCHANGED dirs
  BY DEF AbandonBatch, Still
<1> DEFINE c == IF proc[p].task = "poll" THEN "idle" ELSE "down"
<1>3. Thrown(p) = Resting(c) /\ c \in Pcs
  BY PcFacts DEF Thrown
<1>4. Thrown(p) \in Locals /\ Thrown(p).pc = c /\ Thrown(p).task = "none"
  BY <1>3, RestingFacts
<1> QED BY <1>1, <1>2, <1>4, ProgramFacts, ChangingCases DEF Out

LEMMA IoFailsFacts ==
  ASSUME TInv, NEW p \in Programs, IoFails(p)
  PROVE  proc[p].pc \in LockPcs \cup BuildPcs /\ Still /\ UNCHANGED <<indexTables, dirs>> /\ Out(p)
BY ProgramFacts, OutFacts DEF IoFails, Still, LockPcs, BuildPcs, tables, indexTables

-----------------------------------------------------------------------------
(* The steps that start an operation, and the crash of a program.          *)

\* Program p takes the flock, or finds it taken.
Tried(p, task, pc) ==
  /\ Moved(p)
  /\ \/ lock = "free" /\ lock' = p /\ proc'[p].pc = pc /\ proc'[p].task = task
     \/ lock' = lock /\ proc'[p].task = "none"
        /\ proc'[p].pc = IF task = "poll" THEN "idle" ELSE "down"

LEMMA AcquireFacts ==
  ASSUME TInv, NEW p \in Programs, NEW t \in {"start", "poll", "scan"}, Acquire(p, t, "recover")
  PROVE  Tried(p, t, "recover")
<1>1. CASE lock = "free" /\ lock' = p /\ Enter(p, t, "recover")
  BY <1>1, EnterFacts DEF Pcs, LockPcs, Tried
<1>2. CASE lock' = lock /\ Moves(p, Resting(IF t = "poll" THEN "idle" ELSE "down"))
  <2> DEFINE c == IF t = "poll" THEN "idle" ELSE "down"
  <2>1. c \in {"idle", "down"} /\ Moves(p, Resting(c))
    BY <1>2
  <2> HIDE DEF c
  <2>2. Moved(p) /\ proc'[p].pc = c /\ proc'[p].task = "none"
    BY <2>1, RestFacts
  <2> QED BY <1>2, <2>2 DEF c, Tried
<1> QED BY <1>1, <1>2 DEF Acquire

LEMMA ServerStartFacts ==
  ASSUME TInv, ServerStart
  PROVE  /\ proc["server"].pc = "down"
         /\ Still /\ UNCHANGED <<indexTables, dirs>> /\ Tried("server", "start", "recover")
BY AcquireFacts DEF ServerStart, Still, Programs, tables, indexTables

LEMMA PollFacts ==
  ASSUME TInv, Poll
  PROVE  /\ proc["server"].pc = "idle"
         /\ Still /\ UNCHANGED <<indexTables, dirs>> /\ Tried("server", "poll", "recover")
BY AcquireFacts DEF Poll, Still, Programs, tables, indexTables

LEMMA AdminCommandFacts ==
  ASSUME TInv, AdminCommand
  PROVE  /\ proc["admin"].pc = "down" /\ Still /\ UNCHANGED <<indexTables, dirs>>
         /\ \/ Tried("admin", "scan", "recover")
            \/ /\ Moved("admin") /\ lock = "free" /\ lock' = "admin"
               /\ proc'["admin"].pc = "retract" /\ proc'["admin"].task = "rebuild"
               /\ \E a \in Archives : archive[a].batch # NoBatch /\ proc'["admin"].b = archive[a].batch
            \/ lock' = lock /\ proc' = proc
            \/ /\ Moved("admin") /\ lock' = lock /\ Spend({"commands"} \cup Overlap("admin"))
               /\ proc'["admin"].pc = "cleanup" /\ proc'["admin"].task = "reload"
<1>1. proc["admin"].pc = "down" /\ Still /\ UNCHANGED <<indexTables, dirs>> /\ "admin" \in Programs
  BY DEF AdminCommand, Still, Programs, tables, indexTables
<1>2. CASE Acquire("admin", "scan", "recover")
  BY <1>1, <1>2, AcquireFacts
<1>3. ASSUME NEW a \in Archives, archive[a].batch # NoBatch, lock = "free", lock' = "admin",
             Moves("admin", Starting("rebuild", archive[a].batch, "retract"))
      PROVE  /\ Moved("admin") /\ proc'["admin"].pc = "retract" /\ proc'["admin"].task = "rebuild"
             /\ proc'["admin"].b = archive[a].batch
  <2> DEFINE k == archive[a].batch
             m == Starting("rebuild", k, "retract")
  <2>1. k \in Batches
    BY <1>1, <1>3 DEF TInv, TablesType, ArchiveRows
  <2>2. Moves("admin", m)
    BY <1>3
  <2> HIDE DEF k
  <2>3. m \in Locals /\ m.pc = "retract" /\ m.task = "rebuild" /\ m.b = k
    BY <2>1, StartingFacts, PcFacts DEF LockPcs
  <2> HIDE DEF m
  <2>4. Moved("admin") /\ proc'["admin"] = m
    BY <1>1, <2>2, <2>3, ProgramFacts, MovesFacts
  <2> QED BY <2>3, <2>4 DEF k
<1>4. CASE Enter("admin", "reload", "cleanup") /\ lock' = lock
           /\ Spend({"commands"} \cup Overlap("admin"))
  BY <1>1, <1>4, EnterFacts, PcFacts DEF BuildPcs
<1>5. \/ Acquire("admin", "scan", "recover")
      \/ \E a \in Archives :
           \/ archive[a].batch # NoBatch /\ lock = "free" /\ lock' = "admin"
              /\ Moves("admin", Starting("rebuild", archive[a].batch, "retract"))
           \/ lock' = lock /\ proc' = proc
      \/ /\ Enter("admin", "reload", "cleanup") /\ lock' = lock
         /\ Spend({"commands"} \cup Overlap("admin"))
  BY DEF AdminCommand
<1> QED BY <1>1, <1>2, <1>3, <1>4, <1>5

LEMMA CrashFacts ==
  ASSUME TInv, NEW p \in Programs, Crash(p)
  PROVE  /\ UNCHANGED <<rows, indexTables, dirs>> /\ lock' = Unlocked(p)
         /\ Moved(p) /\ proc'[p].pc = "down" /\ proc'[p].task = "none"
         /\ snapshot' = IF p = "server" THEN EmptySnapshot ELSE snapshot
BY RestFacts DEF Crash, Delayed, indexTables

-----------------------------------------------------------------------------
(* The shape of the state is kept.                                         *)

LEMMA NoDirType == NoDir \in Dirs
BY DEF NoDir, Dirs, Builders

LEMMA SameTables == ASSUME TInv, UNCHANGED indexTables PROVE TablesType'
BY DEF TInv, TablesType, indexTables

LEMMA SameDirs == ASSUME TInv, UNCHANGED dirs PROVE DirsType'
BY DEF TInv, DirsType, dirs

LEMMA ShapeKeeps ==
  ASSUME TInv, NEW p \in Programs, Moved(p), Shape(p, proc'[p]),
         lock' \in {lock, Unlocked(p)} \/ (lock = "free" /\ lock' = p),
         proc'[p].pc \in LockPcs => lock' = p,
         UNCHANGED rows, TablesType', DirsType', DOMAIN snapshot' \subseteq Batches
  PROVE  TInv'
<1>1. /\ \A q \in Programs : Shape(q, proc[q]) /\ (proc[q].pc \in LockPcs => lock = q)
      /\ proc' \in [Programs -> Locals] /\ \A q \in Programs : q # p => proc'[q] = proc[q]
      /\ lock \in {"free", "server", "admin"} /\ p \in {"server", "admin"}
  BY DEF TInv, ProcType, Moved, Programs
<1>2. lock' \in {"free", "server", "admin"}
  BY <1>1 DEF Unlocked
<1>3. ASSUME NEW q \in Programs
      PROVE  Shape(q, proc'[q]) /\ (proc'[q].pc \in LockPcs => lock' = q)
  <2>1. CASE q = p
    BY <2>1
  <2>2. CASE q # p
    BY <1>1, <2>2 DEF Unlocked, Programs
  <2> QED BY <2>1, <2>2
<1>4. \A q \in Programs : Shape(q, proc'[q]) = Shape(q, proc[q])'
  BY DEF Shape
<1>5. ProcType'
  BY <1>1, <1>2, <1>3, <1>4 DEF ProcType
<1>6. RowsType'
  BY DEF TInv, RowsType, rows
<1> QED BY <1>5, <1>6 DEF TInv

\* A step to a point of the same kind, with the lists that go with it.
LEMMA GoKeeps ==
  ASSUME TInv, NEW p \in Programs, Moved(p), lock' = lock, Shape(p, proc'[p]),
         proc'[p].pc \in LockPcs => proc[p].pc \in LockPcs,
         Still, TablesType', DirsType'
  PROVE  TInv'
<1>1. DOMAIN snapshot' \subseteq Batches /\ UNCHANGED rows
  BY DEF TInv, Still
<1>2. proc'[p].pc \in LockPcs => lock' = p
  BY ProgramFacts
<1> QED BY <1>1, <1>2, ShapeKeeps

LEMMA IdleShape ==
  ASSUME NEW p \in Programs, NEW m, m.pc \in {"idle", "down"}, m.task = "none"
  PROVE  Shape(p, m) /\ m.pc \notin LockPcs
<1>1. m.pc \notin LockPcs /\ m.pc \notin BuildPcs
  BY PcFacts
<1> QED BY <1>1 DEF Shape

LEMMA OutKeeps ==
  ASSUME TInv, NEW p \in Programs, Out(p), Still, TablesType', DirsType'
  PROVE  TInv'
<1>1. DOMAIN snapshot' \subseteq Batches /\ UNCHANGED rows
  BY DEF TInv, Still
<1>2. Shape(p, proc'[p]) /\ proc'[p].pc \notin LockPcs
  BY IdleShape DEF Out
<1> QED BY <1>1, <1>2, ShapeKeeps DEF Out

LEMMA EndKeeps ==
  ASSUME TInv, NEW p \in Programs, Ended(p), proc[p].pc \in LockPcs, Still, TablesType', DirsType'
  PROVE  TInv'
<1>1. DOMAIN snapshot' \subseteq Batches /\ UNCHANGED rows
  BY DEF TInv, Still
<1>2. lock = p /\ lock' = Unlocked(p) /\ Shape(p, proc[p])
  BY ProgramFacts DEF Ended, Unlocked
<1>3. CASE proc'[p].pc = "interrupted" /\ proc'[p].task = "poll" /\ proc[p].task = "poll"
  <2>1. Shape(p, proc'[p]) /\ proc'[p].pc \notin LockPcs
    BY <1>2, <1>3 DEF Shape, LockPcs, Programs
  <2> QED BY <1>1, <1>2, <2>1, ShapeKeeps DEF Ended
<1>4. CASE proc'[p].pc = "down" /\ proc'[p].task = "none"
  <2>1. Shape(p, proc'[p]) /\ proc'[p].pc \notin LockPcs
    BY <1>4, IdleShape
  <2> QED BY <1>1, <1>2, <2>1, ShapeKeeps DEF Ended
<1> QED BY <1>3, <1>4 DEF Ended

LEMMA OneBatchFails ==
  ASSUME TInv, NEW b \in Batches, archive' = archive,
         batch' \in {batch, BatchState(b, "FAILED"), BatchState(b, "PARSED"),
                     BatchState(b, "PARSING"), BatchState(b, "BUILDING")}
  PROVE  TablesType'
<1>1. TablesType
  BY DEF TInv
<1> QED BY <1>1, BatchStateType DEF TablesType

LEMMA SomeArchivesChange ==
  ASSUME TInv, NEW S, batch' = batch,
         archive' \in {archive, ArchiveStates(S, "FAILED"), ArchiveStates(S, "PARSED"),
                       ArchiveStates(S, "PENDING")}
  PROVE  TablesType'
<1>1. TablesType
  BY DEF TInv
<1> QED BY <1>1, ArchiveStatesType DEF TablesType

LEMMA RecoveryType ==
  ASSUME TInv, NEW p \in Programs,
         RecoverList(p) \/ RecoverArchives(p) \/ RecoverBatch(p) \/ RecoverFiles(p)
  PROVE  TInv'
<1>0. Shape(p, proc[p]) /\ proc \in [Programs -> Locals]
  BY ProgramFacts
<1>1. CASE RecoverList(p)
  <2>1. TablesType' /\ DirsType'
    BY <1>1, RecoverListFacts, SameTables, SameDirs
  <2>2. Shape(p, proc'[p])
    BY <1>0, <1>1, RecoverListFacts DEF Shape, LockPcs, BuildPcs, BatchesIn
  <2> QED BY <1>1, <2>1, <2>2, RecoverListFacts, GoKeeps DEF LockPcs
<1>2. CASE RecoverArchives(p)
  <2>1. TablesType' /\ DirsType'
    BY <1>2, RecoverArchivesFacts, SomeArchivesChange, SameDirs DEF InterruptedArchives
  <2>2. CASE proc'[p] = Goto(p, "recoverBatch") /\ Moved(p) /\ lock' = lock
    <3>1. /\ proc'[p].pc = "recoverBatch" /\ proc'[p].task = proc[p].task
          /\ proc'[p].ids = proc[p].ids /\ proc'[p].todo = proc[p].todo
      BY <1>0, <2>2, GotoFacts DEF Pcs, LockPcs
    <3>2. Shape(p, proc'[p])
      BY <1>0, <1>2, <3>1, RecoverArchivesFacts DEF Shape, LockPcs, BuildPcs
    <3> QED BY <1>2, <2>1, <2>2, <3>1, <3>2, RecoverArchivesFacts, GoKeeps DEF LockPcs
  <2> QED BY <1>2, <2>1, <2>2, RecoverArchivesFacts, OutKeeps
<1>3. CASE RecoverBatch(p)
  <2>1. Least(proc[p].todo) \in Batches
    BY <1>0, <1>3, RecoverBatchFacts, LeastBatch DEF Shape
  <2>2. TablesType' /\ DirsType'
    BY <1>3, <2>1, RecoverBatchFacts, OneBatchFails, SameDirs
  <2>3. CASE ~Out(p)
    <3>1. Shape(p, proc'[p])
      BY <1>0, <1>3, <2>3, RecoverBatchFacts DEF Shape, LockPcs, BuildPcs
    <3> QED BY <1>3, <2>2, <2>3, <3>1, RecoverBatchFacts, GoKeeps DEF LockPcs
  <2> QED BY <1>3, <2>2, <2>3, RecoverBatchFacts, OutKeeps
<1>4. CASE RecoverFiles(p)
  <2>1. TablesType' /\ DirsType'
    <3>1. TablesType'
      BY <1>4, RecoverFilesFacts, SameTables
    <3>2. \A b \in Batches : parsed[b] \in SUBSET Archives
      BY DEF TInv, DirsType
    <3>3. parsed' \in [Batches -> SUBSET Archives]
      BY <1>4, <3>2, RecoverFilesFacts
    <3> QED BY <1>4, <3>1, <3>3, RecoverFilesFacts DEF TInv, DirsType
  <2>2. CASE proc[p].task = "start" /\ proc'[p] = Goto(p, "cleanup") /\ lock' = "free"
    <3>1. proc'[p].pc = "cleanup" /\ proc'[p].task = proc[p].task
      BY <1>0, <2>2, GotoFacts DEF Pcs, BuildPcs
    <3>2. Shape(p, proc'[p]) /\ proc'[p].pc \notin LockPcs
      BY <1>0, <2>2, <3>1 DEF Shape, LockPcs
    <3>3. lock' = Unlocked(p) /\ DOMAIN snapshot' \subseteq Batches /\ UNCHANGED rows
      BY <1>4, <2>2, ProgramFacts, RecoverFilesFacts DEF Unlocked, LockPcs, Still, TInv
    <3> QED BY <1>4, <2>1, <3>2, <3>3, RecoverFilesFacts, ShapeKeeps
  <2>3. CASE proc'[p] = Goto(p, "select") /\ lock' = lock
    <3>1. proc'[p].pc = "select" /\ proc'[p].task = proc[p].task
      BY <1>0, <2>3, GotoFacts DEF Pcs, LockPcs
    <3>2. Shape(p, proc'[p])
      BY <1>0, <1>4, <3>1, RecoverFilesFacts DEF Shape, LockPcs, BuildPcs
    <3> QED BY <1>4, <2>1, <2>3, <3>1, <3>2, RecoverFilesFacts, GoKeeps DEF LockPcs
  <2> QED BY <1>4, <2>2, <2>3, RecoverFilesFacts
<1> QED BY <1>1, <1>2, <1>3, <1>4

LEMMA ScanType ==
  ASSUME TInv, NEW p \in Programs,
         Select(p) \/ CreateBatch(p) \/ AttachArchive(p) \/ WriteParsed(p)
  PROVE  TInv'
<1>0. Shape(p, proc[p]) /\ proc \in [Programs -> Locals]
  BY ProgramFacts
<1>1. CASE Select(p)
  <2>1. TablesType' /\ DirsType'
    BY <1>1, SelectFacts, SameTables, SameDirs
  <2>2. Selected \subseteq Archives
    BY DEF Selected, UpTo, ListPending, ListAfter, TInv, RowsType
  <2>3. \A bad : Outcomes(Selected, bad) \subseteq Archives
    BY <2>2 DEF Outcomes
  <2>4. CASE ~Ended(p)
    <3>1. proc'[p].pc = "create" /\ proc'[p].task = proc[p].task /\ proc'[p].ids \subseteq Archives
          /\ proc'[p].todo \subseteq Archives /\ Moved(p) /\ lock' = lock
      BY <1>1, <2>3, <2>4, SelectFacts
    <3>2. Shape(p, proc'[p])
      BY <1>0, <1>1, <3>1, SelectFacts DEF Shape, LockPcs, BuildPcs
    <3> QED BY <1>1, <2>1, <3>1, <3>2, SelectFacts, GoKeeps DEF LockPcs
  <2>5. CASE Ended(p)
    BY <1>1, <2>1, <2>5, SelectFacts, EndKeeps DEF LockPcs
  <2> QED BY <2>4, <2>5
<1>2. CASE CreateBatch(p)
  <2>1. Least(Unused) \in Batches
    BY <1>2, CreateBatchFacts, LeastBatch DEF Unused, BatchesIn
  <2>2. TablesType' /\ DirsType'
    BY <1>2, <2>1, CreateBatchFacts, OneBatchFails, SameDirs DEF Created
  <2>3. CASE ~Out(p)
    <3>1. Shape(p, proc'[p])
      BY <1>0, <1>2, <2>1, <2>3, CreateBatchFacts DEF Shape, LockPcs, BuildPcs
    <3> QED BY <1>2, <2>2, <2>3, <3>1, CreateBatchFacts, GoKeeps DEF LockPcs
  <2> QED BY <1>2, <2>2, <2>3, CreateBatchFacts, OutKeeps
<1>3. CASE AttachArchive(p)
  <2> DEFINE a == Least(proc[p].todo)
  <2>1. a \in Archives /\ proc[p].b \in Batches
    BY <1>0, <1>3, AttachArchiveFacts, LeastArchive DEF Shape
  <2>2. batch' = batch /\ archive' \in {archive, Attached(a, proc[p].b)}
    BY <1>3, AttachArchiveFacts
  <2>3. TablesType' /\ DirsType'
    <3>1. TablesType /\ DirsType'
      BY <1>3, AttachArchiveFacts, SameDirs DEF TInv
    <3> HIDE DEF a
    <3> QED BY <2>1, <2>2, <3>1 DEF TablesType, ArchiveRows, Attached
  <2>4. CASE ~Out(p)
    <3>1. Shape(p, proc'[p])
      BY <1>0, <1>3, <2>4, AttachArchiveFacts DEF Shape, LockPcs, BuildPcs
    <3> QED BY <1>3, <2>3, <2>4, <3>1, AttachArchiveFacts, GoKeeps DEF LockPcs
  <2> QED BY <1>3, <2>3, <2>4, AttachArchiveFacts, OutKeeps
<1>4. CASE WriteParsed(p)
  <2>1. TablesType' /\ DirsType'
    <3>1. TablesType'
      BY <1>4, WriteParsedFacts, SameTables
    <3>2. parsed' \in [Batches -> SUBSET Archives]
      BY <1>4, WriteParsedFacts, ProgramFacts DEF TInv, DirsType
    <3> QED BY <1>4, <3>1, <3>2, WriteParsedFacts DEF TInv, DirsType
  <2>2. Shape(p, proc'[p])
    BY <1>0, <1>4, WriteParsedFacts DEF Shape, LockPcs, BuildPcs
  <2> QED BY <1>4, <2>1, <2>2, WriteParsedFacts, GoKeeps DEF LockPcs
<1> QED BY <1>1, <1>2, <1>3, <1>4

LEMMA MarkType ==
  ASSUME TInv, NEW p \in Programs, MarkArchive(p) \/ FinishScan(p) \/ MarkUnwritten(p)
  PROVE  TInv'
<1>0. Shape(p, proc[p]) /\ proc \in [Programs -> Locals]
  BY ProgramFacts
<1>1. CASE MarkArchive(p)
  <2>1. TablesType' /\ DirsType'
    BY <1>1, MarkArchiveFacts, SomeArchivesChange, SameDirs DEF MarkedArchive
  <2>2. CASE ~Out(p)
    <3>1. Shape(p, proc'[p])
      BY <1>0, <1>1, <2>2, MarkArchiveFacts DEF Shape, LockPcs, BuildPcs
    <3> QED BY <1>1, <2>1, <2>2, <3>1, MarkArchiveFacts, GoKeeps DEF LockPcs
  <2> QED BY <1>1, <2>1, <2>2, MarkArchiveFacts, OutKeeps
<1>2. CASE FinishScan(p)
  <2>1. proc[p].b \in Batches /\ proc[p].pc \in LockPcs
    BY <1>0, <1>2, FinishScanFacts DEF Shape, LockPcs
  <2>2. TablesType' /\ DirsType'
    BY <1>2, <2>1, FinishScanFacts, OneBatchFails, SameDirs DEF MarkedBatch
  <2> QED BY <1>2, <2>1, <2>2, FinishScanFacts, OutKeeps, EndKeeps
<1>3. CASE MarkUnwritten(p)
  <2>1. proc[p].b \in Batches
    BY <1>0, <1>3, MarkUnwrittenFacts DEF Shape
  <2>2. CASE proc[p].todo = {}
    <3>1. TablesType' /\ DirsType'
      BY <1>3, <2>1, <2>2, MarkUnwrittenFacts, OneBatchFails, SameDirs DEF MarkedBatch
    <3> QED BY <1>3, <2>2, <3>1, MarkUnwrittenFacts, OutKeeps
  <2>3. CASE proc[p].todo # {}
    <3>1. TablesType' /\ DirsType'
      BY <1>3, <2>3, MarkUnwrittenFacts, SomeArchivesChange, SameDirs DEF MarkedArchive
    <3>2. Shape(p, proc'[p])
      BY <1>0, <1>3, <2>3, MarkUnwrittenFacts DEF Shape, LockPcs, BuildPcs
    <3> QED BY <1>3, <2>3, <3>1, <3>2, MarkUnwrittenFacts, GoKeeps DEF LockPcs
  <2> QED BY <2>2, <2>3
<1> QED BY <1>1, <1>2, <1>3

LEMMA RebuildType ==
  ASSUME TInv, NEW p \in Programs, RetractBatch(p) \/ RequeueArchives(p) \/ EraseBatch(p)
  PROVE  TInv'
<1>0. Shape(p, proc[p]) /\ proc \in [Programs -> Locals]
  BY ProgramFacts
<1>1. CASE RetractBatch(p)
  <2>1. proc[p].b \in Batches
    BY <1>0, <1>1, RetractBatchFacts DEF Shape
  <2>2. TablesType' /\ DirsType'
    BY <1>1, <2>1, RetractBatchFacts, OneBatchFails, SameDirs
  <2>3. CASE proc'[p] = Goto(p, "requeue") /\ Moved(p) /\ lock' = lock
    <3>1. proc'[p].pc = "requeue" /\ proc'[p].task = proc[p].task /\ proc'[p].b = proc[p].b
      BY <1>0, <2>3, GotoFacts DEF Pcs, LockPcs
    <3>2. Shape(p, proc'[p])
      BY <1>0, <1>1, <3>1, RetractBatchFacts DEF Shape, LockPcs, BuildPcs
    <3> QED BY <1>1, <2>2, <2>3, <3>1, <3>2, RetractBatchFacts, GoKeeps DEF LockPcs
  <2> QED BY <1>1, <2>2, <2>3, RetractBatchFacts, OutKeeps
<1>2. CASE RequeueArchives(p)
  <2>2. TablesType' /\ DirsType'
    BY <1>2, RequeueArchivesFacts, SomeArchivesChange, SameDirs DEF Requeued
  <2>3. CASE proc'[p] = Goto(p, "erase") /\ Moved(p) /\ lock' = lock
    <3>1. proc'[p].pc = "erase" /\ proc'[p].task = proc[p].task /\ proc'[p].b = proc[p].b
      BY <1>0, <2>3, GotoFacts DEF Pcs, LockPcs
    <3>2. Shape(p, proc'[p])
      BY <1>0, <1>2, <3>1, RequeueArchivesFacts DEF Shape, LockPcs, BuildPcs
    <3> QED BY <1>2, <2>2, <2>3, <3>1, <3>2, RequeueArchivesFacts, GoKeeps DEF LockPcs
  <2> QED BY <1>2, <2>2, <2>3, RequeueArchivesFacts, OutKeeps
<1>3. CASE EraseBatch(p)
  <2>1. TablesType' /\ DirsType'
    BY <1>3, EraseBatchFacts, SameTables, NoDirType DEF TInv, DirsType
  <2> QED BY <1>3, <2>1, EraseBatchFacts, OutKeeps
<1> QED BY <1>1, <1>2, <1>3

\* A step to the point c of the same operation keeps the lists.
LEMMA GotoKeeps ==
  ASSUME TInv, NEW p \in Programs, NEW c \in BuildPcs, proc[p].pc \in BuildPcs,
         Moved(p), lock' = lock, proc'[p] = Goto(p, c), Still, TablesType', DirsType',
         c \in {"inspect", "reset", "republish", "discard", "discarded"} =>
           proc[p].todo \subseteq Batches /\ proc[p].todo # {},
         c \in {"claim", "read", "prepare", "store", "rename", "publish", "abandon",
                "abandoned"} => proc[p].b \in Batches
  PROVE  TInv'
<1>1. /\ proc'[p].pc = c /\ proc'[p].task = proc[p].task /\ proc'[p].b = proc[p].b
      /\ proc'[p].todo = proc[p].todo
  BY ProgramFacts, GotoFacts, PcFacts
<1>2. c \notin LockPcs /\ proc[p].pc \notin LockPcs
  BY PcFacts
<1>3. Shape(p, proc'[p])
  <2>1. Shape(p, proc[p])
    BY ProgramFacts
  <2>2. c \notin {"recoverArchives", "recoverBatch", "create", "attach", "mark", "unwritten",
                  "retract", "requeue", "erase"}
    BY DEF BuildPcs
  <2> QED BY <1>1, <1>2, <2>1, <2>2 DEF Shape
<1> QED BY <1>1, <1>2, <1>3, GoKeeps

LEMMA HandledKeeps ==
  ASSUME TInv, NEW p \in Programs,
         proc[p].pc \in {"inspect", "reset", "republish", "discard", "discarded"},
         Moved(p), lock' = lock, proc'[p] = Handled(p), Still, TablesType', DirsType'
  PROVE  TInv'
<1>1. /\ proc'[p].pc = "inspect" /\ proc'[p].task = proc[p].task
      /\ proc'[p].todo = proc[p].todo \ {Least(proc[p].todo)}
  BY HandledFacts
<1>2. Shape(p, proc[p])
  BY ProgramFacts
<1>3. Shape(p, proc'[p])
  BY <1>1, <1>2 DEF Shape, LockPcs, BuildPcs
<1> QED BY <1>1, <1>3, GoKeeps DEF LockPcs

LEMMA InspectionType ==
  ASSUME TInv, NEW p \in Programs,
         ListBuilding(p) \/ InspectBatch(p) \/ ResetBatch(p) \/ DiscardFiles(p) \/ DiscardBatch(p)
  PROVE  TInv'
<1>0. Shape(p, proc[p]) /\ proc \in [Programs -> Locals]
  BY ProgramFacts
<1>1. CASE ListBuilding(p)
  <2>1. TablesType' /\ DirsType'
    BY <1>1, ListBuildingFacts, SameTables, SameDirs
  <2>2. Shape(p, proc'[p])
    BY <1>0, <1>1, ListBuildingFacts DEF Shape, LockPcs, BuildPcs, BatchesIn
  <2> QED BY <1>1, <2>1, <2>2, ListBuildingFacts, GoKeeps DEF LockPcs
<1>2. CASE InspectBatch(p)
  <2>1. TablesType' /\ DirsType'
    BY <1>2, InspectBatchFacts, SameTables, SameDirs
  <2>2. Shape(p, proc'[p]) /\ proc'[p].pc \notin LockPcs
    BY <1>0, <1>2, InspectBatchFacts DEF Shape, LockPcs, BuildPcs
  <2> QED BY <1>2, <2>1, <2>2, InspectBatchFacts, GoKeeps
<1>3. CASE ResetBatch(p)
  <2>1. Least(proc[p].todo) \in Batches
    BY <1>0, <1>3, ResetBatchFacts, LeastBatch DEF Shape
  <2>2. TablesType' /\ DirsType'
    BY <1>3, <2>1, ResetBatchFacts, OneBatchFails, SameDirs DEF ResetBuilding
  <2> QED BY <1>3, <2>2, ResetBatchFacts, OutKeeps, HandledKeeps
<1>4. CASE DiscardFiles(p)
  <2>1. TablesType' /\ DirsType'
    BY <1>4, DiscardFilesFacts, SameTables, NoDirType DEF TInv, DirsType
  <2>2. proc[p].todo \subseteq Batches /\ proc[p].todo # {}
    BY <1>0, <1>4, DiscardFilesFacts DEF Shape
  <2> QED BY <1>4, <2>1, <2>2, DiscardFilesFacts, GotoKeeps DEF BuildPcs
<1>5. CASE DiscardBatch(p)
  <2>1. Least(proc[p].todo) \in Batches
    BY <1>0, <1>5, DiscardBatchFacts, LeastBatch DEF Shape
  <2>2. TablesType' /\ DirsType'
    BY <1>5, <2>1, DiscardBatchFacts, OneBatchFails, SameDirs DEF BuildFailed
  <2> QED BY <1>5, <2>2, DiscardBatchFacts, OutKeeps, HandledKeeps
<1> QED BY <1>1, <1>2, <1>3, <1>4, <1>5

LEMMA PublishedType ==
  ASSUME TInv, NEW b \in Batches, NEW STATE h, h \in Builders, Published(b, h)
  PROVE  TablesType'
<1>1. TablesType
  BY DEF TInv
<1> QED BY <1>1, ArchiveStatesType DEF TablesType, Published, ReadyArchives, BatchRows

LEMMA PublicationType ==
  ASSUME TInv, NEW p \in Programs, Republish(p) \/ PublishBatch(p)
  PROVE  TInv'
<1>0. Shape(p, proc[p]) /\ proc \in [Programs -> Locals] /\ proc[p].sha \in Builders
      /\ p \in Builders
  BY ProgramFacts DEF Builders, Programs
<1>1. CASE Republish(p)
  <2>1. Least(proc[p].todo) \in Batches
    BY <1>0, <1>1, RepublishFacts, LeastBatch DEF Shape
  <2>2. TablesType' /\ DirsType'
    <3>1. CASE Published(Least(proc[p].todo), proc[p].sha)
      BY <1>0, <1>1, <2>1, <3>1, PublishedType, RepublishFacts, SameDirs
    <3>2. CASE UNCHANGED indexTables
      BY <1>1, <3>2, RepublishFacts, SameTables, SameDirs
    <3> QED BY <1>1, <3>1, <3>2, RepublishFacts DEF indexTables
  <2> QED BY <1>1, <2>2, RepublishFacts, OutKeeps, HandledKeeps
<1>2. CASE PublishBatch(p)
  <2>1. proc[p].b \in Batches
    BY <1>0, <1>2, PublishBatchFacts DEF Shape
  <2>2. TablesType' /\ DirsType'
    <3>1. CASE Published(proc[p].b, p)
      BY <1>0, <1>2, <2>1, <3>1, PublishedType, PublishBatchFacts, SameDirs
    <3>2. CASE UNCHANGED indexTables
      BY <1>2, <3>2, PublishBatchFacts, SameTables, SameDirs
    <3> QED BY <1>2, <3>1, <3>2, PublishBatchFacts DEF indexTables
  <2> QED BY <1>2, <2>1, <2>2, PublishBatchFacts, OutKeeps, GotoKeeps DEF BuildPcs
<1> QED BY <1>1, <1>2

LEMMA LoadingType ==
  ASSUME TInv, NEW p \in Programs,
         CleanupBuilding(p) \/ Recovered(p) \/ ListReady(p) \/ LoadSnapshot(p)
  PROVE  TInv'
<1>0. Shape(p, proc[p]) /\ proc \in [Programs -> Locals]
  BY ProgramFacts
<1>1. CASE CleanupBuilding(p)
  <2>1. TablesType' /\ DirsType'
    BY <1>1, CleanupBuildingFacts, SameTables, NoDirType DEF TInv, DirsType
  <2> QED BY <1>1, <2>1, CleanupBuildingFacts, GotoKeeps DEF BuildPcs
<1>2. CASE Recovered(p)
  <2>1. TablesType' /\ DirsType'
    BY <1>2, RecoveredFacts, SameTables, SameDirs
  <2>2. PICK c \in {"list", "pick"} : proc'[p] = Goto(p, c)
    BY <1>2, RecoveredFacts
  <2>3. c \in BuildPcs /\ proc[p].pc \in BuildPcs
    BY <1>2, RecoveredFacts DEF BuildPcs
  <2> QED BY <1>2, <2>1, <2>2, <2>3, RecoveredFacts, GotoKeeps
<1>3. CASE ListReady(p)
  <2>1. TablesType' /\ DirsType'
    BY <1>3, ListReadyFacts, SameTables, SameDirs
  <2>2. Shape(p, proc'[p])
    BY <1>0, <1>3, ListReadyFacts DEF Shape, LockPcs, BuildPcs
  <2> QED BY <1>3, <2>1, <2>2, ListReadyFacts, GoKeeps DEF LockPcs
<1>4. CASE LoadSnapshot(p)
  <2>1. TablesType' /\ DirsType'
    BY <1>4, LoadSnapshotFacts, SameTables, SameDirs
  <2>2. CASE Out(p) /\ snapshot' = snapshot
    BY <1>4, <2>1, <2>2, LoadSnapshotFacts, OutKeeps DEF Still
  <2>3. CASE ~(Out(p) /\ snapshot' = snapshot)
    <3>1. DOMAIN snapshot' \subseteq Batches
      <4>1. \A r \in proc[p].list : r.b \in Batches
        BY ProgramFacts DEF Listed
      <4>2. DOMAIN snapshot \subseteq Batches
        BY DEF TInv
      <4>3. DOMAIN Loaded(p) \subseteq Batches
        BY <4>1 DEF Loaded
      <4>4. snapshot' = Loaded(p) \/ snapshot' = snapshot
        BY <1>4, <2>3, LoadSnapshotFacts
      <4> QED BY <4>2, <4>3, <4>4
    <3>2. CASE proc[p].task = "reload" /\ proc'[p].pc = "interrupted" /\ proc'[p].task = "build"
      <4>1. Shape(p, proc'[p]) /\ proc'[p].pc \notin LockPcs
        BY <1>0, <3>2 DEF Shape, LockPcs, Programs
      <4> QED BY <1>4, <2>1, <2>3, <3>1, <4>1, LoadSnapshotFacts, ShapeKeeps
    <3>3. CASE proc'[p].pc \in {"idle", "down"} /\ proc'[p].task = "none"
      BY <1>4, <2>1, <2>3, <3>1, <3>3, IdleShape, LoadSnapshotFacts, ShapeKeeps
    <3> QED BY <1>4, <2>3, <3>2, <3>3, LoadSnapshotFacts
  <2> QED BY <2>2, <2>3
<1> QED BY <1>1, <1>2, <1>3, <1>4

LEMMA BuildType ==
  ASSUME TInv, NEW p \in Programs,
         \/ PickBatch(p) \/ ClaimBatch(p) \/ ReadParsed(p) \/ PrepareDirectory(p)
         \/ StoreFiles(p) \/ RenameDirectory(p) \/ AbandonFiles(p) \/ AbandonBatch(p) \/ IoFails(p)
  PROVE  TInv'
<1>0. Shape(p, proc[p]) /\ proc \in [Programs -> Locals]
  BY ProgramFacts
<1>1. CASE PickBatch(p)
  <2>1. TablesType' /\ DirsType'
    BY <1>1, PickBatchFacts, SameTables, SameDirs
  <2>2. CASE ~Out(p)
    <3>1. proc'[p].b \in Batches
      BY <1>1, <2>2, PickBatchFacts, LeastBatch DEF BatchesIn
    <3>2. Shape(p, proc'[p])
      BY <1>0, <1>1, <2>2, <3>1, PickBatchFacts DEF Shape, LockPcs, BuildPcs
    <3> QED BY <1>1, <2>1, <2>2, <3>2, PickBatchFacts, GoKeeps DEF LockPcs
  <2> QED BY <1>1, <2>1, <2>2, PickBatchFacts, OutKeeps
<1>2. CASE ClaimBatch(p)
  <2>1. proc[p].b \in Batches
    BY <1>0, <1>2, ClaimBatchFacts DEF Shape
  <2>2. TablesType' /\ DirsType'
    BY <1>2, <2>1, ClaimBatchFacts, OneBatchFails, SameDirs DEF Claimed
  <2> QED BY <1>2, <2>1, <2>2, ClaimBatchFacts, OutKeeps, GotoKeeps DEF BuildPcs
<1>3. CASE ReadParsed(p)
  <2>1. proc[p].b \in Batches
    BY <1>0, <1>3, ReadParsedFacts DEF Shape
  <2>2. TablesType' /\ DirsType'
    BY <1>3, ReadParsedFacts, SameTables, SameDirs
  <2>3. CASE proc'[p].pc = "prepare" /\ proc'[p].task = proc[p].task /\ proc'[p].b = proc[p].b
    <3>1. Shape(p, proc'[p])
      BY <1>0, <1>3, <2>3, ReadParsedFacts DEF Shape, LockPcs, BuildPcs
    <3> QED BY <1>3, <2>2, <2>3, <3>1, ReadParsedFacts, GoKeeps DEF LockPcs
  <2>4. CASE proc'[p] = Goto(p, "abandon")
    BY <1>3, <2>1, <2>2, <2>4, ReadParsedFacts, GotoKeeps DEF BuildPcs
  <2> QED BY <1>3, <2>3, <2>4, ReadParsedFacts
<1>4. CASE PrepareDirectory(p)
  <2>1. proc[p].b \in Batches /\ proc[p].good \in SUBSET Archives /\ p \in Builders
    BY <1>0, <1>4, PrepareDirectoryFacts, ProgramFacts DEF Shape, Builders, Programs
  <2>2. TablesType'
    BY <1>4, PrepareDirectoryFacts, SameTables
  <2>3. [builder |-> p, archives |-> proc[p].good, intact |-> FALSE] \in Dirs
    BY <2>1 DEF Dirs
  <2>4. DirsType'
    BY <1>4, <2>3, PrepareDirectoryFacts, NoDirType DEF TInv, DirsType
  <2> QED BY <1>4, <2>1, <2>2, <2>4, PrepareDirectoryFacts, GotoKeeps DEF BuildPcs
<1>5. CASE StoreFiles(p)
  <2>1. proc[p].b \in Batches
    BY <1>0, <1>5, StoreFilesFacts DEF Shape
  <2>2. TablesType'
    BY <1>5, StoreFilesFacts, SameTables
  <2>3. [building[proc[p].b] EXCEPT !.intact = TRUE] \in Dirs
    BY <2>1 DEF TInv, DirsType, Dirs
  <2>4. DirsType'
    BY <1>5, <2>3, StoreFilesFacts, NoDirType DEF TInv, DirsType
  <2> QED BY <1>5, <2>1, <2>2, <2>4, StoreFilesFacts, GotoKeeps DEF BuildPcs
<1>6. CASE RenameDirectory(p)
  <2>1. proc[p].b \in Batches
    BY <1>0, <1>6, RenameDirectoryFacts DEF Shape
  <2>2. TablesType'
    BY <1>6, RenameDirectoryFacts, SameTables
  <2>3. DirsType'
    BY <1>6, <2>1, RenameDirectoryFacts, NoDirType DEF TInv, DirsType
  <2> QED BY <1>6, <2>1, <2>2, <2>3, RenameDirectoryFacts, GotoKeeps DEF BuildPcs
<1>7. CASE AbandonFiles(p)
  <2>1. proc[p].b \in Batches
    BY <1>0, <1>7, AbandonFilesFacts DEF Shape
  <2>2. TablesType' /\ DirsType'
    BY <1>7, AbandonFilesFacts, SameTables, NoDirType DEF TInv, DirsType
  <2> QED BY <1>7, <2>1, <2>2, AbandonFilesFacts, GotoKeeps DEF BuildPcs
<1>8. CASE AbandonBatch(p)
  <2>1. proc[p].b \in Batches
    BY <1>0, <1>8, AbandonBatchFacts DEF Shape
  <2>2. TablesType' /\ DirsType'
    BY <1>8, <2>1, AbandonBatchFacts, OneBatchFails, SameDirs DEF BuildFailed
  <2> QED BY <1>8, <2>2, AbandonBatchFacts, OutKeeps
<1>9. CASE IoFails(p)
  BY <1>9, IoFailsFacts, SameTables, SameDirs, OutKeeps
<1> QED BY <1>1, <1>2, <1>3, <1>4, <1>5, <1>6, <1>7, <1>8, <1>9

LEMMA StartType ==
  ASSUME TInv, ServerStart \/ Poll \/ AdminCommand
  PROVE  TInv'
<1>0. Still /\ UNCHANGED <<indexTables, dirs>>
  BY ServerStartFacts, PollFacts, AdminCommandFacts
<1>1. TablesType' /\ DirsType' /\ DOMAIN snapshot' \subseteq Batches /\ UNCHANGED rows
  BY <1>0, SameTables, SameDirs DEF Still, TInv
<1>2. ASSUME NEW p \in Programs, NEW t \in {"start", "poll", "scan"}, Tried(p, t, "recover"),
             p = "server" => t # "scan", p = "admin" => t = "scan"
      PROVE  TInv'
  <2>1. CASE lock = "free" /\ lock' = p /\ proc'[p].pc = "recover" /\ proc'[p].task = t
    <3>1. Shape(p, proc'[p])
      BY <1>2, <2>1 DEF Shape, LockPcs, BuildPcs
    <3> QED BY <1>1, <1>2, <2>1, <3>1, ShapeKeeps DEF Tried
  <2>2. CASE lock' = lock /\ proc'[p].pc \in {"idle", "down"} /\ proc'[p].task = "none"
    BY <1>1, <1>2, <2>2, IdleShape, ShapeKeeps DEF Tried
  <2> QED BY <1>2, <2>1, <2>2 DEF Tried
<1>3. CASE ServerStart
  BY <1>2, <1>3, ServerStartFacts DEF Programs
<1>4. CASE Poll
  BY <1>2, <1>4, PollFacts DEF Programs
<1>5. CASE AdminCommand
  <2>1. "admin" \in Programs
    BY DEF Programs
  <2>2. CASE Tried("admin", "scan", "recover")
    BY <1>2, <2>1, <2>2
  <2>3. CASE /\ Moved("admin") /\ lock = "free" /\ lock' = "admin"
             /\ proc'["admin"].pc = "retract" /\ proc'["admin"].task = "rebuild"
             /\ \E a \in Archives : archive[a].batch # NoBatch /\ proc'["admin"].b = archive[a].batch
    <3>1. proc'["admin"].b \in Batches
      BY <2>3 DEF TInv, TablesType, ArchiveRows
    <3>2. Shape("admin", proc'["admin"])
      BY <2>3, <3>1 DEF Shape, LockPcs, BuildPcs
    <3> QED BY <1>1, <2>1, <2>3, <3>2, ShapeKeeps
  <2>4. CASE lock' = lock /\ proc' = proc
    <3>1. ProcType'
      BY <2>4 DEF TInv, ProcType, Shape
    <3> QED BY <1>1, <3>1 DEF TInv, RowsType, rows
  <2>5. CASE /\ Moved("admin") /\ lock' = lock
             /\ proc'["admin"].pc = "cleanup" /\ proc'["admin"].task = "reload"
    <3>1. Shape("admin", proc'["admin"]) /\ proc'["admin"].pc \notin LockPcs
      BY <2>5 DEF Shape, LockPcs
    <3> QED BY <1>1, <2>1, <2>5, <3>1, ShapeKeeps
  <2> QED BY <1>5, <2>2, <2>3, <2>4, <2>5, AdminCommandFacts
<1> QED BY <1>3, <1>4, <1>5

LEMMA StepType == ASSUME TInv, NEW p \in Programs, Step(p) PROVE TInv'
BY RecoveryType, ScanType, MarkType, RebuildType, InspectionType, PublicationType, LoadingType,
   BuildType DEF Step

LEMMA CrashType == ASSUME TInv, NEW p \in Programs, Crash(p) PROVE TInv'
<1>1. TablesType' /\ DirsType'
  BY CrashFacts, SameTables, SameDirs
<1>2. Shape(p, proc'[p]) /\ proc'[p].pc \notin LockPcs
  BY CrashFacts, IdleShape
<1>3. DOMAIN EmptySnapshot = {}
  BY DEF EmptySnapshot
<1>4. DOMAIN snapshot' \subseteq Batches
  BY <1>3, CrashFacts DEF TInv
<1> QED BY <1>1, <1>2, <1>4, CrashFacts, ShapeKeeps

LEMMA InsertType ==
  ASSUME TInv, InsertBegin \/ \E a \in Archives : InsertEnd(a)
  PROVE  TInv' /\ UNCHANGED <<indexTables, dirs, lock, proc, snapshot>>
<1>1. UNCHANGED <<indexTables, dirs, lock, proc, snapshot>>
  BY DEF InsertBegin, InsertEnd, tables, indexTables
<1>2. RowsType'
  <2>1. CASE InsertBegin
    <3>1. Least(Archives \ Allocated) \in Archives
      BY <2>1, LeastArchive DEF InsertBegin
    <3> QED BY <2>1, <3>1 DEF InsertBegin, TInv, RowsType
  <2>2. ASSUME NEW a \in Archives, InsertEnd(a) PROVE RowsType'
    BY <2>2 DEF InsertEnd, TInv, RowsType
  <2> QED BY <2>1, <2>2
<1>3. TablesType' /\ DirsType'
  BY <1>1, SameTables, SameDirs
<1>4. ProcType'
  BY <1>1 DEF TInv, ProcType, Shape
<1> QED BY <1>1, <1>2, <1>3, <1>4 DEF TInv

LEMMA DamageType ==
  ASSUME TInv, NEW b \in Batches, Damage(b)
  PROVE  /\ TInv' /\ UNCHANGED <<rows, indexTables, parsed, building, lock, proc, snapshot>>
         /\ segment[b] # NoDir
         /\ segment' = [segment EXCEPT ![b] = [segment[b] EXCEPT !.intact = FALSE]]
<1>1. /\ UNCHANGED <<rows, indexTables, parsed, building, lock, proc, snapshot>>
      /\ segment' = [segment EXCEPT ![b] = [segment[b] EXCEPT !.intact = FALSE]]
      /\ segment[b] # NoDir
  BY DEF Damage, tables, indexTables
<1>2. [segment[b] EXCEPT !.intact = FALSE] \in Dirs
  BY DEF TInv, DirsType, Dirs
<1>3. DirsType' /\ TablesType' /\ RowsType'
  BY <1>1, <1>2, SameTables DEF TInv, DirsType, RowsType, rows
<1>4. ProcType'
  BY <1>1 DEF TInv, ProcType, Shape
<1> QED BY <1>1, <1>3, <1>4 DEF TInv

LEMMA StutterType == ASSUME TInv, UNCHANGED vars PROVE TInv'
<1>1. UNCHANGED <<rows, indexTables, dirs, lock, proc, snapshot>>
  BY DEF vars, tables, indexTables
<1>2. TablesType' /\ DirsType' /\ RowsType'
  BY <1>1, SameTables, SameDirs DEF TInv, RowsType, rows
<1>3. ProcType'
  BY <1>1 DEF TInv, ProcType, Shape
<1> QED BY <1>1, <1>2, <1>3 DEF TInv

-----------------------------------------------------------------------------
(* Statements that are late, and the bounds.                               *)

LEMMA SentType ==
  ASSUME TInv, NEW p \in Programs
  PROVE  Sent(p) \in Statements \cup {NoSql}
<1> DEFINE m == proc[p]
           first == Least(m.todo)
<1>1. m \in Locals /\ Shape(p, m) /\ m.sha \in Builders /\ p \in Builders
  BY ProgramFacts DEF Programs, Builders
<1>2. /\ m.pc \in {"recoverArchives", "recoverBatch", "reset", "republish", "discarded"} =>
           m.todo \in SUBSET Batches
      /\ m.pc \in {"recoverBatch", "reset", "republish", "discarded"} => m.todo # {}
      /\ m.pc \in {"attach", "mark", "unwritten"} => m.todo \in SUBSET Archives
      /\ m.pc \in {"attach", "mark", "unwritten", "retract", "requeue", "claim", "publish", "abandoned"} =>
           m.b \in Batches
  BY <1>1 DEF Shape
<1>3. /\ m.pc = "recoverArchives" /\ m.todo # {} => first \in Batches
      /\ m.pc \in {"recoverBatch", "reset", "republish", "discarded"} => first \in Batches
  BY <1>2, LeastBatch
<1>4. m.pc \in {"attach", "mark", "unwritten"} /\ m.todo # {} => first \in Archives
  BY <1>2, LeastArchive
<1>5. /\ \A d \in BatchKinds : \A b \in Batches : OnBatch(d, b) \in Statements
      /\ \A d \in ArchiveKinds : \A b \in Batches : \A a \in Archives : OnArchive(d, b, a) \in Statements
      /\ \A b \in Batches : \A h \in Builders : Sql("ready", b, NoArchive, h) \in Statements
      /\ OnBatch("create", NoBatch) \in Statements
  BY DEF Sql, OnBatch, OnArchive, Statements, BatchKinds, ArchiveKinds, Builders
<1>6. /\ {"interrupt", "requeue", "batchParsed", "batchFailed", "claim", "reset", "buildFailed"} \subseteq BatchKinds
      /\ {"attach", "archiveParsed", "archiveFailed"} \subseteq ArchiveKinds
  BY DEF BatchKinds, ArchiveKinds
<1> HIDE DEF m, first
<1>7. \/ Sent(p) = NoSql
      \/ \E d \in {"interrupt", "batchFailed", "reset", "buildFailed"} :
           first \in Batches /\ Sent(p) = OnBatch(d, first)
      \/ \E d \in {"requeue", "batchParsed", "batchFailed", "claim", "buildFailed"} :
           m.b \in Batches /\ Sent(p) = OnBatch(d, m.b)
      \/ \E d \in {"attach", "archiveParsed", "archiveFailed"} :
           first \in Archives /\ m.b \in Batches /\ Sent(p) = OnArchive(d, m.b, first)
      \/ Sent(p) = OnBatch("create", NoBatch)
      \/ first \in Batches /\ Sent(p) = Sql("ready", first, NoArchive, m.sha)
      \/ m.b \in Batches /\ Sent(p) = Sql("ready", m.b, NoArchive, p)
  BY <1>2, <1>3, <1>4 DEF Sent, m, first
<1> QED BY <1>1, <1>5, <1>6, <1>7

\* What a statement makes of the tables, whenever it is executed.
LEMMA EffectType ==
  ASSUME TablesType, NEW s \in Statements
  PROVE  NewArchive(s) \in [Archives -> ArchiveRows] /\ NewBatch(s) \in [Batches -> BatchRows]
<1>1. /\ archive \in [Archives -> ArchiveRows] /\ batch \in [Batches -> BatchRows]
      /\ s.do # "create" => s.b \in Batches
      /\ s.do \in ArchiveKinds => s.a \in Archives
      /\ s.do \in {"create"} \cup ArchiveKinds \cup BatchKinds /\ s.sha \in Builders
  BY DEF TablesType, Statements
<1>2. /\ \A ok : MarkedArchive(s.a, ok) \in [Archives -> ArchiveRows]
      /\ InterruptedArchives(s.b) \in [Archives -> ArchiveRows]
      /\ Requeued(s.b) \in [Archives -> ArchiveRows]
      /\ ReadyArchives(s.b) \in [Archives -> ArchiveRows]
  BY ArchiveStatesType DEF MarkedArchive, InterruptedArchives, Requeued, ReadyArchives
<1>3. s.do = "attach" => Attached(s.a, s.b) \in [Archives -> ArchiveRows]
  BY <1>1 DEF Attached, ArchiveRows, ArchiveKinds
<1>4. NewArchive(s) \in [Archives -> ArchiveRows]
  BY <1>1, <1>2, <1>3 DEF NewArchive
<1>5. Created \in [Batches -> BatchRows]
  <2>1. CASE Unused = {}
    BY <1>1, <2>1 DEF Created
  <2>2. CASE Unused # {}
    BY <2>2, LeastBatch, BatchStateType DEF Created, Unused, BatchesIn
  <2> QED BY <2>1, <2>2
<1>6. s.b \in Batches =>
        /\ \A ok : MarkedBatch(s.b, ok) \in [Batches -> BatchRows]
        /\ Claimed(s.b) \in [Batches -> BatchRows] /\ ResetBuilding(s.b) \in [Batches -> BatchRows]
        /\ BuildFailed(s.b) \in [Batches -> BatchRows]
  BY <1>1, BatchStateType DEF MarkedBatch, Claimed, ResetBuilding, BuildFailed
<1>7. ReadyBatch(s.b, s.sha) \in [Batches -> BatchRows]
  BY <1>1 DEF ReadyBatch, BatchRows
<1>8. NewBatch(s) \in [Batches -> BatchRows]
  BY <1>1, <1>5, <1>6, <1>7 DEF NewBatch
<1> QED BY <1>4, <1>8

LEMMA LateType ==
  ASSUME TInv, LInv, NEW s \in late, ExecuteLate(s)
  PROVE  /\ TInv' /\ UNCHANGED <<rows, dirs, lock, proc, snapshot>>
         /\ archive' = NewArchive(s) /\ late' \subseteq late
<1>1. /\ UNCHANGED <<rows, dirs, lock, proc, snapshot>>
      /\ archive' = NewArchive(s) /\ batch' = NewBatch(s) /\ late' \subseteq late
  BY DEF ExecuteLate
<1>2. TablesType' /\ DirsType' /\ RowsType'
  BY <1>1, EffectType, SameDirs DEF TInv, LInv, TablesType, RowsType, rows
<1>3. ProcType'
  BY <1>1 DEF TInv, ProcType, Shape
<1> QED BY <1>1, <1>2, <1>3 DEF TInv

LEMMA SpendFacts ==
  ASSUME LInv, NEW K, Spend(K)
  PROVE  /\ budget' \in [Bounds -> Nat]
         /\ budget'.late <= budget.late /\ budget'.overlaps <= budget.overlaps
         /\ "late" \in K => budget'.late < MaxLate
         /\ "overlaps" \in K => budget'.overlaps < MaxOverlaps
<1>1. /\ budget \in [Bounds -> Nat] /\ budget.late <= MaxLate /\ budget.overlaps <= MaxOverlaps
      /\ MaxLate \in Nat /\ MaxOverlaps \in Nat /\ "late" \in Bounds /\ "overlaps" \in Bounds
  BY LimitsAssumption DEF LInv, Bounds
<1>2. /\ \A k \in K : budget[k] > 0
      /\ budget' = [k \in Bounds |-> IF k \in K THEN budget[k] - 1 ELSE budget[k]]
  BY <1>1 DEF Spend
<1>3. \A k \in Bounds : budget[k] \in Nat /\ (k \in K => budget[k] - 1 \in Nat)
  BY <1>1, <1>2
<1>4. budget' \in [Bounds -> Nat]
  BY <1>2, <1>3
<1>5. /\ budget'["late"] = IF "late" \in K THEN budget["late"] - 1 ELSE budget["late"]
      /\ budget'["overlaps"] = IF "overlaps" \in K THEN budget["overlaps"] - 1 ELSE budget["overlaps"]
  BY <1>1, <1>2
<1> QED BY <1>1, <1>3, <1>4, <1>5

\* What a step of a program does with statements and bounds.
Accounted(p) ==
  /\ UNCHANGED rows /\ late' \subseteq late \cup ({Sent(p)} \ {NoSql})
  /\ archive' = archive \/ archive' = NewArchive(Sent(p))
  /\ budget' = budget \/ Fault \/ Spend(Overlap(p))

LEMMA StatementAccounted ==
  ASSUME NEW p, NEW STATE m, UNCHANGED rows,
         Statement(p, Sent(p), m) \/ ChangingStatement(p, Sent(p), m)
  PROVE  Accounted(p)
BY DEF Statement, ChangingStatement, Executed, GivenUp, Delayed, Accounted, tables

LEMMA LockAccounted ==
  ASSUME NEW p \in Programs,
         \/ RecoverList(p) \/ RecoverArchives(p) \/ RecoverBatch(p) \/ RecoverFiles(p)
         \/ Select(p) \/ CreateBatch(p) \/ AttachArchive(p) \/ WriteParsed(p)
         \/ MarkArchive(p) \/ FinishScan(p) \/ MarkUnwritten(p)
         \/ RetractBatch(p) \/ RequeueArchives(p) \/ EraseBatch(p)
  PROVE  Accounted(p)
<1>1. CASE RecoverList(p) \/ RecoverFiles(p) \/ Select(p) \/ WriteParsed(p) \/ EraseBatch(p)
  BY <1>1 DEF RecoverList, RecoverFiles, Select, Scanned, WriteParsed, EraseBatch, Accounted, tables
<1>2. CASE RecoverArchives(p) \/ RecoverBatch(p) \/ CreateBatch(p) \/ AttachArchive(p)
  BY <1>2, StatementAccounted DEF RecoverArchives, RecoverBatch, CreateBatch, AttachArchive
<1>3. CASE MarkArchive(p) \/ RetractBatch(p) \/ RequeueArchives(p)
  BY <1>3, StatementAccounted DEF MarkArchive, RetractBatch, RequeueArchives
<1>4. CASE FinishScan(p) \/ MarkUnwritten(p)
  BY <1>4 DEF FinishScan, MarkUnwritten, Scanned, Executed, GivenUp, Delayed, Accounted
<1> QED BY <1>1, <1>2, <1>3, <1>4

LEMMA BuildAccounted ==
  ASSUME NEW p \in Programs,
         \/ ListBuilding(p) \/ InspectBatch(p) \/ ResetBatch(p) \/ Republish(p)
         \/ DiscardFiles(p) \/ DiscardBatch(p) \/ CleanupBuilding(p) \/ Recovered(p)
         \/ ListReady(p) \/ LoadSnapshot(p)
         \/ PickBatch(p) \/ ClaimBatch(p) \/ ReadParsed(p) \/ PrepareDirectory(p)
         \/ StoreFiles(p) \/ RenameDirectory(p) \/ PublishBatch(p)
         \/ AbandonFiles(p) \/ AbandonBatch(p) \/ IoFails(p)
  PROVE  Accounted(p)
<1>1. CASE ListBuilding(p) \/ InspectBatch(p) \/ DiscardFiles(p) \/ CleanupBuilding(p) \/ Recovered(p)
  BY <1>1 DEF ListBuilding, InspectBatch, DiscardFiles, CleanupBuilding, Recovered, Accounted, tables
<1>2. CASE ResetBatch(p) \/ Republish(p) \/ DiscardBatch(p)
  BY <1>2, StatementAccounted DEF ResetBatch, Republish, DiscardBatch
<1>3. CASE ClaimBatch(p) \/ PublishBatch(p) \/ AbandonBatch(p)
  BY <1>3, StatementAccounted DEF ClaimBatch, PublishBatch, AbandonBatch
<1>4. CASE ListReady(p) \/ LoadSnapshot(p) \/ PickBatch(p) \/ ReadParsed(p) \/ IoFails(p)
  BY <1>4 DEF ListReady, LoadSnapshot, PickBatch, ReadParsed, IoFails, Accounted, tables
<1>5. CASE PrepareDirectory(p) \/ StoreFiles(p) \/ RenameDirectory(p) \/ AbandonFiles(p)
  BY <1>5 DEF PrepareDirectory, StoreFiles, RenameDirectory, AbandonFiles, Accounted, tables
<1> QED BY <1>1, <1>2, <1>3, <1>4, <1>5

LEMMA StepAccounted == ASSUME NEW p \in Programs, Step(p) PROVE Accounted(p)
BY LockAccounted, BuildAccounted DEF Step

\* Nothing is added to the bounds, and only what was sent can be late.
LEMMA NextAccounted ==
  ASSUME TInv, LInv, [Next]_vars
  PROVE  /\ budget' = budget \/ \E K : Spend(K)
         /\ late' \subseteq late \cup {Sent(p) : p \in {q \in Programs : Sent(q) # NoSql}}
<1>1. CASE InsertBegin \/ \E a \in Archives : InsertEnd(a)
  BY <1>1 DEF InsertBegin, InsertEnd, tables
<1>2. CASE ServerStart \/ Poll \/ AdminCommand
  BY <1>2 DEF ServerStart, Poll, AdminCommand, tables
<1>3. ASSUME NEW p \in Programs, Step(p) PROVE Accounted(p)
  BY <1>3, StepAccounted
<1>4. CASE \E p \in Programs : Step(p)
  BY <1>3, <1>4 DEF Accounted, Fault
<1>5. CASE \E p \in Programs : Crash(p)
  BY <1>5 DEF Crash, Delayed
<1>6. CASE \E b \in Batches : Damage(b)
  BY <1>6 DEF Damage, tables
<1>7. CASE UNCHANGED vars
  BY <1>7 DEF vars, tables
<1>8. CASE \E s \in late : ExecuteLate(s)
  BY <1>8 DEF ExecuteLate
<1> QED BY <1>1, <1>2, <1>4, <1>5, <1>6, <1>7, <1>8 DEF Next, ServerStep, Programs

LEMMA BoundsKept ==
  ASSUME TInv, LInv, [Next]_vars
  PROVE  LInv' /\ budget'.late <= budget.late /\ budget'.overlaps <= budget.overlaps
<1>1. late' \subseteq Statements
  BY NextAccounted, SentType DEF LInv
<1>2. /\ budget' \in [Bounds -> Nat]
      /\ budget'.late <= budget.late /\ budget'.overlaps <= budget.overlaps
  <2>1. CASE budget' = budget
    BY <2>1 DEF LInv, Bounds
  <2>2. CASE \E K : Spend(K)
    BY <2>2, SpendFacts
  <2> QED BY <2>1, <2>2, NextAccounted
<1>3. budget'.late <= MaxLate /\ budget'.overlaps <= MaxOverlaps
  <2>1. /\ budget.late \in Nat /\ budget.overlaps \in Nat /\ budget'.late \in Nat
        /\ budget'.overlaps \in Nat /\ budget.late <= MaxLate /\ budget.overlaps <= MaxOverlaps
    BY <1>2 DEF LInv, Bounds
  <2> QED BY <1>2, <2>1, LimitsAssumption
<1> QED BY <1>1, <1>2, <1>3 DEF LInv

LEMMA OrderlyBefore == ASSUME TInv, LInv, [Next]_vars, Orderly' PROVE Orderly
<1>1. /\ budget.late \in Nat /\ budget.overlaps \in Nat
      /\ budget.late <= MaxLate /\ budget.overlaps <= MaxOverlaps
  BY DEF LInv, Bounds
<1> QED BY <1>1, BoundsKept, LimitsAssumption DEF Orderly

LEMMA LateSpent == ASSUME LInv, Orderly', NEW s, ExecuteLate(s) PROVE FALSE
<1>1. budget'.late < MaxLate
  BY SpendFacts DEF ExecuteLate
<1> QED BY <1>1, LimitsAssumption DEF Orderly

LEMMA OverlapSpent ==
  ASSUME LInv, Orderly', NEW p \in Programs, NEW q \in Programs, q # p, Building(q),
         \E K : Overlap(p) \subseteq K /\ Spend(K)
  PROVE  FALSE
<1>1. "overlaps" \in Overlap(p)
  BY DEF Overlap
<1>2. budget'.overlaps < MaxOverlaps
  BY <1>1, SpendFacts
<1> QED BY <1>2, LimitsAssumption DEF Orderly

LEMMA InitType == ASSUME Init PROVE TInv
<1>1. RowsType /\ TablesType /\ DirsType
  BY NoDirType DEF Init, RowsType, TablesType, DirsType, ArchiveRows, BatchRows, Builders
<1>2. DOMAIN snapshot \subseteq Batches
  BY DEF Init, EmptySnapshot
<1>3. Resting("down") \in Locals /\ Resting("down").pc = "down" /\ Resting("down").task = "none"
  BY RestingFacts, PcFacts
<1>4. proc = [p \in Programs |-> Resting("down")] /\ lock = "free"
  BY DEF Init
<1>5. ASSUME NEW p \in Programs PROVE Shape(p, proc[p]) /\ proc[p].pc \notin LockPcs
  BY <1>3, <1>4, IdleShape
<1>6. ProcType
  BY <1>3, <1>4, <1>5 DEF ProcType
<1> QED BY <1>1, <1>2, <1>6 DEF TInv

LEMMA TypeKept == ASSUME TInv, LInv, [Next]_vars PROVE TInv'
<1>1. "server" \in Programs /\ "admin" \in Programs
  BY DEF Programs
<1>2. CASE ServerStep \/ AdminCommand \/ Step("admin")
  BY <1>1, <1>2, StepType, StartType DEF ServerStep
<1> QED BY <1>2, InsertType, LateType, CrashType, DamageType, StutterType DEF Next

\* The tables and directories keep their shape, and every step of a scan, of
\* its recovery and of a rebuild is taken by the program that holds the flock,
\* whatever the other program does, wherever either of them crashes and whenever
\* a statement is executed after its program gave up on it.
THEOREM ShapeAndLock == Spec => [](TInv /\ LInv)
<1>1. Init => TInv /\ LInv
  <2> SUFFICES ASSUME Init PROVE LInv
    BY InitType
  <2> QED BY LimitsAssumption DEF Init, LInv, Bounds
<1>2. TInv /\ LInv /\ [Next]_vars => (TInv /\ LInv)'
  BY TypeKept, BoundsKept
<1> QED BY <1>1, <1>2, PTL DEF Spec

-----------------------------------------------------------------------------
(* No scan passes over a committed archive.                                *)

\* A step of program p after which the same archives have been seen.
LEMMA SeenKeeps ==
  ASSUME TInv, NInv, NEW p \in Programs, Moved(p), UNCHANGED rows,
         \A a \in Archives : archive'[a].state # "NONE" <=> archive[a].state # "NONE",
         \A a \in Archives : archive'[a].batch = NoBatch \/ archive'[a].state # "NONE",
         proc'[p].pc \in {"create", "attach", "mark", "unwritten"} => ScanClaim(proc[p])'
  PROVE  NInv'
<1>1. AllocatedInOrder'
  BY DEF NInv, AllocatedInOrder, Allocated, rows
<1>2. SeenInOrder'
  BY DEF NInv, SeenInOrder, Seen, rows, TInv, RowsType
<1>3. ASSUME NEW q \in Programs PROVE ScanClaim(proc[q])'
  <2>1. CASE q = p
    BY <2>1 DEF ScanClaim
  <2>2. CASE q # p
    <3>1. proc'[q] = proc[q] /\ ScanClaim(proc[q])
      BY <2>2 DEF NInv, Moved
    <3>2. source' = source /\ source \subseteq Archives
      BY DEF rows, TInv, RowsType
    <3>3. \A a \in Archives : Seen(a)' <=> Seen(a)
      BY DEF Seen
    <3>4. proc[q].pc \in {"mark", "unwritten", "create", "attach"} =>
            proc[q].ids \subseteq Archives /\ proc[q].todo \subseteq Archives
      BY ProgramFacts DEF Shape
    <3>5. proc'[q].pc \in {"create", "attach"} =>
            /\ proc'[q].todo \subseteq source'
            /\ \A a \in proc'[q].todo, c \in source' : c < a => Seen(c)' \/ c \in proc'[q].todo
            /\ \A a \in proc'[q].ids : Seen(a)' \/ a \in proc'[q].todo
      BY <3>1, <3>2, <3>3, <3>4 DEF ScanClaim
    <3>6. proc'[q].pc \in {"mark", "unwritten"} =>
            \A a \in proc'[q].ids \cup proc'[q].todo : Seen(a)'
      BY <3>1, <3>3, <3>4 DEF ScanClaim
    <3> QED BY <3>5, <3>6 DEF ScanClaim
  <2> QED BY <2>1, <2>2
<1> QED BY <1>1, <1>2, <1>3 DEF NInv

\* Marking archives that have been seen.
LEMMA MarkingSeen ==
  ASSUME TInv, NInv, NEW S, NEW s \in {"PENDING", "PARSED", "FAILED", "INDEXED"},
         \A a \in S : a \in Archives => Seen(a),
         archive' \in {archive, ArchiveStates(S, s)}
  PROVE  /\ \A a \in Archives : archive'[a].state # "NONE" <=> archive[a].state # "NONE"
         /\ \A a \in Archives : archive'[a].batch = NoBatch \/ archive'[a].state # "NONE"
<1>1. TablesType /\ \A a \in Archives : Seen(a) \/ archive[a].batch = NoBatch
  BY DEF TInv, NInv, SeenInOrder
<1>2. CASE archive' = archive
  BY <1>1, <1>2 DEF Seen
<1>3. CASE archive' = ArchiveStates(S, s)
  BY <1>1, <1>3, ArchiveStatesType DEF Seen
<1> QED BY <1>2, <1>3

LEMMA BatchSeen ==
  ASSUME TInv, NInv, NEW b \in Batches
  PROVE  \A a \in ArchivesOf(b) : Seen(a)
BY ArchivesAssumption DEF NInv, SeenInOrder, ArchivesOf, NoBatch

LEMMA UpToClosed ==
  ASSUME NEW S \in SUBSET Archives, NEW n \in Nat, NEW x \in UpTo(S, n), NEW z \in S, z < x
  PROVE  z \in UpTo(S, n)
<1> DEFINE X == {y \in S : y < x}
           Z == {y \in S : y < z}
<1>1. S \subseteq Nat /\ x \in Nat /\ z \in Nat /\ IsFiniteSet(S)
  BY ArchivesAssumption, FS_Subset DEF UpTo
<1>2. Z \subseteq X /\ IsFiniteSet(X)
  <2>1. ASSUME NEW y \in S, y < z PROVE y < x
    <3>1. y \in Nat /\ x \in Nat /\ z \in Nat /\ z < x
      BY <1>1
    <3> QED BY <2>1, <3>1
  <2>2. X \subseteq S /\ Z \subseteq X
    BY <2>1
  <2> QED BY <1>1, <2>2, FS_Subset
<1>3. Cardinality(Z) <= Cardinality(X) /\ Cardinality(X) \in Nat /\ Cardinality(Z) \in Nat
  BY <1>2, FS_Subset, FS_CardinalityType
<1>4. Cardinality(X) < n
  BY DEF UpTo
<1>5. Cardinality(Z) < n
  BY <1>3, <1>4
<1> QED BY <1>5 DEF UpTo

LEMMA MaxObservedFacts ==
  ASSUME TInv
  PROVE  /\ MaxObserved \in Nat
         /\ \A a \in Archives : Seen(a) => a <= MaxObserved
         /\ MaxObserved = 0 \/ (MaxObserved \in Archives /\ Seen(MaxObserved))
<1> DEFINE seen == {a \in Archives : archive[a].state # "NONE"}
<1>1. seen \subseteq Nat /\ IsFiniteSet(seen)
  BY ArchivesAssumption, FS_Subset
<1>2. MaxObserved = IF seen = {} THEN 0 ELSE Greatest(seen)
  BY DEF MaxObserved
<1>3. CASE seen = {}
  BY <1>2, <1>3 DEF Seen
<1>4. CASE seen # {}
  <2>1. Greatest(seen) \in seen /\ \A y \in seen : y <= Greatest(seen)
    BY <1>1, <1>4, GreatestFacts
  <2> QED BY <1>1, <1>2, <1>4, <2>1 DEF Seen
<1> QED BY <1>3, <1>4

LEMMA SelectedInSource == ASSUME TInv, NInv PROVE Selected \subseteq source
<1>1. ListPending \subseteq source
  BY DEF ListPending, NInv, SeenInOrder, Seen
<1> QED BY <1>1 DEF Selected, UpTo, ListAfter

LEMMA SelectedClosed ==
  ASSUME TInv, NInv, NEW a \in Selected, NEW c \in source, c < a
  PROVE  Seen(c) \/ c \in Selected
<1>0. SourceLimit \in Nat /\ source \subseteq Archives /\ Archives \subseteq Nat \ {0}
  BY LimitsAssumption, ArchivesAssumption DEF TInv, RowsType
<1>1. CASE ListPending # {}
  <2>1. a \in ListPending
    BY <1>1 DEF Selected, UpTo
  <2>2. a \in Archives /\ Seen(a)
    BY <2>1 DEF ListPending, Seen
  <2> QED BY <1>0, <2>2 DEF NInv, SeenInOrder
<1>2. CASE ListPending = {}
  <2>1. /\ a \in UpTo(ListAfter(MaxObserved), SourceLimit)
        /\ Selected = UpTo(ListAfter(MaxObserved), SourceLimit)
    BY <1>2 DEF Selected
  <2>2. a \in source /\ ListAfter(MaxObserved) \in SUBSET Archives
    BY <1>0, <2>1 DEF UpTo, ListAfter
  <2>3. CASE c > MaxObserved
    <3>1. c \in ListAfter(MaxObserved)
      BY <2>3 DEF ListAfter
    <3> QED BY <1>0, <2>1, <2>2, <3>1, UpToClosed
  <2>4. CASE ~(c > MaxObserved)
    <3>1. c \in Nat \ {0} /\ MaxObserved \in Nat
      BY <1>0, MaxObservedFacts
    <3>2. c <= MaxObserved /\ MaxObserved # 0
      BY <2>4, <3>1
    <3>3. MaxObserved \in Archives /\ Seen(MaxObserved)
      BY <3>2, MaxObservedFacts
    <3> QED BY <2>2, <3>2, <3>3 DEF NInv, SeenInOrder
  <2> QED BY <2>3, <2>4
<1> QED BY <1>1, <1>2

\* Steps that change no archive row and do not enter or continue a scan.
LEMMA QuietSeen ==
  ASSUME TInv, NInv, NEW p \in Programs, Moved(p), UNCHANGED rows, archive' = archive,
         proc'[p].pc \notin {"create", "attach", "mark", "unwritten"}
  PROVE  NInv'
<1>1. \A a \in Archives : Seen(a) \/ archive[a].batch = NoBatch
  BY DEF NInv, SeenInOrder
<1> QED BY <1>1, SeenKeeps DEF Seen

LEMMA OutSeen ==
  ASSUME TInv, NInv, NEW p \in Programs, Out(p), UNCHANGED rows,
         \A a \in Archives : archive'[a].state # "NONE" <=> archive[a].state # "NONE",
         \A a \in Archives : archive'[a].batch = NoBatch \/ archive'[a].state # "NONE"
  PROVE  NInv'
<1>1. Moved(p) /\ proc'[p].pc \notin {"create", "attach", "mark", "unwritten"}
  BY DEF Out
<1> QED BY <1>1, SeenKeeps

LEMMA SelectSeen == ASSUME TInv, NInv, NEW p \in Programs, Select(p) PROVE NInv'
<1>0. archive' = archive /\ source' = source /\ UNCHANGED rows
  BY SelectFacts DEF indexTables, Still, rows
<1>1. CASE Ended(p)
  BY <1>0, <1>1, QuietSeen DEF Ended
<1>2. CASE ~Ended(p)
  <2>1. PICK bad \in SUBSET Archives :
          proc'[p].ids = Outcomes(Selected, bad) /\ proc'[p].todo = Outcomes(Selected, bad)
    BY <1>2, SelectFacts
  <2> DEFINE T == Outcomes(Selected, bad)
  <2>2. Selected \subseteq source /\ source \subseteq Nat /\ T \subseteq Selected
    BY SelectedInSource, ArchivesAssumption DEF TInv, RowsType, Outcomes
  <2>3. ASSUME NEW a \in T, NEW c \in source, c < a PROVE Seen(c) \/ c \in T
    <3>1. Seen(c) \/ c \in Selected
      BY <2>2, <2>3, SelectedClosed
    <3>2. ASSUME c \in Selected PROVE c \in T
      <4>1. \A d \in Selected : d <= a => Fits(Selected, bad, d)
        BY DEF Outcomes
      <4>2. ASSUME NEW d \in Selected, d <= c PROVE Fits(Selected, bad, d)
        <5>1. d \in Nat /\ c \in Nat /\ a \in Nat
          BY <2>2
        <5>2. d <= a
          BY <2>3, <4>2, <5>1
        <5> QED BY <4>1, <5>2
      <4> QED BY <3>2, <4>2 DEF Outcomes
    <3> QED BY <3>1, <3>2
  <2> HIDE DEF T
  <2>4. proc'[p].pc = "create" /\ Moved(p)
    BY <1>2, SelectFacts
  <2>5. /\ proc'[p].todo \subseteq source'
        /\ \A a \in proc'[p].todo, c \in source' : c < a => Seen(c)' \/ c \in proc'[p].todo
        /\ \A a \in proc'[p].ids : Seen(a)' \/ a \in proc'[p].todo
    BY <1>0, <2>1, <2>2, <2>3 DEF Seen, T
  <2>6. ScanClaim(proc[p])'
    BY <2>4, <2>5 DEF ScanClaim
  <2>7. \A a \in Archives : Seen(a) \/ archive[a].batch = NoBatch
    BY DEF NInv, SeenInOrder
  <2> QED BY <1>0, <2>4, <2>6, <2>7, SeenKeeps DEF Seen
<1> QED BY <1>1, <1>2

LEMMA CreateSeen == ASSUME TInv, NInv, NEW p \in Programs, CreateBatch(p) PROVE NInv'
<1>0. archive' = archive /\ source' = source /\ UNCHANGED rows
  BY CreateBatchFacts DEF Still, rows
<1>1. \A a \in Archives : Seen(a) \/ archive[a].batch = NoBatch
  BY DEF NInv, SeenInOrder
<1>2. CASE Out(p)
  BY <1>0, <1>1, <1>2, OutSeen DEF Seen
<1>3. CASE ~Out(p)
  <2>1. /\ proc'[p].pc = "attach" /\ Moved(p) /\ proc'[p].ids = proc[p].ids
        /\ proc'[p].todo = proc[p].todo /\ proc[p].pc = "create"
    BY <1>3, CreateBatchFacts
  <2>2. ScanClaim(proc[p])
    BY DEF NInv
  <2>3. ScanClaim(proc[p])'
    BY <1>0, <2>1, <2>2 DEF ScanClaim, Seen
  <2> QED BY <1>0, <1>1, <2>1, <2>3, SeenKeeps DEF Seen
<1> QED BY <1>2, <1>3

LEMMA WriteSeen == ASSUME TInv, NInv, NEW p \in Programs, WriteParsed(p) PROVE NInv'
<1>0. archive' = archive /\ source' = source /\ UNCHANGED rows
  BY WriteParsedFacts DEF Still, rows, indexTables
<1>1. \A a \in Archives : Seen(a) \/ archive[a].batch = NoBatch
  BY DEF NInv, SeenInOrder
<1>2. /\ proc'[p].pc \in {"mark", "unwritten"} /\ Moved(p) /\ proc'[p].ids = proc[p].ids
      /\ proc'[p].todo = proc[p].ids /\ proc[p].pc = "attach" /\ proc[p].todo = {}
  BY WriteParsedFacts
<1>3. ScanClaim(proc[p])
  BY DEF NInv
<1>4. \A a \in proc[p].ids : Seen(a)
  BY <1>2, <1>3 DEF ScanClaim
<1>5. ScanClaim(proc[p])'
  BY <1>0, <1>2, <1>4 DEF ScanClaim, Seen
<1> QED BY <1>0, <1>1, <1>2, <1>5, SeenKeeps DEF Seen

LEMMA MarkSeen ==
  ASSUME TInv, NInv, NEW p \in Programs, MarkArchive(p) \/ MarkUnwritten(p)
  PROVE  NInv'
<1> DEFINE a == Least(proc[p].todo)
<1>0. UNCHANGED rows /\ proc[p].pc \in {"mark", "unwritten"}
  BY MarkArchiveFacts, MarkUnwrittenFacts DEF Still
<1>1. \A x \in proc[p].ids \cup proc[p].todo : Seen(x)
  BY <1>0 DEF NInv, ScanClaim
<1>2. CASE proc[p].todo = {}
  <2>1. Out(p) /\ archive' = archive
    BY <1>2, MarkArchiveFacts, MarkUnwrittenFacts
  <2> QED BY <1>0, <2>1, QuietSeen DEF Out
<1>3. CASE proc[p].todo # {}
  <2>1. a \in proc[p].todo /\ a \in Archives
    BY <1>0, <1>3, ProgramFacts, LeastArchive DEF Shape
  <2>2. PICK s \in {"PARSED", "FAILED"} : archive' \in {archive, ArchiveStates({a}, s)}
    BY <1>3, MarkArchiveFacts, MarkUnwrittenFacts DEF MarkedArchive
  <2> HIDE DEF a
  <2>3. /\ \A x \in Archives : archive'[x].state # "NONE" <=> archive[x].state # "NONE"
        /\ \A x \in Archives : archive'[x].batch = NoBatch \/ archive'[x].state # "NONE"
    BY <1>1, <2>1, <2>2, MarkingSeen
  <2>4. CASE Out(p)
    BY <1>0, <2>3, <2>4, OutSeen
  <2>5. CASE ~Out(p)
    <3>1. /\ Moved(p) /\ proc'[p].pc \in {"mark", "unwritten"} /\ proc'[p].ids = proc[p].ids
          /\ proc'[p].todo \subseteq proc[p].todo
      BY <1>3, <2>5, MarkArchiveFacts, MarkUnwrittenFacts
    <3>2. proc[p].ids \subseteq Archives /\ proc[p].todo \subseteq Archives
      BY <1>0, ProgramFacts DEF Shape
    <3>3. \A x \in proc'[p].ids \cup proc'[p].todo : Seen(x)'
      BY <1>1, <2>3, <3>1, <3>2 DEF Seen
    <3>4. ScanClaim(proc[p])'
      BY <3>1, <3>3 DEF ScanClaim
    <3> QED BY <1>0, <2>3, <3>1, <3>4, SeenKeeps
  <2> QED BY <2>4, <2>5
<1> QED BY <1>2, <1>3

LEMMA AttachSeen == ASSUME TInv, NInv, NEW p \in Programs, AttachArchive(p) PROVE NInv'
<1> DEFINE a == Least(proc[p].todo)
<1>0. UNCHANGED rows /\ source' = source /\ proc[p].pc = "attach" /\ proc[p].todo # {}
  BY AttachArchiveFacts DEF Still, rows
<1>1. /\ a \in proc[p].todo /\ a \in Archives /\ a \in Nat /\ \A y \in proc[p].todo : a <= y
      /\ proc[p].b \in Batches /\ proc[p].ids \subseteq Archives /\ proc[p].todo \subseteq Archives
  BY <1>0, ProgramFacts, LeastArchive DEF Shape
<1>2. CASE archive' = archive
  <2>1. \A x \in Archives : Seen(x) \/ archive[x].batch = NoBatch
    BY DEF NInv, SeenInOrder
  <2>2. CASE Out(p)
    BY <1>0, <1>2, <2>1, <2>2, OutSeen DEF Seen
  <2>3. CASE ~Out(p)
    <3>1. /\ Moved(p) /\ proc'[p].pc = "attach" /\ proc'[p].ids = proc[p].ids
          /\ proc'[p].todo = proc[p].todo \ {a} /\ archive' = Attached(a, proc[p].b)
      BY <2>3, AttachArchiveFacts
    <3>2. archive[a] = [state |-> "PENDING", batch |-> proc[p].b]
      BY <1>1, <1>2, <3>1 DEF Attached, TInv, TablesType
    <3>3. Seen(a)
      BY <3>2 DEF Seen
    <3>4. ScanClaim(proc[p])'
      BY <1>0, <1>2, <3>1, <3>3 DEF NInv, ScanClaim, Seen
    <3> QED BY <1>0, <1>2, <2>1, <3>1, <3>4, SeenKeeps DEF Seen
  <2> QED BY <2>2, <2>3
<1>3. CASE archive' = Attached(a, proc[p].b)
  <2> HIDE DEF a
  <2>1. /\ archive'[a] = [state |-> "PENDING", batch |-> proc[p].b]
        /\ \A x \in Archives : x # a => archive'[x] = archive[x]
    BY <1>1, <1>3 DEF Attached, TInv, TablesType
  <2>2. ASSUME NEW x \in Archives PROVE Seen(x)' <=> (Seen(x) \/ x = a)
    <3>1. CASE x = a
      BY <2>1, <3>1 DEF Seen
    <3>2. CASE x # a
      BY <2>1, <3>2 DEF Seen
    <3> QED BY <3>1, <3>2
  <2>3. ScanClaim(proc[p]) /\ SeenInOrder /\ source \subseteq Archives /\ Archives \subseteq Nat
    BY ArchivesAssumption DEF NInv, TInv, RowsType
  <2>4. \A c \in source : c < a => Seen(c)
    BY <1>0, <1>1, <2>3 DEF ScanClaim
  <2>5. SeenInOrder'
    <3>1. \A x \in Archives : Seen(x)' => x \in source'
      BY <1>0, <1>1, <2>2, <2>3 DEF ScanClaim, SeenInOrder
    <3>2. ASSUME NEW x \in source', NEW c \in Archives, Seen(c)', x <= c PROVE Seen(x)'
      <4>1. x \in source /\ x \in Archives /\ x \in Nat /\ c \in Nat
        BY <1>0, <2>3
      <4>2. CASE c = a
        <5>1. x = a \/ x < a
          BY <1>1, <3>2, <4>1, <4>2
        <5> QED BY <2>2, <2>4, <4>1, <5>1
      <4>3. CASE c # a
        BY <2>2, <2>3, <3>2, <4>1, <4>3 DEF SeenInOrder
      <4> QED BY <4>2, <4>3
    <3>3. \A x \in Archives : Seen(x)' \/ archive'[x].batch = NoBatch
      BY <2>1, <2>2, <2>3 DEF SeenInOrder
    <3> QED BY <3>1, <3>2, <3>3 DEF SeenInOrder
  <2>6. AllocatedInOrder'
    BY <1>0 DEF NInv, AllocatedInOrder, Allocated, rows
  <2>7. ASSUME NEW q \in Programs PROVE ScanClaim(proc[q])'
    <3>1. CASE q # p
      <4>1. proc[q].pc \notin LockPcs /\ Moved(p)
        BY <1>0, <3>1, ProgramFacts, AttachArchiveFacts DEF LockPcs, Out
      <4>2. proc'[q].pc \notin {"create", "attach", "mark", "unwritten"}
        BY <3>1, <4>1 DEF LockPcs, Moved
      <4> QED BY <4>2 DEF ScanClaim
    <3>2. CASE q = p /\ Out(p)
      BY <3>2 DEF ScanClaim, Out
    <3>3. CASE q = p /\ ~Out(p)
      <4>1. /\ Moved(p) /\ proc'[p].pc = "attach" /\ proc'[p].ids = proc[p].ids
            /\ proc'[p].todo = proc[p].todo \ {a}
        BY <3>3, AttachArchiveFacts DEF a
      <4>2. proc'[p].todo \subseteq source'
        BY <1>0, <2>3, <4>1 DEF ScanClaim
      <4>3. \A x \in proc'[p].todo, c \in source' : c < x => Seen(c)' \/ c \in proc'[p].todo
        BY <1>0, <2>2, <2>3, <4>1 DEF ScanClaim
      <4>4. \A x \in proc'[p].ids : Seen(x)' \/ x \in proc'[p].todo
        BY <1>0, <1>1, <2>2, <2>3, <4>1 DEF ScanClaim
      <4> QED BY <3>3, <4>1, <4>2, <4>3, <4>4 DEF ScanClaim
    <3> QED BY <3>1, <3>2, <3>3
  <2> QED BY <2>5, <2>6, <2>7 DEF NInv
<1> QED BY <1>2, <1>3, AttachArchiveFacts

\* Statements on all archives of a batch.
LEMMA BatchMarkSeen ==
  ASSUME TInv, NInv, NEW p \in Programs, NEW STATE b, b \in Batches,
         NEW s \in {"PENDING", "FAILED"}, archive' \in {archive, ArchiveStates(ArchivesOf(b), s)},
         Moved(p), UNCHANGED rows, proc'[p].pc \notin {"create", "attach", "mark", "unwritten"}
  PROVE  NInv'
<1>1. \A a \in ArchivesOf(b) : Seen(a)
  BY BatchSeen
<1>2. /\ \A x \in Archives : archive'[x].state # "NONE" <=> archive[x].state # "NONE"
      /\ \A x \in Archives : archive'[x].batch = NoBatch \/ archive'[x].state # "NONE"
  BY <1>1, MarkingSeen
<1> QED BY <1>2, SeenKeeps

LEMMA PublishedSeen ==
  ASSUME TInv, NInv, NEW p \in Programs, NEW STATE b, NEW STATE h,
         Published(b, h) \/ archive' = archive,
         Moved(p), UNCHANGED rows, proc'[p].pc \notin {"create", "attach", "mark", "unwritten"}
  PROVE  NInv'
<1> DEFINE S == {a \in ArchivesOf(b) : archive[a].state = "PARSED"}
<1>1. \A a \in S : Seen(a)
  BY DEF Seen
<1>2. archive' \in {archive, ArchiveStates(S, "INDEXED")}
  BY DEF Published, ReadyArchives
<1> HIDE DEF S
<1>3. /\ \A x \in Archives : archive'[x].state # "NONE" <=> archive[x].state # "NONE"
      /\ \A x \in Archives : archive'[x].batch = NoBatch \/ archive'[x].state # "NONE"
  BY <1>1, <1>2, MarkingSeen
<1> QED BY <1>3, SeenKeeps

LEMMA ScanStepSeen ==
  ASSUME TInv, NInv, NEW p \in Programs,
         \/ RecoverList(p) \/ RecoverArchives(p) \/ RecoverBatch(p) \/ RecoverFiles(p)
         \/ FinishScan(p) \/ RetractBatch(p) \/ RequeueArchives(p) \/ EraseBatch(p) \/ IoFails(p)
  PROVE  NInv'
<1>0. Shape(p, proc[p]) /\ proc \in [Programs -> Locals]
  BY ProgramFacts
<1>1. CASE RecoverList(p)
  BY <1>1, RecoverListFacts, QuietSeen DEF Still, indexTables
<1>2. CASE RecoverArchives(p)
  <2>1. Least(proc[p].todo) \in Batches
    BY <1>0, <1>2, RecoverArchivesFacts, LeastBatch DEF Shape
  <2>2. Moved(p) /\ proc'[p].pc \notin {"create", "attach", "mark", "unwritten"}
    BY <1>0, <1>2, RecoverArchivesFacts, GotoFacts DEF Out, Pcs, LockPcs
  <2> QED BY <1>2, <2>1, <2>2, RecoverArchivesFacts, BatchMarkSeen DEF Still, InterruptedArchives
<1>3. CASE RecoverBatch(p)
  BY <1>3, RecoverBatchFacts, QuietSeen DEF Still, Out
<1>4. CASE RecoverFiles(p)
  <2>1. proc'[p].pc \in {"cleanup", "select"}
    BY <1>0, <1>4, RecoverFilesFacts, GotoFacts DEF Pcs, LockPcs, BuildPcs
  <2> QED BY <1>4, <2>1, RecoverFilesFacts, QuietSeen DEF Still, indexTables
<1>5. CASE FinishScan(p)
  BY <1>5, FinishScanFacts, QuietSeen DEF Still, Out, Ended
<1>6. CASE RetractBatch(p)
  <2>1. Moved(p) /\ proc'[p].pc \notin {"create", "attach", "mark", "unwritten"}
    BY <1>0, <1>6, RetractBatchFacts, GotoFacts DEF Out, Pcs, LockPcs
  <2> QED BY <1>6, <2>1, RetractBatchFacts, QuietSeen DEF Still
<1>7. CASE RequeueArchives(p)
  <2>1. proc[p].b \in Batches
    BY <1>0, <1>7, RequeueArchivesFacts DEF Shape
  <2>2. Moved(p) /\ proc'[p].pc \notin {"create", "attach", "mark", "unwritten"}
    BY <1>0, <1>7, RequeueArchivesFacts, GotoFacts DEF Out, Pcs, LockPcs
  <2> QED BY <1>7, <2>1, <2>2, RequeueArchivesFacts, BatchMarkSeen DEF Still, Requeued
<1>8. CASE EraseBatch(p)
  BY <1>8, EraseBatchFacts, QuietSeen DEF Still, Out, indexTables
<1>9. CASE IoFails(p)
  BY <1>9, IoFailsFacts, QuietSeen DEF Still, Out, indexTables
<1> QED BY <1>1, <1>2, <1>3, <1>4, <1>5, <1>6, <1>7, <1>8, <1>9

LEMMA RecoveryStepSeen ==
  ASSUME TInv, NInv, NEW p \in Programs,
         \/ ListBuilding(p) \/ InspectBatch(p) \/ ResetBatch(p) \/ Republish(p) \/ DiscardFiles(p)
         \/ DiscardBatch(p) \/ CleanupBuilding(p) \/ Recovered(p) \/ ListReady(p) \/ LoadSnapshot(p)
  PROVE  NInv'
<1>0. proc \in [Programs -> Locals]
  BY ProgramFacts
<1>1. CASE ListBuilding(p)
  BY <1>1, ListBuildingFacts, QuietSeen DEF Still, indexTables
<1>2. CASE InspectBatch(p)
  BY <1>2, InspectBatchFacts, QuietSeen DEF Still, indexTables
<1>3. CASE ResetBatch(p)
  BY <1>3, ResetBatchFacts, HandledFacts, QuietSeen DEF Still, Out
<1>4. CASE Republish(p)
  <2>1. Moved(p) /\ proc'[p].pc \notin {"create", "attach", "mark", "unwritten"} /\ UNCHANGED rows
    BY <1>4, RepublishFacts, HandledFacts DEF Out, Still
  <2>2. Published(Least(proc[p].todo), proc[p].sha) \/ archive' = archive
    BY <1>4, RepublishFacts
  <2> QED BY <2>1, <2>2, PublishedSeen
<1>5. CASE DiscardFiles(p)
  BY <1>0, <1>5, DiscardFilesFacts, GotoFacts, QuietSeen DEF Still, indexTables, Pcs, BuildPcs
<1>6. CASE DiscardBatch(p)
  BY <1>6, DiscardBatchFacts, HandledFacts, QuietSeen DEF Still, Out
<1>7. CASE CleanupBuilding(p)
  BY <1>0, <1>7, CleanupBuildingFacts, GotoFacts, QuietSeen DEF Still, indexTables, Pcs, BuildPcs
<1>8. CASE Recovered(p)
  BY <1>0, <1>8, RecoveredFacts, GotoFacts, QuietSeen DEF Still, indexTables, Pcs, BuildPcs
<1>9. CASE ListReady(p)
  BY <1>9, ListReadyFacts, QuietSeen DEF Still, indexTables
<1>10. CASE LoadSnapshot(p)
  <2>1. Moved(p) /\ proc'[p].pc \in {"interrupted", "idle", "down"}
    BY <1>10, LoadSnapshotFacts DEF Out
  <2> QED BY <1>10, <2>1, LoadSnapshotFacts, QuietSeen DEF indexTables
<1> QED BY <1>1, <1>2, <1>3, <1>4, <1>5, <1>6, <1>7, <1>8, <1>9, <1>10

LEMMA BuildStepSeen ==
  ASSUME TInv, NInv, NEW p \in Programs,
         \/ PickBatch(p) \/ ClaimBatch(p) \/ ReadParsed(p) \/ PrepareDirectory(p) \/ StoreFiles(p)
         \/ RenameDirectory(p) \/ PublishBatch(p) \/ AbandonFiles(p) \/ AbandonBatch(p)
  PROVE  NInv'
<1>0. proc \in [Programs -> Locals]
  BY ProgramFacts
<1>1. CASE PickBatch(p)
  BY <1>1, PickBatchFacts, QuietSeen DEF Still, indexTables, Out
<1>2. CASE ClaimBatch(p)
  BY <1>0, <1>2, ClaimBatchFacts, GotoFacts, QuietSeen DEF Still, Out, Pcs, BuildPcs
<1>3. CASE ReadParsed(p)
  BY <1>0, <1>3, ReadParsedFacts, GotoFacts, QuietSeen DEF Still, indexTables, Pcs, BuildPcs
<1>4. CASE PrepareDirectory(p)
  <2>1. proc'[p].pc \in {"store", "abandon"}
    <3>1. proc'[p] = Goto(p, "store") \/ proc'[p] = Goto(p, "abandon")
      BY <1>4, PrepareDirectoryFacts
    <3> QED BY <1>0, <3>1, GotoFacts DEF Pcs, BuildPcs
  <2> QED BY <1>4, <2>1, PrepareDirectoryFacts, QuietSeen DEF Still, indexTables
<1>5. CASE StoreFiles(p)
  <2>1. proc'[p].pc \in {"rename", "abandon"}
    <3>1. proc'[p] = Goto(p, "rename") \/ proc'[p] = Goto(p, "abandon")
      BY <1>5, StoreFilesFacts
    <3> QED BY <1>0, <3>1, GotoFacts DEF Pcs, BuildPcs
  <2> QED BY <1>5, <2>1, StoreFilesFacts, QuietSeen DEF Still, indexTables
<1>6. CASE RenameDirectory(p)
  <2>1. proc'[p].pc \in {"publish", "abandon"}
    <3>1. proc'[p] = Goto(p, "publish") \/ proc'[p] = Goto(p, "abandon")
      BY <1>6, RenameDirectoryFacts
    <3> QED BY <1>0, <3>1, GotoFacts DEF Pcs, BuildPcs
  <2> QED BY <1>6, <2>1, RenameDirectoryFacts, QuietSeen DEF Still, indexTables
<1>7. CASE PublishBatch(p)
  <2>1. Moved(p) /\ proc'[p].pc \notin {"create", "attach", "mark", "unwritten"} /\ UNCHANGED rows
    BY <1>0, <1>7, PublishBatchFacts, GotoFacts DEF Out, Still, Pcs, BuildPcs
  <2>2. Published(proc[p].b, p) \/ archive' = archive
    BY <1>7, PublishBatchFacts
  <2> QED BY <2>1, <2>2, PublishedSeen
<1>8. CASE AbandonFiles(p)
  BY <1>0, <1>8, AbandonFilesFacts, GotoFacts, QuietSeen DEF Still, indexTables, Pcs, BuildPcs
<1>9. CASE AbandonBatch(p)
  BY <1>9, AbandonBatchFacts, QuietSeen DEF Still, Out
<1> QED BY <1>1, <1>2, <1>3, <1>4, <1>5, <1>6, <1>7, <1>8, <1>9

LEMMA StepSeen == ASSUME TInv, NInv, NEW p \in Programs, Step(p) PROVE NInv'
BY SelectSeen, CreateSeen, AttachSeen, WriteSeen, MarkSeen, ScanStepSeen, RecoveryStepSeen,
   BuildStepSeen DEF Step

LEMMA SameSeen ==
  ASSUME TInv, NInv, UNCHANGED <<rows, indexTables, proc>>
  PROVE  NInv'
<1>1. AllocatedInOrder' /\ SeenInOrder'
  BY DEF NInv, AllocatedInOrder, SeenInOrder, Allocated, Seen, rows, indexTables
<1>2. \A p \in Programs : ScanClaim(proc[p])'
  BY DEF NInv, ScanClaim, Seen, rows, indexTables
<1> QED BY <1>1, <1>2 DEF NInv

LEMMA StartSeen == ASSUME TInv, NInv, ServerStart \/ Poll \/ AdminCommand PROVE NInv'
<1>1. ASSUME NEW p \in Programs, NEW t, Tried(p, t, "recover"), Still, UNCHANGED <<indexTables, dirs>>
      PROVE  NInv'
  BY <1>1, QuietSeen DEF Tried, Still, indexTables
<1>2. "server" \in Programs /\ "admin" \in Programs
  BY DEF Programs
<1>3. CASE ServerStart \/ Poll
  BY <1>1, <1>2, <1>3, ServerStartFacts, PollFacts
<1>4. CASE AdminCommand
  <2>1. CASE lock' = lock /\ proc' = proc
    BY <1>4, <2>1, AdminCommandFacts, SameSeen DEF Still
  <2>2. CASE Moved("admin") /\ proc'["admin"].pc \in {"retract", "cleanup"}
    BY <1>2, <1>4, <2>2, AdminCommandFacts, QuietSeen DEF Still, indexTables
  <2> QED BY <1>1, <1>2, <1>4, <2>1, <2>2, AdminCommandFacts
<1> QED BY <1>3, <1>4

LEMMA InsertBeginSeen ==
  ASSUME TInv, NInv, Inserts <= 1, InsertBegin
  PROVE  NInv'
<1> DEFINE x == Least(Archives \ Allocated)
<1>1. x \in Archives /\ x \notin Allocated /\ \A y \in Archives \ Allocated : x <= y
  BY LeastArchive DEF InsertBegin
<1>2. inserting = {}
  <2>1. IsFiniteSet(inserting)
    BY ArchivesAssumption, FS_Subset DEF TInv, RowsType
  <2>2. Cardinality(inserting) \in Nat /\ Cardinality(inserting) < Inserts /\ Inserts \in Nat
    BY <2>1, FS_CardinalityType, LimitsAssumption DEF InsertBegin
  <2>3. Cardinality(inserting) = 0
    BY <2>2
  <2> QED BY <2>1, <2>3, FS_EmptySet
<1>3. inserting' = {x} /\ UNCHANGED <<source, burnt, indexTables, proc>>
  BY <1>2 DEF InsertBegin, tables, indexTables
<1> HIDE DEF x
<1>4. Allocated' = Allocated \cup {x}
  BY <1>2, <1>3 DEF Allocated
<1>5. AllocatedInOrder /\ Archives \subseteq Nat /\ Allocated \subseteq Archives
      /\ source \cup burnt \subseteq Allocated
  BY ArchivesAssumption DEF NInv, TInv, RowsType, Allocated
<1>6. \A y \in Archives : y < x => y \in Allocated
  BY <1>1, <1>5
<1>7. \A y \in Allocated : y < x
  BY <1>1, <1>5 DEF AllocatedInOrder
<1>8. AllocatedInOrder'
  <2>1. \A u \in Allocated', y \in Archives : y < u => y \in Allocated'
    BY <1>4, <1>5, <1>6 DEF AllocatedInOrder
  <2>2. \A u, y \in inserting' : u = y
    BY <1>3
  <2>3. \A u \in inserting', y \in source' \cup burnt' : y < u
    BY <1>3, <1>5, <1>7
  <2> QED BY <2>1, <2>2, <2>3 DEF AllocatedInOrder
<1>9. SeenInOrder'
  BY <1>3 DEF NInv, SeenInOrder, Seen, indexTables
<1>10. \A p \in Programs : ScanClaim(proc[p])'
  BY <1>3 DEF NInv, ScanClaim, Seen, indexTables
<1> QED BY <1>8, <1>9, <1>10 DEF NInv

LEMMA InsertEndSeen ==
  ASSUME TInv, NInv, NEW a \in Archives, InsertEnd(a)
  PROVE  NInv'
<1>1. /\ a \in inserting /\ inserting = {a} /\ inserting' = {} /\ UNCHANGED <<indexTables, proc>>
      /\ source \subseteq source' /\ source' \subseteq source \cup {a} /\ Allocated' = Allocated
  BY DEF InsertEnd, NInv, AllocatedInOrder, Allocated, tables, indexTables
<1>2. AllocatedInOrder'
  BY <1>1 DEF NInv, AllocatedInOrder
<1>3. archive' = archive /\ proc' = proc /\ Archives \subseteq Nat /\ source \subseteq Archives
  BY <1>1, ArchivesAssumption DEF indexTables, TInv, RowsType
<1>4. \A y \in source : y < a
  BY <1>1 DEF NInv, AllocatedInOrder
<1>5. SeenInOrder /\ \A x \in Archives : Seen(x)' = Seen(x)
  BY <1>3 DEF NInv, Seen
<1>6. SeenInOrder'
  <2>1. \A x \in Archives : Seen(x)' => x \in source'
    BY <1>1, <1>5 DEF SeenInOrder
  <2>2. ASSUME NEW x \in source', NEW c \in Archives, Seen(c)', x <= c PROVE Seen(x)'
    <3>1. c \in source /\ c < a /\ c \in Nat /\ a \in Nat
      BY <1>3, <1>4, <1>5, <2>2 DEF SeenInOrder
    <3>2. x # a
      BY <2>2, <3>1
    <3> QED BY <1>1, <1>3, <1>5, <2>2, <3>2 DEF SeenInOrder
  <2>3. \A x \in Archives : Seen(x)' \/ archive'[x].batch = NoBatch
    BY <1>3, <1>5 DEF SeenInOrder
  <2> QED BY <2>1, <2>2, <2>3 DEF SeenInOrder
<1>7. ASSUME NEW p \in Programs PROVE ScanClaim(proc[p])'
  <2>1. ScanClaim(proc[p])
    BY DEF NInv
  <2>2. ASSUME proc[p].pc \in {"create", "attach"}, NEW x \in proc[p].todo, NEW c \in source', c < x
        PROVE  Seen(c) \/ c \in proc[p].todo
    <3>1. x \in source /\ x < a /\ x \in Nat /\ a \in Nat
      BY <1>3, <1>4, <2>1, <2>2 DEF ScanClaim
    <3>2. c # a
      BY <2>2, <3>1
    <3> QED BY <1>1, <2>1, <2>2, <3>2 DEF ScanClaim
  <2> QED BY <1>1, <1>3, <2>1, <2>2 DEF ScanClaim, Seen
<1> QED BY <1>2, <1>6, <1>7 DEF NInv

-----------------------------------------------------------------------------
(* What has been seen stays seen, also when a statement comes late.        *)

LEMMA SeenGrows ==
  ASSUME TablesType, NEW s \in Statements, NEW a \in Archives, Seen(a)
  PROVE  NewArchive(s)[a].state # "NONE"
<1>1. /\ archive \in [Archives -> ArchiveRows] /\ archive[a].state # "NONE"
  BY DEF TablesType, Seen
<1>2. /\ \A ok : MarkedArchive(s.a, ok)[a].state # "NONE"
      /\ InterruptedArchives(s.b)[a].state # "NONE" /\ Requeued(s.b)[a].state # "NONE"
      /\ ReadyArchives(s.b)[a].state # "NONE"
  BY <1>1, ArchiveStatesType DEF MarkedArchive, InterruptedArchives, Requeued, ReadyArchives
<1>3. Attached(s.a, s.b)[a].state # "NONE"
  BY <1>1 DEF Attached
<1> QED BY <1>1, <1>2, <1>3 DEF NewArchive

LEMMA NextGrows ==
  ASSUME TInv, LInv, [Next]_vars, NEW a \in Archives, Seen(a)
  PROVE  Seen(a)'
<1>1. TablesType
  BY DEF TInv
<1>2. CASE archive' = archive
  BY <1>2 DEF Seen
<1>3. ASSUME NEW s \in Statements, archive' = NewArchive(s) PROVE Seen(a)'
  BY <1>1, <1>3, SeenGrows DEF Seen
<1>4. CASE \E s \in late : ExecuteLate(s)
  BY <1>3, <1>4, LateType DEF LInv
<1>5. ASSUME NEW p \in Programs, Step(p) PROVE Seen(a)'
  <2>1. archive' = archive \/ archive' = NewArchive(Sent(p))
    BY <1>5, StepAccounted DEF Accounted
  <2>2. CASE Sent(p) = NoSql
    <3>1. NewArchive(Sent(p)) = archive
      BY <2>2 DEF NewArchive, NoSql, OnBatch, Sql
    <3> QED BY <1>2, <2>1, <3>1
  <2>3. CASE Sent(p) # NoSql
    BY <1>2, <1>3, <2>1, <2>3, SentType
  <2> QED BY <2>2, <2>3
<1>6. CASE InsertBegin \/ \E x \in Archives : InsertEnd(x)
  BY <1>2, <1>6, InsertType DEF indexTables
<1>7. CASE ServerStart \/ Poll \/ AdminCommand
  BY <1>2, <1>7 DEF ServerStart, Poll, AdminCommand, tables
<1>8. CASE \E p \in Programs : Crash(p)
  BY <1>2, <1>8, CrashFacts DEF indexTables
<1>9. CASE \E b \in Batches : Damage(b)
  BY <1>2, <1>9, DamageType DEF indexTables
<1>10. CASE UNCHANGED vars
  BY <1>2, <1>10 DEF vars, tables
<1> QED BY <1>4, <1>5, <1>6, <1>7, <1>8, <1>9, <1>10 DEF Next, ServerStep, Programs

\* A statement that is sent opens no gap, whenever it will be executed.
LEMMA SentClaim == ASSUME TInv, NInv, NEW p \in Programs PROVE LateClaim(Sent(p))
<1> DEFINE m == proc[p]
           first == Least(m.todo)
<1>1. m \in Locals /\ Shape(p, m) /\ ScanClaim(m) /\ Archives \subseteq Nat
  BY ProgramFacts, ArchivesAssumption DEF NInv
<1>2. m.pc \in {"attach", "mark", "unwritten"} /\ m.todo # {} =>
        first \in m.todo /\ first \in Nat /\ \A y \in m.todo : first <= y
  BY <1>1, LeastArchive DEF Shape
<1>3. m.pc = "attach" /\ m.todo # {} => first \in source /\ \A c \in source : c < first => Seen(c)
  <2> SUFFICES ASSUME m.pc = "attach", m.todo # {}, NEW c \in source, c < first
               PROVE  first \in source /\ Seen(c)
    BY <1>1, <1>2 DEF ScanClaim
  <2>1. c \in Nat /\ first \in Nat /\ first \in m.todo
    BY <1>1, <1>2 DEF TInv, RowsType
  <2>2. c \notin m.todo
    BY <1>2, <2>1
  <2> QED BY <1>1, <2>1, <2>2 DEF ScanClaim
<1>4. m.pc \in {"mark", "unwritten"} /\ m.todo # {} => Seen(first)
  BY <1>1, <1>2 DEF ScanClaim
<1> HIDE DEF m, first
<1>5. \/ Sent(p).do \notin ArchiveKinds
      \/ m.pc = "attach" /\ m.todo # {} /\ Sent(p).do = "attach" /\ Sent(p).a = first
      \/ m.pc \in {"mark", "unwritten"} /\ m.todo # {} /\ Sent(p).do # "attach" /\ Sent(p).a = first
  BY DEF Sent, m, first, Sql, OnBatch, OnArchive, NoSql, ArchiveKinds
<1> QED BY <1>3, <1>4, <1>5 DEF LateClaim, ArchiveKinds

LEMMA ClaimsKept ==
  ASSUME TInv, LInv, NInv, LNInv, [Next]_vars
  PROVE  LNInv'
<1> SUFFICES ASSUME NEW s \in late' PROVE LateClaim(s)'
  BY DEF LNInv
<1>1. s \in Statements /\ LateClaim(s)
  BY NextAccounted, SentType, SentClaim DEF LInv, LNInv
<1>2. \A a \in Archives : Seen(a) => Seen(a)'
  BY NextGrows
<1>3. source \subseteq source' /\ \A c \in source' \ source : \A a \in source : a < c
  <2>1. CASE InsertBegin
    BY <2>1 DEF InsertBegin
  <2>2. ASSUME NEW a \in Archives, InsertEnd(a)
        PROVE  source \subseteq source' /\ \A c \in source' \ source : \A x \in source : x < c
    BY <2>2 DEF InsertEnd, NInv, AllocatedInOrder
  <2>3. CASE source' = source
    BY <2>3
  <2>4. CASE \E p \in Programs : Step(p)
    BY <2>3, <2>4, StepAccounted DEF Accounted, rows
  <2>5. CASE ServerStart \/ Poll \/ AdminCommand
    BY <2>3, <2>5 DEF ServerStart, Poll, AdminCommand, rows
  <2>6. CASE (\E p \in Programs : Crash(p)) \/ (\E b \in Batches : Damage(b))
    BY <2>3, <2>6 DEF Crash, Damage, rows
  <2>7. CASE (\E x \in late : ExecuteLate(x)) \/ UNCHANGED vars
    BY <2>3, <2>7 DEF ExecuteLate, vars, rows
  <2> QED BY <2>1, <2>2, <2>4, <2>5, <2>6, <2>7 DEF Next, ServerStep, Programs
<1>4. source \subseteq Archives /\ Archives \subseteq Nat /\ source' \subseteq Nat
  <2>1. RowsType'
    BY TypeKept DEF TInv
  <2> QED BY <2>1, ArchivesAssumption DEF TInv, RowsType
<1>5. ASSUME s.do = "attach" PROVE s.a \in source' /\ \A c \in source' : c < s.a => Seen(c)'
  <2>1. s.a \in source /\ \A c \in source : c < s.a => Seen(c)
    BY <1>1, <1>5 DEF LateClaim
  <2>2. ASSUME NEW c \in source', c < s.a PROVE Seen(c)'
    <3>1. c \in source
      <4> DEFINE x == s.a
      <4>0. c \in Nat /\ x \in Nat /\ x \in source /\ c < x
        BY <1>4, <2>1, <2>2
      <4> HIDE DEF x
      <4>1. c \in Nat /\ x \in Nat /\ x \in source /\ ~(x < c)
        BY <4>0
      <4>2. c \in source' \ source => x < c
        BY <1>3, <4>1
      <4> QED BY <2>2, <4>1, <4>2
    <3> QED BY <1>2, <1>4, <2>1, <2>2, <3>1
  <2> QED BY <1>3, <2>1, <2>2
<1>6. s.do \in {"archiveParsed", "archiveFailed"} => Seen(s.a)'
  BY <1>1, <1>2 DEF LateClaim, Statements, ArchiveKinds
<1> QED BY <1>5, <1>6 DEF LateClaim

LEMMA LateSeen ==
  ASSUME TInv, LInv, NInv, LNInv, NEW s \in late, ExecuteLate(s)
  PROVE  NInv'
<1>1. /\ UNCHANGED <<rows, proc>> /\ archive' = NewArchive(s) /\ s \in Statements /\ LateClaim(s)
      /\ inserting' = inserting /\ source' = source /\ burnt' = burnt /\ proc' = proc
  BY LateType DEF LInv, LNInv, rows
<1>2. \A a \in Archives : Seen(a) => Seen(a)'
  BY <1>1, SeenGrows DEF TInv, Seen
<1>3. \A a \in Archives : Seen(a)' => Seen(a) \/ (s.do = "attach" /\ a = s.a)
  <2>1. /\ s.do \in {"archiveParsed", "archiveFailed"} => Seen(s.a)
        /\ s.do \in {"create"} \cup ArchiveKinds \cup BatchKinds /\ (s.do \in ArchiveKinds => s.a \in Archives)
        /\ archive \in [Archives -> ArchiveRows]
    BY <1>1 DEF LateClaim, Statements, TInv, TablesType
  <2>2. CASE s.do = "attach"
    BY <1>1, <2>1, <2>2 DEF NewArchive, Attached, Seen
  <2>3. CASE s.do \in {"archiveParsed", "archiveFailed"}
    BY <1>1, <2>1, <2>3, ArchiveStatesType DEF NewArchive, MarkedArchive, Seen, TInv
  <2>4. CASE s.do \in {"interrupt", "requeue", "ready"}
    <3>1. \A a \in ArchivesOf(s.b) : Seen(a)
      BY <1>1, <2>4, BatchSeen DEF Statements
    <3>2. NewArchive(s) = archive \/ \E S \in SUBSET ArchivesOf(s.b) :
            \E st \in {"FAILED", "PENDING", "INDEXED"} : NewArchive(s) = ArchiveStates(S, st)
      <4>1. NewArchive(s) \in {archive, InterruptedArchives(s.b), Requeued(s.b), ReadyArchives(s.b)}
        BY <2>4 DEF NewArchive
      <4> QED BY <4>1 DEF InterruptedArchives, Requeued, ReadyArchives
    <3> QED BY <1>1, <3>1, <3>2, ArchiveStatesType DEF Seen, TInv
  <2>5. CASE s.do \in {"create", "batchParsed", "batchFailed", "claim", "reset", "buildFailed"}
    BY <1>1, <2>5 DEF NewArchive, Seen
  <2> QED BY <2>1, <2>2, <2>3, <2>4, <2>5 DEF ArchiveKinds, BatchKinds
<1>4. s.do = "attach" => s.a \in source /\ \A c \in source : c < s.a => Seen(c)
  BY <1>1 DEF LateClaim
<1>5. AllocatedInOrder'
  BY <1>1 DEF NInv, AllocatedInOrder, Allocated
<1>6. SeenInOrder'
  <2>1. \A a \in Archives : Seen(a)' => a \in source'
    BY <1>1, <1>3, <1>4 DEF NInv, SeenInOrder
  <2>2. ASSUME NEW a \in source', NEW c \in Archives, Seen(c)', a <= c PROVE Seen(a)'
    <3>1. a \in source /\ a \in Archives /\ a \in Nat /\ c \in Nat
      BY <1>1, ArchivesAssumption DEF TInv, RowsType
    <3>2. CASE Seen(c)
      BY <1>2, <2>2, <3>1, <3>2 DEF NInv, SeenInOrder
    <3>3. CASE s.do = "attach" /\ c = s.a
      <4>1. a = c \/ a < c
        BY <2>2, <3>1
      <4> QED BY <1>2, <1>4, <2>2, <3>1, <3>3, <4>1
    <3> QED BY <1>3, <2>2, <3>2, <3>3
  <2>3. \A a \in Archives : Seen(a)' \/ archive'[a].batch = NoBatch
    <3> SUFFICES ASSUME NEW a \in Archives, ~Seen(a)' PROVE archive'[a].batch = NoBatch
      OBVIOUS
    <3>1. ~Seen(a) /\ archive[a].batch = NoBatch
      BY <1>2 DEF NInv, SeenInOrder
    <3>2. archive' \in [Archives -> ArchiveRows] /\ archive'[a].state = "NONE"
      BY LateType DEF TInv, TablesType, Seen
    <3>3. NewArchive(s)[a].batch \in {archive[a].batch} \/ NewArchive(s)[a].state # "NONE"
      <4>1. archive \in [Archives -> ArchiveRows] /\ (s.do = "attach" => s.a \in Archives)
        BY <1>1 DEF TInv, TablesType, Statements, ArchiveKinds
      <4>2. /\ \A ok : MarkedArchive(s.a, ok)[a].batch = archive[a].batch
            /\ InterruptedArchives(s.b)[a].batch = archive[a].batch
            /\ Requeued(s.b)[a].batch = archive[a].batch
            /\ ReadyArchives(s.b)[a].batch = archive[a].batch
        BY ArchiveStatesType DEF MarkedArchive, InterruptedArchives, Requeued, ReadyArchives, TInv
      <4>3. Attached(s.a, s.b)[a].batch = archive[a].batch \/ Attached(s.a, s.b)[a].state # "NONE"
        BY <4>1 DEF Attached
      <4> QED BY <4>2, <4>3 DEF NewArchive
    <3> QED BY <1>1, <3>1, <3>2, <3>3
  <2> QED BY <2>1, <2>2, <2>3 DEF SeenInOrder
<1>7. ASSUME NEW p \in Programs PROVE ScanClaim(proc[p])'
  <2>1. ScanClaim(proc[p]) /\ Shape(p, proc[p]) /\ source \subseteq Archives
    BY ProgramFacts DEF NInv, TInv, RowsType
  <2>2. proc[p].pc \in {"create", "attach", "mark", "unwritten"} =>
          proc[p].ids \subseteq Archives /\ proc[p].todo \subseteq Archives
    BY <2>1 DEF Shape
  <2>3. proc[p].pc \in {"create", "attach"} =>
          /\ proc[p].todo \subseteq source
          /\ \A a \in proc[p].todo, c \in source : c < a => Seen(c)' \/ c \in proc[p].todo
          /\ \A a \in proc[p].ids : Seen(a)' \/ a \in proc[p].todo
    BY <1>2, <2>1, <2>2 DEF ScanClaim
  <2>4. proc[p].pc \in {"mark", "unwritten"} => \A a \in proc[p].ids \cup proc[p].todo : Seen(a)'
    BY <1>2, <2>1, <2>2 DEF ScanClaim
  <2> QED BY <1>1, <2>3, <2>4 DEF ScanClaim
<1> QED BY <1>5, <1>6, <1>7 DEF NInv

\* When archives are committed one at a time no scan passes over one of them,
\* however its attempts fail, are repeated or come late: ListAfter(MaxObserved)
\* of the repository finds everything that is new.
THEOREM NothingIsSkipped == ASSUME Inserts <= 1 PROVE Spec => []NothingSkipped
<1>1. Init => NInv /\ LNInv
  <2> SUFFICES ASSUME Init PROVE NInv /\ LNInv
    OBVIOUS
  <2>1. Resting("down").pc = "down"
    BY RestingFacts, PcFacts
  <2>2. \A p \in Programs : ScanClaim(proc[p])
    BY <2>1 DEF Init, ScanClaim
  <2>3. AllocatedInOrder /\ SeenInOrder
    BY DEF Init, AllocatedInOrder, SeenInOrder, Allocated, Seen
  <2>4. LNInv
    BY DEF Init, LNInv
  <2> QED BY <2>2, <2>3, <2>4 DEF NInv
<1>2. TInv /\ LInv /\ NInv /\ LNInv /\ [Next]_vars => (NInv /\ LNInv)'
  <2> SUFFICES ASSUME TInv, LInv, NInv, LNInv, [Next]_vars PROVE NInv'
    BY ClaimsKept
  <2>1. "server" \in Programs /\ "admin" \in Programs
    BY DEF Programs
  <2>2. CASE ServerStep \/ AdminCommand \/ Step("admin")
    BY <2>1, <2>2, StepSeen, StartSeen DEF ServerStep
  <2>3. ASSUME NEW p \in Programs, Crash(p) PROVE NInv'
    BY <2>3, CrashFacts, QuietSeen DEF indexTables
  <2>4. ASSUME NEW b \in Batches, Damage(b) PROVE NInv'
    BY <2>4, DamageType, SameSeen
  <2>5. CASE UNCHANGED vars
    BY <2>5, SameSeen DEF vars, tables, indexTables
  <2>6. ASSUME NEW s \in late, ExecuteLate(s) PROVE NInv'
    BY <2>6, LateSeen
  <2> QED BY <2>2, <2>3, <2>4, <2>5, <2>6, InsertBeginSeen, InsertEndSeen DEF Next
<1>3. TInv /\ NInv => NothingSkipped
  <2> SUFFICES ASSUME TInv, NInv, NEW a \in source, a <= MaxObserved PROVE Seen(a)
    BY DEF NothingSkipped, Seen
  <2>1. a \in Nat \ {0} /\ MaxObserved \in Nat
    BY MaxObservedFacts, ArchivesAssumption DEF TInv, RowsType
  <2>2. MaxObserved \in Archives /\ Seen(MaxObserved)
    BY <2>1, MaxObservedFacts
  <2> QED BY <2>2 DEF NInv, SeenInOrder
<1> QED BY <1>1, <1>2, <1>3, ShapeAndLock, PTL DEF Spec

-----------------------------------------------------------------------------
(***************************************************************************)
(* Until a statement is executed late or both programs build at once, the  *)
(* tables of the index describe its files, the snapshot of the Search      *)
(* Server is sound, and the READY batches are a catalog.                   *)
(*                                                                         *)
(* The two programs are kept apart by a rely-guarantee argument: LockGuar  *)
(* is what the holder of the flock may do to a builder of segments, and    *)
(* BuildGuar what a builder may do to the holder of the flock.             *)
(***************************************************************************)

-----------------------------------------------------------------------------
(* The tables and files, one kind of change at a time.                     *)

LEMMA TableFacts ==
  ASSUME TInv
  PROVE  /\ \A b \in Batches : batch[b] \in BatchRows /\ State(b) = batch[b].state /\ b # NoBatch
         /\ \A a \in Archives : archive[a] \in ArchiveRows
         /\ \A a \in Archives : archive[a].batch \in Batches \cup {NoBatch}
         /\ \A b \in Batches : segment[b] \in Dirs /\ building[b] \in Dirs /\ parsed[b] \in SUBSET Archives
         /\ Batches \subseteq Nat
BY ArchivesAssumption DEF TInv, TablesType, DirsType, State, ArchiveRows, NoBatch

\* Files of FAILED batches are free to change, those of PARSING batches are
\* not read yet, and the segment of a BUILDING batch may go and come.
LEMMA FilesChange ==
  ASSUME TInv, GInv, UNCHANGED <<indexTables, snapshot>>,
         \A b \in Batches : parsed'[b] = parsed[b] \/ State(b) \in {"PARSING", "FAILED"},
         \A b \in Batches :
           \/ segment'[b] = segment[b] \/ State(b) = "FAILED"
           \/ State(b) = "BUILDING" /\ (segment'[b] = NoDir \/ segment'[b].archives = parsed[b])
  PROVE  GInv'
<1>1. archive' = archive /\ batch' = batch /\ snapshot' = snapshot
  BY DEF indexTables
<1>2. \A a \in Archives : RowOK(a)'
  BY <1>1 DEF GInv, RowOK, State
<1>3. ASSUME NEW b \in Batches PROVE FilesOK(b)'
  <2>1. FilesOK(b)
    BY DEF GInv
  <2>2. In(b, "PARSED")' = In(b, "PARSED") /\ In(b, "INDEXED")' = In(b, "INDEXED")
        /\ State(b)' = State(b)
    BY <1>1 DEF In, State
  <2>3. batch'[b].sha = batch[b].sha
    BY <1>1
  <2> QED BY <2>1, <2>2, <2>3 DEF FilesOK
<1>4. \A b, c \in Batches : OrderOK(b, c)'
  BY <1>1 DEF GInv, OrderOK, State
<1>5. SnapshotMatches'
  <2>1. DOMAIN snapshot \subseteq Batches /\ SnapshotMatches
    BY DEF TInv, GInv
  <2> QED BY <1>1, <2>1 DEF SnapshotMatches, State
<1> QED BY <1>2, <1>3, <1>4, <1>5 DEF GInv

\* Archives move between batches that nobody publishes.
LEMMA ArchivesChange ==
  ASSUME TInv, TInv', GInv, batch' = batch, UNCHANGED <<dirs, snapshot>>,
         \A a \in Archives :
           \/ archive'[a] = archive[a]
           \/ /\ archive'[a].state \in {"PENDING", "PARSED", "FAILED"}
              /\ archive'[a].batch \in Batches /\ State(archive'[a].batch) \in {"PARSING", "FAILED"}
              /\ \/ archive[a].state \notin {"PARSED", "INDEXED"}
                 \/ archive[a].batch \in Batches /\ State(archive[a].batch) \in {"PARSING", "FAILED"}
  PROVE  GInv'
<1>1. segment' = segment /\ parsed' = parsed /\ snapshot' = snapshot
  BY DEF dirs
<1>2. \A b \in Batches : State(b)' = State(b) /\ b # NoBatch
  BY TableFacts DEF State
<1>3. ASSUME NEW a \in Archives PROVE RowOK(a)'
  <2>1. RowOK(a)
    BY DEF GInv
  <2>2. CASE archive'[a] = archive[a]
    BY <2>1, <2>2 DEF RowOK, State
  <2>3. CASE archive'[a] # archive[a]
    BY <1>2, <2>3 DEF RowOK, State
  <2> QED BY <2>2, <2>3
<1>4. ASSUME NEW b \in Batches PROVE FilesOK(b)'
  <2>1. FilesOK(b) /\ State(b)' = State(b) /\ batch'[b].sha = batch[b].sha
    BY <1>2 DEF GInv
  <2>2. CASE State(b) \in {"PARSED", "BUILDING", "READY"}
    <3>1. In(b, "PARSED")' = In(b, "PARSED") /\ In(b, "INDEXED")' = In(b, "INDEXED")
      BY <2>2 DEF In
    <3> QED BY <1>1, <2>1, <3>1 DEF FilesOK
  <2>3. CASE State(b) \notin {"PARSED", "BUILDING", "READY"}
    BY <1>1, <2>1, <2>3 DEF FilesOK
  <2> QED BY <2>2, <2>3
<1>5. \A b, c \in Batches : OrderOK(b, c)'
  BY <1>2 DEF GInv, OrderOK
<1>6. SnapshotMatches'
  <2>1. DOMAIN snapshot \subseteq Batches /\ SnapshotMatches
    BY DEF TInv, GInv
  <2> QED BY <1>1, <2>1 DEF SnapshotMatches, State
<1> QED BY <1>3, <1>4, <1>5, <1>6 DEF GInv

\* Batch b gets another state, archives and files stay.
BatchGoes(b, s) ==
  /\ archive' = archive /\ UNCHANGED <<dirs, snapshot>>
  /\ batch'[b].state = s /\ \A c \in Batches : c # b => batch'[c] = batch[c]

LEMMA BatchChange ==
  ASSUME TInv, TInv', GInv, NEW b \in Batches, NEW s, BatchGoes(b, s), FilesOK(b)',
         s # "NONE", State(b) # "READY" \/ s = "FAILED", State(b) # "FAILED" \/ s = "FAILED",
         \A c \in Batches : c # b => OrderOK(b, c)' /\ OrderOK(c, b)'
  PROVE  GInv'
<1>1. /\ segment' = segment /\ parsed' = parsed /\ snapshot' = snapshot /\ archive' = archive
      /\ State(b)' = s /\ \A c \in Batches : c # b => State(c)' = State(c) /\ batch'[c] = batch[c]
  BY DEF dirs, State, BatchGoes
<1>2. ASSUME NEW a \in Archives PROVE RowOK(a)'
  <2>1. RowOK(a) /\ archive[a].batch \in Batches \cup {NoBatch}
    BY TableFacts DEF GInv
  <2> QED BY <1>1, <2>1 DEF RowOK
<1>3. ASSUME NEW c \in Batches PROVE FilesOK(c)'
  <2>1. CASE c = b
    BY <2>1
  <2>2. CASE c # b
    <3>1. In(c, "PARSED")' = In(c, "PARSED") /\ In(c, "INDEXED")' = In(c, "INDEXED")
      BY <1>1 DEF In
    <3>2. FilesOK(c)
      BY DEF GInv
    <3> QED BY <1>1, <2>2, <3>1, <3>2 DEF FilesOK
  <2> QED BY <2>1, <2>2
<1>4. ASSUME NEW c \in Batches, NEW d \in Batches PROVE OrderOK(c, d)'
  <2>1. CASE c # b /\ d # b
    BY <1>1, <2>1 DEF GInv, OrderOK
  <2>2. CASE c = b /\ d = b
    BY <1>1, <2>2, TableFacts DEF OrderOK
  <2> QED BY <2>1, <2>2
<1>5. SnapshotMatches'
  <2>1. DOMAIN snapshot \subseteq Batches /\ SnapshotMatches
    BY DEF TInv, GInv
  <2>2. ASSUME NEW c \in DOMAIN snapshot'
        PROVE  \/ batch'[c].state = "READY" /\ snapshot'[c] = segment'[c].archives
               \/ batch'[c].state = "FAILED"
    BY <1>1, <2>1 DEF SnapshotMatches, State
  <2> QED BY <1>1, <2>1, <2>2 DEF SnapshotMatches
<1> QED BY <1>2, <1>3, <1>4, <1>5 DEF GInv

LEMMA BatchFails ==
  ASSUME TInv, TInv', GInv, NEW b \in Batches, State(b) # "NONE", BatchGoes(b, "FAILED")
  PROVE  GInv'
<1>1. FilesOK(b)'
  BY DEF FilesOK, State, BatchGoes
<1>2. \A c \in Batches : c # b => OrderOK(b, c)' /\ OrderOK(c, b)'
  <2>1. \A c \in Batches : c # b => OrderOK(b, c) /\ OrderOK(c, b) /\ State(c)' = State(c)
    BY DEF GInv, State, BatchGoes
  <2>2. State(b)' = "FAILED"
    BY DEF State, BatchGoes
  <2> QED BY <2>1, <2>2 DEF OrderOK
<1> QED BY <1>1, <1>2, BatchChange

LEMMA BatchStateGoes ==
  ASSUME TInv, NEW b \in Batches, archive' = archive, UNCHANGED <<dirs, snapshot>>,
         NEW s \in {"NONE", "PARSING", "PARSED", "BUILDING", "READY", "FAILED"},
         batch' = BatchState(b, s)
  PROVE  BatchGoes(b, s)
<1>1. TablesType
  BY DEF TInv
<1> QED BY <1>1, BatchStateType DEF BatchGoes

LEMMA BatchCreated ==
  ASSUME TInv, TInv', GInv, Unused # {}, BatchesIn({"PARSING"}) = {},
         archive' = archive, UNCHANGED <<dirs, snapshot>>, batch' = BatchState(Least(Unused), "PARSING")
  PROVE  GInv'
<1>0. PICK b : b = Least(Unused)
  OBVIOUS
<1>1. b \in Batches /\ State(b) = "NONE" /\ \A c \in Batches : State(c) = "NONE" => b <= c
  BY <1>0, LeastBatch DEF Unused, BatchesIn, State
<1>2. BatchGoes(b, "PARSING")
  BY <1>0, <1>1, BatchStateGoes DEF Created
<1>3. FilesOK(b)'
  <2>1. segment[b] = NoDir /\ segment' = segment
    BY <1>1, <1>2 DEF GInv, FilesOK, BatchGoes, dirs
  <2>2. State(b)' = "PARSING"
    BY <1>2 DEF BatchGoes, State
  <2> QED BY <2>1, <2>2 DEF FilesOK
<1>4. ASSUME NEW c \in Batches, c # b PROVE OrderOK(b, c)' /\ OrderOK(c, b)'
  <2>1. OrderOK(b, c) /\ OrderOK(c, b) /\ State(c)' = State(c) /\ State(b)' = "PARSING"
    BY <1>1, <1>2, <1>4 DEF GInv, BatchGoes, State
  <2>2. b \in Nat /\ c \in Nat /\ State(c) # "PARSING"
    BY <1>1, TableFacts DEF BatchesIn, State
  <2>3. State(c) = "NONE" => b < c
    BY <1>1, <1>4, <2>2
  <2>4. State(c) # "NONE" => c < b
    BY <1>1, <2>1 DEF OrderOK
  <2> QED BY <1>1, <2>1, <2>2, <2>3, <2>4 DEF OrderOK
<1> QED BY <1>1, <1>2, <1>3, <1>4, BatchChange

LEMMA BatchParsed ==
  ASSUME TInv, TInv', GInv, NEW b \in Batches, State(b) = "PARSING", BatchGoes(b, "PARSED"),
         parsed[b] # {}, parsed[b] = In(b, "PARSED")
  PROVE  GInv'
<1>1. State(b)' = "PARSED" /\ segment' = segment /\ parsed' = parsed /\ archive' = archive
  BY DEF BatchGoes, State, dirs
<1>2. FilesOK(b)'
  <2>1. segment[b] = NoDir /\ In(b, "PARSED")' = In(b, "PARSED")
    BY <1>1 DEF GInv, FilesOK, In
  <2> QED BY <1>1, <2>1 DEF FilesOK
<1>3. ASSUME NEW c \in Batches, c # b PROVE OrderOK(b, c)' /\ OrderOK(c, b)'
  <2>1. OrderOK(b, c) /\ OrderOK(c, b) /\ State(c)' = State(c) /\ b \in Nat /\ c \in Nat
    BY <1>3, TableFacts DEF GInv, BatchGoes, State
  <2>2. State(c) # "NONE" => c < b
    BY <1>3, <2>1 DEF OrderOK
  <2> QED BY <1>1, <2>1, <2>2 DEF OrderOK
<1> QED BY <1>2, <1>3, BatchChange

LEMMA BatchReset ==
  ASSUME TInv, TInv', GInv, NEW b \in Batches, State(b) = "BUILDING", BatchGoes(b, "PARSED"),
         segment[b] = NoDir
  PROVE  GInv'
<1>1. State(b)' = "PARSED" /\ segment' = segment /\ parsed' = parsed /\ archive' = archive
  BY DEF BatchGoes, State, dirs
<1>2. FilesOK(b)'
  <2>1. parsed[b] # {} /\ parsed[b] = In(b, "PARSED") /\ In(b, "PARSED")' = In(b, "PARSED")
    BY <1>1 DEF GInv, FilesOK, In
  <2> QED BY <1>1, <2>1 DEF FilesOK
<1>3. ASSUME NEW c \in Batches, c # b PROVE OrderOK(b, c)' /\ OrderOK(c, b)'
  <2>1. OrderOK(b, c) /\ OrderOK(c, b) /\ State(c)' = State(c) /\ b \in Nat /\ c \in Nat
    BY <1>3, TableFacts DEF GInv, BatchGoes, State
  <2>2. State(c) # "BUILDING"
    BY <1>3, <2>1 DEF OrderOK
  <2> QED BY <1>1, <2>1, <2>2 DEF OrderOK
<1> QED BY <1>2, <1>3, BatchChange

LEMMA BatchClaimed ==
  ASSUME TInv, TInv', GInv, NEW b \in Batches, State(b) = "PARSED", BatchGoes(b, "BUILDING"),
         BatchesIn({"BUILDING"}) = {}, \A c \in BatchesIn({"PARSED"}) : b <= c
  PROVE  GInv'
<1>1. State(b)' = "BUILDING" /\ segment' = segment /\ parsed' = parsed /\ archive' = archive
  BY DEF BatchGoes, State, dirs
<1>2. FilesOK(b)'
  <2>1. /\ parsed[b] # {} /\ parsed[b] = In(b, "PARSED") /\ In(b, "PARSED")' = In(b, "PARSED")
        /\ segment[b] = NoDir
    BY <1>1 DEF GInv, FilesOK, In
  <2> QED BY <1>1, <2>1 DEF FilesOK
<1>3. ASSUME NEW c \in Batches, c # b PROVE OrderOK(b, c)' /\ OrderOK(c, b)'
  <2>1. OrderOK(b, c) /\ OrderOK(c, b) /\ State(c)' = State(c) /\ b \in Nat /\ c \in Nat
    BY <1>3, TableFacts DEF GInv, BatchGoes, State
  <2>2. State(c) # "BUILDING" /\ (State(c) = "PARSED" => b < c)
    BY <1>3, <2>1 DEF BatchesIn, State
  <2> QED BY <1>1, <2>1, <2>2 DEF OrderOK
<1> QED BY <1>2, <1>3, BatchChange

LEMMA PublishedFacts ==
  ASSUME TInv, NEW b \in Batches, NEW STATE h, Published(b, h)
  PROVE  /\ State(b)' = "READY" /\ batch'[b].sha = h
         /\ \A c \in Batches : c # b => State(c)' = State(c) /\ batch'[c] = batch[c]
         /\ \A a \in Archives : /\ archive'[a].batch = archive[a].batch
                                /\ archive'[a].state = IF a \in In(b, "PARSED") THEN "INDEXED"
                                                       ELSE archive[a].state
                                /\ a \notin In(b, "PARSED") => archive'[a] = archive[a]
<1>1. TablesType
  BY DEF TInv
<1>2. /\ archive' = ArchiveStates(In(b, "PARSED"), "INDEXED")
      /\ batch' = [batch EXCEPT ![b] = [state |-> "READY", sha |-> h]]
  BY DEF Published, ReadyArchives, In, ArchivesOf
<1>3. \A a \in Archives : /\ archive'[a].batch = archive[a].batch
                          /\ archive'[a].state = IF a \in In(b, "PARSED") THEN "INDEXED"
                                                 ELSE archive[a].state
                          /\ a \notin In(b, "PARSED") => archive'[a] = archive[a]
  BY <1>1, <1>2, ArchiveStatesType
<1>4. batch'[b] = [state |-> "READY", sha |-> h] /\ \A c \in Batches : c # b => batch'[c] = batch[c]
  BY <1>1, <1>2 DEF TablesType
<1> QED BY <1>3, <1>4 DEF State

LEMMA BatchPublished ==
  ASSUME TInv, TInv', GInv, NEW b \in Batches, NEW STATE h, Published(b, h), UNCHANGED <<dirs, snapshot>>,
         segment[b] # NoDir, segment[b].builder = h
  PROVE  GInv'
<1>1. segment' = segment /\ parsed' = parsed /\ snapshot' = snapshot /\ State(b) = "BUILDING"
  BY DEF dirs, Published
<1>2. ASSUME NEW a \in Archives PROVE RowOK(a)'
  <2>1. RowOK(a) /\ archive[a].batch \in Batches \cup {NoBatch}
    BY TableFacts DEF GInv
  <2>2. CASE a \in In(b, "PARSED")
    BY <2>1, <2>2, PublishedFacts, TableFacts DEF RowOK, In
  <2>3. CASE a \notin In(b, "PARSED")
    <3>1. archive'[a] = archive[a]
      BY <2>3, PublishedFacts
    <3>2. CASE archive[a].batch = b
      BY <2>1, <3>1, <3>2, PublishedFacts, TableFacts DEF RowOK
    <3>3. CASE archive[a].batch # b
      BY <2>1, <3>1, <3>3, PublishedFacts DEF RowOK
    <3> QED BY <3>2, <3>3
  <2> QED BY <2>2, <2>3
<1>3. ASSUME NEW c \in Batches PROVE FilesOK(c)'
  <2>1. FilesOK(c)
    BY DEF GInv
  <2>2. CASE c = b
    <3>1. In(b, "INDEXED") = {}
      BY <1>1 DEF GInv, RowOK, In
    <3>2. In(b, "INDEXED")' = In(b, "PARSED")
      BY <3>1, PublishedFacts DEF In
    <3>3. segment[b].archives = In(b, "PARSED")
      BY <1>1, <2>1, <2>2 DEF FilesOK
    <3> QED BY <1>1, <2>2, <3>2, <3>3, PublishedFacts DEF FilesOK
  <2>3. CASE c # b
    <3>1. In(c, "PARSED")' = In(c, "PARSED") /\ In(c, "INDEXED")' = In(c, "INDEXED")
      BY <2>3, PublishedFacts DEF In
    <3> QED BY <1>1, <2>1, <2>3, <3>1, PublishedFacts DEF FilesOK
  <2> QED BY <2>2, <2>3
<1>4. ASSUME NEW c \in Batches, NEW d \in Batches PROVE OrderOK(c, d)'
  <2>1. OrderOK(c, d) /\ OrderOK(d, c) /\ c \in Nat /\ d \in Nat
    BY TableFacts DEF GInv
  <2> QED BY <1>1, <2>1, PublishedFacts DEF OrderOK
<1>5. SnapshotMatches'
  <2>1. DOMAIN snapshot \subseteq Batches /\ SnapshotMatches
    BY DEF TInv, GInv
  <2>2. ASSUME NEW c \in DOMAIN snapshot'
        PROVE  \/ batch'[c].state = "READY" /\ snapshot'[c] = segment'[c].archives
               \/ batch'[c].state = "FAILED"
    <3>1. c # b
      BY <1>1, <2>1 DEF SnapshotMatches, State
    <3> QED BY <1>1, <2>1, <3>1, PublishedFacts DEF SnapshotMatches
  <2> QED BY <1>1, <2>1, <2>2 DEF SnapshotMatches
<1> QED BY <1>2, <1>3, <1>4, <1>5 DEF GInv

-----------------------------------------------------------------------------
(* What the two programs may do to each other.                             *)

\* What a step may do to the READY batches: nothing, withdraw one, publish one.
CatalogSame ==
  \A b \in Batches :
    /\ State(b) = "READY" => segment'[b].archives = segment[b].archives
    /\ \/ batch'[b].state = State(b)
       \/ State(b) \notin {"READY", "FAILED"} /\ batch'[b].state \notin {"READY", "FAILED"}
BatchLeaves(b) ==
  /\ State(b) # "FAILED" /\ batch'[b].state = "FAILED" /\ segment' = segment
  /\ \A c \in Batches : c # b => batch'[c] = batch[c]
BatchEnters(b) ==
  /\ State(b) = "BUILDING" /\ batch'[b].state = "READY" /\ segment' = segment
  /\ \A c \in Batches : c # b => batch'[c] = batch[c]
CatalogStep == CatalogSame \/ \E b \in Batches : BatchLeaves(b) \/ BatchEnters(b)

\* By the holder of the flock.
LockGuar ==
  /\ CatalogStep
  /\ \A b \in Batches :
       \/ batch'[b] = batch[b]
       \/ State(b) # "NONE" /\ batch'[b].state = "FAILED"
       \/ State(b) \in {"NONE", "PARSING"} /\ batch'[b].state \in {"PARSING", "PARSED"}
  /\ \A b \in Batches :
       /\ segment'[b] = segment[b] \/ (segment'[b] = NoDir /\ State(b) = "FAILED")
       /\ building'[b] = building[b] \/ State(b) = "FAILED"
       /\ parsed'[b] = parsed[b] \/ State(b) \in {"PARSING", "FAILED"}

\* By a program that builds segments.
BuildGuar ==
  /\ CatalogStep
  /\ parsed' = parsed
  /\ \A a \in Archives :
       /\ archive'[a].batch = archive[a].batch
       /\ \/ archive'[a] = archive[a]
          \/ archive[a].state = "PARSED" /\ State(archive[a].batch) = "BUILDING"
  /\ \A b \in Batches :
       \/ batch'[b] = batch[b]
       \/ /\ State(b) \notin {"NONE", "PARSING", "FAILED"}
          /\ batch'[b].state \notin {"NONE", "PARSING"}

LEMMA BuildClaimRelies ==
  ASSUME TInv, TInv', GInv, LockGuar, NEW q \in Programs, proc'[q] = proc[q], BuildClaim(q, proc[q])
  PROVE  BuildClaim(q, proc[q])'
<1>0. PICK m : m = proc[q] /\ m = proc'[q]
  OBVIOUS
<1>1. /\ \A b \in Batches : State(b)' \in {"BUILDING", "READY"} => State(b)' = State(b)
      /\ \A b \in Batches : State(b) = "FAILED" => State(b)' = "FAILED"
      /\ \A b \in Batches : State(b) \in {"PARSED", "BUILDING", "READY"} => State(b)' \in {State(b), "FAILED"}
      /\ \A b \in Batches : State(b)' = "PARSED" => State(b) \in {"NONE", "PARSING", "PARSED"}
      /\ BatchesIn({"BUILDING"})' \subseteq BatchesIn({"BUILDING"})
  BY DEF LockGuar, State, BatchesIn
<1>2. m \in Locals /\ Shape(q, m)
  BY <1>0, ProgramFacts
<1>3. \A r \in m.list : r.b \in Batches
  BY <1>0, ProgramFacts DEF Listed
<1>4. m.pc \in {"inspect", "reset", "republish", "discard", "discarded"} => m.todo \subseteq Batches
  BY <1>2 DEF Shape
<1>5. m.pc \in {"reset", "republish"} => Least(m.todo) \in Batches
  BY <1>2, LeastBatch DEF Shape
<1>6. m.pc \in {"claim", "read", "prepare", "store", "rename", "publish", "abandon", "abandoned"} =>
        m.b \in Batches
  BY <1>2 DEF Shape
<1>7. proc'[q] = m /\ BuildClaim(q, m)
  BY <1>0
<1>8. m.pc \in {"inspect", "reset", "republish", "discard", "discarded"} =>
        /\ BatchesIn({"BUILDING"})' \subseteq m.todo
        /\ \A b \in m.todo : State(b)' \in {"BUILDING", "FAILED"}
  BY <1>1, <1>4, <1>7 DEF BuildClaim
<1>9. m.pc = "reset" /\ State(Least(m.todo))' = "BUILDING" => segment'[Least(m.todo)] = NoDir
  BY <1>1, <1>5, <1>7 DEF BuildClaim, LockGuar
<1>10. m.pc = "republish" /\ State(Least(m.todo))' = "BUILDING" =>
         segment'[Least(m.todo)] # NoDir /\ segment'[Least(m.todo)].builder = m.sha
  BY <1>1, <1>5, <1>7 DEF BuildClaim, LockGuar
<1>11. m.pc \in {"pick", "claim"} => BatchesIn({"BUILDING"})' = {}
  BY <1>1, <1>7 DEF BuildClaim
<1>12. m.pc = "claim" => State(m.b)' \in {"PARSED", "FAILED"}
  BY <1>1, <1>6, <1>7 DEF BuildClaim
<1>13. m.pc = "claim" /\ State(m.b)' = "PARSED" => \A c \in BatchesIn({"PARSED"})' : m.b <= c
  <2> SUFFICES ASSUME m.pc = "claim", State(m.b)' = "PARSED", NEW c \in Batches, State(c)' = "PARSED"
               PROVE  m.b <= c
    BY DEF BatchesIn, State
  <2>1. m.b \in Batches /\ State(m.b) = "PARSED" /\ m.b \in Nat /\ c \in Nat
    BY <1>1, <1>6, <1>7, TableFacts DEF BuildClaim
  <2>2. CASE State(c) = "PARSED"
    BY <1>7, <2>1, <2>2 DEF BuildClaim, BatchesIn, State
  <2>3. CASE State(c) \in {"NONE", "PARSING"}
    BY <2>1, <2>3 DEF GInv, OrderOK
  <2> QED BY <1>1, <2>2, <2>3
<1>14. m.pc \in {"read", "prepare", "store", "rename", "publish", "abandon", "abandoned"} =>
         BatchesIn({"BUILDING"})' \subseteq {m.b} /\ State(m.b)' \in {"BUILDING", "FAILED"}
  BY <1>1, <1>6, <1>7 DEF BuildClaim
<1>15. m.pc \in {"prepare", "store", "rename"} /\ State(m.b)' = "BUILDING" => m.good = parsed'[m.b]
  BY <1>1, <1>6, <1>7 DEF BuildClaim, LockGuar
<1>16. m.pc \in {"store", "rename"} /\ State(m.b)' = "BUILDING" =>
         building'[m.b].builder = q /\ building'[m.b].archives = m.good
  BY <1>1, <1>6, <1>7 DEF BuildClaim, LockGuar
<1>17. m.pc = "publish" /\ State(m.b)' = "BUILDING" =>
         segment'[m.b] # NoDir /\ segment'[m.b].builder = q
  BY <1>1, <1>6, <1>7 DEF BuildClaim, LockGuar
<1>18. m.pc = "load" =>
         /\ \A r \in m.list : State(r.b)' \in {"READY", "FAILED"}
         /\ \A r, s \in m.list : r.b # s.b /\ segment'[r.b] # NoDir /\ segment'[s.b] # NoDir =>
              segment'[r.b].archives \cap segment'[s.b].archives = {}
  BY <1>1, <1>3, <1>7 DEF BuildClaim, LockGuar
<1> QED BY <1>7, <1>8, <1>9, <1>10, <1>11, <1>12, <1>13, <1>14, <1>15, <1>16, <1>17, <1>18 DEF BuildClaim

LEMMA LockClaimRelies ==
  ASSUME TInv, GInv, BuildGuar, NEW q \in Programs, proc'[q] = proc[q], LockClaim(proc[q])
  PROVE  LockClaim(proc[q])'
<1>0. PICK m : m = proc[q] /\ m = proc'[q]
  OBVIOUS
<1>1. /\ \A b \in Batches : State(b)' = "PARSING" <=> State(b) = "PARSING"
      /\ \A b \in Batches : State(b)' = "NONE" <=> State(b) = "NONE"
      /\ \A b \in Batches : State(b) = "FAILED" => State(b)' = "FAILED"
      /\ BatchesIn({"PARSING"})' = BatchesIn({"PARSING"})
  BY DEF BuildGuar, State, BatchesIn
<1>2. /\ \A b \in Batches : ArchivesOf(b)' = ArchivesOf(b)
      /\ \A a \in Archives : archive[a].state # "PARSED" => archive'[a] = archive[a]
      /\ \A a \in Archives : State(archive[a].batch) = "PARSING" => archive'[a] = archive[a]
      /\ parsed' = parsed
  BY DEF BuildGuar, ArchivesOf
<1>3. m \in Locals /\ Shape(q, m)
  BY <1>0, ProgramFacts
<1>4. /\ m.pc \in {"recoverArchives", "recoverBatch"} => m.ids \subseteq Batches
      /\ m.pc \in {"create", "attach", "mark", "unwritten"} =>
           m.ids \subseteq Archives /\ m.todo \subseteq Archives
      /\ m.pc \in {"attach", "mark", "unwritten", "retract", "requeue", "erase"} => m.b \in Batches
  BY <1>3 DEF Shape
<1>5. proc'[q] = m /\ LockClaim(m)
  BY <1>0
<1>6. m.pc \in {"recoverArchives", "recoverBatch"} =>
        /\ BatchesIn({"PARSING"})' = m.todo
        /\ \A b \in m.ids \ m.todo : State(b)' = "FAILED"
  BY <1>1, <1>4, <1>5 DEF LockClaim
<1>7. /\ m.pc \in {"select", "create"} => BatchesIn({"PARSING"})' = {}
      /\ m.pc \in {"attach", "mark", "unwritten"} =>
           BatchesIn({"PARSING"})' = {m.b} /\ m.todo \subseteq m.ids /\ m.good \subseteq m.ids
      /\ m.pc = "create" => m.todo = m.ids /\ m.good \subseteq m.ids
  BY <1>1, <1>5 DEF LockClaim
<1>8. /\ m.pc \in {"create", "attach"} => \A a \in m.todo : archive'[a].state \in {"NONE", "PENDING"}
      /\ m.pc = "attach" => /\ ArchivesOf(m.b)' = m.ids \ m.todo
                            /\ \A a \in m.ids \ m.todo : archive'[a].state = "PENDING"
  BY <1>2, <1>4, <1>5 DEF LockClaim
<1>9. m.pc \in {"mark", "unwritten"} =>
        /\ ArchivesOf(m.b)' = m.ids /\ \A a \in m.ids : archive'[a] = archive[a]
  <2> SUFFICES ASSUME m.pc \in {"mark", "unwritten"}
               PROVE  ArchivesOf(m.b)' = m.ids /\ \A a \in m.ids : archive'[a] = archive[a]
    OBVIOUS
  <2>1. ArchivesOf(m.b) = m.ids /\ m.b \in Batches /\ State(m.b) = "PARSING"
    BY <1>4, <1>5 DEF LockClaim, BatchesIn, State
  <2>2. \A a \in m.ids : a \in Archives /\ archive[a].batch = m.b
    BY <2>1 DEF ArchivesOf
  <2> QED BY <1>2, <2>1, <2>2
<1>10. m.pc = "mark" =>
         /\ \A a \in m.ids : archive'[a].state = IF a \in m.todo THEN "PENDING"
                                                 ELSE IF a \in m.good THEN "PARSED" ELSE "FAILED"
         /\ m.good # {} => parsed'[m.b] = m.good
  BY <1>2, <1>5, <1>9 DEF LockClaim
<1>11. /\ m.pc = "retract" => State(m.b)' # "NONE"
       /\ m.pc \in {"requeue", "erase"} => State(m.b)' = "FAILED"
  BY <1>1, <1>4, <1>5 DEF LockClaim
<1> QED BY <1>5, <1>6, <1>7, <1>8, <1>9, <1>10, <1>11 DEF LockClaim

LEMMA NoClaims ==
  ASSUME NEW p \in Programs
  PROVE  /\ proc'[p].pc \notin LockPcs => LockClaim(proc[p])'
         /\ proc'[p].pc \notin BuildPcs \ {"cleanup", "interrupted", "list"} => BuildClaim(p, proc[p])'
<1>1. proc'[p].pc \notin LockPcs => LockClaim(proc[p])'
  BY DEF LockClaim, LockPcs
<1>2. proc'[p].pc \notin BuildPcs \ {"cleanup", "interrupted", "list"} => BuildClaim(p, proc[p])'
  BY DEF BuildClaim, BuildPcs
<1> QED BY <1>1, <1>2

LEMMA OutClaims ==
  ASSUME NEW p \in Programs, Out(p) \/ Ended(p)
  PROVE  LockClaim(proc[p])' /\ BuildClaim(p, proc[p])'
<1>1. proc'[p].pc \in {"idle", "down", "interrupted"}
  BY DEF Out, Ended
<1>2. proc'[p].pc \notin LockPcs /\ proc'[p].pc \notin BuildPcs \ {"cleanup", "interrupted", "list"}
  BY <1>1 DEF LockPcs, BuildPcs
<1> QED BY <1>2, NoClaims

\* A program in a build has no other program building beside it.
LEMMA Apart ==
  ASSUME TInv, OneBuilder, NEW p \in Programs, NEW q \in Programs, q # p
  PROVE  /\ proc[p].pc \in LockPcs => proc[q].pc \notin LockPcs
         /\ proc[p].pc \in BuildPcs => proc[q].pc \notin BuildPcs
<1>1. /\ proc[p].pc \in LockPcs => lock = p
      /\ proc[q].pc \in LockPcs => lock = q
  BY ProgramFacts
<1>2. p \in {"server", "admin"} /\ q \in {"server", "admin"}
  BY DEF Programs
<1> QED BY <1>1, <1>2 DEF OneBuilder, Building

LEMMA LockStepKeeps ==
  ASSUME TInv, TInv', RInv, NEW p \in Programs, Moved(p), proc[p].pc \in LockPcs,
         OneBuilder', GInv', LockGuar, LockClaim(proc[p])', BuildClaim(p, proc[p])'
  PROVE  RInv'
<1>1. ASSUME NEW q \in Programs, q # p PROVE LockClaim(proc[q])' /\ BuildClaim(q, proc[q])'
  <2>1. proc'[q] = proc[q] /\ proc[q].pc \notin LockPcs
    BY <1>1, Apart DEF Moved, RInv
  <2>2. LockClaim(proc[q])'
    BY <2>1, NoClaims
  <2>3. BuildClaim(q, proc[q]) /\ GInv
    BY DEF RInv
  <2> QED BY <2>1, <2>2, <2>3, BuildClaimRelies
<1>2. \A q \in Programs : LockClaim(proc[q])' /\ BuildClaim(q, proc[q])'
  BY <1>1
<1> QED BY <1>2 DEF RInv

LEMMA BuildStepKeeps ==
  ASSUME TInv, TInv', RInv, NEW p \in Programs, Moved(p), proc[p].pc \in BuildPcs,
         OneBuilder', GInv', BuildGuar, LockClaim(proc[p])', BuildClaim(p, proc[p])'
  PROVE  RInv'
<1>1. ASSUME NEW q \in Programs, q # p PROVE LockClaim(proc[q])' /\ BuildClaim(q, proc[q])'
  <2>1. proc'[q] = proc[q] /\ proc[q].pc \notin BuildPcs
    BY <1>1, Apart DEF Moved, RInv
  <2>2. BuildClaim(q, proc[q])'
    BY <2>1, NoClaims
  <2>3. LockClaim(proc[q]) /\ GInv
    BY DEF RInv
  <2> QED BY <2>1, <2>2, <2>3, LockClaimRelies
<1>2. \A q \in Programs : LockClaim(proc[q])' /\ BuildClaim(q, proc[q])'
  BY <1>1
<1> QED BY <1>2 DEF RInv

-----------------------------------------------------------------------------
(* One program builds at a time, until one is seen to begin beside the     *)
(* other.                                                                  *)

\* A step of p that begins to build counts its overlap.
Counted(p) == proc'[p].pc \notin BuildPcs \/ Spend(Overlap(p))

LEMMA OutTask ==
  ASSUME NEW p \in Programs, Out(p) \/ Ended(p) PROVE Moved(p) /\ Counted(p)
<1>1. Moved(p) /\ (proc'[p].pc \in {"idle", "down"} \/ Spend(Overlap(p)))
  BY DEF Out, Ended
<1> QED BY <1>1, PcFacts DEF Counted

LEMMA LockGoes ==
  ASSUME NEW p \in Programs, proc'[p].pc \in LockPcs PROVE Counted(p)
BY PcFacts DEF Counted

LEMMA LockTask ==
  ASSUME TInv, NEW p \in Programs,
         \/ RecoverList(p) \/ RecoverArchives(p) \/ RecoverBatch(p) \/ RecoverFiles(p)
         \/ Select(p) \/ CreateBatch(p) \/ AttachArchive(p) \/ WriteParsed(p)
         \/ MarkArchive(p) \/ FinishScan(p) \/ MarkUnwritten(p)
         \/ RetractBatch(p) \/ RequeueArchives(p) \/ EraseBatch(p)
  PROVE  Moved(p) /\ proc[p].pc \in LockPcs /\ Counted(p)
<1>0. {"recoverBatch", "cleanup", "select", "requeue", "erase"} \subseteq Pcs
  BY DEF Pcs, LockPcs, BuildPcs
<1>1. CASE RecoverList(p)
  BY <1>1, RecoverListFacts, LockGoes DEF LockPcs
<1>2. CASE RecoverArchives(p)
  BY <1>0, <1>2, RecoverArchivesFacts, OutTask, LockGoes, ProgramFacts, GotoFacts DEF LockPcs
<1>3. CASE RecoverBatch(p)
  BY <1>3, RecoverBatchFacts, OutTask, LockGoes DEF LockPcs
<1>4. CASE RecoverFiles(p)
  <2>1. Moved(p) /\ proc[p].pc = "recoverArchives"
    BY <1>4, RecoverFilesFacts
  <2>2. CASE proc[p].task = "start"
    BY <1>4, <2>1, <2>2 DEF RecoverFiles, Counted, LockPcs
  <2>3. CASE proc[p].task # "start"
    <3>1. proc'[p].pc \in LockPcs
      BY <1>0, <1>4, <2>3, RecoverFilesFacts, ProgramFacts, GotoFacts DEF LockPcs
    <3> QED BY <2>1, <3>1, LockGoes DEF LockPcs
  <2> QED BY <2>2, <2>3
<1>5. CASE Select(p)
  BY <1>5, SelectFacts, OutTask, LockGoes DEF LockPcs
<1>6. CASE CreateBatch(p)
  BY <1>6, CreateBatchFacts, OutTask, LockGoes DEF LockPcs
<1>7. CASE AttachArchive(p)
  BY <1>7, AttachArchiveFacts, OutTask, LockGoes DEF LockPcs
<1>8. CASE WriteParsed(p)
  BY <1>8, WriteParsedFacts, LockGoes DEF LockPcs
<1>9. CASE MarkArchive(p)
  BY <1>9, MarkArchiveFacts, OutTask, LockGoes DEF LockPcs
<1>10. CASE FinishScan(p)
  BY <1>10, FinishScanFacts, OutTask DEF LockPcs
<1>11. CASE MarkUnwritten(p)
  BY <1>11, MarkUnwrittenFacts, OutTask, LockGoes DEF LockPcs
<1>12. CASE RetractBatch(p)
  BY <1>0, <1>12, RetractBatchFacts, OutTask, LockGoes, ProgramFacts, GotoFacts DEF LockPcs
<1>13. CASE RequeueArchives(p)
  BY <1>0, <1>13, RequeueArchivesFacts, OutTask, LockGoes, ProgramFacts, GotoFacts DEF LockPcs
<1>14. CASE EraseBatch(p)
  BY <1>14, EraseBatchFacts, OutTask DEF LockPcs
<1> QED BY <1>1, <1>2, <1>3, <1>4, <1>5, <1>6, <1>7, <1>8, <1>9, <1>10, <1>11, <1>12, <1>13, <1>14

LEMMA BuildTask ==
  ASSUME TInv, NEW p \in Programs,
         \/ ListBuilding(p) \/ InspectBatch(p) \/ ResetBatch(p) \/ Republish(p)
         \/ DiscardFiles(p) \/ DiscardBatch(p) \/ CleanupBuilding(p) \/ Recovered(p)
         \/ ListReady(p) \/ LoadSnapshot(p)
         \/ PickBatch(p) \/ ClaimBatch(p) \/ ReadParsed(p) \/ PrepareDirectory(p)
         \/ StoreFiles(p) \/ RenameDirectory(p) \/ PublishBatch(p)
         \/ AbandonFiles(p) \/ AbandonBatch(p)
  PROVE  Moved(p) /\ proc[p].pc \in BuildPcs
<1>0. {"discarded", "interrupted", "list", "pick", "read", "store", "rename", "publish", "abandon",
       "abandoned"} \subseteq Pcs
  BY DEF Pcs, BuildPcs
<1>1. CASE ListBuilding(p)
  BY <1>1, ListBuildingFacts DEF BuildPcs
<1>2. CASE InspectBatch(p)
  BY <1>2, InspectBatchFacts DEF BuildPcs
<1>3. CASE ResetBatch(p)
  BY <1>3, ResetBatchFacts, OutTask DEF BuildPcs
<1>4. CASE Republish(p)
  BY <1>4, RepublishFacts, OutTask DEF BuildPcs
<1>5. CASE DiscardFiles(p)
  BY <1>0, <1>5, DiscardFilesFacts DEF BuildPcs
<1>6. CASE DiscardBatch(p)
  BY <1>6, DiscardBatchFacts, OutTask DEF BuildPcs
<1>7. CASE CleanupBuilding(p)
  BY <1>0, <1>7, CleanupBuildingFacts DEF BuildPcs
<1>8. CASE Recovered(p)
  BY <1>0, <1>8, RecoveredFacts DEF BuildPcs
<1>9. CASE ListReady(p)
  BY <1>9, ListReadyFacts DEF BuildPcs
<1>10. CASE LoadSnapshot(p)
  BY <1>10, LoadSnapshotFacts, OutTask DEF BuildPcs
<1>11. CASE PickBatch(p)
  BY <1>11, PickBatchFacts, OutTask DEF BuildPcs
<1>12. CASE ClaimBatch(p)
  BY <1>0, <1>12, ClaimBatchFacts, OutTask DEF BuildPcs
<1>13. CASE ReadParsed(p)
  BY <1>0, <1>13, ReadParsedFacts DEF BuildPcs
<1>14. CASE PrepareDirectory(p)
  <2>1. proc'[p] = Goto(p, "store") \/ proc'[p] = Goto(p, "abandon")
    BY <1>14, PrepareDirectoryFacts
  <2>2. Moved(p) /\ proc[p].pc = "prepare"
    BY <1>14, PrepareDirectoryFacts
  <2> QED BY <1>0, <2>1, <2>2 DEF BuildPcs
<1>15. CASE StoreFiles(p)
  <2>1. proc'[p] = Goto(p, "rename") \/ proc'[p] = Goto(p, "abandon")
    BY <1>15, StoreFilesFacts
  <2>2. Moved(p) /\ proc[p].pc = "store"
    BY <1>15, StoreFilesFacts
  <2> QED BY <1>0, <2>1, <2>2 DEF BuildPcs
<1>16. CASE RenameDirectory(p)
  <2>1. proc'[p] = Goto(p, "publish") \/ proc'[p] = Goto(p, "abandon")
    BY <1>16, RenameDirectoryFacts
  <2>2. Moved(p) /\ proc[p].pc = "rename"
    BY <1>16, RenameDirectoryFacts
  <2> QED BY <1>0, <2>1, <2>2 DEF BuildPcs
<1>17. CASE PublishBatch(p)
  BY <1>0, <1>17, PublishBatchFacts, OutTask DEF BuildPcs
<1>18. CASE AbandonFiles(p)
  BY <1>0, <1>18, AbandonFilesFacts DEF BuildPcs
<1>19. CASE AbandonBatch(p)
  BY <1>19, AbandonBatchFacts, OutTask DEF BuildPcs
<1> QED BY <1>1, <1>2, <1>3, <1>4, <1>5, <1>6, <1>7, <1>8, <1>9, <1>10, <1>11, <1>12, <1>13, <1>14,
           <1>15, <1>16, <1>17, <1>18, <1>19

-----------------------------------------------------------------------------
(* The steps of the holder of the flock.                                   *)

LEMMA QuietGuars ==
  ASSUME TInv, UNCHANGED dirs, batch' = batch
  PROVE  LockGuar /\ (archive' = archive => BuildGuar)
<1>1. CatalogStep
  BY DEF CatalogStep, CatalogSame, State, dirs
<1> QED BY <1>1 DEF LockGuar, BuildGuar, dirs

LEMMA BatchGuars ==
  ASSUME TInv, NEW b \in Batches, NEW s, BatchGoes(b, s)
  PROVE  /\ State(b) # "NONE" /\ s = "FAILED" => LockGuar
         /\ State(b) \in {"NONE", "PARSING"} /\ s \in {"PARSING", "PARSED"} => LockGuar
         /\ State(b) \in {"PARSED", "BUILDING"} /\ s \in {"PARSED", "BUILDING"} => BuildGuar
         /\ State(b) \notin {"NONE", "PARSING", "FAILED"} /\ s = "FAILED" => BuildGuar
<1>1. /\ parsed' = parsed /\ building' = building /\ segment' = segment /\ archive' = archive
      /\ batch'[b].state = s /\ \A c \in Batches : c # b => batch'[c] = batch[c]
  BY DEF BatchGoes, dirs
<1>2. State(b) # "NONE" /\ s = "FAILED" => LockGuar
  <2>1. s = "FAILED" => CatalogStep
    BY <1>1 DEF CatalogStep, CatalogSame, BatchLeaves, State
  <2> QED BY <1>1, <2>1 DEF LockGuar
<1>3. State(b) \in {"NONE", "PARSING"} /\ s \in {"PARSING", "PARSED"} => LockGuar
  <2>1. State(b) \in {"NONE", "PARSING"} /\ s \in {"PARSING", "PARSED"} => CatalogStep
    BY <1>1 DEF CatalogStep, CatalogSame, State
  <2> QED BY <1>1, <2>1 DEF LockGuar
<1>4. /\ State(b) \in {"PARSED", "BUILDING"} /\ s \in {"PARSED", "BUILDING"} => BuildGuar
      /\ State(b) \notin {"NONE", "PARSING", "FAILED"} /\ s = "FAILED" => BuildGuar
  <2>1. s = "FAILED" => CatalogStep
    BY <1>1 DEF CatalogStep, CatalogSame, BatchLeaves, State
  <2>2. State(b) \in {"PARSED", "BUILDING"} /\ s \in {"PARSED", "BUILDING"} => CatalogStep
    BY <1>1 DEF CatalogStep, CatalogSame, State
  <2> QED BY <1>1, <2>1, <2>2 DEF BuildGuar
<1> QED BY <1>2, <1>3, <1>4

LEMMA LockSettles ==
  ASSUME TInv, TInv', RInv, NEW p \in Programs, Moved(p), proc[p].pc \in LockPcs,
         OneBuilder', GInv', LockGuar,
         \/ Out(p) \/ Ended(p)
         \/ LockClaim(proc[p])' /\ proc'[p].pc \in LockPcs \cup {"cleanup"}
  PROVE  RInv' /\ CatalogStep
<1>2. LockClaim(proc[p])' /\ BuildClaim(p, proc[p])'
  <2>1. CASE Out(p) \/ Ended(p)
    BY <2>1, OutClaims
  <2>2. CASE LockClaim(proc[p])' /\ proc'[p].pc \in LockPcs \cup {"cleanup"}
    <3>1. proc'[p].pc \notin BuildPcs \ {"cleanup", "interrupted", "list"}
      BY <2>2, PcFacts
    <3> QED BY <2>2, <3>1, NoClaims
  <2> QED BY <2>1, <2>2
<1> QED BY <1>2, LockStepKeeps DEF LockGuar

LEMMA RecoverListKeeps ==
  ASSUME TInv, TInv', RInv, OneBuilder', NEW p \in Programs, RecoverList(p)
  PROVE  RInv' /\ CatalogStep
<1>1. /\ UNCHANGED <<indexTables, dirs, snapshot>> /\ proc'[p].pc = "recoverArchives"
      /\ proc'[p].ids = BatchesIn({"PARSING"}) /\ proc'[p].todo = BatchesIn({"PARSING"})
  BY RecoverListFacts DEF Still
<1>2. archive' = archive /\ batch' = batch /\ parsed' = parsed /\ segment' = segment
  BY <1>1 DEF indexTables, dirs
<1>3. GInv'
  BY <1>1, <1>2, FilesChange DEF RInv
<1>4. BatchesIn({"PARSING"})' = BatchesIn({"PARSING"})
  BY <1>2 DEF BatchesIn
<1>5. LockClaim(proc[p])'
  BY <1>1, <1>4 DEF LockClaim
<1>6. proc'[p].pc \in LockPcs /\ Moved(p) /\ proc[p].pc \in LockPcs
  BY <1>1, LockTask DEF LockPcs
<1> QED BY <1>1, <1>2, <1>3, <1>5, <1>6, QuietGuars, LockSettles

LEMMA RecoverArchivesKeeps ==
  ASSUME TInv, TInv', RInv, OneBuilder', NEW p \in Programs, RecoverArchives(p)
  PROVE  RInv' /\ CatalogStep
<1>0. PICK b : b = Least(proc[p].todo)
  OBVIOUS
<1>1. /\ proc[p].pc = "recoverArchives" /\ proc[p].todo # {} /\ UNCHANGED <<dirs, snapshot>>
      /\ batch' = batch /\ archive' \in {archive, InterruptedArchives(b)}
      /\ Out(p) \/ proc'[p] = Goto(p, "recoverBatch")
  BY <1>0, RecoverArchivesFacts DEF Still
<1>2. LockClaim(proc[p]) /\ proc[p].todo \in SUBSET Batches
  BY <1>1, ProgramFacts DEF RInv, Shape
<1>3. b \in Batches /\ State(b) = "PARSING" /\ b # NoBatch
  <2>1. b \in proc[p].todo /\ b \in Batches
    BY <1>0, <1>1, <1>2, LeastBatch
  <2> QED BY <1>1, <1>2, <2>1, TableFacts DEF LockClaim, BatchesIn, State
<1>4. GInv'
  <2>1. TablesType
    BY DEF TInv
  <2>2. ASSUME NEW a \in Archives
        PROVE  \/ archive'[a] = archive[a]
               \/ archive'[a].state = "FAILED" /\ archive'[a].batch = b /\ archive[a].batch = b
    BY <1>1, <2>1, ArchiveStatesType DEF InterruptedArchives, ArchivesOf
  <2> QED BY <1>1, <1>3, <2>2, ArchivesChange DEF RInv
<1>5. ASSUME proc'[p] = Goto(p, "recoverBatch")
      PROVE  LockClaim(proc[p])' /\ proc'[p].pc \in LockPcs
  <2>1. /\ proc'[p].pc = "recoverBatch" /\ proc'[p].todo = proc[p].todo
        /\ proc'[p].ids = proc[p].ids
    BY <1>5, GotoFacts, ProgramFacts DEF Pcs, LockPcs
  <2>2. /\ BatchesIn({"PARSING"})' = BatchesIn({"PARSING"})
        /\ \A c : State(c)' = State(c)
    BY <1>1 DEF BatchesIn, State
  <2>3. LockClaim(proc[p])'
    BY <1>1, <1>2, <2>1, <2>2 DEF LockClaim
  <2> QED BY <2>1, <2>3 DEF LockPcs
<1>6. Moved(p) /\ proc[p].pc \in LockPcs
  BY LockTask
<1> QED BY <1>1, <1>4, <1>5, <1>6, QuietGuars, LockSettles

LEMMA RecoverBatchKeeps ==
  ASSUME TInv, TInv', RInv, OneBuilder', NEW p \in Programs, RecoverBatch(p)
  PROVE  RInv' /\ CatalogStep
<1>0. PICK b : b = Least(proc[p].todo)
  OBVIOUS
<1>1. /\ proc[p].pc = "recoverBatch" /\ UNCHANGED <<dirs, snapshot>> /\ UNCHANGED dirs
      /\ archive' = archive /\ batch' \in {batch, BatchState(b, "FAILED")}
      /\ \/ Out(p)
         \/ /\ batch' = BatchState(b, "FAILED") /\ proc'[p].pc = "recoverArchives"
            /\ proc'[p].ids = proc[p].ids /\ proc'[p].todo = proc[p].todo \ {b}
  BY <1>0, RecoverBatchFacts DEF Still
<1>2. /\ LockClaim(proc[p]) /\ proc[p].todo \in SUBSET Batches /\ proc[p].todo # {}
      /\ proc[p].ids \in SUBSET Batches
  BY <1>1, ProgramFacts DEF RInv, Shape
<1>3. b \in Batches /\ State(b) = "PARSING"
  <2>1. b \in proc[p].todo /\ b \in Batches
    BY <1>0, <1>2, LeastBatch
  <2> QED BY <1>1, <1>2, <2>1 DEF LockClaim, BatchesIn, State
<1>4. Moved(p) /\ proc[p].pc \in LockPcs /\ GInv
  BY LockTask DEF RInv
<1>5. CASE batch' = batch
  <2>1. GInv' /\ LockGuar
    BY <1>1, <1>4, <1>5, FilesChange, QuietGuars DEF indexTables, dirs
  <2>2. Out(p)
    <3>1. BatchState(b, "FAILED")[b].state = "FAILED"
      BY <1>3, BatchStateType DEF TInv
    <3> QED BY <1>1, <1>3, <1>5, <3>1 DEF State
  <2> QED BY <1>4, <2>1, <2>2, LockSettles
<1>6. CASE batch' = BatchState(b, "FAILED")
  <2>1. BatchGoes(b, "FAILED")
    BY <1>1, <1>3, <1>6, BatchStateGoes
  <2>2. GInv' /\ LockGuar
    BY <1>3, <1>4, <2>1, BatchFails, BatchGuars
  <2>3. ASSUME ~Out(p) PROVE LockClaim(proc[p])' /\ proc'[p].pc \in LockPcs
    <3>1. /\ proc'[p].pc = "recoverArchives" /\ proc'[p].todo = proc[p].todo \ {b}
          /\ proc'[p].ids = proc[p].ids
      BY <1>1, <2>3
    <3>2. /\ State(b)' = "FAILED" /\ \A c \in Batches : c # b => State(c)' = State(c)
          /\ BatchesIn({"PARSING"})' = BatchesIn({"PARSING"}) \ {b}
      BY <2>1 DEF BatchGoes, BatchesIn, State
    <3>3. LockClaim(proc[p])'
      BY <1>1, <1>2, <3>1, <3>2 DEF LockClaim
    <3> QED BY <3>1, <3>3 DEF LockPcs
  <2> QED BY <1>4, <2>2, <2>3, LockSettles
<1> QED BY <1>1, <1>5, <1>6

LEMMA RecoverFilesKeeps ==
  ASSUME TInv, TInv', RInv, OneBuilder', NEW p \in Programs, RecoverFiles(p)
  PROVE  RInv' /\ CatalogStep
<1>1. /\ proc[p].pc = "recoverArchives" /\ proc[p].todo = {} /\ UNCHANGED <<indexTables, snapshot>>
      /\ archive' = archive /\ batch' = batch /\ building' = building /\ segment' = segment
      /\ parsed' = [b \in Batches |-> IF b \in proc[p].ids THEN {} ELSE parsed[b]]
      /\ proc'[p] = Goto(p, "cleanup") \/ proc'[p] = Goto(p, "select")
  BY RecoverFilesFacts DEF Still, indexTables
<1>2. /\ BatchesIn({"PARSING"}) = {} /\ \A b \in proc[p].ids : State(b) = "FAILED"
  BY <1>1 DEF RInv, LockClaim
<1>3. GInv'
  BY <1>1, <1>2, FilesChange DEF RInv
<1>4. LockGuar
  <2>1. CatalogStep
    BY <1>1 DEF CatalogStep, CatalogSame, State
  <2> QED BY <1>1, <1>2, <2>1 DEF LockGuar
<1>5. LockClaim(proc[p])' /\ proc'[p].pc \in LockPcs \cup {"cleanup"}
  <2>1. proc'[p].pc \in {"cleanup", "select"}
    BY <1>1, GotoFacts, ProgramFacts DEF Pcs, LockPcs, BuildPcs
  <2>2. BatchesIn({"PARSING"})' = {}
    BY <1>1, <1>2 DEF BatchesIn
  <2>3. LockClaim(proc[p])'
    BY <2>1, <2>2 DEF LockClaim
  <2> QED BY <2>1, <2>3 DEF LockPcs
<1>6. Moved(p) /\ proc[p].pc \in LockPcs
  BY LockTask
<1> QED BY <1>3, <1>4, <1>5, <1>6, LockSettles

LEMMA SelectedUnparsed ==
  ASSUME TInv, NEW bad
  PROVE  \A a \in Outcomes(Selected, bad) : a \in Archives /\ archive[a].state \in {"NONE", "PENDING"}
<1>1. Outcomes(Selected, bad) \subseteq Selected
  BY DEF Outcomes
<1>2. Selected \subseteq ListPending \/ Selected \subseteq ListAfter(MaxObserved)
  BY DEF Selected, UpTo
<1>3. \A a \in ListPending : a \in Archives /\ archive[a].state = "PENDING"
  BY DEF ListPending
<1>4. ASSUME NEW a \in ListAfter(MaxObserved) PROVE a \in Archives /\ archive[a].state = "NONE"
  <2>1. a \in Archives /\ a > MaxObserved
    BY DEF ListAfter, TInv, RowsType
  <2>2. a \in Nat /\ MaxObserved \in Nat /\ (Seen(a) => a <= MaxObserved)
    BY <2>1, MaxObservedFacts, ArchivesAssumption
  <2> QED BY <2>1, <2>2 DEF Seen
<1> QED BY <1>1, <1>2, <1>3, <1>4

LEMMA SelectKeeps ==
  ASSUME TInv, TInv', RInv, OneBuilder', NEW p \in Programs, Select(p)
  PROVE  RInv' /\ CatalogStep
<1>1. /\ proc[p].pc = "select" /\ UNCHANGED <<indexTables, dirs, snapshot>>
      /\ archive' = archive /\ batch' = batch /\ parsed' = parsed /\ segment' = segment
  BY SelectFacts DEF Still, indexTables, dirs
<1>2. GInv' /\ LockGuar
  BY <1>1, FilesChange, QuietGuars DEF RInv
<1>3. Moved(p) /\ proc[p].pc \in LockPcs
  BY LockTask
<1>4. ASSUME ~Ended(p) PROVE LockClaim(proc[p])' /\ proc'[p].pc \in LockPcs
  <2>1. PICK bad \in SUBSET Archives :
          /\ proc'[p].pc = "create"
          /\ proc'[p].ids = Outcomes(Selected, bad) /\ proc'[p].todo = Outcomes(Selected, bad)
          /\ proc'[p].good \subseteq Outcomes(Selected, bad)
    BY <1>4, SelectFacts
  <2>2. \A a \in proc'[p].todo : archive'[a].state \in {"NONE", "PENDING"}
    BY <1>1, <2>1, SelectedUnparsed
  <2>3. BatchesIn({"PARSING"})' = {}
    BY <1>1 DEF RInv, LockClaim, BatchesIn
  <2>4. LockClaim(proc[p])'
    BY <2>1, <2>2, <2>3 DEF LockClaim
  <2> QED BY <2>1, <2>4 DEF LockPcs
<1> QED BY <1>2, <1>3, <1>4, LockSettles

LEMMA CreateBatchKeeps ==
  ASSUME TInv, TInv', RInv, OneBuilder', NEW p \in Programs, CreateBatch(p)
  PROVE  RInv' /\ CatalogStep
<1>0. PICK b : b = Least(Unused)
  OBVIOUS
<1>1. /\ proc[p].pc = "create" /\ Unused # {} /\ UNCHANGED <<dirs, snapshot>> /\ UNCHANGED dirs
      /\ archive' = archive /\ batch' \in {batch, BatchState(b, "PARSING")}
      /\ \/ Out(p)
         \/ /\ batch' = BatchState(b, "PARSING") /\ proc'[p].pc = "attach" /\ proc'[p].b = b
            /\ proc'[p].ids = proc[p].ids /\ proc'[p].todo = proc[p].todo
            /\ proc'[p].good = proc[p].good
  BY <1>0, CreateBatchFacts DEF Still
<1>2. LockClaim(proc[p]) /\ BatchesIn({"PARSING"}) = {}
  BY <1>1 DEF RInv, LockClaim
<1>3. b \in Batches /\ State(b) = "NONE"
  BY <1>0, <1>1, LeastBatch DEF Unused, BatchesIn, State
<1>4. Moved(p) /\ proc[p].pc \in LockPcs /\ GInv
  BY LockTask DEF RInv
<1>5. CASE batch' = batch
  <2>1. GInv' /\ LockGuar
    BY <1>1, <1>4, <1>5, FilesChange, QuietGuars DEF indexTables, dirs
  <2>2. Out(p)
    <3>1. BatchState(b, "PARSING")[b].state = "PARSING"
      BY <1>3, BatchStateType DEF TInv, Created
    <3> QED BY <1>1, <1>3, <1>5, <3>1 DEF State
  <2> QED BY <1>4, <2>1, <2>2, LockSettles
<1>6. CASE batch' = BatchState(b, "PARSING")
  <2>1. BatchGoes(b, "PARSING")
    BY <1>1, <1>3, <1>6, BatchStateGoes DEF Created
  <2>2. GInv'
    BY <1>0, <1>1, <1>2, <1>4, <1>6, BatchCreated
  <2>3. LockGuar
    BY <1>3, <2>1, BatchGuars
  <2>4. ASSUME ~Out(p) PROVE LockClaim(proc[p])' /\ proc'[p].pc \in LockPcs
    <3>1. /\ proc'[p].pc = "attach" /\ proc'[p].todo = proc[p].todo /\ proc'[p].b = b
          /\ proc'[p].ids = proc[p].ids /\ proc'[p].good = proc[p].good
      BY <1>1, <2>4
    <3>2. BatchesIn({"PARSING"})' = {b}
      BY <1>2, <1>3, <2>1 DEF BatchGoes, BatchesIn
    <3>3. ArchivesOf(b)' = {}
      BY <1>1, <1>3, <1>4, TableFacts DEF ArchivesOf, GInv, RowOK
    <3>4. proc[p].todo = proc[p].ids /\ proc[p].good \subseteq proc[p].ids
          /\ \A a \in proc[p].todo : archive[a].state \in {"NONE", "PENDING"}
      BY <1>1, <1>2 DEF LockClaim
    <3>5. LockClaim(proc[p])'
      BY <1>1, <3>1, <3>2, <3>3, <3>4 DEF LockClaim
    <3> QED BY <3>1, <3>5 DEF LockPcs
  <2> QED BY <1>4, <2>2, <2>3, <2>4, LockSettles
<1> QED BY <1>1, <1>5, <1>6

LEMMA AttachArchiveKeeps ==
  ASSUME TInv, TInv', RInv, OneBuilder', NEW p \in Programs, AttachArchive(p)
  PROVE  RInv' /\ CatalogStep
<1>0. PICK a, b : a = Least(proc[p].todo) /\ b = proc[p].b
  OBVIOUS
<1>1. /\ proc[p].pc = "attach" /\ proc[p].todo # {} /\ UNCHANGED <<dirs, snapshot>> /\ UNCHANGED dirs
      /\ batch' = batch /\ archive' \in {archive, Attached(a, b)}
      /\ \/ Out(p)
         \/ /\ archive' = Attached(a, b) /\ proc'[p].pc = "attach" /\ proc'[p].b = b
            /\ proc'[p].ids = proc[p].ids /\ proc'[p].todo = proc[p].todo \ {a}
            /\ proc'[p].good = proc[p].good
  BY <1>0, AttachArchiveFacts DEF Still
<1>2. /\ LockClaim(proc[p]) /\ proc[p].todo \in SUBSET Archives /\ proc[p].ids \in SUBSET Archives
      /\ b \in Batches
  BY <1>0, <1>1, ProgramFacts DEF RInv, Shape
<1>3. /\ BatchesIn({"PARSING"}) = {b} /\ proc[p].todo \subseteq proc[p].ids
      /\ proc[p].good \subseteq proc[p].ids /\ ArchivesOf(b) = proc[p].ids \ proc[p].todo
      /\ \A c \in proc[p].todo : archive[c].state \in {"NONE", "PENDING"}
      /\ \A c \in proc[p].ids \ proc[p].todo : archive[c].state = "PENDING"
  BY <1>0, <1>1, <1>2 DEF LockClaim
<1>4. a \in proc[p].todo /\ a \in Archives /\ State(b) = "PARSING"
  BY <1>0, <1>1, <1>2, <1>3, LeastArchive DEF BatchesIn, State
<1>5. Attached(a, b)[a] = [state |-> "PENDING", batch |-> b]
      /\ \A c \in Archives : c # a => Attached(a, b)[c] = archive[c]
  BY <1>4 DEF Attached, TInv, TablesType
<1>6. GInv'
  <2>1. ASSUME NEW c \in Archives
        PROVE  \/ archive'[c] = archive[c]
               \/ /\ archive'[c].state = "PENDING" /\ archive'[c].batch = b
                  /\ archive[c].state \notin {"PARSED", "INDEXED"}
    BY <1>1, <1>3, <1>4, <1>5
  <2> QED BY <1>1, <1>2, <1>4, <2>1, ArchivesChange DEF RInv
<1>7. ASSUME ~Out(p) PROVE LockClaim(proc[p])' /\ proc'[p].pc \in LockPcs
  <2>1. /\ archive' = Attached(a, b) /\ proc'[p].pc = "attach" /\ proc'[p].b = b
        /\ proc'[p].ids = proc[p].ids /\ proc'[p].todo = proc[p].todo \ {a}
        /\ proc'[p].good = proc[p].good
    BY <1>1, <1>7
  <2>2. archive'[a].state = "PENDING" /\ archive'[a].batch = b
        /\ \A c \in Archives : c # a => archive'[c] = archive[c]
    BY <1>5, <2>1
  <2>3. ArchivesOf(b)' = ArchivesOf(b) \cup {a} /\ BatchesIn({"PARSING"})' = {b}
    BY <1>1, <1>3, <1>4, <2>2 DEF ArchivesOf, BatchesIn
  <2>4. ArchivesOf(b)' = proc'[p].ids \ proc'[p].todo
    BY <1>3, <1>4, <2>1, <2>3
  <2>5. /\ \A c \in proc'[p].todo : archive'[c].state \in {"NONE", "PENDING"}
        /\ \A c \in proc'[p].ids \ proc'[p].todo : archive'[c].state = "PENDING"
    BY <1>2, <1>3, <1>4, <2>1, <2>2
  <2>6. proc'[p].todo \subseteq proc'[p].ids /\ proc'[p].good \subseteq proc'[p].ids
    BY <1>3, <2>1
  <2>7. LockClaim(proc[p])'
    BY <2>1, <2>3, <2>4, <2>5, <2>6 DEF LockClaim
  <2> QED BY <2>1, <2>7 DEF LockPcs
<1>8. Moved(p) /\ proc[p].pc \in LockPcs
  BY LockTask
<1> QED BY <1>1, <1>6, <1>7, <1>8, QuietGuars, LockSettles

LEMMA WriteParsedKeeps ==
  ASSUME TInv, TInv', RInv, OneBuilder', NEW p \in Programs, WriteParsed(p)
  PROVE  RInv' /\ CatalogStep
<1>0. PICK b : b = proc[p].b
  OBVIOUS
<1>1. /\ proc[p].pc = "attach" /\ proc[p].todo = {} /\ UNCHANGED <<indexTables, snapshot>>
      /\ archive' = archive /\ batch' = batch /\ building' = building /\ segment' = segment
      /\ proc'[p].b = b /\ proc'[p].ids = proc[p].ids /\ proc'[p].todo = proc[p].ids
      /\ \/ /\ parsed' = [parsed EXCEPT ![b] = proc[p].good]
            /\ proc'[p].pc = "mark" /\ proc'[p].good = proc[p].good
         \/ parsed' = parsed /\ proc'[p].pc \in {"mark", "unwritten"} /\ proc'[p].good = {}
  BY <1>0, WriteParsedFacts DEF Still, indexTables
<1>2. LockClaim(proc[p]) /\ b \in Batches
  BY <1>0, <1>1, ProgramFacts DEF RInv, Shape
<1>3. /\ BatchesIn({"PARSING"}) = {b} /\ proc[p].good \subseteq proc[p].ids
      /\ ArchivesOf(b) = proc[p].ids /\ \A c \in proc[p].ids : archive[c].state = "PENDING"
  BY <1>0, <1>1, <1>2 DEF LockClaim
<1>4. State(b) = "PARSING" /\ DOMAIN parsed = Batches
  BY <1>3 DEF BatchesIn, State, TInv, DirsType
<1>5. \A c \in Batches : parsed'[c] = parsed[c] \/ State(c) = "PARSING"
  BY <1>1, <1>4
<1>6. GInv' /\ LockGuar
  <2>1. CatalogStep
    BY <1>1 DEF CatalogStep, CatalogSame, State
  <2> QED BY <1>1, <1>5, <2>1, FilesChange DEF RInv, LockGuar
<1>7. LockClaim(proc[p])'
  <2>1. ArchivesOf(b)' = ArchivesOf(b) /\ BatchesIn({"PARSING"})' = {b}
    BY <1>1, <1>3 DEF ArchivesOf, BatchesIn
  <2>2. proc'[p].good \subseteq proc'[p].ids /\ proc'[p].todo \subseteq proc'[p].ids
    BY <1>1, <1>3
  <2>3. proc'[p].good # {} => parsed'[b] = proc'[p].good
    BY <1>1, <1>2, <1>4
  <2> QED BY <1>1, <1>3, <2>1, <2>2, <2>3 DEF LockClaim
<1>8. Moved(p) /\ proc[p].pc \in LockPcs /\ proc'[p].pc \in LockPcs
  BY <1>1, LockTask DEF LockPcs
<1> QED BY <1>6, <1>7, <1>8, LockSettles

\* A scan marks one archive of its own batch.
LEMMA MarkingKeeps ==
  ASSUME TInv, TInv', GInv, NEW b \in Batches, State(b) = "PARSING", NEW a \in ArchivesOf(b),
         NEW ok \in BOOLEAN, batch' = batch, UNCHANGED <<dirs, snapshot>>,
         archive' \in {archive, MarkedArchive(a, ok)}
  PROVE  /\ GInv' /\ LockGuar /\ BatchesIn({"PARSING"})' = BatchesIn({"PARSING"})
         /\ \A c \in Archives : archive'[c].batch = archive[c].batch
         /\ \A c \in Archives : c # a => archive'[c] = archive[c]
         /\ ArchivesOf(b)' = ArchivesOf(b)
<1>1. TablesType /\ a \in Archives /\ archive[a].batch = b
  BY DEF TInv, ArchivesOf
<1>2. PICK s \in {"PARSED", "FAILED"} : archive' \in {archive, ArchiveStates({a}, s)}
  BY DEF MarkedArchive
<1>3. /\ \A c \in Archives : archive'[c].batch = archive[c].batch
      /\ \A c \in Archives : c # a => archive'[c] = archive[c]
      /\ archive'[a] = archive[a] \/ archive'[a].state = s
  BY <1>1, <1>2, ArchiveStatesType
<1>4. GInv'
  BY <1>1, <1>3, ArchivesChange
<1>5. ArchivesOf(b)' = ArchivesOf(b) /\ BatchesIn({"PARSING"})' = BatchesIn({"PARSING"})
  BY <1>3 DEF ArchivesOf, BatchesIn
<1>6. UNCHANGED dirs
  BY DEF dirs
<1> QED BY <1>3, <1>4, <1>5, <1>6, QuietGuars

LEMMA MarkArchiveKeeps ==
  ASSUME TInv, TInv', RInv, OneBuilder', NEW p \in Programs, MarkArchive(p)
  PROVE  RInv' /\ CatalogStep
<1>0. PICK a, b, ok : a = Least(proc[p].todo) /\ b = proc[p].b /\ ok = (a \in proc[p].good)
  OBVIOUS
<1>1. /\ proc[p].pc = "mark" /\ proc[p].todo # {} /\ UNCHANGED <<dirs, snapshot>> /\ UNCHANGED dirs
      /\ batch' = batch /\ archive' \in {archive, MarkedArchive(a, ok)}
      /\ \/ Out(p)
         \/ /\ archive' = MarkedArchive(a, ok) /\ proc'[p].pc = "mark" /\ proc'[p].b = b
            /\ proc'[p].ids = proc[p].ids /\ proc'[p].todo = proc[p].todo \ {a}
            /\ proc'[p].good = proc[p].good
  BY <1>0, MarkArchiveFacts DEF Still
<1>2. /\ LockClaim(proc[p]) /\ proc[p].todo \in SUBSET Archives /\ proc[p].ids \in SUBSET Archives
      /\ b \in Batches /\ GInv /\ TablesType /\ ok \in BOOLEAN
  BY <1>0, <1>1, ProgramFacts DEF RInv, Shape, TInv
<1>3. /\ BatchesIn({"PARSING"}) = {b} /\ proc[p].todo \subseteq proc[p].ids
      /\ proc[p].good \subseteq proc[p].ids /\ ArchivesOf(b) = proc[p].ids
      /\ \A c \in proc[p].ids : archive[c].state = IF c \in proc[p].todo THEN "PENDING"
                                ELSE IF c \in proc[p].good THEN "PARSED" ELSE "FAILED"
      /\ proc[p].good # {} => parsed[b] = proc[p].good
  BY <1>0, <1>1, <1>2 DEF LockClaim
<1>4. a \in proc[p].todo /\ a \in ArchivesOf(b) /\ State(b) = "PARSING"
  BY <1>0, <1>1, <1>2, <1>3, LeastArchive DEF BatchesIn, State
<1>5. /\ GInv' /\ LockGuar /\ BatchesIn({"PARSING"})' = BatchesIn({"PARSING"})
      /\ \A c \in Archives : c # a => archive'[c] = archive[c]
      /\ ArchivesOf(b)' = ArchivesOf(b)
  BY <1>1, <1>2, <1>4, MarkingKeeps
<1>6. ASSUME ~Out(p) PROVE LockClaim(proc[p])' /\ proc'[p].pc \in LockPcs
  <2>1. /\ archive' = MarkedArchive(a, ok) /\ proc'[p].pc = "mark" /\ proc'[p].b = b
        /\ proc'[p].ids = proc[p].ids /\ proc'[p].todo = proc[p].todo \ {a}
        /\ proc'[p].good = proc[p].good
    BY <1>1, <1>6
  <2>2. archive'[a].state = IF a \in proc[p].good THEN "PARSED" ELSE "FAILED"
    BY <1>0, <1>2, <1>4, <2>1, ArchiveStatesType DEF MarkedArchive, ArchivesOf
  <2>3. \A c \in proc'[p].ids : archive'[c].state = IF c \in proc'[p].todo THEN "PENDING"
                                ELSE IF c \in proc'[p].good THEN "PARSED" ELSE "FAILED"
    BY <1>2, <1>3, <1>5, <2>1, <2>2
  <2>4. proc'[p].good # {} => parsed'[b] = proc'[p].good
    BY <1>1, <1>3, <2>1 DEF dirs
  <2>5. proc'[p].todo \subseteq proc'[p].ids /\ proc'[p].good \subseteq proc'[p].ids
        /\ ArchivesOf(b)' = proc'[p].ids /\ BatchesIn({"PARSING"})' = {b}
    BY <1>3, <1>5, <2>1
  <2>6. LockClaim(proc[p])'
    BY <2>1, <2>3, <2>4, <2>5 DEF LockClaim
  <2> QED BY <2>1, <2>6 DEF LockPcs
<1>7. Moved(p) /\ proc[p].pc \in LockPcs
  BY LockTask
<1> QED BY <1>5, <1>6, <1>7, LockSettles

LEMMA FinishScanKeeps ==
  ASSUME TInv, TInv', RInv, OneBuilder', NEW p \in Programs, FinishScan(p)
  PROVE  RInv' /\ CatalogStep
<1>0. PICK b, ok : b = proc[p].b /\ ok = (proc[p].good # {})
  OBVIOUS
<1>1. /\ proc[p].pc = "mark" /\ proc[p].todo = {} /\ UNCHANGED <<dirs, snapshot>> /\ UNCHANGED dirs
      /\ archive' = archive /\ batch' \in {batch, MarkedBatch(b, ok)} /\ (Out(p) \/ Ended(p))
  BY <1>0, FinishScanFacts DEF Still
<1>2. LockClaim(proc[p]) /\ b \in Batches /\ GInv
  BY <1>0, <1>1, ProgramFacts DEF RInv, Shape
<1>3. /\ BatchesIn({"PARSING"}) = {b} /\ proc[p].good \subseteq proc[p].ids
      /\ ArchivesOf(b) = proc[p].ids
      /\ \A c \in proc[p].ids : archive[c].state = IF c \in proc[p].good THEN "PARSED" ELSE "FAILED"
      /\ proc[p].good # {} => parsed[b] = proc[p].good
  BY <1>0, <1>1, <1>2 DEF LockClaim
<1>4. State(b) = "PARSING" /\ In(b, "PARSED") = proc[p].good
  BY <1>3 DEF BatchesIn, State, In, ArchivesOf
<1>5. GInv' /\ LockGuar
  <2>1. CASE batch' = batch
    BY <1>1, <1>2, <2>1, FilesChange, QuietGuars DEF indexTables, dirs
  <2>2. CASE batch' = BatchState(b, "FAILED")
    <3>1. BatchGoes(b, "FAILED")
      BY <1>1, <1>2, <2>2, BatchStateGoes
    <3> QED BY <1>2, <1>4, <3>1, BatchFails, BatchGuars
  <2>3. CASE batch' = BatchState(b, "PARSED") /\ ok
    <3>1. BatchGoes(b, "PARSED")
      BY <1>1, <1>2, <2>3, BatchStateGoes
    <3>2. parsed[b] # {} /\ parsed[b] = In(b, "PARSED")
      BY <1>0, <1>3, <1>4, <2>3
    <3>3. GInv'
      BY <1>2, <1>4, <3>1, <3>2, BatchParsed
    <3> QED BY <1>2, <1>4, <3>1, <3>3, BatchGuars
  <2> QED BY <1>1, <2>1, <2>2, <2>3 DEF MarkedBatch
<1>6. Moved(p) /\ proc[p].pc \in LockPcs
  BY LockTask
<1> QED BY <1>1, <1>5, <1>6, LockSettles

LEMMA MarkUnwrittenKeeps ==
  ASSUME TInv, TInv', RInv, OneBuilder', NEW p \in Programs, MarkUnwritten(p)
  PROVE  RInv' /\ CatalogStep
<1>0. PICK a, b : a = Least(proc[p].todo) /\ b = proc[p].b
  OBVIOUS
<1>1. /\ proc[p].pc = "unwritten" /\ UNCHANGED <<dirs, snapshot>> /\ UNCHANGED dirs
      /\ \/ /\ Out(p) /\ archive' = archive /\ batch' \in {batch, MarkedBatch(b, FALSE)}
         \/ /\ proc[p].todo # {} /\ batch' = batch /\ archive' \in {archive, MarkedArchive(a, FALSE)}
            /\ proc'[p].pc = "unwritten" /\ proc'[p].b = b
            /\ proc'[p].ids = proc[p].ids /\ proc'[p].todo = proc[p].todo \ {a}
            /\ proc'[p].good = proc[p].good
  BY <1>0, MarkUnwrittenFacts DEF Still
<1>2. /\ LockClaim(proc[p]) /\ proc[p].todo \in SUBSET Archives /\ b \in Batches /\ GInv
  BY <1>0, <1>1, ProgramFacts DEF RInv, Shape
<1>3. /\ BatchesIn({"PARSING"}) = {b} /\ proc[p].todo \subseteq proc[p].ids
      /\ proc[p].good \subseteq proc[p].ids /\ ArchivesOf(b) = proc[p].ids /\ State(b) = "PARSING"
  BY <1>0, <1>1, <1>2 DEF LockClaim, BatchesIn, State
<1>4. Moved(p) /\ proc[p].pc \in LockPcs
  BY LockTask
<1>5. CASE Out(p) /\ archive' = archive /\ batch' \in {batch, MarkedBatch(b, FALSE)}
  <2>1. CASE batch' = batch
    <3>1. GInv' /\ LockGuar
      BY <1>1, <1>2, <1>5, <2>1, FilesChange, QuietGuars DEF indexTables, dirs
    <3> QED BY <1>4, <1>5, <3>1, LockSettles
  <2>2. CASE batch' = BatchState(b, "FAILED")
    <3>1. BatchGoes(b, "FAILED")
      BY <1>1, <1>2, <1>5, <2>2, BatchStateGoes
    <3>2. GInv' /\ LockGuar
      BY <1>2, <1>3, <3>1, BatchFails, BatchGuars
    <3> QED BY <1>4, <1>5, <3>2, LockSettles
  <2> QED BY <1>5, <2>1, <2>2 DEF MarkedBatch
<1>6. CASE ~(Out(p) /\ archive' = archive /\ batch' \in {batch, MarkedBatch(b, FALSE)})
  <2>1. /\ proc[p].todo # {} /\ batch' = batch /\ archive' \in {archive, MarkedArchive(a, FALSE)}
        /\ proc'[p].pc = "unwritten" /\ proc'[p].b = b
        /\ proc'[p].ids = proc[p].ids /\ proc'[p].todo = proc[p].todo \ {a}
        /\ proc'[p].good = proc[p].good
    BY <1>1, <1>6
  <2>2. a \in proc[p].todo /\ a \in ArchivesOf(b)
    BY <1>0, <1>2, <1>3, <2>1, LeastArchive
  <2>3. /\ GInv' /\ LockGuar /\ BatchesIn({"PARSING"})' = BatchesIn({"PARSING"})
        /\ ArchivesOf(b)' = ArchivesOf(b)
    BY <1>1, <1>2, <1>3, <2>1, <2>2, MarkingKeeps
  <2>4. proc'[p].todo \subseteq proc'[p].ids /\ proc'[p].good \subseteq proc'[p].ids
        /\ ArchivesOf(b)' = proc'[p].ids /\ BatchesIn({"PARSING"})' = {b}
    BY <1>3, <2>1, <2>3
  <2>5. LockClaim(proc[p])' /\ proc'[p].pc \in LockPcs
    BY <2>1, <2>4 DEF LockClaim, LockPcs
  <2> QED BY <1>4, <2>3, <2>5, LockSettles
<1> QED BY <1>5, <1>6

LEMMA RetractBatchKeeps ==
  ASSUME TInv, TInv', RInv, OneBuilder', NEW p \in Programs, RetractBatch(p)
  PROVE  RInv' /\ CatalogStep
<1>0. PICK b : b = proc[p].b
  OBVIOUS
<1>1. /\ proc[p].pc = "retract" /\ UNCHANGED <<dirs, snapshot>> /\ UNCHANGED dirs
      /\ archive' = archive /\ batch' \in {batch, BatchState(b, "FAILED")}
      /\ Out(p) \/ (batch' = BatchState(b, "FAILED") /\ proc'[p] = Goto(p, "requeue"))
  BY <1>0, RetractBatchFacts DEF Still
<1>2. b \in Batches /\ GInv /\ State(b) # "NONE"
  <2>1. b \in Batches
    BY <1>0, <1>1, ProgramFacts DEF Shape
  <2>2. LockClaim(proc[p]) /\ GInv
    BY DEF RInv
  <2> QED BY <1>0, <1>1, <2>1, <2>2 DEF LockClaim
<1>3. Moved(p) /\ proc[p].pc \in LockPcs
  BY LockTask
<1>4. CASE batch' = BatchState(b, "FAILED")
  <2>1. BatchGoes(b, "FAILED")
    BY <1>1, <1>2, <1>4, BatchStateGoes
  <2>2. GInv' /\ LockGuar
    BY <1>2, <2>1, BatchFails, BatchGuars
  <2>3. ASSUME ~Out(p) PROVE LockClaim(proc[p])' /\ proc'[p].pc \in LockPcs
    <3>1. proc'[p].pc = "requeue" /\ proc'[p].b = b
      BY <1>0, <1>1, <2>3, GotoFacts, ProgramFacts DEF Pcs, LockPcs
    <3>2. State(b)' = "FAILED"
      BY <2>1 DEF BatchGoes, State
    <3> QED BY <3>1, <3>2 DEF LockClaim, LockPcs
  <2> QED BY <1>3, <2>2, <2>3, LockSettles
<1>5. CASE batch' = batch /\ Out(p)
  <2>1. GInv' /\ LockGuar
    BY <1>1, <1>2, <1>5, FilesChange, QuietGuars DEF indexTables, dirs
  <2> QED BY <1>3, <1>5, <2>1, LockSettles
<1> QED BY <1>1, <1>4, <1>5

LEMMA RequeueArchivesKeeps ==
  ASSUME TInv, TInv', RInv, OneBuilder', NEW p \in Programs, RequeueArchives(p)
  PROVE  RInv' /\ CatalogStep
<1>0. PICK b : b = proc[p].b
  OBVIOUS
<1>1. /\ proc[p].pc = "requeue" /\ UNCHANGED <<dirs, snapshot>> /\ UNCHANGED dirs
      /\ batch' = batch /\ archive' \in {archive, Requeued(b)}
      /\ Out(p) \/ proc'[p] = Goto(p, "erase")
  BY <1>0, RequeueArchivesFacts DEF Still
<1>2. b \in Batches /\ State(b) = "FAILED" /\ TablesType
  <2>1. b \in Batches /\ LockClaim(proc[p])
    BY <1>0, <1>1, ProgramFacts DEF Shape, RInv
  <2> QED BY <1>0, <1>1, <2>1 DEF LockClaim, TInv
<1>3. GInv'
  <2>1. ASSUME NEW a \in Archives
        PROVE  \/ archive'[a] = archive[a]
               \/ archive'[a].state = "PENDING" /\ archive'[a].batch = b /\ archive[a].batch = b
    BY <1>1, <1>2, ArchiveStatesType DEF Requeued, ArchivesOf
  <2> QED BY <1>1, <1>2, <2>1, ArchivesChange DEF RInv
<1>4. ASSUME ~Out(p) PROVE LockClaim(proc[p])' /\ proc'[p].pc \in LockPcs
  <2>1. proc'[p].pc = "erase" /\ proc'[p].b = b
    BY <1>0, <1>1, <1>4, GotoFacts, ProgramFacts DEF Pcs, LockPcs
  <2>2. State(b)' = "FAILED"
    BY <1>1, <1>2 DEF State
  <2> QED BY <2>1, <2>2 DEF LockClaim, LockPcs
<1>5. Moved(p) /\ proc[p].pc \in LockPcs
  BY LockTask
<1> QED BY <1>1, <1>3, <1>4, <1>5, QuietGuars, LockSettles

LEMMA EraseBatchKeeps ==
  ASSUME TInv, TInv', RInv, OneBuilder', NEW p \in Programs, EraseBatch(p)
  PROVE  RInv' /\ CatalogStep
<1>0. PICK b : b = proc[p].b
  OBVIOUS
<1>1. /\ proc[p].pc = "erase" /\ UNCHANGED <<indexTables, snapshot>> /\ Out(p) /\ batch' = batch
      /\ parsed' = [parsed EXCEPT ![b] = {}] /\ building' = [building EXCEPT ![b] = NoDir]
      /\ segment' = [segment EXCEPT ![b] = NoDir]
  BY <1>0, EraseBatchFacts DEF Still, indexTables
<1>2. b \in Batches /\ State(b) = "FAILED"
  <2>1. b \in Batches /\ LockClaim(proc[p])
    BY <1>0, <1>1, ProgramFacts DEF Shape, RInv
  <2> QED BY <1>0, <1>1, <2>1 DEF LockClaim
<1>3. /\ \A c \in Batches : c # b =>
           parsed'[c] = parsed[c] /\ building'[c] = building[c] /\ segment'[c] = segment[c]
      /\ segment'[b] = NoDir
  BY <1>1, <1>2 DEF TInv, DirsType
<1>4. GInv' /\ LockGuar
  <2>1. CatalogStep
    BY <1>1, <1>2, <1>3 DEF CatalogStep, CatalogSame, State
  <2> QED BY <1>1, <1>2, <1>3, <2>1, FilesChange DEF RInv, LockGuar
<1>5. Moved(p) /\ proc[p].pc \in LockPcs
  BY LockTask
<1> QED BY <1>1, <1>4, <1>5, LockSettles

-----------------------------------------------------------------------------
(* The steps of a program that builds segments.                            *)

LEMMA BuildSettles ==
  ASSUME TInv, TInv', RInv, NEW p \in Programs, Moved(p), proc[p].pc \in BuildPcs,
         OneBuilder', GInv', BuildGuar,
         \/ Out(p) \/ proc'[p].pc \in {"interrupted", "list", "idle", "down"}
         \/ BuildClaim(p, proc[p])' /\ proc'[p].pc \in BuildPcs
  PROVE  RInv' /\ CatalogStep
<1>2. LockClaim(proc[p])' /\ BuildClaim(p, proc[p])'
  <2>1. CASE Out(p)
    BY <2>1, OutClaims
  <2>2. CASE proc'[p].pc \in {"interrupted", "list", "idle", "down"}
    <3>1. proc'[p].pc \notin LockPcs /\ proc'[p].pc \notin BuildPcs \ {"cleanup", "interrupted", "list"}
      BY <2>2 DEF LockPcs, BuildPcs
    <3> QED BY <3>1, NoClaims
  <2>3. CASE BuildClaim(p, proc[p])' /\ proc'[p].pc \in BuildPcs
    <3>1. proc'[p].pc \notin LockPcs
      BY <2>3, PcFacts
    <3> QED BY <2>3, <3>1, NoClaims
  <2> QED BY <2>1, <2>2, <2>3
<1> QED BY <1>2, BuildStepKeeps DEF BuildGuar

\* Only directories of the batch that is built, or of a failed one, change.
LEMMA BuildFiles ==
  ASSUME TInv, GInv, UNCHANGED <<indexTables, snapshot>>, parsed' = parsed, NEW b \in Batches,
         State(b) \in {"BUILDING", "FAILED"},
         \A c \in Batches : c # b => segment'[c] = segment[c],
         segment'[b] \in {segment[b], NoDir} \/ State(b) = "FAILED" \/ segment'[b].archives = parsed[b]
  PROVE  GInv' /\ BuildGuar
<1>1. archive' = archive /\ batch' = batch
  BY DEF indexTables
<1>2. GInv'
  BY FilesChange
<1>3. CatalogStep
  BY <1>1 DEF CatalogStep, CatalogSame, State
<1> QED BY <1>1, <1>2, <1>3 DEF BuildGuar

LEMMA ListBuildingKeeps ==
  ASSUME TInv, TInv', RInv, OneBuilder', NEW p \in Programs, ListBuilding(p)
  PROVE  RInv' /\ CatalogStep
<1>1. /\ UNCHANGED <<indexTables, dirs, snapshot>> /\ UNCHANGED dirs /\ proc'[p].pc = "inspect"
      /\ proc'[p].todo = BatchesIn({"BUILDING"})
      /\ archive' = archive /\ batch' = batch /\ parsed' = parsed /\ segment' = segment
  BY ListBuildingFacts DEF Still, indexTables, dirs
<1>2. GInv' /\ BuildGuar
  BY <1>1, FilesChange, QuietGuars DEF RInv
<1>3. BatchesIn({"BUILDING"})' = BatchesIn({"BUILDING"})
      /\ \A b \in BatchesIn({"BUILDING"}) : State(b)' = "BUILDING"
  BY <1>1 DEF BatchesIn, State
<1>4. BuildClaim(p, proc[p])' /\ proc'[p].pc \in BuildPcs
  BY <1>1, <1>3 DEF BuildClaim, BuildPcs
<1>5. Moved(p) /\ proc[p].pc \in BuildPcs
  BY BuildTask
<1> QED BY <1>2, <1>4, <1>5, BuildSettles

LEMMA InspectBatchKeeps ==
  ASSUME TInv, TInv', RInv, OneBuilder', NEW p \in Programs, InspectBatch(p)
  PROVE  RInv' /\ CatalogStep
<1>0. PICK b : b = Least(proc[p].todo)
  OBVIOUS
<1>1. /\ proc[p].pc = "inspect" /\ UNCHANGED <<indexTables, dirs, snapshot>> /\ UNCHANGED dirs
      /\ archive' = archive /\ batch' = batch /\ parsed' = parsed /\ segment' = segment
      /\ proc'[p].todo = proc[p].todo
      /\ \/ proc'[p].pc = "reset" /\ segment[b] = NoDir
         \/ /\ proc'[p].pc = "republish" /\ segment[b] # NoDir /\ proc'[p].sha = segment[b].builder
         \/ proc'[p].pc = "discard"
  BY <1>0, InspectBatchFacts DEF Still, indexTables, dirs
<1>2. GInv' /\ BuildGuar
  BY <1>1, FilesChange, QuietGuars DEF RInv
<1>3. /\ BatchesIn({"BUILDING"}) \subseteq proc[p].todo
      /\ \A c \in proc[p].todo : State(c) \in {"BUILDING", "FAILED"}
  BY <1>1 DEF RInv, BuildClaim
<1>4. BatchesIn({"BUILDING"})' = BatchesIn({"BUILDING"}) /\ \A c : State(c)' = State(c)
  BY <1>1 DEF BatchesIn, State
<1>5. BuildClaim(p, proc[p])' /\ proc'[p].pc \in BuildPcs
  <2>1. /\ BatchesIn({"BUILDING"})' \subseteq proc'[p].todo
        /\ \A c \in proc'[p].todo : State(c)' \in {"BUILDING", "FAILED"}
    BY <1>1, <1>3, <1>4
  <2>2. proc'[p].pc = "reset" => segment'[Least(proc'[p].todo)] = NoDir
    BY <1>0, <1>1
  <2>3. proc'[p].pc = "republish" =>
          /\ segment'[Least(proc'[p].todo)] # NoDir
          /\ segment'[Least(proc'[p].todo)].builder = proc'[p].sha
    BY <1>0, <1>1
  <2> QED BY <1>1, <2>1, <2>2, <2>3 DEF BuildClaim, BuildPcs
<1>6. Moved(p) /\ proc[p].pc \in BuildPcs
  BY BuildTask
<1> QED BY <1>2, <1>5, <1>6, BuildSettles

\* What the recovery of interrupted builds knows of the next batch.
LEMMA NextInterrupted ==
  ASSUME TInv, RInv, NEW p \in Programs,
         proc[p].pc \in {"reset", "republish", "discard", "discarded"}
  PROVE  /\ Least(proc[p].todo) \in proc[p].todo /\ Least(proc[p].todo) \in Batches
         /\ proc[p].todo \subseteq Batches
         /\ State(Least(proc[p].todo)) \in {"BUILDING", "FAILED"}
         /\ BatchesIn({"BUILDING"}) \subseteq proc[p].todo
         /\ \A c \in proc[p].todo : State(c) \in {"BUILDING", "FAILED"}
<1>1. proc[p].todo \in SUBSET Batches /\ proc[p].todo # {}
  BY ProgramFacts DEF Shape
<1>2. Least(proc[p].todo) \in proc[p].todo /\ Least(proc[p].todo) \in Batches
  BY <1>1, LeastBatch
<1>3. /\ BatchesIn({"BUILDING"}) \subseteq proc[p].todo
      /\ \A c \in proc[p].todo : State(c) \in {"BUILDING", "FAILED"}
  BY DEF RInv, BuildClaim
<1> QED BY <1>1, <1>2, <1>3

\* The batch is no longer BUILDING: on to the next.
LEMMA HandledClaim ==
  ASSUME TInv, RInv, NEW p \in Programs,
         proc[p].pc \in {"reset", "republish", "discard", "discarded"}, proc'[p] = Handled(p),
         NEW b, b = Least(proc[p].todo), State(b)' # "BUILDING",
         \A c \in Batches : c # b => State(c)' = State(c)
  PROVE  BuildClaim(p, proc[p])' /\ proc'[p].pc \in BuildPcs
<1>1. proc'[p].pc = "inspect" /\ proc'[p].todo = proc[p].todo \ {b}
  BY HandledFacts
<1>2. /\ b \in Batches /\ proc[p].todo \subseteq Batches
      /\ BatchesIn({"BUILDING"}) \subseteq proc[p].todo
      /\ \A c \in proc[p].todo : State(c) \in {"BUILDING", "FAILED"}
  BY NextInterrupted
<1>3. BatchesIn({"BUILDING"})' \subseteq proc[p].todo \ {b}
  BY <1>2 DEF BatchesIn, State
<1>4. \A c \in proc[p].todo \ {b} : State(c)' \in {"BUILDING", "FAILED"}
  BY <1>2
<1> QED BY <1>1, <1>3, <1>4 DEF BuildClaim, BuildPcs

LEMMA ResetBatchKeeps ==
  ASSUME TInv, TInv', RInv, OneBuilder', NEW p \in Programs, ResetBatch(p)
  PROVE  RInv' /\ CatalogStep
<1>0. PICK b : b = Least(proc[p].todo)
  OBVIOUS
<1>1. /\ proc[p].pc = "reset" /\ UNCHANGED <<dirs, snapshot>> /\ UNCHANGED dirs /\ archive' = archive
      /\ batch' \in {batch, ResetBuilding(b)}
      /\ Out(p) \/ (proc'[p] = Handled(p) /\ batch' # batch)
  BY <1>0, ResetBatchFacts DEF Still
<1>2. b \in Batches /\ State(b) \in {"BUILDING", "FAILED"} /\ GInv
  BY <1>0, <1>1, NextInterrupted DEF RInv
<1>3. Moved(p) /\ proc[p].pc \in BuildPcs
  BY BuildTask
<1>4. CASE batch' = batch
  <2>1. GInv' /\ BuildGuar
    BY <1>1, <1>2, <1>4, FilesChange, QuietGuars DEF indexTables, dirs
  <2> QED BY <1>1, <1>3, <1>4, <2>1, BuildSettles
<1>5. CASE batch' # batch
  <2>1. State(b) = "BUILDING" /\ batch' = BatchState(b, "PARSED")
    BY <1>1, <1>5 DEF ResetBuilding, State
  <2>2. BatchGoes(b, "PARSED")
    BY <1>1, <1>2, <2>1, BatchStateGoes
  <2>3. segment[b] = NoDir
    BY <1>0, <1>1, <2>1 DEF RInv, BuildClaim
  <2>4. GInv'
    BY <1>2, <2>1, <2>2, <2>3, BatchReset
  <2>5. BuildGuar
    BY <1>2, <2>1, <2>2, BatchGuars
  <2>6. State(b)' = "PARSED" /\ \A c \in Batches : c # b => State(c)' = State(c)
    BY <2>2 DEF BatchGoes, State
  <2> QED BY <1>0, <1>1, <1>3, <2>4, <2>5, <2>6, HandledClaim, BuildSettles
<1> QED BY <1>4, <1>5

LEMMA PublishedGuar ==
  ASSUME TInv, NEW b \in Batches, NEW STATE h, Published(b, h), UNCHANGED dirs
  PROVE  BuildGuar
<1>1. parsed' = parsed /\ State(b) = "BUILDING" /\ State(b)' = "READY"
  BY PublishedFacts DEF dirs, Published
<1>2. \A a \in Archives : a \in In(b, "PARSED") => archive[a].batch = b /\ archive[a].state = "PARSED"
  BY DEF In
<1>3. batch'[b].state = "READY"
  BY <1>1 DEF State
<1>4. CatalogStep
  BY <1>1, <1>3, PublishedFacts DEF CatalogStep, BatchEnters, dirs
<1> QED BY <1>1, <1>2, <1>3, <1>4, PublishedFacts DEF BuildGuar

LEMMA RepublishKeeps ==
  ASSUME TInv, TInv', RInv, OneBuilder', NEW p \in Programs, Republish(p)
  PROVE  RInv' /\ CatalogStep
<1>0. PICK b, h : b = Least(proc[p].todo) /\ h = proc[p].sha
  OBVIOUS
<1>1. /\ proc[p].pc = "republish" /\ UNCHANGED <<dirs, snapshot>> /\ UNCHANGED dirs
      /\ \/ proc'[p] = Handled(p) /\ Published(b, h)
         \/ Out(p) /\ Published(b, h)
         \/ Out(p) /\ archive' = archive /\ batch' = batch
  BY <1>0, RepublishFacts DEF Still
<1>2. b \in Batches /\ GInv
  BY <1>0, <1>1, NextInterrupted DEF RInv
<1>3. Moved(p) /\ proc[p].pc \in BuildPcs
  BY BuildTask
<1>4. CASE Out(p) /\ archive' = archive /\ batch' = batch
  <2>1. GInv' /\ BuildGuar
    BY <1>1, <1>2, <1>4, FilesChange, QuietGuars DEF indexTables, dirs
  <2> QED BY <1>3, <1>4, <2>1, BuildSettles
<1>5. CASE Published(b, h)
  <2>1. State(b) = "BUILDING"
    BY <1>5 DEF Published
  <2>2. segment[b] # NoDir /\ segment[b].builder = h
    BY <1>0, <1>1, <2>1 DEF RInv, BuildClaim
  <2>3. GInv' /\ BuildGuar
    BY <1>1, <1>2, <1>5, <2>2, BatchPublished, PublishedGuar
  <2>4. State(b)' = "READY" /\ \A c \in Batches : c # b => State(c)' = State(c)
    BY <1>2, <1>5, PublishedFacts
  <2> QED BY <1>0, <1>1, <1>3, <2>3, <2>4, HandledClaim, BuildSettles
<1> QED BY <1>1, <1>4, <1>5

LEMMA DiscardFilesKeeps ==
  ASSUME TInv, TInv', RInv, OneBuilder', NEW p \in Programs, DiscardFiles(p)
  PROVE  RInv' /\ CatalogStep
<1>0. PICK b : b = Least(proc[p].todo)
  OBVIOUS
<1>1. /\ proc[p].pc = "discard" /\ UNCHANGED <<indexTables, snapshot>> /\ parsed' = parsed
      /\ batch' = batch /\ segment' = [segment EXCEPT ![b] = NoDir] /\ proc'[p] = Goto(p, "discarded")
  BY <1>0, DiscardFilesFacts DEF Still, indexTables
<1>2. /\ b \in Batches /\ State(b) \in {"BUILDING", "FAILED"} /\ GInv
      /\ BatchesIn({"BUILDING"}) \subseteq proc[p].todo
      /\ \A c \in proc[p].todo : State(c) \in {"BUILDING", "FAILED"}
  BY <1>0, <1>1, NextInterrupted DEF RInv
<1>3. segment'[b] = NoDir /\ \A c \in Batches : c # b => segment'[c] = segment[c]
  BY <1>1, <1>2 DEF TInv, DirsType
<1>4. GInv' /\ BuildGuar
  BY <1>1, <1>2, <1>3, BuildFiles
<1>5. BuildClaim(p, proc[p])' /\ proc'[p].pc \in BuildPcs
  <2>1. proc'[p].pc = "discarded" /\ proc'[p].todo = proc[p].todo
    BY <1>1, GotoFacts, ProgramFacts DEF Pcs, BuildPcs
  <2>2. BatchesIn({"BUILDING"})' = BatchesIn({"BUILDING"}) /\ \A c : State(c)' = State(c)
    BY <1>1 DEF BatchesIn, State
  <2> QED BY <1>2, <2>1, <2>2 DEF BuildClaim, BuildPcs
<1>6. Moved(p) /\ proc[p].pc \in BuildPcs
  BY BuildTask
<1> QED BY <1>4, <1>5, <1>6, BuildSettles

\* markSegmentBuildFailed on a batch that is BUILDING, or FAILED already.
LEMMA BuildFailedKeeps ==
  ASSUME TInv, TInv', GInv, NEW b \in Batches, State(b) \in {"BUILDING", "FAILED"},
         archive' = archive, UNCHANGED <<dirs, snapshot>>, batch' \in {batch, BuildFailed(b)}
  PROVE  /\ GInv' /\ BuildGuar /\ \A c \in Batches : c # b => State(c)' = State(c)
         /\ batch' # batch => State(b)' = "FAILED"
<1>1. UNCHANGED dirs
  BY DEF dirs
<1>2. CASE batch' = batch
  BY <1>1, <1>2, FilesChange, QuietGuars DEF indexTables, dirs, State
<1>3. CASE batch' # batch
  <2>1. State(b) = "BUILDING" /\ batch' = BatchState(b, "FAILED")
    BY <1>3 DEF BuildFailed, State
  <2>2. BatchGoes(b, "FAILED")
    BY <2>1, BatchStateGoes
  <2>3. GInv' /\ BuildGuar
    BY <2>1, <2>2, BatchFails, BatchGuars
  <2> QED BY <2>2, <2>3 DEF BatchGoes, State
<1> QED BY <1>2, <1>3

LEMMA DiscardBatchKeeps ==
  ASSUME TInv, TInv', RInv, OneBuilder', NEW p \in Programs, DiscardBatch(p)
  PROVE  RInv' /\ CatalogStep
<1>0. PICK b : b = Least(proc[p].todo)
  OBVIOUS
<1>1. /\ proc[p].pc = "discarded" /\ UNCHANGED <<dirs, snapshot>> /\ archive' = archive
      /\ batch' \in {batch, BuildFailed(b)} /\ (Out(p) \/ (proc'[p] = Handled(p) /\ batch' # batch))
  BY <1>0, DiscardBatchFacts DEF Still
<1>2. b \in Batches /\ State(b) \in {"BUILDING", "FAILED"} /\ GInv
  BY <1>0, <1>1, NextInterrupted DEF RInv
<1>3. /\ GInv' /\ BuildGuar /\ \A c \in Batches : c # b => State(c)' = State(c)
      /\ batch' # batch => State(b)' = "FAILED"
  BY <1>1, <1>2, BuildFailedKeeps
<1>4. Moved(p) /\ proc[p].pc \in BuildPcs
  BY BuildTask
<1> QED BY <1>0, <1>1, <1>3, <1>4, HandledClaim, BuildSettles

LEMMA CleanupBuildingKeeps ==
  ASSUME TInv, TInv', RInv, OneBuilder', NEW p \in Programs, CleanupBuilding(p)
  PROVE  RInv' /\ CatalogStep
<1>1. /\ UNCHANGED <<indexTables, snapshot>> /\ parsed' = parsed /\ segment' = segment
      /\ archive' = archive /\ batch' = batch /\ proc'[p] = Goto(p, "interrupted")
  BY CleanupBuildingFacts DEF Still, indexTables
<1>2. GInv' /\ BuildGuar
  <2>1. CatalogStep
    BY <1>1 DEF CatalogStep, CatalogSame, State
  <2> QED BY <1>1, <2>1, FilesChange DEF RInv, BuildGuar
<1>3. proc'[p].pc = "interrupted"
  BY <1>1, GotoFacts, ProgramFacts DEF Pcs, BuildPcs
<1>4. Moved(p) /\ proc[p].pc \in BuildPcs
  BY BuildTask
<1> QED BY <1>2, <1>3, <1>4, BuildSettles

LEMMA RecoveredKeeps ==
  ASSUME TInv, TInv', RInv, OneBuilder', NEW p \in Programs, Recovered(p)
  PROVE  RInv' /\ CatalogStep
<1>1. /\ proc[p].pc = "inspect" /\ proc[p].todo = {} /\ UNCHANGED <<indexTables, dirs, snapshot>>
      /\ archive' = archive /\ batch' = batch /\ parsed' = parsed /\ segment' = segment
      /\ UNCHANGED dirs /\ proc'[p] \in {Goto(p, "list"), Goto(p, "pick")}
  BY RecoveredFacts DEF Still, indexTables, dirs
<1>2. GInv' /\ BuildGuar
  BY <1>1, FilesChange, QuietGuars DEF RInv
<1>3. proc'[p].pc \in {"list", "pick"}
  BY <1>1, GotoFacts, ProgramFacts DEF Pcs, BuildPcs
<1>4. BatchesIn({"BUILDING"})' = {}
  BY <1>1 DEF RInv, BuildClaim, BatchesIn
<1>5. proc'[p].pc = "pick" => BuildClaim(p, proc[p])' /\ proc'[p].pc \in BuildPcs
  BY <1>4 DEF BuildClaim, BuildPcs
<1>6. Moved(p) /\ proc[p].pc \in BuildPcs
  BY BuildTask
<1> QED BY <1>2, <1>3, <1>5, <1>6, BuildSettles

LEMMA ListReadyKeeps ==
  ASSUME TInv, TInv', RInv, OneBuilder', NEW p \in Programs, ListReady(p)
  PROVE  RInv' /\ CatalogStep
<1>1. /\ UNCHANGED <<indexTables, dirs, snapshot>> /\ UNCHANGED dirs
      /\ archive' = archive /\ batch' = batch /\ parsed' = parsed /\ segment' = segment
      /\ proc'[p].pc = "load"
      /\ proc'[p].list = {[b |-> b, sha |-> batch[b].sha] : b \in BatchesIn({"READY"})}
  BY ListReadyFacts DEF Still, indexTables, dirs
<1>2. GInv' /\ BuildGuar
  BY <1>1, FilesChange, QuietGuars DEF RInv
<1>3. \A r \in proc'[p].list : r.b \in Batches /\ State(r.b) = "READY"
  BY <1>1 DEF BatchesIn, State
<1>4. ASSUME NEW b \in Batches, NEW c \in Batches, State(b) = "READY", State(c) = "READY", b # c
      PROVE  segment[b].archives \cap segment[c].archives = {}
  <2>1. segment[b].archives = In(b, "INDEXED") /\ segment[c].archives = In(c, "INDEXED")
    BY <1>4 DEF RInv, GInv, FilesOK
  <2> QED BY <1>4, <2>1 DEF In
<1>5. /\ \A r \in proc'[p].list : batch'[r.b].state \in {"READY", "FAILED"}
      /\ \A r, s \in proc'[p].list : r.b # s.b /\ segment'[r.b] # NoDir /\ segment'[s.b] # NoDir =>
           segment'[r.b].archives \cap segment'[s.b].archives = {}
  BY <1>1, <1>3, <1>4 DEF State
<1>6. BuildClaim(p, proc[p])' /\ proc'[p].pc \in BuildPcs
  BY <1>1, <1>5 DEF BuildClaim, BuildPcs, State
<1>7. Moved(p) /\ proc[p].pc \in BuildPcs
  BY BuildTask
<1> QED BY <1>2, <1>6, <1>7, BuildSettles

LEMMA SnapshotChange ==
  ASSUME TInv, GInv, UNCHANGED <<indexTables, dirs>>, SnapshotMatches'
  PROVE  GInv' /\ BuildGuar
<1>1. archive' = archive /\ batch' = batch /\ parsed' = parsed /\ segment' = segment /\ UNCHANGED dirs
  BY DEF indexTables, dirs
<1>2. \A a \in Archives : RowOK(a)'
  BY <1>1 DEF GInv, RowOK, State
<1>3. ASSUME NEW b \in Batches PROVE FilesOK(b)'
  <2>1. /\ In(b, "PARSED")' = In(b, "PARSED") /\ In(b, "INDEXED")' = In(b, "INDEXED")
        /\ State(b)' = State(b) /\ FilesOK(b)
    BY <1>1 DEF In, State, GInv
  <2> QED BY <1>1, <2>1 DEF FilesOK
<1>4. \A b, c \in Batches : OrderOK(b, c)'
  BY <1>1 DEF GInv, OrderOK, State
<1> QED BY <1>1, <1>2, <1>3, <1>4, QuietGuars DEF GInv

LEMMA LoadSnapshotKeeps ==
  ASSUME TInv, TInv', RInv, OneBuilder', NEW p \in Programs, LoadSnapshot(p)
  PROVE  RInv' /\ CatalogStep
<1>1. /\ proc[p].pc = "load" /\ UNCHANGED <<indexTables, dirs>> /\ batch' = batch /\ segment' = segment
      /\ \/ Out(p) /\ snapshot' = snapshot
         \/ /\ \A r \in proc[p].list : Loads(r)
            /\ snapshot' \in {Loaded(p), snapshot} /\ proc'[p].pc \in {"interrupted", "down", "idle"}
  BY LoadSnapshotFacts DEF indexTables, dirs
<1>2. SnapshotMatches /\ DOMAIN snapshot \subseteq Batches
  BY DEF RInv, GInv, TInv
<1>3. CASE snapshot' = snapshot
  <2>1. SnapshotMatches'
    BY <1>1, <1>2, <1>3 DEF SnapshotMatches
  <2>2. GInv' /\ BuildGuar
    BY <1>1, <2>1, SnapshotChange DEF RInv
  <2> QED BY <1>1, <2>2, BuildTask, BuildSettles
<1>4. CASE snapshot' = Loaded(p) /\ \A r \in proc[p].list : Loads(r)
  <2>1. /\ DOMAIN snapshot' = {r.b : r \in proc[p].list}
        /\ \A b \in DOMAIN snapshot' : snapshot'[b] = segment[b].archives
    BY <1>4 DEF Loaded
  <2>2. \A r \in proc[p].list : segment[r.b] # NoDir
    BY <1>4 DEF Loads
  <2>3. /\ \A r \in proc[p].list : batch[r.b].state \in {"READY", "FAILED"}
        /\ \A r, s \in proc[p].list : r.b # s.b /\ segment[r.b] # NoDir /\ segment[s.b] # NoDir =>
             segment[r.b].archives \cap segment[s.b].archives = {}
    BY <1>1 DEF RInv, BuildClaim, State
  <2>4. ASSUME NEW b \in DOMAIN snapshot'
        PROVE  /\ batch[b].state \in {"READY", "FAILED"}
               /\ \A c \in DOMAIN snapshot' : b # c => segment[b].archives \cap segment[c].archives = {}
    BY <2>1, <2>2, <2>3
  <2>5. SnapshotMatches'
    BY <1>1, <2>1, <2>4 DEF SnapshotMatches
  <2>6. GInv' /\ BuildGuar
    BY <1>1, <2>5, SnapshotChange DEF RInv
  <2> QED BY <1>1, <2>6, BuildTask, BuildSettles
<1> QED BY <1>1, <1>3, <1>4

LEMMA PickBatchKeeps ==
  ASSUME TInv, TInv', RInv, OneBuilder', NEW p \in Programs, PickBatch(p)
  PROVE  RInv' /\ CatalogStep
<1>0. PICK b : b = Least(BatchesIn({"PARSED"}))
  OBVIOUS
<1>1. /\ proc[p].pc = "pick" /\ UNCHANGED <<indexTables, dirs, snapshot>> /\ UNCHANGED dirs
      /\ archive' = archive /\ batch' = batch /\ parsed' = parsed /\ segment' = segment
      /\ Out(p) \/ (BatchesIn({"PARSED"}) # {} /\ proc'[p].pc = "claim" /\ proc'[p].b = b)
  BY <1>0, PickBatchFacts DEF Still, indexTables, dirs
<1>2. GInv' /\ BuildGuar
  BY <1>1, FilesChange, QuietGuars DEF RInv
<1>3. ASSUME ~Out(p) PROVE BuildClaim(p, proc[p])' /\ proc'[p].pc \in BuildPcs
  <2>1. proc'[p].pc = "claim" /\ proc'[p].b = b
    BY <1>1, <1>3
  <2>2. b \in Batches /\ batch[b].state = "PARSED" /\ \A c \in BatchesIn({"PARSED"}) : b <= c
    BY <1>0, <1>1, <1>3, LeastBatch DEF BatchesIn
  <2>3. /\ BatchesIn({"PARSED"})' = BatchesIn({"PARSED"}) /\ BatchesIn({"BUILDING"})' = {}
        /\ State(b)' = "PARSED"
    BY <1>1, <2>2 DEF RInv, BuildClaim, BatchesIn, State
  <2> QED BY <2>1, <2>2, <2>3 DEF BuildClaim, BuildPcs
<1>4. Moved(p) /\ proc[p].pc \in BuildPcs
  BY BuildTask
<1> QED BY <1>2, <1>3, <1>4, BuildSettles

LEMMA ClaimBatchKeeps ==
  ASSUME TInv, TInv', RInv, OneBuilder', NEW p \in Programs, ClaimBatch(p)
  PROVE  RInv' /\ CatalogStep
<1>0. PICK b : b = proc[p].b
  OBVIOUS
<1>1. /\ proc[p].pc = "claim" /\ UNCHANGED <<dirs, snapshot>> /\ UNCHANGED dirs /\ archive' = archive
      /\ batch' \in {batch, Claimed(b)}
      /\ Out(p) \/ (proc'[p] = Goto(p, "read") /\ batch' # batch)
  BY <1>0, ClaimBatchFacts DEF Still
<1>2. b \in Batches /\ BuildClaim(p, proc[p]) /\ GInv
  BY <1>0, <1>1, ProgramFacts DEF Shape, RInv
<1>3. Moved(p) /\ proc[p].pc \in BuildPcs
  BY BuildTask
<1>4. CASE batch' = batch
  <2>1. GInv' /\ BuildGuar
    BY <1>1, <1>2, <1>4, FilesChange, QuietGuars DEF indexTables, dirs
  <2> QED BY <1>1, <1>3, <1>4, <2>1, BuildSettles
<1>5. CASE batch' # batch
  <2>1. State(b) = "PARSED" /\ batch' = BatchState(b, "BUILDING")
    BY <1>1, <1>5 DEF Claimed, State
  <2>2. BatchesIn({"BUILDING"}) = {} /\ \A c \in BatchesIn({"PARSED"}) : b <= c
    BY <1>0, <1>1, <1>2, <2>1 DEF BuildClaim
  <2>3. BatchGoes(b, "BUILDING")
    BY <1>1, <1>2, <2>1, BatchStateGoes
  <2>4. GInv' /\ BuildGuar
    BY <1>2, <2>1, <2>2, <2>3, BatchClaimed, BatchGuars
  <2>5. State(b)' = "BUILDING" /\ BatchesIn({"BUILDING"})' \subseteq {b}
    BY <2>2, <2>3 DEF BatchGoes, State, BatchesIn
  <2>6. ASSUME ~Out(p) PROVE BuildClaim(p, proc[p])' /\ proc'[p].pc \in BuildPcs
    <3>1. proc'[p].pc = "read" /\ proc'[p].b = b
      BY <1>0, <1>1, <2>6, GotoFacts, ProgramFacts DEF Pcs, BuildPcs
    <3> QED BY <2>5, <3>1 DEF BuildClaim, BuildPcs
  <2> QED BY <1>3, <2>4, <2>6, BuildSettles
<1> QED BY <1>4, <1>5

\* What a build knows of its batch.
LEMMA BuiltBatch ==
  ASSUME TInv, RInv, NEW p \in Programs,
         proc[p].pc \in {"read", "prepare", "store", "rename", "publish", "abandon", "abandoned"}
  PROVE  /\ proc[p].b \in Batches /\ State(proc[p].b) \in {"BUILDING", "FAILED"}
         /\ BatchesIn({"BUILDING"}) \subseteq {proc[p].b}
<1>1. proc[p].b \in Batches
  BY ProgramFacts DEF Shape
<1> QED BY <1>1 DEF RInv, BuildClaim

\* A step of a build that leaves the tables alone.
LEMMA BuildGoes ==
  ASSUME TInv, RInv, NEW p \in Programs, NEW b, b = proc[p].b, UNCHANGED indexTables,
         proc[p].pc \in {"read", "prepare", "store", "rename", "publish", "abandon", "abandoned"},
         proc'[p].pc \in {"prepare", "store", "rename", "publish", "abandon", "abandoned"},
         proc'[p].b = b, State(b) = "BUILDING" =>
           /\ proc'[p].pc \in {"prepare", "store", "rename"} => proc'[p].good = parsed'[b]
           /\ proc'[p].pc \in {"store", "rename"} =>
                building'[b].builder = p /\ building'[b].archives = proc'[p].good
           /\ proc'[p].pc = "publish" => segment'[b] # NoDir /\ segment'[b].builder = p
  PROVE  BuildClaim(p, proc[p])' /\ proc'[p].pc \in BuildPcs
<1>1. BatchesIn({"BUILDING"})' \subseteq {b} /\ State(b)' = State(b) /\ State(b) \in {"BUILDING", "FAILED"}
  BY BuiltBatch DEF indexTables, BatchesIn, State
<1> QED BY <1>1 DEF BuildClaim, BuildPcs

LEMMA ReadParsedKeeps ==
  ASSUME TInv, TInv', RInv, OneBuilder', NEW p \in Programs, ReadParsed(p)
  PROVE  RInv' /\ CatalogStep
<1>0. PICK b : b = proc[p].b
  OBVIOUS
<1>1. /\ proc[p].pc = "read" /\ UNCHANGED <<indexTables, dirs, snapshot>> /\ UNCHANGED <<indexTables, dirs>>
      /\ archive' = archive /\ batch' = batch /\ parsed' = parsed /\ segment' = segment
      /\ \/ proc'[p].pc = "prepare" /\ proc'[p].b = b /\ proc'[p].good = parsed[b]
         \/ proc'[p] = Goto(p, "abandon")
  BY <1>0, ReadParsedFacts DEF Still, indexTables, dirs
<1>2. GInv' /\ BuildGuar
  BY <1>1, FilesChange, QuietGuars DEF RInv
<1>3. proc'[p] = Goto(p, "abandon") => proc'[p].pc = "abandon" /\ proc'[p].b = b
  BY <1>0, GotoFacts, ProgramFacts DEF Pcs, BuildPcs
<1>4. BuildClaim(p, proc[p])' /\ proc'[p].pc \in BuildPcs
  <2>1. UNCHANGED indexTables
    BY <1>1
  <2> QED BY <1>0, <1>1, <1>3, <2>1, BuildGoes
<1>5. Moved(p) /\ proc[p].pc \in BuildPcs
  BY BuildTask
<1> QED BY <1>2, <1>4, <1>5, BuildSettles

LEMMA PrepareDirectoryKeeps ==
  ASSUME TInv, TInv', RInv, OneBuilder', NEW p \in Programs, PrepareDirectory(p)
  PROVE  RInv' /\ CatalogStep
<1>0. PICK b, g : b = proc[p].b /\ g = proc[p].good
  OBVIOUS
<1>1. /\ proc[p].pc = "prepare" /\ UNCHANGED <<indexTables, snapshot>> /\ parsed' = parsed
      /\ segment' = [segment EXCEPT ![b] = NoDir]
      /\ \/ /\ building' = [building EXCEPT ![b] = [builder |-> p, archives |-> g, intact |-> FALSE]]
            /\ proc'[p] = Goto(p, "store")
         \/ proc'[p] = Goto(p, "abandon")
  BY <1>0, PrepareDirectoryFacts DEF Still
<1>2. b \in Batches /\ State(b) \in {"BUILDING", "FAILED"} /\ GInv /\ DirsType
  BY <1>0, <1>1, BuiltBatch DEF RInv, TInv
<1>3. segment'[b] = NoDir /\ \A c \in Batches : c # b => segment'[c] = segment[c]
  BY <1>1, <1>2 DEF DirsType
<1>4. GInv' /\ BuildGuar
  BY <1>1, <1>2, <1>3, BuildFiles
<1>5. /\ proc'[p] = Goto(p, "abandon") => proc'[p].pc = "abandon" /\ proc'[p].b = b
      /\ proc'[p] = Goto(p, "store") => proc'[p].pc = "store" /\ proc'[p].b = b /\ proc'[p].good = g
  BY <1>0, GotoFacts, ProgramFacts DEF Pcs, BuildPcs
<1>6. proc'[p].pc = "store" => building'[b].builder = p /\ building'[b].archives = g
  BY <1>1, <1>2, <1>5 DEF DirsType
<1>7. State(b) = "BUILDING" => g = parsed[b]
  BY <1>0, <1>1 DEF RInv, BuildClaim
<1>8. BuildClaim(p, proc[p])' /\ proc'[p].pc \in BuildPcs
  <2>1. UNCHANGED indexTables
    BY <1>1
  <2> QED BY <1>0, <1>1, <1>5, <1>6, <1>7, <2>1, BuildGoes
<1>9. Moved(p) /\ proc[p].pc \in BuildPcs
  BY BuildTask
<1> QED BY <1>4, <1>8, <1>9, BuildSettles

LEMMA StoreFilesKeeps ==
  ASSUME TInv, TInv', RInv, OneBuilder', NEW p \in Programs, StoreFiles(p)
  PROVE  RInv' /\ CatalogStep
<1>0. PICK b : b = proc[p].b
  OBVIOUS
<1>1. /\ proc[p].pc = "store" /\ UNCHANGED <<indexTables, snapshot>> /\ parsed' = parsed
      /\ segment' = segment /\ archive' = archive /\ batch' = batch
      /\ \/ /\ proc'[p] = Goto(p, "rename")
            /\ building' = [building EXCEPT ![b] = [building[b] EXCEPT !.intact = TRUE]]
         \/ proc'[p] = Goto(p, "abandon")
  BY <1>0, StoreFilesFacts DEF Still, indexTables
<1>2. GInv' /\ BuildGuar
  <2>1. CatalogStep
    BY <1>1 DEF CatalogStep, CatalogSame, State
  <2> QED BY <1>1, <2>1, FilesChange DEF RInv, BuildGuar
<1>3. b \in Batches /\ DirsType
  BY <1>0, <1>1, BuiltBatch DEF TInv
<1>4. /\ proc'[p] = Goto(p, "abandon") => proc'[p].pc = "abandon" /\ proc'[p].b = b
      /\ proc'[p] = Goto(p, "rename") =>
           proc'[p].pc = "rename" /\ proc'[p].b = b /\ proc'[p].good = proc[p].good
  BY <1>0, GotoFacts, ProgramFacts DEF Pcs, BuildPcs
<1>5. proc'[p].pc = "rename" =>
        building'[b].builder = building[b].builder /\ building'[b].archives = building[b].archives
  BY <1>1, <1>3, <1>4 DEF DirsType, Dirs
<1>6. State(b) = "BUILDING" =>
        /\ proc[p].good = parsed[b]
        /\ building[b].builder = p /\ building[b].archives = proc[p].good
  BY <1>0, <1>1 DEF RInv, BuildClaim
<1>7. BuildClaim(p, proc[p])' /\ proc'[p].pc \in BuildPcs
  <2>1. UNCHANGED indexTables
    BY <1>1
  <2> QED BY <1>0, <1>1, <1>4, <1>5, <1>6, <2>1, BuildGoes
<1>8. Moved(p) /\ proc[p].pc \in BuildPcs
  BY BuildTask
<1> QED BY <1>2, <1>7, <1>8, BuildSettles

LEMMA RenameDirectoryKeeps ==
  ASSUME TInv, TInv', RInv, OneBuilder', NEW p \in Programs, RenameDirectory(p)
  PROVE  RInv' /\ CatalogStep
<1>0. PICK b : b = proc[p].b
  OBVIOUS
<1>1. /\ proc[p].pc = "rename" /\ UNCHANGED <<indexTables, snapshot>> /\ parsed' = parsed
      /\ \/ /\ building[b] # NoDir /\ segment' = [segment EXCEPT ![b] = building[b]]
            /\ proc'[p] = Goto(p, "publish")
         \/ segment' = segment /\ proc'[p] = Goto(p, "abandon")
  BY <1>0, RenameDirectoryFacts DEF Still
<1>2. b \in Batches /\ State(b) \in {"BUILDING", "FAILED"} /\ GInv /\ DirsType
  BY <1>0, <1>1, BuiltBatch DEF RInv, TInv
<1>3. /\ segment'[b] = segment[b] \/ segment'[b] = building[b]
      /\ \A c \in Batches : c # b => segment'[c] = segment[c]
  BY <1>1, <1>2 DEF DirsType
<1>4. State(b) = "BUILDING" => building[b].builder = p /\ building[b].archives = parsed[b]
  BY <1>0, <1>1 DEF RInv, BuildClaim
<1>5. GInv' /\ BuildGuar
  BY <1>1, <1>2, <1>3, <1>4, BuildFiles
<1>6. /\ proc'[p] = Goto(p, "abandon") => proc'[p].pc = "abandon" /\ proc'[p].b = b
      /\ proc'[p] = Goto(p, "publish") => proc'[p].pc = "publish" /\ proc'[p].b = b
  BY <1>0, GotoFacts, ProgramFacts DEF Pcs, BuildPcs
<1>7. proc'[p].pc = "publish" => segment'[b] = building[b] /\ building[b] # NoDir
  BY <1>1, <1>2, <1>6 DEF DirsType
<1>8. BuildClaim(p, proc[p])' /\ proc'[p].pc \in BuildPcs
  <2>1. UNCHANGED indexTables
    BY <1>1
  <2> QED BY <1>0, <1>1, <1>4, <1>6, <1>7, <2>1, BuildGoes
<1>9. Moved(p) /\ proc[p].pc \in BuildPcs
  BY BuildTask
<1> QED BY <1>5, <1>8, <1>9, BuildSettles

LEMMA PublishBatchKeeps ==
  ASSUME TInv, TInv', RInv, OneBuilder', NEW p \in Programs, PublishBatch(p)
  PROVE  RInv' /\ CatalogStep
<1>0. PICK b : b = proc[p].b
  OBVIOUS
<1>1. /\ proc[p].pc = "publish" /\ UNCHANGED <<dirs, snapshot>> /\ UNCHANGED dirs
      /\ Out(p) \/ proc'[p] = Goto(p, "list")
      /\ Published(b, p) \/ (archive' = archive /\ batch' = batch)
  BY <1>0, PublishBatchFacts DEF Still
<1>2. b \in Batches /\ GInv
  BY <1>0, <1>1, BuiltBatch DEF RInv
<1>3. GInv' /\ BuildGuar
  <2>1. CASE archive' = archive /\ batch' = batch
    BY <1>1, <1>2, <2>1, FilesChange, QuietGuars DEF indexTables, dirs
  <2>2. CASE Published(b, p)
    <3>1. State(b) = "BUILDING"
      BY <2>2 DEF Published
    <3>2. segment[b] # NoDir /\ segment[b].builder = p
      BY <1>0, <1>1, <3>1 DEF RInv, BuildClaim
    <3> QED BY <1>1, <1>2, <2>2, <3>2, BatchPublished, PublishedGuar
  <2> QED BY <1>1, <2>1, <2>2
<1>4. proc'[p] = Goto(p, "list") => proc'[p].pc = "list"
  BY GotoFacts, ProgramFacts DEF Pcs, BuildPcs
<1>5. Moved(p) /\ proc[p].pc \in BuildPcs
  BY BuildTask
<1> QED BY <1>1, <1>3, <1>4, <1>5, BuildSettles

LEMMA AbandonFilesKeeps ==
  ASSUME TInv, TInv', RInv, OneBuilder', NEW p \in Programs, AbandonFiles(p)
  PROVE  RInv' /\ CatalogStep
<1>0. PICK b : b = proc[p].b
  OBVIOUS
<1>1. /\ proc[p].pc = "abandon" /\ UNCHANGED <<indexTables, snapshot>> /\ parsed' = parsed
      /\ segment' = [segment EXCEPT ![b] = NoDir] /\ proc'[p] = Goto(p, "abandoned")
  BY <1>0, AbandonFilesFacts DEF Still
<1>2. b \in Batches /\ State(b) \in {"BUILDING", "FAILED"} /\ GInv /\ DirsType
  BY <1>0, <1>1, BuiltBatch DEF RInv, TInv
<1>3. segment'[b] = NoDir /\ \A c \in Batches : c # b => segment'[c] = segment[c]
  BY <1>1, <1>2 DEF DirsType
<1>4. GInv' /\ BuildGuar
  BY <1>1, <1>2, <1>3, BuildFiles
<1>5. proc'[p].pc = "abandoned" /\ proc'[p].b = b
  BY <1>0, <1>1, GotoFacts, ProgramFacts DEF Pcs, BuildPcs
<1>6. BuildClaim(p, proc[p])' /\ proc'[p].pc \in BuildPcs
  <2>1. UNCHANGED indexTables
    BY <1>1
  <2> QED BY <1>0, <1>1, <1>5, <2>1, BuildGoes
<1>7. Moved(p) /\ proc[p].pc \in BuildPcs
  BY BuildTask
<1> QED BY <1>4, <1>6, <1>7, BuildSettles

LEMMA AbandonBatchKeeps ==
  ASSUME TInv, TInv', RInv, OneBuilder', NEW p \in Programs, AbandonBatch(p)
  PROVE  RInv' /\ CatalogStep
<1>0. PICK b : b = proc[p].b
  OBVIOUS
<1>1. /\ proc[p].pc = "abandoned" /\ UNCHANGED <<dirs, snapshot>> /\ archive' = archive
      /\ batch' \in {batch, BuildFailed(b)} /\ Out(p)
  BY <1>0, AbandonBatchFacts DEF Still
<1>2. b \in Batches /\ State(b) \in {"BUILDING", "FAILED"} /\ GInv
  BY <1>0, <1>1, BuiltBatch DEF RInv
<1>3. GInv' /\ BuildGuar
  BY <1>1, <1>2, BuildFailedKeeps
<1>4. Moved(p) /\ proc[p].pc \in BuildPcs
  BY BuildTask
<1> QED BY <1>1, <1>3, <1>4, BuildSettles

LEMMA IoFailsKeeps ==
  ASSUME TInv, TInv', RInv, OneBuilder', NEW p \in Programs, IoFails(p)
  PROVE  RInv' /\ CatalogStep
<1>1. /\ proc[p].pc \in LockPcs \cup BuildPcs /\ UNCHANGED <<indexTables, dirs, snapshot>> /\ Out(p)
      /\ archive' = archive /\ batch' = batch /\ parsed' = parsed /\ segment' = segment
      /\ UNCHANGED dirs
  BY IoFailsFacts DEF Still, indexTables, dirs
<1>2. GInv' /\ BuildGuar /\ LockGuar
  BY <1>1, FilesChange, QuietGuars DEF RInv
<1>3. Moved(p)
  BY <1>1, OutTask
<1> QED BY <1>1, <1>2, <1>3, LockSettles, BuildSettles

\* Whoever begins to build beside the other program spends an overlap.
LEMMA StepOneBuilder ==
  ASSUME TInv, LInv, OneBuilder, Orderly', NEW p \in Programs, Step(p)
  PROVE  OneBuilder'
<1>1. Moved(p) /\ (proc[p].pc \in BuildPcs \/ Counted(p))
  BY LockTask, BuildTask, IoFailsFacts, OutTask DEF Step
<1>2. ASSUME NEW q \in Programs, q # p, Building(p)', Building(q)' PROVE FALSE
  <2>1. proc'[q] = proc[q] /\ Building(q)
    BY <1>1, <1>2 DEF Moved, Building
  <2>2. CASE Building(p)
    BY <1>2, <2>1, <2>2 DEF OneBuilder, Programs
  <2>3. CASE Spend(Overlap(p))
    BY <1>2, <2>1, <2>3, OverlapSpent
  <2> QED BY <1>1, <1>2, <2>2, <2>3 DEF Counted, Building
<1> QED BY <1>2 DEF OneBuilder, Programs

LEMMA StepKeeps ==
  ASSUME TInv, LInv, RInv, Orderly', NEW p \in Programs, Step(p)
  PROVE  RInv' /\ CatalogStep
<1>1. TInv' /\ OneBuilder'
  BY StepType, StepOneBuilder DEF RInv
<1> QED
  BY <1>1, RecoverListKeeps, RecoverArchivesKeeps, RecoverBatchKeeps, RecoverFilesKeeps, SelectKeeps,
     CreateBatchKeeps, AttachArchiveKeeps, WriteParsedKeeps, MarkArchiveKeeps, FinishScanKeeps,
     MarkUnwrittenKeeps, RetractBatchKeeps, RequeueArchivesKeeps, EraseBatchKeeps, ListBuildingKeeps,
     InspectBatchKeeps, ResetBatchKeeps, RepublishKeeps, DiscardFilesKeeps, DiscardBatchKeeps,
     CleanupBuildingKeeps, RecoveredKeeps, ListReadyKeeps, LoadSnapshotKeeps, PickBatchKeeps,
     ClaimBatchKeeps, ReadParsedKeeps, PrepareDirectoryKeeps, StoreFilesKeeps, RenameDirectoryKeeps,
     PublishBatchKeeps, AbandonFilesKeeps, AbandonBatchKeeps, IoFailsKeeps
  DEF Step

-----------------------------------------------------------------------------
(* The other steps.                                                        *)

LEMMA OthersKeep ==
  ASSUME TInv, TInv', RInv, UNCHANGED <<indexTables, dirs>>, NEW q \in Programs, proc'[q] = proc[q]
  PROVE  LockClaim(proc[q])' /\ BuildClaim(q, proc[q])'
<1>1. archive' = archive /\ batch' = batch /\ UNCHANGED dirs
  BY DEF indexTables, dirs
<1>2. LockGuar /\ BuildGuar /\ GInv /\ LockClaim(proc[q]) /\ BuildClaim(q, proc[q])
  BY <1>1, QuietGuars DEF RInv
<1> QED BY <1>2, LockClaimRelies, BuildClaimRelies

\* One program moves to the start of an operation, or to rest.
LEMMA StartSettles ==
  ASSUME TInv, TInv', RInv, UNCHANGED <<indexTables, dirs, snapshot>>, OneBuilder',
         NEW p \in Programs, Moved(p),
         \/ proc'[p].pc \in {"recover", "cleanup", "idle", "down"}
         \/ proc'[p].pc = "retract" /\ State(proc'[p].b) # "NONE"
  PROVE  RInv' /\ CatalogStep
<1>1. /\ archive' = archive /\ batch' = batch /\ parsed' = parsed /\ segment' = segment
      /\ UNCHANGED <<indexTables, dirs>> /\ UNCHANGED <<indexTables, snapshot>>
  BY DEF indexTables, dirs
<1>2. GInv'
  BY <1>1, FilesChange DEF RInv
<1>3. BuildClaim(p, proc[p])'
  <2>1. proc'[p].pc \notin BuildPcs \ {"cleanup", "interrupted", "list"}
    BY DEF BuildPcs
  <2> QED BY <2>1, NoClaims
<1>4. LockClaim(proc[p])'
  <2>1. CASE proc'[p].pc \in {"recover", "cleanup", "idle", "down"}
    BY <2>1 DEF LockClaim
  <2>2. CASE proc'[p].pc = "retract" /\ State(proc'[p].b) # "NONE"
    BY <1>1, <2>2 DEF LockClaim, State
  <2> QED BY <2>1, <2>2
<1>5. ASSUME NEW q \in Programs, q # p PROVE LockClaim(proc[q])' /\ BuildClaim(q, proc[q])'
  BY <1>1, <1>5, OthersKeep DEF Moved
<1>6. \A q \in Programs : LockClaim(proc[q])' /\ BuildClaim(q, proc[q])'
  BY <1>3, <1>4, <1>5
<1>7. CatalogStep
  BY <1>1 DEF CatalogStep, CatalogSame, State
<1> QED BY <1>2, <1>6, <1>7 DEF RInv

LEMMA SameKeeps ==
  ASSUME TInv, TInv', RInv, UNCHANGED <<indexTables, dirs, snapshot>>, proc' = proc
  PROVE  RInv' /\ CatalogStep
<1>1. /\ archive' = archive /\ batch' = batch /\ parsed' = parsed /\ segment' = segment
      /\ UNCHANGED <<indexTables, dirs>> /\ UNCHANGED <<indexTables, snapshot>>
  BY DEF indexTables, dirs
<1>2. GInv'
  BY <1>1, FilesChange DEF RInv
<1>3. \A q \in Programs : LockClaim(proc[q])' /\ BuildClaim(q, proc[q])'
  BY <1>1, OthersKeep
<1>4. OneBuilder'
  BY DEF RInv, OneBuilder, Building
<1>5. CatalogStep
  BY <1>1 DEF CatalogStep, CatalogSame, State
<1> QED BY <1>2, <1>3, <1>4, <1>5 DEF RInv

LEMMA ServerStartKeeps ==
  ASSUME TInv, RInv, ServerStart \/ Poll
  PROVE  RInv' /\ CatalogStep
<1>1. TInv' /\ "server" \in Programs /\ "admin" \in Programs
  BY StartType DEF Programs
<1>2. /\ UNCHANGED <<indexTables, dirs, snapshot>> /\ Moved("server")
      /\ proc'["server"].pc \in {"recover", "idle", "down"}
  <2>1. CASE ServerStart
    BY <2>1, ServerStartFacts DEF Still, Tried
  <2>2. CASE Poll
    BY <2>2, PollFacts DEF Still, Tried
  <2> QED BY <2>1, <2>2
<1>3. OneBuilder'
  BY <1>2 DEF OneBuilder, Building, BuildPcs
<1> QED BY <1>1, <1>2, <1>3, StartSettles

LEMMA AdminCommandKeeps ==
  ASSUME TInv, LInv, RInv, Orderly', AdminCommand
  PROVE  RInv' /\ CatalogStep
<1>1. TInv' /\ "server" \in Programs /\ "admin" \in Programs
  BY StartType DEF Programs
<1>2. UNCHANGED <<indexTables, dirs, snapshot>>
  BY AdminCommandFacts DEF Still
<1>3. CASE Tried("admin", "scan", "recover")
  <2>1. Moved("admin") /\ proc'["admin"].pc \in {"recover", "down"}
    BY <1>3 DEF Tried
  <2>2. OneBuilder'
    BY <2>1 DEF OneBuilder, Building, BuildPcs
  <2> QED BY <1>1, <1>2, <2>1, <2>2, StartSettles
<1>4. CASE /\ Moved("admin") /\ proc'["admin"].pc = "retract" /\ proc'["admin"].task = "rebuild"
           /\ \E a \in Archives : archive[a].batch # NoBatch /\ proc'["admin"].b = archive[a].batch
  <2>1. State(proc'["admin"].b) # "NONE"
    BY <1>4 DEF RInv, GInv, RowOK
  <2>2. OneBuilder'
    BY <1>4 DEF OneBuilder, Building, BuildPcs
  <2> QED BY <1>1, <1>2, <1>4, <2>1, <2>2, StartSettles
<1>5. CASE proc' = proc
  BY <1>1, <1>2, <1>5, SameKeeps
<1>6. CASE /\ Moved("admin") /\ Spend({"commands"} \cup Overlap("admin"))
           /\ proc'["admin"].pc = "cleanup" /\ proc'["admin"].task = "reload"
  <2>1. OneBuilder'
    <3> SUFFICES ASSUME Building("server")' PROVE FALSE
      BY DEF OneBuilder
    <3>1. Building("server")
      BY <1>1, <1>6 DEF Moved, Building
    <3> QED BY <1>1, <1>6, <3>1, OverlapSpent
  <2> QED BY <1>1, <1>2, <1>6, <2>1, StartSettles
<1> QED BY <1>3, <1>4, <1>5, <1>6, AdminCommandFacts

LEMMA CrashKeeps ==
  ASSUME TInv, RInv, NEW p \in Programs, Crash(p)
  PROVE  RInv' /\ CatalogStep
<1>1. TInv' /\ p \in {"server", "admin"} /\ "server" \in Programs /\ "admin" \in Programs
  BY CrashType DEF Programs
<1>2. /\ UNCHANGED <<indexTables, dirs>> /\ Moved(p) /\ proc'[p].pc = "down" /\ proc'[p].task = "none"
      /\ snapshot' = IF p = "server" THEN EmptySnapshot ELSE snapshot
      /\ batch' = batch /\ segment' = segment
  BY CrashFacts DEF indexTables, dirs
<1>3. SnapshotMatches'
  <2>1. CASE p = "server"
    BY <1>2, <2>1 DEF SnapshotMatches, EmptySnapshot
  <2>2. CASE p # "server"
    BY <1>2, <2>2 DEF RInv, GInv, SnapshotMatches
  <2> QED BY <2>1, <2>2
<1>4. GInv'
  BY <1>2, <1>3, SnapshotChange DEF RInv
<1>5. OneBuilder'
  BY <1>1, <1>2 DEF RInv, OneBuilder, Building, BuildPcs, Moved
<1>6. LockClaim(proc[p])' /\ BuildClaim(p, proc[p])'
  BY <1>2, PcFacts, NoClaims
<1>7. ASSUME NEW q \in Programs, q # p PROVE LockClaim(proc[q])' /\ BuildClaim(q, proc[q])'
  BY <1>1, <1>2, <1>7, OthersKeep DEF Moved
<1>8. \A q \in Programs : LockClaim(proc[q])' /\ BuildClaim(q, proc[q])'
  BY <1>6, <1>7
<1>9. CatalogStep
  BY <1>2 DEF CatalogStep, CatalogSame, State
<1> QED BY <1>4, <1>5, <1>8, <1>9 DEF RInv

\* A damaged directory is there, and has its manifest.
LEMMA DamageKeeps ==
  ASSUME TInv, RInv, NEW d \in Batches, Damage(d)
  PROVE  RInv' /\ CatalogStep
<1>1. /\ archive' = archive /\ batch' = batch /\ parsed' = parsed /\ building' = building
      /\ proc' = proc /\ snapshot' = snapshot /\ TInv'
  BY DamageType DEF indexTables
<1>2. \A b \in Batches : /\ segment'[b].archives = segment[b].archives
                         /\ segment'[b].builder = segment[b].builder
                         /\ segment'[b] # NoDir <=> segment[b] # NoDir
  <2>1. /\ segment[d] # NoDir /\ segment \in [Batches -> Dirs]
        /\ segment' = [segment EXCEPT ![d] = [segment[d] EXCEPT !.intact = FALSE]]
    BY DamageType DEF TInv, DirsType
  <2>2. \A b \in Batches : b # d => segment'[b] = segment[b]
    BY <2>1
  <2>3. /\ segment'[d].archives = segment[d].archives /\ segment'[d].builder = segment[d].builder
        /\ segment'[d].intact = FALSE
    BY <2>1 DEF Dirs
  <2>4. segment'[d] # NoDir
    BY <2>3 DEF NoDir
  <2> QED BY <2>1, <2>2, <2>3, <2>4
<1>3. /\ \A b \in Batches : /\ State(b)' = State(b) /\ In(b, "PARSED")' = In(b, "PARSED")
                            /\ In(b, "INDEXED")' = In(b, "INDEXED")
                            /\ batch'[b].sha = batch[b].sha
  BY <1>1 DEF State, In
<1>4. GInv'
  <2>1. \A a \in Archives : RowOK(a)'
    BY <1>1 DEF RInv, GInv, RowOK, State
  <2>2. ASSUME NEW b \in Batches PROVE FilesOK(b)'
    <3>1. FilesOK(b)
      BY DEF RInv, GInv
    <3> QED BY <1>1, <1>2, <1>3, <3>1 DEF FilesOK
  <2>3. \A b, c \in Batches : OrderOK(b, c)'
    BY <1>3 DEF RInv, GInv, OrderOK
  <2>4. SnapshotMatches'
    <3>1. SnapshotMatches /\ DOMAIN snapshot \subseteq Batches
      BY DEF RInv, GInv, TInv
    <3> QED BY <1>1, <1>2, <3>1 DEF SnapshotMatches
  <2> QED BY <2>1, <2>2, <2>3, <2>4 DEF GInv
<1>5. ASSUME NEW q \in Programs PROVE LockClaim(proc[q])' /\ BuildClaim(q, proc[q])'
  <2>0. PICK m : m = proc[q] /\ m = proc'[q]
    BY <1>1
  <2>1. LockClaim(m) /\ BuildClaim(q, m) /\ Shape(q, m) /\ m.list \in SUBSET Listed
    BY <2>0, ProgramFacts DEF RInv
  <2>2. LockClaim(m)'
    BY <1>1, <2>1 DEF LockClaim, BatchesIn, State, ArchivesOf
  <2>3. BuildClaim(q, m)'
    <3>1. m.pc \in {"reset", "republish"} => Least(m.todo) \in Batches
      BY <2>1, LeastBatch DEF Shape
    <3>2. m.pc = "publish" => m.b \in Batches
      BY <2>1 DEF Shape
    <3>3. \A r \in m.list : r.b \in Batches
      BY <2>1 DEF Listed
    <3>4. BatchesIn({"BUILDING"})' = BatchesIn({"BUILDING"})
          /\ BatchesIn({"PARSED"})' = BatchesIn({"PARSED"}) /\ \A b : State(b)' = State(b)
      BY <1>1 DEF BatchesIn, State
    <3> QED BY <1>1, <1>2, <2>1, <3>1, <3>2, <3>3, <3>4 DEF BuildClaim
  <2> QED BY <2>0, <2>2, <2>3
<1>6. OneBuilder'
  BY <1>1 DEF RInv, OneBuilder, Building
<1>7. CatalogStep
  BY <1>1, <1>2 DEF CatalogStep, CatalogSame, State
<1> QED BY <1>4, <1>5, <1>6, <1>7 DEF RInv

LEMMA InitKeeps == ASSUME Init PROVE RInv
<1>1. TInv
  BY InitType
<1>2. /\ \A a \in Archives : archive[a].state = "NONE" /\ archive[a].batch = NoBatch
      /\ \A b \in Batches : State(b) = "NONE" /\ segment[b] = NoDir
      /\ DOMAIN snapshot = {}
  BY DEF Init, State, EmptySnapshot
<1>3. \A p \in Programs : proc[p].pc = "down" /\ proc[p].task = "none"
  BY DEF Init, Resting, Starting
<1>4. GInv
  BY <1>2 DEF GInv, RowOK, FilesOK, OrderOK, SnapshotMatches
<1>5. \A p \in Programs : LockClaim(proc[p]) /\ BuildClaim(p, proc[p])
  BY <1>3 DEF LockClaim, BuildClaim
<1>6. OneBuilder
  BY <1>3 DEF OneBuilder, Building, BuildPcs, Programs
<1> QED BY <1>4, <1>5, <1>6 DEF RInv

-----------------------------------------------------------------------------
(* The theorems.                                                           *)

LEMMA NextKeeps ==
  ASSUME TInv, LInv, RInv, Orderly', [Next]_vars
  PROVE  RInv' /\ CatalogStep
<1>1. CASE InsertBegin \/ \E a \in Archives : InsertEnd(a)
  BY <1>1, InsertType, SameKeeps
<1>2. CASE ServerStart \/ Poll
  BY <1>2, ServerStartKeeps
<1>3. CASE AdminCommand
  BY <1>3, AdminCommandKeeps
<1>4. CASE \E p \in Programs : Step(p)
  BY <1>4, StepKeeps
<1>5. CASE \E p \in Programs : Crash(p)
  BY <1>5, CrashKeeps
<1>6. CASE \E b \in Batches : Damage(b)
  BY <1>6, DamageKeeps
<1>7. CASE UNCHANGED vars
  BY <1>7, StutterType, SameKeeps DEF vars, tables, indexTables
<1>8. CASE \E s \in late : ExecuteLate(s)
  BY <1>8, LateSpent
<1> QED BY <1>1, <1>2, <1>3, <1>4, <1>5, <1>6, <1>7, <1>8 DEF Next, ServerStep, Programs

\* What the two programs know of tables and directories, and what these say of
\* each other, stays true in every step of every program, across failed and
\* delayed statements, crashes and damaged files, with build-once beside the
\* Search Server and without, up to the first statement that is executed late
\* and the first time both programs build.
THEOREM TablesAndPrograms == Spec => [](Orderly => RInv)
<1>1. Init => RInv
  BY InitKeeps
<1>2. TInv /\ LInv /\ (Orderly => RInv) /\ [Next]_vars => (Orderly => RInv)'
  <2> SUFFICES ASSUME TInv, LInv, Orderly => RInv, [Next]_vars, Orderly' PROVE RInv'
    OBVIOUS
  <2>1. Orderly
    BY OrderlyBefore
  <2> QED BY <2>1, NextKeeps
<1> QED BY <1>1, <1>2, ShapeAndLock, PTL DEF Spec

LEMMA RowsFollow == ASSUME RInv PROVE TablesMatchFiles
<1>1. \A b \in Batches : FilesOK(b) /\ State(b) = batch[b].state
  BY DEF RInv, GInv, State
<1>2. \A b \in Batches : /\ In(b, "INDEXED") = {a \in ArchivesOf(b) : archive[a].state = "INDEXED"}
                         /\ In(b, "PARSED") = {a \in ArchivesOf(b) : archive[a].state = "PARSED"}
  BY DEF In, ArchivesOf
<1> QED BY <1>1, <1>2 DEF TablesMatchFiles, FilesOK, BatchesIn

\* RowsMatchFiles for any number of archives, batches, faults and crashes: up
\* to the first late statement or overlap, a READY batch has the segment its
\* digest names with exactly its INDEXED archives, a PARSED or BUILDING one its
\* parsed directory.
THEOREM RowsAlwaysMatchFiles == Spec => []RowsMatchFiles
<1>1. (Orderly => RInv) => RowsMatchFiles
  BY RowsFollow DEF RowsMatchFiles
<1> QED BY <1>1, TablesAndPrograms, PTL

\* SnapshotSound for any number of archives, batches, faults and crashes: up to
\* the first late statement or overlap, the Search Server never holds an archive
\* twice, nor a segment that was not published.
THEOREM SnapshotAlwaysSound == Spec => []SnapshotSound
<1>1. (Orderly => RInv) => SnapshotSound
  BY DEF RInv, GInv, SnapshotSound
<1> QED BY <1>1, TablesAndPrograms, PTL

-----------------------------------------------------------------------------
(* The READY batches as a catalog.                                         *)

Shown(b) == IF batch[b].state = "READY" THEN segment[b].archives ELSE {}
ShownCatalog == [b \in Batches |-> Shown(b)]
Failed == BatchesIn({"FAILED"})

LEMMA SameCatalog ==
  ASSUME CatalogSame
  PROVE  ShownCatalog' = ShownCatalog /\ Failed' = Failed
<1>1. \A b \in Batches : Shown(b)' = Shown(b)
  BY DEF CatalogSame, Shown, State
<1>2. \A b \in Batches : batch'[b].state = "FAILED" <=> batch[b].state = "FAILED"
  BY DEF CatalogSame, State
<1> QED BY <1>1, <1>2 DEF ShownCatalog, Failed, BatchesIn

LEMMA LeavesCatalog ==
  ASSUME NEW b \in Batches, BatchLeaves(b)
  PROVE  /\ b \notin Failed /\ Failed' = Failed \cup {b}
         /\ ShownCatalog' = [ShownCatalog EXCEPT ![b] = {}]
<1>1. Shown(b)' = {} /\ \A c \in Batches : c # b => Shown(c)' = Shown(c)
  BY DEF BatchLeaves, Shown
<1>2. b \notin Failed /\ Failed' = Failed \cup {b}
  BY DEF BatchLeaves, Failed, BatchesIn, State
<1>3. ShownCatalog' = [ShownCatalog EXCEPT ![b] = {}]
  BY <1>1 DEF ShownCatalog
<1> QED BY <1>2, <1>3

LEMMA EntersCatalog ==
  ASSUME TInv, GInv, GInv', NEW b \in Batches, BatchEnters(b)
  PROVE  LET s == segment[b].archives
         IN /\ ShownCatalog[b] = {} /\ b \notin Failed /\ Failed' = Failed
            /\ s # {} /\ s \subseteq Archives
            /\ \A c \in Batches : ShownCatalog[c] \cap s = {} /\ (ShownCatalog[c] # {} => c < b)
            /\ ShownCatalog' = [ShownCatalog EXCEPT ![b] = s]
<1>1. State(b) = "BUILDING" /\ State(b)' = "READY" /\ segment' = segment
      /\ \A c \in Batches : c # b => State(c)' = State(c)
  BY DEF BatchEnters, State
<1>2. /\ Shown(b) = {} /\ Shown(b)' = segment[b].archives
      /\ \A c \in Batches : c # b => Shown(c)' = Shown(c)
  BY DEF BatchEnters, Shown, State
<1>3. b \notin Failed /\ Failed' = Failed
  BY DEF BatchEnters, Failed, BatchesIn, State
<1>4. segment[b].archives # {} /\ segment[b].archives \subseteq Archives
  <2>1. segment[b] # NoDir
    BY <1>1 DEF GInv, FilesOK
  <2>2. segment[b].archives = parsed[b] /\ parsed[b] # {}
    BY <1>1, <2>1 DEF GInv, FilesOK
  <2> QED BY <2>2, TableFacts
<1>5. ASSUME NEW c \in Batches
      PROVE  Shown(c) \cap segment[b].archives = {} /\ (Shown(c) # {} => c < b)
  <2>1. CASE State(c) # "READY"
    BY <2>1 DEF Shown, State
  <2>2. CASE State(c) = "READY"
    <3>1. c # b /\ State(c)' = "READY"
      BY <1>1, <2>2
    <3>2. c < b
      BY <1>1, <2>2 DEF GInv, OrderOK
    <3>3. segment[b].archives = In(b, "INDEXED")' /\ segment[c].archives = In(c, "INDEXED")'
      BY <1>1, <3>1 DEF GInv, FilesOK
    <3>4. segment[b].archives \cap segment[c].archives = {}
      BY <3>1, <3>3 DEF In
    <3> QED BY <2>2, <3>2, <3>4 DEF Shown, State
  <2> QED BY <2>1, <2>2
<1>6. ShownCatalog' = [ShownCatalog EXCEPT ![b] = segment[b].archives]
  BY <1>2 DEF ShownCatalog
<1>7. ShownCatalog[b] = {} /\ \A c \in Batches : ShownCatalog[c] = Shown(c)
  BY <1>2 DEF ShownCatalog
<1> QED BY <1>3, <1>4, <1>5, <1>6, <1>7

LEMMA InitCatalog == ASSUME Init PROVE Catalog!CatalogInit
<1>1. \A b \in Batches : batch[b].state = "NONE"
  BY DEF Init
<1>2. [b \in Batches |-> IF batch[b].state = "READY" THEN segment[b].archives ELSE {}]
        = [b \in Batches |-> {}]
  BY <1>1
<1>3. BatchesIn({"FAILED"}) = {}
  BY <1>1 DEF BatchesIn
<1> QED BY <1>2, <1>3 DEF Catalog!CatalogInit

LEMMA StepCatalog ==
  ASSUME TInv, GInv, GInv', CatalogStep
  PROVE  [Catalog!CatalogNext]_(Catalog!cvars)
<1>1. CASE CatalogSame
  BY <1>1, SameCatalog DEF Catalog!cvars, ShownCatalog, Shown, Failed
<1>2. CASE \E b \in Batches : BatchLeaves(b)
  <2>1. PICK b \in Batches : BatchLeaves(b)
    BY <1>2
  <2>2. Catalog!Retire(b)
    BY <2>1, LeavesCatalog DEF Catalog!Retire, ShownCatalog, Shown, Failed
  <2> QED BY <2>2 DEF Catalog!CatalogNext
<1>3. CASE \E b \in Batches : BatchEnters(b)
  <2>1. PICK b \in Batches : BatchEnters(b)
    BY <1>3
  <2>2. PICK s : s = segment[b].archives
    OBVIOUS
  <2>3. Catalog!Publish(b, s) /\ s \in SUBSET Archives
    BY <2>1, <2>2, EntersCatalog DEF Catalog!Publish, ShownCatalog, Shown, Failed
  <2> QED BY <2>3 DEF Catalog!CatalogNext
<1> QED BY <1>1, <1>2, <1>3 DEF CatalogStep

\* ImplementsCatalog for any number of archives, batches, faults and crashes: up
\* to the first late statement or overlap, a batch enters the READY ones once,
\* above the others and with archives that none of them holds, and leaves them
\* for good.
THEOREM PipelineIsCatalog == Spec => ImplementsCatalog
<1>1. Init => Catalog!CatalogInit
  BY InitCatalog
<1>2. TInv /\ LInv /\ (Orderly => RInv) /\ (Orderly => RInv)' /\ [Next]_vars
        => [Orderly' => Catalog!CatalogNext]_(Catalog!cvars)
  <2> SUFFICES ASSUME TInv, LInv, Orderly => RInv, (Orderly => RInv)', [Next]_vars, Orderly'
               PROVE  [Catalog!CatalogNext]_(Catalog!cvars)
    OBVIOUS
  <2>1. RInv /\ RInv'
    BY OrderlyBefore
  <2>2. CatalogStep /\ GInv /\ GInv'
    BY <2>1, NextKeeps DEF RInv
  <2> QED BY <2>2, StepCatalog
<1> QED BY <1>1, <1>2, ShapeAndLock, TablesAndPrograms, PTL DEF Spec, ImplementsCatalog
=============================================================================
