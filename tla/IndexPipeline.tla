--------------------------- MODULE IndexPipeline ---------------------------
(***************************************************************************)
(* The indexing half of LogTrace: IncrementalIndexer (scan, recovery and   *)
(* rebuild), SegmentManager (build, recovery, snapshot), the tables        *)
(* index_batch and indexed_archive of IndexStateRepository, the source     *)
(* table archive_file of the other project, the parsed and segment         *)
(* directories, and the two programs that run this code: the Search Server *)
(* with its worker thread, and logtrace_admin.                             *)
(*                                                                         *)
(* Every SQL statement that writes, and every change of a directory, is a  *)
(* step.  A statement may fail, and one reported as failed may have been   *)
(* executed, or may be executed any time later, on the tables as they are  *)
(* by then: the client gives up after its watch timeout, MySQL does not.   *)
(* A process may crash between any two steps, or with a statement on its   *)
(* way: tables and directories stay, the flock is released, the snapshot   *)
(* is lost.                                                                *)
(* Statements that only read are folded into the step that uses the        *)
(* result, except where another process can act in between.                *)
(*                                                                         *)
(* A definition placed directly above another under a name that extends    *)
(* its name is a faulty variant of it, used only to show that a property   *)
(* notices the fault.                                                      *)
(***************************************************************************)
EXTENDS Naturals, FiniteSets

CONSTANTS
  Archives,        \* archive_id values, in the order MySQL allocates them
  Documents,       \* Documents[a]: how many documents archive a parses into
  Unparsable,      \* archives whose parse may fail (profile, path, format)
  SourceLimit,     \* indexing.source_batch_limit
  DocumentLimit,   \* indexing.document_batch_limit
  Batches,         \* batch_id values, in the order MySQL allocates them
  Inserts,         \* archive_file transactions that may be open at a time
  Commands,        \* commands the operator gives logtrace_admin
  MaxCommands,     \* bound: logtrace_admin invocations
  MaxFaults,       \* bound: failing statements, writes and builds
  MaxLate,         \* bound: statements executed after the program gave up
  MaxOverlaps,     \* bound: times a program starts to build beside the other
  MaxDamage,       \* bound: segments damaged on disk
  MaxCrashes,      \* bound: crashes
  MaxTroubles      \* bound: faults, late ones, overlaps, damage and crashes together

ASSUME ArchivesAssumption ==
  Archives \subseteq Nat \ {0} /\ IsFiniteSet(Archives) /\ Batches \subseteq Nat \ {0}
ASSUME DocumentsAssumption == Documents \in [Archives -> Nat \ {0}]
ASSUME LimitsAssumption ==
  /\ SourceLimit \in Nat \ {0} /\ DocumentLimit \in Nat \ {0} /\ Inserts \in Nat
  /\ MaxCommands \in Nat /\ MaxFaults \in Nat /\ MaxLate \in Nat /\ MaxOverlaps \in Nat
  /\ MaxDamage \in Nat /\ MaxCrashes \in Nat /\ MaxTroubles \in Nat
ASSUME CommandsAssumption ==
  /\ Unparsable \subseteq Archives
  /\ Commands \subseteq {"scan", "build", "rebuild"}

VARIABLES
  inserting,    \* archive_id values allocated by transactions still open
  source,       \* archive_file: committed rows
  burnt,        \* archive_id values whose transaction was rolled back
  archive,      \* indexed_archive: state and batch_id of each archive
  batch,        \* index_batch: state, segment_sha256 and the archives counted
  late,         \* statements given up on that MySQL may still execute
  parsed,       \* directory parsed/batch_<id>: the archives in it
  building,     \* directory segments/.building/segment_<id>
  segment,      \* directory segments/segment_<id>
  lock,         \* who holds the flock on .indexer.lock
  proc,         \* where each program is, with its local variables
  snapshot,     \* the Search Server's IndexSnapshot
  budget        \* what is left of the bounds on faults, crashes and commands

tables == <<archive, batch, late>>
dirs == <<parsed, building, segment>>
rows == <<inserting, source, burnt>>
vars == <<rows, tables, dirs, lock, proc, snapshot, budget>>

Programs == {"server", "admin"}
NoDir == [builder |-> "none", archives |-> {}, intact |-> TRUE]
NoBatch == 0
NoArchive == 0
EmptySnapshot == [b \in {} |-> {}]
Least(S) == CHOOSE x \in S : \A y \in S : x <= y
Greatest(S) == CHOOSE x \in S : \A y \in S : x >= y
UpTo(S, n) == {x \in S : Cardinality({y \in S : y < x}) < n}

\* The locals of a program at the start of an operation, and outside of one.
Starting(task, b, pc) == [pc |-> pc, task |-> task, b |-> b, ids |-> {}, todo |-> {},
                          good |-> {}, sha |-> "none", list |-> {}]
Resting(pc) == Starting("none", NoBatch, pc)

Init ==
  /\ inserting = {} /\ source = {} /\ burnt = {}
  /\ archive = [a \in Archives |-> [state |-> "NONE", batch |-> NoBatch]]
  /\ batch = [b \in Batches |-> [state |-> "NONE", sha |-> "none"]]
  /\ late = {}
  /\ parsed = [b \in Batches |-> {}]
  /\ building = [b \in Batches |-> NoDir]
  /\ segment = [b \in Batches |-> NoDir]
  /\ lock = "free"
  /\ proc = [p \in Programs |-> Resting("down")]
  /\ snapshot = EmptySnapshot
  /\ budget = [faults |-> MaxFaults, late |-> MaxLate, overlaps |-> MaxOverlaps,
               damage |-> MaxDamage, crashes |-> MaxCrashes, troubles |-> MaxTroubles,
               commands |-> MaxCommands]

-----------------------------------------------------------------------------
(* archive_file, written by the upload server of the other project.        *)

Allocated == inserting \cup source \cup burnt

InsertBegin ==
  /\ Archives \ Allocated # {} /\ Cardinality(inserting) < Inserts
  /\ inserting' = inserting \cup {Least(Archives \ Allocated)}
  /\ UNCHANGED <<source, burnt, tables, dirs, lock, proc, snapshot, budget>>

InsertEnd(a) ==
  /\ a \in inserting
  /\ inserting' = inserting \ {a}
  /\ \/ source' = source \cup {a} /\ UNCHANGED burnt
     \/ burnt' = burnt \cup {a} /\ UNCHANGED source
  /\ UNCHANGED <<tables, dirs, lock, proc, snapshot, budget>>

-----------------------------------------------------------------------------
(* How a program proceeds, fails and releases the lock.                    *)

\* The program takes the next step with its locals in m.
Moves(p, m) == proc' = [proc EXCEPT ![p] = m]
Goto(p, pc) == [proc[p] EXCEPT !.pc = pc]

\* What an exception leads to: the worker logs it and waits for its next
\* round, a starting server and the admin program exit.
Thrown(p) == Resting(IF proc[p].task = "poll" THEN "idle" ELSE "down")
Unlocked(p) == IF lock = p THEN "free" ELSE lock
Throw(p) == Moves(p, Thrown(p)) /\ lock' = Unlocked(p)

Spend(kinds) ==
  /\ \A k \in kinds : budget[k] > 0
  /\ budget' = [k \in DOMAIN budget |-> IF k \in kinds THEN budget[k] - 1 ELSE budget[k]]
Fault == Spend({"faults", "troubles"})

\* Inside SegmentManager: no lock is held there, two programs may be at once.
BuildPcs == {"cleanup", "interrupted", "inspect", "reset", "republish", "discard", "discarded",
             "list", "load", "pick", "claim", "read", "prepare", "store", "rename", "publish",
             "abandon", "abandoned"}
Building(p) == proc[p].pc \in BuildPcs
Overlap(p) == IF \E q \in Programs \ {p} : Building(q) THEN {"overlaps", "troubles"} ELSE {}

-----------------------------------------------------------------------------
(* The statements that write, and what each does to the tables.            *)

ArchivesOf(b) == {a \in Archives : archive[a].batch = b}
\* The queries of the repository that list batches by their state.
BatchesIn(states) == {b \in Batches : batch[b].state \in states}
Unused == BatchesIn({"NONE"})
ArchiveStates(S, state) ==
  [a \in Archives |-> IF a \in S THEN [state |-> state, batch |-> archive[a].batch] ELSE archive[a]]
BatchState(b, state) == [batch EXCEPT ![b] = [state |-> state, sha |-> "none"]]

\* createBatch takes the next id when it is executed.
Created == IF Unused = {} THEN batch ELSE BatchState(Least(Unused), "PARSING")
\* attachArchive: an upsert.
Attached(a, b) == [archive EXCEPT ![a] = [state |-> "PENDING", batch |-> b]]
\* markArchiveParsed and markArchiveFailed.
MarkedArchive(a, ok) == ArchiveStates({a}, IF ok THEN "PARSED" ELSE "FAILED")
\* markBatchParsed and markBatchFailed.
MarkedBatch(b, ok) == BatchState(b, IF ok THEN "PARSED" ELSE "FAILED")
\* recoverInterruptedBatches and requestRebuild, the archives of a batch.
InterruptedArchives(b) == ArchiveStates(ArchivesOf(b), "FAILED")
Requeued(b) == ArchiveStates(ArchivesOf(b), "PENDING")

\* markBatchBuilding, resetBuildingBatch, markSegmentBuildFailed.
Claimed(b) == IF batch[b].state = "PARSED" THEN BatchState(b, "BUILDING") ELSE batch
ResetBuilding(b) == IF batch[b].state = "BUILDING" THEN BatchState(b, "PARSED") ELSE batch
BuildFailed(b) == IF batch[b].state \in {"PARSED", "BUILDING"} THEN BatchState(b, "FAILED")
                                                               ELSE batch
\* publishBatchReady: READY and its archives INDEXED in one statement.
Publishable(b) == batch[b].state = "BUILDING" /\ ArchivesOf(b) # {}
ReadyArchives(b) == ArchiveStates({a \in ArchivesOf(b) : archive[a].state = "PARSED"}, "INDEXED")
ReadyBatch(b, sha) == [batch EXCEPT ![b] = [state |-> "READY", sha |-> sha]]

Sql(do, b, a, sha) == [do |-> do, b |-> b, a |-> a, sha |-> sha]
OnBatch(do, b) == Sql(do, b, NoArchive, "none")
OnArchive(do, b, a) == Sql(do, b, a, "none")
NoSql == OnBatch("none", NoBatch)

NewArchive(s) ==
  CASE s.do = "attach" -> Attached(s.a, s.b)
    [] s.do = "archiveParsed" -> MarkedArchive(s.a, TRUE)
    [] s.do = "archiveFailed" -> MarkedArchive(s.a, FALSE)
    [] s.do = "interrupt" -> InterruptedArchives(s.b)
    [] s.do = "requeue" -> Requeued(s.b)
    [] s.do = "ready" /\ Publishable(s.b) -> ReadyArchives(s.b)
    [] OTHER -> archive
NewBatch(s) ==
  CASE s.do = "create" -> Created
    [] s.do = "batchParsed" -> MarkedBatch(s.b, TRUE)
    [] s.do = "batchFailed" -> MarkedBatch(s.b, FALSE)
    [] s.do = "claim" -> Claimed(s.b)
    [] s.do = "reset" -> ResetBuilding(s.b)
    [] s.do = "buildFailed" -> BuildFailed(s.b)
    [] s.do = "ready" /\ Publishable(s.b) -> ReadyBatch(s.b, s.sha)
    [] OTHER -> batch

\* The statement a program sends at the point where it is.
Sent(p) ==
  LET m == proc[p]
      first == Least(m.todo)
  IN CASE m.pc = "recoverArchives" /\ m.todo # {} -> OnBatch("interrupt", first)
       [] m.pc = "recoverBatch" -> OnBatch("batchFailed", first)
       [] m.pc = "create" -> OnBatch("create", NoBatch)
       [] m.pc = "attach" /\ m.todo # {} -> OnArchive("attach", m.b, first)
       [] m.pc = "mark" /\ m.todo # {} ->
            OnArchive(IF first \in m.good THEN "archiveParsed" ELSE "archiveFailed", m.b, first)
       [] m.pc = "mark" /\ m.todo = {} ->
            OnBatch(IF m.good # {} THEN "batchParsed" ELSE "batchFailed", m.b)
       [] m.pc = "unwritten" /\ m.todo # {} -> OnArchive("archiveFailed", m.b, first)
       [] m.pc = "unwritten" /\ m.todo = {} -> OnBatch("batchFailed", m.b)
       [] m.pc = "retract" -> OnBatch("batchFailed", m.b)
       [] m.pc = "requeue" -> OnBatch("requeue", m.b)
       [] m.pc = "reset" -> OnBatch("reset", first)
       [] m.pc = "republish" -> Sql("ready", first, NoArchive, m.sha)
       [] m.pc = "discarded" -> OnBatch("buildFailed", first)
       [] m.pc = "claim" -> OnBatch("claim", m.b)
       [] m.pc = "publish" -> Sql("ready", m.b, NoArchive, p)
       [] m.pc = "abandoned" -> OnBatch("buildFailed", m.b)
       [] OTHER -> NoSql

Executed(s) == archive' = NewArchive(s) /\ batch' = NewBatch(s) /\ UNCHANGED late

\* The program gives up on a statement without knowing what became of it: it
\* was executed, it never will be, or it waits to be executed.
Delayed(s) ==
  /\ UNCHANGED <<archive, batch>>
  /\ \/ UNCHANGED late
     \/ s # NoSql /\ Cardinality(late) < budget.late /\ late' = late \cup {s}
GivenUp(s) == Executed(s) \/ Delayed(s)

\* executeUpdate: the program goes on with next when the statement it sent is
\* reported as executed.
Statement(p, s, next) ==
  \/ Executed(s) /\ Moves(p, next) /\ UNCHANGED <<lock, budget>>
  \/ GivenUp(s) /\ Fault /\ Throw(p)

\* executeChangedUpdate: a statement that changes no row counts as failed.
ChangingStatement(p, s, next) ==
  \/ NewBatch(s) # batch /\ Statement(p, s, next)
  \/ NewBatch(s) = batch /\ Throw(p) /\ UNCHANGED <<tables, budget>>
  \/ NewBatch(s) = batch /\ Throw(p) /\ Fault /\ Delayed(s)

\* MySQL executes a statement whose program has long given up on it.
ExecuteLate(s) ==
  /\ s \in late /\ Spend({"late", "troubles"})
  /\ archive' = NewArchive(s) /\ batch' = NewBatch(s) /\ late' = late \ {s}
  /\ UNCHANGED <<rows, dirs, lock, proc, snapshot>>

-----------------------------------------------------------------------------
(* Starting an operation.                                                  *)

Enter(p, task, pc) == Moves(p, Starting(task, NoBatch, pc))

\* IndexOperationLock: a lock held by the other program is an exception.
Acquire(p, task, pc) ==
  \/ lock = "free" /\ lock' = p /\ Enter(p, task, pc)
  \/ lock # "free" /\ UNCHANGED lock
     /\ Moves(p, Resting(IF task = "poll" THEN "idle" ELSE "down"))

\* LogSearchServer::initialize: recover under the lock, then load the segments.
ServerStart ==
  /\ proc["server"].pc = "down"
  /\ Acquire("server", "start", "recover")
  /\ UNCHANGED <<rows, tables, dirs, snapshot, budget>>

\* IndexWorker::run: one round after each poll interval.
Poll ==
  /\ proc["server"].pc = "idle"
  /\ Acquire("server", "poll", "recover")
  /\ UNCHANGED <<rows, tables, dirs, snapshot, budget>>

AdminCommand ==
  /\ proc["admin"].pc = "down"
  /\ \/ "scan" \in Commands /\ Spend({"commands"}) /\ Acquire("admin", "scan", "recover")
     \/ /\ "rebuild" \in Commands /\ Spend({"commands"})
        /\ \E a \in Archives :
             \/ archive[a].batch # NoBatch /\ lock = "free" /\ lock' = "admin"
                /\ Moves("admin", Starting("rebuild", archive[a].batch, "retract"))
             \/ (archive[a].batch = NoBatch \/ lock # "free") /\ UNCHANGED <<lock, proc>>
     \/ /\ "build" \in Commands /\ Spend({"commands"} \cup Overlap("admin"))
        /\ Enter("admin", "reload", "cleanup") /\ UNCHANGED lock
  /\ UNCHANGED <<rows, tables, dirs, snapshot>>

-----------------------------------------------------------------------------
(* IncrementalIndexer::recoverUnlocked.                                    *)

RecoverList(p) ==
  /\ proc[p].pc = "recover"
  /\ LET found == BatchesIn({"PARSING"})
     IN Moves(p, [proc[p] EXCEPT !.ids = found, !.todo = found, !.pc = "recoverArchives"])
  /\ UNCHANGED <<rows, tables, dirs, lock, snapshot, budget>>

RecoverArchives(p) ==
  /\ proc[p].pc = "recoverArchives" /\ proc[p].todo # {}
  /\ Statement(p, Sent(p), Goto(p, "recoverBatch"))
  /\ UNCHANGED <<rows, dirs, snapshot>>

RecoverBatch(p) ==
  /\ proc[p].pc = "recoverBatch"
  /\ Statement(p, Sent(p), [proc[p] EXCEPT !.todo = @ \ {Least(@)}, !.pc = "recoverArchives"])
  /\ UNCHANGED <<rows, dirs, snapshot>>

\* The interrupted batches are failed: remove their parsed directories.  At
\* start-up the lock is then released, a scan keeps it.
RecoverFiles(p) ==
  /\ proc[p].pc = "recoverArchives" /\ proc[p].todo = {}
  /\ parsed' = [b \in Batches |-> IF b \in proc[p].ids THEN {} ELSE parsed[b]]
  /\ IF proc[p].task = "start"
       THEN Moves(p, Goto(p, "cleanup")) /\ lock' = "free" /\ Spend(Overlap(p))
       ELSE Moves(p, Goto(p, "select")) /\ UNCHANGED <<lock, budget>>
  /\ UNCHANGED <<rows, tables, building, segment, snapshot>>

-----------------------------------------------------------------------------
(* IncrementalIndexer::scanOnce.                                           *)

ListPending == {a \in Archives : archive[a].state = "PENDING"}
MaxObserved == LET seen == {a \in Archives : archive[a].state # "NONE"}
               IN IF seen = {} THEN 0 ELSE Greatest(seen)
ListAfter(n) == {a \in source : a > n}

\* The archives a scan looks at: those waiting for another attempt or, if
\* there are none, those above the highest id seen.
Selected == IF ListPending # {} THEN UpTo(ListPending, SourceLimit)
                                ELSE UpTo(ListAfter(MaxObserved), SourceLimit)

\* Documents in a set of archives.
Total[S \in SUBSET Archives] ==
  IF S = {} THEN 0 ELSE LET a == Least(S) IN Documents[a] + Total[S \ {a}]

\* The outcomes of a scan of S whose parses in bad fail: archives in order of
\* their id up to the first that parses but does not fit any more.
Parses(bad, a) == a \notin bad /\ Documents[a] <= DocumentLimit
Fits(S, bad, a) ==
  LET before == {c \in S : c < a}
  IN \/ before = {} \/ ~Parses(bad, a)
     \/ Total[{c \in before : Parses(bad, c)}] + Documents[a] <= DocumentLimit
Outcomes(S, bad) == {a \in S : \A c \in S : c <= a => Fits(S, bad, c)}

\* The end of a scan: the lock is released; the worker goes on to buildNext.
Scanned(p) ==
  /\ lock' = "free"
  /\ IF proc[p].task = "poll"
       THEN Moves(p, Starting("poll", NoBatch, "interrupted")) /\ Spend(Overlap(p))
       ELSE Moves(p, Resting("down")) /\ UNCHANGED budget

Select(p) ==
  /\ proc[p].pc = "select"
  /\ \/ Selected = {} /\ Scanned(p)
     \/ /\ Selected # {} /\ UNCHANGED <<lock, budget>>
        /\ \E bad \in SUBSET (Selected \cap Unparsable) :
             LET taken == Outcomes(Selected, bad)
             IN Moves(p, [proc[p] EXCEPT !.ids = taken, !.todo = taken, !.pc = "create",
                                         !.good = {a \in taken : Parses(bad, a)}])
  /\ UNCHANGED <<rows, tables, dirs, snapshot>>

CreateBatch(p) ==
  /\ proc[p].pc = "create" /\ Unused # {}
  /\ Statement(p, Sent(p), [proc[p] EXCEPT !.b = Least(Unused), !.pc = "attach"])
  /\ UNCHANGED <<rows, dirs, snapshot>>

AttachArchiveBackwards(p) ==
  /\ proc[p].pc = "attach" /\ proc[p].todo # {}
  /\ LET a == Greatest(proc[p].todo)
     IN Statement(p, OnArchive("attach", proc[p].b, a), [proc[p] EXCEPT !.todo = @ \ {a}])
  /\ UNCHANGED <<rows, dirs, snapshot>>

AttachArchive(p) ==
  /\ proc[p].pc = "attach" /\ proc[p].todo # {}
  /\ Statement(p, Sent(p), [proc[p] EXCEPT !.todo = @ \ {Least(@)}])
  /\ UNCHANGED <<rows, dirs, snapshot>>

\* ParsedBatchWriter::write: the directory appears whole or not at all.  When
\* it cannot be written the whole batch is marked failed.
WriteParsed(p) ==
  /\ proc[p].pc = "attach" /\ proc[p].todo = {}
  /\ \/ /\ proc[p].good # {}
        /\ parsed' = [parsed EXCEPT ![proc[p].b] = proc[p].good]
        /\ Moves(p, [proc[p] EXCEPT !.todo = proc[p].ids, !.pc = "mark"])
        /\ UNCHANGED budget
     \/ /\ \/ proc[p].good = {} /\ UNCHANGED budget
           \/ proc[p].good # {} /\ Fault
        /\ Moves(p, [proc[p] EXCEPT !.todo = proc[p].ids, !.good = {},
                                    !.pc = IF proc[p].good = {} THEN "mark" ELSE "unwritten"])
        /\ UNCHANGED parsed
  /\ UNCHANGED <<rows, tables, building, segment, lock, snapshot>>

MarkArchive(p) ==
  /\ proc[p].pc = "mark" /\ proc[p].todo # {}
  /\ Statement(p, Sent(p), [proc[p] EXCEPT !.todo = @ \ {Least(@)}])
  /\ UNCHANGED <<rows, dirs, snapshot>>

FinishScan(p) ==
  /\ proc[p].pc = "mark" /\ proc[p].todo = {}
  /\ \/ Executed(Sent(p)) /\ Scanned(p)
     \/ GivenUp(Sent(p)) /\ Fault /\ Throw(p)
  /\ UNCHANGED <<rows, dirs, snapshot>>

\* After a failed write every archive and then the batch is marked failed; a
\* statement that fails here is noted and the rest still attempted, then the
\* exception goes on.
MarkUnwritten(p) ==
  /\ proc[p].pc = "unwritten"
  /\ \/ Executed(Sent(p)) /\ UNCHANGED budget
     \/ GivenUp(Sent(p)) /\ Fault
  /\ IF proc[p].todo = {} THEN Throw(p)
     ELSE UNCHANGED lock /\ Moves(p, [proc[p] EXCEPT !.todo = @ \ {Least(@)}])
  /\ UNCHANGED <<rows, dirs, snapshot>>

-----------------------------------------------------------------------------
(* IncrementalIndexer::requestRebuild: two statements, then the removal of *)
(* the parsed and of the segment directories.                              *)

RetractBatchErasing(p) ==
  /\ proc[p].pc = "retract"
  /\ Statement(p, Sent(p), Goto(p, "requeue"))
  /\ segment' = [segment EXCEPT ![proc[p].b] = NoDir]
  /\ UNCHANGED <<rows, parsed, building, snapshot>>

RetractBatch(p) ==
  /\ proc[p].pc = "retract"
  /\ Statement(p, Sent(p), Goto(p, "requeue"))
  /\ UNCHANGED <<rows, dirs, snapshot>>

RequeueArchives(p) ==
  /\ proc[p].pc = "requeue"
  /\ Statement(p, Sent(p), Goto(p, "erase"))
  /\ UNCHANGED <<rows, dirs, snapshot>>

EraseBatch(p) ==
  /\ proc[p].pc = "erase"
  /\ parsed' = [parsed EXCEPT ![proc[p].b] = {}]
  /\ building' = [building EXCEPT ![proc[p].b] = NoDir]
  /\ segment' = [segment EXCEPT ![proc[p].b] = NoDir]
  /\ Throw(p)
  /\ UNCHANGED <<rows, tables, snapshot, budget>>

-----------------------------------------------------------------------------
(* SegmentManager::recoverBuildingBatches.                                 *)

ListBuilding(p) ==
  /\ proc[p].pc = "interrupted"
  /\ Moves(p, [proc[p] EXCEPT !.todo = BatchesIn({"BUILDING"}), !.pc = "inspect"])
  /\ UNCHANGED <<rows, tables, dirs, lock, snapshot, budget>>

\* publishedExists and loadUnpublished tell what becomes of the next batch.  A
\* segment that cannot be read counts as damaged.
InspectBatch(p) ==
  /\ proc[p].pc = "inspect" /\ proc[p].todo # {}
  /\ LET b == Least(proc[p].todo)
         found(pc) == Moves(p, [proc[p] EXCEPT !.sha = segment[b].builder, !.pc = pc])
     IN \/ segment[b] = NoDir /\ found("reset") /\ UNCHANGED budget
        \/ segment[b] # NoDir /\ segment[b].intact /\ found("republish") /\ UNCHANGED budget
        \/ segment[b] # NoDir /\ ~segment[b].intact /\ found("discard") /\ UNCHANGED budget
        \/ segment[b] # NoDir /\ segment[b].intact /\ found("discard") /\ Fault
  /\ UNCHANGED <<rows, tables, dirs, lock, snapshot>>

Handled(p) == [proc[p] EXCEPT !.todo = @ \ {Least(proc[p].todo)}, !.pc = "inspect"]

ResetBatchSkipped(p) ==
  /\ proc[p].pc = "reset" /\ Moves(p, Handled(p))
  /\ UNCHANGED <<rows, tables, dirs, lock, snapshot, budget>>

ResetBatch(p) ==
  /\ proc[p].pc = "reset"
  /\ ChangingStatement(p, Sent(p), Handled(p))
  /\ UNCHANGED <<rows, dirs, snapshot>>

Republish(p) ==
  /\ proc[p].pc = "republish"
  /\ ChangingStatement(p, Sent(p), Handled(p))
  /\ UNCHANGED <<rows, dirs, snapshot>>

\* A damaged directory is removed, then the batch marked failed.
DiscardFiles(p) ==
  /\ proc[p].pc = "discard"
  /\ LET b == Least(proc[p].todo)
     IN /\ building' = [building EXCEPT ![b] = NoDir]
        /\ segment' = [segment EXCEPT ![b] = NoDir]
  /\ Moves(p, Goto(p, "discarded"))
  /\ UNCHANGED <<rows, tables, parsed, lock, snapshot, budget>>

DiscardBatch(p) ==
  /\ proc[p].pc = "discarded"
  /\ ChangingStatement(p, Sent(p), Handled(p))
  /\ UNCHANGED <<rows, dirs, snapshot>>

-----------------------------------------------------------------------------
(* SegmentManager::recoverAndLoad and refreshSnapshot.                     *)

CleanupBuilding(p) ==
  /\ proc[p].pc = "cleanup"
  /\ building' = [b \in Batches |-> NoDir]
  /\ Moves(p, Goto(p, "interrupted"))
  /\ UNCHANGED <<rows, tables, parsed, segment, lock, snapshot, budget>>

\* After the recovery: recoverAndLoad refreshes, buildNext picks a batch.
Recovered(p) ==
  /\ proc[p].pc = "inspect" /\ proc[p].todo = {}
  /\ Moves(p, Goto(p, IF proc[p].task \in {"start", "reload"} THEN "list" ELSE "pick"))
  /\ UNCHANGED <<rows, tables, dirs, lock, snapshot, budget>>

ListReady(p) ==
  /\ proc[p].pc = "list"
  /\ Moves(p, [proc[p] EXCEPT !.pc = "load", !.list =
                {[b |-> b, sha |-> batch[b].sha] : b \in BatchesIn({"READY"})}])
  /\ UNCHANGED <<rows, tables, dirs, lock, snapshot, budget>>

\* SegmentStore::load checks each directory against the digest in the table.
Loads(r) == segment[r.b] # NoDir /\ segment[r.b].builder = r.sha /\ segment[r.b].intact

LoadedOrphans(p) == [b \in {c \in Batches : segment[c] # NoDir} |-> segment[b].archives]
Loaded(p) == [b \in {r.b : r \in proc[p].list} |-> segment[b].archives]
Version(snap) == IF DOMAIN snap = {} THEN 0 ELSE Greatest(DOMAIN snap)

\* The Search Server replaces its snapshot; build-once has one of its own that
\* dies with it, and goes on to buildNext after its first load.
LoadSnapshot(p) ==
  /\ proc[p].pc = "load"
  /\ IF \A r \in proc[p].list : Loads(r)
       THEN /\ snapshot' = IF p = "server" THEN Loaded(p) ELSE snapshot
            /\ CASE proc[p].task = "reload" -> Enter(p, "build", "interrupted")
                 [] proc[p].task = "build" -> Moves(p, Resting("down"))
                 [] OTHER -> Moves(p, Resting("idle"))
            /\ UNCHANGED lock
       ELSE Throw(p) /\ UNCHANGED snapshot
  /\ UNCHANGED <<rows, tables, dirs, budget>>

-----------------------------------------------------------------------------
(* SegmentManager::buildNext and SegmentStore::build.                      *)

PickBatchNewest(p) ==
  /\ proc[p].pc = "pick"
  /\ LET waiting == BatchesIn({"PARSED"})
     IN \/ /\ waiting # {} /\ UNCHANGED lock
           /\ Moves(p, [proc[p] EXCEPT !.b = Greatest(waiting), !.pc = "claim"])
        \/ waiting = {} /\ Throw(p)
  /\ UNCHANGED <<rows, tables, dirs, snapshot, budget>>

PickBatch(p) ==
  /\ proc[p].pc = "pick"
  /\ LET waiting == BatchesIn({"PARSED"})
     IN \/ /\ waiting # {} /\ UNCHANGED lock
           /\ Moves(p, [proc[p] EXCEPT !.b = Least(waiting), !.pc = "claim"])
        \/ waiting = {} /\ Throw(p)
  /\ UNCHANGED <<rows, tables, dirs, snapshot, budget>>

ClaimBatch(p) ==
  /\ proc[p].pc = "claim"
  /\ ChangingStatement(p, Sent(p), Goto(p, "read"))
  /\ UNCHANGED <<rows, dirs, snapshot>>

\* ParsedBatchReader::load and the in-memory part of SegmentStore::build.
ReadParsed(p) ==
  /\ proc[p].pc = "read"
  /\ \/ /\ parsed[proc[p].b] # {} /\ UNCHANGED budget
        /\ Moves(p, [proc[p] EXCEPT !.good = parsed[proc[p].b], !.pc = "prepare"])
     \/ parsed[proc[p].b] = {} /\ UNCHANGED budget /\ Moves(p, Goto(p, "abandon"))
     \/ Fault /\ Moves(p, Goto(p, "abandon"))
  /\ UNCHANGED <<rows, tables, dirs, lock, snapshot>>

PrepareDirectory(p) ==
  /\ proc[p].pc = "prepare"
  /\ segment' = [segment EXCEPT ![proc[p].b] = NoDir]
  /\ \/ /\ building' = [building EXCEPT ![proc[p].b] =
                          [builder |-> p, archives |-> proc[p].good, intact |-> FALSE]]
        /\ Moves(p, Goto(p, "store")) /\ UNCHANGED budget
     \/ /\ building' = [building EXCEPT ![proc[p].b] = NoDir]
        /\ Moves(p, Goto(p, "abandon")) /\ Fault
  /\ UNCHANGED <<rows, tables, parsed, lock, snapshot>>

\* The five files, written with O_EXCL and read back.  They fit only into the
\* directory this build has created; any failure removes the directory.
StoreFiles(p) ==
  /\ proc[p].pc = "store"
  /\ LET b == proc[p].b
     IN \/ /\ building[b].builder = p /\ UNCHANGED budget
           /\ building' = [building EXCEPT ![b] = [building[b] EXCEPT !.intact = TRUE]]
           /\ Moves(p, Goto(p, "rename"))
        \/ /\ building[b].builder # p /\ UNCHANGED budget
           /\ building' = [building EXCEPT ![b] = NoDir]
           /\ Moves(p, Goto(p, "abandon"))
        \/ /\ Fault
           /\ building' = [building EXCEPT ![b] = NoDir]
           /\ Moves(p, Goto(p, "abandon"))
  /\ UNCHANGED <<rows, tables, parsed, segment, lock, snapshot>>

\* rename() fails on a missing source and on a target that is not empty.
RenameDirectory(p) ==
  /\ proc[p].pc = "rename"
  /\ LET b == proc[p].b
     IN /\ IF building[b] # NoDir /\ segment[b] = NoDir
             THEN segment' = [segment EXCEPT ![b] = building[b]] /\ Moves(p, Goto(p, "publish"))
             ELSE UNCHANGED segment /\ Moves(p, Goto(p, "abandon"))
        /\ building' = [building EXCEPT ![b] = NoDir]
  /\ UNCHANGED <<rows, tables, parsed, lock, snapshot, budget>>

PublishBatchNoRefresh(p) ==
  /\ proc[p].pc = "publish"
  /\ ChangingStatement(p, Sent(p), Thrown(p))
  /\ UNCHANGED <<rows, dirs, snapshot>>

PublishBatch(p) ==
  /\ proc[p].pc = "publish"
  /\ ChangingStatement(p, Sent(p), Goto(p, "list"))
  /\ UNCHANGED <<rows, dirs, snapshot>>

\* A build that failed before its rename removes what there is of the segment
\* and marks the batch failed.
AbandonFiles(p) ==
  /\ proc[p].pc = "abandon"
  /\ building' = [building EXCEPT ![proc[p].b] = NoDir]
  /\ segment' = [segment EXCEPT ![proc[p].b] = NoDir]
  /\ Moves(p, Goto(p, "abandoned"))
  /\ UNCHANGED <<rows, tables, parsed, lock, snapshot, budget>>

AbandonBatch(p) ==
  /\ proc[p].pc = "abandoned"
  /\ ChangingStatement(p, Sent(p), Thrown(p))
  /\ UNCHANGED <<rows, dirs, snapshot>>

-----------------------------------------------------------------------------
(* Failing queries and file operations, crashes and damage.                *)

\* A query, or the removal or reading of files, fails where that leads to an
\* exception and to nothing else.
IoFails(p) ==
  /\ \/ proc[p].pc \in {"recover", "select", "interrupted", "cleanup", "list", "load", "pick",
                        "discard", "abandon", "erase"}
     \/ proc[p].pc = "recoverArchives" /\ proc[p].todo = {}
  /\ Fault /\ Throw(p)
  /\ UNCHANGED <<rows, tables, dirs, snapshot>>

Crash(p) ==
  /\ proc[p].pc # "down" /\ Spend({"crashes", "troubles"})
  /\ Moves(p, Resting("down")) /\ lock' = Unlocked(p) /\ Delayed(Sent(p))
  /\ snapshot' = IF p = "server" THEN EmptySnapshot ELSE snapshot
  /\ UNCHANGED <<rows, dirs>>

\* A file of a segment no longer has the bytes that were written.
Damage(b) ==
  /\ segment[b] # NoDir /\ segment[b].intact /\ Spend({"damage", "troubles"})
  /\ segment' = [segment EXCEPT ![b] = [segment[b] EXCEPT !.intact = FALSE]]
  /\ UNCHANGED <<rows, tables, parsed, building, lock, proc, snapshot>>

-----------------------------------------------------------------------------

Step(p) ==
  \/ RecoverList(p) \/ RecoverArchives(p) \/ RecoverBatch(p) \/ RecoverFiles(p)
  \/ Select(p) \/ CreateBatch(p) \/ AttachArchive(p) \/ WriteParsed(p)
  \/ MarkArchive(p) \/ FinishScan(p) \/ MarkUnwritten(p)
  \/ RetractBatch(p) \/ RequeueArchives(p) \/ EraseBatch(p)
  \/ ListBuilding(p) \/ InspectBatch(p) \/ ResetBatch(p) \/ Republish(p)
  \/ DiscardFiles(p) \/ DiscardBatch(p) \/ CleanupBuilding(p) \/ Recovered(p)
  \/ ListReady(p) \/ LoadSnapshot(p)
  \/ PickBatch(p) \/ ClaimBatch(p) \/ ReadParsed(p) \/ PrepareDirectory(p)
  \/ StoreFiles(p) \/ RenameDirectory(p) \/ PublishBatch(p)
  \/ AbandonFiles(p) \/ AbandonBatch(p) \/ IoFails(p)

ServerStep == ServerStart \/ Poll \/ Step("server")

Next ==
  \/ InsertBegin \/ \E a \in Archives : InsertEnd(a)
  \/ ServerStep \/ AdminCommand \/ Step("admin")
  \/ \E s \in late : ExecuteLate(s)
  \/ \E p \in Programs : Crash(p)
  \/ \E b \in Batches : Damage(b)

Spec == Init /\ [][Next]_vars

\* A started program goes on, a stopped server is started again, a transaction
\* ends.  Nothing is assumed of the operator, of faults, of crashes and of
\* statements that are late.
Fairness ==
  /\ WF_vars(ServerStep) /\ WF_vars(Step("admin"))
  /\ \A a \in Archives : WF_vars(InsertEnd(a))

-----------------------------------------------------------------------------
(* Properties.                                                             *)

\* What the first properties are about: no statement has been executed after
\* its program gave up on it, and never did one program start to build while
\* the other was building.  Nothing in the code prevents either: the UPDATEs of
\* an archive and of a parsed batch carry no condition on the state, and
\* SegmentManager takes no lock.
Orderly == budget.late = MaxLate /\ budget.overlaps = MaxOverlaps

\* The tables describe the files.  A READY batch has its segment: the directory
\* is there, it is the one whose manifest digest the table records, and it holds
\* exactly the archives the table calls INDEXED in this batch.  A batch that
\* waits for its segment or is being built has its parsed directory, with
\* exactly the archives the table calls PARSED.  That the flock keeps the worker
\* of the Search Server and logtrace_admin from publishing segments at the same
\* time is what the documentation says; build-once does not take it.
TablesMatchFiles ==
  /\ \A b \in BatchesIn({"READY"}) :
       /\ segment[b] # NoDir /\ segment[b].builder = batch[b].sha
       /\ segment[b].archives = {a \in ArchivesOf(b) : archive[a].state = "INDEXED"}
  /\ \A b \in BatchesIn({"PARSED", "BUILDING"}) :
       parsed[b] # {} /\ parsed[b] = {a \in ArchivesOf(b) : archive[a].state = "PARSED"}

\* The tables describe the files at every moment between any two statements,
\* removals and renames of both programs, until a late statement is executed or
\* both programs build at once.
RowsMatchFiles == Orderly => TablesMatchFiles

\* No scan passes over a committed archive: whatever lies below the highest
\* archive id seen has been seen, whatever failed, was late or ran at once.
NothingSkipped == \A a \in source : a <= MaxObserved => archive[a].state # "NONE"

\* The snapshot of the Search Server holds no archive twice, and only segments
\* that were published: batches that are READY with this content, or that were
\* withdrawn by a rebuild after they had been loaded.
SnapshotMatches ==
  \A b \in DOMAIN snapshot :
    /\ \/ batch[b].state = "READY" /\ snapshot[b] = segment[b].archives
       \/ batch[b].state = "FAILED"
    /\ \A c \in DOMAIN snapshot : b # c => snapshot[b] \cap snapshot[c] = {}

\* That is so until a late statement is executed (a late attachArchive puts an
\* archive into two READY batches) or both programs build at once.
SnapshotSound == Orderly => SnapshotMatches

\* The READY batches are a catalog in the sense of IndexCatalog: every step up
\* to the first late statement or overlap publishes, withdraws or leaves it.
Catalog == INSTANCE IndexCatalog WITH
  catalog <- [b \in Batches |-> IF batch[b].state = "READY" THEN segment[b].archives ELSE {}],
  retired <- BatchesIn({"FAILED"})
ImplementsCatalog ==
  Catalog!CatalogInit /\ [][Orderly' => Catalog!CatalogNext]_(Catalog!cvars)

Undamaged == budget.damage = MaxDamage
NothingFailed == budget.faults = MaxFaults

\* Every committed archive is again and again settled: its batch is searchable
\* or recorded as failed, and it is not waiting for a scan.  Left out are damaged
\* files, late statements and programs that build at once.  These may leave a
\* READY batch without its segment, on which every start fails, or a batch that
\* is BUILDING without an archive, on which every recovery fails.
Settled(a) ==
  /\ archive[a].batch # NoBatch /\ archive[a].state # "PENDING"
  /\ batch[archive[a].batch].state \in {"READY", "FAILED"}
ArchiveSettles == \A a \in Archives : []<>(a \in source /\ Undamaged /\ Orderly => Settled(a))
=============================================================================
