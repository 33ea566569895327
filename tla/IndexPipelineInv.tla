-------------------------- MODULE IndexPipelineInv --------------------------
(***************************************************************************)
(* The inductive invariants of IndexPipeline, in three layers: the shape   *)
(* of the state, the flock and the statements that may be late; what the   *)
(* scans have seen; and what tables, directories and programs know of each *)
(* other, up to the first late statement or overlap of two builds.         *)
(***************************************************************************)
EXTENDS IndexPipeline

-----------------------------------------------------------------------------
(* Shape.                                                                  *)

LockPcs == {"recover", "recoverArchives", "recoverBatch", "select", "create", "attach", "mark",
            "unwritten", "retract", "requeue", "erase"}
Pcs == LockPcs \cup BuildPcs \cup {"down", "idle"}
Builders == {"none", "server", "admin"}
Dirs == [builder : Builders, archives : SUBSET Archives, intact : BOOLEAN]
Listed == [b : Batches, sha : Builders]
ArchiveRows == [state : {"NONE", "PENDING", "PARSED", "FAILED", "INDEXED"}, batch : Batches \cup {NoBatch}]
BatchRows == [state : {"NONE", "PARSING", "PARSED", "BUILDING", "READY", "FAILED"}, sha : Builders]
Locals ==
  [pc : Pcs, task : {"none", "start", "poll", "scan", "rebuild", "reload", "build"},
   b : Batches \cup {NoBatch}, ids : SUBSET (Archives \cup Batches),
   todo : SUBSET (Archives \cup Batches), good : SUBSET Archives, sha : Builders,
   list : SUBSET Listed]

\* Which lists a program keeps at each point, and on whose behalf it runs.
Shape(p, m) ==
  /\ m.pc \in {"recoverArchives", "recoverBatch"} => m.ids \subseteq Batches /\ m.todo \subseteq Batches
  /\ m.pc \in {"inspect", "reset", "republish", "discard", "discarded"} => m.todo \subseteq Batches
  /\ m.pc \in {"recoverBatch", "reset", "republish", "discard", "discarded"} => m.todo # {}
  /\ m.pc \in {"create", "attach", "mark", "unwritten"} =>
       m.ids \subseteq Archives /\ m.todo \subseteq Archives
  /\ m.pc \in {"attach", "mark", "unwritten", "retract", "requeue", "erase", "claim", "read", "prepare",
               "store", "rename", "publish", "abandon", "abandoned"} => m.b \in Batches
  /\ p = "server" => m.task \in {"none", "start", "poll"}
  /\ p = "admin" => m.task \notin {"start", "poll"}
  /\ p = "admin" /\ m.pc \in LockPcs => m.task \in {"scan", "rebuild"}
  /\ p = "admin" /\ m.pc \in BuildPcs => m.task \in {"reload", "build"}

RowsType == inserting \subseteq Archives /\ source \subseteq Archives /\ burnt \subseteq Archives
TablesType == archive \in [Archives -> ArchiveRows] /\ batch \in [Batches -> BatchRows]
DirsType == /\ parsed \in [Batches -> SUBSET Archives]
            /\ building \in [Batches -> Dirs] /\ segment \in [Batches -> Dirs]

\* A program inside an operation of the indexer holds the flock.
ProcType ==
  /\ lock \in {"free", "server", "admin"} /\ proc \in [Programs -> Locals]
  /\ \A p \in Programs : Shape(p, proc[p]) /\ (proc[p].pc \in LockPcs => lock = p)

\* The tables as they are, without the statements still on their way.
indexTables == <<archive, batch>>

TInv == RowsType /\ TablesType /\ DirsType /\ DOMAIN snapshot \subseteq Batches /\ ProcType

\* Statements that may be executed late, and what is left of the bounds.
ArchiveKinds == {"attach", "archiveParsed", "archiveFailed"}
BatchKinds == {"interrupt", "requeue", "batchParsed", "batchFailed", "claim", "reset", "buildFailed",
               "ready"}
Statements ==
  {s \in [do : {"create"} \cup ArchiveKinds \cup BatchKinds, b : Batches \cup {NoBatch},
           a : Archives \cup {NoArchive}, sha : Builders] :
     /\ s.do # "create" => s.b \in Batches
     /\ s.do \in ArchiveKinds => s.a \in Archives}

Bounds == {"faults", "late", "overlaps", "damage", "crashes", "troubles", "commands"}
LInv ==
  /\ late \subseteq Statements /\ budget \in [Bounds -> Nat]
  /\ budget.late <= MaxLate /\ budget.overlaps <= MaxOverlaps

-----------------------------------------------------------------------------
(* What the scans have seen, when archives are committed one at a time.    *)

Seen(a) == archive[a].state # "NONE"

\* What a scan is about to attach continues what has been seen without a gap.
ScanClaim(m) ==
  /\ m.pc \in {"create", "attach"} =>
       /\ m.todo \subseteq source
       /\ \A a \in m.todo, c \in source : c < a => Seen(c) \/ c \in m.todo
       /\ \A a \in m.ids : Seen(a) \/ a \in m.todo
  /\ m.pc \in {"mark", "unwritten"} => \A a \in m.ids \cup m.todo : Seen(a)

AllocatedInOrder ==
  /\ \A x \in Allocated, y \in Archives : y < x => y \in Allocated
  /\ \A x, y \in inserting : x = y
  /\ \A x \in inserting, y \in source \cup burnt : y < x

SeenInOrder ==
  /\ \A a \in Archives : Seen(a) => a \in source
  /\ \A a \in source, c \in Archives : Seen(c) /\ a <= c => Seen(a)
  /\ \A a \in Archives : Seen(a) \/ archive[a].batch = NoBatch

\* A late statement will not open a gap either.
LateClaim(s) ==
  /\ s.do = "attach" => s.a \in source /\ \A c \in source : c < s.a => Seen(c)
  /\ s.do \in {"archiveParsed", "archiveFailed"} => Seen(s.a)

NInv == AllocatedInOrder /\ SeenInOrder /\ \A p \in Programs : ScanClaim(proc[p])
LNInv == \A s \in late : LateClaim(s)

-----------------------------------------------------------------------------
(* Tables, directories and programs.                                       *)

State(b) == batch[b].state
In(b, state) == {a \in Archives : archive[a].batch = b /\ archive[a].state = state}

RowOK(a) ==
  /\ archive[a].state = "NONE" <=> archive[a].batch = NoBatch
  /\ archive[a].batch # NoBatch => State(archive[a].batch) # "NONE"
  /\ archive[a].state = "INDEXED" => State(archive[a].batch) \in {"READY", "FAILED"}

FilesOK(b) ==
  /\ State(b) \in {"NONE", "PARSING", "PARSED"} => segment[b] = NoDir
  /\ State(b) \in {"PARSED", "BUILDING"} => parsed[b] # {} /\ parsed[b] = In(b, "PARSED")
  /\ State(b) = "BUILDING" /\ segment[b] # NoDir => segment[b].archives = parsed[b]
  /\ State(b) = "READY" => /\ segment[b] # NoDir /\ segment[b].builder = batch[b].sha
                           /\ segment[b].archives = In(b, "INDEXED")

\* Batches are created, parsed, built and published in the order of their ids.
OrderOK(b, c) ==
  /\ State(b) = "NONE" /\ State(c) # "NONE" => c < b
  /\ State(b) = "PARSING" /\ State(c) # "NONE" => c <= b
  /\ State(b) \in {"PARSED", "BUILDING"} /\ State(c) = "READY" => c < b
  /\ State(b) = "PARSED" /\ State(c) = "BUILDING" => c < b
  /\ State(b) = "BUILDING" /\ State(c) = "BUILDING" => b = c

\* What the holder of the flock knows.
LockClaim(m) ==
  /\ m.pc \in {"recoverArchives", "recoverBatch"} =>
       /\ BatchesIn({"PARSING"}) = m.todo
       /\ \A b \in m.ids \ m.todo : State(b) = "FAILED"
  /\ m.pc \in {"select", "create"} => BatchesIn({"PARSING"}) = {}
  /\ m.pc \in {"attach", "mark", "unwritten"} =>
       BatchesIn({"PARSING"}) = {m.b} /\ m.todo \subseteq m.ids /\ m.good \subseteq m.ids
  /\ m.pc = "create" => m.todo = m.ids /\ m.good \subseteq m.ids
  /\ m.pc \in {"create", "attach"} => \A a \in m.todo : archive[a].state \in {"NONE", "PENDING"}
  /\ m.pc = "attach" => /\ ArchivesOf(m.b) = m.ids \ m.todo
                        /\ \A a \in m.ids \ m.todo : archive[a].state = "PENDING"
  /\ m.pc \in {"mark", "unwritten"} => ArchivesOf(m.b) = m.ids
  /\ m.pc = "mark" =>
       /\ \A a \in m.ids : archive[a].state = IF a \in m.todo THEN "PENDING"
                                              ELSE IF a \in m.good THEN "PARSED" ELSE "FAILED"
       /\ m.good # {} => parsed[m.b] = m.good
  /\ m.pc = "retract" => State(m.b) # "NONE"
  /\ m.pc \in {"requeue", "erase"} => State(m.b) = "FAILED"

\* What a program that builds segments knows; a rebuild may fail its batch.
BuildClaim(p, m) ==
  /\ m.pc \in {"inspect", "reset", "republish", "discard", "discarded"} =>
       /\ BatchesIn({"BUILDING"}) \subseteq m.todo
       /\ \A b \in m.todo : State(b) \in {"BUILDING", "FAILED"}
  /\ m.pc = "reset" /\ State(Least(m.todo)) = "BUILDING" => segment[Least(m.todo)] = NoDir
  /\ m.pc = "republish" /\ State(Least(m.todo)) = "BUILDING" =>
       segment[Least(m.todo)] # NoDir /\ segment[Least(m.todo)].builder = m.sha
  /\ m.pc \in {"pick", "claim"} => BatchesIn({"BUILDING"}) = {}
  /\ m.pc = "claim" => State(m.b) \in {"PARSED", "FAILED"}
  /\ m.pc = "claim" /\ State(m.b) = "PARSED" => \A c \in BatchesIn({"PARSED"}) : m.b <= c
  /\ m.pc \in {"read", "prepare", "store", "rename", "publish", "abandon", "abandoned"} =>
       BatchesIn({"BUILDING"}) \subseteq {m.b} /\ State(m.b) \in {"BUILDING", "FAILED"}
  /\ m.pc \in {"prepare", "store", "rename"} /\ State(m.b) = "BUILDING" => m.good = parsed[m.b]
  /\ m.pc \in {"store", "rename"} /\ State(m.b) = "BUILDING" =>
       building[m.b].builder = p /\ building[m.b].archives = m.good
  /\ m.pc = "publish" /\ State(m.b) = "BUILDING" =>
       segment[m.b] # NoDir /\ segment[m.b].builder = p
  /\ m.pc = "load" =>
       /\ \A r \in m.list : State(r.b) \in {"READY", "FAILED"}
       /\ \A r, s \in m.list : r.b # s.b /\ segment[r.b] # NoDir /\ segment[s.b] # NoDir =>
            segment[r.b].archives \cap segment[s.b].archives = {}

\* Up to the first overlap only one program builds.
OneBuilder == ~(Building("server") /\ Building("admin"))

GInv ==
  /\ \A a \in Archives : RowOK(a)
  /\ \A b \in Batches : FilesOK(b)
  /\ \A b, c \in Batches : OrderOK(b, c)
  /\ SnapshotMatches

RInv == OneBuilder /\ GInv /\ \A p \in Programs : LockClaim(proc[p]) /\ BuildClaim(p, proc[p])
=============================================================================
