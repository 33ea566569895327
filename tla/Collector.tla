----------------------------- MODULE Collector -----------------------------
(***************************************************************************)
(* collector_agent: CollectorApp (scanInputs, processTasks), SpoolStore    *)
(* and HttpUploader, for one source path, together with the device that    *)
(* writes the file and the HTTP interface of datastream_server as the      *)
(* collector sees it.                                                      *)
(*                                                                         *)
(* The collector is one thread: scan, then one step for every task, again  *)
(* and again.  Everything else interleaves with it: the device overwrites  *)
(* the file between stat, hash and copy; the server executes a request     *)
(* before, after or without the collector hearing of it; sessions expire;  *)
(* the collector is killed and restarts from its spool.                    *)
(*                                                                         *)
(* Every change of a task is followed at once by SpoolStore::save, which   *)
(* replaces the state file atomically and makes the process exit when it   *)
(* fails.  The task map in memory therefore never outlives a difference to *)
(* the state files and task stands for both; a crash before the save is a  *)
(* crash before the step.                                                  *)
(***************************************************************************)
EXTENDS Naturals, FiniteSets, FiniteSetsExt

CONSTANTS
  Contents,     \* file contents, identified with their SHA-256
  Size,         \* Size[x]: file_size of content x
  Chunks,       \* chunk numbers of a file
  Uploads,      \* upload_id values the server may hand out
  None,         \* an absent value
  StableScans,  \* stable_scan_count; 1 is SealMode::AtomicRename
  SpoolMax,     \* spool_max_bytes
  MaxWrites,    \* bound: how often the device writes the file
  MaxFaults,    \* bound: faults of any kind
  MaxLate       \* bound: requests on their way that the collector has given up

ASSUME ContentsAssumption == None \notin Contents /\ Size \in [Contents -> Nat]
ASSUME CollectorChunksAssumption == Chunks # {} /\ Chunks \subseteq Nat /\ IsFiniteSet(Chunks)
ASSUME UploadsAssumption == None \notin Uploads
ASSUME BoundsAssumption ==
  /\ StableScans \in Nat \ {0} /\ SpoolMax \in Nat
  /\ MaxWrites \in Nat /\ MaxFaults \in Nat /\ MaxLate \in Nat

VARIABLES
  source,     \* the device's file: mtime (0: no file) and content
  history,    \* history[m]: the content the device wrote at mtime m
  sidecar,    \* the .meta.json file
  stable,     \* observations_ and stable_counts_
  task,       \* tasks_ and the state files
  payload,    \* the snapshots in spool/files
  pc,         \* where the collector thread is
  scan,       \* locals of scanInputs
  todo,       \* tasks the current processTasks has still to visit
  call,       \* the HTTP request being waited for
  missing,    \* chunks processTask has still to send
  reply,      \* answer of the server to call
  sess,       \* server: sessions
  owner,      \* server: the task that created a session
  row,        \* server: archive_id of an upload, 0 if it has none
  nextId,     \* server: AUTO_INCREMENT of archive_file
  late,       \* requests on their way that the collector has given up
  lost,       \* uploads whose session expired
  faults      \* faults so far

device == <<source, history, sidecar>>
spool == <<task, payload>>
agent == <<pc, scan, todo, call, missing, stable>>
server == <<sess, owner, row, nextId>>
vars == <<source, history, sidecar, stable, task, payload, pc, scan, todo, call, missing, reply,
          sess, owner, row, nextId, late, lost, faults>>

-----------------------------------------------------------------------------
(* Data *)

(* task_id: path, device, size, mtime and SHA-256.  The size goes with the *)
(* mtime.  A file that fails before it is hashed has an id without SHA-256. *)
Ids == [mtime : 1..MaxWrites, sha : Contents \cup {None}]

NoTask == [state |-> "NONE", upload |-> None, backoff |-> FALSE, archive |-> 0, error |-> "none"]
FailedTask(e) == [NoTask EXCEPT !.state = "FAILED", !.error = e]
ReadyTask == [NoTask EXCEPT !.state = "READY"]
Active(t) == t.state \in {"READY", "UPLOADING", "COMPLETING"}
Codes == {"none", "OK", "UNAVAILABLE", "CHUNKS_INCOMPLETE", "UPLOAD_NOT_FOUND", "UPLOAD_STATE_CONFLICT",
          "CHUNK_CONTENT_CONFLICT", "FILE_INTEGRITY_MISMATCH", "LOCAL_PAYLOAD_IO_ERROR",
          "SOURCE_CHANGED_AFTER_SEAL", "ZERO_LENGTH_FILE", "SIDECAR_INVALID", "SNAPSHOT_FAILED",
          "UPLOAD_SESSION_LOST", "DEVICE_CONFIG_MISSING", "REJECTED"}
Tasks == [state : {"NONE", "READY", "UPLOADING", "COMPLETING", "DONE", "FAILED"},
          upload : Uploads \cup {None}, backoff : BOOLEAN, archive : Nat, error : Codes]

NoSession == [state |-> "NONE", got |-> [c \in Chunks |-> None]]
NewSession == [NoSession EXCEPT !.state = "UPLOADING"]
Sessions == [state : {"NONE", "UPLOADING", "VERIFYING", "ARCHIVED", "FAILED"},
             got : [Chunks -> Contents \cup {None}]]

Request(op, i, u, c, d) == [op |-> op, id |-> i, upload |-> u, chunk |-> c, body |-> d]
Requests == [op : {"create", "progress", "chunk", "complete"}, id : Ids, upload : Uploads \cup {None},
             chunk : Chunks \cup {None}, body : Contents \cup {None}]
Answer(code) == [code |-> code, upload |-> None, missing |-> {}, archive |-> 0]
Answers == [code : Codes, upload : Uploads \cup {None}, missing : SUBSET Chunks, archive : Nat]

NoScan == [mtime |-> 0, size |-> 0, sha |-> None]

(* HttpUploader::request: what the collector makes of an answer. *)
ClassifyDown(code) ==
  CASE code = "OK" -> "Success"
    [] code \in {"UNAVAILABLE", "CHUNKS_INCOMPLETE", "UPLOAD_NOT_FOUND"} -> "Retryable"
    [] OTHER -> "PermanentFailure"
Classify(code) ==
  CASE code = "OK" -> "Success"
    [] code \in {"UNAVAILABLE", "CHUNKS_INCOMPLETE"} -> "Retryable"
    [] code = "UPLOAD_NOT_FOUND" -> "SessionMissing"
    [] OTHER -> "PermanentFailure"

Fault == faults < MaxFaults /\ faults' = faults + 1
NoFault == UNCHANGED faults

-----------------------------------------------------------------------------
(* The device *)

DeviceWrite(x) ==
  /\ source.mtime < MaxWrites
  /\ source' = [mtime |-> source.mtime + 1, content |-> x]
  /\ history' = [history EXCEPT ![source.mtime + 1] = x]
  /\ UNCHANGED <<sidecar, spool, agent, reply, server, late, lost, faults>>

(* The sidecar appears, complete or still being written, and is completed. *)
DeviceSidecar ==
  /\ \/ sidecar = "absent" /\ sidecar' \in {"invalid", "valid"}
     \/ sidecar = "invalid" /\ sidecar' = "valid"
  /\ UNCHANGED <<source, history, spool, agent, reply, server, late, lost, faults>>

-----------------------------------------------------------------------------
(* scanInputs *)

(* processTasks walks over all tasks; those it will do anything for: *)
BeginPass(t) ==
  /\ pc' = "process"
  /\ scan' = NoScan
  /\ todo' = {i \in Ids : Active(t[i])}

SaveTask(i, t) == task' = [task EXCEPT ![i] = t]

(* failTask *)
FailedWith(t, code) == [t EXCEPT !.state = "FAILED", !.backoff = FALSE, !.error = code]

(* The tasks of the path, by what their signature says of the file. *)
SameSignature(m) == {i \in Ids : task[i].state # "NONE" /\ i.mtime = m}
ChangedTasksIgnored(m) == {}
ChangedTasks(m) == {i \in Ids : Active(task[i]) /\ i.mtime # m}

(* stat, seal check, then the tasks of the path in the order of their ids: *)
(* the first one that has the same signature, or is still active with      *)
(* another one, ends the search.  stable_counts_ is capped at the value    *)
(* that matters.                                                           *)
ScanStat ==
  LET m == source.mtime
      n == IF stable.mtime = m THEN Min({stable.count + 1, StableScans}) ELSE 1
      sealed == m > 0 /\ n >= StableScans /\ sidecar # "absent"
      unhashed == [mtime |-> m, sha |-> None]
  IN
  /\ pc = "scan"
  /\ stable' = [mtime |-> m, count |-> n]
  /\ \/ /\ ~sealed \/ SameSignature(m) # {}
        /\ UNCHANGED task /\ BeginPass(task')
     \/ /\ sealed
        /\ \E i \in ChangedTasks(m) :
             SaveTask(i, FailedWith(task[i], "SOURCE_CHANGED_AFTER_SEAL"))
        /\ BeginPass(task')
     \/ /\ sealed /\ SameSignature(m) = {} /\ ChangedTasks(m) = {}
        /\ CASE sidecar = "invalid" ->
                  SaveTask(unhashed, FailedTask("SIDECAR_INVALID")) /\ BeginPass(task')
             [] sidecar = "valid" /\ Size[source.content] = 0 ->
                  SaveTask(unhashed, FailedTask("ZERO_LENGTH_FILE")) /\ BeginPass(task')
             [] OTHER ->
                  /\ scan' = [mtime |-> m, size |-> Size[source.content], sha |-> None]
                  /\ pc' = "hash"
                  /\ UNCHANGED <<task, todo>>
  /\ UNCHANGED <<device, payload, call, missing, reply, server, late, lost, faults>>

ScanId == [mtime |-> scan.mtime, sha |-> scan.sha]

(* directoryBytes *)
SpoolBytes == MapThenSumSet(LAMBDA i : Size[payload[i]], {i \in Ids : payload[i] # None})

(* hashFile of the source, duplicate check, capacity check of snapshot.    *)
(* Too little free disk has the same effect as a full spool.               *)
ScanHash ==
  LET i == [mtime |-> scan.mtime, sha |-> source.content] IN
  /\ pc = "hash"
  /\ \/ BeginPass(task)
     \/ /\ task[i].state = "NONE" /\ SpoolBytes + scan.size <= SpoolMax
        /\ scan' = [scan EXCEPT !.sha = source.content]
        /\ pc' = "copy"
        /\ UNCHANGED todo
  /\ UNCHANGED <<device, stable, spool, call, missing, reply, server, late, lost, faults>>

(* snapshot: the copy gets its name by rename, if it has the size of stat; *)
(* a failure after the rename leaves it there.                             *)
ScanCopy ==
  LET copied == [payload EXCEPT ![ScanId] = source.content]
      sound == Size[source.content] = scan.size
  IN
  /\ pc = "copy"
  /\ \/ /\ sound /\ payload' = copied
        /\ pc' = "check"
        /\ UNCHANGED <<task, scan, todo, faults>>
     \/ /\ \/ ~sound /\ NoFault /\ UNCHANGED payload
           \/ sound /\ Fault /\ payload' \in {payload, copied}
        /\ SaveTask(ScanId, FailedTask("SNAPSHOT_FAILED")) /\ BeginPass(task')
  /\ UNCHANGED <<device, stable, call, missing, reply, server, late, lost>>

(* The snapshot is hashed again before the task is accepted. *)
ScanCheck ==
  /\ pc = "check"
  /\ \/ payload[ScanId] = scan.sha /\ SaveTask(ScanId, ReadyTask) /\ NoFault
     \/ /\ IF payload[ScanId] = scan.sha THEN Fault ELSE NoFault
        /\ SaveTask(ScanId, FailedTask("SNAPSHOT_FAILED"))
  /\ BeginPass(task')
  /\ UNCHANGED <<device, stable, payload, call, missing, reply, server, late, lost>>

-----------------------------------------------------------------------------
(* processTasks: each task that is due gets one call of processTask.       *)

Send(r) == call' = r /\ reply' = None /\ pc' = "wait"

SkipTask(i) ==
  /\ pc = "process" /\ i \in todo
  /\ task[i].backoff
  /\ todo' = todo \ {i}
  /\ UNCHANGED <<device, spool, pc, scan, call, missing, stable, reply, server, late, lost, faults>>

StartTask(i) ==
  /\ pc = "process" /\ i \in todo
  /\ todo' = todo \ {i}
  /\ Send(CASE task[i].state = "READY" -> Request("create", i, None, None, None)
            [] task[i].state = "UPLOADING" -> Request("progress", i, task[i].upload, None, None)
            [] OTHER -> Request("complete", i, task[i].upload, None, None))
  /\ UNCHANGED <<device, spool, scan, missing, stable, server, late, lost, faults>>

(* The device was taken out of the configuration. *)
DropTask(i) ==
  /\ pc = "process" /\ i \in todo
  /\ Fault
  /\ todo' = todo \ {i}
  /\ SaveTask(i, FailedWith(task[i], "DEVICE_CONFIG_MISSING"))
  /\ UNCHANGED <<device, payload, pc, scan, call, missing, stable, reply, server, late, lost>>

EndPass ==
  /\ pc = "process" /\ todo = {}
  /\ pc' = "scan"
  /\ UNCHANGED <<device, spool, scan, todo, call, missing, stable, reply, server, late, lost, faults>>

(* What processTask does with a result that its branch does not handle. *)
ScheduledAnew(t, code) ==
  [t EXCEPT !.backoff = TRUE, !.error = code, !.state = "READY", !.upload = None]
Scheduled(t, code) == [t EXCEPT !.backoff = TRUE, !.error = code]
Unhandled(t, code) == IF Classify(code) = "Retryable" THEN Scheduled(t, code) ELSE FailedWith(t, code)
Restarted(t) == [t EXCEPT !.state = "READY", !.upload = None, !.backoff = FALSE,
                          !.error = "UPLOAD_SESSION_LOST"]
BackToPass(t) == SaveTask(call.id, t) /\ pc' = "process" /\ UNCHANGED <<call, missing, reply>>

(* uploadChunk for the next missing chunk; the body comes from the payload. *)
SendChunk(rest) ==
  LET i == call.id IN
  /\ missing' = rest
  /\ IF rest = {}
     THEN /\ SaveTask(i, [task[i] EXCEPT !.state = "COMPLETING", !.backoff = FALSE, !.error = "none"])
          /\ pc' = "process" /\ UNCHANGED <<call, reply>>
     ELSE IF payload[i] = None
     THEN /\ SaveTask(i, FailedWith(task[i], "LOCAL_PAYLOAD_IO_ERROR"))
          /\ pc' = "process" /\ UNCHANGED <<call, reply>>
     ELSE /\ Send(Request("chunk", i, task[i].upload, Min(rest), payload[i]))
          /\ UNCHANGED task

(* processTask after the answer to call. *)
Receive ==
  LET i == call.id
      t == task[i]
      status == Classify(reply.code)
  IN
  /\ pc = "wait" /\ reply # None
  /\ \/ call.op = "create"
        /\ BackToPass(IF status = "Success"
                      THEN [t EXCEPT !.state = "UPLOADING", !.upload = reply.upload,
                                     !.backoff = FALSE, !.error = "none"]
                      ELSE Unhandled(t, reply.code))
     \/ /\ call.op = "progress"
        /\ CASE status = "SessionMissing" -> BackToPass(Restarted(t))
             [] status = "Success" -> SendChunk(reply.missing)
             [] OTHER -> BackToPass(Unhandled(t, reply.code))
     \/ /\ call.op = "chunk"
        /\ IF status = "Success" THEN SendChunk(missing \ {call.chunk})
                                 ELSE BackToPass(Unhandled(t, reply.code))
     \/ /\ call.op = "complete"
        /\ CASE status = "SessionMissing" -> BackToPass(Restarted(t))
             [] status = "Success" ->
                  /\ SaveTask(i, [t EXCEPT !.state = "DONE", !.archive = reply.archive,
                                           !.backoff = FALSE, !.error = "none"])
                  /\ pc' = "remove"
                  /\ UNCHANGED <<call, missing, reply>>
             [] OTHER -> BackToPass(Unhandled(t, reply.code))
  /\ UNCHANGED <<device, stable, payload, scan, todo, server, late, lost, faults>>

(* removePayload, after DONE was saved *)
RemovePayload ==
  /\ pc = "remove"
  /\ payload' = [payload EXCEPT ![call.id] = None]
  /\ pc' = "process"
  /\ UNCHANGED <<device, stable, task, scan, todo, call, missing, reply, server, late, lost, faults>>

(* A request the collector gives up may still reach the server. *)
GiveUp ==
  \/ UNCHANGED late
  \/ reply = None /\ Cardinality(late) < MaxLate /\ late' = late \cup {call}

(* request times out, before or after the server executed it. *)
Timeout ==
  /\ pc = "wait"
  /\ Fault
  /\ GiveUp
  /\ BackToPass(Scheduled(task[call.id], "UNAVAILABLE"))
  /\ UNCHANGED <<device, stable, payload, scan, todo, server, lost>>

(* The collector is killed, or exits because the spool cannot be written. *)
Crash ==
  /\ pc # "start"
  /\ Fault
  /\ IF pc = "wait" THEN GiveUp ELSE UNCHANGED late
  /\ pc' = "start"
  /\ scan' = NoScan /\ todo' = {} /\ call' = None /\ missing' = {} /\ reply' = None
  /\ stable' = [mtime |-> 0, count |-> 0]
  /\ UNCHANGED <<device, spool, server, lost>>

(* CollectorApp::initialize *)
Initialize ==
  /\ pc = "start"
  /\ payload' = [i \in Ids |-> IF task[i].state = "DONE" THEN None ELSE payload[i]]
  /\ pc' = "scan"
  /\ UNCHANGED <<device, task, scan, todo, call, missing, stable, reply, server, late, lost, faults>>

-----------------------------------------------------------------------------
(* datastream_server executes a request; heard is FALSE when the collector *)
(* no longer waits for the answer.  The handlers are those of module       *)
(* UploadServer with their intermediate states folded into the outcomes.   *)

Reply(heard, answer) == reply' = IF heard THEN answer ELSE reply
Unavailable(heard) == Fault /\ Reply(heard, Answer("UNAVAILABLE"))

ServeCreate(r, heard) ==
  \/ /\ \E u \in Uploads :
          /\ owner[u] = None
          /\ owner' = [owner EXCEPT ![u] = r.id]
          /\ sess' = [sess EXCEPT ![u] = NewSession]
          /\ \/ NoFault /\ Reply(heard, [Answer("OK") EXCEPT !.upload = u])
             \/ Unavailable(heard)
     /\ UNCHANGED <<row, nextId>>
  \/ Unavailable(heard) /\ UNCHANGED server

ServeProgress(r, heard) ==
  LET s == sess[r.upload] IN
  /\ \/ NoFault /\ Reply(heard, IF s.state = "NONE" THEN Answer("UPLOAD_NOT_FOUND")
                                ELSE [Answer("OK") EXCEPT !.missing = {c \in Chunks : s.got[c] = None}])
     \/ Unavailable(heard)
  /\ UNCHANGED server

WithChunk(s, c, d) == [s EXCEPT !.got = [s.got EXCEPT ![c] = d]]

ServeChunk(r, heard) ==
  LET s == sess[r.upload]
      code == CASE s.state = "NONE" -> "UPLOAD_NOT_FOUND"
                [] s.state \notin {"NONE", "UPLOADING"} -> "UPLOAD_STATE_CONFLICT"
                [] s.state = "UPLOADING" /\ s.got[r.chunk] \notin {None, r.body} -> "CHUNK_CONTENT_CONFLICT"
                [] OTHER -> "OK"
  IN
  /\ \/ /\ IF code = "OK"
           THEN sess' = [sess EXCEPT ![r.upload] = WithChunk(s, r.chunk, r.body)]
           ELSE UNCHANGED sess
        /\ \/ NoFault /\ Reply(heard, Answer(code))
           \/ Unavailable(heard)
     \/ Unavailable(heard) /\ UNCHANGED sess
  /\ UNCHANGED <<owner, row, nextId>>

InsertRow(u) ==
  IF row[u] = 0 THEN row' = [row EXCEPT ![u] = nextId] /\ nextId' = nextId + 1
                ELSE UNCHANGED <<row, nextId>>
SetState(u, state) == sess' = [sess EXCEPT ![u] = [sess[u] EXCEPT !.state = state]]

(* The file is archived; a failure leaves the upload after BeginComplete,  *)
(* after the INSERT or after MarkArchived.                                 *)
ServeArchiveUnrecorded(u, heard) ==
  /\ SetState(u, "ARCHIVED") /\ UNCHANGED <<row, nextId>>
  /\ NoFault /\ Reply(heard, [Answer("OK") EXCEPT !.archive = nextId])
ServeArchive(u, heard) ==
  \/ /\ SetState(u, "ARCHIVED") /\ InsertRow(u)
     /\ \/ NoFault /\ Reply(heard, [Answer("OK") EXCEPT !.archive = row'[u]])
        \/ Unavailable(heard)
  \/ SetState(u, "VERIFYING") /\ InsertRow(u) /\ Unavailable(heard)
  \/ SetState(u, "VERIFYING") /\ UNCHANGED <<row, nextId>> /\ Unavailable(heard)

ServeComplete(r, heard) ==
  LET u == r.upload
      s == sess[u]
      whole == \A c \in Chunks : s.got[c] # None
  IN
  /\ \/ /\ NoFault
        /\ \/ s.state = "NONE" /\ Reply(heard, Answer("UPLOAD_NOT_FOUND"))
           \/ s.state = "FAILED" /\ Reply(heard, Answer("UPLOAD_STATE_CONFLICT"))
           \/ s.state = "ARCHIVED" /\ Reply(heard, [Answer("OK") EXCEPT !.archive = row[u]])
           \/ s.state = "UPLOADING" /\ ~whole /\ Reply(heard, Answer("CHUNKS_INCOMPLETE"))
        /\ UNCHANGED <<sess, row, nextId>>
     \/ /\ s.state = "VERIFYING" \/ (s.state = "UPLOADING" /\ whole)
        /\ IF \A c \in Chunks : s.got[c] = owner[u].sha
           THEN ServeArchive(u, heard)
           ELSE SetState(u, "FAILED") /\ UNCHANGED <<row, nextId>>
                /\ NoFault /\ Reply(heard, Answer("FILE_INTEGRITY_MISMATCH"))
     \/ Unavailable(heard) /\ UNCHANGED <<sess, row, nextId>>
  /\ UNCHANGED owner

(* Authentication, binding or validation may also reject a request. *)
Serve(r, heard) ==
  \/ r.op = "create" /\ ServeCreate(r, heard)
  \/ r.op = "progress" /\ ServeProgress(r, heard)
  \/ r.op = "chunk" /\ ServeChunk(r, heard)
  \/ r.op = "complete" /\ ServeComplete(r, heard)
  \/ Fault /\ Reply(heard, Answer("REJECTED")) /\ UNCHANGED server

ServeCall ==
  /\ pc = "wait" /\ reply = None
  /\ Serve(call, TRUE)
  /\ UNCHANGED <<device, spool, agent, late, lost>>

ServeLate(r) ==
  /\ r \in late
  /\ late' = late \ {r}
  /\ Serve(r, FALSE)
  /\ UNCHANGED <<device, spool, agent, lost>>

(* A session is lost: its TTL runs out or Redis loses it. *)
LoseSession(u) ==
  /\ sess[u].state # "NONE"
  /\ Fault
  /\ sess' = [sess EXCEPT ![u] = NoSession]
  /\ lost' = lost \cup {u}
  /\ UNCHANGED <<device, spool, agent, reply, owner, row, nextId, late>>

-----------------------------------------------------------------------------

Init ==
  /\ source = [mtime |-> 0, content |-> None]
  /\ history = [m \in 1..MaxWrites |-> None]
  /\ sidecar = "absent"
  /\ stable = [mtime |-> 0, count |-> 0]
  /\ task = [i \in Ids |-> NoTask]
  /\ payload = [i \in Ids |-> None]
  /\ pc = "start" /\ scan = NoScan /\ todo = {} /\ call = None /\ missing = {} /\ reply = None
  /\ sess = [u \in Uploads |-> NoSession]
  /\ owner = [u \in Uploads |-> None]
  /\ row = [u \in Uploads |-> 0]
  /\ nextId = 1
  /\ late = {} /\ lost = {}
  /\ faults = 0

Device == DeviceSidecar \/ \E x \in Contents : DeviceWrite(x)

ScanInputs == ScanStat \/ ScanHash \/ ScanCopy \/ ScanCheck

ProcessTasks ==
  \/ \E i \in Ids : SkipTask(i) \/ StartTask(i) \/ DropTask(i)
  \/ EndPass \/ Receive \/ RemovePayload \/ Timeout

Server == ServeCall \/ \E r \in late : ServeLate(r)

Next ==
  \/ Device
  \/ Initialize \/ ScanInputs \/ ProcessTasks \/ Crash
  \/ Server
  \/ \E u \in Uploads : LoseSession(u)

Spec == Init /\ [][Next]_vars

-----------------------------------------------------------------------------
(* Properties *)

(* Every variable keeps the shape the code gives it. *)
TypeOK ==
  /\ source \in [mtime : 0..MaxWrites, content : Contents \cup {None}]
  /\ history \in [1..MaxWrites -> Contents \cup {None}]
  /\ sidecar \in {"absent", "invalid", "valid"}
  /\ stable \in [mtime : 0..MaxWrites, count : 0..StableScans]
  /\ task \in [Ids -> Tasks]
  /\ payload \in [Ids -> Contents \cup {None}]
  /\ pc \in {"start", "scan", "hash", "copy", "check", "process", "wait", "remove"}
  /\ scan \in [mtime : 0..MaxWrites, size : Nat, sha : Contents \cup {None}]
  /\ todo \subseteq Ids
  /\ call \in Requests \cup {None}
  /\ missing \subseteq Chunks
  /\ reply \in Answers \cup {None}
  /\ sess \in [Uploads -> Sessions]
  /\ owner \in [Uploads -> Ids \cup {None}]
  /\ row \in [Uploads -> Nat]
  /\ nextId \in Nat
  /\ late \subseteq Requests
  /\ lost \subseteq Uploads
  /\ faults \in 0..MaxFaults

(* The payload of an unfinished task is in the spool and is the content    *)
(* its file_sha256 was computed from, whatever the device wrote meanwhile  *)
(* and wherever the collector was killed.                                  *)
PayloadIntact ==
  \A i \in Ids : Active(task[i]) => payload[i] = i.sha /\ i.sha # None

(* A task is DONE only if the server has the archive_file row whose        *)
(* archive_id the task carries, for an upload of this very task.  The      *)
(* payload is given up for nothing less.                                   *)
DoneIsArchived ==
  \A i \in Ids : task[i].state = "DONE" =>
    /\ task[i].archive # 0
    /\ \E u \in Uploads : owner[u] = i /\ row[u] = task[i].archive

(* The server never finds a file that differs from what the collector      *)
(* declared, and no chunk conflicts: bodies come from the snapshot, which  *)
(* is there for as long as a lost session may ask for it again.            *)
NoIntegrityFailure ==
  \A i \in Ids : task[i].error \notin {"FILE_INTEGRITY_MISMATCH", "CHUNK_CONTENT_CONFLICT",
                                       "UPLOAD_STATE_CONFLICT", "LOCAL_PAYLOAD_IO_ERROR"}

(* Repeated discovery, restarts and failures never make two tasks of one   *)
(* sealed file.                                                            *)
OneTaskPerSignature ==
  \A i, j \in Ids : task[i].state # "NONE" /\ task[j].state # "NONE" /\ i.mtime = j.mtime => i = j

(* With SealMode::AtomicRename a file that was overwritten between stat    *)
(* and hash is never archived under the old signature: the next scan fails *)
(* its task before complete is called.                                     *)
DoneIsSealedVersion ==
  \A i \in Ids : task[i].state = "DONE" => i.sha = history[i.mtime]

(* Lost answers, late requests and restarts alone never archive a task     *)
(* twice: that takes the loss of one of its sessions.                      *)
ArchivedOncePerSession ==
  \A u, v \in Uploads :
    u # v /\ row[u] # 0 /\ row[v] # 0 /\ owner[u] = owner[v] => u \in lost \/ v \in lost

(* UPLOAD_NOT_FOUND means that the session is lost and makes the collector *)
(* create a new one for the task; it is never a permanent failure.         *)
SessionLossNotFatal ==
  \A i \in Ids : task[i].state = "FAILED" => task[i].error # "UPLOAD_NOT_FOUND"

(* Fairness: the collector thread runs on, the server answers, back-off    *)
(* delays end.  A version of the file has one task at most                 *)
(* (OneTaskPerSignature), so it is stated for versions.                    *)
Fairness ==
  /\ WF_vars(Initialize) /\ WF_vars(ScanInputs)
  /\ WF_vars(EndPass) /\ WF_vars(Receive) /\ WF_vars(RemovePayload)
  /\ WF_vars(\E i \in Ids : SkipTask(i) \/ StartTask(i))
  /\ \A m \in 1..MaxWrites : SF_vars(\E i \in SameSignature(m) : StartTask(i))
  /\ WF_vars(ServeCall)

(* Once faults stop, every accepted task ends DONE or FAILED: no answer of *)
(* the server keeps processTask going round in circles.                    *)
Unsettled(m) == \E i \in SameSignature(m) : Active(task[i])
TasksSettle == \A m \in 1..MaxWrites : []<>~Unsettled(m)

=============================================================================
