---------------------------- MODULE CollectorInv ----------------------------
(***************************************************************************)
(* The inductive invariant of Collector.                                   *)
(*                                                                         *)
(* The argument: a session belongs to the task that created it, and only   *)
(* that task's payload is ever sent to it, so what it holds can only be    *)
(* the content the task was hashed from.  The first complete of a session  *)
(* is sent after the task has left UPLOADING, and the task abandons the    *)
(* session only when the server says that it is lost.                      *)
(***************************************************************************)
EXTENDS Collector

ASSUME NoneIsNoRecordOfCollector ==
  None \notin Ids /\ None \notin Requests /\ None \notin Answers

(* A file that was seen has a content. *)
SourceInv ==
  /\ source.mtime > 0 => source.content \in Contents
  /\ pc \in {"hash", "copy", "check"} =>
       /\ source.mtime > 0
       /\ scan.mtime \in 1..MaxWrites
       /\ SameSignature(scan.mtime) = {}
  /\ pc \in {"copy", "check"} => scan.sha \in Contents

(* A request names a session of its task and carries the task's bytes. *)
Sound(r) ==
  /\ r.op # "create" => r.upload \in Uploads /\ owner[r.upload] = r.id
  /\ r.op = "chunk" => r.chunk \in Chunks /\ r.body = r.id.sha /\ r.body # None

(* The tasks still to be visited are unfinished, and the thread waits for  *)
(* the call that belongs to the state of the task it visits.               *)
CallInv ==
  /\ pc \in {"process", "wait", "remove"} => \A i \in todo : Active(task[i])
  /\ pc \in {"wait", "remove"} => call # None /\ call.id \notin todo
  /\ pc = "remove" => task[call.id].state = "DONE"
  /\ pc = "wait" =>
       LET t == task[call.id] IN
       /\ Sound(call)
       /\ call.op = "create" => t.state = "READY"
       /\ call.op \in {"progress", "chunk"} => t.state = "UPLOADING"
       /\ call.op = "complete" => t.state = "COMPLETING"
       /\ call.op # "create" => call.upload = t.upload

(* A session is in use for a task if it was created and has not seen a     *)
(* complete.                                                               *)
Untouched(u) ==
  /\ row[u] = 0
  /\ sess[u].state \in {"NONE", "UPLOADING"}
  /\ \A r \in late : r.op = "complete" => r.upload # u

(* What the collector may conclude from an answer. *)
ReplyInv ==
  pc = "wait" /\ reply # None =>
    /\ reply.code \notin {"FILE_INTEGRITY_MISMATCH", "CHUNK_CONTENT_CONFLICT",
                          "UPLOAD_STATE_CONFLICT", "LOCAL_PAYLOAD_IO_ERROR"}
    /\ reply.code = "OK" /\ call.op = "create" =>
         reply.upload \in Uploads /\ owner[reply.upload] = call.id /\ Untouched(reply.upload)
    /\ reply.code = "OK" /\ call.op = "complete" =>
         reply.archive # 0 /\ row[call.upload] = reply.archive
    /\ reply.code = "UPLOAD_NOT_FOUND" => call.op # "create" /\ call.upload \in lost

(* A task that uses a session owns it; before COMPLETING it is untouched. *)
TaskInv ==
  \A i \in Ids :
    /\ task[i].state \in {"UPLOADING", "COMPLETING"} =>
         task[i].upload \in Uploads /\ owner[task[i].upload] = i
    /\ task[i].state = "UPLOADING" => Untouched(task[i].upload)

(* The server's side of a session. *)
SessionInv ==
  \A u \in Uploads :
    /\ owner[u] = None => sess[u].state = "NONE" /\ row[u] = 0 /\ u \notin lost
    /\ owner[u] # None /\ sess[u].state = "NONE" => u \in lost
    /\ u \in lost => sess[u].state = "NONE"
    /\ \A c \in Chunks : sess[u].got[c] # None => owner[u] # None /\ sess[u].got[c] = owner[u].sha
    /\ sess[u].state = "VERIFYING" => \A c \in Chunks : sess[u].got[c] # None
    /\ sess[u].state = "ARCHIVED" => row[u] # 0
    /\ sess[u].state # "FAILED"

(* A session that saw a complete is lost, or is the one its task ended     *)
(* with.                                                                   *)
ClaimInv ==
  \A u \in Uploads : owner[u] # None /\ ~Untouched(u) =>
    \/ u \in lost
    \/ /\ task[owner[u]].upload = u
       /\ task[owner[u]].state \in {"COMPLETING", "DONE", "FAILED"}

(* The inductive invariant: everything above and the properties it carries. *)
CInv ==
  /\ TypeOK
  /\ nextId # 0
  /\ SourceInv
  /\ CallInv
  /\ ReplyInv
  /\ \A r \in late : Sound(r)
  /\ TaskInv
  /\ SessionInv
  /\ ClaimInv
  /\ PayloadIntact
  /\ DoneIsArchived
  /\ NoIntegrityFailure
  /\ OneTaskPerSignature

(* With SealMode::AtomicRename (StableScans = 1): a task whose SHA-256 is  *)
(* not that of the version it names was hashed after the device had        *)
(* written again, gets one pass, in which its session is created at most,  *)
(* and is failed by the next scan.  No two tasks are unfinished, and no    *)
(* task is younger than the unfinished one.                                *)
Stale(i) == i.sha # history[i.mtime]

StaleTask(i) ==
  /\ task[i].state \notin {"COMPLETING", "DONE"}
  /\ Active(task[i]) =>
       /\ i.mtime < source.mtime
       /\ pc \in {"process", "wait", "remove"} /\ i \in todo => task[i].state = "READY"
       /\ pc = "wait" /\ call.id = i => call.op = "create"

SealInv ==
  /\ source.mtime > 0 => source.content = history[source.mtime]
  /\ \A i \in Ids : task[i].state # "NONE" => i.mtime <= source.mtime
  /\ \A i \in Ids : Active(task[i]) =>
       sidecar # "absent" /\ \A j \in Ids : task[j].state # "NONE" => j.mtime <= i.mtime
  /\ pc \in {"hash", "copy", "check"} =>
       /\ sidecar # "absent" /\ scan.mtime <= source.mtime
       /\ \A j \in Ids : ~Active(task[j]) /\ (task[j].state # "NONE" => j.mtime <= scan.mtime)
  /\ pc \in {"copy", "check"} => scan.sha = history[scan.mtime] \/ scan.mtime < source.mtime
  /\ \A i \in Ids : Stale(i) => StaleTask(i)
=============================================================================
