---------------------------- MODULE UploadServer ----------------------------
(***************************************************************************)
(* The upload half of datastream_server: POST /uploads, PUT chunk and POST *)
(* complete of upload_controller.cpp, the Lua scripts of                   *)
(* upload_repository.cpp, the archive step of archive_storage.cpp, the     *)
(* archive_file table of archive_repository.cpp and the cleanup thread of  *)
(* cleanup_service.cpp.                                                    *)
(*                                                                         *)
(* A request is a Workflow series: every Redis command, MySQL query and    *)
(* file task is a step of its own and the steps of different requests      *)
(* interleave.  Nothing is atomic across Redis, MySQL and the file system. *)
(* A command whose reply does not arrive in time is reported to the        *)
(* handler as Unavailable although it may have been, or may still be,      *)
(* executed: such commands wait in lateChunk, lateComplete, lateCreate and *)
(* lateDelete until they are executed or dropped.  A crash of the server   *)
(* loses the handlers and keeps Redis, MySQL and the files.                *)
(*                                                                         *)
(* A definition placed directly above an action or script under a name     *)
(* that extends its name (BeginChunkStatusNoConflict) is a faulty variant  *)
(* of it, used only to show that a property notices the fault.             *)
(***************************************************************************)
EXTENDS Naturals, FiniteSets

CONSTANTS
  Uploads,      \* upload_id values (UUIDs: each is created at most once)
  Chunks,       \* the chunk numbers of a file
  Data,         \* chunk contents, identified with their SHA-256
  Declared,     \* Declared[u]: the content whose SHA-256 the creator of u declared
  Writers,      \* request slots running PUT chunk
  Completers,   \* request slots running POST complete
  None,         \* an absent value
  DayLength,    \* clock ticks per UTC day
  MaxTime,      \* bound: last clock value
  MaxLate       \* bound: commands in flight whose handler has given up

ASSUME NoneAssumption == None \notin Uploads \cup Chunks \cup Data
ASSUME ChunksAssumption == Chunks # {}
ASSUME DeclaredAssumption == Declared \in [Uploads -> [Chunks -> Data]]
ASSUME ClockAssumption == DayLength \in Nat \ {0} /\ MaxTime \in Nat /\ MaxLate \in Nat

VARIABLES
  sess,         \* Redis: session hash, bitmap and digest hash of each upload
  where,        \* file system: which name the file of an upload has
  day,          \* file system: the date directory of an archived file
  data,         \* file system: content of the file, chunk by chunk
  row,          \* MySQL: the archive_file row of an upload
  nextId,       \* MySQL: AUTO_INCREMENT of archive_file
  create,       \* progress of the POST /uploads request that creates u
  writer,       \* PUT chunk handlers
  completer,    \* POST complete handlers
  cleaner,      \* the cleanup thread
  lateChunk,    \* BeginChunk and FinishChunk commands given up by their handler
  lateComplete, \* commands of complete handlers given up by their handler
  lateCreate,   \* createSession commands given up by their handler
  lateDelete,   \* DEL commands given up by the cleanup thread
  now,          \* wall clock
  answers       \* verdicts clients have been given by POST complete

late == <<lateChunk, lateComplete, lateCreate, lateDelete>>
files == <<where, day, data>>
vars == <<sess, where, day, data, row, nextId, create, writer, completer, cleaner,
          lateChunk, lateComplete, lateCreate, lateDelete, now, answers>>

-----------------------------------------------------------------------------
(* Data *)

(* An ArchiveRecord, reduced to archive_id (0 until MySQL assigns one), the *)
(* archived_at time and the date part of relative_path, which              *)
(* buildArchiveRelativePath derives from archived_at.  The rest of the path *)
(* (line, station, device, type, upload_id) is fixed when u is created.    *)
Record(t) == [id |-> 0, at |-> t, day |-> t \div DayLength]
Records == [id : Nat, at : Nat, day : Nat]
ASSUME NoneIsNoRecord ==
  None \notin Records /\ None \notin [rec : Records, content : [Chunks -> Data]]

(* UploadSession as the Lua scripts see it: the hash, with archive_id,     *)
(* archived_at and relative_path in rec, the bitmap and the digest hash.   *)
(* State "NONE" means that the hash key does not exist.  The three keys    *)
(* expire together: every EXPIRE of the bitmap also refreshes the hash, and *)
(* no script reads bitmap or digests once the hash is gone.                *)
NoSession == [state |-> "NONE", rec |-> None, bits |-> {}, digest |-> [c \in Chunks |-> None]]
Sessions == [state : {"NONE", "UPLOADING", "VERIFYING", "ARCHIVED", "FAILED"},
             rec : Records \cup {None}, bits : SUBSET Chunks,
             digest : [Chunks -> Data \cup {None}]]

WriterIdle == [pc |-> "idle", u |-> None, c |-> None, d |-> None]
WriterRecords == [pc : {"idle", "begin", "open", "write", "finish"}, u : Uploads \cup {None},
                  c : Chunks \cup {None}, d : Data \cup {None}]

CompleterIdle == [pc |-> "idle", u |-> None, rec |-> None, final |-> FALSE]
CompleterRecords ==
  [pc : {"idle", "begin", "find", "stat", "digest", "rename", "insert", "resolve",
         "markArchived", "markFailed"},
   u : Uploads \cup {None}, rec : Records \cup {None}, final : BOOLEAN]

CleanerIdle == [pc |-> "idle", u |-> None, terminal |-> FALSE]
CleanerRecords == [pc : {"idle", "lookup", "unlink", "delete"}, u : Uploads \cup {None},
                   terminal : BOOLEAN]

Answers == [u : Uploads, verdict : {"ARCHIVED", "FAILED"}, rec : Records \cup {None}]
Archived(u, rec) == [u |-> u, verdict |-> "ARCHIVED", rec |-> rec]
Failed(u) == [u |-> u, verdict |-> "FAILED", rec |-> None]

(* The content a chunk has after a write of d that stopped partway: bytes  *)
(* that were d already still are; anything else is a mixture (None).       *)
Torn(old, d) == IF old = d THEN d ELSE None

-----------------------------------------------------------------------------
(* The Lua scripts: each is one atomic step of Redis.                      *)

(* kCreateSessionScript, accepted: fresh hash, no bitmap and no digests.   *)
CreatedSession == [NoSession EXCEPT !.state = "UPLOADING"]

(* kBeginChunkScript *)
BeginChunkStatusNoConflict(s, c, d) ==
  CASE s.state = "NONE" -> "NotFound"
    [] s.state \notin {"NONE", "UPLOADING"} -> "StateConflict"
    [] s.state = "UPLOADING" /\ s.digest[c] = d /\ c \in s.bits -> "AlreadyComplete"
    [] OTHER -> "Writable"
BeginChunkStatus(s, c, d) ==
  CASE s.state = "NONE" -> "NotFound"
    [] s.state \notin {"NONE", "UPLOADING"} -> "StateConflict"
    [] s.state = "UPLOADING" /\ s.digest[c] \notin {None, d} -> "ContentConflict"
    [] s.state = "UPLOADING" /\ s.digest[c] = d /\ c \in s.bits -> "AlreadyComplete"
    [] OTHER -> "Writable"
BeginChunk(s, c, d) ==
  IF BeginChunkStatus(s, c, d) = "Writable" THEN [s EXCEPT !.digest = [s.digest EXCEPT ![c] = d]] ELSE s

(* kFinishChunkScript *)
FinishChunk(s, c, d) ==
  IF s.state = "UPLOADING" /\ s.digest[c] = d THEN [s EXCEPT !.bits = @ \cup {c}] ELSE s

(* kBeginCompleteScript; it does not refresh any TTL *)
BeginCompleteStatusNoCount(s) ==
  CASE s.state = "NONE" -> "NotFound"
    [] s.state = "ARCHIVED" -> "Archived"
    [] s.state = "FAILED" -> "Failed"
    [] s.state = "VERIFYING" -> "Resumable"
    [] OTHER -> "Ready"
BeginCompleteStatusBusy(s) ==
  CASE s.state = "NONE" -> "NotFound"
    [] s.state = "ARCHIVED" -> "Archived"
    [] s.state = "FAILED" -> "Failed"
    [] s.state = "VERIFYING" -> "StateConflict"
    [] s.state = "UPLOADING" /\ s.bits # Chunks -> "ChunksIncomplete"
    [] OTHER -> "Ready"
BeginCompleteStatus(s) ==
  CASE s.state = "NONE" -> "NotFound"
    [] s.state = "ARCHIVED" -> "Archived"
    [] s.state = "FAILED" -> "Failed"
    [] s.state = "VERIFYING" -> "Resumable"
    [] s.state = "UPLOADING" /\ s.bits # Chunks -> "ChunksIncomplete"
    [] OTHER -> "Ready"
BeginComplete(s, rec) ==
  IF BeginCompleteStatus(s) = "Ready" THEN [s EXCEPT !.state = "VERIFYING", !.rec = rec] ELSE s

(* kMarkArchivedScript and kMarkFailedScript: both only ask that the hash  *)
(* exists and overwrite whatever state it has.                             *)
MarkArchived(s, rec) ==
  IF s.state = "NONE" THEN s ELSE [s EXCEPT !.state = "ARCHIVED", !.rec = rec]
MarkFailed(s) ==
  IF s.state = "NONE" THEN s ELSE [s EXCEPT !.state = "FAILED"]

-----------------------------------------------------------------------------
(* MySQL: unique keys on upload_id and relative_path; relative_path ends   *)
(* in upload_id, so the two conflict together.                             *)
InsertRowNoKey(u, rec) ==
  row' = [row EXCEPT ![u] = [rec EXCEPT !.id = nextId]] /\ nextId' = nextId + 1
InsertRow(u, rec) ==
  IF row[u] = None
  THEN row' = [row EXCEPT ![u] = [rec EXCEPT !.id = nextId]] /\ nextId' = nextId + 1
  ELSE UNCHANGED <<row, nextId>>

LateBudget ==
  Cardinality(lateChunk) + Cardinality(lateComplete) + Cardinality(lateCreate)
    + Cardinality(lateDelete) < MaxLate

-----------------------------------------------------------------------------
(* POST /uploads: allocateFile, createSessionTask, finish timer.  The file *)
(* is created O_EXCL under a fresh UUID; requests that fail before it      *)
(* exists change nothing and are not steps.                                *)

CreateAllocate(u) ==
  /\ create[u] = "new"
  /\ create' = [create EXCEPT ![u] = "allocated"]
  /\ where' = [where EXCEPT ![u] = "temp"]
  /\ UNCHANGED <<sess, day, data, row, nextId, writer, completer, cleaner, late, now, answers>>

CreateSession(u) ==
  /\ create[u] = "allocated"
  /\ sess' = [sess EXCEPT ![u] = CreatedSession]
  /\ create' = [create EXCEPT ![u] = "announced"]
  /\ UNCHANGED <<files, row, nextId, writer, completer, cleaner, late, now, answers>>

(* LimitExceeded, or Unavailable with the command lost or still on its way *)
CreateRejected(u) ==
  /\ create[u] = "allocated"
  /\ create' = [create EXCEPT ![u] = "unlinking"]
  /\ \/ UNCHANGED lateCreate
     \/ LateBudget /\ lateCreate' = lateCreate \cup {u}
  /\ UNCHANGED <<sess, files, row, nextId, writer, completer, cleaner,
                 lateChunk, lateComplete, lateDelete, now, answers>>

CreateUnlink(u) ==
  /\ create[u] = "unlinking"
  /\ create' = [create EXCEPT ![u] = "closed"]
  /\ where' = [where EXCEPT ![u] = "gone"]
  /\ UNCHANGED <<sess, day, data, row, nextId, writer, completer, cleaner, late, now, answers>>

-----------------------------------------------------------------------------
(* PUT chunk: lookup, BeginChunk, writeChunk (open, pwrite), FinishChunk.  *)
(* The digest is the SHA-256 of the body: authenticate has compared them.  *)
(* A lookup that finds no session, or one that is not UPLOADING, ends the  *)
(* request without any effect.                                             *)

ChunkLookup(w, u, c, d) ==
  /\ writer[w].pc = "idle"
  /\ create[u] = "announced"
  /\ sess[u].state = "UPLOADING"
  /\ writer' = [writer EXCEPT ![w] = [pc |-> "begin", u |-> u, c |-> c, d |-> d]]
  /\ UNCHANGED <<sess, files, row, nextId, create, completer, cleaner, late, now, answers>>

ChunkBegin(w) ==
  LET j == writer[w] IN
  /\ j.pc = "begin"
  /\ sess' = [sess EXCEPT ![j.u] = BeginChunk(@, j.c, j.d)]
  /\ writer' = [writer EXCEPT ![w] =
       IF BeginChunkStatus(sess[j.u], j.c, j.d) = "Writable" THEN [j EXCEPT !.pc = "open"]
                                                             ELSE WriterIdle]
  /\ UNCHANGED <<files, row, nextId, create, completer, cleaner, late, now, answers>>

(* open(temp_path, O_WRONLY) does not create the file: it fails once the   *)
(* file was renamed or removed.  The descriptor follows the file.          *)
ChunkOpen(w) ==
  LET j == writer[w] IN
  /\ j.pc = "open"
  /\ writer' = [writer EXCEPT ![w] =
       IF where[j.u] = "temp" THEN [j EXCEPT !.pc = "write"] ELSE WriterIdle]
  /\ UNCHANGED <<sess, files, row, nextId, create, completer, cleaner, late, now, answers>>

ChunkWrite(w) ==
  LET j == writer[w] IN
  /\ j.pc = "write"
  /\ data' = [data EXCEPT ![j.u] = [@ EXCEPT ![j.c] = j.d]]
  /\ writer' = [writer EXCEPT ![w] = [j EXCEPT !.pc = "finish"]]
  /\ UNCHANGED <<sess, where, day, row, nextId, create, completer, cleaner, late, now, answers>>

(* pwrite stopped partway, or everything was written and close failed. *)
ChunkWriteFailed(w) ==
  LET j == writer[w] IN
  /\ j.pc = "write"
  /\ \E x \in {Torn(data[j.u][j.c], j.d), j.d} :
       data' = [data EXCEPT ![j.u] = [@ EXCEPT ![j.c] = x]]
  /\ writer' = [writer EXCEPT ![w] = WriterIdle]
  /\ UNCHANGED <<sess, where, day, row, nextId, create, completer, cleaner, late, now, answers>>

ChunkFinish(w) ==
  LET j == writer[w] IN
  /\ j.pc = "finish"
  /\ sess' = [sess EXCEPT ![j.u] = FinishChunk(@, j.c, j.d)]
  /\ writer' = [writer EXCEPT ![w] = WriterIdle]
  /\ UNCHANGED <<files, row, nextId, create, completer, cleaner, late, now, answers>>

ChunkUnavailable(w) ==
  /\ writer[w].pc \in {"begin", "finish"}
  /\ \/ UNCHANGED lateChunk
     \/ LateBudget /\ lateChunk' = lateChunk \cup {writer[w]}
  /\ writer' = [writer EXCEPT ![w] = WriterIdle]
  /\ UNCHANGED <<sess, files, row, nextId, create, completer, cleaner,
                 lateComplete, lateCreate, lateDelete, now, answers>>

-----------------------------------------------------------------------------
(* POST complete.                                                          *)

(* Where a complete handler goes on; an idle handler keeps nothing.        *)
Goto(h, pc, rec) == completer' = [completer EXCEPT ![h] = [@ EXCEPT !.pc = pc, !.rec = rec]]
Reply(h) == completer' = [completer EXCEPT ![h] = CompleterIdle]

(* The session is UPLOADING (fresh archived_at and path) or VERIFYING (the *)
(* stored ones).  A missing session ends the request without effect.       *)
CompleteLookup(h, u) ==
  /\ completer[h].pc = "idle"
  /\ create[u] = "announced"
  /\ sess[u].state \in {"UPLOADING", "VERIFYING"}
  /\ completer' = [completer EXCEPT ![h] =
       [pc |-> "begin", u |-> u, final |-> FALSE,
        rec |-> IF sess[u].state = "VERIFYING" THEN sess[u].rec ELSE Record(now)]]
  /\ UNCHANGED <<sess, files, row, nextId, create, writer, cleaner, late, now, answers>>

CompleteLookupTerminal(h, u) ==
  /\ completer[h].pc = "idle"
  /\ create[u] = "announced"
  /\ \/ sess[u].state = "ARCHIVED" /\ answers' = answers \cup {Archived(u, sess[u].rec)}
     \/ sess[u].state = "FAILED" /\ answers' = answers \cup {Failed(u)}
  /\ UNCHANGED <<sess, files, row, nextId, create, writer, completer, cleaner, late, now>>

(* Ready, Resumable and Archived go on, all three with the archived_at and *)
(* path this handler computed at its lookup.                               *)
CompleteBegin(h) ==
  LET j == completer[h]
      status == BeginCompleteStatus(sess[j.u])
  IN
  /\ j.pc = "begin"
  /\ sess' = [sess EXCEPT ![j.u] = BeginComplete(@, j.rec)]
  /\ IF status \in {"Ready", "Resumable", "Archived"} THEN Goto(h, "find", j.rec) ELSE Reply(h)
  /\ answers' = IF status = "Failed" THEN answers \cup {Failed(j.u)} ELSE answers
  /\ UNCHANGED <<files, row, nextId, create, writer, cleaner, late, now>>

CompleteFind(h) ==
  LET j == completer[h] IN
  /\ j.pc = "find"
  /\ IF row[j.u] # None THEN Goto(h, "markArchived", row[j.u]) ELSE Goto(h, "stat", j.rec)
  /\ UNCHANGED <<sess, files, row, nextId, create, writer, cleaner, late, now, answers>>

(* verifyAndArchiveFile, its three system calls apart.                     *)
HasName(u, name, d) == where[u] = name /\ (name = "archive" => day[u] = d)

ArchiveStat(h) ==
  LET j == completer[h] IN
  /\ j.pc = "stat"
  /\ completer' = [completer EXCEPT ![h] =
       [j EXCEPT !.pc = "digest", !.final = HasName(j.u, "archive", j.rec.day)]]
  /\ UNCHANGED <<sess, files, row, nextId, create, writer, cleaner, late, now, answers>>

(* The digest is taken of the final name if it existed, else of temp_path. *)
ArchiveDigest(h) ==
  LET j == completer[h] IN
  /\ j.pc = "digest"
  /\ IF ~HasName(j.u, IF j.final THEN "archive" ELSE "temp", j.rec.day) THEN Reply(h)
     ELSE IF data[j.u] # Declared[j.u] THEN Goto(h, "markFailed", j.rec)
     ELSE Goto(h, IF j.final THEN "insert" ELSE "rename", j.rec)
  /\ UNCHANGED <<sess, files, row, nextId, create, writer, cleaner, late, now, answers>>

ArchiveRename(h) ==
  LET j == completer[h] IN
  /\ j.pc = "rename"
  /\ IF where[j.u] = "temp"
     THEN /\ where' = [where EXCEPT ![j.u] = "archive"]
          /\ day' = [day EXCEPT ![j.u] = j.rec.day]
          /\ Goto(h, "insert", j.rec)
     ELSE Reply(h) /\ UNCHANGED <<where, day>>
  /\ UNCHANGED <<sess, data, row, nextId, create, writer, cleaner, late, now, answers>>

ArchiveIoError(h) ==
  /\ completer[h].pc \in {"digest", "rename"}
  /\ Reply(h)
  /\ UNCHANGED <<sess, files, row, nextId, create, writer, cleaner, late, now, answers>>

(* Inserted, or error 1062: then the existing row is looked up.            *)
CompleteInsertOwnRecord(h) ==
  LET j == completer[h] IN
  /\ j.pc = "insert"
  /\ InsertRow(j.u, j.rec)
  /\ IF row[j.u] = None THEN Goto(h, "markArchived", row'[j.u]) ELSE Goto(h, "markArchived", j.rec)
  /\ UNCHANGED <<sess, files, create, writer, cleaner, late, now, answers>>
CompleteInsert(h) ==
  LET j == completer[h] IN
  /\ j.pc = "insert"
  /\ InsertRow(j.u, j.rec)
  /\ IF row[j.u] = None THEN Goto(h, "markArchived", row'[j.u]) ELSE Goto(h, "resolve", j.rec)
  /\ UNCHANGED <<sess, files, create, writer, cleaner, late, now, answers>>

CompleteResolve(h) ==
  LET j == completer[h] IN
  /\ j.pc = "resolve"
  /\ IF row[j.u] # None THEN Goto(h, "markArchived", row[j.u]) ELSE Reply(h)
  /\ UNCHANGED <<sess, files, row, nextId, create, writer, cleaner, late, now, answers>>

(* Both scripts return 0 when the hash is gone: the client gets a 503.     *)
CompleteMarkArchived(h) ==
  LET j == completer[h] IN
  /\ j.pc = "markArchived"
  /\ sess' = [sess EXCEPT ![j.u] = MarkArchived(@, j.rec)]
  /\ answers' = IF sess[j.u].state = "NONE" THEN answers ELSE answers \cup {Archived(j.u, j.rec)}
  /\ Reply(h)
  /\ UNCHANGED <<files, row, nextId, create, writer, cleaner, late, now>>

CompleteMarkFailed(h) ==
  LET j == completer[h] IN
  /\ j.pc = "markFailed"
  /\ sess' = [sess EXCEPT ![j.u] = MarkFailed(@)]
  /\ answers' = IF sess[j.u].state = "NONE" THEN answers ELSE answers \cup {Failed(j.u)}
  /\ Reply(h)
  /\ UNCHANGED <<files, row, nextId, create, writer, cleaner, late, now>>

CompleteUnavailable(h) ==
  /\ completer[h].pc \in {"begin", "find", "insert", "resolve", "markArchived", "markFailed"}
  /\ \/ UNCHANGED lateComplete
     \/ /\ LateBudget
        /\ completer[h].pc \notin {"find", "resolve"}
        /\ lateComplete' = lateComplete \cup {completer[h]}
  /\ Reply(h)
  /\ UNCHANGED <<sess, files, row, nextId, create, writer, cleaner,
                 lateChunk, lateCreate, lateDelete, now, answers>>

-----------------------------------------------------------------------------
(* The cleanup thread: CleanupService::runOnce for one candidate at a time, *)
(* lookupSession, unlink, deleteSessionKeys.  A candidate is a temp file    *)
(* whose mtime is older than expired_retention: the request that created   *)
(* it, and its Redis command, are over by then.                            *)

CleanupCandidateFresh(u) ==
  /\ cleaner.pc = "idle"
  /\ where[u] = "temp"
  /\ cleaner' = [pc |-> "lookup", u |-> u, terminal |-> FALSE]
  /\ UNCHANGED <<sess, files, row, nextId, create, writer, completer, late, now, answers>>
CleanupCandidate(u) ==
  /\ cleaner.pc = "idle"
  /\ where[u] = "temp"
  /\ create[u] \in {"announced", "closed"}
  /\ u \notin lateCreate
  /\ cleaner' = [pc |-> "lookup", u |-> u, terminal |-> FALSE]
  /\ UNCHANGED <<sess, files, row, nextId, create, writer, completer, late, now, answers>>

(* Active (or Unavailable) skips the candidate. *)
CleanupLookupSkipsMissing ==
  /\ cleaner.pc = "lookup"
  /\ cleaner' = IF sess[cleaner.u].state \in {"FAILED", "ARCHIVED"}
                THEN [cleaner EXCEPT !.pc = "unlink", !.terminal = TRUE] ELSE CleanerIdle
  /\ UNCHANGED <<sess, files, row, nextId, create, writer, completer, late, now, answers>>
CleanupLookup ==
  /\ cleaner.pc = "lookup"
  /\ cleaner' = CASE sess[cleaner.u].state = "NONE" -> [cleaner EXCEPT !.pc = "unlink"]
                  [] sess[cleaner.u].state \in {"FAILED", "ARCHIVED"} ->
                       [cleaner EXCEPT !.pc = "unlink", !.terminal = TRUE]
                  [] OTHER -> CleanerIdle
  /\ UNCHANGED <<sess, files, row, nextId, create, writer, completer, late, now, answers>>

CleanupUnlink ==
  /\ cleaner.pc = "unlink"
  /\ IF where[cleaner.u] = "temp"
     THEN /\ where' = [where EXCEPT ![cleaner.u] = "gone"]
          /\ cleaner' = IF cleaner.terminal THEN [cleaner EXCEPT !.pc = "delete"] ELSE CleanerIdle
     ELSE cleaner' = CleanerIdle /\ UNCHANGED where
  /\ UNCHANGED <<sess, day, data, row, nextId, create, writer, completer, late, now, answers>>

CleanupDelete ==
  /\ cleaner.pc = "delete"
  /\ sess' = [sess EXCEPT ![cleaner.u] = NoSession]
  /\ cleaner' = CleanerIdle
  /\ UNCHANGED <<files, row, nextId, create, writer, completer, late, now, answers>>

CleanupUnavailable ==
  /\ cleaner.pc \in {"lookup", "delete"}
  /\ \/ UNCHANGED lateDelete
     \/ LateBudget /\ cleaner.pc = "delete" /\ lateDelete' = lateDelete \cup {cleaner.u}
  /\ cleaner' = CleanerIdle
  /\ UNCHANGED <<sess, files, row, nextId, create, writer, completer,
                 lateChunk, lateComplete, lateCreate, now, answers>>

-----------------------------------------------------------------------------
(* The environment.                                                        *)

(* Redis and MySQL execute a command nobody waits for any more.            *)
LateChunk(j) ==
  /\ j \in lateChunk
  /\ lateChunk' = lateChunk \ {j}
  /\ sess' = [sess EXCEPT ![j.u] =
       IF j.pc = "begin" THEN BeginChunk(@, j.c, j.d) ELSE FinishChunk(@, j.c, j.d)]
  /\ UNCHANGED <<files, row, nextId, create, writer, completer, cleaner,
                 lateComplete, lateCreate, lateDelete, now, answers>>

LateComplete(j) ==
  /\ j \in lateComplete
  /\ lateComplete' = lateComplete \ {j}
  /\ \/ j.pc = "begin" /\ sess' = [sess EXCEPT ![j.u] = BeginComplete(@, j.rec)]
        /\ UNCHANGED <<row, nextId>>
     \/ j.pc = "markArchived" /\ sess' = [sess EXCEPT ![j.u] = MarkArchived(@, j.rec)]
        /\ UNCHANGED <<row, nextId>>
     \/ j.pc = "markFailed" /\ sess' = [sess EXCEPT ![j.u] = MarkFailed(@)]
        /\ UNCHANGED <<row, nextId>>
     \/ j.pc = "insert" /\ InsertRow(j.u, j.rec) /\ UNCHANGED sess
  /\ UNCHANGED <<files, create, writer, completer, cleaner,
                 lateChunk, lateCreate, lateDelete, now, answers>>

LateCreate(u) ==
  /\ u \in lateCreate
  /\ lateCreate' = lateCreate \ {u}
  /\ sess' = [sess EXCEPT ![u] = CreatedSession]
  /\ UNCHANGED <<files, row, nextId, create, writer, completer, cleaner,
                 lateChunk, lateComplete, lateDelete, now, answers>>

LateDelete(u) ==
  /\ u \in lateDelete
  /\ lateDelete' = lateDelete \ {u}
  /\ sess' = [sess EXCEPT ![u] = NoSession]
  /\ UNCHANGED <<files, row, nextId, create, writer, completer, cleaner,
                 lateChunk, lateComplete, lateCreate, now, answers>>

(* The TTL of the session keys runs out: in any state, at any moment.      *)
Expire(u) ==
  /\ sess[u].state # "NONE"
  /\ sess' = [sess EXCEPT ![u] = NoSession]
  /\ UNCHANGED <<files, row, nextId, create, writer, completer, cleaner, late, now, answers>>

(* datastream_server dies and is started again.                            *)
Crash ==
  /\ \/ \E w \in Writers : writer[w].pc # "idle"
     \/ \E h \in Completers : completer[h].pc # "idle"
     \/ \E u \in Uploads : create[u] \in {"allocated", "unlinking"}
     \/ cleaner.pc # "idle"
  /\ writer' = [w \in Writers |-> WriterIdle]
  /\ completer' = [h \in Completers |-> CompleterIdle]
  /\ cleaner' = CleanerIdle
  /\ create' = [u \in Uploads |->
       IF create[u] \in {"allocated", "unlinking"} THEN "closed" ELSE create[u]]
  /\ UNCHANGED <<sess, files, row, nextId, late, now, answers>>

Tick ==
  /\ now < MaxTime
  /\ now' = now + 1
  /\ UNCHANGED <<sess, files, row, nextId, create, writer, completer, cleaner, late, answers>>

-----------------------------------------------------------------------------

Init ==
  /\ sess = [u \in Uploads |-> NoSession]
  /\ where = [u \in Uploads |-> "none"]
  /\ day = [u \in Uploads |-> 0]
  /\ data = [u \in Uploads |-> [c \in Chunks |-> None]]
  /\ row = [u \in Uploads |-> None]
  /\ nextId = 1
  /\ create = [u \in Uploads |-> "new"]
  /\ writer = [w \in Writers |-> WriterIdle]
  /\ completer = [h \in Completers |-> CompleterIdle]
  /\ cleaner = CleanerIdle
  /\ lateChunk = {} /\ lateComplete = {} /\ lateCreate = {} /\ lateDelete = {}
  /\ now = 1
  /\ answers = {}

CreateRequest(u) == CreateAllocate(u) \/ CreateSession(u) \/ CreateRejected(u) \/ CreateUnlink(u)

ChunkRequest(w) ==
  \/ \E u \in Uploads, c \in Chunks, d \in Data : ChunkLookup(w, u, c, d)
  \/ ChunkBegin(w) \/ ChunkOpen(w) \/ ChunkWrite(w) \/ ChunkWriteFailed(w)
  \/ ChunkFinish(w) \/ ChunkUnavailable(w)

CompleteRequest(h) ==
  \/ \E u \in Uploads : CompleteLookup(h, u) \/ CompleteLookupTerminal(h, u)
  \/ CompleteBegin(h) \/ CompleteFind(h)
  \/ ArchiveStat(h) \/ ArchiveDigest(h) \/ ArchiveRename(h) \/ ArchiveIoError(h)
  \/ CompleteInsert(h) \/ CompleteResolve(h)
  \/ CompleteMarkArchived(h) \/ CompleteMarkFailed(h) \/ CompleteUnavailable(h)

Cleanup ==
  \/ \E u \in Uploads : CleanupCandidate(u)
  \/ CleanupLookup \/ CleanupUnlink \/ CleanupDelete \/ CleanupUnavailable

LateCommand ==
  \/ \E j \in lateChunk : LateChunk(j)
  \/ \E j \in lateComplete : LateComplete(j)
  \/ \E u \in Uploads : LateCreate(u) \/ LateDelete(u)

Next ==
  \/ \E u \in Uploads : CreateRequest(u) \/ Expire(u)
  \/ \E w \in Writers : ChunkRequest(w)
  \/ \E h \in Completers : CompleteRequest(h)
  \/ Cleanup
  \/ LateCommand
  \/ Crash
  \/ Tick

Spec == Init /\ [][Next]_vars

-----------------------------------------------------------------------------
(* Properties *)

(* Every variable keeps the shape the code gives it. *)
TypeOK ==
  /\ sess \in [Uploads -> Sessions]
  /\ where \in [Uploads -> {"none", "temp", "archive", "gone"}]
  /\ day \in [Uploads -> Nat]
  /\ data \in [Uploads -> [Chunks -> Data \cup {None}]]
  /\ row \in [Uploads -> Records \cup {None}]
  /\ nextId \in Nat
  /\ create \in [Uploads -> {"new", "allocated", "unlinking", "announced", "closed"}]
  /\ writer \in [Writers -> WriterRecords]
  /\ completer \in [Completers -> CompleterRecords]
  /\ cleaner \in CleanerRecords
  /\ lateChunk \subseteq WriterRecords
  /\ lateComplete \subseteq CompleterRecords
  /\ lateCreate \subseteq Uploads
  /\ lateDelete \subseteq Uploads
  /\ now \in Nat
  /\ answers \subseteq Answers

(* What MySQL lists is on disk: an archive_file row names a file that      *)
(* exists under the date directory the row records and holds exactly the   *)
(* content declared at creation, whatever crashed, expired or raced.       *)
ArchivedFileIntact ==
  \A u \in Uploads : row[u] # None =>
    /\ where[u] = "archive" /\ day[u] = row[u].day
    /\ data[u] = Declared[u]

(* The bitmap never runs ahead of the file: while the session lives, a set *)
(* bit means the chunk is on disk with the digest Redis registered for it, *)
(* although BeginChunk, pwrite and FinishChunk are three separate steps.   *)
BitmapBehindFile ==
  \A u \in Uploads : \A c \in sess[u].bits :
    sess[u].digest[c] # None /\ data[u][c] = sess[u].digest[c]

(* Repeated and concurrent completes agree: every success answer for an    *)
(* upload carries the archive_id and archived_at of its one MySQL row, and *)
(* no client was ever told that an archived upload failed.                 *)
AnswersAgree ==
  \A a \in answers :
    IF a.verdict = "ARCHIVED" THEN row[a.u] = a.rec ELSE row[a.u] = None

(* The terminal session states follow MySQL: ARCHIVED shows the row, and   *)
(* FAILED excludes one, although MarkArchived and MarkFailed overwrite any *)
(* state and may be executed long after their handler gave up.             *)
TerminalFollowsMySql ==
  \A u \in Uploads :
    /\ sess[u].state = "ARCHIVED" => row[u] # None /\ sess[u].rec = row[u]
    /\ sess[u].state = "FAILED" => row[u] = None

(* An upload a client knows of can go on: UPLOADING has its temp file,     *)
(* VERIFYING has its file under one of its two names.                      *)
LiveUploadHasFile ==
  \A u \in Uploads : create[u] = "announced" =>
    /\ sess[u].state = "UPLOADING" => where[u] = "temp"
    /\ sess[u].state = "VERIFYING" => where[u] \in {"temp", "archive"}

(* No retry finds this file: it lies under another day than the session    *)
(* says, and no row tells.                                                 *)
Stranded(u) ==
  /\ sess[u].state = "VERIFYING" /\ row[u] = None
  /\ where[u] = "archive" /\ day[u] # sess[u].rec.day

(* VERIFYING can be resumed: when no complete handler is at work on the    *)
(* upload and MySQL has no row, the file is where the next retry will look *)
(* for it, under temp_path or under the path stored in the session.  The   *)
(* code does not keep this across midnight: a handler that found the       *)
(* session UPLOADING goes on with its own date although BeginComplete      *)
(* answered Resumable, renames the file there, and crashes before INSERT.  *)
VerifyingIsResumable ==
  \A u \in Uploads : Stranded(u) => \E h \in Completers : completer[h].u = u

(* Once archived, a file is never renamed, removed or changed, not even by *)
(* a chunk writer that opened it before the rename; a row never changes.   *)
ArchiveImmutable ==
  [][\A u \in Uploads :
       /\ where[u] = "archive" => where'[u] = "archive" /\ day'[u] = day[u] /\ data'[u] = data[u]
       /\ row[u] # None => row'[u] = row[u]]_vars

(* The states of a session only move forward, and a terminal session is    *)
(* left only by losing its keys.                                           *)
Rank(state) == CASE state = "UPLOADING" -> 1 [] state = "VERIFYING" -> 2
                 [] state \in {"ARCHIVED", "FAILED"} -> 3 [] OTHER -> 4
SessionMovesForward ==
  [][\A u \in Uploads : create[u] = "announced" =>
       \/ sess'[u].state = sess[u].state
       \/ Rank(sess[u].state) < Rank(sess'[u].state)]_vars

(* The cleanup thread decides on a lookup that is stale when it unlinks;   *)
(* still no step takes the temp file of an upload in progress away.        *)
LiveFileNotRemoved ==
  [][\A u \in Uploads :
       create[u] = "announced" /\ sess[u].state \in {"UPLOADING", "VERIFYING"}
         => where'[u] # "gone"]_vars

(* The server implements ArchiveLedger: a reader who follows the           *)
(* relative_path of a row reads the declared content, from the moment the  *)
(* row exists and for ever, ids are never shared, and the verdicts given   *)
(* to clients follow the rows.                                             *)
Readable(u) ==
  IF row[u] = None THEN None
  ELSE [rec |-> row[u],
        content |-> IF where[u] = "archive" /\ day[u] = row[u].day THEN data[u] ELSE None]
Ledger == INSTANCE ArchiveLedger WITH ledger <- [u \in Uploads |-> Readable(u)]
ImplementsLedger == Ledger!Spec

-----------------------------------------------------------------------------
(* Liveness.  The collector retries complete for ever with a capped back-  *)
(* off, and Redis, MySQL, the disk and the process do not fail every time: *)
(* each step of a complete request that is attempted again and again       *)
(* eventually succeeds.  The cleanup thread runs again and again.  A TTL   *)
(* that is no longer refreshed runs out.                                   *)

RetriedComplete(h) ==
  /\ SF_vars(\E u \in Uploads : CompleteLookup(h, u))
  /\ SF_vars(CompleteBegin(h)) /\ SF_vars(CompleteFind(h))
  /\ SF_vars(ArchiveStat(h)) /\ SF_vars(ArchiveDigest(h)) /\ SF_vars(ArchiveRename(h))
  /\ SF_vars(CompleteInsert(h)) /\ SF_vars(CompleteResolve(h))
  /\ SF_vars(CompleteMarkArchived(h)) /\ SF_vars(CompleteMarkFailed(h))

RepeatedCleanup ==
  /\ \A u \in Uploads : SF_vars(CleanupCandidate(u))
  /\ SF_vars(CleanupLookup) /\ SF_vars(CleanupUnlink)

Ageing ==
  \A u \in Uploads :
    /\ WF_vars(Expire(u)) /\ WF_vars(LateCreate(u))
    /\ WF_vars(CreateSession(u) \/ CreateRejected(u)) /\ WF_vars(CreateUnlink(u))

(* A session in VERIFYING is settled by the retries: whatever step of the  *)
(* complete handler failed or crashed, VERIFYING is left for ARCHIVED or   *)
(* FAILED, or the session expires first, or the file stays stranded under  *)
(* another day than the session's: the one case that retries never get out *)
(* of (VerifyingIsResumable).                                              *)
VerifyingIsSettled ==
  (\A h \in Completers : RetriedComplete(h)) =>
    \A u \in Uploads : []<>(sess[u].state # "VERIFYING") \/ <>[]Stranded(u)

(* No temp file is kept for ever: crashed creates, expired sessions and    *)
(* failed uploads all give their disk space back.                          *)
TempFileLeaves ==
  RepeatedCleanup /\ Ageing => \A u \in Uploads : []<>(where[u] # "temp")

=============================================================================
