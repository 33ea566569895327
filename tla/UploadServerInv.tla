-------------------------- MODULE UploadServerInv --------------------------
(***************************************************************************)
(* The inductive invariant of UploadServer.                                *)
(*                                                                         *)
(* The argument: BeginChunk registers one digest per chunk before any byte *)
(* is written, so all writers of a chunk, late ones included, write the    *)
(* same bytes.  When BeginComplete sees the full bitmap the content is     *)
(* therefore final, although writers may still be running.  From then on   *)
(* every digest of the file gives the same verdict, which is why           *)
(* MarkFailed and MarkArchived need not look at the state they overwrite.  *)
(***************************************************************************)
EXTENDS UploadServer

(* Running handlers and the commands that outlived theirs. *)
WriterJobs == {writer[w] : w \in Writers} \cup lateChunk
CompleterJobs == {completer[h] : h \in Completers} \cup lateComplete

Registered(j) == j.pc \in {"open", "write", "finish"}
PastBegin(j) == j.pc \notin {"idle", "begin"}

(* The content of u is final: complete, closed to new writers, and every   *)
(* writer still running rewrites what is there.                            *)
Final(u) ==
  /\ create[u] = "announced"
  /\ sess[u].state # "UPLOADING"
  /\ \A c \in Chunks : data[u][c] # None
  /\ \A j \in WriterJobs : j.u = u /\ Registered(j) => j.d = data[u][j.c]

(* What a chunk handler, or its late command, relies on. *)
WriterClaim(j) ==
  j.pc # "idle" =>
    /\ j.u \in Uploads /\ j.c \in Chunks /\ j.d \in Data
    /\ create[j.u] = "announced"
    /\ Registered(j) /\ sess[j.u].state = "UPLOADING" => sess[j.u].digest[j.c] = j.d
    /\ j.pc = "finish" /\ sess[j.u].state = "UPLOADING" => data[j.u][j.c] = j.d

(* What a complete handler, or its late command, has established. *)
CompleterClaim(j) ==
  j.pc # "idle" =>
    /\ j.u \in Uploads /\ j.rec \in Records
    /\ create[j.u] = "announced"
    /\ PastBegin(j) => Final(j.u)
    /\ (j.pc = "digest" /\ j.final) \/ j.pc = "insert" =>
         where[j.u] = "archive" /\ day[j.u] = j.rec.day
    /\ j.pc \in {"rename", "insert"} => data[j.u] = Declared[j.u]
    /\ j.pc = "resolve" => row[j.u] # None
    /\ j.pc = "markArchived" => row[j.u] = j.rec
    /\ j.pc = "markFailed" => data[j.u] # Declared[j.u]

JobsInv ==
  /\ \A j \in WriterJobs : WriterClaim(j)
  /\ \A j \in CompleterJobs : CompleterClaim(j)
  /\ \A j \in lateChunk : j.pc \in {"begin", "finish"}
  /\ \A j \in lateComplete : j.pc \in {"begin", "insert", "markArchived", "markFailed"}

(* A createSession command without a handler; an upload that was not       *)
(* announced has at most an empty session.                                 *)
CreateInv ==
  /\ \A u \in lateCreate : create[u] \in {"unlinking", "closed"} /\ sess[u].state = "NONE"
  /\ \A u \in Uploads :
       /\ create[u] # "announced" => sess[u] \in {NoSession, CreatedSession}
       /\ sess[u].state = "NONE" => sess[u].bits = {}
       /\ create[u] \in {"allocated", "unlinking"} => where[u] = "temp"
       /\ create[u] \in {"new", "allocated"} => sess[u] = NoSession

(* Whatever lies behind BeginComplete presupposes final content. *)
FinalInv ==
  /\ \A u \in Uploads :
       \/ sess[u].state \in {"VERIFYING", "ARCHIVED", "FAILED"}
       \/ where[u] = "archive"
       \/ row[u] # None
       => Final(u)
  /\ \A a \in answers : Final(a.u)

(* Verdicts follow the content: ARCHIVED shows the row, FAILED means that  *)
(* the content is not the declared one.                                    *)
VerdictInv ==
  /\ \A u \in Uploads :
       /\ sess[u].state = "VERIFYING" => sess[u].rec \in Records
       /\ sess[u].state = "ARCHIVED" => row[u] # None /\ sess[u].rec = row[u]
       /\ sess[u].state = "FAILED" => data[u] # Declared[u]
  /\ \A a \in answers :
       IF a.verdict = "ARCHIVED" THEN row[a.u] # None /\ a.rec = row[a.u]
       ELSE a.rec = None /\ data[a.u] # Declared[a.u]

(* Rows have ids of their own. *)
RowInv ==
  /\ \A u \in Uploads : row[u] # None => row[u].id < nextId
  /\ \A u, v \in Uploads : u # v /\ row[u] # None /\ row[v] # None => row[u].id # row[v].id

(* The cleanup thread is never at work on an upload in progress. *)
CleanerInv ==
  cleaner.pc # "idle" =>
    /\ cleaner.u \in Uploads /\ cleaner.u \notin lateCreate
    /\ create[cleaner.u] \in {"announced", "closed"}
    /\ cleaner.pc \in {"unlink", "delete"} /\ create[cleaner.u] = "announced" =>
         sess[cleaner.u].state \notin {"UPLOADING", "VERIFYING"}

(* The inductive invariant: everything above and the properties it carries. *)
IInv ==
  /\ TypeOK
  /\ JobsInv
  /\ CreateInv
  /\ BitmapBehindFile
  /\ FinalInv
  /\ ArchivedFileIntact
  /\ VerdictInv
  /\ RowInv
  /\ LiveUploadHasFile
  /\ CleanerInv

(* What every step of every actor leaves alone in an announced upload: a   *)
(* session never returns to UPLOADING and keeps its registered digests,    *)
(* only a registered writer of a chunk changes it, archived files and rows *)
(* stay as they are, a file in use is not removed and session states move  *)
(* forward.                                                                *)
Benign ==
  \A u \in Uploads : create[u] = "announced" =>
    /\ create'[u] = "announced"
    /\ sess'[u].state = "UPLOADING" =>
         /\ sess[u].state = "UPLOADING"
         /\ \A c \in Chunks : sess[u].digest[c] # None => sess'[u].digest[c] = sess[u].digest[c]
    /\ \A c \in Chunks : data'[u][c] # data[u][c] =>
         \E j \in WriterJobs : Registered(j) /\ j.u = u /\ j.c = c /\ j.d # data[u][c]
    /\ where[u] = "archive" => where'[u] = "archive" /\ day'[u] = day[u]
    /\ row[u] # None => row'[u] = row[u]
    /\ sess[u].state \in {"UPLOADING", "VERIFYING"} => where'[u] # "gone"
    /\ sess'[u].state = sess[u].state \/ Rank(sess[u].state) < Rank(sess'[u].state)
=============================================================================
