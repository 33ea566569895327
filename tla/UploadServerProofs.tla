------------------------- MODULE UploadServerProofs -------------------------
(***************************************************************************)
(* TLAPS proofs about UploadServer, for every set of uploads, chunks,      *)
(* contents and handlers and every bound.                                  *)
(***************************************************************************)
EXTENDS UploadServerInv, TLAPS

-----------------------------------------------------------------------------
(* What the Lua scripts do to a session.                                   *)

(* kBeginChunkScript changes nothing but a digest that was not registered  *)
(* yet, and only while the session is UPLOADING.                           *)
LEMMA BeginChunkFacts ==
  ASSUME NEW s \in Sessions, NEW c \in Chunks, NEW d \in Data, NEW t, t = BeginChunk(s, c, d)
  PROVE  /\ t \in Sessions
         /\ t.state = s.state /\ t.rec = s.rec /\ t.bits = s.bits
         /\ \A e \in Chunks : s.digest[e] # None => t.digest[e] = s.digest[e]
         /\ s.state # "UPLOADING" => t = s
         /\ BeginChunkStatus(s, c, d) = "Writable" => s.state = "UPLOADING" /\ t.digest[c] = d
<1>1. CASE BeginChunkStatus(s, c, d) = "Writable"
  <2>1. s.state = "UPLOADING" /\ s.digest[c] \in {None, d}
    BY <1>1 DEF BeginChunkStatus, Sessions
  <2>2. t = [s EXCEPT !.digest = [s.digest EXCEPT ![c] = d]]
    BY <1>1 DEF BeginChunk
  <2>3. QED
    BY <2>1, <2>2, NoneAssumption DEF Sessions
<1>2. CASE BeginChunkStatus(s, c, d) # "Writable"
  BY <1>2 DEF BeginChunk
<1>3. QED
  BY <1>1, <1>2

(* kFinishChunkScript changes nothing but the bit of a chunk registered    *)
(* with the same digest, and only while the session is UPLOADING.          *)
LEMMA FinishChunkFacts ==
  ASSUME NEW s \in Sessions, NEW c \in Chunks, NEW d, NEW t, t = FinishChunk(s, c, d)
  PROVE  /\ t \in Sessions
         /\ t.state = s.state /\ t.rec = s.rec /\ t.digest = s.digest
         /\ t.bits \subseteq s.bits \cup {c}
         /\ t = s \/ (s.state = "UPLOADING" /\ s.digest[c] = d)
  BY DEF FinishChunk, Sessions

(* kBeginCompleteScript moves an UPLOADING session with a full bitmap to   *)
(* VERIFYING and changes no other.                                         *)
LEMMA BeginCompleteFacts ==
  ASSUME NEW s \in Sessions, NEW rec \in Records, NEW t, t = BeginComplete(s, rec)
  PROVE  /\ t \in Sessions
         /\ t.bits = s.bits /\ t.digest = s.digest
         /\ \/ t = s
            \/ s.state = "UPLOADING" /\ s.bits = Chunks /\ t.state = "VERIFYING" /\ t.rec = rec
         /\ BeginCompleteStatus(s) \in {"Ready", "Resumable", "Archived"} =>
              t.state \in {"VERIFYING", "ARCHIVED"}
         /\ BeginCompleteStatus(s) = "Failed" => s.state = "FAILED"
<1>1. CASE BeginCompleteStatus(s) = "Ready"
  <2>1. s.state = "UPLOADING" /\ s.bits = Chunks
    BY <1>1 DEF BeginCompleteStatus, Sessions
  <2>2. t = [s EXCEPT !.state = "VERIFYING", !.rec = rec]
    BY <1>1 DEF BeginComplete
  <2>3. QED
    BY <2>1, <2>2, <1>1 DEF Sessions
<1>2. CASE BeginCompleteStatus(s) # "Ready"
  <2>1. t = s
    BY <1>2 DEF BeginComplete
  <2>2. QED
    BY <1>2, <2>1 DEF BeginCompleteStatus, Sessions
<1>3. QED
  BY <1>1, <1>2

(* kMarkArchivedScript and kMarkFailedScript keep bitmap and digests.      *)
LEMMA MarkFacts ==
  ASSUME NEW s \in Sessions, NEW rec \in Records
  PROVE  /\ MarkArchived(s, rec) \in Sessions /\ MarkFailed(s) \in Sessions
         /\ MarkArchived(s, rec).bits = s.bits /\ MarkFailed(s).bits = s.bits
         /\ MarkArchived(s, rec).digest = s.digest /\ MarkFailed(s).digest = s.digest
         /\ s.state = "NONE" => MarkArchived(s, rec) = s /\ MarkFailed(s) = s
         /\ s.state # "NONE" => /\ MarkArchived(s, rec).state = "ARCHIVED"
                                /\ MarkArchived(s, rec).rec = rec
                                /\ MarkFailed(s).state = "FAILED"
                                /\ MarkFailed(s).rec = s.rec
  BY DEF MarkArchived, MarkFailed, Sessions

(* The two fixed sessions: no hash at all, and a freshly created hash.     *)
LEMMA SessionConstants ==
  /\ NoSession \in Sessions /\ CreatedSession \in Sessions
  /\ NoSession.state = "NONE" /\ CreatedSession.state = "UPLOADING"
  /\ NoSession.bits = {} /\ CreatedSession.bits = {}
  BY DEF NoSession, CreatedSession, Sessions

-----------------------------------------------------------------------------
(* Jobs: a step of a handler adds at most its new record, and a command    *)
(* that becomes late is the record its handler already had.                *)

(* A chunk handler that moves to j, leaving its command behind or not,     *)
(* adds at most j to the jobs.                                             *)
LEMMA WriterMoves ==
  ASSUME NEW w \in Writers, NEW j, writer \in [Writers -> WriterRecords],
         writer' = [writer EXCEPT ![w] = j],
         lateChunk' = lateChunk \/ lateChunk' = lateChunk \cup {writer[w]}
  PROVE  WriterJobs' \subseteq WriterJobs \cup {j}
  BY DEF WriterJobs

(* The same for a complete handler.                                        *)
LEMMA CompleterMoves ==
  ASSUME NEW h \in Completers, NEW j, completer \in [Completers -> CompleterRecords],
         completer' = [completer EXCEPT ![h] = j],
         lateComplete' = lateComplete \/ lateComplete' = lateComplete \cup {completer[h]}
  PROVE  CompleterJobs' \subseteq CompleterJobs \cup {j}
  BY DEF CompleterJobs

-----------------------------------------------------------------------------
(* Rely: a benign step keeps final content final and every claim true.     *)
(* k is the record of the chunk handler that moved; if it is registered    *)
(* its upload is still UPLOADING or it merely continues a registered job.  *)

MovedWriter(k) ==
  Registered(k) =>
    \/ k.u \in Uploads /\ sess[k.u].state = "UPLOADING"
    \/ \E j \in WriterJobs : Registered(j) /\ j.u = k.u /\ j.c = k.c /\ j.d = k.d

(* Final content survives every benign step, byte for byte.                *)
LEMMA FinalKept ==
  ASSUME IInv, TypeOK', Benign, NEW k, MovedWriter(k), WriterJobs' \subseteq WriterJobs \cup {k},
         NEW u \in Uploads, Final(u)
  PROVE  Final(u)' /\ data'[u] = data[u]
<1>1. \A c \in Chunks : data'[u][c] = data[u][c]
  BY DEF Benign, Final
<1>2. data'[u] = data[u]
  BY <1>1 DEF IInv, TypeOK
<1>3. create'[u] = "announced" /\ sess'[u].state # "UPLOADING"
  BY DEF Benign, Final
<1>4. ASSUME NEW j \in WriterJobs', j.u = u, Registered(j)
      PROVE  j.d = data[u][j.c]
  BY <1>4 DEF Final, MovedWriter, Registered
<1>5. QED
  BY <1>1, <1>2, <1>3, <1>4 DEF Final, Registered

(* What a chunk handler relies on survives every benign step of the        *)
(* others.                                                                 *)
LEMMA WriterClaimKept ==
  ASSUME IInv, TypeOK', Benign, NEW j \in WriterJobs
  PROVE  WriterClaim(j)'
<1>1. WriterClaim(j)
  BY DEF IInv, JobsInv
<1>2. SUFFICES ASSUME j.pc # "idle" PROVE WriterClaim(j)'
  BY DEF WriterClaim
<1>3. /\ j.u \in Uploads /\ j.c \in Chunks /\ j.d \in Data
      /\ create[j.u] = "announced" /\ create'[j.u] = "announced"
  BY <1>1, <1>2 DEF WriterClaim, Benign
<1>4. ASSUME Registered(j), sess'[j.u].state = "UPLOADING"
      PROVE  sess[j.u].state = "UPLOADING" /\ sess[j.u].digest[j.c] = j.d
             /\ sess'[j.u].digest[j.c] = j.d
  BY <1>1, <1>2, <1>3, <1>4, NoneAssumption DEF WriterClaim, Benign
<1>5. ASSUME j.pc = "finish", sess'[j.u].state = "UPLOADING"
      PROVE  data'[j.u][j.c] = j.d
  <2>1. Registered(j) /\ sess[j.u].state = "UPLOADING" /\ data[j.u][j.c] = j.d
    BY <1>1, <1>2, <1>4, <1>5 DEF WriterClaim, Registered
  <2>2. SUFFICES ASSUME data'[j.u][j.c] # data[j.u][j.c] PROVE FALSE
    BY <2>1
  <2>3. PICK i \in WriterJobs : Registered(i) /\ i.u = j.u /\ i.c = j.c /\ i.d # data[j.u][j.c]
    BY <1>3, <2>2 DEF Benign
  <2>4. sess[j.u].digest[j.c] = i.d
    BY <2>1, <2>3 DEF IInv, JobsInv, WriterClaim, Registered
  <2>5. QED
    BY <1>4, <1>5, <2>1, <2>3, <2>4
<1>6. QED
  BY <1>2, <1>3, <1>4, <1>5 DEF WriterClaim, Registered

(* What a complete handler has established survives every benign step of   *)
(* the others.                                                             *)
LEMMA CompleterClaimKept ==
  ASSUME IInv, TypeOK', Benign, NEW k, MovedWriter(k), WriterJobs' \subseteq WriterJobs \cup {k},
         NEW j \in CompleterJobs
  PROVE  CompleterClaim(j)'
<1>1. CompleterClaim(j)
  BY DEF IInv, JobsInv
<1>2. SUFFICES ASSUME j.pc # "idle" PROVE CompleterClaim(j)'
  BY DEF CompleterClaim
<1>3. j.u \in Uploads /\ j.rec \in Records /\ create[j.u] = "announced" /\ create'[j.u] = "announced"
  BY <1>1, <1>2 DEF CompleterClaim, Benign
<1>4. PastBegin(j) => Final(j.u)' /\ data'[j.u] = data[j.u]
  BY <1>1, <1>2, <1>3, FinalKept DEF CompleterClaim
<1>5. QED
  BY <1>1, <1>2, <1>3, <1>4, NoneIsNoRecord DEF CompleterClaim, Benign, PastBegin

-----------------------------------------------------------------------------
(* Steps that only move a handler: nothing shared changes.                 *)

(* A step that moves one handler and leaves Redis, MySQL and the files     *)
(* alone keeps the invariant if the new record is entitled to its claim.   *)
LEMMA HandlerStep ==
  ASSUME IInv, TypeOK',
         UNCHANGED <<sess, where, day, data, row, nextId, create, cleaner, lateCreate, answers>>,
         NEW k, MovedWriter(k), WriterClaim(k), WriterJobs' \subseteq WriterJobs \cup {k},
         NEW m, CompleterClaim(m), CompleterJobs' \subseteq CompleterJobs \cup {m},
         \A j \in lateChunk' : j.pc \in {"begin", "finish"},
         \A j \in lateComplete' : j.pc \in {"begin", "insert", "markArchived", "markFailed"}
  PROVE  IInv' /\ Benign
<1>1. Benign
  BY DEF Benign, IInv, LiveUploadHasFile
<1>2. \A u \in Uploads : Final(u) => Final(u)'
  BY <1>1, FinalKept
<1>3. WriterClaim(k)'
  BY DEF WriterClaim
<1>4. CompleterClaim(m)'
  BY <1>2 DEF CompleterClaim
<1>5. JobsInv'
  BY <1>1, <1>3, <1>4, WriterClaimKept, CompleterClaimKept DEF JobsInv
<1>6. FinalInv'
  <2>1. \A a \in answers : a.u \in Uploads
    BY DEF IInv, TypeOK, Answers
  <2>2. QED
    BY <1>2, <2>1 DEF IInv, FinalInv
<1>7. CreateInv' /\ BitmapBehindFile' /\ ArchivedFileIntact' /\ VerdictInv'
  BY DEF IInv, CreateInv, BitmapBehindFile, ArchivedFileIntact, VerdictInv
<1>8. RowInv' /\ LiveUploadHasFile' /\ CleanerInv'
  BY DEF IInv, RowInv, LiveUploadHasFile, CleanerInv
<1>9. QED
  BY <1>1, <1>5, <1>6, <1>7, <1>8 DEF IInv

-----------------------------------------------------------------------------
(* Steps that change one session and possibly give an answer: s is the new *)
(* session of v, k and m are the new records of the handlers that moved.   *)

SessionGuarantee(v, s) ==
  /\ create[v] = "announced" \/ s = NoSession
  /\ s.state = "UPLOADING" =>
       /\ sess[v].state = "UPLOADING"
       /\ \A c \in Chunks : sess[v].digest[c] # None => s.digest[c] = sess[v].digest[c]
  /\ s.state = "VERIFYING" =>
       /\ s.rec \in Records
       /\ \/ sess[v].state = "VERIFYING"
          \/ sess[v].state = "UPLOADING" /\ sess[v].bits = Chunks
  /\ s.state = "ARCHIVED" => Final(v) /\ row[v] # None /\ s.rec = row[v]
  /\ s.state = "FAILED" => Final(v) /\ data[v] # Declared[v]
  /\ sess[v].state = "NONE" => s.state = "NONE"
  /\ s.state = "NONE" => s.bits = {}
  /\ \A c \in s.bits : s.digest[c] # None /\ data[v][c] = s.digest[c]

AnswerGuarantee(a) ==
  /\ a.u \in Uploads /\ Final(a.u)
  /\ IF a.verdict = "ARCHIVED" THEN row[a.u] # None /\ a.rec = row[a.u]
     ELSE a.rec = None /\ data[a.u] # Declared[a.u]

WriterGuarantee(k) ==
  /\ MovedWriter(k) /\ WriterClaim(k)' /\ WriterJobs' \subseteq WriterJobs \cup {k}
  /\ Registered(k) => sess[k.u].state = "UPLOADING" /\ sess'[k.u].state = "UPLOADING"
  /\ \A j \in lateChunk' : j.pc \in {"begin", "finish"}

CompleterGuarantee(v, s, m) ==
  /\ CompleterJobs' \subseteq CompleterJobs \cup {m}
  /\ \/ m.pc = "idle"
     \/ /\ m.pc = "find" /\ m.u = v /\ m.rec \in Records /\ create[v] = "announced"
        /\ s.state \in {"VERIFYING", "ARCHIVED"}
  /\ \A j \in lateComplete' : j.pc \in {"begin", "insert", "markArchived", "markFailed"}

(* A step that changes the session of one upload within SessionGuarantee   *)
(* keeps the invariant.                                                    *)
LEMMA SessionStep ==
  ASSUME IInv, TypeOK', NEW v \in Uploads, NEW s \in Sessions, SessionGuarantee(v, s),
         sess' = [sess EXCEPT ![v] = s],
         UNCHANGED <<where, day, data, row, nextId, create, lateCreate>>,
         cleaner' = cleaner \/ cleaner' = CleanerIdle,
         \A a \in answers' : a \in answers \/ AnswerGuarantee(a),
         NEW k, WriterGuarantee(k), NEW m, CompleterGuarantee(v, s, m)
  PROVE  IInv' /\ Benign
<1>0. sess \in [Uploads -> Sessions] /\ sess'[v] = s /\ \A u \in Uploads \ {v} : sess'[u] = sess[u]
  BY DEF IInv, TypeOK
<1>1. s.state = sess[v].state \/ Rank(sess[v].state) < Rank(s.state)
  <2>1. sess[v].state = "ARCHIVED" => s.state # "FAILED"
    BY DEF IInv, VerdictInv, ArchivedFileIntact, SessionGuarantee
  <2>2. sess[v].state = "FAILED" => s.state # "ARCHIVED"
    BY DEF IInv, VerdictInv, ArchivedFileIntact, SessionGuarantee
  <2>3. sess[v].state \in {"NONE", "UPLOADING", "VERIFYING", "ARCHIVED", "FAILED"}
    BY <1>0 DEF Sessions
  <2>4. s.state \in {"NONE", "UPLOADING", "VERIFYING", "ARCHIVED", "FAILED"}
    BY DEF Sessions
  <2>5. QED
    BY <2>1, <2>2, <2>3, <2>4 DEF Rank, SessionGuarantee
<1>2. Benign
  BY <1>0, <1>1 DEF Benign, IInv, LiveUploadHasFile, SessionGuarantee
<1>3. ASSUME NEW u \in Uploads, Final(u) PROVE Final(u)'
  BY <1>2, <1>3, FinalKept DEF WriterGuarantee
<1>4. s.state \in {"VERIFYING", "ARCHIVED", "FAILED"} => Final(v)'
  <2>1. CASE s.state \in {"ARCHIVED", "FAILED"} \/ sess[v].state = "VERIFYING"
    BY <2>1, <1>3 DEF IInv, FinalInv, SessionGuarantee
  <2>2. CASE s.state = "VERIFYING" /\ sess[v].state = "UPLOADING" /\ sess[v].bits = Chunks
    <3>1. \A c \in Chunks : data[v][c] # None /\ data[v][c] = sess[v].digest[c]
      BY <2>2 DEF IInv, BitmapBehindFile
    <3>2. ASSUME NEW j \in WriterJobs', j.u = v, Registered(j)
          PROVE  j.d = data[v][j.c]
      <4>1. j \in WriterJobs
        BY <3>2, <2>2, <1>0 DEF WriterGuarantee
      <4>2. WriterClaim(j)
        BY <4>1 DEF IInv, JobsInv
      <4>3. QED
        BY <4>2, <3>1, <3>2, <2>2 DEF WriterClaim, Registered
    <3>3. create'[v] = "announced" /\ sess'[v].state # "UPLOADING"
      BY <2>2, <1>0, SessionConstants DEF SessionGuarantee
    <3>4. QED
      BY <3>1, <3>2, <3>3 DEF Final, Registered
  <2>3. QED
    BY <2>1, <2>2 DEF SessionGuarantee
<1>5. CompleterClaim(m)'
  BY <1>4 DEF CompleterClaim, PastBegin, CompleterGuarantee
<1>6. JobsInv'
  BY <1>2, <1>5, WriterClaimKept, CompleterClaimKept
     DEF JobsInv, WriterGuarantee, CompleterGuarantee
<1>7. FinalInv'
  <2>1. \A a \in answers' : a.u \in Uploads /\ Final(a.u)
    BY DEF IInv, TypeOK, Answers, FinalInv, AnswerGuarantee
  <2>2. ASSUME NEW u \in Uploads,
               \/ sess'[u].state \in {"VERIFYING", "ARCHIVED", "FAILED"}
               \/ where'[u] = "archive" \/ row'[u] # None
        PROVE  Final(u)'
    BY <2>2, <1>0, <1>3, <1>4 DEF IInv, FinalInv
  <2>3. QED
    BY <1>3, <2>1, <2>2 DEF FinalInv
<1>8. CreateInv'
  BY <1>0, SessionConstants DEF IInv, CreateInv, SessionGuarantee
<1>9. BitmapBehindFile'
  BY <1>0 DEF IInv, BitmapBehindFile, SessionGuarantee
<1>10. VerdictInv'
  BY <1>0 DEF IInv, VerdictInv, SessionGuarantee, AnswerGuarantee
<1>11. ArchivedFileIntact' /\ RowInv'
  BY DEF IInv, ArchivedFileIntact, RowInv
<1>12. LiveUploadHasFile'
  BY <1>0 DEF IInv, LiveUploadHasFile, SessionGuarantee
<1>13. CleanerInv'
  BY <1>0 DEF IInv, CleanerInv, CleanerIdle, SessionGuarantee
<1>14. QED
  BY <1>2, <1>6, <1>7, <1>8, <1>9, <1>10, <1>11, <1>12, <1>13 DEF IInv

-----------------------------------------------------------------------------
(* A session that keeps its state and record keeps what they stand for.    *)
KeptState(u, s) ==
  /\ s.state = "VERIFYING" => s.rec \in Records /\ sess[u].state = "VERIFYING"
  /\ s.state = "ARCHIVED" => Final(u) /\ row[u] # None /\ s.rec = row[u]
  /\ s.state = "FAILED" => Final(u) /\ data[u] # Declared[u]
  /\ s.state = "NONE" => sess[u].bits = {}

(* Scripts that only touch the bitmap or the digests stay within           *)
(* KeptState.                                                              *)
LEMMA SameState ==
  ASSUME IInv, NEW u \in Uploads, NEW s, s.state = sess[u].state, s.rec = sess[u].rec
  PROVE  KeptState(u, s)
  BY DEF IInv, VerdictInv, FinalInv, CreateInv, KeptState

-----------------------------------------------------------------------------
(* Handlers that rest.                                                     *)

(* An idle handler claims nothing.                                         *)
LEMMA IdleJobs ==
  /\ WriterIdle \in WriterRecords /\ CompleterIdle \in CompleterRecords
  /\ WriterIdle.pc = "idle" /\ CompleterIdle.pc = "idle"
  /\ ~Registered(WriterIdle) /\ MovedWriter(WriterIdle)
  /\ WriterClaim(WriterIdle) /\ WriterClaim(WriterIdle)'
  /\ CompleterClaim(CompleterIdle) /\ CompleterClaim(CompleterIdle)'
  BY DEF WriterIdle, CompleterIdle, WriterRecords, CompleterRecords, MovedWriter, Registered,
         WriterClaim, CompleterClaim

(* A step in which no chunk handler moves adds no chunk job.               *)
LEMMA WritersRest ==
  ASSUME IInv, writer' = writer, lateChunk' = lateChunk
  PROVE  /\ WriterJobs' \subseteq WriterJobs \cup {WriterIdle}
         /\ \A j \in lateChunk' : j.pc \in {"begin", "finish"}
  BY DEF WriterJobs, IInv, JobsInv

(* A step in which no complete handler moves adds no complete job.         *)
LEMMA CompletersRest ==
  ASSUME IInv, completer' = completer, lateComplete' = lateComplete
  PROVE  /\ CompleterJobs' \subseteq CompleterJobs \cup {CompleterIdle}
         /\ \A j \in lateComplete' : j.pc \in {"begin", "insert", "markArchived", "markFailed"}
  BY DEF CompleterJobs, IInv, JobsInv

(* Handlers that do not move give their guarantees trivially.              *)
LEMMA RestGuarantees ==
  ASSUME IInv, NEW v, NEW s
  PROVE  /\ writer' = writer /\ lateChunk' = lateChunk => WriterGuarantee(WriterIdle)
         /\ completer' = completer /\ lateComplete' = lateComplete =>
              CompleterGuarantee(v, s, CompleterIdle)
  BY IdleJobs, WritersRest, CompletersRest DEF WriterGuarantee, CompleterGuarantee

(* A busy handler's record has no absent field. *)
LEMMA BusyWriter ==
  ASSUME IInv, NEW w \in Writers, writer[w].pc # "idle"
  PROVE  /\ writer[w] \in WriterJobs /\ writer[w] \in WriterRecords /\ WriterClaim(writer[w])
         /\ writer[w].u \in Uploads /\ writer[w].c \in Chunks /\ writer[w].d \in Data
         /\ create[writer[w].u] = "announced"
<1>1. writer[w] \in WriterJobs
  BY DEF WriterJobs
<1>2. WriterClaim(writer[w])
  BY <1>1 DEF IInv, JobsInv
<1>3. QED
  BY <1>1, <1>2 DEF WriterClaim, IInv, TypeOK

(* The same for a complete handler.                                        *)
LEMMA BusyCompleter ==
  ASSUME IInv, NEW h \in Completers, completer[h].pc # "idle"
  PROVE  /\ completer[h] \in CompleterJobs /\ completer[h] \in CompleterRecords
         /\ CompleterClaim(completer[h])
         /\ completer[h].u \in Uploads /\ completer[h].rec \in Records
         /\ create[completer[h].u] = "announced"
<1>1. completer[h] \in CompleterJobs
  BY DEF CompleterJobs
<1>2. CompleterClaim(completer[h])
  BY <1>1 DEF IInv, JobsInv
<1>3. QED
  BY <1>1, <1>2 DEF CompleterClaim, IInv, TypeOK

-----------------------------------------------------------------------------
(* PUT chunk.                                                              *)

(* PUT chunk, the session lookup.                                          *)
LEMMA ChunkLookupStep ==
  ASSUME IInv, NEW w \in Writers, NEW u \in Uploads, NEW c \in Chunks, NEW d \in Data,
         ChunkLookup(w, u, c, d)
  PROVE  IInv' /\ Benign
<1> DEFINE k == [pc |-> "begin", u |-> u, c |-> c, d |-> d]
<1>1. /\ writer' = [writer EXCEPT ![w] = k] /\ create[u] = "announced"
      /\ UNCHANGED <<sess, where, day, data, row, nextId, create, completer, cleaner,
                     lateChunk, lateComplete, lateCreate, lateDelete, now, answers>>
  BY DEF ChunkLookup, files, late
<1>2. k \in WriterRecords /\ ~Registered(k)
  BY DEF WriterRecords, Registered
<1>3. TypeOK'
  BY <1>1, <1>2 DEF IInv, TypeOK
<1>4. WriterClaim(k) /\ MovedWriter(k)
  BY <1>1, <1>2 DEF WriterClaim, MovedWriter
<1> HIDE DEF k
<1>5. WriterJobs' \subseteq WriterJobs \cup {k}
  BY <1>1, WriterMoves DEF IInv, TypeOK
<1>6. \A j \in lateChunk' : j.pc \in {"begin", "finish"}
  BY <1>1 DEF IInv, JobsInv
<1>7. QED
  BY <1>1, <1>3, <1>4, <1>5, <1>6, CompletersRest, IdleJobs, HandlerStep

(* The sessions BeginChunk and FinishChunk leave, executed in time or late. *)
LEMMA BeginChunkSession ==
  ASSUME IInv, NEW u \in Uploads, NEW c \in Chunks, NEW d \in Data, create[u] = "announced",
         NEW s, s = BeginChunk(sess[u], c, d)
  PROVE  s \in Sessions /\ SessionGuarantee(u, s)
<1>1. sess[u] \in Sessions
  BY DEF IInv, TypeOK
<1>2. /\ s \in Sessions
      /\ s.state = sess[u].state /\ s.rec = sess[u].rec /\ s.bits = sess[u].bits
      /\ \A e \in Chunks : sess[u].digest[e] # None => s.digest[e] = sess[u].digest[e]
  BY <1>1, BeginChunkFacts
<1>3. \A e \in s.bits : s.digest[e] # None /\ data[u][e] = s.digest[e]
  BY <1>1, <1>2 DEF IInv, BitmapBehindFile, Sessions
<1>4. KeptState(u, s)
  BY <1>2, SameState
<1>5. QED
  BY <1>2, <1>3, <1>4 DEF KeptState, SessionGuarantee

(* FinishChunk sets a bit only for a chunk that is on disk.                *)
LEMMA FinishChunkSession ==
  ASSUME IInv, NEW j, j.pc = "finish", j.u \in Uploads, j.c \in Chunks, j.d \in Data, WriterClaim(j),
         NEW s, s = FinishChunk(sess[j.u], j.c, j.d)
  PROVE  s \in Sessions /\ SessionGuarantee(j.u, s)
<1>1. sess[j.u] \in Sessions
  BY DEF IInv, TypeOK
<1>2. /\ s \in Sessions
      /\ s.state = sess[j.u].state /\ s.rec = sess[j.u].rec /\ s.digest = sess[j.u].digest
      /\ s.bits \subseteq sess[j.u].bits \cup {j.c}
      /\ s = sess[j.u] \/ (sess[j.u].state = "UPLOADING" /\ sess[j.u].digest[j.c] = j.d)
  BY <1>1, FinishChunkFacts
<1>3. \A c \in sess[j.u].bits : sess[j.u].digest[c] # None /\ data[j.u][c] = sess[j.u].digest[c]
  BY DEF IInv, BitmapBehindFile
<1>4. create[j.u] = "announced" /\ (sess[j.u].state = "UPLOADING" => data[j.u][j.c] = j.d)
  BY DEF WriterClaim
<1>5. \A c \in s.bits : s.digest[c] # None /\ data[j.u][c] = s.digest[c]
  BY <1>2, <1>3, <1>4, NoneAssumption
<1>6. KeptState(j.u, s)
  BY <1>2, SameState
<1>7. QED
  BY <1>2, <1>4, <1>5, <1>6 DEF KeptState, SessionGuarantee

(* PUT chunk, the BeginChunk script.                                       *)
LEMMA ChunkBeginStep ==
  ASSUME IInv, NEW w \in Writers, ChunkBegin(w)
  PROVE  IInv' /\ Benign
<1>1. PICK j : j = writer[w]
  OBVIOUS
<1>2. /\ j.pc = "begin" /\ j \in WriterRecords /\ j.u \in Uploads /\ j.c \in Chunks /\ j.d \in Data
      /\ create[j.u] = "announced"
  BY <1>1, BusyWriter DEF ChunkBegin
<1>3. PICK s : s = BeginChunk(sess[j.u], j.c, j.d)
  OBVIOUS
<1>4. PICK k : k = IF BeginChunkStatus(sess[j.u], j.c, j.d) = "Writable"
                   THEN [j EXCEPT !.pc = "open"] ELSE WriterIdle
  OBVIOUS
<1>5. /\ sess' = [sess EXCEPT ![j.u] = s] /\ writer' = [writer EXCEPT ![w] = k]
      /\ UNCHANGED <<where, day, data, row, nextId, create, completer, cleaner,
                     lateChunk, lateComplete, lateCreate, lateDelete, now, answers>>
  BY <1>1, <1>3, <1>4 DEF ChunkBegin, files, late, IInv, TypeOK
<1>6. sess[j.u] \in Sessions
  BY <1>2 DEF IInv, TypeOK
<1>7. /\ s \in Sessions
      /\ s.state = sess[j.u].state /\ s.rec = sess[j.u].rec /\ s.bits = sess[j.u].bits
      /\ \A e \in Chunks : sess[j.u].digest[e] # None => s.digest[e] = sess[j.u].digest[e]
      /\ sess[j.u].state # "UPLOADING" => s = sess[j.u]
      /\ BeginChunkStatus(sess[j.u], j.c, j.d) = "Writable" =>
           sess[j.u].state = "UPLOADING" /\ s.digest[j.c] = j.d
  BY <1>2, <1>3, <1>6, BeginChunkFacts
<1>8. k \in WriterRecords /\ (k = WriterIdle \/ (k.pc = "open" /\ k.u = j.u /\ k.c = j.c /\ k.d = j.d
      /\ sess[j.u].state = "UPLOADING" /\ s.digest[j.c] = j.d))
  BY <1>2, <1>4, <1>7, IdleJobs DEF WriterRecords
<1>9. TypeOK'
  BY <1>2, <1>5, <1>7, <1>8 DEF IInv, TypeOK
<1>10. sess'[j.u] = s
  BY <1>2, <1>5 DEF IInv, TypeOK
<1>11. WriterGuarantee(k)
  <2>1. MovedWriter(k) /\ WriterClaim(k)'
        /\ (Registered(k) => sess[k.u].state = "UPLOADING" /\ sess'[k.u].state = "UPLOADING")
    BY <1>2, <1>5, <1>7, <1>8, <1>10, IdleJobs DEF MovedWriter, WriterClaim, Registered
  <2>2. WriterJobs' \subseteq WriterJobs \cup {k}
    BY <1>5, WriterMoves DEF IInv, TypeOK
  <2>3. QED
    BY <1>5, <2>1, <2>2 DEF IInv, JobsInv, WriterGuarantee
<1>12. SessionGuarantee(j.u, s)
  BY <1>2, <1>3, BeginChunkSession
<1>13. QED
  BY <1>2, <1>5, <1>7, <1>9, <1>11, <1>12, RestGuarantees, SessionStep

(* PUT chunk, opening the temp file.                                       *)
LEMMA ChunkOpenStep ==
  ASSUME IInv, NEW w \in Writers, ChunkOpen(w)
  PROVE  IInv' /\ Benign
<1>1. PICK j : j = writer[w]
  OBVIOUS
<1>2. j.pc = "open" /\ j \in WriterRecords /\ j \in WriterJobs /\ WriterClaim(j)
  BY <1>1, BusyWriter DEF ChunkOpen
<1>3. PICK k : k = IF where[j.u] = "temp" THEN [j EXCEPT !.pc = "write"] ELSE WriterIdle
  OBVIOUS
<1>4. /\ writer' = [writer EXCEPT ![w] = k]
      /\ UNCHANGED <<sess, where, day, data, row, nextId, create, completer, cleaner,
                     lateChunk, lateComplete, lateCreate, lateDelete, now, answers>>
  BY <1>1, <1>3 DEF ChunkOpen, files, late
<1>5. k \in WriterRecords /\ (k = WriterIdle \/ (k.pc = "write" /\ k.u = j.u /\ k.c = j.c /\ k.d = j.d))
  BY <1>2, <1>3, IdleJobs DEF WriterRecords
<1>6. TypeOK'
  BY <1>4, <1>5 DEF IInv, TypeOK
<1>7. WriterClaim(k) /\ MovedWriter(k)
  BY <1>2, <1>5, IdleJobs DEF WriterClaim, MovedWriter, Registered
<1>8. WriterJobs' \subseteq WriterJobs \cup {k}
  BY <1>4, WriterMoves DEF IInv, TypeOK
<1>9. \A i \in lateChunk' : i.pc \in {"begin", "finish"}
  BY <1>4 DEF IInv, JobsInv
<1>10. QED
  BY <1>4, <1>6, <1>7, <1>8, <1>9, CompletersRest, IdleJobs, HandlerStep

(* PUT chunk, a Redis command without a reply in time.                     *)
LEMMA ChunkUnavailableStep ==
  ASSUME IInv, NEW w \in Writers, ChunkUnavailable(w)
  PROVE  IInv' /\ Benign
<1>1. writer[w].pc \in {"begin", "finish"} /\ writer[w] \in WriterRecords
  BY BusyWriter DEF ChunkUnavailable
<1>2. /\ writer' = [writer EXCEPT ![w] = WriterIdle]
      /\ lateChunk' = lateChunk \/ lateChunk' = lateChunk \cup {writer[w]}
      /\ UNCHANGED <<sess, where, day, data, row, nextId, create, completer, cleaner,
                     lateComplete, lateCreate, lateDelete, now, answers>>
  BY DEF ChunkUnavailable, files
<1>3. TypeOK'
  BY <1>1, <1>2, IdleJobs DEF IInv, TypeOK
<1>4. WriterJobs' \subseteq WriterJobs \cup {WriterIdle}
  BY <1>2, WriterMoves DEF IInv, TypeOK
<1>5. \A i \in lateChunk' : i.pc \in {"begin", "finish"}
  BY <1>1, <1>2 DEF IInv, JobsInv
<1>6. QED
  BY <1>2, <1>3, <1>4, <1>5, CompletersRest, IdleJobs, HandlerStep

(* PUT chunk, the FinishChunk script.                                      *)
LEMMA ChunkFinishStep ==
  ASSUME IInv, NEW w \in Writers, ChunkFinish(w)
  PROVE  IInv' /\ Benign
<1>1. PICK j : j = writer[w]
  OBVIOUS
<1>2. /\ j.pc = "finish" /\ j \in WriterRecords /\ j.u \in Uploads /\ j.c \in Chunks /\ j.d \in Data
      /\ create[j.u] = "announced" /\ WriterClaim(j)
  BY <1>1, BusyWriter DEF ChunkFinish
<1>3. PICK s : s = FinishChunk(sess[j.u], j.c, j.d)
  OBVIOUS
<1>4. /\ sess' = [sess EXCEPT ![j.u] = s] /\ writer' = [writer EXCEPT ![w] = WriterIdle]
      /\ UNCHANGED <<where, day, data, row, nextId, create, completer, cleaner,
                     lateChunk, lateComplete, lateCreate, lateDelete, now, answers>>
  BY <1>1, <1>3 DEF ChunkFinish, files, late, IInv, TypeOK
<1>5. s \in Sessions /\ SessionGuarantee(j.u, s)
  BY <1>2, <1>3, FinishChunkSession
<1>6. TypeOK'
  BY <1>2, <1>4, <1>5, IdleJobs DEF IInv, TypeOK
<1>7. WriterGuarantee(WriterIdle)
  <2>1. WriterJobs' \subseteq WriterJobs \cup {WriterIdle}
    BY <1>4, WriterMoves DEF IInv, TypeOK
  <2>2. QED
    BY <1>4, <2>1, IdleJobs DEF IInv, JobsInv, WriterGuarantee
<1>8. QED
  BY <1>2, <1>4, <1>5, <1>6, <1>7, RestGuarantees, SessionStep

(* A write to a chunk, complete or torn, by a handler that registered its  *)
(* digest: x is the new content, k the handler's new record.               *)
LEMMA WriteStep ==
  ASSUME IInv, TypeOK', NEW w \in Writers, NEW j, j = writer[w], j.pc = "write",
         NEW x, x = j.d \/ data[j.u][j.c] # j.d,
         data' = [data EXCEPT ![j.u] = [@ EXCEPT ![j.c] = x]],
         NEW k \in WriterRecords,
         k = WriterIdle \/ (x = j.d /\ k.pc = "finish" /\ k.u = j.u /\ k.c = j.c /\ k.d = j.d),
         writer' = [writer EXCEPT ![w] = k],
         UNCHANGED <<sess, where, day, row, nextId, create, completer, cleaner,
                     lateChunk, lateComplete, lateCreate, lateDelete, now, answers>>
  PROVE  IInv' /\ Benign
<1>1. /\ j \in WriterJobs /\ j.u \in Uploads /\ j.c \in Chunks /\ j.d \in Data /\ WriterClaim(j)
      /\ create[j.u] = "announced" /\ Registered(j)
  BY BusyWriter DEF Registered
<1>2. /\ \A u \in Uploads \ {j.u} : data'[u] = data[u]
      /\ \A c \in Chunks \ {j.c} : data'[j.u][c] = data[j.u][c]
      /\ data'[j.u][j.c] = x
  BY <1>1 DEF IInv, TypeOK
<1>3. Benign
  <2>1. ASSUME NEW u \in Uploads, NEW c \in Chunks, data'[u][c] # data[u][c]
        PROVE  \E i \in WriterJobs : Registered(i) /\ i.u = u /\ i.c = c /\ i.d # data[u][c]
    BY <1>1, <1>2, <2>1
  <2>2. QED
    BY <2>1 DEF Benign, IInv, LiveUploadHasFile
<1>4. MovedWriter(k) /\ WriterJobs' \subseteq WriterJobs \cup {k}
  <2>1. MovedWriter(k)
    BY <1>1, IdleJobs DEF MovedWriter
  <2>2. QED
    BY <2>1, WriterMoves DEF IInv, TypeOK
<1>5. ASSUME NEW u \in Uploads, Final(u) PROVE Final(u)' /\ data'[u] = data[u]
  BY <1>3, <1>4, <1>5, FinalKept
<1>6. WriterClaim(k)'
  BY <1>1, <1>2, IdleJobs DEF WriterClaim, Registered
<1>7. JobsInv'
  <2>1. \A i \in CompleterJobs' : i \in CompleterJobs
    BY DEF CompleterJobs
  <2>2. \A i \in CompleterJobs' : CompleterClaim(i)'
    BY <1>3, <1>4, <2>1, CompleterClaimKept
  <2>3. \A i \in WriterJobs' : WriterClaim(i)'
    BY <1>3, <1>4, <1>6, WriterClaimKept
  <2>4. QED
    BY <2>2, <2>3 DEF IInv, JobsInv
<1>8. FinalInv'
  <2>1. \A a \in answers : a.u \in Uploads
    BY DEF IInv, TypeOK, Answers
  <2>2. QED
    BY <1>5, <2>1 DEF IInv, FinalInv
<1>9. BitmapBehindFile'
  <2>1. ASSUME j.c \in sess[j.u].bits PROVE data'[j.u] = data[j.u]
    <3>1. CASE sess[j.u].state = "UPLOADING"
      <4>1. data[j.u][j.c] = j.d
        BY <1>1, <2>1, <3>1 DEF WriterClaim, IInv, BitmapBehindFile
      <4>2. QED
        BY <1>1, <1>2, <4>1 DEF IInv, TypeOK
    <3>2. CASE sess[j.u].state \in {"VERIFYING", "ARCHIVED", "FAILED"}
      BY <1>1, <1>5, <3>2 DEF IInv, FinalInv
    <3>3. sess[j.u].state # "NONE"
      BY <1>1, <2>1 DEF IInv, CreateInv
    <3>4. QED
      BY <1>1, <3>1, <3>2, <3>3 DEF IInv, TypeOK, Sessions
  <2>2. sess[j.u].bits \subseteq Chunks
    BY <1>1 DEF IInv, TypeOK, Sessions
  <2>3. QED
    BY <1>1, <1>2, <2>1, <2>2 DEF IInv, BitmapBehindFile
<1>10. ArchivedFileIntact' /\ VerdictInv'
  <2>1. ArchivedFileIntact'
    BY <1>5 DEF IInv, ArchivedFileIntact, FinalInv
  <2>2. ASSUME NEW u \in Uploads, sess[u].state = "FAILED" PROVE data'[u] # Declared[u]
    BY <2>2, <1>5 DEF IInv, VerdictInv, FinalInv
  <2>3. ASSUME NEW a \in answers PROVE data'[a.u] = data[a.u]
    BY <2>3, <1>5 DEF IInv, FinalInv, TypeOK, Answers
  <2>4. QED
    BY <2>1, <2>2, <2>3 DEF IInv, VerdictInv
<1>11. CreateInv' /\ RowInv' /\ LiveUploadHasFile' /\ CleanerInv'
  BY DEF IInv, CreateInv, RowInv, LiveUploadHasFile, CleanerInv
<1>12. QED
  BY <1>3, <1>7, <1>8, <1>9, <1>10, <1>11 DEF IInv

(* PUT chunk, a complete write.                                            *)
LEMMA ChunkWriteStep ==
  ASSUME IInv, NEW w \in Writers, ChunkWrite(w)
  PROVE  IInv' /\ Benign
<1>1. PICK j : j = writer[w]
  OBVIOUS
<1>2. j.pc = "write" /\ j \in WriterRecords /\ j.u \in Uploads /\ j.c \in Chunks /\ j.d \in Data
  BY <1>1, BusyWriter DEF ChunkWrite
<1>3. PICK k : k = [j EXCEPT !.pc = "finish"]
  OBVIOUS
<1>4. k \in WriterRecords /\ k.pc = "finish" /\ k.u = j.u /\ k.c = j.c /\ k.d = j.d
  BY <1>2, <1>3 DEF WriterRecords
<1>5. /\ data' = [data EXCEPT ![j.u] = [@ EXCEPT ![j.c] = j.d]]
      /\ writer' = [writer EXCEPT ![w] = k]
      /\ UNCHANGED <<sess, where, day, row, nextId, create, completer, cleaner,
                     lateChunk, lateComplete, lateCreate, lateDelete, now, answers>>
  BY <1>1, <1>3 DEF ChunkWrite, late
<1>6. TypeOK'
  BY <1>2, <1>4, <1>5 DEF IInv, TypeOK
<1>7. QED
  BY <1>1, <1>2, <1>4, <1>5, <1>6, WriteStep

(* PUT chunk, a write or close that failed.                                *)
LEMMA ChunkWriteFailedStep ==
  ASSUME IInv, NEW w \in Writers, ChunkWriteFailed(w)
  PROVE  IInv' /\ Benign
<1>1. PICK j : j = writer[w]
  OBVIOUS
<1>2. j.pc = "write" /\ j.u \in Uploads /\ j.c \in Chunks /\ j.d \in Data
  BY <1>1, BusyWriter DEF ChunkWriteFailed
<1>3. PICK x \in {Torn(data[j.u][j.c], j.d), j.d} :
        data' = [data EXCEPT ![j.u] = [@ EXCEPT ![j.c] = x]]
  BY <1>1 DEF ChunkWriteFailed
<1>4. x \in Data \cup {None} /\ (x = j.d \/ data[j.u][j.c] # j.d)
  BY <1>2, <1>3 DEF Torn
<1>5. /\ data' = [data EXCEPT ![j.u] = [@ EXCEPT ![j.c] = x]]
      /\ writer' = [writer EXCEPT ![w] = WriterIdle]
      /\ UNCHANGED <<sess, where, day, row, nextId, create, completer, cleaner,
                     lateChunk, lateComplete, lateCreate, lateDelete, now, answers>>
  BY <1>1, <1>3 DEF ChunkWriteFailed, late
<1>6. TypeOK'
  BY <1>2, <1>4, <1>5, IdleJobs DEF IInv, TypeOK
<1>7. QED
  BY <1>1, <1>2, <1>4, <1>5, <1>6, IdleJobs, WriteStep

-----------------------------------------------------------------------------
(* POST complete.                                                          *)

(* A complete handler moves on, or gives up and leaves its command behind. *)
LEMMA CompleterStep ==
  ASSUME IInv, NEW h \in Completers, NEW m \in CompleterRecords, CompleterClaim(m),
         completer' = [completer EXCEPT ![h] = m],
         \/ lateComplete' = lateComplete
         \/ /\ lateComplete' = lateComplete \cup {completer[h]}
            /\ completer[h].pc \in {"begin", "insert", "markArchived", "markFailed"},
         UNCHANGED <<sess, where, day, data, row, nextId, create, writer, cleaner,
                     lateChunk, lateCreate, lateDelete, now, answers>>
  PROVE  IInv' /\ Benign
<1>1. TypeOK'
  BY DEF IInv, TypeOK
<1>2. CompleterJobs' \subseteq CompleterJobs \cup {m}
  BY CompleterMoves DEF IInv, TypeOK
<1>3. \A j \in lateComplete' : j.pc \in {"begin", "insert", "markArchived", "markFailed"}
  BY DEF IInv, JobsInv
<1>4. QED
  BY <1>1, <1>2, <1>3, WritersRest, IdleJobs, HandlerStep

(* The record computed from the clock is a record.                         *)
LEMMA FreshRecord ==
  ASSUME NEW t \in Nat
  PROVE  Record(t) \in Records
<1>1. t \div DayLength \in Nat
  BY ClockAssumption
<1>2. QED
  BY <1>1 DEF Record, Records

(* POST complete, the session lookup.                                      *)
LEMMA CompleteLookupStep ==
  ASSUME IInv, NEW h \in Completers, NEW u \in Uploads, CompleteLookup(h, u)
  PROVE  IInv' /\ Benign
<1>1. PICK rec : rec = IF sess[u].state = "VERIFYING" THEN sess[u].rec ELSE Record(now)
  OBVIOUS
<1>2. rec \in Records
  <2>1. Record(now) \in Records
    BY FreshRecord DEF IInv, TypeOK
  <2>2. QED
    BY <1>1, <2>1 DEF IInv, VerdictInv
<1>3. PICK m : m = [pc |-> "begin", u |-> u, final |-> FALSE, rec |-> rec]
  OBVIOUS
<1>4. m \in CompleterRecords /\ CompleterClaim(m)
  BY <1>2, <1>3 DEF CompleterRecords, CompleterClaim, PastBegin, CompleteLookup
<1>5. /\ completer' = [completer EXCEPT ![h] = m]
      /\ UNCHANGED <<sess, where, day, data, row, nextId, create, writer, cleaner,
                     lateChunk, lateComplete, lateCreate, lateDelete, now, answers>>
  BY <1>1, <1>3 DEF CompleteLookup, files, late
<1>6. QED
  BY <1>4, <1>5, CompleterStep

(* POST complete, FindByUpload.                                            *)
LEMMA CompleteFindStep ==
  ASSUME IInv, NEW h \in Completers, CompleteFind(h)
  PROVE  IInv' /\ Benign
<1>1. PICK j : j = completer[h]
  OBVIOUS
<1>2. /\ j.pc = "find" /\ j \in CompleterRecords /\ CompleterClaim(j)
      /\ j.u \in Uploads /\ j.rec \in Records /\ create[j.u] = "announced"
  BY <1>1, BusyCompleter DEF CompleteFind
<1>3. PICK m : m = IF row[j.u] # None THEN [j EXCEPT !.pc = "markArchived", !.rec = row[j.u]]
                                      ELSE [j EXCEPT !.pc = "stat", !.rec = j.rec]
  OBVIOUS
<1>4. m \in CompleterRecords /\ CompleterClaim(m)
  <2>1. Final(j.u)
    BY <1>2 DEF CompleterClaim, PastBegin
  <2>2. CASE row[j.u] # None
    <3>1. row[j.u] \in Records
      BY <1>2, <2>2 DEF IInv, TypeOK
    <3>2. m \in CompleterRecords /\ m.pc = "markArchived" /\ m.u = j.u /\ m.rec = row[j.u]
      BY <1>2, <1>3, <2>2, <3>1 DEF CompleterRecords
    <3>3. QED
      BY <1>2, <2>1, <3>1, <3>2 DEF CompleterClaim
  <2>3. CASE row[j.u] = None
    <3>1. m \in CompleterRecords /\ m.pc = "stat" /\ m.u = j.u /\ m.rec = j.rec
      BY <1>2, <1>3, <2>3 DEF CompleterRecords
    <3>2. QED
      BY <1>2, <2>1, <3>1 DEF CompleterClaim
  <2>4. QED
    BY <2>2, <2>3
<1>5. /\ completer' = [completer EXCEPT ![h] = m]
      /\ UNCHANGED <<sess, where, day, data, row, nextId, create, writer, cleaner,
                     lateChunk, lateComplete, lateCreate, lateDelete, now, answers>>
  BY <1>1, <1>3 DEF CompleteFind, Goto, files, late
<1>6. QED
  BY <1>4, <1>5, CompleterStep

(* verifyAndArchiveFile, stat of the final name.                           *)
LEMMA ArchiveStatStep ==
  ASSUME IInv, NEW h \in Completers, ArchiveStat(h)
  PROVE  IInv' /\ Benign
<1>1. PICK j : j = completer[h]
  OBVIOUS
<1>2. /\ j.pc = "stat" /\ j \in CompleterRecords /\ CompleterClaim(j)
      /\ j.u \in Uploads /\ j.rec \in Records /\ create[j.u] = "announced"
  BY <1>1, BusyCompleter DEF ArchiveStat
<1>3. PICK m : m = [j EXCEPT !.pc = "digest", !.final = HasName(j.u, "archive", j.rec.day)]
  OBVIOUS
<1>4. m \in CompleterRecords /\ m.pc = "digest" /\ m.u = j.u /\ m.rec = j.rec
      /\ (m.final => where[j.u] = "archive" /\ day[j.u] = j.rec.day)
  BY <1>2, <1>3 DEF CompleterRecords, HasName
<1>5. CompleterClaim(m)
  BY <1>2, <1>4 DEF CompleterClaim, PastBegin
<1>6. /\ completer' = [completer EXCEPT ![h] = m]
      /\ UNCHANGED <<sess, where, day, data, row, nextId, create, writer, cleaner,
                     lateChunk, lateComplete, lateCreate, lateDelete, now, answers>>
  BY <1>1, <1>3 DEF ArchiveStat, files, late
<1>7. QED
  BY <1>4, <1>5, <1>6, CompleterStep

(* verifyAndArchiveFile, the digest.                                       *)
LEMMA ArchiveDigestStep ==
  ASSUME IInv, NEW h \in Completers, ArchiveDigest(h)
  PROVE  IInv' /\ Benign
<1>1. PICK j : j = completer[h]
  OBVIOUS
<1>2. /\ j.pc = "digest" /\ j \in CompleterRecords /\ CompleterClaim(j)
      /\ j.u \in Uploads /\ j.rec \in Records /\ create[j.u] = "announced"
  BY <1>1, BusyCompleter DEF ArchiveDigest
<1>3. PICK m : m = IF ~HasName(j.u, IF j.final THEN "archive" ELSE "temp", j.rec.day) THEN CompleterIdle
                   ELSE IF data[j.u] # Declared[j.u] THEN [j EXCEPT !.pc = "markFailed", !.rec = j.rec]
                   ELSE [j EXCEPT !.pc = IF j.final THEN "insert" ELSE "rename", !.rec = j.rec]
  OBVIOUS
<1>4. \/ m = CompleterIdle
      \/ m \in CompleterRecords /\ m.pc = "markFailed" /\ m.u = j.u /\ m.rec = j.rec
           /\ data[j.u] # Declared[j.u]
      \/ m \in CompleterRecords /\ m.pc = "insert" /\ j.final /\ m.u = j.u /\ m.rec = j.rec
           /\ data[j.u] = Declared[j.u]
      \/ m \in CompleterRecords /\ m.pc = "rename" /\ m.u = j.u /\ m.rec = j.rec
           /\ data[j.u] = Declared[j.u]
  BY <1>2, <1>3 DEF CompleterRecords
<1>5. CompleterClaim(m) /\ m \in CompleterRecords
  BY <1>2, <1>4, IdleJobs DEF CompleterClaim, PastBegin
<1>6. /\ completer' = [completer EXCEPT ![h] = m]
      /\ UNCHANGED <<sess, where, day, data, row, nextId, create, writer, cleaner,
                     lateChunk, lateComplete, lateCreate, lateDelete, now, answers>>
  <2>1. UNCHANGED <<sess, where, day, data, row, nextId, create, writer, cleaner,
                    lateChunk, lateComplete, lateCreate, lateDelete, now, answers>>
    BY DEF ArchiveDigest, files, late
  <2>2. CASE ~HasName(j.u, IF j.final THEN "archive" ELSE "temp", j.rec.day)
    BY <1>1, <1>3, <2>1, <2>2 DEF ArchiveDigest, Reply
  <2>3. CASE HasName(j.u, IF j.final THEN "archive" ELSE "temp", j.rec.day) /\ data[j.u] # Declared[j.u]
    BY <1>1, <1>3, <2>1, <2>3 DEF ArchiveDigest, Goto
  <2>4. CASE HasName(j.u, IF j.final THEN "archive" ELSE "temp", j.rec.day) /\ data[j.u] = Declared[j.u]
    <3>1. m = [j EXCEPT !.pc = IF j.final THEN "insert" ELSE "rename", !.rec = j.rec]
      BY <1>3, <2>4
    <3>2. Goto(h, IF j.final THEN "insert" ELSE "rename", j.rec)
      BY <1>1, <2>4 DEF ArchiveDigest
    <3>3. QED
      BY <1>1, <2>1, <3>1, <3>2 DEF Goto
  <2>5. QED
    BY <2>2, <2>3, <2>4
<1>7. QED
  BY <1>5, <1>6, CompleterStep

(* POST complete, the lookup after error 1062.                             *)
LEMMA CompleteResolveStep ==
  ASSUME IInv, NEW h \in Completers, CompleteResolve(h)
  PROVE  IInv' /\ Benign
<1>1. PICK j : j = completer[h]
  OBVIOUS
<1>2. /\ j.pc = "resolve" /\ j \in CompleterRecords /\ CompleterClaim(j)
      /\ j.u \in Uploads /\ create[j.u] = "announced" /\ row[j.u] # None
  BY <1>1, BusyCompleter DEF CompleteResolve, CompleterClaim
<1>3. PICK m : m = [j EXCEPT !.pc = "markArchived", !.rec = row[j.u]]
  OBVIOUS
<1>4. row[j.u] \in Records
  BY <1>2 DEF IInv, TypeOK
<1>5. m \in CompleterRecords /\ m.pc = "markArchived" /\ m.u = j.u /\ m.rec = row[j.u]
  BY <1>2, <1>3, <1>4 DEF CompleterRecords
<1>6. CompleterClaim(m)
  BY <1>2, <1>4, <1>5 DEF CompleterClaim, PastBegin
<1>7. /\ completer' = [completer EXCEPT ![h] = m]
      /\ UNCHANGED <<sess, where, day, data, row, nextId, create, writer, cleaner,
                     lateChunk, lateComplete, lateCreate, lateDelete, now, answers>>
  BY <1>1, <1>2, <1>3 DEF CompleteResolve, Goto, files, late
<1>8. QED
  BY <1>5, <1>6, <1>7, CompleterStep

(* Giving up: an I/O error, or a reply that did not arrive. *)
LEMMA CompleteGiveUpStep ==
  ASSUME IInv, NEW h \in Completers, ArchiveIoError(h) \/ CompleteUnavailable(h)
  PROVE  IInv' /\ Benign
<1>1. /\ completer' = [completer EXCEPT ![h] = CompleterIdle]
      /\ UNCHANGED <<sess, where, day, data, row, nextId, create, writer, cleaner,
                     lateChunk, lateCreate, lateDelete, now, answers>>
  BY DEF ArchiveIoError, CompleteUnavailable, Reply, files, late
<1>2. \/ lateComplete' = lateComplete
      \/ /\ lateComplete' = lateComplete \cup {completer[h]}
         /\ completer[h].pc \in {"begin", "insert", "markArchived", "markFailed"}
  BY DEF ArchiveIoError, CompleteUnavailable, late
<1>3. QED
  BY <1>1, <1>2, IdleJobs, CompleterStep

(* The sessions the scripts of POST complete leave, executed in time or    *)
(* late, when the claim of their job holds.                                *)
LEMMA KeptSession ==
  ASSUME IInv, NEW u \in Uploads, create[u] = "announced"
  PROVE  sess[u] \in Sessions /\ SessionGuarantee(u, sess[u])
<1>1. sess[u] \in Sessions
  BY DEF IInv, TypeOK
<1>2. KeptState(u, sess[u])
  BY SameState
<1>3. QED
  BY <1>1, <1>2 DEF KeptState, SessionGuarantee, IInv, BitmapBehindFile

(* BeginComplete enters VERIFYING only with a full bitmap.                 *)
LEMMA BeginCompleteSession ==
  ASSUME IInv, NEW u \in Uploads, create[u] = "announced", NEW rec \in Records,
         NEW s, s = BeginComplete(sess[u], rec)
  PROVE  s \in Sessions /\ SessionGuarantee(u, s)
<1>1. sess[u] \in Sessions /\ SessionGuarantee(u, sess[u])
  BY KeptSession
<1>2. /\ s \in Sessions /\ s.bits = sess[u].bits /\ s.digest = sess[u].digest
      /\ \/ s = sess[u]
         \/ /\ sess[u].state = "UPLOADING" /\ sess[u].bits = Chunks
            /\ s.state = "VERIFYING" /\ s.rec = rec
  BY <1>1, BeginCompleteFacts
<1>3. QED
  BY <1>1, <1>2 DEF SessionGuarantee

(* MarkArchived stores the row.                                            *)
LEMMA MarkArchivedSession ==
  ASSUME IInv, NEW j, j.pc = "markArchived", CompleterClaim(j),
         NEW s, s = MarkArchived(sess[j.u], j.rec)
  PROVE  s \in Sessions /\ SessionGuarantee(j.u, s)
<1>1. /\ j.u \in Uploads /\ j.rec \in Records /\ create[j.u] = "announced"
      /\ Final(j.u) /\ row[j.u] = j.rec
  BY DEF CompleterClaim, PastBegin
<1>2. sess[j.u] \in Sessions /\ SessionGuarantee(j.u, sess[j.u])
  BY <1>1, KeptSession
<1>3. /\ s \in Sessions /\ s.bits = sess[j.u].bits /\ s.digest = sess[j.u].digest
      /\ sess[j.u].state = "NONE" => s = sess[j.u]
      /\ sess[j.u].state # "NONE" => s.state = "ARCHIVED" /\ s.rec = j.rec
  BY <1>1, <1>2, MarkFacts
<1>4. QED
  BY <1>1, <1>2, <1>3, NoneIsNoRecord DEF SessionGuarantee

(* MarkFailed is executed only for content that is not the declared one.   *)
LEMMA MarkFailedSession ==
  ASSUME IInv, NEW j, j.pc = "markFailed", CompleterClaim(j),
         NEW s, s = MarkFailed(sess[j.u])
  PROVE  s \in Sessions /\ SessionGuarantee(j.u, s)
<1>1. /\ j.u \in Uploads /\ j.rec \in Records /\ create[j.u] = "announced"
      /\ Final(j.u) /\ data[j.u] # Declared[j.u]
  BY DEF CompleterClaim, PastBegin
<1>2. sess[j.u] \in Sessions /\ SessionGuarantee(j.u, sess[j.u])
  BY <1>1, KeptSession
<1>3. /\ s \in Sessions /\ s.bits = sess[j.u].bits /\ s.digest = sess[j.u].digest
      /\ sess[j.u].state = "NONE" => s = sess[j.u]
      /\ sess[j.u].state # "NONE" => s.state = "FAILED"
  BY <1>1, <1>2, MarkFacts
<1>4. QED
  BY <1>1, <1>2, <1>3 DEF SessionGuarantee

(* POST complete on a session that is already ARCHIVED or FAILED.          *)
LEMMA CompleteLookupTerminalStep ==
  ASSUME IInv, NEW h \in Completers, NEW u \in Uploads, CompleteLookupTerminal(h, u)
  PROVE  IInv' /\ Benign
<1>1. PICK s : s = sess[u]
  OBVIOUS
<1>2. PICK a : /\ answers' = answers \cup {a}
               /\ \/ s.state = "ARCHIVED" /\ a = Archived(u, s.rec)
                  \/ s.state = "FAILED" /\ a = Failed(u)
  BY <1>1 DEF CompleteLookupTerminal
<1>3. /\ create[u] = "announced" /\ sess' = [sess EXCEPT ![u] = s]
      /\ UNCHANGED <<sess, where, day, data, row, nextId, create, writer, completer, cleaner,
                     lateChunk, lateComplete, lateCreate, lateDelete, now>>
  BY <1>1 DEF CompleteLookupTerminal, files, late, IInv, TypeOK
<1>4. s \in Sessions /\ SessionGuarantee(u, s)
  BY <1>1, <1>3, KeptSession
<1>5. a \in Answers /\ AnswerGuarantee(a)
  BY <1>2, <1>4 DEF Answers, Archived, Failed, AnswerGuarantee, SessionGuarantee, Sessions
<1>6. TypeOK'
  BY <1>2, <1>3, <1>5 DEF IInv, TypeOK
<1>7. \A b \in answers' : b \in answers \/ AnswerGuarantee(b)
  BY <1>2, <1>5
<1>8. QED
  BY <1>3, <1>4, <1>6, <1>7, RestGuarantees, SessionStep

(* POST complete, the BeginComplete script.                                *)
LEMMA CompleteBeginStep ==
  ASSUME IInv, NEW h \in Completers, CompleteBegin(h)
  PROVE  IInv' /\ Benign
<1>1. PICK j : j = completer[h]
  OBVIOUS
<1>2. /\ j.pc = "begin" /\ j \in CompleterRecords
      /\ j.u \in Uploads /\ j.rec \in Records /\ create[j.u] = "announced"
  BY <1>1, BusyCompleter DEF CompleteBegin
<1>3. PICK s : s = BeginComplete(sess[j.u], j.rec)
  OBVIOUS
<1>4. PICK m : m = IF BeginCompleteStatus(sess[j.u]) \in {"Ready", "Resumable", "Archived"}
                   THEN [j EXCEPT !.pc = "find", !.rec = j.rec] ELSE CompleterIdle
  OBVIOUS
<1>5. /\ sess' = [sess EXCEPT ![j.u] = s]
      /\ completer' = [completer EXCEPT ![h] = m]
      /\ UNCHANGED <<where, day, data, row, nextId, create, writer, cleaner,
                     lateChunk, lateComplete, lateCreate, lateDelete, now>>
  BY <1>1, <1>3, <1>4 DEF CompleteBegin, Goto, Reply, files, late
<1>6. \/ answers' = answers
      \/ answers' = answers \cup {Failed(j.u)} /\ BeginCompleteStatus(sess[j.u]) = "Failed"
  BY <1>1 DEF CompleteBegin
<1>7. s \in Sessions /\ SessionGuarantee(j.u, s)
  BY <1>2, <1>3, BeginCompleteSession
<1>8. /\ BeginCompleteStatus(sess[j.u]) \in {"Ready", "Resumable", "Archived"} =>
           s.state \in {"VERIFYING", "ARCHIVED"}
      /\ BeginCompleteStatus(sess[j.u]) = "Failed" => sess[j.u].state = "FAILED"
  BY <1>2, <1>3, BeginCompleteFacts DEF IInv, TypeOK
<1>9. m \in CompleterRecords /\ (m = CompleterIdle \/ (m.pc = "find" /\ m.u = j.u /\ m.rec = j.rec
       /\ s.state \in {"VERIFYING", "ARCHIVED"}))
  BY <1>2, <1>4, <1>8, IdleJobs DEF CompleterRecords
<1>10. CompleterGuarantee(j.u, s, m)
  <2>1. CompleterJobs' \subseteq CompleterJobs \cup {m}
    BY <1>5, CompleterMoves DEF IInv, TypeOK
  <2>2. QED
    BY <1>2, <1>5, <1>9, <2>1, IdleJobs DEF IInv, JobsInv, CompleterGuarantee
<1>11. answers' = answers \/ (answers' = answers \cup {Failed(j.u)} /\ AnswerGuarantee(Failed(j.u)))
  BY <1>2, <1>6, <1>8 DEF AnswerGuarantee, Failed, IInv, FinalInv, VerdictInv
<1>12. TypeOK'
  <2>1. answers' \subseteq Answers
    BY <1>2, <1>6 DEF Failed, Answers, IInv, TypeOK
  <2>2. QED
    BY <1>2, <1>5, <1>7, <1>9, <2>1 DEF IInv, TypeOK
<1>13. \A b \in answers' : b \in answers \/ AnswerGuarantee(b)
  BY <1>11
<1>14. QED
  BY <1>2, <1>5, <1>7, <1>10, <1>12, <1>13, RestGuarantees, SessionStep

(* MarkArchived and MarkFailed by their handler. *)
LEMMA CompleteMarkStep ==
  ASSUME IInv, NEW h \in Completers, CompleteMarkArchived(h) \/ CompleteMarkFailed(h)
  PROVE  IInv' /\ Benign
<1>1. PICK j : j = completer[h]
  OBVIOUS
<1>2. /\ j.pc \in {"markArchived", "markFailed"} /\ j \in CompleterRecords /\ CompleterClaim(j)
      /\ j.u \in Uploads /\ j.rec \in Records
  BY <1>1, BusyCompleter DEF CompleteMarkArchived, CompleteMarkFailed
<1>3. PICK s : s = IF j.pc = "markArchived" THEN MarkArchived(sess[j.u], j.rec)
                                            ELSE MarkFailed(sess[j.u])
  OBVIOUS
<1>4. PICK a : a = IF j.pc = "markArchived" THEN Archived(j.u, j.rec) ELSE Failed(j.u)
  OBVIOUS
<1>5. /\ sess' = [sess EXCEPT ![j.u] = s]
      /\ completer' = [completer EXCEPT ![h] = CompleterIdle]
      /\ answers' = answers \/ answers' = answers \cup {a}
      /\ UNCHANGED <<where, day, data, row, nextId, create, writer, cleaner,
                     lateChunk, lateComplete, lateCreate, lateDelete, now>>
  BY <1>1, <1>3, <1>4 DEF CompleteMarkArchived, CompleteMarkFailed, Reply, files, late
<1>6. s \in Sessions /\ SessionGuarantee(j.u, s)
  BY <1>2, <1>3, MarkArchivedSession, MarkFailedSession
<1>7. a \in Answers /\ AnswerGuarantee(a)
  BY <1>2, <1>4, NoneIsNoRecord
     DEF Answers, Archived, Failed, AnswerGuarantee, CompleterClaim, PastBegin
<1>8. TypeOK'
  BY <1>2, <1>5, <1>6, <1>7, IdleJobs DEF IInv, TypeOK
<1>9. CompleterGuarantee(j.u, s, CompleterIdle)
  <2>1. CompleterJobs' \subseteq CompleterJobs \cup {CompleterIdle}
    BY <1>5, CompleterMoves DEF IInv, TypeOK
  <2>2. QED
    BY <1>5, <2>1, IdleJobs DEF IInv, JobsInv, CompleterGuarantee
<1>10. \A b \in answers' : b \in answers \/ AnswerGuarantee(b)
  BY <1>5, <1>7
<1>11. QED
  BY <1>2, <1>5, <1>6, <1>8, <1>9, <1>10, RestGuarantees, SessionStep

(* verifyAndArchiveFile, the rename.                                       *)
LEMMA ArchiveRenameStep ==
  ASSUME IInv, NEW h \in Completers, ArchiveRename(h)
  PROVE  IInv' /\ Benign
<1>1. PICK j : j = completer[h]
  OBVIOUS
<1>2. /\ j.pc = "rename" /\ j \in CompleterRecords /\ CompleterClaim(j)
      /\ j.u \in Uploads /\ j.rec \in Records /\ create[j.u] = "announced"
  BY <1>1, BusyCompleter DEF ArchiveRename
<1>3. UNCHANGED <<sess, data, row, nextId, create, writer, cleaner,
                  lateChunk, lateComplete, lateCreate, lateDelete, now, answers>>
  BY DEF ArchiveRename, late
<1>4. CASE where[j.u] # "temp"
  <2>1. completer' = [completer EXCEPT ![h] = CompleterIdle] /\ UNCHANGED <<where, day>>
    BY <1>1, <1>4 DEF ArchiveRename, Reply
  <2>2. QED
    BY <1>3, <2>1, IdleJobs, CompleterStep
<1>5. CASE where[j.u] = "temp"
  <2>1. PICK m : m = [j EXCEPT !.pc = "insert", !.rec = j.rec]
    OBVIOUS
  <2>2. m \in CompleterRecords /\ m.pc = "insert" /\ m.u = j.u /\ m.rec = j.rec
    BY <1>2, <2>1 DEF CompleterRecords
  <2>3. /\ where' = [where EXCEPT ![j.u] = "archive"]
        /\ day' = [day EXCEPT ![j.u] = j.rec.day]
        /\ completer' = [completer EXCEPT ![h] = m]
    BY <1>1, <1>5, <2>1 DEF ArchiveRename, Goto
  <2>4. where'[j.u] = "archive" /\ day'[j.u] = j.rec.day
        /\ \A u \in Uploads \ {j.u} : where'[u] = where[u] /\ day'[u] = day[u]
    BY <1>2, <2>3 DEF IInv, TypeOK
  <2>5. TypeOK'
    BY <1>2, <1>3, <2>2, <2>3 DEF IInv, TypeOK, Records
  <2>6. Benign
    BY <1>2, <1>3, <1>5, <2>4 DEF Benign, IInv, LiveUploadHasFile
  <2>7. WriterJobs' \subseteq WriterJobs \cup {WriterIdle}
    BY <1>3, WritersRest
  <2>8. ASSUME NEW u \in Uploads, Final(u) PROVE Final(u)'
    BY <2>5, <2>6, <2>7, <2>8, IdleJobs, FinalKept
  <2>9. CompleterClaim(m)'
    BY <1>2, <1>3, <2>2, <2>4, <2>8 DEF CompleterClaim, PastBegin
  <2>10. JobsInv'
    <3>1. CompleterJobs' \subseteq CompleterJobs \cup {m}
      BY <1>3, <2>3, CompleterMoves DEF IInv, TypeOK
    <3>2. \A i \in CompleterJobs' : CompleterClaim(i)'
      BY <2>5, <2>6, <2>7, <2>9, <3>1, IdleJobs, CompleterClaimKept
    <3>3. \A i \in WriterJobs' : WriterClaim(i)'
      BY <2>5, <2>6, <2>7, IdleJobs, WriterClaimKept
    <3>4. QED
      BY <1>3, <3>2, <3>3 DEF IInv, JobsInv
  <2>11. Final(j.u)
    BY <1>2 DEF CompleterClaim, PastBegin
  <2>12. FinalInv'
    <3>1. \A a \in answers : a.u \in Uploads
      BY DEF IInv, TypeOK, Answers
    <3>2. QED
      BY <1>2, <1>3, <2>4, <2>8, <2>11, <3>1 DEF IInv, FinalInv
  <2>13. CreateInv' /\ BitmapBehindFile' /\ VerdictInv' /\ RowInv' /\ CleanerInv'
    BY <1>2, <1>3, <2>4 DEF IInv, CreateInv, BitmapBehindFile, VerdictInv, RowInv, CleanerInv
  <2>14. ArchivedFileIntact'
    BY <1>2, <1>3, <1>5, <2>4 DEF IInv, ArchivedFileIntact
  <2>15. LiveUploadHasFile'
    BY <1>2, <1>3, <2>4, <2>11 DEF IInv, LiveUploadHasFile, Final
  <2>16. QED
    BY <2>5, <2>6, <2>10, <2>12, <2>13, <2>14, <2>15 DEF IInv
<1>6. QED
  BY <1>4, <1>5

(* MySQL inserts the row of an insert job, in time or late; m is the new   *)
(* record of the complete handler.                                         *)
InsertGuarantee(j, r, m) ==
  /\ row[j.u] = None
  /\ r = [j.rec EXCEPT !.id = nextId]
  /\ row' = [row EXCEPT ![j.u] = r] /\ nextId' = nextId + 1
  /\ CompleterJobs' \subseteq CompleterJobs \cup {m}
  /\ m.pc = "idle" \/ (m.pc = "markArchived" /\ m.u = j.u /\ m.rec = r)
  /\ \A i \in lateComplete' : i.pc \in {"begin", "insert", "markArchived", "markFailed"}

(* A row that MySQL inserts for an insert job keeps the invariant.         *)
LEMMA InsertStep ==
  ASSUME IInv, TypeOK', NEW j, j.pc = "insert", CompleterClaim(j),
         NEW r, NEW m, InsertGuarantee(j, r, m),
         UNCHANGED <<sess, where, day, data, create, writer, cleaner,
                     lateChunk, lateCreate, lateDelete, now, answers>>
  PROVE  IInv' /\ Benign
<1> USE DEF InsertGuarantee
<1>1. /\ j.u \in Uploads /\ j.rec \in Records /\ create[j.u] = "announced" /\ Final(j.u)
      /\ where[j.u] = "archive" /\ day[j.u] = j.rec.day /\ data[j.u] = Declared[j.u]
  BY DEF CompleterClaim, PastBegin
<1>2. r \in Records /\ r # None /\ r.day = j.rec.day /\ r.id = nextId
  BY <1>1, NoneIsNoRecord DEF IInv, TypeOK, Records
<1>3. row'[j.u] = r /\ \A u \in Uploads \ {j.u} : row'[u] = row[u]
  BY <1>1 DEF IInv, TypeOK
<1>4. Benign
  BY <1>1, <1>3 DEF Benign, IInv, LiveUploadHasFile
<1>5. WriterJobs' \subseteq WriterJobs \cup {WriterIdle}
  BY WritersRest
<1>6. ASSUME NEW u \in Uploads, Final(u) PROVE Final(u)'
  BY <1>4, <1>5, <1>6, IdleJobs, FinalKept
<1>7. CompleterClaim(m)'
  BY <1>1, <1>2, <1>3, <1>6 DEF CompleterClaim
<1>8. JobsInv'
  <2>1. \A i \in CompleterJobs' : CompleterClaim(i)'
    BY <1>4, <1>5, <1>7, IdleJobs, CompleterClaimKept
  <2>2. \A i \in WriterJobs' : WriterClaim(i)'
    BY <1>4, <1>5, IdleJobs, WriterClaimKept
  <2>3. QED
    BY <2>1, <2>2 DEF IInv, JobsInv
<1>9. FinalInv'
  <2>1. \A a \in answers : a.u \in Uploads
    BY DEF IInv, TypeOK, Answers
  <2>2. QED
    BY <1>1, <1>3, <1>6, <2>1 DEF IInv, FinalInv
<1>10. VerdictInv'
  <2>1. \A a \in answers : a.u \in Uploads
    BY DEF IInv, TypeOK, Answers
  <2>2. QED
    BY <1>1, <1>3, <2>1 DEF IInv, VerdictInv
<1>11. ArchivedFileIntact'
  BY <1>1, <1>2, <1>3 DEF IInv, ArchivedFileIntact
<1>12. RowInv'
  <2>1. \A u \in Uploads : row[u] # None => row[u] \in Records
    BY DEF IInv, TypeOK
  <2>2. nextId \in Nat /\ \A u \in Uploads : row[u] # None => row[u].id < nextId /\ row[u].id \in Nat
    BY <2>1 DEF IInv, TypeOK, RowInv, Records
  <2>3. \A u \in Uploads : row'[u] # None => row'[u].id < nextId'
    BY <1>2, <1>3, <2>2
  <2>4. \A u, v \in Uploads : u # v /\ row'[u] # None /\ row'[v] # None => row'[u].id # row'[v].id
    BY <1>2, <1>3, <2>2 DEF IInv, RowInv
  <2>5. QED
    BY <2>3, <2>4 DEF RowInv
<1>13. CreateInv' /\ BitmapBehindFile' /\ LiveUploadHasFile' /\ CleanerInv'
  BY DEF IInv, CreateInv, BitmapBehindFile, LiveUploadHasFile, CleanerInv
<1>14. QED
  BY <1>4, <1>8, <1>9, <1>10, <1>11, <1>12, <1>13 DEF IInv

(* POST complete, INSERT INTO archive_file.                                *)
LEMMA CompleteInsertStep ==
  ASSUME IInv, NEW h \in Completers, CompleteInsert(h)
  PROVE  IInv' /\ Benign
<1>1. PICK j : j = completer[h]
  OBVIOUS
<1>2. /\ j.pc = "insert" /\ j \in CompleterRecords /\ CompleterClaim(j)
      /\ j.u \in Uploads /\ j.rec \in Records /\ create[j.u] = "announced"
  BY <1>1, BusyCompleter DEF CompleteInsert
<1>3. UNCHANGED <<sess, where, day, data, create, writer, cleaner,
                  lateChunk, lateComplete, lateCreate, lateDelete, now, answers>>
  BY DEF CompleteInsert, files, late
<1>4. CASE row[j.u] # None
  <2>1. PICK m : m = [j EXCEPT !.pc = "resolve", !.rec = j.rec]
    OBVIOUS
  <2>2. m \in CompleterRecords /\ m.pc = "resolve" /\ m.u = j.u /\ m.rec = j.rec
    BY <1>2, <2>1 DEF CompleterRecords
  <2>3. CompleterClaim(m)
    BY <1>2, <1>4, <2>2 DEF CompleterClaim, PastBegin
  <2>4. completer' = [completer EXCEPT ![h] = m] /\ UNCHANGED <<row, nextId>>
    BY <1>1, <1>4, <2>1 DEF CompleteInsert, InsertRow, Goto
  <2>5. QED
    BY <1>3, <2>2, <2>3, <2>4, CompleterStep
<1>5. CASE row[j.u] = None
  <2>1. PICK r : r = [j.rec EXCEPT !.id = nextId]
    OBVIOUS
  <2>2. PICK m : m = [j EXCEPT !.pc = "markArchived", !.rec = r]
    OBVIOUS
  <2>3. row' = [row EXCEPT ![j.u] = r] /\ nextId' = nextId + 1
    BY <1>1, <1>5, <2>1 DEF CompleteInsert, InsertRow
  <2>4. row'[j.u] = r /\ r \in Records
    BY <1>2, <2>1, <2>3 DEF IInv, TypeOK, Records
  <2>5. completer' = [completer EXCEPT ![h] = m]
    BY <1>1, <1>5, <2>2, <2>4 DEF CompleteInsert, Goto
  <2>6. m \in CompleterRecords /\ m.pc = "markArchived" /\ m.u = j.u /\ m.rec = r
    BY <1>2, <2>2, <2>4 DEF CompleterRecords
  <2>7. TypeOK'
    BY <1>2, <1>3, <2>3, <2>4, <2>5, <2>6 DEF IInv, TypeOK
  <2>8. CompleterJobs' \subseteq CompleterJobs \cup {m}
    BY <1>3, <2>5, CompleterMoves DEF IInv, TypeOK
  <2>9. \A i \in lateComplete' : i.pc \in {"begin", "insert", "markArchived", "markFailed"}
    BY <1>3 DEF IInv, JobsInv
  <2>10. InsertGuarantee(j, r, m)
    BY <1>5, <2>1, <2>3, <2>6, <2>8, <2>9 DEF InsertGuarantee
  <2>11. QED
    BY <1>2, <1>3, <2>7, <2>10, InsertStep
<1>6. QED
  BY <1>4, <1>5

-----------------------------------------------------------------------------
(* POST /uploads.                                                          *)

(* A step on an upload v that no client knows of yet touches nobody else.  *)
CreateGuarantee(v) ==
  /\ create[v] # "announced"
  /\ \A u \in Uploads \ {v} : sess'[u] = sess[u] /\ where'[u] = where[u] /\ create'[u] = create[u]
  /\ sess'[v] \in {NoSession, CreatedSession}
  /\ where'[v] # "archive"
  /\ create'[v] \in {"announced", "allocated", "unlinking"} => where'[v] = "temp"
  /\ create'[v] \in {"new", "allocated"} => sess'[v] = NoSession
  /\ create[v] = "closed" => create'[v] = "closed"
  /\ \A u \in lateCreate' :
       /\ u \in lateCreate \/ (u = v /\ create[v] = "allocated")
       /\ create'[u] \in {"unlinking", "closed"} /\ sess'[u].state = "NONE"

(* A step within CreateGuarantee keeps the invariant.                      *)
LEMMA CreateStep ==
  ASSUME IInv, TypeOK', NEW v \in Uploads, CreateGuarantee(v),
         UNCHANGED <<day, data, row, nextId, writer, completer, cleaner,
                     lateChunk, lateComplete, answers>>
  PROVE  IInv' /\ Benign
<1> USE DEF CreateGuarantee
<1>1. Benign
  BY DEF Benign, IInv, LiveUploadHasFile
<1>2. WriterJobs' \subseteq WriterJobs \cup {WriterIdle} /\ CompleterJobs' \subseteq CompleterJobs
  <2>1. WriterJobs' \subseteq WriterJobs \cup {WriterIdle}
    BY WritersRest
  <2>2. QED
    BY <2>1 DEF CompleterJobs
<1>3. ASSUME NEW u \in Uploads, Final(u) PROVE Final(u)'
  BY <1>1, <1>2, <1>3, IdleJobs, FinalKept
<1>4. JobsInv'
  <2>1. \A i \in CompleterJobs' : CompleterClaim(i)'
    BY <1>1, <1>2, IdleJobs, CompleterClaimKept
  <2>2. \A i \in WriterJobs' : WriterClaim(i)'
    BY <1>1, <1>2, IdleJobs, WriterClaimKept
  <2>3. QED
    BY <2>1, <2>2 DEF IInv, JobsInv
<1>5. ~Final(v) /\ row[v] = None
  BY DEF Final, IInv, FinalInv
<1>6. FinalInv'
  <2>1. \A a \in answers : a.u \in Uploads
    BY DEF IInv, TypeOK, Answers
  <2>2. QED
    BY <1>3, <1>5, <2>1, SessionConstants DEF IInv, FinalInv
<1>7. CreateInv'
  BY SessionConstants DEF IInv, CreateInv
<1>8. BitmapBehindFile' /\ VerdictInv' /\ RowInv'
  BY SessionConstants DEF IInv, BitmapBehindFile, VerdictInv, RowInv
<1>9. ArchivedFileIntact' /\ LiveUploadHasFile'
  BY <1>5, SessionConstants DEF IInv, ArchivedFileIntact, LiveUploadHasFile
<1>10. CleanerInv'
  BY DEF IInv, CleanerInv
<1>11. QED
  BY <1>1, <1>4, <1>6, <1>7, <1>8, <1>9, <1>10 DEF IInv

(* All steps of POST /uploads.                                             *)
LEMMA CreateRequestStep ==
  ASSUME IInv, NEW v \in Uploads, CreateRequest(v)
  PROVE  IInv' /\ Benign
<1>1. sess \in [Uploads -> Sessions] /\ where \in [Uploads -> {"none", "temp", "archive", "gone"}]
      /\ create \in [Uploads -> {"new", "allocated", "unlinking", "announced", "closed"}]
  BY DEF IInv, TypeOK
<1>2. /\ \A u \in lateCreate : create[u] \in {"unlinking", "closed"} /\ sess[u].state = "NONE"
      /\ lateCreate \subseteq Uploads
      /\ create[v] # "announced" => sess[v] \in {NoSession, CreatedSession}
      /\ create[v] \in {"allocated", "unlinking"} => where[v] = "temp"
      /\ create[v] \in {"new", "allocated"} => sess[v] = NoSession
  BY DEF IInv, TypeOK, CreateInv
<1>3. CASE CreateAllocate(v)
  <2>1. TypeOK'
    BY <1>3 DEF CreateAllocate, late, IInv, TypeOK
  <2>2. CreateGuarantee(v)
    BY <1>1, <1>2, <1>3 DEF CreateAllocate, late, CreateGuarantee
  <2>3. QED
    BY <1>3, <2>1, <2>2, CreateStep DEF CreateAllocate, late
<1>4. CASE CreateSession(v)
  <2>1. TypeOK'
    BY <1>4, SessionConstants DEF CreateSession, late, files, IInv, TypeOK
  <2>2. CreateGuarantee(v)
    BY <1>1, <1>2, <1>4 DEF CreateSession, late, files, CreateGuarantee
  <2>3. QED
    BY <1>4, <2>1, <2>2, CreateStep DEF CreateSession, late, files
<1>5. CASE CreateRejected(v)
  <2>1. TypeOK'
    BY <1>5 DEF CreateRejected, files, IInv, TypeOK
  <2>2. /\ create[v] = "allocated" /\ create' = [create EXCEPT ![v] = "unlinking"]
        /\ lateCreate' \subseteq lateCreate \cup {v} /\ UNCHANGED <<sess, where>>
    BY <1>5 DEF CreateRejected, files
  <2>3. sess[v] = NoSession
    BY <2>2 DEF IInv, CreateInv
  <2>4. CreateGuarantee(v)
    BY <1>1, <1>2, <2>2, <2>3, SessionConstants DEF CreateGuarantee
  <2>5. QED
    BY <1>5, <2>1, <2>4, CreateStep DEF CreateRejected, files
<1>6. CASE CreateUnlink(v)
  <2>1. TypeOK'
    BY <1>6 DEF CreateUnlink, late, IInv, TypeOK
  <2>2. CreateGuarantee(v)
    BY <1>1, <1>2, <1>6 DEF CreateUnlink, late, CreateGuarantee
  <2>3. QED
    BY <1>6, <2>1, <2>2, CreateStep DEF CreateUnlink, late
<1>7. QED
  BY <1>3, <1>4, <1>5, <1>6 DEF CreateRequest

(* A createSession command executed after its handler gave up.             *)
LEMMA LateCreateStep ==
  ASSUME IInv, NEW v \in Uploads, LateCreate(v)
  PROVE  IInv' /\ Benign
<1>1. TypeOK'
  BY SessionConstants DEF LateCreate, files, IInv, TypeOK
<1>2. sess \in [Uploads -> Sessions] /\ lateCreate \subseteq Uploads
  BY DEF IInv, TypeOK
<1>3. CreateGuarantee(v)
  BY <1>2 DEF LateCreate, files, CreateGuarantee, IInv, CreateInv, FinalInv, Final
<1>4. QED
  BY <1>1, <1>3, CreateStep DEF LateCreate, files

-----------------------------------------------------------------------------
(* Late commands, expiry and the cleanup thread.                           *)

(* A BeginChunk or FinishChunk executed after its handler gave up.         *)
LEMMA LateChunkStep ==
  ASSUME IInv, NEW j \in lateChunk, LateChunk(j)
  PROVE  IInv' /\ Benign
<1>1. WriterClaim(j) /\ j.pc \in {"begin", "finish"}
  BY DEF IInv, JobsInv, WriterJobs
<1>2. j.u \in Uploads /\ j.c \in Chunks /\ j.d \in Data /\ create[j.u] = "announced"
  BY <1>1 DEF WriterClaim
<1>3. PICK s : s = IF j.pc = "begin" THEN BeginChunk(sess[j.u], j.c, j.d)
                                     ELSE FinishChunk(sess[j.u], j.c, j.d)
  OBVIOUS
<1>4. /\ sess' = [sess EXCEPT ![j.u] = s] /\ lateChunk' = lateChunk \ {j}
      /\ UNCHANGED <<where, day, data, row, nextId, create, writer, completer, cleaner,
                     lateComplete, lateCreate, lateDelete, now, answers>>
  BY <1>3 DEF LateChunk, files
<1>5. s \in Sessions /\ SessionGuarantee(j.u, s)
  BY <1>1, <1>2, <1>3, BeginChunkSession, FinishChunkSession
<1>6. TypeOK'
  BY <1>2, <1>4, <1>5 DEF IInv, TypeOK
<1>7. WriterGuarantee(WriterIdle)
  <2>1. WriterJobs' \subseteq WriterJobs /\ \A i \in lateChunk' : i.pc \in {"begin", "finish"}
    BY <1>4 DEF WriterJobs, IInv, JobsInv
  <2>2. QED
    BY <2>1, IdleJobs DEF WriterGuarantee
<1>8. QED
  BY <1>2, <1>4, <1>5, <1>6, <1>7, RestGuarantees, SessionStep

(* A BeginComplete, Insert or Mark command executed after its handler gave *)
(* up.                                                                     *)
LEMMA LateCompleteStep ==
  ASSUME IInv, NEW j \in lateComplete, LateComplete(j)
  PROVE  IInv' /\ Benign
<1>1. CompleterClaim(j) /\ j.pc \in {"begin", "insert", "markArchived", "markFailed"}
  BY DEF IInv, JobsInv, CompleterJobs
<1>2. j.u \in Uploads /\ j.rec \in Records /\ create[j.u] = "announced"
  BY <1>1 DEF CompleterClaim
<1>3. /\ lateComplete' = lateComplete \ {j}
      /\ UNCHANGED <<where, day, data, create, writer, completer, cleaner,
                     lateChunk, lateCreate, lateDelete, now, answers>>
  BY DEF LateComplete, files
<1>4. /\ CompleterJobs' \subseteq CompleterJobs \cup {CompleterIdle}
      /\ \A i \in lateComplete' : i.pc \in {"begin", "insert", "markArchived", "markFailed"}
  BY <1>3 DEF CompleterJobs, IInv, JobsInv
<1>5. ASSUME NEW s \in Sessions, SessionGuarantee(j.u, s),
             sess' = [sess EXCEPT ![j.u] = s], UNCHANGED <<row, nextId>>
      PROVE  IInv' /\ Benign
  <2>1. CompleterGuarantee(j.u, s, CompleterIdle)
    BY <1>4, IdleJobs DEF CompleterGuarantee
  <2>2. TypeOK'
    BY <1>2, <1>3, <1>5 DEF IInv, TypeOK
  <2>3. QED
    BY <1>2, <1>3, <1>5, <2>1, <2>2, RestGuarantees, SessionStep
<1>6. CASE j.pc = "begin"
  BY <1>2, <1>5, <1>6, BeginCompleteSession DEF LateComplete
<1>7. CASE j.pc = "markArchived"
  BY <1>1, <1>5, <1>7, MarkArchivedSession DEF LateComplete
<1>8. CASE j.pc = "markFailed"
  BY <1>1, <1>5, <1>8, MarkFailedSession DEF LateComplete
<1>9. CASE j.pc = "insert" /\ row[j.u] = None
  <2>1. PICK r : r = [j.rec EXCEPT !.id = nextId]
    OBVIOUS
  <2>2. row' = [row EXCEPT ![j.u] = r] /\ nextId' = nextId + 1 /\ sess' = sess
    BY <1>9, <2>1 DEF LateComplete, InsertRow
  <2>3. r \in Records
    BY <1>2, <2>1 DEF Records, IInv, TypeOK
  <2>4. TypeOK'
    BY <1>2, <1>3, <2>2, <2>3 DEF IInv, TypeOK
  <2>5. InsertGuarantee(j, r, CompleterIdle)
    BY <1>4, <1>9, <2>1, <2>2, IdleJobs DEF InsertGuarantee
  <2>6. QED
    BY <1>1, <1>3, <1>9, <2>2, <2>4, <2>5, InsertStep
<1>10. CASE j.pc = "insert" /\ row[j.u] # None
  <2>1. UNCHANGED <<row, nextId, sess>>
    BY <1>10 DEF LateComplete, InsertRow
  <2>2. TypeOK'
    BY <1>3, <2>1 DEF IInv, TypeOK
  <2>3. QED
    BY <1>3, <1>4, <2>1, <2>2, WritersRest, IdleJobs, HandlerStep
<1>11. QED
  BY <1>1, <1>6, <1>7, <1>8, <1>9, <1>10

(* Losing the keys of a session is always within its guarantee.            *)
LEMMA NoSessionGuarantee ==
  ASSUME NEW v
  PROVE  SessionGuarantee(v, NoSession)
  BY SessionConstants DEF SessionGuarantee

(* The keys of a session go away: expiry, or a DEL of the cleanup thread. *)
LEMMA SessionGoneStep ==
  ASSUME IInv, NEW v \in Uploads, sess' = [sess EXCEPT ![v] = NoSession],
         cleaner' = cleaner \/ cleaner' = CleanerIdle, lateDelete' \subseteq lateDelete,
         UNCHANGED <<where, day, data, row, nextId, create, writer, completer,
                     lateChunk, lateComplete, lateCreate, now, answers>>
  PROVE  IInv' /\ Benign
<1>1. TypeOK'
  <2>1. NoSession \in Sessions /\ CleanerIdle \in CleanerRecords
    BY SessionConstants DEF CleanerIdle, CleanerRecords
  <2>2. QED
    BY <2>1 DEF IInv, TypeOK
<1>2. QED
  BY <1>1, NoSessionGuarantee, SessionConstants, RestGuarantees, SessionStep

(* The TTL runs out, or a late DEL is executed.                            *)
LEMMA ExpireStep ==
  ASSUME IInv, NEW v \in Uploads, Expire(v) \/ LateDelete(v)
  PROVE  IInv' /\ Benign
  BY SessionGoneStep DEF Expire, LateDelete, files, late

(* A step of the cleanup thread, or of the clock, that touches no file and *)
(* no session.                                                             *)
LEMMA CleanerStep ==
  ASSUME IInv, TypeOK', CleanerInv',
         UNCHANGED <<sess, where, day, data, row, nextId, create, writer, completer,
                     lateChunk, lateComplete, lateCreate, answers>>
  PROVE  IInv' /\ Benign
<1>1. Benign
  BY DEF Benign, IInv, LiveUploadHasFile
<1>2. WriterJobs' = WriterJobs /\ CompleterJobs' = CompleterJobs
  BY DEF WriterJobs, CompleterJobs
<1>3. \A u \in Uploads : Final(u) => Final(u)'
  BY <1>2 DEF Final
<1>4. JobsInv'
  BY <1>1, <1>2, IdleJobs, WriterClaimKept, CompleterClaimKept DEF IInv, JobsInv
<1>5. FinalInv'
  <2>1. \A a \in answers : a.u \in Uploads
    BY DEF IInv, TypeOK, Answers
  <2>2. QED
    BY <1>3, <2>1 DEF IInv, FinalInv
<1>6. CreateInv' /\ BitmapBehindFile' /\ ArchivedFileIntact' /\ VerdictInv' /\ RowInv'
      /\ LiveUploadHasFile'
  BY DEF IInv, CreateInv, BitmapBehindFile, ArchivedFileIntact, VerdictInv, RowInv, LiveUploadHasFile
<1>7. QED
  BY <1>1, <1>4, <1>5, <1>6 DEF IInv

(* The unlink of a temp file on a lookup that may be stale by now.         *)
LEMMA CleanupUnlinkStep ==
  ASSUME IInv, CleanupUnlink, where[cleaner.u] = "temp"
  PROVE  IInv' /\ Benign
<1>1. PICK v : v = cleaner.u
  OBVIOUS
<1>2. /\ v \in Uploads /\ v \notin lateCreate /\ create[v] \in {"announced", "closed"}
      /\ create[v] = "announced" => sess[v].state \notin {"UPLOADING", "VERIFYING"}
      /\ where[v] = "temp"
  BY <1>1 DEF CleanupUnlink, IInv, CleanerInv
<1>3. /\ where' = [where EXCEPT ![v] = "gone"]
      /\ UNCHANGED <<sess, day, data, row, nextId, create, writer, completer,
                     lateChunk, lateComplete, lateCreate, lateDelete, now, answers>>
  BY <1>1 DEF CleanupUnlink, late
<1>4. /\ cleaner' \in CleanerRecords
      /\ cleaner'.pc = "idle" \/ (cleaner'.pc = "delete" /\ cleaner'.u = v)
  <2>1. cleaner \in CleanerRecords
    BY DEF IInv, TypeOK
  <2>2. cleaner' = CleanerIdle \/ cleaner' = [cleaner EXCEPT !.pc = "delete"]
    BY DEF CleanupUnlink
  <2>3. CleanerIdle \in CleanerRecords /\ CleanerIdle.pc = "idle"
    BY DEF CleanerIdle, CleanerRecords
  <2>4. PICK k : k = [cleaner EXCEPT !.pc = "delete"]
    OBVIOUS
  <2>5. k \in CleanerRecords /\ k.pc = "delete" /\ k.u = v
    BY <1>1, <2>1, <2>4 DEF CleanerRecords
  <2>6. QED
    BY <2>2, <2>3, <2>4, <2>5
<1>5. where'[v] = "gone" /\ \A u \in Uploads \ {v} : where'[u] = where[u]
  BY <1>2, <1>3 DEF IInv, TypeOK
<1>6. TypeOK'
  BY <1>2, <1>3, <1>4 DEF IInv, TypeOK
<1>7. Benign
  BY <1>2, <1>3, <1>5 DEF Benign, IInv, LiveUploadHasFile
<1>8. WriterJobs' = WriterJobs /\ CompleterJobs' = CompleterJobs
  BY <1>3 DEF WriterJobs, CompleterJobs
<1>9. \A u \in Uploads : Final(u) => Final(u)'
  BY <1>3, <1>8 DEF Final
<1>10. JobsInv'
  <2>1. \A i \in CompleterJobs' : CompleterClaim(i)'
    BY <1>6, <1>7, <1>8, IdleJobs, CompleterClaimKept
  <2>2. \A i \in WriterJobs' : WriterClaim(i)'
    BY <1>6, <1>7, <1>8, WriterClaimKept
  <2>3. QED
    BY <1>3, <2>1, <2>2 DEF IInv, JobsInv
<1>11. FinalInv'
  <2>1. \A a \in answers : a.u \in Uploads
    BY DEF IInv, TypeOK, Answers
  <2>2. QED
    BY <1>2, <1>3, <1>5, <1>9, <2>1 DEF IInv, FinalInv
<1>12. CreateInv' /\ BitmapBehindFile' /\ VerdictInv' /\ RowInv'
  BY <1>2, <1>3, <1>5 DEF IInv, CreateInv, BitmapBehindFile, VerdictInv, RowInv
<1>13. ArchivedFileIntact' /\ LiveUploadHasFile'
  BY <1>2, <1>3, <1>5 DEF IInv, ArchivedFileIntact, LiveUploadHasFile
<1>14. CleanerInv'
  BY <1>2, <1>3, <1>4 DEF CleanerInv
<1>15. QED
  BY <1>6, <1>7, <1>10, <1>11, <1>12, <1>13, <1>14 DEF IInv

(* All steps of the cleanup thread.                                        *)
LEMMA CleanupStep ==
  ASSUME IInv, Cleanup
  PROVE  IInv' /\ Benign
<1>0. CleanerIdle \in CleanerRecords /\ CleanerIdle.pc = "idle"
  BY DEF CleanerIdle, CleanerRecords
<1>1. ASSUME NEW u \in Uploads, CleanupCandidate(u) PROVE IInv' /\ Benign
  <2>1. PICK k : k = [pc |-> "lookup", u |-> u, terminal |-> FALSE]
    OBVIOUS
  <2>2. k \in CleanerRecords /\ k.pc = "lookup" /\ k.u = u
    BY <2>1 DEF CleanerRecords
  <2>3. /\ cleaner' = k /\ u \notin lateCreate /\ create[u] \in {"announced", "closed"}
        /\ UNCHANGED <<sess, where, day, data, row, nextId, create, writer, completer,
                       lateChunk, lateComplete, lateCreate, lateDelete, now, answers>>
    BY <1>1, <2>1 DEF CleanupCandidate, files, late
  <2>4. TypeOK'
    BY <2>2, <2>3 DEF IInv, TypeOK
  <2>5. CleanerInv'
    BY <2>2, <2>3 DEF CleanerInv
  <2>6. QED
    BY <2>3, <2>4, <2>5, CleanerStep
<1>2. CASE CleanupLookup
  <2>1. /\ cleaner.pc = "lookup" /\ cleaner \in CleanerRecords
        /\ cleaner.u \in Uploads /\ sess[cleaner.u] \in Sessions
        /\ UNCHANGED <<sess, where, day, data, row, nextId, create, writer, completer,
                       lateChunk, lateComplete, lateCreate, lateDelete, now, answers>>
    BY <1>2 DEF CleanupLookup, files, late, IInv, TypeOK, CleanerInv
  <2>2. /\ cleaner' \in CleanerRecords
        /\ \/ cleaner' = CleanerIdle
           \/ /\ cleaner'.pc = "unlink" /\ cleaner'.u = cleaner.u
              /\ sess[cleaner.u].state \in {"NONE", "FAILED", "ARCHIVED"}
    BY <1>0, <1>2, <2>1 DEF CleanupLookup, CleanerRecords, Sessions
  <2>3. TypeOK'
    BY <2>1, <2>2 DEF IInv, TypeOK
  <2>4. CleanerInv'
    BY <1>0, <2>1, <2>2 DEF IInv, CleanerInv
  <2>5. QED
    BY <2>1, <2>3, <2>4, CleanerStep
<1>3. CASE CleanupUnlink /\ where[cleaner.u] # "temp"
  <2>1. /\ cleaner' = CleanerIdle
        /\ UNCHANGED <<sess, where, day, data, row, nextId, create, writer, completer,
                       lateChunk, lateComplete, lateCreate, lateDelete, now, answers>>
    BY <1>3 DEF CleanupUnlink, late
  <2>2. TypeOK' /\ CleanerInv'
    BY <1>0, <2>1 DEF IInv, TypeOK, CleanerInv
  <2>3. QED
    BY <2>1, <2>2, CleanerStep
<1>4. CASE CleanupUnlink /\ where[cleaner.u] = "temp"
  BY <1>4, CleanupUnlinkStep
<1>5. CASE CleanupDelete
  <2>1. cleaner.u \in Uploads
    BY <1>5 DEF CleanupDelete, IInv, CleanerInv
  <2>2. QED
    BY <1>5, <2>1, SessionGoneStep DEF CleanupDelete, files, late
<1>6. CASE CleanupUnavailable
  <2>1. /\ cleaner' = CleanerIdle /\ lateDelete' \subseteq lateDelete \cup {cleaner.u}
        /\ cleaner.u \in Uploads
        /\ UNCHANGED <<sess, where, day, data, row, nextId, create, writer, completer,
                       lateChunk, lateComplete, lateCreate, now, answers>>
    BY <1>6 DEF CleanupUnavailable, files, IInv, CleanerInv
  <2>2. TypeOK' /\ CleanerInv'
    BY <1>0, <2>1 DEF IInv, TypeOK, CleanerInv
  <2>3. QED
    BY <2>1, <2>2, CleanerStep
<1>7. QED
  BY <1>1, <1>2, <1>3, <1>4, <1>5, <1>6 DEF Cleanup

(* The clock advances.                                                     *)
LEMMA TickStep ==
  ASSUME IInv, Tick
  PROVE  IInv' /\ Benign
<1>1. TypeOK' /\ CleanerInv'
  BY DEF Tick, files, late, IInv, TypeOK, CleanerInv
<1>2. QED
  BY <1>1, CleanerStep DEF Tick, files, late

(* datastream_server crashes and restarts.                                 *)
LEMMA CrashStep ==
  ASSUME IInv, Crash
  PROVE  IInv' /\ Benign
<1>1. /\ writer' = [w \in Writers |-> WriterIdle]
      /\ completer' = [h \in Completers |-> CompleterIdle]
      /\ cleaner' = CleanerIdle
      /\ create' = [u \in Uploads |->
           IF create[u] \in {"allocated", "unlinking"} THEN "closed" ELSE create[u]]
      /\ UNCHANGED <<sess, where, day, data, row, nextId, lateChunk, lateComplete, lateCreate,
                     lateDelete, now, answers>>
  BY DEF Crash, files, late
<1>2. CleanerIdle \in CleanerRecords /\ CleanerIdle.pc = "idle"
  BY DEF CleanerIdle, CleanerRecords
<1>3. create \in [Uploads -> {"new", "allocated", "unlinking", "announced", "closed"}]
  BY DEF IInv, TypeOK
<1>4. \A u \in Uploads :
        \/ create'[u] = create[u] /\ create[u] \notin {"allocated", "unlinking"}
        \/ create'[u] = "closed" /\ create[u] \in {"allocated", "unlinking"}
  BY <1>1, <1>3
<1>5. TypeOK'
  <2>1. create' \in [Uploads -> {"new", "allocated", "unlinking", "announced", "closed"}]
    BY <1>1, <1>3
  <2>2. writer' \in [Writers -> WriterRecords] /\ completer' \in [Completers -> CompleterRecords]
    BY <1>1, IdleJobs
  <2>3. QED
    BY <1>1, <1>2, <2>1, <2>2 DEF IInv, TypeOK
<1>6. Benign
  BY <1>1, <1>4 DEF Benign, IInv, LiveUploadHasFile
<1>7. /\ WriterJobs' \subseteq WriterJobs \cup {WriterIdle}
      /\ CompleterJobs' \subseteq CompleterJobs \cup {CompleterIdle}
  BY <1>1 DEF WriterJobs, CompleterJobs
<1>8. ASSUME NEW u \in Uploads, Final(u) PROVE Final(u)'
  BY <1>5, <1>6, <1>7, <1>8, IdleJobs, FinalKept
<1>9. JobsInv'
  <2>1. \A i \in CompleterJobs' : CompleterClaim(i)'
    BY <1>5, <1>6, <1>7, IdleJobs, CompleterClaimKept
  <2>2. \A i \in WriterJobs' : WriterClaim(i)'
    BY <1>5, <1>6, <1>7, IdleJobs, WriterClaimKept
  <2>3. QED
    BY <1>1, <2>1, <2>2 DEF IInv, JobsInv
<1>10. FinalInv'
  <2>1. \A a \in answers : a.u \in Uploads
    BY DEF IInv, TypeOK, Answers
  <2>2. QED
    BY <1>1, <1>8, <2>1 DEF IInv, FinalInv
<1>11. CreateInv'
  <2>1. lateCreate \subseteq Uploads
    BY DEF IInv, TypeOK
  <2>2. QED
    BY <1>1, <1>4, <2>1 DEF IInv, CreateInv
<1>12. BitmapBehindFile' /\ ArchivedFileIntact' /\ VerdictInv' /\ RowInv'
  BY <1>1 DEF IInv, BitmapBehindFile, ArchivedFileIntact, VerdictInv, RowInv
<1>13. LiveUploadHasFile' /\ CleanerInv'
  BY <1>1, <1>2, <1>4 DEF IInv, LiveUploadHasFile, CleanerInv
<1>14. QED
  BY <1>5, <1>6, <1>9, <1>10, <1>11, <1>12, <1>13 DEF IInv

-----------------------------------------------------------------------------
(* The inductive invariant.                                                *)

(* The empty system satisfies the invariant.                               *)
LEMMA InitIInv == Init => IInv
<1>1. SUFFICES ASSUME Init PROVE IInv
  OBVIOUS
<1>2. \A u \in Uploads : /\ sess[u] = NoSession /\ where[u] = "none" /\ row[u] = None
                         /\ create[u] = "new"
  BY <1>1 DEF Init
<1>3. TypeOK
  <2>1. NoSession \in Sessions /\ CleanerIdle \in CleanerRecords
    BY SessionConstants DEF CleanerIdle, CleanerRecords
  <2>2. QED
    BY <1>1, <2>1, IdleJobs DEF Init, TypeOK
<1>4. WriterJobs \subseteq {WriterIdle} /\ CompleterJobs \subseteq {CompleterIdle}
  BY <1>1 DEF Init, WriterJobs, CompleterJobs
<1>5. JobsInv
  BY <1>1, <1>4, IdleJobs DEF Init, JobsInv
<1>6. CreateInv /\ BitmapBehindFile /\ FinalInv
  BY <1>1, <1>2, SessionConstants DEF Init, CreateInv, BitmapBehindFile, FinalInv
<1>7. ArchivedFileIntact /\ VerdictInv /\ RowInv /\ LiveUploadHasFile
  BY <1>1, <1>2, SessionConstants DEF Init, ArchivedFileIntact, VerdictInv, RowInv, LiveUploadHasFile
<1>8. CleanerInv
  BY <1>1 DEF Init, CleanerInv, CleanerIdle
<1>9. QED
  BY <1>3, <1>5, <1>6, <1>7, <1>8 DEF IInv

(* Every step keeps the invariant and is benign.                           *)
LEMMA NextIInv ==
  ASSUME IInv, Next
  PROVE  IInv' /\ Benign
<1>1. ASSUME NEW u \in Uploads, CreateRequest(u) \/ Expire(u) PROVE IInv' /\ Benign
  BY <1>1, CreateRequestStep, ExpireStep
<1>2. ASSUME NEW w \in Writers, ChunkRequest(w) PROVE IInv' /\ Benign
  BY <1>2, ChunkLookupStep, ChunkBeginStep, ChunkOpenStep, ChunkWriteStep, ChunkWriteFailedStep,
     ChunkFinishStep, ChunkUnavailableStep DEF ChunkRequest
<1>3. ASSUME NEW h \in Completers, CompleteRequest(h) PROVE IInv' /\ Benign
  BY <1>3, CompleteLookupStep, CompleteLookupTerminalStep, CompleteBeginStep, CompleteFindStep,
     ArchiveStatStep, ArchiveDigestStep, ArchiveRenameStep, CompleteInsertStep,
     CompleteResolveStep, CompleteMarkStep, CompleteGiveUpStep DEF CompleteRequest
<1>4. CASE LateCommand
  BY <1>4, LateChunkStep, LateCompleteStep, LateCreateStep, ExpireStep DEF LateCommand
<1>5. QED
  BY <1>1, <1>2, <1>3, <1>4, CleanupStep, CrashStep, TickStep DEF Next

(* So does a step that changes nothing.                                    *)
LEMMA StutterIInv ==
  ASSUME IInv, UNCHANGED vars
  PROVE  IInv'
<1>1. TypeOK' /\ CleanerInv'
  BY DEF vars, IInv, TypeOK, CleanerInv
<1>2. QED
  BY <1>1, CleanerStep DEF vars

(* The invariant holds in every reachable state, for any number of         *)
(* uploads, chunks, handlers and late commands.                            *)
THEOREM InductiveInvariant == Spec => []IInv
<1>1. IInv /\ [Next]_vars => IInv'
  BY NextIInv, StutterIInv
<1>2. QED
  BY <1>1, InitIInv, PTL DEF Spec

(* The state of the server, of Redis, MySQL and the file system keeps its  *)
(* shape.                                                                  *)
THEOREM TypeCorrect == Spec => []TypeOK
<1>1. IInv => TypeOK
  BY DEF IInv
<1>2. QED
  BY <1>1, InductiveInvariant, PTL

(* Every archive_file row names an existing file with the declared content. *)
THEOREM RowsHaveTheirFile == Spec => []ArchivedFileIntact
<1>1. IInv => ArchivedFileIntact
  BY DEF IInv
<1>2. QED
  BY <1>1, InductiveInvariant, PTL

(* The bitmap of an upload never shows a chunk that the file does not hold. *)
THEOREM BitmapIsSafe == Spec => []BitmapBehindFile
<1>1. IInv => BitmapBehindFile
  BY DEF IInv
<1>2. QED
  BY <1>1, InductiveInvariant, PTL

(* All answers about an upload agree with its row, hence with each other.  *)
THEOREM CompletesAgree == Spec => []AnswersAgree
<1>1. IInv => AnswersAgree
  <2>1. SUFFICES ASSUME IInv, NEW a \in answers
                 PROVE  IF a.verdict = "ARCHIVED" THEN row[a.u] = a.rec ELSE row[a.u] = None
    BY DEF AnswersAgree
  <2>2. a.u \in Uploads
    BY <2>1 DEF IInv, TypeOK, Answers
  <2>3. QED
    BY <2>1, <2>2 DEF IInv, VerdictInv, ArchivedFileIntact
<1>2. QED
  BY <1>1, InductiveInvariant, PTL

(* ARCHIVED shows the row, FAILED excludes one.                            *)
THEOREM TerminalStatesFollowMySql == Spec => []TerminalFollowsMySql
<1>1. IInv => TerminalFollowsMySql
  BY DEF IInv, VerdictInv, ArchivedFileIntact, TerminalFollowsMySql
<1>2. QED
  BY <1>1, InductiveInvariant, PTL

(* An upload in progress always has its file.                              *)
THEOREM UploadsKeepTheirFile == Spec => []LiveUploadHasFile
<1>1. IInv => LiveUploadHasFile
  BY DEF IInv
<1>2. QED
  BY <1>1, InductiveInvariant, PTL

(* An archived file and its row never change again, although writers may   *)
(* still hold the file open.                                               *)
THEOREM ArchiveIsImmutable == Spec => ArchiveImmutable
<1> DEFINE Same(u) ==
      /\ where[u] = "archive" => where'[u] = "archive" /\ day'[u] = day[u] /\ data'[u] = data[u]
      /\ row[u] # None => row'[u] = row[u]
<1>1. IInv /\ IInv' /\ [Next]_vars => [\A u \in Uploads : Same(u)]_vars
  <2>1. SUFFICES ASSUME IInv, IInv', Next, NEW u \in Uploads PROVE Same(u)
    BY DEF vars
  <2>2. Benign
    BY <2>1, NextIInv
  <2>3. where[u] = "archive" \/ row[u] # None => Final(u) /\ create[u] = "announced"
    BY <2>1 DEF IInv, FinalInv, Final
  <2>4. Final(u) => data'[u] = data[u]
    <3>1. Final(u) => \A c \in Chunks : data'[u][c] = data[u][c]
      BY <2>1, <2>2 DEF Benign, Final
    <3>2. QED
      BY <2>1, <3>1 DEF IInv, TypeOK
  <2>5. QED
    BY <2>1, <2>2, <2>3, <2>4 DEF Benign
<1>2. QED
  BY <1>1, InductiveInvariant, PTL DEF Spec, ArchiveImmutable

(* Session states only move forward.                                       *)
THEOREM SessionsMoveForward == Spec => SessionMovesForward
<1>1. IInv /\ [Next]_vars =>
        [\A u \in Uploads : create[u] = "announced" =>
           \/ sess'[u].state = sess[u].state
           \/ Rank(sess[u].state) < Rank(sess'[u].state)]_vars
  BY NextIInv DEF Benign
<1>2. QED
  BY <1>1, InductiveInvariant, PTL DEF Spec, SessionMovesForward

(* No step removes the file of an upload in progress.                      *)
THEOREM LiveFilesStay == Spec => LiveFileNotRemoved
<1>1. IInv /\ [Next]_vars =>
        [\A u \in Uploads :
           create[u] = "announced" /\ sess[u].state \in {"UPLOADING", "VERIFYING"}
             => where'[u] # "gone"]_vars
  BY NextIInv DEF Benign
<1>2. QED
  BY <1>1, InductiveInvariant, PTL DEF Spec, LiveFileNotRemoved

-----------------------------------------------------------------------------
(* The server implements ArchiveLedger.                                    *)

(* What a step may do to the rows and the answers. *)
SameLedger == row' = row /\ answers' = answers
ArchivedAnswered(u) ==
  row' = row /\ row[u] # None /\ answers' = answers \cup {Archived(u, row[u])}
FailedAnswered(u) ==
  row' = row /\ row[u] = None /\ answers' = answers \cup {Failed(u)}
RowInserted(u) ==
  /\ row[u] = None /\ answers' = answers
  /\ \E rec \in Records : row' = [row EXCEPT ![u] = [rec EXCEPT !.id = nextId]]

(* Every step leaves rows and answers alone, gives one answer that follows *)
(* the row, or inserts one row.                                            *)
LEMMA LedgerShape ==
  ASSUME IInv, Next
  PROVE  SameLedger \/ \E u \in Uploads : ArchivedAnswered(u) \/ FailedAnswered(u) \/ RowInserted(u)
<1> DEFINE Goal == SameLedger \/ \E u \in Uploads : ArchivedAnswered(u) \/ FailedAnswered(u) \/ RowInserted(u)
<1>1. ASSUME NEW u \in Uploads, CreateRequest(u) \/ Expire(u) PROVE Goal
  BY <1>1 DEF SameLedger, CreateRequest, Expire, CreateAllocate, CreateSession, CreateRejected, CreateUnlink
<1>2. ASSUME NEW w \in Writers, ChunkRequest(w) PROVE Goal
  BY <1>2 DEF SameLedger, ChunkRequest, ChunkLookup, ChunkBegin, ChunkOpen, ChunkWrite,
              ChunkWriteFailed, ChunkFinish, ChunkUnavailable
<1>3. ASSUME NEW h \in Completers, CompleteRequest(h) PROVE Goal
  <2>1. ASSUME NEW u \in Uploads, CompleteLookupTerminal(h, u) PROVE Goal
    <3>1. CASE sess[u].state = "ARCHIVED"
      BY <2>1, <3>1 DEF CompleteLookupTerminal, ArchivedAnswered, IInv, VerdictInv
    <3>2. CASE sess[u].state = "FAILED"
      <4>1. row[u] = None
        BY <2>1, <3>2 DEF IInv, VerdictInv, ArchivedFileIntact
      <4>2. QED
        BY <2>1, <3>2, <4>1 DEF CompleteLookupTerminal, FailedAnswered
    <3>3. QED
      BY <2>1, <3>1, <3>2 DEF CompleteLookupTerminal
  <2>2. CASE CompleteBegin(h)
    <3>1. PICK j : j = completer[h]
      OBVIOUS
    <3>2. j.u \in Uploads /\ sess[j.u] \in Sessions /\ j.rec \in Records
      BY <2>2, <3>1, BusyCompleter DEF CompleteBegin, IInv, TypeOK
    <3>3. CASE BeginCompleteStatus(sess[j.u]) = "Failed"
      <4>1. row[j.u] = None
        BY <3>2, <3>3, BeginCompleteFacts DEF IInv, VerdictInv, ArchivedFileIntact
      <4>2. QED
        BY <2>2, <3>1, <3>2, <3>3, <4>1 DEF CompleteBegin, FailedAnswered
    <3>4. CASE BeginCompleteStatus(sess[j.u]) # "Failed"
      BY <2>2, <3>1, <3>4 DEF CompleteBegin, SameLedger
    <3>5. QED
      BY <3>3, <3>4
  <2>3. CASE CompleteMarkArchived(h)
    <3>1. PICK j : j = completer[h]
      OBVIOUS
    <3>2. j.u \in Uploads /\ row[j.u] = j.rec /\ j.rec # None
      BY <2>3, <3>1, BusyCompleter, NoneIsNoRecord DEF CompleteMarkArchived, CompleterClaim
    <3>3. QED
      BY <2>3, <3>1, <3>2 DEF CompleteMarkArchived, SameLedger, ArchivedAnswered
  <2>4. CASE CompleteMarkFailed(h)
    <3>1. PICK j : j = completer[h]
      OBVIOUS
    <3>2. j.u \in Uploads /\ data[j.u] # Declared[j.u]
      BY <2>4, <3>1, BusyCompleter DEF CompleteMarkFailed, CompleterClaim
    <3>3. row[j.u] = None
      BY <3>2 DEF IInv, ArchivedFileIntact
    <3>4. QED
      BY <2>4, <3>1, <3>2, <3>3 DEF CompleteMarkFailed, SameLedger, FailedAnswered
  <2>5. CASE CompleteInsert(h)
    <3>1. PICK j : j = completer[h]
      OBVIOUS
    <3>2. j.u \in Uploads /\ j.rec \in Records
      BY <2>5, <3>1, BusyCompleter DEF CompleteInsert
    <3>3. CASE row[j.u] = None
      BY <2>5, <3>1, <3>2, <3>3 DEF CompleteInsert, InsertRow, RowInserted
    <3>4. CASE row[j.u] # None
      BY <2>5, <3>1, <3>4 DEF CompleteInsert, InsertRow, SameLedger
    <3>5. QED
      BY <3>3, <3>4
  <2>6. CASE \/ \E u \in Uploads : CompleteLookup(h, u)
             \/ CompleteFind(h) \/ ArchiveStat(h) \/ ArchiveDigest(h) \/ ArchiveRename(h)
             \/ ArchiveIoError(h) \/ CompleteResolve(h) \/ CompleteUnavailable(h)
    BY <2>6 DEF SameLedger, CompleteLookup, CompleteFind, ArchiveStat, ArchiveDigest, ArchiveRename,
                ArchiveIoError, CompleteResolve, CompleteUnavailable
  <2>7. QED
    BY <1>3, <2>1, <2>2, <2>3, <2>4, <2>5, <2>6 DEF CompleteRequest
<1>4. ASSUME NEW j \in lateComplete, LateComplete(j) PROVE Goal
  <2>1. CASE j.pc = "insert" /\ row[j.u] = None
    <3>1. CompleterClaim(j)
      BY DEF IInv, JobsInv, CompleterJobs
    <3>2. j.u \in Uploads /\ j.rec \in Records
      BY <2>1, <3>1 DEF CompleterClaim
    <3>3. QED
      BY <1>4, <2>1, <3>2 DEF LateComplete, InsertRow, RowInserted
  <2>2. CASE j.pc # "insert" \/ row[j.u] # None
    BY <1>4, <2>2 DEF LateComplete, InsertRow, SameLedger
  <2>3. QED
    BY <2>1, <2>2
<1>5. CASE Cleanup \/ Crash \/ Tick
  BY <1>5 DEF SameLedger, Cleanup, CleanupCandidate, CleanupLookup, CleanupUnlink, CleanupDelete,
              CleanupUnavailable, Crash, Tick
<1>6. CASE LateCommand
  BY <1>4, <1>6 DEF LateCommand, SameLedger, LateChunk, LateCreate, LateDelete
<1>7. QED
  BY <1>1, <1>2, <1>3, <1>5, <1>6 DEF Next

(* What a reader finds under a row. *)
RowsReadable ==
  \A u \in Uploads :
    /\ row[u] = None => Readable(u) = None
    /\ row[u] # None => /\ Readable(u) = [rec |-> row[u], content |-> Declared[u]]
                        /\ Readable(u) # None
                        /\ Readable(u).rec = row[u] /\ Readable(u).content = Declared[u]

(* Under the invariant a reader of any row finds the declared content.     *)
LEMMA ReadableRow == IInv => RowsReadable
<1>1. SUFFICES ASSUME IInv, NEW u \in Uploads, row[u] # None
               PROVE  /\ Readable(u) = [rec |-> row[u], content |-> Declared[u]]
                      /\ Readable(u) # None
  BY DEF RowsReadable, Readable
<1>2. row[u] \in Records /\ Declared[u] \in [Chunks -> Data]
  BY <1>1, DeclaredAssumption DEF IInv, TypeOK
<1>3. Readable(u) = [rec |-> row[u], content |-> Declared[u]]
  BY <1>1 DEF Readable, IInv, ArchivedFileIntact
<1>4. [rec |-> row[u], content |-> Declared[u]] \in [rec : Records, content : [Chunks -> Data]]
  BY <1>2
<1>5. QED
  BY <1>3, <1>4, NoneIsNoRecord

Entries == [u \in Uploads |-> Readable(u)]

(* Every step of the server is a step of the ledger or changes nothing it  *)
(* shows.                                                                  *)
LEMMA LedgerStep ==
  ASSUME IInv, IInv', Next
  PROVE  Ledger!Next \/ (Entries' = Entries /\ answers' = answers)
<1>1. PICK L : L = Entries
  OBVIOUS
<1>2. PICK M : M = Entries'
  OBVIOUS
<1>3. \A u \in Uploads : /\ L[u] = Readable(u) /\ M[u] = Readable(u)'
  BY <1>1, <1>2 DEF Entries
<1>4. \A u \in Uploads : /\ row[u] = None => L[u] = None
                         /\ row[u] # None => L[u] # None /\ L[u].rec = row[u]
                              /\ L[u] = [rec |-> row[u], content |-> Declared[u]]
  BY <1>3, ReadableRow DEF RowsReadable
<1>5. \A u \in Uploads : /\ row'[u] = None => M[u] = None
                         /\ row'[u] # None => M[u] # None /\ M[u].rec = row'[u]
                              /\ M[u].content = Declared[u]
                              /\ M[u] = [rec |-> row'[u], content |-> Declared[u]]
  <2>1. RowsReadable'
    BY ReadableRow, PTL
  <2>2. QED
    BY <1>3, <2>1 DEF RowsReadable
<1>6. row' = row => M = L
  <2>1. row' = row => \A u \in Uploads : M[u] = L[u]
    BY <1>4, <1>5
  <2>2. QED
    BY <1>1, <1>2, <2>1 DEF Entries
<1>7. CASE SameLedger
  BY <1>1, <1>2, <1>6, <1>7 DEF SameLedger
<1>8. ASSUME NEW u \in Uploads, ArchivedAnswered(u) PROVE Ledger!Next
  <2>1. L[u] # None /\ answers' = answers \cup {[u |-> u, verdict |-> "ARCHIVED", rec |-> L[u].rec]} /\ M = L
    BY <1>4, <1>6, <1>8 DEF ArchivedAnswered, Archived
  <2>2. Ledger!AnswerArchived(u)
    BY <1>1, <1>2, <2>1 DEF Ledger!AnswerArchived, Ledger!ArchivedAnswer, Entries
  <2>3. QED
    BY <2>2 DEF Ledger!Next
<1>9. ASSUME NEW u \in Uploads, FailedAnswered(u) PROVE Ledger!Next
  <2>1. L[u] = None /\ answers' = answers \cup {[u |-> u, verdict |-> "FAILED", rec |-> None]} /\ M = L
    BY <1>4, <1>6, <1>9 DEF FailedAnswered, Failed
  <2>2. Ledger!AnswerFailed(u)
    BY <1>1, <1>2, <2>1 DEF Ledger!AnswerFailed, Ledger!FailedAnswer, Entries
  <2>3. QED
    BY <2>2 DEF Ledger!Next
<1>10. ASSUME NEW u \in Uploads, RowInserted(u) PROVE Ledger!Next
  <2>1. PICK r : /\ row' = [row EXCEPT ![u] = r] /\ r # None /\ r.id = nextId
    <3>1. PICK rec \in Records : row' = [row EXCEPT ![u] = [rec EXCEPT !.id = nextId]]
      BY <1>10 DEF RowInserted
    <3>2. PICK r : r = [rec EXCEPT !.id = nextId]
      OBVIOUS
    <3>3. r \in Records /\ r.id = nextId
      BY <3>2 DEF Records, IInv, TypeOK
    <3>4. QED
      BY <3>1, <3>2, <3>3, NoneIsNoRecord
  <2>2. row'[u] = r /\ \A v \in Uploads \ {u} : row'[v] = row[v]
    BY <2>1 DEF IInv, TypeOK
  <2>3. L[u] = None /\ M[u] # None /\ M[u].content = Declared[u] /\ M[u].rec.id = nextId
    BY <1>4, <1>5, <1>10, <2>1, <2>2 DEF RowInserted
  <2>4. ASSUME NEW v \in Uploads \ {u}
        PROVE  M[v] = L[v] /\ (L[v] # None => L[v].rec.id # M[u].rec.id)
    <3>1. M[v] = L[v]
      BY <1>4, <1>5, <2>2
    <3>2. row[v] # None => row[v].id # nextId
      <4>1. row[v] # None => row[v].id \in Nat /\ row[v].id < nextId /\ nextId \in Nat
        BY DEF IInv, TypeOK, Records, RowInv
      <4>2. QED
        BY <4>1
    <3>3. QED
      BY <1>4, <2>3, <3>1, <3>2
  <2>5. [u |-> u, verdict |-> "FAILED", rec |-> None] \notin answers
    <3>1. PICK a : a = [u |-> u, verdict |-> "FAILED", rec |-> None]
      OBVIOUS
    <3>2. a.u = u /\ a.verdict = "FAILED"
      BY <3>1
    <3>3. data'[u] = Declared[u]
      BY <2>1, <2>2 DEF IInv, ArchivedFileIntact
    <3>4. a \notin answers'
      BY <3>2, <3>3 DEF IInv, VerdictInv
    <3>5. QED
      BY <1>10, <3>1, <3>4 DEF RowInserted
  <2>6. Ledger!Publish(u)
    BY <1>1, <1>2, <1>10, <2>3, <2>4, <2>5
       DEF Ledger!Publish, Ledger!FailedAnswer, Entries, RowInserted
  <2>7. QED
    BY <2>6 DEF Ledger!Next
<1>11. QED
  BY <1>7, <1>8, <1>9, <1>10, LedgerShape

(* The upload API keeps the promise of ArchiveLedger: one immutable entry  *)
(* per upload, with the declared content readable from the moment the row  *)
(* exists, and answers that agree with it, whatever crashes, expires, is   *)
(* late or races.                                                          *)
THEOREM ServerImplementsLedger == Spec => ImplementsLedger
<1>1. Init => Ledger!Init
  BY DEF Init, Ledger!Init, Readable
<1>2. IInv /\ IInv' /\ [Next]_vars => [Ledger!Next]_<<[u \in Uploads |-> Readable(u)], answers>>
  <2>1. SUFFICES ASSUME IInv, IInv', [Next]_vars
                 PROVE  [Ledger!Next]_<<[u \in Uploads |-> Readable(u)], answers>>
    OBVIOUS
  <2>2. CASE Next
    BY <2>1, <2>2, LedgerStep DEF Entries
  <2>3. CASE UNCHANGED vars
    BY <2>3 DEF vars, Readable
  <2>4. QED
    BY <2>1, <2>2, <2>3
<1>3. QED
  BY <1>1, <1>2, InductiveInvariant, PTL DEF Spec, ImplementsLedger, Ledger!Spec

=============================================================================
