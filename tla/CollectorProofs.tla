-------------------------- MODULE CollectorProofs --------------------------
(***************************************************************************)
(* TLAPS proofs about Collector, for every set of contents, chunks and     *)
(* upload ids, every spool size and stable window, and every number of     *)
(* writes, faults and late requests.  Only the last theorem, about sealed  *)
(* versions, is for a stable window of one scan.                           *)
(***************************************************************************)
EXTENDS CollectorInv, WellFoundedInduction, TLAPS

BadCodes == {"FILE_INTEGRITY_MISMATCH", "CHUNK_CONTENT_CONFLICT", "UPLOAD_STATE_CONFLICT",
             "LOCAL_PAYLOAD_IO_ERROR"}
Ended == {"COMPLETING", "DONE", "FAILED"}

-----------------------------------------------------------------------------
(* Smallest elements.                                                      *)

(* The next missing chunk is one of the missing chunks.                    *)
LEMMA MinOfChunks ==
  ASSUME NEW S \in SUBSET Nat, S # {}
  PROVE  Min(S) \in S
<1> DEFINE R == OpToRel(<, Nat)
<1>1. IsWellFoundedOn(R, Nat)
  BY NatLessThanWellFounded
<1> HIDE DEF R
<1>2. \E x \in S : \A y \in S : ~(<<y, x>> \in R)
  BY <1>1, WFMin
<1> USE DEF R
<1>3. \A x, y \in S : ~(<<y, x>> \in R) => x =< y
  BY DEF OpToRel
<1>4. \E x \in S : \A y \in S : x =< y
  BY <1>2, <1>3
<1>5. QED
  BY <1>4 DEF Min

(* The capped counter of equal observations.                               *)
LEMMA MinOfTwo ==
  ASSUME NEW m \in Nat, NEW n \in Nat
  PROVE  Min({m, n}) \in {m, n} /\ Min({m, n}) =< n
<1>1. \E x \in {m, n} : \A y \in {m, n} : x =< y
  OBVIOUS
<1>2. QED
  BY <1>1 DEF Min

-----------------------------------------------------------------------------
(* Saving a task.                                                          *)

(* What a task must satisfy to be saved under i.                           *)
Saveable(i, t) ==
  /\ t.state # "NONE"
  /\ t.error \notin BadCodes
  /\ t.state \in {"UPLOADING", "COMPLETING"} => t.upload \in Uploads /\ owner[t.upload] = i
  /\ t.state = "UPLOADING" => Untouched(t.upload)
  /\ \A u \in Uploads : owner[u] = i /\ ~Untouched(u) =>
       u \in lost \/ (t.upload = u /\ t.state \in Ended)
  /\ t.state = "DONE" => t.archive # 0 /\ \E u \in Uploads : owner[u] = i /\ row[u] = t.archive
  /\ \A j \in Ids : task[j].state # "NONE" /\ j.mtime = i.mtime => j = i

(* Only requests of complete touch a session, and the collector sends them *)
(* for a session its task ends with.                                       *)
LateRel ==
  /\ \A u \in Uploads : Untouched(u)' => Untouched(u)
  /\ \A u \in Uploads : Untouched(u) /\ ~Untouched(u)' =>
       \E i \in Ids : owner[u] = i /\ task'[i].upload = u /\ task'[i].state \in Ended
  /\ \A r \in late' : Sound(r)'

(* The part of the invariant that speaks of tasks and sessions.            *)
TasksAndSessions ==
  /\ \A r \in late : Sound(r)
  /\ TaskInv /\ SessionInv /\ ClaimInv
  /\ PayloadIntact /\ DoneIsArchived /\ NoIntegrityFailure /\ OneTaskPerSignature

(* A step in which the server rests and the collector saves a task keeps   *)
(* the tasks and sessions.                                                 *)
LEMMA TaskSaved ==
  ASSUME CInv, UNCHANGED <<server, lost>>, LateRel,
         NEW i \in Ids, NEW t \in Tasks, task' = [task EXCEPT ![i] = t], Saveable(i, t),
         \A j \in Ids \ {i} : payload'[j] = payload[j],
         Active(t) => payload'[i] = i.sha /\ i.sha # None
  PROVE  TasksAndSessions'
<1> USE NoneIsNoRecordOfCollector
<1>1. task \in [Ids -> Tasks] /\ owner \in [Uploads -> Ids \cup {None}]
  BY DEF CInv, TypeOK
<1>2. task'[i] = t /\ \A j \in Ids \ {i} : task'[j] = task[j]
  BY <1>1
<1>3. \A r \in late' : Sound(r)'
  BY DEF LateRel
<1>4. TaskInv'
  <2> SUFFICES ASSUME NEW j \in Ids, NEW u, u = task'[j].upload
               PROVE  /\ task'[j].state \in {"UPLOADING", "COMPLETING"} => u \in Uploads /\ owner[u] = j
                      /\ task'[j].state = "UPLOADING" => Untouched(u)'
    BY DEF TaskInv, server, Untouched
  <2>1. /\ task'[j].state \in {"UPLOADING", "COMPLETING"} => u \in Uploads /\ owner[u] = j
        /\ task'[j].state = "UPLOADING" => Untouched(u)
    BY <1>2 DEF CInv, TaskInv, Saveable
  <2>2. ASSUME task'[j].state = "UPLOADING", ~Untouched(u)' PROVE FALSE
    <3>1. u \in Uploads /\ owner[u] = j /\ Untouched(u)
      BY <2>1, <2>2
    <3>2. \E k \in Ids : owner[u] = k /\ task'[k].upload = u /\ task'[k].state \in Ended
      BY <2>2, <3>1 DEF LateRel
    <3>3. QED
      BY <2>2, <3>1, <3>2 DEF Ended
  <2>3. QED
    BY <2>1, <2>2
<1>5. SessionInv'
  BY DEF CInv, SessionInv, server
<1>6. ClaimInv'
  <2> SUFFICES ASSUME NEW u \in Uploads, owner[u] # None, ~Untouched(u)'
               PROVE  u \in lost \/ (/\ task'[owner[u]].upload = u
                                     /\ task'[owner[u]].state \in {"COMPLETING", "DONE", "FAILED"})
    BY DEF ClaimInv, server
  <2>1. CASE Untouched(u)
    BY <2>1 DEF LateRel, Ended
  <2>2. CASE ~Untouched(u) /\ owner[u] = i
    BY <1>2, <2>2 DEF Saveable, Ended
  <2>3. CASE ~Untouched(u) /\ owner[u] # i
    BY <1>1, <1>2, <2>3 DEF CInv, ClaimInv
  <2>4. QED
    BY <2>1, <2>2, <2>3
<1>7. PayloadIntact'
  BY <1>2 DEF CInv, PayloadIntact
<1>8. DoneIsArchived'
  BY <1>2 DEF CInv, DoneIsArchived, Saveable, server
<1>9. NoIntegrityFailure'
  BY <1>2 DEF CInv, NoIntegrityFailure, Saveable, BadCodes
<1>10. OneTaskPerSignature'
  BY <1>2 DEF CInv, OneTaskPerSignature, Saveable
<1>11. QED
  BY <1>3, <1>4, <1>5, <1>6, <1>7, <1>8, <1>9, <1>10 DEF TasksAndSessions

(* Steps that leave tasks, sessions and requests alone.                    *)
LEMMA TasksRest ==
  ASSUME CInv, UNCHANGED <<server, lost, late, task>>,
         \A i \in Ids : Active(task[i]) => payload'[i] = payload[i]
  PROVE  TasksAndSessions'
<1>1. \A u \in Uploads : Untouched(u)' <=> Untouched(u)
  BY DEF Untouched, server
<1>2. \A r \in late' : Sound(r)'
  BY DEF CInv, Sound, server
<1>3. TaskInv'
  BY <1>1 DEF CInv, TaskInv, server
<1>4. SessionInv' /\ DoneIsArchived' /\ NoIntegrityFailure' /\ OneTaskPerSignature'
  BY DEF CInv, SessionInv, DoneIsArchived, NoIntegrityFailure, OneTaskPerSignature, server
<1>5. ClaimInv'
  BY <1>1 DEF CInv, ClaimInv, server
<1>6. PayloadIntact'
  BY DEF CInv, PayloadIntact
<1>7. QED
  BY <1>2, <1>3, <1>4, <1>5, <1>6 DEF TasksAndSessions

(* When no request is given up, LateRel holds.                             *)
LEMMA NoLateRequest ==
  ASSUME CInv, UNCHANGED <<server, late>>
  PROVE  LateRel
<1>1. \A u \in Uploads : Untouched(u)' <=> Untouched(u)
  BY DEF Untouched, server
<1>2. \A r \in late' : Sound(r)'
  BY DEF CInv, Sound, server
<1>3. QED
  BY <1>1, <1>2 DEF LateRel

-----------------------------------------------------------------------------
(* The server.                                                             *)

(* The types of the server's variables.                                    *)
ServerTypes ==
  /\ sess \in [Uploads -> Sessions]
  /\ owner \in [Uploads -> Ids \cup {None}]
  /\ row \in [Uploads -> Nat]
  /\ nextId \in Nat \ {0}

(* What the execution of a request does to the sessions: owners and rows   *)
(* stay, and only complete touches a session, the one it names.            *)
ServerRel(r) ==
  /\ \A u \in Uploads : owner[u] # None => owner'[u] = owner[u]
  /\ \A u \in Uploads : row[u] # 0 => row'[u] = row[u]
  /\ \A u \in Uploads :
       /\ row'[u] # row[u] => r.op = "complete" /\ u = r.upload
       /\ sess'[u].state # sess[u].state /\ owner[u] # None => r.op = "complete" /\ u = r.upload
       /\ owner'[u] # owner[u] => row'[u] = 0 /\ sess'[u].state = "UPLOADING"

(* What the answer to a request means.                                     *)
AnswerTo(r, a) ==
  /\ a \in Answers
  /\ a.code \in BadCodes =>
       /\ r.op \in {"chunk"} /\ sess[r.upload].state \notin {"NONE", "UPLOADING"}
  /\ a.code = "OK" /\ r.op = "create" =>
       a.upload \in Uploads /\ owner[a.upload] = None /\ owner'[a.upload] = r.id
  /\ a.code = "OK" /\ r.op = "complete" => a.archive # 0 /\ row'[r.upload] = a.archive
  /\ a.code = "UPLOAD_NOT_FOUND" => r.op # "create" /\ r.upload \in lost

ServeEffect(r, heard) ==
  /\ ServerTypes' /\ SessionInv' /\ ServerRel(r)
  /\ faults' \in 0..MaxFaults
  /\ IF heard THEN AnswerTo(r, reply') ELSE reply' = reply

(* An answer without data is an answer. *)
LEMMA PlainAnswers ==
  ASSUME NEW code \in Codes
  PROVE  /\ Answer(code) \in Answers
         /\ Answer(code).code = code
         /\ \A u \in Uploads : /\ [Answer(code) EXCEPT !.upload = u] \in Answers
                              /\ [Answer(code) EXCEPT !.upload = u].upload = u
                              /\ [Answer(code) EXCEPT !.upload = u].code = code
         /\ \A m \in SUBSET Chunks : /\ [Answer(code) EXCEPT !.missing = m] \in Answers
                                    /\ [Answer(code) EXCEPT !.missing = m].code = code
         /\ \A n \in Nat : /\ [Answer(code) EXCEPT !.archive = n] \in Answers
                          /\ [Answer(code) EXCEPT !.archive = n].archive = n
                          /\ [Answer(code) EXCEPT !.archive = n].code = code
  BY DEF Answer, Answers

(* The fault budget is kept.                                               *)
LEMMA FaultBudget ==
  ASSUME CInv, Fault \/ NoFault
  PROVE  faults' \in 0..MaxFaults
  BY BoundsAssumption DEF CInv, TypeOK, Fault, NoFault

(* A request that fails without effect.                                    *)
LEMMA NoEffect ==
  ASSUME CInv, NEW r \in Requests, NEW heard \in BOOLEAN, UNCHANGED <<server, lost>>,
         Unavailable(heard) \/ (Fault /\ Reply(heard, Answer("REJECTED")))
  PROVE  ServeEffect(r, heard)
<1>1. faults' \in 0..MaxFaults
  BY FaultBudget DEF Unavailable
<1>2. ServerTypes' /\ SessionInv'
  BY DEF CInv, TypeOK, ServerTypes, SessionInv, server
<1>3. ServerRel(r)
  BY DEF ServerRel, server
<1>4. IF heard THEN AnswerTo(r, reply') ELSE reply' = reply
  <2>1. "UNAVAILABLE" \in Codes /\ "REJECTED" \in Codes
    BY DEF Codes
  <2>2. CASE heard
    <3>1. reply' = Answer("UNAVAILABLE") \/ reply' = Answer("REJECTED")
      BY <2>2 DEF Unavailable, Reply
    <3>2. reply' \in Answers /\ reply'.code \in {"UNAVAILABLE", "REJECTED"}
      BY <2>1, <3>1, PlainAnswers
    <3>3. QED
      BY <2>2, <3>2 DEF AnswerTo, BadCodes
  <2>3. CASE ~heard
    BY <2>3 DEF Unavailable, Reply
  <2>4. QED
    BY <2>2, <2>3
<1>5. QED
  BY <1>1, <1>2, <1>3, <1>4 DEF ServeEffect

(* POST /uploads: a fresh id becomes a session of the task.                *)
LEMMA ServeCreateEffect ==
  ASSUME CInv, NEW r \in Requests, r.op = "create", NEW heard \in BOOLEAN, ServeCreate(r, heard),
         UNCHANGED lost
  PROVE  ServeEffect(r, heard)
<1> USE NoneIsNoRecordOfCollector
<1>1. CASE Unavailable(heard) /\ UNCHANGED server
  BY <1>1, NoEffect
<1>2. ASSUME NEW u \in Uploads, owner[u] = None, owner' = [owner EXCEPT ![u] = r.id],
             sess' = [sess EXCEPT ![u] = NewSession], UNCHANGED <<row, nextId>>,
             \/ NoFault /\ Reply(heard, [Answer("OK") EXCEPT !.upload = u])
             \/ Unavailable(heard)
      PROVE  ServeEffect(r, heard)
  <2>1. faults' \in 0..MaxFaults
    BY <1>2, FaultBudget DEF Unavailable
  <2>2. /\ NewSession \in Sessions /\ NewSession.state = "UPLOADING"
        /\ \A c \in Chunks : NewSession.got[c] = None
    BY DEF NewSession, NoSession, Sessions
  <2>3. r.id \in Ids /\ r.id # None
    BY DEF Requests
  <2>4. ServerTypes'
    BY <1>2, <2>2, <2>3 DEF CInv, TypeOK, ServerTypes
  <2>5. /\ sess'[u] = NewSession /\ owner'[u] = r.id /\ row'[u] = 0 /\ u \notin lost
        /\ \A v \in Uploads \ {u} : sess'[v] = sess[v] /\ owner'[v] = owner[v]
    BY <1>2 DEF CInv, TypeOK, SessionInv
  <2>6. SessionInv'
    BY <1>2, <2>2, <2>3, <2>5 DEF CInv, SessionInv
  <2>7. ServerRel(r)
    BY <1>2, <2>2, <2>5 DEF ServerRel, CInv, SessionInv
  <2>8. IF heard THEN AnswerTo(r, reply') ELSE reply' = reply
    <3>1. "UNAVAILABLE" \in Codes /\ "OK" \in Codes
      BY DEF Codes
    <3>2. CASE heard
      <4>1. \/ reply' = Answer("UNAVAILABLE")
            \/ reply' = [Answer("OK") EXCEPT !.upload = u]
        BY <1>2, <3>2 DEF Unavailable, Reply
      <4>2. /\ reply' \in Answers /\ reply'.code \in {"UNAVAILABLE", "OK"}
            /\ reply'.code = "OK" => reply'.upload = u
        BY <1>2, <4>1 DEF Answer, Answers, Codes
      <4>3. QED
        BY <1>2, <2>5, <3>2, <4>2 DEF AnswerTo, BadCodes
    <3>3. CASE ~heard
      BY <1>2, <3>3 DEF Unavailable, Reply
    <3>4. QED
      BY <3>2, <3>3
  <2>9. QED
    BY <2>1, <2>4, <2>6, <2>7, <2>8 DEF ServeEffect
<1>3. QED
  BY <1>1, <1>2 DEF ServeCreate

(* GET /uploads/{upload_id} changes nothing.                               *)
LEMMA ServeProgressEffect ==
  ASSUME CInv, NEW r \in Requests, r.op = "progress", Sound(r), NEW heard \in BOOLEAN,
         ServeProgress(r, heard), UNCHANGED lost
  PROVE  ServeEffect(r, heard)
<1> DEFINE s == sess[r.upload]
           a == IF s.state = "NONE" THEN Answer("UPLOAD_NOT_FOUND")
                ELSE [Answer("OK") EXCEPT !.missing = {c \in Chunks : s.got[c] = None}]
<1>1. CASE Unavailable(heard)
  BY <1>1, NoEffect DEF ServeProgress
<1>2. CASE NoFault /\ Reply(heard, a)
  <2>1. faults' \in 0..MaxFaults
    BY <1>2, FaultBudget
  <2>2. ServerTypes' /\ SessionInv'
    BY DEF ServeProgress, CInv, TypeOK, ServerTypes, SessionInv, server
  <2>3. ServerRel(r)
    BY DEF ServeProgress, ServerRel, server
  <2>4. AnswerTo(r, a)
    <3>1. "UPLOAD_NOT_FOUND" \in Codes /\ "OK" \in Codes
      BY DEF Codes
    <3>2. CASE s.state = "NONE"
      <4>1. r.upload \in lost
        BY <3>2, NoneIsNoRecordOfCollector DEF Sound, CInv, SessionInv, Requests
      <4>2. a \in Answers /\ a.code = "UPLOAD_NOT_FOUND"
        BY <3>1, <3>2, PlainAnswers
      <4>3. QED
        BY <4>1, <4>2 DEF AnswerTo, BadCodes
    <3>3. CASE s.state # "NONE"
      <4>1. {c \in Chunks : s.got[c] = None} \in SUBSET Chunks
        OBVIOUS
      <4>2. a \in Answers /\ a.code = "OK"
        BY <3>1, <3>3, <4>1, PlainAnswers
      <4>3. QED
        BY <4>2 DEF AnswerTo, BadCodes
    <3>4. QED
      BY <3>2, <3>3
  <2> HIDE DEF a
  <2>5. IF heard THEN AnswerTo(r, reply') ELSE reply' = reply
    BY <1>2, <2>4 DEF Reply
  <2>6. QED
    BY <2>1, <2>2, <2>3, <2>5 DEF ServeEffect
<1>3. QED
  BY <1>1, <1>2 DEF ServeProgress

(* PUT chunk: the body is the content of the session's owner, so it never  *)
(* conflicts.                                                              *)
LEMMA ServeChunkEffect ==
  ASSUME CInv, NEW r \in Requests, r.op = "chunk", Sound(r), NEW heard \in BOOLEAN,
         ServeChunk(r, heard), UNCHANGED lost
  PROVE  ServeEffect(r, heard)
<1> DEFINE u == r.upload
           s == sess[u]
           code == CASE s.state = "NONE" -> "UPLOAD_NOT_FOUND"
                     [] s.state \notin {"NONE", "UPLOADING"} -> "UPLOAD_STATE_CONFLICT"
                     [] s.state = "UPLOADING" /\ s.got[r.chunk] \notin {None, r.body} ->
                          "CHUNK_CONTENT_CONFLICT"
                     [] OTHER -> "OK"
           written == [sess EXCEPT ![u] = WithChunk(s, r.chunk, r.body)]
<1> USE NoneIsNoRecordOfCollector
<1>1. /\ u \in Uploads /\ owner[u] = r.id /\ r.id \in Ids /\ r.chunk \in Chunks
      /\ r.body = r.id.sha /\ r.body # None /\ r.body \in Contents \cup {None}
  BY DEF Sound, Requests
<1>2. s \in Sessions /\ s.got[r.chunk] \in {None, r.body}
  BY <1>1 DEF CInv, TypeOK, SessionInv, Sessions
<1>3. /\ s.state = "NONE" => code = "UPLOAD_NOT_FOUND"
      /\ s.state = "UPLOADING" => code = "OK"
      /\ s.state \notin {"NONE", "UPLOADING"} => code = "UPLOAD_STATE_CONFLICT"
  BY <1>2
<1>4. CASE Unavailable(heard) /\ UNCHANGED sess
  BY <1>4, NoEffect DEF ServeChunk, server
<1>5. ASSUME IF code = "OK" THEN sess' = written ELSE UNCHANGED sess,
             \/ NoFault /\ Reply(heard, Answer(code))
             \/ Unavailable(heard)
      PROVE  ServeEffect(r, heard)
  <2>1. faults' \in 0..MaxFaults
    BY <1>5, FaultBudget DEF Unavailable
  <2>2. UNCHANGED <<owner, row, nextId>>
    BY DEF ServeChunk
  <2>3. ServerTypes' /\ SessionInv' /\ ServerRel(r)
    <3>1. CASE code = "OK"
      <4>1. s.state = "UPLOADING" /\ sess' = written
        BY <1>2, <1>3, <1>5, <3>1 DEF Sessions
      <4>2. /\ sess'[u].state = "UPLOADING" /\ sess'[u] \in Sessions
            /\ sess'[u].got[r.chunk] = r.body
            /\ \A c \in Chunks \ {r.chunk} : sess'[u].got[c] = s.got[c]
            /\ \A v \in Uploads \ {u} : sess'[v] = sess[v]
            /\ sess' \in [Uploads -> Sessions]
        <5> DEFINE g == [s.got EXCEPT ![r.chunk] = r.body]
                   n == [s EXCEPT !.got = g]
        <5>1. /\ g \in [Chunks -> Contents \cup {None}] /\ g[r.chunk] = r.body
              /\ \A c \in Chunks \ {r.chunk} : g[c] = s.got[c]
          BY <1>1, <1>2 DEF Sessions
        <5> HIDE DEF g
        <5>2. n \in Sessions /\ n.state = "UPLOADING" /\ n.got = g
          BY <1>2, <4>1, <5>1 DEF Sessions
        <5>3. sess' = [sess EXCEPT ![u] = n]
          BY <4>1 DEF g, WithChunk
        <5> HIDE DEF n
        <5>4. sess'[u] = n /\ \A v \in Uploads \ {u} : sess'[v] = sess[v]
          BY <1>1, <5>3 DEF CInv, TypeOK
        <5>5. sess' \in [Uploads -> Sessions]
          BY <1>1, <5>2, <5>3 DEF CInv, TypeOK
        <5>6. QED
          BY <5>1, <5>2, <5>4, <5>5
      <4> HIDE DEF written, u, s
      <4>3. ServerTypes'
        BY <2>2, <4>2 DEF CInv, TypeOK, ServerTypes
      <4>4. SessionInv'
        BY <1>1, <2>2, <4>1, <4>2 DEF CInv, SessionInv, u, s
      <4>5. ServerRel(r)
        BY <2>2, <4>1, <4>2 DEF ServerRel, s
      <4>6. QED
        BY <4>3, <4>4, <4>5
    <3>2. CASE code # "OK"
      BY <1>5, <2>2, <3>2 DEF CInv, TypeOK, ServerTypes, SessionInv, ServerRel
    <3>3. QED
      BY <3>1, <3>2
  <2>4. AnswerTo(r, Answer(code))
    <3>1. code \in {"UPLOAD_NOT_FOUND", "OK", "UPLOAD_STATE_CONFLICT"}
      BY <1>2, <1>3 DEF Sessions
    <3>2. Answer(code) \in Answers /\ Answer(code).code = code
      BY <3>1, PlainAnswers DEF Codes
    <3>3. code = "UPLOAD_NOT_FOUND" => u \in lost
      BY <1>1, <1>3 DEF CInv, SessionInv
    <3>4. code \in BadCodes => s.state \notin {"NONE", "UPLOADING"}
      BY <1>3 DEF BadCodes
    <3> HIDE DEF code
    <3>5. QED
      BY <3>1, <3>2, <3>3, <3>4 DEF AnswerTo
  <2>5. AnswerTo(r, Answer("UNAVAILABLE"))
    <3>1. Answer("UNAVAILABLE") \in Answers /\ Answer("UNAVAILABLE").code = "UNAVAILABLE"
      BY PlainAnswers DEF Codes
    <3>2. QED
      BY <3>1 DEF AnswerTo, BadCodes
  <2> HIDE DEF code
  <2>6. IF heard THEN AnswerTo(r, reply') ELSE reply' = reply
    BY <1>5, <2>4, <2>5 DEF Reply, Unavailable
  <2>7. QED
    BY <2>1, <2>3, <2>6 DEF ServeEffect
<1>6. QED
  BY <1>4, <1>5 DEF ServeChunk

(* The session of u moves to another state that its chunks and its row     *)
(* support.                                                                *)
LEMMA StateEffect ==
  ASSUME CInv, NEW r \in Requests, r.op = "complete", NEW u \in Uploads, u = r.upload,
         owner[u] # None, u \notin lost,
         NEW st \in {"VERIFYING", "ARCHIVED"}, SetState(u, st),
         \A c \in Chunks : sess[u].got[c] # None,
         UNCHANGED <<owner, lost>>,
         \/ UNCHANGED <<row, nextId>>
         \/ InsertRow(u),
         st = "ARCHIVED" => row'[u] # 0
  PROVE  ServerTypes' /\ SessionInv' /\ ServerRel(r) /\ row'[u] \in Nat
<1>1. /\ sess \in [Uploads -> Sessions] /\ row \in [Uploads -> Nat] /\ nextId \in Nat \ {0}
      /\ owner \in [Uploads -> Ids \cup {None}]
  BY DEF CInv, TypeOK
<1> DEFINE n == [sess[u] EXCEPT !.state = st]
<1>2. n \in Sessions /\ n.state = st /\ n.got = sess[u].got
  BY <1>1 DEF Sessions
<1>3. sess' = [sess EXCEPT ![u] = n]
  BY DEF SetState
<1> HIDE DEF n
<1>4. /\ sess' \in [Uploads -> Sessions]
      /\ sess'[u] = n /\ \A v \in Uploads \ {u} : sess'[v] = sess[v]
  BY <1>1, <1>2, <1>3
<1>5. /\ row' \in [Uploads -> Nat] /\ nextId' \in Nat \ {0}
      /\ \A v \in Uploads \ {u} : row'[v] = row[v]
      /\ row[u] # 0 => row'[u] = row[u]
  BY <1>1 DEF InsertRow
<1>6. ServerTypes'
  BY <1>1, <1>4, <1>5 DEF ServerTypes
<1>7. SessionInv'
  BY <1>2, <1>4, <1>5 DEF CInv, SessionInv
<1>8. ServerRel(r)
  BY <1>2, <1>4, <1>5 DEF ServerRel
<1>9. QED
  BY <1>5, <1>6, <1>7, <1>8

(* POST complete: the file is whole and intact, so it is archived.         *)
LEMMA ServeCompleteEffect ==
  ASSUME CInv, NEW r \in Requests, r.op = "complete", Sound(r), NEW heard \in BOOLEAN,
         ServeComplete(r, heard), UNCHANGED lost
  PROVE  ServeEffect(r, heard)
<1> DEFINE u == r.upload
           s == sess[u]
           whole == \A c \in Chunks : s.got[c] # None
<1> USE NoneIsNoRecordOfCollector
<1>1. /\ u \in Uploads /\ owner[u] = r.id /\ r.id \in Ids /\ owner[u] # None
      /\ s \in Sessions /\ row[u] \in Nat /\ nextId \in Nat \ {0}
  BY DEF Sound, Requests, CInv, TypeOK
<1>2. UNCHANGED owner
  BY DEF ServeComplete
<1>3. AnswerTo(r, Answer("UNAVAILABLE"))
  <2>1. Answer("UNAVAILABLE") \in Answers /\ Answer("UNAVAILABLE").code = "UNAVAILABLE"
    BY PlainAnswers DEF Codes
  <2>2. QED
    BY <2>1 DEF AnswerTo, BadCodes
<1>4. ASSUME NEW a, NoFault, UNCHANGED <<sess, row, nextId>>, Reply(heard, a),
             \/ s.state = "NONE" /\ a = Answer("UPLOAD_NOT_FOUND")
             \/ s.state = "FAILED" /\ a = Answer("UPLOAD_STATE_CONFLICT")
             \/ s.state = "ARCHIVED" /\ a = [Answer("OK") EXCEPT !.archive = row[u]]
             \/ s.state = "UPLOADING" /\ a = Answer("CHUNKS_INCOMPLETE")
      PROVE  ServeEffect(r, heard)
  <2>1. faults' \in 0..MaxFaults
    BY <1>4, FaultBudget
  <2>2. ServerTypes' /\ SessionInv'
    BY <1>2, <1>4 DEF CInv, TypeOK, ServerTypes, SessionInv
  <2>3. ServerRel(r)
    BY <1>2, <1>4 DEF ServerRel
  <2>4. s.state # "FAILED" /\ (s.state = "NONE" => u \in lost) /\ (s.state = "ARCHIVED" => row[u] # 0)
    BY <1>1 DEF CInv, SessionInv
  <2>5. /\ a \in Answers
        /\ a.code \in {"UPLOAD_NOT_FOUND", "OK", "CHUNKS_INCOMPLETE"}
        /\ a.code = "UPLOAD_NOT_FOUND" => s.state = "NONE"
        /\ a.code = "OK" => s.state = "ARCHIVED" /\ a.archive = row[u]
    <3> HIDE DEF s, u
    <3>1. QED
      BY <1>1, <1>4, <2>4 DEF Answer, Answers, Codes
  <2>6. AnswerTo(r, a)
    BY <1>4, <2>4, <2>5 DEF AnswerTo, BadCodes
  <2>7. QED
    BY <1>4, <2>1, <2>2, <2>3, <2>6 DEF ServeEffect, Reply
<1>5. ASSUME s.state = "VERIFYING" \/ (s.state = "UPLOADING" /\ whole)
      PROVE  /\ u \notin lost
             /\ \A c \in Chunks : s.got[c] # None /\ s.got[c] = owner[u].sha
  BY <1>1, <1>5 DEF CInv, SessionInv
<1>6. ASSUME s.state = "VERIFYING" \/ (s.state = "UPLOADING" /\ whole), ServeArchive(u, heard)
      PROVE  ServeEffect(r, heard)
  <2>1. u \notin lost /\ \A c \in Chunks : s.got[c] # None
    BY <1>5, <1>6
  <2>2. InsertRow(u) => row'[u] # 0
    BY <1>1 DEF InsertRow, CInv, TypeOK
  <2>3. CASE /\ SetState(u, "VERIFYING")
             /\ InsertRow(u) \/ UNCHANGED <<row, nextId>>
             /\ Unavailable(heard)
    <3>1. ServerTypes' /\ SessionInv' /\ ServerRel(r)
      BY <1>1, <1>2, <2>1, <2>3, StateEffect
    <3>2. faults' \in 0..MaxFaults
      BY <2>3, FaultBudget DEF Unavailable
    <3>3. QED
      BY <1>3, <2>3, <3>1, <3>2 DEF ServeEffect, Unavailable, Reply
  <2>4. CASE /\ SetState(u, "ARCHIVED") /\ InsertRow(u)
             /\ \/ NoFault /\ Reply(heard, [Answer("OK") EXCEPT !.archive = row'[u]])
                \/ Unavailable(heard)
    <3>1. ServerTypes' /\ SessionInv' /\ ServerRel(r) /\ row'[u] \in Nat
      BY <1>1, <1>2, <2>1, <2>2, <2>4, StateEffect
    <3>2. faults' \in 0..MaxFaults
      BY <2>4, FaultBudget DEF Unavailable
    <3>3. ASSUME NEW a, a = [Answer("OK") EXCEPT !.archive = row'[u]]
          PROVE  AnswerTo(r, a)
      <4>1. a \in Answers /\ a.code = "OK" /\ a.archive = row'[u]
        BY <3>1, <3>3 DEF Answer, Answers, Codes
      <4>2. QED
        BY <2>2, <2>4, <4>1 DEF AnswerTo, BadCodes
    <3>4. QED
      BY <1>3, <2>4, <3>1, <3>2, <3>3 DEF ServeEffect, Unavailable, Reply
  <2>5. QED
    BY <1>6, <2>3, <2>4 DEF ServeArchive
<1>7. CASE Unavailable(heard) /\ UNCHANGED <<sess, row, nextId>>
  BY <1>2, <1>7, NoEffect DEF server
<1>8. QED
  BY <1>4, <1>5, <1>6, <1>7 DEF ServeComplete

(* The same for every request.                                             *)
LEMMA ServeHasEffect ==
  ASSUME CInv, NEW r \in Requests, Sound(r), NEW heard \in BOOLEAN, Serve(r, heard), UNCHANGED lost
  PROVE  ServeEffect(r, heard)
<1>1. CASE r.op = "create" /\ ServeCreate(r, heard)
  BY <1>1, ServeCreateEffect
<1>2. CASE r.op = "progress" /\ ServeProgress(r, heard)
  BY <1>2, ServeProgressEffect
<1>3. CASE r.op = "chunk" /\ ServeChunk(r, heard)
  BY <1>3, ServeChunkEffect
<1>4. CASE r.op = "complete" /\ ServeComplete(r, heard)
  BY <1>4, ServeCompleteEffect
<1>5. CASE Fault /\ Reply(heard, Answer("REJECTED")) /\ UNCHANGED server
  BY <1>5, NoEffect
<1>6. QED
  BY <1>1, <1>2, <1>3, <1>4, <1>5 DEF Serve

(* A complete that is executed touches a session its task ended with.      *)
Ending(r) ==
  r.op = "complete" =>
    /\ r.upload \in lost \/ (task[r.id].upload = r.upload /\ task[r.id].state \in Ended)
    /\ \A i \in Ids : task[i].state = "UPLOADING" => task[i].upload # r.upload

(* The execution of a request keeps tasks and sessions.                    *)
LEMMA ServerKeepsTasks ==
  ASSUME CInv, NEW r \in Requests, Sound(r), Ending(r),
         ServerTypes', SessionInv', ServerRel(r),
         UNCHANGED <<spool, lost>>, late' \subseteq late
  PROVE  /\ TasksAndSessions'
         /\ \A u \in Uploads : owner[u] # None /\ Untouched(u) /\ (r.op = "complete" => u # r.upload) =>
              Untouched(u)'
         /\ \A u \in Uploads : owner[u] = None /\ owner'[u] # None => Untouched(u)'
         /\ \A q \in Requests : Sound(q) => Sound(q)'
<1> USE NoneIsNoRecordOfCollector
<1>1. \A u \in Uploads : owner[u] # None => owner'[u] = owner[u]
  BY DEF ServerRel
<1>2. \A q \in Requests : Sound(q) => Sound(q)'
  BY <1>1 DEF Sound, Requests
<1>3. \A u \in Uploads : owner[u] # None /\ Untouched(u) /\ (r.op = "complete" => u # r.upload) =>
        Untouched(u)'
  BY DEF ServerRel, Untouched
<1>4. \A u \in Uploads : owner[u] = None /\ owner'[u] # None => Untouched(u)'
  <2>1. \A q \in late : q.op = "complete" => q.upload \in Uploads /\ owner[q.upload] \in Ids
    BY DEF CInv, Sound, TypeOK, Requests
  <2>2. QED
    BY <2>1 DEF ServerRel, Untouched
<1>5. \A q \in late' : Sound(q)'
  BY <1>2 DEF CInv, TypeOK
<1>6. TaskInv'
  <2> SUFFICES ASSUME NEW i \in Ids, NEW u, u = task[i].upload
               PROVE  /\ task[i].state \in {"UPLOADING", "COMPLETING"} => u \in Uploads /\ owner'[u] = i
                      /\ task[i].state = "UPLOADING" => Untouched(u)'
    BY DEF TaskInv, spool, Untouched
  <2>1. task[i].state \in {"UPLOADING", "COMPLETING"} => u \in Uploads /\ owner[u] = i /\ owner[u] # None
    BY DEF CInv, TaskInv
  <2>2. task[i].state = "UPLOADING" => Untouched(u) /\ (r.op = "complete" => u # r.upload)
    BY DEF CInv, TaskInv, Ending
  <2>3. QED
    BY <1>1, <1>3, <2>1, <2>2
<1>7. ClaimInv'
  <2> SUFFICES ASSUME NEW u \in Uploads, owner'[u] # None, ~Untouched(u)'
               PROVE  u \in lost \/ (/\ task[owner'[u]].upload = u
                                     /\ task[owner'[u]].state \in {"COMPLETING", "DONE", "FAILED"})
    BY DEF ClaimInv, spool
  <2>1. owner[u] # None /\ owner'[u] = owner[u]
    BY <1>1, <1>4
  <2>2. CASE ~Untouched(u)
    BY <2>1, <2>2 DEF CInv, ClaimInv
  <2>3. CASE Untouched(u)
    <3>1. r.op = "complete" /\ u = r.upload
      BY <1>3, <2>1, <2>3
    <3>2. QED
      BY <2>1, <3>1 DEF Ending, Ended, Sound
  <2>4. QED
    BY <2>2, <2>3
<1>8. PayloadIntact' /\ NoIntegrityFailure' /\ OneTaskPerSignature'
  BY DEF CInv, PayloadIntact, NoIntegrityFailure, OneTaskPerSignature, spool
<1>9. DoneIsArchived'
  <2> SUFFICES ASSUME NEW i \in Ids, task[i].state = "DONE"
               PROVE  task[i].archive # 0 /\ \E u \in Uploads : owner'[u] = i /\ row'[u] = task[i].archive
    BY DEF DoneIsArchived, spool
  <2>1. PICK u \in Uploads : task[i].archive # 0 /\ owner[u] = i /\ row[u] = task[i].archive
    BY DEF CInv, DoneIsArchived
  <2>2. QED
    BY <1>1, <2>1 DEF ServerRel
<1>10. QED
  BY <1>2, <1>3, <1>4, <1>5, <1>6, <1>7, <1>8, <1>9 DEF TasksAndSessions

(* The server answers the call the collector waits for.                    *)
LEMMA ServeCallStep ==
  ASSUME CInv, ServeCall
  PROVE  CInv'
<1> USE NoneIsNoRecordOfCollector
<1>1. /\ pc = "wait" /\ reply = None /\ Serve(call, TRUE)
      /\ UNCHANGED <<device, spool, agent, late, lost>>
  BY DEF ServeCall
<1>2. call \in Requests /\ Sound(call)
  BY <1>1 DEF CInv, CallInv, TypeOK
<1>3. Ending(call)
  <2> SUFFICES ASSUME call.op = "complete"
               PROVE  /\ task[call.id].upload = call.upload /\ task[call.id].state = "COMPLETING"
                      /\ \A i \in Ids : task[i].state = "UPLOADING" => task[i].upload # call.upload
    BY DEF Ending, Ended
  <2>1. task[call.id].upload = call.upload /\ task[call.id].state = "COMPLETING"
    BY <1>1 DEF CInv, CallInv
  <2>2. call.upload \in Uploads /\ owner[call.upload] = call.id
    BY <1>2 DEF Sound
  <2>3. QED
    BY <2>1, <2>2 DEF CInv, TaskInv
<1>4. ServerTypes' /\ SessionInv' /\ ServerRel(call) /\ faults' \in 0..MaxFaults /\ AnswerTo(call, reply')
  BY <1>1, <1>2, ServeHasEffect DEF ServeEffect
<1>5. /\ TasksAndSessions'
      /\ \A u \in Uploads : owner[u] = None /\ owner'[u] # None => Untouched(u)'
      /\ \A q \in Requests : Sound(q) => Sound(q)'
  BY <1>1, <1>2, <1>3, <1>4, ServerKeepsTasks
<1>6. TypeOK' /\ nextId' # 0
  BY <1>1, <1>4 DEF CInv, TypeOK, ServerTypes, AnswerTo, device, spool, agent
<1>7. SourceInv'
  BY <1>1 DEF CInv, SourceInv, SameSignature, device, spool, agent
<1>8. CallInv'
  <2>1. Sound(call)'
    BY <1>1, <1>2, <1>5 DEF agent, Sound
  <2>2. QED
    BY <1>1, <2>1 DEF CInv, CallInv, spool, agent
<1>9. ReplyInv'
  <2>1. call' = call /\ reply' \in Answers
    BY <1>1, <1>4 DEF agent, AnswerTo
  <2>2. reply'.code \notin BadCodes
    <3>1. ASSUME reply'.code \in BadCodes PROVE FALSE
      <4>1. call.op = "chunk" /\ sess[call.upload].state \notin {"NONE", "UPLOADING"}
        BY <1>4, <3>1 DEF AnswerTo
      <4>2. task[call.id].state = "UPLOADING" /\ task[call.id].upload = call.upload /\ call.id \in Ids
        BY <1>1, <1>2, <4>1 DEF CInv, CallInv, Requests
      <4>3. Untouched(call.upload)
        BY <4>2 DEF CInv, TaskInv
      <4>4. QED
        BY <4>1, <4>3 DEF Untouched
    <3>2. QED
      BY <3>1
  <2>3. reply'.code = "OK" /\ call.op = "create" =>
          /\ reply'.upload \in Uploads /\ owner'[reply'.upload] = call.id
          /\ \A u \in Uploads : u = reply'.upload => Untouched(u)'
    BY <1>2, <1>4, <1>5 DEF AnswerTo, Requests
  <2>4. reply'.code = "OK" /\ call.op = "complete" =>
          reply'.archive # 0 /\ row'[call.upload] = reply'.archive
    BY <1>4 DEF AnswerTo
  <2>5. reply'.code = "UPLOAD_NOT_FOUND" => call.op # "create" /\ call.upload \in lost'
    BY <1>1, <1>4 DEF AnswerTo
  <2>6. QED
    BY <2>1, <2>2, <2>3, <2>4, <2>5 DEF ReplyInv, BadCodes, Untouched
<1>10. QED
  BY <1>5, <1>6, <1>7, <1>8, <1>9 DEF CInv, TasksAndSessions

(* The server executes a request that the collector has given up.          *)
LEMMA ServeLateStep ==
  ASSUME CInv, NEW r \in late, ServeLate(r)
  PROVE  CInv'
<1> USE NoneIsNoRecordOfCollector
<1>1. /\ late' = late \ {r} /\ Serve(r, FALSE)
      /\ UNCHANGED <<device, spool, agent, lost>>
  BY DEF ServeLate
<1>2. r \in Requests /\ Sound(r)
  BY DEF CInv, TypeOK
<1>3. r.op = "complete" => r.upload \in Uploads /\ ~Untouched(r.upload) /\ owner[r.upload] = r.id /\ r.id \in Ids
  BY <1>2 DEF Untouched, Sound, Requests
<1>4. Ending(r)
  BY <1>3 DEF CInv, ClaimInv, TaskInv, Ending, Ended
<1>5. ServerTypes' /\ SessionInv' /\ ServerRel(r) /\ faults' \in 0..MaxFaults /\ reply' = reply
  BY <1>1, <1>2, ServeHasEffect DEF ServeEffect
<1>6. /\ TasksAndSessions'
      /\ \A u \in Uploads : owner[u] # None /\ Untouched(u) /\ (r.op = "complete" => u # r.upload) =>
           Untouched(u)'
      /\ \A q \in Requests : Sound(q) => Sound(q)'
  BY <1>1, <1>2, <1>4, <1>5, ServerKeepsTasks
<1>7. TypeOK' /\ nextId' # 0
  BY <1>1, <1>5 DEF CInv, TypeOK, ServerTypes, device, spool, agent
<1>8. SourceInv'
  BY <1>1 DEF CInv, SourceInv, SameSignature, device, spool, agent
<1>9. call' = call /\ pc' = pc /\ task' = task
  BY <1>1 DEF agent, spool
<1>10. CallInv'
  <2>1. pc = "wait" => call \in Requests /\ Sound(call)
    BY DEF CInv, CallInv, TypeOK
  <2>2. pc = "wait" => Sound(call)'
    BY <1>6, <1>9, <2>1 DEF Sound
  <2>3. QED
    BY <1>1, <1>9, <2>2 DEF CInv, CallInv, agent
<1>11. ReplyInv'
  <2> SUFFICES ASSUME pc = "wait", reply # None PROVE ReplyInv'
    BY <1>5, <1>9 DEF ReplyInv
  <2>1. call \in Requests /\ Sound(call)
    BY DEF CInv, CallInv, TypeOK
  <2>2. ASSUME reply.code = "OK", call.op = "create", NEW u, u = reply.upload
        PROVE  u \in Uploads /\ owner'[u] = call.id /\ Untouched(u)'
    <3>1. u \in Uploads /\ owner[u] = call.id /\ Untouched(u) /\ owner[u] # None
      BY <2>1, <2>2 DEF CInv, ReplyInv, Requests
    <3>2. QED
      BY <1>3, <1>5, <1>6, <3>1 DEF ServerRel
  <2>3. ASSUME reply.code = "OK", call.op = "complete"
        PROVE  reply.archive # 0 /\ row'[call.upload] = reply.archive
    BY <1>5, <2>1, <2>3 DEF CInv, ReplyInv, ServerRel, Sound
  <2>4. QED
    BY <1>1, <1>5, <1>9, <2>2, <2>3 DEF CInv, ReplyInv, Untouched
<1>12. QED
  BY <1>6, <1>7, <1>8, <1>10, <1>11 DEF CInv, TasksAndSessions

(* A session that is lost.                                                 *)
LEMMA LoseSessionStep ==
  ASSUME CInv, NEW u \in Uploads, LoseSession(u)
  PROVE  CInv'
<1> USE NoneIsNoRecordOfCollector
<1>1. /\ sess[u].state # "NONE" /\ Fault
      /\ sess' = [sess EXCEPT ![u] = NoSession] /\ lost' = lost \cup {u}
      /\ UNCHANGED <<device, spool, agent, reply, owner, row, nextId, late>>
  BY DEF LoseSession
<1>2. /\ NoSession \in Sessions /\ NoSession.state = "NONE"
      /\ \A c \in Chunks : NoSession.got[c] = None
  BY DEF NoSession, Sessions
<1>3. /\ sess' \in [Uploads -> Sessions] /\ sess'[u] = NoSession
      /\ \A v \in Uploads \ {u} : sess'[v] = sess[v]
  BY <1>1, <1>2 DEF CInv, TypeOK
<1>4. faults' \in 0..MaxFaults
  BY <1>1, FaultBudget
<1>5. TypeOK' /\ nextId' # 0
  BY <1>1, <1>3, <1>4 DEF CInv, TypeOK, device, spool, agent
<1>6. \A v \in Uploads : Untouched(v) => Untouched(v)'
  BY <1>1, <1>2, <1>3 DEF Untouched
<1>7. \A v \in Uploads : ~Untouched(v)' => v \in lost' \/ ~Untouched(v)
  BY <1>6
<1>8. SourceInv'
  BY <1>1 DEF CInv, SourceInv, SameSignature, device, spool, agent
<1>9. CallInv'
  BY <1>1 DEF CInv, CallInv, Sound, spool, agent
<1>10. ReplyInv'
  <2>1. call' = call /\ reply' = reply /\ pc' = pc
    BY <1>1 DEF agent
  <2>2. ASSUME pc = "wait", reply # None, reply.code = "OK", call.op = "create",
               NEW v, v = reply.upload
        PROVE  v \in Uploads /\ owner'[v] = call.id /\ Untouched(v)'
    BY <1>1, <1>6, <2>2 DEF CInv, ReplyInv
  <2>3. QED
    BY <1>1, <2>1, <2>2 DEF CInv, ReplyInv, Untouched
<1>11. \A r \in late' : Sound(r)'
  BY <1>1 DEF CInv, Sound
<1>12. TaskInv'
  <2> SUFFICES ASSUME NEW i \in Ids, NEW v, v = task[i].upload
               PROVE  /\ task[i].state \in {"UPLOADING", "COMPLETING"} => v \in Uploads /\ owner'[v] = i
                      /\ task[i].state = "UPLOADING" => Untouched(v)'
    BY <1>1 DEF TaskInv, spool, Untouched
  <2>1. QED
    BY <1>1, <1>6 DEF CInv, TaskInv
<1>13. SessionInv'
  BY <1>1, <1>2, <1>3 DEF CInv, SessionInv
<1>14. ClaimInv'
  <2> SUFFICES ASSUME NEW v \in Uploads, owner[v] # None, ~Untouched(v)'
               PROVE  v \in lost' \/ (/\ task[owner[v]].upload = v
                                      /\ task[owner[v]].state \in {"COMPLETING", "DONE", "FAILED"})
    BY <1>1 DEF ClaimInv, spool
  <2>1. QED
    BY <1>1, <1>6 DEF CInv, ClaimInv
<1>15. PayloadIntact' /\ NoIntegrityFailure' /\ OneTaskPerSignature' /\ DoneIsArchived'
  BY <1>1 DEF CInv, PayloadIntact, NoIntegrityFailure, OneTaskPerSignature, DoneIsArchived, spool
<1>16. QED
  BY <1>5, <1>8, <1>9, <1>10, <1>11, <1>12, <1>13, <1>14, <1>15 DEF CInv

-----------------------------------------------------------------------------
(* The device and the scan.                                                *)

(* A thread that waits for nothing has no open call to account for.        *)
LEMMA ThreadNotWaiting ==
  ASSUME pc' \notin {"wait", "remove"},
         pc' = "process" => \A i \in todo' : Active(task'[i])
  PROVE  CallInv' /\ ReplyInv'
  BY DEF CallInv, ReplyInv, Active

(* The same for a thread that does not wait for a new answer and a server  *)
(* that rests.                                                             *)
LEMMA ThreadWaitsOn ==
  ASSUME CInv, UNCHANGED <<server, late, lost, task, todo, pc, call, reply>>
  PROVE  CallInv' /\ ReplyInv'
<1>1. CallInv'
  BY DEF CInv, CallInv, Sound, server
<1>2. ReplyInv'
  BY DEF CInv, ReplyInv, Untouched, server
<1>3. QED
  BY <1>1, <1>2

(* The device writes its file.                                             *)
LEMMA DeviceWriteStep ==
  ASSUME CInv, NEW x \in Contents, DeviceWrite(x)
  PROVE  CInv'
<1>1. /\ source.mtime < MaxWrites
      /\ source' = [mtime |-> source.mtime + 1, content |-> x]
      /\ history' = [history EXCEPT ![source.mtime + 1] = x]
      /\ UNCHANGED <<sidecar, spool, agent, reply, server, late, lost, faults>>
  BY DEF DeviceWrite
<1>2. source.mtime \in 0..MaxWrites
  BY DEF CInv, TypeOK
<1>3. source.mtime + 1 \in 1..MaxWrites
  BY <1>1, <1>2, BoundsAssumption
<1>4. TypeOK' /\ nextId' # 0
  BY <1>1, <1>3 DEF CInv, TypeOK, spool, agent, server
<1>5. SourceInv'
  BY <1>1, <1>3 DEF CInv, SourceInv, SameSignature, spool, agent
<1>6. CallInv' /\ ReplyInv'
  BY <1>1, ThreadWaitsOn DEF spool, agent
<1>7. TasksAndSessions'
  BY <1>1, TasksRest DEF spool
<1>8. QED
  BY <1>4, <1>5, <1>6, <1>7 DEF CInv, TasksAndSessions

(* The device writes its sidecar.                                          *)
LEMMA DeviceSidecarStep ==
  ASSUME CInv, DeviceSidecar
  PROVE  CInv'
<1>1. /\ sidecar' \in {"invalid", "valid"}
      /\ UNCHANGED <<source, history, spool, agent, reply, server, late, lost, faults>>
  BY DEF DeviceSidecar
<1>2. TypeOK' /\ nextId' # 0
  BY <1>1 DEF CInv, TypeOK, spool, agent, server
<1>3. SourceInv'
  BY <1>1 DEF CInv, SourceInv, SameSignature, spool, agent
<1>4. CallInv' /\ ReplyInv'
  BY <1>1, ThreadWaitsOn DEF spool, agent
<1>5. TasksAndSessions'
  BY <1>1, TasksRest DEF spool
<1>6. QED
  BY <1>2, <1>3, <1>4, <1>5 DEF CInv, TasksAndSessions

(* processTasks starts with a well-formed list of tasks.                   *)
LEMMA PassBegins ==
  ASSUME NEW t, BeginPass(t)
  PROVE  /\ pc' = "process" /\ todo' \subseteq Ids
         /\ \A i \in todo' : Active(t[i])
         /\ scan' \in [mtime : 0..MaxWrites, size : Nat, sha : Contents \cup {None}]
  BY BoundsAssumption DEF BeginPass, NoScan

(* A task without a session may fail under its id.                         *)
LEMMA FailedSaveable ==
  ASSUME CInv, NEW i \in Ids, NEW e \in Codes \ BadCodes, task[i].state = "NONE",
         \A j \in Ids : task[j].state # "NONE" => j.mtime # i.mtime
  PROVE  /\ FailedTask(e) \in Tasks /\ Saveable(i, FailedTask(e)) /\ ~Active(FailedTask(e))
         /\ ReadyTask \in Tasks /\ Saveable(i, ReadyTask)
<1> USE NoneIsNoRecordOfCollector
<1>1. /\ FailedTask(e) \in Tasks /\ FailedTask(e).state = "FAILED" /\ FailedTask(e).error = e
      /\ ReadyTask \in Tasks /\ ReadyTask.state = "READY" /\ ReadyTask.error = "none"
  BY DEF FailedTask, ReadyTask, NoTask, Tasks, Codes
<1>2. \A u \in Uploads : owner[u] = i /\ ~Untouched(u) => u \in lost
  BY DEF CInv, ClaimInv
<1>3. QED
  BY <1>1, <1>2 DEF Saveable, Active, BadCodes

(* An unfinished task may fail.                                            *)
LEMMA FailSaveable ==
  ASSUME CInv, NEW i \in Ids, NEW e \in Codes \ BadCodes, Active(task[i]),
         NEW t, t = FailedWith(task[i], e)
  PROVE  t \in Tasks /\ Saveable(i, t) /\ ~Active(t)
<1> USE NoneIsNoRecordOfCollector
<1>1. task[i] \in Tasks
  BY DEF CInv, TypeOK
<1>2. t \in Tasks /\ t.state = "FAILED" /\ t.error = e /\ t.upload = task[i].upload
  BY <1>1 DEF FailedWith, Tasks
<1>3. \A u \in Uploads : owner[u] = i /\ ~Untouched(u) => u \in lost \/ t.upload = u
  BY <1>2 DEF CInv, ClaimInv
<1>4. \A j \in Ids : task[j].state # "NONE" /\ j.mtime = i.mtime => j = i
  BY DEF CInv, OneTaskPerSignature, Active
<1>5. QED
  BY <1>2, <1>3, <1>4 DEF Saveable, Ended, Active

(* stat, seal check and the search for tasks of the path.                  *)
LEMMA ScanStatStep ==
  ASSUME CInv, ScanStat
  PROVE  CInv'
<1> USE NoneIsNoRecordOfCollector
<1> DEFINE m == source.mtime
           n == IF stable.mtime = m THEN Min({stable.count + 1, StableScans}) ELSE 1
           sealed == m > 0 /\ n >= StableScans /\ sidecar # "absent"
           unhashed == [mtime |-> m, sha |-> None]
<1>1. /\ pc = "scan" /\ stable' = [mtime |-> m, count |-> n]
      /\ UNCHANGED <<device, payload, call, missing, reply, server, late, lost, faults>>
  BY DEF ScanStat
<1>2. m \in 0..MaxWrites /\ stable.count \in 0..StableScans
  BY DEF CInv, TypeOK
<1>3. n \in 0..StableScans
  <2>1. Min({stable.count + 1, StableScans}) \in {stable.count + 1, StableScans}
        /\ Min({stable.count + 1, StableScans}) =< StableScans
    BY <1>2, MinOfTwo, BoundsAssumption
  <2>2. QED
    BY <1>2, <2>1, BoundsAssumption
<1> HIDE DEF n
<1>4. stable' \in [mtime : 0..MaxWrites, count : 0..StableScans]
  BY <1>1, <1>2, <1>3
<1>5. ASSUME task' \in [Ids -> Tasks], TasksAndSessions', BeginPass(task')
      PROVE  CInv'
  <2>1. /\ pc' = "process" /\ todo' \subseteq Ids
        /\ \A i \in todo' : Active(task'[i])
        /\ scan' \in [mtime : 0..MaxWrites, size : Nat, sha : Contents \cup {None}]
    BY <1>5, BoundsAssumption DEF BeginPass, NoScan
  <2>2. TypeOK' /\ nextId' # 0
    BY <1>1, <1>4, <1>5, <2>1 DEF CInv, TypeOK, device, server
  <2>3. SourceInv'
    BY <1>1, <2>1 DEF CInv, SourceInv, device
  <2>4. CallInv' /\ ReplyInv'
    BY <2>1, ThreadNotWaiting
  <2>5. QED
    BY <1>5, <2>2, <2>3, <2>4 DEF CInv, TasksAndSessions
<1>6. LateRel /\ UNCHANGED <<server, lost>> /\ task \in [Ids -> Tasks]
  BY <1>1, NoLateRequest DEF CInv, TypeOK
<1>7. CASE UNCHANGED task /\ BeginPass(task')
  <2>1. TasksAndSessions'
    BY <1>1, <1>7, TasksRest
  <2>2. QED
    BY <1>5, <1>6, <1>7, <2>1
<1>8. ASSUME NEW i \in ChangedTasks(m), BeginPass(task'),
             SaveTask(i, FailedWith(task[i], "SOURCE_CHANGED_AFTER_SEAL"))
      PROVE  CInv'
  <2> DEFINE t == FailedWith(task[i], "SOURCE_CHANGED_AFTER_SEAL")
  <2>1. i \in Ids /\ Active(task[i])
    BY <1>8 DEF ChangedTasks
  <2>2. t \in Tasks /\ Saveable(i, t) /\ ~Active(t)
    BY <2>1, FailSaveable DEF Codes, BadCodes
  <2>3. task' = [task EXCEPT ![i] = t]
    BY <1>8 DEF SaveTask
  <2> HIDE DEF t
  <2>4. TasksAndSessions'
    BY <1>1, <1>6, <2>1, <2>2, <2>3, TaskSaved
  <2>5. QED
    BY <1>5, <1>6, <1>8, <2>1, <2>2, <2>3, <2>4
<1>9. ASSUME sealed, SameSignature(m) = {},
             NEW e \in {"SIDECAR_INVALID", "ZERO_LENGTH_FILE"},
             SaveTask(unhashed, FailedTask(e)), BeginPass(task')
      PROVE  CInv'
  <2>1. unhashed \in Ids
    BY <1>2, <1>9 DEF Ids
  <2>2. unhashed.mtime = m
    OBVIOUS
  <2>3. \A j \in Ids : task[j].state # "NONE" => j.mtime # m
    BY <1>9 DEF SameSignature
  <2>4. e \in Codes \ BadCodes
    BY <1>9 DEF Codes, BadCodes
  <2> HIDE DEF unhashed
  <2>5. FailedTask(e) \in Tasks /\ Saveable(unhashed, FailedTask(e)) /\ ~Active(FailedTask(e))
    BY <2>1, <2>2, <2>3, <2>4, FailedSaveable
  <2>6. task' = [task EXCEPT ![unhashed] = FailedTask(e)]
    BY <1>9 DEF SaveTask
  <2>7. TasksAndSessions'
    BY <1>1, <1>6, <2>1, <2>5, <2>6, TaskSaved
  <2>8. QED
    BY <1>5, <1>6, <1>9, <2>1, <2>5, <2>6, <2>7
<1>10. ASSUME sealed, SameSignature(m) = {},
              scan' = [mtime |-> m, size |-> Size[source.content], sha |-> None],
              pc' = "hash", UNCHANGED <<task, todo>>
       PROVE  CInv'
  <2>1. m \in 1..MaxWrites /\ source.content \in Contents
    BY <1>2, <1>10 DEF CInv, SourceInv
  <2>2. scan' \in [mtime : 0..MaxWrites, size : Nat, sha : Contents \cup {None}]
    BY <1>10, <2>1, ContentsAssumption
  <2>3. TypeOK' /\ nextId' # 0
    BY <1>1, <1>4, <1>10, <2>2 DEF CInv, TypeOK, device, server
  <2>4. SourceInv'
    BY <1>1, <1>10, <2>1 DEF CInv, SourceInv, SameSignature, device
  <2>5. CallInv' /\ ReplyInv'
    BY <1>10, ThreadNotWaiting
  <2>6. TasksAndSessions'
    BY <1>1, <1>10, TasksRest
  <2>7. QED
    BY <2>3, <2>4, <2>5, <2>6 DEF CInv, TasksAndSessions
<1>11. QED
  BY <1>7, <1>8, <1>9, <1>10 DEF ScanStat, n

(* hashFile, the duplicate check and the capacity check.                   *)
LEMMA ScanHashStep ==
  ASSUME CInv, ScanHash
  PROVE  CInv'
<1>1. /\ pc = "hash"
      /\ UNCHANGED <<device, stable, spool, call, missing, reply, server, late, lost, faults>>
  BY DEF ScanHash
<1>2. /\ source.content \in Contents /\ scan.mtime \in 1..MaxWrites
      /\ scan \in [mtime : 0..MaxWrites, size : Nat, sha : Contents \cup {None}]
  BY <1>1 DEF CInv, SourceInv, TypeOK
<1>3. TasksAndSessions'
  BY <1>1, TasksRest DEF spool
<1>4. CASE BeginPass(task)
  <2>1. /\ pc' = "process" /\ todo' \subseteq Ids
        /\ \A i \in todo' : Active(task'[i])
        /\ scan' \in [mtime : 0..MaxWrites, size : Nat, sha : Contents \cup {None}]
    BY <1>1, <1>4, PassBegins DEF spool
  <2>2. TypeOK' /\ nextId' # 0
    BY <1>1, <2>1 DEF CInv, TypeOK, device, spool, server
  <2>3. SourceInv'
    BY <1>1, <2>1 DEF CInv, SourceInv, device
  <2>4. QED
    BY <1>3, <2>1, <2>2, <2>3, ThreadNotWaiting DEF CInv, TasksAndSessions
<1>5. CASE /\ scan' = [scan EXCEPT !.sha = source.content]
           /\ pc' = "copy" /\ UNCHANGED todo
  <2>1. /\ scan' \in [mtime : 0..MaxWrites, size : Nat, sha : Contents \cup {None}]
        /\ scan'.mtime = scan.mtime /\ scan'.sha = source.content
    BY <1>2, <1>5
  <2>2. TypeOK' /\ nextId' # 0
    BY <1>1, <1>5, <2>1 DEF CInv, TypeOK, device, spool, server
  <2>3. SourceInv'
    BY <1>1, <1>2, <1>5, <2>1 DEF CInv, SourceInv, SameSignature, device, spool
  <2>4. QED
    BY <1>3, <1>5, <2>2, <2>3, ThreadNotWaiting DEF CInv, TasksAndSessions
<1>6. QED
  BY <1>4, <1>5 DEF ScanHash

(* While a snapshot is taken no task has its signature.                    *)
LEMMA ScanIdIsNew ==
  ASSUME CInv, pc \in {"copy", "check"}
  PROVE  /\ ScanId \in Ids /\ task[ScanId].state = "NONE" /\ ScanId.sha = scan.sha
         /\ scan.sha \in Contents
         /\ \A j \in Ids : task[j].state # "NONE" => j.mtime # ScanId.mtime
<1>1. scan.mtime \in 1..MaxWrites /\ scan.sha \in Contents /\ SameSignature(scan.mtime) = {}
  BY DEF CInv, SourceInv
<1>2. ScanId \in Ids /\ ScanId.mtime = scan.mtime /\ ScanId.sha = scan.sha
  BY <1>1 DEF ScanId, Ids
<1>3. QED
  BY <1>1, <1>2 DEF SameSignature

(* A scan ends with a task saved under its id.                             *)
LEMMA ScanEnds ==
  ASSUME CInv, pc \in {"copy", "check"},
         UNCHANGED <<device, stable, call, missing, reply, server, late, lost>>,
         faults' \in 0..MaxFaults, payload' \in [Ids -> Contents \cup {None}],
         NEW t \in Tasks, SaveTask(ScanId, t), BeginPass(task'), Saveable(ScanId, t),
         \A j \in Ids \ {ScanId} : payload'[j] = payload[j],
         Active(t) => payload'[ScanId] = ScanId.sha
  PROVE  CInv'
<1> DEFINE i == ScanId
<1>1. i \in Ids /\ i.sha # None /\ task' = [task EXCEPT ![i] = t] /\ task \in [Ids -> Tasks]
  BY ScanIdIsNew, ContentsAssumption DEF SaveTask, CInv, TypeOK
<1>2. /\ pc' = "process" /\ todo' \subseteq Ids
      /\ \A j \in todo' : Active(task'[j])
      /\ scan' \in [mtime : 0..MaxWrites, size : Nat, sha : Contents \cup {None}]
  BY BoundsAssumption DEF BeginPass, NoScan
<1>3. LateRel
  BY NoLateRequest
<1> HIDE DEF i
<1>4. \A j \in Ids \ {i} : payload'[j] = payload[j]
  BY DEF i
<1>5. Active(t) => payload'[i] = i.sha /\ i.sha # None
  BY <1>1 DEF i
<1>6. Saveable(i, t)
  BY DEF i
<1>7. TasksAndSessions'
  BY <1>1, <1>3, <1>4, <1>5, <1>6, TaskSaved
<1>8. TypeOK' /\ nextId' # 0
  BY <1>1, <1>2 DEF CInv, TypeOK, device, server
<1>9. SourceInv'
  BY <1>2 DEF CInv, SourceInv, device
<1>10. QED
  BY <1>2, <1>7, <1>8, <1>9, ThreadNotWaiting DEF CInv, TasksAndSessions

(* The snapshot is copied.                                                 *)
LEMMA ScanCopyStep ==
  ASSUME CInv, ScanCopy
  PROVE  CInv'
<1> DEFINE i == ScanId
           copied == [payload EXCEPT ![i] = source.content]
<1>1. /\ pc = "copy"
      /\ UNCHANGED <<device, stable, call, missing, reply, server, late, lost>>
  BY DEF ScanCopy
<1>2. /\ i \in Ids /\ task[i].state = "NONE" /\ i.sha = scan.sha /\ scan.sha \in Contents
      /\ \A j \in Ids : task[j].state # "NONE" => j.mtime # i.mtime
  BY <1>1, ScanIdIsNew
<1>3. source.content \in Contents /\ payload \in [Ids -> Contents \cup {None}]
  BY <1>1 DEF CInv, SourceInv, TypeOK
<1> HIDE DEF i
<1>4. /\ copied \in [Ids -> Contents \cup {None}]
      /\ \A j \in Ids \ {i} : copied[j] = payload[j]
  BY <1>2, <1>3
<1> HIDE DEF copied
<1>5. CASE payload' = copied /\ pc' = "check" /\ UNCHANGED <<task, scan, todo, faults>>
  <2>1. TypeOK' /\ nextId' # 0
    BY <1>1, <1>4, <1>5 DEF CInv, TypeOK, device, server
  <2>2. SourceInv'
    BY <1>1, <1>5 DEF CInv, SourceInv, SameSignature, device
  <2>3. \A j \in Ids : Active(task[j]) => payload'[j] = payload[j]
    BY <1>2, <1>4, <1>5 DEF Active
  <2>4. TasksAndSessions'
    BY <1>1, <1>5, <2>3, TasksRest
  <2>5. QED
    BY <1>5, <2>1, <2>2, <2>4, ThreadNotWaiting DEF CInv, TasksAndSessions
<1>6. ASSUME payload' \in {payload, copied}, Fault \/ NoFault,
             SaveTask(i, FailedTask("SNAPSHOT_FAILED")), BeginPass(task')
      PROVE  CInv'
  <2>1. faults' \in 0..MaxFaults
    BY <1>6, FaultBudget
  <2>2. "SNAPSHOT_FAILED" \in Codes \ BadCodes
    BY DEF Codes, BadCodes
  <2> DEFINE t == FailedTask("SNAPSHOT_FAILED")
  <2>3. t \in Tasks /\ Saveable(i, t) /\ ~Active(t)
    BY <1>2, <2>2, FailedSaveable
  <2>4. payload' \in [Ids -> Contents \cup {None}] /\ \A j \in Ids \ {i} : payload'[j] = payload[j]
    BY <1>3, <1>4, <1>6
  <2> HIDE DEF t
  <2>5. SaveTask(i, t)
    BY <1>6 DEF t
  <2>6. QED
    BY <1>1, <1>6, <2>1, <2>3, <2>4, <2>5, ScanEnds DEF i
<1>7. QED
  BY <1>5, <1>6 DEF ScanCopy, i, copied

(* The snapshot is hashed and the task accepted.                           *)
LEMMA ScanCheckStep ==
  ASSUME CInv, ScanCheck
  PROVE  CInv'
<1>1. /\ pc = "check" /\ BeginPass(task')
      /\ UNCHANGED <<device, stable, payload, call, missing, reply, server, late, lost>>
  BY DEF ScanCheck
<1>2. /\ ScanId \in Ids /\ task[ScanId].state = "NONE" /\ ScanId.sha = scan.sha
      /\ \A j \in Ids : task[j].state # "NONE" => j.mtime # ScanId.mtime
  BY <1>1, ScanIdIsNew
<1>3. "SNAPSHOT_FAILED" \in Codes \ BadCodes
  BY DEF Codes, BadCodes
<1>4. /\ FailedTask("SNAPSHOT_FAILED") \in Tasks /\ ~Active(FailedTask("SNAPSHOT_FAILED"))
      /\ Saveable(ScanId, FailedTask("SNAPSHOT_FAILED"))
      /\ ReadyTask \in Tasks /\ Saveable(ScanId, ReadyTask)
  BY <1>2, <1>3, FailedSaveable
<1>5. payload' \in [Ids -> Contents \cup {None}] /\ \A j \in Ids : payload'[j] = payload[j]
  BY <1>1 DEF CInv, TypeOK
<1>6. CASE payload[ScanId] = scan.sha /\ SaveTask(ScanId, ReadyTask) /\ NoFault
  <2>1. faults' \in 0..MaxFaults /\ payload'[ScanId] = ScanId.sha
    BY <1>2, <1>5, <1>6, FaultBudget
  <2>2. QED
    BY <1>1, <1>4, <1>5, <1>6, <2>1, ScanEnds
<1>7. CASE (Fault \/ NoFault) /\ SaveTask(ScanId, FailedTask("SNAPSHOT_FAILED"))
  <2>1. faults' \in 0..MaxFaults
    BY <1>7, FaultBudget
  <2>2. QED
    BY <1>1, <1>4, <1>5, <1>7, <2>1, ScanEnds
<1>8. QED
  BY <1>6, <1>7 DEF ScanCheck

-----------------------------------------------------------------------------
(* processTasks.                                                           *)

(* While the thread waits, its task is unfinished and has its payload.     *)
LEMMA WaitingTask ==
  ASSUME CInv, pc = "wait"
  PROVE  /\ call \in Requests /\ call.id \in Ids /\ Sound(call) /\ call.id \notin todo
         /\ task[call.id] \in Tasks /\ Active(task[call.id])
         /\ payload[call.id] = call.id.sha /\ call.id.sha # None
         /\ call.op = "create" => task[call.id].state = "READY"
         /\ call.op \in {"progress", "chunk"} => task[call.id].state = "UPLOADING"
         /\ call.op = "complete" => task[call.id].state = "COMPLETING"
         /\ call.op # "create" => call.upload = task[call.id].upload
<1>1. call \in Requests /\ Sound(call) /\ call.id \notin todo
  BY NoneIsNoRecordOfCollector DEF CInv, CallInv, TypeOK
<1>2. call.id \in Ids /\ call.op \in {"create", "progress", "chunk", "complete"}
  BY <1>1 DEF Requests
<1>3. Active(task[call.id])
  BY <1>2 DEF CInv, CallInv, Active
<1>4. QED
  BY <1>1, <1>2, <1>3 DEF CInv, CallInv, PayloadIntact, TypeOK

(* An unfinished task may be saved as it is, with another error code.      *)
LEMMA SameTaskSaveable ==
  ASSUME CInv, NEW i \in Ids, Active(task[i]), NEW t \in Tasks,
         t.state = task[i].state, t.upload = task[i].upload, t.error \in Codes \ BadCodes
  PROVE  Saveable(i, t)
<1>1. \A j \in Ids : task[j].state # "NONE" /\ j.mtime = i.mtime => j = i
  BY DEF CInv, OneTaskPerSignature, Active
<1>2. \A u \in Uploads : owner[u] = i /\ ~Untouched(u) =>
        u \in lost \/ (t.upload = u /\ t.state \in Ended)
  BY NoneIsNoRecordOfCollector DEF CInv, ClaimInv, Ended
<1>3. QED
  BY <1>1, <1>2 DEF CInv, TaskInv, Saveable, Active

(* processTask saves its task and goes on to the next one, or to           *)
(* removePayload.                                                          *)
LEMMA BackStep ==
  ASSUME CInv, pc = "wait",
         UNCHANGED <<device, stable, payload, scan, todo, server, lost, call, reply>>,
         missing' \subseteq Chunks, faults' \in 0..MaxFaults,
         LateRel, late' \subseteq Requests,
         NEW t \in Tasks, SaveTask(call.id, t), Saveable(call.id, t),
         \/ pc' = "process"
         \/ pc' = "remove" /\ t.state = "DONE"
  PROVE  CInv'
<1> DEFINE i == call.id
<1>1. i \in Ids /\ i \notin todo /\ payload[i] = i.sha /\ i.sha # None /\ call # None
  BY WaitingTask, NoneIsNoRecordOfCollector
<1>2. task' = [task EXCEPT ![i] = t] /\ task \in [Ids -> Tasks]
  BY DEF SaveTask, CInv, TypeOK
<1>3. Saveable(i, t)
  OBVIOUS
<1> HIDE DEF i
<1>4. TasksAndSessions'
  BY <1>1, <1>2, <1>3, TaskSaved
<1>5. TypeOK' /\ nextId' # 0
  BY <1>1, <1>2 DEF CInv, TypeOK, device, server
<1>6. SourceInv'
  BY DEF CInv, SourceInv, device
<1>7. task'[i] = t /\ \A j \in todo : task'[j] = task[j]
  BY <1>1, <1>2 DEF CInv, TypeOK
<1>8. CallInv'
  BY <1>1, <1>7 DEF CInv, CallInv, Active, i
<1>9. ReplyInv'
  BY DEF ReplyInv
<1>10. QED
  BY <1>4, <1>5, <1>6, <1>8, <1>9 DEF CInv, TasksAndSessions

(* A task that is not due.                                                 *)
LEMMA SkipTaskStep ==
  ASSUME CInv, NEW i \in Ids, SkipTask(i)
  PROVE  CInv'
<1>1. /\ pc = "process" /\ todo' = todo \ {i}
      /\ UNCHANGED <<device, spool, pc, scan, call, missing, stable, reply, server, late, lost, faults>>
  BY DEF SkipTask
<1>2. TasksAndSessions'
  BY <1>1, TasksRest DEF spool
<1>3. TypeOK' /\ nextId' # 0
  BY <1>1 DEF CInv, TypeOK, device, spool, server
<1>4. SourceInv'
  BY <1>1 DEF CInv, SourceInv, device
<1>5. CallInv' /\ ReplyInv'
  BY <1>1, ThreadNotWaiting DEF CInv, CallInv, spool
<1>6. QED
  BY <1>2, <1>3, <1>4, <1>5 DEF CInv, TasksAndSessions

(* The first request of processTask.                                       *)
LEMMA StartTaskStep ==
  ASSUME CInv, NEW i \in Ids, StartTask(i)
  PROVE  CInv'
<1> USE NoneIsNoRecordOfCollector
<1> DEFINE t == task[i]
<1>1. /\ pc = "process" /\ i \in todo /\ todo' = todo \ {i}
      /\ reply' = None /\ pc' = "wait"
      /\ UNCHANGED <<device, spool, scan, missing, stable, server, late, lost, faults>>
  BY DEF StartTask, Send
<1>2. t \in Tasks /\ Active(t)
  BY <1>1 DEF CInv, TypeOK, CallInv
<1>3. t.state \in {"UPLOADING", "COMPLETING"} => t.upload \in Uploads /\ owner[t.upload] = i
  BY DEF CInv, TaskInv
<1>4. /\ t.state = "READY" => call' = Request("create", i, None, None, None)
      /\ t.state = "UPLOADING" => call' = Request("progress", i, t.upload, None, None)
      /\ t.state = "COMPLETING" => call' = Request("complete", i, t.upload, None, None)
  BY DEF StartTask, Send
<1>5. /\ call' \in Requests /\ call'.id = i /\ call'.op # "chunk"
      /\ call'.op = "create" => t.state = "READY"
      /\ call'.op = "progress" => t.state = "UPLOADING"
      /\ call'.op = "complete" => t.state = "COMPLETING"
      /\ call'.op # "create" => call'.upload = t.upload
  <2> HIDE DEF t
  <2>1. CASE t.state = "READY"
    BY <1>4, <2>1 DEF Request, Requests
  <2>2. CASE t.state = "UPLOADING"
    BY <1>3, <1>4, <2>2 DEF Request, Requests
  <2>3. CASE t.state = "COMPLETING"
    BY <1>3, <1>4, <2>3 DEF Request, Requests
  <2>4. QED
    BY <1>2, <2>1, <2>2, <2>3 DEF Active
<1>6. call'.op # "create" => call'.upload \in Uploads /\ owner[call'.upload] = call'.id
  BY <1>3, <1>5 DEF Requests
<1>7. TasksAndSessions'
  BY <1>1, TasksRest DEF spool
<1>8. TypeOK' /\ nextId' # 0
  BY <1>1, <1>5 DEF CInv, TypeOK, device, spool, server
<1>9. SourceInv'
  BY <1>1 DEF CInv, SourceInv, device
<1>10. CallInv'
  <2>1. \A j \in todo' : Active(task'[j])
    BY <1>1 DEF CInv, CallInv, spool
  <2>2. task' = task /\ owner' = owner
    BY <1>1 DEF spool, server
  <2>3. QED
    BY <1>1, <1>5, <1>6, <2>1, <2>2 DEF CallInv, Sound, Requests
<1>11. ReplyInv'
  BY <1>1 DEF ReplyInv
<1>12. QED
  BY <1>7, <1>8, <1>9, <1>10, <1>11 DEF CInv, TasksAndSessions

(* A task whose device is no longer configured.                            *)
LEMMA DropTaskStep ==
  ASSUME CInv, NEW i \in Ids, DropTask(i)
  PROVE  CInv'
<1> DEFINE t == FailedWith(task[i], "DEVICE_CONFIG_MISSING")
<1>1. /\ pc = "process" /\ i \in todo /\ todo' = todo \ {i} /\ Fault
      /\ task' = [task EXCEPT ![i] = t]
      /\ UNCHANGED <<device, payload, pc, scan, call, missing, stable, reply, server, late, lost>>
  BY DEF DropTask, SaveTask
<1>2. Active(task[i]) /\ task \in [Ids -> Tasks]
  BY <1>1 DEF CInv, CallInv, TypeOK
<1>3. t \in Tasks /\ Saveable(i, t) /\ ~Active(t)
  BY <1>2, FailSaveable DEF Codes, BadCodes
<1> HIDE DEF t
<1>4. LateRel /\ faults' \in 0..MaxFaults
  BY <1>1, NoLateRequest, FaultBudget
<1>5. TasksAndSessions'
  BY <1>1, <1>3, <1>4, TaskSaved
<1>6. TypeOK' /\ nextId' # 0
  BY <1>1, <1>2, <1>3, <1>4 DEF CInv, TypeOK, device, server
<1>7. SourceInv'
  BY <1>1 DEF CInv, SourceInv, device
<1>8. CallInv' /\ ReplyInv'
  <2>1. \A j \in todo' : task'[j] = task[j]
    BY <1>1, <1>2 DEF CInv, TypeOK
  <2>2. QED
    BY <1>1, <2>1, ThreadNotWaiting DEF CInv, CallInv
<1>9. QED
  BY <1>5, <1>6, <1>7, <1>8 DEF CInv, TasksAndSessions

(* The end of processTasks.                                                *)
LEMMA EndPassStep ==
  ASSUME CInv, EndPass
  PROVE  CInv'
<1>1. /\ pc' = "scan"
      /\ UNCHANGED <<device, spool, scan, todo, call, missing, stable, reply, server, late, lost, faults>>
  BY DEF EndPass
<1>2. TasksAndSessions'
  BY <1>1, TasksRest DEF spool
<1>3. TypeOK' /\ nextId' # 0
  BY <1>1 DEF CInv, TypeOK, device, spool, server
<1>4. SourceInv'
  BY <1>1 DEF CInv, SourceInv, device
<1>5. QED
  BY <1>1, <1>2, <1>3, <1>4, ThreadNotWaiting DEF CInv, TasksAndSessions

(* A result that the branch of processTask does not handle.                *)
LEMMA UnhandledSaveable ==
  ASSUME CInv, NEW i \in Ids, Active(task[i]), NEW code \in Codes \ BadCodes,
         NEW t, t = Unhandled(task[i], code)
  PROVE  t \in Tasks /\ Saveable(i, t)
<1>1. task[i] \in Tasks
  BY DEF CInv, TypeOK
<1>2. CASE Classify(code) = "Retryable"
  <2>1. /\ t \in Tasks /\ t.state = task[i].state /\ t.upload = task[i].upload /\ t.error = code
    BY <1>1, <1>2 DEF Unhandled, Scheduled, Tasks
  <2>2. QED
    BY <2>1, SameTaskSaveable
<1>3. CASE Classify(code) # "Retryable"
  <2>1. t = FailedWith(task[i], code)
    BY <1>3 DEF Unhandled
  <2>2. QED
    BY <2>1, FailSaveable
<1>4. QED
  BY <1>2, <1>3

(* A task whose session is lost starts again.                              *)
LEMMA RestartedSaveable ==
  ASSUME CInv, NEW i \in Ids, Active(task[i]), task[i].upload \in lost,
         NEW t, t = Restarted(task[i])
  PROVE  t \in Tasks /\ Saveable(i, t)
<1>1. task[i] \in Tasks
  BY DEF CInv, TypeOK
<1>2. t \in Tasks /\ t.state = "READY" /\ t.error = "UPLOAD_SESSION_LOST"
  BY <1>1 DEF Restarted, Tasks, Codes
<1>3. \A j \in Ids : task[j].state # "NONE" /\ j.mtime = i.mtime => j = i
  BY DEF CInv, OneTaskPerSignature, Active
<1>4. \A u \in Uploads : owner[u] = i /\ ~Untouched(u) => u \in lost
  BY NoneIsNoRecordOfCollector DEF CInv, ClaimInv
<1>5. QED
  BY <1>2, <1>3, <1>4 DEF Saveable, BadCodes

(* The chunks of a task that is still UPLOADING are sent one by one; then  *)
(* it moves to COMPLETING.                                                 *)
LEMMA SendChunkStep ==
  ASSUME CInv, pc = "wait", call.op \in {"progress", "chunk"},
         NEW rest \in SUBSET Chunks, SendChunk(rest),
         UNCHANGED <<device, stable, payload, scan, todo, server, late, lost, faults>>
  PROVE  CInv'
<1> USE NoneIsNoRecordOfCollector
<1> DEFINE i == call.id
<1>1. /\ i \in Ids /\ i \notin todo /\ task[i] \in Tasks /\ task[i].state = "UPLOADING"
      /\ payload[i] = i.sha /\ i.sha # None /\ Active(task[i])
  BY WaitingTask
<1>2. /\ task[i].upload \in Uploads /\ owner[task[i].upload] = i
  BY <1>1 DEF CInv, TaskInv
<1>3. LateRel /\ late' \subseteq Requests /\ faults' \in 0..MaxFaults
  BY NoLateRequest DEF CInv, TypeOK
<1>4. missing' = rest
  BY DEF SendChunk
<1>5. CASE rest = {}
  <2> DEFINE t == [task[i] EXCEPT !.state = "COMPLETING", !.backoff = FALSE, !.error = "none"]
  <2>1. SaveTask(i, t) /\ pc' = "process" /\ UNCHANGED <<call, reply>>
    BY <1>5 DEF SendChunk
  <2>2. t \in Tasks /\ t.state = "COMPLETING" /\ t.upload = task[i].upload /\ t.error = "none"
    BY <1>1 DEF Tasks, Codes
  <2> HIDE DEF t
  <2>3. \A j \in Ids : task[j].state # "NONE" /\ j.mtime = i.mtime => j = i
    BY <1>1 DEF CInv, OneTaskPerSignature, Active
  <2>4. \A u \in Uploads : owner[u] = i /\ ~Untouched(u) => u \in lost
    BY <1>1 DEF CInv, ClaimInv
  <2>5. Saveable(i, t)
    BY <1>2, <2>2, <2>3, <2>4 DEF Saveable, BadCodes
  <2>6. QED
    BY <1>3, <1>4, <2>1, <2>2, <2>5, BackStep
<1>6. CASE rest # {}
  <2>1. /\ call' = Request("chunk", i, task[i].upload, Min(rest), payload[i])
        /\ reply' = None /\ pc' = "wait" /\ UNCHANGED task
    BY <1>1, <1>6 DEF SendChunk, Send
  <2>2. Min(rest) \in Chunks
    BY <1>6, MinOfChunks, CollectorChunksAssumption
  <2>3. payload[i] \in Contents \cup {None}
    BY <1>1 DEF CInv, TypeOK
  <2>4. /\ call' \in Requests /\ call'.id = i /\ call'.op = "chunk"
        /\ call'.upload = task[i].upload /\ call'.chunk \in Chunks
        /\ call'.body = i.sha
    <3> HIDE DEF i
    <3>1. QED
      BY <1>1, <1>2, <2>1, <2>2, <2>3 DEF Request, Requests
  <2>5. TasksAndSessions'
    BY <2>1, TasksRest
  <2>6. TypeOK' /\ nextId' # 0
    BY <1>4, <2>1, <2>4 DEF CInv, TypeOK, device, server
  <2>7. SourceInv'
    BY <2>1 DEF CInv, SourceInv, device
  <2>8. CallInv'
    <3>1. owner' = owner /\ todo' = todo /\ \A j \in todo : Active(task[j])
      BY DEF CInv, CallInv, server
    <3>2. QED
      BY <1>1, <1>2, <2>1, <2>4, <3>1 DEF CallInv, Sound
  <2>9. ReplyInv'
    BY <2>1 DEF ReplyInv
  <2>10. QED
    BY <2>5, <2>6, <2>7, <2>8, <2>9 DEF CInv, TasksAndSessions
<1>7. QED
  BY <1>5, <1>6

(* processTask goes on with the answer to its call.                        *)
LEMMA ReceiveStep ==
  ASSUME CInv, Receive
  PROVE  CInv'
<1> USE NoneIsNoRecordOfCollector
<1> DEFINE i == call.id
           t == task[i]
<1>1. /\ pc = "wait" /\ reply # None
      /\ UNCHANGED <<device, stable, payload, scan, todo, server, late, lost, faults>>
  BY DEF Receive
<1>2. /\ call \in Requests /\ i \in Ids /\ Sound(call) /\ t \in Tasks /\ Active(t)
      /\ call.op = "create" => t.state = "READY"
      /\ call.op = "complete" => t.state = "COMPLETING"
      /\ call.op # "create" => call.upload = t.upload
  BY <1>1, WaitingTask
<1>3. /\ reply \in Answers /\ reply.code \in Codes \ BadCodes
      /\ reply.missing \in SUBSET Chunks /\ reply.archive \in Nat
  BY <1>1 DEF CInv, TypeOK, ReplyInv, Answers, BadCodes
<1>4. LateRel /\ late' \subseteq Requests /\ faults' \in 0..MaxFaults /\ missing \subseteq Chunks
  BY <1>1, NoLateRequest DEF CInv, TypeOK
<1>5. /\ Classify(reply.code) = "Success" => reply.code = "OK"
      /\ Classify(reply.code) = "SessionMissing" => reply.code = "UPLOAD_NOT_FOUND"
  BY <1>3 DEF Classify, Codes
<1>6. \A j \in Ids : task[j].state # "NONE" /\ j.mtime = i.mtime => j = i
  BY <1>2 DEF CInv, OneTaskPerSignature, Active
<1>7. ASSUME NEW n \in Tasks, Saveable(i, n), BackToPass(n)
      PROVE  CInv'
  BY <1>1, <1>4, <1>7, BackStep DEF BackToPass
<1>8. CASE BackToPass(Unhandled(t, reply.code))
  <2>1. Unhandled(t, reply.code) \in Tasks /\ Saveable(i, Unhandled(t, reply.code))
    BY <1>2, <1>3, UnhandledSaveable
  <2>2. QED
    BY <1>7, <1>8, <2>1
<1>9. CASE Classify(reply.code) = "SessionMissing" /\ BackToPass(Restarted(t))
  <2>1. t.upload \in lost
    BY <1>1, <1>2, <1>5, <1>9 DEF CInv, ReplyInv
  <2>2. Restarted(t) \in Tasks /\ Saveable(i, Restarted(t))
    BY <1>2, <2>1, RestartedSaveable
  <2>3. QED
    BY <1>7, <1>9, <2>2
<1>10. ASSUME call.op = "create", Classify(reply.code) = "Success",
              NEW n, n = [t EXCEPT !.state = "UPLOADING", !.upload = reply.upload,
                                   !.backoff = FALSE, !.error = "none"],
              BackToPass(n)
       PROVE  CInv'
  <2>1. reply.upload \in Uploads /\ owner[reply.upload] = i /\ Untouched(reply.upload)
    BY <1>1, <1>5, <1>10 DEF CInv, ReplyInv
  <2>2. n \in Tasks /\ n.state = "UPLOADING" /\ n.upload = reply.upload /\ n.error = "none"
    <3> HIDE DEF t, i
    <3>1. QED
      BY <1>2, <1>10, <2>1 DEF Tasks, Codes
  <2>3. \A u \in Uploads : owner[u] = i /\ ~Untouched(u) => u \in lost
    BY <1>2, <1>10 DEF CInv, ClaimInv
  <2>4. Saveable(i, n)
    BY <1>6, <2>1, <2>2, <2>3 DEF Saveable, BadCodes
  <2>5. QED
    BY <1>7, <1>10, <2>2, <2>4
<1>11. ASSUME call.op = "complete", Classify(reply.code) = "Success",
              NEW n, n = [t EXCEPT !.state = "DONE", !.archive = reply.archive,
                                   !.backoff = FALSE, !.error = "none"],
              SaveTask(i, n), pc' = "remove", UNCHANGED <<call, missing, reply>>
       PROVE  CInv'
  <2>1. reply.archive # 0 /\ row[call.upload] = reply.archive
    BY <1>1, <1>5, <1>11 DEF CInv, ReplyInv
  <2>2. call.upload \in Uploads /\ owner[call.upload] = i /\ t.upload = call.upload
    BY <1>2, <1>11 DEF Sound
  <2>3. /\ n \in Tasks /\ n.state = "DONE" /\ n.upload = t.upload /\ n.archive = reply.archive
        /\ n.error = "none"
    <3> HIDE DEF t, i
    <3>1. QED
      BY <1>2, <1>3, <1>11 DEF Tasks, Codes
  <2>4. \A u \in Uploads : owner[u] = i /\ ~Untouched(u) => u \in lost \/ n.upload = u
    BY <1>2, <2>3 DEF CInv, ClaimInv
  <2>5. Saveable(i, n)
    BY <1>6, <2>1, <2>2, <2>3, <2>4 DEF Saveable, BadCodes, Ended
  <2>6. QED
    BY <1>1, <1>4, <1>11, <2>3, <2>5, BackStep
<1>12. CASE call.op \in {"progress", "chunk"} /\ \E rest \in SUBSET Chunks : SendChunk(rest)
  BY <1>1, <1>12, SendChunkStep
<1>13. CASE call.op = "create"
  BY <1>8, <1>10, <1>13 DEF Receive
<1>14. CASE call.op = "progress"
  BY <1>3, <1>8, <1>9, <1>12, <1>14 DEF Receive
<1>15. CASE call.op = "chunk"
  <2>1. missing \ {call.chunk} \in SUBSET Chunks
    BY <1>4
  <2>2. QED
    BY <1>8, <1>12, <1>15, <2>1 DEF Receive
<1>16. CASE call.op = "complete"
  BY <1>8, <1>9, <1>11, <1>16 DEF Receive
<1>17. QED
  BY <1>2, <1>13, <1>14, <1>15, <1>16 DEF Requests

(* removePayload.                                                          *)
LEMMA RemovePayloadStep ==
  ASSUME CInv, RemovePayload
  PROVE  CInv'
<1>1. /\ pc = "remove" /\ payload' = [payload EXCEPT ![call.id] = None] /\ pc' = "process"
      /\ UNCHANGED <<device, stable, task, scan, todo, call, missing, reply, server, late, lost, faults>>
  BY DEF RemovePayload
<1>2. payload \in [Ids -> Contents \cup {None}] /\ task[call.id].state = "DONE"
  BY <1>1 DEF CInv, TypeOK, CallInv
<1>3. /\ payload' \in [Ids -> Contents \cup {None}]
      /\ \A i \in Ids : Active(task[i]) => payload'[i] = payload[i]
  BY <1>1, <1>2 DEF Active
<1>4. TasksAndSessions'
  BY <1>1, <1>3, TasksRest
<1>5. TypeOK' /\ nextId' # 0
  BY <1>1, <1>3 DEF CInv, TypeOK, device, server
<1>6. SourceInv'
  BY <1>1 DEF CInv, SourceInv, device
<1>7. CallInv' /\ ReplyInv'
  BY <1>1, ThreadNotWaiting DEF CInv, CallInv
<1>8. QED
  BY <1>4, <1>5, <1>6, <1>7 DEF CInv, TasksAndSessions

(* A request that is given up may touch the session of its own task only.  *)
LEMMA GivenUp ==
  ASSUME CInv, pc = "wait", GiveUp, UNCHANGED server,
         task'[call.id].state = task[call.id].state, task'[call.id].upload = task[call.id].upload
  PROVE  LateRel /\ late' \subseteq Requests
<1>1. /\ call \in Requests /\ call.id \in Ids /\ Sound(call)
      /\ call.op = "complete" => task[call.id].state = "COMPLETING" /\ call.upload = task[call.id].upload
  BY WaitingTask
<1>2. late' \subseteq late \cup {call} /\ late \subseteq late'
  BY DEF GiveUp
<1>3. late' \subseteq Requests
  BY <1>1, <1>2 DEF CInv, TypeOK
<1>4. \A r \in late' : Sound(r)'
  BY <1>1, <1>2 DEF CInv, Sound, server
<1>5. \A u \in Uploads : Untouched(u)' => Untouched(u)
  BY <1>2 DEF Untouched, server
<1>6. ASSUME NEW u \in Uploads, Untouched(u), ~Untouched(u)'
      PROVE  owner[u] = call.id /\ task'[call.id].upload = u /\ task'[call.id].state \in Ended
  <2>1. call.op = "complete" /\ call.upload = u
    BY <1>2, <1>6 DEF Untouched, server
  <2>2. QED
    BY <1>1, <2>1 DEF Sound, Ended
<1>7. QED
  BY <1>1, <1>3, <1>4, <1>5, <1>6 DEF LateRel

(* A request that times out.                                               *)
LEMMA TimeoutStep ==
  ASSUME CInv, Timeout
  PROVE  CInv'
<1> DEFINE i == call.id
           t == Scheduled(task[i], "UNAVAILABLE")
<1>1. /\ pc = "wait" /\ Fault /\ GiveUp /\ BackToPass(t)
      /\ UNCHANGED <<device, stable, payload, scan, todo, server, lost>>
  BY DEF Timeout
<1>2. i \in Ids /\ task[i] \in Tasks /\ Active(task[i])
  BY <1>1, WaitingTask
<1>3. t \in Tasks /\ t.state = task[i].state /\ t.upload = task[i].upload /\ t.error = "UNAVAILABLE"
  BY <1>2 DEF Scheduled, Tasks, Codes
<1> HIDE DEF t
<1>4. Saveable(i, t)
  BY <1>2, <1>3, SameTaskSaveable DEF Codes, BadCodes
<1>5. /\ SaveTask(i, t) /\ pc' = "process" /\ UNCHANGED <<call, missing, reply>>
  BY <1>1 DEF BackToPass
<1>6. task'[i] = t
  BY <1>2, <1>5 DEF SaveTask, CInv, TypeOK
<1>7. LateRel /\ late' \subseteq Requests
  BY <1>1, <1>3, <1>6, GivenUp
<1>8. faults' \in 0..MaxFaults /\ missing' \subseteq Chunks
  BY <1>1, <1>5, FaultBudget DEF CInv, TypeOK
<1>9. QED
  BY <1>1, <1>3, <1>4, <1>5, <1>7, <1>8, BackStep

(* The collector is killed.                                                *)
LEMMA CrashStep ==
  ASSUME CInv, Crash
  PROVE  CInv'
<1>1. /\ Fault /\ pc' = "start" /\ scan' = NoScan /\ todo' = {} /\ call' = None /\ missing' = {}
      /\ reply' = None /\ stable' = [mtime |-> 0, count |-> 0]
      /\ UNCHANGED <<device, spool, server, lost>>
      /\ IF pc = "wait" THEN GiveUp ELSE UNCHANGED late
  BY DEF Crash
<1>2. faults' \in 0..MaxFaults
  BY <1>1, FaultBudget
<1>3. TasksAndSessions' /\ late' \subseteq Requests
  <2>1. CASE pc = "wait"
    <3> DEFINE i == call.id
               t == task[i]
    <3>1. /\ i \in Ids /\ t \in Tasks /\ Active(t) /\ payload[i] = i.sha /\ i.sha # None
      BY <2>1, WaitingTask
    <3>2. t.error \in Codes \ BadCodes
      BY <3>1 DEF CInv, NoIntegrityFailure, BadCodes, Tasks
    <3>3. Saveable(i, t)
      BY <3>1, <3>2, SameTaskSaveable
    <3>4. LateRel /\ late' \subseteq Requests
      BY <1>1, <2>1, GivenUp DEF spool
    <3>5. task' = [task EXCEPT ![i] = t] /\ payload' = payload
      BY <1>1, <3>1 DEF spool, CInv, TypeOK
    <3> HIDE DEF i, t
    <3>6. TasksAndSessions'
      BY <1>1, <3>1, <3>3, <3>4, <3>5, TaskSaved
    <3>7. QED
      BY <3>4, <3>6
  <2>2. CASE pc # "wait"
    <3>1. late' = late
      BY <1>1, <2>2
    <3>2. TasksAndSessions'
      BY <1>1, <3>1, TasksRest DEF spool
    <3>3. QED
      BY <3>1, <3>2 DEF CInv, TypeOK
  <2>3. QED
    BY <2>1, <2>2
<1>4. TypeOK' /\ nextId' # 0
  <2>1. NoScan \in [mtime : 0..MaxWrites, size : Nat, sha : Contents \cup {None}]
    BY BoundsAssumption DEF NoScan
  <2>2. [mtime |-> 0, count |-> 0] \in [mtime : 0..MaxWrites, count : 0..StableScans]
    BY BoundsAssumption
  <2>3. QED
    BY <1>1, <1>2, <1>3, <2>1, <2>2 DEF CInv, TypeOK, device, spool, server
<1>5. SourceInv'
  BY <1>1 DEF CInv, SourceInv, device
<1>6. QED
  BY <1>1, <1>3, <1>4, <1>5, ThreadNotWaiting DEF CInv, TasksAndSessions

(* The collector restarts from its spool.                                  *)
LEMMA InitializeStep ==
  ASSUME CInv, Initialize
  PROVE  CInv'
<1>1. /\ payload' = [i \in Ids |-> IF task[i].state = "DONE" THEN None ELSE payload[i]]
      /\ pc' = "scan"
      /\ UNCHANGED <<device, task, scan, todo, call, missing, stable, reply, server, late, lost, faults>>
  BY DEF Initialize
<1>2. /\ payload' \in [Ids -> Contents \cup {None}]
      /\ \A i \in Ids : Active(task[i]) => payload'[i] = payload[i]
  BY <1>1 DEF CInv, TypeOK, Active
<1>3. TasksAndSessions'
  BY <1>1, <1>2, TasksRest
<1>4. TypeOK' /\ nextId' # 0
  BY <1>1, <1>2 DEF CInv, TypeOK, device, server
<1>5. SourceInv'
  BY <1>1 DEF CInv, SourceInv, device
<1>6. QED
  BY <1>1, <1>3, <1>4, <1>5, ThreadNotWaiting DEF CInv, TasksAndSessions

(* A step in which nothing happens.                                        *)
LEMMA StutterStep ==
  ASSUME CInv, UNCHANGED vars
  PROVE  CInv'
<1>1. TasksAndSessions'
  BY TasksRest DEF vars, server
<1>2. TypeOK' /\ nextId' # 0
  BY DEF CInv, TypeOK, vars
<1>3. SourceInv'
  BY DEF CInv, SourceInv, SameSignature, vars
<1>4. CallInv' /\ ReplyInv'
  BY ThreadWaitsOn DEF vars, server
<1>5. QED
  BY <1>1, <1>2, <1>3, <1>4 DEF CInv, TasksAndSessions

-----------------------------------------------------------------------------
(* The theorems.                                                           *)

(* Nothing has been written, discovered or created.                        *)
LEMMA InitEstablishes == Init => CInv
<1> SUFFICES ASSUME Init PROVE CInv
  OBVIOUS
<1> USE NoneIsNoRecordOfCollector, BoundsAssumption
<1>1. NoTask \in Tasks /\ NoTask.state = "NONE" /\ NoTask.error = "none"
  BY DEF NoTask, Tasks, Codes
<1>2. /\ NoSession \in Sessions /\ NoSession.state = "NONE"
      /\ \A c \in Chunks : NoSession.got[c] = None
  BY DEF NoSession, Sessions
<1>3. TypeOK /\ nextId # 0
  BY <1>1, <1>2 DEF Init, TypeOK, NoScan
<1>4. SourceInv /\ CallInv /\ ReplyInv /\ \A r \in late : Sound(r)
  BY DEF Init, SourceInv, CallInv, ReplyInv
<1>5. TaskInv /\ PayloadIntact /\ DoneIsArchived /\ NoIntegrityFailure /\ OneTaskPerSignature
  BY <1>1 DEF Init, TaskInv, PayloadIntact, DoneIsArchived, NoIntegrityFailure, OneTaskPerSignature, Active
<1>6. SessionInv /\ ClaimInv
  BY <1>2 DEF Init, SessionInv, ClaimInv
<1>7. QED
  BY <1>3, <1>4, <1>5, <1>6 DEF CInv

(* Every step of the device, the collector, the server and the             *)
(* environment keeps the invariant.                                        *)
LEMMA NextKeeps == CInv /\ [Next]_vars => CInv'
<1> SUFFICES ASSUME CInv, [Next]_vars PROVE CInv'
  OBVIOUS
<1>1. CASE Device
  BY <1>1, DeviceWriteStep, DeviceSidecarStep DEF Device
<1>2. CASE ScanInputs
  BY <1>2, ScanStatStep, ScanHashStep, ScanCopyStep, ScanCheckStep DEF ScanInputs
<1>3. CASE ProcessTasks
  BY <1>3, SkipTaskStep, StartTaskStep, DropTaskStep, EndPassStep, ReceiveStep, RemovePayloadStep,
     TimeoutStep DEF ProcessTasks
<1>4. CASE Initialize \/ Crash
  BY <1>4, InitializeStep, CrashStep
<1>5. CASE Server
  BY <1>5, ServeCallStep, ServeLateStep DEF Server
<1>6. CASE \E u \in Uploads : LoseSession(u)
  BY <1>6, LoseSessionStep
<1>7. CASE UNCHANGED vars
  BY <1>7, StutterStep
<1>8. QED
  BY <1>1, <1>2, <1>3, <1>4, <1>5, <1>6, <1>7 DEF Next

(* The inductive invariant holds in every reachable state.                 *)
THEOREM CollectorInvariant == Spec => []CInv
<1>1. QED
  BY InitEstablishes, NextKeeps, PTL DEF Spec

(* Every variable of the collector model keeps its type.                   *)
THEOREM CollectorTypeCorrect == Spec => []TypeOK
<1>1. CInv => TypeOK
  BY DEF CInv
<1>2. QED
  BY <1>1, CollectorInvariant, PTL

(* The spool keeps the hashed bytes of every unfinished task, whatever the *)
(* device writes and wherever the collector is killed.                     *)
THEOREM SpoolKeepsPayload == Spec => []PayloadIntact
<1>1. CInv => PayloadIntact
  BY DEF CInv
<1>2. QED
  BY <1>1, CollectorInvariant, PTL

(* DONE is never reported for a file the server has not archived.          *)
THEOREM DoneTasksAreArchived == Spec => []DoneIsArchived
<1>1. CInv => DoneIsArchived
  BY DEF CInv
<1>2. QED
  BY <1>1, CollectorInvariant, PTL

(* No task fails because its bytes differ, conflict or are gone, although  *)
(* requests are repeated, delayed and executed twice.                      *)
THEOREM UploadsNeverConflict == Spec => []NoIntegrityFailure
<1>1. CInv => NoIntegrityFailure
  BY DEF CInv
<1>2. QED
  BY <1>1, CollectorInvariant, PTL

(* A sealed file becomes one task.                                         *)
THEOREM SealedFileIsOneTask == Spec => []OneTaskPerSignature
<1>1. CInv => OneTaskPerSignature
  BY DEF CInv
<1>2. QED
  BY <1>1, CollectorInvariant, PTL

(* A second archive of a task takes the loss of one of its sessions.       *)
THEOREM SecondArchiveTakesLoss == Spec => []ArchivedOncePerSession
<1>1. CInv => ArchivedOncePerSession
  <2> SUFFICES ASSUME CInv, NEW u \in Uploads, NEW v \in Uploads,
                      u # v, row[u] # 0, row[v] # 0, owner[u] = owner[v],
                      u \notin lost, v \notin lost
               PROVE  FALSE
    BY DEF ArchivedOncePerSession
  <2>1. owner[u] # None
    BY DEF CInv, SessionInv
  <2>2. task[owner[u]].upload = u /\ task[owner[u]].upload = v
    BY <2>1 DEF CInv, ClaimInv, Untouched
  <2>3. QED
    BY <2>2
<1>2. QED
  BY <1>1, CollectorInvariant, PTL

-----------------------------------------------------------------------------
(* Sealed versions.                                                        *)

LEMMA SealTypes ==
  ASSUME CInv
  PROVE  /\ source.mtime \in Nat /\ scan.mtime \in Nat /\ task \in [Ids -> Tasks]
         /\ history \in [1..MaxWrites -> Contents \cup {None}]
         /\ \A i \in Ids : i.mtime \in Nat
  BY BoundsAssumption DEF CInv, TypeOK, Ids

(* The device rests, no task appears or is taken up again, and no scan is  *)
(* under way afterwards.                                                   *)
LEMMA SealFrame ==
  ASSUME SealInv, UNCHANGED device, pc' \notin {"hash", "copy", "check"},
         \A i \in Ids : task'[i].state # "NONE" => task[i].state # "NONE",
         \A i \in Ids : Active(task'[i]) => Active(task[i]),
         \A i \in Ids : Stale(i) => StaleTask(i)'
  PROVE  SealInv'
<1>1. source' = source /\ history' = history /\ sidecar' = sidecar
  BY DEF device
<1>2. \A i \in Ids : Stale(i)' => Stale(i)
  BY <1>1 DEF Stale
<1>3. \A i \in Ids : task'[i].state # "NONE" => i.mtime <= source.mtime
  BY DEF SealInv
<1>4. \A i \in Ids : Active(task'[i]) =>
        sidecar # "absent" /\ \A j \in Ids : task'[j].state # "NONE" => j.mtime <= i.mtime
  BY DEF SealInv
<1>5. source.mtime > 0 => source.content = history[source.mtime]
  BY DEF SealInv
<1> QED BY <1>1, <1>2, <1>3, <1>4, <1>5 DEF SealInv

(* The device rests and no task is unfinished afterwards. *)
LEMMA SealIdle ==
  ASSUME SealInv, UNCHANGED device, pc' \notin {"hash", "copy", "check"},
         \A i \in Ids : task'[i].state # "NONE" => i.mtime <= source.mtime,
         \A i \in Ids : ~Active(task'[i]),
         \A i \in Ids : Stale(i) => task'[i].state # "DONE"
  PROVE  SealInv'
<1>1. source' = source /\ history' = history /\ sidecar' = sidecar
  BY DEF device
<1>2. \A i \in Ids : Stale(i)' => StaleTask(i)'
  BY <1>1 DEF Stale, StaleTask, Active
<1>3. source.mtime > 0 => source.content = history[source.mtime]
  BY DEF SealInv
<1> QED BY <1>1, <1>2, <1>3 DEF SealInv

(* Nothing the seal depends on changes. *)
LEMMA SealSame ==
  ASSUME SealInv, UNCHANGED <<device, task, pc, scan, todo, call>>
  PROVE  SealInv'
<1>1. source' = source /\ history' = history /\ sidecar' = sidecar
  BY DEF device
<1>2. \A i \in Ids : (Stale(i)' <=> Stale(i)) /\ (StaleTask(i)' <=> StaleTask(i))
  BY <1>1 DEF Stale, StaleTask
<1> QED BY <1>1, <1>2 DEF SealInv

(* The device writes. *)
LEMMA DeviceSeal ==
  ASSUME CInv, SealInv, Device
  PROVE  SealInv'
<1>1. ASSUME NEW x \in Contents, DeviceWrite(x) PROVE SealInv'
  <2>1. /\ source'.mtime = source.mtime + 1 /\ source'.content = x
        /\ history' = [history EXCEPT ![source.mtime + 1] = x] /\ source.mtime < MaxWrites
        /\ UNCHANGED <<sidecar, task, pc, scan, todo, call>>
    BY <1>1 DEF DeviceWrite, spool, agent
  <2>2. /\ history'[source.mtime + 1] = x
        /\ \A m \in 1..MaxWrites : m <= source.mtime => history'[m] = history[m]
    BY <2>1, SealTypes, BoundsAssumption
  <2>3. \A i \in Ids : i.mtime \in 1..MaxWrites
    BY DEF Ids
  <2>4. ASSUME NEW i \in Ids, Stale(i)' PROVE StaleTask(i)'
    <3>1. CASE task[i].state = "NONE"
      BY <2>1, <3>1 DEF StaleTask, Active
    <3>2. CASE task[i].state # "NONE"
      <4>1. i.mtime <= source.mtime
        BY <3>2 DEF SealInv
      <4>2. Stale(i)
        BY <2>2, <2>3, <2>4, <4>1 DEF Stale
      <4>3. StaleTask(i)
        BY <4>2 DEF SealInv
      <4>4. i.mtime < source'.mtime
        BY <2>1, <4>1, SealTypes
      <4> QED BY <2>1, <4>3, <4>4 DEF StaleTask
    <3> QED BY <3>1, <3>2
  <2>5. source'.mtime > 0 => source'.content = history'[source'.mtime]
    BY <2>1, <2>2
  <2>6. \A i \in Ids : task'[i].state # "NONE" => i.mtime <= source'.mtime
    BY <2>1, SealTypes DEF SealInv
  <2>7. pc \in {"hash", "copy", "check"} => scan.mtime <= source'.mtime
    BY <2>1, SealTypes DEF SealInv
  <2>8. pc \in {"copy", "check"} => scan.sha = history'[scan.mtime] \/ scan.mtime < source'.mtime
    BY <2>1, <2>7, SealTypes DEF SealInv
  <2> QED BY <2>1, <2>4, <2>5, <2>6, <2>7, <2>8 DEF SealInv
<1>2. CASE DeviceSidecar
  <2>1. UNCHANGED <<source, history, task, pc, scan, todo, call>> /\ sidecar' # "absent"
    BY <1>2 DEF DeviceSidecar, spool, agent
  <2>2. \A i \in Ids : (Stale(i)' <=> Stale(i)) /\ (StaleTask(i)' <=> StaleTask(i))
    BY <2>1 DEF Stale, StaleTask
  <2> QED BY <2>1, <2>2 DEF SealInv
<1> QED BY <1>1, <1>2 DEF Device

(* A scan fails the unfinished task of a version that has been replaced.   *)
LEMMA ScanStatSeal ==
  ASSUME StableScans = 1, CInv, SealInv, ScanStat
  PROVE  SealInv'
<1> DEFINE m == source.mtime
           n == IF stable.mtime = m THEN Min({stable.count + 1, StableScans}) ELSE 1
           sealed == m > 0 /\ n >= StableScans /\ sidecar # "absent"
           unhashed == [mtime |-> m, sha |-> None]
<1>1. pc = "scan" /\ UNCHANGED <<device, call>>
  BY DEF ScanStat
<1>2. n >= StableScans
  <2>1. stable.count \in Nat
    BY DEF CInv, TypeOK
  <2>2. Min({stable.count + 1, StableScans}) \in {stable.count + 1, StableScans}
    BY <2>1, MinOfTwo, BoundsAssumption
  <2> QED BY <2>1, <2>2
<1> HIDE DEF n
<1>3. m \in Nat /\ \A i \in Ids : i.mtime \in Nat
  BY SealTypes
<1>4. ASSUME NEW i \in Ids, Active(task[i]), Stale(i)
      PROVE  /\ sealed /\ SameSignature(m) = {} /\ i \in ChangedTasks(m)
             /\ \A j \in Ids : Active(task[j]) => j = i
  <2>1. i.mtime < m /\ sidecar # "absent" /\ \A j \in Ids : task[j].state # "NONE" => j.mtime <= i.mtime
    BY <1>4 DEF SealInv, StaleTask
  <2>2. sealed /\ SameSignature(m) = {} /\ i \in ChangedTasks(m)
    BY <1>2, <1>3, <1>4, <2>1 DEF SameSignature, ChangedTasks
  <2>3. ASSUME NEW j \in Ids, Active(task[j]) PROVE j = i
    <3>1. task[i].state # "NONE" /\ task[j].state # "NONE"
      BY <1>4, <2>3 DEF Active
    <3>2. i.mtime <= j.mtime /\ j.mtime <= i.mtime
      BY <2>1, <2>3, <3>1 DEF SealInv
    <3>3. i.mtime = j.mtime
      BY <1>3, <3>2
    <3> QED BY <3>1, <3>3 DEF CInv, OneTaskPerSignature
  <2> QED BY <2>2, <2>3
<1>5. \A i \in Ids : Stale(i) => task[i].state \notin {"COMPLETING", "DONE"}
  BY DEF SealInv, StaleTask
<1>6. CASE /\ ~sealed \/ SameSignature(m) # {}
           /\ UNCHANGED task /\ BeginPass(task')
  <2>1. \A i \in Ids : Stale(i) => StaleTask(i)'
    BY <1>4, <1>5, <1>6 DEF StaleTask
  <2> QED BY <1>1, <1>6, <2>1, SealFrame DEF BeginPass
<1>7. ASSUME NEW k \in ChangedTasks(m), BeginPass(task'),
             SaveTask(k, FailedWith(task[k], "SOURCE_CHANGED_AFTER_SEAL"))
      PROVE  SealInv'
  <2>1. k \in Ids /\ Active(task[k]) /\ task \in [Ids -> Tasks]
    BY <1>7, SealTypes DEF ChangedTasks
  <2>2. task'[k].state = "FAILED" /\ \A j \in Ids : j # k => task'[j] = task[j]
    BY <1>7, <2>1 DEF SaveTask, FailedWith, Tasks
  <2>3. ASSUME NEW i \in Ids, Stale(i) PROVE StaleTask(i)'
    <3>1. ~Active(task'[i])
      BY <1>4, <2>1, <2>2, <2>3 DEF Active
    <3> QED BY <1>5, <2>2, <2>3, <3>1 DEF StaleTask
  <2>4. \A i \in Ids : task'[i].state # "NONE" => task[i].state # "NONE"
    BY <2>1, <2>2 DEF Active
  <2>5. \A i \in Ids : Active(task'[i]) => Active(task[i])
    BY <2>1, <2>2
  <2> QED BY <1>1, <1>7, <2>3, <2>4, <2>5, SealFrame DEF BeginPass
<1>8. ASSUME sealed, SameSignature(m) = {}, ChangedTasks(m) = {} PROVE \A i \in Ids : ~Active(task[i])
  BY <1>8 DEF SameSignature, ChangedTasks, Active
<1>9. ASSUME sealed, SameSignature(m) = {}, ChangedTasks(m) = {},
             NEW e, SaveTask(unhashed, FailedTask(e)), BeginPass(task')
      PROVE  SealInv'
  <2>1. unhashed \in Ids /\ unhashed.mtime = m
    BY <1>9 DEF Ids, CInv, TypeOK
  <2>2. task'[unhashed].state = "FAILED" /\ \A j \in Ids : j # unhashed => task'[j] = task[j]
    BY <1>9, <2>1, SealTypes DEF SaveTask, FailedTask, NoTask
  <2>3. \A i \in Ids : ~Active(task[i])
    BY <1>8, <1>9
  <2> HIDE DEF unhashed
  <2>4. \A i \in Ids : ~Active(task'[i])
    BY <2>2, <2>3 DEF Active
  <2>5. \A i \in Ids : task'[i].state # "NONE" => i.mtime <= m
    BY <1>3, <2>1, <2>2 DEF SealInv
  <2>6. \A i \in Ids : Stale(i) => task'[i].state # "DONE"
    BY <1>5, <2>2
  <2> QED BY <1>1, <1>9, <2>4, <2>5, <2>6, SealIdle DEF BeginPass
<1>10. ASSUME sealed, SameSignature(m) = {}, ChangedTasks(m) = {},
              scan' = [mtime |-> m, size |-> Size[source.content], sha |-> None],
              pc' = "hash", UNCHANGED <<task, todo>>
       PROVE  SealInv'
  <2>1. source' = source /\ history' = history /\ sidecar' = sidecar
    BY <1>1 DEF device
  <2>2. \A i \in Ids : ~Active(task[i])
    BY <1>8, <1>10
  <2>3. \A i \in Ids : Stale(i)' => StaleTask(i)'
    BY <1>5, <1>10, <2>1, <2>2 DEF Stale, StaleTask
  <2>4. scan'.mtime = m /\ m <= m
    BY <1>3, <1>10
  <2> QED BY <1>10, <2>1, <2>2, <2>3, <2>4 DEF SealInv
<1> QED BY <1>6, <1>7, <1>9, <1>10 DEF ScanStat, n

(* What the scan under way knows of the tasks. *)
LEMMA ScanUnderWay ==
  ASSUME CInv, SealInv, pc \in {"hash", "copy", "check"}
  PROVE  /\ sidecar # "absent" /\ scan.mtime <= source.mtime
         /\ \A j \in Ids : ~Active(task[j]) /\ (task[j].state # "NONE" => j.mtime <= scan.mtime)
         /\ \A j \in Ids : Stale(j) => task[j].state \notin {"COMPLETING", "DONE"}
         /\ \A j \in Ids : task[j].state # "NONE" => j.mtime <= source.mtime
  BY DEF SealInv, StaleTask

(* The content that is hashed is the version that was looked at, unless    *)
(* the device has written again.                                           *)
LEMMA ScanHashSeal ==
  ASSUME CInv, SealInv, ScanHash
  PROVE  SealInv'
<1>1. pc = "hash" /\ UNCHANGED <<device, task, call>>
  BY DEF ScanHash, spool
<1>2. /\ sidecar # "absent" /\ scan.mtime <= source.mtime
      /\ \A j \in Ids : ~Active(task[j]) /\ (task[j].state # "NONE" => j.mtime <= scan.mtime)
      /\ \A j \in Ids : Stale(j) => task[j].state \notin {"COMPLETING", "DONE"}
      /\ \A j \in Ids : task[j].state # "NONE" => j.mtime <= source.mtime
  BY <1>1, ScanUnderWay
<1>3. CASE BeginPass(task)
  BY <1>1, <1>2, <1>3, SealIdle DEF BeginPass
<1>4. CASE scan' = [scan EXCEPT !.sha = source.content] /\ pc' = "copy"
  <2>1. source' = source /\ history' = history /\ sidecar' = sidecar
    BY <1>1 DEF device
  <2>2. scan'.mtime = scan.mtime /\ scan'.sha = source.content
    BY <1>4 DEF CInv, TypeOK
  <2>3. source.mtime > 0 /\ source.content = history[source.mtime]
    BY <1>1 DEF SealInv, CInv, SourceInv
  <2>4. scan'.sha = history[scan.mtime] \/ scan.mtime < source.mtime
    BY <1>2, <2>2, <2>3, SealTypes
  <2>5. \A i \in Ids : Stale(i)' => StaleTask(i)'
    BY <1>1, <1>2, <2>1 DEF Stale, StaleTask
  <2> QED BY <1>1, <1>2, <1>4, <2>1, <2>2, <2>3, <2>4, <2>5 DEF SealInv
<1> QED BY <1>3, <1>4 DEF ScanHash

(* A scan that fails leaves a failed task. *)
LEMMA ScanFailsSeal ==
  ASSUME CInv, SealInv, pc \in {"copy", "check"}, UNCHANGED device, BeginPass(task'),
         NEW e, SaveTask(ScanId, FailedTask(e))
  PROVE  SealInv'
<1>1. /\ scan.mtime <= source.mtime
      /\ \A j \in Ids : ~Active(task[j]) /\ (task[j].state # "NONE" => j.mtime <= scan.mtime)
      /\ \A j \in Ids : Stale(j) => task[j].state \notin {"COMPLETING", "DONE"}
      /\ \A j \in Ids : task[j].state # "NONE" => j.mtime <= source.mtime
  BY ScanUnderWay
<1>2. ScanId \in Ids /\ ScanId.mtime = scan.mtime
  BY ScanIdIsNew DEF ScanId
<1>3. task'[ScanId].state = "FAILED" /\ \A j \in Ids : j # ScanId => task'[j] = task[j]
  BY <1>2, SealTypes DEF SaveTask, FailedTask, NoTask
<1>4. \A i \in Ids : ~Active(task'[i])
  BY <1>1, <1>3 DEF Active
<1>5. \A i \in Ids : task'[i].state # "NONE" => i.mtime <= source.mtime
  BY <1>1, <1>2, <1>3
<1>6. \A i \in Ids : Stale(i) => task'[i].state # "DONE"
  BY <1>1, <1>3
<1> QED BY <1>4, <1>5, <1>6, SealIdle DEF BeginPass

LEMMA ScanCopySeal ==
  ASSUME CInv, SealInv, ScanCopy
  PROVE  SealInv'
<1>1. pc = "copy" /\ UNCHANGED <<device, call>>
  BY DEF ScanCopy
<1>2. CASE pc' = "check" /\ UNCHANGED <<task, scan, todo>>
  <2>1. source' = source /\ history' = history /\ sidecar' = sidecar
    BY <1>1 DEF device
  <2>2. \A i \in Ids : Stale(i)' => StaleTask(i)'
    BY <1>1, <1>2, <2>1, ScanUnderWay DEF Stale, StaleTask
  <2> QED BY <1>1, <1>2, <2>1, <2>2 DEF SealInv
<1>3. CASE SaveTask(ScanId, FailedTask("SNAPSHOT_FAILED")) /\ BeginPass(task')
  BY <1>1, <1>3, ScanFailsSeal
<1> QED BY <1>2, <1>3 DEF ScanCopy

(* The accepted task is the only unfinished one and the youngest. *)
LEMMA ScanCheckSeal ==
  ASSUME CInv, SealInv, ScanCheck
  PROVE  SealInv'
<1>1. pc = "check" /\ BeginPass(task') /\ UNCHANGED <<device, call>>
  BY DEF ScanCheck
<1>2. CASE SaveTask(ScanId, ReadyTask)
  <2>1. /\ sidecar # "absent" /\ scan.mtime <= source.mtime
        /\ \A j \in Ids : ~Active(task[j]) /\ (task[j].state # "NONE" => j.mtime <= scan.mtime)
        /\ \A j \in Ids : Stale(j) => task[j].state \notin {"COMPLETING", "DONE"}
        /\ \A j \in Ids : task[j].state # "NONE" => j.mtime <= source.mtime
    BY <1>1, ScanUnderWay
  <2>2. ScanId \in Ids /\ ScanId.mtime = scan.mtime /\ ScanId.sha = scan.sha
    BY <1>1, ScanIdIsNew DEF ScanId
  <2>3. task'[ScanId].state = "READY" /\ \A j \in Ids : j # ScanId => task'[j] = task[j]
    BY <1>2, <2>2, SealTypes DEF SaveTask, ReadyTask, NoTask
  <2>4. source' = source /\ history' = history /\ sidecar' = sidecar /\ pc' = "process"
    BY <1>1 DEF device, BeginPass
  <2>5. \A i \in Ids : Active(task'[i]) => i = ScanId
    BY <2>1, <2>3
  <2>6. \A j \in Ids : task'[j].state # "NONE" => j.mtime <= scan.mtime /\ j.mtime <= source.mtime
    BY <2>1, <2>2, <2>3, SealTypes
  <2>7. ASSUME NEW i \in Ids, Stale(i)' PROVE StaleTask(i)'
    <3>1. CASE i = ScanId
      <4>1. Stale(i) /\ i.mtime = scan.mtime /\ i.sha = scan.sha
        BY <2>2, <2>4, <2>7, <3>1 DEF Stale
      <4>2. i.mtime < source.mtime
        BY <1>1, <4>1 DEF SealInv, Stale
      <4> QED BY <2>3, <2>4, <3>1, <4>2 DEF StaleTask
    <3>2. CASE i # ScanId
      BY <2>1, <2>3, <2>4, <2>5, <2>7, <3>2 DEF Stale, StaleTask
    <3> QED BY <3>1, <3>2
  <2>8. source.mtime > 0 => source.content = history[source.mtime]
    BY DEF SealInv
  <2> QED BY <2>1, <2>2, <2>4, <2>5, <2>6, <2>7, <2>8 DEF SealInv
<1>3. CASE SaveTask(ScanId, FailedTask("SNAPSHOT_FAILED"))
  BY <1>1, <1>3, ScanFailsSeal
<1> QED BY <1>2, <1>3 DEF ScanCheck

(* The thread goes on with the task it waits for. *)
LEMMA CallSeal ==
  ASSUME CInv, SealInv, pc = "wait", UNCHANGED <<device, todo>>,
         NEW t, task' = [task EXCEPT ![call.id] = t], pc' \in {"process", "wait", "remove"},
         pc' = "wait" => call'.id = call.id,
         Stale(call.id) => pc' # "wait" /\ t.state \notin {"COMPLETING", "DONE"}
  PROVE  SealInv'
<1>1. call.id \in Ids /\ Active(task[call.id]) /\ call.id \notin todo
  BY WaitingTask
<1>2. task'[call.id] = t /\ \A j \in Ids : j # call.id => task'[j] = task[j]
  BY <1>1, SealTypes
<1>3. source' = source
  BY DEF device
<1>4. ASSUME NEW i \in Ids, Stale(i) PROVE StaleTask(i)'
  <2>1. StaleTask(i)
    BY <1>4 DEF SealInv
  <2>2. CASE i = call.id
    BY <1>1, <1>2, <1>3, <1>4, <2>1, <2>2 DEF StaleTask
  <2>3. CASE i # call.id
    BY <1>1, <1>2, <1>3, <2>1, <2>3 DEF StaleTask
  <2> QED BY <2>2, <2>3
<1>5. \A i \in Ids : task'[i].state # "NONE" => task[i].state # "NONE"
  BY <1>1, <1>2 DEF Active
<1>6. \A i \in Ids : Active(task'[i]) => Active(task[i])
  BY <1>1, <1>2
<1> QED BY <1>4, <1>5, <1>6, SealFrame

LEMMA UnhandledState ==
  ASSUME NEW t \in Tasks, NEW code
  PROVE  Unhandled(t, code).state \in {t.state, "FAILED"}
  BY DEF Unhandled, Scheduled, FailedWith, Tasks

LEMMA ReceiveSeal ==
  ASSUME CInv, SealInv, Receive
  PROVE  SealInv'
<1>1. pc = "wait" /\ UNCHANGED <<device, todo>>
  BY DEF Receive
<1>2. /\ call \in Requests /\ call.id \in Ids /\ Active(task[call.id]) /\ task[call.id] \in Tasks
      /\ call.op = "create" => task[call.id].state = "READY"
  BY <1>1, WaitingTask
<1>3. Stale(call.id) => call.op = "create"
  BY <1>1, <1>2 DEF SealInv, StaleTask
<1>4. CASE call.op = "create"
  <2>1. PICK t : /\ task' = [task EXCEPT ![call.id] = t] /\ pc' = "process"
                 /\ t = IF Classify(reply.code) = "Success"
                        THEN [task[call.id] EXCEPT !.state = "UPLOADING", !.upload = reply.upload,
                                                   !.backoff = FALSE, !.error = "none"]
                        ELSE Unhandled(task[call.id], reply.code)
    BY <1>4 DEF Receive, BackToPass, SaveTask
  <2>2. t.state \in {"UPLOADING", "READY", "FAILED"}
    BY <1>2, <1>4, <2>1, UnhandledState DEF Tasks
  <2> QED BY <1>1, <2>1, <2>2, CallSeal
<1>5. CASE call.op # "create"
  <2>1. task[call.id] = task[call.id] /\ task = [task EXCEPT ![call.id] = task[call.id]]
    BY <1>2, SealTypes
  <2>2. ASSUME NEW rest, SendChunk(rest)
        PROVE  /\ \E t : task' = [task EXCEPT ![call.id] = t]
               /\ pc' \in {"process", "wait"} /\ (pc' = "wait" => call'.id = call.id)
    BY <2>1, <2>2 DEF SendChunk, SaveTask, Send, Request
  <2>3. ASSUME NEW t, BackToPass(t)
        PROVE  /\ \E n : task' = [task EXCEPT ![call.id] = n]
               /\ pc' = "process"
    BY <2>3 DEF BackToPass, SaveTask
  <2>4. /\ \E t : task' = [task EXCEPT ![call.id] = t]
        /\ pc' \in {"process", "wait", "remove"} /\ (pc' = "wait" => call'.id = call.id)
    <3>1. CASE call.op = "progress"
      BY <2>2, <2>3, <3>1 DEF Receive
    <3>2. CASE call.op = "chunk"
      BY <2>2, <2>3, <3>2 DEF Receive
    <3>3. CASE call.op = "complete"
      BY <2>3, <3>3 DEF Receive, SaveTask
    <3> QED BY <1>2, <1>5, <3>1, <3>2, <3>3 DEF Requests
  <2> QED BY <1>1, <1>3, <1>5, <2>4, CallSeal
<1> QED BY <1>4, <1>5

LEMMA ProcessSeal ==
  ASSUME CInv, SealInv, ProcessTasks
  PROVE  SealInv'
<1>1. ASSUME NEW i \in Ids, SkipTask(i) PROVE SealInv'
  <2>1. UNCHANGED <<device, task, pc, call>> /\ pc = "process" /\ todo' \subseteq todo /\ source' = source
    BY <1>1 DEF SkipTask, spool, device
  <2>2. \A j \in Ids : Stale(j) => StaleTask(j)'
    BY <2>1 DEF SealInv, StaleTask
  <2> QED BY <2>1, <2>2, SealFrame
<1>2. ASSUME NEW i \in Ids, StartTask(i) PROVE SealInv'
  <2>1. /\ UNCHANGED <<device, task>> /\ source' = source /\ pc = "process" /\ i \in todo
        /\ todo' = todo \ {i} /\ pc' = "wait"
    BY <1>2 DEF StartTask, spool, device, Send
  <2>2. call'.id = i /\ (task[i].state = "READY" => call'.op = "create")
    BY <1>2 DEF StartTask, Send, Request
  <2>3. \A j \in Ids : Stale(j) => StaleTask(j)'
    BY <2>1, <2>2 DEF SealInv, StaleTask
  <2> QED BY <2>1, <2>3, SealFrame
<1>3. ASSUME NEW i \in Ids, DropTask(i) PROVE SealInv'
  <2>1. /\ UNCHANGED <<device, pc, call>> /\ source' = source /\ pc = "process" /\ i \in todo
        /\ todo' = todo \ {i} /\ SaveTask(i, FailedWith(task[i], "DEVICE_CONFIG_MISSING"))
    BY <1>3 DEF DropTask, device
  <2>2. task'[i].state = "FAILED" /\ \A j \in Ids : j # i => task'[j] = task[j]
    BY <2>1, SealTypes DEF SaveTask, FailedWith, Tasks
  <2>3. Active(task[i])
    BY <2>1 DEF CInv, CallInv
  <2>4. \A j \in Ids : Stale(j) => StaleTask(j)'
    BY <2>1, <2>2 DEF SealInv, StaleTask, Active
  <2>5. \A j \in Ids : task'[j].state # "NONE" => task[j].state # "NONE"
    BY <2>2, <2>3 DEF Active
  <2>6. \A j \in Ids : Active(task'[j]) => Active(task[j])
    BY <2>2, <2>3
  <2> QED BY <2>1, <2>4, <2>5, <2>6, SealFrame
<1>4. CASE EndPass
  <2>1. UNCHANGED <<device, task>> /\ source' = source /\ pc' = "scan"
    BY <1>4 DEF EndPass, spool, device
  <2>2. \A j \in Ids : Stale(j) => StaleTask(j)'
    BY <2>1 DEF SealInv, StaleTask
  <2> QED BY <2>1, <2>2, SealFrame
<1>5. CASE RemovePayload
  <2>1. UNCHANGED <<device, task, todo>> /\ source' = source /\ pc = "remove" /\ pc' = "process"
    BY <1>5 DEF RemovePayload, device
  <2>2. \A j \in Ids : Stale(j) => StaleTask(j)'
    BY <2>1 DEF SealInv, StaleTask
  <2> QED BY <2>1, <2>2, SealFrame
<1>6. CASE Timeout
  <2>1. /\ pc = "wait" /\ UNCHANGED <<device, todo>> /\ pc' = "process"
        /\ task' = [task EXCEPT ![call.id] = Scheduled(task[call.id], "UNAVAILABLE")]
    BY <1>6 DEF Timeout, BackToPass, SaveTask
  <2>2. call.id \in Ids /\ task[call.id] \in Tasks
    BY <2>1, WaitingTask
  <2>3. Scheduled(task[call.id], "UNAVAILABLE").state = task[call.id].state
    BY <2>2 DEF Scheduled, Tasks
  <2>4. Stale(call.id) => task[call.id].state \notin {"COMPLETING", "DONE"}
    BY <2>2 DEF SealInv, StaleTask
  <2> QED BY <2>1, <2>3, <2>4, CallSeal
<1> QED BY <1>1, <1>2, <1>3, <1>4, <1>5, <1>6, ReceiveSeal DEF ProcessTasks

LEMMA NextSeal ==
  ASSUME StableScans = 1, CInv, SealInv, [Next]_vars
  PROVE  SealInv'
<1>1. CASE ScanInputs
  BY <1>1, ScanStatSeal, ScanHashSeal, ScanCopySeal, ScanCheckSeal DEF ScanInputs
<1>2. CASE Initialize \/ Crash
  <2>1. UNCHANGED <<device, task>> /\ source' = source /\ pc' \in {"scan", "start"}
    BY <1>2 DEF Initialize, Crash, spool, device
  <2>2. \A j \in Ids : Stale(j) => StaleTask(j)'
    BY <2>1 DEF SealInv, StaleTask
  <2> QED BY <2>1, <2>2, SealFrame
<1>3. CASE Server \/ (\E u \in Uploads : LoseSession(u)) \/ UNCHANGED vars
  <2>1. UNCHANGED <<device, task, pc, scan, todo, call>>
    BY <1>3 DEF Server, ServeCall, ServeLate, LoseSession, vars, device, spool, agent
  <2> QED BY <2>1, SealSame
<1> QED BY <1>1, <1>2, <1>3, DeviceSeal, ProcessSeal DEF Next

(* With SealMode::AtomicRename a task that ends DONE has archived the very *)
(* version its signature names, however the device overwrites the file     *)
(* between stat, hash and copy, for any number of writes, faults and       *)
(* restarts: a task hashed from a later version is failed by the next scan *)
(* before its complete is sent.                                            *)
THEOREM DoneTasksAreSealedVersions ==
  ASSUME StableScans = 1
  PROVE  Spec => []DoneIsSealedVersion
<1>1. Init => SealInv
  <2> SUFFICES ASSUME Init PROVE SealInv
    OBVIOUS
  <2>1. source.mtime = 0 /\ pc = "start" /\ \A i \in Ids : task[i].state = "NONE"
    BY DEF Init, NoTask
  <2> QED BY <2>1 DEF SealInv, StaleTask, Active
<1>2. CInv /\ SealInv /\ [Next]_vars => SealInv'
  BY NextSeal
<1>3. SealInv => DoneIsSealedVersion
  BY DEF SealInv, Stale, StaleTask, DoneIsSealedVersion
<1> QED BY <1>1, <1>2, <1>3, CollectorInvariant, PTL DEF Spec
=============================================================================
