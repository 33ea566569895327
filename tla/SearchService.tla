--------------------------- MODULE SearchService ---------------------------
(***************************************************************************)
(* Answering a search: the gateway's SearchController, the RPC call with   *)
(* its timeout, the handlers of SearchHealthService in the Search Server,  *)
(* QueryCache in Redis, the in-process caches, and the snapshot they all   *)
(* read, which the worker replaces while calls are in progress.            *)
(*                                                                         *)
(* The segments come from IndexCatalog, which IndexPipeline implements; a  *)
(* document is an archive of a batch, and what SearchEngine::search makes  *)
(* of a snapshot is shown in SegmentSearch.  The in-process caches are     *)
(* LossyCache, which SlruCache implements: an entry may vanish at any      *)
(* time, but is never anything other than what was put last.               *)
(*                                                                         *)
(* A definition placed directly above another under a name that extends    *)
(* its name is a faulty variant of it, used only to show that a property   *)
(* notices the fault.                                                      *)
(***************************************************************************)
EXTENDS IndexCatalog, FiniteSets, Sequences, SequencesExt, FiniteSetsExt

CONSTANTS
  Contents,      \* the sets of archives a batch may make searchable
  Documents,     \* archive -> terms, error code, whether it is an anomaly
  Callers,       \* HTTP requests that may be in progress at a time
  Workloads,     \* bound: the sets of requests that clients make in a behaviour
  Catalogued,    \* error codes in error_code_catalog
  Window,        \* largest offset + page_size (1000)
  PageLimit,     \* largest page_size (200)
  CodeMatches,   \* matching logs returned with an error code (5)
  Width64,       \* numbers of the gateway's offset (2^64)
  Width32,       \* numbers of the RPC's offset (2^32)
  MaxRebuilds,   \* bound: batches withdrawn by rebuild
  MaxCrashes,    \* bound: crashes of the Search Server
  MaxFaults      \* bound: Redis, MySQL and refresh failures

ASSUME WidthAssumption ==
  /\ Width32 \in Nat \ {0} /\ Width64 \in Nat /\ Width64 % Width32 = 0 /\ Width64 > Width32
  /\ Window \in Nat /\ PageLimit \in Nat /\ Window + PageLimit < Width32
ASSUME IdsAssumption ==
  /\ IsFiniteSet(Archives) /\ Archives \subseteq Nat
  /\ IsFiniteSet(Batches) /\ Batches \subseteq Nat \ {0}
ASSUME RequestsAssumption ==
  \A w \in Workloads : \A in \in w : {in.offset, in.size} \subseteq 0..Width64 - 1
ASSUME BoundsAssumption ==
  /\ Contents \subseteq SUBSET Archives
  /\ CodeMatches \in 1..Window /\ MaxRebuilds \in Nat /\ MaxCrashes \in Nat /\ MaxFaults \in Nat

VARIABLES
  up,         \* the Search Server is running
  due,        \* the worker has published a batch and not yet refreshed
  snapshot,   \* IndexSnapshotStore: batch -> archives loaded
  redis,      \* the query cache: set of [key, page]
  late,       \* SETEX commands that timed out and may still be executed
  details,    \* detail cache: set of [version, doc]
  codes,      \* error code cache
  call,       \* the requests: gateway side and handler side
  budget      \* the workload, and what is left of the bounds

svars == <<up, due, snapshot, redis, late, details, codes, call, budget>>
vars == <<cvars, svars>>

-----------------------------------------------------------------------------
(* IndexSnapshot and SearchEngine.                                         *)

Version(view) ==
  LET loaded == {b \in Batches : view[b] # {}} IN
  IF loaded = {} THEN 0 ELSE CHOOSE b \in loaded : \A c \in loaded : c <= b

HasDocument(view, doc) == doc.batch \in Batches /\ doc.archive \in view[doc.batch]

Hits(view, q) ==
  {d \in [batch : Batches, archive : Archives] :
     /\ HasDocument(view, d)
     /\ q.terms \subseteq Documents[d.archive].terms
     /\ q.code # "" => Documents[d.archive].code = q.code
     /\ q.anomaly => Documents[d.archive].anomaly}

\* The best first, where archives stand in for scores.
Ranked(hits) ==
  [n \in 1..Cardinality(hits) |->
     CHOOSE d \in hits : Cardinality({e \in hits : e.archive > d.archive}) = n - 1]

\* search() checks the page again, and cuts its slice of the ranked hits.
EngineAcceptsSize(q) == q.size # 0 /\ q.size <= Window
EngineAccepts(q) == q.size # 0 /\ q.offset <= Window /\ q.size <= Window - q.offset
Search(view, q) ==
  LET ranked == Ranked(Hits(view, q)) IN
  [version |-> Version(view), total |-> Len(ranked),
   ids |-> SubSeq(ranked, q.offset + 1, Min({Len(ranked), q.offset + q.size}))]

\* SearchEngine::restore: a cached page is used only on the version it was
\* computed on, and only if each of its documents is there.
RestoreUnchecked(page) == page.version = Version(snapshot)
Restores(page) ==
  /\ page.version = Version(snapshot)
  /\ \A i \in DOMAIN page.ids : HasDocument(snapshot, page.ids[i])

-----------------------------------------------------------------------------
(* The requests.                                                           *)

NoPage == [version |-> 0, total |-> 0, ids |-> <<>>]
NoQuery == [terms |-> {}, code |-> "", anomaly |-> FALSE, offset |-> 0, size |-> 0]
Unused == [gate |-> "idle", stage |-> "none", in |-> CHOOSE i \in UNION Workloads : TRUE,
           query |-> NoQuery, version |-> 0, got |-> {}, page |-> NoPage,
           reply |-> "", code |-> ""]

\* parsePage and the rest of the gateway's validation.  The sum wraps at
\* Width64, and the offset is cut to Width32 for the RPC.
ParsePage(in) ==
  in.size # 0 /\ in.size <= PageLimit /\ (in.offset + in.size) % Width64 <= Window
GatewayAccepts(in) ==
  CASE in.op \in {"search", "anomalies"} -> ParsePage(in) /\ in.precise
    [] in.op = "detail" -> in.doc.batch # 0
    [] in.op = "code" -> in.code # ""

\* validPagination, validFilter and validKeywords of the RPC handlers: the
\* same rules again in 32 bits; every keyword must yield a term.
ValidPagination(q) ==
  q.size # 0 /\ q.size <= PageLimit /\ (q.offset + q.size) % Width32 <= Window
HandlerAccepts(in, q) ==
  /\ in.op \in {"search", "anomalies"} => ValidPagination(q) /\ in.precise
  /\ in.op = "search" => {} \notin in.keywords

\* makeQuery with the keywords normalised to a set of terms.
MakeQuery(in) ==
  IF in.op = "code" THEN [NoQuery EXCEPT !.code = in.code, !.size = CodeMatches]
  ELSE [terms |-> IF in.op = "search" THEN UNION in.keywords ELSE {}, code |-> in.code,
        anomaly |-> in.op = "anomalies", offset |-> in.offset % Width32,
        size |-> in.size % Width32]

Ask(c, in) ==
  /\ call[c].gate = "idle" /\ call[c].stage = "none"
  /\ call' = [call EXCEPT ![c] =
       IF ~in.token THEN [Unused EXCEPT !.gate = "answered", !.in = in, !.code = "OPERATOR_TOKEN_INVALID"]
       ELSE IF GatewayAccepts(in) THEN [Unused EXCEPT !.gate = "waiting", !.stage = "sent", !.in = in]
       ELSE [Unused EXCEPT !.gate = "answered", !.in = in, !.code = "INVALID_ARGUMENT"]]
  /\ UNCHANGED <<cvars, up, due, snapshot, redis, late, details, codes, budget>>

-----------------------------------------------------------------------------
(* The RPC handlers.                                                       *)

Reply(c, code) == [call EXCEPT ![c].stage = "reply", ![c].reply = code]

\* The key of executeCachedSearch holds the version at this moment.
StartQuery(c, q) ==
  [call EXCEPT ![c].stage = "get", ![c].query = q, ![c].version = Version(snapshot)]

ReceiveSearch(c) ==
  /\ up /\ call[c].stage = "sent" /\ call[c].in.op \in {"search", "anomalies"}
  /\ call' = LET q == MakeQuery(call[c].in) IN
             IF HandlerAccepts(call[c].in, q) THEN StartQuery(c, q)
             ELSE Reply(c, "INVALID_ARGUMENT")
  /\ UNCHANGED <<cvars, up, due, snapshot, redis, late, details, codes, budget>>

\* SearchEngine::detail: the detail cache is asked before the snapshot.
DetailEntryUnversioned(doc) == [version |-> 0, doc |-> doc]
DetailEntry(doc) == [version |-> Version(snapshot), doc |-> doc]
ReceiveDetail(c) ==
  /\ up /\ call[c].stage = "sent" /\ call[c].in.op = "detail"
  /\ LET doc == call[c].in.doc IN
     \/ /\ DetailEntry(doc) \in details \/ HasDocument(snapshot, doc)
        /\ call' = Reply(c, "OK")
        /\ details' = details \cup {DetailEntry(doc)}
     \/ /\ DetailEntry(doc) \notin details /\ ~HasDocument(snapshot, doc)
        /\ call' = Reply(c, "LOG_NOT_FOUND") /\ UNCHANGED details
  /\ UNCHANGED <<cvars, up, due, snapshot, redis, late, codes, budget>>

Fault == budget.faults > 0 /\ budget' = [budget EXCEPT !.faults = @ - 1]

\* The archive file cannot be opened or read.
DetailUnreadable(c) ==
  /\ up /\ call[c].stage = "sent" /\ call[c].in.op = "detail" /\ Fault
  /\ DetailEntry(call[c].in.doc) \notin details /\ HasDocument(snapshot, call[c].in.doc)
  /\ call' = Reply(c, "STORAGE_IO_ERROR")
  /\ UNCHANGED <<cvars, up, due, snapshot, redis, late, details, codes>>

ReceiveCode(c) ==
  /\ up /\ call[c].stage = "sent" /\ call[c].in.op = "code"
  /\ call' = IF call[c].in.code \in codes THEN StartQuery(c, MakeQuery(call[c].in))
             ELSE [call EXCEPT ![c].stage = "lookup"]
  /\ UNCHANGED <<cvars, up, due, snapshot, redis, late, details, codes, budget>>

\* The SELECT on error_code_catalog and the task behind it.
LookUpCodeAgain(c) ==
  /\ up /\ call[c].stage = "lookup"
  /\ \/ /\ call[c].in.code \in Catalogued
        /\ codes' = codes \cup {call[c].in.code}
        /\ call' = StartQuery(c, MakeQuery(call[c].in))
     \/ call[c].in.code \notin Catalogued /\ UNCHANGED <<codes, call>>
  /\ UNCHANGED <<cvars, up, due, snapshot, redis, late, details, budget>>
LookUpCode(c) ==
  /\ up /\ call[c].stage = "lookup"
  /\ \/ /\ call[c].in.code \in Catalogued
        /\ codes' = codes \cup {call[c].in.code}
        /\ call' = StartQuery(c, MakeQuery(call[c].in)) /\ UNCHANGED budget
     \/ /\ call[c].in.code \notin Catalogued
        /\ call' = Reply(c, "ERROR_CODE_NOT_FOUND") /\ UNCHANGED <<codes, budget>>
     \/ Fault /\ call' = Reply(c, "MYSQL_UNAVAILABLE") /\ UNCHANGED codes
  /\ UNCHANGED <<cvars, up, due, snapshot, redis, late, details>>

\* The key holds every field of the query, and the version.
Key(c) == [query |-> call[c].query, version |-> call[c].version]

\* GET is executed; a failed one counts as a miss.
Get(c) ==
  /\ up /\ call[c].stage = "get"
  /\ \/ /\ call' = [call EXCEPT ![c].stage = "callback",
                      ![c].got = {e.page : e \in {f \in redis : f.key = Key(c)}}]
        /\ UNCHANGED budget
     \/ Fault /\ call' = [call EXCEPT ![c].stage = "callback"]
  /\ UNCHANGED <<cvars, up, due, snapshot, redis, late, details, codes>>

\* Its callback: the cached page if it can be restored, else a search of
\* the snapshot that is current now.
Callback(c) ==
  /\ up /\ call[c].stage = "callback"
  /\ LET q == call[c].query IN
     call' = IF \E p \in call[c].got : Restores(p)
             THEN [Reply(c, "OK") EXCEPT ![c].got = {}, ![c].page = CHOOSE p \in call[c].got : TRUE]
             ELSE IF EngineAccepts(q)
             THEN [call EXCEPT ![c].stage = "set", ![c].got = {}, ![c].page = Search(snapshot, q)]
             ELSE Reply(c, "INDEX_CORRUPTED")
  /\ UNCHANGED <<cvars, up, due, snapshot, redis, late, details, codes, budget>>

Stored(key, page) == {e \in redis : e.key # key} \cup {[key |-> key, page |-> page]}

\* SETEX under the key computed at the start of the call: executed, lost,
\* or executed after the handler has given up on it.
Set(c) ==
  /\ up /\ call[c].stage = "set"
  /\ call' = Reply(c, "OK")
  /\ \/ redis' = Stored(Key(c), call[c].page) /\ UNCHANGED <<late, budget>>
     \/ Fault /\ UNCHANGED <<redis, late>>
     \/ Fault /\ late' = late \cup {[key |-> Key(c), page |-> call[c].page]} /\ UNCHANGED redis
  /\ UNCHANGED <<cvars, up, due, snapshot, details, codes>>

LateSet(e) ==
  /\ e \in late
  /\ redis' = Stored(e.key, e.page) /\ late' = late \ {e}
  /\ UNCHANGED <<cvars, up, due, snapshot, details, codes, call, budget>>

-----------------------------------------------------------------------------
(* The gateway's end of the call.                                          *)

\* The HTTP error of a handler's code; a code it does not know would be
\* reported as a damaged index.
BusinessCode(reply) ==
  IF reply \in {"OK", "INVALID_ARGUMENT", "LOG_NOT_FOUND", "ERROR_CODE_NOT_FOUND", "INDEX_CORRUPTED",
               "STORAGE_IO_ERROR", "MYSQL_UNAVAILABLE"} THEN reply ELSE "INDEX_CORRUPTED"

\* The series ends and the response is sent; nobody may be waiting for it.
Respond(c) ==
  /\ up /\ call[c].stage = "reply"
  /\ call' = [call EXCEPT ![c] = [Unused EXCEPT !.in = call[c].in, !.gate = "answered",
                   !.code = IF call[c].gate = "waiting" THEN BusinessCode(call[c].reply)
                            ELSE call[c].code]]
  /\ UNCHANGED <<cvars, up, due, snapshot, redis, late, details, codes, budget>>

Timeout(c) ==
  /\ call[c].gate = "waiting" /\ Fault
  /\ call' = [call EXCEPT ![c].gate = "answered", ![c].code = "SEARCH_RPC_TIMEOUT"]
  /\ UNCHANGED <<cvars, up, due, snapshot, redis, late, details, codes>>

\* No connection: the server is down, or went down with the handler.
Unreachable(c) ==
  /\ call[c].gate = "waiting"
  /\ call[c].stage = "none" \/ (call[c].stage = "sent" /\ ~up)
  /\ call' = [call EXCEPT ![c].gate = "answered", ![c].stage = "none",
                ![c].code = "SEARCH_RPC_UNAVAILABLE"]
  /\ UNCHANGED <<cvars, up, due, snapshot, redis, late, details, codes, budget>>

\* The HTTP response has been sent; the handler may still be running.
Finish(c) ==
  /\ call[c].gate = "answered" /\ call[c].stage = "none"
  /\ call' = [call EXCEPT ![c] = Unused]
  /\ UNCHANGED <<cvars, up, due, snapshot, redis, late, details, codes, budget>>

-----------------------------------------------------------------------------
(* The index, the process and Redis.                                       *)

\* The worker of a running server, or build-once while it is stopped.
PublishBatch(b, s) ==
  /\ Publish(b, s) /\ ~due /\ due' = up
  /\ UNCHANGED <<up, snapshot, redis, late, details, codes, call, budget>>

\* refreshSnapshot; one that throws leaves the old snapshot.
Refresh ==
  /\ up /\ due /\ due' = FALSE
  /\ \/ snapshot' = catalog /\ UNCHANGED budget
     \/ Fault /\ UNCHANGED snapshot
  /\ UNCHANGED <<cvars, up, redis, late, details, codes, call>>

\* logtrace_admin rebuild withdraws a READY batch.
Rebuild(b) ==
  /\ budget.rebuilds > 0 /\ catalog[b] # {} /\ Retire(b)
  /\ budget' = [budget EXCEPT !.rebuilds = @ - 1]
  /\ UNCHANGED <<up, due, snapshot, redis, late, details, codes, call>>

Crash ==
  /\ up /\ budget.crashes > 0 /\ budget' = [budget EXCEPT !.crashes = @ - 1]
  /\ up' = FALSE /\ due' = FALSE /\ details' = {} /\ codes' = {}
  /\ call' = [c \in Callers |-> [Unused EXCEPT !.gate = call[c].gate, !.in = call[c].in,
                                                   !.code = call[c].code]]
  /\ UNCHANGED <<cvars, snapshot, redis, late>>

Start ==
  /\ ~up /\ up' = TRUE /\ snapshot' = catalog
  /\ UNCHANGED <<cvars, due, redis, late, details, codes, call, budget>>

\* A TTL ends, or an SLRU queue is full.
Expire ==
  /\ \/ \E e \in redis : redis' = redis \ {e} /\ UNCHANGED <<details, codes>>
     \/ \E e \in details : details' = details \ {e} /\ UNCHANGED <<redis, codes>>
     \/ \E e \in codes : codes' = codes \ {e} /\ UNCHANGED <<redis, details>>
  /\ UNCHANGED <<cvars, up, due, snapshot, late, call, budget>>

-----------------------------------------------------------------------------
Init ==
  /\ CatalogInit
  /\ up = FALSE /\ due = FALSE /\ snapshot = [b \in Batches |-> {}]
  /\ redis = {} /\ late = {} /\ details = {} /\ codes = {}
  /\ call = [c \in Callers |-> Unused]
  /\ \E w \in Workloads :
       budget = [inputs |-> w, rebuilds |-> MaxRebuilds, crashes |-> MaxCrashes, faults |-> MaxFaults]

Handler(c) ==
  \/ ReceiveSearch(c) \/ ReceiveDetail(c) \/ ReceiveCode(c) \/ LookUpCode(c)
  \/ Get(c) \/ Callback(c) \/ Set(c) \/ Respond(c)

Next ==
  \/ \E c \in Callers :
       \/ \E in \in budget.inputs : Ask(c, in)
       \/ Handler(c) \/ DetailUnreadable(c)
       \/ Timeout(c) \/ Unreachable(c) \/ Finish(c)
  \/ \E e \in late : LateSet(e)
  \/ \E b \in Batches : Rebuild(b) \/ \E s \in Contents : PublishBatch(b, s)
  \/ Refresh \/ Crash \/ Start \/ Expire

Spec == Init /\ [][Next]_vars

\* Workflow runs the tasks of a series to their end, the supervisor starts
\* the server again, and the RPC client notices a lost connection.
FairSpec ==
  /\ Spec /\ WF_vars(Start)
  /\ \A c \in Callers : WF_vars(Handler(c)) /\ WF_vars(Unreachable(c))

-----------------------------------------------------------------------------
(* Properties.                                                             *)

\* Types and ranges.  A handler runs only in a running server; whatever passes
\* the two validations, no page is ever computed beyond the result window.
TypeOK ==
  /\ up \in BOOLEAN /\ due \in BOOLEAN /\ (due => up)
  /\ snapshot \in [Batches -> SUBSET Archives]
  /\ \A e, f \in redis : e.key = f.key => e = f
  /\ \A c \in Callers :
       /\ call[c].gate \in {"idle", "waiting", "answered"}
       /\ call[c].stage \in {"none", "sent", "lookup", "get", "callback", "set", "reply"}
       /\ call[c].stage \in {"lookup", "get", "callback", "set", "reply"} => up
       /\ Cardinality(call[c].got) <= 1
       /\ call[c].page # NoPage => call[c].query.offset + call[c].query.size <= Window

NewPage(c) == call'[c].page # call[c].page /\ call'[c].page # NoPage
PageIsSearched(c) == call'[c].page = Search(snapshot, MakeQuery(call[c].in))

\* Every document listed on a page is in the snapshot current at that moment,
\* whether the page comes from Redis or not.  And the page is what a search of
\* that snapshot gives: refreshes between the parts of a handler, entries
\* stored late or under an older version, and restarts never show through
\* (executeCachedSearch, QueryCache, restore).  The latter holds until a batch
\* is withdrawn: the version is the largest READY batch, which stays when an
\* older one goes, and cached pages with the old total are used again.
PageIsCurrent ==
  [][\A c \in Callers : NewPage(c) =>
       /\ \A i \in DOMAIN call'[c].page.ids : HasDocument(snapshot, call'[c].page.ids[i])
       /\ budget.rebuilds = MaxRebuilds => PageIsSearched(c)]_vars

DetailAnswered(c) ==
  call[c].stage = "sent" /\ call'[c].stage = "reply" /\ call[c].in.op = "detail"
DetailIsThere(c) ==
  /\ call'[c].reply = "OK" => HasDocument(snapshot, call[c].in.doc)
  /\ call'[c].reply = "LOG_NOT_FOUND" => ~HasDocument(snapshot, call[c].in.doc)

\* A detail is shown only for a document of the current snapshot, and
\* missing only if it is not there, although the cache is asked first.  This
\* holds until a second batch is withdrawn: the batch just published, if it goes
\* before the refresh, brings back the version of the snapshot before.
DetailIsCurrent ==
  [][\A c \in Callers :
       DetailAnswered(c) /\ budget.rebuilds + 1 >= MaxRebuilds => DetailIsThere(c)]_vars

\* Every request is answered, whatever fails on the way.
EveryCallAnswered ==
  \A c \in Callers : call[c].gate = "waiting" ~> call[c].gate = "answered"
=============================================================================
