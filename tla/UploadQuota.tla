---------------------------- MODULE UploadQuota ----------------------------
(***************************************************************************)
(* The quota sets of upload_repository.cpp: for the whole server, for each *)
(* device and for each collector a sorted set of the sessions that count,  *)
(* with their expiry as score.  The scripts keep the sets next to the      *)
(* session hash; createSession removes what has expired and refuses a      *)
(* session that does not fit.                                              *)
(*                                                                         *)
(* A score is computed by the handler from its clock, in seconds; Redis    *)
(* counts the life of the hash from the moment the script runs.  Times are *)
(* relative to now, so that a second that passes makes them smaller.       *)
(*                                                                         *)
(* A definition placed directly above another under a name that extends    *)
(* its name is a faulty variant of it, used only to show that a property   *)
(* notices the fault.                                                      *)
(***************************************************************************)
EXTENDS Integers, FiniteSets, FiniteSetsExt

CONSTANTS
  UploadIds,
  DeviceOf, CollectorOf,        \* upload -> its device, its collector
  FileSize,                     \* upload -> file_size
  MaxActive, MaxDevice, MaxCollector, MaxReserved,
  SessionTtl, TerminalTtl,
  ChunkCount,                   \* chunk_count of a session
  MaxFinishes,                  \* bound: finished chunks, repetitions of concurrent writers included
  MaxDelay,                     \* bound: seconds from the clock reading to the script
  Tardy                         \* bound: uploads whose scripts may be delayed at all

ASSUME TtlAssumption ==
  /\ SessionTtl \in Nat \ {0} /\ TerminalTtl \in Nat \ {0} /\ MaxDelay \in 0..SessionTtl - 1
  /\ ChunkCount <= MaxFinishes
\* The configuration is refused with a limit below one.
ASSUME LimitAssumption ==
  /\ IsFiniteSet(UploadIds)
  /\ MaxActive \in Nat \ {0} /\ MaxDevice \in Nat \ {0} /\ MaxCollector \in Nat \ {0}

VARIABLES
  session,   \* upload -> the hash, or NoUpload
  quota,     \* scope -> upload -> score, or NotCounted
  created    \* uploads whose session was created

quotaVars == <<session, quota, created>>

Global == <<"global">>
DeviceScope(u) == <<"device", DeviceOf[u]>>
CollectorScope(u) == <<"collector", CollectorOf[u]>>
ScopesOf(u) == {Global, DeviceScope(u), CollectorScope(u)}
Scopes == UNION {ScopesOf(u) : u \in UploadIds}
LimitOf(scope) ==
  CASE scope[1] = "global" -> MaxActive [] scope[1] = "device" -> MaxDevice [] OTHER -> MaxCollector

NoUpload == [state |-> "none"]
NotCounted == -MaxDelay - 2                 \* not a member
Oldest == -MaxDelay - 1                 \* expired for any clock
Delays(u) == IF u \in Tardy THEN 0..MaxDelay ELSE {0}

Live(u) == session[u] # NoUpload

-----------------------------------------------------------------------------
\* The ZADD of three scripts.
Scored(q, u, score) == [s \in Scopes |-> IF s \in ScopesOf(u) THEN [q[s] EXCEPT ![u] = score] ELSE q[s]]

\* clean: members whose score is not above the clock the handler read delay
\* seconds ago.
CleanNotCollector(u, delay) ==
  [s \in Scopes |->
     IF s \notin {Global, DeviceScope(u)} THEN quota[s]
     ELSE [v \in UploadIds |-> IF quota[s][v] <= -delay THEN NotCounted ELSE quota[s][v]]]
Clean(u, delay) ==
  [s \in Scopes |->
     IF s \notin ScopesOf(u) THEN quota[s]
     ELSE [v \in UploadIds |-> IF quota[s][v] <= -delay THEN NotCounted ELSE quota[s][v]]]

Members(q, scope) == {v \in UploadIds : q[scope][v] # NotCounted}
Bytes(U) == FoldSet(LAMBDA v, n : n + FileSize[v], 0, U)
Fits(q, u) ==
  /\ \A s \in ScopesOf(u) : Cardinality(Members(q, s)) < LimitOf(s)
  /\ Bytes(Members(q, Global)) + FileSize[u] <= MaxReserved

-----------------------------------------------------------------------------
QuotaInit ==
  /\ session = [u \in UploadIds |-> NoUpload]
  /\ quota = [s \in Scopes |-> [u \in UploadIds |-> NotCounted]]
  /\ created = {}

\* kCreateSessionScript: expires_at was computed before the file was allocated.
CreateAdmitted(u) ==
  \E delay, before \in Delays(u) :
    LET q == Clean(u, delay) IN
    /\ delay <= before /\ u \notin created /\ Fits(q, u)
    /\ quota' = Scored(q, u, SessionTtl - before)
    /\ session' = [session EXCEPT ![u] = [state |-> "UPLOADING", left |-> SessionTtl - before,
                                          life |-> SessionTtl, finished |-> 0]]
    /\ created' = created \cup {u}

CreateRefused(u) ==
  \E delay \in Delays(u) :
    LET q == Clean(u, delay) IN
    /\ u \notin created /\ ~Fits(q, u)
    /\ quota' = q /\ UNCHANGED <<session, created>>

\* kFinishChunkScript.
FinishChunkUncounted(u) ==
  \E delay \in Delays(u) :
    /\ Live(u) /\ session[u].state = "UPLOADING" /\ session[u].finished < MaxFinishes
    /\ session' = [session EXCEPT ![u] =
         [session[u] EXCEPT !.left = SessionTtl - delay, !.life = SessionTtl, !.finished = @ + 1]]
    /\ UNCHANGED <<quota, created>>
FinishChunk(u) ==
  \E delay \in Delays(u) :
    /\ Live(u) /\ session[u].state = "UPLOADING" /\ session[u].finished < MaxFinishes
    /\ session' = [session EXCEPT ![u] =
         [session[u] EXCEPT !.left = SessionTtl - delay, !.life = SessionTtl, !.finished = @ + 1]]
    /\ quota' = Scored(quota, u, SessionTtl - delay)
    /\ UNCHANGED created

\* kBeginCompleteScript: neither the life of the session nor its score changes.
\* The bitmap can be full once as many chunks were finished as there are.
BeginComplete(u) ==
  /\ Live(u) /\ session[u].state = "UPLOADING" /\ session[u].finished >= ChunkCount
  /\ session' = [session EXCEPT ![u].state = "VERIFYING"]
  /\ UNCHANGED <<quota, created>>

\* kMarkFailedScript: a failed session counts until its keys expire.
MarkFailed(u) ==
  \E delay \in Delays(u) :
    /\ Live(u) /\ session[u].state = "VERIFYING"
    /\ session' = [session EXCEPT ![u] = [@ EXCEPT !.state = "FAILED", !.left = TerminalTtl - delay,
                                                   !.life = TerminalTtl]]
    /\ quota' = Scored(quota, u, TerminalTtl - delay)
    /\ UNCHANGED created

\* kMarkArchivedScript; a repeated complete runs it again.
MarkArchivedKeepsCollector(u) ==
  /\ Live(u) /\ session[u].state \in {"VERIFYING", "ARCHIVED"}
  /\ session' = [session EXCEPT ![u] = [@ EXCEPT !.state = "ARCHIVED", !.life = TerminalTtl]]
  /\ quota' = [s \in Scopes |-> IF s \in {Global, DeviceScope(u)}
                                THEN [quota[s] EXCEPT ![u] = NotCounted] ELSE quota[s]]
  /\ UNCHANGED created
MarkArchived(u) ==
  /\ Live(u) /\ session[u].state \in {"VERIFYING", "ARCHIVED"}
  /\ session' = [session EXCEPT ![u] = [@ EXCEPT !.state = "ARCHIVED", !.life = TerminalTtl]]
  /\ quota' = Scored(quota, u, NotCounted)
  /\ UNCHANGED created

\* deleteSessionKeys of the cleanup thread: the sets are not touched.
CleanUp(u) ==
  /\ Live(u) /\ session[u].state \in {"FAILED", "ARCHIVED"}
  /\ session' = [session EXCEPT ![u] = NoUpload]
  /\ UNCHANGED <<quota, created>>

\* A second passes, and Redis removes keys whose life is over.
Tick ==
  /\ session' = [u \in UploadIds |->
       IF ~Live(u) \/ session[u].life = 1 THEN NoUpload
       ELSE [session[u] EXCEPT !.life = @ - 1, !.left = Max({@ - 1, Oldest})]]
  /\ quota' = [s \in Scopes |-> [u \in UploadIds |->
       IF quota[s][u] = NotCounted THEN NotCounted ELSE Max({quota[s][u] - 1, Oldest})]]
  /\ UNCHANGED created

QuotaNext ==
  \/ \E u \in UploadIds :
       \/ CreateAdmitted(u) \/ CreateRefused(u) \/ FinishChunk(u) \/ BeginComplete(u)
       \/ MarkFailed(u) \/ MarkArchived(u) \/ CleanUp(u)
  \/ Tick

QuotaSpec == QuotaInit /\ [][QuotaNext]_quotaVars

\* Time passes, and a refused client asks again: nobody else has to do
\* anything, abandoned sessions included.
QuotaFairness == WF_quotaVars(Tick) /\ \A u \in UploadIds : WF_quotaVars(CreateAdmitted(u))

-----------------------------------------------------------------------------
(* Properties.                                                             *)

\* The three sets and the session agree: a session that has not expired by its
\* own expires_at counts in its three sets with that expiry, however late the
\* scripts run, until it is archived; an archived one counts in none.
CountedInAll ==
  \A u \in UploadIds : Live(u) =>
    /\ session[u].state # "ARCHIVED" /\ session[u].left > 0 =>
         \A s \in ScopesOf(u) : quota[s][u] = session[u].left
    /\ session[u].state = "ARCHIVED" => \A s \in ScopesOf(u) : quota[s][u] = NotCounted

InFlight(u) == Live(u) /\ session[u].state \in {"UPLOADING", "VERIFYING"} /\ session[u].left > 0

\* A device or collector whose scripts run in the second their clock was read
\* never has more sessions in flight than allowed, however late the others
\* run.  A script that is late can break its limit: in the last second of its
\* session another one is admitted, and its FinishChunk then puts its member
\* back without a check.
LimitHolds ==
  \A s \in Scopes :
    LET members == {u \in UploadIds : s \in ScopesOf(u)} IN
    members \cap Tardy = {} => Cardinality({u \in members : InFlight(u)}) <= LimitOf(s)

\* A client that is refused and asks again is admitted some day, even when
\* every other session was abandoned, failed or deleted by the cleanup.
RetryIsAdmitted == \A u \in UploadIds : []<>(u \in created)
=============================================================================
