------------------------- MODULE DataStreamPartsMC -------------------------
(***************************************************************************)
(* Three parts of DataStream that share no state, in one instance for TLC: *)
(* the quota sets, the archive list and the Collector.  A behaviour runs   *)
(* one of them under its fairness; the others rest, the quota sets after   *)
(* all their sessions have gone.                                           *)
(***************************************************************************)
EXTENDS UploadQuotaMC, ArchivePagingMC, CollectorMC

VARIABLE part

QuotaOver ==
  /\ session = [u \in UploadIds |-> NoUpload]
  /\ quota = [s \in Scopes |-> [u \in UploadIds |-> NotCounted]]
  /\ created = UploadIds

PartsInit ==
  /\ part \in {"quota", "paging", "collector"}
  /\ IF part = "quota" THEN QuotaInit ELSE QuotaOver
  /\ PagingInit /\ (part # "paging" => table = {})
  /\ Init

PartsNext ==
  \/ part = "quota" /\ QuotaNext /\ UNCHANGED <<pagingVars, vars, part>>
  \/ part = "paging" /\ PagingNext /\ UNCHANGED <<quotaVars, vars, part>>
  \/ part = "collector" /\ Next /\ UNCHANGED <<quotaVars, pagingVars, part>>

PartsSpec ==
  /\ PartsInit /\ [][PartsNext]_<<quotaVars, pagingVars, vars, part>>
  /\ QuotaFairness /\ PagingFairness /\ (part = "collector" => Fairness)
=============================================================================
