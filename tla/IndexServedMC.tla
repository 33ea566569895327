--------------------------- MODULE IndexServedMC ---------------------------
(***************************************************************************)
(* IndexPipeline with a history variable that says why a READY batch may   *)
(* be missing in the snapshot of the Search Server.                        *)
(***************************************************************************)
EXTENDS IndexPipelineMC

VARIABLE behind    \* the Search Server missed a publication

Refreshes == proc["server"].pc = "load" /\ proc'["server"].pc # "load"
Refreshed == \A r \in proc["server"].list : Loads(r)
PublishedByAdmin ==
  \E b \in Batches : batch[b].state # "READY" /\ batch'[b].state = "READY" /\ batch'[b].sha = "admin"

\* It starts up to date.  A refresh that was refused because a batch it had
\* listed was withdrawn before it was loaded leaves the snapshot as it was, and
\* build-once refreshes no snapshot but its own.
Missed ==
  IF proc'["server"].pc = "down" THEN FALSE
  ELSE IF Refreshes THEN ~Refreshed
  ELSE behind \/ PublishedByAdmin

HistoryNext == Next /\ behind' = Missed
HistoryVars == <<vars, behind>>

HistorySpec == Init /\ behind = FALSE /\ [][HistoryNext]_HistoryVars /\ Fairness

\* A READY batch is eventually served by the Search Server, or withdrawn, also
\* across crashes and next to scans, rebuilds and build-once of logtrace_admin.
\* Left out are failing statements, damaged files, late statements and programs
\* that build at once; and what only the next build or restart repairs, because
\* refreshSnapshot runs after a build and at the start only: a refresh refused
\* for a batch withdrawn between its listing and its loading, and a batch that
\* build-once published next to the running server.
ReadyIsServed ==
  \A b \in Batches : []<>(
    batch[b].state = "READY" /\ Undamaged /\ NothingFailed /\ Orderly /\ ~behind => b \in DOMAIN snapshot)
=============================================================================
