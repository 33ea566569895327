---------------------------- MODULE UploadQuotaMC ----------------------------
(* Instances of UploadQuota for TLC. *)
EXTENDS UploadQuota, TLC

CONSTANTS ua, ub, uc, d1, d2, c1, c2

\* Two uploads of one device, two of one collector.
Devices == ua :> d1 @@ ub :> d1 @@ uc :> d2
Collectors == ua :> c1 @@ ub :> c2 @@ uc :> c1
Sizes == ua :> 1 @@ ub :> 2 @@ uc :> 2
=============================================================================
