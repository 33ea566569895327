--------------------------- MODULE ArchivePagingMC ---------------------------
(* Instances of ArchivePaging for TLC. *)
EXTENDS ArchivePaging

R(id, at, w) == [id |-> id, at |-> at, work_order |-> w, device_id |-> "d"]

\* Three rows of one millisecond, and ids that do not follow archived_at.
FiveRows == {R(1, 4, "w"), R(2, 2, "v"), R(3, 4, "v"), R(4, 4, "w"), R(5, 7, "w")}

List(filters, from, to, size) ==
  [token |-> "right", unknown |-> FALSE, badFilter |-> FALSE, filters |-> filters,
   from |-> from, to |-> to, pageSize |-> size, cursor |-> <<>>]
OfWork == [f \in {"work_order"} |-> "w"]
OfDevice == [f \in {"device_id"} |-> "d"]
NoFilter == [f \in {} |-> "d"]

Walks ==
  {List(OfWork, Absent, Absent, Absent), List(OfDevice, 4, 7, 1), List(NoFilter, 2, 4, 2)}
Refused ==
  {[List(NoFilter, 3, 5, 2) EXCEPT !.token = t] : t \in {"none", "wrong"}}
    \cup {[List(NoFilter, 3, 5, 2) EXCEPT !.unknown = TRUE], [List(NoFilter, 3, 5, 2) EXCEPT !.badFilter = TRUE],
          List(NoFilter, 3, Absent, 2), List(NoFilter, Malformed, 5, 2), List(NoFilter, 5, 3, 2), List(NoFilter, 1, 7, 2),
          List(OfDevice, Absent, Absent, 2), List(NoFilter, 3, 5, 0), List(NoFilter, 3, 5, 3),
          List(NoFilter, 3, 5, Malformed), [List(NoFilter, 3, 5, 2) EXCEPT !.cursor = <<0, 0, 0, 1>>]}
DetailRequests == {[token |-> t, id |-> i] : t \in {"none", "wrong", "right"}, i \in {0, 1, 2, Malformed}}

ListRequests == Walks \cup Refused
=============================================================================
