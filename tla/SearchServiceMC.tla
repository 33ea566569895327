-------------------------- MODULE SearchServiceMC --------------------------
(* Instances of SearchService for TLC. *)
EXTENDS SearchService

TwoArchives == 1..2
Singles == {{1}, {2}}
TwoBatches == 1..2
TwoDocuments ==
  << [terms |-> {1, 2}, code |-> "E1", anomaly |-> TRUE],
     [terms |-> {1}, code |-> "", anomaly |-> FALSE] >>

In(op) == [op |-> op, token |-> TRUE, keywords |-> {}, code |-> "", precise |-> TRUE,
           doc |-> [batch |-> 1, archive |-> 1], offset |-> 0, size |-> 1]

\* Pages and details; error codes; anomalies; the requests that are refused, and
\* offsets on both sides of the window and near the end of both number ranges.
PageRequests == {[In("search") EXCEPT !.keywords = {{1}}], In("detail")}
CodeRequests == {[In("code") EXCEPT !.code = "E1"], [In("code") EXCEPT !.code = "E9"], In("code")}
EdgeRequests ==
  { [In("search") EXCEPT !.token = FALSE], [In("search") EXCEPT !.precise = FALSE],
    [In("search") EXCEPT !.keywords = {{}}], [In("detail") EXCEPT !.doc.batch = 0] }
  \cup {[In("search") EXCEPT !.offset = o, !.size = s] : o \in {3, 7, 14, 15}, s \in 0..3}
FourWorkloads == {PageRequests, CodeRequests, {In("anomalies")}, EdgeRequests}
=============================================================================
