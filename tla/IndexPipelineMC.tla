-------------------------- MODULE IndexPipelineMC --------------------------
(* Instances of IndexPipeline for TLC. *)
EXTENDS IndexPipeline

TwoArchives == 1..2
SixBatches == 1..6
OneEach == [a \in Archives |-> 1]
=============================================================================
