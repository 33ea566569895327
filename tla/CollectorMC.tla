---------------------------- MODULE CollectorMC ----------------------------
(* Instances of Collector for TLC.                                         *)
EXTENDS CollectorInv

CONSTANTS a, b, empty

SizeOf == [x \in Contents |-> IF x = empty THEN 0 ELSE 1]
=============================================================================
