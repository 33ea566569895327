--------------------------- MODULE UploadServerMC ---------------------------
(* Instances of UploadServer for TLC.                                      *)
EXTENDS UploadServerInv, TLC

CONSTANTS good, bad

(* Every creator declares the content made of the chunk value good; a      *)
(* client may also send bad chunks.                                        *)
DeclaredGood == [u \in Uploads |-> [c \in Chunks |-> good]]

Symmetry == Permutations(Writers) \cup Permutations(Completers)
=============================================================================
