------------------------ MODULE LogTraceAlgorithmsMC ------------------------
(***************************************************************************)
(* The sequential parts of LogTrace in one instance for TLC: parsing an    *)
(* archive and the conversions it uses, indexing and searching, and the    *)
(* cache.  They share no state.  A behaviour runs one of them, and the     *)
(* others stay as they start.                                              *)
(***************************************************************************)
EXTENDS ArchiveParserMC, SegmentSearchMC, SlruCache

VARIABLE part

everything == <<vars, samples, segmentVars, cacheVars, part>>

AlgorithmsInit ==
  /\ Init /\ NoSample /\ SegmentInit /\ CacheInit
  /\ part \in {"parse", "sample", "segment", "cache"}
  /\ part # "parse" => archive = Other /\ file = Other.content
  /\ part # "segment" => corpus = <<>>

AlgorithmsNext ==
  \/ part = "parse" /\ Next /\ UNCHANGED <<samples, segmentVars, cacheVars, part>>
  \/ part = "sample" /\ NextSample /\ UNCHANGED <<vars, segmentVars, cacheVars, part>>
  \/ part = "segment" /\ SegmentNext /\ UNCHANGED <<vars, samples, cacheVars, part>>
  \/ part = "cache" /\ CacheNext /\ UNCHANGED <<vars, samples, segmentVars, part>>

AlgorithmsSpec == AlgorithmsInit /\ [][AlgorithmsNext]_everything
=============================================================================
