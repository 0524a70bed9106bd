--------------------------- MODULE MCExternalRanker ---------------------------
(* Instances of ExternalRanker for TLC.                                     *)
EXTENDS ExternalRanker, TLC

CONSTANT a

(* stdout can exceed its limit; stderr, drained by the same code, is only held open *)
MCProduced == [s \in Streams |-> IF s = "stdout" THEN 2 ELSE 0]
=============================================================================
