-------------------------- MODULE MCSqliteDuplication --------------------------
(* Instances of SqliteDuplication for TLC.                                  *)
EXTENDS SqliteDuplication

CONSTANTS p1, p2
=============================================================================
