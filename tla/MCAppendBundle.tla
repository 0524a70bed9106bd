---------------------------- MODULE MCAppendBundle ----------------------------
(* Instances of AppendBundle for TLC.                                       *)
EXTENDS AppendBundle, TLC

CONSTANTS c1, c2

(* An unconditional command, and one that expects to be the first or to       *)
(* follow it                                                                 *)
MCExpects == (c1 :> {}) @@ (c2 :> {c1})
=============================================================================
