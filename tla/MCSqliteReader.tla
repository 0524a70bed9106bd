---------------------------- MODULE MCSqliteReader ----------------------------
(* Instances of SqliteReader for TLC: writers and one reader.               *)
EXTENDS SqliteReader, TLC

CONSTANTS p1, p2, e1, e2, a1, a2, r1, r2, m1, op1, op2, op3

Symmetry == Permutations({p1, p2})

MCEvent == {e1, e2}
MCAnalysis == {a1, a2}
MCSeq == (e1 :> 1) @@ (e2 :> 2)
MCRefs == [x \in MCEvent \cup MCAnalysis |-> {}]
MCCreatedWith == [ledger |-> {}, analyses |-> {a1}, selection |-> None,
                  artifacts |-> {r1, r2}]

Do(op, kind, item, mark, removes) ==
    [op |-> op, kind |-> kind, item |-> item, mark |-> mark, removes |-> removes,
     pre |-> [head |-> {}, active |-> {}, attached |-> {}]]

(* Commands whose effects a reader sees whole whatever it interleaves with *)
Growing == {Do(op1, "append", e1, None, {}), Do(op2, "append", e2, None, {})}
=============================================================================
