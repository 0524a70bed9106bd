--------------------------- MODULE MCSqliteSession ---------------------------
(* Instances of SqliteSession for TLC.                                      *)
EXTENDS SqliteSession, TLC

CONSTANTS p1, p2, e1, e2, a1, a2, r1, r2, m1, m2, op1, op2, op3, op4

Symmetry == Permutations({p1, p2})

MCProcess == {p1, p2}
MCEvent == {e1, e2}
MCAnalysis == {a1, a2}
MCArtifact == {r1, r2}
MCMark == {m1, m2}
MCSeq == (e1 :> 1) @@ (e2 :> 2)
MCRefs == [x \in MCEvent \cup MCAnalysis |-> {}]

(* A session with one analysis attached and two artifacts, one of them retained *)
MCCreatedWith == [ledger |-> {}, analyses |-> {a1}, selection |-> None,
                  artifacts |-> {r1, r2}]

Free == [head |-> {}, active |-> {}, attached |-> {}]
Append(op, e, pre) == [op |-> op, kind |-> "append", item |-> e, mark |-> None,
                       removes |-> {}, pre |-> pre]
Attach(op, a, pre) == [op |-> op, kind |-> "attach", item |-> a, mark |-> None,
                       removes |-> {}, pre |-> pre]
Select(op, a, m, pre) == [op |-> op, kind |-> "select", item |-> a, mark |-> m,
                          removes |-> {}, pre |-> pre]
Cleanup(op, rs, pre) == [op |-> op, kind |-> "cleanup", item |-> None, mark |-> None,
                         removes |-> rs, pre |-> pre]

(* Two callers that both saw an empty ledger, and a third, unconditional append *)
Appends == {Append(op1, e1, [Free EXCEPT !.head = {None}]),
            Append(op2, e2, [Free EXCEPT !.head = {None}]),
            Append(op3, e2, [Free EXCEPT !.head = {e1}])}

(* Two appends that race, and under the same identifiers an attachment and a       *)
(* selection that depends on it                                                *)
Mixed == {Append(op1, e1, [Free EXCEPT !.head = {None}]),
          Append(op2, e2, [Free EXCEPT !.head = {None}]),
          Attach(op1, a2, [Free EXCEPT !.attached = {{a1}}]),
          Select(op2, a2, m1, [Free EXCEPT !.active = {None}])}

(* One caller's cleanup, for the run about ownership alone *)
OneCleanup == {Cleanup(op1, {r2}, Free)}
=============================================================================
