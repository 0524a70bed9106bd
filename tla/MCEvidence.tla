----------------------------- MODULE MCEvidence -----------------------------
(* A small catalog that has a scenario of every way to be judged, and          *)
(* documents for the gate that are right but for one or two of their parts.   *)
(* The three parts share the evidence and not their states: one of them is     *)
(* explored at a time.                                                       *)
EXTENDS EvidenceRun, ReadinessGate

MCCatalog ==
    <<"stale-review-ledger-command", "concurrent-writer-attempt", "unknown-newer-format",
      "interrupted-authoritative-transition", "interrupted-cleanup">>
MCRequired == {"stale-review-ledger-command", "concurrent-writer-attempt", "unknown-newer-format",
               "interrupted-authoritative-transition"}
MCCrossPlatform == {"stale-review-ledger-command", "unknown-newer-format",
                    "interrupted-authoritative-transition"}
MCTrials == <<"post-commit-before-ack-process-kill", "post-publication-process-kill",
              "wal-checkpoint-interrupt">>

(* Every scenario the runners know, to be played step by step *)
MCScenes ==
    {"baseline-create-open-close", "append-correction-event", "attach-analysis-result",
     "stale-review-ledger-command", "stale-active-analysis-selection",
     "stale-analysis-attachment", "concurrent-writer-attempt", "unknown-newer-format",
     "derived-state-corruption", "canonical-reference-corruption", "semantic-duplication",
     "interrupted-authoritative-transition", "interrupted-compaction", "interrupted-cleanup"}

----------------------------------------------------------------------------
(* Contracts *)
MCRequiredBlockers == <<<<"a", "authority">>, <<"b", "durability">>>>
MCResolvedConflicts == {"MD-1", "MD-2"}

NotApplicable == [k \in {} |-> "text"]
WholeMeta(kind) == [k \in ToSet(MetadataFields(kind)) |-> "text"]
Single == [id |-> "s1", idShape |-> "text", missing |-> FALSE, text |-> "text", lists |-> "text",
           structure |-> "single", status |-> "partially_demonstrated",
           kind |-> "not_applicable", meta |-> NotApplicable, observed |-> "text",
           strengths |-> <<"InterfaceBehavior">>, target |-> <<"ProcessCrashRecovery">>,
           correction |-> "false", deferred |-> "absent", note |-> "absent",
           requirements |-> "absent", claim |-> "text", demonstrated |-> "text",
           subclaims |-> <<>>]
Sub(id, status, strengths) ==
    [id |-> id, idShape |-> "text", status |-> status, strengths |-> strengths,
     target |-> <<>>, text |-> "text"]
Multiple == [Single EXCEPT !.id = "s2", !.structure = "multiple", !.strengths = <<>>,
    !.target = <<>>, !.claim = "null", !.demonstrated = "null", !.observed = "null",
    !.subclaims = <<Sub("x", "partially_demonstrated", <<"LogicalStateTransition">>),
                    Sub("y", "not_demonstrated", <<>>)>>]
Lacking == [Single EXCEPT !.id = "s3", !.status = "Unsupported", !.observed = "null",
    !.strengths = <<>>, !.deferred = "true", !.note = "text", !.requirements = "text",
    !.kind = "unsupported_capability_not_executed",
    !.meta = WholeMeta("unsupported_capability_not_executed")]

(* A claim with each status and strengths, and what may go wrong in it *)
ClaimsOfSingle ==
    {[Single EXCEPT !.status = st, !.strengths = es, !.deferred = d, !.observed = o] :
        st \in Statuses \cup {"demonstrated"},
        es \in {<<>>, <<"InterfaceBehavior">>, <<"HardwarePowerLoss", "HardwarePowerLoss">>, <<"Luck">>},
        d \in {"absent", "true", "false", "other"}, o \in {"null", "text", "blank"}}
    \cup {[Single EXCEPT !.correction = c, !.claim = t, !.demonstrated = d, !.text = t] :
            c \in {"true", "false", "other"}, t \in {"text", "blank", "null"}, d \in {"text", "blank"}}
ClaimsOfMultiple ==
    {[Multiple EXCEPT !.subclaims = <<Sub("x", st, es), Sub(y, st2, <<>>)>>, !.status = parent] :
        st \in Statuses, es \in {<<>>, <<"CrossPlatform">>}, y \in {"x", "y"},
        st2 \in Statuses, parent \in Statuses \ {"Unsupported"}}
    \cup {[Multiple EXCEPT !.subclaims = <<>>], [Multiple EXCEPT !.strengths = <<"CrossPlatform">>],
          [Multiple EXCEPT !.deferred = "true"]}
Metadata ==
    UNION {{[Single EXCEPT !.kind = kind, !.meta = [WholeMeta(kind) EXCEPT ![f] = shape]] :
               f \in DOMAIN WholeMeta(kind), shape \in {"text", "blank", "entry", "other"}} :
           kind \in InvariantKinds}
    \cup {[Single EXCEPT !.kind = kind,
              !.meta = [k \in (DOMAIN WholeMeta(kind) \ drop) \cup add |-> "text"]] :
            kind \in InvariantKinds, drop \in {{}, {"observation_boundary", Flag}},
            add \in {{}, {"does_not_describe_observation_as"}, {"surprise"}}}
    \cup {[Lacking EXCEPT !.note = n, !.requirements = r, !.deferred = d, !.correction = c] :
            n \in {"text", "blank"}, r \in {"text", "absent", "empty"},
            d \in {"true", "false"}, c \in {"true", "false"}}

Contract == [version |-> "4", missing |-> FALSE, conflicts |-> [ids |-> <<"MD-1", "MD-2">>, prior |-> "accepted"],
             catalog |-> "1", exclusions |-> RequiredExclusions, falseSemantics |-> "accepted",
             scenarios |-> <<Single, Multiple, Lacking>>]
MCContracts ==
    {[Contract EXCEPT !.scenarios = <<s, Multiple>>] : s \in ClaimsOfSingle \cup Metadata}
    \cup {[Contract EXCEPT !.scenarios = <<Single, s>>] : s \in ClaimsOfMultiple}
    \cup {[Contract EXCEPT !.version = "3"], [Contract EXCEPT !.exclusions = {"NotRun"}],
          [Contract EXCEPT !.scenarios = <<Single, Single>>], [Contract EXCEPT !.scenarios = <<>>],
          [Contract EXCEPT !.conflicts.ids = <<"MD-1", "MD-1">>],
          [Contract EXCEPT !.conflicts.ids = <<"MD-1">>],
          [Contract EXCEPT !.conflicts.ids = <<"MD-2", "MD-1", "MD-3">>],
          [Contract EXCEPT !.conflicts.ids = <<"MD-1", "blank", "MD-2">>], Contract}
    \cup {[Contract EXCEPT !.conflicts.prior = prior] : prior \in {"other", "blank", "null"}}

Reclassification == [statement |-> "text", comparison |-> "not_ready", selection |-> "not_ready",
                     status |-> "none", blockers |-> [b \in ToSet(MCRequiredBlockers) |-> "not_demonstrated"]]
MCReclassifications ==
    {Reclassification, [Reclassification EXCEPT !.comparison = "ready"],
     [Reclassification EXCEPT !.statement = "blank"], [Reclassification EXCEPT !.statement = "other"],
     [Reclassification EXCEPT !.selection = "ready", !.status = "selected"],
     [Reclassification EXCEPT !.blockers = [b \in {} |-> "x"]],
     [Reclassification EXCEPT !.blockers = [b \in {<<"a", "authority">>} |-> "blocking_defect"]],
     [Reclassification EXCEPT !.blockers[<<"b", "durability">>] = "demonstrated"]}

----------------------------------------------------------------------------
MCInit == EvidenceInit /\ GateInit

PlayScene ==
    \/ \E runner \in {"host", "sqlite"}, id \in MCScenes : StartScene(runner, id)
    \/ PlayStep \/ EndScene

MCNext ==
    \/ scene = None /\ contract = Nothing /\ EvidenceNext /\ UNCHANGED gateVars
    \/ run = None /\ contract = Nothing /\ PlayScene /\ UNCHANGED <<harnessVars, runVars, gateVars>>
    \/ run = None /\ scene = None /\ GateNext /\ UNCHANGED evidenceVars

MCSpec == MCInit /\ [][MCNext]_<<evidenceVars, gateVars>> /\ EvidenceFairness
=============================================================================
