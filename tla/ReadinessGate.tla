---------------------------- MODULE ReadinessGate ----------------------------
(* The readiness gate over the evidence: metadata.rs validates the claim     *)
(* contracts and the reclassification that people write after a run,         *)
(* aggregation.rs turns them into credited claims, blockers and a verdict.   *)
(* A JSON value is the shape its checks tell apart: "text", "blank", "null", *)
(* "absent", "other"; for a list of strings also "empty", "entry" (an entry  *)
(* that is not a string).                                                    *)
EXTENDS Naturals, FiniteSets, SequencesExt

CONSTANTS
    Contracts,            \* the contract documents somebody may submit
    Reclassifications,    \* and the reclassification documents
    RequiredBlockers,     \* REQUIRED_CANDIDATE_BLOCKERS: a sequence of <<candidate, field>>
    ResolvedConflicts,    \* REQUIRED_V4_RESOLVED_CONFLICT_IDS
    Nothing

VARIABLES contract, reclassification, verdict
gateVars == <<contract, reclassification, verdict>>

Statuses == {"partially_demonstrated", "not_demonstrated", "Unsupported"}
EvidenceStrengths == {"InterfaceBehavior", "LogicalStateTransition", "ProcessCrashRecovery",
                      "FilesystemDurability", "HardwarePowerLoss", "CrossPlatform"}
RequiredExclusions == {"Unsupported", "NotRun", "deferred", "capability_missing"}
BlockingClassifications ==
    {"not_demonstrated", "not_demonstrated_unsafe_under_wal", "insufficiently_demonstrated",
     "blocking_defect", "logical_transition_only", "authority_model_not_demonstrated"}

(* ReadinessBlockerCode: why documents are refused, and what holds them back *)
ReadinessBlockerCode ==
    {"EmptyRequiredString", "InvalidContract", "InvalidInvariantMetadata",
     "MissingInvariantField", "UnexpectedInvariantField", "InvalidUnsupportedScenarioShape",
     "DuplicateScenarioId", "DuplicateSubclaimId", "InvalidClaimStructure",
     "InvalidStatusEvidenceCombination", "InvalidFinalConflictCorrection",
     "MissingResolvedConflictId", "UnexpectedResolvedConflictId", "InvalidPriorReviewCommit",
     "UnsupportedContractVersion", "MissingReclassificationAuthority",
     "MissingCandidateSpecificBlockers", "MissingCandidateBlocker", "MalformedCandidateBlocker",
     "DeferredClaimNoCredit", "UnresolvedCorrectionRequired", "UnsupportedScenarioNoCredit",
     "NotDemonstratedSubclaim", "FailClosedInvariantActive", "MechanismBlockerRetained",
     "SelectionProhibitedWhileNotReady", "AggregationBlockedByMissingAuthority",
     "InternalInvariantViolation"}
ASSUME CodeAssumption == Nothing \notin ReadinessBlockerCode
(* The claims of a document are lists *)
IsList(x) == x \in Seq(ToSet(x))
ASSUME ContractsAssumption ==
    \A c \in Contracts : /\ IsList(c.scenarios)
                         /\ \A s \in ToSet(c.scenarios) : IsList(s.subclaims)

(* The checks run in order; the code of the first that fails, or Nothing *)
FirstFailure(checks) ==
    LET failed == {i \in DOMAIN checks : checks[i][1]}
    IN IF failed = {} THEN Nothing ELSE checks[Min(failed)][2]
FirstOf(codes) == FirstFailure([i \in DOMAIN codes |-> <<codes[i] # Nothing, codes[i]>>])

RequireText(shape) ==
    <<shape # "text", IF shape = "blank" THEN "EmptyRequiredString" ELSE "InvalidContract">>
RequireTexts(shape) ==
    <<shape # "text", CASE shape = "blank" -> "EmptyRequiredString"
                        [] shape = "empty" -> "MissingInvariantField"
                        [] shape = "entry" -> "InvalidContract"
                        [] OTHER           -> "InvalidInvariantMetadata">>

----------------------------------------------------------------------------
(* One claim's statement about itself *)
UnknownStrength(strengths) == ~(ToSet(strengths) \subseteq EvidenceStrengths)

\* variant: a claim may name no strength
StatusMisfitOfStrengths(status, strengths, observed, deferred, emptyAllowed) ==
    \/ strengths # <<>> /\ (status \in {"not_demonstrated", "Unsupported"} \/ deferred)
    \/ status = "Unsupported" /\ observed
StatusMisfit(status, strengths, observed, deferred, emptyAllowed) ==
    \/ strengths # <<>> /\ (status \in {"not_demonstrated", "Unsupported"} \/ deferred)
    \/ strengths = <<>> /\ status = "partially_demonstrated" /\ ~emptyAllowed
    \/ status = "Unsupported" /\ observed

(* Per invariant kind, the keys its metadata must have, in the order checked *)
Flag == "deferred_until_capability_exists"
MetadataFields(kind) ==
    CASE kind = "rejected_operation_no_mutation" ->
            <<"rejected_operation", "exact_error_or_policy_result",
              "independent_persisted_observation", "boundary_observed">>
      [] kind = "successful_read_after_external_artifact_mutation" ->
            <<"mutated_artifact", "observation_boundary", "does_not_establish">>
      [] kind = "pre_write_abort_no_authoritative_mutation" ->
            <<"aborted_operation", "exact_error_or_policy_result", "fault_point",
              "observation_boundary", "independent_persisted_observation">>
      [] kind = "unsupported_capability_not_executed" ->
            <<"missing_capability", "aggregation_exclusion", Flag>>
      [] kind = "not_applicable" -> <<>>
InvariantKinds ==
    {"rejected_operation_no_mutation", "successful_read_after_external_artifact_mutation",
     "pre_write_abort_no_authoritative_mutation", "unsupported_capability_not_executed",
     "not_applicable"}

(* meta maps the keys of the document to their shapes; the flag is "text" if true *)
FieldCheck(kind, field, shape) ==
    CASE field = Flag -> <<shape # "text", "InvalidUnsupportedScenarioShape">>
      [] kind \in {"rejected_operation_no_mutation",
                   "pre_write_abort_no_authoritative_mutation"} ->
            <<shape # "text", "MissingInvariantField">>
      [] field = "does_not_establish" -> RequireTexts(shape)
      [] OTHER -> RequireText(shape)

MetadataFailure(kind, meta) ==
    LET fields == MetadataFields(kind)
        keys == DOMAIN meta
        extra == "does_not_describe_observation_as"
        allowed == ToSet(fields) \cup
                   (IF kind = "rejected_operation_no_mutation" THEN {extra} ELSE {})
        present == SelectSeq(fields, LAMBDA f : f \in keys)
    IN IF kind = "not_applicable"
       THEN FirstFailure(<< <<keys # {}, "InvalidInvariantMetadata">> >>)
       ELSE FirstFailure(
              << <<~(ToSet(fields) \subseteq keys), "MissingInvariantField">> >>
              \o [i \in DOMAIN present |-> FieldCheck(kind, present[i], meta[present[i]])]
              \o << <<~(keys \subseteq allowed), "UnexpectedInvariantField">> >>
              \o (IF extra \in keys \cap allowed THEN <<RequireTexts(meta[extra])>> ELSE <<>>))

UnsupportedShapeFailure(s) ==
    FirstFailure(<< <<s.correction = "true" \/ s.deferred # "true",
                      "InvalidUnsupportedScenarioShape">>,
                    RequireText(s.note),
                    <<s.requirements = "absent", "InvalidUnsupportedScenarioShape">>,
                    RequireTexts(s.requirements) >>)

----------------------------------------------------------------------------
SubclaimFailure(s, i) ==
    LET c == s.subclaims[i]
    IN FirstFailure(
         << RequireText(c.idShape),
            <<\E j \in 1..(i - 1) : s.subclaims[j].id = c.id, "DuplicateSubclaimId">>,
            <<c.status \notin Statuses, "InvalidContract">>,
            <<UnknownStrength(c.strengths) \/ UnknownStrength(c.target), "InvalidContract">>,
            <<StatusMisfit(c.status, c.strengths, FALSE, FALSE, FALSE),
              "InvalidStatusEvidenceCombination">>,
            RequireText(c.text) >>)

SingleClaimFailure(s) ==
    FirstFailure(<< <<s.claim = "null", "InvalidClaimStructure">>,
                    RequireText(s.claim),
                    <<s.subclaims # <<>>, "InvalidClaimStructure">>,
                    <<s.demonstrated # "text", "EmptyRequiredString">> >>)

MultipleClaimsFailure(s) ==
    FirstOf(<< FirstFailure(<< <<\/ s.claim # "null" \/ s.demonstrated # "null"
                                 \/ s.strengths # <<>> \/ s.target # <<>>
                                 \/ s.subclaims = <<>>, "InvalidClaimStructure">> >>) >>
            \o [i \in DOMAIN s.subclaims |-> SubclaimFailure(s, i)])

(* validate_scenario_contract; text is the first of the required semantic     *)
(* strings that is not plain text, lists the first of the two string lists.  *)
ScenarioFailure(s) ==
    FirstOf(
     << FirstFailure(
          << RequireText(s.idShape),
             <<s.missing, "InvalidContract">>,
             RequireText(s.text),
             RequireText(s.lists),
             <<s.structure \notin {"single", "multiple"}, "InvalidClaimStructure">>,
             <<s.status \notin Statuses, "InvalidContract">>,
             <<s.kind \notin InvariantKinds, "InvalidContract">> >>),
        IF s.kind \in InvariantKinds THEN MetadataFailure(s.kind, s.meta) ELSE Nothing,
        FirstFailure(
          << <<s.observed \notin {"null", "text"},
               IF s.observed = "blank" THEN "EmptyRequiredString" ELSE "InvalidContract">>,
             <<UnknownStrength(s.strengths) \/ UnknownStrength(s.target), "InvalidContract">>,
             <<s.correction \notin {"true", "false"}, "InvalidContract">>,
             <<s.deferred \notin {"absent", "true", "false"}, "InvalidContract">> >>),
        IF s.status = "Unsupported" THEN UnsupportedShapeFailure(s) ELSE Nothing,
        FirstFailure(
          << <<StatusMisfit(s.status, s.strengths, s.observed = "text", s.deferred = "true",
                            s.structure = "multiple"),
               "InvalidStatusEvidenceCombination">> >>),
        IF s.structure = "single" THEN SingleClaimFailure(s) ELSE MultipleClaimsFailure(s) >>)

(* validate_final_conflict_correction: the ids one after the other, then all   *)
ConflictIdFailure(ids, i) ==
    FirstFailure(<< <<ids[i] = "blank", "EmptyRequiredString">>,
                    <<ids[i] \in {ids[j] : j \in 1..(i - 1)}, "InvalidFinalConflictCorrection">> >>)
ConflictFailure(c) ==
    FirstOf(
     << IF c.ids = <<>> THEN "InvalidFinalConflictCorrection" ELSE Nothing >>
     \o [i \in DOMAIN c.ids |-> ConflictIdFailure(c.ids, i)]
     \o << FirstFailure(
             << <<~(ResolvedConflicts \subseteq ToSet(c.ids)), "MissingResolvedConflictId">>,
                <<~(ToSet(c.ids) \subseteq ResolvedConflicts), "UnexpectedResolvedConflictId">>,
                <<c.prior \in {"absent", "null"}, "InvalidFinalConflictCorrection">>,
                <<c.prior = "blank", "EmptyRequiredString">>,
                <<c.prior # "accepted", "InvalidPriorReviewCommit">> >>) >>)

ContractFailure(c) ==
    FirstOf(
     << FirstFailure(<< <<c.version # "4", "UnsupportedContractVersion">>,
                        <<c.missing, "InvalidContract">> >>),
        ConflictFailure(c.conflicts),
        FirstFailure(<< <<c.catalog # "1", "InvalidContract">>,
                        <<~(RequiredExclusions \subseteq c.exclusions), "InvalidContract">>,
                        <<c.falseSemantics # "accepted", "InvalidContract">> >>) >>
     \o [i \in DOMAIN c.scenarios |->
          FirstOf(<< ScenarioFailure(c.scenarios[i]),
                     IF \E j \in 1..(i - 1) : c.scenarios[j].id = c.scenarios[i].id
                     THEN "DuplicateScenarioId" ELSE Nothing >>)])

(* blockers maps <<candidate, field>> to its classification *)
BlockerFailure(r, b) ==
    IF b \notin DOMAIN r.blockers THEN "MissingCandidateBlocker"
    ELSE IF r.blockers[b] \notin BlockingClassifications THEN "MalformedCandidateBlocker"
    ELSE Nothing

ReclassificationFailure(r) ==
    FirstOf(<< FirstFailure(<< <<r.statement \notin {"text", "blank"}, "MissingReclassificationAuthority">>,
                               <<\/ r.comparison # "not_ready" \/ r.selection # "not_ready"
                                 \/ r.status # "none", "MissingReclassificationAuthority">>,
                               <<DOMAIN r.blockers = {}, "MissingCandidateSpecificBlockers">> >>) >>
            \o [i \in DOMAIN RequiredBlockers |-> BlockerFailure(r, RequiredBlockers[i])])

----------------------------------------------------------------------------
(* aggregation.rs *)
Excluded(s) ==
    \/ s.status = "Unsupported"
    \/ s.deferred = "true"
    \/ s.kind = "unsupported_capability_not_executed"

Credit(s, sub, strengths) == [scenario |-> s.id, sub |-> sub, strengths |-> strengths]
When(holds, entry) == IF holds THEN {entry} ELSE {}

(* credit_scenario_evidence and the loop over the claims of a scenario *)
CreditsOf(s) ==
    IF Excluded(s) THEN {}
    ELSE When(/\ s.structure = "single" /\ s.status # "not_demonstrated"
              /\ s.strengths # <<>>, Credit(s, Nothing, s.strengths))
         \cup UNION {When(c.status = "partially_demonstrated" /\ c.strengths # <<>>,
                          Credit(s, c.id, c.strengths)) : c \in ToSet(s.subclaims)}

Blocker(code, scenario, sub) == [code |-> code, scenario |-> scenario, sub |-> sub]

BlockersOf(s) ==
    When(s.deferred = "true", Blocker("DeferredClaimNoCredit", s.id, Nothing))
    \cup When(s.correction = "true", Blocker("UnresolvedCorrectionRequired", s.id, Nothing))
    \cup When(Excluded(s) /\ (s.strengths # <<>> \/ s.status = "Unsupported"),
              Blocker("UnsupportedScenarioNoCredit", s.id, Nothing))
    \cup When(~Excluded(s) /\ s.structure = "single" /\ s.status = "not_demonstrated",
              Blocker("NotDemonstratedSubclaim", s.id, Nothing))
    \cup UNION {When(~Excluded(s) /\ c.status = "not_demonstrated",
                     Blocker("NotDemonstratedSubclaim", s.id, c.id))
                \cup When(~Excluded(s) /\ c.status = "Unsupported",
                          Blocker("UnsupportedScenarioNoCredit", s.id, c.id)) :
                    c \in ToSet(s.subclaims)}

(* What the reclassification holds back whatever the contract says; of a       *)
(* retained blocker's message only the candidate and the field are kept.      *)
RetainedBlockers(r) ==
    {Blocker("FailClosedInvariantActive", Nothing, Nothing)}
    \cup When(r.comparison = "not_ready" \/ r.selection = "not_ready",
              Blocker("MechanismBlockerRetained", Nothing, Nothing))
    \cup When(r.status # "none", Blocker("SelectionProhibitedWhileNotReady", Nothing, Nothing))
    \cup {Blocker("MechanismBlockerRetained", RequiredBlockers[i][1], RequiredBlockers[i][2]) :
             i \in DOMAIN RequiredBlockers}

(* evidence_strength_counts: every mention counts *)
StrengthCount(credits, strength) ==
    FoldSet(LAMBDA c, n : n + Len(SelectSeq(c.strengths, LAMBDA x : x = strength)), 0, credits)

StatusCounts(scenarios) ==
    [st \in {scenarios[i].status : i \in DOMAIN scenarios} |->
        Cardinality({i \in DOMAIN scenarios : scenarios[i].status = st})]

AggregateValidatedMetadata(c, r) ==
    LET scenarios == ToSet(c.scenarios)
        credits == UNION {CreditsOf(s) : s \in scenarios}
        blockers == (UNION {BlockersOf(s) : s \in scenarios}) \cup RetainedBlockers(r)
        comparison == IF blockers = {} THEN "ready" ELSE "not_ready"
        selection == IF comparison = "not_ready" \/ r.selection = "not_ready"
                     THEN "not_ready" ELSE "ready"
    IN [kind |-> IF comparison = "ready" /\ selection = "ready"
                 THEN "valid-ready" ELSE "valid-not-ready",
        comparison |-> comparison, selection |-> selection,
        status |-> IF comparison = "not_ready" \/ r.status # "none" THEN "none" ELSE r.status,
        credits |-> credits,
        strengthCounts |-> [x \in EvidenceStrengths |-> StrengthCount(credits, x)],
        statusCounts |-> StatusCounts(c.scenarios),
        blockers |-> blockers]

InvalidInputOutput(code) ==
    [kind |-> CASE code = "UnsupportedContractVersion" -> "unsupported-contract-version"
                [] code \in {"MissingReclassificationAuthority", "MissingCandidateBlocker",
                             "MissingCandidateSpecificBlockers", "MalformedCandidateBlocker"}
                        -> "aggregation-blocked"
                [] OTHER -> "invalid-input",
     comparison |-> "not_ready", selection |-> "not_ready", status |-> "none",
     credits |-> {}, strengthCounts |-> [x \in EvidenceStrengths |-> 0],
     statusCounts |-> <<>>, blockers |-> {Blocker(code, Nothing, Nothing)}]

EvaluatePersistenceReadiness(c, r) ==
    LET failure == FirstOf(<<ContractFailure(c), ReclassificationFailure(r)>>)
    IN IF failure = Nothing THEN AggregateValidatedMetadata(c, r) ELSE InvalidInputOutput(failure)

----------------------------------------------------------------------------
GateInit == contract = Nothing /\ reclassification = Nothing /\ verdict = Nothing

(* A reviewer writes both documents ... *)
Submit(c, r) ==
    /\ contract = Nothing
    /\ contract' = c /\ reclassification' = r
    /\ UNCHANGED verdict

(* ... and the gate answers. *)
Evaluate ==
    /\ contract # Nothing /\ verdict = Nothing
    /\ verdict' = EvaluatePersistenceReadiness(contract, reclassification)
    /\ UNCHANGED <<contract, reclassification>>

GateNext == (\E c \in Contracts, r \in Reclassifications : Submit(c, r)) \/ Evaluate

GateSpec == GateInit /\ [][GateNext]_gateVars

----------------------------------------------------------------------------
Judged == verdict # Nothing /\ verdict.kind \in {"valid-ready", "valid-not-ready"}

(* The claims of a scenario: the scenario itself, or its subclaims *)
Claims(s) ==
    IF s.structure = "single"
    THEN {[sub |-> Nothing, status |-> s.status, strengths |-> s.strengths]}
    ELSE {[sub |-> c.id, status |-> c.status, strengths |-> c.strengths] :
             c \in ToSet(s.subclaims)}

(* Credit goes only to a claim that itself says it is partially demonstrated, *)
(* for strengths it names, in a scenario that is neither unsupported, put off *)
(* nor about a missing capability: never to a sibling, a target or a parent.  *)
Earned(c) ==
    \E s \in ToSet(contract.scenarios) :
        /\ s.id = c.scenario
        /\ s.status # "Unsupported" /\ s.deferred # "true"
        /\ s.kind # "unsupported_capability_not_executed"
        /\ [sub |-> c.sub, status |-> "partially_demonstrated",
            strengths |-> c.strengths] \in Claims(s)
        /\ c.strengths # <<>> /\ ToSet(c.strengths) \subseteq EvidenceStrengths

(* Credit is earned, and no claim the gate has to judge falls silent: it is    *)
(* credited, or a blocker names it, and not both.  It holds because           *)
(* validation has already refused claims that say they are demonstrated and   *)
(* name no strength (credit_scenario_evidence, aggregate_validated_metadata). *)
EveryClaimIsAnswered ==
    Judged =>
        /\ \A c \in verdict.credits : Earned(c)
        /\ \A s \in ToSet(contract.scenarios) : ~Excluded(s) =>
            \A claim \in Claims(s) :
                (Credit(s, claim.sub, claim.strengths) \in verdict.credits)
                <=> (\A code \in {"NotDemonstratedSubclaim", "UnsupportedScenarioNoCredit"} :
                        Blocker(code, s.id, claim.sub) \notin verdict.blockers)
=============================================================================
