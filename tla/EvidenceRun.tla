----------------------------- MODULE EvidenceRun -----------------------------
(* One evidence run: its scenarios one after the other, in this process or     *)
(* with workers, the durability trials, the aggregation of runner.rs, the      *)
(* run's files, and the merge with the run of another platform.  "host" is     *)
(* bin/persistence_evidence_run.rs, "v2" .._sqlite_run.rs, "v3" .._v3_run.rs.  *)
EXTENDS ProcessHarness, FiniteSets, SequencesExt, Functions

CONSTANTS
    Catalog,         \* scenario_catalog: the sequence of scenario identities
    Required,        \* REQUIRED_SCENARIO_IDS
    CrossPlatform,   \* CROSS_PLATFORM_SCENARIO_IDS
    Trials,          \* the experiment of each trial, in order
    Capable          \* capability-dependent scenarios the candidate supports

VARIABLES
    scene,        \* a scenario played step by step (CandidateScenario)
    run,          \* the kind of the run
    at,           \* where the runner is
    todo,         \* scenarios, then trials, still to do
    results,      \* scenario -> its result
    trials,       \* the results of the durability trials so far
    report,       \* what aggregation made of the results
    files, sums,  \* the directory's files, and what checksums.json says of them
    peer, matrix  \* the other platform's results, and the comparison
runVars == <<run, at, todo, results, trials, report, files, sums, peer, matrix>>
evidenceVars == <<harnessVars, scene, runVars>>

Scenarios == ToSet(Catalog)
INSTANCE CandidateScenario
ASSUME ResultAssumption == None \notin Results

(* A run writes to the directory of its id, and finds there what an earlier   *)
(* run under that id, here one that was merged, has left.  "scenarios" are the *)
(* files of the single scenarios, in subdirectories like "platform" and "peer". *)
Artifacts(kind) ==
    CASE kind = "host" -> {"candidate-results", "comparison"}
      [] kind = "v2"   -> {"scenario-results", "scenarios", "process-events", "commands"}
      [] kind = "v3"   -> {"scenario-results", "scenarios", "platform", "trial-results", "commands"}
Merged == {"peer", "platform-matrix", "scenario-results", "commands"}

(* checksum_dir: that of the v2 run stays in the directory and takes its own   *)
(* earlier list for one of the files; the other two walk down and leave it out. *)
Nested == {"scenarios", "platform", "peer"}
ChecksumDir(kind, dir) ==
    Restrict(dir, DOMAIN dir \ (IF kind = "v2" THEN Nested ELSE {"checksums"}))
Earlier == [name \in Artifacts("v3") \cup {"summary", "checksums"} \cup Merged |-> "earlier"]

EvidenceInit ==
    /\ HarnessInit /\ SceneInit
    /\ run = None /\ at = "idle"
    /\ todo = <<>> /\ results = <<>> /\ trials = <<>> /\ report = None
    /\ files \in {<<>>, Earlier} /\ sums = ChecksumDir("v3", files)
    /\ peer = None /\ matrix = None

Selected(kind) ==
    IF kind = "v3" THEN SelectSeq(Catalog, LAMBDA id : id \in CrossPlatform) ELSE Catalog
StartRun(kind) ==
    /\ at = "idle" /\ run' = kind
    /\ at' = "scenario" /\ todo' = Selected(kind)
    /\ UNCHANGED <<harnessVars, scene, results, trials, report, files, sums, peer, matrix>>

(* f with this value at these names, which may be new to it.                  *)
Updated(f, names, value) ==
    [name \in DOMAIN f \cup names |-> IF name \in names THEN value ELSE f[name]]

Goto(place) ==
    /\ at' = place
    /\ UNCHANGED <<scene, run, todo, results, trials, report, files, sums, peer, matrix>>
Record(result) ==
    /\ results' = Updated(results, {Head(todo)}, result)
    /\ todo' = Tail(todo) /\ at' = "scenario"
    /\ UNCHANGED <<scene, run, trials, report, files, sums, peer, matrix>>
(* The answer of the harness is used up, a child that has ended is no more,    *)
(* and on return a held worker is dropped.                                   *)
Reaped(ws) == [s \in Slots |-> IF ws[s] # None /\ ws[s].exit # None THEN None ELSE ws[s]]
Forget == call' = NoCall /\ worker' = Reaped(worker)
Return(result) == Record(result) /\ call' = NoCall /\ worker' = Reaped(DropHeld)
Ended(place) == at = place /\ call.at = "done"

(* A panic of the runner takes the process, and its pipes, with it *)
Panic ==
    /\ Goto("crashed") /\ call' = NoCall /\ worker' = Reaped(DropHeld) /\ UNCHANGED store

Runner == IF run = "host" THEN "host" ELSE "sqlite"
ByProcesses == at = "scenario" /\ todo # <<>> /\ Runner = "sqlite" /\ Head(todo) \in OfProcesses
RunInProcess ==
    /\ at = "scenario" /\ todo # <<>> /\ ~ByProcesses
    /\ \E result \in Outcomes(Runner, Head(todo)) :
          IF result = Panicked THEN Panic ELSE Record(result) /\ UNCHANGED harnessVars

----------------------------------------------------------------------------
(* run_concurrent_writer: a held writer, a rejected attempt, the holder is    *)
(* killed, the lease runs out during the sleep, and the next attempt succeeds. *)
FreshRoot == store' = FreshStore
HoldWriter ==
    /\ ByProcesses /\ Head(todo) = "concurrent-writer-attempt"
    /\ Spawn("ready", "hold-writer", None) /\ FreshRoot /\ Goto("hold")
HeldOrNot ==
    /\ Ended("hold") /\ UNCHANGED store
    /\ IF call.outcome.class = "held" THEN Forget /\ Goto("attempt") ELSE Return(Failed)
AttemptWriter(place, next) ==
    /\ at = place /\ Spawn("spawn", "attempt-writer", None) /\ UNCHANGED store /\ Goto(next)
RejectedOrNot ==
    /\ Ended("rejection") /\ UNCHANGED store
    /\ IF "writer-already-open" \in ToSet(call.outcome.lines)
       THEN Forget /\ Goto("kill") ELSE Return(Failed)
KillHolder == at = "kill" /\ KillHeldWorker /\ Goto("sleep")
SleepPastLease ==
    /\ Ended("sleep") /\ Forget
    /\ store' = [store EXCEPT !.lapsed = TRUE] /\ Goto("takeover")
TookOverOrNot ==
    /\ Ended("taken") /\ UNCHANGED store
    /\ \/ /\ "ok" \in ToSet(call.outcome.lines)
          /\ Return(Result("Passed", "passes", None))
       \/ Return(Failed)                  \* refused, or the oracle found a change
ConcurrentWriter ==
    \/ HoldWriter \/ HeldOrNot \/ AttemptWriter("attempt", "rejection") \/ RejectedOrNot
    \/ KillHolder \/ SleepPastLease \/ AttemptWriter("takeover", "taken") \/ TookOverOrNot

----------------------------------------------------------------------------
(* run_interrupted_transition: a worker told to abort before the commit, and  *)
(* one told to abort after it; the session is then read, reopened, retried.   *)
Expectation(fault) == IF fault = "before-commit" THEN None ELSE "committed"
Unobservable == ~store.created
CrashWorker(fault, place) ==
    /\ Spawn("spawn", "apply-command-crash", fault) /\ FreshRoot /\ Goto(place)
CrashBeforeCommit ==
    /\ ByProcesses /\ Head(todo) = "interrupted-authoritative-transition"
    /\ CrashWorker("before-commit", "crashed-before")
Crashed == call.outcome.class \notin {"error", "Success"}
BeforeCommitJudged ==
    /\ Ended("crashed-before") /\ UNCHANGED store
    /\ \/ /\ Crashed /\ ~Unobservable /\ store.command = Expectation("before-commit")
          /\ Forget /\ Goto("crash-after")
       \/ Return(Failed)
CrashAfterCommit == at = "crash-after" /\ CrashWorker("after-commit", "crashed-after")
AfterCommitJudged ==
    /\ Ended("crashed-after")
    /\ \/ /\ Crashed /\ ~Unobservable /\ store.command = Expectation("after-commit")
          /\ store' = [store EXCEPT !.lapsed = TRUE]        \* the sleep
          /\ Forget /\ Goto("retry")
       \/ Return(Failed) /\ UNCHANGED store
RetryAfterCrash ==
    /\ at = "retry"
    /\ \/ /\ store.lapsed
          /\ store' = [store EXCEPT !.owner = None, !.command = "acknowledged"]
          /\ Return(Result("Passed", "passes", None))
       \/ Return(Failed) /\ UNCHANGED store
InterruptedTransition ==
    \/ CrashBeforeCommit \/ BeforeCommitJudged \/ CrashAfterCommit
    \/ AfterCommitJudged \/ RetryAfterCrash

----------------------------------------------------------------------------
(* durability_experiments and DurabilityTrialRunner *)
FaultOf(experiment) ==
    CASE experiment = "post-commit-before-ack-process-kill" -> "after-commit"
      [] experiment = "pre-commit-process-kill"             -> "before-commit"
      [] experiment = "post-publication-process-kill"       -> "after-publish"
      [] OTHER                                              -> None
Credits(experiment) ==
    IF FaultOf(experiment) \in {"after-commit", "after-publish"}
    THEN {"ProcessCrashRecovery"} ELSE {"InterfaceBehavior"}
TrialResult(outcome) ==
    [experiment |-> Head(todo), outcome |-> outcome,
     credited |-> IF outcome = "Passed" THEN Credits(Head(todo)) ELSE {}]
EndTrial(outcome) ==
    /\ trials' = Append(trials, TrialResult(outcome))
    /\ todo' = Tail(todo) /\ at' = "trial"
    /\ UNCHANGED <<scene, run, results, report, files, sums, peer, matrix>>

SpawnTrial ==
    /\ at = "trial" /\ todo # <<>> /\ FaultOf(Head(todo)) # None
    /\ Spawn("spawn",
             IF FaultOf(Head(todo)) = "after-publish" THEN "duplicate-and-crash"
             ELSE "apply-command-crash", FaultOf(Head(todo)))
    /\ FreshRoot /\ Goto("judge")
Survived == call.outcome.class \in {"error", "Success"} \/ ~IntentionalProcessAbort(call.outcome)
JudgeTrial ==
    LET fault == FaultOf(Head(todo))
        matches == IF fault = "after-publish" THEN store.published
                   ELSE store.command = Expectation(fault)
    IN /\ Ended("judge") /\ Forget /\ UNCHANGED store
       /\ \/ Survived /\ EndTrial("Failed")
          \/ ~Survived /\ ~Unobservable /\ matches /\ EndTrial("Passed")
          \/ ~Survived /\ ~matches /\ EndTrial(IF fault = "after-publish" THEN "Indeterminate"
                                               ELSE "Failed")
          \/ ~Survived /\ EndTrial("Indeterminate")        \* the session cannot be read

(* A returned error, whichever, is taken for the armed fault *)
LogicalTrial ==
    /\ at = "trial" /\ todo # <<>> /\ FaultOf(Head(todo)) = None
    /\ \E outcome \in {"Passed", "Failed"} : EndTrial(outcome)
    /\ UNCHANGED harnessVars
DurabilityTrials == SpawnTrial \/ JudgeTrial \/ LogicalTrial

----------------------------------------------------------------------------
(* EvidenceHarness::aggregate; the results are a function, so that of its     *)
(* issues only those of a result's content and of a missing result can arise. *)
StatusIssuesByPresence(id, result) ==   \* variant: an oracle need only be there
    IF result.status = "Passed" /\ result.oracle = None THEN {<<"PassedWithoutOracle", id>>} ELSE {}
StatusIssues(id, result) ==
    IF result.status # "Passed" THEN {}
    ELSE CASE result.oracle = None    -> {<<"PassedWithoutOracle", id>>}
           [] result.oracle = "fails" -> {<<"PassedWithFailingOracle", id>>}
           [] OTHER                   -> {}
Issues(rs) ==
    {<<"MissingRequiredScenario", id>> : id \in Required \ DOMAIN rs}
    \cup UNION {StatusIssues(id, rs[id]) : id \in DOMAIN rs}
Eligibility(rs) ==
    IF \/ \E id \in DOMAIN rs : rs[id].status = "Failed"
       \/ \E id \in Required \cap DOMAIN rs : rs[id].status = "Unsupported"
       \/ \E issue \in Issues(rs) : issue[1] # "MissingRequiredScenario"
    THEN "NotEligible"
    ELSE IF rs = <<>> \/ Issues(rs) # {} THEN "Inconclusive"
    ELSE "EligibleForComparison"

(* The SQLite runners call their own eligibility inconclusive whatever it is  *)
ReportedAsAggregated(rs) == Eligibility(rs)   \* variant: what was aggregated is what is reported
ReportedEligibility(rs) == IF Runner = "host" THEN Eligibility(rs) ELSE "Inconclusive"
Aggregate ==
    /\ at = "scenario" /\ todo = <<>>
    /\ report' = [issues |-> Issues(results), eligibility |-> ReportedEligibility(results)]
    /\ at' = IF run = "v3" THEN "trial" ELSE "write"
    /\ todo' = IF run = "v3" THEN Trials ELSE <<>>
    /\ UNCHANGED <<harnessVars, scene, run, results, trials, files, sums, peer, matrix>>

----------------------------------------------------------------------------
(* The files, each with the step that wrote it.  A write that fails panics;    *)
(* no step of this run looks at what it has half written.  So does a root that *)
(* cannot be made: before a run of the host, a scenario with processes, a trial. *)
Written(names) == Updated(files, names, at)
KeepRun == UNCHANGED <<harnessVars, scene, run, todo, results, trials, report>>

WriteArtifacts ==
    /\ at = "write" \/ (at = "trial" /\ todo = <<>>)
    /\ files' = Written(Artifacts(run))
    /\ at' = IF Runner = "host" THEN "written" ELSE "sum"
    /\ KeepRun /\ UNCHANGED <<sums, peer, matrix>>
(* The checksums come before the summary, and before the matrix of a v3 run.  *)
WriteChecksums ==
    /\ at = "sum" /\ at' = "summarise"
    /\ sums' = ChecksumDir(run, files) /\ files' = Written({"checksums"})
    /\ KeepRun /\ UNCHANGED <<peer, matrix>>
(* The summary counts the trials, and is the last to look at them.            *)
WriteSummary ==
    /\ at = "summarise" /\ files' = Written({"summary"})
    /\ at' = IF run = "v3" THEN "peer" ELSE "written"
    /\ trials' = <<>>
    /\ UNCHANGED <<harnessVars, scene, run, todo, results, report, sums, peer, matrix>>
WriteFails ==
    /\ \/ at \in {"write", "sum", "summarise", "trial"}
       \/ ByProcesses \/ (run = "host" /\ at = "scenario" /\ results = <<>>)
    /\ Panic

(* cross_platform.rs.  The fingerprints of two passing oracles agree, those   *)
(* of a passing and a failing one differ, and those of two failing ones may.  *)
FingerprintsMatch(m, w, alike) ==
    m.oracle = w.oracle /\ (m.oracle # "fails" \/ alike)
AllowsDrift(id) == id \in OfProcesses
CodesMatch(id, m, w) ==
    /\ m.code = w.code
    /\ m.code = None => id \notin {"unknown-newer-format", "canonical-reference-corruption"}
CompareScenario(id, m, w, alike) ==
    IF /\ m.status = "Passed" /\ w.status = "Passed" /\ CodesMatch(id, m, w)
       /\ FingerprintsMatch(m, w, alike) \/ AllowsDrift(id)
    THEN "credited" ELSE "different"
PlatformMatrix(mine, theirs, alike) ==
    [id \in CrossPlatform |->
        IF id \in DOMAIN mine /\ id \in DOMAIN theirs
        THEN CompareScenario(id, mine[id], theirs[id], alike)
        ELSE IF id \in DOMAIN mine \cup DOMAIN theirs THEN "missing" ELSE "not-compared"]

(* What another platform's run may have come to *)
PeerResults ==
    {rs \in [CrossPlatform \cap Scenarios ->
                UNION {Outcomes("sqlite", id) : id \in Scenarios \ OfProcesses}
                \cup {Failed, Result("Passed", "passes", None)}] :
        \A id \in DOMAIN rs : rs[id] # Panicked
            /\ (id \notin OfProcesses => rs[id] \in Outcomes("sqlite", id))
            /\ (id \in OfProcesses => rs[id] \in {Failed, Result("Passed", "passes", None)})}
Compared(rs) ==
    /\ peer' = rs
    /\ \E alike \in BOOLEAN : matrix' = PlatformMatrix(results, rs, alike)
(* merge_peer_platform, when the environment names a peer: the matrix alone.  *)
MergePeer ==
    /\ at = "peer" /\ at' = "written"
    /\ \/ /\ \E rs \in PeerResults : Compared(rs)
          /\ files' = Written({"platform-matrix"})
       \/ UNCHANGED <<files, peer, matrix>>             \* no peer, or unreadable
    /\ KeepRun /\ UNCHANGED sums

(* bin/persistence_evidence_v3_merge.rs: the peer's directory is copied in,   *)
(* results and commands are written over, and the checksums come last.        *)
MergePlatformsSummedFirst ==   \* variant: the checksums are taken before the writes
    /\ at = "written" /\ run = "v3" /\ peer = None
    /\ \E rs \in PeerResults : Compared(rs)
    /\ files' = Updated(files, Merged \cup {"checksums"}, "merge")
    /\ sums' = ChecksumDir("v3", files) /\ at' = "merged"
    /\ KeepRun
MergePlatforms ==
    /\ at = "written" /\ run = "v3" /\ peer = None
    /\ \E rs \in PeerResults : Compared(rs)
    /\ files' = Updated(files, Merged \cup {"checksums"}, "merge")
    /\ sums' = ChecksumDir("v3", files') /\ at' = "merged"
    /\ KeepRun

WritingFiles == WriteArtifacts \/ WriteChecksums \/ WriteSummary \/ WriteFails \/ MergePeer

----------------------------------------------------------------------------
RunnerStep ==
    \/ RunInProcess \/ ConcurrentWriter \/ InterruptedTransition \/ DurabilityTrials
    \/ Aggregate \/ WritingFiles
    \/ HarnessStep /\ UNCHANGED <<scene, runVars>>
WorkerStepOf(s) == WorkerStep(s) /\ UNCHANGED <<scene, runVars>>
FirstLineOf(s) == worker[s] # None /\ worker[s].at = "setup" /\ WorkerStepOf(s)

(* Only the second writer looks at the first one's lease *)
LeaseRunsOut == at = "rejection" /\ LeaseLapses /\ UNCHANGED <<scene, runVars>>

EvidenceNext ==
    \/ \E kind \in {"host", "v2", "v3"} : StartRun(kind)
    \/ RunnerStep \/ MergePlatforms
    \/ \E s \in Slots : WorkerStepOf(s)
    \/ Deadline /\ UNCHANGED <<scene, runVars>>
    \/ LeaseRunsOut

(* The runner goes on whenever it can, time passes, a called worker gets as   *)
(* far as its first line, and a worker that is held goes on when let go.      *)
EvidenceFairness ==
    /\ WF_evidenceVars(RunnerStep)
    /\ WF_evidenceVars(Deadline /\ UNCHANGED <<scene, runVars>>)
    /\ WF_evidenceVars(FirstLineOf("called"))
    /\ WF_evidenceVars(WorkerStepOf("held"))

EvidenceSpec == EvidenceInit /\ [][EvidenceNext]_evidenceVars /\ EvidenceFairness

----------------------------------------------------------------------------
AtRest == {"idle", "written", "merged", "crashed"}

(* A trial is credited with recovery from a crash, and the interrupted         *)
(* transition passes, only after a worker that died with its change made and   *)
(* its answer not given: of its own abort in a trial, which alone counts as    *)
(* the intended crash, of that or the harness's kill in the scenario.         *)
CreditedCrashesHappened ==
    [][/\ Len(trials') > Len(trials) /\ "ProcessCrashRecovery" \in Last(trials').credited
          => /\ worker["called"].exit = "abort"
             /\ store.command = "committed" \/ store.published
       /\ at # "retry" /\ at' = "retry"
          => worker["called"].exit \in {"abort", "killed"} /\ store.command = "committed"
       /\ \A id \in DOMAIN results' \ DOMAIN results :
             id = "interrupted-authoritative-transition" /\ Runner = "sqlite"
             /\ results'[id].status = "Passed"
             => at = "retry" /\ store'.command = "acknowledged"]_evidenceVars

(* A run that says it is eligible for comparison is a run of both candidates,  *)
(* with every required scenario passed by an oracle that passed, and no       *)
(* scenario that failed.                                                     *)
EligibleMeansVerified ==
    report # None /\ report.eligibility = "EligibleForComparison" =>
        /\ run = "host" /\ Required \subseteq DOMAIN results
        /\ \A id \in Required : results[id].status = "Passed" /\ results[id].oracle = "passes"
        /\ \A id \in DOMAIN results : results[id].status # "Failed"

(* The comparison of two platforms credits a scenario without asking whether   *)
(* its oracle passed; where it did not, the run's own results say so.         *)
CreditedOrFlagged ==
    matrix # None =>
        \A id \in DOMAIN matrix : matrix[id] = "credited" =>
            /\ results[id].status = "Passed" /\ peer[id].status = "Passed"
            /\ results[id].oracle = "fails" => <<"PassedWithFailingOracle", id>> \in report.issues

(* checksums.json is right about the files a reader compares: about all of    *)
(* them after a merge; after a v3 run about all but the two written later;    *)
(* after a v2 run about those of the top directory, where an earlier list may  *)
(* have left a stale line about itself.                                      *)
Unsummed == {name \in DOMAIN files : name \notin DOMAIN sums \/ sums[name] # files[name]}
ChecksumsHold ==
    /\ at = "merged" => Unsummed = {"checksums"}
    /\ at = "written" /\ run = "v3" => Unsummed \subseteq {"checksums", "summary", "platform-matrix"}
    /\ at = "written" /\ run = "v2" => Unsummed \subseteq {"checksums", "summary"} \cup Nested
    /\ DOMAIN sums \subseteq DOMAIN files

(* Every run comes to an end, whatever its workers do after their first line;  *)
(* and no worker outlives for ever the scenario that started it.              *)
RunsEnd == (at \notin AtRest) ~> (at \in AtRest)
WorkersEnd == \A s \in Slots : Alive(s) ~> ~Alive(s)
=============================================================================
