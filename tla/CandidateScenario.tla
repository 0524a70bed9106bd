-------------------------- MODULE CandidateScenario --------------------------
(* One evidence scenario run inside the runner's process, by the runner of    *)
(* both candidates (scenario_runner.rs, "host") or by the SQLite runner       *)
(* (sqlite_scenario_runner.rs, "sqlite").  The candidate under test may       *)
(* answer anything to a call and leave any content behind, but for one thing:  *)
(* a look at a session (a last read of it, the oracle's or the host runner's    *)
(* own) tells what is stored there and leaves it as it is.                    *)
EXTENDS Naturals, Sequences

CONSTANTS
    Scenarios,     \* scenario_catalog: the identities of the scenarios played
    Capable,       \* capability-dependent scenarios the candidate supports
    None

VARIABLE scene     \* the scenario being played, or the last one played

(* What the session holds: the fixture, the fixture with the command of the   *)
(* scenario applied, or something else; and what the command makes of it.     *)
Contents == {"initial", "after", "damaged", "spoilt"}
After(content) == CASE content = "initial" -> "after"
                    [] content = "damaged" -> "spoilt"
                    [] OTHER               -> "damaged"

Stale == {"stale-review-ledger-command", "stale-active-analysis-selection",
          "stale-analysis-attachment"}
Commanding == {"append-correction-event", "attach-analysis-result"}
CapabilityDependent == {"interrupted-compaction", "interrupted-cleanup"}

(* A step is a call and what the runner does with its answer: it fails unless *)
(* the answer is the one expected; "any" is not looked at, "kept" is looked   *)
(* at after the next call, "error" is every error, "must" panics on an error. *)
(* "compose" makes the command out of what was read "before" (semantic_ops.rs) *)
(* and "root" a directory for the scenario; neither is a call of a candidate.  *)
Call(op, expects) == [op |-> op, expects |-> expects]
Opened == <<Call("create", "ok"), Call("open", "ok")>>
Known == Opened \o <<Call("before", "ok")>>
Composed == Known \o <<Call("compose", "must")>>
Injected == <<Call("create", "ok"), Call("inject", "ok")>>
Closed == <<Call("close", "any")>>
Seen == <<Call("seen", "ok")>>

(* How the oracle's answer counts: "follow" makes it the status, "heed" fails *)
(* without it, "ignore" passes beside it, "constant" asks no oracle at all.   *)
Script(steps, oracle) == [steps |-> steps, oracle |-> oracle]

(* scenario_runner.rs reads back through the adapter itself; that it could not *)
(* apply the command to what it has read fails the scenario like a refusal.   *)
HostBaseline == Script(Opened \o Seen \o <<Call("close", "ok")>>, "follow")
HostCommand == Script(Composed \o <<Call("apply", "ok")>> \o Seen \o Closed, "follow")
\* variant: the session is read before the stale command is tried
HostStaleReadFirst ==
    Script(Composed \o <<Call("seen", "must"), Call("apply", "stale-precondition")>>, "follow")
HostStale ==
    Script(Composed \o <<Call("apply", "stale-precondition"), Call("seen", "must")>>, "follow")
HostConcurrent ==
    Script(Known \o <<Call("open", "kept")>> \o Closed
           \o <<Call("answer", "writer-already-open")>>, "constant")
HostNewer == Script(Injected \o <<Call("open", "unsupported-newer-format")>>, "constant")
HostDerived == Script(Injected \o <<Call("open", "ok")>> \o Seen, "follow")
HostCanonical == Script(Injected \o <<Call("open", "error")>>, "constant")
HostDuplication == Script(Opened \o <<Call("duplicate", "ok")>>, "constant")
HostInterrupted ==
    Script(Known \o Closed \o <<Call("inject", "any"), Call("open", "ok"), Call("compose", "must"),
                                Call("apply", "simulated-durability-failure")>>
           \o Closed \o <<Call("open", "ok")>> \o Seen, "follow")
HostCompaction ==
    Script(Opened \o <<Call("inject", "any"),
                       Call("compact", "simulated-compaction-interrupt")>>, "constant")

HostScript(id) ==
    CASE id \in Commanding                             -> HostCommand
      [] id \in Stale                                  -> HostStale
      [] id = "concurrent-writer-attempt"              -> HostConcurrent
      [] id = "unknown-newer-format"                   -> HostNewer
      [] id = "derived-state-corruption"               -> HostDerived
      [] id = "canonical-reference-corruption"         -> HostCanonical
      [] id = "semantic-duplication"                   -> HostDuplication
      [] id = "interrupted-authoritative-transition"   -> HostInterrupted
      [] id = "interrupted-compaction"                 -> HostCompaction
      [] OTHER                                         -> HostBaseline

(* sqlite_scenario_runner.rs has an independent oracle read the files *)
SqliteBaseline == Script(Opened \o Closed \o Seen, "ignore")
SqliteAppendUnchecked ==   \* variant: the oracle is not heeded before the retry
    Script(Composed \o <<Call("apply", "ok")>> \o Closed \o Seen
           \o <<Call("open", "must"), Call("apply", "kept")>> \o Closed
           \o <<Call("answer", "ok")>>, "heed")
SqliteAppend ==
    Script(Composed \o <<Call("apply", "ok")>> \o Closed \o Seen
           \o <<Call("heed", "ok"), Call("open", "must"), Call("apply", "kept")>> \o Closed
           \o <<Call("answer", "ok")>>, "heed")
SqliteAttach == Script(Composed \o <<Call("apply", "ok")>> \o Closed \o Seen, "ignore")
SqliteStale ==
    Script(Composed \o <<Call("apply", "kept")>> \o Closed
           \o <<Call("answer", "stale-precondition")>> \o Seen, "ignore")
SqliteNewer ==
    Script(Injected \o <<Call("open", "unsupported-newer-format"), Call("owner", "ok")>>,
           "constant")
SqliteDerived == Script(Injected \o Seen, "ignore")
SqliteCanonical == Script(Injected \o <<Call("open", "canonical-corruption")>>, "constant")
SqliteDuplication ==
    Script(Known \o <<Call("duplicate", "ok")>> \o Closed \o Seen
           \o <<Call("copy", "ok"), Call("heed", "ok")>>, "heed")
SqliteCompaction ==
    Script(Opened \o <<Call("compact", "simulated-compaction-interrupt")>> \o Closed \o Seen,
           "ignore")

SqliteScript(id) ==
    CASE id = "append-correction-event"        -> SqliteAppend
      [] id = "attach-analysis-result"         -> SqliteAttach
      [] id \in Stale                          -> SqliteStale
      [] id = "unknown-newer-format"           -> SqliteNewer
      [] id = "derived-state-corruption"       -> SqliteDerived
      [] id = "canonical-reference-corruption" -> SqliteCanonical
      [] id = "semantic-duplication"           -> SqliteDuplication
      [] id = "interrupted-compaction"         -> SqliteCompaction
      [] OTHER                                 -> SqliteBaseline

(* Left to worker processes by the SQLite runner *)
OfProcesses == {"concurrent-writer-attempt", "interrupted-authoritative-transition"}
Rooted(script) == Script(<<Call("root", "must")>> \o script.steps, script.oracle)
ScriptOf(runner, id) == IF runner = "host" THEN HostScript(id) ELSE Rooted(SqliteScript(id))

----------------------------------------------------------------------------
Result(status, oracle, code) == [status |-> status, oracle |-> oracle, code |-> code]
Failed == Result("Failed", None, None)
Unsupported == Result("Unsupported", None, None)
Panicked == Result("panic", None, None)

Results == [status : {"Passed", "Failed", "Unsupported", "panic"},
            oracle : {"passes", "fails", None},
            code : {None, "unsupported-newer-format", "canonical-corruption"}]

(* The host runner asks the candidate's capabilities; the SQLite runner knows *)
IsUnsupported(runner, id) ==
    \/ id = "interrupted-cleanup"
    \/ runner = "host" /\ id \in CapabilityDependent \ Capable

(* Only the SQLite runner records the code a rejected open answered with *)
ObservedCode(runner, id) ==
    IF runner = "sqlite" /\ id \in {"unknown-newer-format", "canonical-reference-corruption"}
    THEN IF id = "unknown-newer-format" THEN "unsupported-newer-format" ELSE "canonical-corruption"
    ELSE None

Conclusion(runner, id, oracle) ==
    Result(IF ScriptOf(runner, id).oracle = "follow" /\ oracle = "fails" THEN "Failed" ELSE "Passed",
           IF ScriptOf(runner, id).oracle = "constant" THEN "passes" ELSE oracle,
           ObservedCode(runner, id))

(* What the content is compared with *)
Expected(id, before) ==
    IF id \in Commanding THEN After(before)
    ELSE IF before = None THEN "initial" ELSE before
OracleOf(s) == IF s.seen = Expected(s.id, s.before) THEN "passes" ELSE "fails"

Codes == {"ok", "error", "stale-precondition", "writer-already-open",
          "unsupported-newer-format", "canonical-corruption",
          "simulated-durability-failure", "simulated-compaction-interrupt"}
Changing == {"create", "open", "before", "apply", "inject", "compact", "duplicate", "close"}

SceneInit == scene = None

StartScene(runner, id) ==
    /\ scene = None
    /\ ~(runner = "sqlite" /\ id \in OfProcesses)
    /\ scene' = [runner |-> runner, id |-> id, stored |-> "damaged", before |-> None,
                 seen |-> None, copy |-> None, answer |-> None, closing |-> None,
                 steps |-> IF IsUnsupported(runner, id) THEN <<>> ELSE ScriptOf(runner, id).steps,
                 result |-> IF IsUnsupported(runner, id) THEN Unsupported ELSE None]

(* How the runner goes on after an answer: it looks for the one it expects, or *)
(* for any error, or for none, or at nothing.                                *)
Meets(answer, expects) ==
    \/ expects \in {"any", "kept"} \/ answer = expects
    \/ expects = "error" /\ answer # "ok"
    \/ expects = "must" /\ answer = "ok"
Continued(s, answer, expects) ==
    IF Meets(answer, expects) THEN s
    ELSE [s EXCEPT !.result = IF expects = "must" THEN Panicked ELSE Failed]

(* What a call leaves behind in the session, and what the runner takes from it; *)
(* "closing" is what was stored when the session was last closed.            *)
Answered(s, step, answer, content, told) ==
    [s EXCEPT !.stored = content,
              !.closing = IF step.op = "close" THEN s.stored ELSE @,
              !.before = IF step.op = "before" THEN told ELSE @,
              !.seen = IF step.op = "seen" THEN content ELSE @,
              !.copy = IF step.op = "copy" THEN told ELSE @,
              !.answer = IF step.expects = "kept" THEN answer ELSE @]

(* What the runner does by itself: look at an answer it has kept, or at its    *)
(* oracle's; make the root; make the command, which takes a review case, a     *)
(* revision or an analysis: the fixture has them, another content may not.     *)
OwnAnswers(s, op) ==
    CASE op = "answer"  -> {s.answer}
      [] op = "heed"    -> {IF OracleOf(s) = "passes" /\ s.copy \in {None, s.before} THEN "ok" ELSE "error"}
      [] op = "compose" -> IF s.before \in {"initial", "after"} THEN {"ok"} ELSE {"ok", "error"}
      [] OTHER          -> {"ok", "error"}
OwnOps == {"answer", "heed", "compose", "root"}

PlayStep ==
    /\ scene # None /\ scene.result = None /\ scene.steps # <<>>
    /\ LET step == scene.steps[1]
           rest == [scene EXCEPT !.steps = Tail(@)]
       IN \/ /\ step.op \in OwnOps
             /\ \E answer \in OwnAnswers(scene, step.op) :
                   scene' = Continued(rest, answer, step.expects)
          \/ /\ step.op \notin OwnOps
             /\ \E answer \in Codes, content \in Contents, told \in Contents :
                   /\ step.op \in Changing \/ content = scene.stored
                   /\ scene' = Continued(Answered(rest, step, answer, content, told),
                                         answer, step.expects)

EndScene ==
    /\ scene # None /\ scene.result = None /\ scene.steps = <<>>
    /\ scene' = [scene EXCEPT !.result = Conclusion(scene.runner, scene.id, OracleOf(scene))]

SceneNext ==
    \/ \E runner \in {"host", "sqlite"}, id \in Scenarios : StartScene(runner, id)
    \/ PlayStep \/ EndScene

SceneSpec == SceneInit /\ [][SceneNext]_scene

----------------------------------------------------------------------------
(* What a scenario can end in, for a caller who does not look inside.        *)
Panics(runner, id) ==
    runner = "sqlite" \/ id \in Stale \cup Commanding \cup {"interrupted-authoritative-transition"}
Outcomes(runner, id) ==
    IF IsUnsupported(runner, id) THEN {Unsupported}
    ELSE {Failed}
         \cup (IF Panics(runner, id) THEN {Panicked} ELSE {})
         \cup {Conclusion(runner, id, oracle) : oracle \in
                  IF ScriptOf(runner, id).oracle \in {"ignore", "follow"}
                  THEN {"passes", "fails"} ELSE {"passes"}}

(* Every scenario ends in one of its outcomes: the runs that take a scenario   *)
(* as one step are told nothing a step-by-step play could contradict.         *)
ScenesEndAsAbstracted ==
    scene # None /\ scene.result # None => scene.result \in Outcomes(scene.runner, scene.id)

(* Scenarios that cannot notice a candidate which changed the session: their   *)
(* oracle compares a value with itself, or a retry comes after it.            *)
Unobserved ==
    {"host"} \X {"concurrent-writer-attempt", "unknown-newer-format",
                 "canonical-reference-corruption", "semantic-duplication",
                 "interrupted-compaction"}
    \cup {"sqlite"} \X {"unknown-newer-format", "canonical-reference-corruption",
                        "append-correction-event"}

(* And those that do not look again after the session is closed: the host's   *)
(* baseline, append and attach.                                              *)
EndsWithClose(runner, id) ==
    LET steps == ScriptOf(runner, id).steps
    IN Len(steps) > 0 /\ steps[Len(steps)].op = "close"

(* In every scenario but the unobserved, a candidate that leaves anything but  *)
(* what was promised, in the session or in its duplicate, does not pass with a *)
(* passing oracle, whatever it answered and whichever call that changes the    *)
(* session did the damage; of the scenarios that end with the close, whichever *)
(* call before that.  It rests on the look being right, as said above.        *)
DamageIsNoticed ==
    /\ scene # None /\ scene.result # None
    /\ scene.result.status = "Passed" /\ scene.result.oracle = "passes"
    /\ <<scene.runner, scene.id>> \notin Unobserved
    => /\ IF EndsWithClose(scene.runner, scene.id)
          THEN scene.closing = Expected(scene.id, scene.before)
          ELSE scene.stored = Expected(scene.id, scene.before)
       /\ scene.copy \in {None, scene.before}
=============================================================================
