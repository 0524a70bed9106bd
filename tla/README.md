# VoxProof: a TLA+ verification project

VoxProof reviews machine transcripts: it finds suspicious terms, lets a person decide about
them, and writes a corrected transcript. Next to that program the repository holds a persistence
study: two candidates that store a review session durably, and a harness that crashes them and
compares what they recover. This project models the parts of both where order, failure and
concurrency matter, checks them with TLC and proves the central results with TLAPS.

## Inventory of the system

| Part (src/...) | State it keeps | Operations | What is hard | What makes it correct |
|---|---|---|---|---|
| Session content: `persistence_evidence/{model,adapter,oracle}.rs`, `candidates/semantic_ops.rs` | ledger, analyses, selection, artifacts (and collections no command changes) | append, attach, select, cleanup, each with preconditions | optimistic preconditions, replay of a command on retry | references resolve, history only grows |
| SQLite candidate: `candidates/embedded_relational.rs`, `canonical_sql_reader.rs`, `candidates/fault.rs` | canonical tables, applied commands, derived cache, writer ownership row (token, epoch, lease) | create, open, close, apply, read, duplicate, compact | several processes, stale loads, leases and a clock that may go back, crash at any statement | one writer at a time, no lost update, a command at most once, an answer only for what is stored |
| Append-bundle candidate: `candidates/append_bundle.rs` | manifest with a token, log, checkpoint, derived file | same | several files, no transaction over them | same |
| Ranker invocation: `experimental_ranking.rs` | child process, three pipe threads, deadline | spawn, drain, write, wait, kill, validate | threads, pipes that stay open, limits, a deadline racing the exit | bounded time and memory, exactly one classified outcome |
| Transcript: `transcript.rs`, `anchor.rs`, `srt.rs` | ordered segments of bytes | parse, validate, anchor, resolve | character boundaries, numeric edges | what is written parses as what was meant |
| Candidate pipeline: `session_terms.rs`, `candidate.rs`, `analysis.rs`, `phonetic.rs`, `pipeline.rs` | none (pure) | parse terms, detect, identify, order | rules of the parser and of the detectors that must agree, several owners of one place | a key names one case, every case can be decided |
| Review and reviewed output: `review.rs`, `reviewed_output.rs` | append-only decision ledger | record, status, derive, serialize | overlapping and touching edits, replacements of another length | the output differs from the source only by accepted edits |
| Experiment: `experimental_retrieval.rs`, `experimental_ranking.rs` | suggestions, rankings, markers, a sidecar file | retrieve, rank, select | limits and orders, two kinds of question asked of one input | an experiment changes nothing of a review |
| Logs and joins: `session_log.rs`, `session_summary.rs`, `calibration.rs`, `calibration_join.rs` | files written once | render, collect, build, join | a divide and conquer on characters reported in bytes, an overlap graph, two commands with one destination | counts agree, edits are minimal, nothing is overwritten |
| Scenarios and harness: `scenario.rs`, `scenario_runner.rs`, `sqlite_scenario_runner.rs`, `process_harness.rs`, `independent_oracle.rs`, worker binary | worker processes, pipes, a deadline | run, hold, kill, restart, judge | a worker that hangs, dies or answers late; a judgement that must not credit what did not happen | every scenario ends and is judged by what was stored |
| Evidence runs: `durability.rs`, `runner.rs`, `cross_platform.rs`, `metadata.rs`, `aggregation.rs`, `readiness_result.rs`, run and merge binaries | results, trials, files and their checksums, contract documents | aggregate, write, compare, merge, gate | an order of writes, claims judged by rules in two places | eligibility and credit follow from results |

`main.rs` is the front end: `review` parses two files, raises cases, asks about each, derives the
transcript and writes three files; `experiment` does the same after it has shown suggestions;
`compare` and `evaluate` read two transcripts and write one report. The evidence binaries drive a
storage candidate through the adapter trait of `adapter.rs`, inside their own process or through
worker processes. The two candidates share `semantic_ops.rs`; `oracle.rs` compares what they hold.
`PROJECT.json` lists the components with their status and the hazards with their lines.

## Modules

`SessionContent` is the data: the collections a command can change and what the four commands,
their preconditions and the retry verification do to them (`semantic_ops.rs`, parts of
`oracle.rs`, `derive_pre_state_for_verify`).

`SessionStore` is the abstract specification of a storage candidate: content, what each
`command_operation_id` has done, and which commands were answered `Ok`. Its three actions are
the atomic application of a command, its acknowledgement and the answer.

`SqliteSession` is the embedded-relational candidate. Each process has one adapter and at most
one writable handle. The variables are the tables of `initialize_schema` (`content`, `record`
= `applied_authoritative_commands`, `cache` = `derived_cache`, `owner` = the `writer_ownership`
row), what a process holds in memory (`handle`, `lastClock`, `job`), the wall clock and a supply
of fresh tokens. `apply_authoritative_command` is split where other processes can interleave:

| Code | Action |
|---|---|
| clock, lookup of the identifier | `SubmitNew`, `SubmitAgain`, `SubmitRefused` |
| `load_canonical_state` (separate SELECTs) | `LoadLedger`, `LoadRest` |
| BEGIN DEFERRED, ownership check, `apply_command` in memory | `Begin` |
| table rewrite, command row, lease renewal, COMMIT | `Commit`, `CommitFails` |
| reconciliation, acknowledgement, `Ok` | `Verify`, `Acknowledge`, `Reply` |
| an error from any of them, a `ReturnError` fault | `ApplyFails` |
| `ProcessAbort` fault, or the process dies | `Crash` |

SQLite is external. A deferred transaction sees the snapshot of its first read, and its first
write fails if anything was committed since; `fresh` is the set of processes whose snapshot is
still current. From the first write to COMMIT other writers are excluded, which is why both are
one action.

`SqliteReader` adds a read-only handle to it, which reads with SELECTs that each have a snapshot
of their own and may rewrite the derived cache.

`SqliteDuplication` is `duplicate_session` of the same candidate. Its source session is seen from
outside (how many commands were committed, whom the ownership row would confirm). Each step of
the code at which an error can end the call is an action: `Start` (load and existence check),
`CreateDirectory` (the guard is armed), `Revalidate`, `Copy` (the SQLite backup), `ChangeIdentity`, `Validate`,
`Publish` (the rename, the guard is disarmed), `VerifyPublished`, `VerifySource`. `DuplicateFails`
is any `?` between them together with the guard's `Drop`; `Dies` is a process abort, which runs no
`Drop`. A file is followed by its connection, a name by the directory, because the guard removes
names while another process has the file open.

`AppendBundle` is the append-bundle candidate: `manifest.json`, the checkpoints, `canonical.log`
with the numbers of its records, the derived cache and the directory of a duplicate, next to the
adapter's handles. The candidate has no inter-process protocol but a token in its manifest, so
one process uses it at a time; what interleaves with its calls are errors and its death. Every
write of a call is an action (`AppendRecord`, `WriteCheckpoint`, `RebuildIndex`, `WriteManifest`,
`Reply`; `CompactCheckpoint`, `TruncateLog`, `PublishCompaction`; `CopyDirectory`,
`RenameDuplicate`, `SaveDuplicateState`), and before each of them the call may fail (`CallFails`)
or the process die (`Dies`), with what an interrupted write can leave (`HalfDone`). The content is
the sequence of commands that made it.

`ExternalRanker` is one call of `external_command`. The runner's loop is a program counter
(`step`): it polls three channels, looks at the limit flags and worker failures (`CheckLimits`),
calls `try_wait` (`TryWait`), compares the deadline (`CheckDeadline`), and after the loop waits for
the threads (`PollWait`, `KeepWaiting`) and answers (`AnswerUnwaited`, `AnswerExited`, `Validate`).
Each of these reads something another party may change between two of them, which is why they are
separate. The writer and the two reader threads are `WriteRequest`, `DrainStream` and `EndStream`.
Pipes, the child and its descendants are external: they may do anything the operating system
allows them, in chunks. The clock is the time that is left.

`Transcript` is the SRT parser and writer, the issues of a transcript and anchors, over texts that
are sequences of bytes: a match counts bytes, a cue may hold characters of two or three, and an
anchor inside one of them is refused. A line of a file is what it parses as where it stands.

`SessionTerms` is the parser of the terms file with its errors in their order, the entries the
detectors refuse and the run they are bound to. `TermDetection` is the three detectors, the order
of their spans and the cases numbered in it. The phonetic key is a constant (Double Metaphone is a
library); the edit distance is computed row by row as in the code.

`ReviewSession` is the review command: it reads and parses the two files (`ReadInputs`,
`ParseSessionTerms`, `ParseTranscript`), reports issues, detects, records one decision for each
case (`Decide`, `InputEnds`, `AllDecided`), derives the transcript (`Accepted`, `Edits`, `Refused`,
`Reviewed`) and writes three files in order (`Write`, `WriteFails`).

`ExperimentalRetrieval` is the suggestions (Latin windows and Han runs, their distances, filters,
order and limit) and the rules of the rankings. `ExperimentSession` is the experimental command: a
review session with suggestions shown before its cases, one selection per place, and a sidecar.

`LocalEdits` is the difference of two texts (Hirschberg's algorithm and the edits between its
matches), `CalibrationJoin` the commands `compare` and `evaluate`: compatibility, records, overlap
graph with its union-find, summary, and the exclusive write of the report. Two commands run side
by side, with the same or another destination.

`CandidateScenario` plays one scenario of the evidence catalog inside the runner's process, call
by call. The candidate may answer anything to every call, its first read included, and leave any
content behind after every call that changes a session, closing it included (a close writes the
ownership row or the manifest). One thing is assumed of it: the look that ends a scenario, the
runner's last read or the independent oracle's, tells what is stored and leaves it. A scenario is a
script of calls, each with the answer the runner expects, and of the runner's own steps that can
panic: making the scenario's root, and making the command out of what was read, which takes a review
case, a revision or an analysis that a wrong content does not have.

`ProcessHarness` is the parent of a scenario with workers and the workers themselves: pipes, the
one line of the handshake, the deadline, kills, and the little of a session that such scenarios
look at (`SqliteSession` models it in full). `EvidenceRun` composes it with the runs: scenarios in
their order (those of `CandidateScenario` in one step that ends in one of its outcomes), durability
trials, aggregation, the files with their checksums, the comparison with another platform, the
merge. `ReadinessGate` validates the contract and reclassification documents and turns them into
credits, blockers and a verdict. `MCEvidence` puts the three beside each other and lets one of
them happen at a time.

The modules whose names begin with MC give the constants their values; those ending in Proofs
hold the theorems.

## Runs

| Run | Question | Instance | Result |
|---|---|---|---|
| `sqlite_commands` | Does the SQLite candidate implement the abstract store? | two processes, two appends that race on an empty ledger and, under the same identifiers, an attachment and the selection that depends on it; lease of 1 tick, three tokens, a clock that may go back | holds |
| `sqlite_orphan` | Is a token left by a dead process replaced? | two processes, one cleanup, clock up to 3 | holds under fairness |
| `sqlite_retry` | Is a committed but unacknowledged command always reconciled on retry? | two processes, three appends | violated: see Findings |
| `reader_growing` | Do the reads of a read-only handle ever go back, and does the cache run ahead of the ledger? | two writers, one reader, two appends | holds |
| `duplication` | What can be found at the destination of a duplication? | two owners of the source, one of which duplicates; two commits, three temporary files, deaths and failed clean-ups | holds |
| `duplication_stale` | The same answer when both owners duplicate | both duplicate, clean-ups succeed | violated |
| `bundle` | Is the manifest the one commit point, through errors, deaths and compactions? | two commands, generations and log of at most 3, two handle numbers | holds |
| `bundle_retry` | Does a session answered Ok open again? | as above with errors only | violated |
| `ranker` | Does the call end, and is what it accepts the whole output of a child that succeeded? | requests below and over the limit, pipes of one chunk, an output of two chunks over a limit of one, deadline and grace of one tick | holds |
| `sessions` | Do a session's parts agree: keys, decisions, splicing, files, and is an experiment a review? | 12 transcripts with 12 terms files for the review alone (six and five of them well formed), three with three for experiments; every decision, every selection, a failure at every file | holds |
| `join` | Are the reported edits minimal and right, do the counts agree, is anything overwritten? | pairs of transcripts that differ by insertions, deletions and replacements of one-byte and two-byte characters, refused and malformed pairs, both commands side by side | holds |
| `evidence` | Is every credit earned, does every run end, are the checksums right? | a catalog of five scenarios, three of them compared across platforms, three trials, all three run binaries, every peer; all fourteen scenarios of the catalog call by call, by both runners; contracts right but for one or two parts | holds |

The bounds are those the hazards need.

* *Storage.* Two processes and three tokens are one takeover and one more acquisition after it, by
  which a stale writer meets a successor and the successor's successor; a lease of one tick expires
  at any moment of a call. The four commands include two that exclude each other, one that becomes
  applicable only after another, and two identifiers that are used twice. In the bundle, two
  generations are the smallest number in which a checkpoint may be confused with the one the
  manifest names, and three let an interrupted call be followed by a compaction and a retry.
* *Ranker.* One chunk more than a limit or a pipe is the boundary; a second chunk more changes no
  guard. stderr carries no data in the run, because `drain_stream` is the same code for both
  streams and the two limit flags are only ever combined by an or; it can still be held open,
  closed or fail.
* *Sessions.* Texts of a few letters raise matches of all three detectors that are disjoint, touch,
  nest, overlap and coincide, in cues of one and of two lines and beside characters of two and three
  bytes. The phonetic key drops the vowel, and the second key makes the consonants alike, so that
  terms with and without a common key exist. Two suggestions are kept per place and three compete.
* *Join.* Texts have up to six characters, so that the division reaches both halves twice; the
  overlap graph has cases of several edits, edits of several cases and chains of both, which the
  union-find has to join through roots that moved. The work budget is small enough to be exceeded.
* *Evidence.* The catalog has one scenario of every way to be judged: in process, with two writers,
  interrupted and resumed, dependent on a capability, and with an oracle that may disagree. A
  trial of each kind of abort, and one the harness only simulates, follow. The directory is fresh or
  holds an earlier merge. The lease of a held writer lapses only while the second writer looks at
  it, for nothing else reads it. The run of another platform is any the model itself can produce.
  The run of the host binary is one candidate's run. Documents vary one claim at a time, because the
  validator judges each claim by itself; what relates claims (identifiers used twice, subclaims and
  their parent) varies in pairs.

Deadlock is checked in `sqlite_commands`, `sqlite_retry` and `reader_growing`; the other models end
when their call, session or bound ends, as their cfg files say.

## Findings

* `sqlite_retry`. A command is verified on retry by undoing its effect in the current state and
  applying it again, which appends its event at the end. If another event was appended since, the
  result differs and the command can never be acknowledged.
* `duplication_stale`. Whether the destination exists is asked before ownership is checked. A
  writer whose lease ran out in between fails, and its guard removes the directory even when the
  new owner has published there and been answered Ok.
* `bundle_retry`. A command that fails after its log record was written leaves the record. The
  retry writes the same number again, is answered Ok, and no open accepts the log any more.

More facts, of which no run is made:

* After a compaction of the bundle `committed_seq` stays while the log begins anew, so that the next
  applied command writes a number the replay refuses.
* A cleanup plan removes every artifact whose identity contains its name, those that retention
  references name included. The command is committed and the session fails the validation of every
  later load. MD-014 lists "referenced artifacts are not deleted" among the rules a persistence
  mechanism, yet to be selected, must keep; `Effect` and `Valid` of `SessionContent` show that the
  study's candidates do not keep it.
* A duplication of the bundle that is interrupted after the copy leaves a directory that opens as
  the source session.
* The SELECTs of a read-only handle are not in one transaction. `ReaderLoadRest` may therefore see a
  selection without the analysis it selects, and the caller is told that a healthy session is
  corrupt; the next load succeeds.
* The scenarios listed as `Unobserved` in `CandidateScenario` pass with a passing oracle whatever
  the candidate left in the session: their oracle compares a value with itself or the last change
  comes after it. `DamageIsNoticed` is about the others.
* The host's baseline, append and attach scenarios read the session before they close it, so that
  damage done by the close is seen by nobody (`EndsWithClose`).
* The comparison of two platforms asks for the status of a scenario and not for its oracle; where
  the two disagree the run's own issues say so (`CreditedOrFlagged`).
* A suggestion whose surface spans two lines prints guidance that no terms file can follow, and so
  does one whose surface is a source form already.

## Fairness

Three runs assume any.

`OrphanIsReplaced`: time goes on, and a process without a handle keeps trying to open (the takeover
is made by the opener itself, the code has no background task). The instance has a clock that is
never set back and lasts until the lease ends: a clock that is set back postpones every lease.

`CallEnds`: the runner's thread runs, time goes on, and the operating system kills what was sent
SIGKILL. Nothing is assumed of the child, its descendants or the pipe threads, which may block for
ever; that the call ends nevertheless is the point of the grace period.

`RunsEnd` and `WorkersEnd`: the runner goes on whenever it can, time passes (the harness's deadline
is compared in a loop that sleeps), and of the workers only two things: that one that is called gets
as far as its first line, for that read has no deadline, and that one that is held goes on when its
standard input closes. A worker that hangs after its first line is left to the harness to kill.

## Refinements

`SqliteSession` implements `SessionStore` (`ImplementsStore`): the abstract content, records and
answers are the tables, the rows of `applied_authoritative_commands` and the answers given; a
COMMIT is the abstract step, and loads, lookups, failures and crashes are stutters. It is checked
and proved.

`ExperimentSession` implements `ReviewSession` (`ImplementsReview`): with the phases of suggestion,
selection and sidecar mapped to those of a review that waits, every step of an experiment is a step
of a review or a stutter. Suggestions therefore change neither the questions asked nor the files
written, which the command promises its user. It is checked and proved.

`EvidenceRun` takes a scenario played in process as one step that ends in one of the `Outcomes` of
`CandidateScenario`; `ScenesEndAsAbstracted` says that the step-by-step play ends in no other, and is
checked and proved. To the outcomes belong the panics with which a wrong content ends a scenario.

## Proofs

The theorems hold for every set of processes, commands and events, every lease, limit and bound
that satisfies the ASSUME of the module, and where a theorem says so under one assumption more.

`SqliteProofs` proves first what the four commands do to the content (the ledger only grows, a
command applied once is not applicable again) and the abstract store's invariants
(`StoreInvariance`): the content is what was created and the effects of the commands recorded, and
every answered command is recorded and acknowledged.

It then proves that the candidate implements that store (`Refinement`). None of the candidate's
properties is inductive. That a whole-table rewrite loses nothing needs that the state loaded
before the transaction is still current at COMMIT, for which the invariant `Inv` adds to the types

* `TokenInv`: a token is given to one handle, so that to own the session means that nobody else
  can have committed since the handle's last check;
* `LoadInv`: what a process that still owns the session has loaded is what is stored, and a
  transaction whose snapshot is current (`fresh`) belongs to the owner;
* `CallInv`: a command about to be verified, acknowledged or answered has its record.

From these every `Commit` is the abstract `Perform`, `Acknowledge` the abstract acknowledgement,
`Reply` the abstract answer, and every other step a stutter; the abstract invariants then hold of
the tables (`NothingIsLost`, `AnswersAreAcknowledged`), and so does the fencing of displaced
writers (`WritesAreFenced`).

It then carries `Inv` over to the system with a reader and adds that content moves one
way only (`ContentMoves`). What a reader has seen is then of the past (`Past`), a load in progress
continues from more than the last one saw (`LoadingInv`), and whoever is about to rebuild the cache
does so from a ledger whose events are stored (`RebuildInv`), from which `ReadsMoveForward` and
`CacheIsDerived` follow.

`SqliteDuplicationProofs` proves the three properties of the duplication under `OneDuplicator`: one
process duplicates, while others own the source, commit to it and take it over. With two the
answer Ok does not stay true, as `duplication_stale` shows. The invariant says, for each step of
the call, which names exist and what the file behind them holds (`JobInv`), and of a call that has
ended, why what it left is there (`EndInv`).

`AppendBundleProofs` proves the bundle's four properties. `IInv` says, for each step of a call,
that the command was accepted by the content that is still stored (`CommandIsCurrent`), that the
generation the manifest will name was written before (`GenerationIsPrepared`), that a compaction
carries the content itself (`CompactionIsCurrent`), and that what is about to be answered is the
content's last command (`ReplyIsStored`).

`ExternalRankerProofs` proves the safety of the ranker call. Of a stream that was not flagged, what
was written is in the pipe or kept, and a thread that answered Ok has seen the end of its stream
(`StreamInv`); what the runner received is what the thread sent (`ResultsInv`); and the runner
leaves its loop only for a child that was reaped (`ChildInv`). `AcceptedIsWhole` and `ChildIsReaped`
follow.

`CalibrationJoinProofs` proves the exclusive write of the calibration commands for all input files,
without a look at what the reports say: a command owns what is at its destination from when it
creates the file until it gives it up, first as a part of its report and then as the whole
(`HeldParts`, `WrittenReports`), and before that nothing on disk is its own (`NothingEarly`). The
first and the last of these exclude that both commands own one file. `WholeReports` and
`NothingIsOverwritten` follow.

It then proves what the reports say, for all transcripts and work budgets. The invariant
`EvaluatedInv` ties what a command is about to write to the evaluation of the two texts it has read;
from there on the argument is about data, and follows the code upwards:

* the rows of the table of lengths are what its recursion says (`LcsRowIs`), a half of the raw text
  and the cut of the final one are smaller problems (`ByHalves`), and the matches of the halves, the
  right ones moved by the cut, are matches of the whole from left to right;
* the gaps between matches leave out exactly the matched characters, so that putting the gaps of the
  final text in the place of those of the raw one makes the final text, character by character and
  then, since no gap begins or ends inside a character, byte by byte;
* the edits of one cue are apart, which the fold over replacements needs, and the records are those
  of all changed cues in order. `EditsMakeFinal` follows; that no two edits of a cue touch one place,
  and what an exact relation says of both, give `ExactIsTheSameChange`;
* a number of characters is common to two texts if it can be found in both at rising places
  (`Common`). The cells of the table are the greatest such numbers (`CellsAreLongest`), those of the
  reversed texts are the same numbers of the rest (`CommonBackwards`), and any common characters are
  divided by some place of the final text into those of the two halves (`CommonSplits`), so that the
  best cut loses none (`CutIsBest`, `MatchesAreMost`). What the reported edits take away is added up
  gap by gap, from the starts of the characters in bytes (`CharsBetween`, `SumOfAll`): all characters
  but the matched ones. That the greatest number is also that of the definition by subsets
  (`LongestIs`) makes `MinimalEdits`, in which `EditsMakeFinal` is the other half;
* of the overlap graph, the union-find is followed as a forest whose roots are reached by a path that
  ends (`FindIs`), and of which every edge joins two trees (`UnionIs`, `Joined2`). That two nodes have
  one root exactly if edges lead from one to the other, that a node without neighbours is its own
  component, and that a component of one case and one edit is one edge make the several counts of
  the summary, each gathered in a way of its own, add up: `CountsAlwaysAgree`.

`ExperimentSessionProofs` proves the refinement of the review by the experiment
(`ExperimentsAreReviews`) for all files, retrievals and rankers. What the two modules say of data is
shown to be the same definition by definition (the `Same...` lemmas: the parsers, the detectors, the
derivation), so that nothing has to be known of what it computes; then every step of
`ExperimentNext` is a step of the review or leaves it as it is, phase by phase.

It also proves, of the review and the experiment, `KeysNameOneCase` and
`RefusedForOverlapOnly` for all transcripts, terms, phonetic keys and decisions. The invariant
`AnalysisInv` says what a command knows about its analysis: what was parsed has its type, there are
no cases before the detectors ran, and from then on every case is a place that is not empty and lies
in its segment's text. It is not enough to look at the last step: that keys differ rests on the check
before the detectors (`DetectedForms`: no form is empty, and none is shared by two entries), on
what an occurrence is (`MatchesType`: at one place and with one length there is one form), and on
the window's single owner (`OneOwner`); that the list of cases holds each span once rests on
there being finitely many (`SpansAreFinite`) and on the order of keys being total (`LexOrder`,
`ListedByKey`). Of the refusal, `RefusedWhenShared` shows that in a list of edits sorted by their
places two that overlap, however far apart they stand, make two neighbours overlap; this fails for
spans that are empty, and `Placed` excludes them.

`ClosestKept` is about the limit of the retrieval: the list of a place is in the order of distances
(`ReportsInOrder`), what is kept is a beginning of it, and a suggestion dropped elsewhere was not
dropped here. `SummariesAgree` proves that the three files of a review agree with one another.
`LedgerInv` says that there is one decision for each case before the cursor, in the order of the
cases, and none for the others (`CasesAreDecidedInOrder`); `WrittenInv` that each file stands beside
those written before it, and that after the last the ledger does not change. The counts of the summary are sums over
detectors and decisions of the cases each has; that the cases are in one of the parts and in no other
makes the sums what `SummaryAgreesWithFiles` says.

`TermDetectionProofs` holds the facts about parsers, detectors and folds that these proofs need.
The prover cannot instantiate a theorem that takes an operator, by which the library states
induction, recursion and folds. They are stated here once more over sets and functions
(`NatSet`, `RankSet`, `FoldExists`, `PrefixFold`, `Recursion`), whose instances it finds: a property is
the set of the values that have it, a recursive definition a function that is shown to exist.

`EvidenceProofs` proves the seven safety properties of the evidence, from four invariants.

* Of the harness, `ProcessInv`. The exit the harness reports is that of a worker which ran with the
  fault it was started with (`CallInv`, `WorkersInv`); the place where the runner is determines what
  call it has made (`PlaceInv`); and in a crash scenario the command found committed was committed
  by the worker that was killed (`CommitInv`). Without the last, a root an earlier trial had used
  could vouch for a commit; without the first, a worker of another call for a crash.
  `CreditedCrashesHappened` is an action property that follows: nothing is credited in a step before
  which no worker aborted.
* Of the runs, `RunInv`: a result is one of the records a scenario can end in (`ResultsType`), from the
  aggregation on nothing is recorded any more so that the report stays what the results come to
  (`ReportInv`), a comparison is of these results (`MatrixInv`), and which files were written since the
  checksums were taken is known place by place (`FilesInv`). `EligibleMeansVerified`,
  `CreditedOrFlagged` and `ChecksumsHold` follow.
* Of a scenario played call by call, `SceneInv`: what is left of the script ends as the whole script
  does, the last call that looks at the session comes after the last that changes it unless the
  scenario is one of `Unobserved` or ends with the close (`ClosesLast`), and what went wrong before
  has been seen or will be. That the
  scripts of all scenarios are of this form is shown by composing them from their parts
  (`ScriptFacts`), which replaces the induction over the calls.
* Of the gate, `GateInv`: the verdict is that of the documents submitted. `ClaimsAreAnswered` then is
  about the validator: a document in which the first failure is none has none at any place, from
  which identifiers are unique, every claim has the rank it needs, and its credit or its blocker is
  there and is no other claim's.

Assumptions about the constants are well-formedness only: `None` is no member of the other sets
(`NoneAssumption`, `ResultAssumption`, `DecisionAssumption`, `NoRefusalAssumption`) and no error of
the detectors (`NoErrorAssumption`), bounds are naturals, the records of commands have their types,
`Nothing` is no code of a blocker (`CodeAssumption`), the claims of a document are lists
(`ContractsAssumption`), files are sequences of lines (`ReviewAssumption`, `InputsAssumption`), the
two commands of the join are two (`CommandsAssumption`), and a report looks like no input. One is
about a library: a character of one byte has no pinyin reading (`AsciiAssumption`).

Model-checked only: the liveness properties, because fairness and ENABLED are out of the prover's
reach; `GuidanceCanBeFollowed`, which parses a terms file with one alias more; and `OutputReparses`.
The last does not hold of arbitrary lines: a line of a file is a value here, and a cue whose text
holds a line break or is white space alone is not what the parser makes of any file, and one that
ends in a carriage return only of a file with two of them before a line feed, which is left out. The files of the run are what it can make, and that set has no shorter description
than the parser.

The types of the storage candidates are invariants of their runs and proved; the other modules have
no type invariant of their own in a run: the proofs of the reader, the duplication and the
ranker include their types (`ReaderType`, `DuplicationType`, `CountsType`, `RunnerType`).

## Not modelled

* SQLite itself, of which only snapshots, the exclusion of writers and the atomicity of COMMIT are
  used; VACUUM, which changes no state a property sees; schema upgrades; the collections of a
  session that no command changes; the corruption that scenarios inject on purpose.
* Text: a carriage return other than the one before a line feed, white space outside ASCII, and the wording, layout and
  order of reports. Lists sorted by identifiers written as text (`cue:0:edit:10` before
  `cue:0:edit:2`) are sets in the model. The phonetic key and the pinyin readings are libraries.
* Numbers: the overflow of the u32 cue index is modelled by both of its outcomes and reaches only the
  issues that are printed; the product of two lengths in the work budget is not limited to 64 bits.
* The front end: the spelling of arguments and prompts. `lib.rs` holds re-exports and tests.
* A second decision about one case, which only the library's interface allows.
* Evidence: the records of fault and process events beside the results, supplemental scenarios whose
  results are discarded, output of a worker that is no UTF-8, the manifests and facts about the
  host, time stamps, the choice of the target to run on, half-written files after a panic. Results
  are a function from scenarios, so that the issues about a scenario listed twice cannot arise.
* The gate's promise to answer not-ready on every failure holds by construction, for each refusal is
  one; it is no property here. Conflict identifiers of a wrong JSON type are left out.

Three hazards listed in `PROJECT.json` have no property that could hold. A cleanup deletes artifacts
that are referenced, against MD-014, as said under Findings. The duplicate of the bundle whose call was
interrupted opens as the source session: MD-014 forbids that a duplication "continue using the
original session identity", but whether it says so of a call that nobody was answered is open. The
token of the bundle whose holder died is never released: MD-014 restricts how ownership may be taken
over and promises no takeover.

## Plan

What is left, in this order:

1. `GuidanceCanBeFollowed`, for terms files in which the new alias shares a line with its form.
2. Liveness of the duplication's and the bundle's callers, should the code gain a retry.
