----------------------------- MODULE ExternalRanker -----------------------------
(***************************************************************************)
(* One call of the external ranker (external_command): the runner spawns a    *)
(* child, hands its three pipes to threads of their own and polls until the    *)
(* child has exited, a stream has exceeded its limit, a thread has failed or    *)
(* the deadline has passed; then it kills and reaps the child where it has to,  *)
(* waits for the threads for a bounded time, and answers.                     *)
(*                                                                         *)
(* The child does what it likes: it reads or not, writes, closes its pipes,    *)
(* exits, and leaves descendants behind that inherit pipes.  Bytes are counted  *)
(* in chunks.  Time is what is left of the deadline and of the grace period.   *)
(* That an own child cannot be waited for does not happen.                    *)
(***************************************************************************)
EXTENDS Integers, FiniteSets

CONSTANTS
    Candidate,      \* identities of the request's candidates
    None, Unknown,
    RequestSizes,   \* sizes a request may have
    MaxRequest,     \* max_request_bytes
    MaxOutput,      \* max_output_bytes
    Timeout,        \* timeout_ms
    Grace,          \* IO_COMPLETION_GRACE
    PipeSize,       \* chunks a pipe holds
    Produced        \* bound: Produced[s] chunks are ever written to s

Streams == {"stdout", "stderr"}
Pipes == {"stdin"} \cup Streams

ASSUME RankerAssumption ==
    /\ None \notin Candidate /\ Unknown \notin Candidate /\ None # Unknown
    /\ RequestSizes \subseteq Nat \ {0}
    /\ MaxRequest \in Nat /\ MaxOutput \in Nat
    /\ Timeout \in Nat /\ Grace \in Nat
    /\ PipeSize \in Nat \ {0}
    /\ Produced \in [Streams -> Nat]

VARIABLES
    request,    \* the size of the request
    child,      \* the direct child
    status,     \* how it exited
    killed,     \* whether it was sent a SIGKILL
    ends,       \* the pipe ends the child and its descendants hold
    pipe,       \* chunks in each pipe
    sent,       \* chunks of the request written
    written,    \* chunks written to each stream (history)
    stored,     \* chunks each reader thread has kept
    exceeded,   \* the readers' flags
    worker,     \* what each thread sent to its channel
    results,    \* what the runner received
    step,       \* where the runner is
    outcome,    \* why it is about to answer
    deadline,   \* time left before the deadline
    grace,      \* time left to wait for the threads
    answer      \* the ranking result

processes == <<child, status, killed, ends>>
threads == <<pipe, sent, written, stored, exceeded, worker>>
timers == <<deadline, grace>>
vars == <<request, processes, threads, results, step, outcome, timers, answer>>

Holder == {"child", "descendant"}
Failure == {"RequestTooLarge", "SpawnFailed", "StdinWriteFailed", "StreamReadFailed",
            "IoCompletionTimedOut", "TimedOut", "NonZeroExit", "OutputTooLarge",
            "MalformedResponse", "InvalidResponse"}
Outcome == {"None", "Exited", "TimedOut", "OutputTooLarge", "StdinWriteFailed", "StreamReadFailed"}

(* The runner polls the channels one after another, in its loop and while it waits. *)
LoopPolls == {"loop stdin", "loop stdout", "loop stderr"}
WaitPolls == {"wait stdin", "wait stdout", "wait stderr"}
Step == {"start", "limits", "status", "deadline", "kill", "reap", "waited", "done"} \cup LoopPolls \cup WaitPolls

NoAnswer == [kind |-> "none", selected |-> None]
Answer == [kind : {"none", "Succeeded"} \cup Failure, selected : Candidate \cup {None}]

Init ==
    /\ request \in RequestSizes
    /\ child = "none" /\ status = "none" /\ killed = FALSE
    /\ ends = [q \in Holder |-> {}]
    /\ pipe = [x \in Pipes |-> 0]
    /\ sent = 0
    /\ written = [s \in Streams |-> 0] /\ stored = [s \in Streams |-> 0]
    /\ exceeded = [s \in Streams |-> FALSE]
    /\ worker = [x \in Pipes |-> "busy"]
    /\ results = [x \in Pipes |-> "none"]
    /\ step = "start" /\ outcome = "None"
    /\ deadline = Timeout /\ grace = 0
    /\ answer = NoAnswer

-----------------------------------------------------------------------------
(* The runner                                                               *)

Return(kind, selected) ==
    /\ answer' = [kind |-> kind, selected |-> selected]
    /\ step' = "done"

Fallback(failure) == Return(failure, None)

Reject ==
    /\ step = "start"
    /\ \/ request > MaxRequest /\ Fallback("RequestTooLarge")
       \/ request <= MaxRequest /\ Fallback("SpawnFailed")
    /\ UNCHANGED <<request, processes, threads, results, outcome, timers>>

Spawn ==
    /\ step = "start" /\ request <= MaxRequest
    /\ child' = "running"
    /\ ends' = [ends EXCEPT !["child"] = Pipes]
    /\ step' = "loop stdin"
    /\ UNCHANGED <<request, status, killed, threads, results, outcome, timers, answer>>

(* poll_receiver: one channel, and a result that was received is kept *)
Received(x) ==
    IF results[x] = "none" /\ worker[x] # "busy"
    THEN [results EXCEPT ![x] = worker[x]] ELSE results

PollLoop ==
    /\ \/ step = "loop stdin" /\ results' = Received("stdin") /\ step' = "loop stdout"
       \/ step = "loop stdout" /\ results' = Received("stdout") /\ step' = "loop stderr"
       \/ step = "loop stderr" /\ results' = Received("stderr") /\ step' = "limits"
    /\ UNCHANGED <<request, processes, threads, outcome, timers, answer>>

PollWait ==
    /\ \/ step = "wait stdin" /\ results' = Received("stdin") /\ step' = "wait stdout"
       \/ step = "wait stdout" /\ results' = Received("stdout") /\ step' = "wait stderr"
       \/ step = "wait stderr" /\ results' = Received("stderr") /\ step' = "waited"
    /\ UNCHANGED <<request, processes, threads, outcome, timers, answer>>

Complete == \A x \in Pipes : results[x] # "none"
StdinFailed == results["stdin"] = "error"
StreamFailed == \E s \in Streams : results[s] = "error"
WorkerFailed == StdinFailed \/ StreamFailed
WorkerFailure == IF StdinFailed THEN "StdinWriteFailed" ELSE "StreamReadFailed"

CheckLimits ==
    /\ step = "limits"
    /\ IF \E s \in Streams : exceeded[s]
       THEN outcome' = "OutputTooLarge" /\ step' = "kill"
       ELSE IF WorkerFailed
       THEN outcome' = WorkerFailure /\ step' = "kill"
       ELSE step' = "status" /\ UNCHANGED outcome
    /\ UNCHANGED <<request, processes, threads, results, timers, answer>>

(* try_wait, which reaps an exited child *)
TryWait ==
    /\ step = "status"
    /\ \/ child = "exited" /\ child' = "reaped"
          /\ outcome' = "Exited" /\ grace' = Grace /\ step' = "wait stdin"
       \/ child = "running" /\ step' = "deadline" /\ UNCHANGED <<child, outcome, grace>>
    /\ UNCHANGED <<request, status, killed, ends, threads, results, deadline, answer>>

(* The deadline is looked at only when the child was seen running.            *)
CheckDeadlineUnkilled ==    \* variant: the child is left alone at the deadline
    /\ step = "deadline"
    /\ IF deadline = 0 THEN outcome' = "TimedOut" /\ step' = "wait stdin"
       ELSE step' = "loop stdin" /\ UNCHANGED outcome
    /\ UNCHANGED <<request, processes, threads, results, timers, answer>>

CheckDeadline ==
    /\ step = "deadline"
    /\ IF deadline = 0 THEN outcome' = "TimedOut" /\ step' = "kill"
       ELSE step' = "loop stdin" /\ UNCHANGED outcome
    /\ UNCHANGED <<request, processes, threads, results, timers, answer>>

(* terminate_direct_child: kill, then wait, which blocks until it has exited.  *)
Kill ==
    /\ step = "kill"
    /\ killed' = TRUE
    /\ step' = "reap"
    /\ UNCHANGED <<request, child, status, ends, threads, results, outcome, timers, answer>>

Reap ==
    /\ step = "reap" /\ child = "exited"
    /\ child' = "reaped"
    /\ grace' = Grace
    /\ step' = "wait stdin"
    /\ UNCHANGED <<request, status, killed, ends, threads, results, outcome, deadline, answer>>

(* wait_for_all: again until all have answered or the grace period is over.   *)
KeepWaitingUnbounded ==     \* variant: the threads are joined
    /\ step = "waited" /\ ~Complete
    /\ step' = "wait stdin"
    /\ UNCHANGED <<request, processes, threads, results, outcome, timers, answer>>

KeepWaiting ==
    /\ step = "waited" /\ ~Complete /\ grace > 0
    /\ step' = "wait stdin"
    /\ UNCHANGED <<request, processes, threads, results, outcome, timers, answer>>

AnswerUnwaited ==
    /\ step = "waited" /\ (Complete \/ grace = 0)
    /\ outcome # "Exited"
    /\ Fallback(outcome)
    /\ UNCHANGED <<request, processes, threads, results, outcome, timers>>

Response == [revised : BOOLEAN, requiresReview : BOOLEAN, reasons : {"none", "some", "multiple"},
             selected : Candidate \cup {None, Unknown},
             assessment : {"Strong", "Plausible", "Ambiguous", "Unsupported"}]

(* validate_external_response: reasons says whether there are reason codes, and  *)
(* whether MultipleCandidates is among them.                                  *)
ValidResponse(r) ==
    /\ r.revised /\ r.requiresReview /\ r.reasons # "none"
    /\ r.selected \in Candidate \cup {None}
    /\ r.assessment \in {"Strong", "Plausible"} <=> r.selected # None
    /\ r.assessment = "Ambiguous" => r.reasons = "multiple"

(* What stdout holds may be anything: not a response, or any response.        *)
Validate ==
    \/ Fallback("MalformedResponse")
    \/ \E r \in Response :
        IF ValidResponse(r) THEN Return("Succeeded", r.selected)
        ELSE Fallback("InvalidResponse")

AnswerExitedUnchecked ==    \* variant: the limits are only looked at in the loop
    /\ step = "waited" /\ (Complete \/ grace = 0)
    /\ outcome = "Exited"
    /\ IF ~Complete THEN Fallback("IoCompletionTimedOut")
       ELSE IF WorkerFailed THEN Fallback(WorkerFailure)
       ELSE IF status # "success" THEN Fallback("NonZeroExit")
       ELSE Validate
    /\ UNCHANGED <<request, processes, threads, results, outcome, timers>>

AnswerExited ==
    /\ step = "waited" /\ (Complete \/ grace = 0)
    /\ outcome = "Exited"
    /\ IF ~Complete THEN Fallback("IoCompletionTimedOut")
       ELSE IF WorkerFailed THEN Fallback(WorkerFailure)
       ELSE IF status # "success" THEN Fallback("NonZeroExit")
       ELSE IF \E s \in Streams : exceeded[s] THEN Fallback("OutputTooLarge")
       ELSE Validate
    /\ UNCHANGED <<request, processes, threads, results, outcome, timers>>

Runner ==
    \/ Reject \/ Spawn \/ PollLoop \/ CheckLimits \/ TryWait \/ CheckDeadline \/ Kill \/ Reap
    \/ PollWait \/ KeepWaiting \/ AnswerUnwaited \/ AnswerExited

-----------------------------------------------------------------------------
(* The threads.  Threads and processes that outlive the answer are not followed *)
(* any further.                                                              *)

Started == child # "none" /\ step # "done"
Held(x) == \E q \in Holder : x \in ends[q]
Finish(x, result) == worker' = [worker EXCEPT ![x] = result]

(* write_all, which fails when nobody can read any more *)
WriteRequest ==
    /\ Started /\ worker["stdin"] = "busy"
    /\ \/ sent < request /\ Held("stdin") /\ pipe["stdin"] < PipeSize
          /\ pipe' = [pipe EXCEPT !["stdin"] = @ + 1]
          /\ sent' = sent + 1 /\ UNCHANGED worker
       \/ sent < request /\ ~Held("stdin")
          /\ Finish("stdin", "error") /\ UNCHANGED <<pipe, sent>>
       \/ sent = request
          /\ Finish("stdin", "ok") /\ UNCHANGED <<pipe, sent>>
    /\ UNCHANGED <<request, processes, written, stored, exceeded, results, step, outcome,
                   timers, answer>>

(* drain_stream: what is over the limit is read and dropped, and flagged.     *)
DrainStream(s) ==
    /\ Started /\ worker[s] = "busy" /\ pipe[s] > 0
    /\ pipe' = [pipe EXCEPT ![s] = @ - 1]
    /\ IF stored[s] < MaxOutput
       THEN stored' = [stored EXCEPT ![s] = @ + 1] /\ UNCHANGED exceeded
       ELSE exceeded' = [exceeded EXCEPT ![s] = TRUE] /\ UNCHANGED stored
    /\ UNCHANGED <<request, processes, sent, written, worker, results, step, outcome, timers,
                   answer>>

(* The end of a stream, or an error; either way the thread sends its result.   *)
EndStream(s) ==
    /\ Started /\ worker[s] = "busy"
    /\ \/ pipe[s] = 0 /\ ~Held(s) /\ Finish(s, "ok")
       \/ Finish(s, "error")
    /\ UNCHANGED <<request, processes, pipe, sent, written, stored, exceeded, results, step,
                   outcome, timers, answer>>

-----------------------------------------------------------------------------
(* The child and its descendants                                            *)

ReadsRequest(q) ==
    /\ "stdin" \in ends[q] /\ pipe["stdin"] > 0
    /\ pipe' = [pipe EXCEPT !["stdin"] = @ - 1]
    /\ UNCHANGED <<request, processes, sent, written, stored, exceeded, worker, results, step,
                   outcome, timers, answer>>

(* A write blocks while the pipe is full, and fails when its reader is gone.   *)
WritesOutput(q, s) ==
    /\ s \in ends[q] /\ worker[s] = "busy"
    /\ pipe[s] < PipeSize /\ written[s] < Produced[s]
    /\ pipe' = [pipe EXCEPT ![s] = @ + 1]
    /\ written' = [written EXCEPT ![s] = @ + 1]
    /\ UNCHANGED <<request, processes, sent, stored, exceeded, worker, results, step, outcome,
                   timers, answer>>

ClosesPipe(q, x) ==
    /\ x \in ends[q]
    /\ ends' = [ends EXCEPT ![q] = @ \ {x}]
    /\ UNCHANGED <<request, child, status, killed, threads, results, step, outcome, timers,
                   answer>>

LeavesDescendant ==
    /\ child = "running" /\ ends["descendant"] = {}
    /\ \E inherited \in SUBSET ends["child"] :
        ends' = [ends EXCEPT !["descendant"] = inherited]
    /\ UNCHANGED <<request, child, status, killed, threads, results, step, outcome, timers,
                   answer>>

Exits(how) ==
    /\ child = "running"
    /\ child' = "exited" /\ status' = how
    /\ ends' = [ends EXCEPT !["child"] = {}]
    /\ UNCHANGED <<request, killed, threads, results, step, outcome, timers, answer>>

ExitsByItself == \E how \in {"success", "failure"} : Exits(how)
DiesOfKill == killed /\ Exits("failure")

Tick ==
    /\ deadline > 0 \/ grace > 0
    /\ Started
    /\ deadline' = IF deadline > 0 THEN deadline - 1 ELSE 0
    /\ grace' = IF grace > 0 THEN grace - 1 ELSE 0
    /\ UNCHANGED <<request, processes, threads, results, step, outcome, answer>>

Threads == WriteRequest \/ \E s \in Streams : DrainStream(s) \/ EndStream(s)

Program ==
    \/ \E q \in Holder :
        \/ ReadsRequest(q)
        \/ \E s \in Streams : WritesOutput(q, s)
        \/ \E x \in Pipes : ClosesPipe(q, x)
    \/ LeavesDescendant \/ ExitsByItself \/ DiesOfKill

Next == Runner \/ Threads \/ (Started /\ Program) \/ Tick

Spec == Init /\ [][Next]_vars

(* Fairness: the runner's thread runs, time goes on and a killed child dies;   *)
(* the program and the pipes' threads may do nothing for ever.               *)
FairSpec == Spec /\ WF_vars(Runner) /\ WF_vars(Tick) /\ WF_vars(DiesOfKill)

-----------------------------------------------------------------------------
(* A response is accepted only from a child that exited successfully, and only  *)
(* when everything that anybody has written or will ever write to its streams   *)
(* was read and kept: never a part of it (external_command, drain_stream).      *)
AcceptedResponseIsWhole ==
    answer.kind = "Succeeded" =>
        /\ status = "success"
        /\ \A s \in Streams : stored[s] = written[s] /\ ~Held(s)

(* However a call ends, its direct child has exited and been waited for.      *)
NoChildIsLeft == answer # NoAnswer => child \in {"none", "reaped"}

(* The call ends, whatever the child, its descendants and the threads that      *)
(* wait on their pipes do or do not do.                                       *)
CallEnds == <>(answer # NoAnswer)
=============================================================================
