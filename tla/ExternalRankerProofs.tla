-------------------------- MODULE ExternalRankerProofs --------------------------
(***************************************************************************)
(* Proofs about ExternalRanker, for requests, limits, pipes, deadlines and    *)
(* outputs of every size.                                                    *)
(***************************************************************************)
EXTENDS ExternalRanker, TLAPS

CountsType ==
    /\ pipe \in [Pipes -> Nat]
    /\ written \in [Streams -> Nat] /\ stored \in [Streams -> Nat]
    /\ exceeded \in [Streams -> BOOLEAN]
    /\ ends \in [Holder -> SUBSET Pipes]

RunnerType ==
    /\ worker \in [Pipes -> {"busy", "ok", "error"}]
    /\ results \in [Pipes -> {"none", "ok", "error"}]
    /\ step \in Step
    /\ outcome \in Outcome

(* The runner leaves its loop for the waiting only when the child was reaped,  *)
(* by try_wait or after a kill.                                              *)
ChildInv ==
    /\ child = "none" => step \in {"start", "done"}
    /\ step = "start" => child = "none"
    /\ step \in WaitPolls \cup {"waited"} => child = "reaped"
    /\ step = "done" => child \in {"none", "reaped"}
    /\ answer # NoAnswer => step = "done"
    /\ answer.kind = "Succeeded" => child = "reaped"

(* Of a stream whose thread flagged nothing, all that was written is in the    *)
(* pipe or kept; a thread that answered Ok has seen the end of its stream.     *)
StreamInv(s) ==
    /\ ~exceeded[s] => written[s] = stored[s] + pipe[s]
    /\ worker[s] = "ok" => pipe[s] = 0 /\ ~Held(s)

StreamsInv == \A s \in Streams : StreamInv(s)

(* Threads run for a child, and what the runner received is what they sent.   *)
ResultsInv == \A x \in Pipes : /\ child = "none" => worker[x] = "busy"
                               /\ results[x] # "none" => results[x] = worker[x]

IInv == CountsType /\ RunnerType /\ ChildInv /\ StreamsInv /\ ResultsInv /\ AcceptedResponseIsWhole

(* The names of pipes, streams and holders *)
LEMMA PipeNames ==
    /\ Pipes = {"stdin", "stdout", "stderr"} /\ Streams = {"stdout", "stderr"}
    /\ Streams \subseteq Pipes /\ "stdin" \notin Streams
    /\ Holder = {"child", "descendant"}
BY DEF Pipes, Streams, Holder

(* The initial states satisfy the invariant. *)
LEMMA InitInv == Init => IInv
<1> SUFFICES ASSUME Init PROVE IInv
    OBVIOUS
<1>1. CountsType /\ RunnerType
    BY PipeNames DEF Init, CountsType, RunnerType, Step, LoopPolls, Outcome
<1>2. ChildInv
    BY DEF Init, ChildInv, WaitPolls, NoAnswer
<1>3. StreamsInv /\ ResultsInv
    BY PipeNames DEF Init, StreamsInv, StreamInv, ResultsInv
<1>4. AcceptedResponseIsWhole
    BY DEF Init, AcceptedResponseIsWhole, NoAnswer
<1> QED
    BY <1>1, <1>2, <1>3, <1>4 DEF IInv

(* The types of what the runner keeps and of the streams *)
LEMMA TypeStep == IInv /\ [Next]_vars => CountsType' /\ RunnerType'
<1> SUFFICES ASSUME IInv, [Next]_vars PROVE CountsType' /\ RunnerType'
    OBVIOUS
<1> USE PipeNames DEF IInv, CountsType, RunnerType
<1>1. ASSUME Runner PROVE CountsType' /\ RunnerType'
  <2>1. UNCHANGED <<pipe, written, stored, exceeded, worker>>
    BY <1>1
    DEF Runner, Reject, Spawn, PollLoop, CheckLimits, TryWait, CheckDeadline, Kill, Reap,
        PollWait, KeepWaiting, AnswerUnwaited, AnswerExited, threads
  <2>2. ends' \in [Holder -> SUBSET Pipes]
    BY <1>1
    DEF Runner, Reject, Spawn, PollLoop, CheckLimits, TryWait, CheckDeadline, Kill, Reap,
        PollWait, KeepWaiting, AnswerUnwaited, AnswerExited, processes
  <2>3. results' \in [Pipes -> {"none", "ok", "error"}]
    <3>1. \A x \in Pipes : Received(x) \in [Pipes -> {"none", "ok", "error"}]
      BY DEF Received
    <3> QED
      BY <1>1, <3>1
      DEF Runner, Reject, Spawn, PollLoop, CheckLimits, TryWait, CheckDeadline, Kill,
          Reap, PollWait, KeepWaiting, AnswerUnwaited, AnswerExited
  <2>4. step' \in Step
    BY <1>1
    DEF Runner, Reject, Spawn, PollLoop, CheckLimits, TryWait, CheckDeadline, Kill, Reap,
        PollWait, KeepWaiting, AnswerUnwaited, AnswerExited, Validate, Fallback, Return,
        Step, LoopPolls, WaitPolls
  <2>5. outcome' \in Outcome
    BY <1>1
    DEF Runner, Reject, Spawn, PollLoop, CheckLimits, TryWait, CheckDeadline, Kill, Reap,
        PollWait, KeepWaiting, AnswerUnwaited, AnswerExited, WorkerFailure, Outcome
  <2> QED
    BY <2>1, <2>2, <2>3, <2>4, <2>5
<1>2. ASSUME Threads PROVE CountsType' /\ RunnerType'
  <2>1. ASSUME WriteRequest PROVE CountsType' /\ RunnerType'
    BY <2>1 DEF WriteRequest, Finish, processes
  <2>2. ASSUME NEW s \in Streams, DrainStream(s) PROVE CountsType' /\ RunnerType'
    <3>1. pipe' \in [Pipes -> Nat]
      BY <2>2 DEF DrainStream
    <3>2. stored' \in [Streams -> Nat]
      BY <2>2 DEF DrainStream
    <3>3. exceeded' \in [Streams -> BOOLEAN]
      BY <2>2, Zenon DEF DrainStream
    <3> QED
      BY <2>2, <3>1, <3>2, <3>3 DEF DrainStream, processes
  <2>3. ASSUME NEW s \in Streams, EndStream(s) PROVE CountsType' /\ RunnerType'
    BY <2>3 DEF EndStream, Finish, processes
  <2> QED
    BY <1>2, <2>1, <2>2, <2>3 DEF Threads
<1>3. ASSUME Program PROVE CountsType' /\ RunnerType'
  <2>1. ASSUME NEW q \in Holder, ReadsRequest(q) PROVE CountsType' /\ RunnerType'
    BY <2>1 DEF ReadsRequest, processes
  <2>2. ASSUME NEW q \in Holder, NEW s \in Streams, WritesOutput(q, s)
        PROVE  CountsType' /\ RunnerType'
    BY <2>2 DEF WritesOutput, processes
  <2>3. ASSUME NEW q \in Holder, NEW x \in Pipes, ClosesPipe(q, x)
        PROVE  CountsType' /\ RunnerType'
    BY <2>3 DEF ClosesPipe, threads
  <2>4. ASSUME LeavesDescendant PROVE CountsType' /\ RunnerType'
    BY <2>4 DEF LeavesDescendant, threads
  <2>5. ASSUME NEW how, Exits(how) PROVE CountsType' /\ RunnerType'
    BY <2>5 DEF Exits, threads
  <2> QED
    BY <1>3, <2>1, <2>2, <2>3, <2>4, <2>5 DEF Program, ExitsByItself, DiesOfKill
<1>4. ASSUME Tick PROVE CountsType' /\ RunnerType'
    BY <1>4 DEF Tick, processes, threads
<1>5. CASE UNCHANGED vars
    BY <1>5 DEF vars, processes, threads
<1> QED
    BY <1>1, <1>2, <1>3, <1>4, <1>5 DEF Next

(* Only the runner starts, reaps and answers. *)
LEMMA ChildStep == IInv /\ [Next]_vars => ChildInv'
<1> SUFFICES ASSUME IInv, [Next]_vars PROVE ChildInv'
    OBVIOUS
<1> USE DEF ChildInv, WaitPolls, LoopPolls
<1>0. ChildInv /\ step \in Step /\ outcome \in Outcome
    BY DEF IInv, RunnerType
<1>1. ASSUME Reject PROVE ChildInv'
  <2>1. answer'.kind # "Succeeded"
    BY <1>1 DEF Reject, Fallback, Return
  <2>2. step' = "done" /\ child' = "none"
    BY <1>0, <1>1 DEF Reject, Fallback, Return, processes
  <2> QED
    BY <2>1, <2>2
<1>2. ASSUME Spawn PROVE ChildInv'
    BY <1>0, <1>2 DEF Spawn
<1>3. ASSUME PollLoop \/ PollWait PROVE ChildInv'
    BY <1>0, <1>3 DEF PollLoop, PollWait, processes
<1>4. ASSUME CheckLimits \/ CheckDeadline \/ Kill \/ KeepWaiting PROVE ChildInv'
    BY <1>0, <1>4 DEF CheckLimits, CheckDeadline, Kill, KeepWaiting, processes
<1>5. ASSUME TryWait \/ Reap PROVE ChildInv'
  <2>1. answer' = answer /\ answer = NoAnswer
    BY <1>0, <1>5 DEF TryWait, Reap
  <2>2. \/ child' = "reaped" /\ step' = "wait stdin"
        \/ child' = "running" /\ step' = "deadline"
    BY <1>5 DEF TryWait, Reap
  <2>3. answer'.kind # "Succeeded"
    BY <2>1 DEF NoAnswer
  <2>4. CASE child' = "reaped" /\ step' = "wait stdin"
    BY <2>1, <2>3, <2>4
  <2>5. CASE child' = "running" /\ step' = "deadline"
    BY <2>1, <2>3, <2>5
  <2> QED
    BY <2>2, <2>4, <2>5
<1>6. ASSUME AnswerUnwaited \/ AnswerExited PROVE ChildInv'
    BY <1>0, <1>6
    DEF AnswerUnwaited, AnswerExited, Validate, Fallback, Return, processes
<1>7. ASSUME Threads \/ Tick PROVE ChildInv'
    BY <1>0, <1>7 DEF Threads, WriteRequest, DrainStream, EndStream, Tick, processes
<1>8. ASSUME Started, Program PROVE ChildInv'
  <2>1. step' = step /\ answer' = answer
    BY <1>8
    DEF Program, ReadsRequest, WritesOutput, ClosesPipe, LeavesDescendant, ExitsByItself,
        DiesOfKill, Exits
  <2>2. child' = child \/ (child = "running" /\ child' = "exited")
    BY <1>8
    DEF Program, ReadsRequest, WritesOutput, ClosesPipe, LeavesDescendant, ExitsByItself,
        DiesOfKill, Exits, processes
  <2> QED
    BY <1>0, <1>8, <2>1, <2>2 DEF Started
<1>9. CASE UNCHANGED vars
    BY <1>0, <1>9 DEF vars, processes
<1> QED
    BY <1>1, <1>2, <1>3, <1>4, <1>5, <1>6, <1>7, <1>8, <1>9 DEF Next, Runner

(* A stream loses nothing unflagged, and once its thread has answered Ok nobody
   is left who could write to it or inherit it. *)
LEMMA StreamStep == IInv /\ [Next]_vars => StreamsInv'
<1> SUFFICES ASSUME IInv, [Next]_vars, NEW s \in Streams PROVE StreamInv(s)'
    BY DEF StreamsInv
<1> USE PipeNames
<1>0. /\ CountsType /\ RunnerType /\ StreamInv(s)
    BY DEF IInv, StreamsInv
<1>1. ASSUME Runner, ~Spawn PROVE StreamInv(s)'
  <2>1. UNCHANGED <<pipe, written, stored, exceeded, worker, ends>>
    BY <1>1
    DEF Runner, Reject, PollLoop, CheckLimits, TryWait, CheckDeadline, Kill, Reap,
        PollWait, KeepWaiting, AnswerUnwaited, AnswerExited, threads, processes
  <2> QED
    BY <1>0, <2>1 DEF StreamInv, Held
<1>2. ASSUME Spawn PROVE StreamInv(s)'
  <2>1. worker[s] # "ok"
    BY <1>2 DEF Spawn, IInv, ChildInv, ResultsInv
  <2> QED
    BY <1>0, <1>2, <2>1 DEF Spawn, StreamInv, threads
<1>3. ASSUME WriteRequest PROVE StreamInv(s)'
    BY <1>0, <1>3 DEF WriteRequest, Finish, StreamInv, Held, processes, CountsType, RunnerType
<1>4. ASSUME NEW t \in Streams, DrainStream(t) PROVE StreamInv(s)'
    BY <1>0, <1>4 DEF DrainStream, StreamInv, Held, processes, CountsType, RunnerType
<1>5. ASSUME NEW t \in Streams, EndStream(t) PROVE StreamInv(s)'
    BY <1>0, <1>5 DEF EndStream, Finish, StreamInv, Held, processes, CountsType, RunnerType
<1>6. ASSUME NEW q \in Holder, ReadsRequest(q) PROVE StreamInv(s)'
    BY <1>0, <1>6 DEF ReadsRequest, StreamInv, Held, processes, CountsType, RunnerType
<1>7. ASSUME NEW q \in Holder, NEW t \in Streams, WritesOutput(q, t) PROVE StreamInv(s)'
    BY <1>0, <1>7 DEF WritesOutput, StreamInv, Held, processes, CountsType, RunnerType
<1>8. ASSUME NEW q \in Holder, NEW x \in Pipes, ClosesPipe(q, x) PROVE StreamInv(s)'
  <2>1. \A h \in Holder : ends'[h] \subseteq ends[h]
    BY <1>0, <1>8 DEF ClosesPipe, CountsType
  <2> QED
    BY <1>0, <1>8, <2>1 DEF ClosesPipe, StreamInv, Held, threads
<1>9. ASSUME LeavesDescendant PROVE StreamInv(s)'
  <2>1. \A h \in Holder : ends'[h] \subseteq ends[h] \cup ends["child"]
    BY <1>0, <1>9 DEF LeavesDescendant, CountsType
  <2> QED
    BY <1>0, <1>9, <2>1 DEF LeavesDescendant, StreamInv, Held, threads
<1>10. ASSUME NEW how, Exits(how) PROVE StreamInv(s)'
  <2>1. \A h \in Holder : ends'[h] \subseteq ends[h]
    BY <1>0, <1>10 DEF Exits, CountsType
  <2> QED
    BY <1>0, <1>10, <2>1 DEF Exits, StreamInv, Held, threads
<1>11. ASSUME Tick \/ UNCHANGED vars PROVE StreamInv(s)'
    BY <1>0, <1>11 DEF Tick, vars, processes, threads, StreamInv, Held
<1> QED
    BY <1>1, <1>2, <1>3, <1>4, <1>5, <1>6, <1>7, <1>8, <1>9, <1>10, <1>11
    DEF Next, Threads, Program, ExitsByItself, DiesOfKill

(* A thread answers once, so that what the runner keeps stays true. *)
LEMMA ResultsStep == IInv /\ [Next]_vars => ResultsInv'
<1> SUFFICES ASSUME IInv, [Next]_vars PROVE ResultsInv'
    OBVIOUS
<1> USE PipeNames
<1>0. RunnerType /\ ResultsInv
    BY DEF IInv
<1>1. ASSUME PollLoop \/ PollWait PROVE ResultsInv'
  <2>1. UNCHANGED <<worker, child>> /\ \E x \in Pipes : results' = Received(x)
    BY <1>1 DEF PollLoop, PollWait, threads, processes
  <2>2. \A x, y \in Pipes : Received(x)[y] \in {results[y], worker[y]}
    BY <1>0 DEF Received, RunnerType
  <2>3. \A x, y \in Pipes : Received(x)[y] # "none" => Received(x)[y] = worker[y]
    BY <1>0, <2>2 DEF ResultsInv
  <2> QED
    BY <1>0, <2>1, <2>3 DEF ResultsInv
<1>2. ASSUME Runner, ~PollLoop, ~PollWait PROVE ResultsInv'
  <2>1. UNCHANGED <<results, worker>> /\ (child' = "none" => child = "none")
    BY <1>2
    DEF Runner, Reject, Spawn, CheckLimits, TryWait, CheckDeadline, Kill, Reap,
        KeepWaiting, AnswerUnwaited, AnswerExited, threads, processes
  <2> QED
    BY <1>0, <2>1 DEF ResultsInv
<1>3. ASSUME Threads PROVE ResultsInv'
  <2>1. /\ UNCHANGED <<results, child>> /\ child # "none"
        /\ \A x \in Pipes : worker[x] # "busy" => worker'[x] = worker[x]
    BY <1>0, <1>3
    DEF Threads, WriteRequest, DrainStream, EndStream, Finish, Started, RunnerType, processes
  <2> QED
    BY <1>0, <2>1 DEF ResultsInv, RunnerType
<1>4. ASSUME Program \/ Tick \/ UNCHANGED vars PROVE ResultsInv'
  <2>1. UNCHANGED <<results, worker>> /\ (child' = "none" => child = "none")
    BY <1>4
    DEF Program, ReadsRequest, WritesOutput, ClosesPipe, LeavesDescendant, ExitsByItself,
        DiesOfKill, Exits, Tick, vars, threads, processes
  <2> QED
    BY <1>0, <2>1 DEF ResultsInv
<1> QED
    BY <1>1, <1>2, <1>3, <1>4 DEF Next

(* A response is accepted after every thread has answered Ok and no limit was
   exceeded, and nothing happens to the streams after an answer. *)
LEMMA AcceptStep == IInv /\ [Next]_vars => AcceptedResponseIsWhole'
<1> SUFFICES ASSUME IInv, [Next]_vars PROVE AcceptedResponseIsWhole'
    OBVIOUS
<1> USE PipeNames
<1>0. /\ CountsType /\ RunnerType /\ ChildInv /\ StreamsInv /\ ResultsInv
      /\ AcceptedResponseIsWhole
    BY DEF IInv
<1>1. ASSUME AnswerExited PROVE AcceptedResponseIsWhole'
  <2> SUFFICES ASSUME answer'.kind = "Succeeded", NEW s \in Streams
               PROVE  status' = "success" /\ stored'[s] = written'[s] /\ ~Held(s)'
    BY DEF AcceptedResponseIsWhole
  <2>1. Complete /\ ~WorkerFailed /\ status = "success" /\ ~exceeded[s]
    BY <1>0, <1>1
    DEF AnswerExited, Fallback, Return, WorkerFailure
  <2>2. worker[s] = "ok"
    BY <1>0, <2>1
    DEF Complete, WorkerFailed, StreamFailed, ResultsInv, RunnerType
  <2>3. stored[s] = written[s] /\ ~Held(s)
    BY <1>0, <2>1, <2>2 DEF StreamsInv, StreamInv, CountsType
  <2> QED
    BY <1>1, <2>1, <2>3 DEF AnswerExited, processes, threads, Held
<1>2. ASSUME Runner, ~AnswerExited PROVE AcceptedResponseIsWhole'
  <2>1. ASSUME Reject PROVE answer'.kind # "Succeeded"
    BY <2>1 DEF Reject, Fallback, Return
  <2>2. ASSUME AnswerUnwaited PROVE answer'.kind # "Succeeded"
    BY <1>0, <2>2 DEF AnswerUnwaited, Fallback, Return, RunnerType, Outcome
  <2>3. ASSUME ~Reject, ~AnswerUnwaited PROVE answer' = answer /\ answer = NoAnswer
    BY <1>0, <1>2, <2>3
    DEF Runner, Spawn, PollLoop, CheckLimits, TryWait, CheckDeadline, Kill, Reap,
        PollWait, KeepWaiting, ChildInv
  <2>4. answer'.kind # "Succeeded"
    BY <2>1, <2>2, <2>3 DEF NoAnswer
  <2> QED
    BY <2>4 DEF AcceptedResponseIsWhole
<1>3. ASSUME Started /\ (Threads \/ Program \/ Tick) PROVE AcceptedResponseIsWhole'
  <2>1. answer' = answer
    BY <1>3
    DEF Threads, WriteRequest, DrainStream, EndStream, Program, ReadsRequest,
        WritesOutput, ClosesPipe, LeavesDescendant, ExitsByItself, DiesOfKill, Exits, Tick
  <2>2. answer.kind # "Succeeded"
    BY <1>0, <1>3 DEF Started, ChildInv, NoAnswer
  <2> QED
    BY <2>1, <2>2 DEF AcceptedResponseIsWhole
<1>4. CASE UNCHANGED vars
    BY <1>0, <1>4 DEF vars, processes, threads, AcceptedResponseIsWhole, Held
<1> QED
    BY <1>1, <1>2, <1>3, <1>4
    DEF Next, Threads, WriteRequest, DrainStream, EndStream, Tick

(* The invariant holds of every reachable state. *)
THEOREM Invariance == Spec => []IInv
<1>1. IInv /\ [Next]_vars => IInv'
    BY TypeStep, ChildStep, StreamStep, ResultsStep, AcceptStep DEF IInv
<1> QED
    BY InitInv, <1>1, PTL DEF Spec

(* What is accepted is the whole output of a child that exited successfully.  *)
THEOREM AcceptedIsWhole == Spec => []AcceptedResponseIsWhole
<1>1. IInv => AcceptedResponseIsWhole
    BY DEF IInv
<1> QED
    BY Invariance, <1>1, PTL

(* Every call that ends has reaped its direct child. *)
THEOREM ChildIsReaped == Spec => []NoChildIsLeft
<1>1. IInv => NoChildIsLeft
    BY DEF IInv, ChildInv, NoChildIsLeft
<1> QED
    BY Invariance, <1>1, PTL
=============================================================================
