---------------------------- MODULE EvidenceProofs ----------------------------
(***************************************************************************)
(* Proofs about the evidence, for every catalog of scenarios, every sequence *)
(* of trials and every claim contract.                                       *)
(***************************************************************************)
EXTENDS EvidenceRun, ReadinessGate, WellFoundedInduction, TLAPS

(***************************************************************************)
(* The processes of an evidence run.                                         *)
(***************************************************************************)
Answer ==
    [class : {"held", "error", "TimedOut", "Success", "AbnormalTermination", "Signaled"},
     exit : ExitStates \cup {None}, lines : Seq(Lines \cup {"", None})]
CallRecord ==
    [kind : {"ready", "spawn", "kill", None},
     at : {"idle", "check", "read", "proceed", "wait", "done"},
     line : Lines \cup {"", None}, late : BOOLEAN,
     outcome : Answer \cup {None}]
StoreRecord ==
    [created : BOOLEAN, owner : Slots \cup {None}, lapsed : BOOLEAN,
     command : {None, "committed", "acknowledged"}, published : BOOLEAN]
HarnessType ==
    /\ worker \in [Slots -> Worker \cup {None}]
    /\ call \in CallRecord
    /\ store \in StoreRecord

(* A held worker comes to no fault; a called one is aborted by none but its own, *)
(* and a process that has ended stays as it is.                              *)
WorkersInv ==
    /\ worker["held"] # None => /\ worker["held"].cmd = "hold-writer"
                                /\ worker["held"].at \in {"setup", "input", "finish"}
    /\ worker["called"] # None =>
          /\ worker["called"].at = "abort" => worker["called"].exit \in {None, "abort", "killed"}
          /\ \/ worker["called"].cmd = "attempt-writer" /\ worker["called"].at \in {"setup", "finish"}
             \/ worker["called"].cmd # "attempt-writer" /\ worker["called"].fault \in Faults

(* Where the runner is tells which call it has made ... *)
Calling == {"hold", "rejection", "sleep", "taken", "crashed-before", "crashed-after", "judge"}
KindAt(place) ==
    IF place = "hold" THEN "ready" ELSE IF place = "sleep" THEN "kill" ELSE "spawn"
PlaceInv ==
    /\ at \in Calling => call.at # "idle" /\ call.kind = KindAt(at)
    /\ at \notin Calling => call.at = "idle"
    /\ at \in {"hold", "attempt", "rejection", "kill", "sleep", "takeover", "taken"} =>
          Head(todo) = "concurrent-writer-attempt"

(* ... and the call what its worker has come to: the exit it reports is the    *)
(* worker's, and a worker it started and did not report as failed has ended.  *)
CallInv ==
    /\ call.at = "idle" \/ call.kind # "spawn" => worker["called"] = None
    /\ call.at \in {"proceed", "wait"} => call.kind = "spawn"
    /\ call.at \in {"check", "read", "proceed", "wait"} =>
          call.kind \in {"ready", "spawn"} /\ worker[SlotOf(call.kind)] # None
    /\ call.at = "done" => call.outcome \in Answer
    /\ call.at = "done" /\ call.kind = "spawn" =>
          \/ call.outcome.class = "error" /\ call.outcome.exit = None /\ worker["called"] = None
          \/ /\ worker["called"] # None /\ worker["called"].exit # None
             /\ call.outcome.exit \in {None, worker["called"].exit}

(* In a scenario that crashes a worker, the root is fresh when it is started:  *)
(* the command is committed by that worker, which then can but abort.         *)
CommitInv ==
    at = "crashed-after" /\ store.command = "committed" =>
        worker["called"] # None /\ worker["called"].at = "abort"

TrialsType == trials \in Seq(ToSet(trials))

ProcessInv == HarnessType /\ WorkersInv /\ PlaceInv /\ CallInv /\ CommitInv /\ TrialsType

(* One element, a larger set, and two sequences in a row.                     *)
LEMMA SeqFacts ==
    ASSUME NEW S, NEW T, S \subseteq T
    PROVE  /\ \A x \in S : <<x>> \in Seq(S)
           /\ \A q \in Seq(S) : q \in Seq(T)
           /\ \A q, r \in Seq(S) : q \o r \in Seq(S)
<1>1. \A x \in S : <<x>> \in Seq(S)  OBVIOUS
<1>2. \A q \in Seq(S) : q \in Seq(T)  OBVIOUS
<1>3. \A q, r \in Seq(S) : q \o r \in Seq(S)  OBVIOUS
<1> QED  BY <1>1, <1>2, <1>3

(* A sequence that is not empty has a head among its elements, and a tail.    *)
LEMMA HeadTail ==
    ASSUME NEW S, NEW q \in Seq(S), q # <<>>
    PROVE  Head(q) \in S /\ Tail(q) \in Seq(S)
OBVIOUS

(* What is done to a worker keeps it one, and the other worker as it is. *)
LEMMA BecomesType ==
    ASSUME HarnessType, NEW s \in Slots, NEW w \in Worker, Becomes(s, w)
    PROVE  /\ worker' \in [Slots -> Worker \cup {None}]
           /\ worker'[s] = w /\ w # None
           /\ \A t \in Slots : t # s => worker'[t] = worker[t]
BY NoneAssumption DEF Becomes, HarnessType

(* A worker that says a line stays a worker.                                  *)
LEMMA SaysType ==
    ASSUME HarnessType, NEW s \in Slots, worker[s] # None,
           NEW line \in Lines, NEW place \in {"input", "finish"}, Says(s, line, place)
    PROVE  /\ worker' \in [Slots -> Worker \cup {None}]
           /\ worker'[s] # None /\ worker'[s].exit = worker[s].exit
           /\ worker'[s].cmd = worker[s].cmd /\ worker'[s].fault = worker[s].fault
           /\ worker'[s].at = place
           /\ \A t \in Slots : t # s => worker'[t] = worker[t]
<1> DEFINE w == [worker[s] EXCEPT !.out = Append(@, line), !.at = place]
<1>1. worker[s] \in Worker
  BY DEF HarnessType
<1>2. Append(worker[s].out, line) \in Seq(Lines)
  BY <1>1 DEF Worker
<1>3. w \in Worker /\ w.exit = worker[s].exit /\ w.cmd = worker[s].cmd
     /\ w.fault = worker[s].fault /\ w.at = place
  BY <1>1, <1>2 DEF Worker
<1>4. Becomes(s, w)
  BY DEF Says
<1> HIDE DEF w
<1> QED  BY <1>3, <1>4, BecomesType

(* A worker that ends is one that has ended, the way it says.                 *)
LEMMA ExitsType ==
    ASSUME HarnessType, NEW s \in Slots, worker[s] # None, NEW how \in ExitStates, Exits(s, how)
    PROVE  /\ worker' \in [Slots -> Worker \cup {None}]
           /\ worker'[s] # None /\ worker'[s].exit = how
           /\ worker'[s].cmd = worker[s].cmd /\ worker'[s].fault = worker[s].fault
           /\ worker'[s].at = worker[s].at
           /\ \A t \in Slots : t # s => worker'[t] = worker[t]
<1> DEFINE w == [worker[s] EXCEPT !.exit = how]
<1>1. worker[s] \in Worker
  BY DEF HarnessType
<1>2. w \in Worker /\ w.exit = how /\ w.cmd = worker[s].cmd
     /\ w.fault = worker[s].fault /\ w.at = worker[s].at
  BY <1>1 DEF Worker
<1>3. Becomes(s, w)
  BY DEF Exits
<1> HIDE DEF w
<1> QED  BY <1>2, <1>3, BecomesType

(* A worker that goes on to its next step stays a worker.                     *)
LEMMA MovesType ==
    ASSUME HarnessType, NEW s \in Slots, worker[s] # None,
           NEW place \in {"act", "abort", "finish"}, Becomes(s, [worker[s] EXCEPT !.at = place])
    PROVE  /\ worker' \in [Slots -> Worker \cup {None}]
           /\ worker'[s] # None /\ worker'[s].exit = worker[s].exit
           /\ worker'[s].cmd = worker[s].cmd /\ worker'[s].fault = worker[s].fault
           /\ worker'[s].at = place
           /\ \A t \in Slots : t # s => worker'[t] = worker[t]
<1> DEFINE w == [worker[s] EXCEPT !.at = place]
<1>1. worker[s] \in Worker
  BY DEF HarnessType
<1>2. w \in Worker /\ w.exit = worker[s].exit /\ w.cmd = worker[s].cmd
     /\ w.fault = worker[s].fault /\ w.at = place
  BY <1>1 DEF Worker
<1> HIDE DEF w
<1> QED  BY <1>2, BecomesType DEF w

(* What a step of a worker comes to, for everybody else. *)
LEMMA WorkerSteps ==
    ASSUME HarnessType, WorkersInv, NEW s \in Slots, WorkerStep(s)
    PROVE  /\ HarnessType' /\ WorkersInv' /\ call' = call
           /\ Alive(s) /\ worker'[s] # None
           /\ \A t \in Slots : t # s => worker'[t] = worker[t]
           /\ worker[s].at = "abort" => worker'[s].at = "abort"
           /\ store'.command = "committed" /\ store.command # "committed" =>
                 s = "called" /\ worker'[s].at = "abort"
<1> USE DEF HarnessType, StoreRecord, Slots, Alive, WorkersInv
<1>1. CASE WorkerSetsUp(s)
  <2>1. /\ store' \in StoreRecord /\ store'.command = store.command
    BY <1>1 DEF WorkerSetsUp
  <2>2. \E place \in {"input", "finish"} : Says(s, "ready", place) /\ (s = "held" => place = "input")
    BY <1>1 DEF WorkerSetsUp
  <2> QED  BY <1>1, <2>1, <2>2, SaysType DEF WorkerSetsUp, Lines
<1>2. CASE WorkerAttempts(s) \/ WorkerIsRefused(s)
  <2>1. store' \in StoreRecord /\ store'.command = store.command
    BY <1>2 DEF WorkerAttempts, WorkerIsRefused
  <2>2. \E line \in Lines : Says(s, line, "finish")
    BY <1>2 DEF WorkerAttempts, WorkerIsRefused, Lines
  <2> QED  BY <1>2, <2>1, <2>2, SaysType DEF WorkerAttempts, WorkerIsRefused
<1>3. CASE WorkerIsTold(s)
  <2>1. \E place \in {"act", "finish"} :
            Becomes(s, [worker[s] EXCEPT !.at = place]) /\ (s = "held" => place = "finish")
    BY <1>3 DEF WorkerIsTold, Becomes
  <2> QED  BY <1>3, <2>1, MovesType DEF WorkerIsTold
<1>4. CASE WorkerActs(s)
  <2>1. s = "called"
    BY <1>4 DEF WorkerActs
  <2>2. worker[s].fault \in Faults
    BY <1>4, <2>1 DEF WorkerActs
  <2>3. store' \in StoreRecord
    BY <1>4, <2>2 DEF WorkerActs, Faults
  <2> QED  BY <1>4, <2>1, <2>3, MovesType DEF WorkerActs
<1>5. CASE WorkerAborts(s)
  BY <1>5, ExitsType DEF WorkerAborts, ExitStates
<1>6. CASE WorkerFails(s)
  <2>1. store' \in StoreRecord /\ store'.command = store.command
    BY <1>6 DEF WorkerFails
  <2> QED  BY <1>6, <2>1, ExitsType DEF WorkerFails, ExitStates
<1>7. CASE WorkerFinishes(s)
  BY <1>7, ExitsType DEF WorkerFinishes, ExitStates
<1> QED  BY <1>1, <1>2, <1>3, <1>4, <1>5, <1>6, <1>7 DEF WorkerStep

(* The same of the harness: it changes what a worker has written or may read, and *)
(* kills it if it has not ended.                                             *)
LEMMA KilledType ==
    ASSUME HarnessType, NEW s \in Slots, worker[s] # None, worker' = Killed(s)
    PROVE  /\ worker' \in [Slots -> Worker \cup {None}]
           /\ worker'[s] # None
           /\ worker'[s].exit = IF worker[s].exit = None THEN "killed" ELSE worker[s].exit
           /\ worker'[s].cmd = worker[s].cmd /\ worker'[s].fault = worker[s].fault
           /\ worker'[s].at = worker[s].at
           /\ \A t \in Slots : t # s => worker'[t] = worker[t]
<1> DEFINE w == [worker[s] EXCEPT !.exit = IF @ = None THEN "killed" ELSE @]
<1>1. worker[s] \in Worker
  BY DEF HarnessType
<1>2. /\ w \in Worker /\ w.exit = IF worker[s].exit = None THEN "killed" ELSE worker[s].exit
      /\ w.cmd = worker[s].cmd /\ w.fault = worker[s].fault /\ w.at = worker[s].at
  BY <1>1 DEF Worker, ExitStates
<1>3. Becomes(s, w)
  BY DEF Killed, Becomes
<1> HIDE DEF w
<1> QED  BY <1>2, <1>3, BecomesType

(* A call that ends has an answer.                                            *)
LEMMA EndsType ==
    ASSUME call \in CallRecord, NEW a \in Answer, Ends(a)
    PROVE  /\ call' \in CallRecord /\ call'.at = "done" /\ call'.kind = call.kind
           /\ call'.outcome = a
BY DEF Ends, CallRecord

(* The harness's own steps keep the invariant, without a step of the runner.  *)
LEMMA HarnessSteps ==
    ASSUME HarnessType, WorkersInv, CallInv, HarnessStep
    PROVE  /\ HarnessType' /\ WorkersInv' /\ CallInv' /\ store' = store
           /\ call.at # "idle" /\ call'.at # "idle" /\ call'.kind = call.kind
           /\ worker["called"] # None => worker'["called"] # None /\ worker'["called"].at = worker["called"].at
<1> USE DEF HarnessType, Slots, Alive, WorkersInv, CallInv, SlotOf
<1>1. CASE CheckReadyDeadline
  <2>1. CASE call.late
    <3>1. PICK c \in {"error", "TimedOut"} : /\ Ends(Outcome(c, None, <<>>))
                                             /\ c = "error" => call.kind = "ready"
      BY <1>1, <2>1 DEF CheckReadyDeadline
    <3>2. <<>> \in Seq(Lines \cup {"", None})
      OBVIOUS
    <3>3. Outcome(c, None, <<>>) \in Answer
      BY <3>2 DEF Outcome, Answer
    <3>4. /\ call.at = "check" /\ call.kind \in {"ready", "spawn"}
          /\ worker[SlotOf(call.kind)] # None /\ worker' = Killed(SlotOf(call.kind))
          /\ store' = store
      BY <1>1, <2>1 DEF CheckReadyDeadline
    <3>5. /\ call' \in CallRecord /\ call'.at = "done" /\ call'.kind = call.kind
          /\ call'.outcome \in Answer /\ call'.outcome.class = c /\ call'.outcome.exit = None
      BY <3>1, <3>3, EndsType DEF Outcome
    <3>6. CASE call.kind = "ready"
      BY <3>4, <3>5, <3>6, KilledType
    <3>7. CASE call.kind = "spawn"
      BY <3>1, <3>4, <3>5, <3>7, KilledType, NoneAssumption DEF ExitStates
    <3> QED  BY <3>4, <3>6, <3>7
  <2>2. CASE ~call.late
    BY <1>1, <2>2, ZenonT(30) DEF CheckReadyDeadline, CallRecord
  <2> QED  BY <2>1, <2>2
<1>2. CASE ReadLine
  <2> DEFINE s == SlotOf(call.kind)
             w == worker[s]
             line == IF w.out = <<>> THEN "" ELSE Head(w.out)
             v == [w EXCEPT !.out = Tail(@)]
  <2>1. call.at = "read" /\ s \in Slots /\ w \in Worker
    BY <1>2 DEF ReadLine
  <2>2. line \in Lines \cup {""}
    BY <2>1, HeadTail DEF Worker
  <2>3. /\ worker' \in [Slots -> Worker \cup {None}]
        /\ \A t \in Slots : worker[t] # None => 
              /\ worker'[t] # None /\ worker'[t].exit = worker[t].exit
              /\ worker'[t].cmd = worker[t].cmd /\ worker'[t].fault = worker[t].fault
              /\ worker'[t].at = worker[t].at
        /\ \A t \in Slots : worker[t] = None => worker'[t] = None
    <3>1. CASE w.out = <<>>
      BY <1>2, <3>1 DEF ReadLine
    <3>2. CASE w.out # <<>>
      <4>1. Tail(w.out) \in Seq(Lines)
        BY <2>1, <3>2, HeadTail DEF Worker
      <4>2. /\ v \in Worker /\ v.exit = w.exit /\ v.cmd = w.cmd /\ v.fault = w.fault /\ v.at = w.at
        BY <2>1, <4>1 DEF Worker
      <4>3. Becomes(s, v)
        BY <1>2, <3>2 DEF ReadLine, Becomes
      <4> HIDE DEF v, s
      <4> QED  BY <2>1, <4>2, <4>3, BecomesType, NoneAssumption DEF w
    <3> QED  BY <3>1, <3>2
  <2>4. \/ Ends(Outcome("held", None, <<line>>)) /\ call.kind = "ready"
        \/ call' = [call EXCEPT !.at = "check", !.line = line]
        \/ call' = [call EXCEPT !.line = line, !.at = "proceed"] /\ call.kind # "ready"
    BY <1>2 DEF ReadLine
  <2> HIDE DEF s, w, line, v
  <2>5. CASE Ends(Outcome("held", None, <<line>>)) /\ call.kind = "ready"
    <3>1. <<line>> \in Seq(Lines \cup {"", None})
      BY <2>2, SeqFacts
    <3>2. Outcome("held", None, <<line>>) \in Answer
      BY <3>1 DEF Outcome, Answer
    <3> QED  BY <1>2, <2>1, <2>3, <2>5, <3>2, EndsType DEF ReadLine
  <2>6. CASE call' = [call EXCEPT !.at = "check", !.line = line]
    BY <1>2, <2>1, <2>2, <2>3, <2>6 DEF ReadLine, CallRecord
  <2>7. CASE call' = [call EXCEPT !.line = line, !.at = "proceed"] /\ call.kind # "ready"
    BY <1>2, <2>1, <2>2, <2>3, <2>7 DEF ReadLine, CallRecord
  <2> QED  BY <2>4, <2>5, <2>6, <2>7
<1>3. CASE Proceed
  <2> DEFINE w == [worker["called"] EXCEPT !.stdin = "line"]
  <2>1. call.at = "proceed" /\ worker["called"] \in Worker
    BY <1>3 DEF Proceed
  <2>2. /\ w \in Worker /\ w.exit = worker["called"].exit /\ w.cmd = worker["called"].cmd
        /\ w.fault = worker["called"].fault /\ w.at = worker["called"].at
    BY <2>1 DEF Worker
  <2>3. Becomes("called", w)
    BY <1>3 DEF Proceed, Becomes
  <2> HIDE DEF w
  <2> QED  BY <1>3, <2>1, <2>2, <2>3, BecomesType, ZenonT(30) DEF Proceed, CallRecord
<1>4. CASE TryWait
  <2>1. call.at = "wait" /\ call.kind = "spawn" /\ worker["called"] # None /\ store' = store
    BY <1>4 DEF TryWait
  <2>2. CASE ~Alive("called")
    <3> DEFINE a == Outcome(ClassifyExit(worker["called"].exit), worker["called"].exit,
                            <<call.line>> \o worker["called"].out)
    <3>1. Ends(a) /\ worker' = worker
      BY <1>4, <2>2 DEF TryWait
    <3>2. <<call.line>> \o worker["called"].out \in Seq(Lines \cup {"", None})
      <4>1. worker["called"].out \in Seq(Lines) /\ call.line \in Lines \cup {"", None}
        BY <2>1 DEF Worker, CallRecord
      <4>2. worker["called"].out \in Seq(Lines \cup {"", None})
        BY <4>1, SeqFacts
      <4>3. <<call.line>> \in Seq(Lines \cup {"", None})
        BY <4>1, SeqFacts
      <4> QED  BY <4>2, <4>3, SeqFacts
    <3>3. a \in Answer /\ a.exit = worker["called"].exit
      <4>1. worker["called"].exit \in ExitStates
        BY <2>1, <2>2 DEF Worker
      <4>2. ClassifyExit(worker["called"].exit) \in {"Success", "AbnormalTermination", "Signaled"}
        BY DEF ClassifyExit
      <4> QED  BY <3>2, <4>1, <4>2 DEF Outcome, Answer
    <3> HIDE DEF a
    <3> QED  BY <2>1, <2>2, <3>1, <3>3, EndsType
  <2>3. CASE Alive("called")
    <3> DEFINE a == Outcome("TimedOut", None, <<call.line>>)
    <3>1. Ends(a) /\ worker' = Killed("called")
      BY <1>4, <2>3 DEF TryWait
    <3>2. <<call.line>> \in Seq(Lines \cup {"", None})
      BY <2>1, SeqFacts DEF CallRecord
    <3>3. a \in Answer /\ a.exit = None
      BY <3>2 DEF Outcome, Answer
    <3> HIDE DEF a
    <3> QED  BY <2>1, <3>1, <3>3, EndsType, KilledType, NoneAssumption DEF ExitStates
  <2> QED  BY <2>2, <2>3
<1> QED  BY <1>1, <1>2, <1>3, <1>4 DEF HarnessStep

(* A worker is started, or cannot be. *)
LEMMA SpawnType ==
    ASSUME HarnessType, WorkersInv, CallInv, store' \in StoreRecord,
           NEW kind \in {"ready", "spawn"}, NEW cmd \in WorkerCommands,
           NEW fault \in Faults \cup {None}, Spawn(kind, cmd, fault),
           \/ kind = "ready" /\ cmd = "hold-writer"
           \/ kind = "spawn" /\ cmd = "attempt-writer"
           \/ kind = "spawn" /\ cmd # "attempt-writer" /\ fault \in Faults
    PROVE  /\ HarnessType' /\ WorkersInv' /\ CallInv'
           /\ call'.at # "idle" /\ call'.kind = kind
<1> DEFINE w == NewWorker(cmd, fault)
           a == Outcome("error", None, <<>>)
<1>1. w \in Worker /\ w.cmd = cmd /\ w.fault = fault /\ w.at = "setup" /\ w.exit = None
  <2>1. <<>> \in Seq(Lines)
    OBVIOUS
  <2> QED  BY <2>1 DEF NewWorker, Worker
<1>2. a \in Answer /\ a.class = "error" /\ a.exit = None
  <2>1. <<>> \in Seq(Lines \cup {"", None})
    OBVIOUS
  <2> QED  BY <2>1 DEF Answer, Outcome
<1>3. SlotOf(kind) \in Slots /\ worker["called"] = None /\ call.at = "idle"
  BY DEF Spawn, SlotOf, Slots, CallInv
<1> HIDE DEF w, a
<1>4. CASE Becomes(SlotOf(kind), w) /\ call' = [NoCall EXCEPT !.kind = kind, !.at = "check"]
  <2>1. /\ call' \in CallRecord /\ call'.kind = kind /\ call'.at = "check"
    BY <1>4 DEF NoCall, CallRecord
  <2> QED  BY <1>1, <1>3, <1>4, <2>1, BecomesType DEF HarnessType, WorkersInv, CallInv, SlotOf, Slots
<1>5. CASE call' = [NoCall EXCEPT !.kind = kind, !.at = "done", !.outcome = a] /\ UNCHANGED worker
  <2>1. /\ call' \in CallRecord /\ call'.kind = kind /\ call'.at = "done" /\ call'.outcome = a
    BY <1>2, <1>5 DEF NoCall, CallRecord
  <2> QED  BY <1>2, <1>3, <1>5, <2>1 DEF HarnessType, WorkersInv, CallInv, SlotOf, Slots
<1> QED  BY <1>4, <1>5 DEF Spawn, w, a

(* The answer is used up, and a held worker may be dropped. *)
LEMMA ForgetType ==
    ASSUME HarnessType, WorkersInv, CallInv, store' \in StoreRecord,
           call.at \in {"idle", "done"}, call' = NoCall,
           worker' = Reaped(worker) \/ worker' = Reaped(DropHeld)
    PROVE  /\ HarnessType' /\ WorkersInv' /\ CallInv'
           /\ call'.at = "idle"
<1>1. call' \in CallRecord /\ call'.at = "idle"
  BY DEF NoCall, CallRecord
<1>2. worker["called"] # None => worker["called"].exit # None
  BY DEF CallInv
<1>3. ASSUME NEW ws \in [Slots -> Worker \cup {None}], worker' = Reaped(ws),
             ws["called"] = worker["called"],
             ws["held"] # None => /\ ws["held"].cmd = "hold-writer"
                                  /\ ws["held"].at \in {"setup", "input", "finish"}
      PROVE  /\ worker' \in [Slots -> Worker \cup {None}] /\ worker'["called"] = None
             /\ WorkersInv'
  BY <1>2, <1>3 DEF Reaped, Slots, WorkersInv
<1>4. worker' \in [Slots -> Worker \cup {None}] /\ worker'["called"] = None /\ WorkersInv'
  <2>1. CASE worker' = Reaped(worker)
    BY <1>3, <2>1 DEF HarnessType, WorkersInv
  <2>2. CASE worker' = Reaped(DropHeld)
    <3> DEFINE w == [worker["held"] EXCEPT !.stdin = IF @ = "open" THEN "eof" ELSE @]
    <3>1. CASE worker["held"] = None
      BY <1>3, <2>2, <3>1 DEF HarnessType, WorkersInv, DropHeld
    <3>2. CASE worker["held"] # None
      <4>1. worker["held"] \in Worker
        BY <3>2 DEF HarnessType, Slots
      <4>2. w \in Worker /\ w.cmd = worker["held"].cmd /\ w.at = worker["held"].at
        BY <4>1 DEF Worker
      <4>3. DropHeld = [worker EXCEPT !["held"] = w]
        BY <3>2 DEF DropHeld
      <4> HIDE DEF w
      <4>4. /\ DropHeld \in [Slots -> Worker \cup {None}]
            /\ DropHeld["held"] = w /\ DropHeld["called"] = worker["called"]
        BY <4>2, <4>3 DEF HarnessType, Slots
      <4> QED  BY <1>3, <2>2, <3>2, <4>2, <4>4 DEF WorkersInv
    <3> QED  BY <3>1, <3>2
  <2> QED  BY <2>1, <2>2
<1> QED  BY <1>1, <1>4 DEF HarnessType, CallInv

HarnessInv == HarnessType /\ WorkersInv /\ CallInv

(* A run appends to its trials or starts anew. *)
LEMMA AppendTrial ==
    ASSUME TrialsType, NEW x, trials' = Append(trials, x)
    PROVE  TrialsType' /\ Last(trials') = x /\ Len(trials') = Len(trials) + 1
<1>1. trials' \in Seq(ToSet(trials) \cup {x}) /\ Len(trials') = Len(trials) + 1
  BY DEF TrialsType
<1>2. \A i \in DOMAIN trials' : trials'[i] \in ToSet(trials')
  BY DEF ToSet
<1>3. trials' \in Seq(ToSet(trials'))
  BY <1>1, <1>2
<1> QED  BY <1>1, <1>3 DEF TrialsType, Last

(* The invariant of the processes holds at the start ...                      *)
LEMMA ProcessInit == EvidenceInit => ProcessInv
<1> SUFFICES ASSUME EvidenceInit PROVE ProcessInv
  OBVIOUS
<1>1. HarnessType
  BY DEF EvidenceInit, HarnessInit, HarnessType, NoCall, FreshStore, CallRecord, StoreRecord, Slots
<1>2. worker["called"] = None /\ worker["held"] = None /\ call.at = "idle" /\ at = "idle"
  BY DEF EvidenceInit, HarnessInit, NoCall, Slots
<1>3. trials \in Seq(ToSet(trials))
  BY DEF EvidenceInit, ToSet
<1> QED
  BY <1>1, <1>2, <1>3
  DEF ProcessInv, WorkersInv, PlaceInv, CallInv, CommitInv, TrialsType, Calling

(* The steps of the worker, of the harness and of time, with the runner waiting. *)
LEMMA WaitingSteps ==
    ASSUME ProcessInv, UNCHANGED runVars,
           \/ \E s \in Slots : WorkerStep(s)
           \/ HarnessStep
           \/ Deadline
           \/ LeaseLapses
    PROVE  ProcessInv'
<1> USE DEF ProcessInv, runVars
<1>1. ASSUME NEW s \in Slots, WorkerStep(s) PROVE ProcessInv'
  <2>1. HarnessType' /\ WorkersInv'
    BY <1>1, WorkerSteps
  <2>2. CallInv'
    BY <1>1, WorkerSteps DEF CallInv, Alive, Slots, SlotOf
  <2>3. CommitInv'
    BY <1>1, WorkerSteps DEF CommitInv, Slots
  <2>4. PlaceInv' /\ TrialsType'
    BY <1>1, WorkerSteps DEF PlaceInv, TrialsType
  <2> QED  BY <2>1, <2>2, <2>3, <2>4
<1>2. CASE HarnessStep
  <2>1. HarnessType' /\ WorkersInv' /\ CallInv'
    BY <1>2, HarnessSteps
  <2>2. CommitInv' /\ PlaceInv' /\ TrialsType'
    BY <1>2, HarnessSteps DEF CommitInv, PlaceInv, TrialsType
  <2> QED  BY <2>1, <2>2
<1>3. CASE Deadline
  <2>1. /\ call' \in CallRecord /\ call'.at = call.at /\ call'.kind = call.kind
        /\ call'.outcome = call.outcome /\ call.at \notin {"idle", "done"}
    BY <1>3 DEF Deadline, HarnessType, CallRecord
  <2> QED
    BY <1>3, <2>1
    DEF Deadline, HarnessType, WorkersInv, CallInv, CommitInv, PlaceInv, TrialsType
<1>4. CASE LeaseLapses
  <2>1. store' \in StoreRecord /\ store'.command = store.command
    BY <1>4 DEF LeaseLapses, HarnessType, StoreRecord
  <2> QED
    BY <1>4, <2>1
    DEF LeaseLapses, HarnessType, WorkersInv, CallInv, CommitInv, PlaceInv, TrialsType
<1> QED  BY <1>1, <1>2, <1>3, <1>4

(* The steps of the runner: a call is made, or an answer used up. *)
LEMMA RunnerSteps ==
    ASSUME ProcessInv, ConcurrentWriter \/ InterruptedTransition \/ DurabilityTrials
    PROVE  ProcessInv'
<1> USE DEF ProcessInv, Goto, Record, Ended, HarnessInv
<1>1. FreshStore \in StoreRecord /\ FreshStore.command # "committed"
  BY NoneAssumption DEF FreshStore, StoreRecord
<1>2. CASE HoldWriter
  <2>1. HarnessInv' /\ call'.at # "idle" /\ call'.kind = "ready"
    BY <1>1, <1>2, SpawnType DEF HoldWriter, FreshRoot, WorkerCommands
  <2> QED
    BY <1>2, <2>1 DEF HoldWriter, PlaceInv, Calling, KindAt, CommitInv, TrialsType
<1>3. CASE HeldOrNot \/ RejectedOrNot
  <2>1. HarnessInv' /\ call'.at = "idle"
    BY <1>3, ForgetType DEF HeldOrNot, RejectedOrNot, Forget, Return, HarnessType
  <2> QED
    BY <1>3, <2>1
    DEF HeldOrNot, RejectedOrNot, Return, PlaceInv, Calling, CommitInv, TrialsType
<1>4. ASSUME NEW place \in {"attempt", "takeover"}, NEW next \in {"rejection", "taken"},
             AttemptWriter(place, next)
      PROVE  ProcessInv'
  <2>1. HarnessInv' /\ call'.at # "idle" /\ call'.kind = "spawn"
    BY <1>4, SpawnType DEF AttemptWriter, WorkerCommands, HarnessType
  <2> QED
    BY <1>4, <2>1 DEF AttemptWriter, PlaceInv, Calling, KindAt, CommitInv, TrialsType
<1>5. CASE KillHolder
  <2> DEFINE a == Outcome("Signaled", worker'["held"].exit, <<"ready">>)
  <2>1. /\ at = "kill" /\ at' = "sleep" /\ call.at = "idle" /\ worker["held"] # None
        /\ worker' = Killed("held") /\ store' = store
        /\ call' = [NoCall EXCEPT !.kind = "kill", !.at = "done", !.outcome = a]
    BY <1>5 DEF KillHolder, KillHeldWorker
  <2>2. /\ worker' \in [Slots -> Worker \cup {None}] /\ WorkersInv'
        /\ worker'["held"] \in Worker /\ worker'["called"] = None
    BY <2>1, KilledType DEF WorkersInv, CallInv, Slots
  <2>3. a \in Answer
    <3>1. "ready" \in Lines \cup {"", None}
      BY DEF Lines
    <3>2. <<"ready">> \in Seq(Lines \cup {"", None})
      BY <3>1, SeqFacts
    <3> QED  BY <2>2, <3>2 DEF Answer, Outcome, Worker
  <2> HIDE DEF a
  <2>4. call' \in CallRecord /\ call'.at = "done" /\ call'.kind = "kill" /\ call'.outcome = a
    BY <2>1, <2>3 DEF NoCall, CallRecord
  <2> QED
    BY <1>5, <2>1, <2>2, <2>3, <2>4
    DEF KillHolder, HarnessType, CallInv, PlaceInv, Calling, KindAt, CommitInv, TrialsType
<1>6. CASE SleepPastLease
  <2>1. store' \in StoreRecord
    BY <1>6 DEF SleepPastLease, HarnessType, StoreRecord
  <2>2. HarnessInv' /\ call'.at = "idle"
    BY <1>6, <2>1, ForgetType DEF SleepPastLease, Forget
  <2> QED
    BY <1>6, <2>2 DEF SleepPastLease, PlaceInv, Calling, CommitInv, TrialsType
<1>7. CASE TookOverOrNot
  <2>1. HarnessInv' /\ call'.at = "idle"
    BY <1>7, ForgetType DEF TookOverOrNot, Return, HarnessType
  <2> QED
    BY <1>7, <2>1 DEF TookOverOrNot, Return, PlaceInv, Calling, CommitInv, TrialsType
<1>8. CASE CrashBeforeCommit \/ CrashAfterCommit
  <2>1. HarnessInv' /\ call'.at # "idle" /\ call'.kind = "spawn"
    BY <1>1, <1>8, SpawnType
    DEF CrashBeforeCommit, CrashAfterCommit, CrashWorker, FreshRoot, WorkerCommands, Faults
  <2> QED
    BY <1>1, <1>8, <2>1
    DEF CrashBeforeCommit, CrashAfterCommit, CrashWorker, FreshRoot, PlaceInv, Calling, KindAt,
        CommitInv, TrialsType
<1>9. CASE BeforeCommitJudged \/ AfterCommitJudged
  <2>1. store' \in StoreRecord
    BY <1>9 DEF BeforeCommitJudged, AfterCommitJudged, HarnessType, StoreRecord
  <2>2. HarnessInv' /\ call'.at = "idle"
    BY <1>9, <2>1, ForgetType DEF BeforeCommitJudged, AfterCommitJudged, Forget, Return
  <2> QED
    BY <1>9, <2>2
    DEF BeforeCommitJudged, AfterCommitJudged, Return, PlaceInv, Calling, CommitInv, TrialsType
<1>10. CASE RetryAfterCrash
  <2>1. store' \in StoreRecord
    BY <1>10 DEF RetryAfterCrash, HarnessType, StoreRecord
  <2>2. HarnessInv' /\ call'.at = "idle"
    BY <1>10, <2>1, ForgetType DEF RetryAfterCrash, Return, PlaceInv, Calling
  <2> QED
    BY <1>10, <2>2 DEF RetryAfterCrash, Return, PlaceInv, Calling, CommitInv, TrialsType
<1>11. CASE SpawnTrial
  <2> DEFINE fault == FaultOf(Head(todo))
             cmd == IF fault = "after-publish" THEN "duplicate-and-crash" ELSE "apply-command-crash"
  <2>1. fault \in Faults /\ cmd \in WorkerCommands /\ cmd # "attempt-writer"
    BY <1>11 DEF SpawnTrial, FaultOf, Faults, WorkerCommands
  <2>2. Spawn("spawn", cmd, fault) /\ store' = FreshStore
    BY <1>11 DEF SpawnTrial, FreshRoot
  <2> HIDE DEF fault, cmd
  <2>3. HarnessInv' /\ call'.at # "idle" /\ call'.kind = "spawn"
    BY <1>1, <2>1, <2>2, SpawnType
  <2> QED
    BY <1>11, <2>3 DEF SpawnTrial, PlaceInv, Calling, KindAt, CommitInv, TrialsType
<1>12. CASE JudgeTrial
  <2>1. HarnessInv' /\ call'.at = "idle"
    BY <1>12, ForgetType DEF JudgeTrial, Forget, HarnessType
  <2>2. \E outcome : EndTrial(outcome)
    BY <1>12 DEF JudgeTrial
  <2>3. at' = "trial" /\ \E x : trials' = Append(trials, x)
    BY <2>2 DEF EndTrial
  <2> QED
    BY <2>1, <2>3, AppendTrial DEF PlaceInv, Calling, CommitInv
<1>13. CASE LogicalTrial
  <2>1. at = "trial" /\ at' = "trial" /\ \E x : trials' = Append(trials, x)
    BY <1>13 DEF LogicalTrial, EndTrial
  <2> QED
    BY <1>13, <2>1, AppendTrial
    DEF LogicalTrial, harnessVars, HarnessType, WorkersInv, CallInv, PlaceInv, Calling, CommitInv
<1> QED
  BY <1>2, <1>3, <1>4, <1>5, <1>6, <1>7, <1>8, <1>9, <1>10, <1>11, <1>12, <1>13
  DEF ConcurrentWriter, InterruptedTransition, DurabilityTrials

(* What the runner does without its workers, the files, and the merge *)
LEMMA OtherSteps ==
    ASSUME ProcessInv,
           \/ \E kind \in {"host", "v2", "v3"} : StartRun(kind)
           \/ RunInProcess \/ Aggregate \/ WritingFiles \/ MergePlatforms
    PROVE  ProcessInv'
<1> USE DEF ProcessInv, Goto, Record, HarnessInv
<1>1. CASE Panic /\ at \notin Calling
  <2>1. HarnessInv' /\ call'.at = "idle"
    BY <1>1, ForgetType DEF Panic, PlaceInv, HarnessType
  <2> QED
    BY <1>1, <2>1 DEF Panic, PlaceInv, Calling, CommitInv, TrialsType
<1>2. ASSUME UNCHANGED harnessVars, at \notin Calling, at' \notin Calling \cup {"attempt", "kill", "takeover"},
             trials' \in {trials, <<>>}
      PROVE  ProcessInv'
  <2>1. TrialsType'
    <3>1. CASE trials' = <<>>
      BY <3>1 DEF TrialsType, ToSet
    <3>2. CASE trials' = trials
      BY <3>2 DEF TrialsType
    <3> QED  BY <1>2, <3>1, <3>2
  <2> QED
    BY <1>2, <2>1
    DEF harnessVars, HarnessType, WorkersInv, CallInv, PlaceInv, Calling, CommitInv
<1>3. CASE \E kind \in {"host", "v2", "v3"} : StartRun(kind)
  BY <1>2, <1>3 DEF StartRun, Calling
<1>4. CASE RunInProcess
  BY <1>1, <1>2, <1>4 DEF RunInProcess, Calling
<1>5. CASE Aggregate
  BY <1>2, <1>5 DEF Aggregate, Calling
<1>6. CASE WritingFiles
  <2>1. CASE WriteFails
    <3>1. Panic /\ at \notin Calling
      BY <2>1 DEF WriteFails, ByProcesses, Calling
    <3> QED  BY <1>1, <3>1
  <2>2. CASE WriteArtifacts \/ WriteChecksums \/ WriteSummary \/ MergePeer
    BY <1>2, <2>2
    DEF WriteArtifacts, WriteChecksums, WriteSummary, MergePeer, KeepRun, Calling
  <2> QED  BY <1>6, <2>1, <2>2 DEF WritingFiles
<1>7. CASE MergePlatforms
  BY <1>2, <1>7 DEF MergePlatforms, KeepRun, Calling
<1> QED  BY <1>3, <1>4, <1>5, <1>6, <1>7

(* ... and every step keeps it.                                               *)
LEMMA ProcessStep == ProcessInv /\ [EvidenceNext]_evidenceVars => ProcessInv'
<1> SUFFICES ASSUME ProcessInv, [EvidenceNext]_evidenceVars PROVE ProcessInv'
  OBVIOUS
<1>1. CASE UNCHANGED evidenceVars
  BY <1>1
  DEF evidenceVars, harnessVars, runVars, ProcessInv, HarnessType, WorkersInv, CallInv,
      PlaceInv, CommitInv, TrialsType
<1>2. CASE EvidenceNext
  BY <1>2, WaitingSteps, RunnerSteps, OtherSteps
  DEF EvidenceNext, RunnerStep, WorkerStepOf, LeaseRunsOut
<1> QED  BY <1>1, <1>2

(* Where each of the processes is, always *)
LEMMA ProcessInvariance == EvidenceSpec => []ProcessInv
BY ProcessInit, ProcessStep, PTL DEF EvidenceSpec

(* Who ends a trial, who goes to retry and who records a result *)
LEMMA OnlyTrialsAppend ==
    ASSUME EvidenceNext, ~JudgeTrial, ~LogicalTrial
    PROVE  trials' \in {trials, <<>>}
<1>1. CASE ConcurrentWriter \/ InterruptedTransition
  BY <1>1
  DEF ConcurrentWriter, HoldWriter, HeldOrNot, AttemptWriter, RejectedOrNot, KillHolder,
      SleepPastLease, TookOverOrNot, InterruptedTransition, CrashBeforeCommit,
      BeforeCommitJudged, CrashAfterCommit, AfterCommitJudged, RetryAfterCrash, CrashWorker,
      Return, Record, Goto
<1>2. CASE RunInProcess \/ SpawnTrial \/ Aggregate \/ WritingFiles \/ MergePlatforms
  BY <1>2
  DEF RunInProcess, SpawnTrial, Aggregate, WritingFiles, WriteArtifacts, WriteChecksums,
      WriteSummary, WriteFails, MergePeer, MergePlatforms, KeepRun, Panic, Record, Goto
<1> QED
  BY <1>1, <1>2
  DEF EvidenceNext, StartRun, RunnerStep, DurabilityTrials, WorkerStepOf, LeaseRunsOut, runVars

(* The runner retries the transition only after it judged the crash.          *)
LEMMA OnlyJudgedRetry ==
    ASSUME EvidenceNext, at # "retry", at' = "retry"
    PROVE  AfterCommitJudged
<1>1. CASE ConcurrentWriter \/ InterruptedTransition
  BY <1>1
  DEF ConcurrentWriter, HoldWriter, HeldOrNot, AttemptWriter, RejectedOrNot, KillHolder,
      SleepPastLease, TookOverOrNot, InterruptedTransition, CrashBeforeCommit,
      BeforeCommitJudged, CrashAfterCommit, RetryAfterCrash, CrashWorker,
      Return, Record, Goto
<1>2. CASE RunInProcess \/ DurabilityTrials \/ Aggregate \/ WritingFiles \/ MergePlatforms
  BY <1>2
  DEF RunInProcess, DurabilityTrials, SpawnTrial, JudgeTrial, LogicalTrial, EndTrial, Aggregate,
      WritingFiles, WriteArtifacts, WriteChecksums, WriteSummary, WriteFails, MergePeer,
      MergePlatforms, KeepRun, Panic, Record, Goto
<1> QED
  BY <1>1, <1>2 DEF EvidenceNext, StartRun, RunnerStep, WorkerStepOf, LeaseRunsOut, runVars

(* Results are recorded by the runs of scenarios only.                        *)
LEMMA OnlyRunsRecord ==
    ASSUME EvidenceNext, results' # results
    PROVE  \E result : /\ results' = Updated(results, {Head(todo)}, result)
                       /\ \/ RunInProcess
                          \/ result = Failed
                          \/ TookOverOrNot
                          \/ /\ at = "retry"
                             /\ store' = [store EXCEPT !.owner = None, !.command = "acknowledged"]
<1>1. CASE ConcurrentWriter \/ InterruptedTransition
  BY <1>1
  DEF ConcurrentWriter, HoldWriter, HeldOrNot, AttemptWriter, RejectedOrNot, KillHolder,
      SleepPastLease, TookOverOrNot, InterruptedTransition, CrashBeforeCommit,
      BeforeCommitJudged, CrashAfterCommit, AfterCommitJudged, RetryAfterCrash, CrashWorker,
      Return, Record, Goto
<1>2. CASE RunInProcess \/ DurabilityTrials \/ Aggregate \/ WritingFiles \/ MergePlatforms
  BY <1>2
  DEF RunInProcess, DurabilityTrials, SpawnTrial, JudgeTrial, LogicalTrial, EndTrial, Aggregate,
      WritingFiles, WriteArtifacts, WriteChecksums, WriteSummary, WriteFails, MergePeer,
      MergePlatforms, KeepRun, Panic, Record, Goto
<1> QED
  BY <1>1, <1>2 DEF EvidenceNext, StartRun, RunnerStep, WorkerStepOf, LeaseRunsOut, runVars

(* The crash a trial or a scenario is credited with has happened: of the exits  *)
(* an answer reports, only the worker's own abort counts, and the command the *)
(* runner finds committed was committed by the worker it has just started.    *)
THEOREM CrashesHappened == EvidenceSpec => CreditedCrashesHappened
<1> DEFINE
      TrialHonest ==
        Len(trials') > Len(trials) /\ "ProcessCrashRecovery" \in Last(trials').credited
          => /\ worker["called"].exit = "abort"
             /\ store.command = "committed" \/ store.published
      RetryHonest ==
        at # "retry" /\ at' = "retry"
          => worker["called"].exit \in {"abort", "killed"} /\ store.command = "committed"
      PassHonest ==
        \A id \in DOMAIN results' \ DOMAIN results :
             id = "interrupted-authoritative-transition" /\ Runner = "sqlite"
             /\ results'[id].status = "Passed"
             => at = "retry" /\ store'.command = "acknowledged"
<1>1. ASSUME ProcessInv, EvidenceNext PROVE TrialHonest
  <2>1. CASE JudgeTrial
    <3>1. PICK outcome \in {"Passed", "Failed", "Indeterminate"} :
             /\ EndTrial(outcome)
             /\ outcome = "Passed" => /\ ~Survived
                                      /\ IF FaultOf(Head(todo)) = "after-publish" THEN store.published
                                         ELSE store.command = Expectation(FaultOf(Head(todo)))
      BY <2>1 DEF JudgeTrial
    <3>2. Last(trials') = TrialResult(outcome)
      BY <1>1, <3>1, AppendTrial DEF EndTrial, ProcessInv
    <3>3. SUFFICES ASSUME "ProcessCrashRecovery" \in TrialResult(outcome).credited
                   PROVE  /\ worker["called"].exit = "abort"
                          /\ store.command = "committed" \/ store.published
      BY <3>2
    <3>4. outcome = "Passed" /\ FaultOf(Head(todo)) \in {"after-commit", "after-publish"}
      BY <3>3 DEF TrialResult, Credits
    <3>5. call.outcome.class # "error" /\ call.outcome.exit = "abort"
      BY <3>1, <3>4 DEF Survived, IntentionalProcessAbort
    <3>6. at = "judge" /\ call.at = "done" /\ call.kind = "spawn"
      BY <1>1, <2>1 DEF JudgeTrial, Ended, ProcessInv, PlaceInv, Calling, KindAt
    <3>7. worker["called"].exit = "abort"
      BY <1>1, <3>5, <3>6, NoneAssumption DEF ProcessInv, CallInv, ExitStates
    <3> QED  BY <3>1, <3>4, <3>7 DEF Expectation
  <2>2. CASE LogicalTrial
    <3>1. PICK outcome : FaultOf(Head(todo)) = None /\ EndTrial(outcome)
      BY <2>2 DEF LogicalTrial
    <3>2. Last(trials') = TrialResult(outcome)
      BY <1>1, <3>1, AppendTrial DEF EndTrial, ProcessInv
    <3> QED  BY <3>1, <3>2, NoneAssumption DEF TrialResult, Credits, Faults
  <2>3. CASE ~JudgeTrial /\ ~LogicalTrial
    <3>1. trials' \in {trials, <<>>}
      BY <1>1, <2>3, OnlyTrialsAppend
    <3>2. Len(trials) \in Nat
      BY <1>1 DEF ProcessInv, TrialsType
    <3> QED  BY <3>1, <3>2
  <2> QED  BY <2>1, <2>2, <2>3
<1>2. ASSUME ProcessInv, EvidenceNext PROVE RetryHonest
  <2>1. SUFFICES ASSUME at # "retry", at' = "retry"
                 PROVE  worker["called"].exit \in {"abort", "killed"} /\ store.command = "committed"
    OBVIOUS
  <2>2. /\ at = "crashed-after" /\ call.at = "done"
        /\ Crashed /\ store.command = Expectation("after-commit")
    BY <1>2, <2>1, OnlyJudgedRetry DEF AfterCommitJudged, Ended, Return, Record
  <2>3. call.kind = "spawn" /\ call.outcome.class # "error" /\ store.command = "committed"
    BY <1>2, <2>2 DEF Crashed, Expectation, ProcessInv, PlaceInv, Calling, KindAt
  <2>4. worker["called"] # None /\ worker["called"].exit # None
    BY <1>2, <2>2, <2>3 DEF ProcessInv, CallInv
  <2>5. worker["called"].exit \in {None, "abort", "killed"}
    BY <1>2, <2>2, <2>3 DEF ProcessInv, CommitInv, WorkersInv
  <2> QED  BY <2>3, <2>4, <2>5
<1>3. ASSUME ProcessInv, EvidenceNext PROVE PassHonest
  <2>1. SUFFICES ASSUME "interrupted-authoritative-transition" \in DOMAIN results' \ DOMAIN results,
                        Runner = "sqlite",
                        results'["interrupted-authoritative-transition"].status = "Passed"
                 PROVE  at = "retry" /\ store'.command = "acknowledged"
    OBVIOUS
  <2>2. PICK result : /\ results' = Updated(results, {Head(todo)}, result)
                      /\ \/ RunInProcess
                         \/ result = Failed
                         \/ TookOverOrNot
                         \/ at = "retry" /\ store' = [store EXCEPT !.owner = None, !.command = "acknowledged"]
    BY <1>3, <2>1, OnlyRunsRecord
  <2>3. /\ Head(todo) = "interrupted-authoritative-transition"
        /\ result.status = "Passed"
    BY <2>1, <2>2 DEF Updated
  <2>4. ~RunInProcess
    BY <2>1, <2>3 DEF RunInProcess, ByProcesses, OfProcesses
  <2>5. result # Failed
    BY <2>3 DEF Failed, Result
  <2>6. ~TookOverOrNot
    BY <1>3, <2>3 DEF TookOverOrNot, Ended, ProcessInv, PlaceInv
  <2>7. store \in StoreRecord
    BY <1>3 DEF ProcessInv, HarnessType
  <2> QED  BY <2>2, <2>4, <2>5, <2>6, <2>7 DEF StoreRecord
<1>4. ProcessInv /\ [EvidenceNext]_evidenceVars =>
          [TrialHonest /\ RetryHonest /\ PassHonest]_evidenceVars
  BY <1>1, <1>2, <1>3
<1> QED
  BY <1>4, ProcessInvariance, PTL DEF EvidenceSpec, CreditedCrashesHappened

(***************************************************************************)
(* The results of a run, what is made of them, and the files.                *)
(***************************************************************************)
ResultRecord ==
    [status : {"Passed", "Failed", "Unsupported"}, oracle : {None, "passes", "fails"},
     code : {None, "unsupported-newer-format", "canonical-corruption"}]
ResultsType == \A id \in DOMAIN results : results[id] \in ResultRecord

(* From the aggregation on the report is what the results come to, and stays so *)
(* because nothing records a result any more.                                *)
Aggregated == [issues |-> Issues(results), eligibility |-> ReportedEligibility(results)]
Reported == {"trial", "judge", "write", "sum", "summarise", "peer", "written", "merged"}
ReportInv ==
    /\ at \in Reported => report = Aggregated
    /\ at \notin Reported => report = None \/ (at = "crashed" /\ report = Aggregated)

(* A comparison is of these results. *)
MatrixInv ==
    matrix # None =>
        /\ at \in {"written", "merged"}
        /\ \E alike \in BOOLEAN : matrix = PlatformMatrix(results, peer, alike)

(* The files written since the checksums were taken, place by place *)
FilesInv ==
    /\ at = "summarise" => Unsummed \subseteq {"checksums"} \cup (IF run = "v2" THEN Nested ELSE {})
    /\ at = "peer" => run = "v3" /\ Unsummed \subseteq {"checksums", "summary"}
    /\ ChecksumsHold

RunInv == ResultsType /\ ReportInv /\ MatrixInv /\ FilesInv

(* The invariant of the run's records and files holds at the start.           *)
LEMMA RunInit == EvidenceInit => RunInv
<1> SUFFICES ASSUME EvidenceInit PROVE RunInv
  OBVIOUS
<1>1. ResultsType
  BY DEF EvidenceInit, ResultsType
<1>2. ReportInv /\ MatrixInv
  BY DEF EvidenceInit, ReportInv, MatrixInv, Reported
<1>3. DOMAIN sums \subseteq DOMAIN files
  BY DEF EvidenceInit, ChecksumDir, Restrict
<1> QED  BY <1>1, <1>2, <1>3 DEF EvidenceInit, RunInv, FilesInv, ChecksumsHold

(* What a scenario can come to, a panic apart, is a result. *)
LEMMA OutcomesAreResults ==
    \A runner, id : \A result \in Outcomes(runner, id) :
        result # Panicked => result \in ResultRecord
BY DEF Outcomes, Failed, Unsupported, Result, Conclusion, ObservedCode, ResultRecord

(* Before the aggregation a step may record a result and touches nothing else. *)
LEMMA ScenarioSteps ==
    ASSUME RunInv, \/ \E kind \in {"host", "v2", "v3"} : StartRun(kind)
                   \/ RunInProcess \/ ConcurrentWriter \/ InterruptedTransition
    PROVE  RunInv'
<1>1. /\ at \notin Reported \cup {"crashed"} /\ at' \notin Reported
      /\ UNCHANGED <<report, files, sums, peer, matrix>>
      /\ results' # results => \E result \in ResultRecord : results' = Updated(results, {Head(todo)}, result)
  <2>1. CASE ConcurrentWriter \/ InterruptedTransition
    <3>1. Failed \in ResultRecord /\ Result("Passed", "passes", None) \in ResultRecord
      BY DEF Failed, Result, ResultRecord
    <3> QED
      BY <2>1, <3>1
      DEF ConcurrentWriter, HoldWriter, HeldOrNot, AttemptWriter, RejectedOrNot, KillHolder,
          SleepPastLease, TookOverOrNot, InterruptedTransition, CrashBeforeCommit, Ended,
          BeforeCommitJudged, CrashAfterCommit, AfterCommitJudged, RetryAfterCrash, CrashWorker,
          ByProcesses, Return, Record, Goto, Reported
  <2>2. CASE RunInProcess \/ \E kind \in {"host", "v2", "v3"} : StartRun(kind)
    BY <2>2, OutcomesAreResults DEF RunInProcess, StartRun, Panic, Record, Goto, Reported
  <2> QED  BY <2>1, <2>2
<1>2. ResultsType'
  BY <1>1 DEF RunInv, ResultsType, Updated
<1>3. ReportInv'
  <2>1. report' = None
    BY <1>1 DEF RunInv, ReportInv
  <2> QED  BY <1>1, <2>1 DEF ReportInv
<1>4. MatrixInv'
  BY <1>1 DEF RunInv, MatrixInv, Reported
<1>5. FilesInv'
  BY <1>1 DEF RunInv, FilesInv, ChecksumsHold, Reported
<1> QED  BY <1>2, <1>3, <1>4, <1>5 DEF RunInv

(* Writing adds to the files that are not as summed those that are written. *)
LEMMA WrittenUnsummed ==
    ASSUME NEW names, NEW value, files' = Updated(files, names, value), UNCHANGED sums,
           DOMAIN sums \subseteq DOMAIN files
    PROVE  Unsummed' \subseteq Unsummed \cup names /\ DOMAIN sums' \subseteq DOMAIN files'
BY DEF Unsummed, Updated

(* What is written to the run's directory keeps the lists of its files right. *)
LEMMA FileSteps ==
    ASSUME FilesInv, WritingFiles
    PROVE  FilesInv'
<1>1. DOMAIN sums \subseteq DOMAIN files
  BY DEF FilesInv, ChecksumsHold
<1>2. CASE WriteArtifacts
  <2>1. DOMAIN sums' \subseteq DOMAIN files'
    BY <1>1, <1>2, WrittenUnsummed DEF WriteArtifacts, Written
  <2> QED
    BY <1>2, <2>1 DEF WriteArtifacts, Runner, KeepRun, FilesInv, ChecksumsHold
<1>3. CASE WriteChecksums
  <2>1. /\ sums' = ChecksumDir(run, files) /\ files' = Updated(files, {"checksums"}, at)
        /\ at' = "summarise" /\ run' = run
    BY <1>3 DEF WriteChecksums, Written, KeepRun
  <2>2. DOMAIN sums' \subseteq DOMAIN files'
    BY <2>1 DEF ChecksumDir, Restrict, Updated
  <2>3. Unsummed' \subseteq {"checksums"} \cup (IF run = "v2" THEN Nested ELSE {})
    BY <2>1 DEF ChecksumDir, Restrict, Updated, Unsummed
  <2> QED  BY <2>1, <2>2, <2>3 DEF FilesInv, ChecksumsHold
<1>4. CASE WriteSummary
  <2>1. DOMAIN sums' \subseteq DOMAIN files' /\ Unsummed' \subseteq Unsummed \cup {"summary"}
    BY <1>1, <1>4, WrittenUnsummed DEF WriteSummary, Written
  <2> QED
    BY <1>4, <2>1 DEF WriteSummary, FilesInv, ChecksumsHold
<1>5. CASE WriteFails
  BY <1>1, <1>5 DEF WriteFails, Panic, Goto, FilesInv, ChecksumsHold
<1>6. CASE MergePeer
  <2>1. CASE files' = Written({"platform-matrix"})
    <3>1. DOMAIN sums' \subseteq DOMAIN files' /\ Unsummed' \subseteq Unsummed \cup {"platform-matrix"}
      BY <1>1, <1>6, <2>1, WrittenUnsummed DEF MergePeer, Written
    <3> QED
      BY <1>6, <3>1 DEF MergePeer, KeepRun, FilesInv, ChecksumsHold
  <2>2. CASE UNCHANGED files
    BY <1>1, <1>6, <2>2 DEF MergePeer, KeepRun, FilesInv, ChecksumsHold, Unsummed
  <2> QED  BY <1>6, <2>1, <2>2 DEF MergePeer
<1> QED  BY <1>2, <1>3, <1>4, <1>5, <1>6 DEF WritingFiles

(* Every step keeps the invariant of the records and files.                   *)
LEMMA RunStep == RunInv /\ [EvidenceNext]_evidenceVars => RunInv'
<1> SUFFICES ASSUME RunInv, [EvidenceNext]_evidenceVars PROVE RunInv'
  OBVIOUS
<1>1. CASE UNCHANGED runVars
  BY <1>1
  DEF runVars, RunInv, ResultsType, ReportInv, Aggregated, MatrixInv, FilesInv, ChecksumsHold,
      Unsummed, Issues, ReportedEligibility, Runner
<1>2. CASE \/ \E kind \in {"host", "v2", "v3"} : StartRun(kind)
           \/ RunInProcess \/ ConcurrentWriter \/ InterruptedTransition
  BY <1>2, ScenarioSteps
<1>3. CASE DurabilityTrials
  <2>1. /\ at \in Reported \ {"written", "merged"} /\ at' \in {"trial", "judge"}
        /\ UNCHANGED <<run, results, report, files, sums, peer, matrix>>
    BY <1>3
    DEF DurabilityTrials, SpawnTrial, JudgeTrial, LogicalTrial, EndTrial, Goto, Ended, Reported
  <2> QED
    BY <2>1
    DEF RunInv, ResultsType, ReportInv, Aggregated, MatrixInv, FilesInv, ChecksumsHold, Reported,
        ReportedEligibility, Runner
<1>4. CASE Aggregate
  <2>1. /\ at = "scenario" /\ at' \in {"trial", "write"} /\ report' = Aggregated
        /\ UNCHANGED <<run, results, files, sums, peer, matrix>>
    BY <1>4 DEF Aggregate, Aggregated
  <2> QED
    BY <2>1
    DEF RunInv, ResultsType, ReportInv, Aggregated, MatrixInv, FilesInv, ChecksumsHold, Reported,
        ReportedEligibility, Runner
<1>5. CASE WritingFiles
  <2>1. FilesInv'
    BY <1>5, FileSteps DEF RunInv
  <2>2. /\ \/ at \in Reported \ {"written", "merged"} /\ at' \in Reported
           \/ at = "scenario" /\ at' = "crashed"
           \/ at \in Reported \ {"written", "merged"} /\ at' = "crashed"
        /\ UNCHANGED <<run, results, report>>
    BY <1>5
    DEF WritingFiles, WriteArtifacts, WriteChecksums, WriteSummary, WriteFails, MergePeer,
        KeepRun, Panic, Goto, Reported, ByProcesses
  <2>3. ResultsType' /\ ReportInv'
    BY <2>2
    DEF RunInv, ResultsType, ReportInv, Aggregated, Reported, ReportedEligibility, Runner
  <2>4. matrix' # matrix => at' = "written" /\ \E rs \in PeerResults : Compared(rs)
    BY <1>5
    DEF WritingFiles, WriteArtifacts, WriteChecksums, WriteSummary, WriteFails, MergePeer,
        Panic, Goto
  <2>5. MatrixInv'
    BY <2>2, <2>4 DEF RunInv, MatrixInv, Compared, Reported
  <2> QED  BY <2>1, <2>3, <2>5 DEF RunInv
<1>6. CASE MergePlatforms
  <2>1. /\ at' = "merged" /\ at = "written" /\ UNCHANGED <<run, results, report>>
        /\ \E rs \in PeerResults : Compared(rs)
        /\ "checksums" \in DOMAIN files' /\ sums' = ChecksumDir("v3", files')
    BY <1>6 DEF MergePlatforms, KeepRun, Updated
  <2>2. ResultsType' /\ ReportInv'
    BY <2>1
    DEF RunInv, ResultsType, ReportInv, Aggregated, Reported, ReportedEligibility, Runner
  <2>3. MatrixInv'
    BY <2>1 DEF MatrixInv, Compared
  <2>4. FilesInv'
    BY <2>1 DEF FilesInv, ChecksumsHold, ChecksumDir, Restrict, Unsummed
  <2> QED  BY <2>2, <2>3, <2>4 DEF RunInv
<1> QED
  BY <1>1, <1>2, <1>3, <1>4, <1>5, <1>6
  DEF EvidenceNext, RunnerStep, WorkerStepOf, LeaseRunsOut, evidenceVars

(* It holds in every state of a run.                                          *)
LEMMA RunInvariance == EvidenceSpec => []RunInv
BY RunInit, RunStep, PTL DEF EvidenceSpec

(* A run that says it is eligible is one of both candidates, and every required *)
(* scenario passed by an oracle that passed (EvidenceHarness::aggregate): the  *)
(* report is of the results the run ends with, whatever became of them.       *)
THEOREM EligibilityIsVerified == EvidenceSpec => []EligibleMeansVerified
<1>1. ASSUME RunInv PROVE EligibleMeansVerified
  <2> SUFFICES ASSUME report # None, report.eligibility = "EligibleForComparison"
               PROVE  /\ run = "host" /\ Required \subseteq DOMAIN results
                      /\ \A id \in Required : results[id].status = "Passed" /\ results[id].oracle = "passes"
                      /\ \A id \in DOMAIN results : results[id].status # "Failed"
    BY DEF EligibleMeansVerified
  <2>1. report = Aggregated
    BY <1>1 DEF RunInv, ReportInv
  <2>2. run = "host" /\ Eligibility(results) = "EligibleForComparison"
    BY <2>1 DEF Aggregated, ReportedEligibility, Runner
  <2>3. /\ Issues(results) = {}
        /\ \A id \in DOMAIN results : results[id].status # "Failed"
        /\ \A id \in Required \cap DOMAIN results : results[id].status # "Unsupported"
    BY <2>2 DEF Eligibility
  <2>4. Required \subseteq DOMAIN results
    <3>1. \A id \in Required \ DOMAIN results : <<"MissingRequiredScenario", id>> \in Issues(results)
      BY DEF Issues
    <3> QED  BY <2>3, <3>1
  <2>5. ASSUME NEW id \in DOMAIN results PROVE StatusIssues(id, results[id]) = {}
    <3>1. StatusIssues(id, results[id]) \subseteq Issues(results)
      BY DEF Issues
    <3> QED  BY <2>3, <3>1
  <2>6. ASSUME NEW id \in Required PROVE results[id].status = "Passed" /\ results[id].oracle = "passes"
    <3>1. results[id] \in ResultRecord
      BY <1>1, <2>4 DEF RunInv, ResultsType
    <3>2. results[id].status = "Passed"
      BY <2>3, <2>4, <3>1 DEF ResultRecord
    <3> QED  BY <2>4, <2>5, <3>1, <3>2, NoneAssumption DEF ResultRecord, StatusIssues
  <2> QED  BY <2>2, <2>3, <2>4, <2>6
<1> QED  BY RunInvariance, <1>1, PTL

(* What the comparison of two platforms credits has passed on both, and where   *)
(* its oracle had not, the report of this run says so (cross_platform.rs).     *)
THEOREM ComparisonIsFlagged == EvidenceSpec => []CreditedOrFlagged
<1>1. ASSUME RunInv PROVE CreditedOrFlagged
  <2> SUFFICES ASSUME matrix # None, NEW id \in DOMAIN matrix, matrix[id] = "credited"
               PROVE  /\ results[id].status = "Passed" /\ peer[id].status = "Passed"
                      /\ results[id].oracle = "fails" => <<"PassedWithFailingOracle", id>> \in report.issues
    BY DEF CreditedOrFlagged
  <2>1. PICK alike \in BOOLEAN : matrix = PlatformMatrix(results, peer, alike)
    BY <1>1 DEF RunInv, MatrixInv
  <2>2. /\ id \in DOMAIN results
        /\ results[id].status = "Passed" /\ peer[id].status = "Passed"
    BY <2>1 DEF PlatformMatrix, CompareScenario
  <2>3. report = Aggregated
    BY <1>1 DEF RunInv, MatrixInv, ReportInv, Reported
  <2>4. results[id].oracle = "fails" => StatusIssues(id, results[id]) = {<<"PassedWithFailingOracle", id>>}
    BY <2>2, NoneAssumption DEF StatusIssues
  <2>5. StatusIssues(id, results[id]) \subseteq Issues(results)
    BY <2>2 DEF Issues
  <2> QED  BY <2>2, <2>3, <2>4, <2>5 DEF Aggregated
<1> QED  BY RunInvariance, <1>1, PTL

(* checksums.json is right about the files a reader of a run compares. *)
THEOREM ChecksumsAreRight == EvidenceSpec => []ChecksumsHold
<1>1. RunInv => ChecksumsHold
  BY DEF RunInv, FilesInv
<1> QED  BY RunInvariance, <1>1, PTL

(***************************************************************************)
(* A scenario inside the runner's process.  What its oracle will say depends *)
(* on the calls still to come: that one of them sets right what the result    *)
(* needs (LastOf), or that none can spoil it any more (NoOp).                *)
(***************************************************************************)
CallOps == {"create", "open", "before", "close", "seen", "apply", "answer", "inject",
            "duplicate", "compact", "heed", "copy", "owner", "compose", "root"}
Expects == Codes \cup {"any", "kept", "must"}
Calls == [op : CallOps, expects : Expects]
NoOp(q, ops) == \A i \in DOMAIN q : q[i].op \notin ops
NoMust(q) == \A i \in DOMAIN q : q[i].expects # "must"
LastOf(q, S, ops) == \E i \in DOMAIN q : q[i] \in S /\ \A j \in DOMAIN q : j > i => q[j].op \notin ops

Reads == {Call("seen", "ok"), Call("seen", "must")}
Heeds == {Call("heed", "ok")}

(* What holds of a single call, and of scripts put together.                  *)
LEMMA OneCall ==
  ASSUME NEW c \in Calls
  PROVE
  /\ <<c>> \in Seq(Calls)
  /\ \A ops : NoOp(<<c>>, ops) <=> c.op \notin ops
  /\ NoMust(<<c>>) <=> c.expects # "must"
  /\ \A S, ops : c \in S => LastOf(<<c>>, S, ops)
BY DEF NoOp, LastOf, NoMust
(* The same of two scripts, one after the other.                              *)
LEMMA Joined ==
  ASSUME NEW q \in Seq(Calls), NEW r \in Seq(Calls)
  PROVE /\ q \o r \in Seq(Calls)
        /\ \A ops : NoOp(q,ops) /\ NoOp(r,ops) => NoOp(q \o r, ops)
        /\ NoMust(q) /\ NoMust(r) => NoMust(q \o r)
        /\ \A S, ops : LastOf(r,S,ops) => LastOf(q \o r, S, ops)
        /\ \A S, ops : LastOf(q,S,ops) /\ NoOp(r,ops) => LastOf(q \o r, S, ops)
<1>1. q \o r \in Seq(Calls) /\ DOMAIN (q \o r) = 1 .. Len(q) + Len(r)
      /\ DOMAIN q = 1 .. Len(q) /\ DOMAIN r = 1 .. Len(r)
  OBVIOUS
<1>2. \A i \in DOMAIN q : (q \o r)[i] = q[i]
  OBVIOUS
<1>3. \A i \in DOMAIN r : (q \o r)[Len(q) + i] = r[i]
  OBVIOUS
<1>4. ASSUME NEW i \in DOMAIN (q \o r), i \notin DOMAIN q
      PROVE i - Len(q) \in DOMAIN r /\ (q \o r)[i] = r[i - Len(q)]
  BY <1>1, <1>4
<1>5. \A ops : NoOp(q,ops) /\ NoOp(r,ops) => NoOp(q \o r, ops)
  BY <1>1, <1>2, <1>4 DEF NoOp
<1>6. NoMust(q) /\ NoMust(r) => NoMust(q \o r)
  BY <1>1, <1>2, <1>4 DEF NoMust
<1>7. ASSUME NEW S, NEW ops, LastOf(r,S,ops) PROVE LastOf(q \o r, S, ops)
  <2>1. PICK i \in DOMAIN r : r[i] \in S /\ \A j \in DOMAIN r : j > i => r[j].op \notin ops
    BY <1>7 DEF LastOf
  <2>2. Len(q) + i \in DOMAIN (q \o r) /\ (q \o r)[Len(q) + i] \in S
    BY <1>1, <1>3, <2>1
  <2>3. ASSUME NEW j \in DOMAIN (q \o r), j > Len(q) + i PROVE (q \o r)[j].op \notin ops
    BY <1>1, <1>4, <2>1, <2>3
  <2> QED  BY <2>2, <2>3 DEF LastOf
<1>8. ASSUME NEW S, NEW ops, LastOf(q,S,ops), NoOp(r,ops) PROVE LastOf(q \o r, S, ops)
  <2>1. PICK i \in DOMAIN q : q[i] \in S /\ \A j \in DOMAIN q : j > i => q[j].op \notin ops
    BY <1>8 DEF LastOf
  <2>2. i \in DOMAIN (q \o r) /\ (q \o r)[i] \in S
    BY <1>1, <1>2, <2>1
  <2>3. ASSUME NEW j \in DOMAIN (q \o r), j > i PROVE (q \o r)[j].op \notin ops
    BY <1>1, <1>2, <1>4, <1>8, <2>1, <2>3 DEF NoOp
  <2> QED  BY <2>2, <2>3 DEF LastOf
<1> QED BY <1>1, <1>5, <1>6, <1>7, <1>8

Plain(q) == q \in Seq(Calls) /\ NoOp(q, {"copy"})
Calm(q) == q \in Seq(Calls) /\ NoMust(q)
Watched(q) == Plain(q) /\ LastOf(q, Reads, Changing)

(* A script that reads and then closes, and what is left of it after the read. *)
ClosesLast(q) == Len(q) >= 2 /\ q[Len(q) - 1].op = "seen" /\ q[Len(q)].op = "close"
ToClose(q) == Len(q) = 1 /\ q[1].op = "close"

(* Scripts without such calls stay so, and a read stays the last word, when joined. *)
LEMMA PlainJoins ==
    ASSUME NEW q, NEW r, Plain(q), Plain(r)
    PROVE  Plain(q \o r)
BY Joined DEF Plain
(* A script that ends in one that is watched is watched.                      *)
LEMMA WatchedJoins ==
    ASSUME NEW q, NEW r, Plain(q), Watched(r)
    PROVE  Watched(q \o r)
BY PlainJoins, Joined DEF Plain, Watched
(* Nor is a call checked by a panic in two that have none.                    *)
LEMMA CalmJoins ==
    ASSUME NEW q, NEW r, Calm(q), Calm(r)
    PROVE  Calm(q \o r)
BY Joined DEF Calm
(* A script that goes on to read and then close closes last.                  *)
LEMMA ClosingJoins ==
    ASSUME NEW q \in Seq(Calls), NEW c \in Calls, NEW d \in Calls, c.op = "seen", d.op = "close"
    PROVE  ClosesLast(q \o <<c>> \o <<d>>)
<1> DEFINE s == q \o <<c>> \o <<d>>
<1>1. Len(s) = Len(q) + 2 /\ Len(q) \in Nat /\ s[Len(q) + 1] = c /\ s[Len(q) + 2] = d
  OBVIOUS
<1> HIDE DEF s
<1>2. Len(s) - 1 = Len(q) + 1 /\ Len(s) >= 2
  BY <1>1
<1>3. ClosesLast(s)
  BY <1>1, <1>2 DEF ClosesLast
<1> QED  BY <1>3 DEF s
(* A call that is not of a duplicate, and one that is not checked by a panic.  *)
LEMMA PlainCall ==
    ASSUME NEW op, NEW expects, Call(op, expects) \in Calls
    PROVE  /\ op # "copy" => Plain(<<Call(op, expects)>>)
           /\ expects # "must" => Calm(<<Call(op, expects)>>)
<1>1. Call(op, expects).op = op /\ Call(op, expects).expects = expects
  BY DEF Call
<1> HIDE DEF Calls
<1> QED BY <1>1, OneCall DEF Plain, Calm
(* The pieces the scripts share.                                              *)
LEMMA Pieces ==
  /\ Plain(Opened) /\ Plain(Known) /\ Plain(Composed) /\ Plain(Injected) /\ Plain(Closed)
  /\ Calm(Opened) /\ Calm(Known) /\ Calm(Injected) /\ Calm(Closed) /\ Calm(Seen)
  /\ Watched(Seen)
<1>1. Call("create", "ok") \in Calls /\ Call("open", "ok") \in Calls /\ Call("before","ok") \in Calls
    /\ Call("inject", "ok") \in Calls /\ Call("close", "any") \in Calls /\ Call("seen", "ok") \in Calls
    /\ Call("compose", "must") \in Calls
  BY DEF Call, Calls, Codes, CallOps, Expects
<1> HIDE DEF Calls
<1>3. Opened = <<Call("create", "ok")>> \o <<Call("open", "ok")>>
  BY DEF Opened
<1>4. Injected = <<Call("create", "ok")>> \o <<Call("inject", "ok")>>
  BY DEF Injected
<1>5. Plain(<<Call("create", "ok")>>) /\ Plain(<<Call("open", "ok")>>) /\ Plain(<<Call("before", "ok")>>)
    /\ Plain(<<Call("inject", "ok")>>) /\ Plain(Closed) /\ Plain(Seen) /\ Plain(<<Call("compose", "must")>>)
  BY <1>1, PlainCall DEF Closed, Seen
<1>6. Calm(<<Call("create", "ok")>>) /\ Calm(<<Call("open", "ok")>>) /\ Calm(<<Call("before", "ok")>>)
    /\ Calm(<<Call("inject", "ok")>>) /\ Calm(Closed) /\ Calm(Seen)
  BY <1>1, PlainCall DEF Closed, Seen
<1>7. LastOf(Seen, Reads, Changing)
  BY <1>1, OneCall DEF Seen, Reads
<1>8. Plain(Opened) /\ Calm(Opened)
  BY <1>3, <1>5, <1>6, PlainJoins, CalmJoins
<1>9. Plain(Injected) /\ Calm(Injected)
  BY <1>4, <1>5, <1>6, PlainJoins, CalmJoins
<1>10. Plain(Known) /\ Calm(Known)
  BY <1>5, <1>6, <1>8, PlainJoins, CalmJoins DEF Known
<1>11. Plain(Composed)
  BY <1>5, <1>10, PlainJoins DEF Composed
<1> QED BY <1>5, <1>6, <1>7, <1>8, <1>9, <1>10, <1>11 DEF Watched
(* The fields of a script.                                                    *)
LEMMA ScriptSteps == \A steps, oracle : Script(steps, oracle).steps = steps /\ Script(steps, oracle).oracle = oracle
  BY DEF Script

(* The other calls the scripts are made of.                                   *)
LEMMA LiteralCalls ==
  /\ \A op \in {"apply", "open", "close", "answer", "duplicate", "owner", "compact", "inject", "heed",
               "compose", "seen"},
        expects \in {"ok", "kept", "any", "error", "must", "stale-precondition", "unsupported-newer-format",
                    "writer-already-open", "simulated-durability-failure",
                    "canonical-corruption", "simulated-compaction-interrupt"} :
        /\ Plain(<<Call(op, expects)>>)
        /\ expects # "must" => Calm(<<Call(op, expects)>>)
<1>1. \A op \in CallOps, code \in Expects : Call(op, code) \in Calls /\ Call(op, code).op = op
  BY DEF Call, Calls
<1>2. ASSUME NEW op \in CallOps \ {"copy"}, NEW code \in Expects
      PROVE  Plain(<<Call(op, code)>>) /\ (code # "must" => Calm(<<Call(op, code)>>))
  BY <1>1, PlainCall
<1> QED  BY <1>2 DEF CallOps, Expects, Codes

(* The scripts of the runner of both candidates ...                           *)
LEMMA HostScripts ==
   /\ Plain(HostBaseline.steps) /\ ClosesLast(HostBaseline.steps)
   /\ Plain(HostCommand.steps) /\ ClosesLast(HostCommand.steps)
   /\ Watched(HostDerived.steps) /\ Watched(HostInterrupted.steps) /\ Watched(HostStale.steps)
   /\ Plain(HostConcurrent.steps) /\ Plain(HostNewer.steps) /\ Plain(HostCanonical.steps)
   /\ Plain(HostDuplication.steps) /\ Plain(HostCompaction.steps)
<1>1. /\ Plain(HostBaseline.steps) /\ ClosesLast(HostBaseline.steps)
      /\ Plain(HostCommand.steps) /\ ClosesLast(HostCommand.steps)
  <2>1. /\ Call("seen", "ok") \in Calls /\ Call("seen", "ok").op = "seen"
        /\ Call("close", "ok") \in Calls /\ Call("close", "ok").op = "close"
        /\ Call("close", "any") \in Calls /\ Call("close", "any").op = "close"
    BY DEF Call, Calls, CallOps, Expects, Codes
  <2>2. Plain(Seen) /\ Plain(<<Call("close", "ok")>>) /\ Plain(<<Call("apply", "ok")>>)
    BY LiteralCalls, Pieces DEF Watched
  <2>3. Plain(Composed \o <<Call("apply", "ok")>>)
    BY <2>2, Pieces, PlainJoins
  <2>4. /\ ClosesLast(Opened \o Seen \o <<Call("close", "ok")>>)
        /\ ClosesLast(Composed \o <<Call("apply", "ok")>> \o Seen \o Closed)
    BY <2>1, <2>3, Pieces, ClosingJoins DEF Plain, Seen, Closed
  <2>5. /\ Plain(Opened \o Seen \o <<Call("close", "ok")>>)
        /\ Plain(Composed \o <<Call("apply", "ok")>> \o Seen \o Closed)
    BY <2>2, <2>3, Pieces, PlainJoins
  <2> QED  BY <2>4, <2>5, ScriptSteps DEF HostBaseline, HostCommand
<1>3. Watched(HostDerived.steps)
  BY Pieces, LiteralCalls, PlainJoins, WatchedJoins, ScriptSteps DEF HostDerived
<1>4. Watched(HostInterrupted.steps)
  <2>1. <<Call("inject", "any"), Call("open", "ok"), Call("compose", "must"),
          Call("apply", "simulated-durability-failure")>> =
        <<Call("inject", "any")>> \o <<Call("open", "ok")>> \o <<Call("compose", "must")>>
        \o <<Call("apply", "simulated-durability-failure")>>
    OBVIOUS
  <2>2. /\ Plain(<<Call("inject", "any")>>) /\ Plain(<<Call("open", "ok")>>)
        /\ Plain(<<Call("compose", "must")>>) /\ Plain(<<Call("apply", "simulated-durability-failure")>>)
    BY LiteralCalls
  <2>3. Plain(<<Call("inject", "any")>> \o <<Call("open", "ok")>> \o <<Call("compose", "must")>>
              \o <<Call("apply", "simulated-durability-failure")>>)
    BY <2>2, PlainJoins
  <2> DEFINE q == <<Call("inject", "any"), Call("open", "ok"), Call("compose", "must"),
                    Call("apply", "simulated-durability-failure")>>
  <2>4. Plain(q)
    BY <2>1, <2>3
  <2> HIDE DEF q
  <2>5. Plain(Known \o Closed \o q \o Closed \o <<Call("open", "ok")>>)
    BY <2>2, <2>4, Pieces, PlainJoins
  <2>6. Watched(Known \o Closed \o q \o Closed \o <<Call("open", "ok")>> \o Seen)
    BY <2>5, Pieces, WatchedJoins
  <2> QED BY <2>6, ScriptSteps DEF HostInterrupted, q
<1>5. Watched(HostStale.steps)
  <2> DEFINE q == <<Call("seen", "must")>>
  <2>1. <<Call("apply", "stale-precondition"), Call("seen", "must")>> = <<Call("apply", "stale-precondition")>> \o q
    OBVIOUS
  <2>2. Plain(q) /\ Plain(<<Call("apply", "stale-precondition")>>)
    BY LiteralCalls
  <2>3. Call("seen", "must") \in Calls
    BY DEF Call, Calls, CallOps, Expects
  <2>4. LastOf(q, Reads, Changing)
    BY <2>3, OneCall DEF Reads
  <2> HIDE DEF q
  <2>5. Watched(<<Call("apply", "stale-precondition")>> \o q)
    BY <2>2, <2>4, WatchedJoins DEF Watched
  <2>6. Watched(Composed \o <<Call("apply", "stale-precondition"), Call("seen", "must")>>)
    BY <2>1, <2>5, Pieces, WatchedJoins
  <2> QED BY <2>6, ScriptSteps DEF HostStale
<1>6. Plain(HostConcurrent.steps) /\ Plain(HostNewer.steps) /\ Plain(HostCanonical.steps)
      /\ Plain(HostDuplication.steps)
  BY LiteralCalls, Pieces, PlainJoins, ScriptSteps
  DEF HostConcurrent, HostNewer, HostCanonical, HostDuplication
<1>9. Plain(HostCompaction.steps)
  <2>1. <<Call("inject", "any"), Call("compact", "simulated-compaction-interrupt")>> =
        <<Call("inject", "any")>> \o <<Call("compact", "simulated-compaction-interrupt")>>
    OBVIOUS
  <2>2. Plain(<<Call("inject", "any")>>) /\ Plain(<<Call("compact", "simulated-compaction-interrupt")>>)
    BY LiteralCalls
  <2>3. Plain(Opened \o <<Call("inject", "any"), Call("compact", "simulated-compaction-interrupt")>>)
    BY <2>1, <2>2, Pieces, PlainJoins
  <2> QED BY <2>3, ScriptSteps DEF HostCompaction
<1> QED BY <1>1, <1>3, <1>4, <1>5, <1>6, <1>9

(* ... those of them that no panic can end ...                                *)
LEMMA CalmScripts ==
   /\ Calm(HostBaseline.steps) /\ Calm(HostDerived.steps) /\ Calm(HostConcurrent.steps)
   /\ Calm(HostNewer.steps) /\ Calm(HostCanonical.steps)
   /\ Calm(HostDuplication.steps) /\ Calm(HostCompaction.steps)
<1>1. /\ Calm(HostBaseline.steps) /\ Calm(HostDerived.steps) /\ Calm(HostConcurrent.steps)
      /\ Calm(HostNewer.steps) /\ Calm(HostCanonical.steps) /\ Calm(HostDuplication.steps)
  BY LiteralCalls, Pieces, CalmJoins, ScriptSteps
  DEF HostBaseline, HostDerived, HostConcurrent, HostNewer, HostCanonical, HostDuplication
<1>2. Calm(HostCompaction.steps)
  <2>1. <<Call("inject", "any"), Call("compact", "simulated-compaction-interrupt")>> =
        <<Call("inject", "any")>> \o <<Call("compact", "simulated-compaction-interrupt")>>
    OBVIOUS
  <2>2. Calm(<<Call("inject", "any")>>) /\ Calm(<<Call("compact", "simulated-compaction-interrupt")>>)
    BY LiteralCalls
  <2>3. Calm(Opened \o <<Call("inject", "any"), Call("compact", "simulated-compaction-interrupt")>>)
    BY <2>1, <2>2, Pieces, CalmJoins
  <2> QED BY <2>3, ScriptSteps DEF HostCompaction
<1> QED  BY <1>1, <1>2

(* ... and the scripts of the SQLite runner.                                  *)
LEMMA SqliteScripts ==
   /\ Watched(SqliteBaseline.steps) /\ Watched(SqliteAttach.steps) /\ Watched(SqliteStale.steps)
   /\ Watched(SqliteDerived.steps) /\ Watched(SqliteCompaction.steps)
   /\ Plain(SqliteNewer.steps) /\ Plain(SqliteCanonical.steps)
<1>1. Watched(SqliteBaseline.steps)
  BY Pieces, PlainJoins, WatchedJoins, ScriptSteps DEF SqliteBaseline
<1>2. Watched(SqliteAttach.steps)
  BY LiteralCalls, Pieces, PlainJoins, WatchedJoins, ScriptSteps DEF SqliteAttach
<1>3. Watched(SqliteStale.steps)
  BY LiteralCalls, Pieces, PlainJoins, WatchedJoins, ScriptSteps DEF SqliteStale
<1>4. Watched(SqliteDerived.steps)
  BY Pieces, WatchedJoins, ScriptSteps DEF SqliteDerived
<1>5. Watched(SqliteCompaction.steps)
  BY LiteralCalls, Pieces, PlainJoins, WatchedJoins, ScriptSteps DEF SqliteCompaction
<1>6. Plain(SqliteNewer.steps)
  <2>1. <<Call("open", "unsupported-newer-format"), Call("owner", "ok")>> =
        <<Call("open", "unsupported-newer-format")>> \o <<Call("owner", "ok")>>
    OBVIOUS
  <2>2. Plain(Injected \o <<Call("open", "unsupported-newer-format"), Call("owner", "ok")>>)
    BY <2>1, LiteralCalls, Pieces, PlainJoins
  <2> QED  BY <2>2, ScriptSteps DEF SqliteNewer
<1>7. Plain(SqliteCanonical.steps)
  BY LiteralCalls, Pieces, PlainJoins, ScriptSteps DEF SqliteCanonical
<1> QED BY <1>1, <1>2, <1>3, <1>4, <1>5, <1>6, <1>7

(* The two scripts that heed their oracle.                                    *)
LEMMA HeedScripts ==
   /\ SqliteAppend.steps \in Seq(Calls) /\ LastOf(SqliteAppend.steps, Heeds, {"before", "seen"})
   /\ SqliteDuplication.steps \in Seq(Calls)
   /\ LastOf(SqliteDuplication.steps, Heeds, {"before", "seen"})
   /\ LastOf(SqliteDuplication.steps, Reads, Changing)
   /\ LastOf(SqliteDuplication.steps, Heeds, {"copy", "before"})
<1>1. SqliteAppend.steps \in Seq(Calls) /\ LastOf(SqliteAppend.steps, Heeds, {"before", "seen"})
  <2> DEFINE q == <<Call("heed", "ok"), Call("open", "must"), Call("apply", "kept")>>
             Ending(r) == r \in Seq(Calls) /\ LastOf(r, Heeds, {"before", "seen"})
  <2>1. Ending(q)
    BY DEF LastOf, Heeds, Call, Calls, CallOps, Expects, Codes
  <2>2. LET p == Composed \o <<Call("apply", "ok")>> \o Closed \o Seen IN p \in Seq(Calls)
    BY LiteralCalls, Pieces, PlainJoins DEF Plain, Watched
  <2>3. Ending(Composed \o <<Call("apply", "ok")>> \o Closed \o Seen \o q)
    BY <2>1, <2>2, Joined
  <2> HIDE DEF q
  <2>4. NoOp(Closed, {"before", "seen"}) /\ Closed \in Seq(Calls)
        /\ NoOp(<<Call("answer", "ok")>>, {"before", "seen"}) /\ <<Call("answer", "ok")>> \in Seq(Calls)
    BY OneCall DEF Closed, Call, Calls, CallOps, Expects, Codes
  <2>5. Ending(Composed \o <<Call("apply", "ok")>> \o Closed \o Seen \o q \o Closed \o <<Call("answer", "ok")>>)
    BY <2>3, <2>4, Joined
  <2> QED  BY <2>5, ScriptSteps DEF SqliteAppend, q
<1>2. /\ SqliteDuplication.steps \in Seq(Calls)
      /\ LastOf(SqliteDuplication.steps, Heeds, {"before", "seen"})
      /\ LastOf(SqliteDuplication.steps, Reads, Changing)
      /\ LastOf(SqliteDuplication.steps, Heeds, {"copy", "before"})
  <2> DEFINE q == <<Call("copy", "ok"), Call("heed", "ok")>>
             p == Known \o <<Call("duplicate", "ok")>> \o Closed \o Seen
  <2>1. q \in Seq(Calls) /\ NoOp(q, Changing)
        /\ LastOf(q, Heeds, {"before", "seen"}) /\ LastOf(q, Heeds, {"copy", "before"})
    BY DEF NoOp, LastOf, Heeds, Changing, Call, Calls, CallOps, Expects, Codes
  <2>2. Watched(p)
    BY LiteralCalls, Pieces, PlainJoins, WatchedJoins
  <2>3. SqliteDuplication.steps = p \o q
    BY ScriptSteps DEF SqliteDuplication
  <2> HIDE DEF p, q
  <2> QED BY <2>1, <2>2, <2>3, Joined DEF Watched, Plain
<1> QED BY <1>1, <1>2

HostUnobserved == {"concurrent-writer-attempt", "unknown-newer-format",
                   "canonical-reference-corruption", "semantic-duplication", "interrupted-compaction"}
SqliteUnobserved == {"unknown-newer-format", "canonical-reference-corruption", "append-correction-event"}

Watching(script) ==
    /\ script.oracle # "constant"
    /\ LastOf(script.steps, Reads, Changing) \/ ClosesLast(script.steps)
    /\ LastOf(script.steps, Heeds, {"copy", "before"}) \/ NoOp(script.steps, {"copy"})
Scripted(script) ==
    /\ script.steps \in Seq(Calls)
    /\ script.oracle \in {"follow", "heed", "ignore", "constant"}
    /\ script.oracle = "heed" => LastOf(script.steps, Heeds, {"before", "seen"})
(* What the script of every scenario provides for its oracle, by runner.      *)
LEMMA HostFacts ==
  ASSUME NEW id
  PROVE /\ Scripted(HostScript(id))
        /\ ~Panics("host", id) => NoMust(HostScript(id).steps)
        /\ id \notin HostUnobserved => Watching(HostScript(id))
<1>1. \/ id \in Commanding /\ HostScript(id) = HostCommand
      \/ id = "interrupted-authoritative-transition" /\ HostScript(id) = HostInterrupted
      \/ HostScript(id) \in {HostDerived, HostBaseline}
      \/ id \in HostUnobserved /\
         HostScript(id) \in {HostConcurrent, HostNewer, HostCanonical, HostDuplication, HostCompaction}
      \/ id \in Stale /\ HostScript(id) = HostStale
  BY DEF HostScript, HostUnobserved
<1>2. CASE \/ id \in Commanding /\ HostScript(id) = HostCommand
           \/ id = "interrupted-authoritative-transition" /\ HostScript(id) = HostInterrupted
           \/ id \in Stale /\ HostScript(id) = HostStale
  <2>1. HostScript(id).oracle = "follow"
    BY <1>2, ScriptSteps DEF HostCommand, HostInterrupted, HostStale
  <2>2. Panics("host", id)
    BY <1>2 DEF Panics
  <2>3. Plain(HostScript(id).steps) /\ Watching(HostScript(id))
    BY <1>2, <2>1, HostScripts DEF Watched, Plain, Watching
  <2> QED  BY <2>1, <2>2, <2>3 DEF Plain, Scripted
<1>3. CASE HostScript(id) \in {HostDerived, HostBaseline}
  <2>1. HostScript(id).oracle = "follow"
    BY <1>3, ScriptSteps DEF HostDerived, HostBaseline
  <2>2. Plain(HostScript(id).steps) /\ Watching(HostScript(id))
    BY <1>3, <2>1, HostScripts DEF Watched, Plain, Watching
  <2>3. NoMust(HostScript(id).steps)
    BY <1>3, CalmScripts DEF Calm
  <2> QED  BY <2>1, <2>2, <2>3 DEF Plain, Scripted
<1>4. CASE id \in HostUnobserved /\
         HostScript(id) \in {HostConcurrent, HostNewer, HostCanonical, HostDuplication, HostCompaction}
  <2>1. HostScript(id).oracle = "constant"
    BY <1>4, ScriptSteps DEF HostConcurrent, HostNewer, HostCanonical, HostDuplication, HostCompaction
  <2>2. Calm(HostScript(id).steps)
    BY <1>4, CalmScripts
  <2> QED  BY <1>4, <2>1, <2>2 DEF Calm, Scripted
<1> QED  BY <1>1, <1>2, <1>3, <1>4

(* The same for the SQLite runner.                                            *)
LEMMA SqliteFacts ==
  ASSUME NEW id
  PROVE /\ Scripted(SqliteScript(id))
        /\ id \notin SqliteUnobserved =>
              Watching(SqliteScript(id)) /\ LastOf(SqliteScript(id).steps, Reads, Changing)
<1>1. \/ SqliteScript(id) \in {SqliteBaseline, SqliteAttach, SqliteStale, SqliteDerived, SqliteCompaction}
      \/ id \in SqliteUnobserved /\ SqliteScript(id) \in {SqliteNewer, SqliteCanonical}
      \/ id = "append-correction-event" /\ SqliteScript(id) = SqliteAppend
      \/ SqliteScript(id) = SqliteDuplication
  BY DEF SqliteScript, SqliteUnobserved
<1>2. CASE SqliteScript(id) \in {SqliteBaseline, SqliteAttach, SqliteStale, SqliteDerived, SqliteCompaction}
  <2>1. SqliteScript(id).oracle = "ignore"
    BY <1>2, ScriptSteps DEF SqliteBaseline, SqliteAttach, SqliteStale, SqliteDerived, SqliteCompaction
  <2>2. Watched(SqliteScript(id).steps)
    BY <1>2, SqliteScripts
  <2> QED  BY <2>1, <2>2 DEF Watched, Plain, Scripted, Watching
<1>3. CASE id \in SqliteUnobserved /\ SqliteScript(id) \in {SqliteNewer, SqliteCanonical}
  <2>1. SqliteScript(id).oracle = "constant"
    BY <1>3, ScriptSteps DEF SqliteNewer, SqliteCanonical
  <2>2. Plain(SqliteScript(id).steps)
    BY <1>3, SqliteScripts
  <2> QED  BY <1>3, <2>1, <2>2 DEF Plain, Scripted
<1>4. CASE id = "append-correction-event" /\ SqliteScript(id) = SqliteAppend
  <2>1. SqliteScript(id).oracle = "heed" /\ id \in SqliteUnobserved
    BY <1>4, ScriptSteps DEF SqliteAppend, SqliteUnobserved
  <2> QED  BY <1>4, <2>1, HeedScripts DEF Scripted
<1>5. CASE SqliteScript(id) = SqliteDuplication
  <2>1. SqliteScript(id).oracle = "heed"
    BY <1>5, ScriptSteps DEF SqliteDuplication
  <2> QED  BY <1>5, <2>1, HeedScripts DEF Scripted, Watching
<1> QED  BY <1>1, <1>2, <1>3, <1>4, <1>5

(* The root made first takes nothing from a script.                           *)
LEMMA RootedFacts ==
  ASSUME NEW script, Scripted(script)
  PROVE /\ Scripted(Rooted(script))
        /\ Watching(script) /\ LastOf(script.steps, Reads, Changing) => Watching(Rooted(script))
<1> DEFINE c == Call("root", "must")
           q == script.steps
           s == <<c>> \o q
<1>1. c \in Calls /\ c.op = "root"
  BY DEF Call, Calls, CallOps, Expects
<1>2. <<c>> \in Seq(Calls) /\ NoOp(<<c>>, {"copy"})
  <2> HIDE DEF c
  <2> QED  BY <1>1, OneCall
<1>3. q \in Seq(Calls)
  BY DEF Scripted
<1>4. Rooted(script).steps = s /\ Rooted(script).oracle = script.oracle
  BY ScriptSteps DEF Rooted
<1> HIDE DEF c, q
<1>5. /\ s \in Seq(Calls)
      /\ NoOp(q, {"copy"}) => NoOp(s, {"copy"})
      /\ \A S, ops : LastOf(q, S, ops) => LastOf(s, S, ops)
  BY <1>2, <1>3, Joined
<1> HIDE DEF s
<1> QED  BY <1>4, <1>5 DEF Scripted, Watching, q

(* Together: the script of any scenario of either runner.                     *)
LEMMA ScriptFacts ==
  ASSUME NEW runner \in {"host", "sqlite"}, NEW id
  PROVE /\ Scripted(ScriptOf(runner, id))
        /\ ~Panics(runner, id) => NoMust(ScriptOf(runner, id).steps)
        /\ <<runner, id>> \notin Unobserved => Watching(ScriptOf(runner, id))
<1>1. /\ id \in HostUnobserved => <<"host", id>> \in Unobserved
      /\ id \in SqliteUnobserved => <<"sqlite", id>> \in Unobserved
  BY DEF Unobserved, HostUnobserved, SqliteUnobserved
<1>2. CASE runner = "host"
  BY <1>1, <1>2, HostFacts DEF ScriptOf
<1>3. CASE runner = "sqlite"
  <2>1. Scripted(SqliteScript(id))
    BY SqliteFacts
  <2>2. Panics(runner, id)
    BY <1>3 DEF Panics
  <2>3. ScriptOf(runner, id) = Rooted(SqliteScript(id))
    BY <1>3 DEF ScriptOf
  <2> QED  BY <1>1, <1>3, <2>1, <2>2, <2>3, SqliteFacts, RootedFacts
<1> QED  BY <1>2, <1>3

(* A script ends with a close or with a read after which nothing is changed. *)
LEMMA EndFacts ==
  ASSUME NEW runner, NEW id, ScriptOf(runner, id).steps \in Seq(Calls)
  PROVE /\ LastOf(ScriptOf(runner, id).steps, Reads, Changing) => ~EndsWithClose(runner, id)
        /\ ClosesLast(ScriptOf(runner, id).steps) => EndsWithClose(runner, id)
<1> DEFINE q == ScriptOf(runner, id).steps
<1>1. Len(q) \in Nat /\ DOMAIN q = 1 .. Len(q)
  OBVIOUS
<1>2. EndsWithClose(runner, id) <=> Len(q) > 0 /\ q[Len(q)].op = "close"
  BY DEF EndsWithClose
<1>3. \A c \in Reads : c.op = "seen"
  BY DEF Reads, Call
<1> HIDE DEF q
<1>4. ASSUME LastOf(q, Reads, Changing) PROVE ~EndsWithClose(runner, id)
  <2>1. PICK i \in DOMAIN q : q[i] \in Reads /\ \A j \in DOMAIN q : j > i => q[j].op \notin Changing
    BY <1>4 DEF LastOf
  <2>2. CASE i = Len(q)
    BY <1>2, <1>3, <2>1, <2>2
  <2>3. CASE i # Len(q)
    BY <1>1, <1>2, <2>1, <2>3 DEF Changing
  <2> QED  BY <2>2, <2>3
<1>5. ClosesLast(q) => EndsWithClose(runner, id)
  BY <1>1, <1>2 DEF ClosesLast
<1> QED  BY <1>4, <1>5 DEF q

SceneRecord ==
    [runner : {"host", "sqlite"}, id : Scenarios, stored : Contents,
     before : Contents \cup {None}, seen : Contents \cup {None}, copy : Contents \cup {None},
     answer : Codes \cup {None}, closing : Contents \cup {None}, steps : Seq(Calls), result : Results \cup {None}]

(* What the calls still to come will establish is not there yet: that the last  *)
(* look has seen what is stored, or what was stored when the session was closed. *)
SeenLast(s) ==
    \/ LastOf(s.steps, Reads, Changing)
    \/ NoOp(s.steps, Changing) /\ s.seen = s.stored
SeenBeforeClose(s) ==
    \/ ClosesLast(s.steps)
    \/ ToClose(s.steps) /\ s.seen = s.stored
    \/ s.steps = <<>> /\ s.seen = s.closing
Playing(s) ==
    /\ ~IsUnsupported(s.runner, s.id)
    /\ ~Panics(s.runner, s.id) => NoMust(s.steps)
    /\ ScriptOf(s.runner, s.id).oracle = "heed" =>
          \/ LastOf(s.steps, Heeds, {"before", "seen"})
          \/ NoOp(s.steps, {"before", "seen"}) /\ OracleOf(s) = "passes"
    /\ <<s.runner, s.id>> \notin Unobserved =>
          /\ IF EndsWithClose(s.runner, s.id) THEN SeenBeforeClose(s) ELSE SeenLast(s)
          /\ \/ LastOf(s.steps, Heeds, {"copy", "before"})
             \/ NoOp(s.steps, {"copy", "before"}) /\ s.copy \in {None, s.before}
             \/ NoOp(s.steps, {"copy"}) /\ s.copy = None
SceneInv ==
    scene # None =>
       /\ scene \in SceneRecord
       /\ scene.result = None => Playing(scene)
       /\ ScenesEndAsAbstracted /\ DamageIsNoticed

(* What the first call of a script leaves to the calls after it.              *)
LEMMA StepTail ==
  ASSUME NEW q \in Seq(Calls), q # <<>>
  PROVE /\ q[1] \in Calls /\ Tail(q) \in Seq(Calls)
        /\ NoMust(q) => q[1].expects # "must" /\ NoMust(Tail(q))
        /\ \A ops : NoOp(q, ops) => q[1].op \notin ops /\ NoOp(Tail(q), ops)
        /\ \A S, ops : LastOf(q, S, ops) => LastOf(Tail(q), S, ops) \/ (q[1] \in S /\ NoOp(Tail(q), ops))
<1>1. /\ Len(q) \in Nat /\ Len(q) > 0 /\ DOMAIN q = 1 .. Len(q)
      /\ Tail(q) \in Seq(Calls) /\ DOMAIN Tail(q) = 1 .. Len(q) - 1
      /\ \A i \in DOMAIN Tail(q) : Tail(q)[i] = q[i + 1]
      /\ q[1] \in Calls
  OBVIOUS
<1>2. NoMust(q) => q[1].expects # "must" /\ NoMust(Tail(q))
  BY <1>1 DEF NoMust
<1>3. \A ops : NoOp(q, ops) => q[1].op \notin ops /\ NoOp(Tail(q), ops)
  BY <1>1 DEF NoOp
<1>4. ASSUME NEW S, NEW ops, LastOf(q, S, ops)
      PROVE  LastOf(Tail(q), S, ops) \/ (q[1] \in S /\ NoOp(Tail(q), ops))
  <2>1. PICK i \in DOMAIN q : q[i] \in S /\ \A j \in DOMAIN q : j > i => q[j].op \notin ops
    BY <1>4 DEF LastOf
  <2>2. CASE i = 1
    BY <1>1, <2>1, <2>2 DEF NoOp
  <2>3. CASE i # 1
    <3>1. i - 1 \in DOMAIN Tail(q) /\ Tail(q)[i - 1] \in S
      BY <1>1, <2>1, <2>3
    <3>2. \A j \in DOMAIN Tail(q) : j > i - 1 => Tail(q)[j].op \notin ops
      BY <1>1, <2>1, <2>3
    <3> DEFINE k == i - 1
    <3>3. k \in DOMAIN Tail(q) /\ Tail(q)[k] \in S /\ \A j \in DOMAIN Tail(q) : j > k => Tail(q)[j].op \notin ops
      BY <3>1, <3>2
    <3> HIDE DEF k
    <3> QED  BY <3>3 DEF LastOf
  <2> QED  BY <2>2, <2>3
<1> QED  BY <1>1, <1>2, <1>3, <1>4

(* What it leaves of one that closes last.                                    *)
LEMMA CloseTail ==
  ASSUME NEW q \in Seq(Calls), q # <<>>
  PROVE /\ ClosesLast(q) => ClosesLast(Tail(q)) \/ (q[1].op = "seen" /\ ToClose(Tail(q)))
        /\ ToClose(q) => q[1].op = "close" /\ Tail(q) = <<>>
<1>1. /\ Len(q) \in Nat /\ Len(q) > 0 /\ Len(Tail(q)) = Len(q) - 1
      /\ \A i \in 1 .. Len(q) - 1 : Tail(q)[i] = q[i + 1]
  OBVIOUS
<1>2. ASSUME ClosesLast(q)
      PROVE  ClosesLast(Tail(q)) \/ (q[1].op = "seen" /\ ToClose(Tail(q)))
  <2>1. CASE Len(q) = 2
    <3>1. Tail(q)[1] = q[2]
      BY <1>1, <2>1
    <3>2. q[2 - 1].op = "seen" /\ q[2].op = "close"
      BY <1>2, <2>1 DEF ClosesLast
    <3> QED  BY <1>1, <2>1, <3>1, <3>2 DEF ToClose
  <2>2. CASE Len(q) # 2
    <3> DEFINE n == Len(q) - 1
    <3>1. n \in Nat /\ n >= 2 /\ Len(Tail(q)) = n /\ n - 1 \in 1 .. Len(q) - 1 /\ n \in 1 .. Len(q) - 1
      BY <1>1, <1>2, <2>2 DEF ClosesLast
    <3>2. Tail(q)[n] = q[n + 1] /\ Tail(q)[n - 1] = q[n - 1 + 1]
      BY <1>1, <3>1
    <3>3. n + 1 = Len(q) /\ n - 1 + 1 = Len(q) - 1
      BY <1>1
    <3> HIDE DEF n
    <3> QED  BY <1>2, <3>1, <3>2, <3>3 DEF ClosesLast
  <2> QED  BY <2>1, <2>2
<1>3. ASSUME ToClose(q) PROVE q[1].op = "close" /\ Tail(q) = <<>>
  <2>1. Len(q) = 1 /\ q[1].op = "close"
    BY <1>3 DEF ToClose
  <2> DEFINE rest == Tail(q)
  <2>2. rest \in Seq(Calls) /\ Len(rest) = 0
    BY <1>1, <2>1
  <2> HIDE DEF rest
  <2>3. rest = <<>>
    BY <2>2
  <2> QED  BY <2>1, <2>3 DEF rest
<1> QED  BY <1>2, <1>3

SameScene(s, t) ==
    /\ t.runner = s.runner /\ t.id = s.id /\ t.stored = s.stored /\ t.before = s.before
    /\ t.seen = s.seen /\ t.copy = s.copy /\ t.answer = s.answer /\ t.steps = s.steps
    /\ t.closing = s.closing

(* A result is not the lack of one.                                           *)
LEMMA ResultFacts ==
  /\ Failed \in Results /\ Panicked \in Results /\ Unsupported \in Results
  /\ Failed # None /\ Panicked # None /\ Unsupported # None
  /\ Failed.status = "Failed" /\ Panicked.status = "panic" /\ Unsupported.status = "Unsupported"
<1>1. /\ Failed \in Results /\ Panicked \in Results /\ Unsupported \in Results
      /\ Failed.status = "Failed" /\ Panicked.status = "panic" /\ Unsupported.status = "Unsupported"
  BY DEF Failed, Panicked, Unsupported, Result, Results
<1> QED  BY <1>1, ResultAssumption

(* What the runner makes of an answer changes nothing but the result.         *)
LEMMA ContinuedFacts ==
  ASSUME NEW s \in SceneRecord, s.result = None, NEW answer, NEW expects
  PROVE  LET t == Continued(s, answer, expects)
         IN /\ t \in SceneRecord /\ SameScene(s, t)
            /\ t.result \in {None, Failed, Panicked}
            /\ t.result = Panicked => expects = "must"
            /\ expects = "ok" /\ answer # "ok" => t.result = Failed
<1> DEFINE t == Continued(s, answer, expects)
           f == [s EXCEPT !.result = Failed]
           p == [s EXCEPT !.result = Panicked]
<1>1. f \in SceneRecord /\ SameScene(s, f) /\ f.result = Failed
  BY ResultFacts DEF SceneRecord, SameScene
<1>2. p \in SceneRecord /\ SameScene(s, p) /\ p.result = Panicked
  BY ResultFacts DEF SceneRecord, SameScene
<1>3. Failed # Panicked
  BY ResultFacts
<1>4. t \in {s, f, p} /\ (t = p => expects = "must") /\ (expects = "ok" /\ answer # "ok" => t = f)
  <2>1. t = IF Meets(answer, expects) THEN s ELSE IF expects = "must" THEN p ELSE f
    BY DEF Continued
  <2> HIDE DEF f, p
  <2>2. expects = "ok" /\ answer # "ok" => ~Meets(answer, expects)
    BY DEF Meets
  <2> QED  BY <1>1, <1>2, <1>3, <2>1, <2>2, ResultFacts
<1>5. SameScene(s, s)
  BY DEF SameScene
<1> HIDE DEF t, f, p
<1>6. /\ t \in SceneRecord /\ SameScene(s, t)
      /\ t.result \in {None, Failed, Panicked}
      /\ t.result = Panicked => expects = "must"
      /\ expects = "ok" /\ answer # "ok" => t.result = Failed
  BY <1>1, <1>2, <1>3, <1>4, <1>5, ResultFacts
<1> QED  BY <1>6 DEF t

(* What a call changes, by the call.                                          *)
LEMMA PlayFacts ==
  ASSUME scene \in SceneRecord, PlayStep
  PROVE  LET step == scene.steps[1]
         IN /\ scene' \in SceneRecord
            /\ scene'.runner = scene.runner /\ scene'.id = scene.id /\ scene'.steps = Tail(scene.steps)
            /\ scene'.result \in {None, Failed, Panicked}
            /\ scene'.result = Panicked => step.expects = "must"
            /\ step.op \notin Changing => scene'.stored = scene.stored
            /\ step.op # "before" => scene'.before = scene.before
            /\ step.op # "seen" => scene'.seen = scene.seen
            /\ step.op = "seen" => scene'.seen = scene'.stored
            /\ step.op # "copy" => scene'.copy = scene.copy
            /\ scene'.closing = IF step.op = "close" THEN scene.stored ELSE scene.closing
            /\ step = Call("heed", "ok") /\ scene'.result = None =>
                 OracleOf(scene) = "passes" /\ scene.copy \in {None, scene.before}
<1> DEFINE step == scene.steps[1]
           rest == [scene EXCEPT !.steps = Tail(@)]
<1>1. step \in Calls /\ step.op \in CallOps /\ step.expects \in Expects /\ Tail(scene.steps) \in Seq(Calls)
      /\ scene.result = None
  BY StepTail DEF PlayStep, SceneRecord, Calls
<1>2. /\ rest \in SceneRecord /\ rest.steps = Tail(scene.steps) /\ rest.result = None
      /\ rest.runner = scene.runner /\ rest.id = scene.id /\ rest.stored = scene.stored
      /\ rest.before = scene.before /\ rest.seen = scene.seen /\ rest.copy = scene.copy
      /\ rest.closing = scene.closing
  BY <1>1 DEF SceneRecord
<1>3. CASE step.op \in OwnOps
  <2>1. PICK answer \in OwnAnswers(scene, step.op) : scene' = Continued(rest, answer, step.expects)
    BY <1>3 DEF PlayStep, OwnOps
  <2>2. step = Call("heed", "ok") => step.op = "heed" /\ step.expects = "ok"
    BY DEF Call
  <2>3. step.op = "heed" /\ answer = "ok" => OracleOf(scene) = "passes" /\ scene.copy \in {None, scene.before}
    BY <2>1 DEF OwnAnswers
  <2>4. step.op \notin Changing \cup {"before", "seen", "copy", "close"}
    BY <1>3 DEF OwnOps, Changing
  <2> HIDE DEF step, rest
  <2> QED  BY <1>1, <1>2, <2>1, <2>2, <2>3, <2>4, ContinuedFacts, ResultFacts DEF SameScene, step
<1>4. CASE step.op \notin OwnOps
  <2>1. PICK answer \in Codes, content \in Contents, told \in Contents :
           /\ step.op \in Changing \/ content = scene.stored
           /\ scene' = Continued(Answered(rest, step, answer, content, told), answer, step.expects)
    BY <1>4 DEF PlayStep
  <2> DEFINE s == Answered(rest, step, answer, content, told)
  <2> HIDE DEF step, rest
  <2>2. /\ s.steps = rest.steps /\ s.result = rest.result
        /\ s.runner = rest.runner /\ s.id = rest.id /\ s.stored = content
        /\ s.closing = IF step.op = "close" THEN rest.stored ELSE rest.closing
        /\ s.before = IF step.op = "before" THEN told ELSE rest.before
        /\ s.seen = IF step.op = "seen" THEN content ELSE rest.seen
        /\ s.copy = IF step.op = "copy" THEN told ELSE rest.copy
        /\ s.answer \in {answer, rest.answer}
        /\ s = [f \in DOMAIN rest |-> s[f]]
    BY <1>2, ZenonT(30) DEF Answered, SceneRecord
  <2>3. scene' = Continued(s, answer, step.expects)
    BY <2>1
  <2>4. step # Call("heed", "ok")
    BY <1>4 DEF Call, OwnOps
  <2> HIDE DEF s
  <2>5. s \in SceneRecord
    BY <1>2, <2>2 DEF SceneRecord
  <2> QED  BY <1>1, <1>2, <2>1, <2>2, <2>3, <2>4, <2>5, ContinuedFacts DEF SameScene, step
<1> QED  BY <1>3, <1>4

(* At the end no call is left to establish anything.                          *)
LEMMA NothingLeft ==
  /\ \A S, ops : ~LastOf(<<>>, S, ops)
  /\ \A ops : NoOp(<<>>, ops)
  /\ ~ClosesLast(<<>>) /\ ~ToClose(<<>>)
BY DEF LastOf, NoOp, ClosesLast, ToClose

(* The three actions keep the invariant.                                      *)
LEMMA StartInv ==
    ASSUME NEW runner \in {"host", "sqlite"}, NEW id \in Scenarios, StartScene(runner, id)
  PROVE SceneInv'
<1> DEFINE fresh(steps, result) ==
       [runner |-> runner, id |-> id, stored |-> "damaged", before |-> None,
        seen |-> None, copy |-> None, answer |-> None, closing |-> None, steps |-> steps, result |-> result]
<1>1. CASE IsUnsupported(runner, id)
  <2>1. scene' = fresh(<<>>, Unsupported)
    BY <1>1 DEF StartScene
  <2>2. scene' \in SceneRecord
    BY <2>1, ResultFacts DEF SceneRecord, Contents
  <2>3. ScenesEndAsAbstracted'
    BY <1>1, <2>1 DEF ScenesEndAsAbstracted, Outcomes
  <2>4. DamageIsNoticed'
    BY <2>1, ResultFacts DEF DamageIsNoticed
  <2> QED  BY <2>1, <2>2, <2>3, <2>4, ResultFacts DEF SceneInv
<1>2. CASE ~IsUnsupported(runner, id)
  <2> DEFINE script == ScriptOf(runner, id)
  <2>1. scene' = fresh(script.steps, None)
    BY <1>2 DEF StartScene
  <2>2. scene' \in SceneRecord
    BY <2>1, ScriptFacts DEF SceneRecord, Contents, Scripted
  <2>3. Playing(scene')
    <3> HIDE DEF script
    <3>1. Scripted(script) /\ (~Panics(runner, id) => NoMust(script.steps))
          /\ (<<runner, id>> \notin Unobserved => Watching(script))
      BY ScriptFacts DEF script
    <3>2. scene'.runner = runner /\ scene'.id = id /\ scene'.steps = script.steps /\ scene'.copy = None
      BY <2>1
    <3>3. /\ LastOf(script.steps, Reads, Changing) => ~EndsWithClose(runner, id)
          /\ ClosesLast(script.steps) => EndsWithClose(runner, id)
      BY <3>1, EndFacts DEF Scripted, script
    <3> QED
      BY <1>2, <3>1, <3>2, <3>3
      DEF Playing, SeenLast, SeenBeforeClose, Scripted, Watching, script
  <2>4. scene'.result = None
    BY <2>1
  <2> QED  BY <2>2, <2>3, <2>4 DEF SceneInv, ScenesEndAsAbstracted, DamageIsNoticed
<1> QED  BY <1>1, <1>2

(* A call keeps it, whatever the candidate answers and leaves.                *)
LEMMA PlayInv ==
    ASSUME SceneInv, PlayStep
    PROVE  SceneInv'
<1> DEFINE step == scene.steps[1]
           rest == Tail(scene.steps)
<1>1. scene # None /\ scene \in SceneRecord /\ scene.result = None /\ scene.steps # <<>> /\ Playing(scene)
  BY DEF SceneInv, PlayStep
<1>2. /\ scene' \in SceneRecord
      /\ scene'.runner = scene.runner /\ scene'.id = scene.id /\ scene'.steps = rest
      /\ scene'.result \in {None, Failed, Panicked}
      /\ scene'.result = Panicked => step.expects = "must"
      /\ step.op \notin Changing => scene'.stored = scene.stored
      /\ step.op # "before" => scene'.before = scene.before
      /\ step.op # "seen" => scene'.seen = scene.seen
      /\ step.op = "seen" => scene'.seen = scene'.stored
      /\ step.op # "copy" => scene'.copy = scene.copy
      /\ scene'.closing = IF step.op = "close" THEN scene.stored ELSE scene.closing
      /\ step = Call("heed", "ok") /\ scene'.result = None =>
           OracleOf(scene) = "passes" /\ scene.copy \in {None, scene.before}
  BY <1>1, PlayFacts
<1>3. /\ step \in Calls
      /\ NoMust(scene.steps) => step.expects # "must" /\ NoMust(rest)
      /\ \A ops : NoOp(scene.steps, ops) => step.op \notin ops /\ NoOp(rest, ops)
      /\ \A S, ops : LastOf(scene.steps, S, ops) => LastOf(rest, S, ops) \/ (step \in S /\ NoOp(rest, ops))
      /\ ClosesLast(scene.steps) => ClosesLast(rest) \/ (step.op = "seen" /\ ToClose(rest))
      /\ ToClose(scene.steps) => step.op = "close" /\ rest = <<>>
  BY <1>1, StepTail, CloseTail DEF SceneRecord
<1>4. /\ step \in Heeds => step = Call("heed", "ok") /\ step.op = "heed"
      /\ step \in Reads => step.op = "seen"
      /\ "heed" \notin Changing /\ "seen" \notin Changing
  BY DEF Heeds, Reads, Call, Changing
<1>5. step.op \notin {"before", "seen"} => OracleOf(scene') = OracleOf(scene)
  BY <1>2 DEF OracleOf
<1> HIDE DEF step, rest
<1>6. ASSUME scene'.result = None PROVE Playing(scene')
  <2>1. ~IsUnsupported(scene'.runner, scene'.id)
        /\ (~Panics(scene'.runner, scene'.id) => NoMust(scene'.steps))
    BY <1>1, <1>2, <1>3 DEF Playing
  <2>2. ASSUME ScriptOf(scene.runner, scene.id).oracle = "heed"
        PROVE  \/ LastOf(rest, Heeds, {"before", "seen"})
               \/ NoOp(rest, {"before", "seen"}) /\ OracleOf(scene') = "passes"
    <3>1. CASE LastOf(scene.steps, Heeds, {"before", "seen"})
      BY <1>2, <1>3, <1>4, <1>5, <1>6, <3>1
    <3>2. CASE NoOp(scene.steps, {"before", "seen"}) /\ OracleOf(scene) = "passes"
      BY <1>3, <1>5, <3>2
    <3> QED  BY <1>1, <2>2, <3>1, <3>2 DEF Playing
  <2>3. ASSUME <<scene.runner, scene.id>> \notin Unobserved
        PROVE  IF EndsWithClose(scene.runner, scene.id) THEN SeenBeforeClose(scene') ELSE SeenLast(scene')
    <3>1. CASE EndsWithClose(scene.runner, scene.id)
      <4>1. SeenBeforeClose(scene)
        BY <1>1, <2>3, <3>1 DEF Playing
      <4>3. CASE ClosesLast(scene.steps)
        BY <1>2, <1>3, <3>1, <4>3 DEF SeenBeforeClose
      <4>4. CASE ToClose(scene.steps) /\ scene.seen = scene.stored
        BY <1>2, <1>3, <3>1, <4>4 DEF SeenBeforeClose
      <4> QED  BY <1>1, <4>1, <4>3, <4>4 DEF SeenBeforeClose
    <3>2. CASE ~EndsWithClose(scene.runner, scene.id)
      <4>1. CASE LastOf(scene.steps, Reads, Changing)
        BY <1>2, <1>3, <1>4, <3>2, <4>1 DEF SeenLast
      <4>2. CASE NoOp(scene.steps, Changing) /\ scene.seen = scene.stored
        BY <1>2, <1>3, <3>2, <4>2 DEF SeenLast
      <4> QED  BY <1>1, <2>3, <3>2, <4>1, <4>2 DEF Playing, SeenLast
    <3> QED  BY <3>1, <3>2
  <2>4. ASSUME <<scene.runner, scene.id>> \notin Unobserved
        PROVE  \/ LastOf(rest, Heeds, {"copy", "before"})
               \/ NoOp(rest, {"copy", "before"}) /\ scene'.copy \in {None, scene'.before}
               \/ NoOp(rest, {"copy"}) /\ scene'.copy = None
    <3>1. CASE LastOf(scene.steps, Heeds, {"copy", "before"})
      BY <1>2, <1>3, <1>4, <1>6, <3>1
    <3>2. CASE NoOp(scene.steps, {"copy", "before"}) /\ scene.copy \in {None, scene.before}
      BY <1>2, <1>3, <3>2
    <3>3. CASE NoOp(scene.steps, {"copy"}) /\ scene.copy = None
      BY <1>2, <1>3, <3>3
    <3> QED  BY <1>1, <2>4, <3>1, <3>2, <3>3 DEF Playing
  <2> QED  BY <1>2, <2>1, <2>2, <2>3, <2>4 DEF Playing
<1>7. ASSUME scene'.result # None
      PROVE  ScenesEndAsAbstracted' /\ DamageIsNoticed'
  <2>1. scene'.result = Panicked => Panics(scene.runner, scene.id)
    BY <1>1, <1>2, <1>3 DEF Playing
  <2>2. scene'.result \in Outcomes(scene.runner, scene.id)
    BY <1>1, <1>2, <1>7, <2>1 DEF Playing, Outcomes
  <2>3. scene'.result.status # "Passed"
    BY <1>2, <1>7, ResultFacts
  <2> QED  BY <1>2, <2>2, <2>3 DEF ScenesEndAsAbstracted, DamageIsNoticed
<1> QED  BY <1>2, <1>6, <1>7 DEF SceneInv, ScenesEndAsAbstracted, DamageIsNoticed

(* The end of a scenario keeps it.                                            *)
LEMMA EndInv ==
    ASSUME SceneInv, EndScene
    PROVE  SceneInv'
<1> DEFINE runner == scene.runner
           id == scene.id
           oracle == OracleOf(scene)
           result == Conclusion(runner, id, oracle)
<1>1. scene # None /\ scene \in SceneRecord /\ scene.result = None /\ scene.steps = <<>> /\ Playing(scene)
      /\ scene' = [scene EXCEPT !.result = result]
  BY DEF SceneInv, EndScene
<1>2. oracle \in {"passes", "fails"}
  BY DEF OracleOf
<1>3. result \in Results /\ result.oracle = IF ScriptOf(runner, id).oracle = "constant" THEN "passes" ELSE oracle
  <2>1. ObservedCode(runner, id) \in {None, "unsupported-newer-format", "canonical-corruption"}
    BY DEF ObservedCode
  <2> HIDE DEF oracle, runner, id
  <2> QED  BY <1>2, <2>1 DEF Conclusion, Result, Results
<1>4. scene'.runner = runner /\ scene'.id = id /\ scene'.before = scene.before /\ scene'.stored = scene.stored
      /\ scene'.copy = scene.copy /\ scene'.closing = scene.closing /\ scene'.result = result
  BY <1>1 DEF SceneRecord
<1>5. scene' \in SceneRecord
  BY <1>1, <1>3 DEF SceneRecord
<1>6. result \in Outcomes(runner, id)
  <2>1. ScriptOf(runner, id).oracle \in {"follow", "heed", "ignore", "constant"}
    BY <1>1, ScriptFacts DEF SceneRecord, Scripted
  <2>2. CASE ScriptOf(runner, id).oracle \in {"ignore", "follow"}
    BY <1>1, <1>2, <2>2 DEF Outcomes, Playing
  <2>3. CASE ScriptOf(runner, id).oracle = "heed"
    <3>1. oracle = "passes"
      BY <1>1, <2>3, NothingLeft DEF Playing
    <3> QED  BY <1>1, <2>3, <3>1 DEF Outcomes, Playing
  <2>4. CASE ScriptOf(runner, id).oracle = "constant"
    <3>1. result = Conclusion(runner, id, "passes")
      BY <2>4 DEF Conclusion
    <3> HIDE DEF result
    <3> QED  BY <1>1, <2>4, <3>1 DEF Outcomes, Playing
  <2> QED  BY <2>1, <2>2, <2>3, <2>4
<1>7. ASSUME <<runner, id>> \notin Unobserved, result.oracle = "passes"
      PROVE  /\ IF EndsWithClose(runner, id)
                THEN scene.closing = Expected(id, scene.before) ELSE scene.stored = Expected(id, scene.before)
             /\ scene.copy \in {None, scene.before}
  <2>1. /\ IF EndsWithClose(runner, id) THEN scene.seen = scene.closing ELSE scene.seen = scene.stored
        /\ scene.copy \in {None, scene.before}
    BY <1>1, <1>7, NothingLeft DEF Playing, SeenBeforeClose, SeenLast
  <2>2. oracle = "passes"
    <3>1. ScriptOf(runner, id).oracle # "constant"
      BY <1>1, <1>7, ScriptFacts DEF SceneRecord, Watching
    <3> HIDE DEF oracle, result
    <3> QED  BY <1>3, <1>7, <3>1
  <2> QED  BY <2>1, <2>2 DEF OracleOf
<1> HIDE DEF runner, id, oracle, result
<1>8. ScenesEndAsAbstracted' /\ DamageIsNoticed'
  BY <1>4, <1>6, <1>7 DEF ScenesEndAsAbstracted, DamageIsNoticed
<1>9. scene'.result # None
  BY <1>3, <1>4, ResultAssumption
<1> QED  BY <1>5, <1>8, <1>9 DEF SceneInv

(* The invariant of a scenario played call by call.                           *)
LEMMA SceneInvariance == SceneSpec => []SceneInv
<1>1. SceneInit => SceneInv
  BY DEF SceneInit, SceneInv
<1>2. SceneInv /\ [SceneNext]_scene => SceneInv'
  <2> SUFFICES ASSUME SceneInv, [SceneNext]_scene PROVE SceneInv'
    OBVIOUS
  <2>1. CASE UNCHANGED scene
    BY <2>1 DEF SceneInv, ScenesEndAsAbstracted, DamageIsNoticed
  <2> QED  BY <2>1, StartInv, PlayInv, EndInv DEF SceneNext
<1> QED  BY <1>1, <1>2, PTL DEF SceneSpec

(* A scenario ends in one of the outcomes that the runs, which take it as one *)
(* step, choose from: no answer of a candidate leads to another one.          *)
THEOREM ScenesEnd == SceneSpec => []ScenesEndAsAbstracted
<1>1. SceneInv => ScenesEndAsAbstracted
  BY DEF SceneInv, ScenesEndAsAbstracted
<1> QED  BY <1>1, SceneInvariance, PTL

(* A candidate that leaves anything but what was promised passes none but the  *)
(* unobserved scenarios with a passing oracle, as long as the looks are right; *)
(* of the host's baseline, append and attach, before the close that ends them. *)
THEOREM DamageShows == SceneSpec => []DamageIsNoticed
<1>1. SceneInv => DamageIsNoticed
  BY DEF SceneInv, DamageIsNoticed
<1> QED  BY <1>1, SceneInvariance, PTL

(***************************************************************************)
(* The readiness gate.  Validation reports the first check that fails; the    *)
(* verdict of a contract it lets through rests on those that have not.        *)
(***************************************************************************)
(* A set of naturals that is not empty has a least element.                   *)
LEMMA MinOf ==
    ASSUME NEW S \in SUBSET Nat, S # {}
    PROVE  Min(S) \in S
<1>1. \E x \in S : \A y \in S : x =< y
  <2>1. PICK x \in S : \A y \in S : ~(<<y, x>> \in OpToRel(<, Nat))
    BY NatLessThanWellFounded, WFMin
  <2>2. \A a, b \in Nat : a < b => <<a, b>> \in OpToRel(<, Nat)
    BY DEF OpToRel
  <2>3. \A y \in S : ~(y < x)
    BY <2>1, <2>2
  <2> QED  BY <2>3
<1> QED  BY <1>1 DEF Min

(* Where no check is reported, none has failed ...                            *)
LEMMA NoneFails ==
    ASSUME NEW checks, NEW n \in Nat, DOMAIN checks = 1..n,
           \A i \in 1..n : checks[i][1] => checks[i][2] # Nothing,
           FirstFailure(checks) = Nothing
    PROVE  \A i \in 1..n : ~checks[i][1]
<1> DEFINE failed == {i \in DOMAIN checks : checks[i][1]}
<1>1. CASE failed = {}
  BY <1>1
<1>2. CASE failed # {}
  <2>1. Min(failed) \in failed
    BY <1>2, MinOf
  <2>2. FirstFailure(checks) = checks[Min(failed)][2]
    BY <1>2 DEF FirstFailure
  <2> QED  BY <2>1, <2>2
<1> QED  BY <1>1, <1>2

(* ... in no group of them, nor in one group after another.                   *)
LEMMA NoneOf ==
    ASSUME NEW codes, NEW n \in Nat, DOMAIN codes = 1..n, FirstOf(codes) = Nothing
    PROVE  \A i \in 1..n : codes[i] = Nothing
<1> DEFINE checks == [i \in DOMAIN codes |-> <<codes[i] # Nothing, codes[i]>>]
<1>1. DOMAIN checks = 1..n /\ FirstFailure(checks) = Nothing
  BY DEF FirstOf
<1>2. \A i \in 1..n : checks[i][1] = (codes[i] # Nothing) /\ checks[i][2] = codes[i]
  OBVIOUS
<1> HIDE DEF checks
<1>3. \A i \in 1..n : ~checks[i][1]
  BY <1>1, <1>2, NoneFails
<1> QED  BY <1>2, <1>3

(* What a claim that validation lets through looks like, as far as the verdict  *)
(* depends on it.                                                             *)
AcceptedSub(s, i) ==
    LET c == s.subclaims[i]
    IN /\ c.status \in Statuses
       /\ ToSet(c.strengths) \subseteq EvidenceStrengths
       /\ ~StatusMisfit(c.status, c.strengths, FALSE, FALSE, FALSE)
       /\ \A j \in 1..(i - 1) : s.subclaims[j].id # c.id
Accepted(s) ==
    /\ s.structure \in {"single", "multiple"} /\ s.status \in Statuses
    /\ ToSet(s.strengths) \subseteq EvidenceStrengths
    /\ ~StatusMisfit(s.status, s.strengths, s.observed = "text", s.deferred = "true",
                     s.structure = "multiple")
    /\ s.structure = "single" => s.subclaims = <<>>
    /\ s.structure = "multiple" => \A i \in DOMAIN s.subclaims : AcceptedSub(s, i)

(* What validation has made sure of when it reports nothing: of a subclaim,   *)
LEMMA SubAccepted ==
    ASSUME NEW s, NEW i, SubclaimFailure(s, i) = Nothing PROVE AcceptedSub(s, i)
<1> DEFINE c == s.subclaims[i]
           checks == << RequireText(c.idShape),
            <<\E j \in 1..(i - 1) : s.subclaims[j].id = c.id, "DuplicateSubclaimId">>,
            <<c.status \notin Statuses, "InvalidContract">>,
            <<UnknownStrength(c.strengths) \/ UnknownStrength(c.target), "InvalidContract">>,
            <<StatusMisfit(c.status, c.strengths, FALSE, FALSE, FALSE),
              "InvalidStatusEvidenceCombination">>,
            RequireText(c.text) >>
<1>1. FirstFailure(checks) = Nothing
  BY DEF SubclaimFailure
<1>2. DOMAIN checks = 1..6 /\ \A k \in 1..6 : checks[k][2] # Nothing
  BY CodeAssumption DEF ReadinessBlockerCode, RequireText
<1>3. \A k \in 1..6 : ~checks[k][1]
  <2> HIDE DEF checks
  <2> QED  BY <1>1, <1>2, NoneFails
<1> HIDE DEF checks
<1>4. ~checks[2][1] /\ ~checks[3][1] /\ ~checks[4][1] /\ ~checks[5][1]
  BY <1>3
<1> QED  BY <1>4 DEF AcceptedSub, UnknownStrength, checks

(* In a list of groups put together, either.                                  *)
LEMMA NoneOfBoth ==
    ASSUME NEW S, NEW T, NEW p \in Seq(S), NEW q \in Seq(T), FirstOf(p \o q) = Nothing
    PROVE  \A i \in 1..Len(q) : q[i] = Nothing
<1>1. PICK n \in Nat : n = Len(p) + Len(q)
  OBVIOUS
<1>2. DOMAIN (p \o q) = 1..n
      /\ \A i \in 1..Len(q) : (p \o q)[Len(p) + i] = q[i] /\ Len(p) + i \in 1..n
  BY <1>1
<1>3. \A k \in 1..n : (p \o q)[k] = Nothing
  BY <1>2, NoneOf
<1> QED  BY <1>2, <1>3

(* of a scenario,                                                             *)
LEMMA ScenarioAccepted ==
    ASSUME NEW s, IsList(s.subclaims), ScenarioFailure(s) = Nothing PROVE Accepted(s)
<1> DEFINE
      shape == << RequireText(s.idShape),
             <<s.missing, "InvalidContract">>,
             RequireText(s.text),
             RequireText(s.lists),
             <<s.structure \notin {"single", "multiple"}, "InvalidClaimStructure">>,
             <<s.status \notin Statuses, "InvalidContract">>,
             <<s.kind \notin InvariantKinds, "InvalidContract">> >>
      fields == << <<s.observed \notin {"null", "text"},
               IF s.observed = "blank" THEN "EmptyRequiredString" ELSE "InvalidContract">>,
             <<UnknownStrength(s.strengths) \/ UnknownStrength(s.target), "InvalidContract">>,
             <<s.correction \notin {"true", "false"}, "InvalidContract">>,
             <<s.deferred \notin {"absent", "true", "false"}, "InvalidContract">> >>
      status == << <<StatusMisfit(s.status, s.strengths, s.observed = "text", s.deferred = "true",
                            s.structure = "multiple"),
               "InvalidStatusEvidenceCombination">> >>
      codes == << FirstFailure(shape),
        IF s.kind \in InvariantKinds THEN MetadataFailure(s.kind, s.meta) ELSE Nothing,
        FirstFailure(fields),
        IF s.status = "Unsupported" THEN UnsupportedShapeFailure(s) ELSE Nothing,
        FirstFailure(status),
        IF s.structure = "single" THEN SingleClaimFailure(s) ELSE MultipleClaimsFailure(s) >>
<1>1. /\ FirstFailure(shape) = Nothing /\ FirstFailure(fields) = Nothing
      /\ FirstFailure(status) = Nothing
      /\ (IF s.structure = "single" THEN SingleClaimFailure(s) ELSE MultipleClaimsFailure(s)) = Nothing
  <2>1. FirstOf(codes) = Nothing /\ DOMAIN codes = 1..6
    BY DEF ScenarioFailure
  <2> HIDE DEF codes
  <2>3. \A k \in 1..6 : codes[k] = Nothing
    BY <2>1, NoneOf
  <2>2. codes[1] = Nothing /\ codes[3] = Nothing /\ codes[5] = Nothing /\ codes[6] = Nothing
    BY <2>3
  <2> HIDE DEF shape, fields, status
  <2> QED  BY <2>2 DEF codes
<1>2. s.structure \in {"single", "multiple"} /\ s.status \in Statuses
  <2>1. DOMAIN shape = 1..7 /\ \A k \in 1..7 : shape[k][2] # Nothing
    BY CodeAssumption DEF ReadinessBlockerCode, RequireText
  <2> HIDE DEF shape
  <2>3. \A k \in 1..7 : ~shape[k][1]
    BY <1>1, <2>1, NoneFails
  <2>2. ~shape[5][1] /\ ~shape[6][1]
    BY <2>3
  <2> QED  BY <2>2 DEF shape
<1>3. ~UnknownStrength(s.strengths)
  <2>1. DOMAIN fields = 1..4 /\ \A k \in 1..4 : fields[k][2] # Nothing
    BY CodeAssumption DEF ReadinessBlockerCode
  <2> HIDE DEF fields
  <2>3. \A k \in 1..4 : ~fields[k][1]
    BY <1>1, <2>1, NoneFails
  <2>2. ~fields[2][1]
    BY <2>3
  <2> QED  BY <2>2 DEF fields
<1>4. ~StatusMisfit(s.status, s.strengths, s.observed = "text", s.deferred = "true",
                    s.structure = "multiple")
  <2>1. DOMAIN status = 1..1 /\ \A k \in 1..1 : status[k][2] # Nothing
    BY CodeAssumption DEF ReadinessBlockerCode
  <2> HIDE DEF status
  <2>3. \A k \in 1..1 : ~status[k][1]
    BY <1>1, <2>1, NoneFails
  <2>2. ~status[1][1]
    BY <2>3
  <2> QED  BY <2>2 DEF status
<1>5. ASSUME s.structure = "single" PROVE s.subclaims = <<>>
  <2> DEFINE claim == << <<s.claim = "null", "InvalidClaimStructure">>,
                    RequireText(s.claim),
                    <<s.subclaims # <<>>, "InvalidClaimStructure">>,
                    <<s.demonstrated # "text", "EmptyRequiredString">> >>
  <2>1. DOMAIN claim = 1..4 /\ \A k \in 1..4 : claim[k][2] # Nothing
    BY CodeAssumption DEF ReadinessBlockerCode, RequireText
  <2>2. FirstFailure(claim) = Nothing
    BY <1>1, <1>5 DEF SingleClaimFailure
  <2> HIDE DEF claim
  <2>4. \A k \in 1..4 : ~claim[k][1]
    BY <2>1, <2>2, NoneFails
  <2>3. ~claim[3][1]
    BY <2>4
  <2> QED  BY <2>3 DEF claim
<1>6. ASSUME s.structure = "multiple", NEW i \in DOMAIN s.subclaims PROVE AcceptedSub(s, i)
  <2> DEFINE head == << FirstFailure(<< <<\/ s.claim # "null" \/ s.demonstrated # "null"
                                 \/ s.strengths # <<>> \/ s.target # <<>>
                                 \/ s.subclaims = <<>>, "InvalidClaimStructure">> >>) >>
             subs == [k \in DOMAIN s.subclaims |-> SubclaimFailure(s, k)]
             n == Len(s.subclaims)
  <2>1. FirstOf(head \o subs) = Nothing
    BY <1>1, <1>6 DEF MultipleClaimsFailure
  <2>2. n \in Nat /\ DOMAIN s.subclaims = 1..n
    BY DEF IsList
  <2>3. head \in Seq({head[1]}) /\ Len(head) = 1
    OBVIOUS
  <2>4. subs \in Seq({subs[k] : k \in 1..n}) /\ Len(subs) = n
    BY <2>2
  <2> HIDE DEF head, subs, n
  <2>6. subs[i] = Nothing
    BY <1>6, <2>1, <2>2, <2>3, <2>4, NoneOfBoth
  <2> QED  BY <2>6, SubAccepted DEF subs
<1> QED  BY <1>2, <1>3, <1>4, <1>5, <1>6 DEF Accepted, UnknownStrength

(* and of a contract, whose scenarios have ids of their own.                  *)
LEMMA ContractAccepted ==
    ASSUME NEW c \in Contracts, ContractFailure(c) = Nothing
    PROVE  /\ \A s \in ToSet(c.scenarios) : Accepted(s)
           /\ \A s, t \in ToSet(c.scenarios) : s.id = t.id => s = t
<1> DEFINE head ==
     << FirstFailure(<< <<c.version # "4", "UnsupportedContractVersion">>,
                        <<c.missing, "InvalidContract">> >>),
        ConflictFailure(c.conflicts),
        FirstFailure(<< <<c.catalog # "1", "InvalidContract">>,
                        <<~(RequiredExclusions \subseteq c.exclusions), "InvalidContract">>,
                        <<c.falseSemantics # "accepted", "InvalidContract">> >>) >>
           pair(i) == << ScenarioFailure(c.scenarios[i]),
                     IF \E j \in 1..(i - 1) : c.scenarios[j].id = c.scenarios[i].id
                     THEN "DuplicateScenarioId" ELSE Nothing >>
           each == [i \in DOMAIN c.scenarios |-> FirstOf(pair(i))]
           n == Len(c.scenarios)
<1>1. FirstOf(head \o each) = Nothing
  BY DEF ContractFailure
<1>2. n \in Nat /\ DOMAIN c.scenarios = 1..n /\ ToSet(c.scenarios) = {c.scenarios[i] : i \in 1..n}
      /\ \A s \in ToSet(c.scenarios) : IsList(s.subclaims)
  <2>1. IsList(c.scenarios) /\ \A s \in ToSet(c.scenarios) : IsList(s.subclaims)
    BY ContractsAssumption
  <2>2. DOMAIN c.scenarios = 1..n /\ n \in Nat
    BY <2>1 DEF IsList
  <2> QED  BY <2>1, <2>2 DEF ToSet
<1>3. head \in Seq({head[1], head[2], head[3]}) /\ Len(head) = 3
  <2> HIDE DEF head
  <2> QED  BY DEF head
<1> HIDE DEF head, pair, n
<1>4. each \in Seq({each[k] : k \in 1..n}) /\ Len(each) = n
  BY <1>2
<1> HIDE DEF each
<1>5. ASSUME NEW i \in 1..n PROVE pair(i)[1] = Nothing /\ pair(i)[2] = Nothing
  <2>2. each[i] = Nothing
    BY <1>1, <1>2, <1>3, <1>4, NoneOfBoth
  <2>3. FirstOf(pair(i)) = Nothing
    BY <1>2, <2>2 DEF each
  <2>4. DOMAIN pair(i) = 1..2
    BY DEF pair
  <2>5. \A k \in 1..2 : pair(i)[k] = Nothing
    BY <2>3, <2>4, NoneOf
  <2> QED  BY <2>5
<1>6. ASSUME NEW i \in 1..n PROVE ScenarioFailure(c.scenarios[i]) = Nothing
  BY <1>5 DEF pair
<1>7. ASSUME NEW i \in 1..n, NEW j \in 1..(i - 1) PROVE c.scenarios[j].id # c.scenarios[i].id
  BY <1>5, CodeAssumption DEF ReadinessBlockerCode, pair
<1>8. ASSUME NEW s \in ToSet(c.scenarios), NEW t \in ToSet(c.scenarios), s.id = t.id PROVE s = t
  <2>1. PICK i \in 1..n, j \in 1..n : s = c.scenarios[i] /\ t = c.scenarios[j]
    BY <1>2
  <2>2. i = j
    BY <1>2, <1>7, <1>8, <2>1, SMTT(30)
  <2> QED  BY <2>1, <2>2
<1>9. \A s \in ToSet(c.scenarios) : Accepted(s)
  BY <1>2, <1>6, ScenarioAccepted
<1> QED  BY <1>8, <1>9

(* Entries are told apart by their parts.                                     *)
LEMMA BlockerFacts ==
  \A code, code2, x, y, u, v :
    Blocker(code, x, y) = Blocker(code2, u, v) <=> code = code2 /\ x = u /\ y = v
BY DEF Blocker

(* The same of credits.                                                       *)
LEMMA CreditFacts ==
  \A s, sub, q, t, tsub, r :
    /\ Credit(s, sub, q) = Credit(t, tsub, r) <=> s.id = t.id /\ sub = tsub /\ q = r
    /\ Credit(s, sub, q).scenario = s.id /\ Credit(s, sub, q).sub = sub /\ Credit(s, sub, q).strengths = q
BY DEF Credit


Withheld(code) ==
    IF code = "NotDemonstratedSubclaim" THEN "not_demonstrated" ELSE "Unsupported"

(* Credit goes to the claims that say they are partially demonstrated ...     *)
LEMMA CreditOf ==
    ASSUME NEW s, Accepted(s), IsList(s.subclaims), NEW x
    PROVE  x \in CreditsOf(s) <=>
             /\ ~Excluded(s)
             /\ \E claim \in Claims(s) : /\ claim.status = "partially_demonstrated"
                                         /\ x = Credit(s, claim.sub, claim.strengths)
<1>1. CASE s.structure = "single"
  <2>1. ToSet(s.subclaims) = {} /\ Claims(s) = {[sub |-> Nothing, status |-> s.status,
                                                  strengths |-> s.strengths]}
    BY <1>1 DEF Accepted, Claims, ToSet
  <2>2. ~Excluded(s) => (s.status # "not_demonstrated" /\ s.strengths # <<>> <=> s.status = "partially_demonstrated")
    BY <1>1 DEF Accepted, Excluded, Statuses, StatusMisfit
  <2>3. x \in CreditsOf(s) <=> ~Excluded(s) /\ s.status # "not_demonstrated" /\ s.strengths # <<>> /\ x = Credit(s, Nothing, s.strengths)
    BY <1>1, <2>1 DEF When, CreditsOf
  <2> QED  BY <2>1, <2>2, <2>3
<1>2. CASE s.structure # "single"
  <2>1. x \in CreditsOf(s) <=> ~Excluded(s) /\ \E c \in ToSet(s.subclaims) :
           c.status = "partially_demonstrated" /\ c.strengths # <<>> /\ x = Credit(s, c.id, c.strengths)
    BY <1>2 DEF When, CreditsOf
  <2>2. \A c \in ToSet(s.subclaims) : c.status = "partially_demonstrated" => c.strengths # <<>>
    BY <1>2 DEF Accepted, AcceptedSub, StatusMisfit, ToSet
  <2>3. \A claim : claim \in Claims(s) <=> \E c \in ToSet(s.subclaims) :
                 claim = [sub |-> c.id, status |-> c.status, strengths |-> c.strengths]
    BY <1>2 DEF Claims
  <2>4. ASSUME NEW c \in ToSet(s.subclaims), c.status = "partially_demonstrated", x = Credit(s, c.id, c.strengths)
        PROVE  \E claim \in Claims(s) : /\ claim.status = "partially_demonstrated"
                                        /\ x = Credit(s, claim.sub, claim.strengths)
    <3> DEFINE claim == [sub |-> c.id, status |-> c.status, strengths |-> c.strengths]
    <3>1. claim \in Claims(s) /\ claim.sub = c.id /\ claim.status = c.status /\ claim.strengths = c.strengths
      BY <2>3
    <3> HIDE DEF claim
    <3> QED  BY <2>4, <3>1
  <2>5. ASSUME NEW claim \in Claims(s), claim.status = "partially_demonstrated",
               x = Credit(s, claim.sub, claim.strengths)
        PROVE  \E c \in ToSet(s.subclaims) :
                  c.status = "partially_demonstrated" /\ x = Credit(s, c.id, c.strengths)
    BY <2>3, <2>5
  <2> QED  BY <2>1, <2>2, <2>4, <2>5
<1> QED  BY <1>1, <1>2

(* ... and the blockers of a scenario that counts name the others.            *)
LEMMA BlockerOf ==
    ASSUME NEW s, Accepted(s), ~Excluded(s), NEW code \in {"NotDemonstratedSubclaim", "UnsupportedScenarioNoCredit"},
           NEW sub, NEW id
    PROVE  Blocker(code, id, sub) \in BlockersOf(s) <=>
             /\ id = s.id
             /\ \E claim \in Claims(s) :
                  /\ claim.sub = sub
                  /\ claim.status = Withheld(code)
<1> DEFINE b == Blocker(code, id, sub)
<1>0. /\ b \notin When(s.deferred = "true", Blocker("DeferredClaimNoCredit", s.id, Nothing))
      /\ b \notin When(s.correction = "true", Blocker("UnresolvedCorrectionRequired", s.id, Nothing))
      /\ b \notin When(Excluded(s) /\ (s.strengths # <<>> \/ s.status = "Unsupported"),
              Blocker("UnsupportedScenarioNoCredit", s.id, Nothing))
  BY BlockerFacts DEF When
<1>1. CASE s.structure = "single"
  <2>1. ToSet(s.subclaims) = {} /\ Claims(s) = {[sub |-> Nothing, status |-> s.status,
                                                  strengths |-> s.strengths]}
    BY <1>1 DEF Accepted, Claims, ToSet
  <2>2. s.status # "Unsupported"
    BY DEF Excluded
  <2>3. b \in BlockersOf(s) <=> s.status = "not_demonstrated" /\ b = Blocker("NotDemonstratedSubclaim", s.id, Nothing)
    BY <1>0, <1>1, <2>1 DEF When, BlockersOf
  <2> QED  BY <2>1, <2>2, <2>3, BlockerFacts DEF Withheld
<1>2. CASE s.structure # "single"
  <2>1. b \in BlockersOf(s) <=> \E c \in ToSet(s.subclaims) :
           \/ c.status = "not_demonstrated" /\ b = Blocker("NotDemonstratedSubclaim", s.id, c.id)
           \/ c.status = "Unsupported" /\ b = Blocker("UnsupportedScenarioNoCredit", s.id, c.id)
    BY <1>0, <1>2 DEF When, BlockersOf
  <2>2. \A claim : claim \in Claims(s) <=> \E c \in ToSet(s.subclaims) :
                 claim = [sub |-> c.id, status |-> c.status, strengths |-> c.strengths]
    BY <1>2 DEF Claims
  <2> DEFINE said == Withheld(code)
  <2>3. b \in BlockersOf(s) <=>
           id = s.id /\ \E c \in ToSet(s.subclaims) : c.status = said /\ c.id = sub
    BY <2>1, BlockerFacts DEF Withheld
  <2>4. ASSUME NEW c \in ToSet(s.subclaims), c.status = said, c.id = sub
        PROVE  \E claim \in Claims(s) : claim.sub = sub /\ claim.status = said
    <3> DEFINE claim == [sub |-> c.id, status |-> c.status, strengths |-> c.strengths]
    <3>1. claim \in Claims(s) /\ claim.sub = c.id /\ claim.status = c.status
      BY <2>2
    <3> HIDE DEF claim
    <3> QED  BY <2>4, <3>1
  <2>5. ASSUME NEW claim \in Claims(s), claim.sub = sub, claim.status = said
        PROVE  \E c \in ToSet(s.subclaims) : c.status = said /\ c.id = sub
    BY <2>2, <2>5
  <2> QED  BY <2>3, <2>4, <2>5
<1> QED  BY <1>1, <1>2

(* The claims of an accepted scenario are told apart by their subclaim.       *)
LEMMA ClaimsApart ==
    ASSUME NEW s, Accepted(s), IsList(s.subclaims)
    PROVE  /\ \A claim \in Claims(s) : claim.status \in Statuses /\ ToSet(claim.strengths) \subseteq EvidenceStrengths
                                       /\ (claim.status = "partially_demonstrated" => claim.strengths # <<>>)
           /\ \A claim, other \in Claims(s) : claim.sub = other.sub => claim = other
<1>1. CASE s.structure = "single"
  <2>1. Claims(s) = {[sub |-> Nothing, status |-> s.status, strengths |-> s.strengths]}
    BY <1>1 DEF Claims
  <2>2. s.status = "partially_demonstrated" => s.strengths # <<>>
    BY <1>1 DEF Accepted, StatusMisfit
  <2> QED  BY <2>1, <2>2 DEF Accepted
<1>2. CASE s.structure # "single"
  <2>1. \A claim : claim \in Claims(s) <=> \E c \in ToSet(s.subclaims) :
                 claim = [sub |-> c.id, status |-> c.status, strengths |-> c.strengths]
    BY <1>2 DEF Claims
  <2>2. \A c \in ToSet(s.subclaims) : c.status \in Statuses /\ ToSet(c.strengths) \subseteq EvidenceStrengths
          /\ (c.status = "partially_demonstrated" => c.strengths # <<>>)
    BY <1>2 DEF Accepted, AcceptedSub, StatusMisfit, ToSet
  <2>3. ASSUME NEW c \in ToSet(s.subclaims), NEW d \in ToSet(s.subclaims), c.id = d.id PROVE c = d
    <3>1. PICK n \in Nat : DOMAIN s.subclaims = 1..n
      BY DEF IsList
    <3>2. PICK i \in 1..n, j \in 1..n : c = s.subclaims[i] /\ d = s.subclaims[j]
      BY <3>1 DEF ToSet
    <3>3. \A k \in 1..n : \A l \in 1..(k - 1) : s.subclaims[l].id # s.subclaims[k].id
      BY <1>2, <3>1 DEF Accepted, AcceptedSub
    <3>4. i = j
      BY <2>3, <3>2, <3>3
    <3> QED  BY <3>2, <3>4
  <2> QED  BY <2>1, <2>2, <2>3
<1> QED  BY <1>1, <1>2

(* The verdict is about the documents as they were submitted.                *)
GateInv ==
    /\ contract \in Contracts \cup {Nothing}
    /\ contract = Nothing => verdict = Nothing
    /\ verdict # Nothing => verdict = EvaluatePersistenceReadiness(contract, reclassification)

(* The gate judges the documents that were submitted, once.                   *)
LEMMA GateInvariance == GateSpec => []GateInv
<1>1. GateInit => GateInv
  BY DEF GateInit, GateInv
<1>2. GateInv /\ [GateNext]_gateVars => GateInv'
  BY DEF GateInv, GateNext, Submit, Evaluate, gateVars
<1> QED  BY <1>1, <1>2, PTL DEF GateSpec

(* A verdict that is not a refusal is about documents validation let through. *)
LEMMA JudgedMeansAccepted ==
    ASSUME GateInv, Judged
    PROVE  /\ contract \in Contracts /\ ContractFailure(contract) = Nothing
           /\ verdict = AggregateValidatedMetadata(contract, reclassification)
<1> DEFINE codes == <<ContractFailure(contract), ReclassificationFailure(reclassification)>>
<1>1. contract \in Contracts
      /\ verdict = IF FirstOf(codes) = Nothing THEN AggregateValidatedMetadata(contract, reclassification)
                   ELSE InvalidInputOutput(FirstOf(codes))
  BY DEF Judged, GateInv, EvaluatePersistenceReadiness
<1>2. \A code : InvalidInputOutput(code).kind \notin {"valid-ready", "valid-not-ready"}
  BY DEF InvalidInputOutput
<1>3. DOMAIN codes = 1..2
  OBVIOUS
<1> HIDE DEF codes
<1>4. FirstOf(codes) = Nothing
  BY <1>1, <1>2 DEF Judged
<1>5. \A k \in 1..2 : codes[k] = Nothing
  BY <1>3, <1>4, NoneOf
<1>6. ContractFailure(contract) = Nothing
  <2>1. codes[1] = Nothing
    BY <1>5
  <2> QED  BY <2>1 DEF codes
<1> QED  BY <1>1, <1>4, <1>6

(* A scenario's blockers name it.                                             *)
LEMMA BlockersName ==
    ASSUME NEW s, NEW b \in BlockersOf(s)
    PROVE  b.scenario = s.id
<1>1. \A code, sub : Blocker(code, s.id, sub).scenario = s.id
  BY DEF Blocker
<1>2. ASSUME NEW holds, NEW code, NEW sub, b \in When(holds, Blocker(code, s.id, sub))
      PROVE  b.scenario = s.id
  BY <1>1, <1>2 DEF When
<1> QED  BY <1>1 DEF BlockersOf, When

(* Whatever contract is submitted: credit is earned, and every claim the gate has *)
(* to judge is either credited or named by a blocker (aggregation.rs).        *)
THEOREM ClaimsAreAnswered == GateSpec => []EveryClaimIsAnswered
<1>1. GateInv /\ Judged => EveryClaimIsAnswered
  <2> SUFFICES ASSUME GateInv, Judged PROVE EveryClaimIsAnswered
    OBVIOUS
  <2> DEFINE scenarios == ToSet(contract.scenarios)
             named == UNION {BlockersOf(t) : t \in scenarios}
             retained == RetainedBlockers(reclassification)
  <2>1. /\ \A s \in scenarios : Accepted(s) /\ IsList(s.subclaims)
        /\ \A s, t \in scenarios : s.id = t.id => s = t
    BY JudgedMeansAccepted, ContractAccepted, ContractsAssumption
  <2>2. verdict.credits = UNION {CreditsOf(s) : s \in scenarios}
        /\ verdict.blockers = named \cup retained
    BY JudgedMeansAccepted DEF AggregateValidatedMetadata
  <2>7. \A b : b \in named <=> \E t \in scenarios : b \in BlockersOf(t)
    OBVIOUS
  <2> HIDE DEF scenarios, named, retained
  <2>3. ASSUME NEW c \in verdict.credits PROVE Earned(c)
    <3>1. PICK s \in scenarios : c \in CreditsOf(s)
      BY <2>2
    <3>2. PICK claim \in Claims(s) : ~Excluded(s) /\ claim.status = "partially_demonstrated"
                                   /\ c = Credit(s, claim.sub, claim.strengths)
      BY <2>1, <3>1, CreditOf
    <3>3. c.scenario = s.id /\ c.sub = claim.sub /\ c.strengths = claim.strengths
      BY <3>2, CreditFacts
    <3>4. c.strengths # <<>> /\ ToSet(c.strengths) \subseteq EvidenceStrengths
      BY <2>1, <3>2, <3>3, ClaimsApart
    <3>5. claim = [sub |-> c.sub, status |-> "partially_demonstrated", strengths |-> c.strengths]
      BY <3>2, <3>3 DEF Claims
    <3> QED  BY <3>2, <3>3, <3>4, <3>5 DEF Earned, Excluded, scenarios
  <2>4. ASSUME NEW s \in scenarios, ~Excluded(s), NEW claim \in Claims(s)
        PROVE  (Credit(s, claim.sub, claim.strengths) \in verdict.credits)
               <=> claim.status = "partially_demonstrated"
    <3>1. ASSUME Credit(s, claim.sub, claim.strengths) \in verdict.credits
          PROVE  claim.status = "partially_demonstrated"
      <4>1. PICK t \in scenarios : Credit(s, claim.sub, claim.strengths) \in CreditsOf(t)
        BY <2>2, <3>1
      <4>2. PICK other \in Claims(t) : other.status = "partially_demonstrated"
                /\ Credit(s, claim.sub, claim.strengths) = Credit(t, other.sub, other.strengths)
        BY <2>1, <4>1, CreditOf
      <4>3. t = s /\ other.sub = claim.sub
        BY <2>1, <4>2, CreditFacts
      <4> QED  BY <2>1, <4>2, <4>3, ClaimsApart
    <3>2. ASSUME claim.status = "partially_demonstrated"
          PROVE  Credit(s, claim.sub, claim.strengths) \in verdict.credits
      <4>1. Credit(s, claim.sub, claim.strengths) \in CreditsOf(s)
        BY <2>1, <2>4, <3>2, CreditOf
      <4> QED  BY <2>2, <4>1
    <3> QED  BY <3>1, <3>2
  <2>5. ASSUME NEW s \in scenarios, ~Excluded(s), NEW claim \in Claims(s),
               NEW code \in {"NotDemonstratedSubclaim", "UnsupportedScenarioNoCredit"}
        PROVE  Blocker(code, s.id, claim.sub) \in verdict.blockers
               <=> claim.status = Withheld(code)
    <3>1. Blocker(code, s.id, claim.sub) \notin retained
      BY BlockerFacts DEF RetainedBlockers, When, retained
    <3>2. Blocker(code, s.id, claim.sub) \in verdict.blockers <=> Blocker(code, s.id, claim.sub) \in BlockersOf(s)
      <4>1. ASSUME NEW t \in scenarios, Blocker(code, s.id, claim.sub) \in BlockersOf(t) PROVE t = s
        <5>1. s.id = t.id
          BY <4>1, BlockersName DEF Blocker
        <5> QED  BY <2>1, <2>5, <4>1, <5>1
      <4> QED  BY <2>2, <2>7, <3>1, <4>1
    <3>3. Blocker(code, s.id, claim.sub) \in BlockersOf(s) <=>
            \E other \in Claims(s) : other.sub = claim.sub
             /\ other.status = Withheld(code)
      BY <2>1, <2>5, BlockerOf
    <3> QED  BY <2>1, <3>2, <3>3, ClaimsApart
  <2>6. ASSUME NEW s \in scenarios, ~Excluded(s), NEW claim \in Claims(s)
        PROVE  (Credit(s, claim.sub, claim.strengths) \in verdict.credits)
                <=> (\A code \in {"NotDemonstratedSubclaim", "UnsupportedScenarioNoCredit"} :
                        Blocker(code, s.id, claim.sub) \notin verdict.blockers)
    <3>1. claim.status \in Statuses
      BY <2>1, ClaimsApart
    <3>2. Blocker("NotDemonstratedSubclaim", s.id, claim.sub) \in verdict.blockers
               <=> claim.status = "not_demonstrated"
      BY <2>5, <2>6 DEF Withheld
    <3>3. Blocker("UnsupportedScenarioNoCredit", s.id, claim.sub) \in verdict.blockers
               <=> claim.status = "Unsupported"
      BY <2>5, <2>6 DEF Withheld
    <3>4. (Credit(s, claim.sub, claim.strengths) \in verdict.credits)
               <=> claim.status = "partially_demonstrated"
      BY <2>4, <2>6
    <3> QED  BY <3>1, <3>2, <3>3, <3>4 DEF Statuses
  <2> QED  BY <2>3, <2>6 DEF EveryClaimIsAnswered, scenarios
<1>2. GateInv => EveryClaimIsAnswered
  BY <1>1 DEF EveryClaimIsAnswered
<1> QED  BY <1>2, GateInvariance, PTL
==============================================================================
