---------------------------- MODULE ProcessHarness ----------------------------
(* process_harness.rs and bin/persistence_evidence_worker.rs: the parent of a *)
(* scenario drives one worker process over pipes, and may hold a second one.  *)
(* The session the workers share is reduced to what the scenarios look at;    *)
(* SqliteSession models it in full.                                          *)
EXTENDS Naturals, Sequences

CONSTANTS None

VARIABLES
    worker,    \* slot -> the process: its command, place, pipes and exit
    call,      \* the harness's call: kind, place, line read, deadline, outcome
    store      \* owner and lease of the session, command record, duplicate
harnessVars == <<worker, call, store>>

Slots == {"held", "called"}
Alive(s) == worker[s] # None /\ worker[s].exit = None

WorkerCommands == {"hold-writer", "attempt-writer", "apply-command-crash",
                   "duplicate-and-crash", "create-only"}
Faults == {"before-commit", "after-commit", "after-publish"}    \* to abort at
Lines == {"ready", "ok", "writer-already-open", "other-code"}
ExitStates == {"success", "code", "abort", "killed"}
Worker == [cmd : WorkerCommands, fault : Faults \cup {None},
           at : {"setup", "input", "act", "abort", "finish"}, out : Seq(Lines),
           stdin : {"open", "line", "eof"}, exit : ExitStates \cup {None}]

(* None is told from the words and records it stands beside. *)
ASSUME NoneAssumption ==
    /\ None \notin {"passes", "fails", "committed"} \cup ExitStates \cup Faults
    /\ None \notin Worker

NewWorker(cmd, fault) == [cmd |-> cmd, fault |-> fault, at |-> "setup",
                          out |-> <<>>, stdin |-> "open", exit |-> None]
NoCall == [kind |-> None, at |-> "idle", line |-> None, late |-> FALSE, outcome |-> None]
FreshStore == [created |-> FALSE, owner |-> None, lapsed |-> FALSE,
               command |-> None, published |-> FALSE]

HarnessInit ==
    /\ worker = [s \in Slots |-> None]
    /\ call = NoCall
    /\ store = FreshStore

----------------------------------------------------------------------------
(* The worker: main turns an error into exit code 1; abort is a signal.      *)
Becomes(s, w) == worker' = [worker EXCEPT ![s] = w]
Exits(s, how) == Becomes(s, [worker[s] EXCEPT !.exit = how])
Says(s, line, place) ==
    Becomes(s, [worker[s] EXCEPT !.out = Append(@, line), !.at = place])

(* create, and open as the writer, then READY *)
WorkerSetsUp(s) ==
    /\ Alive(s) /\ worker[s].at = "setup" /\ worker[s].cmd # "attempt-writer"
    /\ store' = [store EXCEPT !.created = TRUE, !.lapsed = FALSE,
                    !.owner = IF worker[s].cmd = "create-only" THEN @ ELSE s]
    /\ Says(s, "ready", IF worker[s].cmd = "create-only" THEN "finish" ELSE "input")
    /\ UNCHANGED call

(* attempt_writer opens the session another process created, and closes it   *)
WorkerAttempts(s) ==
    /\ Alive(s) /\ worker[s].at = "setup" /\ worker[s].cmd = "attempt-writer"
    /\ IF store.owner = None \/ store.lapsed
       THEN Says(s, "ok", "finish") /\ store' = [store EXCEPT !.owner = None]
       ELSE Says(s, "writer-already-open", "finish") /\ UNCHANGED store
    /\ UNCHANGED call

(* ... or is refused for another reason: a busy or unreadable database       *)
WorkerIsRefused(s) ==
    /\ Alive(s) /\ worker[s].at = "setup" /\ worker[s].cmd = "attempt-writer"
    /\ Says(s, "other-code", "finish")
    /\ UNCHANGED <<call, store>>

(* read_line on stdin: a line, or the end of input once the parent lets go   *)
WorkerIsTold(s) ==
    /\ Alive(s) /\ worker[s].at = "input" /\ worker[s].stdin # "open"
    /\ Becomes(s, [worker[s] EXCEPT
            !.at = IF worker[s].cmd = "hold-writer" THEN "finish" ELSE "act"])
    /\ UNCHANGED <<call, store>>

(* The armed fault: before the commit nothing changes; after the commit, or   *)
(* after the rename, the change is there and the process still has to abort. *)
WorkerActs(s) ==
    /\ Alive(s) /\ worker[s].at = "act"
    /\ store' = CASE worker[s].fault = "before-commit" -> store
                  [] worker[s].fault = "after-commit"  -> [store EXCEPT !.command = "committed"]
                  [] worker[s].fault = "after-publish" -> [store EXCEPT !.published = TRUE]
    /\ Becomes(s, [worker[s] EXCEPT !.at = "abort"])
    /\ UNCHANGED call
WorkerAborts(s) ==
    /\ Alive(s) /\ worker[s].at = "abort"
    /\ Exits(s, "abort") /\ UNCHANGED <<call, store>>

(* Any adapter call before the change may return an error                    *)
WorkerFails(s) ==
    /\ Alive(s)
    /\ \/ /\ worker[s].at = "setup" /\ worker[s].cmd # "attempt-writer"
          /\ \E created \in BOOLEAN : store' = [store EXCEPT !.created = created]
       \/ worker[s].at = "act" /\ UNCHANGED store
    /\ Exits(s, "code") /\ UNCHANGED call

WorkerFinishes(s) ==
    /\ Alive(s) /\ worker[s].at = "finish"
    /\ Exits(s, "success") /\ UNCHANGED <<call, store>>

WorkerStep(s) ==
    \/ WorkerSetsUp(s) \/ WorkerAttempts(s) \/ WorkerIsRefused(s) \/ WorkerIsTold(s)
    \/ WorkerActs(s) \/ WorkerAborts(s) \/ WorkerFails(s) \/ WorkerFinishes(s)

(* The lease of the present owner runs out                                   *)
LeaseLapses ==
    /\ store.owner # None /\ ~store.lapsed
    /\ store' = [store EXCEPT !.lapsed = TRUE]
    /\ UNCHANGED <<worker, call>>

----------------------------------------------------------------------------
(* The harness.  "ready" is spawn_waiting_ready, "spawn" is spawn_worker;    *)
(* the caller has prepared the storage root the worker is told of.           *)
SlotOf(kind) == IF kind = "ready" THEN "held" ELSE "called"
Killed(s) == [worker EXCEPT ![s].exit = IF @ = None THEN "killed" ELSE @]
Ends(outcome) == call' = [call EXCEPT !.at = "done", !.outcome = outcome]
Outcome(class, exit, lines) == [class |-> class, exit |-> exit, lines |-> lines]

ClassifyExit(exit) ==
    CASE exit = "success" -> "Success"
      [] exit = "code"    -> "AbnormalTermination"
      [] OTHER            -> "Signaled"

Spawn(kind, cmd, fault) ==
    /\ call.at = "idle"
    /\ \/ /\ Becomes(SlotOf(kind), NewWorker(cmd, fault))
          /\ call' = [NoCall EXCEPT !.kind = kind, !.at = "check"]
       \/ /\ call' = [NoCall EXCEPT !.kind = kind, !.at = "done",
                          !.outcome = Outcome("error", None, <<>>)]
          /\ UNCHANGED worker

(* The loop head looks at the clock; spawn_waiting_ready answers an error     *)
(* where spawn_worker answers TimedOut, which carries no exit status.        *)
CheckReadyWithoutDeadline ==   \* variant: the deadline is not looked at
    call.at = "check" /\ call' = [call EXCEPT !.at = "read"] /\ UNCHANGED <<worker, store>>
CheckReadyDeadline ==
    LET s == SlotOf(call.kind)
    IN /\ call.at = "check"
       /\ IF call.late
          THEN /\ worker' = Killed(s)
               /\ Ends(Outcome(IF call.kind = "ready" THEN "error" ELSE "TimedOut", None, <<>>))
          ELSE call' = [call EXCEPT !.at = "read"] /\ UNCHANGED worker
       /\ UNCHANGED store

(* read_line blocks, whatever the clock says, until a line or the end of     *)
(* output; at the end it reads nothing, again and again.                     *)
ReadLine ==
    LET s == SlotOf(call.kind)
        w == worker[s]
        line == IF w.out = <<>> THEN "" ELSE Head(w.out)
    IN /\ call.at = "read" /\ (w.out # <<>> \/ ~Alive(s))
       /\ worker' = IF w.out = <<>> THEN worker ELSE [worker EXCEPT ![s].out = Tail(@)]
       /\ IF call.kind = "ready"
          THEN IF line = "ready" THEN Ends(Outcome("held", None, <<line>>))
               ELSE call' = [call EXCEPT !.at = "check", !.line = line]
          ELSE call' = [call EXCEPT !.line = line,
                            !.at = IF line = "" THEN "check" ELSE "proceed"]
       /\ UNCHANGED store

(* "proceed" goes to the worker's stdin, which is then dropped               *)
Proceed ==
    /\ call.at = "proceed"
    /\ worker' = [worker EXCEPT !["called"].stdin = "line"]
    /\ call' = [call EXCEPT !.at = "wait"]
    /\ UNCHANGED store

(* try_wait first, then the deadline                                         *)
TryWait ==
    LET w == worker["called"]
    IN /\ call.at = "wait"
       /\ IF ~Alive("called")
          THEN /\ Ends(Outcome(ClassifyExit(w.exit), w.exit, <<call.line>> \o w.out))
               /\ UNCHANGED worker
          ELSE /\ call.late
               /\ worker' = Killed("called")
               /\ Ends(Outcome("TimedOut", None, <<call.line>>))
       /\ UNCHANGED store

Deadline ==
    /\ call.at \notin {"idle", "done"} /\ ~call.late
    /\ call' = [call EXCEPT !.late = TRUE]
    /\ UNCHANGED <<worker, store>>

(* kill_held_worker says Signaled whatever the process did                   *)
KillHeldWorker ==
    /\ call.at = "idle" /\ worker["held"] # None
    /\ worker' = Killed("held")
    /\ call' = [NoCall EXCEPT !.kind = "kill", !.at = "done",
                    !.outcome = Outcome("Signaled", worker'["held"].exit, <<"ready">>)]
    /\ UNCHANGED store

(* A HeldWorker that is dropped loses its stdin, not its life                *)
DropKeepsHeld == worker   \* variant: the pipes outlive the handle
DropHeld == IF worker["held"] = None THEN worker
            ELSE [worker EXCEPT !["held"].stdin = IF @ = "open" THEN "eof" ELSE @]

HarnessStep == CheckReadyDeadline \/ ReadLine \/ Proceed \/ TryWait

AnyAbnormalEnd(outcome) == outcome.class # "Success"   \* variant: any end but success is meant
IntentionalProcessAbort(outcome) == outcome.exit = "abort"
=============================================================================
