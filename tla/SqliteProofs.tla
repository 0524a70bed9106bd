----------------------------- MODULE SqliteProofs -----------------------------
(***************************************************************************)
(* Proofs about SqliteSession, for every set of processes, events and        *)
(* commands, every lease duration, and a clock that may be set back; and about *)
(* SqliteReader: the writers' invariant holds with a reader next to them,      *)
(* content moves one way, and hence so do the reads of a reader.              *)
(***************************************************************************)
EXTENDS SqliteReader, TLAPS

(* None is told from every record. *)
LEMMA NoneIsNoRecord ==
    \A c \in Command : /\ [cmd |-> c, acked |-> FALSE] # None
                       /\ [cmd |-> c, acked |-> TRUE] # None
<1>1. \A c \in Command, b \in BOOLEAN :
          [cmd |-> c, acked |-> b] \in [cmd : Command, acked : BOOLEAN]
    OBVIOUS
<1>2. None \notin [cmd : Command, acked : BOOLEAN]
    BY IdentityAssumption
<1> QED
    BY <1>1, <1>2, Zenon

(* Acknowledging a record changes nothing else in it. *)
LEMMA SetAcked ==
    ASSUME NEW r \in [cmd : Command, acked : BOOLEAN], NEW b \in BOOLEAN
    PROVE  [r EXCEPT !.acked = b] = [cmd |-> r.cmd, acked |-> b]
OBVIOUS

(* A command leaves a session's content well formed. *)
LEMMA EffectType ==
    ASSUME NEW s \in Content, NEW c \in Command
    PROVE  Effect(s, c) \in Content
<1> c \in CommandType
    BY CommandAssumption
<1> c.kind \in Kinds
    BY DEF CommandType
<1> QED
    BY CommandAssumption DEF Effect, Kinds, CommandType, Content, Selection

(* Each command changes the collection of its own kind and no other. *)
LEMMA EffectFields ==
    ASSUME NEW s \in Content, NEW c \in Command
    PROVE  LET t == Effect(s, c) IN
           /\ t.ledger = IF c.kind = "append" THEN s.ledger \cup {c.item} ELSE s.ledger
           /\ t.analyses = IF c.kind = "attach" THEN s.analyses \cup {c.item} ELSE s.analyses
           /\ t.selection = IF c.kind = "select" THEN [analysis |-> c.item, mark |-> c.mark]
                            ELSE s.selection
           /\ t.artifacts = IF c.kind = "cleanup" THEN s.artifacts \ c.removes ELSE s.artifacts
<1> c.kind \in Kinds
    BY CommandAssumption DEF CommandType
<1> QED
    BY DEF Effect, Kinds, Content

----------------------------------------------------------------------------
(* A token is given to one handle only, and every call in progress belongs   *)
(* to a handle.                                                             *)
TokenInv ==
    /\ owner.token <= issued
    /\ \A p \in Process : /\ handle[p].token <= issued
                          /\ handle[p].token = NoToken => IsClosed(p)
                          /\ job[p].step # "none" => handle[p].token # NoToken
    /\ \A p, q \in Process :
          handle[p].token = handle[q].token => p = q \/ handle[p].token = NoToken

(* What a process that still owns the session has loaded is what is stored.  *)
LoadOK(p) ==
    /\ At(p, "loadRest") /\ OwnsSession(p) =>
          job[p].pre.ledger = content.ledger /\ job[p].pre.analyses = content.analyses
    /\ At(p, "begin") /\ OwnsSession(p) => job[p].pre = content
    /\ At(p, "write") /\ p \in fresh => OwnsSession(p) /\ job[p].pre = content

LoadInv == \A p \in Process : LoadOK(p)

(* How far the command of a call has come.                                  *)
CallOK(p) ==
    /\ job[p].step \in ApplySteps => job[p].cmd \in Command
    /\ At(p, "write") => Applicable(job[p].pre, job[p].cmd)
    /\ job[p].step \in {"verify", "ack"} => Store!Recorded(job[p].cmd)
    /\ At(p, "reply") => record[job[p].cmd.op] = [cmd |-> job[p].cmd, acked |-> TRUE]

CallInv == \A p \in Process : CallOK(p)

Inv == TypeOK /\ TokenInv /\ LoadInv /\ CallInv

(* The ways a step moves a call on keep the calls well typed. *)
LEMMA NoStateType == NoState \in Content /\ NoJob \in Job
BY DEF NoState, NoJob, Content, Job, Step

(* Moving on within a call *)
LEMMA GotoType ==
    ASSUME TypeOK, NEW p \in Process, NEW s \in Step, Goto(p, s)
    PROVE  job' \in [Process -> Job]
BY DEF TypeOK, Goto, Job

(* Moving on with a loaded state *)
LEMMA AdvanceType ==
    ASSUME TypeOK, NEW p \in Process, NEW s \in Step, NEW pre \in Content, Advance(p, s, pre)
    PROVE  job' \in [Process -> Job]
BY DEF TypeOK, Advance, Job

(* Returning to the caller *)
LEMMA EndJobType ==
    ASSUME TypeOK, NEW p \in Process, EndJob(p)
    PROVE  job' \in [Process -> Job]
BY NoStateType DEF TypeOK, EndJob

(* Both halves of a load are well-formed contents. *)
LEMMA LoadedType ==
    ASSUME TypeOK, NEW p \in Process
    PROVE  FirstHalf \in Content /\ LoadedState(p) \in Content
BY NoStateType DEF TypeOK, Job, FirstHalf, LoadedState, NoState, Content

(* Every step a call goes through is a named one. *)
LEMMA StepNames == /\ {"load", "loadRest", "begin", "write", "verify", "ack", "reply"} = ApplySteps
                   /\ {"opening", "rebuild"} = OpenSteps
                   /\ ApplySteps \subseteq Step /\ OpenSteps \subseteq Step /\ "none" \in Step
BY DEF Step, ApplySteps, OpenSteps

(* Acknowledging a record sets one flag. *)
LEMMA AckedRecord ==
    ASSUME NEW r \in [cmd : Command, acked : BOOLEAN]
    PROVE  [r EXCEPT !.acked = TRUE] = [cmd |-> r.cmd, acked |-> TRUE]
BY SetAcked

(* Every step keeps the state well typed.  CallInv tells that the call that
   commits or acknowledges has a command. *)
LEMMA TypeStep == TypeOK /\ CallInv /\ [Next]_vars => TypeOK'
<1> SUFFICES ASSUME TypeOK /\ CallInv, [Next]_vars PROVE TypeOK'
    OBVIOUS
<1>1. ASSUME NEW p \in Process, OpenAcquire(p) PROVE TypeOK'
  <2>1. job' \in [Process -> Job]
    BY <1>1, GotoType, StepNames DEF OpenAcquire
  <2>2. owner' \in [token : Nat, epoch : Nat, expires : Nat]
    BY <1>1, BoundAssumption DEF OpenAcquire, Renewed, TypeOK
  <2>3. handle' \in [Process -> [token : Nat, epoch : Nat]]
    BY <1>1 DEF OpenAcquire, TypeOK
  <2>4. /\ lastClock' \in [Process -> Nat] /\ issued' \in Nat /\ fresh' \in SUBSET Process
        /\ UNCHANGED <<content, record, cache, clock, answered>>
    BY <1>1 DEF OpenAcquire, ReadsClock, TypeOK
  <2> QED
    BY <2>1, <2>2, <2>3, <2>4 DEF TypeOK
<1>2. ASSUME NEW p \in Process, OpenRefused(p) PROVE TypeOK'
    BY <1>2 DEF OpenRefused, ReadsClock, TypeOK, database
<1>3. ASSUME NEW p \in Process, OpenLoad(p) PROVE TypeOK'
  <2>1. job' \in [Process -> Job]
    BY <1>3, AdvanceType, StepNames DEF OpenLoad, TypeOK
  <2> QED
    BY <1>3, <2>1 DEF OpenLoad, TypeOK, database
<1>4. ASSUME NEW p \in Process, OpenRebuild(p) PROVE TypeOK'
  <2>1. job' \in [Process -> Job]
    BY <1>4, EndJobType DEF OpenRebuild
  <2> QED
    BY <1>4, <2>1 DEF OpenRebuild, At, TypeOK, Job, Content
<1>5. ASSUME NEW p \in Process, OpenFails(p) PROVE TypeOK'
  <2>1. job' \in [Process -> Job]
    BY <1>5, EndJobType DEF OpenFails
  <2>2. owner' \in [token : Nat, epoch : Nat, expires : Nat]
    BY <1>5 DEF OpenFails, Release, TypeOK, NoToken
  <2>3. handle' \in [Process -> [token : Nat, epoch : Nat]]
    BY <1>5 DEF OpenFails, TypeOK, Closed, NoToken
  <2> QED
    BY <1>5, <2>1, <2>2, <2>3 DEF OpenFails, TypeOK
<1>6. ASSUME NEW p \in Process, Close(p) PROVE TypeOK'
    BY <1>6 DEF Close, Release, Closed, NoToken, TypeOK, database
<1>7. ASSUME NEW p \in Process, NEW c \in Command, SubmitNew(p, c) PROVE TypeOK'
  <2>1. job' \in [Process -> Job]
    BY <1>7, NoStateType, StepNames DEF SubmitNew, TypeOK, Job
  <2> QED
    BY <1>7, <2>1 DEF SubmitNew, ReadsClock, TypeOK, database
<1>8. ASSUME NEW p \in Process, NEW c \in Command, SubmitAgain(p, c) PROVE TypeOK'
  <2>1. job' \in [Process -> Job]
    BY <1>8, NoStateType, StepNames DEF SubmitAgain, TypeOK, Job
  <2> QED
    BY <1>8, <2>1 DEF SubmitAgain, ReadsClock, TypeOK, database
<1>9. ASSUME NEW p \in Process, NEW c \in Command, SubmitRefused(p, c) PROVE TypeOK'
    BY <1>9 DEF SubmitRefused, ReadsClock, TypeOK, database
<1>10. ASSUME NEW p \in Process, LoadLedger(p) PROVE TypeOK'
  <2>1. job' \in [Process -> Job]
    BY <1>10, AdvanceType, LoadedType, StepNames DEF LoadLedger
  <2> QED
    BY <1>10, <2>1 DEF LoadLedger, TypeOK, database
<1>11. ASSUME NEW p \in Process, LoadRest(p) PROVE TypeOK'
  <2>1. job' \in [Process -> Job]
    BY <1>11, AdvanceType, EndJobType, LoadedType, StepNames DEF LoadRest
  <2> QED
    BY <1>11, <2>1 DEF LoadRest, TypeOK, database
<1>12. ASSUME NEW p \in Process, Begin(p) PROVE TypeOK'
  <2>1. job' \in [Process -> Job]
    BY <1>12, GotoType, EndJobType, StepNames DEF Begin
  <2> QED
    BY <1>12, <2>1 DEF Begin, TypeOK, database
<1>13. ASSUME NEW p \in Process, Commit(p) PROVE TypeOK'
  <2>1. job' \in [Process -> Job]
    BY <1>13, AdvanceType, NoStateType, StepNames DEF Commit
  <2>2. job[p] \in Job /\ job[p].cmd \in Command
    BY <1>13, StepNames DEF Commit, At, TypeOK, CallInv, CallOK
  <2>3. Effect(job[p].pre, job[p].cmd) \in Content
    BY <2>2, EffectType DEF Job
  <2>4. record' \in [Op -> [cmd : Command, acked : BOOLEAN] \cup {None}]
    BY <1>13, <2>2 DEF Commit, TypeOK
  <2>5. owner' \in [token : Nat, epoch : Nat, expires : Nat]
    BY <1>13, <2>2, BoundAssumption DEF Commit, Renewed, TypeOK, Job
  <2> QED
    BY <1>13, <2>1, <2>3, <2>4, <2>5 DEF Commit, TypeOK
<1>14. ASSUME NEW p \in Process, CommitFails(p) PROVE TypeOK'
  <2>1. job' \in [Process -> Job]
    BY <1>14, EndJobType DEF CommitFails
  <2> QED
    BY <1>14, <2>1 DEF CommitFails, TypeOK, database
<1>15. ASSUME NEW p \in Process, Verify(p) PROVE TypeOK'
  <2>1. job' \in [Process -> Job]
    BY <1>15, GotoType, EndJobType, StepNames DEF Verify
  <2> QED
    BY <1>15, <2>1 DEF Verify, TypeOK, database
<1>16. ASSUME NEW p \in Process, Acknowledge(p) PROVE TypeOK'
  <2>1. job' \in [Process -> Job]
    BY <1>16, GotoType, EndJobType, StepNames DEF Acknowledge
  <2>2. record[job[p].cmd.op] # None /\ job[p].cmd.op \in Op
    BY <1>16, CommandAssumption, StepNames
    DEF Acknowledge, At, CallInv, CallOK, Store!Recorded, CommandType
  <2>3. record[job[p].cmd.op] \in [cmd : Command, acked : BOOLEAN]
    BY <2>2 DEF TypeOK
  <2> [record[job[p].cmd.op] EXCEPT !.acked = TRUE] \in [cmd : Command, acked : BOOLEAN]
    BY <2>3
  <2>4. record' \in [Op -> [cmd : Command, acked : BOOLEAN] \cup {None}]
    BY <1>16, <2>2 DEF Acknowledge, TypeOK
  <2> QED
    BY <1>16, <2>1, <2>4 DEF Acknowledge, TypeOK
<1>17. ASSUME NEW p \in Process, Reply(p) PROVE TypeOK'
  <2>1. job' \in [Process -> Job]
    BY <1>17, EndJobType DEF Reply
  <2> QED
    BY <1>17, <2>1, StepNames DEF Reply, At, CallInv, CallOK, TypeOK, database
<1>18. ASSUME NEW p \in Process, ApplyFails(p) PROVE TypeOK'
  <2>1. job' \in [Process -> Job]
    BY <1>18, EndJobType DEF ApplyFails
  <2> QED
    BY <1>18, <2>1 DEF ApplyFails, TypeOK, database
<1>19. ASSUME NEW p \in Process, Crash(p) PROVE TypeOK'
  <2>1. job' \in [Process -> Job]
    BY <1>19, EndJobType DEF Crash
  <2> QED
    BY <1>19, <2>1 DEF Crash, Closed, NoToken, TypeOK, database
<1>20. ASSUME Tick PROVE TypeOK'
    BY <1>20 DEF Tick, TypeOK, database
<1>21. ASSUME StepBack PROVE TypeOK'
    BY <1>21 DEF StepBack, TypeOK, database
<1>22. CASE UNCHANGED vars
    BY <1>22 DEF vars, TypeOK, database
<1> QED
    BY <1>1, <1>2, <1>3, <1>4, <1>5, <1>6, <1>7, <1>8, <1>9, <1>10, <1>11, <1>12, <1>13, <1>14, <1>15, <1>16, <1>17, <1>18, <1>19, <1>20, <1>21, <1>22
    DEF Next, Open, Submit, Apply

(* Every step keeps tokens unique: only OpenAcquire hands one out, a new one. *)
LEMMA TokenStep == TypeOK /\ TokenInv /\ [Next]_vars => TokenInv'
<1> SUFFICES ASSUME TypeOK /\ TokenInv, [Next]_vars PROVE TokenInv'
    OBVIOUS
<1>1. ASSUME NEW p \in Process, OpenAcquire(p) PROVE TokenInv'
    BY <1>1
    DEF OpenAcquire, Goto, ReadsClock, TokenInv, TypeOK, Job, IsClosed, Closed, NoToken
<1>2. ASSUME NEW p \in Process, OpenRefused(p) PROVE TokenInv'
    BY <1>2
    DEF OpenRefused, ReadsClock, TokenInv, TypeOK, Job, database, IsClosed, Closed,
        NoToken
<1>3. ASSUME NEW p \in Process, OpenLoad(p) PROVE TokenInv'
    BY <1>3
    DEF OpenLoad, TokenInv, TypeOK, Job, database, At, IsClosed, Closed, NoToken, Advance
<1>4. ASSUME NEW p \in Process, OpenRebuild(p) PROVE TokenInv'
    BY <1>4
    DEF OpenRebuild, EndJob, NoJob, NoState, TokenInv, TypeOK, Job, At, IsClosed, Closed,
        NoToken
<1>5. ASSUME NEW p \in Process, OpenFails(p) PROVE TokenInv'
    BY <1>5
    DEF OpenFails, Release, EndJob, NoJob, NoState, Closed, NoToken, TokenInv, TypeOK,
        Job, IsClosed, OpenSteps
<1>6. ASSUME NEW p \in Process, Close(p) PROVE TokenInv'
    BY <1>6 DEF Close, Release, Closed, NoToken, TokenInv, TypeOK, Job, IsIdle, IsClosed
<1>7. ASSUME NEW p \in Process, NEW c \in Command, SubmitNew(p, c) PROVE TokenInv'
    BY <1>7
    DEF SubmitNew, ReadsClock, NoState, TokenInv, TypeOK, Job, database, IsIdle,
        IsClosed, Closed, NoToken
<1>8. ASSUME NEW p \in Process, NEW c \in Command, SubmitAgain(p, c) PROVE TokenInv'
    BY <1>8
    DEF SubmitAgain, ReadsClock, NoState, TokenInv, TypeOK, Job, database, IsIdle,
        IsClosed, Closed, NoToken
<1>9. ASSUME NEW p \in Process, NEW c \in Command, SubmitRefused(p, c) PROVE TokenInv'
    BY <1>9
    DEF SubmitRefused, ReadsClock, TokenInv, TypeOK, Job, database, IsIdle, IsClosed,
        Closed, NoToken
<1>10. ASSUME NEW p \in Process, LoadLedger(p) PROVE TokenInv'
    BY <1>10
    DEF LoadLedger, TokenInv, TypeOK, Job, database, At, IsClosed, Closed, NoToken,
        Advance
<1>11. ASSUME NEW p \in Process, LoadRest(p) PROVE TokenInv'
    BY <1>11
    DEF LoadRest, LoadedState, EndJob, NoJob, NoState, TokenInv, TypeOK, Job, database,
        At, IsClosed, Closed, NoToken, Advance
<1>12. ASSUME NEW p \in Process, Begin(p) PROVE TokenInv'
    BY <1>12
    DEF Begin, EndJob, NoJob, NoState, TokenInv, TypeOK, Job, database, At, IsClosed,
        Closed, NoToken, Goto
<1>13. ASSUME NEW p \in Process, Commit(p) PROVE TokenInv'
    BY <1>13
    DEF Commit, NoState, TokenInv, TypeOK, Job, At, IsClosed, Closed, NoToken, Advance
<1>14. ASSUME NEW p \in Process, CommitFails(p) PROVE TokenInv'
    BY <1>14
    DEF CommitFails, EndJob, NoJob, NoState, TokenInv, TypeOK, Job, database, At,
        IsClosed, Closed, NoToken
<1>15. ASSUME NEW p \in Process, Verify(p) PROVE TokenInv'
    BY <1>15
    DEF Verify, EndJob, NoJob, NoState, TokenInv, TypeOK, Job, database, At, IsClosed,
        Closed, NoToken, Goto
<1>16. ASSUME NEW p \in Process, Acknowledge(p) PROVE TokenInv'
    BY <1>16
    DEF Acknowledge, EndJob, NoJob, NoState, TokenInv, TypeOK, Job, At, IsClosed, Closed,
        NoToken, Goto
<1>17. ASSUME NEW p \in Process, Reply(p) PROVE TokenInv'
    BY <1>17
    DEF Reply, EndJob, NoJob, NoState, TokenInv, TypeOK, Job, database, At, IsClosed,
        Closed, NoToken
<1>18. ASSUME NEW p \in Process, ApplyFails(p) PROVE TokenInv'
    BY <1>18
    DEF ApplyFails, EndJob, NoJob, NoState, TokenInv, TypeOK, Job, database, IsClosed,
        Closed, NoToken, ApplySteps
<1>19. ASSUME NEW p \in Process, Crash(p) PROVE TokenInv'
    BY <1>19
    DEF Crash, Closed, NoToken, EndJob, NoJob, NoState, TokenInv, TypeOK, Job, database,
        IsClosed
<1>20. ASSUME Tick PROVE TokenInv'
    BY <1>20 DEF Tick, TokenInv, TypeOK, Job, database, IsClosed, Closed, NoToken
<1>21. ASSUME StepBack PROVE TokenInv'
    BY <1>21 DEF StepBack, TokenInv, TypeOK, Job, database, IsClosed, Closed, NoToken
<1>22. CASE UNCHANGED vars
    BY <1>22
    DEF vars, TokenInv, TypeOK, Job, database, At, IsIdle, IsClosed, Closed, NoToken,
        Goto, Advance, EndJob, NoJob, ApplySteps, OpenSteps
<1> QED
    BY <1>1, <1>2, <1>3, <1>4, <1>5, <1>6, <1>7, <1>8, <1>9, <1>10, <1>11, <1>12, <1>13, <1>14, <1>15, <1>16, <1>17, <1>18, <1>19, <1>20, <1>21, <1>22
    DEF Next, Open, Submit, Apply

(* Every step keeps a call's command recorded from its commit to its answer:
   records are added or acknowledged, never replaced. *)
LEMMA CallStep == TypeOK /\ CallInv /\ [Next]_vars => CallInv'
<1> SUFFICES ASSUME TypeOK /\ CallInv, [Next]_vars PROVE CallInv'
    OBVIOUS
<1>1. ASSUME NEW p \in Process, OpenAcquire(p) PROVE CallInv'
    BY <1>1, CommandAssumption
    DEF OpenAcquire, Goto, ReadsClock, CallInv, CallOK, Store!Recorded, TypeOK, Job, At,
        ApplySteps
<1>2. ASSUME NEW p \in Process, OpenRefused(p) PROVE CallInv'
    BY <1>2, CommandAssumption
    DEF OpenRefused, ReadsClock, CallInv, CallOK, Store!Recorded, TypeOK, Job, database,
        At, ApplySteps
<1>3. ASSUME NEW p \in Process, OpenLoad(p) PROVE CallInv'
    BY <1>3, CommandAssumption
    DEF OpenLoad, CallInv, CallOK, Store!Recorded, TypeOK, Job, database, At, Advance,
        ApplySteps
<1>4. ASSUME NEW p \in Process, OpenRebuild(p) PROVE CallInv'
    BY <1>4, CommandAssumption
    DEF OpenRebuild, EndJob, NoJob, NoState, CallInv, CallOK, Store!Recorded, TypeOK,
        Job, At, ApplySteps
<1>5. ASSUME NEW p \in Process, OpenFails(p) PROVE CallInv'
    BY <1>5, CommandAssumption
    DEF OpenFails, Release, EndJob, NoJob, NoState, Closed, NoToken, CallInv, CallOK,
        Store!Recorded, TypeOK, Job, At, ApplySteps, OpenSteps
<1>6. ASSUME NEW p \in Process, Close(p) PROVE CallInv'
    BY <1>6, CommandAssumption
    DEF Close, Release, Closed, NoToken, CallInv, CallOK, Store!Recorded, TypeOK, Job,
        At, IsIdle, ApplySteps
<1>7. ASSUME NEW p \in Process, NEW c \in Command, SubmitNew(p, c) PROVE CallInv'
    BY <1>7, CommandAssumption
    DEF SubmitNew, ReadsClock, NoState, CallInv, CallOK, Store!Recorded, TypeOK, Job,
        database, At, IsIdle, ApplySteps
<1>8. ASSUME NEW p \in Process, NEW c \in Command, SubmitAgain(p, c) PROVE CallInv'
  <2>1. ASSUME NEW q \in Process, q # p PROVE CallOK(q)'
    BY <1>8, <2>1
    DEF SubmitAgain, ReadsClock, IsIdle, CallInv, CallOK, TypeOK, database, At,
        Store!Recorded
  <2>2. CallOK(p)'
    <3>1. job'[p] = [step |-> IF record[c.op].acked THEN "reply" ELSE "verify",
                     cmd |-> c, now |-> clock, pre |-> NoState] /\ record' = record
        BY <1>8 DEF SubmitAgain, TypeOK, database
    <3>2. c \in CommandType /\ record[c.op] # None /\ record[c.op].cmd = c
        BY <1>8, CommandAssumption DEF SubmitAgain
    <3>3. record[c.op] = [cmd |-> c, acked |-> record[c.op].acked] /\ record[c.op].acked \in BOOLEAN
        BY <3>2 DEF TypeOK, CommandType
    <3>4. CASE record[c.op].acked
        BY <3>1, <3>2, <3>3, <3>4 DEF CallOK, At
    <3>5. CASE ~record[c.op].acked
        BY <3>1, <3>2, <3>3, <3>5 DEF CallOK, At, Store!Recorded
    <3> QED
        BY <3>4, <3>5
  <2> QED
    BY <2>1, <2>2 DEF CallInv
<1>9. ASSUME NEW p \in Process, NEW c \in Command, SubmitRefused(p, c) PROVE CallInv'
    BY <1>9, CommandAssumption
    DEF SubmitRefused, ReadsClock, CallInv, CallOK, Store!Recorded, TypeOK, Job,
        database, At, IsIdle, ApplySteps
<1>10. ASSUME NEW p \in Process, LoadLedger(p) PROVE CallInv'
    BY <1>10, CommandAssumption
    DEF LoadLedger, CallInv, CallOK, Store!Recorded, TypeOK, Job, database, At, Advance,
        ApplySteps
<1>11. ASSUME NEW p \in Process, LoadRest(p) PROVE CallInv'
  <2>1. ASSUME NEW q \in Process, q # p PROVE CallOK(q)'
    BY <1>11, <2>1
    DEF LoadRest, Advance, EndJob, CallInv, CallOK, TypeOK, database, At, Store!Recorded
  <2>2. CallOK(p)'
    <3>1. job[p] \in Job /\ job[p].cmd \in Command
        BY <1>11, StepNames DEF LoadRest, CallInv, CallOK, At, TypeOK
    <3>2. CASE EndJob(p)
        BY <3>2, StepNames DEF EndJob, NoJob, CallOK, At, ApplySteps, TypeOK
    <3>3. CASE Advance(p, "begin", LoadedState(p))
        <4>1. job'[p].step = "begin" /\ job'[p].cmd = job[p].cmd
            BY <3>1, <3>3 DEF Advance, TypeOK, Job
        <4> QED
            BY <3>1, <4>1 DEF CallOK, At
    <3> QED
        BY <1>11, <3>2, <3>3 DEF LoadRest
  <2> QED
    BY <2>1, <2>2 DEF CallInv
<1>12. ASSUME NEW p \in Process, Begin(p) PROVE CallInv'
  <2>1. ASSUME NEW q \in Process, q # p PROVE CallOK(q)'
    BY <1>12, <2>1
    DEF Begin, Goto, EndJob, CallInv, CallOK, TypeOK, database, At, Store!Recorded
  <2>2. CallOK(p)'
    <3>1. job[p] \in Job /\ job[p].cmd \in Command
        BY <1>12, StepNames DEF Begin, CallInv, CallOK, At, TypeOK
    <3>2. CASE job'[p].step = "none"
        BY <3>2, StepNames DEF CallOK, At, ApplySteps
    <3>3. CASE job'[p] = [job[p] EXCEPT !.step = "write"] /\ Applicable(job[p].pre, job[p].cmd)
        BY <3>1, <3>3 DEF CallOK, At, Job
    <3> QED
        BY <1>12, <3>2, <3>3 DEF Begin, Goto, EndJob, NoJob, TypeOK
  <2> QED
    BY <2>1, <2>2 DEF CallInv
<1>13. ASSUME NEW p \in Process, Commit(p) PROVE CallInv'
  <2> DEFINE cmd == job[p].cmd
  <2>0. /\ cmd \in Command /\ cmd.op \in Op /\ record[cmd.op] = None
        /\ record' = [record EXCEPT ![cmd.op] = [cmd |-> cmd, acked |-> FALSE]]
        /\ job' = [job EXCEPT ![p] = [@ EXCEPT !.step = "verify", !.pre = NoState]]
    BY <1>13, CommandAssumption, StepNames
    DEF Commit, Writable, Advance, CallInv, CallOK, At, CommandType
  <2>1. ASSUME NEW q \in Process, q # p PROVE CallOK(q)'
    <3>1. job'[q] = job[q] /\ CallOK(q)
        BY <2>0, <2>1 DEF TypeOK, CallInv
    <3>2. ASSUME NEW o \in Op, record[o] # None PROVE record'[o] = record[o]
        BY <2>0, <3>2 DEF TypeOK
    <3>3. job[q].step \in ApplySteps => job[q].cmd.op \in Op
        BY <3>1, CommandAssumption DEF CallOK, CommandType
    <3>4. CASE job[q].step \in {"verify", "ack"}
        BY <3>1, <3>2, <3>3, <3>4, StepNames DEF CallOK, Store!Recorded, At
    <3>5. CASE At(q, "reply")
        <4>1. record[job[q].cmd.op] # None
            BY <3>1, <3>3, <3>5, StepNames, NoneIsNoRecord DEF CallOK, At
        <4> QED
            BY <4>1, <3>1, <3>2, <3>3, <3>5, StepNames DEF CallOK, At
    <3> QED
        BY <3>1, <3>4, <3>5 DEF CallOK, At
  <2>2. CallOK(p)'
    <3>1. job'[p].step = "verify" /\ job'[p].cmd = cmd
        BY <2>0 DEF TypeOK, Job
    <3>2. record'[cmd.op] = [cmd |-> cmd, acked |-> FALSE]
        BY <2>0 DEF TypeOK
    <3>3. record'[cmd.op] # None /\ record'[cmd.op].cmd = cmd
        BY <2>0, <3>2, NoneIsNoRecord
    <3> QED
        BY <2>0, <3>1, <3>3 DEF CallOK, At, Store!Recorded
  <2> QED
    BY <2>1, <2>2 DEF CallInv
<1>14. ASSUME NEW p \in Process, CommitFails(p) PROVE CallInv'
    BY <1>14, CommandAssumption
    DEF CommitFails, EndJob, NoJob, NoState, CallInv, CallOK, Store!Recorded, TypeOK,
        Job, database, At, ApplySteps
<1>15. ASSUME NEW p \in Process, Verify(p) PROVE CallInv'
  <2>1. ASSUME NEW q \in Process, q # p PROVE CallOK(q)'
    BY <1>15, <2>1
    DEF Verify, Goto, EndJob, CallInv, CallOK, TypeOK, database, At, Store!Recorded
  <2>2. CallOK(p)'
    <3>1. job[p] \in Job /\ CallOK(p) /\ record' = record
        BY <1>15 DEF Verify, CallInv, TypeOK, database
    <3>2. CASE job'[p].step = "none"
        BY <3>2, StepNames DEF CallOK, At, ApplySteps
    <3>3. CASE job'[p] = [job[p] EXCEPT !.step = "ack"]
        BY <1>15, <3>1, <3>3, StepNames DEF Verify, CallOK, At, Job, Store!Recorded
    <3> QED
        BY <1>15, <3>2, <3>3 DEF Verify, Goto, EndJob, NoJob, TypeOK
  <2> QED
    BY <2>1, <2>2 DEF CallInv
<1>16. ASSUME NEW p \in Process, Acknowledge(p) PROVE CallInv'
  <2> DEFINE cmd == job[p].cmd
  <2>0. cmd \in Command /\ cmd.op \in Op /\ Store!Recorded(cmd)
    BY <1>16, CommandAssumption, StepNames DEF Acknowledge, CallInv, CallOK, At, CommandType
  <2>1. CASE record' = record /\ EndJob(p)
    <3>1. ASSUME NEW q \in Process PROVE CallOK(q)'
        <4>1. CallOK(q) /\ (job'[q] = job[q] \/ job'[q].step = "none")
            BY <2>1 DEF CallInv, EndJob, NoJob, TypeOK
        <4> QED
            BY <2>1, <4>1, StepNames DEF CallOK, At, ApplySteps, Store!Recorded
    <3> QED
        BY <3>1 DEF CallInv
  <2>2. CASE Goto(p, "reply") /\ record' = [record EXCEPT ![cmd.op].acked = TRUE]
    <3>1. record[cmd.op] \in [cmd : Command, acked : BOOLEAN] /\ record[cmd.op].cmd = cmd
        BY <2>0 DEF Store!Recorded, TypeOK
    <3>2. record'[cmd.op] = [cmd |-> cmd, acked |-> TRUE]
        <4>1. [record[cmd.op] EXCEPT !.acked = TRUE] = [cmd |-> cmd, acked |-> TRUE]
            BY <3>1, AckedRecord
        <4> QED
            BY <2>0, <2>2, <4>1 DEF TypeOK
    <3>3. ASSUME NEW o \in Op, o # cmd.op PROVE record'[o] = record[o]
        BY <2>2, <3>3 DEF TypeOK
    <3>4. ASSUME NEW q \in Process, q # p PROVE CallOK(q)'
        <4>1. job'[q] = job[q] /\ CallOK(q)
            BY <2>2, <3>4 DEF Goto, CallInv, TypeOK
        <4>2. job[q].step \in ApplySteps => job[q].cmd.op \in Op
            BY <4>1, CommandAssumption DEF CallOK, CommandType
        <4>3. CASE job[q].step \in {"verify", "ack"}
            <5>1. CASE job[q].cmd.op = cmd.op
                <6>1. job[q].cmd = cmd
                    BY <3>1, <4>1, <4>3, <5>1 DEF CallOK, Store!Recorded
                <6> QED
                    BY <2>0, <3>2, <4>1, <4>3, <6>1, NoneIsNoRecord
                    DEF CallOK, Store!Recorded, At
            <5>2. CASE job[q].cmd.op # cmd.op
                BY <3>3, <4>1, <4>2, <4>3, <5>2, StepNames DEF CallOK, Store!Recorded, At
            <5> QED
                BY <5>1, <5>2
        <4>4. CASE At(q, "reply")
            <5>1. CASE job[q].cmd.op = cmd.op
                <6>1. job[q].cmd = cmd
                    BY <3>1, <4>1, <4>4, <5>1 DEF CallOK
                <6> QED
                    BY <2>0, <3>2, <4>1, <4>4, <6>1 DEF CallOK, At
            <5>2. CASE job[q].cmd.op # cmd.op
                BY <3>3, <4>1, <4>2, <4>4, <5>2, StepNames DEF CallOK, At
            <5> QED
                BY <5>1, <5>2
        <4> QED
            BY <4>1, <4>3, <4>4 DEF CallOK, At
    <3>5. CallOK(p)'
        <4>1. job'[p].step = "reply" /\ job'[p].cmd = cmd
            BY <2>2 DEF Goto, TypeOK, Job
        <4> QED
            BY <2>0, <3>2, <4>1 DEF CallOK, At
    <3> QED
        BY <3>4, <3>5 DEF CallInv
  <2> QED
    BY <1>16, <2>1, <2>2 DEF Acknowledge
<1>17. ASSUME NEW p \in Process, Reply(p) PROVE CallInv'
    BY <1>17, CommandAssumption
    DEF Reply, EndJob, NoJob, NoState, CallInv, CallOK, Store!Recorded, TypeOK, Job,
        database, At, ApplySteps
<1>18. ASSUME NEW p \in Process, ApplyFails(p) PROVE CallInv'
    BY <1>18, CommandAssumption
    DEF ApplyFails, EndJob, NoJob, NoState, CallInv, CallOK, Store!Recorded, TypeOK, Job,
        database, At, ApplySteps
<1>19. ASSUME NEW p \in Process, Crash(p) PROVE CallInv'
    BY <1>19, CommandAssumption
    DEF Crash, Closed, NoToken, EndJob, NoJob, NoState, CallInv, CallOK, Store!Recorded,
        TypeOK, Job, database, At, ApplySteps
<1>20. ASSUME Tick PROVE CallInv'
    BY <1>20, CommandAssumption
    DEF Tick, CallInv, CallOK, Store!Recorded, TypeOK, Job, database, At, ApplySteps
<1>21. ASSUME StepBack PROVE CallInv'
    BY <1>21, CommandAssumption
    DEF StepBack, CallInv, CallOK, Store!Recorded, TypeOK, Job, database, At, ApplySteps
<1>22. CASE UNCHANGED vars
    BY <1>22
    DEF vars, CallInv, CallOK, Store!Recorded, TypeOK, Job, database, At, IsIdle, Goto,
        Advance, EndJob, NoJob, ApplySteps, OpenSteps
<1> QED
    BY <1>1, <1>2, <1>3, <1>4, <1>5, <1>6, <1>7, <1>8, <1>9, <1>10, <1>11, <1>12, <1>13, <1>14, <1>15, <1>16, <1>17, <1>18, <1>19, <1>20, <1>21, <1>22
    DEF Next, Open, Submit, Apply

(* Two halves that agree with the stored content make up all of it. *)
LEMMA WholeLoad ==
    ASSUME TypeOK, NEW p \in Process,
           job[p].pre.ledger = content.ledger, job[p].pre.analyses = content.analyses
    PROVE  LoadedState(p) = content
BY DEF TypeOK, Job, Content, LoadedState

(* Every step keeps the loads of the owner current: whoever commits owns the
   session, hence nobody else does. *)
LEMMA LoadStep == TypeOK /\ TokenInv /\ LoadInv /\ [Next]_vars => LoadInv'
<1> SUFFICES ASSUME TypeOK /\ TokenInv /\ LoadInv, [Next]_vars PROVE LoadInv'
    OBVIOUS
<1>1. ASSUME NEW p \in Process, OpenAcquire(p) PROVE LoadInv'
    BY <1>1
    DEF OpenAcquire, Goto, ReadsClock, LoadInv, LoadOK, TokenInv, OwnsSession, TypeOK,
        Job, At, IsClosed, Closed, NoToken, Content
<1>2. ASSUME NEW p \in Process, OpenRefused(p) PROVE LoadInv'
    BY <1>2
    DEF OpenRefused, ReadsClock, LoadInv, LoadOK, TokenInv, OwnsSession, TypeOK, Job,
        database, At, IsClosed, Closed, NoToken, Content
<1>3. ASSUME NEW p \in Process, OpenLoad(p) PROVE LoadInv'
    BY <1>3
    DEF OpenLoad, LoadInv, LoadOK, TokenInv, OwnsSession, TypeOK, Job, database, At,
        IsClosed, Closed, NoToken, Content, Advance
<1>4. ASSUME NEW p \in Process, OpenRebuild(p) PROVE LoadInv'
    BY <1>4
    DEF OpenRebuild, EndJob, NoJob, NoState, LoadInv, LoadOK, TokenInv, OwnsSession,
        TypeOK, Job, At, IsClosed, Closed, NoToken, Content
<1>5. ASSUME NEW p \in Process, OpenFails(p) PROVE LoadInv'
    BY <1>5
    DEF OpenFails, Release, EndJob, NoJob, NoState, Closed, NoToken, LoadInv, LoadOK,
        TokenInv, OwnsSession, TypeOK, Job, At, IsClosed, Content, OpenSteps
<1>6. ASSUME NEW p \in Process, Close(p) PROVE LoadInv'
    BY <1>6
    DEF Close, Release, Closed, NoToken, LoadInv, LoadOK, TokenInv, OwnsSession, TypeOK,
        Job, At, IsIdle, IsClosed, Content
<1>7. ASSUME NEW p \in Process, NEW c \in Command, SubmitNew(p, c) PROVE LoadInv'
    BY <1>7
    DEF SubmitNew, ReadsClock, NoState, LoadInv, LoadOK, TokenInv, OwnsSession, TypeOK,
        Job, database, At, IsIdle, IsClosed, Closed, NoToken, Content
<1>8. ASSUME NEW p \in Process, NEW c \in Command, SubmitAgain(p, c) PROVE LoadInv'
    BY <1>8
    DEF SubmitAgain, ReadsClock, NoState, LoadInv, LoadOK, TokenInv, OwnsSession, TypeOK,
        Job, database, At, IsIdle, IsClosed, Closed, NoToken, Content
<1>9. ASSUME NEW p \in Process, NEW c \in Command, SubmitRefused(p, c) PROVE LoadInv'
    BY <1>9
    DEF SubmitRefused, ReadsClock, LoadInv, LoadOK, TokenInv, OwnsSession, TypeOK, Job,
        database, At, IsIdle, IsClosed, Closed, NoToken, Content
<1>10. ASSUME NEW p \in Process, LoadLedger(p) PROVE LoadInv'
  <2>1. ASSUME NEW q \in Process, q # p PROVE LoadOK(q)'
    BY <1>10, <2>1
    DEF LoadLedger, Advance, LoadInv, LoadOK, TypeOK, database, At, OwnsSession
  <2>2. LoadOK(p)'
    <3>1. job'[p].step = "loadRest" /\ job'[p].pre = FirstHalf /\ content' = content
        BY <1>10 DEF LoadLedger, Advance, TypeOK, Job, database
    <3>2. FirstHalf.ledger = content.ledger /\ FirstHalf.analyses = content.analyses
        BY DEF FirstHalf, NoState
    <3> QED
        BY <3>1, <3>2 DEF LoadOK, At
  <2> QED
    BY <2>1, <2>2 DEF LoadInv
<1>11. ASSUME NEW p \in Process, LoadRest(p) PROVE LoadInv'
  <2>1. ASSUME NEW q \in Process, q # p PROVE LoadOK(q)'
    BY <1>11, <2>1
    DEF LoadRest, Advance, EndJob, LoadInv, LoadOK, TypeOK, database, At, OwnsSession
  <2>2. LoadOK(p)'
    <3>0. UNCHANGED <<content, owner, handle>> /\ job[p] \in Job /\ At(p, "loadRest")
        BY <1>11 DEF LoadRest, database, TypeOK
    <3>1. CASE EndJob(p)
        BY <3>1 DEF EndJob, NoJob, TypeOK, LoadOK, At
    <3>2. CASE Advance(p, "begin", LoadedState(p))
        <4>1. job'[p].step = "begin" /\ job'[p].pre = LoadedState(p)
            BY <3>2, <3>0 DEF Advance, TypeOK, Job
        <4>2. OwnsSession(p) => LoadedState(p) = content
            BY <3>0, WholeLoad DEF LoadInv, LoadOK
        <4> QED
            BY <3>0, <4>1, <4>2 DEF LoadOK, At, OwnsSession
    <3> QED
        BY <1>11, <3>1, <3>2 DEF LoadRest
  <2> QED
    BY <2>1, <2>2 DEF LoadInv
<1>12. ASSUME NEW p \in Process, Begin(p) PROVE LoadInv'
  <2>1. ASSUME NEW q \in Process, q # p PROVE LoadOK(q)'
    BY <1>12, <2>1
    DEF Begin, Goto, EndJob, LoadInv, LoadOK, TypeOK, database, At, OwnsSession
  <2>2. LoadOK(p)'
    <3>0. UNCHANGED <<content, owner, handle>> /\ job[p] \in Job /\ At(p, "begin")
        BY <1>12 DEF Begin, database, TypeOK
    <3>1. CASE EndJob(p)
        BY <3>1 DEF EndJob, NoJob, TypeOK, LoadOK, At
    <3>2. CASE Goto(p, "write") /\ OwnsSession(p)
        <4>1. job'[p].step = "write" /\ job'[p].pre = job[p].pre
            BY <3>2, <3>0 DEF Goto, TypeOK, Job
        <4>2. job[p].pre = content
            BY <3>0, <3>2 DEF LoadInv, LoadOK
        <4> QED
            BY <3>0, <3>2, <4>1, <4>2 DEF LoadOK, At, OwnsSession
    <3> QED
        BY <1>12, <3>1, <3>2 DEF Begin, Revalidated
  <2> QED
    BY <2>1, <2>2 DEF LoadInv
<1>13. ASSUME NEW p \in Process, Commit(p) PROVE LoadInv'
  <2>0. OwnsSession(p) /\ handle[p].token # NoToken
    BY <1>13 DEF Commit, Writable, LoadInv, LoadOK, TokenInv, At
  <2>1. ASSUME NEW q \in Process, q # p PROVE LoadOK(q)'
    <3>1. fresh' = {} /\ job'[q] = job[q] /\ owner'.token = owner.token /\ handle' = handle
        BY <1>13, <2>1 DEF Commit, Advance, TypeOK
    <3>2. job[q].step # "none" => owner.token # handle[q].token
        BY <2>0, <2>1 DEF TokenInv, OwnsSession
    <3> QED
        BY <3>1, <3>2 DEF LoadOK, At, OwnsSession
  <2>2. LoadOK(p)'
    <3>1. job'[p].step = "verify"
        BY <1>13 DEF Commit, Advance, TypeOK, Job
    <3> QED
        BY <3>1 DEF LoadOK, At
  <2> QED
    BY <2>1, <2>2 DEF LoadInv
<1>14. ASSUME NEW p \in Process, CommitFails(p) PROVE LoadInv'
    BY <1>14
    DEF CommitFails, EndJob, NoJob, NoState, LoadInv, LoadOK, TokenInv, OwnsSession,
        TypeOK, Job, database, At, IsClosed, Closed, NoToken, Content
<1>15. ASSUME NEW p \in Process, Verify(p) PROVE LoadInv'
    BY <1>15
    DEF Verify, EndJob, NoJob, NoState, LoadInv, LoadOK, TokenInv, OwnsSession, TypeOK,
        Job, database, At, IsClosed, Closed, NoToken, Content, Goto
<1>16. ASSUME NEW p \in Process, Acknowledge(p) PROVE LoadInv'
    BY <1>16
    DEF Acknowledge, EndJob, NoJob, NoState, LoadInv, LoadOK, TokenInv, OwnsSession,
        TypeOK, Job, At, IsClosed, Closed, NoToken, Content, Goto
<1>17. ASSUME NEW p \in Process, Reply(p) PROVE LoadInv'
    BY <1>17
    DEF Reply, EndJob, NoJob, NoState, LoadInv, LoadOK, TokenInv, OwnsSession, TypeOK,
        Job, database, At, IsClosed, Closed, NoToken, Content
<1>18. ASSUME NEW p \in Process, ApplyFails(p) PROVE LoadInv'
    BY <1>18
    DEF ApplyFails, EndJob, NoJob, NoState, LoadInv, LoadOK, TokenInv, OwnsSession,
        TypeOK, Job, database, At, IsClosed, Closed, NoToken, Content, ApplySteps
<1>19. ASSUME NEW p \in Process, Crash(p) PROVE LoadInv'
    BY <1>19
    DEF Crash, Closed, NoToken, EndJob, NoJob, NoState, LoadInv, LoadOK, TokenInv,
        OwnsSession, TypeOK, Job, database, At, IsClosed, Content
<1>20. ASSUME Tick PROVE LoadInv'
    BY <1>20
    DEF Tick, LoadInv, LoadOK, TokenInv, OwnsSession, TypeOK, Job, database, At,
        IsClosed, Closed, NoToken, Content
<1>21. ASSUME StepBack PROVE LoadInv'
    BY <1>21
    DEF StepBack, LoadInv, LoadOK, TokenInv, OwnsSession, TypeOK, Job, database, At,
        IsClosed, Closed, NoToken, Content
<1>22. CASE UNCHANGED vars
    BY <1>22
    DEF vars, LoadInv, LoadOK, TokenInv, OwnsSession, TypeOK, Job, database, At, IsIdle,
        IsClosed, Closed, NoToken, NoState, Content, Goto, Advance, EndJob, NoJob,
        ApplySteps, OpenSteps
<1> QED
    BY <1>1, <1>2, <1>3, <1>4, <1>5, <1>6, <1>7, <1>8, <1>9, <1>10, <1>11, <1>12, <1>13, <1>14, <1>15, <1>16, <1>17, <1>18, <1>19, <1>20, <1>21, <1>22
    DEF Next, Open, Submit, Apply

(* A newly created session satisfies the invariant. *)
LEMMA InitInv == Init => Inv
<1> SUFFICES ASSUME Init PROVE Inv
    OBVIOUS
<1>1. TypeOK
    BY CreatedAssumption, NoStateType DEF Init, TypeOK, Content, Closed, NoToken
<1>2. TokenInv
    BY DEF Init, TokenInv, NoJob, IsClosed, Closed, NoToken
<1>3. LoadInv /\ CallInv
    BY StepNames DEF Init, LoadInv, LoadOK, CallInv, CallOK, NoJob, At, ApplySteps
<1> QED
    BY <1>1, <1>2, <1>3 DEF Inv

(* The inductive invariant: tokens are unique, the owner's loads are current,  *)
(* and a call's command stays recorded once it was committed.                *)
THEOREM Invariance == Spec => []Inv
<1>1. Inv /\ [Next]_vars => Inv'
    BY TypeStep, TokenStep, LoadStep, CallStep DEF Inv
<1> QED
    BY InitInv, <1>1, PTL DEF Spec

(* Every variable keeps its type. *)
THEOREM TypeCorrect == Spec => []TypeOK
<1>1. Inv => TypeOK
    BY DEF Inv
<1> QED
    BY Invariance, <1>1, PTL

(* No two handles share a token, and a state that its reader is about to apply *)
(* a command to is current as long as the reader owns the session.            *)
THEOREM OwnersReadCurrent == Spec => []OwnerReadsCurrent
<1>1. Inv => OwnerReadsCurrent
    BY DEF Inv, TokenInv, LoadInv, LoadOK, OwnerReadsCurrent, IsClosed
<1> QED
    BY Invariance, <1>1, PTL

(* Content changes only in a commit of the process that owns the session.     *)
THEOREM WritesAreFenced == Spec => FencedWrites
<1>1. ASSUME Inv, Next, content' # content
      PROVE  \E p \in Process : At(p, "write") /\ OwnsSession(p)
  <2>1. ASSUME NEW p \in Process, Commit(p) PROVE At(p, "write") /\ OwnsSession(p)
    BY <1>1, <2>1 DEF Commit, Writable, Inv, LoadInv, LoadOK, At
  <2>2. \E p \in Process : Commit(p)
    BY <1>1 DEF Next, Open, Submit, Apply, OpenAcquire, OpenRefused, OpenLoad, OpenRebuild,
        OpenFails, Close, SubmitNew, SubmitAgain, SubmitRefused, LoadLedger, LoadRest, Begin,
        CommitFails, Verify, Acknowledge, Reply, ApplyFails, Crash, Tick, StepBack, database
  <2> QED
    BY <2>1, <2>2
<1>2. Inv /\ [Next]_vars =>
        [content' # content => \E p \in Process : At(p, "write") /\ OwnsSession(p)]_vars
    BY <1>1
<1> QED
    BY Invariance, <1>2, PTL DEF Spec, FencedWrites

(* The store and the candidate share the semantics of commands. *)
LEMMA SharedSemantics ==
    ASSUME NEW s, NEW c
    PROVE  /\ Store!Applicable(s, c) <=> Applicable(s, c)
           /\ Store!Storable(s, c) <=> Storable(s, c)
           /\ Store!Effect(s, c) = Effect(s, c)
<1>1. Store!Applicable(s, c) <=> Applicable(s, c)
    BY DEF Applicable, Satisfied, HeadMatches, IsHead, ActiveAnalysis,
        Store!Applicable, Store!Satisfied, Store!HeadMatches, Store!IsHead, Store!ActiveAnalysis
<1>2. Store!Storable(s, c) <=> Storable(s, c)
    BY DEF Storable, Store!Storable
<1>3. Store!Effect(s, c) = Effect(s, c)
    BY DEF Effect, Store!Effect
<1> QED
    BY <1>1, <1>2, <1>3

(* A commit performs its command on the content of the store. *)
LEMMA CommitPerforms ==
    ASSUME Inv, NEW p \in Process, Commit(p)
    PROVE  Store!Perform(job[p].cmd) /\ job[p].cmd \in Command
<1>1. job[p].pre = content
    BY DEF Commit, Writable, Inv, LoadInv, LoadOK, At
<1>2. job[p].cmd \in Command /\ Applicable(job[p].pre, job[p].cmd)
    BY StepNames DEF Commit, Inv, CallInv, CallOK, At
<1> QED
    BY <1>1, <1>2, SharedSemantics DEF Commit, Writable, Store!Perform

(* An acknowledgement acknowledges, or is refused and changes nothing. *)
LEMMA AcknowledgeAcknowledges ==
    ASSUME Inv, NEW p \in Process, Acknowledge(p)
    PROVE  /\ job[p].cmd \in Command
           /\ Store!Acknowledge(job[p].cmd) \/ UNCHANGED Store!storeVars
<1>1. job[p].cmd \in Command /\ Store!Recorded(job[p].cmd)
    BY StepNames DEF Acknowledge, Inv, CallInv, CallOK, At
<1> QED
    BY <1>1 DEF Acknowledge, Store!Acknowledge, Store!storeVars

(* Ok is an answer of the store. *)
LEMMA ReplyAnswers ==
    ASSUME Inv, NEW p \in Process, Reply(p)
    PROVE  Store!Answer(job[p].cmd) /\ job[p].cmd \in Command
<1>1. job[p].cmd \in Command /\ record[job[p].cmd.op] = [cmd |-> job[p].cmd, acked |-> TRUE]
    BY StepNames DEF Reply, Inv, CallInv, CallOK, At
<1>2. Store!Recorded(job[p].cmd) /\ record[job[p].cmd.op].acked
    BY <1>1, NoneIsNoRecord DEF Store!Recorded
<1> QED
    BY <1>1, <1>2 DEF Reply, Store!Answer, database

(* The candidate implements the abstract store: commands take effect one at a  *)
(* time on the content stored at that moment, whatever the interleaving.       *)
THEOREM Refinement == Spec => ImplementsStore
<1>1. Init => Store!Init
    BY DEF Init, Store!Init
<1>2. Inv /\ [Next]_vars => [Store!Next]_Store!storeVars
  <2> SUFFICES ASSUME Inv, [Next]_vars PROVE [Store!Next]_Store!storeVars
    OBVIOUS
  <2>1. ASSUME NEW p \in Process, Commit(p) PROVE Store!Next
    BY <2>1, CommitPerforms DEF Store!Next
  <2>2. ASSUME NEW p \in Process, Acknowledge(p) PROVE [Store!Next]_Store!storeVars
    BY <2>2, AcknowledgeAcknowledges DEF Store!Next
  <2>3. ASSUME NEW p \in Process, Reply(p) PROVE Store!Next
    BY <2>3, ReplyAnswers DEF Store!Next
  <2>4. \/ \E p \in Process : Commit(p) \/ Acknowledge(p) \/ Reply(p)
        \/ UNCHANGED Store!storeVars
    BY DEF Next, Open, Submit, Apply, OpenAcquire, OpenRefused, OpenLoad, OpenRebuild,
        OpenFails, Close, SubmitNew, SubmitAgain, SubmitRefused, LoadLedger, LoadRest, Begin,
        CommitFails, Verify, ApplyFails, Crash, Tick, StepBack, database, vars,
        Store!storeVars
  <2> QED
    BY <2>1, <2>2, <2>3, <2>4
<1> QED
    BY Invariance, <1>1, <1>2, PTL DEF Spec, ImplementsStore, Store!Spec

----------------------------------------------------------------------------
(* What follows from the promise of SessionStore alone *)

(* The store's content is the candidate's. *)
LEMMA SameContent == Store!Content = Content
BY DEF Store!Content, Content, Store!Selection, Selection

(* What a step of the store does to its record. *)
LEMMA PerformRecords ==
    ASSUME Store!StoreTypeOK, NEW c \in Command, Store!Perform(c)
    PROVE  /\ record'[c.op] = [cmd |-> c, acked |-> FALSE]
           /\ \A o \in Op : o # c.op => record'[o] = record[o]
           /\ \A d \in Command : Store!Recorded(d)' <=> Store!Recorded(d) \/ d = c
<1>1. \A d \in Command : d.op \in Op
    BY CommandAssumption DEF CommandType
<1>2. record'[c.op] = [cmd |-> c, acked |-> FALSE]
    BY <1>1 DEF Store!Perform, Store!StoreTypeOK
<1>3. \A o \in Op : o # c.op => record'[o] = record[o]
    BY DEF Store!Perform, Store!StoreTypeOK
<1>4. record[c.op] = None
    BY DEF Store!Perform
<1>5. record'[c.op] # None /\ record'[c.op].cmd = c
    BY <1>2, NoneIsNoRecord
<1>6. ASSUME NEW d \in Command PROVE Store!Recorded(d)' <=> Store!Recorded(d) \/ d = c
  <2>1. CASE d.op = c.op
    BY <1>4, <1>5, <2>1 DEF Store!Recorded
  <2>2. CASE d.op # c.op
    BY <1>1, <1>3, <2>2 DEF Store!Recorded
  <2> QED
    BY <2>1, <2>2
<1> QED
    BY <1>2, <1>3, <1>6 DEF Store!Recorded

(* Acknowledging touches one record and no record's command. *)
LEMMA AcknowledgeRecords ==
    ASSUME Store!StoreTypeOK, NEW c \in Command, Store!Acknowledge(c)
    PROVE  /\ record'[c.op] = [cmd |-> c, acked |-> TRUE]
           /\ \A o \in Op : o # c.op => record'[o] = record[o]
           /\ \A d \in Command : Store!Recorded(d)' <=> Store!Recorded(d)
<1>1. \A d \in Command : d.op \in Op
    BY CommandAssumption DEF CommandType
<1>2. record[c.op] \in [cmd : Command, acked : BOOLEAN] /\ record[c.op].cmd = c
    BY <1>1 DEF Store!Acknowledge, Store!Recorded, Store!StoreTypeOK, Store!Record
<1>3. [record[c.op] EXCEPT !.acked = TRUE] = [cmd |-> c, acked |-> TRUE]
    BY <1>2, SetAcked
<1>4. record'[c.op] = [cmd |-> c, acked |-> TRUE]
    BY <1>1, <1>3 DEF Store!Acknowledge, Store!StoreTypeOK
<1>5. \A o \in Op : o # c.op => record'[o] = record[o]
    BY DEF Store!Acknowledge, Store!StoreTypeOK
<1>6. record'[c.op] # None /\ record'[c.op].cmd = c
    BY <1>4, NoneIsNoRecord
<1>7. record[c.op] # None /\ record[c.op].cmd = c
    BY DEF Store!Acknowledge, Store!Recorded
<1>8. ASSUME NEW d \in Command PROVE Store!Recorded(d)' <=> Store!Recorded(d)
  <2>1. CASE d.op = c.op
    BY <1>6, <1>7, <2>1 DEF Store!Recorded
  <2>2. CASE d.op # c.op
    BY <1>1, <1>5, <2>2 DEF Store!Recorded
  <2> QED
    BY <2>1, <2>2
<1> QED
    BY <1>4, <1>5, <1>8 DEF Store!Recorded

StoreInv == Store!StoreTypeOK /\ Store!NothingLost /\ Store!AnsweredIsAcknowledged

(* A newly created session is well formed and nothing has been done to it. *)
LEMMA StoreInitInv == Store!Init => StoreInv
<1> SUFFICES ASSUME Store!Init PROVE StoreInv
    OBVIOUS
<1>1. Store!StoreTypeOK
    BY CreatedAssumption, SameContent DEF Store!Init, Store!StoreTypeOK, Store!Record
<1>2. \A kind : Store!AppliedBy(kind) = {}
    BY CommandAssumption DEF Store!Init, Store!AppliedBy, Store!Recorded, CommandType
<1>3. Store!NothingLost
    BY <1>2 DEF Store!Init, Store!NothingLost
<1> QED
    BY <1>1, <1>3 DEF StoreInv, Store!Init, Store!AnsweredIsAcknowledged

(* No step of the store loses an effect or a record that was answered for. *)
LEMMA StoreStep == StoreInv /\ [Store!Next]_Store!storeVars => StoreInv'
<1> SUFFICES ASSUME StoreInv, [Store!Next]_Store!storeVars PROVE StoreInv'
    OBVIOUS
<1> USE DEF StoreInv
<1>0. \A c \in Command : c.op \in Op
    BY CommandAssumption DEF CommandType
<1>1. ASSUME NEW c \in Command, Store!Perform(c) PROVE StoreInv'
  <2>1. Store!StoreTypeOK'
    <3>1. content' \in Store!Content
        BY <1>1, EffectType, SharedSemantics, SameContent DEF Store!Perform, Store!StoreTypeOK
    <3>2. record' \in [Op -> Store!Record]
        BY <1>1 DEF Store!Perform, Store!StoreTypeOK, Store!Record
    <3> QED
        BY <1>1, <3>1, <3>2 DEF Store!Perform, Store!StoreTypeOK
  <2>2. \A kind : Store!AppliedBy(kind)' = IF c.kind = kind THEN Store!AppliedBy(kind) \cup {c} ELSE Store!AppliedBy(kind)
    BY <1>1, PerformRecords DEF Store!AppliedBy
  <2>3. Store!NothingLost'
    <3>1. content' = Effect(content, c) /\ content \in Content
        BY <1>1, SharedSemantics, SameContent DEF Store!Perform, Store!StoreTypeOK
    <3> DEFINE E == Effect(content, c)
    <3>2. /\ E.ledger = IF c.kind = "append" THEN content.ledger \cup {c.item} ELSE content.ledger
          /\ E.analyses = IF c.kind = "attach" THEN content.analyses \cup {c.item} ELSE content.analyses
          /\ E.selection = IF c.kind = "select" THEN [analysis |-> c.item, mark |-> c.mark]
                           ELSE content.selection
          /\ E.artifacts = IF c.kind = "cleanup" THEN content.artifacts \ c.removes ELSE content.artifacts
        BY <3>1, EffectFields
    <3> HIDE DEF E
    <3>3. (content.ledger = CreatedWith.ledger \cup {d.item : d \in Store!AppliedBy("append")})'
        BY <2>2, <3>1, <3>2 DEF Store!NothingLost, E
    <3>4. (content.analyses = CreatedWith.analyses \cup {d.item : d \in Store!AppliedBy("attach")})'
        BY <2>2, <3>1, <3>2 DEF Store!NothingLost, E
    <3>5. (content.artifacts =
              CreatedWith.artifacts \ UNION {d.removes : d \in Store!AppliedBy("cleanup")})'
        BY <2>2, <3>1, <3>2 DEF Store!NothingLost, E
    <3>6. (IF Store!AppliedBy("select") = {} THEN content.selection = CreatedWith.selection
           ELSE \E d \in Store!AppliedBy("select") :
                   content.selection = [analysis |-> d.item, mark |-> d.mark])'
        BY <2>2, <3>1, <3>2 DEF Store!NothingLost, E
    <3> QED
        BY <3>3, <3>4, <3>5, <3>6 DEF Store!NothingLost
  <2>4. Store!AnsweredIsAcknowledged'
    <3>1. ASSUME NEW d \in answered PROVE record'[d.op] = [cmd |-> d, acked |-> TRUE]
        <4>1. d \in Command /\ record[d.op] = [cmd |-> d, acked |-> TRUE]
            BY <3>1 DEF Store!AnsweredIsAcknowledged, Store!StoreTypeOK
        <4>2. d.op # c.op
            BY <1>1, <4>1, NoneIsNoRecord DEF Store!Perform
        <4> QED
            <5>1. record'[d.op] = record[d.op]
                BY <1>0, <1>1, <4>1, <4>2, PerformRecords
            <5> QED
                BY <4>1, <5>1
    <3> QED
        BY <1>1, <3>1 DEF Store!Perform, Store!AnsweredIsAcknowledged
  <2> QED
    BY <2>1, <2>3, <2>4
<1>2. ASSUME NEW c \in Command, Store!Acknowledge(c) PROVE StoreInv'
  <2>1. record' \in [Op -> Store!Record]
    <3>1. [cmd |-> c, acked |-> TRUE] \in Store!Record
        BY DEF Store!Record
    <3>2. \A o \in Op : record'[o] \in Store!Record
        BY <1>2, <3>1, AcknowledgeRecords DEF Store!StoreTypeOK
    <3> QED
        BY <1>2, <3>2 DEF Store!Acknowledge, Store!StoreTypeOK
  <2>2. Store!StoreTypeOK'
    BY <1>2, <2>1 DEF Store!Acknowledge, Store!StoreTypeOK
  <2>3. \A kind : Store!AppliedBy(kind)' = Store!AppliedBy(kind)
    BY <1>2, AcknowledgeRecords DEF Store!AppliedBy
  <2>4. Store!NothingLost'
    BY <1>2, <2>3 DEF Store!Acknowledge, Store!NothingLost
  <2>5. Store!AnsweredIsAcknowledged'
    <3>1. ASSUME NEW d \in answered PROVE record'[d.op] = [cmd |-> d, acked |-> TRUE]
        <4>1. d \in Command /\ record[d.op] = [cmd |-> d, acked |-> TRUE]
            BY <3>1 DEF Store!AnsweredIsAcknowledged, Store!StoreTypeOK
        <4>2. CASE d.op = c.op
            <5>1. d = c
                BY <1>2, <4>1, <4>2 DEF Store!Acknowledge, Store!Recorded
            <5> QED
                BY <1>2, <5>1, AcknowledgeRecords
        <4>3. CASE d.op # c.op
            BY <1>0, <1>2, <4>1, <4>3, AcknowledgeRecords
        <4> QED
            BY <4>2, <4>3
    <3> QED
        BY <1>2, <3>1 DEF Store!Acknowledge, Store!AnsweredIsAcknowledged
  <2> QED
    BY <2>2, <2>4, <2>5
<1>3. ASSUME NEW c \in Command, Store!Answer(c) PROVE StoreInv'
  <2>1. UNCHANGED <<content, record>> /\ answered' = answered \cup {c}
    BY <1>3 DEF Store!Answer
  <2>2. record[c.op] = [cmd |-> c, acked |-> TRUE]
    <3>1. record[c.op] \in [cmd : Command, acked : BOOLEAN] /\ record[c.op].cmd = c /\ record[c.op].acked
        BY <1>0, <1>3 DEF Store!Answer, Store!Recorded, Store!StoreTypeOK, Store!Record
    <3>2. record[c.op].acked = TRUE
        BY <3>1
    <3>3. record[c.op] = [record[c.op] EXCEPT !.acked = TRUE]
        BY <3>1, <3>2
    <3> QED
        BY <3>1, <3>3, SetAcked
  <2>3. Store!StoreTypeOK'
    BY <2>1 DEF Store!StoreTypeOK
  <2>4. Store!NothingLost'
    BY <2>1 DEF Store!NothingLost, Store!AppliedBy, Store!Recorded
  <2>5. Store!AnsweredIsAcknowledged'
    BY <2>1, <2>2 DEF Store!AnsweredIsAcknowledged
  <2> QED
    BY <2>3, <2>4, <2>5
<1>4. CASE UNCHANGED Store!storeVars
  <2>1. Store!StoreTypeOK' /\ Store!AnsweredIsAcknowledged'
    BY <1>4 DEF Store!storeVars, Store!StoreTypeOK, Store!AnsweredIsAcknowledged
  <2>2. Store!NothingLost'
    BY <1>4 DEF Store!storeVars, Store!NothingLost, Store!AppliedBy, Store!Recorded
  <2> QED
    BY <2>1, <2>2
<1> QED
    BY <1>1, <1>2, <1>3, <1>4 DEF Store!Next

(* No effect is lost, none appears without a record, and Ok means stored and  *)
(* acknowledged, in every behaviour of the store: any storage candidate that   *)
(* implements it has these properties.                                      *)
THEOREM StoreInvariance == Store!Spec => []StoreInv
BY StoreInitInv, StoreStep, PTL DEF Store!Spec

(* The tables hold exactly the effects of the recorded commands, although every *)
(* commit rewrites all of them from a state it loaded earlier.                 *)
THEOREM NothingIsLost == Spec => []NothingLost
<1>1. StoreInv => NothingLost
    BY DEF StoreInv, NothingLost
<1> QED
    BY Refinement, StoreInvariance, <1>1, PTL DEF ImplementsStore

(* Whoever was answered Ok finds the command stored and acknowledged ever after. *)
THEOREM AnswersAreAcknowledged == Spec => []AnsweredIsAcknowledged
<1>1. StoreInv => AnsweredIsAcknowledged
    BY DEF StoreInv, AnsweredIsAcknowledged
<1> QED
    BY Refinement, StoreInvariance, <1>1, PTL DEF ImplementsStore

----------------------------------------------------------------------------
(* The reader *)

(* s is a state that was stored once: no event or analysis of it was lost      *)
(* since, and no artifact came back.                                         *)
Past(s) ==
    /\ s.ledger \subseteq content.ledger
    /\ s.analyses \subseteq content.analyses
    /\ s # NoState => content.artifacts \subseteq s.artifacts

ReaderType ==
    /\ reader \in {"closed", "openingRest", "rebuild", "open", "readingRest"}
    /\ partial \in Content
    /\ lastRead \in Content

(* A load in progress continues from collections that include those of the     *)
(* last one.                                                                *)
LoadingInv ==
    reader \in {"openingRest", "readingRest"} =>
        /\ lastRead.ledger \subseteq partial.ledger
        /\ partial.ledger \subseteq content.ledger
        /\ lastRead.analyses \subseteq partial.analyses
        /\ partial.analyses \subseteq content.analyses

(* Whoever is about to rebuild the cache does so from a ledger that is stored. *)
RebuildInv ==
    /\ reader = "rebuild" => partial.ledger \subseteq content.ledger
    /\ \A p \in Process : At(p, "rebuild") => job[p].pre.ledger \subseteq content.ledger

RInv == Inv /\ ReaderType /\ Past(lastRead) /\ LoadingInv /\ RebuildInv /\ CacheDerivesFromLedger

(* The initial states satisfy the invariant. *)
LEMMA ReaderInitInv == ReaderInit => RInv
<1> SUFFICES ASSUME ReaderInit PROVE RInv
    OBVIOUS
<1>1. Inv
    BY InitInv DEF ReaderInit
<1>2. ReaderType
    BY NoStateType DEF ReaderInit, ReaderType
<1>3. Past(lastRead)
    BY DEF ReaderInit, Past, NoState
<1>4. LoadingInv /\ RebuildInv
    BY DEF ReaderInit, LoadingInv, RebuildInv, Init, At, NoJob
<1>5. CacheDerivesFromLedger
    BY DEF ReaderInit, Init, CacheDerivesFromLedger
<1> QED
    BY <1>1, <1>2, <1>3, <1>4, <1>5 DEF RInv

(* Content moves one way.  A commit writes the effect of its command on the
   state that is stored, which LoadInv says is the one it has loaded. *)
LEMMA ContentMoves ==
    ASSUME Inv, [Next]_vars
    PROVE  /\ content.ledger \subseteq content'.ledger
           /\ content.analyses \subseteq content'.analyses
           /\ content'.artifacts \subseteq content.artifacts
<1>1. ASSUME NEW p \in Process, Commit(p)
      PROVE  /\ content.ledger \subseteq content'.ledger
             /\ content.analyses \subseteq content'.analyses
             /\ content'.artifacts \subseteq content.artifacts
  <2>1. job[p].pre = content /\ job[p].cmd \in Command
    BY <1>1, StepNames
    DEF Commit, Writable, Inv, LoadInv, LoadOK, CallInv, CallOK, At
  <2>2. content \in Content /\ content' = Effect(content, job[p].cmd)
    BY <1>1, <2>1 DEF Commit, Inv, TypeOK
  <2> QED
    BY <2>1, <2>2, EffectFields
<1>2. ASSUME \A p \in Process : ~Commit(p) PROVE content' = content
    BY <1>2
    DEF Next, Open, Submit, Apply, OpenAcquire, OpenRefused, OpenLoad, OpenRebuild,
        OpenFails, Close, SubmitNew, SubmitAgain, SubmitRefused, LoadLedger, LoadRest,
        Begin, CommitFails, Verify, Acknowledge, Reply, ApplyFails, Crash, Tick, StepBack,
        vars, database
<1> QED
    BY <1>1, <1>2

(* A process begins to rebuild from the content, and nothing else makes the
   cache. *)
LEMMA RebuildFromContent ==
    ASSUME Inv, [Next]_vars, NEW p \in Process, At(p, "rebuild")'
    PROVE  job'[p] = job[p] \/ job'[p].pre = content
<1> USE DEF Inv, TypeOK
<1>1. ASSUME NEW q \in Process, OpenLoad(q) PROVE job'[p] = job[p] \/ job'[p].pre = content
    BY <1>1 DEF OpenLoad, Advance, Job
<1>2. ASSUME NEW q \in Process, EndJob(q) PROVE job'[p] = job[p]
    BY <1>2 DEF EndJob, NoJob, At
<1>3. ASSUME NEW q \in Process, NEW s \in Step \ {"rebuild"}, Goto(q, s) PROVE job'[p] = job[p]
    BY <1>3 DEF Goto, At, Job
<1>4. ASSUME NEW q \in Process, NEW s \in Step \ {"rebuild"}, NEW pre, Advance(q, s, pre)
      PROVE  job'[p] = job[p]
    BY <1>4 DEF Advance, At, Job
<1>5. ASSUME NEW q \in Process, NEW c \in Command, Submit(q, c) PROVE job'[p] = job[p]
    BY <1>5 DEF Submit, SubmitNew, SubmitAgain, SubmitRefused, At, Job
<1>6. ASSUME NEW q \in Process, Open(q) PROVE job'[p] = job[p] \/ job'[p].pre = content
    BY <1>1, <1>2, <1>3, <1>6, StepNames
    DEF Open, OpenAcquire, OpenRefused, OpenRebuild, OpenFails
<1>7. ASSUME NEW q \in Process, Apply(q) PROVE job'[p] = job[p]
  <2>1. \/ EndJob(q)
        \/ \E s \in Step \ {"rebuild"} : Goto(q, s) \/ \E pre : Advance(q, s, pre)
    BY <1>7, StepNames
    DEF Apply, LoadLedger, LoadRest, Begin, Commit, CommitFails, Verify, Acknowledge,
        Reply, ApplyFails
  <2> QED
    BY <1>2, <1>3, <1>4, <2>1
<1>8. ASSUME NEW q \in Process, Close(q) \/ Crash(q) PROVE job'[p] = job[p]
    BY <1>2, <1>8 DEF Close, Crash
<1>9. ASSUME Tick \/ StepBack \/ UNCHANGED vars PROVE job'[p] = job[p]
    BY <1>9 DEF Tick, StepBack, vars
<1> QED
    BY <1>5, <1>6, <1>7, <1>8, <1>9 DEF Next

(* A writer rebuilds the cache from what it has loaded. *)
LEMMA WritersCache ==
    ASSUME Inv, [Next]_vars
    PROVE  cache' = cache \/ \E p \in Process : At(p, "rebuild") /\ cache' = job[p].pre.ledger
<1>1. ASSUME NEW p \in Process, OpenRebuild(p)
      PROVE  At(p, "rebuild") /\ cache' = job[p].pre.ledger
    BY <1>1 DEF OpenRebuild
<1>2. ASSUME \A p \in Process : ~OpenRebuild(p) PROVE cache' = cache
    BY <1>2
    DEF Next, Open, Submit, Apply, OpenAcquire, OpenRefused, OpenLoad, OpenFails, Close,
        SubmitNew, SubmitAgain, SubmitRefused, LoadLedger, LoadRest, Begin, Commit,
        CommitFails, Verify, Acknowledge, Reply, ApplyFails, Crash, Tick, StepBack, vars,
        database
<1> QED
    BY <1>1, <1>2

(* The writers' steps preserve the invariant. *)
LEMMA WriterStep == RInv /\ [Next]_vars /\ UNCHANGED readerVars => RInv'
<1> SUFFICES ASSUME RInv, [Next]_vars, UNCHANGED readerVars PROVE RInv'
    OBVIOUS
<1>0. Inv'
    BY TypeStep, TokenStep, LoadStep, CallStep DEF RInv, Inv
<1>1. /\ content.ledger \subseteq content'.ledger
      /\ content.analyses \subseteq content'.analyses
      /\ content'.artifacts \subseteq content.artifacts
    BY ContentMoves DEF RInv
<1>2. UNCHANGED <<reader, partial, lastRead>>
    BY DEF readerVars
<1>3. ReaderType' /\ Past(lastRead)' /\ LoadingInv'
    BY <1>1, <1>2 DEF RInv, ReaderType, Past, LoadingInv
<1>4. RebuildInv'
  <2>1. ASSUME NEW p \in Process, At(p, "rebuild")'
        PROVE  job'[p].pre.ledger \subseteq content'.ledger
    BY <1>1, <2>1, RebuildFromContent DEF RInv, RebuildInv, At
  <2> QED
    BY <1>1, <1>2, <2>1 DEF RInv, RebuildInv, At
<1>5. CacheDerivesFromLedger'
    BY <1>1, WritersCache DEF RInv, RebuildInv, CacheDerivesFromLedger
<1> QED
    BY <1>0, <1>3, <1>4, <1>5 DEF RInv

(* The steps of the reader preserve what the writers rely on: it writes at most
   the cache, which can only make their snapshots out of date. *)
LEMMA WritersKeepInv ==
    ASSUME Inv, cache' \in SUBSET Event, fresh' \subseteq fresh,
           UNCHANGED <<content, record, owner, clock, issued, handle, lastClock, job, answered>>
    PROVE  Inv'
<1>1. TypeOK'
    BY DEF Inv, TypeOK
<1>2. TokenInv'
    BY DEF Inv, TokenInv, IsClosed
<1>3. LoadInv'
    BY DEF Inv, LoadInv, LoadOK, At, OwnsSession
<1>4. CallInv'
    BY DEF Inv, CallInv, CallOK, At, Store!Recorded
<1> QED
    BY <1>1, <1>2, <1>3, <1>4 DEF Inv

(* The reader's steps preserve the invariant. *)
LEMMA ReaderStep ==
    RInv /\ (ReaderLoadLedger \/ ReaderLoadRest \/ ReaderRebuild \/ ReaderClose) => RInv'
<1> SUFFICES ASSUME RInv, ReaderLoadLedger \/ ReaderLoadRest \/ ReaderRebuild \/ ReaderClose
             PROVE  RInv'
    OBVIOUS
<1>0. Inv /\ ReaderType /\ content \in Content /\ cache \in SUBSET Event
    BY DEF RInv, Inv, TypeOK
<1>1. Inv'
  <2>1. UNCHANGED <<content, record, owner, clock, issued, handle, lastClock, job, answered>>
    BY DEF ReaderLoadLedger, ReaderLoadRest, ReaderRebuild, ReaderClose, WritersUnchanged,
           database
  <2>2. cache' \in SUBSET Event /\ fresh' \subseteq fresh
    BY <1>0
    DEF ReaderLoadLedger, ReaderLoadRest, ReaderRebuild, ReaderClose, WritersUnchanged,
        database, ReaderType, Content
  <2> QED
    BY <1>0, <2>1, <2>2, WritersKeepInv
<1>2. ASSUME ReaderLoadLedger PROVE RInv'
  <2>1. /\ FirstHalf.ledger = content.ledger /\ FirstHalf.analyses = content.analyses
        /\ FirstHalf \in Content
    BY <1>0, NoStateType DEF FirstHalf, NoState, Content
  <2>2. ReaderType'
    BY <1>0, <1>2, <2>1 DEF ReaderLoadLedger, ReaderType
  <2>3. Past(lastRead)' /\ LoadingInv'
    BY <1>2, <2>1 DEF RInv, Past, LoadingInv, ReaderLoadLedger, database
  <2>4. RebuildInv' /\ CacheDerivesFromLedger'
    BY <1>2 DEF RInv, RebuildInv, CacheDerivesFromLedger, ReaderLoadLedger,
                WritersUnchanged, database, At
  <2> QED
    BY <1>1, <2>2, <2>3, <2>4 DEF RInv
<1>3. ASSUME ReaderLoadRest PROVE RInv'
  <2>1. /\ Collected.ledger = partial.ledger /\ Collected.analyses = partial.analyses
        /\ Collected.artifacts = content.artifacts /\ Collected \in Content
    BY <1>0 DEF Collected, ReaderType, Content
  <2>2. ReaderType'
    BY <1>0, <1>3, <2>1, NoStateType DEF ReaderLoadRest, ReaderType
  <2>3. Past(lastRead)'
    BY <1>3, <2>1 DEF RInv, Past, LoadingInv, ReaderLoadRest, database
  <2>4. LoadingInv'
    BY <1>3 DEF LoadingInv, ReaderLoadRest
  <2>5. RebuildInv' /\ CacheDerivesFromLedger'
    BY <1>3, <2>1 DEF RInv, LoadingInv, RebuildInv, CacheDerivesFromLedger, ReaderLoadRest,
                      WritersUnchanged, database, At
  <2> QED
    BY <1>1, <2>2, <2>3, <2>4, <2>5 DEF RInv
<1>4. ASSUME ReaderRebuild PROVE RInv'
  <2>1. ReaderType'
    BY <1>0, <1>4, NoStateType DEF ReaderRebuild, ReaderType
  <2>2. Past(lastRead)' /\ LoadingInv'
    BY <1>4 DEF RInv, Past, LoadingInv, ReaderRebuild
  <2>3. RebuildInv' /\ CacheDerivesFromLedger'
    BY <1>4 DEF RInv, RebuildInv, CacheDerivesFromLedger, ReaderRebuild, At
  <2> QED
    BY <1>1, <2>1, <2>2, <2>3 DEF RInv
<1>5. ASSUME ReaderClose PROVE RInv'
  <2>1. ReaderType'
    BY <1>0, <1>5 DEF ReaderClose, ReaderType
  <2>2. Past(lastRead)' /\ LoadingInv'
    BY <1>5 DEF RInv, Past, LoadingInv, ReaderClose, database
  <2>3. RebuildInv' /\ CacheDerivesFromLedger'
    BY <1>5 DEF RInv, RebuildInv, CacheDerivesFromLedger, ReaderClose, WritersUnchanged,
                database, At
  <2> QED
    BY <1>1, <2>1, <2>2, <2>3 DEF RInv
<1> QED
    BY <1>2, <1>3, <1>4, <1>5

(* Nothing changes in a stuttering step. *)
LEMMA ReaderStutter == RInv /\ UNCHANGED <<vars, readerVars>> => RInv'
BY WriterStep

(* The invariant holds of every reachable state. *)
THEOREM ReaderInvariance == ReaderSpec => []RInv
<1>1. RInv /\ [ReaderNext]_<<vars, readerVars>> => RInv'
    BY WriterStep, ReaderStep, ReaderStutter DEF ReaderNext
<1> QED
    BY ReaderInitInv, <1>1, PTL DEF ReaderSpec

(* The queue index is always derived from events that are in the ledger. *)
THEOREM CacheIsDerived == ReaderSpec => []CacheDerivesFromLedger
<1>1. RInv => CacheDerivesFromLedger
    BY DEF RInv
<1> QED
    BY ReaderInvariance, <1>1, PTL

(* The reads of one reader never go back. *)
THEOREM ReadsMoveForward == ReaderSpec => ReadsNeverRegress
<1>1. RInv /\ [ReaderNext]_<<vars, readerVars>> =>
          [/\ lastRead.ledger \subseteq lastRead'.ledger
           /\ lastRead.analyses \subseteq lastRead'.analyses
           /\ lastRead'.artifacts \subseteq lastRead.artifacts \/ lastRead = NoState]_lastRead
  <2> SUFFICES ASSUME RInv, [ReaderNext]_<<vars, readerVars>>
               PROVE  [/\ lastRead.ledger \subseteq lastRead'.ledger
                       /\ lastRead.analyses \subseteq lastRead'.analyses
                       /\ lastRead'.artifacts \subseteq lastRead.artifacts \/ lastRead = NoState]_lastRead
    OBVIOUS
  <2>1. ASSUME ReaderLoadRest, lastRead' # lastRead
        PROVE  /\ lastRead.ledger \subseteq lastRead'.ledger
               /\ lastRead.analyses \subseteq lastRead'.analyses
               /\ lastRead'.artifacts \subseteq lastRead.artifacts \/ lastRead = NoState
    <3>1. lastRead' = Collected /\ reader \in {"openingRest", "readingRest"}
      BY <2>1 DEF ReaderLoadRest
    <3>2. /\ Collected.ledger = partial.ledger /\ Collected.analyses = partial.analyses
          /\ Collected.artifacts = content.artifacts
      BY DEF Collected, RInv, ReaderType, Content
    <3> QED
      BY <3>1, <3>2 DEF RInv, LoadingInv, Past
  <2>2. ASSUME ~ReaderLoadRest PROVE lastRead' = lastRead
    BY <2>2 DEF ReaderNext, ReaderLoadLedger, ReaderRebuild, ReaderClose, readerVars
  <2> QED
    BY <2>1, <2>2
<1> QED
    BY ReaderInvariance, <1>1, PTL DEF ReaderSpec, ReadsNeverRegress
=============================================================================
