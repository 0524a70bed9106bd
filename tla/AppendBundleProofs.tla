-------------------------- MODULE AppendBundleProofs --------------------------
(***************************************************************************)
(* Proofs about AppendBundle, for every set of commands, every expectation   *)
(* and every bound.  The properties are not inductive by themselves: that a   *)
(* command's commit extends the content of the moment rests on what the call   *)
(* computed before and on the checkpoint it has already written, which IInv    *)
(* states for every step of a call.                                         *)
(***************************************************************************)
EXTENDS AppendBundle, TLAPS

(* Until its manifest is written, a command was accepted by the content that   *)
(* is still stored, and the manifest still names a writer.                     *)
CommandIsCurrent ==
    call.step \in {"append", "checkpoint", "index", "manifest"} =>
        /\ call.cmd \in Command
        /\ Accepts(Content, call.cmd)
        /\ call.state = Append(Content, call.cmd)
        /\ manifest.token # NoToken

CompactionIsCurrent == call.step \in CompactSteps => call.state = Content

(* The generation the manifest will name is free, and written before it is named *)
GenerationIsPrepared ==
    /\ call.step \in {"append", "checkpoint", "index", "manifest"} \cup CompactSteps
        => manifest.generation < MaxGeneration
    /\ call.step \in {"index", "manifest", "truncate", "publish"}
        => checkpoints[manifest.generation + 1] = call.state

(* What is about to be answered is the last command of the content. *)
ReplyIsStored ==
    call.step = "reply" =>
        Len(Content) > 0 /\ Content[Len(Content)] = call.cmd

IInv ==
    /\ BundleTypeOK
    /\ CommandIsCurrent
    /\ CompactionIsCurrent
    /\ GenerationIsPrepared
    /\ ReplyIsStored
    /\ CommittedCountsContent
    /\ AnsweredStaysStored

(* The checkpoint the manifest names is a state: it is not a missing one. *)
LEMMA ContentIsState == BundleTypeOK => Content \in State
BY BundleAssumption DEF BundleTypeOK, Content, Manifest, Generations, State, Missing

LEMMA InitInvariant == Init => IInv
<1> SUFFICES ASSUME Init PROVE IInv
    OBVIOUS
<1> USE BundleAssumption
<1>1. Content = <<>>
    BY DEF Init, Content, Generations
<1>2. BundleTypeOK
    <2>1. manifest \in Manifest
        BY DEF Init, Manifest, Generations, NoToken
    <2>2. checkpoints \in [Generations -> State \cup {Missing}]
        BY DEF Init, State
    <2>3. Content # Missing
        BY <1>1 DEF Missing
    <2>4. log \in Seq(Nat) /\ index \in State
        BY DEF Init, State
    <2>5. call \in Call
        BY DEF Init, NoCall, Call, State
    <2> QED
        BY <2>1, <2>2, <2>3, <2>4, <2>5 DEF Init, BundleTypeOK
<1>3. CommandIsCurrent /\ CompactionIsCurrent /\ GenerationIsPrepared /\ ReplyIsStored
    BY DEF Init, NoCall, CommandIsCurrent, CompactionIsCurrent, GenerationIsPrepared,
           ReplyIsStored, CompactSteps
<1>4. CommittedCountsContent /\ AnsweredStaysStored
    BY <1>1 DEF Init, CommittedCountsContent, AnsweredStaysStored
<1> QED
    BY <1>2, <1>3, <1>4 DEF IInv

-----------------------------------------------------------------------------
(* Opening and closing touch the manifest's token only, between calls.       *)
LEMMA TokenStep ==
    ASSUME IInv, Idle, UNCHANGED <<checkpoints, log, index, duplicate, call, answered>>,
           issued' \in Nat, handles' \subseteq 1..issued', writers' \subseteq 1..issued',
           \/ UNCHANGED manifest
           \/ \E t \in Nat : manifest' = [manifest EXCEPT !.token = t]
    PROVE  IInv'
<1>1. manifest' \in Manifest /\ manifest'.generation = manifest.generation
      /\ manifest'.committed = manifest.committed
    BY DEF IInv, BundleTypeOK, Manifest
<1>2. Content' = Content
    BY <1>1 DEF Content
<1>3. BundleTypeOK'
    BY <1>1, <1>2 DEF IInv, BundleTypeOK
<1>4. (CommandIsCurrent /\ CompactionIsCurrent /\ GenerationIsPrepared /\ ReplyIsStored)'
    BY DEF Idle, CommandIsCurrent, CompactionIsCurrent, GenerationIsPrepared,
           ReplyIsStored, CompactSteps
<1>5. CommittedCountsContent' /\ AnsweredStaysStored'
    BY <1>1, <1>2 DEF IInv, CommittedCountsContent, AnsweredStaysStored
<1> QED
    BY <1>3, <1>4, <1>5 DEF IInv

(* A call that ends without writing the manifest leaves the content alone.    *)
LEMMA AbandonStep ==
    ASSUME IInv, call' = NoCall, UNCHANGED <<manifest, checkpoints, index, answered>>,
           log' \in Seq(Nat),
           duplicate' \in {"absent", "partial", "copied", "renamed", "complete"},
           issued' \in Nat, handles' \subseteq 1..issued', writers' \subseteq 1..issued'
    PROVE  IInv'
<1>1. Content' = Content
    BY DEF Content
<1>2. BundleTypeOK'
    BY <1>1 DEF IInv, BundleTypeOK, NoCall, Call, State
<1>3. (CommandIsCurrent /\ CompactionIsCurrent /\ GenerationIsPrepared /\ ReplyIsStored)'
    BY DEF NoCall, CommandIsCurrent, CompactionIsCurrent, GenerationIsPrepared,
           ReplyIsStored, CompactSteps
<1>4. CommittedCountsContent' /\ AnsweredStaysStored'
    BY <1>1 DEF IInv, CommittedCountsContent, AnsweredStaysStored
<1> QED
    BY <1>2, <1>3, <1>4 DEF IInv

-----------------------------------------------------------------------------
(* A write of the running call that leaves manifest and content alone: the     *)
(* content stays, and what the invariant says of the next step must be shown.  *)
LEMMA FileStep ==
    ASSUME IInv, UNCHANGED <<manifest, duplicate, issued, handles, writers, answered>>,
           checkpoints' \in [Generations -> State \cup {Missing}],
           Content' = Content,
           log' \in Seq(Nat), index' \in State, call' \in Call
    PROVE  BundleTypeOK' /\ CommittedCountsContent' /\ AnsweredStaysStored'
BY DEF IInv, BundleTypeOK, CommittedCountsContent, AnsweredStaysStored

LEMMA GotoStep ==
    ASSUME BundleTypeOK, NEW step \in ApplySteps \cup CompactSteps, Goto(step)
    PROVE  /\ call' \in Call
           /\ call'.step = step /\ call'.cmd = call.cmd /\ call'.state = call.state
<1>1. DOMAIN call = {"step", "cmd", "state"} /\ call \in Call
    BY DEF BundleTypeOK, Call
<1> QED
    BY <1>1 DEF Goto, Call

(* A checkpoint is written in the next generation only. *)
LEMMA CheckpointStep ==
    ASSUME IInv, manifest.generation < MaxGeneration, UNCHANGED manifest,
           checkpoints' = [checkpoints EXCEPT ![NextGeneration] = call.state]
    PROVE  /\ checkpoints' \in [Generations -> State \cup {Missing}]
           /\ checkpoints'[manifest.generation + 1] = call.state
           /\ Content' = Content
<1>1. manifest.generation \in 0..MaxGeneration /\ MaxGeneration \in Nat
    BY BundleAssumption DEF IInv, BundleTypeOK, Manifest, Generations
<1>2. manifest.generation + 1 \in Generations
      /\ manifest.generation + 1 # manifest.generation
    BY <1>1 DEF Generations
<1>3. call.state \in State
    BY DEF IInv, BundleTypeOK, Call
<1> QED
    BY <1>1, <1>2, <1>3 DEF IInv, BundleTypeOK, NextGeneration, Content, Generations

-----------------------------------------------------------------------------
LEMMA OpenAndClose ==
    ASSUME IInv, OpenWritable \/ OpenReadOnly \/ \E h \in handles : Close(h)
    PROVE  IInv'
<1>1. issued \in Nat /\ handles \subseteq 1..issued /\ writers \subseteq 1..issued
    BY DEF IInv, BundleTypeOK
<1>2. CASE OpenWritable
    <2>1. issued' = issued + 1 /\ Idle
          /\ UNCHANGED <<checkpoints, log, index, duplicate, call, answered>>
        BY <1>2 DEF OpenWritable
    <2>2. CASE manifest.token = NoToken
        <3>1. manifest' = [manifest EXCEPT !.token = issued']
              /\ handles' = handles \cup {issued'} /\ writers' = writers \cup {issued'}
            BY <1>2, <2>2 DEF OpenWritable
        <3>2. issued' \in Nat /\ handles' \subseteq 1..issued' /\ writers' \subseteq 1..issued'
            BY <1>1, <2>1, <3>1
        <3>3. \E t \in Nat : manifest' = [manifest EXCEPT !.token = t]
            BY <3>1, <3>2
        <3> QED
            BY <2>1, <3>2, <3>3, TokenStep
    <2>3. CASE manifest.token # NoToken
        <3>1. UNCHANGED <<manifest, handles, writers>>
            BY <1>2, <2>3 DEF OpenWritable
        <3>2. issued' \in Nat /\ handles' \subseteq 1..issued' /\ writers' \subseteq 1..issued'
            BY <1>1, <2>1, <3>1
        <3> QED
            BY <2>1, <3>1, <3>2, TokenStep
    <2> QED
        BY <2>2, <2>3
<1>3. CASE OpenReadOnly
    <2>1. issued' = issued + 1 /\ Idle /\ handles' = handles \cup {issued'}
          /\ UNCHANGED <<manifest, checkpoints, log, index, duplicate, call, answered, writers>>
        BY <1>3 DEF OpenReadOnly, files
    <2>2. issued' \in Nat /\ handles' \subseteq 1..issued' /\ writers' \subseteq 1..issued'
        BY <1>1, <2>1
    <2> QED
        BY <2>1, <2>2, TokenStep
<1>4. ASSUME NEW h \in handles, Close(h) PROVE IInv'
    <2>1. Idle /\ handles' \subseteq 1..issued' /\ writers' \subseteq 1..issued' /\ issued' \in Nat
          /\ UNCHANGED <<checkpoints, log, index, duplicate, call, answered>>
        BY <1>1, <1>4 DEF Close
    <2>2. UNCHANGED manifest \/ manifest' = [manifest EXCEPT !.token = NoToken]
        BY <1>4 DEF Close
    <2>3. NoToken \in Nat
        BY DEF NoToken
    <2> QED
        BY <2>1, <2>2, <2>3, TokenStep
<1> QED
    BY <1>2, <1>3, <1>4

LEMMA SubmitStep ==
    ASSUME IInv, NEW h \in writers, NEW c \in Command, Submit(h, c)
    PROVE  IInv'
<1>1. Content \in State /\ h # NoToken
    BY ContentIsState DEF IInv, BundleTypeOK, NoToken
<1>2. call' = [step |-> "append", cmd |-> c, state |-> Append(Content, c)]
      /\ UNCHANGED <<manifest, checkpoints, log, index, duplicate, issued, handles, writers, answered>>
    BY DEF Submit, files, adapter
<1>3. Content' = Content
    BY <1>2 DEF Content
<1>4. call' \in Call
    <2>1. Append(Content, c) \in State
        BY <1>1 DEF State
    <2> QED
        BY <1>2, <2>1 DEF Call, ApplySteps
<1>5. BundleTypeOK' /\ CommittedCountsContent' /\ AnsweredStaysStored'
    BY <1>2, <1>3, <1>4, FileStep DEF IInv, BundleTypeOK
<1>6. CommandIsCurrent'
    <2>1. Accepts(Content, c) /\ manifest.token = h
        BY DEF Submit
    <2>2. Accepts(Content', c)
        BY <2>1, <1>3 DEF Accepts
    <2> QED
        BY <1>1, <1>2, <1>3, <2>1, <2>2 DEF CommandIsCurrent, Accepts
<1>7. (CompactionIsCurrent /\ GenerationIsPrepared /\ ReplyIsStored)'
    <2>1. manifest.generation < MaxGeneration
        BY DEF Submit
    <2> QED
        BY <1>2, <2>1 DEF CompactionIsCurrent, GenerationIsPrepared, ReplyIsStored, CompactSteps
<1> QED
    BY <1>5, <1>6, <1>7 DEF IInv

LEMMA AppendRecordStep == IInv /\ AppendRecord => IInv'
<1> SUFFICES ASSUME IInv, AppendRecord PROVE IInv'
    OBVIOUS
<1>1. UNCHANGED <<manifest, checkpoints, index, duplicate, issued, handles, writers, answered>>
      /\ call.step = "append" /\ Goto("checkpoint") /\ log' = Append(log, NextSequence)
    BY DEF AppendRecord, At, adapter
<1>2. Content' = Content
    BY <1>1 DEF Content
<1>3. call' \in Call /\ call'.step = "checkpoint" /\ call'.cmd = call.cmd /\ call'.state = call.state
    BY <1>1, GotoStep DEF IInv, ApplySteps
<1>4. log' \in Seq(Nat)
    BY <1>1 DEF IInv, BundleTypeOK, NextSequence, Manifest
<1>5. BundleTypeOK' /\ CommittedCountsContent' /\ AnsweredStaysStored'
    BY <1>1, <1>2, <1>3, <1>4, FileStep DEF IInv, BundleTypeOK
<1>6. (CommandIsCurrent /\ CompactionIsCurrent /\ GenerationIsPrepared /\ ReplyIsStored)'
    BY <1>1, <1>2, <1>3 DEF IInv, CommandIsCurrent, CompactionIsCurrent, GenerationIsPrepared,
        ReplyIsStored, CompactSteps, Accepts
<1> QED
    BY <1>5, <1>6 DEF IInv

LEMMA WriteCheckpointStep == IInv /\ WriteCheckpoint => IInv'
<1> SUFFICES ASSUME IInv, WriteCheckpoint PROVE IInv'
    OBVIOUS
<1>1. UNCHANGED <<manifest, log, index, duplicate, issued, handles, writers, answered>>
      /\ call.step = "checkpoint" /\ Goto("index")
      /\ checkpoints' = [checkpoints EXCEPT ![NextGeneration] = call.state]
    BY DEF WriteCheckpoint, At, adapter
<1>2. /\ checkpoints' \in [Generations -> State \cup {Missing}]
      /\ checkpoints'[manifest.generation + 1] = call.state
      /\ Content' = Content
    BY <1>1, CheckpointStep DEF IInv, GenerationIsPrepared
<1>3. call' \in Call /\ call'.step = "index" /\ call'.cmd = call.cmd /\ call'.state = call.state
    BY <1>1, GotoStep DEF IInv, ApplySteps
<1>4. BundleTypeOK' /\ CommittedCountsContent' /\ AnsweredStaysStored'
    BY <1>1, <1>2, <1>3, FileStep DEF IInv, BundleTypeOK
<1>5. (CommandIsCurrent /\ CompactionIsCurrent /\ GenerationIsPrepared /\ ReplyIsStored)'
    BY <1>1, <1>2, <1>3 DEF IInv, CommandIsCurrent, CompactionIsCurrent, GenerationIsPrepared,
        ReplyIsStored, CompactSteps, Accepts
<1> QED
    BY <1>4, <1>5 DEF IInv

LEMMA RebuildIndexStep == IInv /\ RebuildIndex => IInv'
<1> SUFFICES ASSUME IInv, RebuildIndex PROVE IInv'
    OBVIOUS
<1>1. UNCHANGED <<manifest, checkpoints, log, duplicate, issued, handles, writers, answered>>
      /\ call.step = "index" /\ Goto("manifest") /\ index' = call.state
    BY DEF RebuildIndex, At, adapter
<1>2. Content' = Content
    BY <1>1 DEF Content
<1>3. call' \in Call /\ call'.step = "manifest" /\ call'.cmd = call.cmd /\ call'.state = call.state
    BY <1>1, GotoStep DEF IInv, ApplySteps
<1>4. index' \in State
    BY <1>1 DEF IInv, BundleTypeOK, Call
<1>5. BundleTypeOK' /\ CommittedCountsContent' /\ AnsweredStaysStored'
    BY <1>1, <1>2, <1>3, <1>4, FileStep DEF IInv, BundleTypeOK
<1>6. (CommandIsCurrent /\ CompactionIsCurrent /\ GenerationIsPrepared /\ ReplyIsStored)'
    BY <1>1, <1>2, <1>3 DEF IInv, CommandIsCurrent, CompactionIsCurrent, GenerationIsPrepared,
        ReplyIsStored, CompactSteps, Accepts
<1> QED
    BY <1>5, <1>6 DEF IInv

(* The commit: the manifest names the prepared generation, whose state is the  *)
(* content extended by the command.                                          *)
LEMMA CommitExtends ==
    ASSUME IInv, WriteManifest
    PROVE  /\ Content' = call.state /\ call.state = Append(Content, call.cmd)
           /\ call.cmd \in Command /\ Accepts(Content, call.cmd) /\ manifest.token # NoToken
           /\ manifest'.generation = manifest.generation + 1
           /\ manifest'.committed = manifest.committed + 1
           /\ manifest' \in Manifest
<1>1. call.step = "manifest" /\ UNCHANGED checkpoints
      /\ manifest' = [manifest EXCEPT !.generation = manifest.generation + 1,
                                      !.committed = manifest.committed + 1]
    BY DEF WriteManifest, At, NextGeneration, NextSequence
<1>2. manifest \in Manifest /\ manifest.generation < MaxGeneration /\ MaxGeneration \in Nat
    BY <1>1, BundleAssumption DEF IInv, BundleTypeOK, GenerationIsPrepared
<1>3. manifest' \in Manifest /\ manifest'.generation = manifest.generation + 1
      /\ manifest'.committed = manifest.committed + 1
    <2>1. manifest.generation + 1 \in Generations /\ manifest.committed + 1 \in Nat
        BY <1>2 DEF Manifest, Generations
    <2>2. \A g, n : g \in Generations /\ n \in Nat =>
            LET m == [manifest EXCEPT !.generation = g, !.committed = n]
            IN  m \in Manifest /\ m.generation = g /\ m.committed = n
        BY <1>2 DEF Manifest
    <2> QED
        BY <1>1, <2>1, <2>2
<1>4. checkpoints[manifest.generation + 1] = call.state
    BY <1>1 DEF IInv, GenerationIsPrepared
<1>5. Content' = call.state
    BY <1>1, <1>3, <1>4 DEF Content
<1> QED
    BY <1>1, <1>3, <1>5 DEF IInv, CommandIsCurrent

LEMMA WriteManifestStep == IInv /\ WriteManifest => IInv'
<1> SUFFICES ASSUME IInv, WriteManifest PROVE IInv'
    OBVIOUS
<1>1. /\ Content' = Append(Content, call.cmd) /\ call.cmd \in Command
      /\ manifest'.committed = manifest.committed + 1
      /\ manifest' \in Manifest
    BY CommitExtends
<1>2. UNCHANGED <<checkpoints, log, index, duplicate, issued, handles, writers, answered>>
      /\ Goto("reply")
    BY DEF WriteManifest, adapter
<1>3. call' \in Call /\ call'.step = "reply" /\ call'.cmd = call.cmd
    BY <1>2, GotoStep DEF IInv, ApplySteps
<1>4. Content \in Seq(Command)
    BY ContentIsState DEF IInv, State
<1>5. /\ Content' \in Seq(Command) /\ Len(Content') = Len(Content) + 1
      /\ Content'[Len(Content')] = call.cmd
      /\ \A i \in 1..Len(Content) : Content'[i] = Content[i]
    BY <1>1, <1>4
<1>6. BundleTypeOK'
    <2>1. Content' # Missing
        <3>1. CASE Content' = Missing
            <4>1. Len(Content') = 1 /\ Content'[1] = None
                BY <3>1 DEF Missing
            <4> QED
                BY <4>1, <1>1, <1>5, BundleAssumption
        <3> QED
            BY <3>1
    <2> QED
        BY <1>1, <1>2, <1>3, <2>1 DEF IInv, BundleTypeOK
<1>7. CommandIsCurrent' /\ CompactionIsCurrent' /\ GenerationIsPrepared'
    BY <1>3 DEF CommandIsCurrent, CompactionIsCurrent, GenerationIsPrepared, CompactSteps
<1>8. ReplyIsStored'
    <2>1. Len(Content') > 0
        BY <1>4, <1>5
    <2> QED
        BY <1>3, <1>5, <2>1 DEF ReplyIsStored
<1>9. CommittedCountsContent'
    BY <1>1, <1>5 DEF IInv, CommittedCountsContent
<1>10. AnsweredStaysStored'
    BY <1>2, <1>4, <1>5 DEF IInv, AnsweredStaysStored
<1> QED
    BY <1>6, <1>7, <1>8, <1>9, <1>10 DEF IInv

LEMMA ReplyStep == IInv /\ Reply => IInv'
<1> SUFFICES ASSUME IInv, Reply PROVE IInv'
    OBVIOUS
<1>1. UNCHANGED <<manifest, checkpoints, log, index, duplicate, issued, handles, writers>>
      /\ call.step = "reply" /\ call' = NoCall
      /\ answered' = answered \cup {<<Len(Content), call.cmd>>}
    BY DEF Reply, At, EndCall, files, adapter
<1>2. Content' = Content
    BY <1>1 DEF Content
<1>3. BundleTypeOK'
    BY <1>1, <1>2 DEF IInv, BundleTypeOK, NoCall, Call, State
<1>4. (CommandIsCurrent /\ CompactionIsCurrent /\ GenerationIsPrepared /\ ReplyIsStored)'
    BY <1>1 DEF NoCall, CommandIsCurrent, CompactionIsCurrent, GenerationIsPrepared,
           ReplyIsStored, CompactSteps
<1>5. CommittedCountsContent'
    BY <1>1, <1>2 DEF IInv, CommittedCountsContent
<1>6. AnsweredStaysStored'
    <2>1. Content \in Seq(Command)
        BY ContentIsState DEF IInv, State
    <2>2. Len(Content) \in 1..Len(Content) /\ Content[Len(Content)] = call.cmd
        BY <1>1, <2>1 DEF IInv, ReplyIsStored
    <2> QED
        BY <1>1, <1>2, <2>2 DEF IInv, AnsweredStaysStored
<1> QED
    BY <1>3, <1>4, <1>5, <1>6 DEF IInv

-----------------------------------------------------------------------------
LEMMA StartCompactionStep == IInv /\ StartCompaction => IInv'
<1> SUFFICES ASSUME IInv, StartCompaction PROVE IInv'
    OBVIOUS
<1>1. UNCHANGED <<manifest, checkpoints, log, index, duplicate, issued, handles, writers, answered>>
      /\ manifest.generation < MaxGeneration
      /\ call' = [step |-> "compact", cmd |-> None, state |-> Content]
    BY DEF StartCompaction, files, adapter
<1>2. Content' = Content
    BY <1>1 DEF Content
<1>3. call' \in Call
    BY <1>1, ContentIsState DEF IInv, Call, CompactSteps
<1>4. BundleTypeOK' /\ CommittedCountsContent' /\ AnsweredStaysStored'
    BY <1>1, <1>2, <1>3, FileStep DEF IInv, BundleTypeOK
<1>5. (CommandIsCurrent /\ CompactionIsCurrent /\ GenerationIsPrepared /\ ReplyIsStored)'
    BY <1>1, <1>2 DEF CommandIsCurrent, CompactionIsCurrent, GenerationIsPrepared,
        ReplyIsStored, CompactSteps
<1> QED
    BY <1>4, <1>5 DEF IInv

LEMMA CompactCheckpointStep == IInv /\ CompactCheckpoint => IInv'
<1> SUFFICES ASSUME IInv, CompactCheckpoint PROVE IInv'
    OBVIOUS
<1>1. UNCHANGED <<manifest, log, index, duplicate, issued, handles, writers, answered>>
      /\ call.step = "compact" /\ Goto("truncate")
      /\ checkpoints' = [checkpoints EXCEPT ![NextGeneration] = call.state]
    BY DEF CompactCheckpoint, At, adapter
<1>2. /\ checkpoints' \in [Generations -> State \cup {Missing}]
      /\ checkpoints'[manifest.generation + 1] = call.state
      /\ Content' = Content
    BY <1>1, CheckpointStep DEF IInv, GenerationIsPrepared, CompactSteps
<1>3. call' \in Call /\ call'.step = "truncate" /\ call'.state = call.state
    BY <1>1, GotoStep DEF IInv, CompactSteps
<1>4. BundleTypeOK' /\ CommittedCountsContent' /\ AnsweredStaysStored'
    BY <1>1, <1>2, <1>3, FileStep DEF IInv, BundleTypeOK
<1>5. (CommandIsCurrent /\ CompactionIsCurrent /\ GenerationIsPrepared /\ ReplyIsStored)'
    BY <1>1, <1>2, <1>3 DEF IInv, CommandIsCurrent, CompactionIsCurrent, GenerationIsPrepared,
        ReplyIsStored, CompactSteps
<1> QED
    BY <1>4, <1>5 DEF IInv

LEMMA TruncateLogStep == IInv /\ TruncateLog => IInv'
<1> SUFFICES ASSUME IInv, TruncateLog PROVE IInv'
    OBVIOUS
<1>1. UNCHANGED <<manifest, checkpoints, index, duplicate, issued, handles, writers, answered>>
      /\ call.step = "truncate" /\ Goto("publish") /\ log' = <<>>
    BY DEF TruncateLog, At, adapter
<1>2. Content' = Content
    BY <1>1 DEF Content
<1>3. call' \in Call /\ call'.step = "publish" /\ call'.state = call.state
    BY <1>1, GotoStep DEF IInv, CompactSteps
<1>4. log' \in Seq(Nat)
    BY <1>1
<1>5. BundleTypeOK' /\ CommittedCountsContent' /\ AnsweredStaysStored'
    BY <1>1, <1>2, <1>3, <1>4, FileStep DEF IInv, BundleTypeOK
<1>6. (CommandIsCurrent /\ CompactionIsCurrent /\ GenerationIsPrepared /\ ReplyIsStored)'
    BY <1>1, <1>2, <1>3 DEF IInv, CommandIsCurrent, CompactionIsCurrent, GenerationIsPrepared,
        ReplyIsStored, CompactSteps
<1> QED
    BY <1>5, <1>6 DEF IInv

(* Publishing a compaction names another checkpoint of the same state. *)
LEMMA CompactionKeepsContent ==
    ASSUME IInv, PublishCompaction
    PROVE  /\ Content' = Content /\ manifest' \in Manifest
           /\ manifest'.committed = manifest.committed
<1>1. call.step = "publish" /\ UNCHANGED checkpoints
      /\ manifest' = [manifest EXCEPT !.generation = manifest.generation + 1]
    BY DEF PublishCompaction, At, NextGeneration
<1>2. manifest \in Manifest /\ manifest.generation < MaxGeneration /\ MaxGeneration \in Nat
    BY <1>1, BundleAssumption DEF IInv, BundleTypeOK, GenerationIsPrepared, CompactSteps
<1>3. manifest.generation + 1 \in Generations
    BY <1>2 DEF Manifest, Generations
<1>4. manifest' \in Manifest /\ manifest'.generation = manifest.generation + 1
      /\ manifest'.committed = manifest.committed
    BY <1>1, <1>2, <1>3 DEF Manifest
<1>5. checkpoints[manifest.generation + 1] = Content
    BY <1>1 DEF IInv, GenerationIsPrepared, CompactionIsCurrent, CompactSteps
<1>6. Content' = checkpoints[manifest.generation + 1]
    BY <1>1, <1>4 DEF Content
<1> QED
    BY <1>4, <1>5, <1>6

LEMMA PublishCompactionStep == IInv /\ PublishCompaction => IInv'
<1> SUFFICES ASSUME IInv, PublishCompaction PROVE IInv'
    OBVIOUS
<1>1. /\ Content' = Content /\ manifest' \in Manifest
      /\ manifest'.committed = manifest.committed
    BY CompactionKeepsContent
<1>2. UNCHANGED <<checkpoints, log, index, duplicate, issued, handles, writers, answered>>
      /\ call' = NoCall
    BY DEF PublishCompaction, EndCall, adapter
<1>3. BundleTypeOK'
    BY <1>1, <1>2 DEF IInv, BundleTypeOK, NoCall, Call, State
<1>4. (CommandIsCurrent /\ CompactionIsCurrent /\ GenerationIsPrepared /\ ReplyIsStored)'
    BY <1>2 DEF NoCall, CommandIsCurrent, CompactionIsCurrent, GenerationIsPrepared,
           ReplyIsStored, CompactSteps
<1>5. CommittedCountsContent' /\ AnsweredStaysStored'
    BY <1>1, <1>2 DEF IInv, CommittedCountsContent, AnsweredStaysStored
<1> QED
    BY <1>3, <1>4, <1>5 DEF IInv

-----------------------------------------------------------------------------
(* A duplication, and what an error or a death leaves, concern other files.   *)
LEMMA DuplicateStep == IInv /\ Duplicate => IInv'
<1> SUFFICES ASSUME IInv, Duplicate PROVE IInv'
    OBVIOUS
<1>1. UNCHANGED <<manifest, checkpoints, log, index, issued, handles, writers, answered>>
    BY DEF Duplicate, StartDuplication, CopyDirectory, RenameDuplicate, SaveDuplicateState,
           files, adapter
<1>2. Content' = Content
    BY <1>1 DEF Content
<1>3. /\ duplicate' \in {"absent", "partial", "copied", "renamed", "complete"}
      /\ call' \in Call /\ call'.step \in DuplicateSteps \cup {"none"}
    <2>1. CASE StartDuplication
        BY <2>1, ContentIsState DEF IInv, BundleTypeOK, StartDuplication, files, Call,
            DuplicateSteps
    <2>2. CASE CopyDirectory
        BY <2>2 DEF CopyDirectory, IInv, BundleTypeOK, Goto, Call, DuplicateSteps
    <2>3. CASE RenameDuplicate
        BY <2>3 DEF RenameDuplicate, IInv, BundleTypeOK, Goto, Call, DuplicateSteps
    <2>4. CASE SaveDuplicateState
        BY <2>4 DEF SaveDuplicateState, EndCall, NoCall, Call, State
    <2> QED
        BY <2>1, <2>2, <2>3, <2>4 DEF Duplicate
<1>4. BundleTypeOK'
    BY <1>1, <1>2, <1>3 DEF IInv, BundleTypeOK
<1>5. (CommandIsCurrent /\ CompactionIsCurrent /\ GenerationIsPrepared /\ ReplyIsStored)'
    BY <1>3 DEF CommandIsCurrent, CompactionIsCurrent, GenerationIsPrepared, ReplyIsStored,
        CompactSteps, DuplicateSteps
<1>6. CommittedCountsContent' /\ AnsweredStaysStored'
    BY <1>1, <1>2 DEF IInv, CommittedCountsContent, AnsweredStaysStored
<1> QED
    BY <1>4, <1>5, <1>6 DEF IInv

LEMMA InterruptionStep == IInv /\ (CallFails \/ Dies) => IInv'
<1> SUFFICES ASSUME IInv, CallFails \/ Dies PROVE IInv'
    OBVIOUS
<1>1. HalfDone /\ call' = NoCall /\ UNCHANGED answered
    BY DEF CallFails, Dies, EndCall
<1>2. UNCHANGED <<manifest, checkpoints, index>>
    BY <1>1 DEF HalfDone
<1>3. log \in Seq(Nat) /\ Torn \in Nat
      /\ duplicate \in {"absent", "partial", "copied", "renamed", "complete"}
    BY DEF IInv, BundleTypeOK, Torn
<1>4. log' \in Seq(Nat)
    BY <1>1, <1>3 DEF HalfDone
<1>5. duplicate' \in {"absent", "partial", "copied", "renamed", "complete"}
    BY <1>1, <1>3 DEF HalfDone
<1>6. issued' \in Nat /\ handles' \subseteq 1..issued' /\ writers' \subseteq 1..issued'
    <2>1. CASE CallFails
        BY <2>1 DEF IInv, BundleTypeOK, CallFails, adapter
    <2>2. CASE Dies
        <3>1. handles' = {} /\ issued' = 0 /\ writers' = {}
            BY <2>2 DEF Dies
        <3> QED
            BY <3>1
    <2> QED
        BY <2>1, <2>2
<1> QED
    BY <1>1, <1>2, <1>4, <1>5, <1>6, AbandonStep

LEMMA StutterStep == IInv /\ UNCHANGED vars => IInv'
<1> SUFFICES ASSUME IInv, UNCHANGED vars PROVE IInv'
    OBVIOUS
<1>1. UNCHANGED <<manifest, checkpoints, log, index, duplicate, handles, issued, writers,
                  call, answered>>
    BY DEF vars, files, adapter
<1>2. Content' = Content
    BY <1>1 DEF Content
<1> QED
    BY <1>1, <1>2 DEF IInv, BundleTypeOK, CommandIsCurrent, CompactionIsCurrent,
        GenerationIsPrepared, ReplyIsStored, CommittedCountsContent, AnsweredStaysStored, Accepts

LEMMA NextInvariant == IInv /\ [Next]_vars => IInv'
<1> SUFFICES ASSUME IInv, [Next]_vars PROVE IInv'
    OBVIOUS
<1>1. CASE OpenWritable \/ OpenReadOnly \/ \E h \in handles : Close(h)
    BY <1>1, OpenAndClose
<1>2. CASE Apply
    BY <1>2, SubmitStep, AppendRecordStep, WriteCheckpointStep, RebuildIndexStep,
        WriteManifestStep, ReplyStep DEF Apply
<1>3. CASE Compact
    BY <1>3, StartCompactionStep, CompactCheckpointStep, TruncateLogStep,
        PublishCompactionStep DEF Compact
<1>4. CASE Duplicate
    BY <1>4, DuplicateStep
<1>5. CASE CallFails \/ Dies
    BY <1>5, InterruptionStep
<1>6. CASE UNCHANGED vars
    BY <1>6, StutterStep
<1> QED
    BY <1>1, <1>2, <1>3, <1>4, <1>5, <1>6 DEF Next

LEMMA Invariance == Spec => []IInv
BY InitInvariant, NextInvariant, PTL DEF Spec

-----------------------------------------------------------------------------
(* Every reachable state of the candidate is well typed; in particular the      *)
(* manifest never names a checkpoint that was not written.                     *)
THEOREM BundleTypeCorrect == Spec => []BundleTypeOK
<1>1. IInv => BundleTypeOK
    BY DEF IInv
<1> QED
    BY <1>1, Invariance, PTL

(* What was answered Ok stays where it was committed, through any failures,     *)
(* deaths, compactions and later commands.                                    *)
THEOREM AnsweredStays == Spec => []AnsweredStaysStored
<1>1. IInv => AnsweredStaysStored
    BY DEF IInv
<1> QED
    BY <1>1, Invariance, PTL

(* committed_seq is the number of commands in the content.                     *)
THEOREM CommittedCounts == Spec => []CommittedCountsContent
<1>1. IInv => CommittedCountsContent
    BY DEF IInv
<1> QED
    BY <1>1, Invariance, PTL

(* A step that does not write the manifest's generation leaves the content as   *)
(* it was: what it writes is in the generation after it.                       *)
LEMMA ContentStep ==
    IInv /\ [Next]_vars => Content' = Content \/ WriteManifest
<1> SUFFICES ASSUME IInv, [Next]_vars, ~WriteManifest PROVE Content' = Content
    OBVIOUS
<1>1. CASE OpenWritable \/ OpenReadOnly \/ \E h \in handles : Close(h)
    <2>1. UNCHANGED checkpoints
        BY <1>1 DEF OpenWritable, OpenReadOnly, Close, files
    <2>2. manifest'.generation = manifest.generation
        BY <1>1 DEF OpenWritable, OpenReadOnly, Close, files, IInv, BundleTypeOK, Manifest
    <2> QED
        BY <2>1, <2>2 DEF Content
<1>2. CASE WriteCheckpoint \/ CompactCheckpoint
    <2>1. manifest.generation < MaxGeneration /\ UNCHANGED manifest
          /\ checkpoints' = [checkpoints EXCEPT ![NextGeneration] = call.state]
        BY <1>2 DEF WriteCheckpoint, CompactCheckpoint, At, IInv, GenerationIsPrepared,
            CompactSteps
    <2> QED
        BY <2>1, CheckpointStep
<1>3. CASE PublishCompaction
    BY <1>3, CompactionKeepsContent
<1>4. CASE Duplicate \/ CallFails \/ Dies \/ UNCHANGED vars
    BY <1>4 DEF Duplicate, StartDuplication, CopyDirectory, RenameDuplicate,
        SaveDuplicateState, CallFails, Dies, HalfDone, vars, files, Content
<1>5. CASE (\E h \in writers, c \in Command : Submit(h, c)) \/ AppendRecord \/ RebuildIndex
           \/ Reply \/ StartCompaction \/ TruncateLog
    BY <1>5 DEF Submit, AppendRecord, RebuildIndex, Reply, StartCompaction, TruncateLog,
        files, Content
<1> QED
    BY <1>1, <1>2, <1>3, <1>4, <1>5 DEF Next, Apply, Compact

(* The content changes only by the one accepted command whose manifest is       *)
(* written, on the content of that moment, and committed_seq with it.           *)
THEOREM CommandsOnly == Spec => ContentChangesByCommands
<1>1. ASSUME IInv, [Next]_vars, Content' # Content
      PROVE  /\ manifest.token # NoToken
             /\ Accepts(Content, call.cmd)
             /\ Content' = Append(Content, call.cmd)
             /\ manifest'.committed = manifest.committed + 1
    BY <1>1, ContentStep, CommitExtends
<1>2. IInv /\ [Next]_vars =>
        [Content' # Content =>
         /\ manifest.token # NoToken
         /\ Accepts(Content, call.cmd)
         /\ Content' = Append(Content, call.cmd)
         /\ manifest'.committed = manifest.committed + 1]_vars
    BY <1>1
<1> QED
    BY <1>2, Invariance, PTL DEF Spec, ContentChangesByCommands
=============================================================================
