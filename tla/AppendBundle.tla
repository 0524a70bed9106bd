----------------------------- MODULE AppendBundle -----------------------------
(***************************************************************************)
(* The append-bundle candidate: a session as a directory of files.  The      *)
(* manifest names the generation of the checkpoint that is the session's      *)
(* content, the number of commands committed and the writer; the log has one  *)
(* numbered record per command and is only checked, never replayed into the    *)
(* content.  Files are replaced by a rename, except the log, which is          *)
(* appended to and truncated in place.                                       *)
(*                                                                         *)
(* One process uses the candidate at a time and runs one call after another.  *)
(* A call is split at every write, because each may fail and the process may  *)
(* die between any two of them; what a call reads it reads between its writes  *)
(* with nobody else at work, so its reads belong to the step that follows.     *)
(*                                                                         *)
(* A state of the session is the sequence of commands that made it; which      *)
(* expectations a command states of the state it is applied to is given by     *)
(* Expects.  (SessionContent has the commands' effects in detail.)            *)
(***************************************************************************)
EXTENDS Integers, Sequences, FiniteSets

CONSTANTS
    Command,        \* authoritative commands
    Expects,        \* Expects[c]: the heads c's preconditions state, none or more
    None,
    Disturbances,   \* which of "error", "death" (during a call) and "compaction" happen
    MaxGeneration,  \* bound: the manifest's generation
    MaxLog,         \* bound: records in the log
    MaxHandles      \* bound: handles an adapter ever numbers

ASSUME BundleAssumption ==
    /\ None \notin Command
    /\ Expects \in [Command -> SUBSET (Command \cup {None})]
    /\ Disturbances \subseteq {"error", "death", "compaction"}
    /\ MaxGeneration \in Nat /\ MaxLog \in Nat /\ MaxHandles \in Nat

VARIABLES
    manifest,       \* manifest.json
    checkpoints,    \* checkpoints[g]: checkpoints/gen-g/state.json, or Missing
    log,            \* canonical.log: the sequence numbers of its records
    index,          \* derived/index.cache: the state it was built from
    duplicate,      \* how far the directory of a duplicated session has come
    handles,        \* the adapter's open handles
    issued,         \* next_handle: how many handle ids the adapter has numbered
    writers,        \* ids of the writable handles callers hold, closed ones too
    call,           \* the call in progress
    answered        \* answered Ok: positions in the content, and commands (history)

files == <<manifest, checkpoints, log, index, duplicate>>
adapter == <<handles, issued, writers>>
vars == <<files, adapter, call, answered>>

NoToken == 0
Torn == 0               \* a record that was not written to its end
Missing == <<None>>
State == Seq(Command)
Generations == 0..MaxGeneration

Manifest == [generation : Generations, committed : Nat, token : Nat]

NoCall == [step |-> "none", cmd |-> None, state |-> <<>>]
ApplySteps == {"append", "checkpoint", "index", "manifest", "reply"}
CompactSteps == {"compact", "truncate", "publish"}
DuplicateSteps == {"copy", "identity", "state"}
Call == [step : {"none"} \cup ApplySteps \cup CompactSteps \cup DuplicateSteps,
         cmd : Command \cup {None}, state : State]

(* The session's content: what load_openable_state returns when it succeeds *)
Content == checkpoints[manifest.generation]

BundleTypeOK ==
    /\ manifest \in Manifest
    /\ checkpoints \in [Generations -> State \cup {Missing}]
    /\ Content # Missing
    /\ log \in Seq(Nat)
    /\ index \in State
    /\ duplicate \in {"absent", "partial", "copied", "renamed", "complete"}
    /\ issued \in Nat /\ handles \subseteq 1..issued /\ writers \subseteq 1..issued
    /\ call \in Call

(* create *)
Init ==
    /\ manifest = [generation |-> 0, committed |-> 0, token |-> NoToken]
    /\ checkpoints = [g \in Generations |-> IF g = 0 THEN <<>> ELSE Missing]
    /\ log = <<>>
    /\ index = <<>>
    /\ duplicate = "absent"
    /\ handles = {} /\ issued = 0 /\ writers = {}
    /\ call = NoCall
    /\ answered = {}

-----------------------------------------------------------------------------
(* replay_log succeeds: the records are numbered 1, 2, ... without a gap.    *)
Replays == \A i \in 1..Len(log) : log[i] = i

Latest(state) == IF state = <<>> THEN None ELSE state[Len(state)]

(* apply_command accepts c in this state *)
Accepts(state, c) == \A e \in Expects[c] : Latest(state) = e

Idle == call.step = "none"
At(step) == call.step = step
Goto(step) == call' = [call EXCEPT !.step = step]
EndCall == call' = NoCall

(* open(Writable): refused with writer-already-open while there is a token. *)
OpenWritable ==
    /\ Idle /\ issued < MaxHandles
    /\ Replays
    /\ issued' = issued + 1
    /\ IF manifest.token = NoToken
       THEN /\ manifest' = [manifest EXCEPT !.token = issued']
            /\ handles' = handles \cup {issued'}
            /\ writers' = writers \cup {issued'}
       ELSE UNCHANGED <<manifest, handles, writers>>
    /\ UNCHANGED <<checkpoints, log, index, duplicate, call, answered>>

(* open(ReadOnly), attempt_read_only_open *)
OpenReadOnly ==
    /\ Idle /\ issued < MaxHandles
    /\ Replays
    /\ issued' = issued + 1
    /\ handles' = handles \cup {issued'}
    /\ UNCHANGED <<files, writers, call, answered>>

(* close: the handle is removed first; when the manifest cannot be read or    *)
(* written after that, the token stays although the handle is gone.          *)
Close(h) ==
    /\ Idle /\ h \in handles
    /\ handles' = handles \ {h}
    /\ \/ manifest' = IF h \in writers /\ manifest.token = h
                      THEN [manifest EXCEPT !.token = NoToken] ELSE manifest
       \/ h \in writers /\ "error" \in Disturbances /\ UNCHANGED manifest
    /\ UNCHANGED <<checkpoints, log, index, duplicate, issued, writers, call, answered>>

-----------------------------------------------------------------------------
(* apply_authoritative_command.  Only the token is compared: whether the      *)
(* handle is still open is not asked.                                        *)
Submit(h, c) ==
    /\ Idle /\ h \in writers
    /\ manifest.token = h
    /\ Replays
    /\ Accepts(Content, c)
    /\ manifest.generation < MaxGeneration /\ Len(log) < MaxLog
    /\ call' = [step |-> "append", cmd |-> c, state |-> Append(Content, c)]
    /\ UNCHANGED <<files, adapter, answered>>

NextGenerationInPlace == manifest.generation    \* variant: the checkpoint is overwritten
NextGeneration == manifest.generation + 1

NextSequenceFromZero == manifest.committed      \* variant: numbered from 0
NextSequence == manifest.committed + 1

AppendRecordThenManifest ==     \* variant: the manifest is written before the checkpoint
    /\ At("append")
    /\ log' = Append(log, NextSequence)
    /\ Goto("manifest")
    /\ UNCHANGED <<manifest, checkpoints, index, duplicate, adapter, answered>>

AppendRecord ==
    /\ At("append")
    /\ log' = Append(log, NextSequence)
    /\ Goto("checkpoint")
    /\ UNCHANGED <<manifest, checkpoints, index, duplicate, adapter, answered>>

WriteCheckpoint ==
    /\ At("checkpoint")
    /\ checkpoints' = [checkpoints EXCEPT ![NextGeneration] = call.state]
    /\ Goto("index")
    /\ UNCHANGED <<manifest, log, index, duplicate, adapter, answered>>

RebuildIndexThenReply ==        \* variant: the manifest is not written before the answer
    /\ At("index")
    /\ index' = call.state
    /\ Goto("reply")
    /\ UNCHANGED <<manifest, checkpoints, log, duplicate, adapter, answered>>

RebuildIndex ==
    /\ At("index")
    /\ index' = call.state
    /\ Goto("manifest")
    /\ UNCHANGED <<manifest, checkpoints, log, duplicate, adapter, answered>>

WriteManifest ==
    /\ At("manifest")
    /\ manifest' = [manifest EXCEPT !.generation = NextGeneration, !.committed = NextSequence]
    /\ Goto("reply")
    /\ UNCHANGED <<checkpoints, log, index, duplicate, adapter, answered>>

(* Ok reaches the caller *)
Reply ==
    /\ At("reply")
    /\ answered' = answered \cup {<<Len(Content), call.cmd>>}
    /\ EndCall
    /\ UNCHANGED <<files, adapter>>

-----------------------------------------------------------------------------
(* cleanup_or_compact_if_supported(Compact).  The handle it is given only      *)
(* says which session: neither its mode nor the token is looked at.           *)
StartCompaction ==
    /\ "compaction" \in Disturbances
    /\ Idle /\ issued > 0
    /\ Replays
    /\ manifest.generation < MaxGeneration
    /\ call' = [step |-> "compact", cmd |-> None, state |-> Content]
    /\ UNCHANGED <<files, adapter, answered>>

CompactCheckpoint ==
    /\ At("compact")
    /\ checkpoints' = [checkpoints EXCEPT ![NextGeneration] = call.state]
    /\ Goto("truncate")
    /\ UNCHANGED <<manifest, log, index, duplicate, adapter, answered>>

TruncateLog ==
    /\ At("truncate")
    /\ log' = <<>>
    /\ Goto("publish")
    /\ UNCHANGED <<manifest, checkpoints, index, duplicate, adapter, answered>>

(* The generation moves on; committed_seq stays. *)
PublishCompaction ==
    /\ At("publish")
    /\ manifest' = [manifest EXCEPT !.generation = NextGeneration]
    /\ EndCall
    /\ UNCHANGED <<checkpoints, log, index, duplicate, adapter, answered>>

-----------------------------------------------------------------------------
(* duplicate_session, to one new identity                                   *)

StartDuplication ==
    /\ Idle /\ handles # {}
    /\ Replays
    /\ duplicate = "absent"         \* otherwise duplicate-session-exists
    /\ call' = [step |-> "copy", cmd |-> None, state |-> Content]
    /\ UNCHANGED <<files, adapter, answered>>

(* copy_dir_all: file by file, so that an interruption leaves a part of them *)
CopyDirectory ==
    /\ At("copy")
    /\ duplicate' = "copied"
    /\ Goto("identity")
    /\ UNCHANGED <<manifest, checkpoints, log, index, adapter, answered>>

(* The copied manifest gets the new identity and a free writer token. *)
RenameDuplicate ==
    /\ At("identity")
    /\ duplicate' = "renamed"
    /\ Goto("state")
    /\ UNCHANGED <<manifest, checkpoints, log, index, adapter, answered>>

(* save_duplicate_state: the copied checkpoint gets the new identity *)
SaveDuplicateState ==
    /\ At("state")
    /\ duplicate' = "complete"
    /\ EndCall
    /\ UNCHANGED <<manifest, checkpoints, log, index, adapter, answered>>

-----------------------------------------------------------------------------
(* What an interrupted write leaves: nothing, a torn record after which the    *)
(* next record is on the same line, or a part of the directory copied.        *)
HalfDone ==
    /\ \/ UNCHANGED <<log, duplicate>>
       \/ At("append") /\ log' = Append(log, Torn) /\ UNCHANGED duplicate
       \/ At("copy") /\ duplicate' = "partial" /\ UNCHANGED log
    /\ UNCHANGED <<manifest, checkpoints, index>>

CallFails ==
    /\ "error" \in Disturbances
    /\ ~Idle /\ ~At("reply")
    /\ HalfDone
    /\ EndCall
    /\ UNCHANGED <<adapter, answered>>

(* The process dies; a new process begins with a new adapter. *)
Dies ==
    /\ "death" \in Disturbances
    /\ issued > 0
    /\ HalfDone
    /\ EndCall
    /\ handles' = {} /\ issued' = 0 /\ writers' = {}
    /\ UNCHANGED answered

Apply ==
    \/ \E h \in writers, c \in Command : Submit(h, c)
    \/ AppendRecord \/ WriteCheckpoint \/ RebuildIndex \/ WriteManifest \/ Reply

Compact == StartCompaction \/ CompactCheckpoint \/ TruncateLog \/ PublishCompaction

Duplicate ==
    StartDuplication \/ CopyDirectory \/ RenameDuplicate \/ SaveDuplicateState

Next ==
    \/ OpenWritable \/ OpenReadOnly \/ \E h \in handles : Close(h)
    \/ Apply \/ Compact \/ Duplicate \/ CallFails \/ Dies

Spec == Init /\ [][Next]_vars

-----------------------------------------------------------------------------
(* The content changes only by one accepted command at a time, on the content   *)
(* of that moment, by the hand of the writer the manifest names and together    *)
(* with committed_seq; an interrupted call, whatever it has written, and a       *)
(* compaction leave it as it was (apply_authoritative_command,                  *)
(* cleanup_or_compact_if_supported).                                           *)
ContentChangesByCommands ==
    [][Content' # Content =>
         /\ manifest.token # NoToken
         /\ Accepts(Content, call.cmd)
         /\ Content' = Append(Content, call.cmd)
         /\ manifest'.committed = manifest.committed + 1]_vars

(* committed_seq tells a reader how many commands the content holds, across     *)
(* interruptions and compactions.                                             *)
CommittedCountsContent == manifest.committed = Len(Content)

(* A command answered Ok stays where it was committed, whatever fails, dies or  *)
(* is compacted afterwards.                                                    *)
AnsweredStaysStored ==
    \A a \in answered : a[1] \in 1..Len(Content) /\ Content[a[1]] = a[2]

(* Only a command whose answer is Ok may be followed by others: after a failed   *)
(* one, no further write succeeds before the session is valid again.           *)
AnsweredSessionOpens == At("reply") => Replays
=============================================================================
