---------------------------- MODULE SqliteSession ----------------------------
(***************************************************************************)
(* The embedded-relational candidate: processes that share one session.db   *)
(* in WAL mode.  Each process has one adapter and at most one writable       *)
(* handle.  A handle owns the session while the token and epoch it was given *)
(* are the ones stored in the writer_ownership row.                          *)
(*                                                                         *)
(* A command runs in the steps of apply_authoritative_command.  The code     *)
(* reads the wall clock once, looks the command up, loads the state that the *)
(* command will be applied to, and only then begins the transaction in which *)
(* it checks its ownership and writes that state back whole.  Every step is  *)
(* an action, so that other processes, the clock and a crash can come        *)
(* between any two of them.                                                 *)
(*                                                                         *)
(* SQLite is external and modelled from its use: a deferred transaction sees *)
(* the snapshot of its first read, and its first write fails (SQLITE_BUSY)   *)
(* when anything was committed since; from then to COMMIT it excludes other   *)
(* writers, so that the writes and the COMMIT are one action.                *)
(***************************************************************************)
EXTENDS SessionContent

CONSTANTS
    Process,        \* processes, each with one EmbeddedRelationalAdapter
    LeaseDuration,  \* lease_duration_ms, in clock units
    MaxClock,       \* bound: the last instant the model's clock reaches
    MaxTokens,      \* bound: how many ownership tokens are ever issued
    ClockStepsBack  \* whether the wall clock may be set back

ASSUME BoundAssumption ==
    /\ LeaseDuration \in Nat \ {0}
    /\ MaxClock \in Nat
    /\ MaxTokens \in Nat
    /\ ClockStepsBack \in BOOLEAN

VARIABLES
    content,    \* canonical tables
    record,     \* applied_authoritative_commands
    cache,      \* derived_cache: the ledger its queue index was built from
    owner,      \* the writer_ownership row
    fresh,      \* processes whose open transaction still sees the last commit
    clock,      \* wall clock of the machine
    issued,     \* how many fresh tokens (UUIDs) were drawn
    handle,     \* handle[p]: token and epoch of p's writable handle
    lastClock,  \* last_clock_ms of p's adapter, 0 if it never read the clock
    job,        \* job[p]: how far p's current call has come
    answered    \* commands a caller was answered Ok for (history)

database == <<content, record, cache, owner>>
vars == <<database, fresh, clock, issued, handle, lastClock, job, answered>>

(* Tokens are drawn fresh; 0 stands for SQL NULL and for "no handle". *)
NoToken == 0
Closed == [token |-> NoToken, epoch |-> 0]
NoState == [ledger |-> {}, analyses |-> {}, selection |-> None, artifacts |-> {}]
NoJob == [step |-> "none", cmd |-> None, now |-> 0, pre |-> NoState]

OpenSteps == {"opening", "rebuild"}
ApplySteps == {"load", "loadRest", "begin", "write", "verify", "ack", "reply"}
Step == {"none"} \cup OpenSteps \cup ApplySteps

(* step: where the call has come; now: the time it read when it started;      *)
(* pre: the state it has loaded, on which its command is to be applied        *)
Job == [step : Step, cmd : Command \cup {None}, now : Nat, pre : Content]

TypeOK ==
    /\ content \in Content
    /\ record \in [Op -> [cmd : Command, acked : BOOLEAN] \cup {None}]
    /\ cache \in SUBSET Event
    /\ owner \in [token : Nat, epoch : Nat, expires : Nat]
    /\ fresh \in SUBSET Process
    /\ clock \in Nat
    /\ issued \in Nat
    /\ handle \in [Process -> [token : Nat, epoch : Nat]]
    /\ lastClock \in [Process -> Nat]
    /\ job \in [Process -> Job]
    /\ answered \in SUBSET Command

(* create: initialize_session and seed_derived_cache in one transaction. *)
Init ==
    /\ content = CreatedWith
    /\ record = [o \in Op |-> None]
    /\ cache = CreatedWith.ledger
    /\ owner = [token |-> NoToken, epoch |-> 0, expires |-> 0]
    /\ fresh = {}
    /\ clock = 0
    /\ issued = 0
    /\ handle = [p \in Process |-> Closed]
    /\ lastClock = [p \in Process |-> 0]
    /\ job = [p \in Process |-> NoJob]
    /\ answered = {}

-----------------------------------------------------------------------------
IsClosed(p) == handle[p] = Closed
IsIdle(p) == ~IsClosed(p) /\ job[p].step = "none"
At(p, step) == job[p].step = step
Goto(p, step) == job' = [job EXCEPT ![p].step = step]
Advance(p, step, pre) == job' = [job EXCEPT ![p] = [@ EXCEPT !.step = step, !.pre = pre]]
EndJob(p) == job' = [job EXCEPT ![p] = NoJob]

(* now_unix_ms: fails closed when this adapter has seen a later time. *)
ReadsClock(p) ==
    /\ lastClock[p] <= clock
    /\ lastClock' = [lastClock EXCEPT ![p] = clock]

(* revalidate_writer_in_tx / _on_connection, with the time read at the start *)
OwnsSession(p) == owner.token = handle[p].token /\ owner.epoch = handle[p].epoch
Revalidated(p, now) == OwnsSession(p) /\ owner.expires > now

(* release_writer_ownership: only the token's own holder clears it. *)
Release(p) ==
    owner' = IF owner.token = handle[p].token
             THEN [owner EXCEPT !.token = NoToken] ELSE owner

-----------------------------------------------------------------------------
(* open(Writable)                                                           *)

(* now + lease_duration_ms, written at an acquisition and at every commit *)
RenewedBackwards(now) == now - LeaseDuration   \* variant: the wrong sign
Renewed(now) == now + LeaseDuration

(* Ownership can be taken when it was released or its lease has run out. *)
TakeableWhenReleased == owner.token = NoToken   \* variant: leases never run out
Takeable == owner.token = NoToken \/ owner.expires <= clock

(* acquire_writer_ownership in its IMMEDIATE transaction.  The epoch grows   *)
(* only when an expired owner is displaced, not after a clean release.       *)
OpenAcquire(p) ==
    /\ IsClosed(p)
    /\ issued < MaxTokens
    /\ ReadsClock(p)
    /\ Takeable
    /\ LET epoch == IF owner.token # NoToken THEN owner.epoch + 1 ELSE owner.epoch
       IN  /\ owner' = [token |-> issued + 1, epoch |-> epoch,
                        expires |-> Renewed(clock)]
           /\ handle' = [handle EXCEPT ![p] = [token |-> issued + 1, epoch |-> epoch]]
    /\ issued' = issued + 1
    /\ fresh' = {}
    /\ Goto(p, "opening")
    /\ UNCHANGED <<content, record, cache, clock, answered>>

(* writer-already-open *)
OpenRefused(p) ==
    /\ IsClosed(p)
    /\ ReadsClock(p)
    /\ ~Takeable
    /\ UNCHANGED <<database, fresh, clock, issued, handle, job, answered>>

(* load_canonical_state, and the second load in derive_queue_index_v1.  Only  *)
(* the ledger that this load returns is used afterwards.                     *)
OpenLoad(p) ==
    /\ At(p, "opening")
    /\ Valid(content)
    /\ Advance(p, "rebuild", content)
    /\ UNCHANGED <<database, fresh, clock, issued, handle, lastClock, answered>>

(* validate_or_rebuild_derived_cache, then the handle is returned *)
OpenRebuild(p) ==
    /\ At(p, "rebuild")
    /\ cache' = job[p].pre.ledger
    /\ fresh' = IF cache' = cache THEN fresh ELSE {}
    /\ EndJob(p)
    /\ UNCHANGED <<content, record, owner, clock, issued, handle, lastClock, answered>>

(* Loading or rebuilding failed: the token is released, unless the release  *)
(* fails as well (its error is ignored).                                    *)
OpenFails(p) ==
    /\ job[p].step \in OpenSteps
    /\ Release(p) \/ UNCHANGED owner
    /\ fresh' = IF owner' = owner THEN fresh ELSE {}
    /\ handle' = [handle EXCEPT ![p] = Closed]
    /\ EndJob(p)
    /\ UNCHANGED <<content, record, cache, clock, issued, lastClock, answered>>

(* close: the handle is gone before the token is released, so that a failed *)
(* release leaves a token that nobody holds.                                *)
Close(p) ==
    /\ IsIdle(p)
    /\ Release(p) \/ UNCHANGED owner
    /\ fresh' = IF owner' = owner THEN fresh ELSE {}
    /\ handle' = [handle EXCEPT ![p] = Closed]
    /\ UNCHANGED <<content, record, cache, clock, issued, lastClock, job, answered>>

-----------------------------------------------------------------------------
(* apply_authoritative_command                                              *)

(* lookup_applied_command finds nothing. *)
SubmitNew(p, c) ==
    /\ IsIdle(p)
    /\ ReadsClock(p)
    /\ record[c.op] = None
    /\ job' = [job EXCEPT ![p] =
                 [step |-> "load", cmd |-> c, now |-> clock, pre |-> NoState]]
    /\ UNCHANGED <<database, fresh, clock, issued, handle, answered>>

(* The identifier was used before: verify_retry_command_identity accepts the *)
(* very same command from the current owner, and what remains to be done      *)
(* depends on outcome_status.                                               *)
SubmitAgain(p, c) ==
    /\ IsIdle(p)
    /\ ReadsClock(p)
    /\ record[c.op] # None
    /\ Revalidated(p, clock)
    /\ record[c.op].cmd = c
    /\ job' = [job EXCEPT ![p] =
                 [step |-> IF record[c.op].acked THEN "reply" ELSE "verify",
                  cmd |-> c, now |-> clock, pre |-> NoState]]
    /\ UNCHANGED <<database, fresh, clock, issued, handle, answered>>

(* writer-epoch-mismatch, writer-lease-expired, command-operation-id-mismatch *)
SubmitRefused(p, c) ==
    /\ IsIdle(p)
    /\ ReadsClock(p)
    /\ record[c.op] # None
    /\ ~(Revalidated(p, clock) /\ record[c.op].cmd = c)
    /\ UNCHANGED <<database, fresh, clock, issued, handle, job, answered>>

(* load_from_connection runs one SELECT after another outside a transaction: *)
(* what is read first may be older than what is read last.                   *)
FirstHalf == [NoState EXCEPT !.ledger = content.ledger, !.analyses = content.analyses]

LoadLedger(p) ==
    /\ At(p, "load")
    /\ Advance(p, "loadRest", FirstHalf)
    /\ UNCHANGED <<database, fresh, clock, issued, handle, lastClock, answered>>

LoadedState(p) == [job[p].pre EXCEPT !.selection = content.selection,
                                     !.artifacts = content.artifacts]

LoadRest(p) ==
    /\ At(p, "loadRest")
    /\ IF Valid(LoadedState(p))
       THEN Advance(p, "begin", LoadedState(p))
       ELSE EndJob(p)
    /\ UNCHANGED <<database, fresh, clock, issued, handle, lastClock, answered>>

(* BEGIN DEFERRED, revalidate_writer_in_tx, and apply_command in memory.  The *)
(* ownership row is the transaction's first read: it fixes the snapshot.      *)
BeginUnfenced(p) ==   \* variant: the transaction does not check its ownership
    /\ At(p, "begin")
    /\ IF Applicable(job[p].pre, job[p].cmd)
       THEN Goto(p, "write") /\ fresh' = fresh \cup {p}
       ELSE EndJob(p) /\ UNCHANGED fresh
    /\ UNCHANGED <<database, clock, issued, handle, lastClock, answered>>

Begin(p) ==
    /\ At(p, "begin")
    /\ IF Revalidated(p, job[p].now) /\ Applicable(job[p].pre, job[p].cmd)
       THEN Goto(p, "write") /\ fresh' = fresh \cup {p}
       ELSE EndJob(p) /\ UNCHANGED fresh
    /\ UNCHANGED <<database, clock, issued, handle, lastClock, answered>>

WritableOnStaleSnapshot(p) ==   \* variant: commits since the snapshot go unnoticed
    /\ Storable(job[p].pre, job[p].cmd)
    /\ record[job[p].cmd.op] = None

Writable(p) ==
    /\ p \in fresh
    /\ Storable(job[p].pre, job[p].cmd)
    /\ record[job[p].cmd.op] = None

(* persist_canonical_tables replaces every row by the new state's, the applied *)
(* command is inserted, the lease renewed, and COMMIT.                        *)
Commit(p) ==
    /\ At(p, "write")
    /\ Writable(p)
    /\ content' = Effect(job[p].pre, job[p].cmd)
    /\ record' = [record EXCEPT ![job[p].cmd.op] = [cmd |-> job[p].cmd, acked |-> FALSE]]
    /\ owner' = [owner EXCEPT !.expires = Renewed(job[p].now)]
    /\ fresh' = {}
    /\ Advance(p, "verify", NoState)
    /\ UNCHANGED <<cache, clock, issued, handle, lastClock, answered>>

(* The snapshot is out of date or a constraint fails: rolled back. *)
CommitFails(p) ==
    /\ At(p, "write")
    /\ ~Writable(p)
    /\ fresh' = fresh \ {p}
    /\ EndJob(p)
    /\ UNCHANGED <<database, clock, issued, handle, lastClock, answered>>

(* verify_committed_command_reconciliation, after a commit and on a retry;   *)
(* when it fails (post-commit-verify-failed) the record stays "committed".    *)
VerifyThenReply(p) ==   \* variant: Ok without the acknowledgement
    /\ At(p, "verify")
    /\ IF Reconciles(content, job[p].cmd) THEN Goto(p, "reply") ELSE EndJob(p)
    /\ UNCHANGED <<database, fresh, clock, issued, handle, lastClock, answered>>

Verify(p) ==
    /\ At(p, "verify")
    /\ IF Reconciles(content, job[p].cmd) THEN Goto(p, "ack") ELSE EndJob(p)
    /\ UNCHANGED <<database, fresh, clock, issued, handle, lastClock, answered>>

(* acknowledge_applied_command *)
Acknowledge(p) ==
    /\ At(p, "ack")
    /\ IF Revalidated(p, job[p].now)
       THEN /\ record' = [record EXCEPT ![job[p].cmd.op].acked = TRUE]
            /\ fresh' = {}
            /\ Goto(p, "reply")
       ELSE EndJob(p) /\ UNCHANGED <<record, fresh>>
    /\ UNCHANGED <<content, cache, owner, clock, issued, handle, lastClock, answered>>

(* Ok reaches the caller. *)
Reply(p) ==
    /\ At(p, "reply")
    /\ answered' = answered \cup {job[p].cmd}
    /\ EndJob(p)
    /\ UNCHANGED <<database, fresh, clock, issued, handle, lastClock>>

(* Any step before the reply may return an error instead: an I/O error, a    *)
(* busy database, or one of the registry's ReturnError faults.  The open      *)
(* transaction is rolled back and the handle stays usable.                   *)
ApplyFails(p) ==
    /\ job[p].step \in ApplySteps \ {"reply"}
    /\ fresh' = fresh \ {p}
    /\ EndJob(p)
    /\ UNCHANGED <<database, clock, issued, handle, lastClock, answered>>

-----------------------------------------------------------------------------
(* The process dies, by itself or at an injected ProcessAbort, and a new one *)
(* with a new adapter takes its place.  What was committed stays.            *)
Crash(p) ==
    /\ ~IsClosed(p) \/ lastClock[p] # 0
    /\ handle' = [handle EXCEPT ![p] = Closed]
    /\ lastClock' = [lastClock EXCEPT ![p] = 0]
    /\ fresh' = fresh \ {p}
    /\ EndJob(p)
    /\ UNCHANGED <<database, clock, issued, answered>>

Tick ==
    /\ clock < MaxClock
    /\ clock' = clock + 1
    /\ UNCHANGED <<database, fresh, issued, handle, lastClock, job, answered>>

(* The wall clock is set back (SystemTime is not monotonic). *)
StepBack ==
    /\ ClockStepsBack
    /\ clock > 0
    /\ clock' = clock - 1
    /\ UNCHANGED <<database, fresh, issued, handle, lastClock, job, answered>>

Open(p) == OpenAcquire(p) \/ OpenRefused(p) \/ OpenLoad(p) \/ OpenRebuild(p) \/ OpenFails(p)

Submit(p, c) == SubmitNew(p, c) \/ SubmitAgain(p, c) \/ SubmitRefused(p, c)

Apply(p) ==
    \/ LoadLedger(p) \/ LoadRest(p) \/ Begin(p) \/ Commit(p) \/ CommitFails(p)
    \/ Verify(p) \/ Acknowledge(p) \/ Reply(p) \/ ApplyFails(p)

Next ==
    \/ \E p \in Process :
          Open(p) \/ Close(p) \/ (\E c \in Command : Submit(p, c)) \/ Apply(p) \/ Crash(p)
    \/ Tick
    \/ StepBack

Spec == Init /\ [][Next]_vars

-----------------------------------------------------------------------------
(* Properties                                                               *)

(* The candidate implements the abstract store: every committed command was  *)
(* applied to the content as it was at the commit, although the code computes *)
(* the new content from a state read before the transaction began            *)
(* (apply_authoritative_command).                                           *)
Store == INSTANCE SessionStore
    WITH content <- content, record <- record, answered <- answered
ImplementsStore == Store!Spec

(* The store's own invariants (no effect lost, no Ok without a stored effect), *)
(* stated of the tables the processes of this module share.                  *)
NothingLost == Store!NothingLost
AnsweredIsAcknowledged == Store!AnsweredIsAcknowledged

(* Canonical content changes only by the hand of the process that owns the   *)
(* session at that moment: a writer that was displaced is fenced off even     *)
(* when it was already past its ownership check.                             *)
FencedWrites ==
    [][content' # content => \E p \in Process : At(p, "write") /\ OwnsSession(p)]_vars

(* The owner of a session is unique: two handles never carry the same one, and  *)
(* a loaded state is current as long as its reader still owns the session.    *)
OwnerReadsCurrent ==
    \A p \in Process :
        /\ \A q \in Process : handle[p] = handle[q] => p = q \/ IsClosed(p)
        /\ At(p, "begin") /\ OwnsSession(p) => job[p].pre = content
        /\ At(p, "write") /\ p \in fresh => OwnsSession(p) /\ job[p].pre = content

(* A committed command that its owner presents again is reconciled and        *)
(* acknowledged without being applied twice.                                  *)
RetryReconciles ==
    \A p \in Process :
        At(p, "verify") /\ OwnsSession(p) => Reconciles(content, job[p].cmd)

(* Fairness: time goes on, and whoever has no handle keeps trying to open.     *)
FairSpec == Spec /\ WF_vars(Tick) /\ \A p \in Process : WF_vars(OpenAcquire(p))

Orphaned == owner.token # NoToken /\ \A p \in Process : handle[p].token # owner.token

(* A token whose holder is gone does not lock the session for ever: once its   *)
(* lease runs out somebody who wants to write becomes the owner.  (The model's *)
(* clock and supply of tokens must last that long.)                           *)
OrphanIsReplaced ==
    (/\ Orphaned /\ owner.expires <= MaxClock /\ issued < MaxTokens
     /\ \E p \in Process : IsClosed(p))
    ~> ~Orphaned
=============================================================================
