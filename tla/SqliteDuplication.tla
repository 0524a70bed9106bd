--------------------------- MODULE SqliteDuplication ---------------------------
(***************************************************************************)
(* duplicate_session of the embedded-relational candidate: a writer copies   *)
(* its session's database into the directory of a new session and publishes  *)
(* it by a rename.  The source is seen from outside: how many commands were   *)
(* committed to it, and whose ownership the writer_ownership row would        *)
(* confirm (SqliteSession says how that changes).                            *)
(*                                                                         *)
(* All calls name the same new session.  Files are modelled with their        *)
(* directory entries, because an open connection follows the file and not     *)
(* its name when the entry is renamed or the directory removed.              *)
(***************************************************************************)
EXTENDS Integers, Sequences, FiniteSets

CONSTANTS
    Process,        \* processes that write to the source session
    Duplicator,     \* those of them that duplicate it
    None,
    Uncleaned,      \* ways a call may end without its guard's cleanup: "death" of
                    \* the process, "removal" that fails
    MaxVersion,     \* bound: commands committed to the source
    MaxFiles        \* bound: temporary databases ever created

ASSUME DuplicationAssumption ==
    /\ Duplicator \subseteq Process
    /\ None \notin Process
    /\ Uncleaned \subseteq {"death", "removal"}
    /\ MaxVersion \in Nat /\ MaxFiles \in Nat

VARIABLES
    version,    \* the source's content, as the number of commands committed
    owner,      \* whose token, epoch and lease revalidation would accept
    holders,    \* processes with a writable handle, current or not
    dir,        \* whether the destination directory exists
    tmp, db,    \* the files called session.db.tmp and session.db in it
    files,      \* files[i]: what the i-th database file ever created contains
    job,        \* job[p]: how far p's call has come
    told        \* told[p]: what p's last call was answered (history)

source == <<version, owner, holders>>
destination == <<dir, tmp, db, files>>
vars == <<source, destination, job, told>>

(* A database file has the version of the source it was copied from; own says *)
(* whether it carries the new identity and the lineage to the source, with the *)
(* copied ownership and the copied command records cleared.                   *)

Unpublished == {"create", "revalidate", "copy", "identity", "validate", "publish"}
Published == {"verify", "source"}

(* loaded: the source state read at the start; file: the one its connection opened *)
NoJob == [step |-> "none", loaded |-> 0, file |-> 0]
NoFile == 0

(* An answer is ok with the version copied, error, uncleaned (an error after   *)
(* which the guard could not remove the directory), or the process died.       *)

Init ==
    /\ version = 0 /\ owner = None /\ holders = {}
    /\ dir = FALSE /\ tmp = NoFile /\ db = NoFile /\ files = <<>>
    /\ job = [p \in Process |-> NoJob]
    /\ told = [p \in Process |-> [kind |-> "none", version |-> 0]]

-----------------------------------------------------------------------------
(* The source session                                                       *)

Acquire(p) ==
    /\ owner = None
    /\ p \notin holders
    /\ owner' = p
    /\ holders' = holders \cup {p}
    /\ UNCHANGED <<version, destination, job, told>>

LeaseExpires ==
    /\ owner # None
    /\ owner' = None
    /\ UNCHANGED <<version, holders, destination, job, told>>

(* A process runs one call at a time: no command while it duplicates. *)
SourceCommits ==
    /\ owner # None
    /\ job[owner].step = "none"
    /\ version < MaxVersion
    /\ version' = version + 1
    /\ UNCHANGED <<owner, holders, destination, job, told>>

-----------------------------------------------------------------------------
(* duplicate_session                                                        *)

At(p, step) == job[p].step = step
Goto(p, step) == job' = [job EXCEPT ![p].step = step]
EndJob(p, kind, v) ==
    /\ job' = [job EXCEPT ![p] = NoJob]
    /\ told' = [told EXCEPT ![p] = [kind |-> kind, version |-> v]]

(* Drop for DuplicateDestGuard: not disarmed, so the directory goes, with    *)
(* whatever is in it.  An error of remove_dir_all is ignored.                *)
RemoveDirectory == dir' = FALSE /\ tmp' = NoFile /\ db' = NoFile

ReturnErrorDisarmed(p) == UNCHANGED destination /\ EndJob(p, "error", 0)

ReturnErrorUnguarded(p) ==   \* variant: there is no guard
    UNCHANGED destination /\ EndJob(p, "error", 0)

ReturnErrorArmed(p) ==
    /\ UNCHANGED files
    /\ \/ RemoveDirectory /\ EndJob(p, "error", 0)
       \/ /\ "removal" \in Uncleaned
          /\ UNCHANGED <<dir, db>> /\ tmp' \in {tmp, NoFile}
          /\ EndJob(p, "uncleaned", 0)

(* The source is loaded, then the directory is looked for. *)
StartUnchecked(p) ==    \* variant: an existing destination is not refused
    /\ p \in holders /\ At(p, "none")
    /\ job' = [job EXCEPT ![p] = [step |-> "create", loaded |-> version, file |-> NoFile]]
    /\ UNCHANGED <<source, destination, told>>

Start(p) ==
    /\ p \in holders /\ At(p, "none")
    /\ ~dir             \* otherwise duplicate-session-exists
    /\ job' = [job EXCEPT ![p] = [step |-> "create", loaded |-> version, file |-> NoFile]]
    /\ UNCHANGED <<source, destination, told>>

CreateDirectory(p) ==
    /\ At(p, "create")
    /\ dir' = TRUE
    /\ Goto(p, "revalidate")
    /\ UNCHANGED <<source, tmp, db, files, told>>

(* revalidate_writer_on_connection: the last look at the ownership *)
Revalidate(p) ==
    /\ At(p, "revalidate")
    /\ UNCHANGED source
    /\ IF owner = p THEN Goto(p, "copy") /\ UNCHANGED <<destination, told>>
       ELSE ReturnErrorArmed(p)

(* The temporary database and the backup, which is one snapshot of the source *)
(* as it is when the copy ends.                                              *)
Copy(p) ==
    /\ At(p, "copy")
    /\ UNCHANGED source
    /\ IF ~dir
       THEN ReturnErrorArmed(p)
       ELSE /\ IF tmp # NoFile
               THEN /\ UNCHANGED tmp
                    /\ files' = [files EXCEPT ![tmp] = [version |-> version, own |-> FALSE]]
               ELSE /\ Len(files) < MaxFiles
                    /\ tmp' = Len(files) + 1
                    /\ files' = Append(files, [version |-> version, own |-> FALSE])
            /\ job' = [job EXCEPT ![p] = [@ EXCEPT !.step = "identity", !.file = tmp']]
            /\ UNCHANGED <<dir, db, told>>

(* The identity transaction *)
ChangeIdentity(p) ==
    /\ At(p, "identity")
    /\ files' = [files EXCEPT ![job[p].file].own = TRUE]
    /\ Goto(p, "validate")
    /\ UNCHANGED <<source, dir, tmp, db, told>>

(* The oracle compares the copy with what was loaded from the source. *)
ValidateNothing(p) ==   \* variant: published without the comparison
    /\ At(p, "validate") /\ UNCHANGED source
    /\ Goto(p, "publish") /\ UNCHANGED <<destination, told>>

Validate(p) ==
    /\ At(p, "validate")
    /\ UNCHANGED source
    /\ IF files[job[p].file] = [version |-> job[p].loaded, own |-> TRUE]
       THEN Goto(p, "publish") /\ UNCHANGED <<destination, told>>
       ELSE ReturnErrorArmed(p)

(* rename, and the guard is disarmed *)
Publish(p) ==
    /\ At(p, "publish")
    /\ UNCHANGED source
    /\ IF tmp = NoFile
       THEN ReturnErrorArmed(p)
       ELSE /\ db' = tmp /\ tmp' = NoFile
            /\ Goto(p, "verify")
            /\ UNCHANGED <<dir, files, told>>

(* The published database is opened by its name and its identity compared. *)
VerifyPublished(p) ==
    /\ At(p, "verify")
    /\ UNCHANGED source
    /\ IF db # NoFile /\ files[db].own
       THEN Goto(p, "source") /\ UNCHANGED <<destination, told>>
       ELSE ReturnErrorDisarmed(p)

(* The source is loaded again; duplicate-source-mutated when it has changed. *)
VerifySource(p) ==
    /\ At(p, "source")
    /\ UNCHANGED <<source, destination>>
    /\ IF version = job[p].loaded
       THEN EndJob(p, "ok", job[p].loaded)
       ELSE EndJob(p, "error", 0)

(* An I/O error or a ReturnError fault at any of these steps. *)
DuplicateFails(p) ==
    /\ UNCHANGED source
    /\ \/ job[p].step \in Unpublished /\ ReturnErrorArmed(p)
       \/ job[p].step \in Published /\ ReturnErrorDisarmed(p)

Dies(p) ==
    /\ "death" \in Uncleaned
    /\ ~At(p, "none")
    /\ holders' = holders \ {p}
    /\ EndJob(p, "died", 0)
    /\ UNCHANGED <<version, owner, destination>>

Duplicate(p) ==
    \/ Start(p) \/ CreateDirectory(p) \/ Revalidate(p) \/ Copy(p)
    \/ ChangeIdentity(p) \/ Validate(p) \/ Publish(p) \/ VerifyPublished(p)
    \/ VerifySource(p) \/ DuplicateFails(p)

Next ==
    \/ \E p \in Process : Acquire(p)
    \/ \E p \in Duplicator : Duplicate(p) \/ Dies(p)
    \/ LeaseExpires \/ SourceCommits

Spec == Init /\ [][Next]_vars

-----------------------------------------------------------------------------
(* What is published is a whole database with an identity of its own, and     *)
(* holds exactly the state its duplication loaded from the source, although    *)
(* the source may be committed to between the load, the copy and the           *)
(* publication (duplicate_session publishes only what it validated).           *)
PublishedIsSound ==
    db # NoFile =>
        /\ files[db].own
        /\ \A p \in Process : job[p].step \in Published => files[db].version = job[p].loaded

(* An answer Ok is good for ever: the session it names is there and holds the  *)
(* state the source had when its duplication began, whatever later calls for   *)
(* the same identity, their failures and their guards do.                      *)
AnsweredDuplicateStays ==
    \A p \in Process : told[p].kind = "ok" =>
        db # NoFile /\ files[db] = [version |-> told[p].version, own |-> TRUE]

(* When nobody is duplicating, an unpublished destination can only be the work  *)
(* of a call whose guard could not clean up: wherever else a call fails, and    *)
(* whatever other calls do meanwhile, the identity stays free for a retry.      *)
OnlyInterruptedCallsLeaveFiles ==
    (\A p \in Process : At(p, "none")) /\ dir /\ db = NoFile
        => \E p \in Process : told[p].kind \in {"uncleaned", "died"}
=============================================================================
