----------------------------- MODULE SqliteReader -----------------------------
(***************************************************************************)
(* A read-only handle on a session that writers are using (open(ReadOnly),   *)
(* read_normalized_state).  The reader takes no ownership and no              *)
(* transaction: it runs the loader's SELECTs one after another, so commits    *)
(* can fall between them, and on opening it may rewrite the derived cache.    *)
(***************************************************************************)
EXTENDS SqliteSession

VARIABLES
    reader,     \* closed, openingRest, rebuild, open or readingRest
    partial,    \* what its current load has collected
    lastRead    \* the state its last successful load returned (history)

readerVars == <<reader, partial, lastRead>>

ReaderInit ==
    /\ Init
    /\ reader = "closed"
    /\ partial = NoState
    /\ lastRead = NoState

WritersUnchanged == UNCHANGED <<fresh, clock, issued, handle, lastClock, job, answered>>

(* What the second half of load_from_connection completes the first one to. *)
Collected == [partial EXCEPT !.selection = content.selection,
                             !.artifacts = content.artifacts]

ReaderLoadLedger ==
    /\ \/ reader = "closed" /\ reader' = "openingRest"
       \/ reader = "open" /\ reader' = "readingRest"
    /\ partial' = FirstHalf
    /\ UNCHANGED <<database, lastRead>> /\ WritersUnchanged

(* Either the load validates, or the caller is told canonical-corruption. *)
ReaderLoadRest ==
    /\ reader \in {"openingRest", "readingRest"}
    /\ reader' = IF ~Valid(Collected) THEN (IF reader = "openingRest" THEN "closed" ELSE "open")
                 ELSE IF reader = "openingRest" THEN "rebuild" ELSE "open"
    /\ lastRead' = IF Valid(Collected) THEN Collected ELSE lastRead
    /\ partial' = IF reader' = "rebuild" THEN Collected ELSE NoState
    /\ UNCHANGED database /\ WritersUnchanged

(* validate_or_rebuild_derived_cache, from what the reader has loaded *)
ReaderRebuild ==
    /\ reader = "rebuild"
    /\ reader' = "open"
    /\ cache' = partial.ledger
    /\ fresh' = IF cache' = cache THEN fresh ELSE {}
    /\ partial' = NoState
    /\ UNCHANGED <<content, record, owner, clock, issued, handle, lastClock, job,
                   answered, lastRead>>

ReaderClose ==
    /\ reader = "open"
    /\ reader' = "closed"
    /\ UNCHANGED <<database, partial, lastRead>> /\ WritersUnchanged

ReaderNext ==
    \/ Next /\ UNCHANGED readerVars
    \/ ReaderLoadLedger \/ ReaderLoadRest \/ ReaderRebuild \/ ReaderClose

ReaderSpec == ReaderInit /\ [][ReaderNext]_<<vars, readerVars>>

-----------------------------------------------------------------------------
(* What a reader has once been shown is never missing from a later read:      *)
(* committed history survives crashes, takeovers and whole-table rewrites.     *)
ReadsNeverRegress ==
    [][/\ lastRead.ledger \subseteq lastRead'.ledger
       /\ lastRead.analyses \subseteq lastRead'.analyses
       /\ lastRead'.artifacts \subseteq lastRead.artifacts \/ lastRead = NoState]_lastRead

(* The queue index never names an event the ledger does not hold, although     *)
(* readers and writers rebuild it from loads that may be out of date.          *)
CacheDerivesFromLedger == cache \subseteq content.ledger
=============================================================================
