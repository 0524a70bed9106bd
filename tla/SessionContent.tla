---------------------------- MODULE SessionContent ----------------------------
(***************************************************************************)
(* The authoritative content of one review session and what the four       *)
(* authoritative commands do to it.  This is the data every storage         *)
(* candidate keeps: the normalized semantic state of model.rs, the command  *)
(* semantics of semantic_ops.rs and the parts of the semantic oracle that    *)
(* a command can make true or false.                                         *)
(*                                                                         *)
(* A command can only change four of the state's collections: the review    *)
(* ledger, the attached analysis results, the active selection and the      *)
(* artifacts.  The others (revisions, cases, knowledge references, retention *)
(* references) are fixed when the session is created; they appear here only *)
(* as the constants Refs and Retained.                                       *)
(***************************************************************************)
EXTENDS Integers, FiniteSets

CONSTANTS
    Event,      \* identities of review ledger events
    Analysis,   \* identities of analysis results
    Artifact,   \* identities of artifacts
    Mark,       \* identities of selection events (selection_event_id)
    Op,         \* command_operation_id values, UUIDs chosen by the callers
    Command,    \* the authoritative commands callers submit
    Seq,        \* Seq[e]: the sequence number event e carries
    Refs,       \* Refs[x]: what an event or analysis needs in order to resolve
    Retained,   \* artifacts named by a retention reference
    None,       \* Rust's Option::None
    CreatedWith \* the content a session is created with

Kinds == {"append", "attach", "select", "cleanup"}

Selection == [analysis : Analysis, mark : Mark]

(* The optimistic-concurrency expectations of a command.  A source revision *)
(* precondition is left out: no command changes the revisions.  Each field   *)
(* holds the expectations of one kind that the command states, none or more. *)
Precondition ==
    [head     : SUBSET (Event \cup {None}),
     active   : SUBSET (Analysis \cup {None}),
     attached : SUBSET SUBSET Analysis]

(* item: the event appended, or the analysis attached or selected;          *)
(* removes: the artifacts whose identity contains the cleanup plan's name.  *)
CommandType ==
    [op : Op, kind : Kinds, item : Event \cup Analysis \cup {None},
     mark : Mark \cup {None}, removes : SUBSET Artifact, pre : Precondition]

Content ==
    [ledger : SUBSET Event, analyses : SUBSET Analysis,
     selection : Selection \cup {None}, artifacts : SUBSET Artifact]

ASSUME CommandAssumption ==
    /\ Command \subseteq CommandType
    /\ \A c \in Command :
          /\ c.kind = "append" => c.item \in Event
          /\ c.kind \in {"attach", "select"} => c.item \in Analysis
          /\ c.kind = "select" => c.mark \in Mark

ASSUME SeqAssumption == Seq \in [Event -> Nat]

ASSUME IdentityAssumption ==
    /\ Event \cap Analysis = {}
    /\ None \notin Event \cup Analysis
    /\ None \notin Selection
    /\ None \notin [cmd : Command, acked : BOOLEAN]   \* the records of SessionStore

ASSUME CreatedAssumption ==
    /\ CreatedWith \in Content
    /\ \A d, e \in CreatedWith.ledger : Seq[d] = Seq[e] => d = e

-----------------------------------------------------------------------------
(* The ledger is read back ordered by sequence number, so a set and the     *)
(* numbers say all there is to say about its order.                         *)
IsHead(e, ledger) == e \in ledger /\ \A d \in ledger : Seq[d] <= Seq[e]

HeadMatches(expected, ledger) ==
    \/ expected = None /\ ledger = {}
    \/ IsHead(expected, ledger)

ActiveAnalysis(s) == IF s.selection = None THEN None ELSE s.selection.analysis

Satisfied(s, pre) ==
    /\ \A e \in pre.head : HeadMatches(e, s.ledger)
    /\ pre.active \subseteq {ActiveAnalysis(s)}
    /\ pre.attached \subseteq {s.analyses}

(* apply_command accepts c in state s *)
Applicable(s, c) ==
    /\ Satisfied(s, c.pre)
    /\ c.kind = "select" => c.item \in s.analyses

Effect(s, c) ==
    CASE c.kind = "append"  -> [s EXCEPT !.ledger = @ \cup {c.item}]
      [] c.kind = "attach"  -> [s EXCEPT !.analyses = @ \cup {c.item}]
      [] c.kind = "select"  ->
            [s EXCEPT !.selection = [analysis |-> c.item, mark |-> c.mark]]
      [] c.kind = "cleanup" -> [s EXCEPT !.artifacts = @ \ c.removes]

(* The PRIMARY KEY and UNIQUE constraints of the tables c's row goes into. *)
Storable(s, c) ==
    /\ c.kind = "append" => /\ c.item \notin s.ledger
                            /\ \A e \in s.ledger : Seq[e] # Seq[c.item]
    /\ c.kind = "attach" => c.item \notin s.analyses

(* What SemanticOracle::validate requires of the collections a command can  *)
(* change: every reference resolves and no retained artifact is missing.    *)
Valid(s) ==
    /\ \A x \in s.ledger \cup s.analyses : Refs[x] \subseteq s.ledger \cup s.analyses
    /\ s.selection # None => s.selection.analysis \in s.analyses
    /\ Retained \subseteq s.artifacts

-----------------------------------------------------------------------------
(* verify_committed_command_reconciliation: undo c on the state now stored, *)
(* replay it, and compare.  The replay appends at the end of the ledger, so *)
(* the comparison also fails when c's event is no longer the last one.      *)
BeforeAppend(s, c) == [s EXCEPT !.ledger = @ \ {c.item}]

BeforeAttach(s, c) == [s EXCEPT !.analyses = @ \ {c.item}]

(* Only a stated active-selection precondition tells what was selected      *)
(* before; otherwise the selection now stored is kept.                      *)
BeforeSelect(s, c) ==
    IF c.pre.active = {} THEN s
    ELSE LET expected == CHOOSE a \in c.pre.active : TRUE
         IN  [s EXCEPT !.selection =
                IF expected = None THEN None
                ELSE [analysis |-> expected, mark |-> "derived-precondition-selection"]]

Reconciles(s, c) ==
    /\ Valid(s)
    /\ \/ /\ c.kind = "append"
          /\ IsHead(c.item, s.ledger)
          /\ Satisfied(BeforeAppend(s, c), c.pre)
       \/ /\ c.kind = "attach"
          /\ c.item \in s.analyses
          /\ Satisfied(BeforeAttach(s, c), c.pre)
       \/ /\ c.kind = "select"
          /\ s.selection = [analysis |-> c.item, mark |-> c.mark]
          /\ Applicable(BeforeSelect(s, c), c)
       \/ /\ c.kind = "cleanup"
          /\ s.artifacts \cap c.removes = {}
=============================================================================
