---------------------------- MODULE CalibrationJoin ----------------------------
(***************************************************************************)
(* The calibration commands.  Compare records which cues of a raw transcript    *)
(* were changed in a final one; evaluate relates the edits of the changed cues    *)
(* to the review cases the raw transcript raises and to the session's terms.      *)
(* Either writes its report into a file that must not exist yet, and they may     *)
(* run side by side with the same destination.                                *)
(*                                                                         *)
(* Identifiers made of numbers are those numbers, and lists that are sorted by    *)
(* such identifiers are sets.                                                 *)
(***************************************************************************)
EXTENDS TermDetection, LocalEdits

CONSTANTS
    Inputs,         \* records raw, final and terms: what the input files may hold
    Compare, Evaluate,  \* the two commands
    Input, Other    \* what an input file, and a file of somebody else, holds

(* The input files are files of lines, and the commands are two.                *)
ASSUME InputsAssumption ==
    Inputs \subseteq [raw : Seq(SrtLine), final : Seq(SrtLine), terms : Seq(TermLine)]
ASSUME CommandsAssumption == Compare # Evaluate

Commands == {Compare, Evaluate}
Paths == {"raw", "final", "terms", "out"}

(* The report a command writes, and a part of it *)
Report(c) == <<c, "whole">>
Part(c) == <<c, "part">>

(* What is no report of a command does not look like one, and a file is something *)
ASSUME ContentsAssumption ==
    /\ None \notin {Input, Other}
    /\ {None, Input, Other} \cap (Commands \X {"whole", "part"}) = {}

VARIABLES
    input,          \* the contents of the input files
    destination,    \* the path each command writes to
    disk,           \* what is at each path
    phase,          \* what each command does next
    report          \* what the evaluation found

vars == <<input, destination, disk, phase, report>>

-----------------------------------------------------------------------------
(* CalibrationEvaluationRefusal                                             *)
Refusals ==
    {"raw-has-validation-issues", "final-has-validation-issues", "cue-count-mismatch",
     "cue-index-mismatch", "start-timing-mismatch", "end-timing-mismatch",
     "local-diff-work-budget-exceeded", "analysis-failed", "binding-failure"}

ASSUME NoRefusalAssumption == None \notin Refusals

(* ensure_compatible *)
CueMismatch(raw, final, n) ==
    CASE raw[n].index # final[n].index -> "cue-index-mismatch"
      [] raw[n].from # final[n].from -> "start-timing-mismatch"
      [] raw[n].to # final[n].to -> "end-timing-mismatch"
      [] OTHER -> None

Incompatibility(raw, final) ==
    IF ValidationIssues(raw) # <<>> THEN "raw-has-validation-issues"
    ELSE IF ValidationIssues(final) # <<>> THEN "final-has-validation-issues"
    ELSE IF Len(raw) # Len(final) THEN "cue-count-mismatch"
    ELSE LET bad == {n \in DOMAIN raw : CueMismatch(raw, final, n) # None}
         IN  IF bad = {} THEN None ELSE CueMismatch(raw, final, Least(bad))

(* The cues whose text differs *)
Changed(raw, final) == {n \in DOMAIN raw : raw[n].text # final[n].text}

(* verify_run_bindings *)
Bound(run, raw, terms, cases) ==
    /\ run.revision = Revision(raw) /\ run.terms = terms
    /\ \A i \in DOMAIN cases :
        Resolves(raw, run.revision, cases[i].segment, cases[i].start, cases[i].end)

(* What evaluate_calibration_report is refused for, in its order *)
Refusal(raw, final, terms) ==
    LET run == RunFor(raw, terms)
    IN  IF Incompatibility(raw, final) # None THEN Incompatibility(raw, final)
        ELSE IF DetectionError(run, raw, terms) # None THEN "analysis-failed"
        ELSE IF ~Bound(run, raw, terms, TermReview(raw, terms)) THEN "binding-failure"
        ELSE IF \E n \in Changed(raw, final) : ~WithinBudget(raw[n].text, final[n].text)
             THEN "local-diff-work-budget-exceeded"
        ELSE None

-----------------------------------------------------------------------------
(* collect_term_forms: canonical terms (0), aliases (1) and error forms (2)       *)
TermForms(terms) ==
    {f \in UNION {LET e == terms[i] IN
           {[entry |-> i, kind |-> 0, nth |-> 1, owner |-> e.canonical, form |-> e.canonical]}
           \cup {[entry |-> i, kind |-> 1, nth |-> k, owner |-> e.canonical, form |-> e.aliases[k]] :
                   k \in DOMAIN e.aliases}
           \cup {[entry |-> i, kind |-> 2, nth |-> k, owner |-> e.canonical, form |-> e.errors[k]] :
                   k \in DOMAIN e.errors}
         : i \in DOMAIN terms} : f.form # <<>>}

(* full_region_matches and contained_occurrences *)
FullRegion(text, terms) == {f \in TermForms(terms) : f.form = text}

Contained(text, terms) ==
    {c \in (0..(Len(text) - 1)) \X TermForms(terms) :
        /\ CharBoundary(text, c[1]) /\ c[1] + Len(c[2].form) <= Len(text)
        /\ Occurs(text, c[2].form, c[1])}

(* The edits of all cues, and of each the terms in its final text                *)
EditRecord(raw, final, terms, n, e) ==
    LET text == Slice(final[n].text, e.finalFrom, e.finalTo)
    IN  [segment |-> n, edit |-> e, text |-> text, whole |-> FullRegion(text, terms),
         within |-> Contained(text, terms)]

RecordsOf(raw, final, terms, n, edits) ==
    [k \in DOMAIN edits |-> EditRecord(raw, final, terms, n, edits[k])]

EditRecords(raw, final, terms) ==
    FlattenSeq([n \in DOMAIN raw |->
        RecordsOf(raw, final, terms, n, LocalEdits(raw[n].text, final[n].text))])

-----------------------------------------------------------------------------
(* ranges_overlap, of a case and an edit that is no insertion                   *)
Overlaps(c, r) ==
    c.segment = r.segment /\ ~IsInsertion(r.edit) /\ c.start < r.edit.to /\ r.edit.from < c.end

(* overlap_geometry *)
GeometryByStart(c, r) ==        \* variant: the ends are not compared
    IF c.start = r.edit.from THEN "exact"
    ELSE IF c.start <= r.edit.from /\ c.end >= r.edit.to THEN "candidate-contains-edit"
    ELSE IF r.edit.from <= c.start /\ r.edit.to >= c.end THEN "edit-contains-candidate"
    ELSE "partial-overlap"

GeometryOf(c, r) ==
    IF c.start = r.edit.from /\ c.end = r.edit.to THEN "exact"
    ELSE IF c.start <= r.edit.from /\ c.end >= r.edit.to THEN "candidate-contains-edit"
    ELSE IF r.edit.from <= c.start /\ r.edit.to >= c.end THEN "edit-contains-candidate"
    ELSE "partial-overlap"

Edges(cases, edits) ==
    {e \in (DOMAIN cases) \X (DOMAIN edits) : Overlaps(cases[e[1]], edits[e[2]])}

(* The geometry of a case with all its edits *)
CaseGeometry(cases, edits, i) ==
    LET all == {GeometryOf(cases[i], edits[e[2]]) : e \in {e \in Edges(cases, edits) : e[1] = i}}
    IN  CASE all = {} -> None
          [] Cardinality(all) = 1 -> CHOOSE g \in all : TRUE
          [] OTHER -> "partial-overlap"

(* The exact relations: <<case, edit, alternative>>, of one alternative *)
ExactRelations(cases, edits) ==
    {<<e[1], e[2], 1>> : e \in
        {e \in Edges(cases, edits) : /\ GeometryOf(cases[e[1]], edits[e[2]]) = "exact"
                                     /\ cases[e[1]].replacement = edits[e[2]].text}}

CaseDegree(edges, i) == Cardinality({e \in edges : e[1] = i})
EditDegree(edges, k) == Cardinality({e \in edges : e[2] = k})

CaseState(raw, final, cases, edges, i) ==
    IF cases[i].segment \notin Changed(raw, final) THEN "on-unchanged-cue"
    ELSE CASE CaseDegree(edges, i) = 0 -> "changed-cue-no-overlap"
           [] CaseDegree(edges, i) = 1 -> "single-edit-overlap"
           [] OTHER -> "multiple-edit-overlap"

(* count_ambiguous_overlap_components: union-find over the edges in their order    *)
CaseNode(i) == <<"case", i>>
EditNode(k) == <<"edit", k>>
NodesOf(edges) == {CaseNode(e[1]) : e \in edges} \cup {EditNode(e[2]) : e \in edges}

Find(parent, node) ==
    LET root[n \in DOMAIN parent] == IF parent[n] = n THEN n ELSE root[parent[n]] IN root[node]

UnionOfNodes(parent, edge) ==           \* variant: the nodes and not their roots are joined
    [parent EXCEPT ![EditNode(edge[2])] = Find(parent, CaseNode(edge[1]))]
Union(parent, edge) ==
    [parent EXCEPT ![Find(parent, EditNode(edge[2]))] = Find(parent, CaseNode(edge[1]))]

AmbiguousComponents(edges) ==
    LET parent == FoldLeft(Union, [n \in NodesOf(edges) |-> n], Sorted(edges, LexLess))
        Degree(n) == IF n[1] = "case" THEN CaseDegree(edges, n[2]) ELSE EditDegree(edges, n[2])
    IN  Cardinality({Find(parent, n) : n \in {n \in NodesOf(edges) : Degree(n) > 1}})

-----------------------------------------------------------------------------
(* Edits that neither a case nor a term accounts for *)
Unclassified(edits, edges) ==
    {k \in DOMAIN edits : /\ EditDegree(edges, k) = 0
                          /\ edits[k].whole = {} /\ edits[k].within = {}}

EvaluationSummary(raw, final, cases, edits, edges) ==
    LET InState(state) ==
            Cardinality({i \in DOMAIN cases : CaseState(raw, final, cases, edges, i) = state})
        Edits(Kind(_)) == Cardinality({k \in DOMAIN edits : Kind(edits[k].edit)})
        overlapped == {k \in DOMAIN edits : EditDegree(edges, k) > 0}
    IN  [changed |-> Cardinality(Changed(raw, final)),
         unchanged |-> Len(raw) - Cardinality(Changed(raw, final)),
         insertions |-> Edits(IsInsertion), deletions |-> Edits(IsDeletion),
         replacements |-> Edits(LAMBDA e : ~IsInsertion(e) /\ ~IsDeletion(e)),
         onUnchanged |-> InState("on-unchanged-cue"),
         noOverlap |-> InState("changed-cue-no-overlap"),
         casesWithOverlap |-> Cardinality({i \in DOMAIN cases : CaseDegree(edges, i) > 0}),
         editsWithOverlap |-> Cardinality(overlapped),
         editsWithoutOverlap |-> Len(edits) - Cardinality(overlapped),
         multiCandidate |-> Cardinality({k \in DOMAIN edits : EditDegree(edges, k) > 1}),
         multiEdit |-> Cardinality({i \in DOMAIN cases : CaseDegree(edges, i) > 1}),
         ambiguous |-> AmbiguousComponents(edges)]

(* build_report_from_owned_run *)
EvaluationOf(raw, final, cases, edits, edges) ==
    [cases |-> cases, edits |-> edits, edges |-> edges,
     exact |-> ExactRelations(cases, edits),
     geometry |-> [i \in DOMAIN cases |-> CaseGeometry(cases, edits, i)],
     unclassified |-> Unclassified(edits, edges),
     summary |-> EvaluationSummary(raw, final, cases, edits, edges)]

Related(raw, final, cases, edits) ==
    EvaluationOf(raw, final, cases, edits, Edges(cases, edits))

Evaluation(raw, final, terms) ==
    Related(raw, final, TermReview(raw, terms), EditRecords(raw, final, terms))

-----------------------------------------------------------------------------
Raw == ParseSrt(input.raw)
Final == ParseSrt(input.final)
Nothing == [cases |-> <<>>, edits |-> <<>>]

Init ==
    /\ input \in Inputs
    /\ destination \in [Commands -> {"out", "raw"}]
    /\ \E out \in {None, Other} : disk = [p \in Paths |-> IF p = "out" THEN out ELSE Input]
    /\ phase = [c \in Commands |-> "start"]
    /\ report = Nothing

Proceed(c, next) == phase' = [phase EXCEPT ![c] = next]

(* run_evaluate_from_args compares the paths as they are written.                *)
Start(c) ==
    /\ phase[c] = "start"
    /\ IF c = Evaluate /\ destination[c] # "out" THEN Proceed(c, "error")
       ELSE Proceed(c, "parse") \/ Proceed(c, "error")      \* reading may fail
    /\ UNCHANGED <<input, destination, disk, report>>

Parse(c) ==
    /\ phase[c] = "parse"
    /\ IF \/ c = Evaluate /\ TermsError(input.terms) # None
          \/ SrtError(input.raw) # None \/ SrtError(input.final) # None
       THEN Proceed(c, "error") ELSE Proceed(c, "report")
    /\ UNCHANGED <<input, destination, disk, report>>

(* The successor of the greatest index panics in a debug build. *)
Build(c) ==
    LET refused == IF c = Compare THEN Incompatibility(Raw, Final)
                   ELSE Refusal(Raw, Final, ParseTerms(input.terms))
    IN  /\ phase[c] = "report"
        /\ \/ /\ refused = None
              /\ Proceed(c, "create")
              /\ report' = IF c = Evaluate
                           THEN Evaluation(Raw, Final, ParseTerms(input.terms)) ELSE report
           \/ /\ refused # None \/ Wraps(Raw) \/ Wraps(Final)
              /\ Proceed(c, "error")
              /\ UNCHANGED report
        /\ UNCHANGED <<input, destination, disk>>

(* write_comparison_report_exclusive, write_evaluation_report_exclusive          *)
CreateOrTruncate(c) ==      \* variant: a file that exists is opened
    /\ phase[c] = "create"
    /\ \/ Proceed(c, "write") /\ disk' = [disk EXCEPT ![destination[c]] = Part(c)]
       \/ Proceed(c, "error") /\ UNCHANGED disk
    /\ UNCHANGED <<input, destination, report>>

CreateOrCleanUp(c) ==       \* variant: what could not be created is removed
    /\ phase[c] = "create"
    /\ \/ /\ disk[destination[c]] = None
          /\ disk' = [disk EXCEPT ![destination[c]] = Part(c)]
          /\ Proceed(c, "write")
       \/ Proceed(c, "remove") /\ UNCHANGED disk
    /\ UNCHANGED <<input, destination, report>>

Create(c) ==
    /\ phase[c] = "create"
    /\ \/ /\ disk[destination[c]] = None
          /\ disk' = [disk EXCEPT ![destination[c]] = Part(c)]
          /\ Proceed(c, "write")
       \/ Proceed(c, "error") /\ UNCHANGED disk
    /\ UNCHANGED <<input, destination, report>>

Write(c) ==
    /\ phase[c] = "write"
    /\ \/ /\ disk' = [disk EXCEPT ![destination[c]] = Report(c)]
          /\ Proceed(c, "announce")
       \/ Proceed(c, "remove") /\ UNCHANGED disk
    /\ UNCHANGED <<input, destination, report>>

RemovePart(c) ==
    /\ phase[c] = "remove"
    /\ disk' \in {disk, [disk EXCEPT ![destination[c]] = None]}
    /\ Proceed(c, "error")
    /\ UNCHANGED <<input, destination, report>>

Announce(c) ==
    /\ phase[c] = "announce"
    /\ Proceed(c, "ok") \/ Proceed(c, "error")
    /\ UNCHANGED <<input, destination, disk, report>>

Next == \E c \in Commands :
    Start(c) \/ Parse(c) \/ Build(c) \/ Create(c) \/ Write(c) \/ RemovePart(c) \/ Announce(c)

Spec == Init /\ [][Next]_vars

-----------------------------------------------------------------------------
Evaluated == phase[Evaluate] = "create"
EditsIn(n) ==
    AtPlaces(report.edits, {k \in DOMAIN report.edits : report.edits[k].segment = n})

Spliced(text, edits) ==
    FoldRight(LAMBDA r, t : SubSeq(t, 1, r.edit.from) \o r.text
                            \o SubSeq(t, r.edit.to + 1, Len(t)), edits, text)

(* a as the characters at some places of b, in their order *)
IsSubsequence(a, b) ==
    \E places \in SUBSET DOMAIN b : AtPlaces(b, places) = a
LongestCommon(a, b) ==
    LET common == {S \in SUBSET DOMAIN a : IsSubsequence(AtPlaces(a, S), b)}
    IN  CHOOSE n \in 0..Len(a) : /\ \E S \in common : Cardinality(S) = n
                                 /\ \A S \in common : Cardinality(S) <= n

Kept(n) ==      \* characters of the raw text that no edit takes away
    Len(Scalars(Raw[n].text)) -
        FoldLeft(LAMBDA m, r : m + Len(Scalars(Slice(Raw[n].text, r.edit.from, r.edit.to))),
                 0, EditsIn(n))

(* The reported edits of a cue make its final text of its raw one, whatever lies         *)
(* between the matches: bytes of characters, at the ends, or nothing (edits_from_matches,  *)
(* ScalarText::byte_range).                                                    *)
EditsMakeTheFinalText ==
    Evaluated => \A n \in DOMAIN Raw : Spliced(Raw[n].text, EditsIn(n)) = Final[n].text

(* They keep as many characters as any edits could: the divide and conquer never loses   *)
(* a match at the place where it cuts (hirschberg_matches).                     *)
EditsKeepTheMost ==
    Evaluated =>
        \A n \in Changed(Raw, Final) :
            Kept(n) = LongestCommon(Scalars(Raw[n].text), Scalars(Final[n].text))

(* The reported edits are right, and no other edits change less.                  *)
EditsAreMinimal == EditsMakeTheFinalText /\ EditsKeepTheMost

(* Two cases or edits are in one component when a chain of overlaps joins them *)
Beside(edges, S) ==
    S \cup {n \in NodesOf(edges) : \E m \in S, e \in edges : {m, n} = {CaseNode(e[1]), EditNode(e[2])}}
Component(edges, node) ==
    LET reach[k \in 0..Cardinality(edges)] ==
            IF k = 0 THEN {node} ELSE Beside(edges, reach[k - 1])
    IN  reach[Cardinality(edges)]

(* Every case and every edit is counted once in the summary, by the state of the     *)
(* case, the kind of the edit and its relation to the cases, although the counts    *)
(* come from records, degrees and edges that are gathered separately; and the        *)
(* ambiguous components are the connected parts of the overlap graph with more than   *)
(* one overlap (build_report_from_owned_run, count_ambiguous_overlap_components).    *)
CountsAgree ==
    Evaluated =>
        LET sum == report.summary IN
        /\ sum.onUnchanged + sum.noOverlap + sum.casesWithOverlap = Len(report.cases)
        /\ sum.insertions + sum.deletions + sum.replacements = Len(report.edits)
        /\ sum.editsWithOverlap + sum.editsWithoutOverlap = Len(report.edits)
        /\ sum.editsWithOverlap <= sum.deletions + sum.replacements
        /\ (sum.changed = 0) <=> (report.edits = <<>>)
        /\ sum.ambiguous =
               Cardinality({S \in {Component(report.edges, n) : n \in NodesOf(report.edges)} :
                               Cardinality(S) > 2})

(* An exact relation says that accepting the case's alternative and making the edit   *)
(* are the same change, and that nothing else of the case's bytes was edited: the    *)
(* geometry of the case is exact too (overlap_geometry, build_report_from_owned_run). *)
ExactMeansTheSameChange ==
    Evaluated => \A x \in report.exact :
        LET c == report.cases[x[1]]
            r == report.edits[x[2]]
        IN  /\ Raw[c.segment].text # Spliced(Raw[c.segment].text, <<r>>)
            /\ Spliced(Raw[c.segment].text, <<r>>)
                 = SubSeq(Raw[c.segment].text, 1, c.start) \o c.replacement
                   \o SubSeq(Raw[c.segment].text, c.end + 1, Len(Raw[c.segment].text))
            /\ report.geometry[x[1]] = "exact"
            /\ \A e \in report.edges : e[1] = x[1] => e[2] = x[2]

(* Whatever is at the destination when a command comes to write is left alone, and    *)
(* so are the inputs; two commands with one destination never touch each other's     *)
(* report (write_evaluation_report_exclusive).                                 *)
NothingOverwritten ==
    [][\A p \in Paths : disk[p] \in {Input, Other} \cup {Report(c) : c \in Commands}
           => disk'[p] = disk[p]]_vars

(* A command that says it is done left its whole report, whatever the other did, and   *)
(* nothing of a command is on disk before it created its file                     *)
(* (write_comparison_report_exclusive).                                        *)
ReportsAreWhole ==
    \A c \in Commands :
        /\ phase[c] \in {"announce", "ok"} => disk[destination[c]] = Report(c)
        /\ phase[c] \in {"start", "parse", "report", "create"} =>
            \A p \in Paths : disk[p] \notin {Report(c), Part(c)}
=============================================================================
