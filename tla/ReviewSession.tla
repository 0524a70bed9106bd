------------------------------ MODULE ReviewSession ------------------------------
(***************************************************************************)
(* The review command: it parses a transcript and the session's terms, raises   *)
(* the cases the detectors find, asks for one decision about each, records it    *)
(* in an append-only ledger, derives the reviewed transcript from the accepted   *)
(* alternatives and writes three files.                                        *)
(*                                                                         *)
(* Input that is no decision, or accepts an alternative there is not, is asked    *)
(* for again and changes nothing.                                            *)
(***************************************************************************)
EXTENDS TermDetection

CONSTANTS
    SrtFiles,       \* what the input file may hold
    TermsFiles,     \* what the session terms file may hold
    Torn           \* a file whose writing failed

ASSUME ReviewAssumption ==
    SrtFiles \subseteq Seq(SrtLine) /\ TermsFiles \subseteq Seq(TermLine)

VARIABLES
    input,      \* the two files the command was started with
    segments,   \* the parsed transcript
    entries,    \* the parsed session terms
    cases,      \* the review cases, fixed by the analysis
    ledger,     \* ReviewLedger::events
    phase,      \* what the command does next
    files       \* the output files as this session left them

analysis == <<input, segments, entries, cases>>
vars == <<analysis, ledger, phase, files>>

Output == {"srt", "log", "summary"}

(* A canonical case has its entry's canonical term as the only alternative.     *)
Alternatives(c) == <<c.replacement>>

(* validate_decision *)
Valid(c, d) == d.kind = "accept" => d.alternative <= Len(Alternatives(c))

Init ==
    /\ input \in [srt : SrtFiles, terms : TermsFiles]
    /\ segments = <<>> /\ entries = <<>> /\ cases = <<>>
    /\ ledger = <<>>
    /\ phase = "read"
    /\ files = [f \in Output |-> None]

-----------------------------------------------------------------------------
(* The command up to its first question                                       *)
Proceed(next) == phase' = next
UpTo(next) == Proceed(next) \/ Proceed("error")     \* reading or printing may fail

ReadInputs ==
    /\ phase = "read"
    /\ UpTo("terms")
    /\ UNCHANGED <<analysis, ledger, files>>

ParseSessionTerms ==
    /\ phase = "terms"
    /\ IF TermsError(input.terms) = None
       THEN entries' = ParseTerms(input.terms) /\ Proceed("transcript")
       ELSE UNCHANGED entries /\ Proceed("error")
    /\ UNCHANGED <<input, segments, cases, ledger, files>>

ParseTranscript ==
    /\ phase = "transcript"
    /\ IF SrtError(input.srt) = None
       THEN segments' = ParseSrt(input.srt) /\ Proceed("report")
       ELSE UNCHANGED segments /\ Proceed("error")
    /\ UNCHANGED <<input, entries, cases, ledger, files>>

(* print_parse_summary counts the issues, which ends a debug build when the     *)
(* successor of an index overflows.                                          *)
ReportIssues ==
    /\ phase = "report"
    /\ UpTo("detect")
    /\ UNCHANGED <<analysis, ledger, files>>

(* run_term_review *)
Detect ==
    /\ phase = "detect"
    /\ IF DetectionError(RunFor(segments, entries), segments, entries) = None
       THEN cases' = TermReview(segments, entries) /\ Proceed("decide")
       ELSE UNCHANGED cases /\ Proceed("error")
    /\ UNCHANGED <<input, segments, entries, ledger, files>>

-----------------------------------------------------------------------------
(* ReviewLedger::status_for: the last decision about a case                  *)
Status(events, i) ==
    LET mine == {n \in DOMAIN events : events[n].case = i}
    IN  IF mine = {} THEN None
        ELSE events[CHOOSE n \in mine : \A m \in mine : m <= n].decision

Accepted(events) == {i \in DOMAIN cases : Status(events, i) # None
                                            /\ Status(events, i).kind = "accept"}

(* materializing_edits, sorted as reject_overlapping_edits sorts them         *)
EditOf(i) ==
    [case |-> i, segment |-> cases[i].segment, start |-> cases[i].start, end |-> cases[i].end,
     text |-> Alternatives(cases[i])[Status(ledger, i).alternative]]

EditKey(e) == <<e.segment, e.start, e.end, e.case>>

InEditOrder(edits) == Sorted(edits, LAMBDA e, f : LexLess(EditKey(e), EditKey(f)))

Edits == InEditOrder({EditOf(i) : i \in Accepted(ledger)})

(* Only neighbours are compared. *)
OverlapOrTouch(e, f) ==     \* variant: edits that touch are refused too
    e.segment = f.segment /\ e.start <= f.end /\ f.start <= e.end
Overlap(e, f) ==
    e.segment = f.segment /\ e.start < f.end /\ f.start < e.end

Refused == \E i \in 1..(Len(Edits) - 1) : Overlap(Edits[i], Edits[i + 1])

(* replace_range, from the last edit to the first *)
Replace(text, e) == SubSeq(text, 1, e.start) \o e.text \o SubSeq(text, e.end + 1, Len(text))

ApplyEdit(e, texts) == [texts EXCEPT ![e.segment] = Replace(@, e)]

SourceTexts == [n \in DOMAIN segments |-> segments[n].text]

Reviewed(edits) == FoldRight(ApplyEdit, edits, SourceTexts)

(* collect_session_summary *)
Summary ==
    LET Decided(kind) == {i \in DOMAIN cases : Status(ledger, i) # None
                                               /\ Status(ledger, i).kind = kind}
        Count(kind) == Cardinality(Decided(kind))
        Replacement(i) == EditOf(i).text
    IN  [events |-> Len(ledger), raised |-> Len(cases), terms |-> Len(entries),
         accept |-> Count("accept"), reject |-> Count("reject"),
         defer |-> Count("defer"), manual |-> Count("manual"),
         undecided |-> Cardinality({i \in DOMAIN cases : Status(ledger, i) = None}),
         segments |-> {cases[i].segment : i \in Accepted(ledger)},
         detectors |-> [d \in {cases[i].detector : i \in DOMAIN cases} |->
                           Cardinality({i \in DOMAIN cases : cases[i].detector = d})],
         replacements |-> [r \in {Replacement(i) : i \in Decided("accept")} |->
                              Cardinality({i \in Decided("accept") : Replacement(i) = r})]]

-----------------------------------------------------------------------------
Asked == Len(ledger) + 1

Decide(d) ==
    /\ phase = "decide" /\ Asked <= Len(cases)
    /\ Valid(cases[Asked], d)
    /\ ledger' = Append(ledger, [case |-> Asked, decision |-> d])
    /\ UNCHANGED <<analysis, phase, files>>

(* The input ends before every case is decided: nothing is written. *)
InputEnds ==
    /\ phase = "decide" /\ Asked <= Len(cases)
    /\ phase' = "error"
    /\ UNCHANGED <<analysis, ledger, files>>

AllDecided ==       \* without cases it says so, and printing may fail
    /\ phase = "decide" /\ Asked > Len(cases)
    /\ phase' \in {"derive"} \cup (IF cases = <<>> THEN {"error"} ELSE {})
    /\ UNCHANGED <<analysis, ledger, files>>

(* Everything is derived before anything is written. *)
Derive ==
    /\ phase = "derive"
    /\ phase' = IF Refused THEN "error" ELSE "srt"
    /\ UNCHANGED <<analysis, ledger, files>>

Contents ==
    [f \in Output |-> CASE f = "srt" -> Serialize(segments, Reviewed(Edits))
                        [] f = "log" -> ledger
                        [] f = "summary" -> Summary]

AfterSummaryFirst ==        \* variant: the log is written last
    [srt |-> "summary", summary |-> "log", log |-> "announce"]
After == [srt |-> "log", log |-> "summary", summary |-> "announce"]

Write(f) ==
    /\ phase = f
    /\ files' = [files EXCEPT ![f] = Contents[f]]
    /\ phase' = After[f]
    /\ UNCHANGED <<analysis, ledger>>

WriteFails(f) ==
    /\ phase = f
    /\ files' \in {files, [files EXCEPT ![f] = Torn]}
    /\ phase' = "error"
    /\ UNCHANGED <<analysis, ledger>>

(* The last lines on the terminal; the files stay when they cannot be printed.  *)
Announce ==
    /\ phase = "announce"
    /\ UpTo("ok")
    /\ UNCHANGED <<analysis, ledger, files>>

Inputs == {[kind |-> k, alternative |-> 0] : k \in {"reject", "defer", "manual"}}
           \cup {[kind |-> "accept", alternative |-> n] : n \in 1..2}

ASSUME DecisionAssumption == None \notin Inputs

Next ==
    \/ ReadInputs \/ ParseSessionTerms \/ ParseTranscript \/ ReportIssues \/ Detect
    \/ \E d \in Inputs : Decide(d)
    \/ InputEnds \/ AllDecided \/ Derive \/ Announce
    \/ \E f \in Output : Write(f) \/ WriteFails(f)

Spec == Init /\ [][Next]_vars

-----------------------------------------------------------------------------
(* A candidate key (detector and anchor) names one case, so that a decision about  *)
(* it means one replacement (CandidateKey, collect_canonical_spans).             *)
KeysNameOneCase ==
    \A i, j \in DOMAIN cases : SpanKey(cases[i]) = SpanKey(cases[j]) => i = j

Covers(i, s, p) == cases[i].segment = s /\ cases[i].start < p /\ p <= cases[i].end

(* What a segment should become, byte by byte and with no regard to the order of   *)
(* edits: the replacement of the accepted case that begins at a byte, and the      *)
(* byte itself where no accepted case covers it.                               *)
Expected(s) ==
    FlattenSeq([p \in DOMAIN segments[s].text |->
        IF \E i \in Accepted(ledger) : Covers(i, s, p)
        THEN LET i == CHOOSE i \in Accepted(ledger) : Covers(i, s, p)
             IN  IF p = cases[i].start + 1 THEN EditOf(i).text ELSE <<>>
        ELSE <<segments[s].text[p]>>])

(* The reviewed file, read again, is the source's cues in their order with their    *)
(* times, and each text differs from the source by the accepted alternatives alone,  *)
(* each in the place its case marks: no edit moves the place of another, and no       *)
(* replacement ends a cue early or runs two together (derive_reviewed_srt,            *)
(* serialize_canonical_srt, parse_srt).                                        *)
OutputReparses ==
    files["srt"] \notin {None, Torn} =>
        /\ SrtError(files["srt"]) = None
        /\ ParseSrt(files["srt"]) =
               [s \in DOMAIN segments |-> [segments[s] EXCEPT !.text = Expected(s)]]

(* A review is refused when, and only when, two accepted cases share a byte,      *)
(* although only neighbouring edits are compared (reject_overlapping_edits).       *)
RefusedForOverlapOnly ==
    phase = "derive" =>
        (Refused <=> \E i, j \in Accepted(ledger), s \in DOMAIN segments :
                        i # j /\ \E p \in DOMAIN segments[s].text : Covers(i, s, p) /\ Covers(j, s, p))

(* A summary that was written stands beside the derived transcript and the whole    *)
(* log of the same session, and its counts are those of the logged decisions: each case   *)
(* is counted once, by its decision, its detector and its replacement             *)
(* (run_review_command, collect_session_summary).                              *)
SummaryAgreesWithFiles ==
    files["summary"] \notin {None, Torn} =>
        /\ files["srt"] = Contents["srt"] /\ files["log"] = ledger
        /\ LET log == files["log"]
               sum == files["summary"]
           IN  /\ sum.events = Len(log) /\ sum.undecided = 0
               /\ sum.accept + sum.reject + sum.defer + sum.manual = Len(cases)
               /\ sum.accept = Cardinality({n \in DOMAIN log : log[n].decision.kind = "accept"})
               /\ SumFunction(sum.replacements) = sum.accept
               /\ SumFunction(sum.detectors) = sum.raised
=============================================================================
