--------------------------- MODULE ExperimentSession ---------------------------
(***************************************************************************)
(* The review command and the experimental one.  An experiment is a review that   *)
(* first shows suggestions, place by place, with a ranking of them, and asks for    *)
(* one selection at each; a selection leaves a marker in a file of its own, the     *)
(* sidecar, and nothing else.                                                  *)
(***************************************************************************)
EXTENDS ReviewSession, ExperimentalRetrieval

CONSTANT Commands       \* what is started: the input files and, of an experiment, its setting

Rankers == {"rules-only", "fake", "external-command"}

(* A setting's profiles filter, or take everything (UnfilteredBaselineV1).       *)
Setting == [ranker : Rankers, description : Seq(Byte), latin : BOOLEAN, pinyin : BOOLEAN]

ASSUME CommandAssumption ==
    \A c \in Commands : /\ c.input \in [srt : SrtFiles, terms : TermsFiles]
                        /\ c.setting \in Setting \cup {None}

VARIABLES
    setting,    \* None for the review command
    reports,    \* the suggestions
    rankings,   \* of the groups of reports that were shown, in their order
    markers,    \* the reports that were selected, in the order of their groups
    sidecar     \* the experiment's report file

experiment == <<setting, reports, rankings, markers, sidecar>>
allVars == <<vars, experiment>>

Experimental == setting # None

(* An experiment as a review: what goes before the detectors is part of the report *)
(* on the transcript, and what is written before the files is about to write them. *)
ReviewPhase ==
    CASE phase \in {"retrieve", "rank"} -> "report"
      [] phase = "sidecar" -> "srt"
      [] OTHER -> phase

Review == INSTANCE ReviewSession
    WITH phase <- ReviewPhase, input <- input, segments <- segments, entries <- entries,
         cases <- cases, ledger <- ledger, files <- files

ExperimentInit ==
    /\ \E c \in Commands : input = c.input /\ setting = c.setting
    /\ segments = <<>> /\ entries = <<>> /\ cases = <<>> /\ ledger = <<>>
    /\ phase = "read" /\ files = [f \in Output |-> None]
    /\ reports = <<>> /\ rankings = <<>> /\ markers = <<>> /\ sidecar = None

-----------------------------------------------------------------------------
ReportToExperimenter ==
    /\ phase = "report" /\ Experimental
    /\ UpTo("retrieve")
    /\ UNCHANGED <<analysis, ledger, files, experiment>>

Retrieve ==
    /\ phase = "retrieve"
    /\ reports' = Reports(segments, entries, setting)
    /\ Proceed("rank")
    /\ UNCHANGED <<analysis, ledger, files, setting, rankings, markers, sidecar>>

(* What an external ranker may answer; the reasons only matter for which they are  *)
External(group) ==
    {FellBack} \cup
    {r \in {Ranking("succeeded", k, assessment, {reason}) :
               k \in group \cup {None},
               assessment \in {"strong", "plausible", "ambiguous", "unsupported"},
               reason \in {"multiple-candidates", "none-supported"}} :
        ValidRanking(r, group)}

(* rank_experimental_candidates *)
RankingsOf(group) ==
    LET context == segments[reports[Least(group)].segment].text IN
    CASE setting.ranker = "rules-only" -> {NotRun}
      [] setting.ranker = "fake" -> {FakeRanking(setting.description, context, reports, group)}
      [] setting.ranker = "external-command" -> External(group)

Shown == Groups(reports)[Len(rankings) + 1]
GroupLeft == phase = "rank" /\ Len(rankings) < Len(Groups(reports))

SelectAndDecide(k) ==       \* variant: the selection is taken for a decision
    /\ GroupLeft /\ k \in Shown
    /\ \E r \in RankingsOf(Shown) : rankings' = Append(rankings, r)
    /\ markers' = Append(markers, k)
    /\ ledger' = Append(ledger, [case |-> 1, decision |-> [kind |-> "accept", alternative |-> 1]])
    /\ UNCHANGED <<analysis, phase, files, setting, reports, sidecar>>

Select(k) ==                \* "s <candidate-id>"
    /\ GroupLeft /\ k \in Shown
    /\ \E r \in RankingsOf(Shown) : rankings' = Append(rankings, r)
    /\ markers' = Append(markers, k)
    /\ UNCHANGED <<vars, setting, reports, sidecar>>

SelectNone ==               \* "n"
    /\ GroupLeft
    /\ \E r \in RankingsOf(Shown) : rankings' = Append(rankings, r)
    /\ UNCHANGED <<vars, setting, reports, markers, sidecar>>

(* Anything else, the end of the input and a failing terminal end the experiment.  *)
SelectionFails ==
    /\ GroupLeft
    /\ Proceed("error")
    /\ UNCHANGED <<analysis, ledger, files, experiment>>

AllShown ==
    /\ phase = "rank" /\ ~GroupLeft
    /\ Proceed("detect")
    /\ UNCHANGED <<analysis, ledger, files, experiment>>

DeriveBesideSidecar ==
    /\ phase = "derive" /\ Experimental
    /\ Proceed(IF Refused THEN "error" ELSE "sidecar")
    /\ UNCHANGED <<analysis, ledger, files, experiment>>

(* ExperimentalRunSidecar *)
Sidecar == [setting |-> setting, reports |-> reports, rankings |-> rankings, markers |-> markers]

WriteSidecar ==
    /\ phase = "sidecar"
    /\ sidecar' = Sidecar
    /\ Proceed("srt")
    /\ UNCHANGED <<analysis, ledger, files, setting, reports, rankings, markers>>

SidecarFails ==
    /\ phase = "sidecar"
    /\ sidecar' \in {sidecar, Torn}
    /\ Proceed("error")
    /\ UNCHANGED <<analysis, ledger, files, setting, reports, rankings, markers>>

-----------------------------------------------------------------------------
(* The steps both commands have *)
ReviewStep ==
    \/ ReadInputs \/ ParseSessionTerms \/ ParseTranscript \/ Detect
    \/ ReportIssues /\ ~Experimental
    \/ \E d \in Inputs : Decide(d)
    \/ InputEnds \/ AllDecided \/ Announce
    \/ Derive /\ ~Experimental
    \/ \E f \in Output : Write(f) \/ WriteFails(f)

ExperimentStep ==
    \/ ReportToExperimenter \/ Retrieve
    \/ \E k \in DOMAIN reports : Select(k)
    \/ SelectNone \/ SelectionFails \/ AllShown
    \/ DeriveBesideSidecar \/ WriteSidecar \/ SidecarFails

ExperimentNext == (ReviewStep /\ UNCHANGED experiment) \/ ExperimentStep

ExperimentSpec == ExperimentInit /\ [][ExperimentNext]_allVars

-----------------------------------------------------------------------------
(* Whatever is suggested, ranked and selected, an experiment is a review: the same   *)
(* questions, the same decisions and the same files follow from its inputs and its   *)
(* answers ("non-exact suggestions are not review cases and cannot change reviewed   *)
(* SRT", run_experiment_command).                                               *)
ImplementsReview == Review!Spec

(* What the limit for a place drops is never closer to the source than what it        *)
(* keeps there (retrieve_experimental_candidates).                               *)
ClosestAreKept ==
    phase = "rank" /\ rankings = <<>> =>
        \A r \in AllReports(segments, entries, setting) \ Range(reports) :
            /\ Cardinality({k \in DOMAIN reports : Place(reports[k]) = Place(r)}) = MaxCandidates
            /\ \A k \in DOMAIN reports :
                   Place(reports[k]) = Place(r) => reports[k].distance <= r.distance

-----------------------------------------------------------------------------
WithAlias(lines, term, alias) ==
    [l \in DOMAIN lines |->
        IF lines[l].content /\ lines[l].canonical = term
        THEN [lines[l] EXCEPT !.forms = Append(@, [prefix |-> "alias", value |-> alias])]
        ELSE lines[l]]

IsForm(text) == \E e \in Range(entries) : Contains(e.aliases \o e.errors, text)

(* The guidance of each marker ("Add `alias:...` to the existing session-term entry and    *)
(* rerun", review_experimental_reports) can be followed when, and only when, the        *)
(* surface is no source form yet: the terms file is accepted with the alias, and the    *)
(* review raises a case that proposes the term for that surface.  A surface of         *)
(* several lines cannot be an alias.                                               *)
GuidanceCanBeFollowed ==
    phase = "rank" /\ markers # <<>> =>
        LET r == reports[Last(markers)]
            lines == WithAlias(input.terms, r.term, r.surface)
        IN  ~Contains(r.surface, Newline) =>
                /\ TermsError(lines) = None <=> ~IsForm(r.surface)
                /\ ~IsForm(r.surface) =>
                       \E c \in Range(TermReview(segments, ParseTerms(lines))) :
                           /\ c.detector = Glossary /\ c.segment = r.segment
                           /\ c.replacement = r.term
                           /\ Slice(segments[c.segment].text, c.start, c.end) = r.surface
=============================================================================
