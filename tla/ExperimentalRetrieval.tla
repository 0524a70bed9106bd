------------------------ MODULE ExperimentalRetrieval ------------------------
(***************************************************************************)
(* What the experiment suggests beside the cases of a review: terms that are    *)
(* spelled like a window of Latin words, or sound like a run of Han characters,   *)
(* at most MaxCandidates for a place; and the two rankings of the suggestions     *)
(* for one place that need no other program.                                 *)
(***************************************************************************)
EXTENDS TermDetection

CONSTANTS
    PrimaryReading(_), AllReadings(_),  \* pinyin without tones of a character; <<>> if not Han
    MaxCandidates,          \* max_candidates_per_window
    MaxLatinDistance, MaxPinyinDistance,
    MaxExpansions,          \* max_pinyin_expansions
    MaxWindowWords          \* max_latin_window_tokens

ASSUME LimitsAssumption ==
    {MaxCandidates, MaxLatinDistance, MaxPinyinDistance, MaxExpansions, MaxWindowWords} \subseteq Nat

(* A character of one byte is no Han character. *)
ASSUME AsciiAssumption == \A byte \in 0..127 : PrimaryReading(<<byte>>) = <<>>

Plain(text) == \A i \in DOMAIN text : text[i] \in Letter \cup AsciiSpace
LettersOf(text) == Lowercase(AtPlaces(text, {i \in DOMAIN text : text[i] \in Letter}))
IsLatinTerm(term) == Plain(term) /\ LettersOf(term) # <<>>

(* Producers in the order of ExperimentalProducer *)
LatinWord == 1
LatinWords == 2
HanPinyin == 3

Suggestion(n, w, surface, producer, term, distance) ==
    [segment |-> n, start |-> w.start, end |-> w.end, surface |-> surface,
     producer |-> producer, term |-> term, distance |-> distance]

-----------------------------------------------------------------------------
(* latin_windows, of those of which latin_reports makes anything              *)
LatinWindows(text) ==
    LET words == Words(text)
        spans == {p \in (DOMAIN words) \X (DOMAIN words) :
                     p[1] <= p[2] /\ p[2] < p[1] + MaxWindowWords}
        Window(p) == [start |-> words[p[1]].start, end |-> words[p[2]].end]
    IN  {w \in {Window(p) : p \in spans} :
            LET surface == Slice(text, w.start, w.end) IN
            /\ Plain(surface)
            /\ \A token \in Range(Tokens(surface)) : Len(token) >= 2
            /\ Len(LettersOf(surface)) >= 3}

(* suppress_latin_candidate: the term stands in a larger window                *)
StandsIn(inner, outer) ==
    /\ Len(outer) > Len(inner) /\ inner # <<>>
    /\ \E k \in 0..(Len(outer) - Len(inner)) : SubSeq(outer, k + 1, k + Len(inner)) = inner

Embedded(surface, term) == StandsIn(Tokens(term), Tokens(surface))

(* latin_reports *)
Near(distance, source, target) ==
    /\ distance <= MaxLatinDistance
    /\ distance # IF Len(source) > Len(target) THEN Len(source) ELSE Len(target)

NearOrEqual(source, target) ==      \* variant: the term's own letters are near it
    Len(target) >= 3 /\ Near(Distance(source, target), source, target)

NearMiss(source, target) ==
    Len(target) >= 3 /\ source # target /\ Near(Distance(source, target), source, target)

LatinSuggests(surface, term, filtered) ==
    /\ IsLatinTerm(term)
    /\ ~(filtered /\ Embedded(surface, term))
    /\ NearMiss(LettersOf(surface), LettersOf(term))

LatinReports(n, text, entries, filtered) ==
    UNION {LET surface == Slice(text, w.start, w.end)
               producer == IF Len(Tokens(surface)) > 1 THEN LatinWords ELSE LatinWord
           IN  {Suggestion(n, w, surface, producer, e.canonical,
                           Distance(LettersOf(surface), LettersOf(e.canonical))) :
                   e \in {e \in Range(entries) : LatinSuggests(surface, e.canonical, filtered)}}
           : w \in LatinWindows(text)}

-----------------------------------------------------------------------------
IsHan(character) == PrimaryReading(character) # <<>>

(* han_windows: the maximal runs of Han characters *)
HanWindows(text) ==
    LET chars == Scalars(text)
        at == ByteStarts(text)
        Han(i) == i \in DOMAIN chars /\ IsHan(chars[i])
    IN  {[start |-> at[p[1]], end |-> at[p[2] + 1]] :
            p \in {p \in (DOMAIN chars) \X (DOMAIN chars) :
                      /\ ~Han(p[1] - 1) /\ ~Han(p[2] + 1)
                      /\ p[1] <= p[2] /\ \A i \in p[1]..p[2] : Han(i)}}

(* readings_with_primary_first *)
ReadingsOf(character) ==
    FoldLeft(LAMBDA found, r : IF Contains(found, r) THEN found ELSE Append(found, r),
             <<PrimaryReading(character)>>, AllReadings(character))

(* pinyin_expansion: the readings of a text, those of the last character first to   *)
(* vary, as many as the limit allows                                           *)
Expansion(text, limit) ==
    LET Extend(prefixes, character) ==
            FlattenSeq([p \in DOMAIN prefixes |->
                [r \in DOMAIN ReadingsOf(character) |-> prefixes[p] \o ReadingsOf(character)[r]]])
        all == FoldLeft(Extend, <<<<>>>>, Scalars(text))
    IN  SubSeq(all, 1, IF Len(all) < limit THEN Len(all) ELSE limit)

IsHanTerm(term) == term # <<>> /\ \A i \in DOMAIN Scalars(term) : IsHan(Scalars(term)[i])

(* representation_for_pinyin_target *)
PinyinTarget(term) ==
    IF IsHanTerm(term) THEN Expansion(term, 1)[1]
    ELSE IF IsLatinTerm(term) THEN LettersOf(term) ELSE <<>>

(* suppress_pinyin_candidate: one or two characters for an acronym             *)
Acronym(surface, term) ==
    /\ Len(Scalars(surface)) <= 2 /\ Len(term) \in 1..3
    /\ \A i \in DOMAIN term : term[i] \in Upper

(* pinyin_reports; what sounds exactly like the term is not suggested           *)
PinyinDistances(surface, term) ==
    {Distance(reading, PinyinTarget(term)) : reading \in Range(Expansion(surface, MaxExpansions))}

PinyinSuggests(surface, term, filtered) ==
    /\ PinyinTarget(term) # <<>>
    /\ ~(filtered /\ Acronym(surface, term))
    /\ Least(PinyinDistances(surface, term)) \in 1..MaxPinyinDistance

PinyinReports(n, text, entries, filtered) ==
    UNION {LET surface == Slice(text, w.start, w.end) IN
           {Suggestion(n, w, surface, HanPinyin, e.canonical,
                       Least(PinyinDistances(surface, e.canonical))) :
               e \in {e \in Range(entries) : PinyinSuggests(surface, e.canonical, filtered)}}
           : w \in HanWindows(text)}

-----------------------------------------------------------------------------
(* retrieve_experimental_candidates: sorted, of each window the first            *)
(* MaxCandidates; a candidate's identity is its place in the result             *)
AllReports(segments, entries, profile) ==
    UNION {LatinReports(n, segments[n].text, entries, profile.latin)
           \cup PinyinReports(n, segments[n].text, entries, profile.pinyin) : n \in DOMAIN segments}

Place(r) == <<r.segment, r.start, r.end>>

ReportKeyByTerm(r) == Place(r) \o <<r.producer>> \o r.term   \* variant: the distance is left out
ReportKey(r) == Place(r) \o <<r.producer, r.distance>> \o r.term

FirstOfPlaces(sorted) ==
    AtPlaces(sorted, {i \in DOMAIN sorted :
        Cardinality({j \in 1..(i - 1) : Place(sorted[j]) = Place(sorted[i])}) < MaxCandidates})

Reports(segments, entries, profile) ==
    FirstOfPlaces(Sorted(AllReports(segments, entries, profile),
                         LAMBDA r, s : LexLess(ReportKey(r), ReportKey(s))))

(* The groups of review_experimental_reports: the identities for each place       *)
Groups(reports) ==
    LET places == Sorted({Place(reports[k]) : k \in DOMAIN reports}, LexLess)
    IN  [g \in DOMAIN places |-> {k \in DOMAIN reports : Place(reports[k]) = places[g]}]

-----------------------------------------------------------------------------
Ranking(kind, selected, assessment, reasons) ==
    [kind |-> kind, selected |-> selected, assessment |-> assessment, reasons |-> reasons]

(* rules_only_result and fallback *)
NotRun == Ranking("not-run", None, None, {})
FellBack == Ranking("fell-back", None, None, {})

(* context_overlap: the words of a term, of two letters or more, that stand       *)
(* somewhere in a text                                                       *)
WordsFound(text, words) ==
    Cardinality({i \in DOMAIN words :
        /\ Len(words[i]) > 1
        /\ \E s \in 0..(Len(text) - Len(words[i])) : Occurs(text, words[i], s)})

ContextOverlap(context, term) ==
    WordsFound(Lowercase(context), TokensAt(term, Runs(term, Letter \cup 48..57)))

(* Identities are compared as they are written: 10 comes before 9.             *)
Digits(n) == IF n < 10 THEN <<n>> ELSE <<n \div 10, n % 10>>

(* deterministic_fake, of the reports of one group *)
(* told, near: how many words of each term the description and the segment have     *)
FakeKey(told, near, reports, k) ==
    <<-told[k], -near[k], reports[k].distance>> \o Digits(k - 1)

FakeReasons(told, near, reports, best) ==
    {r \in {"description", "context", "lowest-distance", "multiple-candidates"} :
        CASE r = "description" -> told[best] > 0
          [] r = "context" -> near[best] > 0
          [] r = "lowest-distance" ->
                \A k \in DOMAIN told : reports[best].distance <= reports[k].distance
          [] OTHER -> Cardinality(DOMAIN told) > 1}

FakeVerdict(selected, assessment, reasons) ==
    Ranking("succeeded", selected, assessment,
            (IF reasons = {} THEN {"none-supported"} ELSE reasons)
            \ (IF selected = None THEN {"lowest-distance"} ELSE {}))

FakeChoice(told, near, best, reasons) ==
    IF told[best] + near[best] > 0 THEN FakeVerdict(best, "strong", reasons)
    ELSE IF Cardinality(DOMAIN told) > 1 THEN FakeVerdict(None, "ambiguous", reasons)
    ELSE FakeVerdict(best, "plausible", reasons)

FakeRankingBy(told, near, reports) ==
    LET best == CHOOSE k \in DOMAIN told : \A other \in DOMAIN told \ {k} :
                    LexLess(FakeKey(told, near, reports, k), FakeKey(told, near, reports, other))
    IN  FakeChoice(told, near, best, FakeReasons(told, near, reports, best))

FakeRanking(description, context, reports, group) ==
    FakeRankingBy([k \in group |-> ContextOverlap(description, reports[k].term)],
                  [k \in group |-> ContextOverlap(context, reports[k].term)], reports)

(* validate_external_response: a response that is accepted                     *)
ValidRanking(r, group) ==
    /\ r.reasons # {}
    /\ r.selected \in group \cup {None}
    /\ r.assessment \in {"strong", "plausible"} <=> r.selected # None
    /\ r.assessment = "ambiguous" => "multiple-candidates" \in r.reasons
=============================================================================
