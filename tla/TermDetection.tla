----------------------------- MODULE TermDetection -----------------------------
(***************************************************************************)
(* The canonical detectors and the cases they raise: exact occurrences of       *)
(* aliases and of observed error forms, and phonetic similarity between        *)
(* windows of up to three words and the terms or aliases of exactly one entry.  *)
(*                                                                         *)
(* The phonetic keys are those of an external library (Double Metaphone).      *)
(***************************************************************************)
EXTENDS SessionTerms

CONSTANTS PrimaryKey(_), AlternateKey(_)    \* of a word in lower-case letters

MinTokenLen == 2
MaxTokenLen == 32
MaxWindowTokens == 3
MinNormalizedLen == 3
MaxNormalizedLen == 64
MaxAnchorBytes == 96
MinQualifyingPermille == 500

Upper == 65..90
Lower == 97..122
Letter == Upper \cup Lower
AsciiSpace == Space \ {11}

Lowercase(text) == [i \in DOMAIN text |-> IF text[i] \in Upper THEN text[i] + 32 ELSE text[i]]

(* Detectors by the rank of their names, which breaks ties in the order of cases *)
Phonetic == 1
Glossary == 2
Observed == 3

Span(position, start, end, detector, replacement) ==
    [segment |-> position, start |-> start, end |-> end, detector |-> detector,
     replacement |-> replacement]

-----------------------------------------------------------------------------
(* str::match_indices: occurrences from left to right that do not overlap      *)
Occurs(text, form, start) == Slice(text, start, start + Len(form)) = form

MatchStarts(text, form) ==
    LET all == {start \in 0..(Len(text) - Len(form)) : Occurs(text, form, start)}
    IN  CHOOSE found \in SUBSET all : \A start \in all :
            start \in found
            <=> \A earlier \in found : earlier < start => earlier + Len(form) <= start

FormsOf(detector, entry) == IF detector = Glossary THEN entry.aliases ELSE entry.errors

(* detect_glossary_matches and detect_observed_error_form_matches              *)
ExactSpans(segments, entries, detector) ==
    UNION {UNION {
        {Span(n, start, start + Len(form), detector, entry.canonical) :
            start \in MatchStarts(segments[n].text, form)}
        : form \in Range(FormsOf(detector, entry)) \ {entry.canonical}}
        : n \in DOMAIN segments, entry \in Range(entries)}

-----------------------------------------------------------------------------
(* The maximal runs of some characters in a text, as offsets in their order      *)
Runs(text, characters) ==
    LET runs == RunsOf({i \in DOMAIN text : text[i] \in characters})
    IN  [n \in DOMAIN runs |-> [start |-> runs[n].first - 1, end |-> runs[n].last]]

Words(text) == Runs(text, Letter)

(* parse_structural_ascii_latin_surface: one to three words of fitting length,   *)
(* between them nothing but ASCII whitespace                                    *)
TokensAt(surface, words) ==
    [n \in DOMAIN words |-> Lowercase(Slice(surface, words[n].start, words[n].end))]
Tokens(surface) == TokensAt(surface, Words(surface))

FittingTokens(tokens) ==
    /\ Len(tokens) <= MaxWindowTokens
    /\ \A n \in DOMAIN tokens : Len(tokens[n]) \in MinTokenLen..MaxTokenLen
    /\ Len(FlattenSeq(tokens)) \in MinNormalizedLen..MaxNormalizedLen

IsStructural(surface) ==
    /\ surface # <<>> /\ Len(surface) <= MaxAnchorBytes
    /\ surface[1] \in Letter /\ Last(surface) \in Letter
    /\ \A i \in DOMAIN surface : surface[i] \in Letter \cup AsciiSpace
    /\ FittingTokens(Tokens(surface))

(* eligible_tokens and source_windows of a segment: what stands between two words *)
(* of the text, where it is structural                                         *)
Windows(text) ==
    {w \in {[start |-> from.start, end |-> to.end] : from, to \in Range(Words(text))} :
        w.start < w.end /\ IsStructural(Slice(text, w.start, w.end))}

-----------------------------------------------------------------------------
(* build_phonetic_targets: canonical terms (rank 0) and aliases (rank 1), of     *)
(* those of one owner with the same letters only the first                     *)
Target(surface, rank, owner, tokens) ==
    [surface |-> surface, rank |-> rank, owner |-> owner, tokens |-> tokens,
     letters |-> FlattenSeq(tokens)]

TargetKey(t) == <<t.rank>> \o Lowercase(t.surface) \o <<-1>> \o t.surface

FirstOfEach(targets) ==
    {t \in targets : \A u \in targets : u.owner = t.owner /\ u.letters = t.letters
                                      => ~LexLess(TargetKey(u), TargetKey(t))}

TargetsOf(entries) ==
    FirstOfEach({Target(f[1], f[2], f[3], Tokens(f[1])) :
        f \in {f \in UNION {{<<e.canonical, 0, e.canonical>>}
                            \cup {<<a, 1, e.canonical>> : a \in Range(e.aliases)}
                            : e \in Range(entries)} : IsStructural(f[1])}})

(* levenshtein_bytes, row by row                                              *)
NextRow(previous, byte, right) ==
    FoldLeft(LAMBDA row, j :
                 Append(row, Least({previous[j] + (IF right[j] = byte THEN 0 ELSE 1),
                                    Last(row) + 1, previous[j + 1] + 1})),
             <<previous[1] + 1>>, [j \in DOMAIN right |-> j])

Distance(left, right) ==
    Last(FoldLeft(LAMBDA row, byte : NextRow(row, byte, right),
                  [j \in 1..(Len(right) + 1) |-> j - 1], left))

(* compare_representations: a common key and half of the letters in common      *)
Keys(letters) == {PrimaryKey(letters), AlternateKey(letters)} \ {<<>>}

Permille(a, b) ==
    LET longer == IF Len(a) > Len(b) THEN Len(a) ELSE Len(b)
    IN  ((longer - Distance(a, b)) * 1000) \div longer

Qualifies(letters, target) ==
    /\ Keys(letters) \cap Keys(target.letters) # {}
    /\ Permille(letters, target.letters) >= MinQualifyingPermille

(* detect_ascii_latin_phonetic_matches of one window: the owners that qualify,    *)
(* none when the window is a target itself; with several the window is dropped   *)
Owners(tokens, targets) ==
    IF \E t \in targets : t.tokens = tokens THEN {}
    ELSE {t.owner : t \in {t \in targets : Qualifies(FlattenSeq(tokens), t)}}

AnyOwner(owners) == owners      \* variant: a span for each owner
SingleOwner(owners) == IF Cardinality(owners) = 1 THEN owners ELSE {}

SpansNear(targets, segments) ==
    UNION {UNION {
        {Span(n, w.start, w.end, Phonetic, owner) :
            owner \in SingleOwner(Owners(Tokens(Slice(segments[n].text, w.start, w.end)), targets))}
        : w \in Windows(segments[n].text)} : n \in DOMAIN segments}

PhoneticSpans(segments, entries) == SpansNear(TargetsOf(entries), segments)

-----------------------------------------------------------------------------
(* collect_canonical_spans: sorted by segment, byte range and detector, and     *)
(* numbered in that order (ReviewCase::from_detector_candidates)                *)
SpanKey(c) == <<c.segment, c.start, c.end, c.detector>>

CanonicalSpans(segments, entries) ==
    ExactSpans(segments, entries, Glossary)
    \cup ExactSpans(segments, entries, Observed)
    \cup PhoneticSpans(segments, entries)

InSpanOrder(spans) ==
    Sorted(spans, LAMBDA c, d : LexLess(SpanKey(c) \o c.replacement, SpanKey(d) \o d.replacement))

TermReview(segments, entries) == InSpanOrder(CanonicalSpans(segments, entries))
=============================================================================
