------------------------ MODULE ExperimentSessionProofs ------------------------
(***************************************************************************)
(* Proofs about the review and the experimental command, for all inputs.         *)
(***************************************************************************)
EXTENDS ExperimentSession, TermDetectionProofs

(***************************************************************************)
(* An experiment is a review.  What the two say of data is the same, definition   *)
(* by definition; Review!X is the X of the review an experiment is taken for.    *)
(***************************************************************************)
(* The operators both are built from are the same.                            *)
LEMMA SameTools ==
    /\ \A S : Review!Cardinality(S) = Cardinality(S)
    /\ \A S : Review!InOrder(S) = InOrder(S)
    /\ \A s, S : Review!AtPlaces(s, S) = AtPlaces(s, S)
    /\ \A S : Review!Least(S) = Least(S)
    /\ \A S : Review!RunsOf(S) = RunsOf(S)
    /\ \A s : Review!FlattenSeq(s) = FlattenSeq(s)
    /\ \A s : Review!Last(s) = Last(s)
    /\ \A f : Review!Range(f) = Range(f)
    /\ \A a, b : Review!LexLess(a, b) <=> LexLess(a, b)
    /\ \A t, a, b : Review!Slice(t, a, b) = Slice(t, a, b)
<1>1. \A S : Review!Cardinality(S) = Cardinality(S)
  BY DEF Cardinality, Review!Cardinality
<1>2. \A S : Review!InOrder(S) = InOrder(S)
  BY DEF InOrder, Review!InOrder, Sorted, Review!Sorted, Cardinality, Review!Cardinality
<1>3. \A S : Review!Least(S) = Least(S)
  BY DEF Least, Review!Least
<1>4. \A S : Review!RunsOf(S) = RunsOf(S)
  BY <1>2 DEF RunsOf, Review!RunsOf
<1>5. \A s : Review!FlattenSeq(s) = FlattenSeq(s)
  BY DEF FlattenSeq, Review!FlattenSeq
<1>6. \A s : Review!Last(s) = Last(s)
  BY DEF Last, Review!Last
<1>7. \A f : Review!Range(f) = Range(f)
  BY DEF Range, Review!Range
<1>8. \A a, b : Review!LexLess(a, b) <=> LexLess(a, b)
  BY DEF LexLess, Review!LexLess, IsStrictPrefix, Review!IsStrictPrefix, IsPrefix, Review!IsPrefix
<1>9. \A t, a, b : Review!Slice(t, a, b) = Slice(t, a, b)
  BY DEF Slice, Review!Slice
<1>10. \A s, S : Review!AtPlaces(s, S) = AtPlaces(s, S)
  BY <1>2 DEF AtPlaces, Review!AtPlaces
<1> QED  BY <1>1, <1>2, <1>3, <1>4, <1>5, <1>6, <1>7, <1>8, <1>9, <1>10

(* Both read the session's terms in the same way. *)
LEMMA SameTerms ==
    \A lines : /\ Review!TermsError(lines) = TermsError(lines)
               /\ Review!ParseTerms(lines) = ParseTerms(lines)
<1>1. \A lines, l, f : Review!PrefixesSoFar(lines, l, f) = PrefixesSoFar(lines, l, f)
  BY DEF PrefixesSoFar, Review!PrefixesSoFar, Earlier, Review!Earlier
<1>2. \A lines, l, f : Review!FormError(lines, l, f) = FormError(lines, l, f)
  BY <1>1 DEF FormError, Review!FormError
<1>3. \A lines, l : Review!LineErrors(lines, l) = LineErrors(lines, l)
  <2>1. SUFFICES ASSUME NEW lines, NEW l PROVE Review!LineErrors(lines, l) = LineErrors(lines, l)
    OBVIOUS
  <2>2. [f \in DOMAIN lines[l].forms |-> Review!FormError(lines, l, f)]
            = [f \in DOMAIN lines[l].forms |-> FormError(lines, l, f)]
    BY <1>2
  <2>3. Review!CanonicalError(lines, l) = CanonicalError(lines, l)
    BY DEF CanonicalError, Review!CanonicalError
  <2>4. Review!FieldErrors(lines, l) = FieldErrors(lines, l)
    BY <2>2, <2>3, Zenon DEF FieldErrors, Review!FieldErrors
  <2> QED  BY <2>4, SameTools, Zenon DEF LineErrors, Review!LineErrors
<1>4. \A lines : Review!TermsErrors(lines) = TermsErrors(lines)
  <2>1. SUFFICES ASSUME NEW lines PROVE Review!TermsErrors(lines) = TermsErrors(lines)
    OBVIOUS
  <2>2. [l \in DOMAIN lines |-> Review!LineErrors(lines, l)] = [l \in DOMAIN lines |-> LineErrors(lines, l)]
    BY <1>3
  <2>3. Review!TermsErrors(lines) = Review!FlattenSeq([l \in DOMAIN lines |-> LineErrors(lines, l)])
    BY <2>2, Zenon DEF Review!TermsErrors
  <2> QED  BY <2>3, SameTools, Zenon DEF TermsErrors
<1>5. \A lines : Review!TermsError(lines) = TermsError(lines)
  BY <1>4 DEF TermsError, Review!TermsError
<1>6. \A lines : Review!ParseTerms(lines) = ParseTerms(lines)
  <2>1. \A forms, p : Review!ValuesOf(forms, p) = ValuesOf(forms, p)
    BY SameTools DEF ValuesOf, Review!ValuesOf
  <2>2. \A line : Review!EntryOf(line) = EntryOf(line)
    BY <2>1 DEF EntryOf, Review!EntryOf
  <2> QED  BY <2>2, SameTools DEF ParseTerms, Review!ParseTerms
<1> QED  BY <1>5, <1>6

(* Both read a transcript in the same way. *)
LEMMA SameTranscript ==
    \A lines : /\ Review!SrtError(lines) = SrtError(lines)
               /\ Review!ParseSrt(lines) = ParseSrt(lines)
<1>1. \A lines : Review!Blocks(lines) = Blocks(lines)
  BY SameTools DEF Blocks, Review!Blocks, Blank, Review!Blank
<1>2. \A c : /\ Review!Millis(c) = Millis(c)
             /\ Review!IsTimestamp(c) <=> IsTimestamp(c)
  BY DEF Millis, Review!Millis, IsTimestamp, Review!IsTimestamp
<1>3. \A block : Review!BlockError(block) = BlockError(block)
  BY <1>2 DEF BlockError, Review!BlockError
<1>4. \A lines : Review!SrtError(lines) = SrtError(lines)
  BY <1>1, <1>3, SameTools DEF SrtError, Review!SrtError
<1>5. \A lines : Review!Joined(lines) = Joined(lines)
  BY SameTools DEF Joined, Review!Joined, BytesOf, Review!BytesOf, Newline, Review!Newline
<1>6. \A block : Review!SegmentOf(block) = SegmentOf(block)
  BY <1>2, <1>5 DEF SegmentOf, Review!SegmentOf
<1>7. \A lines : Review!ParseSrt(lines) = ParseSrt(lines)
  BY <1>1, <1>6 DEF ParseSrt, Review!ParseSrt
<1> QED  BY <1>4, <1>7

(* Both refuse the same inputs of the detectors. *)
LEMMA SameDetection ==
    \A s, e : Review!DetectionError(Review!RunFor(s, e), s, e) = DetectionError(RunFor(s, e), s, e)
<1>1. \A s, e : Review!RunFor(s, e) = RunFor(s, e) /\ Review!Revision(s) = Revision(s)
  BY DEF RunFor, Review!RunFor, Revision, Review!Revision, Canonical, Review!Canonical
<1>2. \A e : Review!SourceForms(e) = SourceForms(e)
  BY DEF SourceForms, Review!SourceForms
<1>3. \A es : /\ Review!EmptyForm(es) <=> EmptyForm(es)
              /\ Review!SharedForm(es) <=> SharedForm(es)
  BY <1>2, SameTools DEF EmptyForm, Review!EmptyForm, SharedForm, Review!SharedForm
<1>4. \A run, s, e : Review!DetectionError(run, s, e) = DetectionError(run, s, e)
  BY <1>3 DEF DetectionError, Review!DetectionError, Revision, Review!Revision, Canonical, Review!Canonical
<1> QED  BY <1>1, <1>4

(* Both raise the same cases. *)
LEMMA SameCases == \A s, e : Review!TermReview(s, e) = TermReview(s, e)
<1>1. \A t, c : Review!Runs(t, c) = Runs(t, c)
  BY SameTools DEF Runs, Review!Runs
<1>2. \A t : Review!Words(t) = Words(t)
  BY <1>1 DEF Words, Review!Words, Letter, Review!Letter, Upper, Review!Upper, Lower, Review!Lower
<1>3. \A t : Review!Lowercase(t) = Lowercase(t)
  BY DEF Lowercase, Review!Lowercase, Upper, Review!Upper
<1>4. \A t, w : Review!TokensAt(t, w) = TokensAt(t, w)
  BY <1>3, SameTools DEF TokensAt, Review!TokensAt
<1>5. \A t : Review!Tokens(t) = Tokens(t)
  BY <1>2, <1>4 DEF Tokens, Review!Tokens
<1>6. \A t : Review!IsStructural(t) <=> IsStructural(t)
  <2>1. \A tokens : Review!FittingTokens(tokens) <=> FittingTokens(tokens)
    BY SameTools DEF FittingTokens, Review!FittingTokens, MaxWindowTokens, Review!MaxWindowTokens,
       MinTokenLen, Review!MinTokenLen, MaxTokenLen, Review!MaxTokenLen, MinNormalizedLen,
       Review!MinNormalizedLen, MaxNormalizedLen, Review!MaxNormalizedLen
  <2> QED
    BY <1>5, <2>1, SameTools DEF IsStructural, Review!IsStructural, MaxAnchorBytes,
       Review!MaxAnchorBytes, Letter, Review!Letter, Upper, Review!Upper, Lower, Review!Lower,
       AsciiSpace, Review!AsciiSpace, Space, Review!Space
<1>7. \A t : Review!Windows(t) = Windows(t)
  BY <1>2, <1>6, SameTools DEF Windows, Review!Windows
<1>8. \A e : Review!TargetsOf(e) = TargetsOf(e)
  <2>1. \A t : Review!TargetKey(t) = TargetKey(t)
    BY <1>3 DEF TargetKey, Review!TargetKey
  <2>2. \A T : Review!FirstOfEach(T) = FirstOfEach(T)
    BY <2>1, SameTools DEF FirstOfEach, Review!FirstOfEach
  <2>3. \A a, b, c, d : Review!Target(a, b, c, d) = Target(a, b, c, d)
    BY SameTools DEF Target, Review!Target
  <2> QED  BY <1>5, <1>6, <2>2, <2>3, SameTools DEF TargetsOf, Review!TargetsOf
<1>9. \A a, b : Review!Qualifies(a, b) <=> Qualifies(a, b)
  <2>1. \A a, b : Review!Distance(a, b) = Distance(a, b)
    BY DEF Distance, Review!Distance, NextRow, Review!NextRow, FoldLeft, Review!FoldLeft,
       MapThenFoldSet, Review!MapThenFoldSet, Max, Review!Max, Last, Review!Last, Least, Review!Least
  <2>2. \A a, b : Review!Permille(a, b) = Permille(a, b)
    BY <2>1 DEF Permille, Review!Permille
  <2> QED  BY <2>2 DEF Qualifies, Review!Qualifies, Keys, Review!Keys, MinQualifyingPermille,
              Review!MinQualifyingPermille
<1>10. \A e, s : Review!PhoneticSpans(s, e) = PhoneticSpans(s, e)
  <2>1. \A a, b : Review!SingleOwner(Review!Owners(a, b)) = SingleOwner(Owners(a, b))
    BY <1>9, SameTools DEF SingleOwner, Review!SingleOwner, Owners, Review!Owners
  <2>2. \A a, b, c, d, f : Review!Span(a, b, c, d, f) = Span(a, b, c, d, f)
    BY DEF Span, Review!Span
  <2>3. \A t, s : Review!SpansNear(t, s) = SpansNear(t, s)
    <3>1. SUFFICES ASSUME NEW t, NEW s PROVE Review!SpansNear(t, s) = SpansNear(t, s)
      OBVIOUS
    <3> DEFINE Mine(n, w) ==
                   {Span(n, w.start, w.end, Phonetic, owner) : owner \in SingleOwner(
                       Owners(Tokens(Slice(s[n].text, w.start, w.end)), t))}
               Its(n, w) ==
                   {Review!Span(n, w.start, w.end, Review!Phonetic, owner) : owner \in Review!SingleOwner(
                       Review!Owners(Review!Tokens(Review!Slice(s[n].text, w.start, w.end)), t))}
    <3>2. \A n, w : Its(n, w) = Mine(n, w)
      BY <1>5, <2>1, <2>2, SameTools DEF Phonetic, Review!Phonetic
    <3>3. Review!SpansNear(t, s) = UNION {UNION {Its(n, w) : w \in Review!Windows(s[n].text)} : n \in DOMAIN s}
      BY DEF Review!SpansNear
    <3>4. SpansNear(t, s) = UNION {UNION {Mine(n, w) : w \in Windows(s[n].text)} : n \in DOMAIN s}
      BY DEF SpansNear
    <3> HIDE DEF Mine, Its
    <3> QED  BY <1>7, <3>2, <3>3, <3>4
  <2> QED  BY <1>8, <2>3 DEF PhoneticSpans, Review!PhoneticSpans
<1>11. \A s, e : Review!CanonicalSpans(s, e) = CanonicalSpans(s, e)
  <2>1. \A t, f : Review!MatchStarts(t, f) = MatchStarts(t, f)
    BY DEF MatchStarts, Review!MatchStarts, Occurs, Review!Occurs, Slice, Review!Slice
  <2>2. \A s, e, d : Review!ExactSpans(s, e, d) = ExactSpans(s, e, d)
    BY <2>1, SameTools DEF ExactSpans, Review!ExactSpans, Span, Review!Span, FormsOf, Review!FormsOf,
       Glossary, Review!Glossary
  <2> QED
    BY <1>10, <2>2 DEF CanonicalSpans, Review!CanonicalSpans, Glossary, Review!Glossary, Observed,
       Review!Observed
<1>12. \A S : Review!InSpanOrder(S) = InSpanOrder(S)
  BY DEF InSpanOrder, Review!InSpanOrder, Sorted, Review!Sorted, LexLess, Review!LexLess, SpanKey,
     Review!SpanKey, Cardinality, Review!Cardinality, IsStrictPrefix, Review!IsStrictPrefix,
     IsPrefix, Review!IsPrefix
<1> QED  BY <1>11, <1>12 DEF TermReview, Review!TermReview

(* Both derive and write the same. *)
LEMMA SameDerivation ==
    /\ Review!Refused <=> Refused
    /\ Review!Contents = Contents
<1>1. \A l, i : Review!Status(l, i) = Status(l, i)
  BY DEF Status, Review!Status, Last, Review!Last
<1>2. \A l : Review!Accepted(l) = Accepted(l)
  BY <1>1 DEF Accepted, Review!Accepted
<1>3. \A i : Review!EditOf(i) = EditOf(i)
  BY <1>1 DEF EditOf, Review!EditOf, Alternatives, Review!Alternatives
<1>4. Review!Edits = Edits
  <2>1. {Review!EditOf(i) : i \in Review!Accepted(ledger)} = {EditOf(i) : i \in Accepted(ledger)}
    BY <1>2, <1>3
  <2>2. \A S : Review!InEditOrder(S) = InEditOrder(S)
    BY DEF InEditOrder, Review!InEditOrder, Sorted, Review!Sorted, LexLess, Review!LexLess, EditKey,
       Review!EditKey, Cardinality, Review!Cardinality, IsStrictPrefix, Review!IsStrictPrefix,
       IsPrefix, Review!IsPrefix
  <2> QED  BY <2>1, <2>2 DEF Edits, Review!Edits
<1>5. Review!Refused <=> Refused
  BY <1>4 DEF Refused, Review!Refused, Overlap, Review!Overlap
<1>6. Review!Summary = Summary
  BY <1>1, <1>2, <1>3, SameTools DEF Summary, Review!Summary
<1>7. \A e : Review!Reviewed(e) = Reviewed(e)
  BY DEF Reviewed, Review!Reviewed, FoldRight, Review!FoldRight, ApplyEdit, Review!ApplyEdit,
     SourceTexts, Review!SourceTexts, MapThenFoldSet, Review!MapThenFoldSet, Min, Review!Min,
     Replace, Review!Replace
<1>8. \A t : Review!Serialize(segments, t) = Serialize(segments, t)
  <2>1. \A part : Review!WithoutReturn(part) = WithoutReturn(part)
    BY SameTools DEF WithoutReturn, Review!WithoutReturn, Return, Review!Return, Front, Review!Front
  <2>2. \A part : Review!LineOf(part) = LineOf(part)
    BY DEF LineOf, Review!LineOf, Space, Review!Space, Blank, Review!Blank, Text, Review!Text
  <2>3. \A t : Review!LinesOf(t) = LinesOf(t)
    BY <2>1, <2>2, SameTools DEF LinesOf, Review!LinesOf, Newline, Review!Newline
  <2>4. \A s, t : Review!CueOf(s, t) = CueOf(s, t)
    BY <2>3 DEF CueOf, Review!CueOf, Number, Review!Number, Timing, Review!Timing, ClockOf, Review!ClockOf
  <2>5. \A t : Review!Serialize(segments, t) = Serialize(segments, t)
    BY <2>4, SameTools DEF Serialize, Review!Serialize, Blank, Review!Blank
  <2> QED  BY <2>5
<1>9. Review!Contents = Contents
  BY <1>4, <1>6, <1>7, <1>8 DEF Contents, Review!Contents, Output, Review!Output
<1> QED  BY <1>5, <1>9

(* What a review compares its step with: decisions, and how far it may go          *)
LEMMA SameDecisions ==
    /\ Review!Inputs = Inputs
    /\ \A c, d : Review!Valid(c, d) <=> Valid(c, d)
    /\ Review!Output = Output
    /\ Review!After = After
BY DEF Inputs, Review!Inputs, Valid, Review!Valid, Alternatives, Review!Alternatives,
       Output, Review!Output, After, Review!After

(* The files an experiment is started on are files a review is started on.     *)
LEMMA InitIsInit == ExperimentInit => Review!Init
BY CommandAssumption DEF ExperimentInit, Review!Init, ReviewPhase, Output, Review!Output

(* The steps both commands have are steps of the review. *)
LEMMA ReviewStepRefines == ReviewStep => Review!Next
<1> SUFFICES ASSUME ReviewStep PROVE Review!Next
  OBVIOUS
<1> USE DEF ReviewPhase, Proceed, UpTo, Review!Proceed, Review!UpTo, analysis, Review!analysis
<1>1. CASE ReadInputs
  BY <1>1 DEF ReadInputs, Review!ReadInputs, Review!Next
<1>2. CASE ParseSessionTerms
  BY <1>2, SameTerms DEF ParseSessionTerms, Review!ParseSessionTerms, Review!Next
<1>3. CASE ParseTranscript
  BY <1>3, SameTranscript DEF ParseTranscript, Review!ParseTranscript, Review!Next
<1>4. CASE Detect
  BY <1>4, SameCases, SameDetection DEF Detect, Review!Detect, Review!Next
<1>5. CASE ReportIssues
  BY <1>5 DEF ReportIssues, Review!ReportIssues, Review!Next
<1>6. CASE \E d \in Inputs : Decide(d)
  BY <1>6, SameDecisions DEF Decide, Asked, Review!Decide, Review!Asked, Review!Next
<1>7. CASE InputEnds
  BY <1>7 DEF InputEnds, Asked, Review!InputEnds, Review!Asked, Review!Next
<1>8. CASE AllDecided
  BY <1>8 DEF AllDecided, Asked, Review!AllDecided, Review!Asked, Review!Next
<1>9. CASE Announce
  BY <1>9 DEF Announce, Review!Announce, Review!Next
<1>10. CASE Derive
  BY <1>10, SameDerivation DEF Derive, Review!Derive, Review!Next
<1>11. CASE \E f \in Output : Write(f) \/ WriteFails(f)
  <2> PICK f \in Output : Write(f) \/ WriteFails(f)
    BY <1>11
  <2>1. CASE Write(f)
    <3>1. ReviewPhase = f /\ ReviewPhase' = After[f]
      BY <2>1 DEF Write, After, Output
    <3> QED  BY <2>1, <3>1, SameDecisions, SameDerivation DEF Write, Review!Write, Review!Next
  <2>2. CASE WriteFails(f)
    <3>1. ReviewPhase = f /\ ReviewPhase' = "error"
      BY <2>2 DEF WriteFails, Output
    <3> QED  BY <2>2, <3>1, SameDecisions DEF WriteFails, Review!WriteFails, Review!Next
  <2> QED  BY <2>1, <2>2
<1> QED
  BY <1>1, <1>2, <1>3, <1>4, <1>5, <1>6, <1>7, <1>8, <1>9, <1>10, <1>11 DEF ReviewStep

(* The steps of an experiment are steps of its review, or unseen in it.            *)
LEMMA ExperimentStepRefines == ExperimentStep => Review!Next \/ UNCHANGED Review!vars
<1> SUFFICES ASSUME ExperimentStep PROVE Review!Next \/ UNCHANGED Review!vars
  OBVIOUS
<1> USE DEF ReviewPhase, Proceed, UpTo, Review!Proceed, Review!UpTo, analysis, Review!analysis,
            vars, Review!vars
<1>1. CASE ReportToExperimenter
  BY <1>1 DEF ReportToExperimenter, Review!ReportIssues, Review!Next
<1>2. CASE Retrieve
  BY <1>2 DEF Retrieve
<1>3. CASE \E k \in DOMAIN reports : Select(k)
  BY <1>3 DEF Select
<1>4. CASE SelectNone
  BY <1>4 DEF SelectNone
<1>5. CASE SelectionFails
  BY <1>5 DEF SelectionFails, GroupLeft, Review!ReportIssues, Review!Next
<1>6. CASE AllShown
  BY <1>6 DEF AllShown, Review!ReportIssues, Review!Next
<1>7. CASE DeriveBesideSidecar
  BY <1>7, SameDerivation DEF DeriveBesideSidecar, Review!Derive, Review!Next
<1>8. CASE WriteSidecar
  BY <1>8 DEF WriteSidecar
<1>9. CASE SidecarFails
  BY <1>9, SameDecisions DEF SidecarFails, Output, Review!WriteFails, Review!Next
<1> QED
  BY <1>1, <1>2, <1>3, <1>4, <1>5, <1>6, <1>7, <1>8, <1>9 DEF ExperimentStep

(* Every behaviour of an experiment is, seen without its suggestions, a behaviour of   *)
(* the review command: nothing that is suggested, ranked or selected decides a case,  *)
(* and the files are those the review writes (run_experiment_command).               *)
THEOREM ExperimentsAreReviews == ExperimentSpec => ImplementsReview
<1>1. ASSUME [ExperimentNext]_allVars PROVE [Review!Next]_(Review!vars)
  <2>1. CASE UNCHANGED allVars
    BY <2>1 DEF allVars, vars, Review!vars, analysis, Review!analysis, ReviewPhase
  <2>2. CASE ReviewStep
    BY <2>2, ReviewStepRefines
  <2>3. CASE ExperimentStep
    BY <2>3, ExperimentStepRefines
  <2> QED  BY <1>1, <2>1, <2>2, <2>3 DEF ExperimentNext
<1> QED  BY <1>1, InitIsInit, PTL DEF ExperimentSpec, ImplementsReview, Review!Spec

(***************************************************************************)
(* The edits, in their order                                                  *)
(***************************************************************************)
(* The cases are a sequence of places in texts. *)
CasesPlaced ==
    /\ Texts(segments)
    /\ \E k \in Nat : DOMAIN cases = 1..k
    /\ \A i \in DOMAIN cases : Placed(cases[i], segments)

(* An edit does not begin after the next one. *)
NotAfter(e, f) == e.segment < f.segment \/ (e.segment = f.segment /\ e.start <= f.start)

(* What edits are ordered by: their place and their case *)
LEMMA EditKeyType ==
    ASSUME CasesPlaced, NEW i \in DOMAIN cases
    PROVE  /\ EditKey(EditOf(i)) \in Seq(Int) /\ Len(EditKey(EditOf(i))) = 4
           /\ EditKey(EditOf(i))[1] = cases[i].segment /\ EditKey(EditOf(i))[2] = cases[i].start
           /\ EditKey(EditOf(i))[4] = i
<1>1. PICK k \in Nat : DOMAIN cases = 1..k
  BY DEF CasesPlaced
<1>2. PICK n \in Nat : DOMAIN segments = 1..n
  BY DEF CasesPlaced, Texts
<1>3. cases[i].segment \in Int /\ cases[i].start \in Int /\ cases[i].end \in Int /\ i \in Int
  BY <1>1, <1>2 DEF CasesPlaced, Placed
<1>4. EditKey(EditOf(i)) = <<cases[i].segment, cases[i].start, cases[i].end, i>>
  BY DEF EditKey, EditOf
<1> QED  BY <1>3, <1>4

(* Keys are numbers. *)
LEMMA KeyParts ==
    ASSUME NEW a \in Seq(Int) PROVE DOMAIN a = 1..Len(a) /\ \A i \in DOMAIN a : a[i] \in Int
OBVIOUS

(* Of two keys of four numbers in order, the first two are in order.                *)
LEMMA KeyOfFour ==
    ASSUME NEW a \in Seq(Int), NEW b \in Seq(Int), Len(a) = 4, Len(b) = 4, LexLess(a, b)
    PROVE  a[1] < b[1] \/ (a[1] = b[1] /\ a[2] <= b[2])
<1>1. ~IsStrictPrefix(a, b)
  BY StrictPrefix
<1>2. PICK k \in DOMAIN a \cap DOMAIN b : (\A j \in 1..(k - 1) : a[j] = b[j]) /\ a[k] < b[k]
  BY <1>1 DEF LexLess
<1>3. k \in 1..4 /\ a[1] \in Int /\ a[2] \in Int /\ b[1] \in Int /\ b[2] \in Int
  <2>1. /\ DOMAIN a = 1..Len(a) /\ \A i \in DOMAIN a : a[i] \in Int
        /\ DOMAIN b = 1..Len(b) /\ \A i \in DOMAIN b : b[i] \in Int
    BY KeyParts
  <2>2. 1 \in DOMAIN a /\ 2 \in DOMAIN a /\ 1 \in DOMAIN b /\ 2 \in DOMAIN b
    BY <2>1
  <2>3. a[1] \in Int /\ a[2] \in Int /\ b[1] \in Int /\ b[2] \in Int
    BY <2>1, <2>2
  <2>4. k \in 1..4
    BY <2>1
  <2> QED  BY <2>3, <2>4
<1>4. CASE k = 1
  BY <1>2, <1>4
<1>5. CASE k = 2
  BY <1>2, <1>3, <1>5
<1>6. CASE k > 2
  <2>1. 1 \in 1..(k - 1) /\ 2 \in 1..(k - 1)
    BY <1>3, <1>6
  <2> QED  BY <1>2, <1>3, <2>1
<1> QED  BY <1>3, <1>4, <1>5, <1>6

(* The edits that come before one *)
EditsBefore(S, x) == {y \in S : LexLess(EditKey(y), EditKey(x))}

(* The edits are those of the accepted cases, in the order of their places.       *)
EditsListed ==
    /\ Len(Edits) \in Nat /\ DOMAIN Edits = 1..Len(Edits)
    /\ \A x \in DOMAIN Edits : \E i \in Accepted(ledger) : Edits[x] = EditOf(i)
    /\ \A i \in Accepted(ledger) : \E x \in DOMAIN Edits : Edits[x] = EditOf(i)
    /\ \A x, y \in DOMAIN Edits : Edits[x] = Edits[y] => x = y
    /\ \A x, y \in DOMAIN Edits : x < y => NotAfter(Edits[x], Edits[y])

(* Whatever is accepted, the edits are listed like that. *)
LEMMA EditsInOrder == CasesPlaced => EditsListed
<1> SUFFICES ASSUME CasesPlaced PROVE EditsListed
  OBVIOUS
<1> DEFINE S == {EditOf(i) : i \in Accepted(ledger)}
           key == [e \in S |-> EditKey(e)]
           before == [e \in S |-> EditsBefore(S, e)]
           s == InEditOrder(S)
<1>1. PICK k \in Nat : DOMAIN cases = 1..k
  BY DEF CasesPlaced
<1>2. Accepted(ledger) \in SUBSET DOMAIN cases
  BY DEF Accepted
<1>3. IsFiniteSet(S)
  <2>1. IsFiniteSet(Accepted(ledger))
    BY <1>1, <1>2, FS_Interval, FS_Subset
  <2>2. [i \in Accepted(ledger) |-> EditOf(i)] \in Surjection(Accepted(ledger), S)
    BY DEF Surjection
  <2> QED  BY <2>1, <2>2, FS_Surjection
<1>4. ASSUME NEW e \in S
      PROVE  \E i \in Accepted(ledger) : e = EditOf(i) /\ i \in DOMAIN cases
  BY <1>2
<1>5. ASSUME NEW e \in S
      PROVE  /\ EditKey(e) \in Seq(Int) /\ Len(EditKey(e)) = 4
             /\ EditKey(e)[1] = e.segment /\ EditKey(e)[2] = e.start /\ EditKey(e)[4] = e.case
             /\ e = EditOf(e.case)
  <2>1. PICK i \in DOMAIN cases : e = EditOf(i)
    BY <1>4
  <2>2. e.segment = cases[i].segment /\ e.start = cases[i].start /\ e.case = i
    BY <2>1 DEF EditOf
  <2> QED  BY <2>1, <2>2, EditKeyType
<1>6. key \in [S -> Seq(Int)]
  <2> HIDE DEF S
  <2> QED  BY <1>5
<1>7. ASSUME NEW e \in S, NEW f \in S, key[e] = key[f] PROVE e = f
  <2> HIDE DEF S
  <2>1. EditKey(e) = EditKey(f)
    BY <1>7
  <2>2. e.case = f.case
    BY <1>5, <2>1
  <2> QED  BY <1>5, <2>2
<1> HIDE DEF S
<1>8. before \in [S -> SUBSET S]
  BY DEF EditsBefore
<1>9. \A e, f \in S : f \in before[e] <=> LexLess(key[f], key[e])
  BY DEF EditsBefore
<1>10. s = [i \in 1..Cardinality(S) |-> CHOOSE e \in S : Cardinality(EditsBefore(S, e)) = i - 1]
  BY DEF InEditOrder, Sorted, EditsBefore
<1>11. \A i : (CHOOSE e \in S : Cardinality(EditsBefore(S, e)) = i - 1)
              = CHOOSE e \in S : Cardinality(before[e]) = i - 1
  <2>1. \A e \in S : before[e] = EditsBefore(S, e)
    OBVIOUS
  <2> HIDE DEF before
  <2> QED  BY <2>1
<1>12. \A e \in S : key[e] = EditKey(e)
  OBVIOUS
<1>13. s = Edits
  BY DEF Edits, S
<1> HIDE DEF key, before, s
<1>14. s = [i \in 1..Cardinality(S) |-> CHOOSE e \in S : Cardinality(before[e]) = i - 1]
  BY <1>10, <1>11
<1>15. Lists(before, s, S)
  BY <1>3, <1>6, <1>7, <1>8, <1>9, <1>14, ListedByKey
<1>16. Len(s) \in Nat /\ DOMAIN s = 1..Len(s) /\ \A x \in DOMAIN s : s[x] \in S
  BY <1>15 DEF Lists
<1>17. ASSUME NEW x \in DOMAIN s, NEW y \in DOMAIN s, s[x] = s[y] PROVE x = y
  <2>1. x \in Int /\ y \in Int
    BY <1>16
  <2>2. s[x] \in S /\ s[x] \notin before[s[x]]
    BY <1>6, <1>9, <1>16, LexOrder
  <2>3. ~(x < y) /\ ~(y < x)
    BY <1>15, <1>17, <2>2 DEF Lists
  <2> QED  BY <2>1, <2>3
<1>18. ASSUME NEW x \in DOMAIN s, NEW y \in DOMAIN s, x < y PROVE NotAfter(s[x], s[y])
  <2>1. s[x] \in S /\ s[y] \in S
    BY <1>16
  <2>2. LexLess(EditKey(s[x]), EditKey(s[y]))
    BY <1>9, <1>12, <1>15, <1>18, <2>1 DEF Lists
  <2> QED  BY <1>5, <2>1, <2>2, KeyOfFour DEF NotAfter
<1>19. \A x \in DOMAIN s : \E i \in Accepted(ledger) : s[x] = EditOf(i)
  BY <1>4, <1>16
<1>20. \A i \in Accepted(ledger) : \E x \in DOMAIN s : s[x] = EditOf(i)
  <2>1. \A i \in Accepted(ledger) : EditOf(i) \in S
    BY DEF S
  <2> QED  BY <1>15, <2>1 DEF Lists
<1> QED  BY <1>13, <1>16, <1>17, <1>18, <1>19, <1>20 DEF EditsListed

(* Two accepted cases of one segment share a byte *)
Share(i, j) == \E s \in DOMAIN segments : \E p \in DOMAIN segments[s].text : Covers(i, s, p) /\ Covers(j, s, p)

(* ... when, and only when, their edits overlap. *)
LEMMA SharedByte ==
    ASSUME CasesPlaced, NEW i \in DOMAIN cases, NEW j \in DOMAIN cases
    PROVE  Share(i, j) <=> Overlap(EditOf(i), EditOf(j))
<1> DEFINE c == cases[i]
           d == cases[j]
<1>1. /\ c.segment \in DOMAIN segments /\ c.start \in Nat /\ c.end \in Nat
      /\ c.start < c.end /\ c.end <= Len(segments[c.segment].text)
      /\ d.segment \in DOMAIN segments /\ d.start \in Nat /\ d.end \in Nat
      /\ d.start < d.end /\ d.end <= Len(segments[d.segment].text)
  BY DEF CasesPlaced, Placed
<1>2. Overlap(EditOf(i), EditOf(j)) <=> c.segment = d.segment /\ c.start < d.end /\ d.start < c.end
  BY DEF Overlap, EditOf
<1>3. \A s \in DOMAIN segments : segments[s].text \in Seq(Byte)
  BY DEF CasesPlaced, Texts
<1>4. \A s, p : Covers(i, s, p) <=> c.segment = s /\ c.start < p /\ p <= c.end
  BY DEF Covers
<1>5. \A s, p : Covers(j, s, p) <=> d.segment = s /\ d.start < p /\ p <= d.end
  BY DEF Covers
<1> HIDE DEF c, d
<1>6. ASSUME Share(i, j) PROVE c.segment = d.segment /\ c.start < d.end /\ d.start < c.end
  <2>3. PICK s \in DOMAIN segments : \E p \in DOMAIN segments[s].text : Covers(i, s, p) /\ Covers(j, s, p)
    BY <1>6 DEF Share
  <2>1. PICK p \in DOMAIN segments[s].text : Covers(i, s, p) /\ Covers(j, s, p)
    BY <2>3
  <2>2. p \in Int
    BY <1>3
  <2> QED  BY <1>1, <1>4, <1>5, <2>1, <2>2
<1>7. ASSUME c.segment = d.segment, c.start < d.end, d.start < c.end PROVE Share(i, j)
  <2>1. PICK p \in Nat : p = 1 + (IF c.start < d.start THEN d.start ELSE c.start)
    BY <1>1
  <2>2. c.start < p /\ p <= c.end /\ d.start < p /\ p <= d.end
    BY <1>1, <1>7, <2>1
  <2>3. PICK text \in Seq(Byte) : text = segments[c.segment].text
    BY <1>1, <1>3
  <2>4. p \in DOMAIN text
    BY <1>1, <2>2, <2>3
  <2>5. c.segment \in DOMAIN segments /\ p \in DOMAIN segments[c.segment].text
    BY <1>1, <2>3, <2>4
  <2> QED  BY <1>4, <1>5, <1>7, <2>2, <2>5 DEF Share
<1> QED  BY <1>2, <1>6, <1>7

(* As the edits are in order, two that overlap make two neighbours overlap.            *)
LEMMA RefusedWhenShared == CasesPlaced => RefusedForOverlapOnly
<1> SUFFICES ASSUME CasesPlaced
             PROVE  Refused <=> \E i, j \in Accepted(ledger) : i # j /\ Share(i, j)
  BY DEF RefusedForOverlapOnly, Share
<1>1. EditsListed
  BY EditsInOrder
<1>2. Accepted(ledger) \in SUBSET DOMAIN cases
  BY DEF Accepted
<1>3. ASSUME Refused PROVE \E i, j \in Accepted(ledger) : i # j /\ Share(i, j)
  <2>1. PICK x \in 1..(Len(Edits) - 1) : Overlap(Edits[x], Edits[x + 1])
    BY <1>3 DEF Refused
  <2>2. x \in DOMAIN Edits /\ x + 1 \in DOMAIN Edits /\ x # x + 1
    BY <1>1 DEF EditsListed
  <2>3. PICK i \in Accepted(ledger), j \in Accepted(ledger) : Edits[x] = EditOf(i) /\ Edits[x + 1] = EditOf(j)
    BY <1>1, <2>2 DEF EditsListed
  <2>4. i # j
    BY <1>1, <2>2, <2>3 DEF EditsListed
  <2>5. Share(i, j)
    BY <1>2, <2>1, <2>3, SharedByte
  <2> QED  BY <2>4, <2>5
<1>4. ASSUME NEW x \in DOMAIN Edits, NEW y \in DOMAIN Edits, x < y, Overlap(Edits[x], Edits[y]) PROVE Refused
  <2>1. x \in Nat /\ y \in Nat /\ x + 1 \in DOMAIN Edits /\ x \in 1..(Len(Edits) - 1)
    BY <1>1, <1>4 DEF EditsListed
  <2>2. NotAfter(Edits[x], Edits[x + 1]) /\ (x + 1 = y \/ NotAfter(Edits[x + 1], Edits[y]))
    BY <1>1, <1>4, <2>1 DEF EditsListed
  <2> DEFINE e == Edits[x]
             f == Edits[x + 1]
             g == Edits[y]
  <2>3. \A z \in DOMAIN Edits : /\ Edits[z].segment \in Int /\ Edits[z].start \in Int /\ Edits[z].end \in Int
                                /\ Edits[z].start < Edits[z].end
    <3>1. SUFFICES ASSUME NEW z \in DOMAIN Edits
                   PROVE  /\ Edits[z].segment \in Int /\ Edits[z].start \in Int /\ Edits[z].end \in Int
                          /\ Edits[z].start < Edits[z].end
      OBVIOUS
    <3>2. PICK i \in DOMAIN cases : Edits[z] = EditOf(i)
      BY <1>1, <1>2 DEF EditsListed
    <3>3. PICK n \in Nat : DOMAIN segments = 1..n
      BY DEF CasesPlaced, Texts
    <3>4. cases[i].segment \in Int /\ cases[i].start \in Int /\ cases[i].end \in Int /\ cases[i].start < cases[i].end
      BY <3>3 DEF CasesPlaced, Placed
    <3> QED  BY <3>2, <3>4 DEF EditOf
  <2>4. e.segment = g.segment /\ e.start < g.end /\ g.start < e.end
    BY <1>4 DEF Overlap
  <2>5. /\ e.segment \in Int /\ f.segment \in Int /\ g.segment \in Int
        /\ e.start \in Int /\ f.start \in Int /\ g.start \in Int
        /\ e.end \in Int /\ f.end \in Int /\ g.end \in Int /\ e.start < e.end /\ f.start < f.end
    BY <2>1, <2>3
  <2>6. NotAfter(e, f) /\ (f = g \/ NotAfter(f, g))
    BY <2>2
  <2> HIDE DEF e, f, g
  <2>7. e.segment = f.segment /\ e.start <= f.start /\ f.start <= g.start
    BY <2>4, <2>5, <2>6 DEF NotAfter
  <2>8. Overlap(e, f)
    BY <2>4, <2>5, <2>7 DEF Overlap
  <2> QED  BY <2>1, <2>8 DEF e, f, Refused
<1>5. ASSUME NEW i \in Accepted(ledger), NEW j \in Accepted(ledger), i # j, Share(i, j) PROVE Refused
  <2>1. Overlap(EditOf(i), EditOf(j)) /\ Overlap(EditOf(j), EditOf(i))
    <3>1. Share(j, i)
      BY <1>5 DEF Share
    <3> QED  BY <1>2, <1>5, <3>1, SharedByte
  <2>2. PICK x \in DOMAIN Edits, y \in DOMAIN Edits : Edits[x] = EditOf(i) /\ Edits[y] = EditOf(j)
    BY <1>1 DEF EditsListed
  <2>3. x # y
    BY <1>5, <2>2 DEF EditOf
  <2>4. x < y \/ y < x
    BY <1>1, <2>3 DEF EditsListed
  <2> QED  BY <1>4, <2>1, <2>2, <2>4
<1> QED  BY <1>3, <1>5

(***************************************************************************)
(* The suggestions                                                           *)
(***************************************************************************)
(* The letters of a text are a sequence. *)
LEMMA LettersType ==
    ASSUME NEW text \in Seq(Byte)
    PROVE  \E n \in Nat : n = Len(LettersOf(text)) /\ DOMAIN LettersOf(text) = 1..n
<1> DEFINE P == {i \in DOMAIN text : text[i] \in Letter}
<1>1. PICK m \in Nat : DOMAIN text = 1..m
  BY LenProperties
<1>2. P \in SUBSET (1..m)
  BY <1>1
<1> HIDE DEF P
<1>3. PICK n \in Nat : n = Len(AtPlaces(text, P)) /\ DOMAIN AtPlaces(text, P) = 1..n
  BY <1>2, AtPlacesType
<1>4. LettersOf(text) = Lowercase(AtPlaces(text, P))
  BY DEF LettersOf, P
<1>5. PICK letters : letters = AtPlaces(text, P)
  OBVIOUS
<1>6. LettersOf(text) = [i \in 1..n |-> IF letters[i] \in Upper THEN letters[i] + 32 ELSE letters[i]]
  BY <1>3, <1>4, <1>5 DEF Lowercase
<1>7. Len(LettersOf(text)) = n /\ DOMAIN LettersOf(text) = 1..n
  BY <1>6
<1> QED  BY <1>7

(* A window of words lies in its text, which is plain there. *)
LEMMA LatinWindowType ==
    ASSUME NEW text \in Seq(Byte), NEW m \in Nat, m = Len(text), NEW w \in LatinWindows(text)
    PROVE  /\ w.start \in 0..m /\ w.end \in 0..m /\ w = [start |-> w.start, end |-> w.end]
           /\ Plain(Slice(text, w.start, w.end))
<1> DEFINE words == Words(text)
           spans == {p \in (DOMAIN words) \X (DOMAIN words) :
                        p[1] <= p[2] /\ p[2] < p[1] + MaxWindowWords}
           pairs == {[start |-> words[p[1]].start, end |-> words[p[2]].end] : p \in spans}
<1>1. w \in pairs /\ Plain(Slice(text, w.start, w.end))
  BY DEF LatinWindows
<1>2. PICK p \in spans : w = [start |-> words[p[1]].start, end |-> words[p[2]].end]
  BY <1>1
<1>3. p[1] \in DOMAIN words /\ p[2] \in DOMAIN words
  OBVIOUS
<1> HIDE DEF words, spans, pairs
<1>4. words[p[1]].start \in 0..(m - 1) /\ words[p[2]].end \in 1..m
  BY <1>3, WordsType DEF words
<1> QED  BY <1>1, <1>2, <1>4

(* A window of Han characters lies in its text, which has a Han character there. *)
LEMMA HanWindowType ==
    ASSUME NEW text \in Seq(Byte), NEW m \in Nat, m = Len(text), NEW w \in HanWindows(text)
    PROVE  /\ w.start \in 0..m /\ w.end \in 0..m /\ w = [start |-> w.start, end |-> w.end]
           /\ \E next \in 0..m : /\ w.start < next /\ next <= w.end
                                 /\ \A x \in 0..m : CharBoundary(text, x) => ~(w.start < x /\ x < next)
                                 /\ IsHan(Slice(text, w.start, next))
<1> DEFINE chars == Scalars(text)
           at == ByteStarts(text)
           Han(i) == i \in DOMAIN chars /\ IsHan(chars[i])
           runs == {p \in (DOMAIN chars) \X (DOMAIN chars) :
                      /\ ~Han(p[1] - 1) /\ ~Han(p[2] + 1)
                      /\ p[1] <= p[2] /\ \A i \in p[1]..p[2] : Han(i)}
           ends == {[start |-> at[p[1]], end |-> at[p[2] + 1]] : p \in runs}
<1>1. w \in ends
  BY DEF HanWindows
<1>2. PICK p \in runs : w = [start |-> at[p[1]], end |-> at[p[2] + 1]]
  BY <1>1
<1>3. /\ p[1] \in DOMAIN chars /\ p[2] \in DOMAIN chars /\ p[1] <= p[2]
      /\ \A i \in p[1]..p[2] : IsHan(chars[i])
  OBVIOUS
<1>4. chars = [i \in 1..(Len(at) - 1) |-> Slice(text, at[i], at[i + 1])]
  BY DEF Scalars
<1> HIDE DEF chars, at, runs, ends
<1>5. /\ \E n \in Nat : n = Len(at) /\ DOMAIN at = 1..n
      /\ \A i \in DOMAIN at : at[i] \in 0..m
      /\ \A x \in 0..m : CharBoundary(text, x) => \E i \in DOMAIN at : at[i] = x
      /\ \A i, j \in DOMAIN at : i < j <=> at[i] < at[j]
  BY ByteStartsType DEF at
<1>6. PICK n \in Nat : n = Len(at) /\ DOMAIN at = 1..n
  BY <1>5
<1>7. PICK a \in 1..(n - 1), b \in 1..(n - 1) : a = p[1] /\ b = p[2] /\ a <= b
  <2>1. DOMAIN chars = 1..(n - 1)
    BY <1>4, <1>6
  <2> QED  BY <1>3, <2>1
<1>8. /\ a \in DOMAIN at /\ b \in DOMAIN at /\ a + 1 \in DOMAIN at /\ b + 1 \in DOMAIN at
      /\ a < a + 1 /\ a + 1 <= b + 1
  BY <1>6, <1>7
<1>9. /\ at[a] \in 0..m /\ at[a + 1] \in 0..m /\ at[b + 1] \in 0..m
      /\ at[a] < at[a + 1] /\ at[a + 1] <= at[b + 1]
  <2>1. at[a] \in 0..m /\ at[a + 1] \in 0..m /\ at[b + 1] \in 0..m /\ at[a] < at[a + 1]
    BY <1>5, <1>8
  <2>2. ~(b + 1 < a + 1)
    BY <1>7
  <2>3. ~(at[b + 1] < at[a + 1])
    BY <1>5, <1>8, <2>2
  <2> QED  BY <2>1, <2>3
<1>10. IsHan(Slice(text, at[a], at[a + 1]))
  <2>1. a \in a..b /\ a \in 1..(Len(at) - 1)
    BY <1>6, <1>7
  <2>2. IsHan(chars[a])
    BY <1>3, <1>7, <2>1
  <2>3. chars[a] = Slice(text, at[a], at[a + 1])
    BY <1>4, <2>1
  <2> QED  BY <2>2, <2>3
<1>11. ASSUME NEW x \in 0..m, CharBoundary(text, x), at[a] < x, x < at[a + 1] PROVE FALSE
  <2>1. PICK i \in DOMAIN at : at[i] = x
    BY <1>5, <1>11
  <2>2. a < i /\ i < a + 1
    BY <1>5, <1>8, <1>11, <2>1
  <2>3. i \in Int /\ a \in Int
    BY <1>6
  <2> QED  BY <2>2, <2>3
<1>12. w.start = at[a] /\ w.end = at[b + 1] /\ w = [start |-> w.start, end |-> w.end]
  BY <1>2, <1>7
<1> QED  BY <1>9, <1>10, <1>11, <1>12

(* No window of words is one of Han characters. *)
LEMMA WindowsDiffer ==
    ASSUME NEW text \in Seq(Byte), NEW v \in LatinWindows(text), NEW w \in HanWindows(text),
           v.start = w.start, v.end = w.end
    PROVE  FALSE
<1>1. PICK m \in Nat : m = Len(text)
  BY LenProperties
<1>2. /\ v.start \in 0..m /\ v.end \in 0..m
      /\ Plain(Slice(text, v.start, v.end))
  BY <1>1, LatinWindowType
<1>3. PICK next \in 0..m : /\ w.start < next /\ next <= w.end
                           /\ \A x \in 0..m : CharBoundary(text, x) => ~(w.start < x /\ x < next)
                           /\ IsHan(Slice(text, w.start, next))
  BY <1>1, HanWindowType
<1>4. PICK from \in 0..m, to \in 0..m : from = v.start /\ to = v.end
  BY <1>2
<1>5. from < next /\ next <= to
  BY <1>3, <1>4
<1>6. \A i \in (from + 1)..to : text[i] \in Letter \cup AsciiSpace
  <2>1. /\ Slice(text, from, to) \in Seq(Byte)
        /\ Len(Slice(text, from, to)) = to - from
        /\ \A i \in 1..(to - from) : Slice(text, from, to)[i] = text[from + i]
    <3>1. from \in Nat /\ to \in 0..Len(text) /\ from < to
      BY <1>1, <1>5
    <3> QED  BY <3>1, SliceType
  <2>2. \A i \in 1..(to - from) : Slice(text, from, to)[i] \in Letter \cup AsciiSpace
    BY <1>2, <1>4, <2>1, LenProperties DEF Plain
  <2>3. ASSUME NEW i \in (from + 1)..to PROVE text[i] \in Letter \cup AsciiSpace
    <3>1. i - from \in 1..(to - from) /\ from + (i - from) = i
      OBVIOUS
    <3> QED  BY <2>1, <2>2, <3>1
  <2> QED  BY <2>3
<1>7. \A byte \in Letter \cup AsciiSpace : byte \in 0..127 /\ byte \notin Continuation
  BY DEF Letter, Upper, Lower, AsciiSpace, Space, Continuation
<1>8. next = from + 1
  <2> SUFFICES ASSUME from + 1 < next PROVE FALSE
    BY <1>5
  <2>1. from + 1 \in 0..m /\ from + 2 \in (from + 1)..to
    BY <1>5
  <2>2. text[from + 2] \notin Continuation
    BY <1>6, <1>7, <2>1
  <2>3. CharBoundary(text, from + 1)
    <3>1. (from + 1) + 1 = from + 2
      OBVIOUS
    <3> QED  BY <2>2, <3>1 DEF CharBoundary
  <2> QED  BY <1>3, <1>4, <2>1, <2>3
<1>9. PICK byte : byte = text[from + 1] /\ byte \in 0..127
  <2>1. from + 1 \in (from + 1)..to
    BY <1>5
  <2> QED  BY <1>6, <1>7, <2>1
<1>10. Slice(text, from, next) = <<byte>>
  <2>1. /\ Slice(text, from, next) \in Seq(Byte)
        /\ Len(Slice(text, from, next)) = next - from
        /\ \A i \in 1..(next - from) : Slice(text, from, next)[i] = text[from + i]
    <3>1. from \in Nat /\ next \in 0..Len(text) /\ from < next
      BY <1>1, <1>5
    <3> QED  BY <3>1, SliceType
  <2>2. next - from = 1
    BY <1>8
  <2>3. PICK s \in Seq(Byte) : s = Slice(text, from, next)
    BY <2>1
  <2>4. Len(s) = 1 /\ s[1] = byte
    <3>1. 1 \in 1..(next - from)
      BY <2>2
    <3>2. s[1] = text[from + 1]
      BY <2>1, <2>3, <3>1
    <3> QED  BY <1>9, <2>1, <2>2, <2>3, <3>2
  <2> QED  BY <2>3, <2>4
<1> QED  BY <1>3, <1>4, <1>9, <1>10, AsciiAssumption DEF IsHan

(* The producer of suggestions for a window of words *)
LatinProducer(surface) == IF Len(Tokens(surface)) > 1 THEN LatinWords ELSE LatinWord

(* A suggestion of a term that is spelled like a window of words, *)
SpelledLike(r, segs, n, w, term) ==
    r = Suggestion(n, w, Slice(segs[n].text, w.start, w.end),
                   LatinProducer(Slice(segs[n].text, w.start, w.end)), term,
                   Distance(LettersOf(Slice(segs[n].text, w.start, w.end)), LettersOf(term)))

(* and of one that sounds like a window of Han characters *)
SoundsLike(r, segs, n, w, term) ==
    /\ r = Suggestion(n, w, Slice(segs[n].text, w.start, w.end), HanPinyin, term,
                      Least(PinyinDistances(Slice(segs[n].text, w.start, w.end), term)))
    /\ Least(PinyinDistances(Slice(segs[n].text, w.start, w.end), term)) \in 1..MaxPinyinDistance

Spelled(r, segs, ents) ==
    \E n \in DOMAIN segs : \E w \in LatinWindows(segs[n].text) : \E e \in Range(ents) :
        SpelledLike(r, segs, n, w, e.canonical)
Sounds(r, segs, ents) ==
    \E n \in DOMAIN segs : \E w \in HanWindows(segs[n].text) : \E e \in Range(ents) :
        SoundsLike(r, segs, n, w, e.canonical)

(* There are no other suggestions. *)
LEMMA ReportsAre ==
    ASSUME NEW segs, NEW ents, NEW profile, NEW r \in AllReports(segs, ents, profile)
    PROVE  Spelled(r, segs, ents) \/ Sounds(r, segs, ents)
<1>1. PICK n \in DOMAIN segs :
          \/ r \in LatinReports(n, segs[n].text, ents, profile.latin)
          \/ r \in PinyinReports(n, segs[n].text, ents, profile.pinyin)
  BY DEF AllReports
<1>2. ASSUME r \in LatinReports(n, segs[n].text, ents, profile.latin) PROVE Spelled(r, segs, ents)
  <2>1. PICK w \in LatinWindows(segs[n].text) :
            \E e \in Range(ents) : SpelledLike(r, segs, n, w, e.canonical)
    BY <1>2, Zenon DEF LatinReports, SpelledLike, LatinProducer
  <2> QED  BY <2>1 DEF Spelled
<1>3. ASSUME r \in PinyinReports(n, segs[n].text, ents, profile.pinyin) PROVE Sounds(r, segs, ents)
  <2>1. PICK w \in HanWindows(segs[n].text) :
            \E e \in Range(ents) : SoundsLike(r, segs, n, w, e.canonical)
    BY <1>3, Zenon DEF PinyinReports, SoundsLike, PinyinSuggests
  <2> QED  BY <2>1 DEF Sounds
<1> QED  BY <1>1, <1>2, <1>3

(* What a suggestion is, beside its distance *)
Suggested(r, segs, ents) ==
    /\ r.segment \in DOMAIN segs
    /\ r.start \in 0..Len(segs[r.segment].text) /\ r.end \in 0..Len(segs[r.segment].text)
    /\ r.producer \in 1..3 /\ r.term \in Seq(Byte) /\ \E e \in Range(ents) : r.term = e.canonical
    /\ r = [segment |-> r.segment, start |-> r.start, end |-> r.end,
            surface |-> Slice(segs[r.segment].text, r.start, r.end),
            producer |-> r.producer, term |-> r.term, distance |-> r.distance]

(* Terms are texts. *)
LEMMA TermType ==
    ASSUME NEW ents \in Seq(Entry), NEW e \in Range(ents)
    PROVE  e.canonical \in Seq(Byte)
<1>1. PICK i \in DOMAIN ents : ents[i] = e
  BY DEF Range
<1>2. e \in Entry
  BY <1>1
<1> QED  BY <1>2 DEF Entry

(* A suggestion for a window of words has the producer of its surface. *)
LEMMA SpelledType ==
    ASSUME NEW segs, Texts(segs), NEW ents \in Seq(Entry), NEW r, Spelled(r, segs, ents)
    PROVE  /\ Suggested(r, segs, ents) /\ r.distance \in Int
           /\ r.producer = LatinProducer(Slice(segs[r.segment].text, r.start, r.end))
           /\ r.distance = Distance(LettersOf(Slice(segs[r.segment].text, r.start, r.end)), LettersOf(r.term))
           /\ [start |-> r.start, end |-> r.end] \in LatinWindows(segs[r.segment].text)
<1>0. PICK n \in DOMAIN segs : \E w \in LatinWindows(segs[n].text) : \E e \in Range(ents) :
          SpelledLike(r, segs, n, w, e.canonical)
  BY DEF Spelled
<1>1. PICK w \in LatinWindows(segs[n].text), e \in Range(ents) : SpelledLike(r, segs, n, w, e.canonical)
  BY <1>0
<1>2. PICK m \in Nat : m = Len(segs[n].text) /\ segs[n].text \in Seq(Byte)
  BY TextType
<1>3. w.start \in 0..m /\ w.end \in 0..m /\ w = [start |-> w.start, end |-> w.end]
  BY <1>2, LatinWindowType
<1>4. e.canonical \in Seq(Byte)
  BY TermType
<1>5. PICK surface \in Seq(Byte) : surface = Slice(segs[n].text, w.start, w.end)
  <2>1. w.start \in Nat /\ w.end \in 0..Len(segs[n].text)
    BY <1>2, <1>3
  <2> QED  BY <1>2, <2>1, SliceType
<1>6. Distance(LettersOf(surface), LettersOf(e.canonical)) \in Nat
  <2>1. PICK k \in Nat : k = Len(LettersOf(surface)) /\ DOMAIN LettersOf(surface) = 1..k
    BY LettersType
  <2>2. PICK l \in Nat : l = Len(LettersOf(e.canonical)) /\ DOMAIN LettersOf(e.canonical) = 1..l
    BY <1>4, LettersType
  <2> QED  BY <2>1, <2>2, DistanceType
<1>7. r = [segment |-> n, start |-> w.start, end |-> w.end, surface |-> surface,
           producer |-> LatinProducer(surface), term |-> e.canonical,
           distance |-> Distance(LettersOf(surface), LettersOf(e.canonical))]
  BY <1>1, <1>5 DEF SpelledLike, Suggestion
<1>8. LatinProducer(surface) \in 1..3
  BY DEF LatinProducer, LatinWord, LatinWords
<1>9. /\ r.segment = n /\ r.start = w.start /\ r.end = w.end /\ r.producer = LatinProducer(surface)
      /\ r.term = e.canonical /\ r.distance \in Int
      /\ r.distance = Distance(LettersOf(surface), LettersOf(e.canonical))
  BY <1>6, <1>7
<1> QED  BY <1>2, <1>3, <1>4, <1>5, <1>7, <1>8, <1>9 DEF Suggested

(* So has one for a window of Han characters, *)
LEMMA SoundsType ==
    ASSUME NEW segs, Texts(segs), NEW ents \in Seq(Entry), NEW r, Sounds(r, segs, ents)
    PROVE  /\ Suggested(r, segs, ents) /\ r.distance \in Int
           /\ r.producer = HanPinyin
           /\ r.distance = Least(PinyinDistances(Slice(segs[r.segment].text, r.start, r.end), r.term))
           /\ [start |-> r.start, end |-> r.end] \in HanWindows(segs[r.segment].text)
<1>0. PICK n \in DOMAIN segs : \E w \in HanWindows(segs[n].text) : \E e \in Range(ents) :
          SoundsLike(r, segs, n, w, e.canonical)
  BY DEF Sounds
<1>1. PICK w \in HanWindows(segs[n].text), e \in Range(ents) : SoundsLike(r, segs, n, w, e.canonical)
  BY <1>0
<1>2. PICK m \in Nat : m = Len(segs[n].text) /\ segs[n].text \in Seq(Byte)
  BY TextType
<1>3. w.start \in 0..m /\ w.end \in 0..m /\ w = [start |-> w.start, end |-> w.end]
  BY <1>2, HanWindowType
<1>4. e.canonical \in Seq(Byte)
  BY TermType
<1>5. PICK surface : surface = Slice(segs[n].text, w.start, w.end)
  OBVIOUS
<1>6. PICK d : d = Least(PinyinDistances(surface, e.canonical))
  OBVIOUS
<1>7. /\ r = [segment |-> n, start |-> w.start, end |-> w.end, surface |-> surface,
              producer |-> HanPinyin, term |-> e.canonical, distance |-> d]
      /\ d \in 1..MaxPinyinDistance
  BY <1>1, <1>5, <1>6 DEF SoundsLike, Suggestion
<1>8. HanPinyin \in 1..3
  BY DEF HanPinyin
<1>9. /\ r.segment = n /\ r.start = w.start /\ r.end = w.end /\ r.producer = HanPinyin
      /\ r.term = e.canonical /\ r.distance \in Int /\ r.distance = d
  BY <1>7
<1> QED  BY <1>2, <1>3, <1>4, <1>5, <1>6, <1>7, <1>8, <1>9 DEF Suggested

(* so that one place has suggestions of one kind, *)
LEMMA OneKind ==
    ASSUME NEW segs, Texts(segs), NEW ents \in Seq(Entry),
           NEW r, Spelled(r, segs, ents), NEW s, Sounds(s, segs, ents), Place(r) = Place(s)
    PROVE  FALSE
<1>1. r.segment = s.segment /\ r.start = s.start /\ r.end = s.end
  BY DEF Place
<1>2. [start |-> r.start, end |-> r.end] \in LatinWindows(segs[r.segment].text) /\ r.segment \in DOMAIN segs
  BY SpelledType DEF Suggested
<1>3. [start |-> r.start, end |-> r.end] \in HanWindows(segs[r.segment].text)
  BY <1>1, SoundsType
<1>4. segs[r.segment].text \in Seq(Byte)
  BY <1>2, TextType
<1> QED  BY <1>2, <1>3, <1>4, WindowsDiffer

(* which have one producer and, for one term, one distance. *)
LEMMA OneProducer ==
    ASSUME NEW segs, Texts(segs), NEW ents \in Seq(Entry), NEW profile,
           NEW r \in AllReports(segs, ents, profile), NEW s \in AllReports(segs, ents, profile),
           Place(r) = Place(s)
    PROVE  r.producer = s.producer /\ (r.term = s.term => r.distance = s.distance)
<1>1. r.segment = s.segment /\ r.start = s.start /\ r.end = s.end
  BY DEF Place
<1>2. PICK surface : /\ surface = Slice(segs[r.segment].text, r.start, r.end)
                     /\ surface = Slice(segs[s.segment].text, s.start, s.end)
  BY <1>1
<1>3. CASE Spelled(r, segs, ents) /\ Spelled(s, segs, ents)
  <2>1. r.producer = LatinProducer(surface) /\ r.distance = Distance(LettersOf(surface), LettersOf(r.term))
    BY <1>2, <1>3, SpelledType
  <2>2. s.producer = LatinProducer(surface) /\ s.distance = Distance(LettersOf(surface), LettersOf(s.term))
    BY <1>2, <1>3, SpelledType
  <2> QED  BY <2>1, <2>2, Zenon
<1>4. CASE Sounds(r, segs, ents) /\ Sounds(s, segs, ents)
  <2>1. r.producer = HanPinyin /\ r.distance = Least(PinyinDistances(surface, r.term))
    BY <1>2, <1>4, SoundsType
  <2>2. s.producer = HanPinyin /\ s.distance = Least(PinyinDistances(surface, s.term))
    BY <1>2, <1>4, SoundsType
  <2> QED  BY <2>1, <2>2, Zenon
<1>5. /\ Spelled(r, segs, ents) \/ Sounds(r, segs, ents)
      /\ Spelled(s, segs, ents) \/ Sounds(s, segs, ents)
  BY ReportsAre
<1>6. ~(Spelled(r, segs, ents) /\ Sounds(s, segs, ents)) /\ ~(Spelled(s, segs, ents) /\ Sounds(r, segs, ents))
  BY OneKind
<1> QED  BY <1>3, <1>4, <1>5, <1>6

(* A suggestion has its type. *)
LEMMA ReportType ==
    ASSUME NEW segs, Texts(segs), NEW ents \in Seq(Entry), NEW profile,
           NEW r \in AllReports(segs, ents, profile)
    PROVE  Suggested(r, segs, ents) /\ r.distance \in Int
BY ReportsAre, SpelledType, SoundsType

(* There are finitely many suggestions. *)
LEMMA ReportsAreFinite ==
    ASSUME NEW segs, Texts(segs), NEW ents \in Seq(Entry),
           NEW S, \A r \in S : Suggested(r, segs, ents),
           \A r, s \in S : Place(r) = Place(s) /\ r.producer = s.producer /\ r.term = s.term => r = s
    PROVE  IsFiniteSet(S)
<1> DEFINE terms == [i \in DOMAIN ents |-> ents[i].canonical]
           at == [r \in S |-> <<<<<<r.segment, r.start>>, <<r.end, r.producer>>>>, r.term>>]
<1>1. IsFiniteSet(AllPlaces(segs) \X Range(terms))
  <2>1. PICK n \in Nat : DOMAIN ents = 1..n
    BY LenProperties
  <2>2. DOMAIN terms = 1..n
    BY <2>1
  <2> HIDE DEF terms
  <2>3. IsFiniteSet(Range(terms))
    BY <2>2, RangeIsFinite
  <2> QED  BY <2>3, PlacesAreFinite, FS_Product
<1>2. ASSUME NEW r \in S PROVE at[r] \in AllPlaces(segs) \X Range(terms)
  <2>1. /\ r.segment \in DOMAIN segs /\ r.producer \in 1..3
        /\ r.start \in 0..Len(segs[r.segment].text) /\ r.end \in 0..Len(segs[r.segment].text)
    BY DEF Suggested
  <2>2. <<<<r.segment, r.start>>, <<r.end, r.producer>>>> \in PlacesIn(segs, r.segment)
    BY <2>1 DEF PlacesIn
  <2>3. <<<<r.segment, r.start>>, <<r.end, r.producer>>>> \in AllPlaces(segs)
    BY <2>1, <2>2 DEF AllPlaces
  <2>4. PICK e \in Range(ents) : r.term = e.canonical
    BY DEF Suggested
  <2>5. PICK i \in DOMAIN ents : ents[i] = e
    BY <2>4 DEF Range
  <2>6. r.term \in Range(terms)
    BY <2>4, <2>5 DEF Range
  <2> HIDE DEF terms
  <2> QED  BY <2>3, <2>6
<1>3. ASSUME NEW r \in S, NEW s \in S, at[r] = at[s] PROVE r = s
  <2>1. /\ r.segment = s.segment /\ r.start = s.start /\ r.end = s.end
        /\ r.producer = s.producer /\ r.term = s.term
    BY <1>3
  <2> HIDE DEF at
  <2> QED  BY <2>1 DEF Place
<1>4. at \in Injection(S, AllPlaces(segs) \X Range(terms))
  <2>1. at \in [S -> AllPlaces(segs) \X Range(terms)]
    <3> HIDE DEF terms
    <3> QED  BY <1>2
  <2> HIDE DEF at, terms
  <2> QED  BY <1>3, <2>1 DEF Injection, IsInjective
<1> QED  BY <1>1, <1>4, FS_Injection

(* The key of a suggestion is its place, its producer and its distance, and then its term. *)
KeyIs(r, n) ==
    /\ ReportKey(r) \in Seq(Int) /\ Len(ReportKey(r)) = 5 + n /\ n = Len(r.term)
    /\ ReportKey(r)[1] = r.segment /\ ReportKey(r)[2] = r.start /\ ReportKey(r)[3] = r.end
    /\ ReportKey(r)[4] = r.producer /\ ReportKey(r)[5] = r.distance
    /\ \A i \in 1..n : ReportKey(r)[5 + i] = r.term[i]

(* It is a sequence of numbers. *)
LEMMA ReportKeyType ==
    ASSUME NEW r, r.segment \in Int, r.start \in Int, r.end \in Int, r.producer \in Int,
           r.distance \in Int, r.term \in Seq(Byte)
    PROVE  \E n \in Nat : KeyIs(r, n)
<1>1. PICK a \in Seq(Int) : a = <<r.segment, r.start, r.end, r.producer, r.distance>>
  <2>1. <<r.segment, r.start, r.end, r.producer, r.distance>> \in Seq(Int)
    OBVIOUS
  <2> QED  BY <2>1
<1>2. /\ Len(a) = 5 /\ a[1] = r.segment /\ a[2] = r.start /\ a[3] = r.end
      /\ a[4] = r.producer /\ a[5] = r.distance
  BY <1>1
<1>3. PICK b \in Seq(Int) : b = r.term
  <2>1. \A x \in Byte : x \in Int
    BY DEF Byte
  <2>2. r.term \in Seq(Int)
    BY <2>1
  <2> QED  BY <2>2
<1>4. PICK n \in Nat : n = Len(b)
  BY LenProperties
<1>5. ReportKey(r) = a \o b
  <2>1. <<r.segment, r.start, r.end>> \o <<r.producer, r.distance>>
        = <<r.segment, r.start, r.end, r.producer, r.distance>>
    <3>1. PICK u \in Seq(Int), v \in Seq(Int) : u = <<r.segment, r.start, r.end>> /\ v = <<r.producer, r.distance>>
      <4>1. <<r.segment, r.start, r.end>> \in Seq(Int) /\ <<r.producer, r.distance>> \in Seq(Int)
        OBVIOUS
      <4> QED  BY <4>1
    <3>2. /\ Len(u) = 3 /\ u[1] = r.segment /\ u[2] = r.start /\ u[3] = r.end
          /\ Len(v) = 2 /\ v[1] = r.producer /\ v[2] = r.distance
      BY <3>1
    <3>3. /\ u \o v \in Seq(Int) /\ Len(u \o v) = Len(u) + Len(v)
          /\ \A i \in 1..(Len(u) + Len(v)) : (u \o v)[i] = IF i <= Len(u) THEN u[i] ELSE v[i - Len(u)]
      BY ConcatProperties
    <3>4. PICK t \in Seq(Int) : t = u \o v
      BY <3>3
    <3>5. Len(t) = Len(a)
      BY <1>2, <3>2, <3>3, <3>4
    <3>6. ASSUME NEW i \in 1..Len(a) PROVE t[i] = a[i]
      <4>0. i \in 1..(Len(u) + Len(v))
        BY <1>2, <3>2
      <4>1. t[i] = IF i <= 3 THEN u[i] ELSE v[i - 3]
        <5>1. (u \o v)[i] = IF i <= Len(u) THEN u[i] ELSE v[i - Len(u)]
          BY <3>3, <4>0
        <5> QED  BY <3>2, <3>4, <5>1
      <4>2. i = 1 \/ i = 2 \/ i = 3 \/ i = 4 \/ i = 5
        BY <1>2
      <4>3. CASE i = 1 \/ i = 2 \/ i = 3
        <5>1. t[i] = u[i]
          BY <4>1, <4>3
        <5> QED  BY <1>2, <3>2, <4>3, <5>1, Zenon
      <4>4. CASE i = 4
        <5>1. ~(4 <= 3) /\ 4 - 3 = 1
          OBVIOUS
        <5>2. t[i] = v[1]
          BY <4>1, <4>4, <5>1
        <5> QED  BY <1>2, <3>2, <4>4, <5>2, Zenon
      <4>5. CASE i = 5
        <5>1. ~(5 <= 3) /\ 5 - 3 = 2
          OBVIOUS
        <5>2. t[i] = v[2]
          BY <4>1, <4>5, <5>1
        <5> QED  BY <1>2, <3>2, <4>5, <5>2, Zenon
      <4> QED  BY <4>2, <4>3, <4>4, <4>5
    <3>7. t = a
      BY <3>5, <3>6, SeqEqual
    <3> QED  BY <1>1, <3>1, <3>4, <3>7
  <2>2. ReportKey(r) = (<<r.segment, r.start, r.end>> \o <<r.producer, r.distance>>) \o b
    BY <1>3 DEF ReportKey, Place
  <2> QED  BY <1>1, <2>1, <2>2
<1>6. /\ a \o b \in Seq(Int) /\ Len(a \o b) = Len(a) + Len(b)
      /\ \A i \in 1..(Len(a) + Len(b)) : (a \o b)[i] = IF i <= Len(a) THEN a[i] ELSE b[i - Len(a)]
  BY ConcatProperties
<1>7. \A i \in 1..5 : (a \o b)[i] = a[i]
  BY <1>2, <1>4, <1>6
<1>8. ASSUME NEW i \in 1..n PROVE (a \o b)[5 + i] = b[i]
  <2>1. 5 + i \in 1..(Len(a) + Len(b)) /\ ~(5 + i <= Len(a)) /\ 5 + i - Len(a) = i
    BY <1>2, <1>4
  <2>2. (a \o b)[5 + i] = IF 5 + i <= Len(a) THEN a[5 + i] ELSE b[5 + i - Len(a)]
    BY <1>6, <2>1
  <2> QED  BY <2>1, <2>2
<1>9. Len(a \o b) = 5 + n
  BY <1>2, <1>4, <1>6
<1>11. (a \o b)[1] = a[1] /\ (a \o b)[2] = a[2] /\ (a \o b)[3] = a[3] /\ (a \o b)[4] = a[4] /\ (a \o b)[5] = a[5]
  <2>1. 1 \in 1..5 /\ 2 \in 1..5 /\ 3 \in 1..5 /\ 4 \in 1..5 /\ 5 \in 1..5
    OBVIOUS
  <2> QED  BY <1>7, <2>1, Zenon
<1> QED  BY <1>2, <1>3, <1>4, <1>5, <1>6, <1>8, <1>9, <1>11 DEF KeyIs

(* Of two keys in order whose first four numbers are the same, the fifth is not greater.   *)
LEMMA KeyOfFive ==
    ASSUME NEW a \in Seq(Int), NEW b \in Seq(Int), Len(a) >= 5, Len(b) >= 5, LexLess(a, b),
           a[1] = b[1], a[2] = b[2], a[3] = b[3], a[4] = b[4]
    PROVE  a[5] <= b[5]
<1>1. a[5] \in Int /\ b[5] \in Int
  <2>1. 5 \in DOMAIN a /\ 5 \in DOMAIN b
    <3>1. DOMAIN a = 1..Len(a) /\ DOMAIN b = 1..Len(b) /\ Len(a) \in Nat /\ Len(b) \in Nat
      BY LenProperties
    <3> QED  BY <3>1
  <2> QED  BY <2>1, KeyParts
<1>2. CASE IsStrictPrefix(a, b)
  <2>1. \A j \in 1..Len(a) : a[j] = b[j]
    BY <1>2, StrictPrefix
  <2>2. 5 \in 1..Len(a)
    BY LenProperties
  <2>3. a[5] = b[5]
    BY <2>1, <2>2
  <2> QED  BY <1>1, <2>3
<1>3. CASE ~IsStrictPrefix(a, b)
  <2>1. PICK k \in DOMAIN a \cap DOMAIN b : (\A j \in 1..(k - 1) : a[j] = b[j]) /\ a[k] < b[k]
    BY <1>3 DEF LexLess
  <2>2. k \in Nat /\ k >= 1 /\ a[k] \in Int /\ b[k] \in Int
    <3>1. DOMAIN a = 1..Len(a) /\ Len(a) \in Nat
      BY LenProperties
    <3>2. k \in DOMAIN a /\ k \in DOMAIN b
      BY <2>1
    <3>3. k \in Nat /\ k >= 1
      BY <3>1, <3>2
    <3> QED  BY <3>2, <3>3, KeyParts
  <2>3. k # 1 /\ k # 2 /\ k # 3 /\ k # 4
    <3>1. a[k] # b[k]
      BY <2>1, <2>2
    <3> QED  BY <3>1
  <2>4. CASE k = 5
    BY <1>1, <2>1, <2>4
  <2>5. CASE k > 5
    <3>1. 5 \in 1..(k - 1)
      BY <2>2, <2>5
    <3>2. a[5] = b[5]
      BY <2>1, <3>1
    <3>3. PICK x \in Int : x = a[5]
      BY <1>1
    <3>4. x = b[5]
      BY <3>2, <3>3, Zenon
    <3>5. x <= x
      OBVIOUS
    <3> QED  BY <3>3, <3>4, <3>5, Zenon
  <2> QED  BY <2>2, <2>3, <2>4, <2>5
<1> QED  BY <1>2, <1>3

(* The order of suggestions *)
ReportsBefore(S, x) == {y \in S : LexLess(ReportKey(y), ReportKey(x))}
InReportOrder(S) == Sorted(S, LAMBDA r, s : LexLess(ReportKey(r), ReportKey(s)))

(* Some suggestions as a list, in the order of their keys *)
ListedReports(S, sorted) ==
    /\ Len(sorted) \in Nat /\ DOMAIN sorted = 1..Len(sorted)
    /\ \A i \in DOMAIN sorted : sorted[i] \in S
    /\ \A r \in S : \E i \in DOMAIN sorted : sorted[i] = r
    /\ \A i, j \in DOMAIN sorted : i < j => LexLess(ReportKey(sorted[i]), ReportKey(sorted[j]))

(* A suggestion's key is a sequence of numbers. *)
LEMMA SuggestedKey ==
    ASSUME NEW segs, Texts(segs), NEW ents, NEW r, Suggested(r, segs, ents), r.distance \in Int
    PROVE  \E n \in Nat : KeyIs(r, n)
<1>1. PICK m \in Nat : m = Len(segs[r.segment].text)
  BY TextType DEF Suggested
<1>2. r.start \in Int /\ r.end \in Int /\ r.producer \in Int /\ r.term \in Seq(Byte)
  BY <1>1 DEF Suggested
<1>3. r.segment \in Int
  BY DEF Suggested, Texts
<1> QED  BY <1>2, <1>3, ReportKeyType

(* Suggestions with one key are one suggestion. *)
LEMMA SuggestedOnce ==
    ASSUME NEW segs, Texts(segs), NEW ents, NEW r, Suggested(r, segs, ents), r.distance \in Int,
           NEW s, Suggested(s, segs, ents), s.distance \in Int, ReportKey(r) = ReportKey(s)
    PROVE  r = s
<1>1. PICK m \in Nat : KeyIs(r, m)
  BY SuggestedKey
<1>2. PICK n \in Nat : KeyIs(s, n)
  BY SuggestedKey
<1>3. /\ r.segment = s.segment /\ r.start = s.start /\ r.end = s.end
      /\ r.producer = s.producer /\ r.distance = s.distance
  BY <1>1, <1>2 DEF KeyIs
<1>4. 5 + m = 5 + n
  BY <1>1, <1>2 DEF KeyIs
<1>5. m = n
  BY <1>4
<1>6. r.term = s.term
  <2>1. PICK a \in Seq(Byte), b \in Seq(Byte) : a = r.term /\ b = s.term
    BY DEF Suggested
  <2>2. \A i \in 1..m : a[i] = b[i]
    BY <1>1, <1>2, <1>5, <2>1 DEF KeyIs
  <2>3. Len(a) = m /\ Len(b) = m
    BY <1>1, <1>2, <1>5, <2>1 DEF KeyIs
  <2>4. a = b
    BY <2>2, <2>3, SeqEqual
  <2> QED  BY <2>1, <2>4
<1> QED  BY <1>3, <1>6 DEF Suggested

(* The suggestions are sorted by their keys. *)
LEMMA ReportsInOrder ==
    ASSUME NEW segs, Texts(segs), NEW ents \in Seq(Entry),
           NEW S, \A r \in S : Suggested(r, segs, ents) /\ r.distance \in Int, IsFiniteSet(S)
    PROVE  ListedReports(S, InReportOrder(S))
<1> DEFINE key == [r \in S |-> ReportKey(r)]
           before == [r \in S |-> ReportsBefore(S, r)]
           s == InReportOrder(S)
<1>1. \A r \in S : ReportKey(r) \in Seq(Int)
  BY SuggestedKey DEF KeyIs
<1>2. key \in [S -> Seq(Int)]
  BY <1>1
<1>3. ASSUME NEW r \in S, NEW t \in S, key[r] = key[t] PROVE r = t
  <2>1. ReportKey(r) = ReportKey(t)
    BY <1>3
  <2> QED  BY <2>1, SuggestedOnce
<1>4. before \in [S -> SUBSET S]
  BY DEF ReportsBefore
<1>5. \A r, t \in S : t \in before[r] <=> LexLess(key[t], key[r])
  BY DEF ReportsBefore
<1>6. s = [i \in 1..Cardinality(S) |-> CHOOSE r \in S : Cardinality(ReportsBefore(S, r)) = i - 1]
  BY DEF InReportOrder, Sorted, ReportsBefore
<1>7. \A i : (CHOOSE r \in S : Cardinality(ReportsBefore(S, r)) = i - 1)
             = CHOOSE r \in S : Cardinality(before[r]) = i - 1
  <2>1. \A r \in S : before[r] = ReportsBefore(S, r)
    OBVIOUS
  <2> HIDE DEF before
  <2> QED  BY <2>1
<1>8. \A r \in S : key[r] = ReportKey(r)
  OBVIOUS
<1> HIDE DEF key, before, s
<1>9. s = [i \in 1..Cardinality(S) |-> CHOOSE r \in S : Cardinality(before[r]) = i - 1]
  BY <1>6, <1>7
<1>10. Lists(before, s, S)
  BY <1>2, <1>3, <1>4, <1>5, <1>9, ListedByKey
<1>11. Len(s) \in Nat /\ DOMAIN s = 1..Len(s) /\ \A i \in DOMAIN s : s[i] \in S
  BY <1>10 DEF Lists
<1>12. ASSUME NEW i \in DOMAIN s, NEW j \in DOMAIN s, i < j PROVE LexLess(ReportKey(s[i]), ReportKey(s[j]))
  <2>1. s[i] \in before[s[j]]
    BY <1>10, <1>12 DEF Lists
  <2> QED  BY <1>5, <1>8, <1>11, <2>1
<1>13. \A r \in S : \E i \in DOMAIN s : s[i] = r
  BY <1>10 DEF Lists
<1>14. ListedReports(S, s)
  BY <1>11, <1>12, <1>13 DEF ListedReports
<1> QED  BY <1>14 DEF s

(* The first few of each place, of a list of suggestions *)
LEMMA FirstAre ==
    ASSUME NEW sorted, NEW n \in Nat, DOMAIN sorted = 1..n,
           NEW value, value = [i \in 1..n |-> Place(sorted[i])]
    PROVE  FirstOfPlaces(sorted) = AtPlaces(sorted, FewBefore(n, value, MaxCandidates))
<1> DEFINE Same(i) == {j \in 1..(i - 1) : Place(sorted[j]) = Place(sorted[i])}
           Like(i) == {j \in 1..(i - 1) : value[j] = value[i]}
<1>1. ASSUME NEW i \in 1..n PROVE Same(i) = Like(i)
  <2>1. \A j \in 1..(i - 1) : j \in 1..n /\ value[j] = Place(sorted[j])
    OBVIOUS
  <2> QED  BY <2>1
<1>2. \A i \in 1..n : Cardinality(Same(i)) = Cardinality(Like(i))
  <2> HIDE DEF Same, Like
  <2> QED  BY <1>1
<1>3. {i \in 1..n : Cardinality(Same(i)) < MaxCandidates} = {i \in 1..n : Cardinality(Like(i)) < MaxCandidates}
  <2> HIDE DEF Same, Like
  <2> QED  BY <1>2
<1>4. FewBefore(n, value, MaxCandidates) = {i \in 1..n : Cardinality(Like(i)) < MaxCandidates}
  BY DEF FewBefore
<1>5. FirstOfPlaces(sorted) = AtPlaces(sorted, {i \in 1..n : Cardinality(Same(i)) < MaxCandidates})
  BY DEF FirstOfPlaces
<1> QED  BY <1>3, <1>4, <1>5, Zenon

(* What is dropped at a place is not closer than what is kept there, and that is as much as   *)
(* may be kept.                                                            *)
Closest(all, kept) ==
    \A r \in all \ Range(kept) :
        /\ Cardinality({k \in DOMAIN kept : Place(kept[k]) = Place(r)}) = MaxCandidates
        /\ \A k \in DOMAIN kept : Place(kept[k]) = Place(r) => kept[k].distance <= r.distance

(* So are suggestions retrieved, for all texts, terms, readings and limits.           *)
LEMMA RetrievedAreClosest ==
    ASSUME NEW segs, Texts(segs), NEW ents \in Seq(Entry), NEW profile
    PROVE  Closest(AllReports(segs, ents, profile), Reports(segs, ents, profile))
<1>1. PICK S : S = AllReports(segs, ents, profile)
  OBVIOUS
<1>2. \A r \in S : Suggested(r, segs, ents) /\ r.distance \in Int
  BY <1>1, ReportType
<1>3. \A r, t \in S : Place(r) = Place(t) => r.producer = t.producer /\ (r.term = t.term => r.distance = t.distance)
  BY <1>1, OneProducer
<1>4. IsFiniteSet(S)
  <2>1. ASSUME NEW r \in S, NEW t \in S, Place(r) = Place(t), r.producer = t.producer, r.term = t.term
        PROVE  r = t
    <3>1. /\ r.segment = t.segment /\ r.start = t.start /\ r.end = t.end /\ r.distance = t.distance
      BY <1>3, <2>1 DEF Place
    <3> QED  BY <1>2, <2>1, <3>1 DEF Suggested
  <2> QED  BY <1>2, <2>1, ReportsAreFinite
<1>5. PICK sorted : sorted = InReportOrder(S)
  OBVIOUS
<1>6. ListedReports(S, sorted)
  BY <1>2, <1>4, <1>5, ReportsInOrder
<1>7. PICK n \in Nat : DOMAIN sorted = 1..n /\ \A i \in 1..n : sorted[i] \in S
  BY <1>6 DEF ListedReports
<1>8. PICK value : value = [i \in 1..n |-> Place(sorted[i])]
  OBVIOUS
<1>9. PICK P : P = FewBefore(n, value, MaxCandidates)
  OBVIOUS
<1>10. PICK at : at = InOrder(P)
  OBVIOUS
<1>11. PICK kept : kept = Reports(segs, ents, profile)
  OBVIOUS
<1>12. kept = AtPlaces(sorted, P)
  <2>1. kept = FirstOfPlaces(InReportOrder(S))
    BY <1>1, <1>11 DEF Reports, InReportOrder
  <2> QED  BY <1>5, <1>7, <1>8, <1>9, <2>1, FirstAre
<1>13. /\ DOMAIN kept = DOMAIN at
       /\ \A k \in DOMAIN at : kept[k] = sorted[at[k]] /\ at[k] \in P
       /\ \A x \in P : \E k \in DOMAIN at : at[k] = x
  <2>1. P \in SUBSET (1..n)
    BY <1>9 DEF FewBefore
  <2>2. kept = [k \in DOMAIN at |-> sorted[at[k]]]
    BY <1>10, <1>12 DEF AtPlaces
  <2>3. \A k \in DOMAIN InOrder(P) : InOrder(P)[k] \in P
    BY <2>1, AtPlacesType
  <2>4. \A x \in P : \E k \in DOMAIN InOrder(P) : InOrder(P)[k] = x
    BY <2>1, AtPlacesType
  <2>5. /\ \A k \in DOMAIN at : at[k] \in P
        /\ \A x \in P : \E k \in DOMAIN at : at[k] = x
    BY <1>10, <2>3, <2>4, Zenon
  <2> QED  BY <2>2, <2>5
<1>14. MaxCandidates \in Nat /\ P \in SUBSET (1..n)
  BY <1>9, LimitsAssumption DEF FewBefore
<1>15. ASSUME NEW r \in S, r \notin Range(kept)
       PROVE  /\ Cardinality({k \in DOMAIN kept : Place(kept[k]) = Place(r)}) = MaxCandidates
              /\ \A k \in DOMAIN kept : Place(kept[k]) = Place(r) => kept[k].distance <= r.distance
  <2>1. PICK j \in 1..n : sorted[j] = r
    BY <1>6, <1>7 DEF ListedReports
  <2>2. j \notin P
    <3> SUFFICES ASSUME j \in P PROVE FALSE
      OBVIOUS
    <3>1. PICK k \in DOMAIN at : at[k] = j
      BY <1>13
    <3>2. k \in DOMAIN kept /\ kept[k] = r
      BY <1>13, <2>1, <3>1
    <3> QED  BY <1>15, <3>2 DEF Range
  <2>3. /\ Cardinality({k \in DOMAIN at : value[at[k]] = value[j]}) = MaxCandidates
        /\ \A k \in DOMAIN at : value[at[k]] = value[j] => at[k] < j
    BY <1>9, <1>10, <1>14, <2>2, DroppedLast
  <2>4. ASSUME NEW k \in DOMAIN at PROVE value[at[k]] = Place(kept[k]) /\ at[k] \in 1..n
    <3>1. at[k] \in 1..n /\ kept[k] = sorted[at[k]]
      BY <1>13, <1>14
    <3> QED  BY <1>8, <3>1
  <2>5. value[j] = Place(r)
    BY <1>8, <2>1
  <2>6. {k \in DOMAIN kept : Place(kept[k]) = Place(r)} = {k \in DOMAIN at : value[at[k]] = value[j]}
    <3>1. DOMAIN kept = DOMAIN at
      BY <1>13
    <3> QED  BY <2>4, <2>5, <3>1
  <2>7. ASSUME NEW k \in DOMAIN kept, Place(kept[k]) = Place(r) PROVE kept[k].distance <= r.distance
    <3>1. k \in DOMAIN at /\ kept[k] = sorted[at[k]]
      BY <1>13
    <3>2. at[k] \in 1..n /\ at[k] < j
      BY <2>3, <2>4, <2>5, <2>7, <3>1
    <3>3. LexLess(ReportKey(kept[k]), ReportKey(r))
      BY <1>6, <1>7, <2>1, <3>1, <3>2 DEF ListedReports
    <3>4. kept[k] \in S
      BY <1>7, <3>1, <3>2
    <3>5. kept[k].producer = r.producer
      BY <1>3, <2>7, <3>4
    <3>6. PICK a \in Nat : KeyIs(kept[k], a)
      BY <1>2, <3>4, SuggestedKey
    <3>7. PICK b \in Nat : KeyIs(r, b)
      BY <1>2, SuggestedKey
    <3>8. PICK x \in Seq(Int) : x = ReportKey(kept[k]) /\ Len(x) >= 5
      BY <3>6 DEF KeyIs
    <3>9. PICK y \in Seq(Int) : y = ReportKey(r) /\ Len(y) >= 5
      BY <3>7 DEF KeyIs
    <3>10. kept[k].segment = r.segment /\ kept[k].start = r.start /\ kept[k].end = r.end
      BY <2>7 DEF Place
    <3>11. x[1] = y[1] /\ x[2] = y[2] /\ x[3] = y[3] /\ x[4] = y[4]
      BY <3>5, <3>6, <3>7, <3>8, <3>9, <3>10 DEF KeyIs
    <3>12. x[5] <= y[5]
      BY <3>3, <3>8, <3>9, <3>11, KeyOfFive
    <3> QED  BY <3>6, <3>7, <3>8, <3>9, <3>12 DEF KeyIs
  <2> QED  BY <2>3, <2>6, <2>7
<1>16. Closest(S, kept)
  BY <1>15 DEF Closest
<1> QED  BY <1>1, <1>11, <1>16

(***************************************************************************)
(* The analysis of a command                                                  *)
(***************************************************************************)
(* What goes before the detectors *)
BeforeDetection == {"read", "terms", "transcript", "report", "retrieve", "rank", "detect"}

(* The inputs are files, what was parsed has its type, there are no cases before     *)
(* there were detectors, and then they are places that their keys name.             *)
AnalysisInv ==
    /\ input \in [srt : SrtFiles, terms : TermsFiles]
    /\ entries \in Seq(Entry)
    /\ CasesPlaced
    /\ phase \in BeforeDetection => DOMAIN cases = {}
    /\ KeysNameOneCase

(* It holds of what is started, *)
LEMMA AnalysisInit == ExperimentInit => AnalysisInv
<1> SUFFICES ASSUME ExperimentInit PROVE AnalysisInv
  OBVIOUS
<1>1. input \in [srt : SrtFiles, terms : TermsFiles]
  BY CommandAssumption DEF ExperimentInit
<1>2. segments = <<>> /\ entries = <<>> /\ cases = <<>>
  BY DEF ExperimentInit
<1>3. DOMAIN <<>> = 1..0 /\ 1..0 = {} /\ 0 \in Nat /\ <<>> \in Seq(Entry)
  BY EmptySeq
<1>4. CasesPlaced
  BY <1>2, <1>3 DEF CasesPlaced, Texts
<1> QED  BY <1>1, <1>2, <1>3, <1>4 DEF AnalysisInv, KeysNameOneCase

(* Steps that leave the analysis alone do not go back before the detectors.         *)
LEMMA AnalysisKept ==
    ASSUME AnalysisInv, UNCHANGED analysis, phase' \in BeforeDetection => phase \in BeforeDetection
    PROVE  AnalysisInv'
BY DEF AnalysisInv, analysis, CasesPlaced, Texts, Placed, KeysNameOneCase, SpanKey

(* after the steps both commands have, *)
LEMMA AnalysisReview ==
    ASSUME AnalysisInv, ReviewStep
    PROVE  AnalysisInv'
<1> USE DEF BeforeDetection, Proceed, UpTo
<1>1. CASE ReadInputs
  BY <1>1, AnalysisKept DEF ReadInputs
<1>2. CASE ParseSessionTerms
  <2>1. input.terms \in Seq(TermLine)
    BY ReviewAssumption DEF AnalysisInv
  <2>2. ParseTerms(input.terms) \in Seq(Entry)
    BY <2>1, EntriesType
  <2>3. entries' \in Seq(Entry)
    BY <1>2, <2>2 DEF ParseSessionTerms, AnalysisInv
  <2>4. phase \in BeforeDetection /\ UNCHANGED <<input, segments, cases>>
    BY <1>2 DEF ParseSessionTerms
  <2> QED
    BY <2>3, <2>4 DEF AnalysisInv, CasesPlaced, Texts, Placed, KeysNameOneCase, SpanKey
<1>3. CASE ParseTranscript
  <2>1. input.srt \in Seq(SrtLine)
    BY ReviewAssumption DEF AnalysisInv
  <2>2. Texts(ParseSrt(input.srt))
    BY <2>1, SegmentsType
  <2>3. Texts(segments)'
    <3>1. segments' = ParseSrt(input.srt) \/ segments' = segments
      BY <1>3 DEF ParseTranscript
    <3>2. Texts(segments)
      BY DEF AnalysisInv, CasesPlaced
    <3> QED  BY <2>2, <3>1, <3>2 DEF Texts
  <2>4. DOMAIN cases = {} /\ UNCHANGED <<input, entries, cases>>
    BY <1>3 DEF ParseTranscript, AnalysisInv
  <2> QED
    BY <2>3, <2>4 DEF AnalysisInv, CasesPlaced, KeysNameOneCase
<1>4. CASE Detect
  <2>1. UNCHANGED <<input, segments, entries>> /\ phase' \in {"decide", "error"}
    BY <1>4 DEF Detect
  <2>2. Texts(segments) /\ entries \in Seq(Entry)
    BY DEF AnalysisInv, CasesPlaced
  <2>3. CASE DetectionError(RunFor(segments, entries), segments, entries) = None
    <3>1. PICK S : S = CanonicalSpans(segments, entries)
      OBVIOUS
    <3>2. cases' = InSpanOrder(S)
      BY <1>4, <2>3, <3>1 DEF Detect, TermReview
    <3>3. /\ \A c \in S : Detected(c, segments)
          /\ \A c, d \in S : SpanKey(c) = SpanKey(d) => c = d
      BY <2>2, <2>3, <3>1, SpansDetected
    <3>4. /\ cases' \in Seq(S) /\ DOMAIN cases' = 1..Len(cases')
          /\ \A i, j \in DOMAIN cases' : cases'[i] = cases'[j] => i = j
      BY <2>2, <3>2, <3>3, SpansInOrder
    <3>5. Len(cases') \in Nat /\ \A i \in DOMAIN cases' : cases'[i] \in S
      BY <3>4, SMTT(30)
    <3>6. CasesPlaced'
      <4>1. \A i \in DOMAIN cases' : Placed(cases'[i], segments)
        BY <3>3, <3>5 DEF Detected
      <4>2. \A i \in DOMAIN cases' : Placed(cases[i], segments)'
        BY <2>1, <4>1 DEF Placed
      <4>3. Texts(segments)'
        BY <2>1, <2>2 DEF Texts
      <4> QED  BY <3>4, <3>5, <4>2, <4>3 DEF CasesPlaced
    <3>7. KeysNameOneCase'
      <4>1. ASSUME NEW i \in DOMAIN cases', NEW j \in DOMAIN cases', SpanKey(cases'[i]) = SpanKey(cases'[j])
            PROVE  i = j
        BY <3>3, <3>4, <3>5, <4>1
      <4> QED  BY <4>1 DEF KeysNameOneCase, SpanKey
    <3> QED  BY <2>1, <3>6, <3>7 DEF AnalysisInv
  <2>4. CASE DetectionError(RunFor(segments, entries), segments, entries) # None
    <3>1. UNCHANGED cases
      BY <1>4, <2>4 DEF Detect
    <3> QED  BY <2>1, <3>1, AnalysisKept DEF analysis
  <2> QED  BY <2>3, <2>4
<1>5. CASE ReportIssues
  BY <1>5, AnalysisKept DEF ReportIssues
<1>6. CASE \E d \in Inputs : Decide(d)
  BY <1>6, AnalysisKept DEF Decide
<1>7. CASE InputEnds
  BY <1>7, AnalysisKept DEF InputEnds
<1>8. CASE AllDecided
  BY <1>8, AnalysisKept DEF AllDecided
<1>9. CASE Announce
  BY <1>9, AnalysisKept DEF Announce
<1>10. CASE Derive
  BY <1>10, AnalysisKept DEF Derive
<1>11. CASE \E f \in Output : Write(f) \/ WriteFails(f)
  <2> PICK f \in Output : Write(f) \/ WriteFails(f)
    BY <1>11
  <2>1. UNCHANGED analysis /\ (phase' = After[f] \/ phase' = "error")
    BY DEF Write, WriteFails
  <2>2. After[f] \in {"log", "summary", "announce"}
    BY DEF After, Output
  <2> QED  BY <2>1, <2>2, AnalysisKept
<1> QED
  BY <1>1, <1>2, <1>3, <1>4, <1>5, <1>6, <1>7, <1>8, <1>9, <1>10, <1>11 DEF ReviewStep

(* and after those of an experiment. *)
LEMMA AnalysisExperiment ==
    ASSUME AnalysisInv, ExperimentStep
    PROVE  AnalysisInv'
<1> USE DEF BeforeDetection, Proceed, UpTo
<1>1. CASE ReportToExperimenter
  BY <1>1, AnalysisKept DEF ReportToExperimenter
<1>2. CASE Retrieve
  BY <1>2, AnalysisKept DEF Retrieve
<1>3. CASE \E k \in DOMAIN reports : Select(k)
  BY <1>3, AnalysisKept DEF Select, vars
<1>4. CASE SelectNone
  BY <1>4, AnalysisKept DEF SelectNone, vars
<1>5. CASE SelectionFails
  BY <1>5, AnalysisKept DEF SelectionFails
<1>6. CASE AllShown
  BY <1>6, AnalysisKept DEF AllShown
<1>7. CASE DeriveBesideSidecar
  BY <1>7, AnalysisKept DEF DeriveBesideSidecar
<1>8. CASE WriteSidecar
  BY <1>8, AnalysisKept DEF WriteSidecar
<1>9. CASE SidecarFails
  BY <1>9, AnalysisKept DEF SidecarFails
<1> QED
  BY <1>1, <1>2, <1>3, <1>4, <1>5, <1>6, <1>7, <1>8, <1>9 DEF ExperimentStep

(* What a command has analyzed has its type and its cases lie in its texts, for all    *)
(* files it may be started with (run_review_command, run_experiment_command).        *)
THEOREM AnalysisIsSound == ExperimentSpec => []AnalysisInv
<1>1. AnalysisInv /\ [ExperimentNext]_allVars => AnalysisInv'
  <2> SUFFICES ASSUME AnalysisInv, [ExperimentNext]_allVars PROVE AnalysisInv'
    OBVIOUS
  <2>1. CASE ReviewStep
    BY <2>1, AnalysisReview
  <2>2. CASE ExperimentStep
    BY <2>2, AnalysisExperiment
  <2>3. CASE UNCHANGED allVars
    BY <2>3, AnalysisKept DEF allVars, vars
  <2> QED  BY <2>1, <2>2, <2>3 DEF ExperimentNext
<1> QED  BY <1>1, AnalysisInit, PTL DEF ExperimentSpec

(* A key names one case, for all transcripts and terms (CandidateKey,                *)
(* collect_canonical_spans).                                                 *)
THEOREM KeysNameCases == ExperimentSpec => []KeysNameOneCase
<1>1. AnalysisInv => KeysNameOneCase
  BY DEF AnalysisInv
<1> QED  BY <1>1, AnalysisIsSound, PTL

(* A review is refused when two accepted cases share a byte, and then only, for all    *)
(* transcripts, terms and decisions (reject_overlapping_edits).                   *)
THEOREM RefusedOnlyForOverlap == ExperimentSpec => []RefusedForOverlapOnly
<1>1. AnalysisInv => RefusedForOverlapOnly
  BY RefusedWhenShared DEF AnalysisInv
<1> QED  BY <1>1, AnalysisIsSound, PTL

(* What was suggested before the first ranking *)
RetrievedInv == phase = "rank" => reports = Reports(segments, entries, setting)

(* The suggestions stay what was retrieved while they are ranked. *)
LEMMA Retrieved == ExperimentSpec => []RetrievedInv
<1>1. ExperimentInit => RetrievedInv
  BY DEF ExperimentInit, RetrievedInv
<1>2. RetrievedInv /\ [ExperimentNext]_allVars => RetrievedInv'
  <2> SUFFICES ASSUME RetrievedInv, [ExperimentNext]_allVars, phase' = "rank"
               PROVE  reports' = Reports(segments', entries', setting')
    BY DEF RetrievedInv
  <2> USE DEF Proceed, UpTo
  <2>1. ASSUME ReviewStep PROVE FALSE
    <3>1. CASE \E d \in Inputs : Decide(d)
      BY <3>1 DEF Decide
    <3>2. CASE \E f \in Output : Write(f) \/ WriteFails(f)
      BY <3>2 DEF Write, WriteFails, After, Output
    <3>3. CASE ReadInputs \/ ParseSessionTerms \/ ParseTranscript \/ ReportIssues
      BY <3>3 DEF ReadInputs, ParseSessionTerms, ParseTranscript, ReportIssues
    <3>4. CASE Detect
      BY <3>4 DEF Detect
    <3>5. CASE InputEnds \/ AllDecided \/ Announce \/ Derive
      BY <3>5 DEF InputEnds, AllDecided, Announce, Derive
    <3> QED  BY <2>1, <3>1, <3>2, <3>3, <3>4, <3>5 DEF ReviewStep
  <2>2. CASE Retrieve
    BY <2>2 DEF Retrieve, analysis
  <2>3. CASE (\E k \in DOMAIN reports : Select(k)) \/ SelectNone
    BY <2>3 DEF Select, SelectNone, vars, analysis, RetrievedInv
  <2>4. CASE ReportToExperimenter \/ SelectionFails \/ AllShown \/ DeriveBesideSidecar
    BY <2>4 DEF ReportToExperimenter, SelectionFails, AllShown, DeriveBesideSidecar
  <2>5. CASE WriteSidecar \/ SidecarFails
    BY <2>5 DEF WriteSidecar, SidecarFails
  <2>6. CASE UNCHANGED allVars
    BY <2>6 DEF allVars, vars, analysis, experiment, RetrievedInv
  <2> QED  BY <2>1, <2>2, <2>3, <2>4, <2>5, <2>6 DEF ExperimentNext, ExperimentStep
<1> QED  BY <1>1, <1>2, PTL DEF ExperimentSpec

(* What the limit for a place drops is never closer to the source than what it keeps     *)
(* there, and it keeps as much as it may, for all texts, terms, readings and limits        *)
(* (retrieve_experimental_candidates).                                          *)
THEOREM ClosestKept == ExperimentSpec => []ClosestAreKept
<1>1. AnalysisInv /\ RetrievedInv => ClosestAreKept
  <2> SUFFICES ASSUME AnalysisInv, RetrievedInv, phase = "rank"
               PROVE  Closest(AllReports(segments, entries, setting), reports)
    BY DEF ClosestAreKept, Closest
  <2>1. reports = Reports(segments, entries, setting)
    BY DEF RetrievedInv
  <2>2. Texts(segments) /\ entries \in Seq(Entry)
    BY DEF AnalysisInv, CasesPlaced
  <2> QED  BY <2>1, <2>2, RetrievedAreClosest
<1> QED  BY <1>1, AnalysisIsSound, Retrieved, PTL

(***************************************************************************)
(* The decisions                                                             *)
(***************************************************************************)
Event == [case : Nat, decision : Inputs]

(* Where every case was decided *)
AfterDecisions == {"derive", "sidecar", "srt", "log", "summary", "announce", "ok"}

(* The cases are decided in their order, each once. *)
LedgerInv ==
    /\ Len(cases) \in Nat /\ DOMAIN cases = 1..Len(cases)
    /\ ledger \in Seq(Event) /\ Len(ledger) <= Len(cases)
    /\ \A n \in DOMAIN ledger : ledger[n].case = n
    /\ phase \in BeforeDetection => ledger = <<>>
    /\ phase \in AfterDecisions => Len(ledger) = Len(cases)

(* A case's status is the decision about it. *)
LEMMA StatusIs ==
    ASSUME LedgerInv, NEW i \in DOMAIN ledger
    PROVE  Status(ledger, i) = ledger[i].decision /\ Status(ledger, i) \in Inputs /\ Status(ledger, i) # None
<1>1. ledger[i] \in Event /\ \A n \in DOMAIN ledger : ledger[n].case = n
  BY DEF LedgerInv
<1>2. ledger[i].decision \in Inputs
  BY <1>1 DEF Event
<1>3. {n \in DOMAIN ledger : ledger[n].case = i} = {i}
  BY <1>1
<1>4. i \in Int
  BY LenProperties DEF LedgerInv
<1>5. (CHOOSE n \in {i} : \A m \in {i} : m <= n) = i
  BY <1>4
<1>6. Status(ledger, i) = ledger[i].decision
  BY <1>3, <1>5 DEF Status
<1> QED  BY <1>2, <1>6, DecisionAssumption

(* Steps that add no decision do not go back before the detectors, and do not go on before *)
(* every case is decided.                                                    *)
LEMMA LedgerKept ==
    ASSUME LedgerInv, UNCHANGED <<cases, ledger>>,
           phase' \in BeforeDetection => phase \in BeforeDetection,
           phase' \in AfterDecisions => phase \in AfterDecisions \/ Len(ledger) = Len(cases)
    PROVE  LedgerInv'
BY DEF LedgerInv

(* What the detectors raise is decided from the first case on, *)
LEMMA LedgerDetected ==
    ASSUME AnalysisInv, LedgerInv, Detect
    PROVE  LedgerInv'
<1> USE DEF BeforeDetection, AfterDecisions, Proceed
<1>1. phase = "detect" /\ ledger = <<>> /\ UNCHANGED ledger /\ phase' \in {"decide", "error"}
  BY DEF Detect, LedgerInv
<1>2. CASE DetectionError(RunFor(segments, entries), segments, entries) = None
  <2>1. PICK S : S = CanonicalSpans(segments, entries)
    OBVIOUS
  <2>2. cases' = InSpanOrder(S)
    BY <1>2, <2>1 DEF Detect, TermReview
  <2>3. Texts(segments) /\ entries \in Seq(Entry)
    BY DEF AnalysisInv, CasesPlaced
  <2>4. /\ \A c \in S : Detected(c, segments)
        /\ \A c, d \in S : SpanKey(c) = SpanKey(d) => c = d
    BY <1>2, <2>1, <2>3, SpansDetected
  <2>5. cases' \in Seq(S) /\ DOMAIN cases' = 1..Len(cases')
    BY <2>2, <2>3, <2>4, SpansInOrder
  <2>6. Len(cases') \in Nat
    BY <2>5, LenProperties
  <2>7. Len(ledger') = 0 /\ DOMAIN ledger' = {} /\ ledger' \in Seq(Event)
    BY <1>1, EmptySeq
  <2> QED  BY <1>1, <2>5, <2>6, <2>7 DEF LedgerInv
<1>3. CASE DetectionError(RunFor(segments, entries), segments, entries) # None
  <2>1. UNCHANGED cases
    BY <1>3 DEF Detect
  <2> QED  BY <1>1, <2>1, LedgerKept
<1> QED  BY <1>2, <1>3

(* one after another. *)
LEMMA LedgerDecided ==
    ASSUME LedgerInv, NEW d \in Inputs, Decide(d)
    PROVE  LedgerInv'
<1> USE DEF BeforeDetection, AfterDecisions
<1>1. PICK e \in Event : e = [case |-> Asked, decision |-> d]
  <2>1. Asked \in Nat
    BY LenProperties DEF Asked, LedgerInv
  <2> QED  BY <2>1 DEF Event
<1>2. /\ ledger' = Append(ledger, e) /\ UNCHANGED <<cases, phase>> /\ phase = "decide"
      /\ Len(ledger) + 1 <= Len(cases) /\ e.case = Len(ledger) + 1
  BY <1>1 DEF Decide, Asked, analysis
<1>3. ledger \in Seq(Event) /\ \A n \in DOMAIN ledger : ledger[n].case = n
  BY DEF LedgerInv
<1>4. /\ ledger' \in Seq(Event) /\ Len(ledger') = Len(ledger) + 1
      /\ \A i \in 1..Len(ledger) : ledger'[i] = ledger[i]
      /\ ledger'[Len(ledger) + 1] = e
  BY <1>2, <1>3, AppendProperties
<1>5. ASSUME NEW n \in DOMAIN ledger' PROVE ledger'[n].case = n
  <2>1. DOMAIN ledger' = 1..Len(ledger') /\ DOMAIN ledger = 1..Len(ledger) /\ Len(ledger) \in Nat
    BY <1>3, <1>4, LenProperties
  <2>2. CASE n = Len(ledger) + 1
    BY <1>2, <1>4, <2>2
  <2>3. CASE n # Len(ledger) + 1
    <3>1. n \in 1..Len(ledger)
      BY <1>4, <2>1, <2>3
    <3> QED  BY <1>3, <1>4, <2>1, <3>1
  <2> QED  BY <2>2, <2>3
<1> QED  BY <1>2, <1>4, <1>5 DEF LedgerInv

(* Of the steps both commands have, *)
LEMMA LedgerReview ==
    ASSUME AnalysisInv, LedgerInv, ReviewStep
    PROVE  LedgerInv'
<1> USE DEF BeforeDetection, AfterDecisions, Proceed, UpTo, analysis
<1>1. CASE ReadInputs \/ ParseSessionTerms \/ ParseTranscript \/ ReportIssues
  BY <1>1, LedgerKept DEF ReadInputs, ParseSessionTerms, ParseTranscript, ReportIssues
<1>2. CASE Detect
  BY <1>2, LedgerDetected
<1>3. CASE \E d \in Inputs : Decide(d)
  BY <1>3, LedgerDecided
<1>4. CASE InputEnds
  BY <1>4, LedgerKept DEF InputEnds
<1>5. CASE AllDecided
  <2>1. Len(ledger) = Len(cases)
    <3>1. Len(ledger) \in Nat /\ Len(cases) \in Nat /\ Len(ledger) <= Len(cases)
      BY LenProperties DEF LedgerInv
    <3>2. Len(ledger) + 1 > Len(cases)
      BY <1>5 DEF AllDecided, Asked
    <3> QED  BY <3>1, <3>2
  <2>2. phase' \in {"derive", "error"} /\ UNCHANGED <<cases, ledger>>
    BY <1>5 DEF AllDecided
  <2> QED  BY <2>1, <2>2, LedgerKept
<1>6. CASE Announce \/ Derive
  BY <1>6, LedgerKept DEF Announce, Derive
<1>7. CASE \E f \in Output : Write(f) \/ WriteFails(f)
  <2> PICK f \in Output : Write(f) \/ WriteFails(f)
    BY <1>7
  <2>1. UNCHANGED <<cases, ledger>> /\ phase = f /\ (phase' = After[f] \/ phase' = "error")
    BY DEF Write, WriteFails
  <2>2. After[f] \in {"log", "summary", "announce"} /\ f \in {"srt", "log", "summary"}
    BY DEF After, Output
  <2> QED  BY <2>1, <2>2, LedgerKept
<1> QED  BY <1>1, <1>2, <1>3, <1>4, <1>5, <1>6, <1>7 DEF ReviewStep

(* and those of an experiment *)
LEMMA LedgerExperiment ==
    ASSUME LedgerInv, ExperimentStep
    PROVE  LedgerInv'
<1> USE DEF BeforeDetection, AfterDecisions, Proceed, UpTo, analysis
<1>1. CASE ReportToExperimenter \/ Retrieve \/ SelectionFails \/ AllShown
  BY <1>1, LedgerKept DEF ReportToExperimenter, Retrieve, SelectionFails, AllShown
<1>2. CASE (\E k \in DOMAIN reports : Select(k)) \/ SelectNone
  BY <1>2, LedgerKept DEF Select, SelectNone, vars
<1>3. CASE DeriveBesideSidecar \/ WriteSidecar \/ SidecarFails
  BY <1>3, LedgerKept DEF DeriveBesideSidecar, WriteSidecar, SidecarFails
<1> QED  BY <1>1, <1>2, <1>3 DEF ExperimentStep

(* Cases are decided in their order, and files are written after the last (run_review_command, *)
(* run_experiment_command).                                                 *)
THEOREM CasesAreDecidedInOrder == ExperimentSpec => []LedgerInv
<1>1. ExperimentInit => LedgerInv
  <2> SUFFICES ASSUME ExperimentInit PROVE LedgerInv
    OBVIOUS
  <2>1. cases = <<>> /\ ledger = <<>> /\ phase = "read"
    BY DEF ExperimentInit
  <2>2. Len(<<>>) = 0 /\ DOMAIN <<>> = 1..0 /\ 1..0 = {} /\ <<>> \in Seq(Event)
    BY EmptySeq
  <2> QED  BY <2>1, <2>2 DEF LedgerInv, BeforeDetection, AfterDecisions
<1>2. AnalysisInv /\ LedgerInv /\ [ExperimentNext]_allVars => LedgerInv'
  <2> SUFFICES ASSUME AnalysisInv, LedgerInv, [ExperimentNext]_allVars PROVE LedgerInv'
    OBVIOUS
  <2>1. CASE ReviewStep
    BY <2>1, LedgerReview
  <2>2. CASE ExperimentStep
    BY <2>2, LedgerExperiment
  <2>3. CASE UNCHANGED allVars
    BY <2>3, LedgerKept DEF allVars, vars, analysis
  <2> QED  BY <2>1, <2>2, <2>3 DEF ExperimentNext
<1> QED  BY <1>1, <1>2, AnalysisIsSound, PTL DEF ExperimentSpec

(***************************************************************************)
(* The summary                                                               *)
(***************************************************************************)
(* Those places of a list whose value is in a set *)
Having(D, value, R) == {i \in D : value[i] \in R}

(* How many there are of each value *)
Counts(D, value) == [v \in {value[i] : i \in D} |-> Cardinality({i \in D : value[i] = v})]

(* One value more has its own places more. *)
LEMMA OneValueMore ==
    ASSUME NEW D, IsFiniteSet(D), NEW value, NEW R, NEW v \in R
    PROVE  /\ Cardinality(Having(D, value, R)) \in Nat
           /\ Cardinality({i \in D : value[i] = v}) \in Nat
           /\ Cardinality(Having(D, value, R))
              = Cardinality({i \in D : value[i] = v}) + Cardinality(Having(D, value, R \ {v}))
<1> DEFINE A == {i \in D : value[i] = v}
           B == Having(D, value, R \ {v})
           C == Having(D, value, R)
<1>1. C = A \cup B /\ A \cap B = {} /\ A \subseteq D /\ B \subseteq D
  BY DEF Having
<1> HIDE DEF A, B, C
<1>2. IsFiniteSet(A) /\ IsFiniteSet(B)
  BY <1>1, FS_Subset
<1>3. /\ IsFiniteSet(A \cup B)
      /\ Cardinality(A \cup B) = Cardinality(A) + Cardinality(B) - Cardinality(A \cap B)
  BY <1>2, FS_Union
<1>4. Cardinality(A \cap B) = 0 /\ Cardinality(A) \in Nat /\ Cardinality(B) \in Nat /\ Cardinality(C) \in Nat
  BY <1>1, <1>2, <1>3, FS_EmptySet, FS_CardinalityType
<1>5. Cardinality(C) = Cardinality(A) + Cardinality(B)
  BY <1>1, <1>3, <1>4
<1> QED  BY <1>4, <1>5 DEF A, B, C

(* Each place is counted once, by its value. *)
LEMMA CountedOnce ==
    ASSUME NEW D, IsFiniteSet(D), NEW value
    PROVE  SumFunction(Counts(D, value)) = Cardinality(D)
<1> DEFINE R == {value[i] : i \in D}
           fun == Counts(D, value)
           Is(iter) == iter = [s \in SUBSET R |-> IF s = {} THEN 0
                                   ELSE LET v == CHOOSE v \in s : TRUE IN fun[v] + iter[s \ {v}]]
           h == [s \in SUBSET R |-> Cardinality(Having(D, value, s))]
           rank == [s \in SUBSET R |-> Cardinality(s)]
<1>1. DOMAIN fun = R /\ \A v \in R : fun[v] = Cardinality({i \in D : value[i] = v})
  BY DEF Counts
<1>2. SumFunction(fun) = (CHOOSE iter : Is(iter))[R]
  <2>1. SumFunction(fun) = MapThenFoldSet(+, 0, LAMBDA v : fun[v], LAMBDA s : CHOOSE v \in s : TRUE, DOMAIN fun)
    BY Zenon DEF SumFunction, SumFunctionOnSet, FoldFunctionOnSet
  <2> HIDE DEF R, fun
  <2> QED  BY <1>1, <2>1, Zenon DEF MapThenFoldSet
<1>3. IsFiniteSet(R)
  <2>1. [i \in D |-> value[i]] \in Surjection(D, R)
    BY DEF Surjection
  <2> HIDE DEF R
  <2> QED  BY <2>1, FS_Surjection
<1> HIDE DEF fun
<1>4. ASSUME NEW s \in SUBSET R, s # {}, NEW v, v = CHOOSE w \in s : TRUE
      PROVE  h[s] = fun[v] + h[s \ {v}]
  <2>1. v \in s
    BY <1>4
  <2>2. Cardinality(Having(D, value, s)) = fun[v] + Cardinality(Having(D, value, s \ {v}))
    <3> HIDE DEF R
    <3>1. fun[v] = Cardinality({i \in D : value[i] = v})
      BY <1>1, <2>1
    <3>2. Cardinality(Having(D, value, s))
          = Cardinality({i \in D : value[i] = v}) + Cardinality(Having(D, value, s \ {v}))
      BY <2>1, OneValueMore
    <3> QED  BY <3>1, <3>2
  <2> HIDE DEF R
  <2>3. s \ {v} \in SUBSET R
    BY <2>1
  <2> QED  BY <2>2, <2>3
<1>5. h[{}] = 0
  <2>1. Having(D, value, {}) = {}
    BY DEF Having
  <2> QED  BY <2>1, FS_EmptySet
<1>6. Is(h)
  <2>1. h = [s \in SUBSET R |-> h[s]]
    OBVIOUS
  <2> HIDE DEF h, R
  <2> QED  BY <1>4, <1>5, <2>1
<1>7. PICK c : SumFunction(fun) = c[R] /\ Is(c)
  <2> HIDE DEF Is, R
  <2> QED  BY <1>2, <1>6, Zenon
<1>8. \A s \in SUBSET R : c[s] = IF s = {} THEN 0
                                 ELSE LET v == CHOOSE v \in s : TRUE IN fun[v] + c[s \ {v}]
  <2> HIDE DEF R
  <2> QED  BY <1>7
<1> DEFINE G == {s \in SUBSET R : c[s] = h[s]}
<1>9. rank \in [SUBSET R -> Nat] /\ \A s \in SUBSET R : IsFiniteSet(s)
  <2>1. \A s \in SUBSET R : IsFiniteSet(s) /\ Cardinality(s) \in Nat
    BY <1>3, FS_Subset, FS_CardinalityType
  <2> HIDE DEF R
  <2> QED  BY <2>1
<1>10. ASSUME NEW s \in SUBSET R, \A t \in SUBSET R : rank[t] < rank[s] => t \in G PROVE s \in G
  <2>1. CASE s = {}
    BY <1>5, <1>8, <2>1
  <2>2. CASE s # {}
    <3>1. PICK v \in s : v = CHOOSE w \in s : TRUE
      BY <2>2
    <3>2. s \ {v} \in SUBSET R /\ Cardinality(s \ {v}) = Cardinality(s) - 1 /\ Cardinality(s) \in Nat
      BY <1>9, <3>1, FS_RemoveElement, FS_CardinalityType
    <3>3. rank[s \ {v}] < rank[s]
      <4> HIDE DEF R
      <4> QED  BY <3>2
    <3>4. c[s \ {v}] = h[s \ {v}]
      BY <1>10, <3>2, <3>3
    <3> HIDE DEF h, R
    <3>5. h[s] = fun[v] + h[s \ {v}]
      BY <1>4, <2>2, <3>1
    <3>6. c[s] = fun[v] + c[s \ {v}]
      BY <1>8, <2>2, <3>1, Zenon
    <3>7. c[s] = h[s]
      BY <3>4, <3>5, <3>6, Zenon
    <3> QED  BY <3>7
  <2> QED  BY <2>1, <2>2
<1>11. \A s \in SUBSET R : s \in G
  <2> HIDE DEF rank, G, R
  <2> QED  BY <1>9, <1>10, RankSet
<1>12. c[R] = h[R] /\ h[R] = Cardinality(Having(D, value, R))
  BY <1>11
<1>13. Having(D, value, R) = D
  BY DEF Having
<1> QED  BY <1>7, <1>12, <1>13 DEF fun

(* The cases that were decided one way *)
DecidedAs(kind) == {i \in DOMAIN cases : Status(ledger, i) # None /\ Status(ledger, i).kind = kind}

(* The summary of decisions about every case counts each of them once.               *)
SummaryCounts ==
    /\ Summary.events = Len(ledger) /\ Summary.undecided = 0
    /\ Summary.accept + Summary.reject + Summary.defer + Summary.manual = Len(cases)
    /\ Summary.accept = Cardinality({n \in DOMAIN ledger : ledger[n].decision.kind = "accept"})
    /\ SumFunction(Summary.replacements) = Summary.accept
    /\ SumFunction(Summary.detectors) = Summary.raised

(* Four sets that are disjoint and make up a set have as many members as it has.      *)
LEMMA FourParts ==
    ASSUME NEW a, NEW b, NEW c, NEW d, NEW S, IsFiniteSet(S), S = ((a \cup b) \cup c) \cup d,
           a \cap b = {}, (a \cup b) \cap c = {}, ((a \cup b) \cup c) \cap d = {}
    PROVE  Cardinality(a) + Cardinality(b) + Cardinality(c) + Cardinality(d) = Cardinality(S)
<1>1. IsFiniteSet(a) /\ IsFiniteSet(b) /\ IsFiniteSet(c) /\ IsFiniteSet(d)
  <2>1. a \subseteq S /\ b \subseteq S /\ c \subseteq S /\ d \subseteq S
    OBVIOUS
  <2> QED  BY <2>1, FS_Subset
<1>2. \A x, y : IsFiniteSet(x) /\ IsFiniteSet(y) /\ x \cap y = {} =>
          IsFiniteSet(x \cup y) /\ Cardinality(x \cup y) = Cardinality(x) + Cardinality(y)
  <2> SUFFICES ASSUME NEW x, NEW y, IsFiniteSet(x), IsFiniteSet(y), x \cap y = {}
               PROVE  IsFiniteSet(x \cup y) /\ Cardinality(x \cup y) = Cardinality(x) + Cardinality(y)
    OBVIOUS
  <2>1. /\ IsFiniteSet(x \cup y)
        /\ Cardinality(x \cup y) = Cardinality(x) + Cardinality(y) - Cardinality(x \cap y)
    BY FS_Union
  <2>2. Cardinality(x \cap y) = 0 /\ Cardinality(x) \in Nat /\ Cardinality(y) \in Nat
    BY FS_EmptySet, FS_CardinalityType
  <2> QED  BY <2>1, <2>2
<1>3. IsFiniteSet(a \cup b) /\ Cardinality(a \cup b) = Cardinality(a) + Cardinality(b)
  BY <1>1, <1>2
<1>4. IsFiniteSet((a \cup b) \cup c) /\ Cardinality((a \cup b) \cup c) = Cardinality(a \cup b) + Cardinality(c)
  BY <1>1, <1>2, <1>3
<1>5. Cardinality(S) = Cardinality((a \cup b) \cup c) + Cardinality(d)
  BY <1>1, <1>2, <1>4
<1> QED  BY <1>3, <1>4, <1>5

(* It does. *)
LEMMA SummaryIsRight ==
    ASSUME LedgerInv, Len(ledger) = Len(cases)
    PROVE  SummaryCounts
<1>1. /\ Len(cases) \in Nat /\ DOMAIN cases = 1..Len(cases) /\ DOMAIN ledger = DOMAIN cases
      /\ IsFiniteSet(DOMAIN cases)
  <2>1. DOMAIN ledger = 1..Len(ledger)
    BY LenProperties DEF LedgerInv
  <2> QED  BY <2>1, FS_Interval DEF LedgerInv
<1>2. Cardinality(DOMAIN cases) = Len(cases)
  <2>1. PICK a \in Int : a = 1
    OBVIOUS
  <2>3. PICK b \in Nat : b = Len(cases)
    BY <1>1
  <2>2. Cardinality(a..b) = IF a > b THEN 0 ELSE b - a + 1
    BY FS_Interval
  <2> QED  BY <1>1, <2>1, <2>2, <2>3
<1>3. \A i \in DOMAIN cases : /\ Status(ledger, i) # None /\ Status(ledger, i) = ledger[i].decision
                              /\ Status(ledger, i).kind \in {"accept", "reject", "defer", "manual"}
  <2> SUFFICES ASSUME NEW i \in DOMAIN cases
               PROVE  /\ Status(ledger, i) # None /\ Status(ledger, i) = ledger[i].decision
                      /\ Status(ledger, i).kind \in {"accept", "reject", "defer", "manual"}
    OBVIOUS
  <2>1. /\ Status(ledger, i) # None /\ Status(ledger, i) = ledger[i].decision
        /\ Status(ledger, i) \in Inputs
    BY <1>1, StatusIs
  <2>2. Status(ledger, i).kind \in {"accept", "reject", "defer", "manual"}
    BY <2>1 DEF Inputs
  <2> QED  BY <2>1, <2>2
<1>4. /\ Summary.events = Len(ledger) /\ Summary.raised = Len(cases)
      /\ Summary.accept = Cardinality(DecidedAs("accept")) /\ Summary.reject = Cardinality(DecidedAs("reject"))
      /\ Summary.defer = Cardinality(DecidedAs("defer")) /\ Summary.manual = Cardinality(DecidedAs("manual"))
      /\ Summary.undecided = Cardinality({i \in DOMAIN cases : Status(ledger, i) = None})
  BY DEF Summary, DecidedAs
<1>5. Summary.undecided = 0
  <2>1. {i \in DOMAIN cases : Status(ledger, i) = None} = {}
    BY <1>3
  <2> QED  BY <1>4, <2>1, FS_EmptySet
<1>6. /\ DOMAIN cases = ((DecidedAs("accept") \cup DecidedAs("reject")) \cup DecidedAs("defer")) \cup DecidedAs("manual")
      /\ DecidedAs("accept") \cap DecidedAs("reject") = {}
      /\ (DecidedAs("accept") \cup DecidedAs("reject")) \cap DecidedAs("defer") = {}
      /\ ((DecidedAs("accept") \cup DecidedAs("reject")) \cup DecidedAs("defer")) \cap DecidedAs("manual") = {}
  BY <1>3 DEF DecidedAs
<1>7. Summary.accept + Summary.reject + Summary.defer + Summary.manual = Len(cases)
  <2>1. Cardinality(DecidedAs("accept")) + Cardinality(DecidedAs("reject"))
        + Cardinality(DecidedAs("defer")) + Cardinality(DecidedAs("manual")) = Cardinality(DOMAIN cases)
    BY <1>1, <1>6, FourParts
  <2> QED  BY <1>2, <1>4, <2>1
<1>8. DecidedAs("accept") = {n \in DOMAIN ledger : ledger[n].decision.kind = "accept"}
  BY <1>1, <1>3 DEF DecidedAs
<1>9. SumFunction(Summary.replacements) = Summary.accept
  <2> DEFINE text == [i \in DecidedAs("accept") |-> EditOf(i).text]
  <2>1. IsFiniteSet(DecidedAs("accept"))
    BY <1>1, FS_Subset DEF DecidedAs
  <2>2. Summary.replacements = [r \in {EditOf(i).text : i \in DecidedAs("accept")} |->
                                   Cardinality({i \in DecidedAs("accept") : EditOf(i).text = r})]
    BY Zenon DEF Summary, DecidedAs
  <2>3. Summary.replacements = Counts(DecidedAs("accept"), text)
    <3>1. \A i \in DecidedAs("accept") : text[i] = EditOf(i).text
      OBVIOUS
    <3>2. {EditOf(i).text : i \in DecidedAs("accept")} = {text[i] : i \in DecidedAs("accept")}
      BY <3>1
    <3>3. \A r : {i \in DecidedAs("accept") : EditOf(i).text = r} = {i \in DecidedAs("accept") : text[i] = r}
      BY <3>1
    <3> HIDE DEF text
    <3> QED  BY <2>2, <3>2, <3>3 DEF Counts
  <2> QED  BY <1>4, <2>1, <2>3, CountedOnce
<1>10. SumFunction(Summary.detectors) = Summary.raised
  <2> DEFINE detector == [i \in DOMAIN cases |-> cases[i].detector]
  <2>1. Summary.detectors = [d \in {cases[i].detector : i \in DOMAIN cases} |->
                                Cardinality({i \in DOMAIN cases : cases[i].detector = d})]
    BY Zenon DEF Summary
  <2>2. Summary.detectors = Counts(DOMAIN cases, detector)
    <3>1. \A i \in DOMAIN cases : detector[i] = cases[i].detector
      OBVIOUS
    <3>2. {cases[i].detector : i \in DOMAIN cases} = {detector[i] : i \in DOMAIN cases}
      BY <3>1
    <3>3. \A d : {i \in DOMAIN cases : cases[i].detector = d} = {i \in DOMAIN cases : detector[i] = d}
      BY <3>1
    <3> HIDE DEF detector
    <3> QED  BY <2>1, <3>2, <3>3 DEF Counts
  <2> QED  BY <1>1, <1>2, <1>4, <2>2, CountedOnce
<1> QED  BY <1>4, <1>5, <1>7, <1>8, <1>9, <1>10 DEF SummaryCounts

(***************************************************************************)
(* The files                                                                 *)
(***************************************************************************)
(* Up to the first file *)
BeforeWriting == BeforeDetection \cup {"decide", "derive", "sidecar", "srt"}

(* What is written is whole, in the order of the files. *)
WrittenInv ==
    /\ files = [f \in Output |-> files[f]]
    /\ phase \in BeforeWriting => \A f \in Output : files[f] = None
    /\ phase = "log" => files["srt"] = Contents["srt"] /\ files["summary"] = None
    /\ phase = "summary" =>
           files["srt"] = Contents["srt"] /\ files["log"] = Contents["log"] /\ files["summary"] = None
    /\ files["summary"] \notin {None, Torn} =>
           /\ \A f \in Output : files[f] = Contents[f]
           /\ Len(ledger) = Len(cases) /\ phase \in {"announce", "ok", "error"}

(* Steps that write nothing *)
LEMMA WrittenKept ==
    ASSUME WrittenInv, UNCHANGED files, phase # "srt",
           phase' \in BeforeWriting => phase \in BeforeWriting,
           phase' \notin {"log", "summary"},
           phase \in BeforeWriting \/ (UNCHANGED <<analysis, ledger>> /\ phase' \in {"announce", "ok", "error"})
    PROVE  WrittenInv'
<1>1. CASE phase \in BeforeWriting
  BY <1>1 DEF WrittenInv, Output
<1>2. CASE UNCHANGED <<analysis, ledger>> /\ phase' \in {"announce", "ok", "error"} /\ phase \notin BeforeWriting
  <2>1. Contents' = Contents
    BY <1>2 DEF analysis, Contents, Summary, Serialize, Reviewed, Edits, EditOf, Accepted, SourceTexts
  <2>2. phase' \notin BeforeWriting
    BY <1>2
  <2>3. Len(ledger') = Len(ledger) /\ Len(cases') = Len(cases)
    BY <1>2 DEF analysis
  <2> QED  BY <1>2, <2>1, <2>2, <2>3 DEF WrittenInv
<1> QED  BY <1>1, <1>2

(* What the files hold depends on the analysis and the ledger alone. *)
LEMMA SameContents ==
    ASSUME UNCHANGED <<analysis, ledger>>
    PROVE  Contents' = Contents
BY DEF analysis, Contents, Summary, Serialize, Reviewed, Edits, EditOf, Accepted, SourceTexts

(* Each file is written after those before it, *)
LEMMA WrittenNext ==
    ASSUME LedgerInv, WrittenInv, NEW f \in Output, Write(f)
    PROVE  WrittenInv'
<1>1. /\ phase = f /\ phase' = After[f] /\ UNCHANGED <<analysis, ledger>>
      /\ files' = [files EXCEPT ![f] = Contents[f]]
  BY DEF Write
<1>2. files' = [g \in Output |-> IF g = f THEN Contents[f] ELSE files[g]]
  BY <1>1 DEF WrittenInv
<1>3. Contents' = Contents /\ Len(ledger') = Len(ledger) /\ Len(cases') = Len(cases)
  BY <1>1, SameContents DEF analysis
<1>4. CASE f = "srt"
  <2>1. phase' = "log" /\ phase \in BeforeWriting /\ phase' \notin BeforeWriting
    BY <1>1, <1>4 DEF After, BeforeWriting, BeforeDetection
  <2>2. files'["srt"] = Contents["srt"] /\ files'["summary"] = None
    BY <1>2, <1>4, <2>1 DEF WrittenInv, Output
  <2> QED  BY <1>2, <1>3, <2>1, <2>2 DEF WrittenInv
<1>5. CASE f = "log"
  <2>1. phase' = "summary" /\ phase' \notin BeforeWriting
    BY <1>1, <1>5 DEF After, BeforeWriting, BeforeDetection
  <2>2. /\ files'["srt"] = Contents["srt"] /\ files'["log"] = Contents["log"]
        /\ files'["summary"] = None
    BY <1>1, <1>2, <1>5 DEF WrittenInv, Output
  <2> QED  BY <1>2, <1>3, <2>1, <2>2 DEF WrittenInv
<1>6. CASE f = "summary"
  <2>1. phase' = "announce" /\ phase' \notin BeforeWriting
    BY <1>1, <1>6 DEF After, BeforeWriting, BeforeDetection
  <2>2. \A g \in Output : files'[g] = Contents[g]
    BY <1>1, <1>2, <1>6 DEF WrittenInv, Output
  <2>3. Len(ledger) = Len(cases)
    BY <1>1, <1>6 DEF LedgerInv, AfterDecisions
  <2> QED  BY <1>2, <1>3, <2>1, <2>2, <2>3 DEF WrittenInv
<1> QED  BY <1>4, <1>5, <1>6 DEF Output

(* and none after one that could not be. *)
LEMMA WrittenNoMore ==
    ASSUME WrittenInv, NEW f \in Output, WriteFails(f)
    PROVE  WrittenInv'
<1>1. /\ phase = f /\ phase' = "error" /\ UNCHANGED <<analysis, ledger>>
      /\ files' = files \/ files' = [files EXCEPT ![f] = Torn]
  BY DEF WriteFails
<1>2. files["summary"] = None
  BY <1>1 DEF WrittenInv, Output, BeforeWriting
<1>3. files' = [g \in Output |-> files'[g]] /\ files'["summary"] \in {None, Torn}
  BY <1>1, <1>2 DEF WrittenInv, Output
<1>4. phase' \notin BeforeWriting
  BY <1>1 DEF BeforeWriting, BeforeDetection
<1> QED  BY <1>1, <1>3, <1>4 DEF WrittenInv

(* The other steps of a review write nothing, *)
LEMMA WrittenReview ==
    ASSUME LedgerInv, WrittenInv, ReviewStep
    PROVE  WrittenInv'
<1> USE DEF Proceed, UpTo
<1>1. CASE ReadInputs \/ ParseSessionTerms \/ ParseTranscript \/ ReportIssues \/ Detect
  BY <1>1, WrittenKept
     DEF ReadInputs, ParseSessionTerms, ParseTranscript, ReportIssues, Detect, BeforeWriting, BeforeDetection
<1>2. CASE (\E d \in Inputs : Decide(d)) \/ InputEnds \/ AllDecided \/ Derive
  BY <1>2, WrittenKept DEF Decide, InputEnds, AllDecided, Derive, BeforeWriting, BeforeDetection
<1>3. CASE Announce
  BY <1>3, WrittenKept DEF Announce, BeforeWriting, BeforeDetection
<1>4. CASE \E f \in Output : Write(f) \/ WriteFails(f)
  BY <1>4, WrittenNext, WrittenNoMore
<1> QED  BY <1>1, <1>2, <1>3, <1>4 DEF ReviewStep

(* nor do those of an experiment, whose sidecar is a file of its own. *)
LEMMA WrittenExperiment ==
    ASSUME WrittenInv, ExperimentStep
    PROVE  WrittenInv'
<1> USE DEF Proceed, UpTo, BeforeWriting, BeforeDetection
<1>1. CASE ReportToExperimenter \/ Retrieve \/ SelectionFails \/ AllShown
  BY <1>1, WrittenKept DEF ReportToExperimenter, Retrieve, SelectionFails, AllShown, GroupLeft
<1>2. CASE (\E k \in DOMAIN reports : Select(k)) \/ SelectNone
  BY <1>2, WrittenKept DEF Select, SelectNone, GroupLeft, vars
<1>3. CASE DeriveBesideSidecar \/ WriteSidecar \/ SidecarFails
  BY <1>3, WrittenKept DEF DeriveBesideSidecar, WriteSidecar, SidecarFails
<1> QED  BY <1>1, <1>2, <1>3 DEF ExperimentStep

(* Files are written whole, in their order, and by a review that decided every case   *)
(* (run_review_command, run_experiment_command).                              *)
LEMMA FilesInOrder == ExperimentSpec => []WrittenInv
<1>1. ExperimentInit => WrittenInv
  BY DEF ExperimentInit, WrittenInv, BeforeWriting, BeforeDetection, Output
<1>2. LedgerInv /\ WrittenInv /\ [ExperimentNext]_allVars => WrittenInv'
  <2> SUFFICES ASSUME LedgerInv, WrittenInv, [ExperimentNext]_allVars PROVE WrittenInv'
    OBVIOUS
  <2>1. CASE ReviewStep
    BY <2>1, WrittenReview
  <2>2. CASE ExperimentStep
    BY <2>2, WrittenExperiment
  <2>3. CASE UNCHANGED allVars
    <3>1. UNCHANGED <<analysis, ledger, phase, files>>
      BY <2>3 DEF allVars, vars
    <3>2. Contents' = Contents /\ Len(ledger') = Len(ledger) /\ Len(cases') = Len(cases)
      BY <3>1, SameContents DEF analysis
    <3> QED  BY <3>1, <3>2 DEF WrittenInv
  <2> QED  BY <2>1, <2>2, <2>3 DEF ExperimentNext
<1> QED  BY <1>1, <1>2, CasesAreDecidedInOrder, PTL DEF ExperimentSpec

(* A summary that was written counts each case of the log beside it once            *)
(* (run_review_command, collect_session_summary).                              *)
THEOREM SummariesAgree == ExperimentSpec => []SummaryAgreesWithFiles
<1>1. LedgerInv /\ WrittenInv => SummaryAgreesWithFiles
  <2> SUFFICES ASSUME LedgerInv, WrittenInv, files["summary"] \notin {None, Torn}
               PROVE  /\ files["srt"] = Contents["srt"] /\ files["log"] = ledger
                      /\ files["summary"] = Summary /\ SummaryCounts
    BY DEF SummaryAgreesWithFiles, SummaryCounts, Summary
  <2>1. Len(ledger) = Len(cases) /\ \A f \in Output : files[f] = Contents[f]
    BY DEF WrittenInv
  <2>2. SummaryCounts
    BY <2>1, SummaryIsRight
  <2>3. Contents["log"] = ledger /\ Contents["summary"] = Summary
    BY DEF Contents, Output
  <2> QED  BY <2>1, <2>2, <2>3 DEF Output
<1> QED  BY <1>1, CasesAreDecidedInOrder, FilesInOrder, PTL
================================================================================
