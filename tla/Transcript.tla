------------------------------ MODULE Transcript ------------------------------
(***************************************************************************)
(* Transcripts: the SubRip parser and writer, the issues a transcript may    *)
(* have, and anchors, which name a range of bytes of one segment.            *)
(*                                                                         *)
(* A text is a sequence of bytes.  A line of an SRT file is what it parses as  *)
(* in the place where it stands: a number, two timestamps, or text.          *)
(***************************************************************************)
EXTENDS Integers, Sequences, FiniteSets, SequencesExt

CONSTANTS
    MaxIndex,       \* u32::MAX
    MaxMillis,      \* u64::MAX
    None

ASSUME WidthAssumption == MaxIndex \in Nat /\ MaxMillis \in Nat

Byte == 0..255
Newline == 10
Return == 13
Space == {9, 10, 11, 12, 13, 32}
Continuation == 128..191        \* the bytes inside of a UTF-8 character

(* The elements of a set in the order Before gives them *)
Sorted(S, Before(_, _)) ==
    [i \in 1..Cardinality(S) |->
        CHOOSE x \in S : Cardinality({y \in S : Before(y, x)}) = i - 1]

InOrder(numbers) == Sorted(numbers, <)

(* The elements of a sequence at some of its places, in their order *)
AtPlaces(s, places) == LET at == InOrder(places) IN [i \in DOMAIN at |-> s[at[i]]]

Least(S) == CHOOSE x \in S : \A y \in S : x <= y

(* The maximal runs of neighbours among some positions, in their order         *)
RunsOf(positions) ==
    LET starts == InOrder({i \in positions : i - 1 \notin positions})
        End(i) == CHOOSE j \in positions : j >= i /\ i..j \subseteq positions /\ j + 1 \notin positions
    IN  [n \in DOMAIN starts |-> [first |-> starts[n], last |-> End(starts[n])]]

(* The order of tuples of numbers and of byte strings *)
LexLess(a, b) ==
    \/ IsStrictPrefix(a, b)
    \/ \E k \in DOMAIN a \cap DOMAIN b : /\ \A j \in 1..(k - 1) : a[j] = b[j]
                                         /\ a[k] < b[k]

Segment == [index : 0..MaxIndex, from : 0..MaxMillis, to : 0..MaxMillis, text : Seq(Byte)]

-----------------------------------------------------------------------------
(* Timestamp fields, as numbers; the fields' digits are not modelled.         *)
Clock == [hours : Nat, minutes : Nat, seconds : Nat, millis : Nat]

Blank == [kind |-> "blank"]
Number(n) == [kind |-> "number", number |-> n]
Timing(a, b) == [kind |-> "timing", from |-> a, to |-> b]
Text(bytes) == [kind |-> "text", text |-> bytes]

SrtLine == {Blank} \cup [kind : {"number"}, number : Nat]
           \cup [kind : {"timing"}, from : Clock, to : Clock] \cup [kind : {"text"}, text : Seq(Byte)]

(* parse_timestamp; the arithmetic is checked *)
Millis(c) == ((c.hours * 60 + c.minutes) * 60 + c.seconds) * 1000 + c.millis
IsTimestamp(c) == c.minutes <= 59 /\ c.seconds <= 59 /\ Millis(c) <= MaxMillis

(* format_timestamp *)
ClockOf(ms) == [hours |-> ms \div 3600000, minutes |-> (ms \div 60000) % 60,
                seconds |-> (ms \div 1000) % 60, millis |-> ms % 1000]

(* split_into_blocks: the maximal runs of lines that are not blank           *)
Blocks(lines) ==
    LET runs == RunsOf({i \in DOMAIN lines : lines[i] # Blank})
    IN  [n \in DOMAIN runs |-> SubSeq(lines, runs[n].first, runs[n].last)]

(* What stands where text is expected is text; numbers and timings written there   *)
(* are taken for one byte.                                                    *)
BytesOf(line) == IF line.kind = "text" THEN line.text ELSE <<0>>

(* Lines joined by "\n" *)
Joined(lines) ==
    FlattenSeq([i \in DOMAIN lines |->
        (IF i = 1 THEN <<>> ELSE <<Newline>>) \o BytesOf(lines[i])])

BlockError(block) ==
    IF block[1].kind # "number" \/ block[1].number > MaxIndex THEN "malformed-index"
    ELSE IF Len(block) = 1 THEN "missing-timing"
    ELSE IF \/ block[2].kind # "timing"
            \/ ~IsTimestamp(block[2].from) \/ ~IsTimestamp(block[2].to) THEN "malformed-timing"
    ELSE None

SegmentOf(block) ==
    [index |-> block[1].number, from |-> Millis(block[2].from), to |-> Millis(block[2].to),
     text |-> Joined(SubSeq(block, 3, Len(block)))]

(* parse_srt: the segments, or the first block's error                       *)
SrtError(lines) ==
    LET blocks == Blocks(lines)
        bad == {n \in DOMAIN blocks : BlockError(blocks[n]) # None}
    IN  IF bad = {} THEN None
        ELSE [block |-> Least(bad), error |-> BlockError(blocks[Least(bad)])]

ParseSrt(lines) == LET blocks == Blocks(lines) IN [n \in DOMAIN blocks |-> SegmentOf(blocks[n])]

-----------------------------------------------------------------------------
(* str::lines of a text: its parts between newlines, less one final "\r" each  *)
WithoutReturn(part) ==
    IF part # <<>> /\ Last(part) = Return THEN Front(part) ELSE part

LineOf(part) == IF \A i \in DOMAIN part : part[i] \in Space THEN Blank ELSE Text(part)

LinesOf(text) ==
    LET ends == InOrder({i \in DOMAIN text : text[i] = Newline} \cup {Len(text) + 1})
        Part(n) == SubSeq(text, IF n = 1 THEN 1 ELSE ends[n - 1] + 1, ends[n] - 1)
    IN  [n \in DOMAIN ends |-> LineOf(WithoutReturn(Part(n)))]

(* serialize_canonical_srt, as the lines of the file it makes                 *)
CueOf(segment, text) ==
    <<Number(segment.index), Timing(ClockOf(segment.from), ClockOf(segment.to))>> \o LinesOf(text)

SerializeUnseparated(segments, texts) ==    \* variant: no empty line between two cues
    FlattenSeq([n \in DOMAIN segments |-> CueOf(segments[n], texts[n])])

Serialize(segments, texts) ==
    FlattenSeq([n \in DOMAIN segments |->
        (IF n = 1 THEN <<>> ELSE <<Blank>>) \o CueOf(segments[n], texts[n])])

-----------------------------------------------------------------------------
(* Transcript::validation_issues: of a segment, in this order.  The successor  *)
(* of the greatest index wraps in a release build and panics in a debug build. *)
Wraps(segments) == \E n \in 1..(Len(segments) - 1) : segments[n].index = MaxIndex

IssuesOf(segments, n) ==
    LET s == segments[n]
        Issue(error) == [position |-> n, index |-> s.index, error |-> error]
    IN  (IF n > 1 /\ s.index # (segments[n - 1].index + 1) % (MaxIndex + 1)
           THEN <<Issue("non-consecutive-index")>> ELSE <<>>)
        \o (IF \A i \in DOMAIN s.text : s.text[i] \in Space THEN <<Issue("empty-text")>> ELSE <<>>)
        \o (IF s.to < s.from THEN <<Issue("end-before-start")>> ELSE <<>>)

ValidationIssues(segments) == FlattenSeq([n \in DOMAIN segments |-> IssuesOf(segments, n)])

(* The revision is a digest of all that is in the segments.                   *)
Revision(segments) == segments

Slice(text, start, end) == SubSeq(text, start + 1, end)

CharBoundary(text, offset) ==
    offset = 0 \/ offset = Len(text) \/ text[offset + 1] \notin Continuation

(* Where each character of a text starts, the length of the text last, and the     *)
(* characters (ScalarText)                                                    *)
ByteStarts(text) == InOrder({i \in 0..Len(text) : CharBoundary(text, i)})

Scalars(text) ==
    LET at == ByteStarts(text) IN [i \in 1..(Len(at) - 1) |-> Slice(text, at[i], at[i + 1])]

(* Transcript::anchor: why bytes start..end of a segment cannot be anchored    *)
AnchorError(segments, position, start, end) ==
    IF position \notin DOMAIN segments THEN "unknown-segment"
    ELSE LET text == segments[position].text
         IN  IF start >= end THEN "empty-or-inverted-range"
             ELSE IF end > Len(text) THEN "range-out-of-bounds"
             ELSE IF ~(CharBoundary(text, start) /\ CharBoundary(text, end))
                  THEN "not-char-boundary"
             ELSE None

(* Transcript::resolve                                                      *)
Resolves(segments, revision, position, start, end) ==
    /\ revision = Revision(segments)
    /\ AnchorError(segments, position, start, end) = None
=============================================================================
