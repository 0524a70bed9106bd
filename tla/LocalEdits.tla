------------------------------ MODULE LocalEdits ------------------------------
(***************************************************************************)
(* The difference between two texts of a cue, character by character: the       *)
(* matches of a longest common subsequence, found by Hirschberg's divide and     *)
(* conquer, and the edits between them.                                       *)
(***************************************************************************)
EXTENDS Transcript

CONSTANT MaxCells           \* MAX_LCS_CELLS

ASSUME CellsAssumption == MaxCells \in Nat

(* check_work_budget *)
WithinBudget(raw, final) == Len(Scalars(raw)) * Len(Scalars(final)) <= MaxCells

-----------------------------------------------------------------------------
Longer(m, n) == IF m > n THEN m ELSE n

(* The lengths of the longest common subsequences of a and the prefixes of b, a       *)
(* character of a after another                                               *)
LcsNext(previous, left, b) ==
    FoldLeft(LAMBDA row, j : Append(row, IF b[j] = left THEN previous[j] + 1
                                         ELSE Longer(previous[j + 1], Last(row))),
             <<0>>, [j \in DOMAIN b |-> j])

LcsRow(a, b) ==
    FoldLeft(LAMBDA row, left : LcsNext(row, left, b), [j \in 1..(Len(b) + 1) |-> 0], a)

(* Where b is cut when a is cut in two: the least of the best places            *)
BestCut(forward, backward, n) ==
    LET Score(k) == forward[k + 1] + backward[n - k + 1]
    IN  CHOOSE k \in 0..n : \A other \in 0..n :
            Score(other) < Score(k) \/ (Score(other) = Score(k) /\ k <= other)

SplitUnreversed(left, right, b) ==      \* variant: the right half is not read backwards
    BestCut(LcsRow(left, b), LcsRow(right, b), Len(b))

Split(left, right, b) ==
    BestCut(LcsRow(left, b), LcsRow(Reverse(right), Reverse(b)), Len(b))

(* hirschberg_matches: pairs of places in a and b                             *)
Shifted(matches, mid, cut) ==
    [n \in DOMAIN matches |-> <<matches[n][1] + mid, matches[n][2] + cut>>]

Matches[texts \in Seq(Seq(Byte)) \X Seq(Seq(Byte))] ==
    LET a == texts[1]
        b == texts[2]
        mid == Len(a) \div 2
        left == SubSeq(a, 1, mid)
        right == SubSeq(a, mid + 1, Len(a))
        cut == Split(left, right, b)
        hits == {j \in DOMAIN b : b[j] = a[1]}
    IN  IF a = <<>> \/ b = <<>> THEN <<>>
        ELSE IF Len(a) > 1
        THEN Matches[<<left, SubSeq(b, 1, cut)>>]
             \o Shifted(Matches[<<right, SubSeq(b, cut + 1, Len(b))>>], mid, cut)
        ELSE IF hits = {} THEN <<>>
        ELSE <<<<1, CHOOSE j \in hits : \A k \in hits : j <= k>>>>

(* edits_from_matches: what lies between two matches, as bytes from..to of the raw *)
(* text that become bytes finalFrom..finalTo of the final one; in code an edit is   *)
(* an insertion, a deletion or a replacement.                                  *)
Gaps(raw, final, matches) ==
    LET stops == <<<<0, 0>>>> \o matches \o <<<<Len(Scalars(raw)) + 1, Len(Scalars(final)) + 1>>>>
    IN  [n \in 1..(Len(stops) - 1) |->
            [from |-> ByteStarts(raw)[stops[n][1] + 1], to |-> ByteStarts(raw)[stops[n + 1][1]],
             finalFrom |-> ByteStarts(final)[stops[n][2] + 1],
             finalTo |-> ByteStarts(final)[stops[n + 1][2]]]]

(* compute_local_edits, of texts within the budget *)
LocalEdits(raw, final) ==
    LET gaps == Gaps(raw, final, Matches[<<Scalars(raw), Scalars(final)>>])
    IN  IF raw = final THEN <<>>
        ELSE AtPlaces(gaps, {n \in DOMAIN gaps : \/ gaps[n].from < gaps[n].to
                                                 \/ gaps[n].finalFrom < gaps[n].finalTo})

IsInsertion(e) == e.from = e.to
IsDeletion(e) == e.finalFrom = e.finalTo
=============================================================================
