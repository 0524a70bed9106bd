--------------------------- MODULE MCCalibrationJoin ---------------------------
(* Instances of CalibrationJoin for TLC.                                    *)
EXTENDS CalibrationJoin, TLC

(* Phonetic keys: the consonants, and in the second key all of them alike *)
MCPrimaryKey(letters) == SelectSeq(letters, LAMBDA x : x # 97)
MCAlternateKey(letters) ==
    LET consonants == MCPrimaryKey(letters) IN [i \in DOMAIN consonants |-> 98]

\* a, b and c, the space, and two characters of two bytes that share the first
a == 97  b == 98  c == 99  space == 32
eAcute == <<195, 169>>
eGrave == <<195, 168>>

At(s, ms) == [hours |-> 0, minutes |-> 0, seconds |-> s, millis |-> ms]
CueAt(n, s, bytes) == <<Number(n), Timing(At(s, 0), At(s, 500)), Text(bytes)>>
Cue(bytes) == CueAt(1, 1, bytes)
File(first, second) == CueAt(1, 1, first) \o <<Blank>> \o CueAt(2, 2, second)

Form(prefix, value) == [prefix |-> prefix, value |-> value]
Term(canonical, forms) == [content |-> TRUE, canonical |-> canonical, forms |-> forms]

GoodTerms == {
    <<>>,
    <<Term(<<a, b>>, <<Form("alias", <<b, a>>), Form("error", <<c>>)>>)>>,
    <<Term(<<b, b>>, <<Form("alias", <<a, c>>)>>), Term(eAcute, <<Form("error", <<a>>)>>)>>,
    <<Term(<<a, b, a, b>>, <<Form("alias", <<b, b>>), Form("error", <<a, b>>)>>),
      Term(<<b, a, a, b>>, <<>>)>>}

Texts == {<<a, b, a, b>>, <<b, a, c, b>>, <<a, a, b, space, b, a>>, <<b, b, c, a, a, c>>,
          eAcute \o <<b>> \o eGrave, <<c>> \o eGrave \o <<a, b>> \o eAcute, <<b, a, b, b>>}

SingleCues == [raw : {Cue(t) : t \in Texts}, final : {Cue(t) : t \in Texts \cup {<<c>>}},
            terms : GoodTerms]

TwoCues == [raw : {File(<<a, b, b>>, <<b, a, b>>)},
            final : {File(<<a, b, b>>, <<c, a, b>>), File(<<b, b>>, <<b, a, a>>)},
            terms : GoodTerms]

(* Edits that are a case's alternative, and chains of overlaps *)
JoinedInputs == {
    [raw |-> Cue(<<b, c, c, a>>), final |-> Cue(final),
     terms |-> <<Term(<<a, b>>, <<Form("error", <<c, c>>)>>)>>] :
        final \in {<<b, a, b, a>>, <<b, a, b, c, a>>, <<c, c, a, b>>}}
    \cup
    {[raw |-> Cue(<<a, b, a, b, b, c>>), final |-> Cue(final),
      terms |-> <<Term(<<c, c>>, <<Form("alias", <<a, b, a, b>>), Form("error", <<b, b>>)>>),
                  Term(<<a, a>>, <<Form("error", <<b, c>>)>>)>>] :
        final \in {<<c, b, a, c, b, c>>, <<c, b, a, c, b, a>>, <<a, a, c, a>>, <<c, b, a, c, a>>}}

(* Pairs that are refused, or that cannot be read *)
Pairs == {
    <<Cue(<<a>>), File(<<a>>, <<b>>)>>, <<CueAt(2, 1, <<a>>), Cue(<<a>>)>>,
    <<Cue(<<a>>), CueAt(1, 2, <<a>>)>>, <<File(<<a>>, <<space>>), File(<<a>>, <<b>>)>>,
    <<Cue(<<a>>), CueAt(2, 1, <<b>>) \o <<Blank>> \o CueAt(4, 2, <<b>>)>>,
    <<<<Number(1), Timing(At(2, 0), At(1, 0)), Text(<<a>>)>>, Cue(<<a>>)>>,
    <<CueAt(8, 1, <<a>>) \o <<Blank>> \o CueAt(0, 2, <<b>>), Cue(<<a>>)>>,
    <<Cue(<<a>>), <<Number(1), Timing(At(1, 0), At(2, 0)), Text(<<a>>)>>>>,
    <<Cue(<<a, b, a, b, a, b, a, b>>), Cue(<<b, a, b, a, b, a, b>>)>>,
    <<<<Text(<<a>>)>>, Cue(<<a>>)>>}

Unreadable == {[raw |-> p[1], final |-> p[2], terms |-> <<>>] : p \in Pairs}
           \cup {[raw |-> Cue(<<a>>), final |-> Cue(<<b>>), terms |-> <<Term(<<>>, <<>>)>>]}

MCInputs == SingleCues \cup TwoCues \cup JoinedInputs \cup Unreadable
=============================================================================
