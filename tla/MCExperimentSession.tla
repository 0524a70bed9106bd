-------------------------- MODULE MCExperimentSession --------------------------
(* An instance of ExperimentSession for TLC.                                  *)
EXTENDS ExperimentSession, TLC

(* Phonetic keys: the consonants, and in the second key all of them alike *)
MCPrimaryKey(letters) == SelectSeq(letters, LAMBDA x : x # 97)
MCAlternateKey(letters) ==
    LET consonants == MCPrimaryKey(letters) IN [i \in DOMAIN consonants |-> 98]

\* a, b and c, A, the space, a character of two bytes
a == 97  b == 98  c == 99  A == 65  space == 32
eAcute == <<195, 169>>

At(s, ms) == [hours |-> 0, minutes |-> 0, seconds |-> s, millis |-> ms]
Cue(n, text) == <<Number(n), Timing(At(n, 0), At(n, 500))>> \o text
File(first, second) == Cue(1, first) \o <<Blank>> \o Cue(2, second)

GoodSrt == {
    Cue(1, <<Text(<<a, b, b>>)>>),
    Cue(1, <<Text(<<a, b, space, A, b>>)>>),
    Cue(1, <<Text(<<a, b>>), Text(<<b, a>>)>>),
    Cue(1, <<Text(<<a, b, a, space, b, b, a>>)>>),
    File(<<Text(<<b, b, b>>)>>, <<Text(eAcute \o <<a, b, a>> \o eAcute)>>),
    File(<<Text(<<a, c, b, space, a, b>>)>>, <<>>)}

BadSrt == {
    <<Text(<<a>>)>>, <<Number(1), Blank>>, <<Number(1), Text(<<a>>)>>, <<Number(9)>>,
    <<Number(1), Timing(At(61, 0), At(62, 0)), Text(<<a>>)>>,
    Cue(1, <<Text(<<a>>)>>) \o <<Blank, Number(2)>>}

\* Characters of three bytes that have a reading, the first of them two
hanAb == <<228, 184, 128>>  hanC == <<228, 184, 129>>
MCPrimaryReading(x) == CASE x = hanAb -> <<a, b>> [] x = hanC -> <<c>> [] OTHER -> <<>>
MCAllReadings(x) == IF x = hanAb THEN <<<<a, b>>, <<b, b>>>> ELSE <<<<c>>>>

TwoLines == File(<<Text(<<a, a>>), Text(<<a, b, b>>)>>, <<Text(hanAb \o hanC \o <<b, b>>)>>)
SuggestiveSrt == {
    TwoLines,
    Cue(1, <<Text(<<a, a, b, space, a, a, b, b>>)>>),
    Cue(1, <<Text(<<a, a, space, a, b, b>> \o hanC \o hanC)>>)}

MCSrtFiles == GoodSrt \cup BadSrt \cup SuggestiveSrt

Form(prefix, value) == [prefix |-> prefix, value |-> value]
Term(canonical, forms) == [content |-> TRUE, canonical |-> canonical, forms |-> forms]
Comment == [content |-> FALSE, canonical |-> <<>>, forms |-> <<>>]

GoodTerms == {
    <<Term(<<b>>, <<Form("alias", <<a, b>>), Form("error", <<b, a>>)>>),
      Term(<<a, b, b, b>>, <<>>)>>,
    <<Term(<<a, b, a, b>>, <<Form("alias", <<b, b>>), Form("error", <<a, b>>)>>)>>,
    <<Term(<<a, b, a, b>>, <<>>), Comment, Term(<<a, b, b, a>>, <<Form("error", <<b>>)>>)>>,
    <<Term(<<A, b>>, <<Form("alias", <<a, b>>), Form("error", <<A, b>>)>>),
      Term(eAcute, <<Form("alias", <<a, c, b>>)>>)>>,
    <<Term(<<a, b, space, a, b>>, <<Form("alias", <<a, b, a, b>>)>>),
      Term(<<c, c, c>>, <<Form("error", eAcute \o <<a>>), Form("alias", <<b, a>> \o eAcute)>>)>>}

BadTerms == {
    <<Term(<<>>, <<>>)>>, <<Term(<<a>>, <<>>), Term(<<a>>, <<>>)>>,
    <<Term(<<a>>, <<Form("missing", <<b>>)>>)>>, <<Term(<<a>>, <<Form("unsupported", <<b>>)>>)>>,
    <<Term(<<a>>, <<Form("alias", <<>>)>>)>>,
    <<Term(<<a>>, <<Form("alias", <<b>>), Form("error", <<b>>)>>)>>,
    <<Term(<<a>>, <<Form("error", <<b>>)>>), Term(<<c>>, <<Form("error", <<b>>)>>)>>}

Embedding == <<Term(<<a, b, b>>, <<>>), Term(<<A, A>>, <<>>)>>
SuggestiveTerms == {
    Embedding,
    <<Term(<<a, a, a, a, b>>, <<>>), Term(<<a, b, a, b>>, <<Form("alias", <<a, a, b>>)>>),
      Term(<<a, a, b, b>>, <<>>)>>,
    <<Term(hanAb \o hanC, <<>>), Term(<<c, b, c>>, <<>>)>>}

MCTermsFiles == GoodTerms \cup BadTerms \cup SuggestiveTerms

SettingOf(ranker, filtered) ==
    [ranker |-> ranker, description |-> <<A, b, a, b>>, latin |-> filtered, pinyin |-> filtered]

\* The external ranker's answers are many, so it is asked about one session.
MCCommands ==
    [input : [srt : GoodSrt \cup BadSrt, terms : GoodTerms \cup BadTerms], setting : {None}]
    \cup [input : [srt : SuggestiveSrt, terms : SuggestiveTerms],
          setting : {SettingOf(r, p) : r \in {"rules-only", "fake"}, p \in BOOLEAN}]
    \cup [input : [srt : {TwoLines}, terms : {Embedding}],
          setting : {SettingOf("external-command", FALSE)}]
=============================================================================
