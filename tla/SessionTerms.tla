----------------------------- MODULE SessionTerms -----------------------------
(***************************************************************************)
(* The terms of a session: the parser of the terms file, and what a detector   *)
(* demands of the entries and of the run it is called with.                 *)
(*                                                                         *)
(* A line of the file is its canonical term and its source forms, each with    *)
(* the prefix it carries; comments and empty lines are lines without content.  *)
(***************************************************************************)
EXTENDS Transcript

Prefix == {"alias", "error", "unsupported", "missing"}

TermLine == [content : BOOLEAN, canonical : Seq(Byte),
             forms : Seq([prefix : Prefix, value : Seq(Byte)])]

Entry == [canonical : Seq(Byte), aliases : Seq(Seq(Byte)), errors : Seq(Seq(Byte))]

-----------------------------------------------------------------------------
(* parse_session_terms, which stops at the first error                        *)

(* The source form fields that were read before field f of line l             *)
Earlier(lines, l, f) ==
    {at \in UNION {{<<k, g>> : g \in DOMAIN lines[k].forms} : k \in 1..l} :
        at[1] < l \/ at[2] < f}

(* The prefixes under which value was given before *)
PrefixesSoFar(lines, l, f) ==
    {lines[at[1]].forms[at[2]].prefix :
        at \in {at \in Earlier(lines, l, f) :
                   lines[at[1]].forms[at[2]].value = lines[l].forms[f].value}}

FormError(lines, l, f) ==
    LET form == lines[l].forms[f]
        before == PrefixesSoFar(lines, l, f)
    IN  CASE form.prefix = "missing" -> "unprefixed-source-form"
          [] form.prefix = "unsupported" -> "unknown-prefix"
          [] form.value = <<>> -> "empty-form"
          [] OTHER -> IF before = {} THEN None
                      ELSE IF before = {form.prefix} THEN "duplicate-form"
                      ELSE "conflicting-source-form-kinds"

CanonicalError(lines, l) ==
    LET term == lines[l].canonical
    IN  IF term = <<>> THEN "empty-canonical-term"
        ELSE IF \E k \in 1..(l - 1) : lines[k].content /\ lines[k].canonical = term
        THEN "duplicate-canonical-term" ELSE None

(* What is wrong with the canonical term, then with the first bad field *)
FieldErrors(lines, l) ==
    <<CanonicalError(lines, l)>> \o [f \in DOMAIN lines[l].forms |-> FormError(lines, l, f)]

LineErrors(lines, l) ==
    LET found == FieldErrors(lines, l)
    IN  IF ~lines[l].content THEN <<>>
        ELSE AtPlaces(found, {k \in DOMAIN found : found[k] # None})

TermsErrors(lines) == FlattenSeq([l \in DOMAIN lines |-> LineErrors(lines, l)])

TermsError(lines) == IF TermsErrors(lines) = <<>> THEN None ELSE TermsErrors(lines)[1]

(* The entries, where there is no error *)
ValuesOf(forms, prefix) ==
    LET at == InOrder({f \in DOMAIN forms : forms[f].prefix = prefix})
    IN  [i \in DOMAIN at |-> forms[at[i]].value]

EntryOf(line) == [canonical |-> line.canonical, aliases |-> ValuesOf(line.forms, "alias"),
                  errors |-> ValuesOf(line.forms, "error")]

ParseTerms(lines) ==
    LET filled == InOrder({l \in DOMAIN lines : lines[l].content})
    IN  [i \in DOMAIN filled |-> EntryOf(lines[filled[i]])]

-----------------------------------------------------------------------------
(* Identities are digests of what they identify: SessionTermsIdentity is the    *)
(* entries in their order, and the configuration of every canonical run is the   *)
(* one constant.                                                            *)
Canonical == "canonical-session-term-detectors"

(* AnalysisRun::for_canonical_session_terms *)
RunFor(segments, entries) ==
    [revision |-> Revision(segments), terms |-> entries, configuration |-> Canonical]

DetectionErrors ==
    {"revision-mismatch", "session-terms-identity-mismatch", "configuration-mismatch",
     "duplicate-canonical-term", "empty-form", "duplicate-source-form"}

ASSUME NoErrorAssumption == None \notin DetectionErrors

(* The source forms of an entry, of either kind *)
SourceForms(e) == e.aliases \o e.errors

EmptyForm(entries) == \E e \in Range(entries) : <<>> \in Range(SourceForms(e))

SharedForm(entries) ==
    \E i, k \in DOMAIN entries :
        \E j \in DOMAIN SourceForms(entries[i]), l \in DOMAIN SourceForms(entries[k]) :
            /\ <<i, j>> # <<k, l>>
            /\ SourceForms(entries[i])[j] = SourceForms(entries[k])[l]

(* validate_detection_inputs; of errors in several entries any stands for the first *)
DetectionError(run, segments, entries) ==
    IF run.revision # Revision(segments) THEN "revision-mismatch"
    ELSE IF run.terms # entries THEN "session-terms-identity-mismatch"
    ELSE IF run.configuration # Canonical THEN "configuration-mismatch"
    ELSE IF \E i, j \in DOMAIN entries : i < j /\ entries[i].canonical = entries[j].canonical
         THEN "duplicate-canonical-term"
    ELSE IF EmptyForm(entries) THEN "empty-form"
    ELSE IF SharedForm(entries) THEN "duplicate-source-form"
    ELSE None
=============================================================================
