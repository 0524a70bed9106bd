SPECIFICATION ReaderSpec
CONSTANTS
    p1 = p1  p2 = p2  e1 = e1  e2 = e2  a1 = a1  a2 = a2  r1 = r1  r2 = r2
    m1 = m1  op1 = op1  op2 = op2  op3 = op3
    None = None
    Process = {p1, p2}
    Event <- MCEvent
    Analysis <- MCAnalysis
    Artifact = {r1, r2}
    Mark = {m1}
    Seq <- MCSeq
    Refs <- MCRefs
    CreatedWith <- MCCreatedWith
    Retained = {r1}
    Op = {op1, op2}
    Command <- Growing
    LeaseDuration = 1
    MaxClock = 1
    MaxTokens = 2
    ClockStepsBack = TRUE
SYMMETRY Symmetry
INVARIANT CacheDerivesFromLedger
PROPERTY ReadsNeverRegress
