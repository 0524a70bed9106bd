SPECIFICATION Spec
CONSTANTS
    p1 = p1  p2 = p2  e1 = e1  e2 = e2  a1 = a1  a2 = a2  r1 = r1  r2 = r2
    m1 = m1  m2 = m2  op1 = op1  op2 = op2  op3 = op3  op4 = op4
    None = None
    Process <- MCProcess
    Event <- MCEvent
    Analysis <- MCAnalysis
    Artifact <- MCArtifact
    Mark <- MCMark
    Seq <- MCSeq
    Refs <- MCRefs
    CreatedWith <- MCCreatedWith
    Retained = {r1}
    Op = {op1, op2}
    Command <- Mixed
    LeaseDuration = 1
    MaxClock = 2
    MaxTokens = 3
    ClockStepsBack = TRUE
SYMMETRY Symmetry
INVARIANTS TypeOK NothingLost AnsweredIsAcknowledged OwnerReadsCurrent
PROPERTIES ImplementsStore FencedWrites
