SPECIFICATION FairSpec
CONSTANTS
    a = a
    Candidate = {a}
    None = None  Unknown = Unknown
    RequestSizes = {1, 3}
    MaxRequest = 2
    MaxOutput = 1
    Timeout = 1
    Grace = 1
    PipeSize = 1
    Produced <- MCProduced
\* A call that has answered is over.
CHECK_DEADLOCK FALSE
INVARIANTS AcceptedResponseIsWhole NoChildIsLeft
PROPERTY CallEnds
