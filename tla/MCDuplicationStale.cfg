SPECIFICATION Spec
CONSTANTS
    p1 = p1  p2 = p2
    None = None
    Process = {p1, p2}
    Duplicator = {p1, p2}
    Uncleaned = {}
    MaxVersion = 2
    MaxFiles = 3
\* The versions, files and handles run out: the model stops there.
CHECK_DEADLOCK FALSE
INVARIANT AnsweredDuplicateStays
