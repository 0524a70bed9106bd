SPECIFICATION Spec
CONSTANTS
    c1 = c1  c2 = c2
    None = None
    Command = {c1, c2}
    Expects <- MCExpects
    Disturbances = {"error"}
    MaxGeneration = 3
    MaxLog = 3
    MaxHandles = 2
\* Handles and generations run out: the model stops there.
CHECK_DEADLOCK FALSE
INVARIANT AnsweredSessionOpens
