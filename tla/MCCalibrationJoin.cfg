SPECIFICATION Spec
CONSTANTS
    None = None  Input = Input  Other = Other  Compare = Compare  Evaluate = Evaluate
    MaxIndex = 8
    MaxMillis = 60000
    MaxCells = 42
    Inputs <- MCInputs
    PrimaryKey <- MCPrimaryKey
    AlternateKey <- MCAlternateKey
\* Both commands end.
CHECK_DEADLOCK FALSE
INVARIANTS EditsAreMinimal CountsAgree ExactMeansTheSameChange ReportsAreWhole
PROPERTY NothingOverwritten
