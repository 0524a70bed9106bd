SPECIFICATION ExperimentSpec
CONSTANTS
    None = None  Torn = Torn
    MaxIndex = 8
    MaxMillis = 60000
    SrtFiles <- MCSrtFiles
    TermsFiles <- MCTermsFiles
    PrimaryKey <- MCPrimaryKey
    AlternateKey <- MCAlternateKey
    PrimaryReading <- MCPrimaryReading
    AllReadings <- MCAllReadings
    MaxCandidates = 2
    MaxLatinDistance = 2
    MaxPinyinDistance = 2
    MaxExpansions = 2
    MaxWindowWords = 2
    Commands <- MCCommands
\* A session that has ended is over.
CHECK_DEADLOCK FALSE
INVARIANTS KeysNameOneCase OutputReparses RefusedForOverlapOnly SummaryAgreesWithFiles
    ClosestAreKept GuidanceCanBeFollowed
PROPERTY ImplementsReview
