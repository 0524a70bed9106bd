SPECIFICATION MCSpec
CONSTANTS
  None = None
  Nothing = Nothing
  Catalog <- MCCatalog
  Required <- MCRequired
  CrossPlatform <- MCCrossPlatform
  Trials <- MCTrials
  Capable = {"interrupted-compaction"}
  Contracts <- MCContracts
  Reclassifications <- MCReclassifications
  RequiredBlockers <- MCRequiredBlockers
  ResolvedConflicts <- MCResolvedConflicts
INVARIANTS
  
  DamageIsNoticed
  EligibleMeansVerified
  CreditedOrFlagged
  ChecksumsHold
  EveryClaimIsAnswered
PROPERTIES
  CreditedCrashesHappened
  RunsEnd
  WorkersEnd
\* a run, a scene and a verdict come to an end
CHECK_DEADLOCK FALSE
