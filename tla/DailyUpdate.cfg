SPECIFICATION FairSpec
CONSTANTS
  Source <- MCSource
  Policies <- MCPolicies
  InitialPolicy <- Plain
  OfferSets <- MCOfferSets
  Unstable = {"a"}
  FailureThreshold = 2
  RecoveryThreshold = 2
  MinimumConclusive = 50
  MinimumMaintained = 1
  MinimumLegacy = 0
  RemovalFloor = 1
  RemovalPercent = 25
INVARIANTS
  RejectedOnlyForSick
PROPERTIES
  ImplementsFeed
  RollbackRecovers
  DayCountsOnce
  RemovalsGated
  GateStaysShut
  StuckUntilEdited
  FeedFollows
