SPECIFICATION FairSpec
CONSTANTS
  ordinary = ordinary
  required = required
  Source = {ordinary, required}
  Required = {required}
  FailureThreshold = 3
  RecoveryThreshold = 2
  MinimumConclusive = 50
INVARIANTS
  CountersMatchEvidence
  RequiredStayInstalled
PROPERTIES
  ImplementsQuarantine
  DeadSiteQuarantined
  HealthySiteReleased
  VerdictsEarned
