\* Three commits, two sources, one of them through a WebView and one protected.
SPECIFICATION FairSpec
CONSTANTS
  LastCommit = 3
  Reread <- MCReread
  Once <- MCOnce
  Fresh <- MCFresh
  Package <- MCPackage
  RequiredPackage <- MCPackage
  Content <- MCContent
  VerifyAttempts = 2
  FreshnessAttempts = 2
  Issue = {1, 2, 3, 4}
  CriticalSource = {"readcomics", "comix"}
  WebviewCase = {"comix"}
  MayProtect = {"comix"}
INVARIANTS AcceptedTogether OneIncidentPerGroup NotSilenced
PROPERTIES ClosedByProof RecoveredClosed
