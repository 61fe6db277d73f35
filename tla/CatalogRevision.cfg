SPECIFICATION FairSpec
CONSTANTS
  Source <- RevisionSources
  IdOrder <- RevisionOrder
  SiteOf <- RevisionSite
  Active = "active"
  Mirror = {"mirror"}
  Priority <- MCPriority
  Offers <- RevisionOffers
  MaxVersion = 2
  Build = {"x", "y"}
  Required = {"r"}
  Promoted = {}
  Republished = {"r"}
  MinimumPublished = 2
  VersionLimit = 5
  ManualMaintained = {}
  ManualLegacy = {}
  MinimumMaintained = 1
  MinimumLegacy = 0
  RemovalFloor = 1
  RemovalPercent = 25
INVARIANTS
  TypeOK
PROPERTIES
  RevisionsDetectable
  RevisionsEarned
  RebuildDelivered
