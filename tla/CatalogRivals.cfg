SPECIFICATION Spec
CONSTANTS
  Source <- RivalSources
  IdOrder <- RivalOrder
  SiteOf <- RivalSite
  Active = "active"
  Mirror = {"mirror"}
  Priority <- MCPriority
  Offers <- RivalOffers
  MaxVersion = 2
  Build = {"x", "y"}
  Required = {}
  Promoted = {"b"}
  Republished = {}
  MinimumPublished = 1
  VersionLimit = 3
  ManualMaintained = {}
  ManualLegacy = {"b"}
  MinimumMaintained = 0
  MinimumLegacy = 0
  RemovalFloor = 1
  RemovalPercent = 25
INVARIANTS
  QuarantineWithdrawn
PROPERTIES
  ImmutableWhileListed
  OutageKeepsSites
