SPECIFICATION Spec
CONSTANTS
  Source <- RivalSources
  IdOrder <- RivalOrder
  SiteOf <- RivalSite
  Active = "active"
  Mirror = {"mirror"}
  Priority <- MCPriority
  Offers <- RivalOffers
  MaxVersion = 1
  Build = {"x", "y"}
  Required = {}
  Promoted = {}
  Republished = {}
  MinimumPublished = 1
  VersionLimit = 3
  ManualMaintained = {}
  ManualLegacy = {}
  MinimumMaintained = 0
  MinimumLegacy = 0
  RemovalFloor = 1
  RemovalPercent = 25
PROPERTIES
  ImmutableForever
