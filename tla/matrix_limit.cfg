SPECIFICATION Spec
CONSTANTS
  GearStarts = {}
  GearDrafts <- MCGearDrafts
  Catalog <- MCCatalog
  LightingStarts = {}
  LightDrafts <- MCLightDrafts
  Batches <- MCBatches
  UniverseSize = 6
  NewCount = 2
  RigStarts = {}
  RigCounts <- MCRigCounts
  RigForms <- MCRigForms
  RigItems <- MCRigItems
  Profiles <- MCProfiles
  RoutingStarts <- MCMatrixStarts
  TypedSlots <- MCTypedSlots
  Capacity <- MCCapacity
  TrackCount <- MCTrackCount
  MatrixLimit = 2
  MaxCalls = 3
  MaxOthers = 1
  GearOthers <- MCGearOthers
  LightingOthers <- MCLightingOthers
  RigOthers <- MCRigOthers
  RoutingOthers <- MCRoutingOthers
PROPERTY
  NoOfferRefused
CHECK_DEADLOCK FALSE
