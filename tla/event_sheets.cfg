SPECIFICATION Spec
CONSTANTS
  GearStarts <- MCGearStarts
  GearDrafts <- MCGearDrafts
  Catalog <- MCCatalog
  LightingStarts <- MCLightingStarts
  LightDrafts <- MCLightDrafts
  Batches <- MCBatches
  UniverseSize = 6
  NewCount = 2
  RigStarts <- MCRigStarts
  RigCounts <- MCRigCounts
  RigForms <- MCRigForms
  RigItems <- MCRigItems
  Profiles <- MCProfiles
  RoutingStarts <- MCRoutingStarts
  TypedSlots <- MCTypedSlots
  Capacity <- MCCapacity
  TrackCount <- MCTrackCount
  MatrixLimit = 2
  MaxCalls = 3
  MaxOthers = 1
  GearOthers <- MCGearOthers
  LightingOthers <- MCLightingOthers
  RigOthers <- MCRigOthers
  RoutingOthers <- MCRoutingOthers
INVARIANTS
  TypeOK
  CablesKeepTheirPorts
PROPERTIES
  BatchIsAccounted
  RoomIsFirst
  PlansKeepSharing
  RoomIsMade
  OfferedIsTaken
  PastTracksStay
CHECK_DEADLOCK FALSE
