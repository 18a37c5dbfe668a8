SPECIFICATION EventsSpec
CONSTANTS
    c1 = c1
    c2 = c2
    ch1 = ch1
    ch2 = ch2
    o1 = o1
    NoDesk = NoDesk
    Absent = Absent
    Consoles = {c1, c2}
    Channels = {ch1, ch2}
    Outputs = {o1}
    Models = {"x32", "lv1_16", "lv1_80g", "lv1_80m", "generic"}
    SeedModel = "generic"
    UserKinds = {"matrix", "subgroup", "monitor"}
    Capacity <- MCCapacity
    TrackCount <- NoTracks
    MatrixLimit = 1
    MaxMixes = 5
    MaxSlot = 5
    MaxTracks = 0
    MaxSources = 1
    ChannelPorts = {0}
SYMMETRY Symmetry
INVARIANTS
    TypeOK
    RoutesResolve
    OneFedBy
    DesksHaveMains
    MixNumbersUnique
PROPERTIES
    SwitchKeepsRoutes
    NewcomersJoinMain
    LossesAreEdits
