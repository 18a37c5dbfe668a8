SPECIFICATION MigratedSpec
CONSTANTS
    c1 = c1
    c2 = c2
    ch1 = ch1
    NoDesk = NoDesk
    Absent = Absent
    Consoles = {c1, c2}
    Channels = {ch1}
    Outputs = {}
    Models = {"lv1_16"}
    SeedModel = "lv1_16"
    UserKinds = {}
    Capacity <- MCCapacity
    TrackCount <- NoTracks
    MatrixLimit = 1
    MaxMixes = 5
    MaxSlot = 5
    MaxTracks = 0
    MaxSources = 0
    ChannelPorts = {0}
INVARIANT
    ChannelsRouteOnTheirDesk
