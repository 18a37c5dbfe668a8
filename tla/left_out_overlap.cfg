SPECIFICATION Spec
CONSTANTS
    c1 = c1
    NoDesk = NoDesk
    Absent = Absent
    Consoles = {c1}
    Channels = {}
    Outputs = {}
    Models = {"generic", "lv1_16"}
    SeedModel = "generic"
    UserKinds = {"monitor"}
    Capacity <- MCCapacity
    TrackCount <- NoTracks
    MatrixLimit = 1
    MaxMixes = 5
    MaxSlot = 5
    MaxTracks = 0
    MaxSources = 0
    ChannelPorts = {0}
INVARIANT
    LeftOutMixesApart
