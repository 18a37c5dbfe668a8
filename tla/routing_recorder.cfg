SPECIFICATION Spec
CONSTANTS
    c1 = c1
    c2 = c2
    ch1 = ch1
    ch2 = ch2
    NoDesk = NoDesk
    Absent = Absent
    Consoles = {c1, c2}
    Channels = {ch1, ch2}
    Outputs = {}
    Models = {"x32", "lv1_16"}
    SeedModel = "lv1_16"
    UserKinds = {"matrix"}
    Capacity <- MCCapacity
    TrackCount <- MCTrackCount
    MatrixLimit = 1
    MaxMixes = 2
    MaxSlot = 3
    MaxTracks = 2
    MaxSources = 0
    ChannelPorts = {0}
SYMMETRY Symmetry
INVARIANTS
    TracksExclusive
PROPERTIES
    LossesAreEdits
    NewTracksFit
