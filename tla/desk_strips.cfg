SPECIFICATION Spec
CONSTANTS
    c1 = c1
    NoDesk = NoDesk
    Absent = Absent
    Consoles = {c1}
    Channels = {1, 2, 3}
    Models = {"x32", "lv1_16", "generic"}
    SeedModel = "generic"
    Strips <- MCStrips
    AuxIn = 2
    AskedNumbers <- MCAskedNumbers
    TypedInputs = {0}
    MaxNumber = 4
INVARIANTS
    TypeOK
    StripsApart
    LegalOrOver
    SuggestionsLegal
PROPERTIES
    SwitchKeepsOrder
    SwitchMovesOnlyIfForced
    LeftOutOnlyWhenFull
    PlacedOverOnlyIfFull
