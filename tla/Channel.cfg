SPECIFICATION FairSpec
CONSTANTS
    Window = 11
    MaxChunk = 6
    ReadSizes = {6}
    Amount <- OneWay
    Shutdowns = {"read", "write"}
    Junk <- SomeJunk
CHECK_DEADLOCK FALSE
INVARIANTS TypeOK WindowConserved WireSound
PROPERTIES  EndsSpread
