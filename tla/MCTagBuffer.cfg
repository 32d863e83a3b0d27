CONSTANTS
    IntBits = 8
    InitSize = 8
    GrowBytes = {255}
    AutoSync = TRUE
    Absent = Absent
    NoData = NoData
    NoBit = NoBit
    NoWrite = NoWrite
    Attrs <- MCAttrs
    BitTags <- MCBitTags
    Offsets <- MCOffsets
    BitOffsets <- MCBitOffsets
    NewSizes <- MCNewSizes
SPECIFICATION Spec
INVARIANTS TypeOK RoundTrip
