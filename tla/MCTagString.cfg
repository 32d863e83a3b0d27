CONSTANTS
    IntBits = 8
    InitSize = 8
    GrowBytes = {255}
    AutoSync = TRUE
    Absent = Absent
    NoData = NoData
    NoBit = NoBit
    NoWrite = NoWrite
    Offsets = {0}
    BitOffsets = {0}
    NewSizes = {0}
    Attrs <- MCStrAttrs
    BitTags = {NoBit, 9}
    StrOffsets = {0}
    Strs <- MCStrs
    BufLen = 4
    RawBufs <- MCRawBufs
    InitBufs <- MCInitBufs
    AllowResize = {FALSE, TRUE}
    MaxSize = 10
SPECIFICATION StrSpec
INVARIANTS NoOutOfBounds StrRoundTrip
