\* One reader and one writer thread, a read cache, both vtables, a PLC whose
\* value changes, no faults, no expiring timeouts and no auto-sync writes:
\* the tag implements TagAbstract and a cache hit serves a filled buffer.
CONSTANTS
    t1 = t1
    t2 = t2
    Threads = {t1, t2}
    Creator = t1
    CreateWaits = FALSE
    AutoRead = FALSE
    AutoWrite = {FALSE}
    ReadCache = TRUE
    Faults = {}
    Callback = TRUE
    Calls <- CallsReaderWriter
    Size = 1
    TrackEvents = FALSE
    Vals = {0, 1, 2}
    NoData = NoData
    Uninit = Uninit
    NoReq = NoReq
    Vtables = {"omron", "pccc"}
    Timeouts = FALSE
SPECIFICATION Spec
INVARIANT CacheServesData
PROPERTY TagRefines

VIEW LiveView
