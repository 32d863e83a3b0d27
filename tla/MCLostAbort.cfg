\* An abort whose flag the tickler consumed first clears write_in_flight of a new write whose request stays on the wire.
CONSTANTS
    t1 = t1
    t2 = t2
    Threads = {t1, t2}
    Creator = t1
    CreateWaits = FALSE
    AutoRead = FALSE
    AutoWrite = {FALSE, TRUE}
    ReadCache = FALSE
    Faults = {}
    Callback = TRUE
    Calls <- CallsAsyncVsAbort
    Size = 1
    TrackEvents = FALSE
    Vals = {0}
    NoData = NoData
    Uninit = Uninit
    NoReq = NoReq
    Vtables = {"omron"}
    Timeouts = TRUE
SPECIFICATION Spec
INVARIANT RequestTracked
