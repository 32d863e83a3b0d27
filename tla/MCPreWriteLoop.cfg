\* A write after the first read was aborted: the pre-write read repeats for ever.
CONSTANTS
    t1 = t1
    t2 = t2
    Threads = {t1, t2}
    Creator = t1
    CreateWaits = FALSE
    AutoRead = FALSE
    AutoWrite = {FALSE, TRUE}
    ReadCache = FALSE
    Faults = {}
    Callback = TRUE
    Calls <- CallsAsyncVsAbort
    Size = 1
    TrackEvents = FALSE
    Vals = {0}
    NoData = NoData
    Uninit = Uninit
    NoReq = NoReq
    Vtables = {"omron"}
    Timeouts = TRUE
SPECIFICATION Spec
PROPERTIES WriteCompletes
