\* Two API threads making every call, the tickler, and a PLC that answers:
\* every call returns.
CONSTANTS
    t1 = t1
    t2 = t2
    Threads = {t1, t2}
    Creator = t1
    CreateWaits = FALSE
    AutoRead = FALSE
    AutoWrite = {FALSE, TRUE}
    ReadCache = FALSE
    Faults = {}
    Callback = TRUE
    Calls <- CallsBlockedVsAbort
    Size = 1
    TrackEvents = FALSE
    Vals = {0}
    NoData = NoData
    Uninit = Uninit
    NoReq = NoReq
    Vtables = {"omron"}
    Timeouts = TRUE
SPECIFICATION Spec
PROPERTIES CallsReturn
