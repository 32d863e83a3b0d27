\* A request the session fails leaves read_in_flight set for ever.
CONSTANTS
    t1 = t1
    t2 = t2
    Threads = {t1, t2}
    Creator = t1
    CreateWaits = FALSE
    AutoRead = FALSE
    AutoWrite = {FALSE, TRUE}
    ReadCache = FALSE
    Faults = {"sess_err"}
    Callback = TRUE
    Calls <- CallsPollOnly
    Size = 1
    TrackEvents = FALSE
    Vals = {0}
    NoData = NoData
    Uninit = Uninit
    NoReq = NoReq
    Vtables = {"omron"}
    Timeouts = TRUE
SPECIFICATION Spec
PROPERTIES ReadCompletes
