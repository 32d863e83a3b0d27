\* A plc_tag_read after a failed pre-write read is turned into a write of the buffer (pre_write_read is never cleared).
CONSTANTS
    t1 = t1
    t2 = t2
    Threads = {t1, t2}
    Creator = t1
    CreateWaits = FALSE
    AutoRead = FALSE
    AutoWrite = {FALSE, TRUE}
    ReadCache = FALSE
    Faults = {"cip_err"}
    Callback = TRUE
    Calls <- CallsAsyncVsAbort
    Size = 1
    TrackEvents = FALSE
    Vals = {0}
    NoData = NoData
    Uninit = Uninit
    NoReq = NoReq
    Vtables = {"omron"}
    Timeouts = TRUE
SPECIFICATION Spec
INVARIANT ReadNeverWrites
