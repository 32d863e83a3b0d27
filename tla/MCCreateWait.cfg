\* The creator waits in plc_tag_create_ex with a timeout; no other call and
\* no auto-sync, so only the create loop decides when the create returns.
CONSTANTS
    t1 = t1
    t2 = t2
    Threads = {t1, t2}
    Creator = t1
    CreateWaits = TRUE
    AutoRead = FALSE
    AutoWrite = {FALSE, TRUE}
    ReadCache = FALSE
    Faults = {}
    Callback = TRUE
    Calls <- CallsNone
    Size = 1
    TrackEvents = FALSE
    Vals = {0}
    NoData = NoData
    Uninit = Uninit
    NoReq = NoReq
    Vtables = {"omron"}
    Timeouts = TRUE
SPECIFICATION Spec
INVARIANT CreateReturnsCreated
