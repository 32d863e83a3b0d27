\* Two API threads and the tickler, a one-chunk tag, a PLC that always answers.
CONSTANTS
    t1 = t1
    t2 = t2
    Threads = {t1, t2}
    Creator = t1
    CreateWaits = TRUE
    AutoRead = TRUE
    AutoWrite = {FALSE, TRUE}
    ReadCache = FALSE
    Faults = {"cip_err", "eip_err", "sess_err"}
    Callback = TRUE
    Calls <- CallsSplit
    Size = 1
    TrackEvents = FALSE
    Vals = {0}
    NoData = NoData
    Uninit = Uninit
    NoReq = NoReq
    Vtables = {"omron", "pccc"}
    Timeouts = TRUE
SPECIFICATION Spec
INVARIANTS TypeOK InFlightExclusive ReqMatchesProgress IdleOffsetZero

VIEW LiveView
