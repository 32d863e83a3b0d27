\* One thread reading with a timeout and polling, a PLC that may answer with
\* a CIP error: a failed read comes back OK.
CONSTANTS
    t1 = t1
    t2 = t2
    Threads = {t1, t2}
    Creator = t1
    CreateWaits = FALSE
    AutoRead = FALSE
    AutoWrite = {FALSE, TRUE}
    ReadCache = FALSE
    Faults = {"cip_err"}
    Callback = TRUE
    Calls <- CallsPollOnly
    Size = 1
    TrackEvents = FALSE
    Vals = {0}
    NoData = NoData
    Uninit = Uninit
    NoReq = NoReq
    Vtables = {"omron", "pccc"}
    Timeouts = TRUE
SPECIFICATION Spec
INVARIANT ReadOkHasData
