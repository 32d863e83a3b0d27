------------------------------ MODULE LibTag ------------------------------
(***************************************************************************)
(* One Omron or SLC (PCCC) tag driven by the generic tag layer of         *)
(* lib/lib.c: API threads                                                  *)
(* calling plc_tag_read, plc_tag_write, plc_tag_abort, plc_tag_status and  *)
(* plc_tag_set_bit; the tickler thread (tag_tickler_func); and the         *)
(* connection that answers the tag's request (spec_modelled: the session  *)
(* code is not in this repository).                                        *)
(*                                                                         *)
(* Every step is one critical_block(tag->api_mutex), or one atomic store   *)
(* made outside it, in the order the code makes them.  The api_mutex is    *)
(* recursive, so the nested plc_tag_abort_impl inside plc_tag_read's block *)
(* is part of that block's step.  The tickler only try-locks the mutex,    *)
(* so it never runs inside an API step.  Time is abstract: whether a       *)
(* deadline or an auto-sync period has passed is a nondeterministic choice *)
(* at the point the code compares against time_ms().                       *)
(***************************************************************************)
EXTENDS OmronTag, PcccTag

CONSTANTS
    Threads,      \* application threads calling the API
    Creator,      \* the thread that called plc_tag_create_ex
    CreateWaits,  \* plc_tag_create_ex was given a timeout > 0
    AutoRead,     \* auto_sync_read_ms > 0
    AutoWrite,    \* the values auto_sync_write_ms > 0 may have at create
    ReadCache,    \* read_cache_ms > 0
    Faults,       \* the failed answers the connection may give
    Callback,     \* plc_tag_create_ex was given a callback
    Calls,        \* the API functions each application thread calls
    Vtables,      \* the protocols the tag may be created for
    Timeouts      \* the deadline of a blocking call can pass before the
                  \* PLC answers (FALSE: timeouts long enough for every reply)

ASSUME /\ Creator \in Threads
       /\ CreateWaits \in BOOLEAN /\ AutoRead \in BOOLEAN
       /\ AutoWrite \subseteq BOOLEAN /\ AutoWrite # {}
       /\ ReadCache \in BOOLEAN /\ Callback \in BOOLEAN
       /\ Faults \subseteq {"cip_err", "eip_err", "sess_err"}
       /\ Calls \in [Threads -> SUBSET {"read", "write", "abort", "status",
                                          "set", "attr", "register",
                                          "unregister"}]
       /\ Vtables \subseteq {"omron", "pccc"} /\ Vtables # {}
       /\ Timeouts \in BOOLEAN

VARIABLES
    tag,              \* the tag record (Tag.tla)
    auto_sync_write,  \* auto_sync_write_ms > 0
    registered,       \* the tag is in the tags hashtable
    cond,             \* tag->tag_cond_wait is signalled
    plc,              \* the tag's value in the PLC
    pc,               \* where each API thread is
    rc,               \* each API thread's local rc
    tpc,              \* where the tickler is: ticking, or dispatching
    expired,          \* the deadline of each thread's current wait has passed
    callback          \* tag->callback is set

vars == <<tag, auto_sync_write, registered, cond, plc, pc, rc, tpc, expired,
          callback>>

Pc == {"idle", "create_wait", "create_fin",
       "read_wait", "read_abort_cs", "read_abort_cb", "read_done_cs",
       "read_final", "write_wait", "write_abort_cs", "write_abort_cb",
       "write_end_cs", "write_done_cs", "write_final", "abort_cs", "abort_cb"}

TypeOK ==
    /\ tag \in TagRecord
    /\ auto_sync_write \in BOOLEAN
    /\ registered \in BOOLEAN /\ cond \in BOOLEAN /\ plc \in Vals
    /\ pc \in [Threads -> Pc] /\ rc \in [Threads -> Status]
    /\ tpc \in {"tick", "callbacks"} /\ expired \in [Threads -> BOOLEAN]
    /\ callback \in BOOLEAN

(***************************************************************************)
(* The tag as plc_tag_create_ex leaves it on return: the constructor has   *)
(* set first_read and read_in_flight and started the first read; the tag  *)
(* is in the hashtable.  An Omron tag has no buffer until that read; an    *)
(* SLC tag's size follows from its data-file address, so its buffer is     *)
(* allocated (and not yet filled).                                         *)
(***************************************************************************)
CreatedTag(v) ==
    [read_in_flight |-> TRUE, write_in_flight |-> FALSE,
     read_complete |-> FALSE, write_complete |-> FALSE,
     abort_requested |-> FALSE, tag_is_dirty |-> FALSE,
     auto_sync_next_write |-> FALSE, read_cache_fresh |-> FALSE,
     status |-> "OK", data |-> IF v = "pccc" THEN Uninit ELSE NoData,
     event |-> [e \in Event |-> FALSE], vtable |-> v,
     read_in_progress |-> TRUE, write_in_progress |-> FALSE,
     first_read |-> TRUE, pre_write_read |-> FALSE, offset |-> 0,
     type_known |-> FALSE,
     req |-> [kind |-> "read", payload |-> NoData, resp |-> "none",
              rdata |-> NoData]]

Init ==
    /\ tag \in {CreatedTag(v) : v \in Vtables}
    /\ auto_sync_write \in AutoWrite
    /\ registered = TRUE
    /\ cond = FALSE
    /\ plc \in Vals
    /\ pc = [t \in Threads |->
               IF t = Creator /\ CreateWaits THEN "create_wait" ELSE "idle"]
    /\ rc = [t \in Threads |-> "PENDING"]
    /\ tpc = "tick"
    /\ expired = [t \in Threads |-> FALSE]
    /\ callback = Callback

-----------------------------------------------------------------------------
(* The calls through tag->vtable: the Omron vtable (omron_tag_abort,       *)
(* tag_read_start, omron_tag_status, tag_tickler, tag_write_start) or     *)
(* slc_vtable (ab_tag_abort_request and the functions of eip_slc_pccc.c).  *)

VtableAbort(t) ==
    IF t.vtable = "pccc" THEN AbTagAbortRequest(t) ELSE OmronTagAbort(t)

VtableRead(t) ==
    IF t.vtable = "pccc" THEN PcccTagReadStart(t) ELSE TagReadStart(t)

VtableStatus(t) ==
    IF t.vtable = "pccc" THEN PcccTagStatus(t) ELSE OmronTagStatus(t)

VtableTickler(t) ==
    IF t.vtable = "pccc" THEN PcccTagTickler(t) ELSE TagTickler(t)

VtableWrite(t) ==
    IF t.vtable = "pccc" THEN PcccTagWriteStart(t) ELSE TagWriteStart(t)

-----------------------------------------------------------------------------
(* Operators for the generic layer's helpers.                              *)

\* plc_tag_generic_handle_event_callbacks, inside the api_mutex: with a
\* callback registered, every pending event is delivered (in EventOrder) and
\* cleared; with none, the events stay pending.
HandleEventCallbacks(t) ==
    IF callback THEN [t EXCEPT !.event = [e \in Event |-> FALSE]] ELSE t

\* The critical block of plc_tag_abort_impl.  abort_requested was set
\* before the lock was taken and is left set.
AbortImplLocked(t) ==
    LET t1 == IF t.abort_requested THEN VtableAbort(t) ELSE t
    IN  Res(RaiseEvent([t1 EXCEPT !.read_cache_fresh = FALSE,
                          !.read_in_flight = FALSE, !.read_complete = FALSE,
                          !.write_in_flight = FALSE, !.write_complete = FALSE],
                       "ABORTED"),
            IF t.abort_requested THEN "ABORT" ELSE "NOT_IMPLEMENTED")

\* plc_tag_abort_impl called with the api_mutex already held.
AbortImplNested(t) ==
    LET a == AbortImplLocked([t EXCEPT !.abort_requested = TRUE])
    IN  Res(HandleEventCallbacks(a.tag), a.rc)

\* plc_tag_status_impl
StatusImpl(t) ==
    LET k == VtableTickler(t).tag
        s == VtableStatus(k)
    IN  Res(k, IF s = "OK" /\ (k.read_in_flight \/ k.write_in_flight)
               THEN "PENDING" ELSE s)

\* The generic layer's reaction to a finished protocol request, in
\* tag_tickler_func: clear the in-flight flag, raise the completion and
\* signal the tag's condition variable.
NoteCompletions(t) ==
    LET t1 == IF t.read_complete
              THEN RaiseEvent([t EXCEPT !.read_complete = FALSE,
                                        !.read_in_flight = FALSE],
                              "READ_COMPLETED")
              ELSE t
    IN  IF t1.write_complete
        THEN RaiseEvent([t1 EXCEPT !.write_complete = FALSE,
                          !.write_in_flight = FALSE,
                          !.auto_sync_next_write = FALSE], "WRITE_COMPLETED")
        ELSE t1

(***************************************************************************)
(* plc_tag_generic_tickler.  writeDue and readDue say whether              *)
(* auto_sync_next_write and auto_sync_next_read have passed.               *)
(***************************************************************************)
GenericAbort(t) ==
    RaiseEvent([VtableAbort(t) EXCEPT !.read_complete = FALSE,
                  !.read_in_flight = FALSE, !.write_complete = FALSE,
                  !.write_in_flight = FALSE, !.abort_requested = FALSE],
               "ABORTED")

AutoSyncWrite(t, writeDue) ==
    LET t1 == IF t.read_in_flight
              THEN RaiseEvent([VtableAbort(t) EXCEPT !.read_complete = FALSE,
                                 !.read_in_flight = FALSE], "ABORTED")
              ELSE t
        w  == VtableWrite([t1 EXCEPT !.tag_is_dirty = FALSE,
                               !.write_in_flight = TRUE,
                               !.auto_sync_next_write = FALSE])
    IN  IF ~(auto_sync_write /\ t.tag_is_dirty) THEN t
        ELSE IF ~t1.auto_sync_next_write
        THEN [t1 EXCEPT !.auto_sync_next_write = TRUE]
        ELSE IF ~t1.write_in_flight /\ writeDue
        THEN RaiseEvent([w.tag EXCEPT !.status = w.rc], "WRITE_STARTED")
        ELSE t1

AutoSyncRead(t, readDue) ==
    LET r == VtableRead([t EXCEPT !.read_in_flight = TRUE])
    IN  IF AutoRead /\ readDue /\ ~t.read_in_flight /\ ~t.tag_is_dirty
           /\ ~t.write_in_flight
        THEN RaiseEvent([r.tag EXCEPT !.status = r.rc], "READ_STARTED")
        ELSE t

GenericTickler(t, readDue, writeDue) ==
    IF t.abort_requested THEN GenericAbort(t)
    ELSE AutoSyncRead(AutoSyncWrite(t, writeDue), readDue)

-----------------------------------------------------------------------------
(* The tickler thread: tag_tickler_func's pass over this tag.              *)

\* With the api_mutex try-locked: the generic tickler, the vtable tickler,
\* and the completions.
TickTag ==
    /\ tpc = "tick" /\ registered
    /\ \E readDue, writeDue \in BOOLEAN :
         LET t1 == VtableTickler(GenericTickler(tag, readDue, writeDue)).tag
         IN  /\ tag' = NoteCompletions(t1)
             /\ cond' = (cond \/ t1.read_complete \/ t1.write_complete)
    /\ tpc' = "callbacks"
    /\ UNCHANGED <<callback, auto_sync_write, registered, plc, pc, rc, expired>>

\* After the unlock: plc_tag_generic_handle_event_callbacks.
TickCallbacks ==
    /\ tpc = "callbacks"
    /\ tag' = HandleEventCallbacks(tag)
    /\ tpc' = "tick"
    /\ UNCHANGED <<callback, auto_sync_write, registered, cond, plc, pc, rc, expired>>

-----------------------------------------------------------------------------
(* API threads.  Goto moves thread t to the next step with local rc code.  *)

Goto(t, next, code) ==
    /\ pc' = [pc EXCEPT ![t] = next]
    /\ rc' = [rc EXCEPT ![t] = code]
    /\ expired' = [expired EXCEPT ![t] = (next = pc[t]) /\ expired[t]]

(***************************************************************************)
(* plc_tag_read, its critical block: READ_STARTED is raised and delivered  *)
(* first; a fresh cache answers OK; an operation in flight or a dirty tag  *)
(* answers BUSY; otherwise the read is started, and if the vtable refuses  *)
(* it the tag is aborted.  A call with a timeout goes on to wait.          *)
(***************************************************************************)
PlcTagRead(t) ==
    /\ pc[t] = "idle" /\ registered
    /\ \E blocking \in BOOLEAN :
         LET t0 == HandleEventCallbacks(RaiseEvent(tag, "READ_STARTED"))
             r  == VtableRead([t0 EXCEPT !.read_in_flight = TRUE,
                                           !.status = "PENDING"])
             a  == AbortImplNested(r.tag)
         IN  IF t0.read_cache_fresh
             THEN tag' = t0 /\ cond' = cond /\ Goto(t, "read_final", "OK")
             ELSE IF t0.read_in_flight \/ t0.write_in_flight \/ t0.tag_is_dirty
             THEN tag' = t0 /\ cond' = cond /\ Goto(t, "read_final", "BUSY")
             ELSE /\ cond' = FALSE
                  /\ CASE r.rc = "PENDING" ->
                            tag' = r.tag /\ Goto(t, IF blocking THEN "read_wait"
                                                    ELSE "read_final", "PENDING")
                       [] r.rc = "OK" ->
                            tag' = [r.tag EXCEPT !.read_in_flight = FALSE]
                            /\ Goto(t, "read_final", "OK")
                       [] OTHER ->
                            tag' = [a.tag EXCEPT !.read_in_flight = FALSE]
                            /\ Goto(t, "read_final", a.rc)
    /\ UNCHANGED <<callback, auto_sync_write, registered, plc, tpc>>

\* Mutant: a wait loop whose cond_wait has no deadline.
WaitStepNoTimeout(t, wait, abortCs, done) ==
    /\ pc[t] = wait
    /\ cond
    /\ cond' = FALSE
    /\ LET s == StatusImpl(tag) IN
       IF s.rc \in Errors
       THEN tag' = [s.tag EXCEPT !.abort_requested = TRUE]
            /\ Goto(t, abortCs, s.rc)
       ELSE /\ tag' = s.tag
            /\ Goto(t, IF s.rc = "PENDING" /\ ~expired[t] THEN wait ELSE done, s.rc)
    /\ UNCHANGED <<callback, auto_sync_write, registered, plc, tpc>>

(***************************************************************************)
(* One pass of the wait loop of plc_tag_read / plc_tag_write: cond_wait    *)
(* either returns because the condition was signalled, and the status is  *)
(* taken with plc_tag_status_impl, or times out.  A timeout or an error    *)
(* status goes on to plc_tag_abort_impl, whose first store               *)
(* (abort_requested) is part of this step.  A PENDING status waits again  *)
(* while time is left.                                                     *)
(***************************************************************************)
WaitStep(t, wait, abortCs, done) ==
    /\ pc[t] = wait
    /\ \/ /\ cond
          /\ cond' = FALSE
          /\ LET s == StatusImpl(tag) IN
             IF s.rc \in Errors
             THEN tag' = [s.tag EXCEPT !.abort_requested = TRUE]
                  /\ Goto(t, abortCs, s.rc)
             ELSE /\ tag' = s.tag
                  /\ Goto(t, IF s.rc = "PENDING" /\ ~expired[t] THEN wait ELSE done,
                          s.rc)
       \/ /\ ~cond /\ expired[t]
          /\ cond' = cond
          /\ tag' = [tag EXCEPT !.abort_requested = TRUE]
          /\ Goto(t, abortCs, "TIMEOUT")
    /\ UNCHANGED <<callback, auto_sync_write, registered, plc, tpc>>

\* The critical block of plc_tag_abort_impl, called unlocked from `from'.
AbortImplCs(t, from, to) ==
    /\ pc[t] = from
    /\ LET a == AbortImplLocked(tag) IN
         /\ tag' = a.tag
         /\ Goto(t, to, IF from = "abort_cs" THEN a.rc ELSE rc[t])
    /\ UNCHANGED <<callback, auto_sync_write, registered, cond, plc, tpc>>

\* A plc_tag_generic_handle_event_callbacks call made on its own, from
\* `from'.
Callbacks(t, from, to) ==
    /\ pc[t] = from
    /\ tag' = HandleEventCallbacks(tag)
    /\ Goto(t, to, rc[t])
    /\ UNCHANGED <<callback, auto_sync_write, registered, cond, plc, tpc>>

\* plc_tag_read after its wait loop: the read is no longer in flight and
\* READ_COMPLETED is raised with the loop's rc.
ReadDone(t) ==
    /\ pc[t] = "read_done_cs"
    /\ tag' = RaiseEvent([tag EXCEPT !.read_in_flight = FALSE,
                                     !.read_complete = FALSE], "READ_COMPLETED")
    /\ Goto(t, "read_final", rc[t])
    /\ UNCHANGED <<callback, auto_sync_write, registered, cond, plc, tpc>>

\* Mutant: plc_tag_read renewing the read cache whatever rc it returns.
ReadFinalAnyRc(t) ==
    /\ pc[t] = "read_final"
    /\ tag' = HandleEventCallbacks([tag EXCEPT !.read_cache_fresh = ReadCache])
    /\ Goto(t, "idle", rc[t])
    /\ UNCHANGED <<callback, auto_sync_write, registered, cond, plc, tpc>>

\* The end of plc_tag_read: an OK read renews the read cache (unlocked),
\* then pending events are delivered.
ReadFinal(t) ==
    /\ pc[t] = "read_final"
    /\ tag' = HandleEventCallbacks(
                IF rc[t] = "OK" THEN [tag EXCEPT !.read_cache_fresh = ReadCache]
                ELSE tag)
    /\ Goto(t, "idle", rc[t])
    /\ UNCHANGED <<callback, auto_sync_write, registered, cond, plc, tpc>>

\* Mutant: plc_tag_write refusing BUSY only while a write is in flight.
PlcTagWriteIgnoresRead(t) ==
    /\ pc[t] = "idle" /\ registered
    /\ \E blocking \in BOOLEAN :
         LET t0 == HandleEventCallbacks(
                     RaiseEvent([tag EXCEPT !.write_in_flight = TRUE,
                                            !.status = "OK"], "WRITE_STARTED"))
             w  == VtableWrite(t0)
         IN  IF tag.write_in_flight
             THEN tag' = tag /\ cond' = cond
                  /\ Goto(t, "write_done_cs", "BUSY")
             ELSE /\ cond' = FALSE
                  /\ CASE w.rc = "PENDING" ->
                            tag' = w.tag /\ Goto(t, IF blocking THEN "write_wait"
                                                    ELSE "write_final", "PENDING")
                       [] w.rc = "OK" ->
                            tag' = [w.tag EXCEPT !.write_in_flight = FALSE]
                            /\ Goto(t, "write_done_cs", "OK")
                       [] OTHER ->
                            tag' = [VtableAbort(w.tag) EXCEPT
                                      !.write_in_flight = FALSE]
                            /\ Goto(t, "write_done_cs", w.rc)
    /\ UNCHANGED <<callback, auto_sync_write, registered, plc, tpc>>

(***************************************************************************)
(* plc_tag_write, its critical block: BUSY while a read or write is in    *)
(* flight; otherwise WRITE_STARTED is raised and delivered (so the         *)
(* callback can fill the buffer) and the write is started; a write the    *)
(* vtable refuses is aborted with the vtable abort.                        *)
(***************************************************************************)
PlcTagWrite(t) ==
    /\ pc[t] = "idle" /\ registered
    /\ \E blocking \in BOOLEAN :
         LET t0 == HandleEventCallbacks(
                     RaiseEvent([tag EXCEPT !.write_in_flight = TRUE,
                                            !.status = "OK"], "WRITE_STARTED"))
             w  == VtableWrite(t0)
         IN  IF tag.read_in_flight \/ tag.write_in_flight
             THEN tag' = tag /\ cond' = cond
                  /\ Goto(t, "write_done_cs", "BUSY")
             ELSE /\ cond' = FALSE
                  /\ CASE w.rc = "PENDING" ->
                            tag' = w.tag /\ Goto(t, IF blocking THEN "write_wait"
                                                    ELSE "write_final", "PENDING")
                       [] w.rc = "OK" ->
                            tag' = [w.tag EXCEPT !.write_in_flight = FALSE]
                            /\ Goto(t, "write_done_cs", "OK")
                       [] OTHER ->
                            tag' = [VtableAbort(w.tag) EXCEPT
                                      !.write_in_flight = FALSE]
                            /\ Goto(t, "write_done_cs", w.rc)
    /\ UNCHANGED <<callback, auto_sync_write, registered, plc, tpc>>

\* plc_tag_write after its wait loop: the write is no longer in flight.
WriteEnd(t) ==
    /\ pc[t] = "write_end_cs"
    /\ tag' = [tag EXCEPT !.write_in_flight = FALSE, !.write_complete = FALSE]
    /\ Goto(t, "write_done_cs", rc[t])
    /\ UNCHANGED <<callback, auto_sync_write, registered, cond, plc, tpc>>

\* plc_tag_write, when is_done: WRITE_COMPLETED is raised with rc (also
\* for a write refused as BUSY).
WriteDone(t) ==
    /\ pc[t] = "write_done_cs"
    /\ tag' = RaiseEvent(tag, "WRITE_COMPLETED")
    /\ Goto(t, "write_final", rc[t])
    /\ UNCHANGED <<callback, auto_sync_write, registered, cond, plc, tpc>>

\* plc_tag_abort: plc_tag_abort_impl's unlocked store of abort_requested.
PlcTagAbort(t) ==
    /\ pc[t] = "idle" /\ registered
    /\ tag' = [tag EXCEPT !.abort_requested = TRUE]
    /\ Goto(t, "abort_cs", rc[t])
    /\ UNCHANGED <<callback, auto_sync_write, registered, cond, plc, tpc>>

\* plc_tag_status
PlcTagStatus(t) ==
    /\ pc[t] = "idle" /\ registered
    /\ LET s == StatusImpl(tag) IN tag' = s.tag /\ Goto(t, "idle", s.rc)
    /\ UNCHANGED <<callback, auto_sync_write, registered, cond, plc, tpc>>

\* plc_tag_register_callback(_ex): under the api_mutex, DUPLICATE if the tag
\* already has a callback (which is kept), else the callback is stored.
PlcTagRegisterCallback(t) ==
    /\ pc[t] = "idle" /\ registered
    /\ callback' = TRUE
    /\ Goto(t, "idle", IF callback THEN "DUPLICATE" ELSE "OK")
    /\ UNCHANGED <<tag, auto_sync_write, registered, cond, plc, tpc>>

\* plc_tag_unregister_callback: under the api_mutex, the callback is cleared,
\* or NOT_FOUND when there is none.  Pending events stay pending.
PlcTagUnregisterCallback(t) ==
    /\ pc[t] = "idle" /\ registered
    /\ callback' = FALSE
    /\ Goto(t, "idle", IF callback THEN "OK" ELSE "NOT_FOUND")
    /\ UNCHANGED <<tag, auto_sync_write, registered, cond, plc, tpc>>

(***************************************************************************)
(* plc_tag_set_<type> (plc_tag_set_uint64 and its siblings): with no       *)
(* buffer yet, NO_DATA; a value that does not fit at the offset,           *)
(* OUT_OF_BOUNDS; otherwise the tag is marked dirty when auto-sync writes  *)
(* are on and the buffer takes the value.  The error is stored in the     *)
(* tag's status, where plc_tag_status sees it.  Tags are not bit tags.    *)
(***************************************************************************)
PlcTagSetData(t) ==
    /\ pc[t] = "idle" /\ registered
    /\ \/ /\ tag.data = NoData
          /\ tag' = [tag EXCEPT !.status = "NO_DATA"]
          /\ Goto(t, "idle", "NO_DATA")
       \/ /\ tag.data # NoData
          /\ tag' = [tag EXCEPT !.status = "OUT_OF_BOUNDS"]
          /\ Goto(t, "idle", "OUT_OF_BOUNDS")
       \/ /\ tag.data # NoData
          /\ \E v \in Vals :
               tag' = [tag EXCEPT !.data = v, !.status = "OK",
                           !.tag_is_dirty = tag.tag_is_dirty \/ auto_sync_write]
          /\ Goto(t, "idle", "OK")
    /\ UNCHANGED <<callback, auto_sync_write, registered, cond, plc, tpc>>

\* plc_tag_set_int_attribute(id, "auto_sync_write_ms", ms)
SetAutoSyncWrite(t) ==
    /\ pc[t] = "idle" /\ registered
    /\ auto_sync_write' \in BOOLEAN
    /\ UNCHANGED <<callback, tag, registered, cond, plc, pc, rc, tpc, expired>>

\* Any API call on a tag that is no longer in the hashtable: lookup_tag
\* fails and the call returns NOT_FOUND.
PlcTagNotFound(t) ==
    /\ pc[t] = "idle" /\ ~registered
    /\ Goto(t, "idle", "NOT_FOUND")
    /\ UNCHANGED <<callback, tag, auto_sync_write, registered, cond, plc, tpc>>

-----------------------------------------------------------------------------
(* plc_tag_create_ex with a timeout: the wait loop after the tag is in the *)
(* hashtable.  The loop condition is `time_ms() > end_time', so a PENDING  *)
(* status ends the loop while time is left, and waits again only once the *)
(* deadline has passed, when cond_wait (with nothing left to wait) times  *)
(* out unless the tag was signalled again.  A timeout or an error aborts  *)
(* the tag with the vtable abort and removes it from the hashtable.        *)

CreateWaitStep(t) ==
    /\ pc[t] = "create_wait"
    /\ \/ /\ cond
          /\ cond' = FALSE
          /\ LET s == VtableStatus(tag) IN
             IF s \in Errors
             THEN tag' = VtableAbort(tag) /\ registered' = FALSE
                  /\ Goto(t, "idle", s)
             ELSE tag' = tag /\ registered' = registered
                  /\ Goto(t, IF s = "PENDING" /\ expired[t] THEN "create_wait"
                             ELSE "create_fin", s)
       \/ /\ ~cond /\ expired[t]
          /\ cond' = cond
          /\ tag' = VtableAbort(tag) /\ registered' = FALSE
          /\ Goto(t, "idle", "TIMEOUT")
    /\ UNCHANGED <<callback, auto_sync_write, plc, tpc>>

\* The unlocked clearing of the in-flight flags, CREATED, and the dispatch.
CreateFinish(t) ==
    /\ pc[t] = "create_fin"
    /\ tag' = HandleEventCallbacks(
                RaiseEvent([tag EXCEPT !.read_in_flight = FALSE,
                                       !.write_in_flight = FALSE], "CREATED"))
    /\ Goto(t, "idle", rc[t])
    /\ UNCHANGED <<callback, auto_sync_write, registered, cond, plc, tpc>>

-----------------------------------------------------------------------------
(* The environment.                                                         *)

(***************************************************************************)
(* The connection answers the outstanding request (spec_modelled: the     *)
(* session thread).  A read of a tag larger than one reply gets CIP status *)
(* 0x06 (partial); a successful write stores the payload in the PLC (any  *)
(* value, for a buffer that was never filled).  The session signals the   *)
(* tag's condition variable.                                               *)
(***************************************************************************)
ConnRespond ==
    /\ tag.req # NoReq /\ tag.req.resp = "none"
    /\ \E resp \in {IF Size > 1 /\ tag.req.kind = "read" THEN "frag" ELSE "ok"}
                   \cup Faults :
         /\ tag' = [tag EXCEPT !.req.resp = resp, !.req.rdata = plc]
         /\ IF tag.req.kind = "write" /\ resp = "ok"
            THEN IF tag.req.payload \in Vals THEN plc' = tag.req.payload
                 ELSE plc' \in Vals
            ELSE plc' = plc
    /\ cond' = TRUE
    /\ UNCHANGED <<callback, auto_sync_write, registered, pc, rc, tpc, expired>>

\* The PLC program changes the tag's value.
PlcUpdate ==
    /\ \E v \in Vals \ {plc} : plc' = v
    /\ UNCHANGED <<callback, tag, auto_sync_write, registered, cond, pc, rc,
                   tpc, expired>>

\* Time passes beyond read_cache_expire.
CacheExpire ==
    /\ tag.read_cache_fresh
    /\ tag' = [tag EXCEPT !.read_cache_fresh = FALSE]
    /\ UNCHANGED <<callback, auto_sync_write, registered, cond, plc, pc, rc,
                   tpc, expired>>

\* Time passes the deadline of a thread waiting in cond_wait.
Deadline(t) ==
    /\ Timeouts
    /\ pc[t] \in {"read_wait", "write_wait", "create_wait"} /\ ~expired[t]
    /\ expired' = [expired EXCEPT ![t] = TRUE]
    /\ UNCHANGED <<callback, tag, auto_sync_write, registered, cond, plc, pc, rc, tpc>>

-----------------------------------------------------------------------------
\* The continuation steps of a call already made.
ThreadStep(t) ==
    \/ WaitStep(t, "read_wait", "read_abort_cs", "read_done_cs")
    \/ AbortImplCs(t, "read_abort_cs", "read_abort_cb")
    \/ Callbacks(t, "read_abort_cb", "read_done_cs")
    \/ ReadDone(t)
    \/ ReadFinal(t)
    \/ WaitStep(t, "write_wait", "write_abort_cs", "write_end_cs")
    \/ AbortImplCs(t, "write_abort_cs", "write_abort_cb")
    \/ Callbacks(t, "write_abort_cb", "write_end_cs")
    \/ WriteEnd(t)
    \/ WriteDone(t)
    \/ Callbacks(t, "write_final", "idle")
    \/ AbortImplCs(t, "abort_cs", "abort_cb")
    \/ Callbacks(t, "abort_cb", "idle")
    \/ CreateWaitStep(t)
    \/ CreateFinish(t)

\* A new API call.
ApiCall(t) ==
    \/ "read" \in Calls[t] /\ PlcTagRead(t)
    \/ "write" \in Calls[t] /\ PlcTagWrite(t)
    \/ "abort" \in Calls[t] /\ PlcTagAbort(t)
    \/ "status" \in Calls[t] /\ PlcTagStatus(t)
    \/ "set" \in Calls[t] /\ PlcTagSetData(t)
    \/ "attr" \in Calls[t] /\ SetAutoSyncWrite(t)
    \/ "register" \in Calls[t] /\ PlcTagRegisterCallback(t)
    \/ "unregister" \in Calls[t] /\ PlcTagUnregisterCallback(t)
    \/ PlcTagNotFound(t)

Next ==
    \/ \E t \in Threads : ApiCall(t) \/ ThreadStep(t) \/ Deadline(t)
    \/ TickTag \/ TickCallbacks
    \/ ConnRespond \/ PlcUpdate \/ CacheExpire

(***************************************************************************)
(* Fairness.  The tickler wakes at least every TAG_TICKLER_TIMEOUT_MS and  *)
(* try-locks a mutex no API step holds for long; the connection answers    *)
(* every request (the session times out and fails a request it cannot     *)
(* send); a thread inside a call keeps running, and every wait ends at its *)
(* deadline.  Nothing obliges a thread to make a new call.                 *)
(***************************************************************************)
Fairness ==
    /\ WF_vars(TickTag) /\ WF_vars(TickCallbacks) /\ WF_vars(ConnRespond)
    /\ \A t \in Threads : WF_vars(ThreadStep(t)) /\ WF_vars(Deadline(t))

Spec == Init /\ [][Next]_vars /\ Fairness

-----------------------------------------------------------------------------
(* Properties.                                                               *)

(***************************************************************************)
(* The generic layer never has a read and a write in flight at once:      *)
(* plc_tag_read and plc_tag_write refuse BUSY, the tickler's auto-sync     *)
(* write aborts a read before it starts, and the auto-sync read waits.    *)
(***************************************************************************)
InFlightExclusive == ~(tag.read_in_flight /\ tag.write_in_flight)

(***************************************************************************)
(* The Omron tag holds a request exactly while a read or a write is in     *)
(* progress, and never both: every path through tag_read_start,           *)
(* tag_write_start, the pre-write read, the check_*_status restarts and    *)
(* the aborts keeps tag->req and the in-progress flags in step.            *)
(***************************************************************************)
ReqMatchesProgress ==
    /\ (tag.req # NoReq) <=> (tag.read_in_progress \/ tag.write_in_progress)
    /\ ~(tag.read_in_progress /\ tag.write_in_progress)

(***************************************************************************)
(* With no read or write in progress the Omron tag's offset is back at 0,  *)
(* so the next request starts at the beginning of the buffer.              *)
(***************************************************************************)
IdleOffsetZero ==
    ~(tag.read_in_progress \/ tag.write_in_progress) => tag.offset = 0

(***************************************************************************)
(* Every read the generic layer has in flight (plc_tag_read, the auto-sync *)
(* read, the initial read of plc_tag_create_ex) eventually stops being in  *)
(* flight, so plc_tag_read stops answering BUSY, unless the tag has left   *)
(* the hashtable (a failed create, or plc_tag_destroy).                    *)
(***************************************************************************)
ReadCompletes ==
    (registered /\ tag.read_in_flight) ~> (~tag.read_in_flight \/ ~registered)

(***************************************************************************)
(* A plc_tag_create_ex with a timeout returns a created tag: when it      *)
(* clears read_in_flight and raises CREATED after its wait loop, the      *)
(* protocol has no read in progress.  Otherwise the generic layer forgets *)
(* the initial read while it still runs: the next plc_tag_read passes     *)
(* read_in_flight, tag_read_start answers BUSY and plc_tag_read aborts    *)
(* the initial read, which leaves first_read set.                         *)
(***************************************************************************)
CreateReturnsCreated ==
    \A t \in Threads : pc[t] = "create_fin" => ~tag.read_in_progress

(***************************************************************************)
(* Every API call returns: no step of plc_tag_read, plc_tag_write,         *)
(* plc_tag_abort or plc_tag_create_ex waits forever (cond_wait has a       *)
(* deadline, and the recursive api_mutex never blocks the caller).         *)
(***************************************************************************)
CallsReturn == \A t \in Threads : pc[t] # "idle" ~> pc[t] = "idle"

(***************************************************************************)
(* Every write the generic layer has in flight (plc_tag_write, the auto-   *)
(* sync write) eventually stops being in flight, unless the tag has left   *)
(* the hashtable.                                                          *)
(***************************************************************************)
WriteCompletes ==
    (registered /\ tag.write_in_flight) ~> (~tag.write_in_flight \/ ~registered)

(***************************************************************************)
(* Every request on the connection belongs to an operation the generic    *)
(* layer has in flight: a write request, or a pre-write read, to a write;  *)
(* any other read request to a read.  Otherwise plc_tag_read and           *)
(* plc_tag_write pass their in-flight tests while the protocol is busy,    *)
(* and the BUSY answer of tag_read_start or tag_write_start makes them     *)
(* abort the request another thread or the tickler started; a write       *)
(* request nobody tracks sends the buffer behind the application's back.  *)
(***************************************************************************)
RequestTracked ==
    tag.req # NoReq =>
        IF tag.req.kind = "write" \/ tag.pre_write_read
        THEN tag.write_in_flight
        ELSE tag.read_in_flight

(***************************************************************************)
(* While the generic layer has a read in flight the Omron tag sends no    *)
(* write: the reply to a plc_tag_read is copied into the buffer and never *)
(* turned into a write (check_read_status_connected starts the write only *)
(* for a pre-write read that tag_write_start began).                      *)
(***************************************************************************)
ReadNeverWrites ==
    (tag.req # NoReq /\ tag.req.kind = "write") => ~tag.read_in_flight

(***************************************************************************)
(* The read cache only serves a filled buffer: while read_cache_expire is  *)
(* in the future, plc_tag_read answers OK without I/O, so the buffer must  *)
(* hold data a read brought back (or the application stored), never the    *)
(* NULL or unfilled buffer of a tag whose read failed or was refused.      *)
(***************************************************************************)
CacheServesData == tag.read_cache_fresh => tag.data \in Vals

(***************************************************************************)
(* A plc_tag_read that returns OK has filled the tag's buffer: after its   *)
(* wait loop plc_tag_read returns the status plc_tag_status_impl found, so *)
(* a read whose reply was an error must not come back OK with the NULL (or *)
(* unfilled) buffer the failed read left.                                  *)
(***************************************************************************)
ReadOkHasData ==
    \A t \in Threads : (pc[t] = "read_final" /\ rc[t] = "OK") => tag.data \in Vals


-----------------------------------------------------------------------------
(* The refinement mapping onto TagAbstract.  The operation is the generic  *)
(* layer's in-flight flag; the value is what the outstanding request       *)
(* carries: the payload of a write, or what a successful reply to an      *)
(* ordinary read brought back (a pre-write read's reply is never copied).  *)

AbsBuffer(b) == IF b \in Vals THEN b ELSE NoData

AbsOp ==
    IF tag.write_in_flight THEN "writing"
    ELSE IF tag.read_in_flight THEN "reading" ELSE "idle"

AbsVal ==
    IF tag.req = NoReq THEN NoData
    ELSE IF tag.req.kind = "write" THEN AbsBuffer(tag.req.payload)
    ELSE IF tag.req.resp \in {"ok", "frag"} /\ ~tag.pre_write_read
    THEN tag.req.rdata
    ELSE NoData

Abs == INSTANCE TagAbstract WITH op <- AbsOp, data <- AbsBuffer(tag.data),
                                 plc <- plc, val <- AbsVal

(***************************************************************************)
(* The tag behaves as spec.md 4.4 says (TagAbstract): one operation at a  *)
(* time, and a buffer that changes only by plc_tag_set_<type> or by a read *)
(* copying in what the PLC answered to that read.  It is about the        *)
(* interplay of plc_tag_read/plc_tag_write and their BUSY tests, the       *)
(* tickler's auto-sync write preempting a read, the pre-write read that    *)
(* must not overwrite the application's buffer, and replies copied by the *)
(* tickler or by a waiting thread's plc_tag_status_impl.                   *)
(***************************************************************************)
TagRefines == Abs!Spec

=============================================================================
