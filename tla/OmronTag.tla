------------------------------ MODULE OmronTag ------------------------------
(***************************************************************************)
(* The Omron standard tag vtable (protocols/omron/omron_standard_tag.c and *)
(* omron_common.c) as operators on a tag record.  Omron tags always use    *)
(* connected messaging (omron_tag_create sets use_connected_msg = 1), so   *)
(* the *_unconnected variants are never called and are not modelled.  The *)
(* PLC type is always NJ/NX (check_cpu rejects any other), so a write that *)
(* does not fit one packet is refused with TOO_LARGE.                      *)
(***************************************************************************)
EXTENDS Tag

\* Mutant: omron_tag_abort_request_only leaving read_in_progress set.
AbortRequestOnlyKeepsRead(t) ==
    [t EXCEPT !.req = NoReq, !.write_in_progress = FALSE]

\* omron_tag_abort_request_only: drop the request, clear both in-progress
\* flags.
OmronTagAbortRequestOnly(t) ==
    [t EXCEPT !.req = NoReq, !.read_in_progress = FALSE,
              !.write_in_progress = FALSE]

\* Mutant: omron_tag_abort_request without the rewind of the offset.
AbortRequestKeepsOffset(t) == OmronTagAbortRequestOnly(t)

\* omron_tag_abort_request: also rewind the offset.
OmronTagAbortRequest(t) == OmronTagAbortRequestOnly([t EXCEPT !.offset = 0])

\* omron_tag_abort: abort the request and set status to ABORT.
OmronTagAbort(t) == [OmronTagAbortRequest(t) EXCEPT !.status = "ABORT"]

\* omron_tag_status.  tag->conn is set for every tag that was created.
OmronTagStatus(t) ==
    IF t.read_in_progress \/ t.write_in_progress THEN "PENDING" ELSE t.status

\* build_read_request_connected: a read request is queued on the
\* connection.  The request carries no byte offset (the code ignores it).
BuildReadRequest(t) ==
    [t EXCEPT !.req = [kind |-> "read", payload |-> NoData,
                       resp |-> "none", rdata |-> NoData]]

\* build_write_request_connected: a request too large for one packet is
\* refused on an NJ/NX PLC; without type information from a read the write
\* is unsupported; otherwise the whole buffer is sent and offset advances.
BuildWriteRequest(t) ==
    IF Size > 1 THEN Res(t, "TOO_LARGE")
    ELSE IF ~t.type_known THEN Res(t, "UNSUPPORTED")
    ELSE Res([t EXCEPT !.offset = t.offset + Size,
                       !.req = [kind |-> "write", payload |-> t.data,
                                resp |-> "none", rdata |-> NoData]], "OK")

\* tag_read_start
TagReadStart(t) ==
    IF t.read_in_progress \/ t.write_in_progress THEN Res(t, "BUSY")
    ELSE Res(BuildReadRequest([t EXCEPT !.read_in_progress = TRUE]), "PENDING")

\* tag_write_start: before the first read has completed, a read is done
\* first to learn the type (pre_write_read), and the write is started again
\* when it completes.
TagWriteStart(t) ==
    IF t.read_in_progress \/ t.write_in_progress THEN Res(t, "BUSY")
    ELSE IF t.first_read
         THEN TagReadStart([t EXCEPT !.pre_write_read = TRUE])
    ELSE LET b == BuildWriteRequest([t EXCEPT !.write_in_progress = TRUE])
         IN  IF b.rc # "OK"
             THEN Res([b.tag EXCEPT !.write_in_progress = FALSE], b.rc)
             ELSE Res(b.tag, "PENDING")

\* The status omron_check_request_status derives from a failed request:
\* the session's req->status, or a bad EIP encapsulation.
ReqError(resp) ==
    CASE resp = "sess_err" -> "BAD_CONNECTION"
      [] resp = "eip_err"  -> "REMOTE_ERR"
      [] OTHER             -> "OK"

\* omron_check_request_status.  Note that an error here aborts the request
\* and clears read_in_progress/write_in_progress without reporting a
\* completion.
OmronCheckRequestStatus(t) ==
    IF t.abort_requested
    THEN Res([OmronTagAbort(t) EXCEPT !.abort_requested = FALSE], "ABORT")
    ELSE IF t.req = NoReq
    THEN Res(IF t.read_in_progress \/ t.write_in_progress
             THEN [t EXCEPT !.read_in_progress = FALSE, !.status = "OK",
                            !.write_in_progress = FALSE, !.offset = 0]
             ELSE [t EXCEPT !.status = "OK"], "OK")
    ELSE IF t.req.resp = "none"
    THEN Res([t EXCEPT !.status = "PENDING"], "PENDING")
    ELSE IF ReqError(t.req.resp) # "OK"
    THEN Res([OmronTagAbort(t) EXCEPT !.status = ReqError(t.req.resp)],
             ReqError(t.req.resp))
    ELSE Res([t EXCEPT !.status = "OK"], "OK")

\* The final clean-up of check_read_status_connected.
AbortOnError(r) ==
    IF r.rc \in Errors THEN Res(OmronTagAbort(r.tag), r.rc) ELSE r

(***************************************************************************)
(* check_read_status_connected.  The data is copied unless this is a pre-  *)
(* write read (the buffer is still allocated); omron_tag_abort then drops the request and rewinds offset   *)
(* to 0 (the FIXME in the code), so a partial reply starts the same read   *)
(* again from the beginning; a completed pre-write read starts the write.  *)
(***************************************************************************)
CheckReadStatus(t) ==
    LET ok      == t.req.resp \in {"ok", "frag"}
        partial == t.req.resp = "frag"
        got     == [t EXCEPT !.type_known = TRUE, !.offset = t.offset + 1,
                        !.data = IF ~t.pre_write_read THEN t.req.rdata
                                 ELSE IF t.data = NoData THEN Uninit
                                 ELSE t.data]
        t1      == OmronTagAbort(IF ok THEN got ELSE t)
        t2      == [t1 EXCEPT !.read_in_progress = FALSE]
    IN  IF ~ok THEN AbortOnError(Res(t1, "REMOTE_ERR"))
        ELSE IF ~t2.pre_write_read /\ partial
        THEN AbortOnError(TagReadStart(t2))
        ELSE IF t2.pre_write_read
        THEN AbortOnError(TagWriteStart([t2 EXCEPT !.offset = 0,
                                                   !.pre_write_read = FALSE]))
        ELSE Res([t2 EXCEPT !.offset = 0], "OK")

\* Mutant: check_write_status_connected restarting the write without
\* comparing the offset with the tag's size.
CheckWriteStatusUnbounded(t) ==
    LET rc == IF t.req.resp \in {"ok", "frag"} THEN "OK" ELSE "REMOTE_ERR"
        t1 == [OmronTagAbortRequestOnly(t) EXCEPT !.write_in_progress = FALSE]
    IN  IF rc = "OK" THEN TagWriteStart(t1) ELSE Res([t1 EXCEPT !.offset = 0], rc)

\* check_write_status_connected
CheckWriteStatus(t) ==
    LET rc == IF t.req.resp \in {"ok", "frag"} THEN "OK" ELSE "REMOTE_ERR"
        t1 == [OmronTagAbortRequestOnly(t) EXCEPT !.write_in_progress = FALSE]
    IN  IF rc = "OK" /\ t1.offset < Size THEN TagWriteStart(t1)
        ELSE Res([t1 EXCEPT !.offset = 0], rc)

(***************************************************************************)
(* tag_tickler (omron_standard_tag.c): poll the request; when a read or    *)
(* write is no longer in progress, set read_complete/write_complete for    *)
(* the generic layer, raising CREATED when the first read ends.  A failed  *)
(* request returns early, before any completion is noted.                 *)
(***************************************************************************)
TagTickler(t) ==
    LET c == OmronCheckRequestStatus(t) IN
    IF c.rc # "OK" THEN c
    ELSE IF c.tag.read_in_progress
    THEN LET r  == CheckReadStatus(c.tag)
             t1 == [r.tag EXCEPT !.status = r.rc]
         IN  IF t1.read_in_progress THEN Res(t1, r.rc)
             ELSE Res([IF t1.first_read THEN RaiseEvent(t1, "CREATED") ELSE t1
                       EXCEPT !.first_read = FALSE, !.read_complete = TRUE],
                      r.rc)
    ELSE IF c.tag.write_in_progress
    THEN LET r  == CheckWriteStatus(c.tag)
             t1 == [r.tag EXCEPT !.status = r.rc]
         IN  Res(IF t1.write_in_progress THEN t1
                 ELSE [t1 EXCEPT !.write_complete = TRUE], r.rc)
    ELSE Res(c.tag, c.tag.status)

=============================================================================
