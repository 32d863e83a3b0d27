------------------------------ MODULE PcccTag ------------------------------
(***************************************************************************)
(* The AB PCCC vtable for PLC-5/SLC/MicroLogix tags                        *)
(* (protocols/ab/eip_slc_pccc.c, slc_vtable) as operators on a tag record. *)
(* A PCCC request goes out unconnected and is never fragmented: a tag      *)
(* larger than one reply (Size > 1) is refused with TOO_LARGE by both      *)
(* tag_read_start and tag_write_start.                                     *)
(*                                                                         *)
(* ab_tag_abort_request and check_request_status live in ab_common.c,     *)
(* which is not in this repository; they are modelled from spec.md §4.4   *)
(* ("Abort": the per-tag cancel drops the request and clears the in-       *)
(* progress flags) and from omron_check_request_status, the repository's  *)
(* copy of the same function for Omron tags.                               *)
(***************************************************************************)
EXTENDS Tag

\* ab_tag_abort_request: drop the request, clear both in-progress flags and
\* the offset.  It is also slc_vtable's abort, so it leaves status alone.
AbTagAbortRequest(t) ==
    [t EXCEPT !.req = NoReq, !.read_in_progress = FALSE,
              !.write_in_progress = FALSE, !.offset = 0]

\* check_request_status, after omron_check_request_status: with no request
\* the in-progress flags are cleared; no reply yet is PENDING; a request the
\* session failed (or a bad encapsulation) is dropped.  The result is also
\* stored in tag->status.
AbCheckRequestStatus(t) ==
    LET rc == CASE t.req = NoReq            -> "OK"
                [] t.req.resp = "none"      -> "PENDING"
                [] t.req.resp = "sess_err"  -> "BAD_CONNECTION"
                [] t.req.resp = "eip_err"   -> "REMOTE_ERR"
                [] OTHER                    -> "OK"
        t1 == IF t.req = NoReq \/ rc \in Errors THEN AbTagAbortRequest(t) ELSE t
    IN  Res([t1 EXCEPT !.status = rc], rc)

\* tag_status.  tag->session is set for every tag that was created.
PcccTagStatus(t) ==
    IF t.read_in_progress \/ t.write_in_progress THEN "PENDING" ELSE t.status

\* The request session_create_request and session_add_request queue.
PcccRequest(kind, payload) ==
    [kind |-> kind, payload |-> payload, resp |-> "none", rdata |-> NoData]

\* Mutant: tag_read_start without the BUSY test.
PcccReadStartNoBusy(t) ==
    IF Size > 1 THEN Res(t, "TOO_LARGE")
    ELSE Res([t EXCEPT !.read_in_progress = TRUE,
                       !.req = PcccRequest("read", NoData)], "PENDING")

\* tag_read_start: BUSY while a read or write is in progress; a tag larger
\* than data_per_packet is TOO_LARGE and the flag is cleared again;
\* otherwise a typed range read is queued.
PcccTagReadStart(t) ==
    IF t.read_in_progress \/ t.write_in_progress THEN Res(t, "BUSY")
    ELSE IF Size > 1 THEN Res(t, "TOO_LARGE")
    ELSE Res([t EXCEPT !.read_in_progress = TRUE,
                       !.req = PcccRequest("read", NoData)], "PENDING")

\* tag_write_start: the same tests, then a typed range write of the whole
\* buffer (with a bit mask first for a bit tag).
PcccTagWriteStart(t) ==
    IF t.read_in_progress \/ t.write_in_progress THEN Res(t, "BUSY")
    ELSE IF Size > 1 THEN Res(t, "TOO_LARGE")
    ELSE Res([t EXCEPT !.write_in_progress = TRUE,
                       !.req = PcccRequest("write", t.data)], "PENDING")

\* The status check_read_status and check_write_status derive from a
\* reply: a CIP general status or a PCCC status other than 0 is REMOTE_ERR.
PcccReplyStatus(t) == IF t.req.resp = "cip_err" THEN "REMOTE_ERR" ELSE "OK"

\* check_read_status: an error-free reply of tag->size bytes is copied into
\* the buffer; the request is dropped whatever the outcome.
PcccCheckReadStatus(t) ==
    LET rc == PcccReplyStatus(t)
        t1 == IF rc = "OK" THEN [t EXCEPT !.data = t.req.rdata] ELSE t
    IN  Res(AbTagAbortRequest(t1), rc)

\* check_write_status: fragments are not supported; the request is dropped.
PcccCheckWriteStatus(t) == Res(AbTagAbortRequest(t), PcccReplyStatus(t))

(***************************************************************************)
(* tag_tickler (eip_slc_pccc.c): poll the request; the reply of a read or  *)
(* write is checked and, once it is no longer in progress, read_complete   *)
(* or write_complete is set for the generic layer.  The end of the first  *)
(* read clears first_read and raises CREATED (with OK, whatever the read   *)
(* returned).  A failed request returns early.                             *)
(***************************************************************************)
PcccTagTickler(t) ==
    LET c == AbCheckRequestStatus(t) IN
    IF c.rc # "OK" THEN c
    ELSE IF c.tag.read_in_progress
    THEN LET r  == PcccCheckReadStatus(c.tag)
             t1 == [r.tag EXCEPT !.status = r.rc]
         IN  Res(IF t1.read_in_progress THEN t1
                 ELSE [IF t1.first_read THEN RaiseEvent(t1, "CREATED") ELSE t1
                       EXCEPT !.first_read = FALSE, !.read_complete = TRUE],
                 r.rc)
    ELSE IF c.tag.write_in_progress
    THEN LET r  == PcccCheckWriteStatus(c.tag)
             t1 == [r.tag EXCEPT !.status = r.rc]
         IN  Res(IF t1.write_in_progress THEN t1
                 ELSE [t1 EXCEPT !.write_complete = TRUE], r.rc)
    ELSE Res(c.tag, c.tag.status)

=============================================================================
