-------------------------------- MODULE Tag --------------------------------
(***************************************************************************)
(* The state shared by the generic tag layer (lib/lib.c) and a protocol    *)
(* tag (protocols/omron, protocols/ab): the fields of struct plc_tag_t,   *)
(* omron_tag_t and ab_tag_t that the control flow depends on, the status   *)
(* codes and events, and the event flags of tag_raise_event (lib/tag.h).   *)
(*                                                                         *)
(* A tag is one record.  Every C function that changes a tag is an         *)
(* operator from a tag record to a tag record (or to [tag, rc] when it     *)
(* returns a status), so that a handler that calls several of them inside  *)
(* one critical block is one action that composes the operators in the    *)
(* order of the calls.                                                     *)
(***************************************************************************)
EXTENDS Naturals

CONSTANTS
    Vals,       \* the values a tag's data buffer or the PLC's copy can hold
    NoData,     \* tag->data == NULL: no read has allocated the buffer
    Uninit,     \* a buffer a read allocated but did not fill
    NoReq,      \* tag->req == NULL: no request is in flight on the connection
    Size,       \* the tag's size, in response-sized chunks
    TrackEvents \* whether the event flags are kept (nothing but the
                \* callbacks reads them, so a run about other state drops them)

ASSUME Size \in 1..2 /\ NoData \notin Vals /\ Uninit \notin Vals /\ TrackEvents \in BOOLEAN

\* The PLCTAG_STATUS_* and PLCTAG_ERR_* codes the tag functions return.
Status == {"OK", "PENDING", "BUSY", "ABORT", "TIMEOUT", "TOO_LARGE",
           "UNSUPPORTED", "REMOTE_ERR", "BAD_CONNECTION", "NOT_IMPLEMENTED",
           "NOT_FOUND", "NO_DATA", "OUT_OF_BOUNDS", "DUPLICATE"}

Errors == Status \ {"OK", "PENDING"}

\* PLCTAG_EVENT_*, listed in the order plc_tag_generic_handle_event_callbacks
\* delivers them.
EventOrder == <<"CREATED", "READ_STARTED", "WRITE_STARTED", "ABORTED",
                "READ_COMPLETED", "WRITE_COMPLETED", "DESTROYED">>

Event == {EventOrder[i] : i \in 1..7}

(***************************************************************************)
(* What the connection has answered to a request: nothing yet, a complete  *)
(* reply, a reply with CIP status 0x06 (more data follows), a CIP error    *)
(* status, a bad EIP encapsulation, or a request the session failed.       *)
(***************************************************************************)
Resp == {"none", "ok", "frag", "cip_err", "eip_err", "sess_err"}

Buffer == Vals \cup {NoData, Uninit}

Request == [kind : {"read", "write"}, payload : Buffer,
            resp : Resp, rdata : Vals \cup {NoData}]

TagRecord ==
    [ \* struct plc_tag_t (generic layer)
      read_in_flight : BOOLEAN, write_in_flight : BOOLEAN,
      read_complete : BOOLEAN, write_complete : BOOLEAN,
      abort_requested : BOOLEAN, tag_is_dirty : BOOLEAN,
      auto_sync_next_write : BOOLEAN,  \* auto_sync_next_write /= 0
      read_cache_fresh : BOOLEAN,      \* read_cache_expire > time_ms()
      status : Status, data : Buffer,
      event : [Event -> BOOLEAN],      \* the pending event flags
      vtable : {"omron", "pccc"},     \* tag->vtable: the Omron or the SLC vtable
      \* struct omron_tag_t / ab_tag_t (protocol layer)
      read_in_progress : BOOLEAN, write_in_progress : BOOLEAN,
      first_read : BOOLEAN, pre_write_read : BOOLEAN,
      offset : 0..Size + 1,            \* tag->offset, in chunks
      type_known : BOOLEAN,            \* encoded_type_info_size /= 0
      req : Request \cup {NoReq} ]

\* tag_raise_event: mark the event pending; the callback dispatcher
\* delivers and clears it.
RaiseEvent(t, e) == IF TrackEvents THEN [t EXCEPT !.event[e] = TRUE] ELSE t

\* A returned status together with the tag it leaves behind.
Res(t, rc) == [tag |-> t, rc |-> rc]

=============================================================================
