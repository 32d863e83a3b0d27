---------------------------- MODULE TagAbstract ----------------------------
(***************************************************************************)
(* What one tag promises its application (spec.md section 4.4): it is     *)
(* IDLE, READING or WRITING, one operation at a time, and its buffer       *)
(* changes in two ways only.  The application stores a value into it (the *)
(* plc_tag_set_<type> accessors), or a read fills it with a value the PLC  *)
(* held while that read was in flight.  A write sends what the buffer      *)
(* holds when its request is built.                                        *)
(*                                                                         *)
(* The PLC's value changes on its own and through writes; the abstract     *)
(* tag does not constrain it.  A buffer that was allocated but never       *)
(* filled holds no value, like a buffer that was never allocated: both are *)
(* NoData here.                                                            *)
(*                                                                         *)
(* LibTag is checked against this module (TagRefines).                     *)
(***************************************************************************)
CONSTANTS
    Vals,     \* the values a buffer or the PLC can hold
    NoData    \* a buffer holding no value

VARIABLES
    op,       \* "idle", "reading" or "writing"
    data,     \* the tag's buffer
    plc,      \* the tag's value in the PLC
    val       \* reading: the value the reply brought; writing: the payload

vars == <<op, data, plc, val>>

Init ==
    /\ op \in {"idle", "reading"}       \* create may start the first read
    /\ data = NoData
    /\ plc \in Vals
    /\ val = NoData

\* A read starts from IDLE.
StartRead ==
    /\ op = "idle"
    /\ op' = "reading" /\ val' = NoData
    /\ UNCHANGED <<data, plc>>

\* The PLC answers the read with its current value (again, for a request
\* that is restarted), or the request and its reply are dropped (an abort,
\* a failed reply).
Capture ==
    /\ op = "reading"
    /\ val' \in {plc, NoData}
    /\ UNCHANGED <<op, data, plc>>

\* The value the reply brought is copied into the buffer.
Fill ==
    /\ op = "reading" /\ val \in Vals
    /\ data' = val /\ val' = NoData
    /\ UNCHANGED <<op, plc>>

\* The read ends (completed, failed or aborted); the reply may be copied
\* in the same step.
EndRead ==
    /\ op = "reading"
    /\ op' = "idle" /\ val' = NoData
    /\ data' \in {data} \cup ({val} \cap Vals)
    /\ UNCHANGED plc

\* A write starts from IDLE, or preempts a read (the auto-sync write aborts
\* the read it finds); its request is built at once, or after a pre-write
\* read.
StartWrite ==
    /\ op \in {"idle", "reading"}
    /\ op' = "writing" /\ val' \in {NoData, data}
    /\ UNCHANGED <<data, plc>>

\* The write request is built (again, for a restarted request) from the
\* buffer as it is now, or its request is finished.
Load ==
    /\ op = "writing"
    /\ val' \in {NoData, data}
    /\ UNCHANGED <<op, data, plc>>

EndWrite ==
    /\ op = "writing"
    /\ op' = "idle" /\ val' = NoData
    /\ UNCHANGED <<data, plc>>

\* The application stores a value into the buffer, at any time.
Set ==
    /\ data' \in Vals
    /\ UNCHANGED <<op, plc, val>>

\* The PLC's value changes (its program, or a write arriving).
PlcChange ==
    /\ plc' \in Vals
    /\ UNCHANGED <<op, data, val>>

Next ==
    \/ StartRead \/ Capture \/ Fill \/ EndRead
    \/ StartWrite \/ Load \/ EndWrite
    \/ Set \/ PlcChange

Spec == Init /\ [][Next]_vars

=============================================================================
