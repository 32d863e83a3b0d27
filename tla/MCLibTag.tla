----------------------------- MODULE MCLibTag -----------------------------
(* Model-checking instance of LibTag: the constants are fixed in the .cfg  *)
(* files; this module defines the ones a .cfg cannot write.                *)
EXTENDS LibTag, TLC

CONSTANTS t1, t2

\* Both threads may make every call.
CallsAll == [t \in {t1, t2} |-> {"read", "write", "abort", "status", "set",
                                 "attr"}]

\* t1 reads, writes and changes the buffer and auto-sync writes; t2 aborts,
\* polls the status and registers and unregisters the callback.
CallsSplit == (t1 :> {"read", "write", "set", "attr"})
              @@ (t2 :> {"abort", "status", "register", "unregister"})

\* t1 reads and writes with or without a timeout; t2 aborts.
CallsBlockedVsAbort == (t1 :> {"read", "write"}) @@ (t2 :> {"abort"})

\* One thread polling an asynchronous read, the other aborting.
CallsPollVsAbort == (t1 :> {"read", "status"}) @@ (t2 :> {"abort"})

\* The state without what an idle thread's last call returned (nothing
\* reads rc[t] before the next call sets it) and, for runs that do not keep
\* event flags, without callback (which then only decides the rc of the
\* next registration call).
LiveView == <<tag, auto_sync_write, registered, cond, plc, pc, tpc, expired,
              IF TrackEvents THEN callback ELSE FALSE,
              [t \in Threads |-> IF pc[t] = "idle" THEN "OK" ELSE rc[t]]>>

\* t1 polls an asynchronous read; t2 makes no call.
CallsPollOnly == (t1 :> {"read", "status"}) @@ (t2 :> {})

\* t1 reads, writes and polls, t2 aborts.
CallsAsyncVsAbort == (t1 :> {"read", "write", "status"}) @@ (t2 :> {"abort"})

\* t1 reads, writes, sets the buffer and auto-sync writes; t2 reads and
\* polls.
CallsReaders == (t1 :> {"read", "write", "set", "attr"}) @@ (t2 :> {"read", "status"})

\* One thread reads, the other writes; both store into the buffer.
CallsReaderWriter == (t1 :> {"read", "set"}) @@ (t2 :> {"write", "set", "status"})

\* t1 writes and stores into the buffer; t2 makes no call.
CallsWriteOnly == (t1 :> {"write", "set"}) @@ (t2 :> {})

\* Neither thread makes a call after the create.
CallsNone == [t \in {t1, t2} |-> {}]

\* API threads other than the creator are interchangeable.
ThreadSymmetry == Permutations(Threads \ {Creator})
=============================================================================
