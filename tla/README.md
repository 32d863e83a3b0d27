# TLA+ models of libplctag's tag layer

This directory holds TLA+ specifications of the tag machinery of libplctag
(`src/src/libplctag`). It also holds the TLC configurations that check them.
The aim is to check the parts whose correctness depends on the interleaving of
threads and on the order of protocol steps, which unit tests rarely reach:

- the generic tag layer in `lib/lib.c`;
- the Omron protocol vtable in `protocols/omron/*.c`;
- the AB PCCC vtable for PLC-5/SLC tags in `protocols/ab/eip_slc_pccc.c`, under the same generic layer;
- the tag registry in `lib/lib.c`, which maps the ids that callers hold to tags.

## The system

Several threads meet on each tag. Each one runs its own code:

| Thread | Code | What it does to the tag |
|---|---|---|
| application threads | `plc_tag_read`, `plc_tag_write`, `plc_tag_abort`, `plc_tag_status`, `plc_tag_set_<type>`, `plc_tag_set_int_attribute`, `plc_tag_register_callback(_ex)`, `plc_tag_unregister_callback`, `plc_tag_create_ex` | take the tag's recursive `api_mutex`, start operations, and optionally wait on the tag's condition variable with a deadline |
| the tickler (`tag_tickler_func`) | `plc_tag_generic_tickler`, the vtable `tag_tickler` | try-locks the tag; handles `abort_requested`; starts auto-sync reads and writes; polls the request; turns a finished protocol operation into `read_complete`/`write_complete`; clears the generic in-flight flags, raises events and signals the condition variable; dispatches callbacks after unlocking |
| `plc_tag_shutdown` | `plc_tag_shutdown`, `destroy_modules` | sets `library_terminating`, destroys every tag in the registry by the id stored in the tag, and tears the registry down |
| the session (not in this repository) | — | answers the tag's request (`tag->req`) and wakes the tag |

The generic layer keeps:
- `read_in_flight`/`write_in_flight` and `read_complete`/`write_complete`;
- `abort_requested` (set without the lock);
- `tag_is_dirty`, `auto_sync_next_write` and the read-cache expiry;
- the pending event flags.

The protocol layer (Omron, or the AB `ab_tag_t` of a PCCC tag) keeps:
- `read_in_progress`/`write_in_progress`;
- `first_read`, which stays set until the initial read ends;
- `pre_write_read`, set for a read made on behalf of a write (Omron only);
- `offset`, the type information, and the request `req`.

Operations on the two layers are chained through these flags. For example:

1. A read is started by the generic layer.
2. It is carried by the Omron layer.
3. It is seen as finished by the Omron tickler.
4. It is acknowledged by the generic tickler.

## Modules

| Module | Models | Source |
|---|---|---|
| `Tag.tla` | The tag record, a record of the fields of `plc_tag_t`, `omron_tag_t` and `ab_tag_t` that the control flow reads, and which vtable the tag has. Also: the status codes, the events, and the requests and their answers. | structs (spec-modelled: `lib/tag.h` is not in `src/`) |
| `OmronTag.tla` | Every vtable function as an operator from a tag record to a tag record, or to `[tag, rc]` when it returns a status: `omron_tag_abort_request_only`, `omron_tag_abort_request`, `omron_tag_abort`, `omron_tag_status`, `omron_check_request_status`, `tag_read_start`, `tag_write_start`, `build_read/write_request_connected`, `check_read/write_status_connected`, `tag_tickler`. | `omron_standard_tag.c`, `omron_common.c` |
| `PcccTag.tla` | `slc_vtable` as operators on the same record: `tag_status`, `tag_read_start`, `tag_write_start`, `check_read_status`, `check_write_status`, `tag_tickler`. `ab_tag_abort_request` and `check_request_status` are in `ab_common.c`, outside this repository; they are spec-modelled (spec.md §4.4, and `omron_check_request_status`, the Omron copy of the same function). | `protocols/ab/eip_slc_pccc.c` |
| `LibTag.tla` | One tag, the application threads, the tickler and the connection. Each step is one critical block (or one unlocked store) of the code, and it composes the vtable operators in the order of the calls. `Vtable*` dispatch on the tag's `vtable` field, as the code calls through `tag->vtable`. | `lib/lib.c` |
| `TagAbstract.tla` | The tag as spec.md §4.4 promises it to the application: IDLE, READING or WRITING, one operation at a time. The buffer changes only by a set, or by a read copying a value the PLC held while that read was in flight. A write sends the buffer as it is when its request is built. `LibTag` is shown to implement it (`TagRefines`). | spec-modelled (spec.md §4.4) |
| `MCLibTag.tla` | The model-checking instance: thread model values, per-thread call sets, a VIEW and a symmetry set. | — |
| `TagBuffer.tla` | The tag's data buffer. It covers every typed getter and setter, the bit functions, `plc_tag_get/set_size`, and the byte-order descriptor that `set_tag_byte_order` builds at create time with `check_byte_order_str`. | `lib/lib.c` 2106–3301, 3897–4258, 4511–4536 |
| `MCTagBuffer.tla` | The instance for TagBuffer: attribute sets, offsets, bit offsets and sizes. | — |
| `RegistryAbstract.tla` | The registry as spec.md §4.1 describes it: a map from ids to tags. Register gives an unused id, or fails only once `MaxAttempts` ids are live. Remove and teardown complete it. | spec-modelled (spec.md §4.1) |
| `Registry.tla` | The tag registry: `tag_id_inc`, `add_tag_lookup`, the registry part of `plc_tag_create_ex` (map, store the id, remove on error), `plc_tag_destroy` and `plc_tag_shutdown`. It is shown to implement `RegistryAbstract`. | `lib/lib.c` 61–69, 836–1139, 1499–1545, 4288–4346 |
| `MCRegistry.tla` | The instance for Registry: two thread model values. | — |
| `TagString.tla` | The string and raw-byte accessors on top of TagBuffer. It covers `plc_tag_get/set_string`, the capacity, length and total-length queries, and `plc_tag_get/set_raw_bytes`. It also covers the helpers they call under the lock: `get_string_length_unsafe`, `get_string_total_length_unsafe`, `get_new_string_total_length_unsafe` and `resize_tag_buffer_at_offset_unsafe`. | `lib/lib.c` 3304–3890, 4358–4615 |
| `MCTagString.tla` | The instance for TagString: string framings, strings, initial buffers and offsets. | — |

### How TagBuffer corresponds to the code

Every accessor runs entirely inside `critical_block(tag->api_mutex)`. Each call is therefore one atomic step, and TagBuffer drives a single tag with any sequence of calls. Concurrency is left to LibTag.

- **Values.** A value of width n is the tuple of its n bytes in little-endian order. Byte i is `(val >> 8*i) & 0xFF`, which is exactly what every setter stores and every getter shifts back. The signed, unsigned and float variants of one width therefore differ only in their error results and in the order table they use. The model writes one value per width, with bytes 1..n, all distinct, so a wrong order shows in the value read back.
- **The buffer.** `tag.data` is a function from `0..size-1` to bytes, or `NoData` (`tag->data == NULL`). `tag.bit` is the bit of a bit tag, or `NoBit`. `tag.oob` is a ghost flag: it becomes TRUE when a call touches a byte outside the buffer, which the C code does silently.
- **Accessor operators.** The operators mirror the code's branches in order: no data, then bit tag, then the bounds test, then the access.
  - `GetInteger` and `SetInteger` carry the integer functions. Each getter's two error values are parameters: `UINT*_MAX` for the unsigned getters; `PLCTAG_ERR_NO_DATA` or `INT*_MIN` for the signed ones.
  - `GetFloat` and `SetFloat` carry the float functions, which refuse bit tags with `UNSUPPORTED`.
  - There is one action per public function (`PlcTagGetUint64` … `PlcTagSetFloat32`, `PlcTagGetBit`, `PlcTagSetBit`, `PlcTagGetSizeCall`, `PlcTagSetSizeCall`).
- **The bounds test.** `offset + (int)sizeof(T)` is a C `int` expression. When it overflows, the behaviour is undefined. `CIntValues` lets the build either wrap the sum or evaluate it unbounded.
- **Resize.** `mem_realloc` is platform code, outside this repository. It is modelled as keeping the common prefix, filling added bytes with an unspecified value (`GrowBytes`), or failing with `NO_MEM`.
- **Creation.** `Init` runs `SetTagByteOrder` on the Omron default descriptor with one attribute set from `Attrs`. The tag exists (`created`) only when the function returns OK; otherwise every call is `PlcTagNotFound`. A byte-order string is a tuple of one-character strings. `CheckByteOrderStr` is the recursive translation of the `check_byte_order_str` loop, with `taken` as the set of digits seen.
- **Ghosts for the round trip.** `last` records the field and value of the last successful set. `got` records the field and result of the last get after it. A resize that cuts the field forgets `last`.

### How LibTag corresponds to the code

**State**
- `tag` is the tag record.
- `auto_sync_write` is `auto_sync_write_ms > 0`.
- `registered` is the tag being in the `tags` hashtable.
- `cond` is the tag's condition variable being signalled.
- `plc` is the value in the PLC.
- `pc`/`rc` are each application thread's position and local `rc`.
- `tpc` is where the tickler is: in its locked pass, or dispatching callbacks after the unlock.
- `expired[t]` says whether the deadline of thread `t`'s current wait has passed.
- `callback` is `tag->callback != NULL`. It starts as `Callback` (whether `plc_tag_create_ex` was given one). `HandleEventCallbacks` reads it: with no callback the events stay pending.
- `tag.vtable` is the protocol the tag was created for, chosen in `Init` from `Vtables`. Every `tag->vtable->f(tag)` call of `lib.c` is `VtableF(t)`, which applies the Omron or the PCCC operator.

**Tickler actions**
- `TickTag` is the locked part of one tickler pass over the tag: `plc_tag_generic_tickler` (`GenericAbort`, `AutoSyncWrite`, `AutoSyncRead`), then the vtable `tag_tickler` (`VtableTickler`: `TagTickler` or `PcccTagTickler`), then the completion handling (`NoteCompletions`). The auto-sync deadlines are nondeterministic booleans.
- `TickCallbacks` is the dispatch after the unlock.

**API actions and their continuations**
- `PlcTagRead` and `PlcTagWrite` are the first critical block. `blocking` chooses a zero or a positive timeout.
- `WaitStep` is one pass of the wait loop. `cond_wait` either sees the signal and then calls `plc_tag_status_impl`, or times out after the deadline. The unlocked first store of `plc_tag_abort_impl` (`abort_requested`) is part of the step that decides to abort.
- `AbortImplCs` is the locked block of `plc_tag_abort_impl`. `Callbacks` is a callback dispatch made on its own.
- `ReadDone`, `ReadFinal`, `WriteEnd` and `WriteDone` are the blocks after the loops.
- `PlcTagAbort` is `plc_tag_abort`'s unlocked store. It continues in `AbortImplCs`.
- The other calls are `PlcTagStatus`, `PlcTagSetData`, `SetAutoSyncWrite`, `PlcTagRegisterCallback` (DUPLICATE when a callback is set, which is kept), `PlcTagUnregisterCallback` (NOT_FOUND when none is set) and `PlcTagNotFound` (`lookup_tag` fails once the tag left the table).
- `CreateWaitStep` and `CreateFinish` are the wait loop of `plc_tag_create_ex` and its unlocked tail.

**Environment actions**
- `ConnRespond` is the session answering (spec-modelled).
- `PlcUpdate` is the PLC program changing the value.
- `CacheExpire` is time passing `read_cache_expire`.
- `Deadline(t)` is time passing a waiting thread's deadline.

**Refinement.** `TagRefines` instantiates `TagAbstract` under a mapping:
- `op` is WRITING while `write_in_flight` is set, READING while `read_in_flight` is set, and IDLE otherwise. Those are the flags of the generic BUSY test;
- `data` is the buffer (`NoData` or `Uninit` both map to the abstract `NoData`);
- `val` is the payload of an outstanding write request, or the data of a good reply to an outstanding read that is not a pre-write read.

A dropped or aborted request maps to `Capture` with `NoData`; the tickler's copy of a reply maps to `Fill` or `EndRead`.

The api_mutex is recursive, so the nested `plc_tag_abort_impl` inside `plc_tag_read`'s error path is part of that step (`AbortImplNested`). The tickler only try-locks, so it never interleaves inside an API step.

**Data abstraction**
- The buffer is a model value from `Vals`, or `NoData` (`tag->data == NULL`), or `Uninit` (a buffer allocated but not yet filled: grown by `check_read_status_connected` in a pre-write read, or the buffer an SLC tag is created with).
- The tag's size is `Size` chunks of one reply each. A PCCC tag of more than one chunk is refused TOO_LARGE by `tag_read_start` and `tag_write_start` (`data_per_packet < tag->size`).
- A PCCC reply is good, a CIP or PCCC error status (`cip_err`, REMOTE_ERR in `check_*_status`), a bad encapsulation or a session failure (`eip_err`, `sess_err`, caught by `check_request_status`). A reply of the wrong length is not modelled.
- A request is its kind, its payload, the answer and the data the answer carries.
- Packet encoding, names and type bytes are left out. None of the properties depend on them.

### How TagString corresponds to the code

TagString extends TagBuffer. It reuses the tag record, the byte-order descriptor, `Touch`/`Load`/`Store` and `ResizeTagBufferUnsafe`, and has its own `StrInit` and `StrNext`. Each string call is again one atomic step under the API mutex.

- **Strings.** A string is the tuple of its bytes, none of them 0.
  - The model uses strings of length 0, 2, 3 and 4. The odd length reaches the pad byte of a byte-swapped string.
  - `buffer_length` is `BufLen` (4), so no get truncates.
  - Offsets are non-negative. The code computes character indices in `size_t`, and what a negative offset does then depends on the platform's width. A past-the-end offset already shows the missing bounds test.
- **Length helpers.**
  - `GetStringLengthUnsafe` reads the count word through `CountOrder`, the `int16_order`/`int32_order` table. `LESigned` is the `(int16_t)` or `(int32_t)` cast.
  - `ScanZT` is the recursive translation of the zero-scan loop. Its loop bound and the index it reads are kept apart, as in the code.
  - `GetStringTotalLengthUnsafe` and `GetNewStringTotalLengthUnsafe` are the two ways the code computes a field's size. The first reads the field from the buffer; the second computes the size a new string needs.
- **`PlcTagSetString`** keeps the code's order exactly:
  1. the checks before the lock;
  2. the old and new totals and the `allow_field_resize` test;
  3. `ResizeTagBufferAtOffsetUnsafe`;
  4. zeroing (`ZeroArea`);
  5. the count word (`WriteCount`);
  6. the characters (`CopyChars`, recursive, stopping at the first index past the buffer);
  7. the terminator.

  Each failure returns with whatever the earlier steps wrote, and sets `tag->status` only where the code does.
- **`ResizeTagBufferAtOffsetUnsafe`.** When shrinking, it moves the tail and then reallocates. When growing, it reallocates and then moves. A failed reallocation after a shrinking move leaves the data moved and the size unchanged. Such failures can grow the buffer without bound, so `MaxSize` bounds the size a `set_string` step may leave.
- **Creation.** `StrInit` creates the tag with one attribute set from `Attrs` and a value of `allow_field_resize` (`lib.c:955`). Its buffer is either one of `InitBufs` or `NoData`: an Omron tag has no buffer until its first read (`omron_common.c:267`).
- **Ghosts.**
  - `last` records the offset, the string and the field size `set_string` gave it.
  - `got` records the result of the last `get_string` or `get_string_length`.
  - A failed set that changed the buffer, or a raw write, forgets `last`.

### How Registry corresponds to the code

- **State.** `tags` is the hashtable, abstracted to a function from id to tag. A tag is the number of its construction. `tag_id` is each tag's `tag->tag_id`. `next_tag_id` and `terminating` are the statics of the same names. Each thread has a program counter inside `plc_tag_create_ex`. The shutdown thread has its scan index `sdi` and the tag it holds a reference to.
- **Ids.** `TagIdMask` is `TAG_ID_MASK` scaled to `2^k - 1`. `TagIdInc` is `tag_id_inc` bit for bit, with Bitwise's `&`. `Probe` is the recursive translation of `add_tag_lookup`'s do-while loop. It returns the last candidate tried, which becomes `next_tag_id` whether or not the probe succeeded.
- **Create.** `plc_tag_create_ex` is split at its synchronisation points:
  1. `CreateStart`: the terminating check, then the constructor and attribute checks, which either fail or construct a tag;
  2. `AddTagLookup`: one `critical_block(tag_lookup_mutex)`;
  3. `SetTagId`: the unlocked store `tag->tag_id = id`;
  4. `CreateFinish`: the status check and the wait. Either the id is returned, or the entry at `tag->tag_id` is removed.
- **Destroy.** `PlcTagDestroy` takes any id a caller may pass, stale ones and 0 included. `DestroyOp` is the range test followed by `hashtable_remove`. The abort and events that follow do not touch the registry, and are LibTag's.
- **Shutdown.** The thread has four steps:
  - `ShutdownBegin` sets `library_terminating`;
  - `ShutdownGet` is one critical block of the scan;
  - `ShutdownDestroy` is `plc_tag_destroy(tag->tag_id)`, outside the mutex;
  - `ShutdownEnd` is `destroy_modules`, whose `lib_teardown` (`lib.c:167`) destroys the table and clears the flag.

  The scan walks the ids in order. The hashtable's bucket order is not in this repository, and any order shows the same windows.
- **Refinement.** `RegistryRefines` instantiates `RegistryAbstract` with `map <- tags` and `result <- reg`, where `reg` is the last result of `add_tag_lookup` for each thread. A destroy or an error path that removes nothing is a stutter of the abstract registry.

## Runs

| Run | cfg | Expect | Properties | What it shows |
|---|---|---|---|---|
| safety | `MCLibTag.cfg` | pass | TypeOK, InFlightExclusive, ReqMatchesProgress, IdleOffsetZero | See below. |
| tag_refines | `MCTagRefines.cfg` | pass | CacheServesData, TagRefines | See below. |
| calls_return | `MCLibTagLive.cfg` | pass | CallsReturn | Every read, write and abort call returns, when blocking or non-blocking reads and writes race an aborting thread. |
| failed_request | `MCFailedRequest.cfg` | violation | ReadCompletes | A session failure on the request leaves `read_in_flight` stuck, because `tag_tickler` returns before any completion. |
| pre_write_loop | `MCPreWriteLoop.cfg` | violation | WriteCompletes | After the initial read was aborted, a write loops in pre-write reads because `first_read` is never cleared on that path. |
| stale_pre_write_read | `MCStaleReadWrite.cfg` | violation | ReadNeverWrites | See below. |
| lost_abort | `MCLostAbort.cfg` | violation | RequestTracked | See below. |
| create_wait | `MCCreateWait.cfg` | violation | CreateReturnsCreated | See below. |
| tag_buffer | `MCTagBuffer.cfg` | pass | TypeOK, RoundTrip | See below. |
| tag_string | `MCTagString.cfg` | pass | NoOutOfBounds, StrRoundTrip | See below. |
| registry | `MCRegistry.cfg` | pass | RegistryTypeOK, RegistryRefines | See below. |
| read_ok_after_error | `MCReadOkError.cfg` | violation | ReadOkHasData | See below. |

Twelve more flaws turned up while modelling. Each was confirmed by a TLC counterexample under a variant of the configurations above: the same model with another attribute set, string set, offset, start id or call set. No run of the project checks them; the violation runs above are kept for the findings that matter most to an application. They are listed as hazards in `PROJECT.json`, whose notes name the property that catches each one and the variant that shows it. Three of those properties are stated in the modules although no run checks them: AttrCheckExact, FieldTotalAgrees and, for the typed accessors, NoOutOfBounds. Each fails for the code, so a passing run with them would only show that its bounds avoid the flaw.
- After its wait loop, `plc_tag_read` clears `read_in_flight` unconditionally (`lib.c:1669`), and so does `plc_tag_write` with `write_in_flight` (`lib.c:1855`). If an operation starts between the tickler completing the old one and that block, its flag is cleared while its request is on the wire. The next call then passes the generic BUSY test that spec.md §4.4 step 2 describes, gets BUSY from the vtable and aborts the other operation. Two readers reach it. So does a single thread that calls `plc_tag_write` with `auto_sync_write_ms` set, once it has set the buffer: the tickler starts the auto-sync write before the writer's last block runs. RequestTracked fails under `MCTagRefines.cfg` with `Calls <- CallsReaders` (10 states), or with `Calls <- CallsWriteOnly` and `AutoWrite = {TRUE}` (13 states). TagRefines fails there too.
- `tag_id_inc` computes `(id + 1) & TAG_ID_MASK`, which is `TAG_ID_MASK` itself when `next_tag_id` is `TAG_ID_MASK - 1`. `plc_tag_destroy` refuses ids `>= TAG_ID_MASK` (`lib.c:1506`), so that tag can never be destroyed, not even by `plc_tag_shutdown` (LiveIdsDestroyable, as an invariant of `MCRegistry.cfg` with `StartIds = {1}`: the second tag created gets id 3 = `TagIdMask`).
- `abort_requested` survives an abort that found nothing to cancel, and kills the next asynchronous read. `omron_tag_tickler`, run from `plc_tag_status_impl`, consumes the flag and aborts the new request without clearing `read_in_flight` (`lib.c:662`, `omron_common.c:769`). ReadCompletes fails with `Calls <- CallsPollVsAbort` and no faults.
- In every typed accessor, `offset + sizeof(T)` wraps negative at offsets near `INT_MAX`, so the bounds test passes (`lib.c:2314`, NoOutOfBounds with `Offsets <- MCFarOffsets`).
- The unsigned sum in the string total-length check of `set_tag_byte_order` wraps (`lib.c:4190`, AttrCheckExact with `Attrs <- MCWrapAttrs`).
- No string call checks the offset against the size. At offset `size - 1` the count word is read past the buffer (`lib.c:4389`, NoOutOfBounds).
- The zero scan of a byte-swapped string bounds `i` but reads `i + 1` (`lib.c:4420`, NoOutOfBounds).
- For a counted, zero-terminated, byte-swapped string of odd length, the terminator overwrites the last character (`lib.c:3593`, StrRoundTrip).
- A two-reply Omron tag is re-read from offset 0 forever, because `check_read_status_connected` aborts before it restarts. This is the FIXME at `omron_standard_tag.c:1386`; the property that catches it is ReadCompletes.
- The pad byte that `set_string` adds to a byte-swapped string of odd length is not counted by `get_string_total_length_unsafe`. The field therefore grows by one byte on each set. This is the FIXME at `lib.c:3759`; FieldTotalAgrees fails on it in the tag_string configuration: for the PLC-5 framing and "ABC", `set_string` sizes the field at 6 bytes and `get_string_total_length_unsafe` finds 5.
- A fixed-length string whose `str_total_length` exceeds its parts is resized on every set (`lib.c:4364` against `4450`, FieldTotalAgrees).
- `plc_tag_set_string` has no `tag->data` check. Before an Omron tag's first read it reads the count word through NULL (`lib.c:3450`, NoOutOfBounds with `InitBufs = {NoData}`).

**safety.** The run has:
- one thread that reads, writes, sets the buffer and toggles auto-sync writes;
- one thread that aborts, polls, and registers and unregisters the callback;
- auto-sync reads;
- a create that waits;
- every connection fault.

Under all of this, four invariants hold:
- no read and write are in flight together;
- a request exists exactly while a protocol operation is in progress;
- the offset is 0 when the tag is idle;
- the types hold.

The tag is created for either vtable (`Vtables = {"omron", "pccc"}`), so every invariant is checked for an Omron tag and for an SLC tag. The other LibTag runs are about Omron findings and use `Vtables = {"omron"}`. The run explores about 1.4M distinct states in about 80 s.

**stale_pre_write_read.** The trace runs as follows:
1. The initial read is aborted.
2. A write's pre-write read gets a CIP error.
3. A later `plc_tag_read` gets its reply.
4. The tag is still flagged `pre_write_read`, so the reply is not copied and a write of the never-filled buffer goes to the PLC.

**lost_abort.** RequestTracked says that every outstanding request is tracked by the in-flight flag of its kind: a read request (not a pre-write read) by `read_in_flight`, a write or a pre-write read by `write_in_flight`. The trace runs as follows:
1. `plc_tag_abort` sets `abort_requested` without the lock.
2. The tickler consumes the flag first and aborts the initial read.
3. A non-blocking `plc_tag_read` starts a new read.
4. `plc_tag_abort_impl`'s block finds the flag clear, skips the vtable abort and clears `read_in_flight`.
5. The read request stays on the connection with no flag tracking it.

A write started at step 3 loses `write_in_flight` the same way.

**tag_refines.** One thread reads and sets the buffer; the other writes and sets it. The tag has a read cache and is created for either vtable, and the PLC value changes among three values, so `PlcUpdate` and `CacheExpire` fire. The connection answers every request and no deadline passes (`Timeouts = FALSE`, which disables `Deadline`). Auto-sync writes are off. Under this setup:
- a cache hit only serves a filled buffer;
- the tag implements `TagAbstract`: one operation at a time, and the buffer holds only what the application set or a value the PLC held while a read was in flight.

The restrictions are where the property stops holding. With a CIP error among the answers, CacheServesData fails, for the reason read_ok_after_error shows. With timeouts, lost_abort breaks TagRefines, and with two readers or auto-sync writes the post-loop clearing does (see the flaws above). The run explores about 68k distinct states in about 10 s.

**create_wait.** The creator waits in `plc_tag_create_ex` with a timeout. No other call is made and there are no auto-sync reads, so only the create's own wait loop decides when it returns. The trace runs as follows:
1. The connection answers the initial read and the session signals the tag's condition variable.
2. The wait loop wakes. The tickler has not yet processed the reply, so `omron_tag_status` answers PENDING.
3. The deadline has not passed (`expired` is FALSE), but the loop condition is `time_ms() > end_time` (`lib.c:1059`), so the loop ends. The read and write loops use `<` at `lib.c:1665` and `1852`.
4. `plc_tag_create_ex` clears `read_in_flight` and raises CREATED with the read still in progress.

The next `plc_tag_read` then passes the `read_in_flight` check, `tag_read_start` answers BUSY, and `plc_tag_read` aborts the initial read; `first_read` stays set, which is the state pre_write_loop starts from. The same property also catches the unlocked tail (`lib.c:1062`): with auto-sync reads or a second reader, a read started between the loop and the store loses its `read_in_flight`. With `<` in the loop, a reply signalled exactly at the deadline still ends the loop with PENDING, as in `plc_tag_read`.

**read_ok_after_error.** One thread reads with a timeout; the connection may answer with a CIP error. The trace runs as follows:
1. The initial read gets a CIP error. The tickler stores REMOTE_ERR and the read ends without filling the buffer.
2. `plc_tag_read` starts a new read and waits. The connection answers it with a CIP error again and signals the tag.
3. The tickler thread processes the reply first: `check_read_status_connected` fails, `tag->status` becomes REMOTE_ERR, and `read_in_flight` is cleared.
4. The reader wakes and calls `plc_tag_status_impl`, which runs the vtable tickler again. `omron_check_request_status` finds no request and stores OK in `tag->status` (`omron_common.c:835`).
5. `plc_tag_read` returns OK with the buffer still NULL, and renews the read cache.

The next tickler pass erases the error the same way, so `plc_tag_status` reports it only until then. The SLC vtable's `check_request_status` is modelled on the same function and gives the same trace.

**tag_buffer.** The setup is:
- the tag is created with one of eight attribute sets: no override, swapped or reversed orders of each width, a duplicated digit, and two string total lengths, one too small;
- the tag is either a byte tag or a bit tag whose bit is in byte 1, with or without a buffer;
- every accessor is called at offsets -1, 0 and 5, with bit offsets -1, 9 and 64, and resizes to -1, 2 and 8.

Under this setup every get of the field the last set wrote returns the value written. The run does not check that create accepts exactly the valid attributes (AttrCheckExact), or that no call touches a byte outside the buffer (NoOutOfBounds). Both fail for the code, at inputs this run leaves out (see the flaws above).

The run explores about 108k distinct states in about 1 minute.

**tag_string.** The setup is:
- six string framings: the Omron NJ/NX default (2-byte count, zero-terminated), PLC-5 style byte-swapped counted, a 1-byte count, a 4-byte count with a pad byte, zero-terminated without count, and fixed-length with capacity 3 and total 6;
- strings of length 0, 2, 3 and 4;
- `allow_field_resize` on and off;
- a byte tag or a bit tag;
- initial buffers holding an empty string, "XY", or count words with the top bit set (0xFFFF, which `(int16_t)` reads as -1, and 0x8000 / 0x80008000, negative enough to make the field's total negative);
- raw writes of one and two bytes;
- reallocations that may fail.

Under this setup:
- no call touches a byte outside the buffer;
- `get_string` and `get_string_length` at the offset of the last successful `set_string` return that string and its length.

The run does not check that the two total-length computations agree (FieldTotalAgrees): they do not for "ABC" in the PLC-5 framing. The run explores about 106k distinct states in about 90 s. A negative count makes `get_string` copy nothing and `set_string` return the negative total as its result (`lib.c:3451`); the properties hold on those buffers too. The string flaws, the NULL buffer of a tag before its first read among them, are listed above as hazards.

**registry.** Two threads each create tags and destroy any id: their own, the other thread's, a stale one, or 0. Creation takes up to four tag constructions. Meanwhile `plc_tag_shutdown` may run, more than once. Under this setup:
- the registry implements `RegistryAbstract`:
  - no live id is ever handed out again;
  - no id outside `1..TAG_ID_MASK` is ever handed out;
  - `NO_RESOURCES` comes only with at least `MAX_TAG_MAP_ATTEMPTS` live ids.

The run explores about 1.5M distinct states in about 100 s.

Each trace of a violation run was replayed by hand against the source lines named in `PROJECT.json`'s findings.

### Bounds and why they are enough

- **Two application threads and one tickler.** Two threads are the fewest that can race: an abort against an operation, or a poll against a read. `Calls` gives each thread a subset of the API. This keeps each run on its question and keeps the state space small. The safety run gives the first thread everything that starts an operation, and the second thread abort, status and the callback registration calls.
- **One tag.** The tickler's pass over the hashtable touches tags one at a time, and every property is about one tag.
- **`Size` is 1.** One reply carries the whole tag. Two replies (`Size = 2`) reach the restart at `omron_standard_tag.c:1386`, which is listed as a hazard.
- **`Vtables`.** The safety run creates the tag for either vtable, so its invariants cover both protocols. A PCCC tag never fragments or pre-reads, so its part of the state space is small; the runs about Omron findings leave it out.
- **`Vals = {0}` except in tag_refines.** Only tag_refines distinguishes values: the other properties hold or fail whatever the value. Three values let the PLC, the buffer and a reply in flight all differ.
- **`AutoWrite`.** The values `auto_sync_write_ms > 0` may have at create. `SetAutoSyncWrite` changes it later when a thread's `Calls` allow it.
- **`Timeouts`.** Whether a deadline may pass before the PLC answers. FALSE stands for timeouts longer than every reply, which the code allows; it is used only by tag_refines.
- **`Faults` per run.**
- **Time.** Time is abstract. A deadline passes through `Deadline(t)`. An auto-sync period is a nondeterministic boolean at the comparison. Cache expiry is `CacheExpire`.
- **Pruning.**
  - `TrackEvents = FALSE` drops the event flags, which only callbacks read.
  - `Callback` says whether the create registered a callback; the registration calls change it.
  - `VIEW LiveView` forgets the return code of a thread that has returned: nothing reads it before the next call sets it. With `TrackEvents = FALSE` it also forgets `callback`, which then decides nothing but the return code of the next registration call.

- **TagBuffer.** The bounds are:
  - an 8-byte buffer, the fewest bytes that hold an `int64`;
  - offset -1 (negative), 0 (every width fits) and 5 (only widths 1 and 2 fit);
  - bit 9 (in byte 1), plus bits -1 and 64 (outside the buffer);
  - sizes -1 (refused), 2 (cuts every wide field and the bit tag's bit) and 8 (grows back).

  `IntBits = 8` scales C `int` down, so that the overflow of `offset + sizeof(T)` and the unsigned wrap of the string sum are reachable with values TLC can enumerate. The code's tests do not depend on the width. The pass run uses offsets far from `INT_MAX`. The offsets and capacities next to it reach the two overflow hazards listed above.

- **TagString.** The bounds are:
  - a 6-byte initial buffer, the fewest bytes that hold a 2-byte count, two characters and a terminator;
  - offset 0 in the pass run, where every field starts;
  - strings of length 0, 2, 3 and 4, which reach the pad byte of an odd-length byte-swapped string, the 2-character initial string, the shrink, the grow and the capacity limit of the fixed-length framing;
  - `MaxSize = 10`, the largest buffer a set may leave. Only repeated failed reallocations reach it.

- **Registry.** The bounds are:
  - `TagIdMask = 3` (ids 1 to 3), the smallest mask at which `tag_id_inc` both wraps and skips 0, and at which there is an id below the mask;
  - `MaxTagMapAttempts = 2`, fewer than the ids, as 50 is fewer than 2^28 - 1, so a probe can fail while an id is free;
  - four tags, enough to wrap the counter and to fill every id;
  - `next_tag_id` starts at 2, just before the mask, in the pass run, and at 1 for the mask-id flaw. Any value is a state the library reaches after enough creates and destroys, which is how the real counter, starting at 10, gets there.

### Fairness

`Fairness` in `LibTag.tla` assumes:
- **Weak fairness of the tickler steps.** The tickler wakes at least every `TAG_TICKLER_TIMEOUT_MS`, and no API step holds the mutex for long.
- **Weak fairness of `ConnRespond`.** The session answers or fails every request: it has its own timeouts.
- **Weak fairness of each thread's continuation steps**, and of `Deadline(t)`, because every wait has a finite deadline.

Nothing forces a thread to make a new call. The liveness properties are stated only about operations already started.

## Mutants

Each property of a passing run has a mutant: a plausible bug in the code it is about, defined in the module just before the definition it replaces. TLC finds the property violated under the run's own configuration.

| Mutant | Replaces | Bug | Breaks |
|---|---|---|---|
| `CheckWriteStatusUnbounded` | `CheckWriteStatus` | restarts the write without the `offset < size` test | TypeOK |
| `PlcTagWriteIgnoresRead` | `PlcTagWrite` | the BUSY guard loses `read_in_flight` | InFlightExclusive |
| `AbortRequestOnlyKeepsRead` | `OmronTagAbortRequestOnly` | does not clear `read_in_progress` | ReqMatchesProgress |
| `AbortRequestKeepsOffset` | `OmronTagAbortRequest` | does not rewind `offset` | IdleOffsetZero |
| `PcccReadStartNoBusy` | `PcccTagReadStart` | the SLC `tag_read_start` without its BUSY test | ReqMatchesProgress |
| `ReadFinalAnyRc` | `ReadFinal` | renews the cache whatever rc is | CacheServesData |
| `PlcTagWriteIgnoresRead` (tag_refines) | `PlcTagWrite` | the same BUSY guard without `read_in_flight`: a write starts during a read | TagRefines |
| `WaitStepNoTimeout` | `WaitStep` | the wait has no deadline | CallsReturn |
| `GetFloatIntOrder` | `GetFloat` | a float getter reads through the integer order table | RoundTrip |
| `ResizeSizeFirst` | `ResizeTagBufferUnsafe` | `tag->size` updated before the realloc result is checked | TypeOK |
| `ResizeAtOffsetShrinkFirst` | `ResizeTagBufferAtOffsetUnsafe` | a shrinking field reallocates before moving the tail | NoOutOfBounds |
| `GetCharIndexNoSwap` | `GetCharIndex` | `get_string` ignores the byte swap | StrRoundTrip |
| `TagIdIncNoSkip` | `TagIdInc` | `tag_id_inc` without `if(id == 0) id = 1` | RegistryTypeOK |
| `ProbeSkipsLookup` | `Probe` | `add_tag_lookup` takes the next id without `hashtable_get` | RegistryRefines |

## What is not modelled, and why

- **The `*_unconnected` Omron functions.** They are dead code: `use_connected_msg` is always 1.
- **Bit-tag writes (`build_write_bit_request_connected`).** Dead code for Omron: `is_bit` is never set on an Omron tag.
- **Failures of the request allocation inside `build_*_request`**, and of `session_create_request`/`session_add_request` in the PCCC start functions. Not modelled.
- **PCCC byte counts.** The `uint8_t` transfer size and the reply-length test of `check_read_status` work in bytes; the model counts reply-sized chunks. Whether the `(uint8_t)` truncation at `eip_slc_pccc.c:293` can bite depends on `session_get_max_payload`, which is not in this repository, so it is not listed as a hazard. The CREATED status the SLC tickler raises (always OK, `eip_slc_pccc.c:164`) is not visible either: the model's events carry no status.
- **Parts of the library not yet modelled.** These are planned for later work:
  - the abort, events and callbacks of `plc_tag_destroy` on a tag with operations in flight (Registry models its registry part);
- **`plc_tag_lock/unlock`.** They take an advisory `ext_mutex` with a try-lock inside `api_mutex`, then sleep and retry. Nothing in the library reads that mutex, and the mutex primitives are platform code outside this repository, so a model would only say that the application's own lock is a lock;
  - a callback that calls back into the API. The model's callback only consumes events. The code calls it inside the `api_mutex` (`lib.c:396`), against its own comment and spec.md §6, so a callback that waits on its own tag from the tickler thread would time out; this is listed as a hazard;
  - `plc_tag_get/set_int_attribute`. In the model, `allow_field_resize` and the other attributes are fixed at creation.
- **The session and its socket I/O.** They are not in `src/`. They are spec-modelled by `ConnRespond`.
- **`utils/debug.c`.** It is log formatting only. One consequence: the `DEBUG_SPEW` log line in `plc_tag_get/set_bit_impl` reads `tag->data[real_offset / 8]` before the bounds test. Whether that read happens depends on the `pdebug` macro in `utils/debug.h`, which is not in this repository, so it is listed as a hazard and not checked.
- **The examples and test servers.** They are not part of the library.

## Plan for the next steps

1. Id reuse after the wrap. spec.md §5 promises ids distinct over the library's lifetime, while §4.1 asks only for an unused id. Also: shutdown racing a create.
2. `plc_tag_destroy` on the tag of LibTag, and its interplay with a blocked read and the tickler.
3. Event runs with `TrackEvents = TRUE` and a delivery history. A liveness run "every pending event is delivered while a callback is registered" with the abort interleavings of calls_return takes TLC more than five minutes; it needs a smaller thread model first. The runs to come:
   - events delivered at most once per occurrence (spec.md §4.2);
   - no `READ_COMPLETED` after an abort (spec.md §5).
4. String calls at several offsets of one buffer: a resize at one offset moves the fields after it.
5. Event statuses in the model, so that the CREATED status of the SLC tickler can be checked against spec.md §8.
6. The post-loop clearing bugs need a run of their own, next to lost_abort.
