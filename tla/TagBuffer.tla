------------------------------ MODULE TagBuffer ------------------------------
(***************************************************************************)
(* The tag data buffer of lib/lib.c: the byte-order descriptor that        *)
(* set_tag_byte_order builds from the attribute string when the tag is     *)
(* created (check_byte_order_str validating each permutation string), and  *)
(* the public accessors that read and write typed values, bits and the     *)
(* buffer size under the tag's API mutex.                                  *)
(*                                                                         *)
(* Every accessor runs entirely inside critical_block(tag->api_mutex), so  *)
(* each call is one atomic step and the model is a single tag driven by   *)
(* any sequence of calls.  A value of width n is the tuple of its n bytes  *)
(* in little-endian order: byte i is (val >> 8*i) & 0xFF, the expression    *)
(* every setter stores, so signed, unsigned and float variants of a width  *)
(* differ only in the error results and the order table they use.          *)
(***************************************************************************)
EXTENDS Integers, Sequences, SequencesExt, FiniteSetsExt, Bitwise

CONSTANTS
    IntBits,    \* width of C int (offset arithmetic, the unsigned string sums)
    InitSize,   \* tag->size when the buffer was allocated
    Offsets,    \* byte offsets passed to the accessors
    BitOffsets, \* bit offsets passed to plc_tag_get_bit/plc_tag_set_bit
    NewSizes,   \* sizes passed to plc_tag_set_size
    GrowBytes,  \* what mem_realloc leaves in the bytes it adds
    Attrs,      \* the attribute sets a tag may be created with
    BitTags,    \* tag->bit of a bit tag, or NoBit
    AutoSync,   \* auto_sync_write_ms > 0
    Absent,     \* an attribute missing from the attribute string
    NoData,     \* tag->data == NULL
    NoBit,      \* tag->is_bit == 0
    NoWrite     \* no accessor call has been made yet (ghost)

IntMax == 2^(IntBits - 1) - 1

\* The value a C int expression has: a result that overflows is undefined
\* behaviour, which the build either wraps or evaluates as if unbounded
\* (the optimiser may fold offset + n <= size into offset <= size - n).
CIntValues(x) ==
    IF x > IntMax THEN {x, x - 2^IntBits} ELSE {x}

\* unsigned int arithmetic wraps.
UIntSum(S) == (S) % 2^IntBits

\* A returned value together with the tag it leaves behind.
Res(t, rc) == [tag |-> t, rc |-> rc]

(***************************************************************************)
(* The byte-order descriptor (tag_byte_order_t).                           *)
(***************************************************************************)
OrderFams == <<"int16", "int32", "int64", "float32", "float64">>

Width == [f \in {"int8", "int16", "int32", "int64", "float32", "float64"} |->
            CASE f = "int8" -> 1 [] f \in {"int16"} -> 2
              [] f \in {"int32", "float32"} -> 4 [] OTHER -> 8]

\* The string parameters, in the order set_tag_byte_order handles them.
StrParams == <<"str_is_counted", "str_is_fixed_length", "str_is_zero_terminated",
               "str_is_byte_swapped", "str_count_word_bytes", "str_max_capacity",
               "str_total_length", "str_pad_bytes",
               "str_pad_to_multiple_bytes_EXPERIMENTAL">>

\* omron_njnx_tag_byte_order: identity orders, a counted (2-byte count)
\* zero-terminated string of unbounded capacity.
DefaultByteOrder ==
    [order |-> [f \in Range(OrderFams) |-> [i \in 0..Width[f] - 1 |-> i]],
     str |-> [str_is_counted |-> 1, str_is_fixed_length |-> 0,
              str_is_zero_terminated |-> 1, str_is_byte_swapped |-> 0,
              str_count_word_bytes |-> 2, str_max_capacity |-> 0,
              str_total_length |-> 0, str_pad_bytes |-> 0,
              str_pad_to_multiple_bytes_EXPERIMENTAL |-> 1],
     str_is_defined |-> 1]

\* The characters isdigit accepts and that lie in '0'..'7', with byte - '0'.
DigitVal == [c \in {"0", "1", "2", "3", "4", "5", "6", "7"} |->
               CASE c = "0" -> 0 [] c = "1" -> 1 [] c = "2" -> 2 [] c = "3" -> 3
                 [] c = "4" -> 4 [] c = "5" -> 5 [] c = "6" -> 6 [] OTHER -> 7]

RECURSIVE CheckDigits(_, _, _, _)

\* The loop of check_byte_order_str from character i on; taken is the set
\* of digits seen so far (the taken[] array).
CheckDigits(s, length, i, taken) ==
    IF i > Len(s) THEN "OK"
    ELSE IF s[i] \notin DOMAIN DigitVal THEN "BAD_DATA"
    ELSE IF DigitVal[s[i]] > length - 1 THEN "BAD_DATA"
    ELSE IF DigitVal[s[i]] \in taken THEN "BAD_DATA"
    ELSE CheckDigits(s, length, i + 1, taken \cup {DigitVal[s[i]]})

\* check_byte_order_str: a byte order string is a sequence of characters.
CheckByteOrderStr(s, length) ==
    IF Len(s) # length
    THEN IF Len(s) < length THEN "TOO_SMALL" ELSE "TOO_LARGE"
    ELSE CheckDigits(s, length, 1, {})

\* order[i] = (byte_order_str[i] - '0') & (width - 1)
ParseOrder(s, n) == [i \in 0..n - 1 |-> DigitVal[s[i + 1]] & (n - 1)]

\* The range test of each string parameter, and the value it stores
\* (str_pad_to_multiple_bytes 0 means 1).
StrParamOk(p, v) ==
    CASE p \in {"str_is_counted", "str_is_fixed_length",
                "str_is_zero_terminated", "str_is_byte_swapped"} -> v \in {0, 1}
      [] p = "str_count_word_bytes" -> v \in {0, 1, 2, 4, 8}
      [] p = "str_pad_to_multiple_bytes_EXPERIMENTAL" -> v \in {0, 1, 2, 4}
      [] OTHER -> v >= 0

StrParamVal(p, v) ==
    IF p = "str_pad_to_multiple_bytes_EXPERIMENTAL" /\ v = 0 THEN 1 ELSE v

\* The status of each step of set_tag_byte_order, in the order of the code.
ByteOrderSteps(a) ==
    [i \in 1..Len(OrderFams) |->
        IF a[OrderFams[i]] = Absent THEN "OK"
        ELSE CheckByteOrderStr(a[OrderFams[i]], Width[OrderFams[i]])]
    \o [i \in 1..Len(StrParams) |->
        IF a[StrParams[i]] = Absent \/ StrParamOk(StrParams[i], a[StrParams[i]])
        THEN "OK" ELSE "BAD_PARAM"]

\* The descriptor after every override present has been applied.
Overridden(bo, a) ==
    [bo EXCEPT
        !.order = [f \in DOMAIN bo.order |->
                     IF a[f] = Absent THEN bo.order[f] ELSE ParseOrder(a[f], Width[f])],
        !.str = [p \in DOMAIN bo.str |->
                     IF a[p] = Absent THEN bo.str[p] ELSE StrParamVal(p, a[p])]]

\* The consistency checks at the end of set_tag_byte_order; the total length
\* is compared with a sum of unsigned ints.
StrConsistent(s) ==
    /\ s.str_is_counted = 1 => s.str_count_word_bytes # 0
    /\ s.str_is_fixed_length = 1 => s.str_total_length # 0
    /\ s.str_total_length > 0 =>
          UIntSum(s.str_is_zero_terminated + s.str_max_capacity
                  + s.str_count_word_bytes + s.str_pad_bytes) <= s.str_total_length

(***************************************************************************)
(* set_tag_byte_order: without an override the shared default is kept;     *)
(* otherwise a copy is overridden field by field, returning at the first   *)
(* bad field, and the string definition is checked as a whole.             *)
(***************************************************************************)
SetTagByteOrder(bo, a) ==
    LET steps == ByteOrderSteps(a)
        bad   == SelectInSeq(steps, LAMBDA r : r # "OK")
        nbo   == Overridden(bo, a)
    IN  IF \A k \in DOMAIN a : a[k] = Absent THEN [bo |-> bo, rc |-> "OK"]
        ELSE IF bad # 0 THEN [bo |-> bo, rc |-> steps[bad]]
        ELSE IF ~StrConsistent(nbo.str) THEN [bo |-> bo, rc |-> "BAD_PARAM"]
        ELSE [bo |-> [nbo EXCEPT !.str_is_defined =
                        IF nbo.str.str_is_counted = 1 \/ nbo.str.str_is_zero_terminated = 1
                        THEN 1 ELSE @],
              rc |-> "OK"]

(***************************************************************************)
(* The tag: the buffer (a function from 0..size-1 to bytes, or NoData),    *)
(* tag->size, tag->status, tag_is_dirty, tag->bit of a bit tag, and the    *)
(* byte-order descriptor.  oob is a ghost: it becomes TRUE when a call     *)
(* touches a byte outside the buffer, which the C code does silently.      *)
(***************************************************************************)
Byte == 0..255

InBuf(t, i) == t.data # NoData /\ i \in 0..t.size - 1

\* Mark an access to the buffer indices in idx.
Touch(t, idx) == [t EXCEPT !.oob = @ \/ \E i \in idx : ~InBuf(t, i)]

\* tag->data[i]; what lies outside the buffer is abstracted to 0.
ByteAt(t, i) == IF InBuf(t, i) THEN t.data[i] ELSE 0

\* The buffer indices offset + order[i] of a field.
Field(off, order) == [i \in DOMAIN order |-> off + order[i]]

\* The order table of a width: int8 accesses data[offset] directly.
OrderOf(t, f) == IF f = "int8" THEN [i \in 0..0 |-> 0] ELSE t.bo.order[f]

\* The getters' sum of shifted bytes: byte i is read from data[at[i]].
Load(t, at) == [i \in 1..Cardinality(DOMAIN at) |-> ByteAt(t, at[i - 1])]

\* The setters' assignments data[at[i]] = byte i, done for i = 0, 1, ...
Store(t, at, val) ==
    LET t1 == Touch(t, Range(at))
        wr(j) == {i \in DOMAIN at : at[i] = j}
    IN  [t1 EXCEPT !.data = [j \in DOMAIN t1.data |->
                               IF wr(j) = {} THEN t1.data[j] ELSE val[Max(wr(j)) + 1]]]

NonZero(val) == \E i \in DOMAIN val : val[i] # 0

\* The bounds test (offset >= 0) && (offset + sizeof(T) <= tag->size), with
\* sum the value the build gives offset + sizeof(T).
InBounds(t, off, sum) == off >= 0 /\ sum <= t.size

(***************************************************************************)
(* plc_tag_get_bit_impl / plc_tag_set_bit_impl: a bit tag always uses its  *)
(* own bit; real_offset / 8 selects the byte.                              *)
(***************************************************************************)
RealBit(t, offset_bit) == IF t.bit # NoBit THEN t.bit ELSE offset_bit

PlcTagGetBitImpl(t, offset_bit) ==
    LET b == RealBit(t, offset_bit) IN
    IF t.data = NoData THEN Res([t EXCEPT !.status = "NO_DATA"], "NO_DATA")
    ELSE IF b >= 0 /\ b \div 8 < t.size
    THEN Res([Touch(t, {b \div 8}) EXCEPT !.status = "OK"],
             (ByteAt(t, b \div 8) \div 2^(b % 8)) % 2)
    ELSE Res([t EXCEPT !.status = "OUT_OF_BOUNDS"], "OUT_OF_BOUNDS")

PlcTagSetBitImpl(t, offset_bit, val) ==
    LET b == RealBit(t, offset_bit)
        old == ByteAt(t, b \div 8)
    IN
    IF t.data = NoData THEN Res([t EXCEPT !.status = "NO_DATA"], "NO_DATA")
    ELSE IF b >= 0 /\ b \div 8 < t.size
    THEN LET t1 == Touch(t, {b \div 8}) IN
         Res([t1 EXCEPT !.tag_is_dirty = @ \/ AutoSync, !.status = "OK",
                        !.data[b \div 8] = IF val # 0 THEN old | 2^(b % 8)
                                           ELSE old & (255 - 2^(b % 8))], "OK")
    ELSE Res([t EXCEPT !.status = "OUT_OF_BOUNDS"], "OUT_OF_BOUNDS")

(***************************************************************************)
(* The critical blocks of the typed accessors.  Integer getters of a bit   *)
(* tag return the bit (or keep their error value when the bit is out of    *)
(* bounds); integer setters of a bit tag set the tag's bit to val != 0;    *)
(* float accessors refuse bit tags.  noData and bad are the values the     *)
(* getter returns without data and on any other error.                     *)
(***************************************************************************)
GetInteger(t, f, off, sum, noData, bad) ==
    LET at == Field(off, OrderOf(t, f)) IN
    IF t.data = NoData THEN Res([t EXCEPT !.status = "NO_DATA"], noData)
    ELSE IF t.bit # NoBit
    THEN LET r == PlcTagGetBitImpl(t, t.bit)
         IN  Res(r.tag, IF r.rc \in {0, 1} THEN r.rc ELSE bad)
    ELSE IF InBounds(t, off, sum)
    THEN Res([Touch(t, Range(at)) EXCEPT !.status = "OK"], Load(t, at))
    ELSE Res([t EXCEPT !.status = "OUT_OF_BOUNDS"], bad)

SetInteger(t, f, off, val, sum) ==
    LET at == Field(off, OrderOf(t, f)) IN
    IF t.data = NoData THEN Res([t EXCEPT !.status = "NO_DATA"], "NO_DATA")
    ELSE IF t.bit # NoBit
    THEN PlcTagSetBitImpl(t, 0, IF NonZero(val) THEN 1 ELSE 0)
    ELSE IF InBounds(t, off, sum)
    THEN Res([Store(t, at, val) EXCEPT !.tag_is_dirty = @ \/ AutoSync,
                                       !.status = "OK"], "OK")
    ELSE Res([t EXCEPT !.status = "OUT_OF_BOUNDS"], "OUT_OF_BOUNDS")

\* Mutant: the float getters reading through the integer order tables.
GetFloatIntOrder(t, f, off, sum) ==
    LET at == Field(off, OrderOf(t, IF f = "float32" THEN "int32" ELSE "int64")) IN
    IF t.data = NoData THEN Res([t EXCEPT !.status = "NO_DATA"], "FMIN")
    ELSE IF t.bit # NoBit THEN Res([t EXCEPT !.status = "UNSUPPORTED"], "FMIN")
    ELSE IF InBounds(t, off, sum)
    THEN Res([Touch(t, Range(at)) EXCEPT !.status = "OK"], Load(t, at))
    ELSE Res([t EXCEPT !.status = "OUT_OF_BOUNDS"], "FMIN")

GetFloat(t, f, off, sum) ==
    LET at == Field(off, OrderOf(t, f)) IN
    IF t.data = NoData THEN Res([t EXCEPT !.status = "NO_DATA"], "FMIN")
    ELSE IF t.bit # NoBit THEN Res([t EXCEPT !.status = "UNSUPPORTED"], "FMIN")
    ELSE IF InBounds(t, off, sum)
    THEN Res([Touch(t, Range(at)) EXCEPT !.status = "OK"], Load(t, at))
    ELSE Res([t EXCEPT !.status = "OUT_OF_BOUNDS"], "FMIN")

SetFloat(t, f, off, val, sum) ==
    LET at == Field(off, OrderOf(t, f)) IN
    IF t.data = NoData THEN Res([t EXCEPT !.status = "NO_DATA"], "NO_DATA")
    ELSE IF t.bit # NoBit THEN Res([t EXCEPT !.status = "UNSUPPORTED"], "UNSUPPORTED")
    ELSE IF InBounds(t, off, sum)
    THEN Res([Store(t, at, val) EXCEPT !.tag_is_dirty = @ \/ AutoSync,
                                       !.status = "OK"], "OK")
    ELSE Res([t EXCEPT !.status = "OUT_OF_BOUNDS"], "OUT_OF_BOUNDS")

(***************************************************************************)
(* plc_tag_set_size: a negative size is refused before the lock; inside    *)
(* it, resize_tag_buffer_unsafe reallocates the buffer.  mem_realloc keeps *)
(* the bytes both sizes share, adds bytes of unspecified content, and may  *)
(* fail, leaving the tag as it was.                                        *)
(***************************************************************************)
\* Mutant: tag->size updated before mem_realloc's result is checked.
ResizeSizeFirst(t, new_size, grown, ok) ==
    IF ~ok THEN Res([t EXCEPT !.status = "NO_MEM", !.size = new_size], "NO_MEM")
    ELSE Res([t EXCEPT !.size = new_size,
                       !.data = [i \in 0..new_size - 1 |->
                                   IF InBuf(t, i) THEN t.data[i] ELSE grown]], "OK")

ResizeTagBufferUnsafe(t, new_size, grown, ok) ==
    IF ~ok THEN Res([t EXCEPT !.status = "NO_MEM"], "NO_MEM")
    ELSE Res([t EXCEPT !.size = new_size,
                       !.data = [i \in 0..new_size - 1 |->
                                   IF InBuf(t, i) THEN t.data[i] ELSE grown]], "OK")

PlcTagSetSize(t, new_size, grown, ok) ==
    IF new_size < 0 THEN Res(t, "BAD_PARAM")
    ELSE ResizeTagBufferUnsafe(t, new_size, grown, ok)

\* plc_tag_get_size
PlcTagGetSize(t) == Res([t EXCEPT !.status = "OK"], t.size)

-----------------------------------------------------------------------------
VARIABLES
    attrs,    \* the attributes the tag was created with
    created,  \* set_tag_byte_order succeeded, so the tag has an id
    tag,      \* the tag record
    last,     \* ghost: the field and value of the last successful set
    got       \* ghost: the field and result of the last get since then

vars == <<attrs, created, tag, last, got>>

\* The value the model writes at width f: bytes 1, 2, ..., n, distinct so
\* that a wrong order shows in the value read back.  (Clearing a bit is
\* done by plc_tag_set_bit with 0.)
Vals(f) == {[i \in 1..Width[f] |-> i]}

Init ==
    \E a \in Attrs, b \in BitTags, alloc \in BOOLEAN :
        LET r == SetTagByteOrder(DefaultByteOrder, a) IN
        /\ attrs = a
        /\ created = (r.rc = "OK")
        /\ tag = [data |-> IF alloc THEN [i \in 0..InitSize - 1 |-> 0] ELSE NoData,
                  size |-> IF alloc THEN InitSize ELSE 0,
                  status |-> "OK", tag_is_dirty |-> FALSE,
                  bit |-> b, bo |-> r.bo, oob |-> FALSE]
        /\ last = NoWrite
        /\ got = NoWrite

\* The field a getter or setter of width f at offset off really addresses,
\* with the value read or written there.
Target(f, off, v) ==
    IF tag.bit # NoBit THEN [fam |-> "bit", off |-> tag.bit, val |-> v]
    ELSE [fam |-> f, off |-> off, val |-> v]

\* A getter call: the result is noted with the field it was read from.
Get(f, off, r) ==
    /\ created
    /\ tag' = r.tag
    /\ got' = [Target(f, off, r.rc) EXCEPT !.fam = IF r.tag.status = "OK" THEN @
                                                  ELSE "failed"]
    /\ UNCHANGED <<attrs, created, last>>

\* A setter call: a successful one becomes the last write.
Set(f, off, val, r) ==
    /\ created
    /\ tag' = r.tag
    /\ last' = IF r.rc # "OK" THEN last
               ELSE Target(f, off, IF f = "bit" THEN (IF val # 0 THEN 1 ELSE 0)
                                   ELSE IF tag.bit = NoBit THEN val
                                   ELSE IF NonZero(val) THEN 1 ELSE 0)
    /\ got' = NoWrite
    /\ UNCHANGED <<attrs, created>>


(***************************************************************************)
(* One action per public accessor: plc_tag_{get,set}_{uint,int}{64,32,16,8} *)
(* and plc_tag_{get,set}_float{64,32}.                                     *)
(***************************************************************************)
PlcTagGetUint64 ==
    \E off \in Offsets : \E sum \in CIntValues(off + 8) :
        Get("int64", off, GetInteger(tag, "int64", off, sum, "UMAX", "UMAX"))

PlcTagSetUint64 ==
    \E off \in Offsets, v \in Vals("int64") : \E sum \in CIntValues(off + 8) :
        Set("int64", off, v, SetInteger(tag, "int64", off, v, sum))

PlcTagGetInt64 ==
    \E off \in Offsets : \E sum \in CIntValues(off + 8) :
        Get("int64", off, GetInteger(tag, "int64", off, sum, "ERR_NO_DATA", "IMIN"))

PlcTagSetInt64 ==
    \E off \in Offsets, v \in Vals("int64") : \E sum \in CIntValues(off + 8) :
        Set("int64", off, v, SetInteger(tag, "int64", off, v, sum))

PlcTagGetUint32 ==
    \E off \in Offsets : \E sum \in CIntValues(off + 4) :
        Get("int32", off, GetInteger(tag, "int32", off, sum, "UMAX", "UMAX"))

PlcTagSetUint32 ==
    \E off \in Offsets, v \in Vals("int32") : \E sum \in CIntValues(off + 4) :
        Set("int32", off, v, SetInteger(tag, "int32", off, v, sum))

PlcTagGetInt32 ==
    \E off \in Offsets : \E sum \in CIntValues(off + 4) :
        Get("int32", off, GetInteger(tag, "int32", off, sum, "ERR_NO_DATA", "IMIN"))

PlcTagSetInt32 ==
    \E off \in Offsets, v \in Vals("int32") : \E sum \in CIntValues(off + 4) :
        Set("int32", off, v, SetInteger(tag, "int32", off, v, sum))

PlcTagGetUint16 ==
    \E off \in Offsets : \E sum \in CIntValues(off + 2) :
        Get("int16", off, GetInteger(tag, "int16", off, sum, "UMAX", "UMAX"))

PlcTagSetUint16 ==
    \E off \in Offsets, v \in Vals("int16") : \E sum \in CIntValues(off + 2) :
        Set("int16", off, v, SetInteger(tag, "int16", off, v, sum))

PlcTagGetInt16 ==
    \E off \in Offsets : \E sum \in CIntValues(off + 2) :
        Get("int16", off, GetInteger(tag, "int16", off, sum, "ERR_NO_DATA", "IMIN"))

PlcTagSetInt16 ==
    \E off \in Offsets, v \in Vals("int16") : \E sum \in CIntValues(off + 2) :
        Set("int16", off, v, SetInteger(tag, "int16", off, v, sum))

PlcTagGetUint8 ==
    \E off \in Offsets : \E sum \in CIntValues(off + 1) :
        Get("int8", off, GetInteger(tag, "int8", off, sum, "UMAX", "UMAX"))

PlcTagSetUint8 ==
    \E off \in Offsets, v \in Vals("int8") : \E sum \in CIntValues(off + 1) :
        Set("int8", off, v, SetInteger(tag, "int8", off, v, sum))

PlcTagGetInt8 ==
    \E off \in Offsets : \E sum \in CIntValues(off + 1) :
        Get("int8", off, GetInteger(tag, "int8", off, sum, "ERR_NO_DATA", "IMIN"))

PlcTagSetInt8 ==
    \E off \in Offsets, v \in Vals("int8") : \E sum \in CIntValues(off + 1) :
        Set("int8", off, v, SetInteger(tag, "int8", off, v, sum))

PlcTagGetFloat64 ==
    \E off \in Offsets : \E sum \in CIntValues(off + 8) :
        Get("float64", off, GetFloat(tag, "float64", off, sum))

PlcTagSetFloat64 ==
    \E off \in Offsets, v \in Vals("float64") : \E sum \in CIntValues(off + 8) :
        Set("float64", off, v, SetFloat(tag, "float64", off, v, sum))

PlcTagGetFloat32 ==
    \E off \in Offsets : \E sum \in CIntValues(off + 4) :
        Get("float32", off, GetFloat(tag, "float32", off, sum))

PlcTagSetFloat32 ==
    \E off \in Offsets, v \in Vals("float32") : \E sum \in CIntValues(off + 4) :
        Set("float32", off, v, SetFloat(tag, "float32", off, v, sum))

PlcTagGetBit ==
    \E ob \in BitOffsets : Get("bit", ob, PlcTagGetBitImpl(tag, ob))

PlcTagSetBit ==
    \E ob \in BitOffsets, v \in {0, 1} : Set("bit", ob, v, PlcTagSetBitImpl(tag, ob, v))

PlcTagGetSizeCall ==
    /\ created
    /\ tag' = PlcTagGetSize(tag).tag
    /\ UNCHANGED <<attrs, created, last, got>>

\* Bytes a shrink cuts off are lost: the last write is forgotten when its
\* field does not fit in the new size.
PlcTagSetSizeCall ==
    \E n \in NewSizes, g \in GrowBytes, ok \in BOOLEAN :
        LET r == PlcTagSetSize(tag, n, g, ok) IN
        /\ created
        /\ tag' = r.tag
        /\ last' = IF last = NoWrite \/ r.rc # "OK" THEN last
                   ELSE IF last.fam = "bit" /\ last.off \div 8 < n THEN last
                   ELSE IF last.fam # "bit" /\ last.off + Width[last.fam] <= n THEN last
                   ELSE NoWrite
        /\ UNCHANGED <<attrs, created, got>>

\* Every call on a tag whose creation failed finds no tag (lookup_tag
\* returns NULL) and returns without touching anything.
PlcTagNotFound ==
    /\ ~created
    /\ UNCHANGED vars

Next ==
    \/ PlcTagGetUint64 \/ PlcTagSetUint64 \/ PlcTagGetInt64 \/ PlcTagSetInt64
    \/ PlcTagGetUint32 \/ PlcTagSetUint32 \/ PlcTagGetInt32 \/ PlcTagSetInt32
    \/ PlcTagGetUint16 \/ PlcTagSetUint16 \/ PlcTagGetInt16 \/ PlcTagSetInt16
    \/ PlcTagGetUint8 \/ PlcTagSetUint8 \/ PlcTagGetInt8 \/ PlcTagSetInt8
    \/ PlcTagGetFloat64 \/ PlcTagSetFloat64 \/ PlcTagGetFloat32 \/ PlcTagSetFloat32
    \/ PlcTagGetBit \/ PlcTagSetBit \/ PlcTagGetSizeCall \/ PlcTagSetSizeCall
    \/ PlcTagNotFound

Spec == Init /\ [][Next]_vars

-----------------------------------------------------------------------------
TypeOK ==
    /\ created \in BOOLEAN
    /\ tag.size \in Nat
    /\ tag.data \in {NoData} \cup [0..tag.size - 1 -> Byte]
    /\ tag.oob \in BOOLEAN /\ tag.tag_is_dirty \in BOOLEAN
    /\ last = NoWrite \/ last.fam \in DOMAIN Width \cup {"bit"}
    /\ got = NoWrite \/ got.fam \in DOMAIN Width \cup {"bit", "failed"}

(***************************************************************************)
(* The permutation strings and parameter ranges the attribute description *)
(* admits: a byte order string has as many digits as the width and uses   *)
(* each of 0..width-1 once; the string parameters lie in their ranges; a   *)
(* counted string has a count word, a fixed-length string a total length, *)
(* and the parts of a string (terminator, capacity, count word, padding)   *)
(* fit in its total length.                                                *)
(***************************************************************************)
IsPermutationStr(s, n) ==
    /\ Len(s) = n
    /\ \A i \in 1..n : s[i] \in DOMAIN DigitVal
    /\ {DigitVal[s[i]] : i \in 1..n} = 0..n - 1

ParamRange(p) ==
    CASE p \in {"str_is_counted", "str_is_fixed_length",
                "str_is_zero_terminated", "str_is_byte_swapped"} -> {0, 1}
      [] p = "str_count_word_bytes" -> {0, 1, 2, 4, 8}
      [] p = "str_pad_to_multiple_bytes_EXPERIMENTAL" -> {0, 1, 2, 4}
      [] OTHER -> Nat

AttrsValid(a) ==
    LET s == [p \in Range(StrParams) |->
                IF a[p] = Absent THEN DefaultByteOrder.str[p] ELSE a[p]]
    IN  /\ \A f \in Range(OrderFams) : a[f] # Absent => IsPermutationStr(a[f], Width[f])
        /\ \A p \in Range(StrParams) : a[p] # Absent => a[p] \in ParamRange(p)
        /\ s.str_is_counted = 1 => s.str_count_word_bytes > 0
        /\ s.str_is_fixed_length = 1 => s.str_total_length > 0
        /\ s.str_total_length > 0 =>
              s.str_is_zero_terminated + s.str_max_capacity
                + s.str_count_word_bytes + s.str_pad_bytes <= s.str_total_length

(* plc_tag_create (through set_tag_byte_order and check_byte_order_str)    *)
(* creates the tag exactly when its byte order and string attributes are  *)
(* valid in the sense above.  The code breaks it: the unsigned sum of the  *)
(* string parts (lib.c:4190) wraps, so MCWrapAttrs is accepted.  No run    *)
(* checks it; it states the flaw.                                          *)
AttrCheckExact == created <=> AttrsValid(attrs)

(* No accessor reads or writes a byte outside tag->data[0..size-1]: the    *)
(* bounds tests of the typed accessors and of the bit functions hold for  *)
(* every offset, byte order and size a tag can have.  The typed accessors *)
(* break it at offsets within sizeof(T) of INT_MAX (MCFarOffsets), where  *)
(* offset + sizeof(T) wraps (lib.c:2314).  The tag_string run checks it    *)
(* for the string and raw-byte calls.                                      *)
NoOutOfBounds == ~tag.oob

(* The round-trip law: a get of the field the last successful set wrote   *)
(* (same width, same offset, or the same bit) returns the value written,  *)
(* whatever byte order the tag was created with and whatever resizes     *)
(* happened in between that kept the field.                               *)
RoundTrip ==
    (got # NoWrite /\ last # NoWrite /\ got.fam = last.fam /\ got.off = last.off)
        => got.val = last.val

=============================================================================
