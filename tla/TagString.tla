------------------------------ MODULE TagString ------------------------------
(***************************************************************************)
(* The string and raw-byte accessors of lib/lib.c on top of the tag buffer *)
(* of TagBuffer: plc_tag_get_string, plc_tag_set_string, the capacity,     *)
(* length and total-length queries, plc_tag_set_raw_bytes and              *)
(* plc_tag_get_raw_bytes, with the helpers they call under the API mutex   *)
(* (get_string_length_unsafe, get_string_total_length_unsafe,              *)
(* get_new_string_total_length_unsafe, resize_tag_buffer_at_offset_unsafe).*)
(*                                                                         *)
(* A string is the tuple of its bytes (none of them 0, as str_length       *)
(* requires).  Offsets are non-negative: the string accessors compute      *)
(* indices in size_t, whose width decides what a negative offset does.    *)
(***************************************************************************)
EXTENDS TagBuffer

CONSTANTS
    StrOffsets, \* string_start_offset / raw offset passed to the accessors
    Strs,       \* the strings passed to plc_tag_set_string
    BufLen,     \* buffer_length of plc_tag_get_string
    RawBufs,    \* the buffers passed to plc_tag_set_raw_bytes
    InitBufs,   \* the buffer contents a read can leave, or NoData before one
    AllowResize,\* the values allow_field_resize can have
    MaxSize     \* bound: the largest buffer a set_string may leave

ASSUME StrOffsets \subseteq Nat /\ BufLen \in Nat

\* The string descriptor fields of a tag.
SD(t) == t.bo.str

\* A little-endian byte tuple as an unsigned number.
LEValue(b) == FoldLeft(LAMBDA acc, x : acc * 256 + x, 0, Reverse(b))

\* The w little-endian bytes of n: (n >> 8*i) & 0xFF.
LEBytes(n, w) == [i \in 1..w |-> (n \div 2^(8 * (i - 1))) % 256]

\* The order table the count word of width cwb is read and written with.
CountOrder(t, cwb) ==
    CASE cwb = 1 -> [i \in 0..0 |-> 0]
      [] cwb = 2 -> t.bo.order["int16"]
      [] OTHER   -> t.bo.order["int32"]

\* A little-endian byte tuple read as a two's complement number ((int16_t),
\* (int32_t)): the top byte carries the sign.
LESigned(b) ==
    LET n   == Len(b)
        top == IF b[n] >= 128 THEN b[n] - 256 ELSE b[n]
    IN  LEValue(SubSeq(b, 1, n - 1)) + top * 2^(8 * (n - 1))

\* The index of character i of a string whose data starts at start:
\* get_string and the zero scan use i ^ str_is_byte_swapped.
SwapIndex(t, i) == i ^^ SD(t).str_is_byte_swapped

RECURSIVE ScanZT(_, _, _)

\* The scan loop of get_string_length_unsafe: i runs from offset + cwb
\* while i < size, reading data[(len ^ swapped) + offset + cwb].
ScanZT(t, off, len) ==
    LET i   == off + SD(t).str_count_word_bytes + len
        idx == SwapIndex(t, len) + off + SD(t).str_count_word_bytes
    IN  IF i >= t.size THEN Res(t, len)
        ELSE IF ByteAt(t, idx) = 0 THEN Res(Touch(t, {idx}), len)
        ELSE ScanZT(Touch(t, {idx}), off, len + 1)

\* get_string_length_unsafe: the count word of a counted string (a 2-byte
\* one read as int16_t, a 4-byte one as int32_t, any other width 0), the
\* scan of a zero-terminated one, otherwise 0.  No offset is checked.
GetStringLengthUnsafe(t, off) ==
    LET cwb == SD(t).str_count_word_bytes
        at  == Field(off, CountOrder(t, cwb))
        b   == Load(t, at)
    IN  IF SD(t).str_is_counted = 1
        THEN IF cwb \in {1, 2, 4}
             THEN Res(Touch(t, Range(at)), IF cwb = 1 THEN b[1] ELSE LESigned(b))
             ELSE Res(t, 0)
        ELSE IF SD(t).str_is_zero_terminated = 1 THEN ScanZT(t, off, 0)
        ELSE Res(t, 0)

\* get_string_total_length_unsafe: count word + (capacity if fixed length,
\* else the current length) + terminator + pad bytes.
GetStringTotalLengthUnsafe(t, off) ==
    LET l == IF SD(t).str_is_fixed_length = 1 THEN Res(t, SD(t).str_max_capacity)
             ELSE GetStringLengthUnsafe(t, off)
    IN  Res(l.tag, SD(t).str_count_word_bytes + l.rc
                   + SD(t).str_is_zero_terminated + SD(t).str_pad_bytes)

\* get_new_string_total_length_unsafe: the declared total of a fixed-length
\* string, else length + count word + terminator + pad bytes, plus one when
\* a byte-swapped string has odd length.
GetNewStringTotalLengthUnsafe(t, s) ==
    IF SD(t).str_is_fixed_length = 1
    THEN IF SD(t).str_total_length # 0
         THEN [rc |-> "OK", total |-> SD(t).str_total_length]
         ELSE [rc |-> "BAD_CONFIG", total |-> 0]
    ELSE [rc |-> "OK",
          total |-> Len(s) + SD(t).str_count_word_bytes + SD(t).str_is_zero_terminated
                    + SD(t).str_pad_bytes
                    + (IF SD(t).str_is_byte_swapped = 1 /\ Len(s) % 2 = 1 THEN 1 ELSE 0)]

(***************************************************************************)
(* resize_tag_buffer_at_offset_unsafe: the bytes from old_split to the end *)
(* of the buffer are moved to new_split.  When shrinking they are moved    *)
(* first and the buffer reallocated after; when growing the buffer is      *)
(* reallocated first (a failure returns before anything moved).  A failed  *)
(* reallocation after a shrinking move leaves the data moved.              *)
(***************************************************************************)
\* Mutant: a shrink that reallocates before it moves the tail.
ResizeAtOffsetShrinkFirst(t, old, new, grown, ok) ==
    IF old < 0 \/ old > t.size \/ new < 0 THEN Res(t, "OUT_OF_BOUNDS")
    ELSE IF new = old THEN Res(t, "OK")
    ELSE IF new < old
    THEN LET r == ResizeTagBufferUnsafe(t, t.size - (old - new), grown, ok)
             src == {j + old - new : j \in new..t.size - 1 - (old - new)}
         IN  Res([Touch(r.tag, src) EXCEPT !.data = [j \in DOMAIN @ |->
                     IF j >= new THEN ByteAt(r.tag, j + old - new) ELSE @[j]]], r.rc)
    ELSE LET r == ResizeTagBufferUnsafe(t, t.size + (new - old), grown, ok) IN
         IF r.rc # "OK" THEN r
         ELSE Res([r.tag EXCEPT !.data = [j \in DOMAIN @ |->
                     IF j >= new THEN @[j - (new - old)] ELSE @[j]]], "OK")

ResizeTagBufferAtOffsetUnsafe(t, old, new, grown, ok) ==
    IF old < 0 \/ old > t.size \/ new < 0 THEN Res(t, "OUT_OF_BOUNDS")
    ELSE IF new = old THEN Res(t, "OK")
    ELSE IF new < old
    THEN LET moved == [t EXCEPT !.data = [j \in DOMAIN @ |->
                          IF j >= new /\ j + old - new < t.size THEN @[j + old - new]
                          ELSE @[j]]]
         IN  ResizeTagBufferUnsafe(moved, t.size - (old - new), grown, ok)
    ELSE LET r == ResizeTagBufferUnsafe(t, t.size + (new - old), grown, ok) IN
         IF r.rc # "OK" THEN r
         ELSE Res([r.tag EXCEPT !.data = [j \in DOMAIN @ |->
                     IF j >= new THEN @[j - (new - old)] ELSE @[j]]], "OK")

\* The zeroing loop of plc_tag_set_string: data[i] = 0 for i from offset
\* while i < offset + new total and i < size.
ZeroArea(t, from, to) ==
    [t EXCEPT !.data = [j \in DOMAIN @ |-> IF j >= from /\ j < to THEN 0 ELSE @[j]]]

\* The count word of plc_tag_set_string: the last index is checked against
\* the size; a 1-, 2- or 4-byte count (through int16_order or int32_order)
\* refuses a length it cannot hold; any other width is unsupported.
WriteCount(t, off, len) ==
    LET cwb == SD(t).str_count_word_bytes IN
    IF off + cwb > t.size THEN Res(t, "OUT_OF_BOUNDS")
    ELSE IF cwb \notin {1, 2, 4} THEN Res(t, "UNSUPPORTED")
    ELSE IF cwb < 4 /\ len >= 2^(8 * cwb) THEN Res(t, "TOO_LARGE")
    ELSE Res(Store(t, Field(off, CountOrder(t, cwb)), LEBytes(len, cwb)), "OK")

\* The index plc_tag_set_string writes character i (from 0) of a string to.
SetCharIndex(t, start, i) ==
    start + (IF SD(t).str_is_byte_swapped = 0 THEN i
             ELSE IF i % 2 = 1 THEN i - 1 ELSE i + 1)

RECURSIVE CopyChars(_, _, _, _)

\* The copy loop of plc_tag_set_string from character i on: an index past
\* the buffer stops it with OUT_OF_BOUNDS, the bytes already copied stay.
CopyChars(t, start, s, i) ==
    IF i >= Len(s) THEN Res(t, "OK")
    ELSE IF SetCharIndex(t, start, i) >= t.size THEN Res(t, "OUT_OF_BOUNDS")
    ELSE CopyChars([t EXCEPT !.data[SetCharIndex(t, start, i)] = s[i + 1]], start, s, i + 1)

(***************************************************************************)
(* plc_tag_set_string.  The checks before the lock (strings defined, not a *)
(* bit tag, within str_max_capacity when there is one) do not look at      *)
(* tag->data.  Under the lock the old and new totals are compared (only a  *)
(* tag with allow_field_resize may change the size of the field), the      *)
(* field is resized in place and zeroed, the count word, the characters    *)
(* and the terminator are written in that order, and the first failure     *)
(* returns with whatever the earlier steps wrote.  A negative old total is *)
(* returned as the result (the number itself, which the caller reads as an *)
(* error code: "NEG_TOTAL" here); a terminator that does not fit returns   *)
(* OUT_OF_BOUNDS without setting the status.                               *)
(***************************************************************************)
PlcTagSetString(t, off, s, grown, ok) ==
    LET cwb   == SD(t).str_count_word_bytes
        start == off + (IF SD(t).str_is_counted = 1 THEN cwb ELSE 0)
        o     == GetStringTotalLengthUnsafe(t, off)
        nt    == GetNewStringTotalLengthUnsafe(t, s)
        n     == nt.total
        r     == ResizeTagBufferAtOffsetUnsafe(o.tag, off + o.rc, off + n, grown, ok)
        z     == ZeroArea(r.tag, off, off + n)
        c     == IF SD(t).str_is_counted = 1 THEN WriteCount(z, off, Len(s)) ELSE Res(z, "OK")
        w     == CopyChars(c.tag, start, s, 0)
        fail(x) == Res([x.tag EXCEPT !.status = x.rc], x.rc)
    IN  IF t.bo.str_is_defined = 0 \/ t.bit # NoBit
        THEN Res([t EXCEPT !.status = "UNSUPPORTED"], "UNSUPPORTED")
        ELSE IF SD(t).str_max_capacity # 0 /\ Len(s) > SD(t).str_max_capacity
        THEN Res([t EXCEPT !.status = "TOO_LARGE"], "TOO_LARGE")
        ELSE IF o.rc < 0 THEN Res(o.tag, "NEG_TOTAL")
        ELSE IF nt.rc # "OK" THEN Res(o.tag, nt.rc)
        ELSE IF ~t.allow_field_resize /\ n # o.rc THEN Res(o.tag, "NOT_ALLOWED")
        ELSE IF r.rc # "OK" THEN r
        ELSE IF c.rc # "OK" THEN fail(c)
        ELSE IF w.rc # "OK" THEN fail(w)
        ELSE IF SD(t).str_is_zero_terminated = 1 /\ start + Len(s) >= w.tag.size
        THEN Res(w.tag, "OUT_OF_BOUNDS")
        ELSE Res([w.tag EXCEPT !.tag_is_dirty = @ \/ AutoSync, !.status = "OK",
                               !.data = IF SD(t).str_is_zero_terminated = 1
                                        THEN [@ EXCEPT ![start + Len(s)] = 0] ELSE @],
                 "OK")

\* The checks shared by plc_tag_get_string and the capacity, length and
\* total-length queries before they take the lock: the error, or "OK".
StrQueryCheck(t) ==
    IF t.bo.str_is_defined = 0 \/ (t.data # NoData /\ t.bit # NoBit) THEN "UNSUPPORTED"
    ELSE IF t.data = NoData THEN "NO_DATA"
    ELSE "OK"

\* Mutant: plc_tag_get_string reading character i without the byte swap.
GetCharIndexNoSwap(t, off, i) == i + off + SD(t).str_count_word_bytes

\* The index plc_tag_get_string reads character i (from 0) from.
GetCharIndex(t, off, i) == SwapIndex(t, i) + off + SD(t).str_count_word_bytes

(***************************************************************************)
(* plc_tag_get_string: the checks before the lock, then under it the       *)
(* length from the buffer, at most buffer_length characters, a space test *)
(* on offset + count word + that many, and the copy of the characters,     *)
(* which stops with OUT_OF_BOUNDS (and the status untouched) at an index   *)
(* past the buffer.  val is what the caller's buffer holds on success.     *)
(***************************************************************************)
PlcTagGetString(t, off) ==
    LET l   == GetStringLengthUnsafe(t, off)
        max == IF BufLen < l.rc THEN BufLen ELSE l.rc
        idx(i) == GetCharIndex(t, off, i)
    IN  IF StrQueryCheck(t) # "OK"
        THEN Res([t EXCEPT !.status = StrQueryCheck(t)], StrQueryCheck(t))
        ELSE IF off + SD(t).str_count_word_bytes + max > t.size
        THEN Res([l.tag EXCEPT !.status = "OUT_OF_BOUNDS"], "OUT_OF_BOUNDS")
        ELSE IF \E i \in 0..max - 1 : idx(i) >= t.size THEN Res(l.tag, "OUT_OF_BOUNDS")
        ELSE [tag |-> [l.tag EXCEPT !.status = "OK"], rc |-> "OK",
              val |-> [i \in 1..max |-> ByteAt(t, idx(i - 1))]]

\* The raw byte accessors: data, buffer size and bit tag are checked before
\* the lock, the bounds inside it.
RawCheck(t, off, n) ==
    IF t.data = NoData THEN "NO_DATA"
    ELSE IF n <= 0 THEN "BAD_PARAM"
    ELSE IF t.bit # NoBit THEN "UNSUPPORTED"
    ELSE IF off >= 0 /\ off + n <= t.size THEN "OK"
    ELSE "OUT_OF_BOUNDS"

PlcTagSetRawBytes(t, off, buf) ==
    LET rc == RawCheck(t, off, Len(buf)) IN
    IF rc = "BAD_PARAM" THEN Res(t, rc)
    ELSE IF rc # "OK" THEN Res([t EXCEPT !.status = rc], rc)
    ELSE Res([t EXCEPT !.tag_is_dirty = @ \/ AutoSync, !.status = "OK",
                       !.data = [j \in DOMAIN @ |->
                                   IF j >= off /\ j < off + Len(buf) THEN buf[j - off + 1]
                                   ELSE @[j]]], "OK")

PlcTagGetRawBytes(t, off, n) ==
    LET rc == RawCheck(t, off, n) IN
    IF rc = "BAD_PARAM" THEN Res(t, rc)
    ELSE Res([t EXCEPT !.status = rc], rc)

-----------------------------------------------------------------------------
(***************************************************************************)
(* The tag is created with one of the attribute sets (its byte order as    *)
(* set_tag_byte_order builds it) and allow_field_resize; its buffer is     *)
(* still NULL (no read has completed) or holds what a read left in it.     *)
(* last is the offset and string of the last successful set_string; got    *)
(* is the offset and result of the last get_string or get_string_length.   *)
(***************************************************************************)
StrInit ==
    \E a \in Attrs, b \in BitTags, resize \in AllowResize, buf \in InitBufs :
        LET r == SetTagByteOrder(DefaultByteOrder, a) IN
        /\ attrs = a
        /\ created = (r.rc = "OK")
        /\ tag = [data |-> IF buf = NoData THEN NoData
                          ELSE [i \in 0..Len(buf) - 1 |-> buf[i + 1]],
                  size |-> IF buf = NoData THEN 0 ELSE Len(buf),
                  status |-> "OK", tag_is_dirty |-> FALSE,
                  bit |-> b, bo |-> r.bo, oob |-> FALSE,
                  allow_field_resize |-> resize]
        /\ last = NoWrite
        /\ got = NoWrite

\* A set_string whose reallocation fails after the tail has been moved
\* down leaves the size as it was, so the size has no bound of its own.
\* last records the total size set_string gave the field.  A failed
\* set_string may already have resized, zeroed or partly written
\* the field: the last string written is then no longer known.
PlcTagSetStringCall ==
    \E off \in StrOffsets, s \in Strs, g \in GrowBytes, ok \in BOOLEAN :
        LET r == PlcTagSetString(tag, off, s, g, ok) IN
        /\ created
        /\ r.tag.size <= MaxSize
        /\ tag' = r.tag
        /\ last' = IF r.rc = "OK"
                   THEN [off |-> off, val |-> s,
                         total |-> GetNewStringTotalLengthUnsafe(tag, s).total]
                   ELSE IF r.tag.data = tag.data THEN last
                   ELSE NoWrite
        /\ got' = NoWrite
        /\ UNCHANGED <<attrs, created>>

PlcTagGetStringCall ==
    \E off \in StrOffsets :
        LET r == PlcTagGetString(tag, off) IN
        /\ created
        /\ tag' = r.tag
        /\ got' = IF r.rc = "OK" THEN [kind |-> "string", off |-> off, val |-> r.val]
                  ELSE got
        /\ UNCHANGED <<attrs, created, last>>

\* plc_tag_get_string_length, _capacity and _total_length: after the
\* checks, the length helpers under the lock; the status is only set on
\* an error.  The capacity is str_max_capacity when there is one.
PlcTagGetStringLength ==
    \E off \in StrOffsets :
        LET l == GetStringLengthUnsafe(tag, off) IN
        /\ created
        /\ IF StrQueryCheck(tag) # "OK"
           THEN tag' = [tag EXCEPT !.status = StrQueryCheck(tag)] /\ got' = got
           ELSE tag' = l.tag /\ got' = [kind |-> "length", off |-> off, val |-> l.rc]
        /\ UNCHANGED <<attrs, created, last>>

PlcTagGetStringCapacity ==
    \E off \in StrOffsets :
        /\ created
        /\ tag' = IF StrQueryCheck(tag) # "OK" THEN [tag EXCEPT !.status = StrQueryCheck(tag)]
                  ELSE IF SD(tag).str_max_capacity # 0 THEN tag
                  ELSE GetStringLengthUnsafe(tag, off).tag
        /\ UNCHANGED <<attrs, created, last, got>>

PlcTagGetStringTotalLength ==
    \E off \in StrOffsets :
        /\ created
        /\ tag' = IF StrQueryCheck(tag) # "OK" THEN [tag EXCEPT !.status = StrQueryCheck(tag)]
                  ELSE GetStringTotalLengthUnsafe(tag, off).tag
        /\ UNCHANGED <<attrs, created, last, got>>

\* A raw write may overwrite the string last written.
PlcTagSetRawBytesCall ==
    \E off \in StrOffsets, buf \in RawBufs :
        LET r == PlcTagSetRawBytes(tag, off, buf) IN
        /\ created
        /\ tag' = r.tag
        /\ last' = IF r.rc = "OK" THEN NoWrite ELSE last
        /\ got' = NoWrite
        /\ UNCHANGED <<attrs, created>>

PlcTagGetRawBytesCall ==
    \E off \in StrOffsets, buf \in RawBufs :
        /\ created
        /\ tag' = PlcTagGetRawBytes(tag, off, Len(buf)).tag
        /\ UNCHANGED <<attrs, created, last, got>>

StrNext ==
    \/ PlcTagSetStringCall \/ PlcTagGetStringCall
    \/ PlcTagGetStringLength \/ PlcTagGetStringCapacity \/ PlcTagGetStringTotalLength
    \/ PlcTagSetRawBytesCall \/ PlcTagGetRawBytesCall
    \/ PlcTagNotFound

StrSpec == StrInit /\ [][StrNext]_vars

-----------------------------------------------------------------------------
(* The string round-trip law (spec.md, round-trip laws): after a           *)
(* successful plc_tag_set_string of S at an offset, plc_tag_get_string at  *)
(* that offset returns S byte for byte and plc_tag_get_string_length       *)
(* returns its length, whatever framing (count word, terminator, byte     *)
(* swap, padding, fixed length) the tag's byte order has and however the   *)
(* field was resized in place.                                             *)
StrRoundTrip ==
    (got # NoWrite /\ last # NoWrite /\ got.off = last.off) =>
        /\ got.kind = "string" => got.val = last.val
        /\ got.kind = "length" => got.val = Len(last.val)

(* The two length computations of the string code agree: the total      *)
(* length get_string_total_length_unsafe finds for the field the last      *)
(* successful plc_tag_set_string wrote is the size set_string gave it      *)
(* (get_new_string_total_length_unsafe).  The next set_string at that      *)
(* offset resizes the field by the difference of the two, so when they     *)
(* disagree the buffer grows or shrinks and the bytes after the field      *)
(* move on every write.  The code breaks it for a byte-swapped string of  *)
(* odd length, whose pad byte only the second computation counts (the     *)
(* FIXME at lib.c:3759).  No run checks it; it states the flaw.            *)
FieldTotalAgrees ==
    last # NoWrite => GetStringTotalLengthUnsafe(tag, last.off).rc = last.total

=============================================================================
