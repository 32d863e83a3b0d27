---------------------------- MODULE MCTagBuffer ----------------------------
(***************************************************************************)
(* TagBuffer instantiated for TLC: a tag created with one of a few         *)
(* attribute strings (valid and invalid byte orders and string             *)
(* definitions), a buffer of eight bytes, offsets on both sides of every   *)
(* width's limit, a bit tag whose bit lies in byte 1.                      *)
(***************************************************************************)
EXTENDS TagBuffer

AttrKeys == Range(OrderFams) \cup Range(StrParams)

NoAttrs == [k \in AttrKeys |-> Absent]

With(k, v) == [NoAttrs EXCEPT ![k] = v]

\* Characters of a byte order string.
Str(s) == [i \in 1..Len(s) |-> s[i]]

MCAttrs ==
    { NoAttrs,
      With("int16", <<"1", "0">>),
      With("int32", <<"1", "0", "3", "2">>),
      With("int32", <<"1", "1", "3", "2">>),
      With("int64", <<"7", "6", "5", "4", "3", "2", "1", "0">>),
      With("float64", <<"4", "5", "6", "7", "0", "1", "2", "3">>),
      With("str_total_length", 2),
      With("str_total_length", 4) }

MCBitTags == {NoBit, 9}

MCOffsets == {-1, 0, 5}

MCBitOffsets == {-1, 9, 64}

MCNewSizes == {-1, 2, 8}

\* Offsets within sizeof(T) of INT_MAX.
MCFarOffsets == {IntMax - 2}

\* A string whose capacity and padding are both INT_MAX and whose total
\* length is 8.
MCWrapAttrs ==
    {[NoAttrs EXCEPT !["str_max_capacity"] = IntMax, !["str_pad_bytes"] = IntMax,
                     !["str_total_length"] = 8]}
============================================================================
