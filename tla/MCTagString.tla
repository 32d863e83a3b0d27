---------------------------- MODULE MCTagString ----------------------------
(***************************************************************************)
(* TagString instantiated for TLC: a tag created with one of the string    *)
(* framings the byte-order attributes can describe, strings of length 0,  *)
(* 2, 3 and 4 (the odd length matters to byte-swapped strings),            *)
(* and a six-byte buffer that holds an empty string or a two-character one.*)
(***************************************************************************)
EXTENDS TagString

AttrKeys == Range(OrderFams) \cup Range(StrParams)

NoAttrs == [k \in AttrKeys |-> Absent]

\* The attribute set with the string parameters of r given.
StrAttrs(r) == [k \in AttrKeys |-> IF k \in DOMAIN r THEN r[k] ELSE Absent]

\* The Omron NJ/NX default (counted, 2-byte count, zero-terminated), a
\* PLC-5 style byte-swapped counted string, a 1-byte count, a 4-byte count
\* with a pad byte, a zero-terminated string without count, and a
\* fixed-length string whose parts add up to its total length.
MCStrAttrs ==
    { NoAttrs,
      StrAttrs([str_is_byte_swapped |-> 1, str_is_zero_terminated |-> 0]),
      StrAttrs([str_count_word_bytes |-> 1, str_is_zero_terminated |-> 0]),
      StrAttrs([str_count_word_bytes |-> 4, str_is_zero_terminated |-> 0,
                str_pad_bytes |-> 1]),
      StrAttrs([str_is_counted |-> 0, str_count_word_bytes |-> 0]),
      StrAttrs([str_is_fixed_length |-> 1, str_max_capacity |-> 3,
                str_total_length |-> 6]) }

MCDefaultAttrs == {NoAttrs}

MCStrs == {<<>>, <<65, 66>>, <<65, 66, 67>>, <<65, 66, 67, 68>>}

\* An empty string, and "XY" with a 2-byte count and a terminator.
MCInitBufs == {<<0, 0, 0, 0, 0, 0>>, <<2, 0, 88, 89, 0, 0>>, <<255, 255, 88, 89, 0, 0>>,
               <<0, 128, 0, 128, 0, 0>>}

MCRawBufs == {<<90>>, <<0, 90>>}
============================================================================
