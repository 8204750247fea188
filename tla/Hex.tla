-------------------------------- MODULE Hex --------------------------------
(***************************************************************************)
(* The hex texts of src/src/core/hex.c.  A text is the sequence of its     *)
(* ASCII codes and a byte string the sequence of its bytes.                *)
(***************************************************************************)
LOCAL INSTANCE Integers
LOCAL INSTANCE Sequences

HexFailed == [ok |-> FALSE, bytes |-> <<>>]

evmdb_hex_encode(data) ==
  LET hex_chars(v) == IF v < 10 THEN 48 + v ELSE 87 + v
  IN <<48, 120>> \o [i \in 1 .. 2 * Len(data) |->
                       LET byte == data[(i + 1) \div 2]
                       IN hex_chars(IF i % 2 = 1 THEN byte \div 16 ELSE byte % 16)]

\* A plausible slip: the digits A to F counted from 0.
hex_char_val_capitals(c) ==
  CASE c \in 48 .. 57 -> c - 48
    [] c \in 97 .. 102 -> c - 87
    [] c \in 65 .. 70 -> c - 65
    [] OTHER -> -1

hex_char_val(c) ==
  CASE c \in 48 .. 57 -> c - 48
    [] c \in 97 .. 102 -> c - 87
    [] c \in 65 .. 70 -> c - 55
    [] OTHER -> -1

evmdb_hex_decode(hex, out_len) ==
  LET prefixed == Len(hex) > 1 /\ hex[1] = 48 /\ hex[2] \in {120, 88}
      digits == IF prefixed THEN SubSeq(hex, 3, Len(hex)) ELSE hex
      byte_len == Len(digits) \div 2
      hi(i) == hex_char_val(digits[2 * i - 1])
      lo(i) == hex_char_val(digits[2 * i])
  IN IF \/ Len(digits) % 2 # 0 \/ byte_len > out_len
        \/ \E i \in 1 .. byte_len : hi(i) < 0 \/ lo(i) < 0
     THEN HexFailed
     ELSE [ok |-> TRUE, bytes |-> [i \in 1 .. byte_len |-> 16 * hi(i) + lo(i)]]
=============================================================================
