-------------------------------- MODULE Rlp --------------------------------
(***************************************************************************)
(* Recursive length prefix: the item encoders of src/rlp/encode.c and the  *)
(* decoders of src/rlp/decode.c.                                           *)
(*                                                                         *)
(* The layout of the prefix byte is kept and its ranges are constants: a   *)
(* byte is a number below BYTE, the first EMPTY_STRING of them stand for   *)
(* themselves, then come BARRIER prefixes of short strings, LEN_BYTES of   *)
(* long strings, BARRIER of short lists and LEN_BYTES of long lists.  In   *)
(* the code these are 256, 0x80, 56 and 8.  An address has ADDRESS_SIZE    *)
(* bytes, a uint64 U64_BYTES and a uint256 U256_BYTES; size_t has          *)
(* LEN_BYTES and its sums wrap around.                                     *)
(***************************************************************************)
EXTENDS Integers, Sequences

CONSTANTS BYTE, EMPTY_STRING, BARRIER, LEN_BYTES, U64_BYTES, U256_BYTES, ADDRESS_SIZE

EMPTY_LIST == EMPTY_STRING + BARRIER + LEN_BYTES

ASSUME RlpAssumption ==
  /\ {EMPTY_STRING, BARRIER, LEN_BYTES, U64_BYTES, U256_BYTES, ADDRESS_SIZE} \subseteq Nat \ {0}
  /\ BYTE = EMPTY_LIST + BARRIER + LEN_BYTES
  /\ U64_BYTES < BARRIER /\ U256_BYTES < BARRIER /\ ADDRESS_SIZE < BARRIER

SINGLE_BYTE_MAX == EMPTY_STRING - 1
SHORT_STRING_MAX == EMPTY_STRING + BARRIER - 1
LONG_STRING_MAX == EMPTY_LIST - 1
SHORT_LIST_MAX == EMPTY_LIST + BARRIER - 1

\* One past the largest size_t.
SIZE == BYTE ^ LEN_BYTES

\* What rlp_list_start reserves for a header.
RLP_MAX_HEADER_SIZE == 1 + LEN_BYTES

\* A number from its bytes, the highest first, and the bytes of a number without
\* leading zeros.
FromBytes(s) ==
  LET f[i \in 0..Len(s)] == IF i = 0 THEN 0 ELSE f[i - 1] * BYTE + s[i] IN f[Len(s)]

ByteLength(n) == CHOOSE k \in 0..n : n < BYTE ^ k /\ (k = 0 \/ n >= BYTE ^ (k - 1))

ToBytes(n) == LET k == ByteLength(n) IN [i \in 1..k |-> (n \div BYTE ^ (k - i)) % BYTE]

rlp_length_of_length(n) == IF n < BARRIER THEN 0 ELSE ByteLength(n)
-----------------------------------------------------------------------------
(* Encoding an item.  The result is the sequence of appends that make it. *)

rlp_encode_bytes(s) ==
  IF Len(s) = 1 /\ s[1] <= SINGLE_BYTE_MAX THEN <<s>>
  ELSE IF Len(s) < BARRIER THEN <<<<EMPTY_STRING + Len(s)>>, s>>
  ELSE <<<<SHORT_STRING_MAX + rlp_length_of_length(Len(s))>>, ToBytes(Len(s)), s>>

rlp_encode_u64(n) ==
  IF n = 0 THEN <<<<EMPTY_STRING>>>>
  ELSE IF n < EMPTY_STRING THEN <<<<n>>>>
  ELSE <<<<EMPTY_STRING + ByteLength(n)>>>> \o [i \in 1..ByteLength(n) |-> <<ToBytes(n)[i]>>]

rlp_encode_uint256(n) ==
  IF n = 0 THEN <<<<EMPTY_STRING>>>>
  ELSE IF n < EMPTY_STRING THEN <<<<n>>>>
  ELSE <<<<EMPTY_STRING + ByteLength(n)>>, ToBytes(n)>>

rlp_encode_address(a) == <<<<EMPTY_STRING + ADDRESS_SIZE>>, a>>

\* The header that rlp_list_end writes for a payload.
list_header(payload_len) ==
  IF payload_len < BARRIER THEN <<EMPTY_LIST + payload_len>>
  ELSE <<SHORT_LIST_MAX + rlp_length_of_length(payload_len)>> \o ToBytes(payload_len)
-----------------------------------------------------------------------------
(* Decoding.  A result has the position afterwards, also after an error; pos counts *)
(* from zero.                                                                       *)

Decoded(pos, value) == [error |-> "SUCCESS", pos |-> pos, value |-> value]
Failed(pos, error) == [error |-> error, pos |-> pos, value |-> 0]

\* A result handed on, unless it is an error.
Then(r, Continue(_)) == IF r.error = "SUCCESS" THEN Continue(r) ELSE r

remaining(in, pos) == IF pos >= Len(in) THEN 0 ELSE Len(in) - pos

View(in, pos, n) == SubSeq(in, pos + 1, pos + n)

decode_length(in, pos, num_bytes) ==
  IF remaining(in, pos) < num_bytes THEN Failed(pos, "INPUT_TOO_SHORT")
  ELSE IF in[pos + 1] = 0 THEN Failed(pos, "LEADING_ZEROS")
  ELSE Decoded(pos + num_bytes, FromBytes(View(in, pos, num_bytes)))

short_string_Mutant(in, pos, len) ==
  IF len = 1 /\ remaining(in, pos) > 0 /\ in[pos + 1] <= SINGLE_BYTE_MAX
  THEN Failed(pos, "NON_CANONICAL")
  ELSE Decoded(pos + len, View(in, pos, IF remaining(in, pos) < len THEN remaining(in, pos) ELSE len))

\* A short string of len bytes at pos, after its prefix.
short_string(in, pos, len) ==
  IF remaining(in, pos) < len THEN Failed(pos, "INPUT_TOO_SHORT")
  ELSE IF len = 1 /\ in[pos + 1] <= SINGLE_BYTE_MAX THEN Failed(pos, "NON_CANONICAL")
  ELSE Decoded(pos + len, View(in, pos, len))

long_string_Mutant(in, pos, len_of_len) ==
  Then(decode_length(in, pos, len_of_len), LAMBDA len :
    IF remaining(in, len.pos) < len.value THEN Failed(len.pos, "INPUT_TOO_SHORT")
    ELSE Decoded(len.pos + len.value, View(in, len.pos, len.value)))

\* A long string, after its prefix.
long_string(in, pos, len_of_len) ==
  Then(decode_length(in, pos, len_of_len), LAMBDA len :
    IF len.value < BARRIER THEN Failed(len.pos, "NON_CANONICAL")
    ELSE IF remaining(in, len.pos) < len.value THEN Failed(len.pos, "INPUT_TOO_SHORT")
    ELSE Decoded(len.pos + len.value, View(in, len.pos, len.value)))

rlp_decode_bytes(in, pos) ==
  IF pos >= Len(in) THEN Failed(pos, "INPUT_TOO_SHORT")
  ELSE LET prefix == in[pos + 1] IN
    IF prefix <= SINGLE_BYTE_MAX THEN Decoded(pos + 1, <<prefix>>)
    ELSE IF prefix <= SHORT_STRING_MAX THEN short_string(in, pos + 1, prefix - EMPTY_STRING)
    ELSE IF prefix <= LONG_STRING_MAX THEN long_string(in, pos + 1, prefix - SHORT_STRING_MAX)
    ELSE Failed(pos + 1, "INVALID_PREFIX")

\* An integer of at most max_bytes bytes.  A single zero byte is taken for zero.
decode_integer(in, pos, max_bytes) ==
  Then(rlp_decode_bytes(in, pos), LAMBDA b :
    IF Len(b.value) > max_bytes THEN Failed(b.pos, "INTEGER_OVERFLOW")
    ELSE IF Len(b.value) > 1 /\ b.value[1] = 0 THEN Failed(b.pos, "LEADING_ZEROS")
    ELSE Decoded(b.pos, FromBytes(b.value)))

rlp_decode_u64(in, pos) == decode_integer(in, pos, U64_BYTES)

rlp_decode_uint256(in, pos) == decode_integer(in, pos, U256_BYTES)

rlp_decode_address(in, pos) ==
  Then(rlp_decode_bytes(in, pos), LAMBDA b :
    IF Len(b.value) = ADDRESS_SIZE THEN b ELSE Failed(b.pos, "WRONG_SIZE"))

\* The payload may be longer than what is left of the input.
rlp_decode_list_header(in, pos) ==
  IF pos >= Len(in) THEN Failed(pos, "INPUT_TOO_SHORT")
  ELSE LET prefix == in[pos + 1] IN
    IF prefix <= LONG_STRING_MAX THEN Failed(pos + 1, "INVALID_PREFIX")
    ELSE IF prefix <= SHORT_LIST_MAX THEN Decoded(pos + 1, prefix - EMPTY_LIST)
    ELSE Then(decode_length(in, pos + 1, prefix - SHORT_LIST_MAX), LAMBDA len :
      IF len.value < BARRIER THEN Failed(len.pos, "NON_CANONICAL") ELSE len)

\* The position is clamped to the end of the input.
Clamp(in, new_pos) == IF new_pos % SIZE < Len(in) THEN new_pos % SIZE ELSE Len(in)

\* The item whose length has len_of_len bytes after its prefix at pos.
skip_long(in, pos, len_of_len) ==
  LET n == IF remaining(in, pos + 1) < len_of_len THEN remaining(in, pos + 1) ELSE len_of_len
  IN  Clamp(in, pos + 1 + n + FromBytes(View(in, pos + 1, n)))

\* The position after the item at pos, which is not checked; at the end of the input it
\* stays where it is.
rlp_skip_item(in, pos) ==
  IF pos >= Len(in) THEN pos
  ELSE LET prefix == in[pos + 1] IN
    IF prefix <= SINGLE_BYTE_MAX THEN pos + 1
    ELSE IF prefix <= SHORT_STRING_MAX THEN Clamp(in, pos + 1 + prefix - EMPTY_STRING)
    ELSE IF prefix <= LONG_STRING_MAX THEN skip_long(in, pos, prefix - SHORT_STRING_MAX)
    ELSE IF prefix <= SHORT_LIST_MAX THEN Clamp(in, pos + 1 + prefix - EMPTY_LIST)
    ELSE skip_long(in, pos, prefix - SHORT_LIST_MAX)
-----------------------------------------------------------------------------
(* The encoding as it is defined, without buffers. *)

Prefix(n, first) ==
  IF n < BARRIER THEN <<first + n>>
  ELSE <<first + BARRIER - 1 + ByteLength(n)>> \o ToBytes(n)

StringRlp(s) == IF Len(s) = 1 /\ s[1] < EMPTY_STRING THEN s ELSE Prefix(Len(s), EMPTY_STRING) \o s

IntegerRlp(n) == StringRlp(ToBytes(n))

ListRlp(payload) == Prefix(Len(payload), EMPTY_LIST) \o payload
=============================================================================
