------------------------------- MODULE TxJson -------------------------------
(***************************************************************************)
(* Transactions as JSON: t8n_write_tx and t8n_parse_tx of src/t8n/txs.c    *)
(* with the hexadecimal numbers of src/util/hex.c.                         *)
(*                                                                         *)
(* A JSON value has a kind; a string is the sequence of its digits after   *)
(* the optional 0x, and NIBBLE itself stands for every character that is   *)
(* not a digit.  An object is a function on its keys.  A parser's result   *)
(* has the form of the decoders' results, at position 0.                   *)
(***************************************************************************)
EXTENDS TxDecoding

CONSTANT NIBBLE

ASSUME NibbleAssumption == NIBBLE \in Nat /\ BYTE = NIBBLE * NIBBLE

json_str(s) == [kind |-> "str", v |-> s]
json_arr(s) == [kind |-> "arr", v |-> s]
json_obj(f) == [kind |-> "obj", v |-> f]
json_null == [kind |-> "null"]
Absent == [kind |-> "absent"]
-----------------------------------------------------------------------------
(* Digits.  A decoder has the value that its output variable holds afterwards; old is what *)
(* it held before.                                                                         *)

hex_encode(bytes) ==
  [i \in 1..(2 * Len(bytes)) |->
     IF i % 2 = 1 THEN bytes[(i + 1) \div 2] \div NIBBLE ELSE bytes[i \div 2] % NIBBLE]

hex_encode_u64(n) ==
  LET nibbles == CHOOSE k \in 1..n : n < NIBBLE ^ k /\ n >= NIBBLE ^ (k - 1)
  IN  IF n = 0 THEN <<0>>
      ELSE [i \in 1..nibbles |-> (n \div NIBBLE ^ (nibbles - i)) % NIBBLE]

\* Whole bytes from the first that is not zero, without the high digit of that one if it
\* is zero.
hex_encode_uint256(n) ==
  LET digits == hex_encode(ToBytes(n))
  IN  IF n = 0 THEN <<0>> ELSE IF digits[1] = 0 THEN Tail(digits) ELSE digits

hex_encode_uint256_padded(n) ==
  hex_encode([i \in 1..(U256_BYTES - ByteLength(n)) |-> 0] \o ToBytes(n))

IsHex(s) == \A i \in DOMAIN s : s[i] < NIBBLE

FromDigits(s) ==
  LET f[i \in 0..Len(s)] == IF i = 0 THEN 0 ELSE f[i - 1] * NIBBLE + s[i] IN f[Len(s)]

hex_decode(s, out_len) ==
  IF Len(s) = 2 * out_len /\ IsHex(s)
  THEN [ok |-> TRUE, value |-> [i \in 1..out_len |-> s[2 * i - 1] * NIBBLE + s[2 * i]]]
  ELSE [ok |-> FALSE, value |-> <<>>]

hex_decode_u64(s, old) ==
  IF Len(s) \in 1..(2 * U64_BYTES) /\ IsHex(s) THEN [ok |-> TRUE, value |-> FromDigits(s)]
  ELSE [ok |-> FALSE, value |-> old]

\* The output is written as the digits are read: the ones before a wrong one stay.
hex_decode_uint256(s, old) ==
  LET good == CHOOSE k \in 0..Len(s) :
                IsHex(SubSeq(s, 1, k)) /\ (k = Len(s) \/ s[k + 1] >= NIBBLE)
  IN  IF Len(s) \notin 1..(2 * U256_BYTES) THEN [ok |-> FALSE, value |-> old]
      ELSE [ok |-> IsHex(s), value |-> FromDigits(SubSeq(s, 1, good))]
-----------------------------------------------------------------------------
(* Values of an object's keys. *)

json_obj_get(obj, key) == IF key \in DOMAIN obj THEN obj[key] ELSE Absent

json_get_hex_u64(obj, key, old) ==
  LET val == json_obj_get(obj, key)
  IN  IF val.kind = "str" THEN hex_decode_u64(val.v, old) ELSE [ok |-> FALSE, value |-> old]

json_val_hex_uint256(val, old) ==
  IF val.kind = "str" THEN hex_decode_uint256(val.v, old) ELSE [ok |-> FALSE, value |-> old]

json_get_hex_uint256(obj, key, old) == json_val_hex_uint256(json_obj_get(obj, key), old)

\* json_val_hex_address and json_val_hex_hash.
json_val_hex(val, size) ==
  IF val.kind = "str" THEN hex_decode(val.v, size) ELSE [ok |-> FALSE, value |-> <<>>]

\* The bytes, or the old ones after an error or if the arena has no room.
json_get_hex_bytes(obj, key, old, alloc_ok) ==
  LET val == json_obj_get(obj, key)
      byte_len == Len(val.v) \div 2
  IN  IF val.kind # "str" THEN old
      ELSE IF Len(val.v) = 0 THEN <<>>
      ELSE IF Len(val.v) % 2 = 0 /\ Fits(byte_len, alloc_ok) /\ IsHex(val.v)
      THEN hex_decode(val.v, byte_len).value
      ELSE old

\* The elements of an array; anything else counts as an empty one.
Elements(val) == IF val.kind = "arr" THEN val.v ELSE <<>>

Parsed(value) == Decoded(0, value)
Error(e) == Failed(0, e)

\* parse(element) for each element; memory for them is allocated first.
ParseEach(elements, alloc_ok, parse(_)) ==
  IF elements # <<>> /\ ~ alloc_ok THEN Error("ALLOC")
  ELSE DecodeEach(0, Len(elements), LAMBDA k, pos : parse(elements[k]))
-----------------------------------------------------------------------------
(* Parsing. *)

parse_storage_key(val) ==
  LET key == json_val_hex_uint256(val, 0) IN IF key.ok THEN Parsed(key.value) ELSE Error("INVALID_HEX")

parse_access_list_entry(val, alloc_ok) ==
  LET address == json_val_hex(json_obj_get(val.v, "address"), ADDRESS_SIZE)
      keys == Elements(json_obj_get(val.v, "storageKeys"))
  IN  IF val.kind # "obj" THEN Error("INVALID_TYPE")
      ELSE IF ~ address.ok THEN Error("MISSING_FIELD")
      ELSE Then(ParseEach(keys, alloc_ok, parse_storage_key), LAMBDA r :
             Parsed([address |-> address.value, storage_keys |-> r.value]))

parse_access_list(val, alloc_ok) ==
  ParseEach(Elements(val), alloc_ok, LAMBDA e : parse_access_list_entry(e, alloc_ok))

\* A signature's parity: yParity, or else the lowest bit of v.
Parity_of(obj) ==
  LET y == json_get_hex_u64(obj, "yParity", 0)
      v == json_get_hex_u64(obj, "v", 0)
  IN  IF y.ok THEN y.value % BYTE ELSE v.value % 2

parse_authorization(val) ==
  LET address == json_val_hex(json_obj_get(val.v, "address"), ADDRESS_SIZE)
      nonce == json_get_hex_u64(val.v, "nonce", 0)
      r == json_get_hex_uint256(val.v, "r", 0)
      s == json_get_hex_uint256(val.v, "s", 0)
  IN  IF val.kind # "obj" THEN Error("INVALID_TYPE")
      ELSE IF ~ (address.ok /\ nonce.ok /\ r.ok /\ s.ok) THEN Error("MISSING_FIELD")
      ELSE Parsed([chain_id |-> json_get_hex_u64(val.v, "chainId", 0).value,
                   address |-> address.value, nonce |-> nonce.value,
                   y_parity |-> Parity_of(val.v), r |-> r.value, s |-> s.value])

parse_authorization_list(val, alloc_ok) ==
  ParseEach(Elements(val), alloc_ok, parse_authorization)

parse_blob_hash(val) ==
  LET hash == json_val_hex(val, HASH_SIZE) IN IF hash.ok THEN Parsed(hash.value) ELSE Error("INVALID_HEX")

parse_blob_hashes(val, alloc_ok) == ParseEach(Elements(val), alloc_ok, parse_blob_hash)

\* The recipient is optional before blob transactions.
parse_to(obj, type, alloc_ok) ==
  LET val == json_obj_get(obj, "to")
      address == json_val_hex(val, ADDRESS_SIZE)
  IN  IF type < 3 /\ val.kind \in {"absent", "null"} THEN Parsed(Null)
      ELSE IF type < 3 /\ ~ alloc_ok THEN Error("ALLOC")
      ELSE IF address.ok THEN Parsed(address.value)
      ELSE Error(IF type < 3 THEN "INVALID_HEX" ELSE "MISSING_FIELD")

\* Numbers and data that are absent or malformed keep the zero of <type>_tx_init; only the
\* recipient and the lists can fail.
t8n_parse_tx(obj, alloc_ok) ==
  LET u64(key) == json_get_hex_u64(obj, key, 0).value
      u256(key) == json_get_hex_uint256(obj, key, 0).value
      type == u64("type")
      gas == json_get_hex_u64(obj, "gas", 0)
      input == json_get_hex_bytes(obj, "input", <<>>, alloc_ok)
      common ==
        [type |-> type, nonce |-> u64("nonce"), value |-> u256("value"),
         gas_limit |-> IF gas.ok THEN gas.value ELSE u64("gasLimit"),
         data |-> IF input = <<>> THEN json_get_hex_bytes(obj, "data", <<>>, alloc_ok) ELSE input,
         r |-> u256("r"), s |-> u256("s")]
      price == [gas_price |-> u256("gasPrice")]
      fees == [max_priority_fee_per_gas |-> u256("maxPriorityFeePerGas"),
               max_fee_per_gas |-> u256("maxFeePerGas")]
      typed == common @@ [chain_id |-> u64("chainId"), y_parity |-> Parity_of(obj)]
      blob_fee == [max_fee_per_blob_gas |-> u256("maxFeePerBlobGas")]
  IN  IF type > 4 THEN Error("INVALID_TYPE")
      ELSE Then(parse_to(obj, type, alloc_ok), LAMBDA to :
        IF type = 0 THEN Parsed(common @@ price @@ [v |-> u64("v"), to |-> to.value])
        ELSE Then(parse_access_list(json_obj_get(obj, "accessList"), alloc_ok), LAMBDA list :
          LET listed == typed @@ [to |-> to.value, access_list |-> list.value]
          IN  CASE type = 1 -> Parsed(listed @@ price)
                [] type = 2 -> Parsed(listed @@ fees)
                [] type = 3 ->
                     Then(parse_blob_hashes(json_obj_get(obj, "blobVersionedHashes"), alloc_ok),
                       LAMBDA h : Parsed(listed @@ fees @@ blob_fee
                                           @@ [blob_versioned_hashes |-> h.value]))
                [] type = 4 ->
                     Then(parse_authorization_list(json_obj_get(obj, "authorizationList"), alloc_ok),
                       LAMBDA a : Parsed(listed @@ fees @@ [authorization_list |-> a.value]))))
-----------------------------------------------------------------------------
(* Writing. *)

Each(f(_), s) == json_arr([i \in DOMAIN s |-> f(s[i])])

write_u64(n) == json_str(hex_encode_u64(n))
write_uint256(n) == json_str(hex_encode_uint256(n))
write_uint256_padded(n) == json_str(hex_encode_uint256_padded(n))
write_bytes(b) == json_str(hex_encode(b))

write_access_list(list) ==
  Each(LAMBDA e : json_obj([address |-> write_bytes(e.address),
                            storageKeys |-> Each(write_uint256_padded, e.storage_keys)]), list)

write_authorization_list(list) ==
  Each(LAMBDA a : json_obj([chainId |-> write_u64(a.chain_id), address |-> write_bytes(a.address),
                            nonce |-> write_u64(a.nonce), yParity |-> write_u64(a.y_parity),
                            r |-> write_uint256(a.r), s |-> write_uint256(a.s)]), list)

write_blob_hashes(hashes) == Each(write_bytes, hashes)

t8n_write_tx(tx) ==
  LET common ==
        [type |-> write_u64(tx.type), nonce |-> write_u64(tx.nonce), gas |-> write_u64(tx.gas_limit),
         to |-> IF tx.to = Null THEN json_null ELSE write_bytes(tx.to),
         value |-> write_uint256(tx.value), input |-> write_bytes(tx.data),
         r |-> write_uint256(tx.r), s |-> write_uint256(tx.s)]
      price == [gasPrice |-> write_uint256(tx.gas_price)]
      fees == [maxPriorityFeePerGas |-> write_uint256(tx.max_priority_fee_per_gas),
               maxFeePerGas |-> write_uint256(tx.max_fee_per_gas)]
      typed == common @@ [chainId |-> write_u64(tx.chain_id), yParity |-> write_u64(tx.y_parity),
                          accessList |-> write_access_list(tx.access_list)]
  IN  CASE tx.type = 0 -> common @@ price @@ [v |-> write_u64(tx.v)]
        [] tx.type = 1 -> typed @@ price
        [] tx.type = 2 -> typed @@ fees
        [] tx.type = 3 -> typed @@ fees
                            @@ [maxFeePerBlobGas |-> write_uint256(tx.max_fee_per_blob_gas),
                                blobVersionedHashes |-> write_blob_hashes(tx.blob_versioned_hashes)]
        [] tx.type = 4 -> typed @@ fees
                            @@ [authorizationList |-> write_authorization_list(tx.authorization_list)]
=============================================================================
