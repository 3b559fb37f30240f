----------------------------- MODULE TxDecoding -----------------------------
(***************************************************************************)
(* The decoders of the five transaction types in                           *)
(* src/ethereum/transaction/rlp.c.  alloc_ok says whether the arena can    *)
(* serve the allocations whose failure the code reports.  The vectors that *)
(* collect access lists and authorizations are external; they grow in the  *)
(* same arena, and nobody looks at the result of a push.  lost holds the   *)
(* pushes that found no memory: <<"entry", k>> is the k-th entry of the    *)
(* access list, <<"key", k, j>> its j-th key, <<"auth", k>> the k-th       *)
(* authorization.                                                          *)
(***************************************************************************)
EXTENDS Rlp, Arena, TLC

CONSTANT HASH_SIZE

ASSUME HashAssumption == HASH_SIZE \in 2..(BARRIER - 1)

\* An allocation from an arena succeeds up to the size of a block.
Fits(n, alloc_ok) == alloc_ok /\ n <= BLOCK_SIZE

\* Errors of the item decoders all become the same error.
InvalidRlp(r) == IF r.error = "SUCCESS" THEN r ELSE Failed(r.pos, "INVALID_RLP")

decode_u64(in, pos) == InvalidRlp(rlp_decode_u64(in, pos))

decode_uint256(in, pos) == InvalidRlp(rlp_decode_uint256(in, pos))

\* DECODE_YPARITY narrows the number to a byte.
decode_yparity(in, pos) ==
  Then(decode_u64(in, pos), LAMBDA r : Decoded(r.pos, r.value % BYTE))

decode_optional_address(in, pos, alloc_ok) ==
  Then(InvalidRlp(rlp_decode_bytes(in, pos)), LAMBDA b :
    IF b.value = <<>> THEN Decoded(b.pos, Null)
    ELSE IF Len(b.value) # ADDRESS_SIZE THEN Failed(b.pos, "INVALID_FIELD")
    ELSE IF ~ alloc_ok THEN Failed(b.pos, "ALLOC_FAILED")
    ELSE b)

decode_required_address(in, pos) == InvalidRlp(rlp_decode_address(in, pos))

decode_tx_data(in, pos, alloc_ok) ==
  Then(InvalidRlp(rlp_decode_bytes(in, pos)), LAMBDA b :
    IF b.value # <<>> /\ ~ Fits(Len(b.value), alloc_ok) THEN Failed(b.pos, "ALLOC_FAILED") ELSE b)

decode_list_header(in, pos) == InvalidRlp(rlp_decode_list_header(in, pos))

\* One decoder after the other: step(k, pos) is the k-th of n.  The result has the
\* values of all of them.
DecodeEach(pos, n, step(_, _)) ==
  LET upto[k \in 0..n] ==
        IF k = 0 THEN Decoded(pos, <<>>)
        ELSE Then(upto[k - 1], LAMBDA prev :
               Then(step(k, prev.pos), LAMBDA r : Decoded(r.pos, Append(prev.value, r.value))))
  IN  upto[n]

\* The items before list_end, the k-th decoded with step(k, pos) and pushed to a vector
\* unless Lost(k); the last of them may run past list_end.
DecodeItems(in, pos, list_end, step(_, _), Lost(_)) ==
  LET Pushed(v, k, x) == IF Lost(k) THEN v ELSE Append(v, x)
      upto[k \in 0..Len(in)] ==
        IF k = 0 THEN Decoded(pos, <<>>)
        ELSE Then(upto[k - 1], LAMBDA prev :
               IF prev.pos >= list_end THEN prev
               ELSE Then(step(k, prev.pos), LAMBDA r : Decoded(r.pos, Pushed(prev.value, k, r.value))))
  IN  upto[Len(in)]

\* A list whose items are decoded with step.
DecodeList(in, pos, step(_, _), Lost(_)) ==
  Then(decode_list_header(in, pos), LAMBDA header :
    DecodeItems(in, header.pos, (header.pos + header.value) % SIZE, step, Lost))

\* The k-th entry.  The lengths in the headers of the entries are not compared with what
\* follows them.
decode_access_list_entry(in, k, pos, lost) ==
  LET Key(j, p) == decode_uint256(in, p)
      LostKey(j) == <<"key", k, j>> \in lost
  IN  Then(decode_list_header(in, pos), LAMBDA header :
        Then(decode_required_address(in, header.pos), LAMBDA address :
          Then(DecodeList(in, address.pos, Key, LostKey), LAMBDA keys :
            Decoded(keys.pos, [address |-> address.value, storage_keys |-> keys.value]))))

decode_access_list(in, pos, lost) ==
  DecodeList(in, pos, LAMBDA k, p : decode_access_list_entry(in, k, p, lost),
             LAMBDA k : <<"entry", k>> \in lost)

decode_authorization(in, pos) ==
  LET Field(k, p) == CASE k \in {1, 3} -> decode_u64(in, p)
                       [] k = 2 -> decode_required_address(in, p)
                       [] k = 4 -> decode_yparity(in, p)
                       [] k \in {5, 6} -> decode_uint256(in, p)
  IN  Then(decode_list_header(in, pos), LAMBDA header :
        Then(DecodeEach(header.pos, 6, Field), LAMBDA f :
          Decoded(f.pos, [chain_id |-> f.value[1], address |-> f.value[2], nonce |-> f.value[3],
                          y_parity |-> f.value[4], r |-> f.value[5], s |-> f.value[6]])))

decode_authorization_list(in, pos, lost) ==
  DecodeList(in, pos, LAMBDA k, p : decode_authorization(in, p),
             LAMBDA k : <<"auth", k>> \in lost)

\* How many items rlp_skip_item passes from pos to hashes_end, or Null if the loop never
\* ends: at the end of the input skipping leaves the position where it is, and more skips
\* than positions have come back to one of them.
count_hashes(in, pos, hashes_end) ==
  LET at[k \in 0..(Len(in) + 1)] == IF k = 0 THEN pos ELSE rlp_skip_item(in, at[k - 1])
      Reached(k) == at[k] >= hashes_end
  IN  IF \E k \in 0..(Len(in) + 1) : Reached(k)
      THEN CHOOSE k \in 0..(Len(in) + 1) : Reached(k) /\ \A j \in 0..(k - 1) : ~ Reached(j)
      ELSE Null

\* The item must be a string of HASH_SIZE bytes.
decode_hash(in, pos) ==
  LET b == rlp_decode_bytes(in, pos)
  IN  IF b.error = "SUCCESS" /\ Len(b.value) = HASH_SIZE THEN b ELSE Failed(b.pos, "INVALID_FIELD")

\* The hashes are counted first and then read; NO_RETURN stands for the endless loop.
decode_blob_hashes(in, pos, alloc_ok) ==
  Then(decode_list_header(in, pos), LAMBDA header :
    LET count == count_hashes(in, header.pos, (header.pos + header.value) % SIZE)
    IN  IF header.value = 0 THEN Decoded(header.pos, <<>>)
        ELSE IF count = Null THEN Failed(header.pos, "NO_RETURN")
        ELSE IF count # 0 /\ ~ Fits(count * HASH_SIZE, alloc_ok) THEN Failed(header.pos, "ALLOC_FAILED")
        ELSE DecodeEach(header.pos, count, LAMBDA k, p : decode_hash(in, p)))
-----------------------------------------------------------------------------
(* A transaction's fields, each with its decoder, in the order they are read. *)

legacy_tx_fields ==
  <<<<"nonce", "u64">>, <<"gas_price", "uint256">>, <<"gas_limit", "u64">>, <<"to", "optional">>,
    <<"value", "uint256">>, <<"data", "data">>,
    <<"v", "u64">>, <<"r", "uint256">>, <<"s", "uint256">>>>

eip2930_tx_fields ==
  <<<<"chain_id", "u64">>, <<"nonce", "u64">>, <<"gas_price", "uint256">>, <<"gas_limit", "u64">>,
    <<"to", "optional">>, <<"value", "uint256">>, <<"data", "data">>,
    <<"access_list", "access_list">>,
    <<"y_parity", "yparity">>, <<"r", "uint256">>, <<"s", "uint256">>>>

eip1559_tx_fields_Mutant ==
  <<<<"chain_id", "u64">>, <<"nonce", "u64">>, <<"max_fee_per_gas", "uint256">>,
    <<"max_priority_fee_per_gas", "uint256">>, <<"gas_limit", "u64">>,
    <<"to", "optional">>, <<"value", "uint256">>, <<"data", "data">>,
    <<"access_list", "access_list">>,
    <<"y_parity", "yparity">>, <<"r", "uint256">>, <<"s", "uint256">>>>

eip1559_tx_fields ==
  <<<<"chain_id", "u64">>, <<"nonce", "u64">>, <<"max_priority_fee_per_gas", "uint256">>,
    <<"max_fee_per_gas", "uint256">>, <<"gas_limit", "u64">>,
    <<"to", "optional">>, <<"value", "uint256">>, <<"data", "data">>,
    <<"access_list", "access_list">>,
    <<"y_parity", "yparity">>, <<"r", "uint256">>, <<"s", "uint256">>>>

eip4844_tx_fields ==
  <<<<"chain_id", "u64">>, <<"nonce", "u64">>, <<"max_priority_fee_per_gas", "uint256">>,
    <<"max_fee_per_gas", "uint256">>, <<"gas_limit", "u64">>,
    <<"to", "required">>, <<"value", "uint256">>, <<"data", "data">>,
    <<"access_list", "access_list">>, <<"max_fee_per_blob_gas", "uint256">>,
    <<"blob_versioned_hashes", "blob_hashes">>,
    <<"y_parity", "yparity">>, <<"r", "uint256">>, <<"s", "uint256">>>>

eip7702_tx_fields ==
  <<<<"chain_id", "u64">>, <<"nonce", "u64">>, <<"max_priority_fee_per_gas", "uint256">>,
    <<"max_fee_per_gas", "uint256">>, <<"gas_limit", "u64">>,
    <<"to", "required">>, <<"value", "uint256">>, <<"data", "data">>,
    <<"access_list", "access_list">>, <<"authorization_list", "authorization_list">>,
    <<"y_parity", "yparity">>, <<"r", "uint256">>, <<"s", "uint256">>>>

tx_fields == <<eip2930_tx_fields, eip1559_tx_fields, eip4844_tx_fields, eip7702_tx_fields>>

decode_field(in, pos, decoder, alloc_ok, lost) ==
  CASE decoder = "u64" -> decode_u64(in, pos)
    [] decoder = "uint256" -> decode_uint256(in, pos)
    [] decoder = "yparity" -> decode_yparity(in, pos)
    [] decoder = "optional" -> decode_optional_address(in, pos, alloc_ok)
    [] decoder = "required" -> decode_required_address(in, pos)
    [] decoder = "data" -> decode_tx_data(in, pos, alloc_ok)
    [] decoder = "access_list" -> decode_access_list(in, pos, lost)
    [] decoder = "authorization_list" -> decode_authorization_list(in, pos, lost)
    [] decoder = "blob_hashes" -> decode_blob_hashes(in, pos, alloc_ok)

\* The common shape of the <type>_tx_decode functions.  The position of the result is
\* bytes_consumed: it is taken from the list header, not from where the last field ends.
tx_decode(in, type, fields, alloc_ok, lost) ==
  LET Index(f) == CHOOSE k \in DOMAIN fields : fields[k][1] = f
      names == {fields[k][1] : k \in DOMAIN fields}
      Field(k, p) == decode_field(in, p, fields[k][2], alloc_ok, lost)
  IN  IF in = <<>> THEN Failed(0, "EMPTY_INPUT")
      ELSE Then(decode_list_header(in, 0), LAMBDA header :
             Then(DecodeEach(header.pos, Len(fields), Field), LAMBDA r :
               Decoded((header.pos + header.value) % SIZE,
                       ("type" :> type) @@ [f \in names |-> r.value[Index(f)]])))

transaction_decode(in, alloc_ok, lost) ==
  IF in = <<>> THEN Failed(0, "EMPTY_INPUT")
  ELSE IF in[1] >= EMPTY_LIST THEN tx_decode(in, 0, legacy_tx_fields, alloc_ok, lost)
  ELSE IF in[1] = 0 \/ in[1] > 4 THEN Failed(0, "INVALID_TYPE")
  ELSE Then(tx_decode(Tail(in), in[1], tx_fields[in[1]], alloc_ok, lost), LAMBDA r :
         Decoded(r.pos + 1, r.value))
=============================================================================
