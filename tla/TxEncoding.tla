----------------------------- MODULE TxEncoding -----------------------------
(***************************************************************************)
(* The encoders of the five transaction types in                           *)
(* src/ethereum/transaction/rlp.c and the preimages that signer.c hashes,  *)
(* with the v that recovers the sender.                                    *)
(*                                                                         *)
(* An encoder is straight-line code: it is given as the sequence of the    *)
(* calls it makes, which TxCodec executes one at a time.                   *)
(***************************************************************************)
EXTENDS Rlp, Arena

LOCAL INSTANCE SequencesExt

CONSTANTS CAP_64, CAP_256, CAP_512, CAP_1024   \* the capacities the encoders reserve
-----------------------------------------------------------------------------
(* The calls of an encoder. *)

Reserve(buf, n) == [op |-> "reserve", buf |-> buf, n |-> n]
Put(buf, s) == [op |-> "append", buf |-> buf, s |-> s]
LIST_APPEND == [op |-> "list_append"]
START == [op |-> "list_start"]
END == [op |-> "list_end"]

\* An item is built in a buffer of its own, reserved as large as it gets, and appended
\* to the output.
Item(parts) ==
  <<Reserve("item", Len(FlattenSeq(parts)))>>
    \o [i \in DOMAIN parts |-> Put("item", parts[i])] \o <<LIST_APPEND>>

U64(n) == Item(rlp_encode_u64(n))
U256(n) == Item(rlp_encode_uint256(n))
Address(a) == Item(rlp_encode_address(a))
Bytes(s) == Item(rlp_encode_bytes(s))

tx_encode_optional_address(addr) == IF addr = Null THEN Bytes(<<>>) ELSE Address(addr)

tx_encode_access_list(list) ==
  <<START>>
    \o FlattenSeq([i \in DOMAIN list |->
         <<START>> \o Address(list[i].address)
         \o <<START>> \o FlattenSeq([j \in DOMAIN list[i].storage_keys |->
                                       U256(list[i].storage_keys[j])])
         \o <<END, END>>])
    \o <<END>>

tx_encode_authorization_list(list) ==
  <<START>>
    \o FlattenSeq([i \in DOMAIN list |->
         <<START>> \o U64(list[i].chain_id) \o Address(list[i].address) \o U64(list[i].nonce)
         \o U64(list[i].y_parity) \o U256(list[i].r) \o U256(list[i].s) \o <<END>>])
    \o <<END>>

\* The loop over the blob hashes in the encoder and in the signing hash.
blob_hashes(hashes) ==
  <<START>> \o FlattenSeq([i \in DOMAIN hashes |-> Bytes(hashes[i])]) \o <<END>>

legacy_tx_encode(t) ==
  <<Reserve("out", CAP_256), START>>
    \o U64(t.nonce) \o U256(t.gas_price) \o U64(t.gas_limit)
    \o tx_encode_optional_address(t.to) \o U256(t.value) \o Bytes(t.data)
    \o U64(t.v) \o U256(t.r) \o U256(t.s) \o <<END>>

eip2930_tx_encode(t) ==
  <<Reserve("out", CAP_512), Put("out", <<1>>), START>>
    \o U64(t.chain_id) \o U64(t.nonce) \o U256(t.gas_price) \o U64(t.gas_limit)
    \o tx_encode_optional_address(t.to) \o U256(t.value) \o Bytes(t.data)
    \o tx_encode_access_list(t.access_list)
    \o U64(t.y_parity) \o U256(t.r) \o U256(t.s) \o <<END>>

eip1559_tx_encode(t) ==
  <<Reserve("out", CAP_512), Put("out", <<2>>), START>>
    \o U64(t.chain_id) \o U64(t.nonce)
    \o U256(t.max_priority_fee_per_gas) \o U256(t.max_fee_per_gas) \o U64(t.gas_limit)
    \o tx_encode_optional_address(t.to) \o U256(t.value) \o Bytes(t.data)
    \o tx_encode_access_list(t.access_list)
    \o U64(t.y_parity) \o U256(t.r) \o U256(t.s) \o <<END>>

eip4844_tx_encode(t) ==
  <<Reserve("out", CAP_1024), Put("out", <<3>>), START>>
    \o U64(t.chain_id) \o U64(t.nonce)
    \o U256(t.max_priority_fee_per_gas) \o U256(t.max_fee_per_gas) \o U64(t.gas_limit)
    \o Address(t.to) \o U256(t.value) \o Bytes(t.data)
    \o tx_encode_access_list(t.access_list)
    \o U256(t.max_fee_per_blob_gas) \o blob_hashes(t.blob_versioned_hashes)
    \o U64(t.y_parity) \o U256(t.r) \o U256(t.s) \o <<END>>

eip7702_tx_encode(t) ==
  <<Reserve("out", CAP_1024), Put("out", <<4>>), START>>
    \o U64(t.chain_id) \o U64(t.nonce)
    \o U256(t.max_priority_fee_per_gas) \o U256(t.max_fee_per_gas) \o U64(t.gas_limit)
    \o Address(t.to) \o U256(t.value) \o Bytes(t.data)
    \o tx_encode_access_list(t.access_list)
    \o tx_encode_authorization_list(t.authorization_list)
    \o U64(t.y_parity) \o U256(t.r) \o U256(t.s) \o <<END>>

transaction_encode(t) ==
  CASE t.type = 0 -> legacy_tx_encode(t)
    [] t.type = 1 -> eip2930_tx_encode(t)
    [] t.type = 2 -> eip1559_tx_encode(t)
    [] t.type = 3 -> eip4844_tx_encode(t)
    [] t.type = 4 -> eip7702_tx_encode(t)
-----------------------------------------------------------------------------
(* What is signed. *)

\* The chain id of a legacy transaction, Null before EIP-155.
legacy_tx_chain_id(t) == IF t.v < 35 THEN Null ELSE (t.v - 35) \div 2

\* The encoded zero is appended twice.
legacy_tx_signing_hash(t) ==
  <<Reserve("out", CAP_512), START>>
    \o U64(t.nonce) \o U256(t.gas_price) \o U64(t.gas_limit)
    \o tx_encode_optional_address(t.to) \o U256(t.value) \o Bytes(t.data)
    \o (IF legacy_tx_chain_id(t) = Null THEN <<>>
        ELSE U64(legacy_tx_chain_id(t)) \o U256(0) \o <<LIST_APPEND>>)
    \o <<END>>

eip2930_tx_signing_hash(t) ==
  <<Reserve("out", CAP_512), Put("out", <<1>>), START>>
    \o U64(t.chain_id) \o U64(t.nonce) \o U256(t.gas_price) \o U64(t.gas_limit)
    \o tx_encode_optional_address(t.to) \o U256(t.value) \o Bytes(t.data)
    \o tx_encode_access_list(t.access_list) \o <<END>>

eip1559_tx_signing_hash_Mutant(t) ==
  <<Reserve("out", CAP_512), Put("out", <<2>>), START>>
    \o U64(t.chain_id) \o U64(t.nonce)
    \o U256(t.max_priority_fee_per_gas) \o U256(t.max_fee_per_gas) \o U64(t.gas_limit)
    \o tx_encode_optional_address(t.to) \o U256(t.value) \o Bytes(t.data) \o <<END>>

eip1559_tx_signing_hash(t) ==
  <<Reserve("out", CAP_512), Put("out", <<2>>), START>>
    \o U64(t.chain_id) \o U64(t.nonce)
    \o U256(t.max_priority_fee_per_gas) \o U256(t.max_fee_per_gas) \o U64(t.gas_limit)
    \o tx_encode_optional_address(t.to) \o U256(t.value) \o Bytes(t.data)
    \o tx_encode_access_list(t.access_list) \o <<END>>

eip4844_tx_signing_hash(t) ==
  <<Reserve("out", CAP_1024), Put("out", <<3>>), START>>
    \o U64(t.chain_id) \o U64(t.nonce)
    \o U256(t.max_priority_fee_per_gas) \o U256(t.max_fee_per_gas) \o U64(t.gas_limit)
    \o Address(t.to) \o U256(t.value) \o Bytes(t.data)
    \o tx_encode_access_list(t.access_list)
    \o U256(t.max_fee_per_blob_gas) \o blob_hashes(t.blob_versioned_hashes) \o <<END>>

eip7702_tx_signing_hash(t) ==
  <<Reserve("out", CAP_1024), Put("out", <<4>>), START>>
    \o U64(t.chain_id) \o U64(t.nonce)
    \o U256(t.max_priority_fee_per_gas) \o U256(t.max_fee_per_gas) \o U64(t.gas_limit)
    \o Address(t.to) \o U256(t.value) \o Bytes(t.data)
    \o tx_encode_access_list(t.access_list)
    \o tx_encode_authorization_list(t.authorization_list) \o <<END>>

transaction_signing_hash(t) ==
  CASE t.type = 0 -> legacy_tx_signing_hash(t)
    [] t.type = 1 -> eip2930_tx_signing_hash(t)
    [] t.type = 2 -> eip1559_tx_signing_hash(t)
    [] t.type = 3 -> eip4844_tx_signing_hash(t)
    [] t.type = 4 -> eip7702_tx_signing_hash(t)

authorization_signing_hash(auth) ==
  <<Reserve("out", CAP_64), Put("out", <<5>>), START>>
    \o U64(auth.chain_id) \o Address(auth.address) \o U64(auth.nonce) \o <<END>>

\* The recovery id that secp256k1_ecrecover takes from v, Null where it gives up.
recovery_id(v, chain_id) ==
  LET expected_base == ((chain_id * 2) + 35) % (BYTE ^ U64_BYTES) IN
  IF v \in {0, 1} THEN v
  ELSE IF v \in {27, 28} THEN v - 27
  ELSE IF chain_id > 0 THEN
    IF v = expected_base THEN 0
    ELSE IF v = (expected_base + 1) % (BYTE ^ U64_BYTES) THEN 1 ELSE Null
  ELSE IF v >= 35 THEN (v - 35) % 2
  ELSE Null

\* What the recovery of the sender is asked: the message and which of the two keys.
transaction_recover_sender(t, message) ==
  [message |-> message, r |-> t.r, s |-> t.s,
   id |-> IF t.type # 0 THEN recovery_id(t.y_parity, t.chain_id)
          ELSE recovery_id(t.v, IF legacy_tx_chain_id(t) = Null THEN 0
                                ELSE legacy_tx_chain_id(t))]

authorization_recover_authority(auth, message) ==
  [message |-> message, r |-> auth.r, s |-> auth.s,
   id |-> recovery_id(auth.y_parity, auth.chain_id)]
=============================================================================
