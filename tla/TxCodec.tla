------------------------------ MODULE TxCodec ------------------------------
(***************************************************************************)
(* Transactions turned into bytes and back: the encoders of TxEncoding run *)
(* call by call in bytes_t buffers (src/types/bytes.c) that an arena       *)
(* backs, and the decoders of TxDecoding are applied to what they produce. *)
(* malloc may fail at every new block of the arena.                        *)
(*                                                                         *)
(* The code ignores the results of the calls; the variable failed          *)
(* remembers that one was an error.  keccak256 is injective: a hash is the *)
(* bytes that are hashed.                                                  *)
(***************************************************************************)
EXTENDS TxEncoding, TxJson

CONSTANTS Txs,                   \* the transactions of the instance
          InputBytes, MaxInput,  \* bound: bytes and length of raw inputs
          MaxOthers              \* bound: regions of other users of the arena

ASSUME TxCodecAssumption == InputBytes \subseteq 0..(BYTE - 1) /\ MaxInput \in Nat

VARIABLES status,     \* "idle", "input", "running", "done", "decoded", "parsed" or "crashed"
          task, tx,   \* the encoder that runs and its transaction
          code,       \* the calls it has yet to make
          out, item,  \* the output and the item under construction
          builders,   \* header_pos of the open lists, the innermost last
          failed,     \* history: some call returned an error
          decoded,    \* the result of transaction_decode or t8n_parse_tx and what it was given
          input       \* raw input for the item decoders

vars == <<arena, status, task, tx, code, out, item, builders, failed, decoded, input>>

Tasks == {"encode", "sign", "authorize"}

\* The calls of a task; an authorization is signed on its own.
Calls(k, t) ==
  CASE k = "encode" -> transaction_encode(t)
    [] k = "sign" -> transaction_signing_hash(t)
    [] k = "authorize" -> authorization_signing_hash(t.authorization_list[1])

Possible(k, t) == k = "authorize" => t.type = 4 /\ t.authorization_list # <<>>
-----------------------------------------------------------------------------
(* bytes_t.  The results have the buffer, the arena and whether the call succeeded; fresh *)
(* is where malloc places a block the arena asks for.                                     *)

NoBytes == [data |-> <<>>, capacity |-> 0]

Result(b, a, ok) == [bytes |-> b, arena |-> a, ok |-> ok]

\* A buffer in an arena is allocated once and never grows.
bytes_reserve(b, n, fresh) ==
  IF n <= b.capacity THEN Result(b, arena, TRUE)
  ELSE IF b.capacity > 0 \/ ~ CanAlloc(arena, n, ALIGNMENT, fresh) THEN Result(b, arena, FALSE)
  ELSE Result([b EXCEPT !.capacity = n], div0_arena_alloc(arena, n, fresh), TRUE)

bytes_append(b, s, fresh) ==
  LET new_size == Len(b.data) + Len(s)
      r == bytes_reserve(b, new_size, fresh)
  IN  IF s = <<>> THEN Result(b, arena, TRUE)
      ELSE IF new_size >= SIZE THEN Result(b, arena, FALSE)
      ELSE IF ~ r.ok THEN r
      ELSE [r EXCEPT !.bytes.data = b.data \o s]

\* The buffer after rlp_list_end: the header replaces the placeholder and the payload moves
\* up to it.  A buffer in which the placeholder found no room is shorter than header_pos
\* and the placeholder, so payload_len wraps around and the header of the full size goes
\* over what follows header_pos, as far as it is shown here to the end of the data.
rlp_list_end(data, header_pos) ==
  LET payload_start == header_pos + RLP_MAX_HEADER_SIZE
      payload_len == (Len(data) - payload_start) % SIZE
      header == list_header(payload_len)
  IN  IF Len(header) < RLP_MAX_HEADER_SIZE
      THEN View(data, 0, header_pos) \o header \o View(data, payload_start, payload_len)
      ELSE [i \in DOMAIN data |->
              IF i \in (header_pos + 1)..payload_start THEN header[i - header_pos] ELSE data[i]]
-----------------------------------------------------------------------------
Call == code[1]

\* The step after a call that leaves the buffers b and i and the lists l.
Advance(a, b, i, l, ok) ==
  /\ arena' = a /\ out' = b /\ item' = i /\ builders' = l
  /\ failed' = (failed \/ ~ ok)
  /\ code' = Tail(code)
  /\ status' = IF Len(code) = 1 THEN "done" ELSE "running"
  /\ UNCHANGED <<task, tx, decoded, input>>

\* bytes_init_arena and bytes_reserve of a new buffer.
ReserveBuffer ==
  /\ status = "running" /\ Call.op = "reserve"
  /\ \E fresh \in Fresh(arena) :
       LET r == bytes_reserve(NoBytes, Call.n, fresh)
       IN  IF Call.buf = "out" THEN Advance(r.arena, r.bytes, item, builders, r.ok)
           ELSE Advance(r.arena, out, r.bytes, builders, r.ok)

AppendPart ==
  /\ status = "running" /\ Call.op = "append"
  /\ \E fresh \in Fresh(arena) :
       LET r == bytes_append(IF Call.buf = "out" THEN out ELSE item, Call.s, fresh)
       IN  IF Call.buf = "out" THEN Advance(r.arena, r.bytes, item, builders, r.ok)
           ELSE Advance(r.arena, out, r.bytes, builders, r.ok)

rlp_list_append ==
  /\ status = "running" /\ Call.op = "list_append"
  /\ \E fresh \in Fresh(arena) :
       LET r == bytes_append(out, item.data, fresh)
       IN  Advance(r.arena, r.bytes, item, builders, r.ok)

rlp_list_start ==
  /\ status = "running" /\ Call.op = "list_start"
  /\ \E fresh \in Fresh(arena) :
       LET r == bytes_append(out, [i \in 1..RLP_MAX_HEADER_SIZE |-> 0], fresh)
       IN  Advance(r.arena, r.bytes, item, Append(builders, Len(out.data)), r.ok)

\* A buffer that could never be allocated is written to through a null pointer.  Without
\* the placeholder the header is also written past the capacity, and what that does is not
\* defined: the process stops, or it goes on with the buffer as it is.
EndList ==
  LET header_pos == builders[Len(builders)]
      overrun == header_pos + RLP_MAX_HEADER_SIZE > out.capacity
  IN  /\ status = "running" /\ Call.op = "list_end"
      /\ \/ /\ overrun
            /\ status' = "crashed"
            /\ UNCHANGED <<arena, task, tx, code, out, item, builders, failed, decoded, input>>
         \/ /\ out.capacity # 0
            /\ Advance(arena, [out EXCEPT !.data = rlp_list_end(out.data, header_pos)],
                       item, SubSeq(builders, 1, Len(builders) - 1), TRUE)
-----------------------------------------------------------------------------
(* Around the encoders: other users of the arena before, a reset or a new process after.  *)
(* An encoder is one call of one thread, so nobody else uses its arena while it runs.     *)

Begin(k, t) ==
  /\ status = "idle"
  /\ Possible(k, t)
  /\ status' = "running" /\ task' = k /\ tx' = t /\ code' = Calls(k, t)
  /\ UNCHANGED <<arena, out, item, builders, failed, decoded, input>>

OtherUser ==
  /\ status = "idle" /\ arena.handed < MaxOthers
  /\ \/ \E q \in Requests : Alloc(q)
     \/ \E q \in LargeRequests : AllocLarge(q)
  /\ UNCHANGED <<status, task, tx, code, out, item, builders, failed, decoded, input>>

\* Nothing of the last encoder is left but the blocks of the arena.
Cleared ==
  /\ status' = "idle" /\ task' = Null /\ tx' = Null /\ code' = <<>>
  /\ out' = NoBytes /\ item' = NoBytes /\ builders' = <<>>
  /\ failed' = FALSE /\ decoded' = Null /\ input' = <<>>

\* The pushes to vectors while a transaction is decoded.
Pushes(t) ==
  LET entries == IF t.type = 0 THEN <<>> ELSE t.access_list
      auths == IF t.type = 4 THEN t.authorization_list ELSE <<>>
  IN  {<<"entry", k>> : k \in DOMAIN entries} \cup {<<"auth", k>> : k \in DOMAIN auths}
        \cup UNION {{<<"key", k, j>> : j \in DOMAIN entries[k].storage_keys} : k \in DOMAIN entries}

\* An encoding, all of it or a prefix of n bytes, is given to transaction_decode, in a
\* process of its own: alloc_ok and lost stand for all that its arena may do.
Decode(n, alloc_ok) ==
  /\ status = "done" /\ task = "encode" /\ ~ failed
  /\ \E lost \in SUBSET Pushes(tx) :
       decoded' = [n |-> n, alloc_ok |-> alloc_ok, lost |-> lost,
                   result |-> transaction_decode(SubSeq(out.data, 1, n), alloc_ok, lost)]
  /\ status' = "decoded"
  /\ arena' = div0_arena_init(CHOOSE base \in Bases : TRUE)
  /\ UNCHANGED <<task, tx, code, out, item, builders, failed, input>>

\* The other names under which t8n_parse_tx takes a field; a v of 27 or 28 is not one.
Renamed(obj) ==
  LET Name(key) == CASE key = "gas" -> "gasLimit"
                     [] key = "input" -> "data"
                     [] key = "yParity" -> "v"
                     [] OTHER -> key
  IN  [n \in {Name(key) : key \in DOMAIN obj} |-> obj[CHOOSE key \in DOMAIN obj : Name(key) = n]]

\* A value that is not what its key asks for: the last character is not a digit, or null is
\* among the elements.
Broken(val) ==
  CASE val.kind = "arr" -> json_arr(Append(val.v, json_null))
    [] val.kind = "str" /\ val.v # <<>> -> json_str([val.v EXCEPT ![Len(val.v)] = NIBBLE])
    [] OTHER -> json_str(<<NIBBLE>>)

\* What an author makes of a document.
Edited(obj, change, key) ==
  CASE change = "none" -> obj
    [] change = "renamed" -> Renamed(obj)
    [] change = "missing" -> [k \in DOMAIN obj \ {key} |-> obj[k]]
    [] change = "broken" -> [obj EXCEPT ![key] = Broken(@)]

Edits(t) == {<<"none", Null>>, <<"renamed", Null>>}
              \cup ({"missing", "broken"} \X DOMAIN t8n_write_tx(t))

\* A transaction is written as JSON and, as it is or edited, read by t8n_parse_tx before the
\* arena is used.
ParseJson(t, edit, alloc_ok) ==
  /\ status = "idle" /\ arena.handed = 0 /\ Len(arena.blocks) = 1
  /\ decoded' = [change |-> edit[1], key |-> edit[2], alloc_ok |-> alloc_ok,
                 result |-> t8n_parse_tx(Edited(t8n_write_tx(t), edit[1], edit[2]), alloc_ok)]
  /\ status' = "parsed" /\ tx' = t
  /\ UNCHANGED <<arena, task, code, out, item, builders, failed, input>>

ResetArena == status \in {"done", "decoded", "parsed"} /\ Reset /\ Cleared

Restart == status = "crashed" /\ (\E b \in Bases : arena' = div0_arena_init(b)) /\ Cleared

\* Raw input; the decoders of items do not use the arena, so one new arena stands for all.
Receive(b) ==
  /\ status \in {"idle", "input"}
  /\ arena = div0_arena_init(CHOOSE base \in Bases : TRUE)
  /\ Len(input) < MaxInput
  /\ status' = "input" /\ input' = Append(input, b)
  /\ UNCHANGED <<arena, task, tx, code, out, item, builders, failed, decoded>>

Discard == status = "input" /\ Cleared /\ UNCHANGED arena

Init ==
  /\ ArenaInit
  /\ status = "idle" /\ task = Null /\ tx = Null /\ code = <<>>
  /\ out = NoBytes /\ item = NoBytes /\ builders = <<>>
  /\ failed = FALSE /\ decoded = Null /\ input = <<>>

Next ==
  \/ ReserveBuffer \/ AppendPart \/ rlp_list_append \/ rlp_list_start \/ EndList
  \/ \E k \in Tasks, t \in Txs : Begin(k, t)
  \/ OtherUser
  \/ \E n \in 0..Len(out.data), alloc_ok \in BOOLEAN : Decode(n, alloc_ok)
  \/ \E t \in Txs : \E edit \in Edits(t), alloc_ok \in BOOLEAN : ParseJson(t, edit, alloc_ok)
  \/ ResetArena
  \/ Restart
  \/ \E b \in InputBytes : Receive(b)
  \/ Discard

Spec == Init /\ [][Next]_vars
-----------------------------------------------------------------------------
(* The encodings as the EIPs define them, without buffers. *)

Concat(f(_), s) ==
  LET upto[k \in 0..Len(s)] == IF k = 0 THEN <<>> ELSE upto[k - 1] \o f(s[k]) IN upto[Len(s)]

AccessRlp(e) ==
  ListRlp(StringRlp(e.address) \o ListRlp(Concat(IntegerRlp, e.storage_keys)))

AuthorizationRlp(a) ==
  ListRlp(IntegerRlp(a.chain_id) \o StringRlp(a.address)
          \o Concat(IntegerRlp, <<a.nonce, a.y_parity, a.r, a.s>>))

\* The fields that are signed, in the order of the transaction's type.
SignedFields(t) ==
  LET fees == IF t.type < 2 THEN <<t.gas_price>>
              ELSE <<t.max_priority_fee_per_gas, t.max_fee_per_gas>>
  IN  Concat(IntegerRlp, (IF t.type = 0 THEN <<>> ELSE <<t.chain_id>>)
                           \o <<t.nonce>> \o fees \o <<t.gas_limit>>)
      \o StringRlp(IF t.to = Null THEN <<>> ELSE t.to)
      \o IntegerRlp(t.value) \o StringRlp(t.data)
      \o (IF t.type = 0 THEN <<>> ELSE ListRlp(Concat(AccessRlp, t.access_list)))
      \o (IF t.type = 3 THEN IntegerRlp(t.max_fee_per_blob_gas)
                               \o ListRlp(Concat(StringRlp, t.blob_versioned_hashes))
          ELSE IF t.type = 4 THEN ListRlp(Concat(AuthorizationRlp, t.authorization_list))
          ELSE <<>>)

TypePrefix(t) == IF t.type = 0 THEN <<>> ELSE <<t.type>>

TxRlp(t) ==
  TypePrefix(t) \o ListRlp(SignedFields(t)
    \o Concat(IntegerRlp, <<IF t.type = 0 THEN t.v ELSE t.y_parity, t.r, t.s>>))

\* EIP-155 adds the chain id and two zeros to what a legacy transaction signs.
SigningRlp(t) ==
  TypePrefix(t) \o ListRlp(SignedFields(t)
    \o (IF t.type = 0 /\ t.v >= 35 THEN Concat(IntegerRlp, <<(t.v - 35) \div 2, 0, 0>>)
        ELSE <<>>))

AuthorizationSigningRlp(a) ==
  <<5>> \o ListRlp(IntegerRlp(a.chain_id) \o StringRlp(a.address) \o IntegerRlp(a.nonce))
-----------------------------------------------------------------------------
\* The field of a transaction that a key is about.
KeyField(key) ==
  CASE key = "gas" -> "gas_limit" [] key = "input" -> "data" [] key = "gasPrice" -> "gas_price"
    [] key = "chainId" -> "chain_id" [] key = "yParity" -> "y_parity"
    [] key = "maxFeePerGas" -> "max_fee_per_gas" [] key = "accessList" -> "access_list"
    [] key = "maxPriorityFeePerGas" -> "max_priority_fee_per_gas"
    [] key = "maxFeePerBlobGas" -> "max_fee_per_blob_gas"
    [] key = "blobVersionedHashes" -> "blob_versioned_hashes"
    [] key = "authorizationList" -> "authorization_list"
    [] OTHER -> key

\* What t8n_parse_tx makes of a field of t: data that the arena has no room for is left out.
ReadField(t, f, alloc_ok) ==
  IF f = "data" /\ ~ Fits(Len(t.data), alloc_ok) THEN <<>> ELSE t[f]

\* A transaction without the elements of its lists whose pushes are lost.
Without(t, lost) ==
  LET Kept(s, Push(_)) ==
        Concat(LAMBDA k : IF Push(k) \in lost THEN <<>> ELSE <<s[k]>>, [k \in DOMAIN s |-> k])
      Entry(k) == [t.access_list[k] EXCEPT !.storage_keys = Kept(@, LAMBDA j : <<"key", k, j>>)]
      entries == [k \in DOMAIN t.access_list |-> Entry(k)]
      Field(f) == CASE f = "access_list" -> Kept(entries, LAMBDA k : <<"entry", k>>)
                    [] f = "authorization_list" -> Kept(t[f], LAMBDA k : <<"auth", k>>)
                    [] OTHER -> t[f]
  IN  [f \in DOMAIN t |-> Field(f)]

\* transaction_encode, when none of the calls it makes fails, builds exactly the encoding of
\* the EIPs, and transaction_decode gives the same transaction back and has consumed all of
\* it: the encoder and the decoder, written field by field and apart, agree on every type.
\* Only the elements of lists for which a vector found no memory are lost on the way.
\* So do t8n_write_tx and t8n_parse_tx, also under the other names of the keys, except for
\* data larger than a block of the arena; and a key that is missing or whose value is broken
\* disturbs no field but its own.
RoundTrip ==
  /\ status = "done" /\ task = "encode" /\ ~ failed => out.data = TxRlp(tx)
  /\ status = "decoded" /\ decoded.n = Len(out.data) /\ decoded.alloc_ok =>
       decoded.result = Decoded(Len(out.data), Without(tx, decoded.lost))
  /\ status = "parsed" /\ decoded.alloc_ok /\ decoded.change \in {"none", "renamed"} =>
       decoded.result = Parsed([f \in DOMAIN tx |-> ReadField(tx, f, TRUE)])
  /\ status = "parsed" /\ decoded.result.error = "SUCCESS" =>
       LET read == decoded.result.value
       IN  \A f \in (DOMAIN tx \cap DOMAIN read) \ {KeyField(decoded.key)} :
             read[f] = ReadField(tx, f, decoded.alloc_ok)

\* What is left of the encoding after the blob hashes, and the hashes themselves.
Suffix(t) == Concat(IntegerRlp, <<t.y_parity, t.r, t.s>>)

InBlobHashes(t, n) ==
  /\ t.type = 3
  /\ LET last == Len(TxRlp(t)) - Len(Suffix(t))
     IN  n \in (last - Len(Concat(StringRlp, t.blob_versioned_hashes)))..(last - 1)

NeedsMemory(t) ==
  \/ t.data # <<>>
  \/ t.type < 3 /\ t.to # Null
  \/ t.type = 3 /\ t.blob_versioned_hashes # <<>>

\* transaction_decode accepts no proper prefix of an encoding, although it compares no list
\* length with what follows, and no transaction whose recipient, data or blob hashes it has
\* no memory for.  It returns for every prefix except one that ends within the blob hashes:
\* there decode_blob_hashes skips items to an end behind the input and never gets there.
\* (A transaction that lost elements of its access list or authorizations it does accept.)
\* t8n_parse_tx rejects less: of what is missing or broken only a recipient that must be
\* there and the elements of lists.
IncompleteIsRejected ==
  /\ status = "parsed" /\ decoded.alloc_ok =>
       (decoded.result.error # "SUCCESS" <=>
          \/ decoded.key = "to" /\ (decoded.change = "broken" \/ tx.type > 2)
          \/ decoded.change = "broken"
               /\ decoded.key \in {"accessList", "blobVersionedHashes", "authorizationList"})
  /\ status = "decoded" =>
       /\ decoded.n < Len(out.data) =>
            /\ decoded.result.error # "SUCCESS"
            /\ decoded.alloc_ok =>
                 (decoded.result.error = "NO_RETURN" <=> InBlobHashes(tx, decoded.n))
       /\ decoded.n = Len(out.data) /\ ~ decoded.alloc_ok =>
            decoded.result.error = IF NeedsMemory(tx) THEN "ALLOC_FAILED" ELSE "SUCCESS"

Parity(t) ==
  IF t.type # 0 THEN t.y_parity ELSE IF t.v >= 35 THEN (t.v - 35) % 2 ELSE t.v - 27

\* What a signature is about: everything but the signature itself, and the chain.
SignedContent(t) ==
  [f \in DOMAIN t \ {"v", "y_parity", "r", "s"} |-> t[f]]
    @@ ("chain" :> IF t.type = 0 THEN legacy_tx_chain_id(t) ELSE t.chain_id)

\* The recovery of a sender, or of the authority of an authorization, is asked about the
\* message that was signed and the key that signed it, and the message determines what was
\* signed: two transactions that differ in type, chain or any signed field never have the
\* same preimage, nor has an authorization that of a transaction.
SenderIsSigner ==
  status = "done" /\ ~ failed =>
    /\ task = "sign" =>
         /\ transaction_recover_sender(tx, out.data)
              = [message |-> SigningRlp(tx), r |-> tx.r, s |-> tx.s, id |-> Parity(tx)]
         /\ \A t \in Txs : SigningRlp(t) = out.data => SignedContent(t) = SignedContent(tx)
    /\ task = "authorize" =>
         LET auth == tx.authorization_list[1]
         IN  /\ authorization_recover_authority(auth, out.data)
                  = [message |-> AuthorizationSigningRlp(auth), r |-> auth.r, s |-> auth.s,
                     id |-> auth.y_parity]
             /\ \A t \in Txs : SigningRlp(t) # out.data

\* The item decoders accept exactly the canonical encodings: what they consume is the
\* encoding of what they return (a zero byte is also taken for the integer zero), whatever
\* starts with an encoding is decoded, no position leaves the input, and rlp_skip_item,
\* which decode_blob_hashes counts with, passes over the same bytes.
ItemsAreCanonical ==
  status = "input" =>
    LET b == rlp_decode_bytes(input, 0)
        h == rlp_decode_list_header(input, 0)
        Consumed(r) == View(input, 0, r.pos)
        Integer(r, max_bytes) ==
          r.error = "SUCCESS" =>
            /\ r.value < BYTE ^ max_bytes
            /\ Consumed(r) = IntegerRlp(r.value) \/ (r.value = 0 /\ Consumed(r) = <<0>>)
    IN  /\ b.pos <= Len(input) /\ h.pos <= Len(input) /\ rlp_skip_item(input, 0) <= Len(input)
        /\ b.error = "SUCCESS" =>
             Consumed(b) = StringRlp(b.value) /\ rlp_skip_item(input, 0) = b.pos
        /\ \A k \in 0..Len(input), n \in 0..Len(input) :
             LET s == View(input, k, n)
             IN  k + n <= Len(input) /\ View(input, 0, k + n) = StringRlp(s) =>
                   b.error = "SUCCESS" /\ b.value = s
        /\ Integer(rlp_decode_u64(input, 0), U64_BYTES)
        /\ Integer(rlp_decode_uint256(input, 0), U256_BYTES)
        /\ h.error = "SUCCESS" =>
             /\ Consumed(h) = Prefix(h.value, EMPTY_LIST)
             /\ rlp_skip_item(input, 0) = Clamp(input, h.pos + h.value)

\* include/div0/ethereum/transaction/rlp.h:125 says of transaction_encode: "Encoded bytes
\* (empty on failure)".
EncodedWholeOrEmpty ==
  status = "done" /\ task = "encode" => out.data \in {<<>>, TxRlp(tx)}
=============================================================================
