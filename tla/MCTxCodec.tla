----------------------------- MODULE MCTxCodec -----------------------------
(* Transactions of every type: with empty and with full fields, each kind of item in each *)
(* of its sizes, lists of up to two elements, data that does not fit into the buffer and  *)
(* data that does not fit into a block of the arena.                                      *)
EXTENDS TxCodec

A == <<1, 12>>
B == <<0, 0>>
H == <<9, 0, 3>>

legacy ==
  [type |-> 0, nonce |-> 0, gas_price |-> 3, gas_limit |-> 4, to |-> A, value |-> 0,
   data |-> <<>>, v |-> 27, r |-> 16, s |-> 4095]

eip2930 ==
  [type |-> 1, chain_id |-> 1, nonce |-> 255, gas_price |-> 15, gas_limit |-> 16, to |-> Null,
   value |-> 256, data |-> <<3>>, access_list |-> <<>>, y_parity |-> 1, r |-> 17, s |-> 3]

eip1559 ==
  [type |-> 2, chain_id |-> 1, nonce |-> 2, max_priority_fee_per_gas |-> 5,
   max_fee_per_gas |-> 20, gas_limit |-> 3, to |-> A, value |-> 1, data |-> <<4>>,
   access_list |-> <<[address |-> B, storage_keys |-> <<>>]>>, y_parity |-> 0, r |-> 2, s |-> 300]

eip4844 ==
  [type |-> 3, chain_id |-> 0, nonce |-> 0, max_priority_fee_per_gas |-> 0,
   max_fee_per_gas |-> 1, gas_limit |-> 9, to |-> B, value |-> 0, data |-> <<>>,
   access_list |-> <<>>, max_fee_per_blob_gas |-> 4, blob_versioned_hashes |-> <<H>>,
   y_parity |-> 0, r |-> 0, s |-> 5]

auth == [chain_id |-> 0, address |-> A, nonce |-> 40, y_parity |-> 1, r |-> 70, s |-> 2]

eip7702 ==
  [type |-> 4, chain_id |-> 33, nonce |-> 1, max_priority_fee_per_gas |-> 0,
   max_fee_per_gas |-> 1, gas_limit |-> 9, to |-> A, value |-> 0, data |-> <<>>,
   access_list |-> <<>>, authorization_list |-> <<auth>>, y_parity |-> 0, r |-> 0, s |-> 5]

TwoEntries ==
  <<[address |-> A, storage_keys |-> <<0, 4>>], [address |-> B, storage_keys |-> <<4095>>]>>

MCTxs ==
  { legacy,
    [legacy EXCEPT !.v = 35, !.to = Null, !.data = <<1, 2, 3, 4, 5>>],
    [legacy EXCEPT !.v = 40, !.nonce = 255, !.gas_price = 4095, !.value = 4095],
    [legacy EXCEPT !.data = [i \in 1..97 |-> 1]],
    eip2930,
    [eip2930 EXCEPT !.access_list = TwoEntries, !.to = B],
    [eip2930 EXCEPT !.access_list = TwoEntries, !.data = [i \in 1..17 |-> 7]],
    eip1559,
    [eip1559 EXCEPT !.access_list = <<>>, !.max_fee_per_gas = 5, !.max_priority_fee_per_gas = 20],
    [eip1559 EXCEPT !.access_list = <<>>],
    eip4844,
    [eip4844 EXCEPT !.blob_versioned_hashes = <<H, <<0, 0, 0>>>>, !.data = <<7, 0>>],
    [eip4844 EXCEPT !.blob_versioned_hashes = <<>>],
    eip7702,
    [eip7702 EXCEPT !.authorization_list = <<[auth EXCEPT !.chain_id = 20], auth>>],
    [eip7702 EXCEPT !.authorization_list = <<>>] }

\* The blocks of the arena have room for this one; its buffer has not.
LongData == {[legacy EXCEPT !.data = [i \in 1..14 |-> i]]}

MCRequests ==
  {[size |-> 6, alignment |-> 8], [size |-> 90, alignment |-> 2], [size |-> 96, alignment |-> 2]}
MCLargeRequests == {[size |-> 100, alignment |-> 8]}
=============================================================================
