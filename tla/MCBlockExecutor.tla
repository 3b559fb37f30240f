-------------------------- MODULE MCBlockExecutor --------------------------
(* Small blocks: two senders, one of them the coinbase, and the address of a  *)
(* contract that the first of them creates; fees that fit into a word and     *)
(* fees that wrap around.                                                     *)
EXTENDS BlockExecutor

CONSTANTS a1, a2, a3, s1, c1

ThreeAddresses == {a1, a2, a3}

OneSlot == {s1}

NoSlot == {}

TwoCodes == {EmptyCode, c1}

\* Only creations of a1 with nonce 0 are in Tx.
CreateAddress(a, n) == a3

Base ==
  [legacy |-> TRUE, chain_ok |-> TRUE, sender |-> a1, nonce |-> 0, gas_limit |-> 2, fee |-> 1,
   priority |-> 0, value |-> 0, to |-> a2, data_gas |-> 0, access_list |-> {}, blob_gas |-> 0]

\* Calls of either sender to the other, with a range of nonces, limits and prices.
Calls ==
  {[Base EXCEPT !.nonce = n, !.gas_limit = g, !.fee = f, !.value = v] :
     n \in 0..1, g \in {1, 3}, f \in {1, 2}, v \in {0, 1}}
  \cup {[Base EXCEPT !.sender = a2, !.to = a1, !.nonce = n] : n \in 0..1}

Creations == {[Base EXCEPT !.to = None, !.value = v] : v \in {0, 1}}

\* Transactions that fail validation, each for its own reason, and those with
\* dynamic fees, access lists and blobs.
Special ==
  {[Base EXCEPT !.chain_ok = FALSE], [Base EXCEPT !.gas_limit = 0], [Base EXCEPT !.gas_limit = 9],
   [Base EXCEPT !.fee = 0], [Base EXCEPT !.value = MaxBalance],
   [Base EXCEPT !.legacy = FALSE, !.fee = 2, !.priority = 1, !.blob_gas = 2],
   [Base EXCEPT !.legacy = FALSE, !.fee = 2, !.priority = 0, !.nonce = 1, !.blob_gas = 2],
   [Base EXCEPT !.data_gas = 1, !.access_list = ThreeAddresses \X Slot]}

\* A price of half a word times a limit of two, and a priority fee that wraps the
\* price around to zero.
Wrapping ==
  {[Base EXCEPT !.fee = (MaxBalance + 1) \div 2],
   [Base EXCEPT !.legacy = FALSE, !.priority = MaxBalance, !.fee = 2]}

AllTx == Calls \cup Creations \cup Special \cup Wrapping

FewTx == Creations \cup {Base, [Base EXCEPT !.nonce = 1, !.to = a3]}
=============================================================================
