--------------------------- MODULE BlockExecutor ---------------------------
(***************************************************************************)
(* Executing the transactions of a block: block_executor_run and           *)
(* execute_transaction of src/executor/block_executor.c, and the           *)
(* validation of validation.c, over the world state.                       *)
(*                                                                         *)
(* A transaction is validated, prepaid and entered in one step (Start),    *)
(* then the EVM makes its changes to the world state one at a time, then   *)
(* the result is settled in one step.  Of the EVM only what it may do to   *)
(* accounts and what it reports are kept, as EvmRun states it and          *)
(* CallFrames implements it.  The block is not fixed in advance: the next  *)
(* transaction is any member of Tx.                                        *)
(*                                                                         *)
(* Amounts are 256-bit words, with MaxBalance the largest, and multiplying *)
(* or adding them wraps around.  History variables: issued is the ether in *)
(* circulation, which base fees reduce; exact says that no amount so far   *)
(* was computed with a wrap-around.                                        *)
(*                                                                         *)
(* The operators named ..._Mutant are plausible mistakes in the definition *)
(* that follows them; no specification uses them.                          *)
(***************************************************************************)
EXTENDS WorldState, Integers, Sequences

LOCAL INSTANCE Functions

CONSTANTS Tx,                  \* the transactions a block may contain
          coinbase,
          base_fee,
          block_gas_limit,
          GAS_TX, GAS_CREATE,
          MaxBlobGas,          \* UINT64_MAX, where blob gas saturates
          EvmRefund,           \* refunds the EVM may report
          Supply,              \* ether of the one account before the block
          compute_create_address(_, _),
          MaxTxs               \* bound: transactions of a block

\* A transaction with its recovered sender.  to = None is a contract creation;
\* data_gas is the price of its calldata, init code and access list; fee is the gas
\* price of a legacy transaction and max_fee_per_gas of any other; blob_gas is zero
\* unless it carries blobs.
TxType ==
  [legacy : BOOLEAN, chain_ok : BOOLEAN, sender : Address, nonce : Nonce,
   gas_limit : Nat, fee : Balance, priority : Balance, value : Balance,
   to : Address \cup {None}, data_gas : Nat, access_list : SUBSET SlotKey, blob_gas : Nat]

ASSUME BlockExecutorAssumption ==
  /\ Tx \subseteq TxType
  /\ coinbase \in Address
  /\ base_fee \in Balance
  /\ block_gas_limit \in Nat
  /\ GAS_TX \in Nat /\ GAS_CREATE \in Nat
  /\ MaxBlobGas \in Nat
  /\ EvmRefund \subseteq Nat
  /\ Supply \in Balance
  /\ \A a \in Address, n \in Nonce : compute_create_address(a, n) \in Address
  /\ MaxTxs \in Nat
  /\ None \notin Address \cup [tx : TxType, recipient : Address]
  /\ None \notin [Address -> Account \cup {None}]

VARIABLES ws,
          index,           \* how many transactions have been taken up
          current,         \* the transaction in the EVM, None between two
          receipts,        \* a transaction's hash is represented by it and its place
          rejected,
          cumulative_gas, blob_gas_used,
          root,            \* result->state_root, None until the block is done
          issued, exact

vars == <<ws, index, current, receipts, rejected, cumulative_gas, blob_gas_used, root,
          issued, exact>>

-----------------------------------------------------------------------------
\* Fees

uint256_mul(x, y) == (x * y) % (MaxBalance + 1)

uint256_sub(x, y) == (x - y) % (MaxBalance + 1)

effective_gas_price(tx) ==
  LET priority_price == uint256_add(base_fee, tx.priority)
  IN  IF tx.legacy \/ tx.fee < priority_price THEN tx.fee ELSE priority_price

max_gas_cost(tx) == uint256_mul(effective_gas_price(tx), tx.gas_limit)

is_create(tx) == tx.to = None

tx_intrinsic_gas(tx) ==
  GAS_TX + tx.data_gas + (IF is_create(tx) THEN GAS_CREATE ELSE 0)

\* No fee of tx wraps around.
ExactFees(tx) ==
  /\ tx.legacy \/ base_fee + tx.priority <= MaxBalance
  /\ effective_gas_price(tx) * tx.gas_limit <= MaxBalance

\* The account that receives the value; the sender's nonce is the one before it
\* is incremented.
Recipient(tx) ==
  IF is_create(tx) THEN compute_create_address(tx.sender, get_nonce(ws, tx.sender)) ELSE tx.to
-----------------------------------------------------------------------------
exceeds_block_gas_Mutant(tx) == tx.gas_limit > block_gas_limit

exceeds_block_gas(tx) ==
  tx.gas_limit > block_gas_limit \/ cumulative_gas > block_gas_limit - tx.gas_limit

total_cost(tx) == uint256_add(max_gas_cost(tx), tx.value)

exceeds_balance_Mutant(tx) == get_balance(ws, tx.sender) < total_cost(tx)

\* "Overflow means impossibly large cost".
exceeds_balance(tx) ==
  total_cost(tx) < tx.value \/ get_balance(ws, tx.sender) < total_cost(tx)

\* block_executor_validate_tx, its checks in order
validate_tx(tx) ==
  IF ~ tx.chain_ok THEN "CHAIN_ID_MISMATCH"
  ELSE IF tx.nonce < get_nonce(ws, tx.sender) THEN "NONCE_TOO_LOW"
  ELSE IF tx.nonce > get_nonce(ws, tx.sender) THEN "NONCE_TOO_HIGH"
  ELSE IF tx.gas_limit < tx_intrinsic_gas(tx) THEN "INTRINSIC_GAS"
  ELSE IF exceeds_block_gas(tx) THEN "GAS_LIMIT_EXCEEDED"
  ELSE IF tx.fee < base_fee THEN "MAX_FEE_TOO_LOW"
  ELSE IF exceeds_balance(tx) THEN "INSUFFICIENT_BALANCE"
  ELSE "VALID"

Init ==
  /\ \E a \in Address : ws = set_balance(world_state_create, a, Supply)
  /\ index = 0 /\ current = None
  /\ receipts = <<>> /\ rejected = <<>>
  /\ cumulative_gas = 0 /\ blob_gas_used = 0
  /\ root = None
  /\ issued = Supply /\ exact = TRUE

Reject_Mutant(tx) ==
  /\ validate_tx(tx) # "VALID"
  /\ ws' = begin_transaction(ws)
  /\ rejected' = Append(rejected, [index |-> Len(rejected), error |-> validate_tx(tx)])
  /\ index' = index + 1
  /\ UNCHANGED <<current, receipts, cumulative_gas, blob_gas_used, root, issued, exact>>

\* The transaction fails validation: it is listed as rejected.
Reject(tx) ==
  /\ validate_tx(tx) # "VALID"
  /\ ws' = begin_transaction(ws)
  /\ rejected' = Append(rejected, [index |-> index, error |-> validate_tx(tx)])
  /\ index' = index + 1
  /\ UNCHANGED <<current, receipts, cumulative_gas, blob_gas_used, root, issued, exact>>

Prepaid_Mutant(w, tx) == sub_balance(w, tx.sender, max_gas_cost(tx))

\* Steps 1 and 2 of execute_transaction: gas is prepaid, the nonce incremented.
Prepaid(w, tx) == increment_nonce(sub_balance(w, tx.sender, max_gas_cost(tx)), tx.sender)

\* Steps 4 and 5: sender, recipient and access list are warm.
WarmedUp(w, tx) ==
  [w EXCEPT !.warm_addresses = @ \cup {tx.sender, Recipient(tx)} \cup {k[1] : k \in tx.access_list},
            !.warm_slots = @ \cup tx.access_list]

\* Step 7: the value moves.
ValueMoved(w, tx) ==
  IF tx.value = 0 THEN w
  ELSE add_balance(sub_balance(w, tx.sender, tx.value), Recipient(tx), tx.value)

\* A transaction that passes validation, up to the call of the EVM.  That both
\* subtractions succeed is PaymentsSucceed below.
Start(tx) ==
  LET snapped == snapshot(WarmedUp(Prepaid(begin_transaction(ws), tx), tx))
      moved == ValueMoved(snapped, tx)
  IN  /\ validate_tx(tx) = "VALID"
      /\ ws' = IF is_create(tx) THEN create_contract(moved, Recipient(tx)) ELSE moved
      /\ current' = [tx |-> tx, recipient |-> Recipient(tx)]
      /\ index' = index + 1
      /\ exact' = (exact /\ ExactFees(tx))
      /\ UNCHANGED <<receipts, rejected, cumulative_gas, blob_gas_used, root, issued>>

NextTransaction ==
  /\ current = None /\ root = None
  /\ index < MaxTxs
  /\ \E tx \in Tx : Reject(tx) \/ Start(tx)
-----------------------------------------------------------------------------
\* What the EVM does to accounts while it runs (see EvmRun): calls move ether,
\* stores change storage, both of an account whose code runs.

Executing(a) ==
  /\ current # None
  /\ get_code(ws, a) # EmptyCode \/ (is_create(current.tx) /\ a = current.recipient)

EvmTransfer(a, b, v) ==
  /\ Executing(a)
  /\ get_balance(ws, a) >= v
  /\ ws' = add_balance(sub_balance(ws, a, v), b, v)
  /\ UNCHANGED <<index, current, receipts, rejected, cumulative_gas, blob_gas_used, root,
                 issued, exact>>

EvmStore(a, s, v) ==
  /\ Executing(a)
  /\ ws' = set_storage(ws, a, s, v)
  /\ UNCHANGED <<index, current, receipts, rejected, cumulative_gas, blob_gas_used, root,
                 issued, exact>>
-----------------------------------------------------------------------------
\* Saturating sum of the blob gas.
track_blob_gas(total, blob_gas) ==
  IF blob_gas <= MaxBlobGas /\ total <= MaxBlobGas - blob_gas THEN total + blob_gas ELSE MaxBlobGas

Settled_Mutant(w, tx, gas_used) ==
  LET price == effective_gas_price(tx)
      refunded == add_balance(w, tx.sender, uint256_mul(price, tx.gas_limit - gas_used))
  IN  add_balance(refunded, coinbase, uint256_mul(price, gas_used))

\* Steps 11 and 12: unused gas goes back to the sender, the priority fee to the
\* coinbase.
Settled(w, tx, gas_used) ==
  LET price == effective_gas_price(tx)
      gas_remaining == tx.gas_limit - gas_used
      refunded == IF gas_remaining > 0
                  THEN add_balance(w, tx.sender, uint256_mul(price, gas_remaining))
                  ELSE w
  IN  add_balance(refunded, coinbase, uint256_mul(uint256_sub(price, base_fee), gas_used))

\* The tail of execute_transaction and of the loop of block_executor_run, for a
\* transaction that used gas_used and left the state w.
Finalize(w, success, gas_used) ==
  LET tx == current.tx
  IN  /\ ws' = Settled(w, tx, gas_used)
      /\ cumulative_gas' = cumulative_gas + gas_used
      /\ receipts' = Append(receipts,
           [tx |-> tx, index |-> index - 1, success |-> success, gas_used |-> gas_used,
            cumulative_gas |-> cumulative_gas + gas_used])
      /\ blob_gas_used' = track_blob_gas(blob_gas_used, tx.blob_gas)
      /\ issued' = issued - base_fee * gas_used
      /\ current' = None
      /\ UNCHANGED <<index, rejected, root, exact>>

\* The refund is at most a fifth of the gas used.
RefundedGas(gas_used, refund) ==
  gas_used - (IF refund < gas_used \div 5 THEN refund ELSE gas_used \div 5)

\* The EVM stopped or returned.  The output of a creation becomes the code.
Succeed(evm_gas_used, evm_gas_refund, output) ==
  LET tx == current.tx
      committed == commit_snapshot(ws, ws.snapshot_counter)
      w == IF is_create(tx) /\ output # EmptyCode
           THEN set_code(committed, current.recipient, output)
           ELSE committed
  IN  Finalize(w, TRUE, RefundedGas(tx_intrinsic_gas(tx) + evm_gas_used, evm_gas_refund))

\* The EVM failed or reverted: all gas is consumed.
Fail == Finalize(revert_to_snapshot(ws, ws.snapshot_counter), FALSE, current.tx.gas_limit)

EvmResult ==
  /\ current # None
  /\ \/ Fail
     \/ \E gas \in 0..(current.tx.gas_limit - tx_intrinsic_gas(current.tx)),
           refund \in EvmRefund, output \in Code : Succeed(gas, refund, output)

\* The end of block_executor_run.
FinishBlock ==
  /\ current = None /\ root = None
  /\ ws' = world_state_root(ws)
  /\ root' = ws'.state_trie
  /\ UNCHANGED <<index, current, receipts, rejected, cumulative_gas, blob_gas_used, issued, exact>>

Next ==
  \/ NextTransaction
  \/ \E a, b \in Address, v \in Balance \ {0} : EvmTransfer(a, b, v)
  \/ \E a \in Address, s \in Slot, v \in Word : EvmStore(a, s, v)
  \/ EvmResult
  \/ FinishBlock

Spec == Init /\ [][Next]_vars
-----------------------------------------------------------------------------
\* Gas accounting over the block: every receipt's cumulative gas is that of the
\* receipt before plus its own, the last one is the block's gas_used, and with the
\* whole limit of the transaction in the EVM it stays within the block gas limit; the
\* blob gas is that of the receipts, saturated where the sum leaves 64 bits.
\* (cumulative_gas <= block_gas_limit is what keeps validation's unsigned
\* comparison meaningful.)
GasAccounted ==
  /\ \A i \in 1..Len(receipts) :
       /\ receipts[i].cumulative_gas =
            receipts[i].gas_used + (IF i = 1 THEN 0 ELSE receipts[i - 1].cumulative_gas)
       /\ receipts[i].gas_used <= receipts[i].tx.gas_limit
  /\ cumulative_gas = IF receipts = <<>> THEN 0 ELSE receipts[Len(receipts)].cumulative_gas
  /\ cumulative_gas + (IF current = None THEN 0 ELSE current.tx.gas_limit) <= block_gas_limit
  /\ LET blob_gas == SumFunction([i \in 1..Len(receipts) |-> receipts[i].tx.blob_gas])
     IN  blob_gas_used = IF blob_gas > MaxBlobGas THEN MaxBlobGas ELSE blob_gas

\* Every transaction taken up ends in exactly one of the two result arrays, in
\* block order, or is the one in the EVM: so the arrays, allocated for tx_count
\* entries each, never overflow and t8n reports each transaction once.
EachTransactionOnce ==
  /\ \A n \in 0..(index - 1) :
       \/ current # None /\ n = index - 1
       \/ \E i \in 1..Len(receipts) : receipts[i].index = n
       \/ \E i \in 1..Len(rejected) : rejected[i].index = n
  /\ Len(receipts) + Len(rejected) + (IF current = None THEN 0 ELSE 1) = index
  /\ \A i \in 1..(Len(receipts) - 1) : receipts[i].index < receipts[i + 1].index
  /\ \A i \in 1..(Len(rejected) - 1) : rejected[i].index < rejected[i + 1].index

\* A sender's nonce is used by at most one executed transaction, below the largest
\* nonce (where increment_nonce saturates), however transactions of several
\* senders, rejected ones and failing ones are mixed.
NoReplay ==
  \A i, j \in 1..Len(receipts) :
    /\ receipts[i].tx.sender = receipts[j].tx.sender
    /\ receipts[i].tx.nonce = receipts[j].tx.nonce
    /\ receipts[i].tx.nonce < MaxNonce - 1
    => i = j

\* What the sender has prepaid for the transaction in the EVM.
Escrow == IF current = None THEN 0 ELSE effective_gas_price(current.tx) * current.tx.gas_limit

\* Ether is accounted for: as long as no amount wraps around, balances and the gas
\* prepaid by the transaction in the EVM add up to the ether issued: what there was
\* before the block and the block reward, less the base fees, which are burned.
EtherAccounted ==
  exact => SumFunction([a \in Address |-> get_balance(ws, a)]) + Escrow = issued

\* "Should not happen - validated earlier": for a transaction that passes
\* validation, also one whose fees wrap around, prepaying the gas and then moving
\* the value succeed, so no valid transaction is rejected as a fatal error.
PaymentsSucceed ==
  current = None /\ root = None =>
    \A tx \in Tx : validate_tx(tx) = "VALID" =>
      /\ sub_balance_ok(ws, tx.sender, max_gas_cost(tx))
      /\ sub_balance_ok(Prepaid(ws, tx), tx.sender, tx.value)

\* The state root of the block commits to the storage of every account, although
\* the EVM's stores only mark accounts as dirty and the accounts may be rewritten,
\* emptied and created again before the root is computed.
RootCoversStorage ==
  root # None =>
    \A a \in Address : root[a] # None => root[a].storage_root = StorageOf(ws, a)
-----------------------------------------------------------------------------
(* What the repository says and the code does not do. *)

\* block_executor.c: "Create contract account with nonce=1 (EIP-161)".  While a
\* creation is in the EVM its contract account has nonce 1.
CreatedWithNonceOne ==
  current # None /\ is_create(current.tx) => get_nonce(ws, current.recipient) = 1
=============================================================================
