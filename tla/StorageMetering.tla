-------------------------- MODULE StorageMetering --------------------------
(***************************************************************************)
(* Gas and refunds of SLOAD and SSTORE (src/evm/opcodes/storage.h) over a  *)
(* block: any number of frames of any contracts load and store slots, some *)
(* run out of gas doing so, and transactions follow each other.            *)
(*                                                                         *)
(* For each slot, history variables add up over the current transaction    *)
(* the operations that were paid for (ops), the gas charged (spent), the   *)
(* part of it that is surcharge for a cold slot (cold), and the refunds    *)
(* granted minus those taken back (back).                                  *)
(***************************************************************************)
EXTENDS WorldState, GasSchedule

LOCAL INSTANCE Functions

CONSTANT MaxOps   \* bound: storage operations per slot and transaction

VARIABLES ws, gas_refund, ops, cold, spent, back

history == <<ops, cold, spent, back>>

vars == <<ws, gas_refund, history>>

Zero == [k \in SlotKey |-> 0]

Init ==
  /\ ws = world_state_create
  /\ gas_refund = 0
  /\ ops = Zero /\ cold = Zero /\ spent = Zero /\ back = Zero

\* Counts one operation on k that costs cost, and would cost warm on a warm
\* slot, and refunds refund.
Count(k, cost, warm, refund) ==
  /\ ops' = [ops EXCEPT ![k] = @ + 1]
  /\ spent' = [spent EXCEPT ![k] = @ + cost]
  /\ cold' = [cold EXCEPT ![k] = @ + (cost - warm)]
  /\ back' = [back EXCEPT ![k] = @ + refund]

op_sload(a, s) ==
  /\ ws' = warm_slot(ws, a, s)
  /\ Count(<<a, s>>, sload_cost(~ is_slot_warm(ws, a, s)), sload_cost(FALSE), 0)
  /\ UNCHANGED gas_refund

\* The whole of op_sstore when the frame has gas enough.
op_sstore(a, s, v) ==
  LET current == get_storage(ws, a, s)
      original == get_original_storage(ws, a, s)
      cost(is_cold) == sstore_cost(is_cold, current, original, v)
      refund == sstore_refund(current, original, v)
  IN  /\ ws' = set_storage(warm_slot(ws, a, s), a, s, v)
      /\ gas_refund' = apply_refund(gas_refund, refund)
      /\ Count(<<a, s>>, cost(~ is_slot_warm(ws, a, s)), cost(FALSE), refund)

\* Either operation without gas enough: the slot has been warmed by then, and
\* the frame ends with an error.
OutOfGas(a, s) ==
  /\ ws' = warm_slot(ws, a, s)
  /\ UNCHANGED <<gas_refund, history>>

\* The executor's begin_transaction and evm_reset.
NextTransaction ==
  /\ ws' = begin_transaction(ws)
  /\ gas_refund' = 0
  /\ ops' = Zero /\ cold' = Zero /\ spent' = Zero /\ back' = Zero

Next ==
  \/ \E a \in Address, s \in Slot :
       \/ /\ ops[<<a, s>>] < MaxOps
          /\ op_sload(a, s) \/ \E v \in Word : op_sstore(a, s, v)
       \/ OutOfGas(a, s)
  \/ NextTransaction

Spec == Init /\ [][Next]_vars
-----------------------------------------------------------------------------
\* The part of the price of a slot that depends on where its value started and
\* where it is now.
Potential(original, current) ==
  IF current = original THEN 0
  ELSE IF original = 0 THEN GAS_SSTORE_SET - GAS_WARM_STORAGE_READ
  ELSE GAS_SSTORE_RESET - GAS_WARM_STORAGE_READ
         - (IF current = 0 THEN GAS_SSTORE_CLEAR_REFUND ELSE 0)

\* Net gas metering (EIP-2200, EIP-3529): what a transaction has paid for a slot,
\* less the refunds, is one warm read per operation, at most one cold surcharge,
\* and a sum that depends only on the slot's value at the start of the
\* transaction and now, never on the values written in between.
NetMetering ==
  \A a \in Address, s \in Slot : LET k == <<a, s>> IN
    /\ spent[k] - back[k] =
         GAS_WARM_STORAGE_READ * ops[k] + cold[k]
           + Potential(get_original_storage(ws, a, s), get_storage(ws, a, s))
    /\ cold[k] <= GAS_COLD_SLOAD

\* The refund counter is exact: it is the sum of the refunds of all slots, and the
\* clamp at zero in op_sstore never has anything to clamp.
RefundIsExact ==
  /\ gas_refund = SumFunction(back)
  /\ \A k \in SlotKey : back[k] >= 0
=============================================================================
