---------------------------- MODULE GasSchedule ----------------------------
(***************************************************************************)
(* The dynamic gas prices of include/div0/evm/gas.h and                    *)
(* gas/dynamic_costs.h.  The prices are constants, so that a small model   *)
(* may scale them down; GasAssumption lists what about the real numbers    *)
(* the results rest on.                                                    *)
(*                                                                         *)
(* The operators named ..._Mutant are plausible mistakes in the definition *)
(* that follows them; no specification uses them.                          *)
(***************************************************************************)
EXTENDS Integers

CONSTANTS GAS_COLD_ACCOUNT_ACCESS, GAS_WARM_ACCESS,
          GAS_CALL_STIPEND, GAS_CALL_VALUE, GAS_NEW_ACCOUNT,
          GAS_COLD_SLOAD, GAS_WARM_STORAGE_READ,
          GAS_SSTORE_SET, GAS_SSTORE_RESET, GAS_SSTORE_CLEAR_REFUND,
          GAS_LOG,
          CallGasDivisor   \* the 64 of the 63/64 rule

ASSUME GasAssumption ==
  /\ GAS_COLD_ACCOUNT_ACCESS \in Nat \ {0} /\ GAS_WARM_ACCESS \in Nat \ {0}
  /\ GAS_CALL_STIPEND \in Nat /\ GAS_CALL_VALUE \in Nat /\ GAS_NEW_ACCOUNT \in Nat
  /\ GAS_CALL_STIPEND <= GAS_CALL_VALUE
  /\ GAS_COLD_SLOAD \in Nat \ {0} /\ GAS_WARM_STORAGE_READ \in Nat \ {0}
  /\ GAS_SSTORE_SET \in Nat /\ GAS_SSTORE_RESET \in Nat
  /\ GAS_WARM_STORAGE_READ <= GAS_SSTORE_SET
  /\ GAS_WARM_STORAGE_READ <= GAS_SSTORE_RESET
  /\ GAS_SSTORE_CLEAR_REFUND \in Nat
  /\ GAS_LOG \in Nat \ {0}
  /\ CallGasDivisor \in Nat \ {0}

\* All but one 64th of the remaining gas (EIP-150).
gas_cap_call(gas_left) == gas_left - (gas_left \div CallGasDivisor)

call_child_gas(gas_left, requested) ==
  IF requested < gas_cap_call(gas_left) THEN requested ELSE gas_cap_call(gas_left)

account_access_cost_Mutant(is_cold) == IF is_cold THEN GAS_COLD_ACCOUNT_ACCESS ELSE 0

account_access_cost(is_cold) == IF is_cold THEN GAS_COLD_ACCOUNT_ACCESS ELSE GAS_WARM_ACCESS

sload_cost(is_cold) == IF is_cold THEN GAS_COLD_SLOAD ELSE GAS_WARM_STORAGE_READ

sstore_cost_Mutant(is_cold, current, original, new) ==
  (IF is_cold THEN GAS_COLD_SLOAD ELSE 0)
    + (IF new # current
       THEN IF original = 0 THEN GAS_SSTORE_SET ELSE GAS_SSTORE_RESET
       ELSE GAS_WARM_STORAGE_READ)

sstore_cost(is_cold, current, original, new) ==
  (IF is_cold THEN GAS_COLD_SLOAD ELSE 0)
    + (IF new # current /\ original = current
       THEN IF original = 0 THEN GAS_SSTORE_SET ELSE GAS_SSTORE_RESET
       ELSE GAS_WARM_STORAGE_READ)

clear_refund_Mutant(current, original, new) ==
  IF current = 0 THEN -GAS_SSTORE_CLEAR_REFUND
  ELSE IF new = 0 THEN GAS_SSTORE_CLEAR_REFUND
  ELSE 0

\* Clearing a slot that held a value earns a refund, filling it again takes the
\* refund back.
clear_refund(current, original, new) ==
  IF original = 0 THEN 0
  ELSE IF current = 0 THEN -GAS_SSTORE_CLEAR_REFUND
  ELSE IF new = 0 THEN GAS_SSTORE_CLEAR_REFUND
  ELSE 0

\* Restoring the original value refunds what the first change cost on top of a
\* warm read.
restore_refund(original, new) ==
  IF new # original THEN 0
  ELSE (IF original = 0 THEN GAS_SSTORE_SET ELSE GAS_SSTORE_RESET) - GAS_WARM_STORAGE_READ

sstore_refund(current, original, new) ==
  IF current = new THEN 0
  ELSE clear_refund(current, original, new) + restore_refund(original, new)

\* The refund counter is unsigned: a deduction larger than the counter clamps it.
apply_refund(counter, refund) ==
  IF refund >= 0 THEN counter + refund
  ELSE IF counter >= -refund THEN counter + refund ELSE 0
=============================================================================
