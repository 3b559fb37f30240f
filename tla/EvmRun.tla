------------------------------- MODULE EvmRun -------------------------------
(***************************************************************************)
(* What the block executor relies on when it calls evm_execute_env: while  *)
(* a transaction runs, ether moves between accounts and nothing else about *)
(* balances, nonces and code changes; when it ends, it has used no more    *)
(* gas than it was given.  No frames, calls or opcodes.                    *)
(***************************************************************************)
EXTENDS Naturals

CONSTANTS Address, Balance

VARIABLES balance, nonce, code, running, gas, gas_used

vars == <<balance, nonce, code, running, gas, gas_used>>

Init == running = FALSE /\ gas = 0 /\ gas_used = 0

Begin ==
  /\ ~ running /\ running' = TRUE
  /\ gas' \in Nat /\ gas_used' = 0
  /\ UNCHANGED <<balance, nonce, code>>

Move(a, b, v) ==
  /\ running
  /\ balance[a] >= v
  /\ balance' = [[balance EXCEPT ![a] = @ - v] EXCEPT ![b] = @ + v]
  /\ UNCHANGED <<nonce, code, running, gas, gas_used>>

End ==
  /\ running /\ running' = FALSE
  /\ gas_used' \in 0..gas
  /\ UNCHANGED <<balance, nonce, code, gas>>

Next ==
  \/ Begin
  \/ \E a, b \in Address, v \in Balance : Move(a, b, v)
  \/ End

Spec == Init /\ [][Next]_vars
=============================================================================
