------------------------- MODULE StateAccessProofs --------------------------
(***************************************************************************)
(* The invariants of StateAccess hold in every reachable state.            *)
(***************************************************************************)
EXTENDS StateAccessSteps

\* The invariant is inductive: one case per function of the state interface.
LEMMA Inductive == IInv /\ [Next]_vars => IInv'
<1> SUFFICES ASSUME IInv, [Next]_vars PROVE IInv'
  OBVIOUS
<1>0. ws \in WorldStateType
  BY DEF IInv, TypeOK
<1>1. ASSUME NEW a \in Address, CreateContract(a) PROVE IInv'
  <2>1. CASE account_exists(ws, a)
    BY <1>1, <2>1, NoChangeStep DEF CreateContract, create_contract
  <2>2. CASE ~ account_exists(ws, a)
    <3>1. /\ [account_empty EXCEPT !.nonce = 1] \in Account
          /\ [account_empty EXCEPT !.nonce = 1].storage_root = get_account(ws, a).storage_root
      BY <2>2, EmptyTypes, AccountFieldTypes, WorldStateAssumption
         DEF Nonce, get_account, account_empty
    <3> QED
      BY <1>1, <2>2, <3>1, SetAccountStep, Zenon DEF CreateContract, create_contract
  <2> QED
    BY <2>1, <2>2
<1>2. ASSUME NEW a \in Address, IncrementNonce(a) PROVE IInv'
  <2>1. get_nonce(ws, a) < MaxNonce - 1 => get_nonce(ws, a) + 1 \in Nonce
    BY <1>0, GetterTypes, WorldStateAssumption DEF Nonce
  <2>2. ~ (get_nonce(ws, a) >= MaxNonce - 1) => get_nonce(ws, a) < MaxNonce - 1
    BY <1>0, GetterTypes, WorldStateAssumption DEF Nonce
  <2> QED
    BY <1>2, <2>1, <2>2, SetNonceStep, NoChangeStep DEF IncrementNonce, increment_nonce
<1>3. ASSUME NEW a \in Address, NEW b \in Balance, SetBalance(a, b) PROVE IInv'
  BY <1>3, SetBalanceStep DEF SetBalance
<1>4. ASSUME NEW a \in Address, NEW b \in Balance, AddBalance(a, b) PROVE IInv'
  <2>1. uint256_add(get_balance(ws, a), b) \in Balance
    BY <1>0, GetterTypes, Uint256AddType
  <2> QED
    BY <1>4, <2>1, SetBalanceStep, NoChangeStep DEF AddBalance, add_balance
<1>5. ASSUME NEW a \in Address, NEW b \in Balance, SubBalance(a, b) PROVE IInv'
  <2>1. sub_balance_ok(ws, a, b) => get_balance(ws, a) - b \in Balance
    BY <1>0, GetterTypes, WorldStateAssumption DEF sub_balance_ok, Balance
  <2> QED
    BY <1>5, <2>1, SetBalanceStep, NoChangeStep DEF SubBalance, sub_balance
<1>6. ASSUME NEW a \in Address, NEW n \in Nonce, SetNonce(a, n) PROVE IInv'
  BY <1>6, SetNonceStep DEF SetNonce
<1>7. ASSUME NEW a \in Address,
             WarmAddressStep(a) \/ \E s \in Slot : WarmSlotStep(a, s)
      PROVE  IInv'
  <2>1. CASE WarmAddressStep(a)
    <3>1. warm_address(ws, a) \in WorldStateType /\ SameAccounts(ws, warm_address(ws, a))
      BY <1>0 DEF warm_address, WorldStateType, SameAccounts
    <3> QED
      BY <2>1, <3>1, SameAccountsStep DEF WarmAddressStep
  <2>2. ASSUME NEW s \in Slot, WarmSlotStep(a, s) PROVE IInv'
    <3>1. warm_slot(ws, a, s) \in WorldStateType /\ SameAccounts(ws, warm_slot(ws, a, s))
      BY <1>0, WarmTypes, ZenonT(60) DEF warm_slot, WorldStateType, SameAccounts
    <3> QED
      BY <2>2, <3>1, SameAccountsStep DEF WarmSlotStep
  <2> QED
    BY <1>7, <2>1, <2>2
<1>8. ASSUME Snapshot PROVE IInv'
  <2>1. snapshot(ws) \in WorldStateType /\ SameAccounts(ws, snapshot(ws))
    BY <1>0 DEF snapshot, WorldStateType, SameAccounts
  <2> QED
    BY <1>8, <2>1, SameAccountsStep DEF Snapshot
<1>9. ASSUME NEW id, RevertToSnapshot(id) \/ CommitSnapshot(id) PROVE IInv'
  BY <1>9, NoChangeStep DEF RevertToSnapshot, CommitSnapshot, revert_to_snapshot, commit_snapshot
<1>10. ASSUME Clear PROVE IInv'
  <2>1. ws.snapshot_counter \in Nat
    BY <1>0 DEF WorldStateType
  <2>2. Fresh'
    BY <1>10, <2>1 DEF Clear, Fresh, world_state_clear
  <2> QED
    BY <2>2, FreshState, PTL
<1>11. CASE UNCHANGED vars
  BY <1>11 DEF vars, IInv, TypeOK, AccountsTracked, OriginalIsTxStart, RootIsFresh, Bookkeeping
<1>12. CASE Next
  BY <1>1, <1>2, <1>3, <1>4, <1>5, <1>6, <1>7, <1>8, <1>9, <1>10, <1>12, SetCodeStep,
     SetStorageStep, StateRootStep, DeleteAccountStep, BeginTransactionStep,
     StateAccessAssumption DEF Next
<1> QED
  BY <1>11, <1>12
-----------------------------------------------------------------------------
\* The inductive invariant holds in every reachable state.
LEMMA Invariance == Spec => []IInv
<1>1. Init => IInv
  <2> SUFFICES ASSUME Init PROVE Fresh
    BY FreshState
  <2>1. ws = [world_state_create EXCEPT !.snapshot_counter = 0]
    BY Z3T(30) DEF Init, world_state_create
  <2> QED
    BY <2>1, Zenon DEF Init, Fresh
<1> QED
  BY <1>1, Inductive, PTL DEF Spec

\* Every call of the state interface keeps the world state well formed: balances,
\* nonces and words stay within their widths.
THEOREM TypeCorrect == Spec => []TypeOK
BY Invariance, PTL DEF IInv

\* The state trie holds no empty account and every account in it is tracked for
\* export, after any sequence of calls of the state interface.
THEOREM Tracking == Spec => []AccountsTracked
BY Invariance, PTL DEF IInv

\* get_original_storage answers the value at the start of the transaction for
\* every account that was not deleted in it.
THEOREM OriginalValues == Spec => []OriginalIsTxStart
BY Invariance, PTL DEF IInv

\* An account that world_state_root skips as clean carries the root of its storage
\* trie, unless its storage was once without an account.
THEOREM FreshRoots == Spec => []RootIsFresh
BY Invariance, PTL DEF IInv

\* The export of world_state_snapshot has exactly the accounts that exist, each
\* with exactly its non-zero slots unless its storage was once without an account.
THEOREM CompleteExport == Spec => []ExportIsComplete
<1>1. IInv => ExportIsComplete
  <2> SUFFICES ASSUME IInv PROVE ExportIsComplete
    OBVIOUS
  <2> DEFINE out == world_state_snapshot(ws)
  <2>1. DOMAIN out = {a \in Address : account_exists(ws, a)}
    BY DEF IInv, TypeOK, WorldStateType, AccountsTracked, world_state_snapshot
  <2>2. ASSUME NEW a \in DOMAIN out \ orphaned
        PROVE  DOMAIN out[a].storage = {s \in Slot : get_storage(ws, a, s) # 0}
    <3>1. a \in Address
      BY <2>1
    <3>2. DOMAIN out[a].storage = {s \in Slot : <<a, s>> \in ws.all_storage_slots
                                                /\ get_storage(ws, a, s) # 0}
      BY DEF world_state_snapshot
    <3>3. \A s \in Slot : get_storage(ws, a, s) # 0 => <<a, s>> \in ws.all_storage_slots
      BY <3>1 DEF IInv, Bookkeeping, get_storage
    <3> QED
      BY <3>2, <3>3
  <2> QED
    BY <2>1, <2>2 DEF ExportIsComplete
<1> QED
  BY <1>1, Invariance, PTL
=============================================================================
