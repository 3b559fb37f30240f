----------------------- MODULE StateAccessRefinement ------------------------
(***************************************************************************)
(* The world state implements AccountMap: what the getters return changes  *)
(* only as the operations on four plain maps say.                          *)
(***************************************************************************)
EXTENDS StateAccessProofs

\* v answers the getters as w does.
SameView(w, v) ==
  \A b \in Address :
    /\ get_balance(v, b) = get_balance(w, b)
    /\ get_nonce(v, b) = get_nonce(w, b)
    /\ get_code_hash(v, b) = get_code_hash(w, b)
    /\ StorageOf(v, b) = StorageOf(w, b)

\* Writing an account changes what the getters answer for that address only, also
\* when the account is dropped for being empty.
LEMMA AccountWriteView ==
  ASSUME NEW w \in WorldStateType, NEW v \in WorldStateType, NEW a \in Address,
         NEW acc \in Account, AccountWrite(w, v, a, acc)
  PROVE  \A b \in Address :
           /\ get_balance(v, b) = IF b = a THEN acc.balance ELSE get_balance(w, b)
           /\ get_nonce(v, b) = IF b = a THEN acc.nonce ELSE get_nonce(w, b)
           /\ get_code_hash(v, b) = IF b = a THEN acc.code_hash ELSE get_code_hash(w, b)
           /\ StorageOf(v, b) = StorageOf(w, b)
<1> SUFFICES ASSUME NEW b \in Address
             PROVE  /\ get_account(v, b).balance = IF b = a THEN acc.balance
                                                   ELSE get_account(w, b).balance
                    /\ get_account(v, b).nonce = IF b = a THEN acc.nonce
                                                 ELSE get_account(w, b).nonce
                    /\ get_account(v, b).code_hash = IF b = a THEN acc.code_hash
                                                     ELSE get_account(w, b).code_hash
                    /\ StorageOf(v, b) = StorageOf(w, b)
  BY Zenon DEF get_balance, get_nonce, get_code_hash
<1>1. StorageOf(v, b) = StorageOf(w, b)
  BY DEF AccountWrite, StorageOf
<1>2. CASE b # a
  BY <1>1, <1>2 DEF AccountWrite, get_account, account_exists, WorldStateType
<1>3. CASE b = a /\ account_is_empty(acc)
  BY <1>1, <1>3 DEF AccountWrite, get_account, account_exists, account_is_empty, account_empty,
     WorldStateType
<1>4. CASE b = a /\ ~ account_is_empty(acc)
  BY <1>1, <1>4, NoneIsAbsent DEF AccountWrite, get_account, account_exists, WorldStateType
<1> QED
  BY <1>2, <1>3, <1>4

\* A step that answers the getters as before is a stuttering step of AccountMap.
LEMMA SameViewStep ==
  ASSUME SameView(ws, ws')
  PROVE  UNCHANGED AM!vars
BY DEF SameView, AM!vars, AllStorage

\* Setting an account that differs in one field from the one before is a step of
\* AccountMap.
LEMMA SetFieldStep ==
  ASSUME IInv, NEW a \in Address, NEW acc \in Account, ws' \in WorldStateType,
         AccountWrite(ws, ws', a, acc)
  PROVE  LET old == get_account(ws, a)
         IN  /\ acc.nonce = old.nonce /\ acc.code_hash = old.code_hash =>
                  AM!SetBalance(a, acc.balance)
             /\ acc.balance = old.balance /\ acc.code_hash = old.code_hash =>
                  AM!SetNonce(a, acc.nonce)
             /\ acc.balance = old.balance /\ acc.nonce = old.nonce =>
                  AM!SetCode(a, acc.code_hash)
<1> DEFINE old == get_account(ws, a)
<1>1. ws \in WorldStateType
  BY DEF IInv, TypeOK
<1>2. \A b \in Address :
        /\ get_balance(ws', b) = IF b = a THEN acc.balance ELSE get_balance(ws, b)
        /\ get_nonce(ws', b) = IF b = a THEN acc.nonce ELSE get_nonce(ws, b)
        /\ get_code_hash(ws', b) = IF b = a THEN acc.code_hash ELSE get_code_hash(ws, b)
        /\ StorageOf(ws', b) = StorageOf(ws, b)
  BY <1>1, AccountWriteView
<1>3. /\ get_balance(ws, a) = old.balance
      /\ get_nonce(ws, a) = old.nonce
      /\ get_code_hash(ws, a) = old.code_hash
  BY DEF get_balance, get_nonce, get_code_hash
<1>4. ASSUME acc.nonce = old.nonce, acc.code_hash = old.code_hash
      PROVE  AM!SetBalance(a, acc.balance)
  BY <1>2, <1>3, <1>4, Zenon DEF AM!SetBalance, AllStorage
<1>5. ASSUME acc.balance = old.balance, acc.code_hash = old.code_hash
      PROVE  AM!SetNonce(a, acc.nonce)
  BY <1>2, <1>3, <1>5, Zenon DEF AM!SetNonce, AllStorage
<1>6. ASSUME acc.balance = old.balance, acc.nonce = old.nonce
      PROVE  AM!SetCode(a, acc.code_hash)
  BY <1>2, <1>3, <1>6, Zenon DEF AM!SetCode, AllStorage
<1> QED
  BY <1>4, <1>5, <1>6
\* Setting a balance is a step of AccountMap.
LEMMA SetBalanceView ==
  ASSUME IInv, NEW a \in Address, NEW b \in Balance, Access(set_balance(ws, a, b))
  PROVE  AM!SetBalance(a, b)
<1> DEFINE acc == [get_account(ws, a) EXCEPT !.balance = b]
<1>1. ws \in WorldStateType /\ get_account(ws, a) \in Account
  BY GetAccountType DEF IInv, TypeOK
<1>2. /\ acc \in Account /\ acc.balance = b
      /\ acc.nonce = get_account(ws, a).nonce
      /\ acc.code_hash = get_account(ws, a).code_hash
  BY <1>1 DEF Account
<1>3. ws' \in WorldStateType /\ AccountWrite(ws, ws', a, acc)
  BY <1>1, <1>2, SetAccountWrites, SetAccountType DEF Access, Update, set_balance
<1> HIDE DEF acc
<1> QED
  BY <1>2, <1>3, SetFieldStep

\* Setting a nonce is a step of AccountMap.
LEMMA SetNonceView ==
  ASSUME IInv, NEW a \in Address, NEW n \in Nonce, Access(set_nonce(ws, a, n))
  PROVE  AM!SetNonce(a, n)
<1> DEFINE acc == [get_account(ws, a) EXCEPT !.nonce = n]
<1>1. ws \in WorldStateType /\ get_account(ws, a) \in Account
  BY GetAccountType DEF IInv, TypeOK
<1>2. /\ acc \in Account /\ acc.nonce = n
      /\ acc.balance = get_account(ws, a).balance
      /\ acc.code_hash = get_account(ws, a).code_hash
  BY <1>1 DEF Account
<1>3. ws' \in WorldStateType /\ AccountWrite(ws, ws', a, acc)
  BY <1>1, <1>2, SetAccountWrites, SetAccountType DEF Access, Update, set_nonce
<1> HIDE DEF acc
<1> QED
  BY <1>2, <1>3, SetFieldStep

\* Creating a contract account is setting the nonce of an absent account to one.
LEMMA CreateContractView ==
  ASSUME IInv, NEW a \in Address, CreateContract(a), ~ account_exists(ws, a)
  PROVE  AM!SetNonce(a, 1)
<1>1. get_account(ws, a) = account_empty
  BY DEF get_account
<1>2. create_contract(ws, a) = set_nonce(ws, a, 1)
  BY <1>1 DEF create_contract, set_nonce
<1>3. 1 \in Nonce
  BY WorldStateAssumption DEF Nonce
<1> QED
  BY <1>2, <1>3, SetNonceView DEF CreateContract

\* Storing code is a step of AccountMap.
LEMMA SetCodeView ==
  ASSUME IInv, NEW a \in Address, NEW c \in Code, SetCode(a, c)
  PROVE  AM!SetCode(a, c)
<1> DEFINE stored == [ws EXCEPT !.code_store = map_insert(@, a, c)]
           acc == [get_account(ws, a) EXCEPT !.code_hash = c]
<1>1. ws \in WorldStateType /\ get_account(ws, a) \in Account
  BY GetAccountType DEF IInv, TypeOK
<1>2. /\ acc \in Account /\ acc.code_hash = c
      /\ acc.balance = get_account(ws, a).balance
      /\ acc.nonce = get_account(ws, a).nonce
  BY <1>1 DEF Account
<1>3. stored \in WorldStateType /\ SameAccounts(ws, stored)
  BY <1>1 DEF WorldStateType, map_insert, SameAccounts
<1>4. ws' \in WorldStateType /\ ws' = set_account(stored, a, acc)
  BY <1>1, SetCodeType DEF SetCode, Access, Update, set_code
<1>5. AccountWrite(ws, ws', a, acc)
  <2>1. AccountWrite(stored, ws', a, acc)
    BY <1>2, <1>3, <1>4, SetAccountWrites
  <2> QED
    BY <1>3, <2>1 DEF AccountWrite, SameAccounts
<1> HIDE DEF acc
<1> QED
  BY <1>2, <1>4, <1>5, SetFieldStep

\* A call that leaves accounts and storage alone cannot be observed.
LEMMA SameAccountsView ==
  ASSUME NEW v, SameAccounts(ws, v), ws' = v
  PROVE  UNCHANGED AM!vars
<1>1. SameView(ws, ws')
  BY DEF SameView, SameAccounts, get_balance, get_nonce, get_code_hash, get_account, account_exists,
     StorageOf
<1> QED
  BY <1>1, SameViewStep

\* Writing a slot is a step of AccountMap.
LEMMA SetStorageView ==
  ASSUME IInv, NEW a \in Address, NEW s \in Slot, NEW x \in Word, SetStorage(a, s, x)
  PROVE  AM!SetStorage(a, s, x)
<1>1. ws \in WorldStateType /\ ws' = set_storage(ws, a, s, x)
  BY DEF IInv, TypeOK, SetStorage, Access, Update
<1>2. /\ ws'.state_trie = ws.state_trie
      /\ ws'.storage_tries = [ws.storage_tries EXCEPT ![a] = [StorageOf(ws, a) EXCEPT ![s] = x]]
  BY <1>1 DEF set_storage, WorldStateType
<1>3. \A b \in Address : StorageOf(ws', b) = IF b = a THEN [StorageOf(ws, a) EXCEPT ![s] = x]
                                             ELSE StorageOf(ws, b)
  <2>1. [StorageOf(ws, a) EXCEPT ![s] = x] # None
    BY <1>1, StorageOfType, NoneIsAbsent DEF Storage
  <2> QED
    BY <1>1, <1>2, <2>1 DEF StorageOf, WorldStateType
<1>4. \A b \in Address : get_account(ws', b) = get_account(ws, b)
  BY <1>2 DEF get_account, account_exists
<1> QED
  BY <1>3, <1>4, Zenon DEF AM!SetStorage, AllStorage, get_balance, get_nonce, get_code_hash

\* Deleting an account resets its entry in all four maps.
LEMMA DeleteAccountView ==
  ASSUME IInv, NEW a \in Address, DeleteAccount(a)
  PROVE  AM!Delete(a)
<1>1. ws \in WorldStateType /\ ws' = delete_account(ws, a)
  BY DEF IInv, TypeOK, DeleteAccount
<1>2. /\ ws'.state_trie = [ws.state_trie EXCEPT ![a] = None]
      /\ ws'.storage_tries = [ws.storage_tries EXCEPT ![a] = None]
  BY <1>1 DEF delete_account, WorldStateType
<1>3. \A b \in Address :
        /\ StorageOf(ws', b) = IF b = a THEN EmptyStorage ELSE StorageOf(ws, b)
        /\ get_account(ws', b) = IF b = a THEN account_empty ELSE get_account(ws, b)
  BY <1>1, <1>2 DEF StorageOf, get_account, account_exists, WorldStateType
<1>4. account_empty.balance = 0 /\ account_empty.nonce = 0 /\ account_empty.code_hash = EmptyCode
  BY DEF account_empty
<1> QED
  BY <1>3, <1>4, Zenon
     DEF AM!Delete, AM!ZeroStorage, EmptyStorage, AllStorage, get_balance, get_nonce,
     get_code_hash

\* Computing the state root cannot be observed: the accounts it rewrites keep their
\* balance, nonce and code, and those it drops had none.
LEMMA StateRootView ==
  ASSUME IInv, StateRoot
  PROVE  UNCHANGED AM!vars
<1> DEFINE visited == {b \in ws.dirty_storage : ws.storage_tries[b] # None}
           dropped == {b \in visited : account_is_empty(RootedAccount(ws, b))}
<1>1. ws \in WorldStateType /\ ws' = world_state_root(ws)
  BY DEF IInv, TypeOK, StateRoot, Access, Update
<1>2. /\ ws'.storage_tries = ws.storage_tries
      /\ ws'.state_trie = [b \in Address |-> IF b \in dropped THEN None
                                             ELSE IF b \in visited THEN RootedAccount(ws, b)
                                             ELSE ws.state_trie[b]]
  BY <1>1 DEF world_state_root, WorldStateType
<1>3. \A b \in Address :
        /\ RootedAccount(ws, b) \in Account
        /\ RootedAccount(ws, b).balance = get_account(ws, b).balance
        /\ RootedAccount(ws, b).nonce = get_account(ws, b).nonce
        /\ RootedAccount(ws, b).code_hash = get_account(ws, b).code_hash
  BY <1>1, GetAccountType, StorageOfType, AccountFieldTypes DEF RootedAccount, Account
<1>4. ASSUME NEW b \in Address
      PROVE  /\ get_account(ws', b).balance = get_account(ws, b).balance
             /\ get_account(ws', b).nonce = get_account(ws, b).nonce
             /\ get_account(ws', b).code_hash = get_account(ws, b).code_hash
  <2>1. CASE b \in dropped
    <3>1. get_account(ws', b) = account_empty
      BY <1>2, <2>1 DEF get_account, account_exists
    <3>2. account_is_empty(RootedAccount(ws, b))
      BY <2>1
    <3> QED
      BY <1>3, <3>1, <3>2 DEF account_is_empty, account_empty
  <2>2. CASE b \in visited /\ b \notin dropped
    <3>1. get_account(ws', b) = RootedAccount(ws, b)
      BY <1>2, <1>3, <2>2, NoneIsAbsent DEF get_account, account_exists
    <3> QED
      BY <1>3, <3>1
  <2>3. CASE b \notin visited
    BY <1>2, <2>3 DEF get_account, account_exists
  <2> QED
    BY <2>1, <2>2, <2>3
<1>5. SameView(ws, ws')
  BY <1>2, <1>4 DEF SameView, StorageOf, get_balance, get_nonce, get_code_hash
<1> QED
  BY <1>5, SameViewStep
\* Every step of the world state is a step of AccountMap or changes nothing a getter
\* answers.
LEMMA StepRefines == IInv /\ [Next]_vars => [AM!Next]_(AM!vars)
<1> SUFFICES ASSUME IInv, [Next]_vars PROVE AM!Next \/ UNCHANGED AM!vars
  OBVIOUS
<1>0. ws \in WorldStateType
  BY DEF IInv, TypeOK
<1>1. ASSUME Access(ws) PROVE UNCHANGED AM!vars
  BY <1>1, SameAccountsView DEF SameAccounts, Access, Update
<1>2. ASSUME NEW a \in Address, NEW b \in Balance, AM!SetBalance(a, b) PROVE AM!Next
  BY <1>2 DEF AM!Next
<1>3. ASSUME NEW a \in Address, NEW n \in Nonce, AM!SetNonce(a, n) PROVE AM!Next
  BY <1>3 DEF AM!Next
<1>4. ASSUME NEW a \in Address, CreateContract(a) PROVE AM!Next \/ UNCHANGED AM!vars
  <2>1. 1 \in Nonce
    BY WorldStateAssumption DEF Nonce
  <2> QED
    BY <1>1, <1>3, <1>4, <2>1, CreateContractView DEF CreateContract, create_contract
<1>5. ASSUME NEW a \in Address, IncrementNonce(a) PROVE AM!Next \/ UNCHANGED AM!vars
  <2>1. ~ (get_nonce(ws, a) >= MaxNonce - 1) => get_nonce(ws, a) + 1 \in Nonce
    BY <1>0, GetterTypes, WorldStateAssumption DEF Nonce
  <2> QED
    BY <1>1, <1>3, <1>5, <2>1, SetNonceView DEF IncrementNonce, increment_nonce
<1>6. ASSUME NEW a \in Address, NEW b \in Balance,
             SetBalance(a, b) \/ AddBalance(a, b) \/ SubBalance(a, b)
      PROVE  AM!Next \/ UNCHANGED AM!vars
  <2>1. CASE SetBalance(a, b)
    BY <1>2, <2>1, SetBalanceView DEF SetBalance
  <2>2. CASE AddBalance(a, b)
    <3>1. uint256_add(get_balance(ws, a), b) \in Balance
      BY <1>0, GetterTypes, Uint256AddType
    <3> QED
      BY <1>1, <1>2, <2>2, <3>1, SetBalanceView DEF AddBalance, add_balance
  <2>3. CASE SubBalance(a, b)
    <3>1. sub_balance_ok(ws, a, b) => get_balance(ws, a) - b \in Balance
      BY <1>0, GetterTypes, WorldStateAssumption DEF sub_balance_ok, Balance
    <3> QED
      BY <1>1, <1>2, <2>3, <3>1, SetBalanceView DEF SubBalance, sub_balance
  <2> QED
    BY <1>6, <2>1, <2>2, <2>3
<1>7. ASSUME NEW a \in Address, NEW n \in Nonce, SetNonce(a, n) PROVE AM!Next
  BY <1>3, <1>7, SetNonceView DEF SetNonce
<1>8. ASSUME NEW a \in Address, NEW c \in Code, SetCode(a, c) PROVE AM!Next
  <2>1. AM!SetCode(a, c)
    BY <1>8, SetCodeView
  <2> QED
    BY <2>1 DEF AM!Next
<1>9. ASSUME NEW a \in Address, NEW s \in Slot, NEW x \in Word, SetStorage(a, s, x) PROVE AM!Next
  <2>1. AM!SetStorage(a, s, x)
    BY <1>9, SetStorageView
  <2> QED
    BY <2>1 DEF AM!Next
<1>10. ASSUME NEW a \in Address, DeleteAccount(a) PROVE AM!Next
  <2>1. AM!Delete(a)
    BY <1>10, DeleteAccountView
  <2> QED
    BY <2>1 DEF AM!Next
<1>11. ASSUME NEW a \in Address, WarmAddressStep(a) \/ \E s \in Slot : WarmSlotStep(a, s)
       PROVE  UNCHANGED AM!vars
  <2>1. SameAccounts(ws, ws')
    BY <1>0, <1>11, Zenon
       DEF WarmAddressStep, WarmSlotStep, Access, Update, warm_address, warm_slot,
       WorldStateType, SameAccounts
  <2> QED
    BY <2>1, SameAccountsView
<1>12. ASSUME Snapshot \/ BeginTransaction PROVE UNCHANGED AM!vars
  <2>1. SameView(ws, ws')
    BY <1>0, <1>12, ZenonT(60)
       DEF Snapshot, BeginTransaction, Access, Update, snapshot, begin_transaction,
       WorldStateType, SameView, get_balance, get_nonce, get_code_hash, get_account,
       account_exists, StorageOf
  <2> QED
    BY <2>1, SameViewStep
<1>13. ASSUME NEW id, RevertToSnapshot(id) \/ CommitSnapshot(id) PROVE UNCHANGED AM!vars
  BY <1>1, <1>13 DEF RevertToSnapshot, CommitSnapshot, revert_to_snapshot, commit_snapshot
<1>14. ASSUME Clear PROVE AM!Next
  <2>1. /\ ws'.state_trie = [a \in Address |-> None]
        /\ ws'.storage_tries = [a \in Address |-> None]
    BY <1>14 DEF Clear, world_state_clear, world_state_create
  <2>2. \A b \in Address : get_account(ws', b) = account_empty /\ StorageOf(ws', b) = EmptyStorage
    BY <2>1 DEF get_account, account_exists, StorageOf
  <2>3. \A b \in Address : /\ get_balance(ws', b) = 0
                          /\ get_nonce(ws', b) = 0
                          /\ get_code_hash(ws', b) = EmptyCode
    BY <2>2 DEF get_balance, get_nonce, get_code_hash, account_empty
  <2>4. [a \in Address |-> get_balance(ws, a)]' = [a \in Address |-> 0]
    BY <2>3
  <2>5. [a \in Address |-> get_nonce(ws, a)]' = [a \in Address |-> 0]
    BY <2>3
  <2>6. [a \in Address |-> get_code_hash(ws, a)]' = [a \in Address |-> EmptyCode]
    BY <2>3
  <2>7. AllStorage(ws)' = [a \in Address |-> AM!ZeroStorage]
    BY <2>2 DEF AllStorage, EmptyStorage, AM!ZeroStorage
  <2>8. AM!Clear
    BY <2>4, <2>5, <2>6, <2>7 DEF AM!Clear
  <2> QED
    BY <2>8 DEF AM!Next
<1>15. CASE UNCHANGED vars
  BY <1>15 DEF vars, AM!vars
<1>16. CASE Next
  BY <1>4, <1>5, <1>6, <1>7, <1>8, <1>9, <1>10, <1>11, <1>12, <1>13, <1>14, <1>16, StateRootView,
     StateAccessAssumption DEF Next
<1> QED
  BY <1>15, <1>16

\* The world state implements AccountMap: whatever sequence of calls a client makes,
\* the getters answer as four plain maps would.
THEOREM Refinement == Spec => ImplementsAccountMap
<1>1. Init => AM!Init
  <2> SUFFICES ASSUME Init PROVE AM!Init
    OBVIOUS
  <2>1. \A b \in Address : get_account(ws, b) = account_empty /\ StorageOf(ws, b) = EmptyStorage
    BY DEF Init, world_state_create, get_account, account_exists, StorageOf
  <2> QED
    BY <2>1 DEF AM!Init, AM!ZeroStorage, EmptyStorage, AllStorage, get_balance, get_nonce,
       get_code_hash, account_empty
<1> QED
  BY <1>1, Invariance, StepRefines, PTL DEF Spec, ImplementsAccountMap, AM!Spec
=============================================================================
