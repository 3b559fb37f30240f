-------------------------- MODULE StateAccessSteps --------------------------
(***************************************************************************)
(* The inductive invariant of StateAccess, and that the operations of the  *)
(* world state preserve it, for all sets of addresses, slots and codes and *)
(* all word sizes.                                                         *)
(*                                                                         *)
(* RootIsFresh and ExportIsComplete are not inductive.  Bookkeeping adds   *)
(* what they rest on: an account without a storage trie carries the empty  *)
(* root even while it is dirty (a trie is only ever dropped together with  *)
(* its account), every non-empty slot of an account that never lost its    *)
(* storage is tracked, and orphaned really has the addresses whose storage *)
(* has no account.                                                         *)
(***************************************************************************)
EXTENDS StateAccess, WorldStateProofs

Bookkeeping ==
  /\ Homeless(ws) \subseteq orphaned
  /\ \A a \in Address : account_exists(ws, a) /\ ws.storage_tries[a] = None =>
       ws.state_trie[a].storage_root = EmptyStorage
  /\ \A a \in Address \ orphaned, s \in Slot :
       StorageOf(ws, a)[s] # 0 => <<a, s>> \in ws.all_storage_slots

\* v is w with the account acc written at a, and nothing else about accounts and
\* storage changed: what world_state_set_account does.
AccountWrite(w, v, a, acc) ==
  /\ v.storage_tries = w.storage_tries
  /\ v.original_storage = w.original_storage
  /\ v.dirty_storage = w.dirty_storage
  /\ IF account_is_empty(acc)
     THEN /\ v.state_trie = [w.state_trie EXCEPT ![a] = None]
          /\ v.all_accounts = w.all_accounts \ {a}
          /\ v.all_storage_slots = {k \in w.all_storage_slots : k[1] # a}
     ELSE /\ v.state_trie = [w.state_trie EXCEPT ![a] = acc]
          /\ v.all_accounts = w.all_accounts \cup {a}
          /\ v.all_storage_slots = w.all_storage_slots

\* v has the accounts, the storage and the tracking sets of w.
SameAccounts(w, v) ==
  /\ v.state_trie = w.state_trie
  /\ v.storage_tries = w.storage_tries
  /\ v.original_storage = w.original_storage
  /\ v.dirty_storage = w.dirty_storage
  /\ v.all_accounts = w.all_accounts
  /\ v.all_storage_slots = w.all_storage_slots

Fresh ==
  /\ \E n \in Nat : ws = [world_state_create EXCEPT !.snapshot_counter = n]
  /\ txStart = [a \in Address |-> EmptyStorage]
  /\ deleted = {}
  /\ orphaned = {}

IInv ==
  /\ TypeOK
  /\ AccountsTracked
  /\ OriginalIsTxStart
  /\ RootIsFresh
  /\ Bookkeeping
-----------------------------------------------------------------------------
\* Writing an account that keeps its storage root preserves the invariant.
LEMMA AccountWriteStep ==
  ASSUME IInv, NEW a \in Address, NEW acc \in Account, NEW v \in WorldStateType,
         AccountWrite(ws, v, a, acc),
         acc.storage_root = get_account(ws, a).storage_root,
         Access(v)
  PROVE  IInv'
<1> USE DEF IInv
<1>1. TypeOK'
  BY DEF TypeOK, Access, Update, Homeless
<1>2. AccountsTracked'
  BY NoneIsAbsent DEF AccountsTracked, AccountWrite, Access, Update, TypeOK, WorldStateType,
     account_exists
<1>3. OriginalIsTxStart'
  <2>1. \A b \in Address, s \in Slot :
          get_original_storage(v, b, s) = get_original_storage(ws, b, s)
    BY DEF AccountWrite, get_original_storage, get_storage, StorageOf
  <2> QED
    BY <2>1 DEF OriginalIsTxStart, Access, Update
<1>4. RootIsFresh'
  BY EmptyTypes, NoneIsAbsent DEF RootIsFresh, Bookkeeping, AccountWrite, Access, Update, TypeOK,
     WorldStateType, account_exists, get_account, account_empty, StorageOf, Homeless
<1>5. Bookkeeping'
  <2>1. (Homeless(ws) \subseteq orphaned)'
    BY DEF Access, Update
  <2>2. \A b \in Address : account_exists(v, b) /\ v.storage_tries[b] = None =>
          v.state_trie[b].storage_root = EmptyStorage
    BY DEF Bookkeeping, AccountWrite, TypeOK, WorldStateType, account_exists, get_account,
       account_empty
  <2>3. ASSUME NEW b \in Address \ orphaned', NEW s \in Slot, StorageOf(v, b)[s] # 0
        PROVE  <<b, s>> \in v.all_storage_slots
    <3>1. b \notin orphaned /\ b \notin Homeless(v)
      BY DEF Access, Update
    <3>2. StorageOf(v, b) # EmptyStorage
      BY <2>3 DEF EmptyStorage
    <3>3. <<b, s>> \in ws.all_storage_slots
      BY <2>3, <3>1 DEF Bookkeeping, AccountWrite, StorageOf
    <3>4. account_exists(v, b)
      BY <3>1, <3>2 DEF Homeless
    <3> QED
      BY <3>3, <3>4 DEF AccountWrite, account_exists, TypeOK, WorldStateType
  <2> QED
    BY <2>1, <2>2, <2>3 DEF Bookkeeping, Access, Update
<1> QED
  BY <1>1, <1>2, <1>3, <1>4, <1>5

\* A step that leaves accounts and storage alone preserves the invariant.
LEMMA SameAccountsStep ==
  ASSUME IInv, NEW v \in WorldStateType, SameAccounts(ws, v), Access(v)
  PROVE  IInv'
<1> USE DEF IInv
<1>1. TypeOK'
  BY DEF TypeOK, Access, Update, Homeless
<1>2. /\ \A b \in Address : account_exists(v, b) <=> account_exists(ws, b)
      /\ \A b \in Address : StorageOf(v, b) = StorageOf(ws, b)
      /\ \A b \in Address, s \in Slot :
           get_original_storage(v, b, s) = get_original_storage(ws, b, s)
  BY DEF SameAccounts, account_exists, get_original_storage, get_storage, StorageOf
<1>3. AccountsTracked' /\ OriginalIsTxStart'
  BY <1>2 DEF AccountsTracked, OriginalIsTxStart, SameAccounts, Access, Update
<1>4. RootIsFresh'
  BY <1>2 DEF RootIsFresh, SameAccounts, Access, Update
<1>5. Bookkeeping'
  BY <1>2 DEF Bookkeeping, SameAccounts, Access, Update
<1> QED
  BY <1>1, <1>3, <1>4, <1>5

\* Writing a slot preserves the invariant: the account becomes dirty, the original
\* value is kept, the slot is tracked.
LEMMA SetStorageStep ==
  ASSUME IInv, NEW a \in Address, NEW s \in Slot, NEW x \in Word, SetStorage(a, s, x)
  PROVE  IInv'
<1> USE DEF IInv
<1> DEFINE v == set_storage(ws, a, s, x)
<1>1. ws \in WorldStateType /\ v \in WorldStateType
  BY SetStorageType DEF TypeOK
<1>2. ws' = v /\ orphaned' = orphaned \cup Homeless(v) /\ UNCHANGED <<txStart, deleted>>
  BY DEF SetStorage, Access, Update
<1> HIDE DEF v
<1>3. TypeOK'
  BY <1>1, <1>2 DEF TypeOK, Homeless
<1>4. /\ v.state_trie = ws.state_trie
      /\ v.all_accounts = ws.all_accounts
      /\ v.dirty_storage = ws.dirty_storage \cup {a}
      /\ v.storage_tries = [ws.storage_tries EXCEPT ![a] = [StorageOf(ws, a) EXCEPT ![s] = x]]
      /\ v.original_storage = map_insert(ws.original_storage, <<a, s>>, get_storage(ws, a, s))
      /\ v.all_storage_slots = IF x = 0 THEN ws.all_storage_slots \ {<<a, s>>}
                               ELSE ws.all_storage_slots \cup {<<a, s>>}
  BY <1>1 DEF v, set_storage, WorldStateType
<1>5. /\ StorageOf(v, a) = [StorageOf(ws, a) EXCEPT ![s] = x]
      /\ v.storage_tries[a] # None
      /\ \A b \in Address \ {a} : StorageOf(v, b) = StorageOf(ws, b)
  <2>1. [StorageOf(ws, a) EXCEPT ![s] = x] # None
    BY <1>1, StorageOfType, NoneIsAbsent DEF Storage
  <2> QED
    BY <1>1, <1>4, <2>1 DEF StorageOf, WorldStateType
<1>6. AccountsTracked'
  BY <1>2, <1>4 DEF AccountsTracked, account_exists
<1>7. \A b \in Address, t \in Slot :
        get_original_storage(v, b, t) = get_original_storage(ws, b, t)
  <2> SUFFICES ASSUME NEW b \in Address, NEW t \in Slot
               PROVE  get_original_storage(v, b, t) = get_original_storage(ws, b, t)
    OBVIOUS
  <2>1. <<a, s>> \in SlotKey /\ <<b, t>> \in SlotKey
    BY DEF SlotKey
  <2>2. CASE <<b, t>> = <<a, s>>
    BY <1>1, <1>4, <2>1, <2>2, GetStorageType, NoneIsAbsent
       DEF map_insert, get_original_storage, WorldStateType
  <2>3. CASE <<b, t>> # <<a, s>>
    <3>1. v.original_storage[<<b, t>>] = ws.original_storage[<<b, t>>]
      BY <1>1, <1>4, <2>1, <2>3 DEF map_insert, WorldStateType
    <3>2. StorageOf(v, b)[t] = StorageOf(ws, b)[t]
      BY <1>1, <1>5, <2>3, StorageOfType DEF Storage
    <3> QED
      BY <3>1, <3>2 DEF get_original_storage, get_storage
  <2> QED
    BY <2>2, <2>3
<1>8. OriginalIsTxStart'
  BY <1>2, <1>7 DEF OriginalIsTxStart
<1>9. RootIsFresh'
  BY <1>2, <1>4, <1>5 DEF RootIsFresh, account_exists
<1>10. Bookkeeping'
  <2>1. Homeless(v) \subseteq orphaned'
    BY <1>2
  <2>2. \A b \in Address : account_exists(v, b) /\ v.storage_tries[b] = None =>
          v.state_trie[b].storage_root = EmptyStorage
    BY <1>1, <1>4, <1>5 DEF Bookkeeping, account_exists, WorldStateType
  <2>3. ASSUME NEW b \in Address \ orphaned', NEW t \in Slot, StorageOf(v, b)[t] # 0
        PROVE  <<b, t>> \in v.all_storage_slots
    <3>1. b \notin orphaned
      BY <1>2
    <3>2. CASE <<b, t>> = <<a, s>>
      BY <1>1, <1>4, <1>5, <2>3, <3>2, StorageOfType DEF Storage
    <3>3. CASE <<b, t>> # <<a, s>>
      <4>1. StorageOf(ws, b)[t] # 0
        BY <1>1, <1>5, <2>3, <3>3, StorageOfType DEF Storage
      <4> QED
        BY <1>4, <3>1, <3>3, <4>1 DEF Bookkeeping
    <3> QED
      BY <3>2, <3>3
  <2> QED
    BY <1>2, <2>1, <2>2, <2>3 DEF Bookkeeping
<1> QED
  BY <1>3, <1>6, <1>8, <1>9, <1>10

\* Computing the state root preserves the invariant: every dirty account that has a
\* storage trie gets its root, and those without one already carry the empty root.
LEMMA StateRootStep ==
  ASSUME IInv, StateRoot
  PROVE  IInv'
<1> USE DEF IInv
<1> DEFINE v == world_state_root(ws)
           visited == {b \in ws.dirty_storage : ws.storage_tries[b] # None}
           dropped == {b \in visited : account_is_empty(RootedAccount(ws, b))}
<1>1. ws \in WorldStateType /\ v \in WorldStateType
  BY RootType DEF TypeOK
<1>2. ws' = v /\ orphaned' = orphaned \cup Homeless(v) /\ UNCHANGED <<txStart, deleted>>
  BY DEF StateRoot, Access, Update
<1> HIDE DEF v
<1>3. TypeOK'
  BY <1>1, <1>2 DEF TypeOK, Homeless
<1>4. /\ v.storage_tries = ws.storage_tries
      /\ v.original_storage = ws.original_storage
      /\ v.dirty_storage = {}
      /\ v.all_accounts = (ws.all_accounts \ dropped) \cup (visited \ dropped)
      /\ v.all_storage_slots = {k \in ws.all_storage_slots : k[1] \notin dropped}
      /\ v.state_trie = [b \in Address |-> IF b \in dropped THEN None
                                           ELSE IF b \in visited THEN RootedAccount(ws, b)
                                           ELSE ws.state_trie[b]]
  BY <1>1, ZenonT(60) DEF v, world_state_root, WorldStateType
<1>5. /\ \A b \in Address : StorageOf(v, b) = StorageOf(ws, b)
      /\ \A b \in Address, s \in Slot :
           get_original_storage(v, b, s) = get_original_storage(ws, b, s)
  BY <1>4 DEF StorageOf, get_original_storage, get_storage
<1>6. \A b \in Address : RootedAccount(ws, b) \in Account
                         /\ RootedAccount(ws, b).storage_root = StorageOf(ws, b)
  BY <1>1, GetAccountType, StorageOfType, AccountFieldTypes DEF RootedAccount, Account
<1>7. AccountsTracked'
  BY <1>1, <1>2, <1>4, <1>6 DEF AccountsTracked, account_exists
<1>8. OriginalIsTxStart'
  BY <1>2, <1>5 DEF OriginalIsTxStart
<1>9. RootIsFresh'
  <2>1. ASSUME NEW b \in Address \ orphaned, v.state_trie[b] # None
        PROVE  v.state_trie[b].storage_root = StorageOf(v, b)
    <3>1. CASE b \in visited
      BY <1>4, <1>5, <1>6, <2>1, <3>1
    <3>2. CASE b \notin visited /\ b \in ws.dirty_storage
      <4>1. ws.storage_tries[b] = None /\ v.state_trie[b] = ws.state_trie[b]
        BY <1>4, <3>2
      <4> QED
        BY <1>5, <2>1, <4>1 DEF Bookkeeping, account_exists, StorageOf
    <3>3. CASE b \notin ws.dirty_storage
      BY <1>4, <1>5, <2>1, <3>3 DEF RootIsFresh, account_exists
    <3> QED
      BY <3>1, <3>2, <3>3
  <2> QED
    BY <1>2, <2>1 DEF RootIsFresh, account_exists
<1>10. Bookkeeping'
  <2>1. ASSUME NEW b \in Address, account_exists(v, b), v.storage_tries[b] = None
        PROVE  v.state_trie[b].storage_root = EmptyStorage
    BY <1>4, <2>1 DEF Bookkeeping, account_exists
  <2>2. ASSUME NEW b \in Address \ orphaned', NEW s \in Slot, StorageOf(v, b)[s] # 0
        PROVE  <<b, s>> \in v.all_storage_slots
    <3>1. b \notin orphaned /\ b \notin Homeless(v)
      BY <1>2
    <3>2. StorageOf(v, b) # EmptyStorage
      BY <2>2 DEF EmptyStorage
    <3>3. account_exists(v, b)
      BY <3>1, <3>2 DEF Homeless
    <3>4. b \notin dropped
      BY <1>4, <3>3 DEF account_exists
    <3>5. <<b, s>> \in ws.all_storage_slots
      BY <1>5, <2>2, <3>1 DEF Bookkeeping
    <3> HIDE DEF dropped
    <3> QED
      BY <1>4, <3>4, <3>5
  <2> QED
    BY <1>2, <2>1, <2>2 DEF Bookkeeping
<1> QED
  BY <1>3, <1>7, <1>8, <1>9, <1>10

\* Deleting an account preserves the invariant: its storage trie goes with it.
LEMMA DeleteAccountStep ==
  ASSUME IInv, NEW a \in Address, DeleteAccount(a)
  PROVE  IInv'
<1> USE DEF IInv
<1> DEFINE v == delete_account(ws, a)
<1>1. ws \in WorldStateType /\ v \in WorldStateType
  BY WarmTypes DEF TypeOK
<1>2. ws' = v /\ deleted' = deleted \cup {a} /\ orphaned' = orphaned \ {a} /\ UNCHANGED txStart
  BY DEF DeleteAccount
<1> HIDE DEF v
<1>3. TypeOK'
  BY <1>1, <1>2 DEF TypeOK
<1>4. /\ v.state_trie = [ws.state_trie EXCEPT ![a] = None]
      /\ v.storage_tries = [ws.storage_tries EXCEPT ![a] = None]
      /\ v.original_storage = ws.original_storage
      /\ v.dirty_storage = ws.dirty_storage
      /\ v.all_accounts = ws.all_accounts
      /\ v.all_storage_slots = ws.all_storage_slots
  BY <1>1 DEF v, delete_account, WorldStateType
<1>5. /\ StorageOf(v, a) = EmptyStorage
      /\ \A b \in Address \ {a} : StorageOf(v, b) = StorageOf(ws, b)
      /\ ~ account_exists(v, a)
      /\ \A b \in Address \ {a} : account_exists(v, b) <=> account_exists(ws, b)
  BY <1>1, <1>4 DEF StorageOf, account_exists, WorldStateType
<1>6. AccountsTracked'
  BY <1>1, <1>2, <1>4, <1>5 DEF AccountsTracked, WorldStateType
<1>7. OriginalIsTxStart'
  <2>1. \A b \in Address \ {a}, s \in Slot :
          get_original_storage(v, b, s) = get_original_storage(ws, b, s)
    BY <1>4, <1>5 DEF get_original_storage, get_storage
  <2> QED
    BY <1>2, <2>1 DEF OriginalIsTxStart
<1>8. RootIsFresh'
  BY <1>1, <1>2, <1>4, <1>5 DEF RootIsFresh, WorldStateType
<1>9. Bookkeeping'
  <2>1. Homeless(v) \subseteq orphaned \ {a}
    BY <1>5 DEF Bookkeeping, Homeless
  <2>2. \A b \in Address : account_exists(v, b) /\ v.storage_tries[b] = None =>
          v.state_trie[b].storage_root = EmptyStorage
    BY <1>1, <1>4, <1>5, ZenonT(60) DEF Bookkeeping, WorldStateType
  <2>3. \A b \in Address \ (orphaned \ {a}), s \in Slot :
          StorageOf(v, b)[s] # 0 => <<b, s>> \in v.all_storage_slots
    BY <1>4, <1>5 DEF Bookkeeping, EmptyStorage
  <2> QED
    BY <1>2, <2>1, <2>2, <2>3 DEF Bookkeeping
<1> QED
  BY <1>3, <1>6, <1>7, <1>8, <1>9

\* A new transaction starts from the current storage.
LEMMA BeginTransactionStep ==
  ASSUME IInv, BeginTransaction
  PROVE  IInv'
<1> USE DEF IInv
<1> DEFINE v == begin_transaction(ws)
<1>1. ws \in WorldStateType /\ v \in WorldStateType
  BY Zenon DEF TypeOK, begin_transaction, WorldStateType
<1>2. ws' = v /\ txStart' = AllStorage(ws) /\ deleted' = {} /\ orphaned' = orphaned
  BY DEF BeginTransaction
<1> HIDE DEF v
<1>3. TypeOK'
  BY <1>1, <1>2, StorageOfType DEF TypeOK, AllStorage
<1>4. /\ v.state_trie = ws.state_trie
      /\ v.storage_tries = ws.storage_tries
      /\ v.original_storage = [k \in SlotKey |-> None]
      /\ v.dirty_storage = ws.dirty_storage
      /\ v.all_accounts = ws.all_accounts
      /\ v.all_storage_slots = ws.all_storage_slots
  BY <1>1 DEF v, begin_transaction, WorldStateType
<1>5. /\ \A b \in Address : account_exists(v, b) <=> account_exists(ws, b)
      /\ \A b \in Address : StorageOf(v, b) = StorageOf(ws, b)
  BY <1>4 DEF account_exists, StorageOf
<1>6. \A b \in Address, s \in Slot : get_original_storage(v, b, s) = StorageOf(ws, b)[s]
  BY <1>4, <1>5 DEF get_original_storage, get_storage, SlotKey
<1>7. AccountsTracked' /\ OriginalIsTxStart'
  BY <1>2, <1>4, <1>5, <1>6 DEF AccountsTracked, OriginalIsTxStart, AllStorage
<1>8. RootIsFresh' /\ Bookkeeping'
  BY <1>2, <1>4, <1>5, Zenon DEF RootIsFresh, Bookkeeping, Homeless
<1> QED
  BY <1>3, <1>7, <1>8

\* The invariant holds of the world state that world_state_create makes, and of
\* the one world_state_clear leaves, which differ in the snapshot counter.
LEMMA FreshState == Fresh => IInv
<1> SUFFICES ASSUME Fresh PROVE IInv
  OBVIOUS
<1>0. PICK n \in Nat : ws = [world_state_create EXCEPT !.snapshot_counter = n]
  BY DEF Fresh
<1>1. /\ ws \in WorldStateType
      /\ ws.state_trie = [a \in Address |-> None]
      /\ ws.storage_tries = [a \in Address |-> None]
      /\ ws.original_storage = [k \in SlotKey |-> None]
  BY <1>0, Zenon DEF world_state_create, WorldStateType
<1>2. /\ \A a \in Address : ~ account_exists(ws, a) /\ StorageOf(ws, a) = EmptyStorage
      /\ \A a \in Address, s \in Slot : get_original_storage(ws, a, s) = EmptyStorage[s]
  BY <1>1 DEF account_exists, StorageOf, get_original_storage, get_storage, SlotKey
<1>3. TypeOK
  BY <1>1, EmptyTypes DEF TypeOK, Fresh
<1>4. AccountsTracked /\ OriginalIsTxStart
  BY <1>2 DEF AccountsTracked, OriginalIsTxStart, Fresh
<1>5. RootIsFresh
  BY <1>2 DEF RootIsFresh
<1>6. Bookkeeping
  BY <1>2 DEF Bookkeeping, Homeless, EmptyStorage
<1> QED
  BY <1>3, <1>4, <1>5, <1>6 DEF IInv

\* world_state_set_account writes an account.
LEMMA SetAccountWrites ==
  ASSUME NEW w \in WorldStateType, NEW a \in Address, NEW acc \in Account
  PROVE  AccountWrite(w, set_account(w, a, acc), a, acc)
BY DEF AccountWrite, set_account, erase_slots_for_address, WorldStateType

\* Setting an account of ws that keeps its storage root preserves the invariant.
LEMMA SetAccountStep ==
  ASSUME IInv, NEW a \in Address, NEW acc \in Account,
         acc.storage_root = get_account(ws, a).storage_root,
         Access(set_account(ws, a, acc))
  PROVE  IInv'
BY SetAccountWrites, SetAccountType, AccountWriteStep DEF IInv, TypeOK

\* A call that changes nothing preserves the invariant.
LEMMA NoChangeStep ==
  ASSUME IInv, Access(ws)
  PROVE  IInv'
BY SameAccountsStep DEF IInv, TypeOK, SameAccounts

\* Setting a balance, however it was computed, preserves the invariant.
LEMMA SetBalanceStep ==
  ASSUME IInv, NEW a \in Address, NEW b \in Balance, Access(set_balance(ws, a, b))
  PROVE  IInv'
<1>1. ws \in WorldStateType /\ get_account(ws, a) \in Account
  BY GetAccountType DEF IInv, TypeOK
<1>2. /\ [get_account(ws, a) EXCEPT !.balance = b] \in Account
      /\ [get_account(ws, a) EXCEPT !.balance = b].storage_root = get_account(ws, a).storage_root
  BY <1>1 DEF Account
<1> QED
  BY <1>2, SetAccountStep, Zenon DEF set_balance

\* Setting a nonce, however it was computed, preserves the invariant.
LEMMA SetNonceStep ==
  ASSUME IInv, NEW a \in Address, NEW n \in Nonce, Access(set_nonce(ws, a, n))
  PROVE  IInv'
<1>1. ws \in WorldStateType /\ get_account(ws, a) \in Account
  BY GetAccountType DEF IInv, TypeOK
<1>2. /\ [get_account(ws, a) EXCEPT !.nonce = n] \in Account
      /\ [get_account(ws, a) EXCEPT !.nonce = n].storage_root = get_account(ws, a).storage_root
  BY <1>1 DEF Account
<1> QED
  BY <1>2, SetAccountStep, Zenon DEF set_nonce

\* Storing code preserves the invariant.
LEMMA SetCodeStep ==
  ASSUME IInv, NEW a \in Address, NEW c \in Code, SetCode(a, c)
  PROVE  IInv'
<1> DEFINE stored == [ws EXCEPT !.code_store = map_insert(@, a, c)]
           acc == [get_account(ws, a) EXCEPT !.code_hash = c]
<1>1. ws \in WorldStateType /\ get_account(ws, a) \in Account
  BY GetAccountType DEF IInv, TypeOK
<1>2. acc \in Account /\ acc.storage_root = get_account(ws, a).storage_root
  BY <1>1 DEF Account
<1>3. stored \in WorldStateType /\ SameAccounts(ws, stored)
  BY <1>1 DEF WorldStateType, map_insert, SameAccounts
<1>4. set_code(ws, a, c) \in WorldStateType /\ set_code(ws, a, c) = set_account(stored, a, acc)
  BY <1>1, SetCodeType DEF set_code
<1>5. AccountWrite(ws, set_code(ws, a, c), a, acc)
  <2>1. AccountWrite(stored, set_code(ws, a, c), a, acc)
    BY <1>2, <1>3, <1>4, SetAccountWrites
  <2> QED
    BY <1>3, <2>1 DEF AccountWrite, SameAccounts
<1> QED
  BY <1>2, <1>4, <1>5, AccountWriteStep, Zenon DEF SetCode
=============================================================================
