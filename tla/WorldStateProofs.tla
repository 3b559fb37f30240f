-------------------------- MODULE WorldStateProofs --------------------------
(***************************************************************************)
(* Lemmas about the operators of WorldState, for every set of addresses,   *)
(* slots and codes: every operation keeps the world state well formed.     *)
(***************************************************************************)
EXTENDS WorldState, Integers, TLAPS

\* No stored value is the None that marks an absent map entry.
LEMMA NoneIsAbsent ==
  /\ None \notin Account /\ None \notin Storage /\ None \notin Code /\ None \notin Word
BY WorldStateAssumption

\* The empty storage and the empty account are well formed.
LEMMA EmptyTypes == EmptyStorage \in Storage /\ account_empty \in Account
<1>1. EmptyStorage \in Storage
  BY WorldStateAssumption DEF EmptyStorage, Storage, Word
<1> QED
  BY <1>1, WorldStateAssumption DEF account_empty, Account, Nonce, Balance

\* A freshly created world state is well formed.
LEMMA CreateType == world_state_create \in WorldStateType
BY DEF world_state_create, WorldStateType

\* world_state_get_account answers a well-formed account for every address.
LEMMA GetAccountType ==
  ASSUME NEW w \in WorldStateType, NEW a \in Address
  PROVE  get_account(w, a) \in Account
BY EmptyTypes, SMTT(60) DEF WorldStateType, get_account, account_exists

\* world_state_set_account keeps the world state well formed.
LEMMA SetAccountType ==
  ASSUME NEW w \in WorldStateType, NEW a \in Address, NEW acc \in Account
  PROVE  set_account(w, a, acc) \in WorldStateType
BY Zenon DEF WorldStateType, set_account, erase_slots_for_address

\* Changing one field of an account keeps it well formed.
LEMMA AccountFieldTypes ==
  ASSUME NEW acc \in Account
  PROVE  /\ \A b \in Balance : [acc EXCEPT !.balance = b] \in Account
         /\ \A n \in Nonce : [acc EXCEPT !.nonce = n] \in Account
         /\ \A c \in Code : [acc EXCEPT !.code_hash = c] \in Account
         /\ \A s \in Storage : [acc EXCEPT !.storage_root = s] \in Account
BY DEF Account

\* The getters answer words of their width.
LEMMA GetterTypes ==
  ASSUME NEW w \in WorldStateType, NEW a \in Address
  PROVE  /\ get_balance(w, a) \in Balance
         /\ get_nonce(w, a) \in Nonce
         /\ get_code_hash(w, a) \in Code
BY GetAccountType DEF get_balance, get_nonce, get_code_hash, Account

\* create_contract keeps the world state well formed.
LEMMA CreateContractType ==
  ASSUME NEW w \in WorldStateType, NEW a \in Address
  PROVE  create_contract(w, a) \in WorldStateType
<1>1. [account_empty EXCEPT !.nonce = 1] \in Account
  BY EmptyTypes, AccountFieldTypes, WorldStateAssumption DEF Nonce
<1> QED
  BY <1>1, SetAccountType DEF create_contract

\* Setting a balance keeps the world state well formed.
LEMMA SetBalanceType ==
  ASSUME NEW w \in WorldStateType, NEW a \in Address, NEW b \in Balance
  PROVE  set_balance(w, a, b) \in WorldStateType
BY GetAccountType, AccountFieldTypes, SetAccountType DEF set_balance

\* 256-bit addition stays within 256 bits.
LEMMA Uint256AddType ==
  ASSUME NEW x \in Balance, NEW y \in Balance
  PROVE  /\ uint256_add(x, y) \in Balance
         /\ x + y <= MaxBalance => uint256_add(x, y) = x + y
         /\ x + y > MaxBalance => uint256_add(x, y) = x + y - (MaxBalance + 1)
BY WorldStateAssumption DEF uint256_add, Balance

\* A checked addition to a balance keeps the world state well formed.
LEMMA AddBalanceType ==
  ASSUME NEW w \in WorldStateType, NEW a \in Address, NEW amt \in Balance
  PROVE  add_balance(w, a, amt) \in WorldStateType
BY GetterTypes, Uint256AddType, SetBalanceType DEF add_balance

\* A checked subtraction from a balance keeps the world state well formed.
LEMMA SubBalanceType ==
  ASSUME NEW w \in WorldStateType, NEW a \in Address, NEW amt \in Balance
  PROVE  sub_balance(w, a, amt) \in WorldStateType
<1>1. ASSUME sub_balance_ok(w, a, amt)
      PROVE  get_balance(w, a) - amt \in Balance
  BY <1>1, GetterTypes, WorldStateAssumption DEF sub_balance_ok, Balance
<1> QED
  BY <1>1, SetBalanceType DEF sub_balance

\* Setting a nonce keeps the world state well formed.
LEMMA SetNonceType ==
  ASSUME NEW w \in WorldStateType, NEW a \in Address, NEW n \in Nonce
  PROVE  set_nonce(w, a, n) \in WorldStateType
BY GetAccountType, AccountFieldTypes, SetAccountType DEF set_nonce

\* Incrementing a nonce stays within 64 bits.
LEMMA IncrementNonceType ==
  ASSUME NEW w \in WorldStateType, NEW a \in Address
  PROVE  increment_nonce(w, a) \in WorldStateType
<1>1. ASSUME get_nonce(w, a) < MaxNonce - 1
      PROVE  get_nonce(w, a) + 1 \in Nonce
  BY <1>1, GetterTypes, WorldStateAssumption DEF Nonce
<1>2. get_nonce(w, a) \in Int /\ MaxNonce - 1 \in Int
  BY GetterTypes, WorldStateAssumption DEF Nonce
<1> QED
  BY <1>1, <1>2, SetNonceType DEF increment_nonce

\* Storing code keeps the world state well formed.
LEMMA SetCodeType ==
  ASSUME NEW w \in WorldStateType, NEW a \in Address, NEW c \in Code
  PROVE  set_code(w, a, c) \in WorldStateType
<1> DEFINE stored == [w EXCEPT !.code_store = map_insert(@, a, c)]
<1>1. stored \in WorldStateType
  BY DEF WorldStateType, map_insert
<1>2. [get_account(w, a) EXCEPT !.code_hash = c] \in Account
  BY GetAccountType, AccountFieldTypes
<1> QED
  BY <1>1, <1>2, SetAccountType DEF set_code

\* A storage trie, present or not, reads as a storage.
LEMMA StorageOfType ==
  ASSUME NEW w \in WorldStateType, NEW a \in Address
  PROVE  StorageOf(w, a) \in Storage
BY EmptyTypes DEF StorageOf, WorldStateType

\* Current and original values are words.
LEMMA GetStorageType ==
  ASSUME NEW w \in WorldStateType, NEW a \in Address, NEW s \in Slot
  PROVE  get_storage(w, a, s) \in Word /\ get_original_storage(w, a, s) \in Word
<1>1. get_storage(w, a, s) \in Word
  BY StorageOfType DEF get_storage, Storage
<1>2. <<a, s>> \in SlotKey
  BY DEF SlotKey
<1> QED
  BY <1>1, <1>2 DEF get_original_storage, WorldStateType

\* Writing a slot keeps the world state well formed.
LEMMA SetStorageType ==
  ASSUME NEW w \in WorldStateType, NEW a \in Address, NEW s \in Slot, NEW v \in Word
  PROVE  set_storage(w, a, s, v) \in WorldStateType
<1>1. [StorageOf(w, a) EXCEPT ![s] = v] \in Storage
  BY StorageOfType DEF Storage
<1>2. <<a, s>> \in SlotKey
  BY DEF SlotKey
<1>3. map_insert(w.original_storage, <<a, s>>, get_storage(w, a, s)) \in [SlotKey -> Word \cup
   {None}]
  BY <1>2, GetStorageType DEF map_insert, WorldStateType
<1> QED
  BY <1>1, <1>2, <1>3, ZenonT(60) DEF set_storage, WorldStateType

\* Warming, transaction boundaries and snapshots keep the world state well formed.
LEMMA WarmTypes ==
  ASSUME NEW w \in WorldStateType, NEW a \in Address
  PROVE  /\ warm_address(w, a) \in WorldStateType
         /\ \A s \in Slot : warm_slot(w, a, s) \in WorldStateType
         /\ begin_transaction(w) \in WorldStateType
         /\ snapshot(w) \in WorldStateType
         /\ delete_account(w, a) \in WorldStateType
<1>1. warm_address(w, a) \in WorldStateType
  BY DEF warm_address, WorldStateType
<1>2. ASSUME NEW s \in Slot
      PROVE  warm_slot(w, a, s) \in WorldStateType
  BY DEF warm_slot, WorldStateType, SlotKey
<1>3. begin_transaction(w) \in WorldStateType
  BY Zenon DEF begin_transaction, WorldStateType
<1>4. snapshot(w) \in WorldStateType
  BY DEF snapshot, WorldStateType
<1>5. delete_account(w, a) \in WorldStateType
  BY Zenon DEF delete_account, WorldStateType
<1> QED
  BY <1>1, <1>2, <1>3, <1>4, <1>5

\* Computing the state root keeps the world state well formed.
LEMMA RootType ==
  ASSUME NEW w \in WorldStateType
  PROVE  world_state_root(w) \in WorldStateType
<1>1. \A a \in Address : RootedAccount(w, a) \in Account
  BY GetAccountType, StorageOfType, AccountFieldTypes DEF RootedAccount
<1> QED
  BY <1>1, Zenon DEF world_state_root, WorldStateType
=============================================================================
