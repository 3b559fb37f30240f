------------------------ MODULE BlockExecutorProofs ------------------------
(***************************************************************************)
(* What the block executor promises about the transactions of a block, for *)
(* every set of accounts and transactions, every word size and every block *)
(* length.                                                                 *)
(*                                                                         *)
(* EachTransactionOnce needs that both result arrays are behind the loop   *)
(* (Behind).  NoReplay needs that the nonce of a sender has passed those   *)
(* of its receipts (NoncesPassed), which rests on the nonces never going   *)
(* down, although accounts are dropped and created again in between.       *)
(* RootCoversStorage needs that the dirty accounts are those with a        *)
(* storage trie (Rooted).                                                  *)
(***************************************************************************)
EXTENDS BlockExecutor, WorldStateProofs

Entry == [tx : TxType, recipient : Address]

Receipt == [tx : TxType, index : Nat, success : BOOLEAN, gas_used : Nat, cumulative_gas : Nat]

Verdict == {"CHAIN_ID_MISMATCH", "NONCE_TOO_LOW", "NONCE_TOO_HIGH", "INTRINSIC_GAS",
            "GAS_LIMIT_EXCEEDED", "MAX_FEE_TOO_LOW", "INSUFFICIENT_BALANCE", "VALID"}

Rejection == [index : Nat, error : Verdict]

BlockType ==
  /\ ws \in WorldStateType
  /\ index \in Nat
  /\ current \in Entry \cup {None}
  /\ receipts \in Seq(Receipt)
  /\ rejected \in Seq(Rejection)
  /\ cumulative_gas \in Nat

\* How many transactions are done with.
Done == IF current = None THEN index ELSE index - 1

Behind ==
  /\ Done \in Nat
  /\ \A i \in 1..Len(receipts) : receipts[i].index < Done
  /\ \A i \in 1..Len(rejected) : rejected[i].index < Done

\* Below the largest nonce, the nonce of an executed transaction has been passed, and the
\* transaction in the EVM is not one that was executed.
NoncesPassed ==
  /\ \A i \in 1..Len(receipts) : receipts[i].tx.nonce < MaxNonce - 1 =>
       receipts[i].tx.nonce < get_nonce(ws, receipts[i].tx.sender)
  /\ current # None /\ current.tx.nonce < MaxNonce - 1 =>
       /\ current.tx.nonce < get_nonce(ws, current.tx.sender)
       /\ \A i \in 1..Len(receipts) :
            ~ (receipts[i].tx.sender = current.tx.sender /\ receipts[i].tx.nonce = current.tx.nonce)

BlockInv == BlockType /\ EachTransactionOnce /\ Behind /\ NoReplay /\ NoncesPassed
-----------------------------------------------------------------------------
\* Writing an account shows its nonce and balance at its address and changes no other,
\* also when it is empty and therefore dropped.
LEMMA SetAccountView ==
  ASSUME NEW w \in WorldStateType, NEW a \in Address, NEW acc \in Account, NEW b \in Address
  PROVE  LET x == set_account(w, a, acc)
         IN  /\ get_nonce(x, b) = IF b = a THEN acc.nonce ELSE get_nonce(w, b)
             /\ get_balance(x, b) = IF b = a THEN acc.balance ELSE get_balance(w, b)
<1> DEFINE x == set_account(w, a, acc)
<1>1. x.state_trie = [w.state_trie EXCEPT ![a] = IF account_is_empty(acc) THEN None ELSE acc]
  BY DEF set_account, WorldStateType
<1>2. w.state_trie \in [Address -> Account \cup {None}]
  BY DEF WorldStateType
<1> HIDE DEF x
<1>3. ASSUME b = a
      PROVE  get_nonce(x, b) = acc.nonce /\ get_balance(x, b) = acc.balance
  <2>1. get_account(x, a) = IF account_is_empty(acc) THEN account_empty ELSE acc
    BY <1>1, <1>2, NoneIsAbsent DEF get_account, account_exists
  <2> QED
    BY <1>3, <2>1 DEF get_nonce, get_balance, account_is_empty, account_empty
<1>4. ASSUME b # a
      PROVE  get_nonce(x, b) = get_nonce(w, b) /\ get_balance(x, b) = get_balance(w, b)
  BY <1>1, <1>2, <1>4 DEF get_nonce, get_balance, get_account, account_exists
<1> QED
  BY <1>3, <1>4 DEF x

\* Before the root is computed, the dirty accounts are those with a storage trie, and the
\* others carry the root of the empty storage.
Rooted(w) ==
  \A a \in Address :
    /\ a \in w.dirty_storage <=> w.storage_tries[a] # None
    /\ a \notin w.dirty_storage /\ w.state_trie[a] # None => w.state_trie[a].storage_root = EmptyStorage

\* v is a well-formed world state in which no nonce is lower than in w.
NoncesKept(w, v) ==
  /\ w \in WorldStateType /\ v \in WorldStateType
  /\ \A a \in Address : get_nonce(w, a) <= get_nonce(v, a)

\* What every operation of the executor and the EVM does, but for computing the root.
Onward(w, v) == NoncesKept(w, v) /\ (Rooted(w) => Rooted(v))

\* Writing an account with the storage root it had keeps the world state rooted, also when
\* the account is dropped or is a new one.
LEMMA AccountWriteRooted ==
  ASSUME NEW w \in WorldStateType, NEW a \in Address, NEW acc \in Account,
         acc.storage_root = get_account(w, a).storage_root, Rooted(w)
  PROVE  Rooted(set_account(w, a, acc))
<1> DEFINE x == set_account(w, a, acc)
<1>1. x.dirty_storage = w.dirty_storage /\ x.storage_tries = w.storage_tries
  BY DEF set_account, WorldStateType
<1>2. x.state_trie = [w.state_trie EXCEPT ![a] = IF account_is_empty(acc) THEN None ELSE acc]
  BY DEF set_account, WorldStateType
<1>3. w.state_trie \in [Address -> Account \cup {None}]
  BY DEF WorldStateType
<1> HIDE DEF x
<1>4. a \notin w.dirty_storage => acc.storage_root = EmptyStorage
  BY DEF Rooted, get_account, account_exists, account_empty
<1>5. ASSUME NEW b \in Address, b \notin x.dirty_storage, x.state_trie[b] # None
      PROVE  x.state_trie[b].storage_root = EmptyStorage
  <2>1. CASE b = a
    BY <1>1, <1>2, <1>3, <1>4, <1>5, <2>1
  <2>2. CASE b # a
    BY <1>1, <1>2, <1>3, <1>5, <2>2 DEF Rooted
  <2> QED
    BY <2>1, <2>2
<1>6. \A b \in Address : b \in x.dirty_storage <=> x.storage_tries[b] # None
  BY <1>1 DEF Rooted
<1>7. Rooted(x)
  BY <1>5, <1>6, Zenon DEF Rooted
<1> QED
  BY <1>7 DEF x

\* Nonces are integers, so going onward is transitive.
LEMMA OnwardTransitive ==
  ASSUME NEW u, NEW v, NEW w, Onward(u, v), Onward(v, w)
  PROVE  Onward(u, w)
<1>1. \A a \in Address : get_nonce(u, a) \in Int /\ get_nonce(v, a) \in Int /\ get_nonce(w, a) \in Int
  <2>1. \A x \in WorldStateType, a \in Address : get_nonce(x, a) \in Int
    BY GetterTypes, WorldStateAssumption DEF Nonce
  <2> QED
    BY <2>1, Zenon DEF Onward, NoncesKept
<1> QED
  BY <1>1 DEF Onward, NoncesKept

\* Setting a balance, also to zero, keeps all nonces.
LEMMA SetBalanceView ==
  ASSUME NEW w \in WorldStateType, NEW a \in Address, NEW n \in Balance
  PROVE  /\ Onward(w, set_balance(w, a, n))
         /\ get_balance(set_balance(w, a, n), a) = n
         /\ get_nonce(set_balance(w, a, n), a) = get_nonce(w, a)
<1> DEFINE acc == [get_account(w, a) EXCEPT !.balance = n]
<1>1. get_account(w, a) \in Account
  BY GetAccountType
<1>2. /\ acc \in Account /\ acc.balance = n /\ acc.nonce = get_nonce(w, a)
      /\ acc.storage_root = get_account(w, a).storage_root
  BY <1>1 DEF Account, get_nonce
<1>3. set_balance(w, a, n) = set_account(w, a, acc) /\ set_balance(w, a, n) \in WorldStateType
  BY SetBalanceType DEF set_balance
<1> HIDE DEF acc
<1>4. \A b \in Address : get_nonce(w, b) \in Int /\ get_nonce(set_balance(w, a, n), b) = get_nonce(w, b)
  BY <1>2, <1>3, SetAccountView, GetterTypes, WorldStateAssumption DEF Nonce
<1>5. Rooted(w) => Rooted(set_balance(w, a, n))
  BY <1>2, <1>3, AccountWriteRooted
<1> QED
  BY <1>2, <1>3, <1>4, <1>5, SetAccountView DEF Onward, NoncesKept

\* Changing balances keeps all nonces.
LEMMA BalanceOnward ==
  ASSUME NEW w \in WorldStateType, NEW a \in Address, NEW amt \in Balance
  PROVE  Onward(w, add_balance(w, a, amt)) /\ Onward(w, sub_balance(w, a, amt))
<1>1. Onward(w, w)
  BY GetterTypes, WorldStateAssumption DEF Onward, NoncesKept, Nonce
<1>2. get_balance(w, a) \in Balance
  BY GetterTypes
<1>3. uint256_add(get_balance(w, a), amt) \in Balance
  BY <1>2, Uint256AddType
<1>4. sub_balance_ok(w, a, amt) => get_balance(w, a) - amt \in Balance
  BY <1>2, WorldStateAssumption DEF sub_balance_ok, Balance
<1> QED
  BY <1>1, <1>3, <1>4, SetBalanceView DEF add_balance, sub_balance

\* Incrementing a nonce raises it below the largest, keeps the balance and all other nonces.
LEMMA IncrementNonceView ==
  ASSUME NEW w \in WorldStateType, NEW a \in Address
  PROVE  LET x == increment_nonce(w, a)
         IN  /\ Onward(w, x)
             /\ get_nonce(w, a) < MaxNonce - 1 => get_nonce(w, a) < get_nonce(x, a)
             /\ get_balance(x, a) = get_balance(w, a)
<1> DEFINE x == increment_nonce(w, a)
           acc == [get_account(w, a) EXCEPT !.nonce = get_nonce(w, a) + 1]
<1>1. x \in WorldStateType
  BY IncrementNonceType
<1>2. \A b \in Address : get_nonce(w, b) \in Int
  BY GetterTypes, WorldStateAssumption DEF Nonce
<1>3. CASE get_nonce(w, a) >= MaxNonce - 1
  <2>1. x = w
    BY <1>3 DEF increment_nonce
  <2>2. ~ (get_nonce(w, a) < MaxNonce - 1)
    BY <1>2, <1>3, WorldStateAssumption
  <2>3. Onward(w, w)
    BY <1>2 DEF Onward, NoncesKept
  <2> QED
    BY <2>1, <2>2, <2>3
<1>4. CASE ~ (get_nonce(w, a) >= MaxNonce - 1)
  <2>1. get_account(w, a) \in Account /\ get_nonce(w, a) \in Nonce /\ get_nonce(w, a) + 1 \in Nonce
    BY <1>4, GetAccountType, GetterTypes, WorldStateAssumption DEF Nonce
  <2>2. /\ acc \in Account /\ acc.nonce = get_nonce(w, a) + 1 /\ acc.balance = get_balance(w, a)
        /\ acc.storage_root = get_account(w, a).storage_root
    BY <2>1 DEF Account, get_balance
  <2>3. x = set_account(w, a, acc)
    BY <1>4 DEF increment_nonce, set_nonce
  <2> HIDE DEF acc, x
  <2>4. \A b \in Address :
          /\ get_nonce(x, b) = IF b = a THEN get_nonce(w, a) + 1 ELSE get_nonce(w, b)
          /\ get_balance(x, b) = IF b = a THEN get_balance(w, a) ELSE get_balance(w, b)
    BY <2>2, <2>3, SetAccountView
  <2>5. Rooted(w) => Rooted(x)
    BY <2>2, <2>3, AccountWriteRooted
  <2>6. /\ Onward(w, x) /\ get_nonce(w, a) < get_nonce(x, a)
        /\ get_balance(x, a) = get_balance(w, a)
    BY <1>1, <1>2, <2>4, <2>5 DEF Onward, NoncesKept
  <2> QED
    BY <2>6 DEF x
<1> QED
  BY <1>3, <1>4

\* An operation that leaves the tries alone keeps all nonces.
LEMMA SameTrieOnward ==
  ASSUME NEW w \in WorldStateType, NEW v \in WorldStateType, v.state_trie = w.state_trie,
         Rooted(w) => Rooted(v)
  PROVE  Onward(w, v) /\ \A a \in Address : get_balance(v, a) = get_balance(w, a)
<1>1. \A a \in Address : get_account(v, a) = get_account(w, a)
  BY DEF get_account, account_exists
<1>2. \A a \in Address : get_nonce(w, a) \in Int
  BY GetterTypes, WorldStateAssumption DEF Nonce
<1> QED
  BY <1>1, <1>2 DEF Onward, NoncesKept, get_nonce, get_balance

\* Creating a contract raises the nonce of an absent account from zero, or does nothing.
LEMMA CreateContractOnward ==
  ASSUME NEW w \in WorldStateType, NEW a \in Address
  PROVE  Onward(w, create_contract(w, a))
<1> DEFINE acc == [account_empty EXCEPT !.nonce = 1]
<1>1. \A b \in Address : get_nonce(w, b) \in Int
  BY GetterTypes, WorldStateAssumption DEF Nonce
<1>2. CASE account_exists(w, a)
  BY <1>1, <1>2 DEF create_contract, Onward, NoncesKept
<1>3. CASE ~ account_exists(w, a)
  <2>1. acc \in Account /\ acc.nonce = 1 /\ acc.storage_root = get_account(w, a).storage_root
    <3>1. acc \in Account /\ acc.nonce = 1
      BY EmptyTypes, AccountFieldTypes, WorldStateAssumption DEF Nonce, Account
    <3>2. acc.storage_root = EmptyStorage /\ get_account(w, a).storage_root = EmptyStorage
      BY <1>3 DEF get_account, account_empty
    <3> QED
      BY <3>1, <3>2
  <2>2. create_contract(w, a) = set_account(w, a, acc) /\ create_contract(w, a) \in WorldStateType
    BY <1>3, CreateContractType DEF create_contract
  <2>3. get_nonce(w, a) = 0
    BY <1>3 DEF get_nonce, get_account, account_empty
  <2> HIDE DEF acc
  <2>4. \A b \in Address : get_nonce(create_contract(w, a), b) = IF b = a THEN 1 ELSE get_nonce(w, b)
    BY <2>1, <2>2, SetAccountView
  <2>5. Rooted(w) => Rooted(create_contract(w, a))
    BY <2>1, <2>2, AccountWriteRooted
  <2> QED
    BY <1>1, <2>2, <2>3, <2>4, <2>5 DEF Onward, NoncesKept
<1> QED
  BY <1>2, <1>3

\* Storing code keeps all nonces.
LEMMA SetCodeOnward ==
  ASSUME NEW w \in WorldStateType, NEW a \in Address, NEW c \in Code
  PROVE  Onward(w, set_code(w, a, c))
<1> DEFINE stored == [w EXCEPT !.code_store = map_insert(@, a, c)]
           acc == [get_account(w, a) EXCEPT !.code_hash = c]
<1>1. /\ stored \in WorldStateType /\ stored.state_trie = w.state_trie
      /\ stored.storage_tries = w.storage_tries /\ stored.dirty_storage = w.dirty_storage
  BY DEF WorldStateType, map_insert
<1>2. get_account(w, a) \in Account
  BY GetAccountType
<1>3. /\ acc \in Account /\ acc.nonce = get_nonce(w, a)
      /\ acc.storage_root = get_account(w, a).storage_root
  BY <1>2 DEF Account, get_nonce
<1>4. set_code(w, a, c) = set_account(stored, a, acc) /\ set_code(w, a, c) \in WorldStateType
  BY SetCodeType DEF set_code
<1> HIDE DEF stored, acc
<1>5. \A b \in Address : get_nonce(stored, b) = get_nonce(w, b) /\ get_nonce(w, b) \in Int
  <2>1. \A b \in Address : get_nonce(w, b) \in Int
    BY GetterTypes, WorldStateAssumption DEF Nonce
  <2> QED
    BY <1>1, <2>1, Zenon DEF get_nonce, get_account, account_exists
<1>6. ASSUME NEW b \in Address
      PROVE  get_nonce(set_code(w, a, c), b) = get_nonce(w, b)
  <2>1. get_nonce(set_account(stored, a, acc), b) = IF b = a THEN acc.nonce ELSE get_nonce(stored, b)
    BY <1>1, <1>3, SetAccountView
  <2> QED
    BY <1>3, <1>4, <1>5, <2>1
<1>7. ASSUME Rooted(w)
      PROVE  Rooted(set_code(w, a, c))
  <2>1. Rooted(stored) /\ get_account(stored, a) = get_account(w, a)
    BY <1>1, <1>7 DEF Rooted, get_account, account_exists
  <2> QED
    BY <1>1, <1>3, <1>4, <2>1, AccountWriteRooted
<1> QED
  BY <1>4, <1>5, <1>6, <1>7 DEF Onward, NoncesKept

\* Computing the root keeps all nonces: the accounts it drops have nonce zero.
LEMMA RootKeepsNonces ==
  ASSUME NEW w \in WorldStateType
  PROVE  NoncesKept(w, world_state_root(w))
<1> DEFINE x == world_state_root(w)
<1>1. x \in WorldStateType
  BY RootType
<1>2. ASSUME NEW a \in Address
      PROVE  get_nonce(x, a) = get_nonce(w, a) /\ get_nonce(w, a) \in Int
  <2>1. /\ get_account(w, a) \in Account /\ RootedAccount(w, a) \in Account
        /\ RootedAccount(w, a).nonce = get_nonce(w, a)
    <3>1. get_account(w, a) \in Account /\ StorageOf(w, a) \in Storage
      BY GetAccountType, StorageOfType
    <3> QED
      BY <3>1 DEF RootedAccount, Account, get_nonce
  <2>2. x.state_trie[a] \in {w.state_trie[a], RootedAccount(w, a)}
        \/ (x.state_trie[a] = None /\ account_is_empty(RootedAccount(w, a)))
    BY DEF world_state_root, WorldStateType
  <2>3. get_nonce(w, a) \in Int
    BY GetterTypes, WorldStateAssumption DEF Nonce
  <2> HIDE DEF x
  <2>4. CASE x.state_trie[a] = w.state_trie[a]
    BY <2>3, <2>4 DEF get_nonce, get_account, account_exists
  <2>5. CASE x.state_trie[a] = RootedAccount(w, a)
    <3>1. get_account(x, a) = RootedAccount(w, a)
      BY <2>1, <2>5, NoneIsAbsent DEF get_account, account_exists
    <3> QED
      BY <2>1, <2>3, <3>1 DEF get_nonce
  <2>6. CASE x.state_trie[a] = None /\ account_is_empty(RootedAccount(w, a))
    <3>1. get_account(x, a) = account_empty
      BY <2>6 DEF get_account, account_exists
    <3>2. get_nonce(x, a) = 0
      BY <3>1 DEF get_nonce, account_empty
    <3>3. get_nonce(w, a) = 0
      BY <2>1, <2>6 DEF account_is_empty
    <3> QED
      BY <3>2, <3>3
  <2> QED
    BY <2>2, <2>4, <2>5, <2>6
<1> QED
  BY <1>1, <1>2 DEF Onward, NoncesKept
-----------------------------------------------------------------------------
\* Multiplying and subtracting amounts wrap around within the word.
LEMMA WrapTypes ==
  ASSUME NEW x \in Balance, NEW n \in Nat, NEW y \in Balance
  PROVE  uint256_mul(x, n) \in Balance /\ uint256_sub(x, y) \in Balance
<1>1. MaxBalance \in Nat
  BY WorldStateAssumption
<1>2. x \in Int /\ y \in Int /\ x * n \in Int /\ x - y \in Int
  BY DEF Balance
<1>3. \A z \in Int : z % (MaxBalance + 1) \in Balance
  BY <1>1 DEF Balance
<1> QED
  BY <1>2, <1>3 DEF uint256_mul, uint256_sub

\* The price, the prepaid amount and the recipient of a transaction are well formed.
LEMMA FeeTypes ==
  ASSUME NEW tx \in TxType
  PROVE  /\ effective_gas_price(tx) \in Balance
         /\ max_gas_cost(tx) \in Balance
         /\ tx_intrinsic_gas(tx) \in Nat
         /\ ws \in WorldStateType => Recipient(tx) \in Address
<1>1. /\ tx.fee \in Balance /\ tx.priority \in Balance /\ tx.gas_limit \in Nat /\ tx.data_gas \in Nat
      /\ tx.sender \in Address /\ tx.to \in Address \cup {None}
  BY DEF TxType
<1>2. effective_gas_price(tx) \in Balance
  BY <1>1, Uint256AddType, BlockExecutorAssumption DEF effective_gas_price
<1>3. max_gas_cost(tx) \in Balance
  BY <1>1, <1>2, WrapTypes DEF max_gas_cost
<1>4. tx_intrinsic_gas(tx) \in Nat
  BY <1>1, BlockExecutorAssumption DEF tx_intrinsic_gas
<1>5. ws \in WorldStateType => Recipient(tx) \in Address
  BY <1>1, GetterTypes, BlockExecutorAssumption, Zenon DEF Recipient, is_create
<1> QED
  BY <1>2, <1>3, <1>4, <1>5

\* Subtracting at most the balance leaves the rest, also for an account that does
\* not exist, where both are zero.
LEMMA SubBalanceView ==
  ASSUME NEW w \in WorldStateType, NEW a \in Address, NEW amt \in Balance, sub_balance_ok(w, a, amt)
  PROVE  get_balance(sub_balance(w, a, amt), a) = get_balance(w, a) - amt
<1>1. get_balance(w, a) \in Balance /\ get_balance(w, a) - amt \in Balance
  BY GetterTypes, WorldStateAssumption DEF sub_balance_ok, Balance
<1>2. CASE account_exists(w, a)
  BY <1>1, <1>2, SetBalanceView DEF sub_balance
<1>3. CASE ~ account_exists(w, a)
  <2>1. get_balance(w, a) = 0
    BY <1>3 DEF get_balance, get_account, account_empty
  <2>2. amt = 0
    BY <1>1, <2>1 DEF sub_balance_ok, Balance
  <2> QED
    BY <1>3, <2>1, <2>2 DEF sub_balance
<1> QED
  BY <1>2, <1>3

\* A total cost that passes validation did not wrap around: both parts can be paid.
LEMMA ValidIsAffordable ==
  ASSUME ws \in WorldStateType, NEW tx \in TxType, validate_tx(tx) = "VALID"
  PROVE  /\ sub_balance_ok(ws, tx.sender, max_gas_cost(tx))
         /\ sub_balance_ok(Prepaid(ws, tx), tx.sender, tx.value)
<1> DEFINE s == tx.sender
           m == max_gas_cost(tx)
           p == sub_balance(ws, s, m)
<1>1. s \in Address /\ tx.value \in Balance /\ m \in Balance /\ get_balance(ws, s) \in Balance
  BY FeeTypes, GetterTypes DEF TxType
<1>2. ~ exceeds_balance(tx)
  BY DEF validate_tx
<1>3. total_cost(tx) \in Balance /\ total_cost(tx) = uint256_add(m, tx.value)
  BY <1>1, Uint256AddType DEF total_cost
<1>4. ~ (total_cost(tx) < tx.value) /\ ~ (get_balance(ws, s) < total_cost(tx))
  BY <1>2 DEF exceeds_balance
<1> HIDE DEF m
<1>5. /\ m + tx.value <= MaxBalance => total_cost(tx) = m + tx.value
      /\ m + tx.value > MaxBalance => total_cost(tx) = m + tx.value - (MaxBalance + 1)
  BY <1>1, <1>3, Uint256AddType
<1>6. m + tx.value <= get_balance(ws, s)
  BY <1>1, <1>3, <1>4, <1>5, WorldStateAssumption DEF Balance
<1>7. sub_balance_ok(ws, s, m)
  BY <1>1, <1>6 DEF sub_balance_ok, Balance
<1>8. p \in WorldStateType /\ get_balance(p, s) = get_balance(ws, s) - m
  BY <1>1, <1>7, SubBalanceView, SubBalanceType
<1>9. get_balance(increment_nonce(p, s), s) = get_balance(ws, s) - m
  BY <1>1, <1>8, IncrementNonceView
<1>10. Prepaid(ws, tx) = increment_nonce(p, s)
  BY DEF Prepaid, m
<1>11. sub_balance_ok(Prepaid(ws, tx), s, tx.value)
  <2> HIDE DEF s, p
  <2> QED
    BY <1>1, <1>6, <1>9, <1>10 DEF sub_balance_ok, Balance
<1> QED
  BY <1>7, <1>11 DEF m
-----------------------------------------------------------------------------
\* The transactions of the receipts and the one in the EVM are well formed.
LEMMA BlockTxTypes ==
  ASSUME BlockInv
  PROVE  /\ \A i \in 1..Len(receipts) : receipts[i].tx.sender \in Address /\ receipts[i].tx.nonce \in Int
         /\ current # None => current.tx.sender \in Address /\ current.tx.nonce \in Int
<1>1. \A tx \in TxType : tx.sender \in Address /\ tx.nonce \in Int
  BY WorldStateAssumption DEF TxType, Nonce
<1>2. \A i \in 1..Len(receipts) : receipts[i].tx \in TxType
  <2>1. \A i \in 1..Len(receipts) : receipts[i] \in Receipt
    BY DEF BlockInv, BlockType
  <2> QED
    BY <2>1 DEF Receipt
<1>3. current # None => current.tx \in TxType
  BY DEF BlockInv, BlockType, Entry
<1> QED
  BY <1>1, <1>2, <1>3

\* Receipts and the transaction in the EVM stay passed when no nonce is lowered.
LEMMA PassedOnward ==
  ASSUME BlockInv, NoncesKept(ws, ws'), UNCHANGED <<current, receipts>>
  PROVE  NoncesPassed'
<1>1. /\ \A i \in 1..Len(receipts) : receipts[i].tx.sender \in Address /\ receipts[i].tx.nonce \in Int
      /\ current # None => current.tx.sender \in Address /\ current.tx.nonce \in Int
  BY BlockTxTypes
<1>2. \A a \in Address, n \in Int : n < get_nonce(ws, a) => n < get_nonce(ws', a)
  <2>1. \A x \in WorldStateType, a \in Address : get_nonce(x, a) \in Int
    BY GetterTypes, WorldStateAssumption DEF Nonce
  <2> QED
    BY <2>1 DEF Onward, NoncesKept
<1>3. NoncesPassed
  BY DEF BlockInv
<1>4. ASSUME NEW i \in 1..Len(receipts'), receipts'[i].tx.nonce < MaxNonce - 1
      PROVE  receipts'[i].tx.nonce < get_nonce(ws', receipts'[i].tx.sender)
  BY <1>1, <1>2, <1>3, <1>4 DEF NoncesPassed
<1>5. ASSUME current' # None, current'.tx.nonce < MaxNonce - 1
      PROVE  /\ current'.tx.nonce < get_nonce(ws', current'.tx.sender)
             /\ \A i \in 1..Len(receipts') :
                  ~ (receipts'[i].tx.sender = current'.tx.sender
                     /\ receipts'[i].tx.nonce = current'.tx.nonce)
  BY <1>1, <1>2, <1>3, <1>5 DEF NoncesPassed
<1> QED
  BY <1>4, <1>5 DEF NoncesPassed

\* A step that takes up and finishes no transaction and lowers no nonce.
LEMMA QuietStep ==
  ASSUME BlockInv, NoncesKept(ws, ws'), UNCHANGED <<index, current, receipts, rejected, cumulative_gas>>
  PROVE  BlockInv'
<1>1. BlockType'
  BY DEF BlockInv, BlockType, Onward, NoncesKept
<1>2. EachTransactionOnce' /\ Behind' /\ NoReplay'
  BY DEF BlockInv, EachTransactionOnce, Behind, Done, NoReplay
<1>3. NoncesPassed'
  BY PassedOnward
<1> QED
  BY <1>1, <1>2, <1>3 DEF BlockInv

\* What appending an entry does to a sequence.
LEMMA AppendView ==
  ASSUME NEW S, NEW s \in Seq(S), NEW e \in S
  PROVE  /\ Append(s, e) \in Seq(S)
         /\ Len(s) \in Nat /\ Len(Append(s, e)) = Len(s) + 1
         /\ \A i \in 1..Len(s) : Append(s, e)[i] = s[i]
         /\ Append(s, e)[Len(s) + 1] = e
OBVIOUS

\* No nonce is lowered by starting a transaction or by storing, and the other
\* operations of the world state that the executor uses.
LEMMA QuietOperations ==
  ASSUME NEW w \in WorldStateType
  PROVE  /\ Onward(w, w)
         /\ Onward(w, begin_transaction(w))
         /\ Onward(w, snapshot(w))
         /\ \A a \in Address, s \in Slot, v \in Word : Onward(w, set_storage(w, a, s, v))
         /\ ws \in WorldStateType => \A tx \in TxType : Onward(w, WarmedUp(w, tx))
<1> DEFINE SameTries(v) == /\ v \in WorldStateType /\ v.state_trie = w.state_trie
                           /\ v.storage_tries = w.storage_tries /\ v.dirty_storage = w.dirty_storage
<1>1. SameTries(begin_transaction(w))
  BY WarmTypes, Zenon DEF begin_transaction, WorldStateType
<1>2. SameTries(snapshot(w))
  BY DEF snapshot, WorldStateType
<1>3. ASSUME NEW a \in Address, NEW s \in Slot, NEW v \in Word
      PROVE  Onward(w, set_storage(w, a, s, v))
  <2> DEFINE x == set_storage(w, a, s, v)
             new == [StorageOf(w, a) EXCEPT ![s] = v]
  <2>1. x.state_trie = w.state_trie /\ x.dirty_storage = w.dirty_storage \cup {a}
    BY DEF set_storage, WorldStateType
  <2>2. x.storage_tries = [w.storage_tries EXCEPT ![a] = new]
    BY DEF set_storage, WorldStateType
  <2>3. x \in WorldStateType /\ w.storage_tries \in [Address -> Storage \cup {None}]
    BY SetStorageType DEF WorldStateType
  <2>4. new # None
    <3>1. new \in Storage
      BY StorageOfType DEF Storage
    <3> QED
      BY <3>1, NoneIsAbsent
  <2> HIDE DEF x, new
  <2>5. Rooted(w) => Rooted(x)
    BY <2>1, <2>2, <2>3, <2>4, Zenon DEF Rooted
  <2>6. Onward(w, x)
    BY <2>1, <2>3, <2>5, SameTrieOnward
  <2> QED
    BY <2>6 DEF x
<1>4. ASSUME ws \in WorldStateType, NEW tx \in TxType
      PROVE  SameTries(WarmedUp(w, tx))
  <2>1. tx.sender \in Address /\ Recipient(tx) \in Address /\ tx.access_list \in SUBSET SlotKey
    BY <1>4, FeeTypes DEF TxType
  <2>2. {k[1] : k \in tx.access_list} \subseteq Address
    BY <2>1 DEF SlotKey
  <2> DEFINE addresses == {tx.sender, Recipient(tx)} \cup {k[1] : k \in tx.access_list}
  <2>3. addresses \subseteq Address
    BY <2>1, <2>2
  <2>4. WarmedUp(w, tx) = [w EXCEPT !.warm_addresses = w.warm_addresses \cup addresses,
                                    !.warm_slots = w.warm_slots \cup tx.access_list]
    BY Zenon DEF WarmedUp, WorldStateType
  <2> HIDE DEF addresses
  <2> DEFINE A == w.warm_addresses \cup addresses
             K == w.warm_slots \cup tx.access_list
  <2>5. A \in SUBSET Address /\ K \in SUBSET SlotKey
    BY <2>1, <2>3 DEF WorldStateType
  <2> HIDE DEF A, K
  <2>6. WarmedUp(w, tx) = [w EXCEPT !.warm_addresses = A, !.warm_slots = K]
    BY <2>4 DEF A, K
  <2> QED
    BY <2>5, <2>6, Zenon DEF WorldStateType
<1>5. \A v : SameTries(v) => Onward(w, v)
  <2>1. \A v : SameTries(v) => (Rooted(w) => Rooted(v))
    BY Zenon DEF Rooted
  <2> QED
    BY <2>1, SameTrieOnward
<1>6. SameTries(w)
  OBVIOUS
<1> HIDE DEF SameTries
<1> QED
  BY <1>1, <1>2, <1>3, <1>4, <1>5, <1>6

EvmChange ==
  \/ \E a, b \in Address, v \in Balance \ {0} : EvmTransfer(a, b, v)
  \/ \E a \in Address, s \in Slot, v \in Word : EvmStore(a, s, v)

\* The EVM's changes to accounts lower no nonce.
LEMMA EvmOnward ==
  ASSUME BlockInv, EvmChange
  PROVE  /\ Onward(ws, ws') /\ current # None
         /\ UNCHANGED <<index, current, receipts, rejected, cumulative_gas, root>>
<1>1. ws \in WorldStateType
  BY DEF BlockInv, BlockType
<1>2. ASSUME NEW a \in Address, NEW b \in Address, NEW v \in Balance, EvmTransfer(a, b, v)
      PROVE  Onward(ws, ws')
  <2> DEFINE paid == sub_balance(ws, a, v)
  <2>1. Onward(ws, paid)
    BY <1>1, BalanceOnward
  <2>2. paid \in WorldStateType
    BY <2>1 DEF Onward, NoncesKept
  <2>3. ws' = add_balance(paid, b, v)
    BY <1>2 DEF EvmTransfer
  <2> HIDE DEF paid
  <2>4. Onward(paid, ws')
    BY <2>2, <2>3, BalanceOnward
  <2> QED
    BY <2>1, <2>4, OnwardTransitive
<1>3. ASSUME NEW a \in Address, NEW s \in Slot, NEW v \in Word, EvmStore(a, s, v)
      PROVE  Onward(ws, ws')
  BY <1>1, <1>3, QuietOperations DEF EvmStore
<1>4. Onward(ws, ws')
  BY <1>2, <1>3 DEF EvmChange
<1>5. current # None /\ UNCHANGED <<index, current, receipts, rejected, cumulative_gas, root>>
  BY DEF EvmChange, EvmTransfer, EvmStore, Executing
<1> QED
  BY <1>4, <1>5

\* Computing the state root of the block.
LEMMA FinishBlockStep ==
  ASSUME BlockInv, FinishBlock
  PROVE  BlockInv'
<1>1. NoncesKept(ws, ws')
  BY RootKeepsNonces DEF BlockInv, BlockType, FinishBlock
<1> QED
  BY <1>1, QuietStep DEF FinishBlock

InOrder(s) == \A i \in 1..(Len(s) - 1) : s[i].index < s[i + 1].index

AllBelow(s, n) == \A i \in 1..Len(s) : s[i].index < n

Lists(s, n) == \E i \in 1..Len(s) : s[i].index = n

\* A result array that gets the entry of the transaction just done with stays in
\* block order, and lists this transaction and those it listed before.
LEMMA ListedInOrder ==
  ASSUME NEW S, \A x \in S : x.index \in Nat,
         NEW s \in Seq(S), NEW e \in S, NEW t, t = Append(s, e),
         AllBelow(s, e.index), InOrder(s)
  PROVE  /\ InOrder(t) /\ AllBelow(t, e.index + 1)
         /\ Lists(t, e.index) /\ \A n : Lists(s, n) => Lists(t, n)
<1>1. /\ Len(s) \in Nat /\ Len(t) = Len(s) + 1
      /\ \A i \in 1..Len(s) : t[i] = s[i]
      /\ t[Len(s) + 1] = e
  BY AppendView
<1>2. e.index \in Nat /\ \A i \in 1..Len(s) : s[i].index \in Nat
  <2>1. \A i \in 1..Len(s) : s[i] \in S
    OBVIOUS
  <2> QED
    BY <2>1
<1>3. ASSUME NEW i \in 1..(Len(t) - 1)
      PROVE  t[i].index < t[i + 1].index
  <2>1. CASE i = Len(s)
    BY <1>1, <2>1 DEF AllBelow
  <2>2. CASE i # Len(s)
    <3>1. i \in 1..Len(s) /\ i + 1 \in 1..Len(s) /\ i \in 1..(Len(s) - 1)
      BY <1>1, <2>2
    <3> QED
      BY <1>1, <3>1 DEF InOrder
  <2> QED
    BY <2>1, <2>2
<1>4. ASSUME NEW i \in 1..Len(t)
      PROVE  t[i].index < e.index + 1
  <2>1. CASE i = Len(s) + 1
    BY <1>1, <1>2, <2>1
  <2>2. CASE i # Len(s) + 1
    <3>1. i \in 1..Len(s)
      BY <1>1, <2>2
    <3>2. s[i].index \in Nat /\ s[i].index < e.index /\ t[i] = s[i]
      BY <1>1, <1>2, <3>1 DEF AllBelow
    <3> QED
      BY <1>2, <3>2
  <2> QED
    BY <2>1, <2>2
<1>5. \E i \in 1..Len(t) : t[i].index = e.index
  <2>1. Len(s) + 1 \in 1..Len(t) /\ t[Len(s) + 1].index = e.index
    BY <1>1
  <2> QED
    BY <2>1
<1>6. ASSUME NEW n, NEW i \in 1..Len(s), s[i].index = n
      PROVE  \E j \in 1..Len(t) : t[j].index = n
  <2>1. i \in 1..Len(t) /\ t[i].index = n
    BY <1>1, <1>6
  <2> QED
    BY <2>1
<1> QED
  BY <1>3, <1>4, <1>5, <1>6, Zenon DEF InOrder, AllBelow, Lists

\* A rejected transaction.
LEMMA RejectStep ==
  ASSUME BlockInv, current = None, NEW tx \in TxType, Reject(tx)
  PROVE  BlockInv'
<1> DEFINE e == [index |-> index, error |-> validate_tx(tx)]
<1>1. /\ ws \in WorldStateType /\ index \in Nat /\ rejected \in Seq(Rejection)
      /\ receipts \in Seq(Receipt) /\ Len(receipts) \in Nat
  BY DEF BlockInv, BlockType
<1>2. e \in Rejection /\ e.index = index /\ \A x \in Rejection : x.index \in Nat
  <2>1. validate_tx(tx) \in Verdict
    BY Zenon DEF validate_tx, Verdict
  <2> QED
    BY <1>1, <2>1 DEF Rejection
<1>3. /\ rejected' = Append(rejected, e) /\ index' = index + 1
      /\ UNCHANGED <<current, receipts, cumulative_gas>>
  BY DEF Reject
<1> HIDE DEF e
<1>4. Onward(ws, ws')
  BY <1>1, QuietOperations DEF Reject
<1>5. /\ \A i \in 1..Len(receipts) : receipts[i].index < index
      /\ \A i \in 1..Len(rejected) : rejected[i].index < index
  BY DEF BlockInv, Behind, Done
<1>6. /\ Len(rejected') = Len(rejected) + 1 /\ Len(rejected) \in Nat
      /\ rejected' \in Seq(Rejection)
  BY <1>1, <1>2, <1>3, AppendView
<1>7. /\ \A i \in 1..(Len(rejected') - 1) : rejected'[i].index < rejected'[i + 1].index
      /\ \A i \in 1..Len(rejected') : rejected'[i].index < index + 1
      /\ \E i \in 1..Len(rejected') : rejected'[i].index = index
      /\ \A n : (\E i \in 1..Len(rejected) : rejected[i].index = n)
                  => \E i \in 1..Len(rejected') : rejected'[i].index = n
  <2>1. InOrder(rejected) /\ AllBelow(rejected, e.index)
    BY <1>2, <1>5 DEF BlockInv, EachTransactionOnce, InOrder, AllBelow
  <2>2. /\ InOrder(rejected') /\ AllBelow(rejected', e.index + 1)
        /\ Lists(rejected', e.index) /\ \A n : Lists(rejected, n) => Lists(rejected', n)
    BY <1>1, <1>2, <1>3, <2>1, ListedInOrder, Zenon
  <2> QED
    BY <1>2, <2>2, Zenon DEF InOrder, AllBelow, Lists
<1>8. BlockType'
  BY <1>3, <1>4, <1>6 DEF BlockInv, BlockType, Onward, NoncesKept
<1>9. EachTransactionOnce'
  <2>1. ASSUME NEW n \in 0..(index' - 1)
        PROVE  \/ \E i \in 1..Len(receipts') : receipts'[i].index = n
               \/ \E i \in 1..Len(rejected') : rejected'[i].index = n
    <3>1. CASE n = index
      BY <1>7, <3>1
    <3>2. CASE n # index
      <4>1. n \in 0..(index - 1)
        BY <1>1, <1>3, <3>2
      <4>2. \/ \E i \in 1..Len(receipts) : receipts[i].index = n
            \/ \E i \in 1..Len(rejected) : rejected[i].index = n
        BY <4>1 DEF BlockInv, EachTransactionOnce
      <4> QED
        BY <1>3, <1>7, <4>2
    <3> QED
      BY <3>1, <3>2
  <2>2. Len(receipts') + Len(rejected') + (IF current' = None THEN 0 ELSE 1) = index'
    <3>1. Len(receipts) + Len(rejected) + 0 = index
      BY DEF BlockInv, EachTransactionOnce
    <3>2. current' = None /\ Len(receipts') = Len(receipts)
      BY <1>3
    <3>3. /\ Len(receipts) \in Nat /\ Len(rejected) \in Nat
          /\ Len(rejected') = Len(rejected) + 1 /\ index' = index + 1
      BY <1>1, <1>3, <1>6
    <3>4. Len(receipts') + Len(rejected') + 0 = index'
      BY <3>1, <3>2, <3>3
    <3> QED
      BY <3>2, <3>4
  <2>3. \A i \in 1..(Len(receipts') - 1) : receipts'[i].index < receipts'[i + 1].index
    BY <1>3 DEF BlockInv, EachTransactionOnce
  <2> QED
    BY <1>7, <2>1, <2>2, <2>3, Zenon DEF EachTransactionOnce
<1>10. Behind'
  <2>1. \A i \in 1..Len(receipts) : receipts[i].index \in Nat
    <3>1. \A i \in 1..Len(receipts) : receipts[i] \in Receipt
      BY <1>1
    <3> QED
      BY <3>1 DEF Receipt
  <2>2. \A i \in 1..Len(receipts) : receipts[i].index < index + 1
    BY <1>1, <1>5, <2>1
  <2>3. Done' = index + 1 /\ index + 1 \in Nat
    BY <1>1, <1>3 DEF Done
  <2> QED
    BY <1>3, <1>7, <2>2, <2>3 DEF Behind
<1>11. NoReplay'
  BY <1>3 DEF BlockInv, NoReplay
<1>12. NoncesPassed'
  BY <1>3, <1>4, PassedOnward DEF BlockInv, Onward
<1> QED
  BY <1>8, <1>9, <1>10, <1>11, <1>12 DEF BlockInv

\* Up to the call of the EVM a transaction lowers no nonce and, below the largest,
\* raises that of its sender past its own.
LEMMA StartOnward ==
  ASSUME ws \in WorldStateType, NEW tx \in TxType, Start(tx)
  PROVE  /\ Onward(ws, ws')
         /\ tx.nonce = get_nonce(ws, tx.sender)
         /\ tx.nonce < MaxNonce - 1 => tx.nonce < get_nonce(ws', tx.sender)
<1> DEFINE begun == begin_transaction(ws)
           paid == sub_balance(begun, tx.sender, max_gas_cost(tx))
           prepaid == increment_nonce(paid, tx.sender)
           warmed == WarmedUp(prepaid, tx)
           snapped == snapshot(warmed)
           moved == ValueMoved(snapped, tx)
<1>1. /\ tx.sender \in Address /\ tx.value \in Balance /\ tx.nonce \in Int
      /\ max_gas_cost(tx) \in Balance /\ Recipient(tx) \in Address
  BY FeeTypes, WorldStateAssumption DEF TxType, Nonce
<1>2. ws' = IF is_create(tx) THEN create_contract(moved, Recipient(tx)) ELSE moved
  BY DEF Start, Prepaid
<1>3. tx.nonce = get_nonce(ws, tx.sender)
  <2>1. get_nonce(ws, tx.sender) \in Int
    BY <1>1, GetterTypes, WorldStateAssumption DEF Nonce
  <2>2. ~ (tx.nonce < get_nonce(ws, tx.sender)) /\ ~ (tx.nonce > get_nonce(ws, tx.sender))
    BY DEF Start, validate_tx
  <2> QED
    BY <1>1, <2>1, <2>2
<1>4. Onward(ws, begun)
  BY QuietOperations
<1> HIDE DEF begun
<1>5. begun \in WorldStateType
  BY <1>4 DEF Onward, NoncesKept
<1>6. Onward(begun, paid)
  BY <1>1, <1>5, BalanceOnward
<1> HIDE DEF paid
<1>7. paid \in WorldStateType /\ Onward(ws, paid)
  BY <1>4, <1>6, OnwardTransitive DEF Onward, NoncesKept
<1>8. /\ Onward(paid, prepaid)
      /\ get_nonce(paid, tx.sender) < MaxNonce - 1
           => get_nonce(paid, tx.sender) < get_nonce(prepaid, tx.sender)
  BY <1>1, <1>7, IncrementNonceView
<1> HIDE DEF prepaid
<1>9. prepaid \in WorldStateType /\ Onward(ws, prepaid)
  BY <1>7, <1>8, OnwardTransitive DEF Onward, NoncesKept
<1>10. Onward(prepaid, warmed)
  BY <1>9, QuietOperations
<1> HIDE DEF warmed
<1>11. warmed \in WorldStateType
  BY <1>10 DEF Onward, NoncesKept
<1>12. Onward(warmed, snapped)
  BY <1>11, QuietOperations
<1> HIDE DEF snapped
<1>13. snapped \in WorldStateType /\ Onward(prepaid, snapped)
  BY <1>10, <1>12, OnwardTransitive DEF Onward, NoncesKept
<1>14. Onward(snapped, moved)
  <2> DEFINE sent == sub_balance(snapped, tx.sender, tx.value)
  <2>1. Onward(snapped, snapped)
    BY <1>13, QuietOperations
  <2>2. Onward(snapped, sent)
    BY <1>1, <1>13, BalanceOnward
  <2>3. moved = IF tx.value = 0 THEN snapped ELSE add_balance(sent, Recipient(tx), tx.value)
    BY DEF ValueMoved
  <2> HIDE DEF sent, moved
  <2>4. sent \in WorldStateType
    BY <2>2 DEF Onward, NoncesKept
  <2>5. Onward(sent, add_balance(sent, Recipient(tx), tx.value))
    BY <1>1, <2>4, BalanceOnward
  <2> QED
    BY <2>1, <2>2, <2>3, <2>5, OnwardTransitive
<1> HIDE DEF moved
<1>15. moved \in WorldStateType /\ Onward(prepaid, moved)
  BY <1>13, <1>14, OnwardTransitive DEF Onward, NoncesKept
<1>16. Onward(prepaid, ws')
  BY <1>1, <1>2, <1>15, CreateContractOnward, OnwardTransitive
<1>17. Onward(ws, ws')
  BY <1>9, <1>16, OnwardTransitive
<1>18. ASSUME tx.nonce < MaxNonce - 1
       PROVE  tx.nonce < get_nonce(ws', tx.sender)
  <2>1. \A x \in WorldStateType : get_nonce(x, tx.sender) \in Int
    BY <1>1, GetterTypes, WorldStateAssumption DEF Nonce
  <2>2. /\ get_nonce(paid, tx.sender) \in Int /\ get_nonce(prepaid, tx.sender) \in Int
        /\ get_nonce(ws', tx.sender) \in Int
    BY <1>7, <1>9, <1>17, <2>1 DEF Onward, NoncesKept
  <2>3. /\ tx.nonce <= get_nonce(paid, tx.sender)
        /\ get_nonce(paid, tx.sender) <= get_nonce(prepaid, tx.sender)
        /\ get_nonce(prepaid, tx.sender) <= get_nonce(ws', tx.sender)
    BY <1>1, <1>3, <1>7, <1>8, <1>16 DEF Onward, NoncesKept
  <2> QED
    BY <1>1, <1>8, <1>18, <2>2, <2>3, WorldStateAssumption
<1> QED
  BY <1>3, <1>17, <1>18

\* A transaction that enters the EVM.
LEMMA StartStep ==
  ASSUME BlockInv, current = None, NEW tx \in TxType, Start(tx)
  PROVE  BlockInv'
<1>1. /\ ws \in WorldStateType /\ index \in Nat /\ receipts \in Seq(Receipt)
      /\ Len(receipts) \in Nat /\ Len(rejected) \in Nat
  BY DEF BlockInv, BlockType
<1>2. /\ Onward(ws, ws')
      /\ tx.nonce = get_nonce(ws, tx.sender)
      /\ tx.nonce < MaxNonce - 1 => tx.nonce < get_nonce(ws', tx.sender)
  BY <1>1, StartOnward
<1>3. /\ current' = [tx |-> tx, recipient |-> Recipient(tx)] /\ index' = index + 1
      /\ UNCHANGED <<receipts, rejected, cumulative_gas>>
  BY DEF Start
<1>4. current' \in Entry /\ current' # None /\ current'.tx = tx
  BY <1>1, <1>3, FeeTypes, BlockExecutorAssumption DEF Entry
<1>5. BlockType'
  BY <1>1, <1>2, <1>3, <1>4 DEF BlockInv, BlockType, Onward, NoncesKept
<1>6. EachTransactionOnce'
  <2>1. ASSUME NEW n \in 0..(index' - 1), n # index' - 1
        PROVE  \/ \E i \in 1..Len(receipts') : receipts'[i].index = n
               \/ \E i \in 1..Len(rejected') : rejected'[i].index = n
    <3>1. n \in 0..(index - 1)
      BY <1>1, <1>3, <2>1
    <3> QED
      BY <1>3, <3>1, Zenon DEF BlockInv, EachTransactionOnce
  <2>2. Len(receipts') + Len(rejected') + 1 = index'
    <3>1. Len(receipts) + Len(rejected) + 0 = index
      BY DEF BlockInv, EachTransactionOnce
    <3>2. Len(receipts') = Len(receipts) /\ Len(rejected') = Len(rejected)
      BY <1>3
    <3> QED
      BY <1>1, <1>3, <3>1, <3>2
  <2>3. /\ \A i \in 1..(Len(receipts') - 1) : receipts'[i].index < receipts'[i + 1].index
        /\ \A i \in 1..(Len(rejected') - 1) : rejected'[i].index < rejected'[i + 1].index
    BY <1>3 DEF BlockInv, EachTransactionOnce
  <2> QED
    BY <1>4, <2>1, <2>2, <2>3, Zenon DEF EachTransactionOnce
<1>7. Behind'
  <2>1. Done' = index /\ Done = index
    BY <1>1, <1>3, <1>4 DEF Done
  <2> QED
    BY <1>1, <1>3, <2>1 DEF BlockInv, Behind
<1>8. NoReplay'
  BY <1>3 DEF BlockInv, NoReplay
<1>9. NoncesPassed'
  <2>1. /\ \A i \in 1..Len(receipts) : receipts[i].tx.sender \in Address /\ receipts[i].tx.nonce \in Int
        /\ tx.sender \in Address /\ tx.nonce \in Int
    BY BlockTxTypes, WorldStateAssumption DEF TxType, Nonce
  <2>2. \A a \in Address : /\ get_nonce(ws, a) \in Int /\ get_nonce(ws', a) \in Int
                           /\ get_nonce(ws, a) <= get_nonce(ws', a)
    <3>1. \A x \in WorldStateType, a \in Address : get_nonce(x, a) \in Int
      BY GetterTypes, WorldStateAssumption DEF Nonce
    <3> QED
      BY <1>2, <3>1 DEF Onward, NoncesKept
  <2>3. \A i \in 1..Len(receipts) : receipts[i].tx.nonce < MaxNonce - 1 =>
          receipts[i].tx.nonce < get_nonce(ws, receipts[i].tx.sender)
    BY DEF BlockInv, NoncesPassed
  <2>4. \A i \in 1..Len(receipts) : receipts[i].tx.nonce < MaxNonce - 1 =>
          receipts[i].tx.nonce < get_nonce(ws', receipts[i].tx.sender)
    BY <2>1, <2>2, <2>3
  <2>5. ASSUME tx.nonce < MaxNonce - 1, NEW i \in 1..Len(receipts),
               receipts[i].tx.sender = tx.sender, receipts[i].tx.nonce = tx.nonce
        PROVE  FALSE
    <3>1. tx.nonce < get_nonce(ws, tx.sender)
      BY <2>3, <2>5
    <3> QED
      BY <1>2, <2>1, <3>1
  <2> QED
    BY <1>2, <1>3, <1>4, <2>4, <2>5 DEF NoncesPassed
<1> QED
  BY <1>5, <1>6, <1>7, <1>8, <1>9 DEF BlockInv

\* Settling the fees of a transaction lowers no nonce.
LEMMA SettledOnward ==
  ASSUME NEW w \in WorldStateType, NEW tx \in TxType, NEW gas_used \in Nat
  PROVE  Onward(w, Settled(w, tx, gas_used))
<1> DEFINE price == effective_gas_price(tx)
           gas_remaining == tx.gas_limit - gas_used
           back == uint256_mul(price, gas_remaining)
           fee == uint256_mul(uint256_sub(price, base_fee), gas_used)
           refunded == IF gas_remaining > 0 THEN add_balance(w, tx.sender, back) ELSE w
<1>1. tx.sender \in Address /\ tx.gas_limit \in Nat /\ price \in Balance /\ base_fee \in Balance
  BY FeeTypes, BlockExecutorAssumption DEF TxType
<1> HIDE DEF price
<1>2. gas_remaining > 0 => gas_remaining \in Nat
  BY <1>1
<1> HIDE DEF gas_remaining
<1>3. gas_remaining > 0 => back \in Balance
  BY <1>1, <1>2, WrapTypes
<1>4. fee \in Balance
  BY <1>1, WrapTypes
<1> HIDE DEF back, fee
<1>5. Onward(w, refunded)
  <2>1. Onward(w, w)
    BY QuietOperations
  <2>2. gas_remaining > 0 => Onward(w, add_balance(w, tx.sender, back))
    BY <1>1, <1>3, BalanceOnward
  <2> QED
    BY <2>1, <2>2
<1>6. Settled(w, tx, gas_used) = add_balance(refunded, coinbase, fee)
  BY DEF Settled, price, gas_remaining, back, fee
<1> HIDE DEF refunded
<1>7. refunded \in WorldStateType /\ coinbase \in Address
  BY <1>5, BlockExecutorAssumption DEF Onward, NoncesKept
<1>8. Onward(refunded, add_balance(refunded, coinbase, fee))
  BY <1>4, <1>7, BalanceOnward
<1> QED
  BY <1>5, <1>6, <1>8, OnwardTransitive

\* A transaction that is done and gets its receipt.
LEMMA FinalizeStep ==
  ASSUME BlockInv, current # None, NEW w, Onward(ws, w), NEW success \in BOOLEAN,
         NEW gas_used \in Nat, Finalize(w, success, gas_used)
  PROVE  BlockInv'
<1> DEFINE tx == current.tx
           e == [tx |-> tx, index |-> index - 1, success |-> success, gas_used |-> gas_used,
                 cumulative_gas |-> cumulative_gas + gas_used]
<1>1. /\ ws \in WorldStateType /\ w \in WorldStateType /\ index \in Nat
      /\ receipts \in Seq(Receipt) /\ cumulative_gas \in Nat
      /\ Len(receipts) \in Nat /\ Len(rejected) \in Nat
  BY DEF BlockInv, BlockType, Onward, NoncesKept
<1>2. tx \in TxType /\ index - 1 \in Nat /\ Done = index - 1
  BY DEF BlockInv, BlockType, Entry, Behind, Done
<1>3. /\ receipts' = Append(receipts, e) /\ current' = None
      /\ cumulative_gas' = cumulative_gas + gas_used
      /\ UNCHANGED <<index, rejected>>
      /\ ws' = Settled(w, tx, gas_used)
  BY DEF Finalize
<1>4. e \in Receipt /\ e.index = index - 1 /\ e.tx = tx /\ \A x \in Receipt : x.index \in Nat
  BY <1>1, <1>2 DEF Receipt
<1> HIDE DEF e, tx
<1>5. Onward(ws, ws')
  BY <1>1, <1>2, <1>3, SettledOnward, OnwardTransitive
<1>6. /\ Len(receipts') = Len(receipts) + 1 /\ receipts' \in Seq(Receipt)
      /\ \A i \in 1..Len(receipts) : receipts'[i] = receipts[i]
      /\ receipts'[Len(receipts) + 1] = e
  <2>1. receipts \in Seq(Receipt) /\ e \in Receipt
    BY <1>1, <1>4
  <2>2. receipts' = Append(receipts, e)
    BY <1>3
  <2> QED
    BY <2>1, <2>2, AppendView
<1>7. /\ \A i \in 1..(Len(receipts') - 1) : receipts'[i].index < receipts'[i + 1].index
      /\ \A i \in 1..Len(receipts') : receipts'[i].index < e.index + 1
      /\ \E i \in 1..Len(receipts') : receipts'[i].index = e.index
      /\ \A n : (\E i \in 1..Len(receipts) : receipts[i].index = n)
                  => \E i \in 1..Len(receipts') : receipts'[i].index = n
  <2>1. InOrder(receipts) /\ AllBelow(receipts, e.index)
    BY <1>2, <1>4 DEF BlockInv, EachTransactionOnce, Behind, InOrder, AllBelow
  <2>2. /\ InOrder(receipts') /\ AllBelow(receipts', e.index + 1)
        /\ Lists(receipts', e.index) /\ \A n : Lists(receipts, n) => Lists(receipts', n)
    BY <1>1, <1>3, <1>4, <2>1, ListedInOrder, Zenon
  <2> QED
    BY <2>2, Zenon DEF InOrder, AllBelow, Lists
<1>8. e.index + 1 = index
  BY <1>1, <1>4
<1>9. BlockType'
  <2>1. ws' \in WorldStateType
    BY <1>5 DEF Onward, NoncesKept
  <2>2. cumulative_gas' \in Nat /\ index' \in Nat /\ current' \in Entry \cup {None}
    BY <1>1, <1>3
  <2>3. rejected' \in Seq(Rejection)
    BY <1>3 DEF BlockInv, BlockType
  <2> QED
    BY <1>6, <2>1, <2>2, <2>3 DEF BlockType
<1>10. EachTransactionOnce'
  <2>1. ASSUME NEW n \in 0..(index' - 1)
        PROVE  \/ \E i \in 1..Len(receipts') : receipts'[i].index = n
               \/ \E i \in 1..Len(rejected') : rejected'[i].index = n
    <3>1. \/ n = index - 1
          \/ \E i \in 1..Len(receipts) : receipts[i].index = n
          \/ \E i \in 1..Len(rejected) : rejected[i].index = n
      BY <1>3, Zenon DEF BlockInv, EachTransactionOnce
    <3> QED
      BY <1>3, <1>4, <1>7, <3>1, Zenon
  <2>2. Len(receipts') + Len(rejected') + 0 = index'
    <3>1. Len(receipts) + Len(rejected) + 1 = index
      BY DEF BlockInv, EachTransactionOnce
    <3>2. Len(rejected') = Len(rejected) /\ Len(receipts') = Len(receipts) + 1 /\ index' = index
      BY <1>3, <1>6
    <3> QED
      BY <1>1, <3>1, <3>2
  <2>3. \A i \in 1..(Len(rejected') - 1) : rejected'[i].index < rejected'[i + 1].index
    BY <1>3 DEF BlockInv, EachTransactionOnce
  <2> QED
    BY <1>3, <1>7, <2>1, <2>2, <2>3, Zenon DEF EachTransactionOnce
<1>11. Behind'
  <2>1. Done' = index
    BY <1>3 DEF Done
  <2>2. \A i \in 1..Len(rejected) : rejected[i].index < index
    <3>1. \A i \in 1..Len(rejected) : rejected[i].index \in Nat
      <4>1. \A i \in 1..Len(rejected) : rejected[i] \in Rejection
        BY DEF BlockInv, BlockType
      <4> QED
        BY <4>1 DEF Rejection
    <3>2. \A i \in 1..Len(rejected) : rejected[i].index < index - 1
      BY <1>2 DEF BlockInv, Behind
    <3> QED
      BY <1>1, <3>1, <3>2
  <2> QED
    BY <1>1, <1>3, <1>7, <1>8, <2>1, <2>2 DEF Behind
<1>12. /\ \A i \in 1..Len(receipts) : receipts[i].tx.sender \in Address /\ receipts[i].tx.nonce \in Int
       /\ tx.sender \in Address /\ tx.nonce \in Int
  BY BlockTxTypes DEF tx
<1>13. tx.nonce < MaxNonce - 1 =>
         /\ tx.nonce < get_nonce(ws, tx.sender)
         /\ \A i \in 1..Len(receipts) :
              ~ (receipts[i].tx.sender = tx.sender /\ receipts[i].tx.nonce = tx.nonce)
  BY Zenon DEF BlockInv, NoncesPassed, tx
<1>14. NoReplay'
  <2> SUFFICES ASSUME NEW i \in 1..Len(receipts'), NEW j \in 1..Len(receipts'),
                      receipts'[i].tx.sender = receipts'[j].tx.sender,
                      receipts'[i].tx.nonce = receipts'[j].tx.nonce,
                      receipts'[i].tx.nonce < MaxNonce - 1
               PROVE  i = j
    BY DEF NoReplay
  <2>1. /\ i \in 1..Len(receipts) \/ (i = Len(receipts) + 1 /\ receipts'[i].tx = tx)
        /\ j \in 1..Len(receipts) \/ (j = Len(receipts) + 1 /\ receipts'[j].tx = tx)
    BY <1>1, <1>4, <1>6
  <2>2. CASE i \in 1..Len(receipts) /\ j \in 1..Len(receipts)
    BY <1>6, <2>2 DEF BlockInv, NoReplay
  <2>3. CASE i \in 1..Len(receipts) /\ j = Len(receipts) + 1 /\ receipts'[j].tx = tx
    BY <1>6, <1>13, <2>3
  <2>4. CASE j \in 1..Len(receipts) /\ i = Len(receipts) + 1 /\ receipts'[i].tx = tx
    BY <1>6, <1>13, <2>4
  <2> QED
    BY <2>1, <2>2, <2>3, <2>4
<1>15. NoncesPassed'
  <2> SUFFICES ASSUME NEW i \in 1..Len(receipts'), receipts'[i].tx.nonce < MaxNonce - 1
               PROVE  receipts'[i].tx.nonce < get_nonce(ws', receipts'[i].tx.sender)
    BY <1>3 DEF NoncesPassed
  <2>1. \A a \in Address, n \in Int : n < get_nonce(ws, a) => n < get_nonce(ws', a)
    <3>1. \A x \in WorldStateType, a \in Address : get_nonce(x, a) \in Int
      <4>1. \A x \in WorldStateType, a \in Address : get_nonce(x, a) \in Nonce
        BY GetterTypes, Zenon
      <4>2. Nonce \subseteq Int
        BY WorldStateAssumption DEF Nonce
      <4> QED
        BY <4>1, <4>2, Zenon
    <3> QED
      BY <1>5, <3>1 DEF Onward, NoncesKept
  <2>2. i \in 1..Len(receipts) \/ receipts'[i].tx = tx
    BY <1>1, <1>4, <1>6
  <2>3. CASE i \in 1..Len(receipts)
    <3>1. receipts[i].tx.nonce < get_nonce(ws, receipts[i].tx.sender)
      BY <1>6, <2>3 DEF BlockInv, NoncesPassed
    <3> QED
      BY <1>6, <1>12, <2>1, <2>3, <3>1
  <2>4. CASE receipts'[i].tx = tx
    BY <1>12, <1>13, <2>1, <2>4, Zenon
  <2> QED
    BY <2>2, <2>3, <2>4
<1> QED
  BY <1>9, <1>10, <1>11, <1>14, <1>15 DEF BlockInv

\* However the EVM ends, what is settled is a state in which no nonce is lower.
LEMMA EvmResultView ==
  ASSUME BlockInv, EvmResult
  PROVE  /\ current # None
         /\ \E w, success, gas_used : /\ Onward(ws, w) /\ success \in BOOLEAN /\ gas_used \in Nat
                                      /\ Finalize(w, success, gas_used)
<1>1. ws \in WorldStateType /\ current \in Entry /\ current # None
  BY DEF BlockInv, BlockType, EvmResult
<1>2. current.tx \in TxType /\ current.recipient \in Address /\ current.tx.gas_limit \in Nat
  BY <1>1 DEF Entry, TxType
<1>3. Onward(ws, ws)
  BY <1>1, QuietOperations
<1> DEFINE Goal == \E w, success, gas_used :
                     /\ Onward(ws, w) /\ success \in BOOLEAN /\ gas_used \in Nat
                     /\ Finalize(w, success, gas_used)
<1>4. ASSUME Fail
      PROVE  Goal
  <2>1. Finalize(ws, FALSE, current.tx.gas_limit)
    BY <1>4, Zenon DEF Fail, revert_to_snapshot
  <2> QED
    BY <1>2, <1>3, <2>1, Zenon
<1>5. ASSUME NEW gas \in 0..(current.tx.gas_limit - tx_intrinsic_gas(current.tx)),
             NEW refund \in EvmRefund, NEW output \in Code, Succeed(gas, refund, output)
      PROVE  Goal
  <2> DEFINE w == IF is_create(current.tx) /\ output # EmptyCode
                  THEN set_code(ws, current.recipient, output) ELSE ws
             used == tx_intrinsic_gas(current.tx) + gas
  <2>1. Finalize(w, TRUE, RefundedGas(used, refund))
    BY <1>5, Zenon DEF Succeed, commit_snapshot
  <2>2. Onward(ws, w)
    BY <1>1, <1>2, <1>3, SetCodeOnward
  <2>3. used \in Nat /\ refund \in Nat
    BY <1>2, FeeTypes, BlockExecutorAssumption
  <2> HIDE DEF w, used
  <2>4. RefundedGas(used, refund) \in Nat
    BY <2>3 DEF RefundedGas
  <2> QED
    BY <2>1, <2>2, <2>4, Zenon
<1>6. Goal
  <2> HIDE DEF Goal
  <2> QED
    BY <1>4, <1>5 DEF EvmResult
<1> QED
  BY <1>1, <1>6

\* Before the block nothing is listed and no transaction is in the EVM.
LEMMA BlockInitStep == Init => BlockInv
<1> SUFFICES ASSUME Init PROVE BlockInv
  OBVIOUS
<1>1. ws \in WorldStateType
  BY CreateType, SetBalanceType, BlockExecutorAssumption DEF Init
<1>2. /\ index = 0 /\ current = None /\ receipts = <<>> /\ rejected = <<>> /\ cumulative_gas = 0
      /\ Len(receipts) = 0 /\ Len(rejected) = 0
  BY DEF Init
<1>3. BlockType
  BY <1>1, <1>2 DEF BlockType
<1>4. EachTransactionOnce /\ Behind /\ NoReplay /\ NoncesPassed
  <2>1. EachTransactionOnce
    BY <1>2, Z3T(30) DEF EachTransactionOnce
  <2>2. Behind
    BY <1>2 DEF Behind, Done
  <2>3. NoReplay /\ NoncesPassed
    BY <1>2 DEF NoReplay, NoncesPassed
  <2> QED
    BY <2>1, <2>2, <2>3
<1> QED
  BY <1>3, <1>4 DEF BlockInv

\* The inductive invariant of the block executor: result arrays in block order behind
\* the loop, nonces past those of the receipts.
THEOREM BlockInductive == Spec => []BlockInv
<1>1. ASSUME BlockInv, [Next]_vars
      PROVE  BlockInv'
  <2>1. Onward(ws, ws)
    BY <1>1, QuietOperations DEF BlockInv, BlockType
  <2>2. CASE NextTransaction
    <3>1. current = None
      BY <2>2 DEF NextTransaction
    <3>2. PICK tx \in Tx : Reject(tx) \/ Start(tx)
      BY <2>2 DEF NextTransaction
    <3>3. tx \in TxType
      BY BlockExecutorAssumption
    <3> QED
      BY <1>1, <3>1, <3>2, <3>3, RejectStep, StartStep
  <2>3. CASE UNCHANGED vars
    BY <1>1, <2>1, <2>3, QuietStep DEF vars, Onward
  <2>4. CASE EvmChange
    BY <1>1, <2>4, EvmOnward, QuietStep DEF Onward
  <2>5. CASE EvmResult
    BY <1>1, <2>5, EvmResultView, FinalizeStep
  <2> QED
    BY <1>1, <2>2, <2>3, <2>4, <2>5, FinishBlockStep DEF Next, EvmChange
<1> QED
  BY <1>1, BlockInitStep, PTL DEF Spec

\* Every transaction that block_executor_run takes up is listed exactly once, in block
\* order, for blocks of every length.
THEOREM BlockOrder == Spec => []EachTransactionOnce
<1>1. BlockInv => EachTransactionOnce
  BY DEF BlockInv
<1> QED
  BY <1>1, BlockInductive, PTL

\* Below the largest nonce, execute_transaction never runs two transactions of one
\* sender with the same nonce, whatever the EVM does to the accounts in between.
THEOREM NoncesUsedOnce == Spec => []NoReplay
<1>1. BlockInv => NoReplay
  BY DEF BlockInv
<1> QED
  BY <1>1, BlockInductive, PTL

\* What block_executor_validate_tx lets through can be paid by execute_transaction, for
\* every word size, base fee and transaction: its fatal error "Should not happen -
\* validated earlier" is unreachable.
THEOREM ValidationSuffices == Spec => []PaymentsSucceed
<1>1. BlockInv => PaymentsSucceed
  <2> SUFFICES ASSUME BlockInv, NEW tx \in Tx, validate_tx(tx) = "VALID"
               PROVE  /\ sub_balance_ok(ws, tx.sender, max_gas_cost(tx))
                      /\ sub_balance_ok(Prepaid(ws, tx), tx.sender, tx.value)
    BY DEF PaymentsSucceed
  <2>1. tx \in TxType /\ ws \in WorldStateType
    BY BlockExecutorAssumption DEF BlockInv, BlockType
  <2> QED
    BY <2>1, ValidIsAffordable
<1> QED
  BY <1>1, BlockInductive, PTL
-----------------------------------------------------------------------------
\* Until the root is computed the world state is rooted; after that nothing changes it.
RootInv ==
  /\ root = None => Rooted(ws)
  /\ root # None => current = None
  /\ RootCoversStorage

\* Every step before the end of the block goes onward and computes no root.
LEMMA StepOnward ==
  ASSUME BlockInv, NextTransaction \/ EvmChange \/ EvmResult
  PROVE  Onward(ws, ws') /\ UNCHANGED root /\ (root # None => current # None)
<1>1. ws \in WorldStateType
  BY DEF BlockInv, BlockType
<1>2. CASE NextTransaction
  <2>1. PICK tx \in Tx : Reject(tx) \/ Start(tx)
    BY <1>2 DEF NextTransaction
  <2>2. tx \in TxType
    BY BlockExecutorAssumption
  <2>3. Reject(tx) => Onward(ws, ws')
    BY <1>1, QuietOperations DEF Reject
  <2>4. Start(tx) => Onward(ws, ws')
    BY <1>1, <2>2, StartOnward
  <2>5. UNCHANGED root /\ root = None
    BY <1>2, <2>1, Zenon DEF NextTransaction, Reject, Start
  <2> QED
    BY <2>1, <2>3, <2>4, <2>5
<1>3. CASE EvmChange
  BY <1>3, EvmOnward
<1>4. CASE EvmResult
  <2>1. PICK w, success, gas_used : /\ Onward(ws, w) /\ success \in BOOLEAN /\ gas_used \in Nat
                                    /\ Finalize(w, success, gas_used)
    BY <1>4, EvmResultView
  <2>2. current # None /\ current.tx \in TxType /\ w \in WorldStateType
    BY <1>4, <2>1, EvmResultView DEF BlockInv, BlockType, Entry, Onward, NoncesKept
  <2>3. ws' = Settled(w, current.tx, gas_used) /\ UNCHANGED root
    BY <2>1 DEF Finalize
  <2>4. Onward(w, ws')
    BY <2>1, <2>2, <2>3, SettledOnward
  <2> QED
    BY <2>1, <2>2, <2>3, <2>4, OnwardTransitive
<1> QED
  BY <1>2, <1>3, <1>4

\* Computing the root makes every account of it carry its storage: the dirty ones get it,
\* the others have none.
LEMMA RootStep ==
  ASSUME BlockInv, RootInv, FinishBlock
  PROVE  RootInv'
<1>1. ws \in WorldStateType /\ Rooted(ws) /\ current = None
  BY DEF BlockInv, BlockType, RootInv, FinishBlock
<1>2. ws' = world_state_root(ws) /\ root' = ws'.state_trie /\ UNCHANGED current
  BY DEF FinishBlock
<1>3. ws' \in WorldStateType
  BY <1>1, <1>2, RootType
<1>4. root' # None
  BY <1>2, <1>3, BlockExecutorAssumption DEF WorldStateType
<1>5. ASSUME NEW a \in Address, root'[a] # None
      PROVE  root'[a].storage_root = StorageOf(ws', a)
  <2>1. ws'.storage_tries = ws.storage_tries
    BY <1>1, <1>2 DEF world_state_root, WorldStateType
  <2>2. StorageOf(ws', a) = StorageOf(ws, a)
    BY <2>1 DEF StorageOf
  <2>3. root'[a] = IF a \in ws.dirty_storage /\ ws.storage_tries[a] # None
                   THEN RootedAccount(ws, a) ELSE ws.state_trie[a]
    BY <1>1, <1>2, <1>5 DEF world_state_root, WorldStateType
  <2>4. RootedAccount(ws, a).storage_root = StorageOf(ws, a)
    <3>1. get_account(ws, a) \in Account
      BY <1>1, GetAccountType
    <3> QED
      BY <3>1 DEF RootedAccount, Account
  <2>5. CASE a \in ws.dirty_storage
    BY <1>1, <2>2, <2>3, <2>4, <2>5 DEF Rooted
  <2>6. CASE a \notin ws.dirty_storage
    BY <1>1, <1>5, <2>2, <2>3, <2>6 DEF Rooted, StorageOf
  <2> QED
    BY <2>5, <2>6
<1> QED
  BY <1>1, <1>2, <1>4, <1>5 DEF RootInv, RootCoversStorage

\* The state root that block_executor_run reports commits to the storage of every account
\* of the block, for every number of accounts, slots and transactions.
THEOREM BlockRoot == Spec => []RootCoversStorage
<1>1. Init => RootInv
  <2> SUFFICES ASSUME Init PROVE RootInv
    OBVIOUS
  <2>1. PICK a \in Address : ws = set_balance(world_state_create, a, Supply)
    BY DEF Init
  <2>2. world_state_create \in WorldStateType /\ Rooted(world_state_create)
    BY CreateType, Zenon DEF world_state_create, Rooted
  <2>3. Onward(world_state_create, ws)
    BY <2>1, <2>2, SetBalanceView, BlockExecutorAssumption
  <2>4. Rooted(ws)
    BY <2>2, <2>3 DEF Onward
  <2> QED
    BY <2>4 DEF Init, RootInv, RootCoversStorage
<1>2. ASSUME BlockInv, RootInv, [Next]_vars
      PROVE  RootInv'
  <2>1. CASE NextTransaction \/ EvmChange \/ EvmResult
    <3>1. Onward(ws, ws') /\ UNCHANGED root /\ (root # None => current # None)
      BY <1>2, <2>1, StepOnward
    <3> QED
      BY <1>2, <3>1, Zenon DEF RootInv, RootCoversStorage, Onward
  <2>2. CASE FinishBlock
    BY <1>2, <2>2, RootStep
  <2>3. CASE UNCHANGED vars
    BY <1>2, <2>3 DEF vars, RootInv, RootCoversStorage, StorageOf
  <2> QED
    BY <1>2, <2>1, <2>2, <2>3 DEF Next, EvmChange
<1>3. RootInv => RootCoversStorage
  BY DEF RootInv
<1> QED
  BY <1>1, <1>2, <1>3, BlockInductive, PTL DEF Spec
=============================================================================
