----------------------------- MODULE WorldState -----------------------------
(***************************************************************************)
(* The in-memory world state of src/state/world_state.c as a record w and  *)
(* one operator per function that reads or changes it.  An operator that   *)
(* models a mutating function returns the new record, so that callers that *)
(* make several calls in a row (the block executor) compose them.          *)
(*                                                                         *)
(* Abstractions: a trie is the map it stores (a storage slot that is       *)
(* absent reads as zero); a keccak256 hash or trie root is the value that  *)
(* was hashed, so two hashes are equal exactly when their preimages are.   *)
(*                                                                         *)
(* The operators named ..._Mutant are plausible mistakes in the definition *)
(* that follows them; no specification uses them.                          *)
(***************************************************************************)
EXTENDS Naturals

CONSTANTS Address,      \* account addresses
          Slot,         \* storage slot keys
          Code,         \* byte codes, the empty one included
          EmptyCode,    \* code of size 0; its hash is EMPTY_CODE_HASH
          MaxBalance,   \* 2^256 - 1
          MaxNonce,     \* UINT64_MAX
          MaxWord,      \* the largest storage word
          None          \* "no entry" of a map

Balance == 0..MaxBalance

Nonce == 0..MaxNonce

Word == 0..MaxWord

Storage == [Slot -> Word]

SlotKey == Address \X Slot

Account == [nonce : Nonce, balance : Balance, storage_root : Storage, code_hash : Code]

ASSUME WorldStateAssumption ==
  /\ MaxBalance \in Nat
  /\ MaxNonce \in Nat \ {0}
  /\ MaxWord \in Nat
  /\ EmptyCode \in Code
  /\ None \notin Account \cup Storage \cup Code \cup Word

WorldStateType ==
  [state_trie        : [Address -> Account \cup {None}],
   storage_tries     : [Address -> Storage \cup {None}],
   code_store        : [Address -> Code \cup {None}],
   warm_addresses    : SUBSET Address,
   warm_slots        : SUBSET SlotKey,
   original_storage  : [SlotKey -> Word \cup {None}],
   dirty_storage     : SUBSET Address,
   all_accounts      : SUBSET Address,
   all_storage_slots : SUBSET SlotKey,
   snapshot_counter  : Nat]

EmptyStorage == [s \in Slot |-> 0]

world_state_create ==
  [state_trie        |-> [a \in Address |-> None],
   storage_tries     |-> [a \in Address |-> None],
   code_store        |-> [a \in Address |-> None],
   warm_addresses    |-> {},
   warm_slots        |-> {},
   original_storage  |-> [k \in SlotKey |-> None],
   dirty_storage     |-> {},
   all_accounts      |-> {},
   all_storage_slots |-> {},
   snapshot_counter  |-> 0]

\* hmap insert of the STC containers: an entry already present is kept.
map_insert(m, k, v) == IF m[k] = None THEN [m EXCEPT ![k] = v] ELSE m

uint256_add(x, y) == (x + y) % (MaxBalance + 1)

-----------------------------------------------------------------------------
\* Accounts

account_empty ==
  [nonce |-> 0, balance |-> 0, storage_root |-> EmptyStorage, code_hash |-> EmptyCode]

account_is_empty(acc) ==
  acc.nonce = 0 /\ acc.balance = 0 /\ acc.code_hash = EmptyCode

account_exists(w, a) == w.state_trie[a] # None

\* The account, or the empty account when there is none.
get_account(w, a) == IF account_exists(w, a) THEN w.state_trie[a] ELSE account_empty

erase_slots_for_address(slots, a) == {k \in slots : k[1] # a}

set_account_Mutant(w, a, acc) ==
  [w EXCEPT !.state_trie[a] = acc, !.all_accounts = @ \cup {a}]

set_account_Mutant2(w, a, acc) ==
  IF account_is_empty(acc)
  THEN [w EXCEPT !.state_trie[a] = None,
                 !.all_accounts = @ \ {a},
                 !.all_storage_slots = erase_slots_for_address(@, a)]
  ELSE [w EXCEPT !.state_trie[a] = acc]

\* An empty account is deleted (EIP-161) and no longer tracked.
set_account(w, a, acc) ==
  IF account_is_empty(acc)
  THEN [w EXCEPT !.state_trie[a] = None,
                 !.all_accounts = @ \ {a},
                 !.all_storage_slots = erase_slots_for_address(@, a)]
  ELSE [w EXCEPT !.state_trie[a] = acc,
                 !.all_accounts = @ \cup {a}]

create_contract(w, a) ==
  IF account_exists(w, a) THEN w
  ELSE set_account(w, a, [account_empty EXCEPT !.nonce = 1])

delete_account(w, a) ==
  [w EXCEPT !.state_trie[a] = None, !.storage_tries[a] = None, !.code_store[a] = None]

get_balance(w, a) == get_account(w, a).balance

set_balance(w, a, b) == set_account(w, a, [get_account(w, a) EXCEPT !.balance = b])

add_balance_ok(w, a, amt) == uint256_add(get_balance(w, a), amt) >= get_balance(w, a)

add_balance(w, a, amt) ==
  IF add_balance_ok(w, a, amt)
  THEN set_balance(w, a, uint256_add(get_balance(w, a), amt))
  ELSE w

sub_balance_ok(w, a, amt) == get_balance(w, a) >= amt

sub_balance(w, a, amt) ==
  IF account_exists(w, a) /\ sub_balance_ok(w, a, amt)
  THEN set_balance(w, a, get_balance(w, a) - amt)
  ELSE w

get_nonce(w, a) == get_account(w, a).nonce

set_nonce(w, a, n) == set_account(w, a, [get_account(w, a) EXCEPT !.nonce = n])

increment_nonce_Mutant(w, a) == set_nonce(w, a, get_nonce(w, a) + 1)

\* The nonce saturates one below UINT64_MAX (EIP-2681).
increment_nonce(w, a) ==
  IF get_nonce(w, a) >= MaxNonce - 1 THEN w ELSE set_nonce(w, a, get_nonce(w, a) + 1)

get_code(w, a) == IF w.code_store[a] = None THEN EmptyCode ELSE w.code_store[a]

get_code_hash(w, a) == get_account(w, a).code_hash

set_code(w, a, c) ==
  LET stored == [w EXCEPT !.code_store = map_insert(@, a, c)]
  IN  set_account(stored, a, [get_account(w, a) EXCEPT !.code_hash = c])

-----------------------------------------------------------------------------
\* Storage

\* What the storage trie of a holds; a missing trie holds nothing.
StorageOf(w, a) == IF w.storage_tries[a] = None THEN EmptyStorage ELSE w.storage_tries[a]

get_storage(w, a, s) == StorageOf(w, a)[s]

get_original_storage(w, a, s) ==
  IF w.original_storage[<<a, s>>] # None THEN w.original_storage[<<a, s>>]
  ELSE get_storage(w, a, s)

set_storage_Mutant(w, a, s, v) ==
  [w EXCEPT !.original_storage[<<a, s>>] = get_storage(w, a, s),
            !.dirty_storage = @ \cup {a},
            !.all_storage_slots = IF v = 0 THEN @ \ {<<a, s>>} ELSE @ \cup {<<a, s>>},
            !.storage_tries[a] = [StorageOf(w, a) EXCEPT ![s] = v]]

set_storage_Mutant2(w, a, s, v) ==
  [w EXCEPT !.original_storage = map_insert(@, <<a, s>>, get_storage(w, a, s)),
            !.all_storage_slots = IF v = 0 THEN @ \ {<<a, s>>} ELSE @ \cup {<<a, s>>},
            !.storage_tries[a] = [StorageOf(w, a) EXCEPT ![s] = v]]

\* Remembers the original value on the first write, marks the account dirty,
\* tracks the slot for export, and writes the storage trie.
set_storage(w, a, s, v) ==
  [w EXCEPT !.original_storage = map_insert(@, <<a, s>>, get_storage(w, a, s)),
            !.dirty_storage = @ \cup {a},
            !.all_storage_slots = IF v = 0 THEN @ \ {<<a, s>>} ELSE @ \cup {<<a, s>>},
            !.storage_tries[a] = [StorageOf(w, a) EXCEPT ![s] = v]]

-----------------------------------------------------------------------------
\* Warm sets, transaction boundary, snapshots

is_address_warm(w, a) == a \in w.warm_addresses

warm_address(w, a) == [w EXCEPT !.warm_addresses = @ \cup {a}]

is_slot_warm(w, a, s) == <<a, s>> \in w.warm_slots

warm_slot(w, a, s) == [w EXCEPT !.warm_slots = @ \cup {<<a, s>>}]

begin_transaction(w) ==
  [w EXCEPT !.warm_addresses = {}, !.warm_slots = {},
            !.original_storage = [k \in SlotKey |-> None]]

snapshot(w) == [w EXCEPT !.snapshot_counter = @ + 1]

\* Reverting and committing are stubs in the source: neither changes anything.
revert_to_snapshot(w, id) == w

commit_snapshot(w, id) == w

-----------------------------------------------------------------------------
\* State root, clear, export

RootedAccount_Mutant(w, a) == [account_empty EXCEPT !.storage_root = StorageOf(w, a)]

\* The account that root computation writes back for a dirty address.
RootedAccount(w, a) == [get_account(w, a) EXCEPT !.storage_root = StorageOf(w, a)]

\* The loop over dirty_storage: set_account for every dirty address that has a
\* storage trie.  Iterations touch different addresses, so they commute.
world_state_root(w) ==
  LET visited == {a \in w.dirty_storage : w.storage_tries[a] # None}
      dropped == {a \in visited : account_is_empty(RootedAccount(w, a))}
  IN  [w EXCEPT !.state_trie = [a \in Address |->
                   IF a \in dropped THEN None
                   ELSE IF a \in visited THEN RootedAccount(w, a) ELSE @[a]],
                !.all_accounts = (@ \ dropped) \cup (visited \ dropped),
                !.all_storage_slots = {k \in @ : k[1] \notin dropped},
                !.dirty_storage = {}]

\* Everything but the snapshot counter goes back to its initial value.
world_state_clear(w) == [world_state_create EXCEPT !.snapshot_counter = w.snapshot_counter]

\* The exported post-state: the tracked accounts that exist, each with its code
\* and those tracked slots that hold a value.
world_state_snapshot(w) ==
  [a \in {x \in w.all_accounts : account_exists(w, x)} |->
     [balance |-> get_balance(w, a),
      nonce   |-> get_nonce(w, a),
      code    |-> get_code(w, a),
      storage |-> [s \in {x \in Slot : <<a, x>> \in w.all_storage_slots
                                       /\ get_storage(w, a, x) # 0}
                     |-> get_storage(w, a, s)]]]
=============================================================================
