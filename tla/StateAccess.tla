----------------------------- MODULE StateAccess -----------------------------
(***************************************************************************)
(* The state access interface (include/div0/state/state_access.h) as the   *)
(* world state implements it: one action per vtable entry that changes     *)
(* state, plus world_state_clear, called in any order by any client.       *)
(*                                                                         *)
(* Three history variables record what the properties compare with:        *)
(*   txStart  the storage when the current transaction began;              *)
(*   deleted  the addresses delete_account was called for since then;      *)
(*   orphaned the addresses that have had storage without an account: the  *)
(*            account was never created, or it was dropped as empty (which *)
(*            keeps its storage trie).                                     *)
(***************************************************************************)
EXTENDS WorldState

CONSTANTS WarmAddress,   \* bound: the addresses clients warm
          MaxSnapshots   \* bound: the snapshots clients take

ASSUME StateAccessAssumption == WarmAddress \subseteq Address /\ MaxSnapshots \in Nat

VARIABLES ws, txStart, deleted, orphaned

vars == <<ws, txStart, deleted, orphaned>>

AllStorage(w) == [a \in Address |-> StorageOf(w, a)]

TypeOK ==
  /\ ws \in WorldStateType
  /\ txStart \in [Address -> Storage]
  /\ deleted \subseteq Address
  /\ orphaned \subseteq Address

Init ==
  /\ ws = world_state_create
  /\ txStart = [a \in Address |-> EmptyStorage]
  /\ deleted = {}
  /\ orphaned = {}

\* Addresses whose storage trie holds values although no account exists.
Homeless(w) == {a \in Address : StorageOf(w, a) # EmptyStorage /\ ~ account_exists(w, a)}

Update(v) ==
  /\ ws' = v
  /\ orphaned' = orphaned \cup Homeless(v)

Access(v) == Update(v) /\ UNCHANGED <<txStart, deleted>>
-----------------------------------------------------------------------------
CreateContract(a) == Access(create_contract(ws, a))

SetBalance(a, b) == Access(set_balance(ws, a, b))

AddBalance(a, b) == Access(add_balance(ws, a, b))

SubBalance(a, b) == Access(sub_balance(ws, a, b))

SetNonce(a, n) == Access(set_nonce(ws, a, n))

IncrementNonce(a) == Access(increment_nonce(ws, a))

SetCode(a, c) == Access(set_code(ws, a, c))

SetStorage(a, s, v) == Access(set_storage(ws, a, s, v))

WarmAddressStep(a) == Access(warm_address(ws, a))

WarmSlotStep(a, s) == Access(warm_slot(ws, a, s))

StateRoot == Access(world_state_root(ws))

Snapshot == ws.snapshot_counter < MaxSnapshots /\ Access(snapshot(ws))

RevertToSnapshot(id) == id <= ws.snapshot_counter /\ Access(revert_to_snapshot(ws, id))

CommitSnapshot(id) == id <= ws.snapshot_counter /\ Access(commit_snapshot(ws, id))

DeleteAccount(a) ==
  /\ ws' = delete_account(ws, a)
  /\ deleted' = deleted \cup {a}
  /\ orphaned' = orphaned \ {a}   \* the storage trie goes with the account
  /\ UNCHANGED txStart

BeginTransaction ==
  /\ ws' = begin_transaction(ws)
  /\ txStart' = AllStorage(ws)
  /\ deleted' = {}
  /\ UNCHANGED orphaned

Clear ==
  /\ ws' = world_state_clear(ws)
  /\ txStart' = [a \in Address |-> EmptyStorage]
  /\ deleted' = {}
  /\ orphaned' = {}

Next ==
  \/ \E a \in Address :
       \/ CreateContract(a)
       \/ IncrementNonce(a)
       \/ DeleteAccount(a)
       \/ \E b \in Balance : SetBalance(a, b) \/ AddBalance(a, b) \/ SubBalance(a, b)
       \/ \E n \in Nonce : SetNonce(a, n)
       \/ \E c \in Code : SetCode(a, c)
       \/ \E s \in Slot, v \in Word : SetStorage(a, s, v)
  \/ \E a \in WarmAddress : WarmAddressStep(a) \/ \E s \in Slot : WarmSlotStep(a, s)
  \/ StateRoot
  \/ Snapshot
  \/ \E id \in 1..MaxSnapshots : RevertToSnapshot(id) \/ CommitSnapshot(id)
  \/ BeginTransaction
  \/ Clear

Spec == Init /\ [][Next]_vars
-----------------------------------------------------------------------------
\* EIP-161 and export tracking: the state trie never holds an empty account, and
\* every account it holds is in all_accounts, whatever mix of calls (a state
\* root computed over accounts that became empty included) led here.
AccountsTracked ==
  \A a \in Address : account_exists(ws, a) =>
    ~ account_is_empty(ws.state_trie[a]) /\ a \in ws.all_accounts

\* get_original_storage answers the value a slot had when the transaction began,
\* for every slot of every account that was not deleted in between: the record
\* that set_storage keeps on the first write survives later writes.
OriginalIsTxStart ==
  \A a \in Address \ deleted, s \in Slot : get_original_storage(ws, a, s) = txStart[a][s]

\* Dirty tracking: an account outside dirty_storage, unless its storage was once
\* without an account, carries the root of its current storage trie, so that
\* world_state_root may skip it.
RootIsFresh ==
  \A a \in Address \ (ws.dirty_storage \cup orphaned) :
    account_exists(ws, a) => ws.state_trie[a].storage_root = StorageOf(ws, a)

\* The post-state that world_state_snapshot exports has exactly the accounts that
\* exist, and each, unless its storage was once without an account, with exactly its
\* non-zero slots.
ExportIsComplete ==
  LET out == world_state_snapshot(ws)
  IN  /\ DOMAIN out = {a \in Address : account_exists(ws, a)}
      /\ \A a \in DOMAIN out \ orphaned :
           DOMAIN out[a].storage = {s \in Slot : get_storage(ws, a, s) # 0}

\* What the getters of the interface answer.
AM == INSTANCE AccountMap WITH
        balance <- [a \in Address |-> get_balance(ws, a)],
        nonce <- [a \in Address |-> get_nonce(ws, a)],
        code_hash <- [a \in Address |-> get_code_hash(ws, a)],
        storage <- AllStorage(ws)

\* Seen through its getters, the world state is four plain maps: dropping empty
\* accounts, get-or-create of storage tries, failed additions and subtractions,
\* and the account rewrites of a root computation cannot be observed.
ImplementsAccountMap == AM!Spec
-----------------------------------------------------------------------------
(* What the repository's documentation says and the code does not do. *)

\* docs/world-state.md: "Storage Root: Root hash of the account's storage trie".
\* Once world_state_root has left nothing dirty, every account carries the root
\* of its storage trie.
RootCommitsToStorage ==
  ws.dirty_storage = {} =>
    \A a \in Address : account_exists(ws, a) =>
      ws.state_trie[a].storage_root = StorageOf(ws, a)
=============================================================================
