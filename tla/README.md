# A TLA+ verification of div0

div0 is an implementation of the Ethereum Virtual Machine in C23. It executes
blocks of transactions over an in-memory world state, and its command line tool
`t8n` wraps that as a state transition function: pre-state, environment and
transactions in, receipts and post-state out. The program is sequential: there
are no threads, callbacks or messages, and nothing is persisted. What makes it
hard to get right are long sequences of legal calls over state that is kept in
several copies, failures half way through an operation, resource pools at their
limit, and fixed-width arithmetic.

## 1. The system

| Part | State | Operations that change it | What is hard about it |
|---|---|---|---|
| World state (`src/state`) | state trie, one storage trie per account, code store, warm sets, original values, dirty set, tracking sets for export, snapshot counter | the vtable of `state_access.h`, `world_state_root`, `world_state_clear` | six structures describe one state; empty accounts are dropped; roots are computed lazily from a dirty set |
| Gas schedule (`include/div0/evm/gas*`) | none | pure functions | net metering of SSTORE, refunds that are taken back, 63/64 rule |
| EVM main loop (`src/evm/evm.c`) | frame pool, memory pool, frame stack, current frame, return data, refund counter, logs | one per opcode and frame result | nested calls, three return paths, pools at their limit, termination |
| CALL family (`call_op.c`, `opcodes/call.c`) | gas of caller and callee, balances, warm set | CALL, STATICCALL, DELEGATECALL, CALLCODE | gas split in unsigned arithmetic, static context, value moved before the callee exists |
| Storage, account and log opcodes | storage, warm sets, refund counter, logs | SLOAD, SSTORE, BALANCE, EXTCODE*, LOGn | state is touched before the gas is checked |
| Block executor (`src/executor`) | cumulative gas, receipts, rejections, world state | validate, prepay, run, settle, finish | order of prepayment, nonce, value, creation; wrap-around of fees |
| Operand stack, EVM memory, control flow | per frame | PUSH, DUP, SWAP, MLOAD, MSTORE, JUMP... | growth, limits, 64-bit edge of offsets |
| Arena (`include/div0/mem/arena.h`) | chain of blocks | alloc, realloc, reset | block reuse, alignment, large blocks |
| Merkle Patricia trie (`src/trie`) | node graph | insert, delete, get, root | splitting and collapsing of nodes |
| 256-bit integers (`src/types`) | none | pure functions | carries, digit estimates of division, signs |
| RLP (`src/rlp`), transactions (`src/ethereum`) | output and item buffers, open lists | one per encoder call; decoders are functions | buffers that never grow, boundaries of prefixes, five hand-written field lists in three places |
| JSON and hex (`src/json`, `src/util`, `src/t8n`) | none | parsers and writers | results that nobody looks at |
| t8n (`src/cli/t8n`) | context of acquired resources, pre-state, result, output files | one per step of `cmd_t8n`, each of which may fail | release on a dozen exits, order of reward, root and export |

The block executor drives the EVM, the EVM drives the world state through the
state access interface, and the world state keeps its accounts in tries whose
nodes live in an arena. t8n reads the pre-state and the transactions from JSON,
has the block executor run them and writes the result and the post-state, which
may be the pre-state of the next run. Transactions are also encoded in RLP, in
buffers in the arena, to recover their senders and to hash them.

## 2. Modules

| Module | Models | Used by |
|---|---|---|
| `WorldState` | `world_state.c`, `account.c` as a record `w` and one operator per function | all below |
| `StateAccess` | the state interface: one action per vtable entry that changes state | `MCStateAccess` |
| `AccountMap` | what the interface promises to a client that sees only getters: four total maps | refined by `StateAccess` |
| `GasSchedule` | dynamic gas prices and refunds | `StorageMetering`, `CallFrames` |
| `StorageMetering` | SLOAD and SSTORE over a block, with per-slot accounts of gas and refunds | `MCStorageMetering` |
| `CallFrames` | main loop, frame results, CALL family, pools, opcodes that touch the world state | `MCCallFrames` |
| `EvmRun` | what the executor relies on when it calls the EVM | refined by `CallFrames`, assumed by `BlockExecutor` |
| `BlockExecutor` | `block_executor_run`, `execute_transaction`, `block_executor_validate_tx` | `T8n`, `MCBlockExecutor` |
| `T8n` | `cmd_t8n`: inputs, pre-state, block, reward, outputs, all its exits; `alloc.c` | `MCT8n` |
| `Arena` | `arena.h`: blocks, offsets, large blocks, reset | `TxEncoding`, `TxDecoding` |
| `Rlp` | item encoders and decoders of `src/rlp` | `TxEncoding`, `TxDecoding` |
| `TxEncoding` | encoders of the five transaction types, signing preimages, the `v` of a signature | `TxCodec` |
| `TxDecoding` | decoders of the five types | `TxJson` |
| `TxJson` | `txs.c` and `hex.c`: transactions read from and written to JSON | `TxCodec` |
| `TxCodec` | `bytes.c` and the list builder: encoders running call by call in arena memory; decoding and parsing of what they wrote | `MCTxCodec` |
| `Interpreter` | `execute_frame`: one frame running a byte program; stack, jumps, memory and gas | `MCInterpreter` |
| `EvmMemory` | `memory.c`: size, capacity and price of a frame's memory in `size_t` arithmetic | `Interpreter` |
| `Words` | what the arithmetic, comparison and bitwise instructions compute, as integers | `Interpreter`, `Uint256` |
| `Uint256` | `uint256.c`: the same on four limbs | `MCUint256` |
| `Mpt` | `src/trie`: nodes, references, insertion, deletion, lookup, root hash | `MCMpt` |
| `TrieMap` | what the trie promises: a map | refined by `Mpt` |
| `WorldStateProofs` | lemmas: every operator of `WorldState` keeps a world state well formed | `StateAccessSteps`, `CallFramesProofs`, `StorageMeteringProofs`, `BlockExecutorProofs` |
| `StateAccessSteps` | the inductive invariant of `StateAccess`; every operation preserves it | `StateAccessProofs` |
| `StateAccessProofs` | the invariants of `StateAccess`, proved | `StateAccessRefinement` |
| `StateAccessRefinement` | the refinement of `AccountMap`, proved | |
| `StorageMeteringProofs` | the net price of a slot, proved | |
| `CallFramesProofs` | pool discipline, gas and static context of `CallFrames`, proved | |
| `BlockExecutorProofs` | order, nonces, payments and state root of a block, proved | |
| `ArenaProofs` | the inductive invariant of `Arena` and its theorem | |

**World state.** The record has the fields of `world_state_t`. A trie is the map
it stores and a hash or root is the value that was hashed, so that two roots are
equal exactly when the tries are. `map_insert` models the hash map's insert,
which keeps an entry that is already there. `set_account` is the whole of
`world_state_set_account`, the dropping of empty accounts and the tracking sets
included. `world_state_root` folds the loop over the dirty set into one update;
the iterations touch different addresses.

**Frame machine.** One step is one opcode of the current frame together with
what the main loop does with its result. Programs are not modelled: at each step
the frame may execute any opcode with any operands or fail. The operand stack and
memory contents are left out; what memory expansion costs is any member of
`MemoryCost`. `evm_memory_expand` doubles the capacity before any gas is asked for, and
for a size above half of the range of `size_t` that loop does not end: the step
`EndlessExpansion`, after which `looping` holds and nothing more happens. Frames and memories are indices into their pools. `grant` is a
history variable that records the gas each frame started with. Two branches of
the code cannot be reached and are therefore not actions: the call from a frame
of depth `MAX_CALL_DEPTH` and the bounds check of the frame stack. That they
cannot be reached follows from `PoolsAgree`.

**Block executor.** Validation with everything up to the call of the EVM is one
step (`Start`), settlement is another; in between the EVM may move ether and
write storage any number of times, which is what `EvmRun` allows. The block is not
fixed in advance. Amounts are words that wrap around at `MaxBalance`. `issued` and
`exact` are history: the ether there was at the start, and whether no amount has
wrapped around.

**t8n.** One action per step of `cmd_t8n`; each has its failing alternatives, with
the exit code of the code. `ctx` is what `t8n_context_t` records, `owned` (history)
what the process has really acquired. The actions of `BlockExecutor` run as the step
`Execute`. A document of accounts maps addresses to records of optional fields;
parsing fills in the defaults and writing leaves out what the code leaves out. The
writers ignore the results of `json_obj_add` and `json_arr_append`, so a document may
also be written without the parts that found no memory (`Written`, `Incomplete`).
`owned` has what outlives a step; the JSON writers and the documents of single files
are acquired and freed within one.
`irregular` (history) collects addresses whose storage outlived the account and
those where a contract was created over code.

**Arena.** A block is an offset and the place malloc gave it, which decides how
large an alignment gap is. `live` (history) holds the regions handed out since the
last reset. malloc may fail at any new block. `div0_arena_realloc` is an allocation
and a copy; `div0_arena_destroy` ends the arena.

**Transactions.** Bytes are real, in a scaled alphabet: a byte has 16 values and the
prefix ranges of RLP shrink with it, in the same order and with long forms. An
encoder is straight-line code and is given as the list of calls it makes; `TxCodec`
executes them one at a time. Other users of the arena act before and after an encoder,
not while it runs: it is one call of a single thread. The results
of its calls, which the code ignores, are remembered in `failed`. When the placeholder
of a list header found no room, `rlp_list_end` writes the header past the capacity; C
does not define what follows, and in the model the process stops (`crashed`) or goes on
with the buffer as it is. Decoders and
parsers are operators with the position and the error of the code;
an endless loop is the error `NO_RETURN`, a write through a null pointer the status
`crashed`. The decoders get two outcomes of the arena: whether the allocations whose
failure they report succeed (`alloc_ok`), and which pushes to the vectors of access
lists, keys and authorizations are dropped (`lost`, any subset); these vectors grow in
the arena too, and the code does not look at the result of a push. A JSON value is a tree; strings are sequences of digits.

**Interpreter.** What `CallFrames` abstracts from, without the calls: a program is
a sequence of bytes, an opcode is what the dispatch table makes of a byte, and
one step is one instruction. Results of arithmetic are computed, words read from
memory, call data or the environment are any of `LoadedWord`. Widths are scaled
but keep their order: a word is wider than `size_t`, which is wider than what can
be allocated. `paid` and `touched` are history variables. A frame ends as
`stopped` or `error`; three things the C code does are kept apart from these. The
memory expansion whose rounded size wraps around to zero leaves an access whose
effect C does not define (`undefined`). Doubling the capacity does not end when
the size is above the largest power of two of a `size_t` (`looping`). DUP checks
the depth limit and does not grow the allocation, so what it writes past the
allocation may later be read as any word. The properties say nothing of what
follows an `undefined` or `looping` access, and `FrameEnds` counts instructions,
not the time that one of them takes.

**256-bit integers.** The algorithms limb by limb, with carries, borrows, shifts
and the digit loop of division, at a limb width that is a constant. The constant
is 64 in the code; `reciprocal_2by1` approximates in steps made for 64 bits and is
modelled by the result its comment promises. The state machine is a calculator: it
takes operands and does one operation.

**Trie.** A node is the tree below it. A reference to a child keeps the encoding
the child had when the reference was made, and a node its cached hash, so both can
be stale as in the code. A hash is its preimage. The paths and hex-prefix bytes
are real, with nibbles of base 4.

Operators named `..._Mutant` are plausible mistakes in the definition that
follows them. No specification uses them; each breaks one of the properties.

## 3. What is checked

Runs that pass:

| Run | Configuration | Properties |
|---|---|---|
| `state_access` | one address, one slot with three values, two codes, nonces to 2, one snapshot | `TypeOK`, `AccountsTracked`, `OriginalIsTxStart`, `RootIsFresh`, `ExportIsComplete`, `ImplementsAccountMap` |
| `storage_metering` | one contract, two slots, three values, four operations per slot, the prices of `gas.h` | `NetMetering`, `RefundIsExact` |
| `call_frames` | two contracts, pool of three frames, gas 6 with prices scaled down, divisor 4 for 64 | `PoolsAgree`, `GasIsConserved`, `StaticIsReadOnly`, `ImplementsEvmRun`, `GasBurnsDown`, `Terminates` |
| `t8n` | five pre-states over three addresses, blocks of up to two transactions, words to 7, rewards off, 0 and 2 | of the executor: `GasAccounted`, `EachTransactionOnce`, `NoReplay`, `EtherAccounted`, `PaymentsSucceed`, `RootCoversStorage`; of the command: `NothingLeaks`, `ExitTellsOutcome`, `ReloadsToReportedRoot` |
| `codec` | 16 transactions of the five types, bytes of base 16, an arena of two blocks, raw inputs of up to 6 bytes | `ArenaSafe`, `RoundTrip`, `IncompleteIsRejected`, `SenderIsSigner`, `ItemsAreCanonical` |
| `mpt` | six keys: empty, prefixes of each other, sharing one or three nibbles, apart; an empty and another value | `ImplementsTrieMap`, `RootIsCanonical`, `RootCommitsToEntries`, `TypeOK` |
| `interpreter` | programs made of a few bytes, words of 12 bits, sizes of 6, stack of four items, gas 3 or 40 | `OnInstruction`, `MemoryIsPaidFor`, `FrameEnds`, `TypeOK` |
| `uint256` | limbs of 6 bits; 256 words by 29 words at the edges of limbs and word, moduli from the 29 | `DivisionIsExact`, `SignedIsExact`, `ModularIsExact`, `ArithmeticIsExact` |

- `ImplementsAccountMap`: through its getters the world state is four plain maps;
  dropping empty accounts and computing roots cannot be observed.
- `OriginalIsTxStart`: the original value of a slot is the one at the start of the
  transaction, for accounts not deleted in it.
- `RootIsFresh`, `ExportIsComplete`: lazily maintained copies are up to date where
  the code relies on them, except for addresses in `orphaned`, whose storage was
  once without an account.
- `NetMetering`: what a transaction pays for a slot depends only on the values it
  started and ended with; `RefundIsExact`: the clamp of the refund counter never
  clamps.
- `PoolsAgree`, `GasIsConserved`, `StaticIsReadOnly`: pool discipline, no gas out of
  nothing, nothing written below a STATICCALL.
- `ImplementsEvmRun`: however calls nest and fail, the EVM moves ether between
  accounts, creates and destroys none, and reports a `gas_used` within its gas.
- `GasBurnsDown`, `Terminates`: the measure that bounds execution, and termination.
  Excepted is a transaction with an opcode that does not return (`looping`).
- `EtherAccounted`: balances, the prepaid gas and the burned base fees add up to
  what the pre-state held and the reward added, as long as nothing wraps around
  (`exact`).
- `PaymentsSucceed`: the "should not happen" branch does not happen.
- `ImplementsTrieMap`, `RootIsCanonical`, `RootCommitsToEntries`: the trie is a map,
  its root depends on its entries and not on how they got there, and whoever has
  only the encodings below the root finds the current value of every key.
- `OnInstruction`: no sequence of jumps makes the loop fetch an opcode out of the
  data of a PUSH. `MemoryIsPaidFor`: whatever instructions grew the memory, the sum
  paid is the price of the highest byte accessed. `FrameEnds`: the loop dispatches
  finitely many instructions.
- `NothingLeaks`, `ExitTellsOutcome`: whichever step fails, everything acquired is
  released, and the exit code tells whether both documents were written to their ends.
  It does not tell whether they lack parts that the writers had no memory for.
- `ReloadsToReportedRoot`: runs of t8n can be chained. A written post-state, loaded
  again, gives the accounts of the reported root, the coinbase's with the reward,
  which is credited after the root is taken. Excepted are the addresses in
  `irregular` and documents that lack parts.
- `ArenaSafe`: what callers of the arena hold never overlaps and never leaves its
  block, although a block taken up again is entered without looking at it.
- `RoundTrip`: encoder and decoder agree with each other and with the encoding of
  the EIPs when no call failed; so do the JSON writer and parser, also under the
  other names of a key, and a missing or broken key disturbs only its own field.
  List elements whose push was dropped are missing in what the decoder returns, and
  nothing else is.
  Data larger than an arena block is excepted: the JSON parser leaves it out.
- `IncompleteIsRejected`: which truncated encodings and broken JSON objects are
  rejected, and that no transaction is accepted without its recipient, data or blob
  hashes for lack of memory. A prefix that ends within the blob hashes is not rejected:
  `decode_blob_hashes` does not return, and the property says exactly when. Nor is a
  transaction that lost list elements.
- `SenderIsSigner`: the sender is recovered from the message that was signed, with
  the parity that `v` means, and that message determines all that was signed.
- `ItemsAreCanonical`: the item decoders accept the canonical encodings and, besides
  the zero byte for the integer zero, no others.
- `DivisionIsExact`, `SignedIsExact`, `ModularIsExact`, `ArithmeticIsExact`: the limb
  algorithms agree with the integers, on the operands of the run.

Bounds. Every bound is a constant: `MaxSnapshots`, `MaxOps`, `MaxTransactions`,
`MaxTxs`, `MaxBlocks`, `MaxOthers`, `MaxInput`, and the sizes of words. Words of two to eight values are enough for
zero, non-zero, changed, restored and overflow to occur; a pool of three frames
has a first, a middle and a last one; gas 6 at the scaled prices reaches the
deepest frame, and 7, in `rent_has_room`, with a value transfer on the way. The gas a
call asks for is 2, which it may have, or 8, which is cut to 63/64; a plain opcode costs
nothing or 1. Every subset of the pushes of a transaction is lost in `codec`; the decoder
runs in an arena of its own, of which `alloc_ok` and `lost` say all that matters.
The six keys of the trie make it split and merge leaves, extensions and branches
with and without a value. With limbs of 6 bits and words whose limbs are 0, 1,
half and full, the division meets the rare case of a digit that is too large after
its refinement (without the step that adds the divisor back, `DivisionIsExact`
fails). The pre-states of `t8n` are a single sender, two senders with a contract
that has storage, code at the address a creation takes, storage without an account,
and an account without fields, so that every exception named above occurs. Of the
transactions of `codec`, some do not fit their buffer and one has data that does not fit a block;
every integer form of RLP (zero, single byte, longer), short and long strings and
lists, empty lists and lists of two occur. Raw inputs of 6 bytes hold a long item
with its length bytes. Prices are only scaled within
`GasAssumption`, which lists what about them matters. The slots of
`storage_metering` are interchangeable, and the check uses that symmetry.
Deadlock is not reported where a system may stop: the frame machine after its last
transaction, a frame that halted, the t8n process after its exit, the calculator of
`Uint256` after its operation.

Fairness. `FairSpec` of `CallFrames` asks that the main loop keeps executing opcodes while a
transaction runs (weak fairness of `Step`). The loop is a `while (true)` in a
single thread that only a return leaves, or an opcode that does not return
(`EndlessExpansion`), so the code guarantees this; `FairSpec` of
`Interpreter` asks the same of the dispatch loop within a frame. ADD and the opcodes of
`block.h` charge no gas and are stuttering steps of `CallFrames` (`PlainOp(0)`), which
fairness of `Step` does not count; only JUMP and JUMPI, which do charge
gas, go backwards in finite code, so a frame takes finitely many such steps in
a row. `FrameEnds` checks that argument on programs with ADD and jumps.

Runs that show a disagreement between what the repository says and what the code
does, each with one property:

| Run | Says | Does |
|---|---|---|
| `root_commits_to_storage` | `docs/world-state.md`: the storage root is the "Root hash of the account's storage trie" | an account that was dropped as empty and is created again carries the empty root, while its storage trie is still there and is not marked dirty |
| `rent_has_room` | `call_frame_pool.h`: `assert(pool->depth < EVM_MAX_CALL_DEPTH)` | the frame at the last depth passes the depth check and rents from an exhausted pool |
| `created_with_nonce_one` | `block_executor.c`: "Create contract account with nonce=1 (EIP-161)" | the value is moved first, which creates the account with nonce 0 |
| `encoded_whole_or_empty` | `transaction/rlp.h`: "Encoded bytes (empty on failure)" | the encoders reserve a fixed size, an arena buffer never grows and the results of the appends are dropped: a transaction that does not fit is encoded without the items that found no room, in the trace the `s` of its signature |

Within one block the first of these does not show: `RootCoversStorage` holds,
because the dirty set is only cleared by the one root computation at the end.

That a failing frame or transaction reverts is not claimed: snapshots are stubs, and
`world_state.c` says so ("Snapshot/revert is not yet implemented"). The models keep
what a failing transaction did, as the code does.

Other places where the models needed a condition that the documentation does not
mention, visible in the statements of the passing properties: originals of
deleted accounts (`OriginalIsTxStart`), the fee product and the priority price
that wrap around (`exact` in `EtherAccounted`), the saturated nonce
(`MaxNonce - 1` in `NoReplay`), and the code store, which keeps the first code of
an address while the code hash follows the last.

Smaller observations made while modelling. A top-level STOP reports the return
data of the last inner call as its output (`op_stop` of `CallFrames`). ADD is
inlined in the dispatch loop and charges no gas, although the gas table has a price
for it. The block instructions have no entry in the gas table and cost nothing,
while the comments of `block.h` give them 2 to 20. The second overflow test of
`uint256_addmod` never succeeds: its terms are at most 2^256 - n and n - 1. When
merging an extension fails for lack of memory, `mpt_delete` reports that the key
was not there although the entry below is gone. A transaction whose sender cannot
be recovered is executed with the zero address, where a comment says that it will
be rejected. Without a base fee in the environment the block is executed with 0
and reported with 7. Results of the number parsers of JSON transactions are ignored:
a malformed number is the part before the wrong character. The position after a
long RLP item is a sum that may wrap around. A transaction whose access list or
authorizations lost an element for lack of memory is decoded with `TX_DECODE_OK`. A
comment of `rlp_list_end` says that the placeholder is there "by construction"; it is
not when the append of `rlp_list_start` found no room. The arrays of transactions
and receipts of a block must each fit one arena block, and some are used without a
test.

## 4. What is proved

For all sets of addresses, slots and codes and all word sizes, from
`WorldStateAssumption` (widths are naturals, the empty code is a code, `None` is
not a value) and `StateAccessAssumption`:

| Theorem | Statement |
|---|---|
| `TypeCorrect` | `Spec => []TypeOK` |
| `Tracking` | `Spec => []AccountsTracked` |
| `OriginalValues` | `Spec => []OriginalIsTxStart` |
| `FreshRoots` | `Spec => []RootIsFresh` |
| `CompleteExport` | `Spec => []ExportIsComplete` |
| `Refinement` | `Spec => ImplementsAccountMap` |

The inductive invariant `IInv` is the conjunction of the first four with
`Bookkeeping`. `RootIsFresh` needs it because `world_state_root` skips a dirty
account without a storage trie, so such an account must already carry the empty
root; `ExportIsComplete` needs it because the export enumerates
`all_storage_slots`, so every non-zero slot must be in that set, unless the
address is in `orphaned`. The proof goes by kinds of step: writing an account that
keeps its storage root (`AccountWriteStep`, which covers eight of the calls),
leaving accounts alone (`SameAccountsStep`), and one lemma each for writing a slot,
computing the root, deleting, beginning a transaction and clearing. `Refinement`
uses the same kinds: `AccountWriteView` says that writing an account, also one
that is dropped, changes the getters at one address only.

The run of these properties has one address; that accounts do not interfere with
each other is what the theorems add.

`ArenaIsSafe`, `ArenaSpec => []ArenaSafe`, holds for every block size, alignment,
placement by malloc and number of blocks, from `ArenaAssumption`: a request that
fits a block at all fits an empty one also behind its alignment gap. The code relies
on that without testing it, and its callers satisfy it, since only trie nodes ask for
more than malloc's own alignment. `ArenaSafe` is not inductive: nothing in it keeps
the room behind an offset free. `ArenaInv` adds that a live region ends at or before
the offset of its block and is in no block after the current one, so that entering
the next block by overwriting its offset disturbs nobody. One lemma per operation
shows that it is preserved; `BumpSafe` is the common core.

About the EVM and the block executor, for all sets of accounts and slots, all word
sizes, prices and bounds, from `WorldStateAssumption`, `GasAssumption` (what about the
prices matters), `CallFramesAssumption` and `BlockExecutorAssumption` (constants have
their types, `None` is not a value):

| Theorem | Module | Statement |
|---|---|---|
| `PoolDiscipline` | `CallFramesProofs` | `Spec => []PoolsAgree` |
| `GasConservation` | `CallFramesProofs` | `Spec => []GasIsConserved` |
| `StaticContext` | `CallFramesProofs` | `Spec => StaticIsReadOnly` |
| `NetPrice` | `StorageMeteringProofs` | `Spec => []NetMetering` |
| `BlockOrder` | `BlockExecutorProofs` | `Spec => []EachTransactionOnce` |
| `NoncesUsedOnce` | `BlockExecutorProofs` | `Spec => []NoReplay` |
| `ValidationSuffices` | `BlockExecutorProofs` | `Spec => []PaymentsSucceed` |
| `BlockRoot` | `BlockExecutorProofs` | `Spec => []RootCoversStorage` |

*Call frames.* `IInv` is `PoolsAgree` and `GasIsConserved`, which need each other (which
frame is the parent decides which gas is given back), with the types and `StaticBelow`:
below a static frame all frames are static. `StaticIsReadOnly` needs the last: it speaks
of any frame on the stack, and the opcodes look only at the flag of the current one. Each
way a step can end has a lemma (`ContinueStep`, `ReturnStep`, `FinishStep`,
`FrameErrorStep`, `EnterStep`), so the opcodes reduce to their cost. `ChildGasBounds` and
`CallGas` carry the arithmetic: what the caller keeps and what the callee gets, the
stipend included, are within what the caller had.

*Storage.* `StoreMovesPotential` says that a store costs, net of its refund, a warm read
and the difference of a potential of the slot before and after it. The sum over a
transaction then telescopes. The invariant adds `ColdIsUnpaid`: a slot that is not warm
has paid no surcharge, so the surcharge is paid once.

*Block executor.* `BlockInv` adds two facts. `Behind`: the entries of both result arrays
belong to transactions that the loop has left behind, so appending keeps the order.
`NoncesPassed`: the nonce of a sender is past those of its receipts. It rests on
`Onward`: no operation of the executor or the EVM lowers a nonce, also when it drops an
empty account or creates it again, since an account that is dropped has nonce zero.
`PaymentsSucceed` needs only the types: a total that passes both tests of validation
cannot have wrapped around. `RootCoversStorage` rests on `Rooted`, which all those operations
keep: until the root is computed, the dirty accounts are exactly those with a storage
trie, and the others carry the empty root. `BlockExecutor` starts from one account without
storage; the pre-states with storage are those of the run `t8n`.

Only model-checked:

- sums over accounts, slots or receipts (`EtherAccounted`, `RefundIsExact`, the blob gas of
  `GasAccounted`, the ether of `ImplementsEvmRun`, `GasBurnsDown`): what a sum does when
  one term changes is an induction over data;
- `Terminates` and `FrameEnds`, which are liveness under fairness;
- `Mpt`, `Uint256` and the encodings, which are recursive over data;
- everything about `T8n`, `TxCodec` and `Interpreter`.

## 5. Not modelled

Could be added: proofs of `NothingLeaks` of `T8n` and of `OnInstruction` and `MemoryIsPaidFor` of `Interpreter`; a trie whose node
allocations fail.

Left out:

- env.json beyond whether it parses: its contents are constants of the block
  executor. Options of the command line that change no step.
- The text of JSON (the library yyjson), keccak256 and the arithmetic of secp256k1
  (external; a hash stands for its preimage).
- When exactly a vector of list elements fails to grow (external; any push may be lost).
- The stack pool: stacks are rented and returned with the frames, in the order of
  the memory pool, which is modelled.
- The contents of memory, logs and return data; the words that environment and block
  instructions push.
- The crash handler, which prints a backtrace (pure output).
