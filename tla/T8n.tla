-------------------------------- MODULE T8n --------------------------------
(***************************************************************************)
(* The t8n command (cmd_t8n of src/cli/t8n/t8n_command.c) around the block *)
(* executor: it acquires what it needs step by step, loads the pre-state,  *)
(* executes the block, credits the block reward, and writes the result and *)
(* the post-state.  Every step may fail, and a failed step ends the        *)
(* process with an exit code after t8n_context_cleanup.                    *)
(*                                                                         *)
(* An option of the command line is chosen where it is read.  A document   *)
(* of accounts (alloc.json) is a map from addresses to records of optional *)
(* fields; of env.json and txs.json only whether they parse is kept here,  *)
(* their contents are constants of the block executor.                     *)
(*                                                                         *)
(* History variables: owned is what the process has allocated and not yet  *)
(* released; irregular holds the addresses whose storage has outlived their*)
(* account, and those where a contract was created over existing code      *)
(* (set_code then keeps the old code under the new hash).                  *)
(***************************************************************************)
EXTENDS BlockExecutor, FiniteSets

LOCAL INSTANCE Functions

LOCAL INSTANCE FiniteSetsExt

CONSTANTS Allocs,            \* the alloc documents the command may be given
          Rewards,           \* values of --state.reward; -1 disables it
          has_base_fee,      \* env.json has currentBaseFee
          DEFAULT_BASE_FEE,  \* reported when it has not
          blob_fields,       \* fork >= FORK_CANCUN and env.json has the excess blob gas
          Damaged,           \* a file whose writing failed
          Incomplete         \* a document that was written without some of its parts

\* A field of a document that is absent is None.
JsonAccount ==
  [balance : Balance \cup {None}, nonce : Nonce \cup {None}, code : Code \cup {None},
   storage : UNION {[S -> Word] : S \in SUBSET Slot} \cup {None}]

ASSUME T8nAssumption ==
  /\ \A json \in Allocs : DOMAIN json \subseteq Address /\ \A a \in DOMAIN json : json[a] \in JsonAccount
  /\ Rewards \subseteq Int
  /\ has_base_fee \/ base_fee = 0

VARIABLES stage,      \* the step that cmd_t8n takes next
          ctx,        \* what t8n_context_t records for the cleanup
          owned,
          pre_state,  \* the parsed alloc document
          reward,     \* --state.reward, None until it is read
          result,     \* t8n_result, None until it is built
          files,      \* what has been written: the result and the alloc
          exit,       \* the exit code, None while the process runs
          irregular

t8n_vars == <<stage, ctx, owned, pre_state, reward, result, files, exit, irregular>>

ExitCode == {"SUCCESS", "GENERAL_ERROR", "CONFIG_ERROR", "IO_ERROR", "JSON_ERROR", "EVM_ERROR"}
-----------------------------------------------------------------------------
\* The alloc document

Field(x, default) == IF x = None THEN default ELSE x

NonZero(f) == Restrict(f, {s \in DOMAIN f : f[s] # 0})

\* t8n_parse_alloc_value fails when an account lacks its balance.
AllocParses(json) == \A a \in DOMAIN json : json[a].balance # None

t8n_parse_alloc_value(json) ==
  [a \in DOMAIN json |->
     [balance |-> json[a].balance,
      nonce   |-> Field(json[a].nonce, 0),
      code    |-> Field(json[a].code, EmptyCode),
      storage |-> NonZero(Field(json[a].storage, <<>>))]]

t8n_write_alloc_account_Mutant(acc) ==
  [balance |-> acc.balance,
   nonce   |-> IF acc.nonce > 1 THEN acc.nonce ELSE None,
   code    |-> IF acc.code # EmptyCode THEN acc.code ELSE None,
   storage |-> IF DOMAIN acc.storage # {} THEN NonZero(acc.storage) ELSE None]

t8n_write_alloc_account(acc) ==
  [balance |-> acc.balance,
   nonce   |-> IF acc.nonce # 0 THEN acc.nonce ELSE None,
   code    |-> IF acc.code # EmptyCode THEN acc.code ELSE None,
   storage |-> IF DOMAIN acc.storage # {} THEN NonZero(acc.storage) ELSE None]

t8n_write_alloc(snap) == [a \in DOMAIN snap |-> t8n_write_alloc_account(snap[a])]

\* The calls that build one account; later calls see what earlier ones did.
BuildAccount(w, a, acc) ==
  LET balanced == set_balance(w, a, acc.balance)
      counted == IF acc.nonce > 0 THEN set_nonce(balanced, a, acc.nonce) ELSE balanced
      coded == IF acc.code # EmptyCode THEN set_code(counted, a, acc.code) ELSE counted
  IN  FoldSet(LAMBDA s, v : set_storage(v, a, s, acc.storage[s]), coded, DOMAIN acc.storage)

build_state_from_snapshot(w, snap) ==
  FoldSet(LAMBDA a, v : BuildAccount(v, a, snap[a]), w, DOMAIN snap)
-----------------------------------------------------------------------------
\* The end of the process: what it held in memory is gone.

Gone ==
  /\ ws' = world_state_create
  /\ index' = 0 /\ current' = None
  /\ receipts' = <<>> /\ rejected' = <<>>
  /\ cumulative_gas' = 0 /\ blob_gas_used' = 0
  /\ root' = None
  /\ issued' = 0 /\ exact' = TRUE
  /\ pre_state' = None /\ result' = None

Return(code) ==
  /\ exit' = code /\ stage' = "end"
  /\ Gone
  /\ UNCHANGED <<reward, irregular>>

t8n_context_cleanup_Mutant ==
  /\ owned' = owned \ (IF "stdin_doc" \in ctx THEN ctx \ {"stdin_buffer"} ELSE ctx)
  /\ ctx' = {}

\* Releases whatever the context records.
t8n_context_cleanup ==
  /\ owned' = owned \ ctx
  /\ ctx' = {}

\* Clean up, then return.
Leave(code) == t8n_context_cleanup /\ Return(code)

Abort(code) == Leave(code) /\ UNCHANGED files

Record(r) == owned' = owned \cup {r} /\ ctx' = ctx \cup {r}

\* A step that only acquires r and goes on.
Acquire(r, next) ==
  /\ Record(r)
  /\ stage' = next
  /\ UNCHANGED <<pre_state, reward, result, files, exit, irregular, vars>>

\* The addresses whose slots a step from w to v ceases to track although they hold
\* values: their account was dropped as empty and their storage outlives it.
Outlived(w, v) ==
  {a \in Address : \E s \in Slot : /\ <<a, s>> \in w.all_storage_slots \ v.all_storage_slots
                                  /\ get_storage(v, a, s) # 0}

\* The address of a creation that found code there.
Overwritten(w, c) ==
  IF c # None /\ is_create(c.tx) /\ get_code(w, c.recipient) # EmptyCode THEN {c.recipient} ELSE {}
-----------------------------------------------------------------------------
T8nInit ==
  /\ stage = "fork" /\ ctx = {} /\ owned = {}
  /\ pre_state = None /\ reward = None /\ result = None
  /\ files = [result |-> None, alloc |-> None]
  /\ exit = None
  /\ irregular = {}
  /\ ws = world_state_create
  /\ index = 0 /\ current = None
  /\ receipts = <<>> /\ rejected = <<>>
  /\ cumulative_gas = 0 /\ blob_gas_used = 0
  /\ root = None
  /\ issued = 0 /\ exact = TRUE

\* parse_fork, then the arena; neither failure has anything to release.
InitArena ==
  /\ stage = "fork"
  /\ \/ /\ \E code \in {"CONFIG_ERROR", "GENERAL_ERROR"} : Return(code)
        /\ UNCHANGED <<ctx, owned, files>>
     \/ Acquire("arena", "inputs")

\* All three documents in one stream on stdin.
ReadStdin ==
  /\ stage = "inputs"
  /\ Abort("IO_ERROR") \/ Acquire("stdin_buffer", "stdin")

ParseStdin ==
  /\ stage = "stdin"
  /\ Abort("JSON_ERROR") \/ Acquire("stdin_doc", "stdin_parsed")

\* The three documents are parsed, from the stream or each from a file that its
\* parser closes.
LoadInputs(json) ==
  /\ stage \in {"inputs", "stdin_parsed"}
  /\ AllocParses(json)
  /\ pre_state' = t8n_parse_alloc_value(json)
  /\ stage' = "state"
  /\ UNCHANGED <<ctx, owned, reward, result, files, exit, irregular, vars>>

\* Any of the documents is missing or malformed.
LoadFails ==
  /\ stage \in {"inputs", "stdin_parsed"}
  /\ Abort("JSON_ERROR")

BuildState ==
  /\ stage = "state"
  /\ \/ Abort("GENERAL_ERROR")
     \/ /\ Record("ws")
        /\ ws' = build_state_from_snapshot(world_state_create, pre_state)
        /\ issued' = SumFunction([a \in DOMAIN pre_state |-> pre_state[a].balance])
        /\ pre_state' = None
        /\ stage' = "evm"
        /\ UNCHANGED <<index, current, receipts, rejected, cumulative_gas, blob_gas_used, root,
                       exact, reward, result, files, exit, irregular>>

\* The EVM lives in the arena; the signature context is an allocation of its own.
CreateContexts ==
  /\ stage = "evm"
  /\ Abort("GENERAL_ERROR") \/ Acquire("secp_ctx", "execute")

Execute ==
  /\ stage = "execute"
  /\ Next
  /\ irregular' = irregular \cup Outlived(ws, ws') \cup Overwritten(ws', current')
  /\ UNCHANGED <<stage, ctx, owned, pre_state, reward, result, files, exit>>

\* block_executor_run cannot allocate its arrays.
ExecuteFails ==
  /\ stage = "execute" /\ index = 0 /\ root = None
  /\ Abort("EVM_ERROR")

\* The block reward, credited to the coinbase with wrap-around.
Rewarded(w, amount) ==
  IF amount >= 0 THEN set_balance(w, coinbase, uint256_add(get_balance(w, coinbase), amount)) ELSE w

\* What is reported of the block.
t8n_result ==
  [state_root |-> root,
   gas_used |-> cumulative_gas,
   receipts |-> [i \in 1..Len(receipts) |->
                   [transaction_index |-> i - 1, gas_used |-> receipts[i].gas_used,
                    cumulative_gas |-> receipts[i].cumulative_gas, status |-> receipts[i].success]],
   rejected |-> rejected,
   current_base_fee |-> IF has_base_fee THEN base_fee ELSE DEFAULT_BASE_FEE,
   blob_gas_used |-> IF blob_fields THEN blob_gas_used ELSE None]

\* After the block: the reward, then the result.
BuildResult(amount) ==
  /\ stage = "execute" /\ root # None
  /\ reward' = amount
  /\ ws' = Rewarded(ws, amount)
  /\ issued' = issued + (IF amount > 0 THEN amount ELSE 0)
  /\ exact' = (exact /\ get_balance(ws, coinbase) + amount <= MaxBalance)
  /\ result' = t8n_result
  /\ stage' = "outputs"
  /\ UNCHANGED <<index, current, receipts, rejected, cumulative_gas, blob_gas_used, root,
                 ctx, owned, pre_state, files, exit, irregular>>
-----------------------------------------------------------------------------
\* Outputs

PostState == t8n_write_alloc(world_state_snapshot(ws))

\* What becomes of a document: the results of json_obj_add and json_arr_append are ignored,
\* so a field, an entry or, on stdout, a whole member that found no memory is left out and
\* the writing goes on.
Written(doc) == {doc, Incomplete}

\* Both documents in one stream on stdout.
write_combined_stdout ==
  /\ stage = "outputs"
  /\ \/ \E code \in {"GENERAL_ERROR", "JSON_ERROR"} : Abort(code)
     \/ Leave("IO_ERROR") /\ files' = [result |-> Damaged, alloc |-> Damaged]
     \/ /\ Leave("SUCCESS")
        /\ \E r \in Written(result), d \in Written(PostState) : files' = [result |-> r, alloc |-> d]

write_result_output_Mutant ==
  /\ stage = "outputs"
  /\ \/ \E code \in {"JSON_ERROR", "CONFIG_ERROR"} : Abort(code)
     \/ /\ \E r \in Written(result) \cup {Damaged} : files' = [files EXCEPT !.result = r]
        /\ stage' = "alloc"
        /\ UNCHANGED <<ctx, owned, pre_state, reward, result, exit, irregular, vars>>

\* The result first ...
write_result_output ==
  /\ stage = "outputs"
  /\ \/ \E code \in {"JSON_ERROR", "CONFIG_ERROR"} : Abort(code)
     \/ Leave("IO_ERROR") /\ files' = [files EXCEPT !.result = Damaged]
     \/ /\ \E r \in Written(result) : files' = [files EXCEPT !.result = r]
        /\ stage' = "alloc"
        /\ UNCHANGED <<ctx, owned, pre_state, reward, result, exit, irregular, vars>>

\* ... then the post-state.
write_alloc_output ==
  /\ stage = "alloc"
  /\ \/ \E code \in {"GENERAL_ERROR", "JSON_ERROR", "CONFIG_ERROR"} : Abort(code)
     \/ Leave("IO_ERROR") /\ files' = [files EXCEPT !.alloc = Damaged]
     \/ /\ Leave("SUCCESS")
        /\ \E d \in Written(PostState) : files' = [files EXCEPT !.alloc = d]

T8nNext ==
  \/ InitArena \/ ReadStdin \/ ParseStdin
  \/ \E json \in Allocs : LoadInputs(json)
  \/ LoadFails \/ BuildState \/ CreateContexts
  \/ Execute \/ ExecuteFails
  \/ \E amount \in Rewards : BuildResult(amount)
  \/ write_combined_stdout \/ write_result_output \/ write_alloc_output

T8nSpec == T8nInit /\ [][T8nNext]_<<t8n_vars, vars>>
-----------------------------------------------------------------------------
\* Every way out of cmd_t8n, at whichever step it fails, releases all that the
\* process has acquired until then and keeps from one step to the next.  (The writers of
\* JSON and the documents of single files belong to one step, which frees them itself.)
NothingLeaks == exit # None => owned = {}

\* The exit code tells which documents were written to their ends: success exactly when
\* the post-state was, and never a post-state without its result.  That nothing is missing
\* in them it does not tell: a writer that runs out of memory leaves parts out and goes on.
ExitTellsOutcome ==
  /\ exit = "SUCCESS" <=> files.alloc \notin {None, Damaged}
  /\ files.alloc \notin {None, Damaged} => files.result \notin {None, Damaged}

\* Two runs of t8n can be chained: an alloc that was written, loaded again, rebuilds
\* for every address the account of the reported state root, the coinbase's with the
\* reward that is credited after the root is taken, and code that matches its hash.
\* (Exceptions: a document that lacks parts, storage that outlived its account, contracts
\* created over code.)
ReloadsToReportedRoot ==
  exit = "SUCCESS" /\ Incomplete \notin {files.result, files.alloc} =>
    LET loaded == build_state_from_snapshot(world_state_create, t8n_parse_alloc_value(files.alloc))
        reported == Rewarded([world_state_create EXCEPT !.state_trie = files.result.state_root], reward)
    IN  \A a \in Address \ irregular :
          /\ world_state_root(loaded).state_trie[a] = reported.state_trie[a]
          /\ get_code(loaded, a) = get_code_hash(loaded, a)
=============================================================================
