----------------------------- MODULE CallFrames -----------------------------
(***************************************************************************)
(* The EVM's frame machine: evm_execute_env and execute_frame of           *)
(* src/evm/evm.c with the CALL family of call_op.c and opcodes/call.c, the *)
(* frame and memory pools, and the opcodes that touch the world state.     *)
(*                                                                         *)
(* One step is one opcode of the current frame together with what the main *)
(* loop does with its result.  Programs are not modelled: at every step    *)
(* the current frame may execute any opcode with any operands, or fail     *)
(* (stack underflow, invalid opcode or jump, an operand beyond 64 bits).   *)
(* The operand stack and the contents of memory are left out; the gas that *)
(* memory expansion costs is any member of MemoryCost, and an expansion    *)
(* that never returns is a step of its own, EndlessExpansion.              *)
(*                                                                         *)
(* ADD and the opcodes of block.h charge no gas: they change only the      *)
(* operand stack and the program counter, so each is the stuttering step   *)
(* PlainOp(0).  Code is finite and only JUMP and JUMPI, which charge gas,  *)
(* go backwards, so a frame takes finitely many such steps in a row.       *)
(*                                                                         *)
(* The operators named ..._Mutant are plausible mistakes in the definition *)
(* that follows them; no specification uses them.                          *)
(***************************************************************************)
EXTENDS WorldState, GasSchedule

LOCAL INSTANCE Functions

CONSTANTS EVM_MAX_CALL_DEPTH,   \* frames in the pool, and MAX_CALL_DEPTH
          TxGas,                \* gas a transaction may give its root frame
          OpCost,               \* costs of opcodes that only use gas
          MemoryCost,           \* costs of memory expansion, copying and log data
          RequestedGas,         \* gas operands of the CALL family
          ReturnSize,           \* sizes of returned data
          MaxTransactions       \* bound: transactions executed

\* call_frame_t without its code, stack and memory.
Frame == [gas : Nat, depth : Nat, is_static : BOOLEAN, address : Address]

\* evm_execution_result_t, with sizes for output and logs.
EvmResult ==
  [success : BOOLEAN, gas_used : Nat, gas_refund : Nat, output_size : Nat, logs : Nat]

ASSUME CallFramesAssumption ==
  /\ None \notin Frame \cup EvmResult
  /\ EVM_MAX_CALL_DEPTH \in Nat \ {0}
  /\ TxGas \subseteq Nat
  /\ OpCost \subseteq Nat
  /\ MemoryCost \subseteq Nat
  /\ RequestedGas \subseteq Nat
  /\ ReturnSize \subseteq Nat

VARIABLES ws,                 \* the world state behind evm->state
          frames,             \* frame_pool.frames
          frame_pool,         \* frame_pool.depth
          memory_pool,        \* memory_pool.depth
          frame_stack,        \* suspended frames, as indices into frames
          stack_depth,        \* number of them
          frame,              \* the current frame, as an index
          return_data_size,   \* evm->return_data_size
          gas_refund,         \* evm->gas_refund
          logs,               \* number of entries of evm->logs
          initial_gas,        \* gas of the transaction
          result,             \* what evm_execute_env returned, None while it runs
          looping,            \* an opcode is in the loop of evm_memory_expand for good
          grant,              \* history: the gas each frame started with
          transactions        \* how many transactions have started

machine == <<frames, frame_pool, memory_pool, frame_stack, stack_depth, frame, grant>>

vars == <<ws, machine, return_data_size, gas_refund, logs, initial_gas, result,
          looping, transactions>>

Index == 0..(EVM_MAX_CALL_DEPTH - 1)

Running == result = None

Top == frames[frame]

\* evm_init over a state in which one account holds all the ether there is.
Init ==
  /\ \E a \in Address : ws = set_balance(world_state_create, a, MaxBalance)
  /\ frames = [i \in Index |-> None]
  /\ frame_pool = 0 /\ memory_pool = 0
  /\ frame_stack = [i \in Index |-> 0]
  /\ stack_depth = 0 /\ frame = 0
  /\ return_data_size = 0 /\ gas_refund = 0 /\ logs = 0 /\ initial_gas = 0
  /\ result = [success |-> FALSE, gas_used |-> 0, gas_refund |-> 0, output_size |-> 0, logs |-> 0]
  /\ grant = [i \in Index |-> 0]
  /\ looping = FALSE
  /\ transactions = 0

\* The executor's begin_transaction and evm_reset, then evm_execute_env up to its
\* main loop: the root frame is rented and takes the first memory of the pool.
evm_execute_env(gas, address) ==
  /\ ~ Running
  /\ transactions < MaxTransactions /\ transactions' = transactions + 1
  /\ ws' = begin_transaction(ws)
  /\ frames' = [i \in Index |->
       IF i = 0 THEN [gas |-> gas, depth |-> 0, is_static |-> FALSE, address |-> address]
       ELSE None]
  /\ frame_pool' = 1 /\ memory_pool' = 1
  /\ stack_depth' = 0 /\ frame' = 0
  /\ return_data_size' = 0 /\ gas_refund' = 0 /\ logs' = 0
  /\ initial_gas' = gas
  /\ result' = None
  /\ grant' = [i \in Index |-> IF i = 0 THEN gas ELSE 0]
  /\ UNCHANGED <<frame_stack, looping>>
-----------------------------------------------------------------------------
\* The results of a frame, as the main loop handles them

ReturnToParent_Mutant(gas_back, size) ==
  LET parent == frame_stack[stack_depth - 1]
  IN  /\ frames' = [frames EXCEPT ![parent].gas = @ + gas_back, ![frame] = None]
      /\ frame_pool' = frame_pool - 1
      /\ stack_depth' = stack_depth - 1
      /\ frame' = parent
      /\ grant' = [grant EXCEPT ![frame] = 0]
      /\ return_data_size' = size
      /\ UNCHANGED <<memory_pool, frame_stack, result>>

\* "Return to parent": the parent takes gas_back, the child's frame and memory go
\* back to their pools.  A frame in the pool is reset before its next use, so its
\* contents are dropped here.
ReturnToParent(gas_back, size) ==
  LET parent == frame_stack[stack_depth - 1]
  IN  /\ frames' = [frames EXCEPT ![parent].gas = @ + gas_back, ![frame] = None]
      /\ frame_pool' = frame_pool - 1
      /\ memory_pool' = memory_pool - 1
      /\ stack_depth' = stack_depth - 1
      /\ frame' = parent
      /\ grant' = [grant EXCEPT ![frame] = 0]
      /\ return_data_size' = size
      /\ UNCHANGED <<frame_stack, result>>

Finish(success, gas_used, refund, size, log_count) ==
  /\ result' = [success |-> success, gas_used |-> gas_used, gas_refund |-> refund,
                output_size |-> size, logs |-> log_count]
  /\ UNCHANGED machine

\* FRAME_ERROR: all the gas of the frame is consumed, w is the state it leaves.
FrameError(w) ==
  /\ Running
  /\ ws' = w
  /\ \/ Top.depth = 0 /\ Finish(FALSE, initial_gas, 0, 0, 0) /\ UNCHANGED return_data_size
     \/ Top.depth > 0 /\ ReturnToParent(0, 0)
  /\ UNCHANGED <<gas_refund, logs, initial_gas>>

\* The opcode used gas, left the state w, and the frame goes on.
Continue(w, gas) ==
  /\ Running
  /\ ws' = w
  /\ frames' = [frames EXCEPT ![frame].gas = gas]
  /\ UNCHANGED <<frame_pool, memory_pool, frame_stack, stack_depth, frame, grant,
                 return_data_size, initial_gas, result>>

\* Copying out size bytes may cost expanding the memory first.
CopyCost(size) == IF size = 0 THEN {0} ELSE MemoryCost

\* op_stop: at top level the output is whatever the return data buffer holds.
op_stop ==
  /\ Running
  /\ \/ Top.depth = 0 /\ Finish(TRUE, initial_gas - Top.gas, gas_refund, return_data_size, logs)
                      /\ UNCHANGED return_data_size
     \/ Top.depth > 0 /\ ReturnToParent(Top.gas, 0)
  /\ UNCHANGED <<ws, gas_refund, logs, initial_gas>>

op_return(size, cost) ==
  /\ Running
  /\ Top.gas >= cost
  /\ \/ Top.depth = 0 /\ Finish(TRUE, initial_gas - (Top.gas - cost), gas_refund, size, logs)
                      /\ return_data_size' = size
     \/ Top.depth > 0 /\ ReturnToParent(Top.gas - cost, size)
  /\ UNCHANGED <<ws, gas_refund, logs, initial_gas>>

\* Like op_return, except that nothing is refunded or logged at top level.  State
\* changes are not undone.
op_revert(size, cost) ==
  /\ Running
  /\ Top.gas >= cost
  /\ \/ Top.depth = 0 /\ Finish(FALSE, initial_gas - (Top.gas - cost), 0, size, 0)
                      /\ return_data_size' = size
     \/ Top.depth > 0 /\ ReturnToParent(Top.gas - cost, size)
  /\ UNCHANGED <<ws, gas_refund, logs, initial_gas>>
-----------------------------------------------------------------------------
\* Opcodes that use gas, read or write the world state

\* Any opcode whose only modelled effect is the gas it uses.
PlainOp(cost) ==
  /\ Running
  /\ Top.gas >= cost
  /\ Continue(ws, Top.gas - cost)
  /\ UNCHANGED <<gas_refund, logs>>

\* Any opcode that fails before it changes anything.
FailedOp == FrameError(ws)

\* BALANCE, EXTCODESIZE, EXTCODECOPY, EXTCODEHASH: the address is warmed first,
\* and stays warm when the gas does not suffice, EXTCODECOPY is asked for a region
\* beyond 64 bits, or the operand stack is full.
AccountOp(a, memory) ==
  LET cost == account_access_cost(~ is_address_warm(ws, a)) + memory
      w == warm_address(ws, a)
  IN  \/ Running /\ Top.gas >= cost /\ Continue(w, Top.gas - cost) /\ UNCHANGED <<gas_refund, logs>>
      \/ FrameError(w)

op_sload(s) ==
  LET cost == sload_cost(~ is_slot_warm(ws, Top.address, s))
      w == warm_slot(ws, Top.address, s)
  IN  \/ Running /\ Top.gas >= cost /\ Continue(w, Top.gas - cost) /\ UNCHANGED <<gas_refund, logs>>
      \/ Running /\ Top.gas < cost /\ FrameError(w)

op_sstore(s, v) ==
  LET a == Top.address
      current == get_storage(ws, a, s)
      original == get_original_storage(ws, a, s)
      cost == sstore_cost(~ is_slot_warm(ws, a, s), current, original, v)
      w == warm_slot(ws, a, s)
      affordable == Top.gas > GAS_CALL_STIPEND /\ Top.gas >= cost
  IN  \/ Running /\ Top.is_static /\ FrameError(ws)
      \/ Running /\ ~ Top.is_static /\ ~ affordable /\ FrameError(w)
      \/ /\ Running /\ ~ Top.is_static /\ affordable
         /\ Continue(set_storage(w, a, s, v), Top.gas - cost)
         /\ gas_refund' = apply_refund(gas_refund, sstore_refund(current, original, v))
         /\ UNCHANGED logs

op_log(memory) ==
  LET cost == GAS_LOG + memory
  IN  \/ Running /\ (Top.is_static \/ Top.gas < cost) /\ FrameError(ws)
      \/ /\ Running /\ ~ Top.is_static /\ Top.gas >= cost
         /\ Continue(ws, Top.gas - cost)
         /\ logs' = logs + 1
         /\ UNCHANGED gas_refund
-----------------------------------------------------------------------------
\* The CALL family

CallOp ==
  {c \in [kind : {"CALL", "STATICCALL", "DELEGATECALL", "CALLCODE"}, target : Address,
          value : Balance, requested : RequestedGas, memory : MemoryCost] :
     c.kind \in {"STATICCALL", "DELEGATECALL"} => c.value = 0}

transfers_value(c) == c.value # 0

\* Only CALL pays for a new account.
is_new_account(c) ==
  c.kind = "CALL" /\ transfers_value(c) /\ account_is_empty(get_account(ws, c.target))

call_gas_cost_Mutant(c) ==
  account_access_cost(~ is_address_warm(ws, c.target))
    + (IF is_new_account(c) THEN GAS_NEW_ACCOUNT ELSE 0)
    + c.memory

call_gas_cost(c) ==
  account_access_cost(~ is_address_warm(ws, c.target))
    + (IF transfers_value(c) THEN GAS_CALL_VALUE ELSE 0)
    + (IF is_new_account(c) THEN GAS_NEW_ACCOUNT ELSE 0)
    + c.memory

\* calculate_call_gas: what is left after the overhead, what the child gets of it
\* (the 63/64 rule), what the child starts with (the stipend comes on top), and
\* what stays with the caller.
LeftGas(c) == Top.gas - call_gas_cost(c)

ChildGas(c) == call_child_gas(LeftGas(c), c.requested)

GivenGas(c) == ChildGas(c) + (IF transfers_value(c) THEN GAS_CALL_STIPEND ELSE 0)

KeptGas_Mutant(c) == LeftGas(c)

KeptGas(c) == LeftGas(c) - (IF ChildGas(c) > LeftGas(c) THEN LeftGas(c) ELSE ChildGas(c))

\* The call passes the checks of prepare_call and its siblings.
Prepared(c) ==
  /\ Running
  /\ Top.depth < EVM_MAX_CALL_DEPTH
  /\ ~ (Top.is_static /\ transfers_value(c))
  /\ Top.gas >= call_gas_cost(c)

Warmed(c) == warm_address(ws, c.target)

Funded(c) == get_balance(ws, Top.address) >= c.value

Transferred_Mutant(c) ==
  IF transfers_value(c)
  THEN add_balance(Warmed(c), c.target, c.value)
  ELSE Warmed(c)

\* CALL moves the value; CALLCODE only requires that the caller has it.
Transferred(c) ==
  IF c.kind = "CALL" /\ transfers_value(c)
  THEN add_balance(sub_balance(Warmed(c), Top.address, c.value), c.target, c.value)
  ELSE Warmed(c)

CallWriteProtection(c) ==
  Running /\ Top.is_static /\ transfers_value(c) /\ FrameError(ws)

\* The caller cannot pay the overhead, or names a memory region beyond 64 bits.
CallOutOfGas(c) ==
  /\ Running
  /\ ~ (Top.is_static /\ transfers_value(c))
  /\ FrameError(Warmed(c))

\* The caller cannot pay the value: the call fails, the child's gas is gone.
CallUnfunded(c) ==
  /\ Prepared(c) /\ ~ Funded(c)
  /\ Continue(Warmed(c), KeptGas(c))
  /\ UNCHANGED <<gas_refund, logs>>

\* No frame left in the pool (a build without assertions): the call fails after
\* the value has moved and the child's gas has been taken.
CallPoolExhausted(c) ==
  /\ Prepared(c) /\ Funded(c)
  /\ frame_pool >= EVM_MAX_CALL_DEPTH
  /\ Continue(Transferred(c), KeptGas(c))
  /\ UNCHANGED <<gas_refund, logs>>

ChildFrame_Mutant(c) ==
  [gas |-> GivenGas(c),
   depth |-> Top.depth + 1,
   is_static |-> c.kind = "STATICCALL",
   address |-> IF c.kind \in {"CALL", "STATICCALL"} THEN c.target ELSE Top.address]

\* init_child_frame: the static context is inherited by every kind of call.
ChildFrame(c) ==
  [gas |-> GivenGas(c),
   depth |-> Top.depth + 1,
   is_static |-> Top.is_static \/ c.kind = "STATICCALL",
   address |-> IF c.kind \in {"CALL", "STATICCALL"} THEN c.target ELSE Top.address]

\* The child gets a frame, and the FRAME_CALL branch of the main loop enters it.
CallEnter(c) ==
  /\ Prepared(c) /\ Funded(c)
  /\ frame_pool < EVM_MAX_CALL_DEPTH
  /\ ws' = Transferred(c)
  /\ frames' = [frames EXCEPT ![frame].gas = KeptGas(c), ![frame_pool] = ChildFrame(c)]
  /\ grant' = [grant EXCEPT ![frame_pool] = GivenGas(c)]
  /\ frame_pool' = frame_pool + 1
  /\ memory_pool' = memory_pool + 1
  /\ frame_stack' = [frame_stack EXCEPT ![stack_depth] = frame]
  /\ stack_depth' = stack_depth + 1
  /\ frame' = frame_pool
  /\ UNCHANGED <<return_data_size, gas_refund, logs, initial_gas, result>>
-----------------------------------------------------------------------------
\* evm_memory_expand doubles the capacity until it covers the size.  A size above half of
\* the range of size_t it never covers: the capacity becomes zero and the loop does not end.
\* All opcodes with a memory region reach the loop before they ask for gas; EXTCODECOPY has
\* warmed its address by then, and the CALL family has warmed the target and taken the gas.
EndlessExpansion ==
  /\ Running /\ ~ looping /\ looping' = TRUE
  /\ \/ Continue(ws, Top.gas)
     \/ \E a \in Address : Continue(warm_address(ws, a), Top.gas)
     \/ \E c \in CallOp : Prepared(c) /\ Continue(Warmed(c), KeptGas(c))
  /\ UNCHANGED <<gas_refund, logs>>

Opcode ==
  \/ op_stop
  \/ \E size \in ReturnSize : \E cost \in CopyCost(size) :
       op_return(size, cost) \/ op_revert(size, cost)
  \/ \E cost \in OpCost : PlainOp(cost)
  \/ FailedOp
  \/ \E a \in Address, memory \in MemoryCost : AccountOp(a, memory)
  \/ \E s \in Slot : op_sload(s) \/ \E v \in Word : op_sstore(s, v)
  \/ \E memory \in MemoryCost : op_log(memory)
  \/ \E c \in CallOp :
       \/ CallWriteProtection(c)
       \/ CallOutOfGas(c)
       \/ CallUnfunded(c)
       \/ CallPoolExhausted(c)
       \/ CallEnter(c)

\* A turn of the main loop.
Step ==
  \/ ~ looping /\ Opcode /\ UNCHANGED <<looping, transactions>>
  \/ EndlessExpansion /\ UNCHANGED transactions

Next ==
  \/ Step
  \/ \E gas \in TxGas, a \in Address : evm_execute_env(gas, a)

Spec == Init /\ [][Next]_vars

\* The main loop is a while (true) that keeps executing opcodes until it returns or one of
\* them does not.
FairSpec == Spec /\ WF_vars(Step)
-----------------------------------------------------------------------------
Live == 0..stack_depth

\* Pool discipline: the frame pool, the memory pool and the frame stack of the
\* main loop move together, the current frame is the last one rented, and depth
\* counts its ancestors.  So the "Bounds check before pushing to frame stack" of
\* evm_execute_env never fails and no frame is used after it was given back.
PoolsAgree ==
  Running =>
    /\ frame = stack_depth
    /\ frame_pool = stack_depth + 1
    /\ memory_pool = frame_pool
    /\ \A i \in Live : frames[i] # None /\ frames[i].depth = i
    /\ \A i \in Live \ {stack_depth} : frame_stack[i] = i

\* Gas is never created: what a suspended frame kept and what it gave its child
\* (the stipend included) never exceed what it was given itself, so the gas a
\* transaction reports as used, an unsigned subtraction, never wraps around.
GasIsConserved ==
  /\ Running =>
       /\ grant[0] = initial_gas
       /\ frames[stack_depth].gas <= grant[stack_depth]
       /\ \A i \in Live \ {stack_depth} : frames[i].gas + grant[i + 1] <= grant[i]
  /\ ~ Running => result.gas_used \in 0..initial_gas

\* What a static context protects: accounts, storage, logs and refunds.
ProtectedState ==
  <<ws.state_trie, ws.storage_tries, ws.code_store, logs, gas_refund>>

\* From the moment a STATICCALL enters its callee until it returns, no frame below
\* it writes storage, moves ether, logs or changes the refund counter, whatever
\* kinds of calls lead there.
StaticIsReadOnly ==
  [][Running /\ (\E i \in Live : frames[i].is_static) => UNCHANGED ProtectedState]_vars

\* The frame machine as the executor sees it.
ER == INSTANCE EvmRun WITH
        balance <- [a \in Address |-> get_balance(ws, a)],
        nonce <- [a \in Address |-> get_nonce(ws, a)],
        code <- [a \in Address |-> get_code_hash(ws, a)],
        running <- Running,
        gas <- initial_gas,
        gas_used <- IF Running THEN 0 ELSE result.gas_used

\* To the executor, a transaction is a number of transfers between accounts and a
\* gas_used within its gas: whatever calls nest, fail or run out of frames, no
\* ether appears or vanishes, and no nonce or code changes.
ImplementsEvmRun == ER!Spec

LiveGas == SumFunction([i \in Live |-> frames[i].gas])

\* The measure that bounds execution: an opcode burns gas, or ends a frame and burns none,
\* or never returns.  The free ones, ADD and those of block.h, change nothing but the operand
\* stack and move on in the code.
GasBurnsDown ==
  [][Running /\ Running' => \/ LiveGas' < LiveGas
                            \/ LiveGas' = LiveGas /\ stack_depth' < stack_depth
                            \/ looping']_vars

\* The main loop never runs on and on: whatever calls nest, fail or jump, a transaction comes
\* to an end, unless one opcode of it is caught in the loop of evm_memory_expand.
Terminates == Running ~> (~ Running \/ looping)
-----------------------------------------------------------------------------
(* What the repository says and the code does not do. *)

\* call_frame_pool.h: "assert(pool->depth < EVM_MAX_CALL_DEPTH)" on every rent.
RentHasRoom == [][\A c \in CallOp : ~ CallPoolExhausted(c)]_vars
=============================================================================
