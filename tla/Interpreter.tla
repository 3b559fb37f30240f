----------------------------- MODULE Interpreter -----------------------------
(***************************************************************************)
(* The dispatch loop of one frame (execute_frame of src/evm/evm.c) between *)
(* the instructions that touch the state or call: control flow, the stack, *)
(* the memory and the gas each of them costs.  The storage and the calls   *)
(* are in StorageMetering and CallFrames.                                  *)
(*                                                                         *)
(* A program is a sequence of bytes, so the data of a PUSH is bytes a jump *)
(* could aim at.  Words and sizes keep their widths: a word is wider than  *)
(* size_t.  The contents of the memory, the call data and the environment  *)
(* are any word of LoadedWord.                                             *)
(*                                                                         *)
(* The operators named ..._Mutant are plausible mistakes in the definition *)
(* that follows them; no specification uses them.                          *)
(***************************************************************************)
EXTENDS EvmMemory, Words, TLC, Sequences

CONSTANTS Opcode,                       \* dispatch_table: the instruction of each byte
          Program,                      \* the programs a frame may be given
          InitialGas,                   \* the gas a frame may start with
          gas_table,                    \* static cost of each instruction
          GAS_COPY, GAS_KECCAK256_WORD, \* prices per word copied and hashed
          GAS_EXP_BASE, GAS_EXP_BYTE,   \* price of EXP and per byte of its exponent
          EVM_STACK_MAX_DEPTH, EVM_STACK_INITIAL_CAPACITY,
          LoadedWord,                   \* what memory, call data, environment may hold
          ReturnDataSize                \* size of the return data of the last call

VARIABLES code,      \* the program of the frame
          pc,        \* offset of the next instruction
          stack,     \* the items, the top first
          capacity,  \* the slots allocated for the stack
          memory,    \* size and capacity of the memory
          gas,
          status,    \* "running", or how the frame ended
          paid,      \* history: the gas paid for memory
          touched    \* history: the end of the highest byte range accessed

vars == <<code, pc, stack, capacity, memory, gas, status, paid, touched>>

Byte == 0..(2 ^ ByteBits - 1)

ASSUME InterpreterAssumption ==
  /\ WordCount > SIZE_MAX + 1 /\ WordBytes = BytesPerWord
  /\ Opcode \in [Byte -> STRING]
  /\ \A p \in Program : p \in Seq(Byte)
  /\ InitialGas \subseteq 0..SIZE_MAX
  /\ EVM_STACK_INITIAL_CAPACITY \in 1..EVM_STACK_MAX_DEPTH
  /\ LoadedWord \subseteq Word

(***************************************************************************)
(* The code.                                                               *)
(***************************************************************************)
Push == [PUSH0 |-> 0, PUSH1 |-> 1, PUSH2 |-> 2]

\* Data bytes that follow the opcode at offset p of program c.
push_size(c, p) == LET op == Opcode[c[p + 1]] IN IF op \in DOMAIN Push THEN Push[op] ELSE 0

jumpdest_compute_bitmap_Mutant(c) == {p \in 0..(Len(c) - 1) : Opcode[c[p + 1]] = "JUMPDEST"}

\* The offsets the forward scan marks: it skips the data of each PUSH.
jumpdest_compute_bitmap(c) ==
  LET scan[p \in 0..(Len(c) + 2)] ==
        IF p >= Len(c) THEN {}
        ELSE (IF Opcode[c[p + 1]] = "JUMPDEST" THEN {p} ELSE {})
               \cup scan[p + 1 + push_size(c, p)]
  IN  scan[0]

jumpdest_is_valid(c, dest) == dest <= SIZE_MAX /\ dest \in jumpdest_compute_bitmap(c)

(***************************************************************************)
(* The stack.                                                              *)
(***************************************************************************)
evm_stack_has_items(n) == Len(stack) >= n

evm_stack_has_space_Mutant(n) == Len(stack) + n <= EVM_STACK_MAX_DEPTH + 1

evm_stack_has_space(n) == Len(stack) + n <= EVM_STACK_MAX_DEPTH

\* evm_stack_ensure_space: the capacity after doubling until n items more fit.
GrownCapacity(n) ==
  Min({c \in {capacity * 2 ^ i : i \in 0..EVM_STACK_MAX_DEPTH} \cup {EVM_STACK_MAX_DEPTH} :
         c >= capacity /\ c >= Len(stack) + n})

Below(n) == SubSeq(stack, n + 1, Len(stack))

(***************************************************************************)
(* How an instruction ends: the frame halts, or the next one is fetched.   *)
(* What a halted frame leaves on its stack and in its memory is not read.  *)
(***************************************************************************)
Halt(how) ==
  /\ status' = how
  /\ UNCHANGED <<code, pc, stack, capacity, memory, gas, paid, touched>>

Continue(items, cost, next) ==
  /\ stack' = items
  /\ gas' = gas - cost
  /\ pc' = next
  /\ UNCHANGED <<code, status>>

NoMemory == UNCHANGED <<memory, paid, touched>>

At(ops) == status = "running" /\ pc < Len(code) /\ Opcode[code[pc + 1]] \in ops

Op == Opcode[code[pc + 1]]

Charge_Mutant(op) == 0

\* The cost, but for memory.  ADD, inlined in the loop, charges nothing.
Charge(op) ==
  CASE op = "ADD" -> 0
    [] op = "EXP" -> GAS_EXP_BASE + GAS_EXP_BYTE * ByteLength(stack[2])
    [] op \notin {"ADD", "EXP"} -> gas_table[op]

(***************************************************************************)
(* Instructions on the stack only.                                         *)
(***************************************************************************)
\* Look up one word: the operand is an offset, a block number, an index.
LookupOps == [CALLDATALOAD |-> 1, BLOCKHASH |-> 1, BLOBHASH |-> 1]

Arity == ArithmeticOps @@ ComparisonOps @@ BitwiseOps @@ LookupOps

\* The operands leave the stack and one result takes their place.
Compute ==
  /\ At(DOMAIN Arity)
  /\ IF evm_stack_has_items(Arity[Op]) /\ gas >= Charge(Op)
     THEN /\ \E r \in IF Op \in DOMAIN LookupOps THEN LoadedWord ELSE {WordResult(Op, stack)} :
               Continue(<<r>> \o Below(Arity[Op]), Charge(Op), pc + 1)
          /\ UNCHANGED capacity
          /\ NoMemory
     ELSE Halt("error")

\* Instructions that push a word about the frame, the transaction or the block.
ContextOps == {"ADDRESS", "CALLER", "CALLVALUE", "CALLDATASIZE", "ORIGIN", "GASPRICE"}
BlockOps == {"COINBASE", "TIMESTAMP", "NUMBER", "PREVRANDAO", "GASLIMIT", "CHAINID", "BASEFEE",
             "BLOBBASEFEE", "SELFBALANCE"}

Pushed(op) ==
  CASE op = "PC"                         -> {pc}
    [] op = "GAS"                        -> {gas - Charge(op)}
    [] op = "MSIZE"                      -> {memory.size}
    [] op = "CODESIZE"                   -> {Len(code)}
    [] op = "RETURNDATASIZE"             -> {ReturnDataSize}
    [] op \in ContextOps \cup BlockOps -> LoadedWord

\* Instructions that push one word: the stack grows first.
PushOne(words, next) ==
  IF evm_stack_has_space(1) /\ gas >= Charge(Op)
  THEN /\ \E v \in words : Continue(<<v>> \o stack, Charge(Op), next)
       /\ capacity' = GrownCapacity(1)
       /\ NoMemory
  ELSE Halt("error")

op_push_environment ==
  /\ At({"PC", "GAS", "MSIZE", "CODESIZE", "RETURNDATASIZE"} \cup ContextOps \cup BlockOps)
  /\ PushOne(Pushed(Op), pc + 1)

\* The number in the bytes after PUSHn, as many of the n as the code has.
Immediate(n) ==
  LET to_read == Min({n, Len(code) - pc - 1})
  IN  MapThenSumSet(LAMBDA i : code[pc + 1 + i] * 2 ^ (ByteBits * (to_read - i)), 1..to_read)

op_push_n == At(DOMAIN Push) /\ PushOne({Immediate(Push[Op])}, pc + 1 + Push[Op])

op_pop ==
  /\ At({"POP"})
  /\ IF evm_stack_has_items(1) /\ gas >= Charge(Op)
     THEN Continue(Below(1), Charge(Op), pc + 1) /\ UNCHANGED capacity /\ NoMemory
     ELSE Halt("error")

Dup == [DUP1 |-> 1, DUP2 |-> 2]

\* DUP checks the depth limit and does not grow the allocation.  In the slot past
\* the allocation any word may be found later.
op_dup ==
  /\ At(DOMAIN Dup)
  /\ IF evm_stack_has_items(Dup[Op]) /\ evm_stack_has_space(1) /\ gas >= Charge(Op)
     THEN /\ \E v \in {stack[Dup[Op]]} \cup (IF Len(stack) < capacity THEN {} ELSE LoadedWord) :
               Continue(<<v>> \o stack, Charge(Op), pc + 1)
          /\ UNCHANGED capacity
          /\ NoMemory
     ELSE Halt("error")

Swap == [SWAP1 |-> 1, SWAP2 |-> 2]

op_swap ==
  /\ At(DOMAIN Swap)
  /\ IF evm_stack_has_items(Swap[Op] + 1) /\ gas >= Charge(Op)
     THEN /\ Continue([stack EXCEPT ![1] = stack[Swap[Op] + 1], ![Swap[Op] + 1] = stack[1]],
                      Charge(Op), pc + 1)
          /\ UNCHANGED capacity
          /\ NoMemory
     ELSE Halt("error")

(***************************************************************************)
(* Control flow.                                                           *)
(***************************************************************************)
op_stop == At({"STOP"}) /\ Halt("stopped")

\* Running off the end of the code is a STOP.
Done == status = "running" /\ pc >= Len(code) /\ Halt("stopped")

op_invalid == At({"INVALID"}) /\ Halt("error")

op_jumpdest ==
  /\ At({"JUMPDEST"})
  /\ IF gas >= Charge(Op)
     THEN Continue(stack, Charge(Op), pc + 1) /\ UNCHANGED capacity /\ NoMemory
     ELSE Halt("error")

op_jump ==
  /\ At({"JUMP"})
  /\ IF evm_stack_has_items(1) /\ gas >= Charge(Op) /\ jumpdest_is_valid(code, stack[1])
     THEN Continue(Below(1), Charge(Op), stack[1]) /\ UNCHANGED capacity /\ NoMemory
     ELSE Halt("error")

\* The destination is looked at only when the condition holds.
op_jumpi ==
  /\ At({"JUMPI"})
  /\ IF /\ evm_stack_has_items(2) /\ gas >= Charge(Op)
        /\ stack[2] # 0 => jumpdest_is_valid(code, stack[1])
     THEN /\ Continue(Below(2), Charge(Op), IF stack[2] = 0 THEN pc + 1 ELSE stack[1])
          /\ UNCHANGED capacity
          /\ NoMemory
     ELSE Halt("error")

(***************************************************************************)
(* Instructions that access memory.                                        *)
(***************************************************************************)
Copies == {"CALLDATACOPY", "CODECOPY", "RETURNDATACOPY"}

\* Operands popped, the size if it is fixed, else the operand that gives it, and
\* whether a word is pushed.
MemoryOp ==
  [MLOAD          |-> [pops |-> 1, size |-> WordBytes, from |-> 0, push |-> TRUE],
   MSTORE         |-> [pops |-> 2, size |-> WordBytes, from |-> 0, push |-> FALSE],
   MSTORE8        |-> [pops |-> 2, size |-> 1, from |-> 0, push |-> FALSE],
   KECCAK256      |-> [pops |-> 2, size |-> 0, from |-> 2, push |-> TRUE],
   CALLDATACOPY   |-> [pops |-> 3, size |-> 0, from |-> 3, push |-> FALSE],
   CODECOPY       |-> [pops |-> 3, size |-> 0, from |-> 3, push |-> FALSE],
   RETURNDATACOPY |-> [pops |-> 3, size |-> 0, from |-> 3, push |-> FALSE],
   RETURN         |-> [pops |-> 2, size |-> 0, from |-> 2, push |-> FALSE],
   REVERT         |-> [pops |-> 2, size |-> 0, from |-> 2, push |-> FALSE]]

Exits == {"RETURN", "REVERT"}

\* The size_t arithmetic of the copies is unchecked, that of KECCAK256 checked.
TotalCost(op, size, mem_cost) ==
  CASE op \in Exits -> mem_cost
    [] op \in Copies -> Wrap(Charge(op) + GAS_COPY * Words(size) + mem_cost)
    [] op = "KECCAK256" -> IF size > SIZE_MAX - (WordBytes - 1) THEN SIZE_MAX + 1
                           ELSE Charge(op) + GAS_KECCAK256_WORD * Words(size) + mem_cost
    [] op \in {"MLOAD", "MSTORE", "MSTORE8"} -> Charge(op) + mem_cost

\* What happens once the gas is taken: the next instruction, or the end of the frame.
AfterAccess(cost) ==
  /\ \E v \in IF MemoryOp[Op].push THEN {<<w>> : w \in LoadedWord} ELSE {<<>>} :
       stack' = v \o Below(MemoryOp[Op].pops)
  /\ gas' = gas - cost
  /\ pc' = pc + 1
  /\ status' = IF Op \in Exits THEN "stopped" ELSE "running"
  /\ UNCHANGED <<code, capacity>>

\* RETURNDATACOPY alone refuses a source range beyond its data.
SourceInBounds(src, size) ==
  Op = "RETURNDATACOPY" => src <= ReturnDataSize /\ size <= ReturnDataSize - src

\* An access of no bytes: the static cost, and none for RETURN and REVERT.
AccessNothing(offset) ==
  LET cost == IF Op \in Exits THEN 0 ELSE Charge(Op)
  IN  IF (Op \in Exits => offset <= SIZE_MAX) /\ gas >= cost
      THEN AfterAccess(cost) /\ NoMemory
      ELSE Halt("error")

\* An access of size bytes: expand, add up the costs, pay.  Where rounding the end
\* up to a word wraps to zero nothing is expanded, and C leaves the rest undefined.
Access(offset, size) ==
  LET r == evm_memory_expand(memory, offset, size)
      total == TotalCost(Op, size, r.cost)
  IN  CASE r.status = "false" -> Halt("error")
        [] r.status = "loops" -> Halt("looping")
        [] r.status = "true" /\ (total > SIZE_MAX \/ gas < total) -> Halt("error")
        [] r.status = "true" /\ total <= SIZE_MAX /\ gas >= total ->
             IF offset + size > r.memory.size THEN Halt("undefined")
             ELSE /\ AfterAccess(total)
                  /\ memory' = r.memory
                  /\ paid' = paid + r.cost
                  /\ touched' = Max({touched, offset + size})

op_memory ==
  /\ At(DOMAIN MemoryOp)
  /\ LET d == MemoryOp[Op]
         offset == stack[1]
         size == IF d.from = 0 THEN d.size ELSE stack[d.from]
     IN  IF ~evm_stack_has_items(d.pops) THEN Halt("error")
         ELSE IF size = 0 THEN AccessNothing(offset)
         ELSE IF offset > SIZE_MAX \/ size > SIZE_MAX \/ ~SourceInBounds(stack[2], size)
              THEN Halt("error")
         ELSE Access(offset, size)

(***************************************************************************)
(* The specification.                                                      *)
(***************************************************************************)
Init ==
  /\ code \in Program
  /\ gas \in InitialGas
  /\ pc = 0 /\ stack = <<>> /\ capacity = EVM_STACK_INITIAL_CAPACITY
  /\ memory = EmptyMemory /\ status = "running" /\ paid = 0 /\ touched = 0

execute_frame ==
  \/ Compute \/ op_push_environment \/ op_push_n \/ op_pop \/ op_dup \/ op_swap
  \/ op_stop \/ Done \/ op_invalid \/ op_jumpdest \/ op_jump \/ op_jumpi \/ op_memory

Next == execute_frame

Spec == Init /\ [][Next]_vars

\* The loop is one thread that always takes its next step.
FairSpec == Spec /\ WF_vars(Next)

(***************************************************************************)
(* Properties.                                                             *)
(***************************************************************************)
\* The types of the frame: the depth of the stack never exceeds its limit, and gas
\* and sizes stay in the range of their C types.
TypeOK ==
  /\ code \in Program
  /\ pc \in 0..(Len(code) + 2)
  /\ \A i \in DOMAIN stack : stack[i] \in Word
  /\ Len(stack) <= EVM_STACK_MAX_DEPTH /\ capacity \in 1..EVM_STACK_MAX_DEPTH
  /\ memory \in [size : 0..SIZE_MAX, capacity : 0..SIZE_MAX]
  /\ gas \in 0..SIZE_MAX /\ paid \in 0..SIZE_MAX /\ touched \in 0..SIZE_MAX
  /\ status \in {"running", "stopped", "error", "looping", "undefined"}

\* Offset p of program c starts an instruction: it is the first, or the offset right
\* after an instruction and its data.
IsInstruction(c, p) ==
  LET starts[q \in 0..p] ==
        \/ q = 0
        \/ \E b \in 0..(q - 1) : b + 1 + push_size(c, b) = q /\ starts[b]
  IN  starts[p]

\* Execution never fetches an opcode out of the data of a PUSH, whatever jumps it
\* takes: the scan behind JUMP and JUMPI and the loop agree on where instructions are.
OnInstruction == status = "running" /\ pc < Len(code) => IsInstruction(code, pc)

\* While the frame runs, and when it returns, the gas paid for memory over its whole
\* history is the price of the highest byte accessed, in whatever order and by
\* whatever instructions the memory grew; its size covers that byte and no word more.
MemoryIsPaidFor ==
  status \in {"running", "stopped"} =>
    /\ paid = word_cost(Words(touched))
    /\ memory.size = Words(touched) * WordBytes
    /\ memory.size <= memory.capacity

\* The loop dispatches finitely many instructions, whatever the program jumps to,
\* although ADD costs no gas.
FrameEnds == <>(status # "running")
=============================================================================
