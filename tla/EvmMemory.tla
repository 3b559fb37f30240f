------------------------------ MODULE EvmMemory ------------------------------
(***************************************************************************)
(* The linear memory of a frame (src/evm/memory.c): its size and capacity, *)
(* what expanding it costs, and the arithmetic of size_t that both are     *)
(* computed in.  Contents are left out.                                    *)
(*                                                                         *)
(* The operators named ..._Mutant are plausible mistakes in the definition *)
(* that follows them; no specification uses them.                          *)
(***************************************************************************)
EXTENDS Integers, FiniteSetsExt

CONSTANTS SizeBits,          \* width of size_t and uint64_t: 64
          WordBytes,         \* bytes of a memory word: 32
          InitialCapacity,   \* EVM_MEMORY_INITIAL_CAPACITY
          MaxAlloc,          \* the largest allocation the arena can make
          QuadDivisor        \* 512

SIZE_MAX == 2 ^ SizeBits - 1

Wrap(n) == n % (SIZE_MAX + 1)

ASSUME EvmMemoryAssumption ==
  /\ SizeBits \in Nat /\ WordBytes \in Nat \ {0} /\ QuadDivisor \in Nat \ {0}
  /\ MaxAlloc \in 0..SIZE_MAX
  /\ \E i \in 0..(SizeBits - 1) : InitialCapacity = 2 ^ i
  /\ (SIZE_MAX + 1) % WordBytes = 0

\* The word count of a byte count: (n + 31) / 32, the sum taken in size_t.
Words(n) == Wrap(n + WordBytes - 1) \div WordBytes

round_up_32(n) == Words(n) * WordBytes

word_cost(words) == Wrap(3 * words) + Wrap(words * words) \div QuadDivisor

evm_memory_expansion_cost_Mutant(current_words, new_words) ==
  IF new_words <= current_words THEN 0
  ELSE Wrap(word_cost(new_words - current_words))

\* The price of the new size less the price of the current one.
evm_memory_expansion_cost(current_words, new_words) ==
  IF new_words <= current_words THEN 0
  ELSE Wrap(word_cost(new_words) - word_cost(current_words))

EmptyMemory == [size |-> 0, capacity |-> 0]

\* The capacities that doubling reaches before it wraps around to zero.
Doublings(mem) ==
  LET start == IF mem.capacity = 0 THEN InitialCapacity ELSE mem.capacity
  IN  {start * 2 ^ i : i \in 0..SizeBits} \cap 0..SIZE_MAX

\* evm_memory_expand: whether it returns TRUE, returns FALSE or loops, the gas it
\* asks for and the memory it leaves.  The loop that doubles the capacity does not
\* end when the size exceeds the largest power of two that fits.
evm_memory_expand(mem, offset, size) ==
  LET new_size == round_up_32(offset + size)
      cost == evm_memory_expansion_cost(mem.size \div WordBytes, new_size \div WordBytes)
      enough == {c \in Doublings(mem) : c >= new_size}
      Outcome(status, memory) == [status |-> status, cost |-> cost, memory |-> memory]
  IN  CASE size = 0 -> [status |-> "true", cost |-> 0, memory |-> mem]
        [] size > 0 /\ offset > SIZE_MAX - size -> [status |-> "false", cost |-> 0, memory |-> mem]
        [] size > 0 /\ offset <= SIZE_MAX - size ->
             CASE new_size <= mem.size -> Outcome("true", mem)
               [] new_size > mem.size /\ new_size <= mem.capacity ->
                    Outcome("true", [mem EXCEPT !.size = new_size])
               [] new_size > mem.capacity /\ enough = {} -> Outcome("loops", mem)
               [] new_size > mem.capacity /\ enough # {} ->
                    IF Min(enough) > MaxAlloc THEN Outcome("false", mem)
                    ELSE Outcome("true", [size |-> new_size, capacity |-> Min(enough)])
=============================================================================
