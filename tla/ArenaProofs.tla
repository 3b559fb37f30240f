---------------------------- MODULE ArenaProofs ----------------------------
(***************************************************************************)
(* ArenaSafe for every block size, every alignment and every set of        *)
(* requests that ArenaAssumption allows.  The inductive invariant adds     *)
(* what makes it so: no live region is in a block after the current one or *)
(* beyond the offset of its block, so the room that is handed out next is  *)
(* nobody's.                                                               *)
(***************************************************************************)
EXTENDS Arena, TLAPS

\* A regular region ends at or before the offset of its block, which is not after the
\* current one; a large region is in the chain.
Placed(a, r) ==
  \/ /\ r.block \in 1..a.current
     /\ r.to <= a.blocks[r.block].offset
  \/ /\ -r.block \in 1..Len(a.large_blocks)
     /\ r.to <= a.large_blocks[-r.block].size

ArenaInv(a) ==
  /\ a \in ArenaType
  /\ a.current \in 1..Len(a.blocks)
  /\ \A i \in 1..Len(a.blocks) : a.blocks[i].base \in Bases /\ a.blocks[i].offset <= BLOCK_SIZE
  /\ \A r \in a.live : Placed(a, r)
  /\ \A r, s \in a.live : r # s => ~ Overlap(r, s)

\* Rounding up never rounds down, and by less than the alignment.
LEMMA AlignUpBounds ==
  ASSUME NEW x \in Nat, NEW al \in Nat \ {0}
  PROVE  AlignUp(x, al) \in Nat /\ AlignUp(x, al) >= x /\ AlignUp(x, al) < x + al
<1>1. (al - (x % al)) % al \in 0..(al - 1)
  <2>1. al - (x % al) \in Int
    OBVIOUS
  <2> QED
    BY <2>1
<1> QED
  BY <1>1 DEF AlignUp

\* An aligned offset is at or after the offset asked for, by less than the alignment.
LEMMA AlignedOffsetBounds ==
  ASSUME NEW base \in Nat, NEW offset \in Nat, NEW al \in Nat \ {0}
  PROVE  /\ aligned_offset(base, offset, al) \in Nat
         /\ aligned_offset(base, offset, al) >= offset
         /\ aligned_offset(base, offset, al) < offset + al
<1> DEFINE x == base + offset
<1>1. x \in Nat
  OBVIOUS
<1> HIDE DEF x
<1>2. AlignUp(x, al) \in Nat /\ AlignUp(x, al) >= x /\ AlignUp(x, al) < x + al
  BY <1>1, AlignUpBounds
<1> QED
  BY <1>2 DEF aligned_offset, x

\* Handing out room at or after the offset of the current block, or anywhere in the
\* block after it, keeps the invariant.
LEMMA BumpSafe ==
  ASSUME NEW a, ArenaInv(a),
         NEW i \in 1..Len(a.blocks), i = a.current \/ i = a.current + 1,
         NEW from \in Nat, NEW n \in Nat, from + n <= BLOCK_SIZE,
         i = a.current => from >= a.blocks[i].offset
  PROVE  ArenaInv(Bump(a, i, from, n))
<1> DEFINE b == Bump(a, i, from, n)
           new == [id |-> a.handed, block |-> i, from |-> from, to |-> from + n]
<1>1. /\ a \in ArenaType
      /\ a.blocks \in Seq(Block) /\ a.current \in 1..Len(a.blocks) /\ a.live \subseteq Region
      /\ a.large_blocks \in Seq([base : Nat, size : Nat]) /\ a.handed \in Nat
  BY DEF ArenaInv, ArenaType
<1>2. /\ b.blocks = [a.blocks EXCEPT ![i] = [base |-> a.blocks[i].base, offset |-> from + n]]
      /\ b.current = i /\ b.large_blocks = a.large_blocks /\ b.live = a.live \cup {new}
  BY DEF Bump
<1>3. /\ b.blocks \in Seq(Block) /\ Len(b.blocks) = Len(a.blocks)
      /\ \A j \in 1..Len(a.blocks) : j # i => b.blocks[j] = a.blocks[j]
      /\ b.blocks[i].base = a.blocks[i].base /\ b.blocks[i].offset = from + n
      /\ \A j \in 1..Len(a.blocks) : a.blocks[j].offset \in Nat
  <2>1. \A j \in 1..Len(a.blocks) : a.blocks[j] \in Block
    BY <1>1
  <2>2. [base |-> a.blocks[i].base, offset |-> from + n] \in Block
    BY <2>1 DEF Block
  <2> DEFINE e == [base |-> a.blocks[i].base, offset |-> from + n]
  <2>3. e \in Block /\ e.base = a.blocks[i].base /\ e.offset = from + n
    BY <2>2
  <2> HIDE DEF b, e
  <2>4. b.blocks = [a.blocks EXCEPT ![i] = e]
    BY <1>2 DEF e
  <2>5. /\ b.blocks \in Seq(Block) /\ Len(b.blocks) = Len(a.blocks)
        /\ \A j \in 1..Len(a.blocks) : j # i => b.blocks[j] = a.blocks[j]
        /\ b.blocks[i] = e
    BY <1>1, <2>3, <2>4
  <2> QED
    BY <2>1, <2>3, <2>5 DEF Block
<1>0. /\ new \in Region
      /\ new.block = i /\ new.from = from /\ new.to = from + n
  BY <1>1 DEF Region
<1>4. b \in ArenaType
  BY <1>1, <1>2, <1>3, <1>0 DEF ArenaType, Bump
<1> HIDE DEF b, new
<1>5. ASSUME NEW r \in a.live
      PROVE  Placed(b, r) /\ ~ Overlap(r, new) /\ ~ Overlap(new, r)
  <2>1. Placed(a, r) /\ r \in Region
    BY <1>1 DEF ArenaInv
  <2>4. r.block \in Int /\ r.from \in Nat /\ r.to \in Nat
    BY <2>1 DEF Region
  <2>2. CASE r.block \in 1..a.current /\ r.to <= a.blocks[r.block].offset
    <3>1. CASE r.block = i
      <4>1. i = a.current /\ r.to <= from
        BY <1>1, <1>3, <2>2, <2>4, <3>1
      <4>2. Placed(b, r)
        <5>1. r.block \in 1..b.current /\ b.blocks[r.block].offset = from + n
          BY <1>2, <1>3, <3>1
        <5>2. r.to <= from + n
          BY <2>4, <4>1
        <5> QED
          BY <5>1, <5>2 DEF Placed
      <4> QED
        BY <1>0, <2>4, <4>1, <4>2 DEF Overlap
    <3>2. CASE r.block # i
      <4>1. r.block \in 1..i /\ r.block \in 1..Len(a.blocks)
        BY <1>1, <2>2, <2>4
      <4>2. b.blocks[r.block] = a.blocks[r.block]
        BY <1>3, <3>2, <4>1
      <4>3. Placed(b, r)
        BY <1>2, <2>2, <4>1, <4>2 DEF Placed
      <4> QED
        BY <1>0, <3>2, <4>3 DEF Overlap
    <3> QED
      BY <3>1, <3>2
  <2>3. CASE -r.block \in 1..Len(a.large_blocks) /\ r.to <= a.large_blocks[-r.block].size
    <3>1. Placed(b, r)
      BY <1>2, <2>3 DEF Placed
    <3>2. r.block # i
      BY <1>1, <2>3, <2>4
    <3> QED
      BY <1>0, <3>1, <3>2 DEF Overlap
  <2> QED
    BY <2>1, <2>2, <2>3 DEF Placed
<1>6. Placed(b, new)
  BY <1>1, <1>2, <1>3, <1>0 DEF Placed
<1>7. \A j \in 1..Len(b.blocks) : b.blocks[j].base \in Bases /\ b.blocks[j].offset <= BLOCK_SIZE
  BY <1>3 DEF ArenaInv
<1>8. \A r, s \in b.live : r # s => ~ Overlap(r, s)
  BY <1>2, <1>5 DEF ArenaInv
<1> QED
  <2>1. ArenaInv(b)
    BY <1>2, <1>3, <1>4, <1>5, <1>6, <1>7, <1>8 DEF ArenaInv
  <2> QED
    BY <2>1 DEF b

\* A new empty block at the end of the chain keeps the invariant.
LEMMA AppendSafe ==
  ASSUME NEW a, ArenaInv(a), NEW f \in Bases
  PROVE  ArenaInv(Extended(a, f))
<1> DEFINE block == [base |-> f, offset |-> 0]
           b == Extended(a, f)
<1>1. /\ a \in ArenaType
      /\ a.blocks \in Seq(Block) /\ a.current \in 1..Len(a.blocks) /\ a.live \subseteq Region
      /\ block \in Block /\ BLOCK_SIZE \in Nat
  BY ArenaAssumption DEF ArenaInv, ArenaType, Block
<1>2. /\ b.blocks = Append(a.blocks, block) /\ b.current = a.current
      /\ b.large_blocks = a.large_blocks /\ b.live = a.live
      /\ b \in ArenaType
  BY <1>1 DEF ArenaType, Extended
<1>3. /\ Len(b.blocks) = Len(a.blocks) + 1 /\ b.blocks[Len(a.blocks) + 1] = block
      /\ \A j \in 1..Len(a.blocks) : b.blocks[j] = a.blocks[j]
  BY <1>1, <1>2
<1>4. \A r \in b.live : Placed(b, r)
  BY <1>1, <1>2, <1>3 DEF ArenaInv, Placed
<1>5. \A j \in 1..Len(b.blocks) : b.blocks[j].base \in Bases /\ b.blocks[j].offset <= BLOCK_SIZE
  BY <1>1, <1>3 DEF ArenaInv
<1>6. \A r, s \in b.live : r # s => ~ Overlap(r, s)
  BY <1>2 DEF ArenaInv
<1> HIDE DEF b
<1>7. ArenaInv(b)
  BY <1>1, <1>2, <1>3, <1>4, <1>5, <1>6 DEF ArenaInv
<1> QED
  BY <1>7 DEF b

\* alloc_aligned keeps the invariant for the requests callers make.
LEMMA AllocSafe ==
  ASSUME NEW a, ArenaInv(a), NEW q \in Requests, NEW f \in Bases \cup {Null}
  PROVE  ArenaInv(div0_arena_alloc_aligned(a, q.size, q.alignment, f))
<1> DEFINE n == AlignUp(q.size, q.alignment)
           block == a.blocks[a.current]
           next == a.current + 1
           here == aligned_offset(block.base, block.offset, q.alignment)
<1>1. q.size \in Nat /\ q.alignment \in Nat \ {0} /\ BLOCK_SIZE \in Nat /\ Bases \subseteq Nat
  BY ArenaAssumption DEF Request
<1>2. /\ a.blocks \in Seq(Block) /\ a.current \in 1..Len(a.blocks)
      /\ block.base \in Nat /\ block.offset \in Nat
  <2>1. a.blocks \in Seq(Block) /\ a.current \in 1..Len(a.blocks)
    BY DEF ArenaInv, ArenaType
  <2>2. block \in Block
    BY <2>1
  <2> QED
    BY <2>1, <2>2 DEF Block
<1>3. n \in Nat /\ here \in Nat /\ here >= block.offset
  BY <1>1, <1>2, AlignUpBounds, AlignedOffsetBounds, Zenon
<1>4. ASSUME NEW base \in Bases, n <= BLOCK_SIZE
      PROVE  /\ aligned_offset(base, 0, q.alignment) \in Nat
             /\ aligned_offset(base, 0, q.alignment) + n <= BLOCK_SIZE
  <2>1. aligned_offset(base, 0, q.alignment) \in Nat
    BY <1>1, AlignedOffsetBounds, Zenon
  <2>2. n > BLOCK_SIZE \/ aligned_offset(base, 0, q.alignment) + n <= BLOCK_SIZE
    BY ArenaAssumption
  <2> QED
    BY <1>1, <1>3, <1>4, <2>1, <2>2
<1>5. CASE ~ CanAlloc(a, q.size, q.alignment, f)
  BY <1>5 DEF div0_arena_alloc_aligned
<1>6. CASE CanAlloc(a, q.size, q.alignment, f) /\ here + n <= BLOCK_SIZE
  <2>1. ArenaInv(Bump(a, a.current, here, n))
    BY <1>2, <1>3, <1>6, BumpSafe
  <2> QED
    BY <1>6, <2>1 DEF div0_arena_alloc_aligned
<1>7. CASE CanAlloc(a, q.size, q.alignment, f) /\ ~ (here + n <= BLOCK_SIZE) /\ next <= Len(a.blocks)
  <2>1. n <= BLOCK_SIZE /\ next \in 1..Len(a.blocks) /\ a.blocks[next].base \in Bases
    BY <1>2, <1>7 DEF CanAlloc, ArenaInv
  <2>2. next # a.current
    BY <1>2
  <2> DEFINE from == aligned_offset(a.blocks[next].base, 0, q.alignment)
  <2>3. from \in Nat /\ from + n <= BLOCK_SIZE
    BY <1>4, <2>1
  <2> HIDE DEF n, from, next, here
  <2>4. ArenaInv(Bump(a, next, from, n))
    BY <1>3, <2>1, <2>2, <2>3, BumpSafe DEF next
  <2> QED
    BY <1>7, <2>4 DEF div0_arena_alloc_aligned, n, from, next, here
<1>8. CASE CanAlloc(a, q.size, q.alignment, f) /\ ~ (here + n <= BLOCK_SIZE) /\ ~ (next <= Len(a.blocks))
  <2> DEFINE b == Extended(a, f)
             from == aligned_offset(f, 0, q.alignment)
  <2>1. n <= BLOCK_SIZE /\ a.current = Len(a.blocks) /\ f \in Bases
    BY <1>2, <1>8 DEF CanAlloc
  <2>2. ArenaInv(b)
    BY <2>1, AppendSafe
  <2>3. b.current = a.current /\ next \in 1..Len(b.blocks) /\ next # b.current
    BY <1>2, <2>1 DEF Extended
  <2>4. from \in Nat /\ from + n <= BLOCK_SIZE
    BY <1>4, <2>1
  <2> HIDE DEF n, from, next, here, b
  <2>5. ArenaInv(Bump(b, next, from, n))
    BY <1>3, <2>2, <2>3, <2>4, BumpSafe DEF next
  <2> QED
    BY <1>8, <2>5 DEF div0_arena_alloc_aligned, n, from, next, here, b
<1> QED
  BY <1>5, <1>6, <1>7, <1>8

\* So does alloc_large: its region is alone in a block with room for the alignment.
LEMMA AllocLargeSafe ==
  ASSUME NEW a, ArenaInv(a), NEW q \in LargeRequests, NEW f \in Bases \cup {Null}
  PROVE  ArenaInv(div0_arena_alloc_large(a, q.size, q.alignment, f))
<1> DEFINE n == AlignUp(q.size, q.alignment)
           from == aligned_offset(f, 0, q.alignment)
           k == Len(a.large_blocks) + 1
           large == [base |-> f, size |-> n + q.alignment]
           new == [id |-> a.handed, block |-> -k, from |-> from, to |-> from + n]
           b == div0_arena_alloc_large(a, q.size, q.alignment, f)
<1>1. CASE q.size = 0 \/ f = Null
  BY <1>1 DEF div0_arena_alloc_large
<1>2. CASE q.size # 0 /\ f # Null
  <2>1. /\ q.size \in Nat /\ q.alignment \in Nat \ {0} /\ f \in Bases /\ f \in Nat
    BY <1>2, ArenaAssumption DEF Request
  <2>2. n \in Nat /\ from \in Nat /\ from < q.alignment
    <3>1. n \in Nat
      BY <2>1, AlignUpBounds, Zenon
    <3>2. from \in Nat /\ from < 0 + q.alignment
      BY <2>1, AlignedOffsetBounds, Zenon
    <3> QED
      BY <2>1, <3>1, <3>2
  <2>3. /\ b.blocks = a.blocks /\ b.current = a.current /\ b.live = a.live \cup {new}
        /\ b.large_blocks = Append(a.large_blocks, large)
    BY <1>2 DEF div0_arena_alloc_large
  <2>4. /\ a.blocks \in Seq(Block) /\ a.current \in 1..Len(a.blocks) /\ a.live \subseteq Region
        /\ a.large_blocks \in Seq([base : Nat, size : Nat]) /\ a.handed \in Nat
    BY DEF ArenaInv, ArenaType
  <2>5. /\ large \in [base : Nat, size : Nat] /\ large.size = n + q.alignment
        /\ new \in Region /\ new.block = -k /\ new.to = from + n /\ k \in Nat /\ k > 0
    <3>1. k \in Nat /\ k > 0
      BY <2>4
    <3>2. large \in [base : Nat, size : Nat] /\ large.size = n + q.alignment
      BY <2>1, <2>2
    <3>3. from + n \in Nat /\ -k \in Int
      BY <2>1, <2>2, <3>1
    <3>4. new \in Region /\ new.block = -k /\ new.to = from + n
      BY <2>2, <2>4, <3>3 DEF Region
    <3> QED
      BY <3>1, <3>2, <3>4
  <2>6. b \in ArenaType
    BY <1>2, <2>4, <2>5 DEF div0_arena_alloc_large, ArenaType
  <2> HIDE DEF b, new, large, n, from
  <2>7. /\ Len(b.large_blocks) = k /\ b.large_blocks[k] = large
        /\ \A j \in 1..Len(a.large_blocks) : b.large_blocks[j] = a.large_blocks[j]
    BY <2>3, <2>4, <2>5
  <2>8. Placed(b, new)
    <3>1. -new.block = k /\ new.to <= large.size
      BY <2>1, <2>2, <2>5
    <3> QED
      BY <2>5, <2>7, <3>1 DEF Placed
  <2>9. ASSUME NEW r \in a.live
        PROVE  Placed(b, r) /\ r.block # new.block
    <3>1. Placed(a, r) /\ r.block \in Int
      BY <2>4 DEF ArenaInv, Region
    <3>2. CASE r.block \in 1..a.current /\ r.to <= a.blocks[r.block].offset
      BY <2>3, <2>5, <3>1, <3>2 DEF Placed
    <3>3. CASE -r.block \in 1..Len(a.large_blocks) /\ r.to <= a.large_blocks[-r.block].size
      <4>1. -r.block \in 1..Len(b.large_blocks) /\ -r.block # k
        BY <2>4, <2>7, <3>1, <3>3
      <4>2. b.large_blocks[-r.block] = a.large_blocks[-r.block]
        BY <2>7, <3>3
      <4>3. Placed(b, r)
        BY <3>3, <4>1, <4>2 DEF Placed
      <4> QED
        BY <2>5, <3>1, <4>1, <4>3
    <3> QED
      BY <3>1, <3>2, <3>3 DEF Placed
  <2>10. \A r, s \in b.live : r # s => ~ Overlap(r, s)
    BY <2>3, <2>9 DEF ArenaInv, Overlap
  <2>11. ArenaInv(b)
    BY <2>3, <2>6, <2>8, <2>9, <2>10 DEF ArenaInv
  <2> QED
    BY <2>11 DEF b
<1> QED
  BY <1>1, <1>2

\* And reset, which leaves nothing live.
LEMMA ResetSafe ==
  ASSUME NEW a, ArenaInv(a)
  PROVE  ArenaInv(div0_arena_reset(a))
<1> DEFINE b == div0_arena_reset(a)
           blocks == [i \in 1..Len(a.blocks) |-> [base |-> a.blocks[i].base, offset |-> 0]]
<1>1. /\ b.blocks = blocks /\ b.current = 1 /\ b.large_blocks = <<>> /\ b.live = {}
  BY DEF div0_arena_reset
<1>2. a.blocks \in Seq(Block) /\ Len(a.blocks) \in Nat /\ Len(a.blocks) >= 1
  BY DEF ArenaInv, ArenaType
<1>3. \A i \in 1..Len(a.blocks) :
        /\ blocks[i] \in Block /\ blocks[i].base = a.blocks[i].base /\ blocks[i].offset = 0
  <2>1. \A i \in 1..Len(a.blocks) : a.blocks[i] \in Block
    BY <1>2
  <2> QED
    BY <2>1 DEF Block
<1>4. blocks \in Seq(Block) /\ Len(blocks) = Len(a.blocks)
  <2>1. blocks \in [1..Len(a.blocks) -> Block]
    BY <1>3, Zenon
  <2> HIDE DEF blocks
  <2> QED
    BY <1>2, <2>1
<1>5. b \in ArenaType
  BY <1>4 DEF div0_arena_reset, ArenaType
<1> HIDE DEF b, blocks
<1>6. ArenaInv(b)
  BY <1>1, <1>2, <1>3, <1>4, <1>5, ArenaAssumption DEF ArenaInv
<1> QED
  BY <1>6 DEF b

\* div0_arena_init leaves one empty block and nothing handed out.
LEMMA InitSafe ==
  ASSUME NEW f \in Bases
  PROVE  ArenaInv(div0_arena_init(f))
<1>1. f \in Nat /\ BLOCK_SIZE \in Nat
  BY ArenaAssumption
<1> QED
  BY <1>1 DEF ArenaInv, ArenaType, Block, div0_arena_init

\* Whatever sequence of allocations, large allocations, failures of malloc and resets an
\* arena goes through, what callers hold never overlaps and never leaves its block.
THEOREM ArenaIsSafe == ArenaSpec => []ArenaSafe
<1>1. ArenaInit => ArenaInv(arena)
  BY InitSafe DEF ArenaInit
<1>2. ArenaInv(arena) /\ [ArenaNext]_arena => ArenaInv(arena)'
  <2> SUFFICES ASSUME ArenaInv(arena), [ArenaNext]_arena
               PROVE  ArenaInv(arena)'
    OBVIOUS
  <2>1. CASE \E q \in Requests : Alloc(q)
    BY <2>1, AllocSafe DEF Alloc, Fresh
  <2>2. CASE \E q \in LargeRequests : AllocLarge(q)
    BY <2>2, AllocLargeSafe DEF AllocLarge
  <2>3. CASE Reset
    BY <2>3, ResetSafe DEF Reset
  <2>4. CASE UNCHANGED arena
    BY <2>4
  <2> QED
    BY <2>1, <2>2, <2>3, <2>4 DEF ArenaNext
<1>3. ArenaInv(arena) => ArenaSafe
  <2> SUFFICES ASSUME ArenaInv(arena), NEW r \in arena.live
               PROVE  r.to <= BlockSize(arena, r)
    BY DEF ArenaInv, ArenaSafe
  <2>1. /\ Placed(arena, r) /\ r.block \in Int /\ r.to \in Nat
        /\ arena.blocks \in Seq(Block) /\ arena.current \in 1..Len(arena.blocks)
    BY DEF ArenaInv, ArenaType, Region
  <2>2. CASE r.block \in 1..arena.current /\ r.to <= arena.blocks[r.block].offset
    <3>1. r.block \in 1..Len(arena.blocks)
      BY <2>1, <2>2
    <3>2. arena.blocks[r.block] \in Block /\ arena.blocks[r.block].offset <= BLOCK_SIZE
      BY <2>1, <3>1 DEF ArenaInv
    <3>3. arena.blocks[r.block].offset \in Nat
      BY <3>2 DEF Block
    <3> QED
      BY <2>1, <2>2, <3>2, <3>3, ArenaAssumption DEF BlockSize
  <2>3. CASE -r.block \in 1..Len(arena.large_blocks) /\ r.to <= arena.large_blocks[-r.block].size
    BY <2>1, <2>3 DEF BlockSize
  <2> QED
    BY <2>1, <2>2, <2>3 DEF Placed
<1> QED
  BY <1>1, <1>2, <1>3, PTL DEF ArenaSpec
=============================================================================
