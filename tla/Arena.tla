------------------------------- MODULE Arena -------------------------------
(***************************************************************************)
(* The arena allocator of include/div0/mem/arena.h: chained blocks of one  *)
(* size that are filled by moving an offset, a separate chain of large     *)
(* blocks, and a reset that keeps the regular blocks for reuse.            *)
(*                                                                         *)
(* A block is its offset and the address of data[0] modulo the largest     *)
(* alignment, base, which malloc chooses among Bases.  arena.live and      *)
(* arena.handed are history: the regions handed out since the last reset,  *)
(* which callers may still use, and how many there are, to tell them       *)
(* apart.  The region of the k-th large block has block number -k.         *)
(***************************************************************************)
EXTENDS Integers, Sequences

CONSTANTS BLOCK_SIZE,       \* DIV0_ARENA_BLOCK_SIZE
          ALIGNMENT,        \* DIV0_ARENA_ALIGNMENT
          Bases,            \* where malloc may place a block
          Requests,         \* the sizes and alignments callers ask for
          LargeRequests,
          Null,
          MaxBlocks         \* bound: regular blocks malloc can provide

Request == [size : Nat, alignment : Nat \ {0}]

\* x rounded up to a multiple of al.
AlignUp(x, al) == x + ((al - (x % al)) % al)

\* The first offset at or after offset whose address is aligned.
aligned_offset(base, offset, al) == AlignUp(base + offset, al) - base

\* What callers ask of alloc_aligned fits into an empty block also where its data
\* does not start at a multiple of the alignment: only trie nodes, far smaller than
\* a block, ask for more than malloc's own alignment.
ASSUME ArenaAssumption ==
  /\ BLOCK_SIZE \in Nat
  /\ ALIGNMENT \in Nat \ {0}
  /\ Bases \subseteq Nat
  /\ Null \notin Nat
  /\ Requests \subseteq Request /\ LargeRequests \subseteq Request
  /\ \A q \in Requests, b \in Bases :
       \/ AlignUp(q.size, q.alignment) > BLOCK_SIZE
       \/ aligned_offset(b, 0, q.alignment) + AlignUp(q.size, q.alignment) <= BLOCK_SIZE
  /\ MaxBlocks \in Nat \ {0}

VARIABLE arena

Block == [base : Nat, offset : Nat]

Region == [id : Nat, block : Int, from : Nat, to : Nat]

ArenaType ==
  [blocks : Seq(Block), current : Nat, large_blocks : Seq([base : Nat, size : Nat]),
   live : SUBSET Region, handed : Nat]

div0_arena_init(base) ==
  [blocks |-> <<[base |-> base, offset |-> 0]>>, current |-> 1, large_blocks |-> <<>>,
   live |-> {}, handed |-> 0]

\* n bytes at offset from of block i, which becomes the current one.
Bump(a, i, from, n) ==
  [blocks |-> [a.blocks EXCEPT ![i] = [base |-> a.blocks[i].base, offset |-> from + n]],
   current |-> i, large_blocks |-> a.large_blocks,
   live |-> a.live \cup {[id |-> a.handed, block |-> i, from |-> from, to |-> from + n]},
   handed |-> a.handed + 1]

\* A new block after the last one.
Extended(a, base) ==
  [blocks |-> Append(a.blocks, [base |-> base, offset |-> 0]), current |-> a.current,
   large_blocks |-> a.large_blocks, live |-> a.live, handed |-> a.handed]

\* Whether alloc_aligned can serve a request: fresh is where malloc places a new block,
\* Null when it has none.
CanAlloc(a, size, al, fresh) ==
  LET block == a.blocks[a.current]
  IN  /\ size # 0
      /\ AlignUp(size, al) <= BLOCK_SIZE
      /\ \/ aligned_offset(block.base, block.offset, al) + AlignUp(size, al) <= BLOCK_SIZE
         \/ a.current < Len(a.blocks)
         \/ fresh # Null

div0_arena_alloc_aligned_Mutant(a, size, al, fresh) ==
  LET n == AlignUp(size, al)
      block == a.blocks[a.current]
      next == a.current + 1
      here == aligned_offset(block.base, block.offset, al)
  IN  IF ~ CanAlloc(a, size, al, fresh) THEN a
      ELSE IF here + n <= BLOCK_SIZE THEN Bump(a, a.current, here, n)
      ELSE IF next <= Len(a.blocks) THEN
        [Bump(a, next, aligned_offset(a.blocks[next].base, 0, al), n) EXCEPT !.current = a.current]
      ELSE
        Bump(Extended(a, fresh), next, aligned_offset(fresh, 0, al), n)

\* The arena after alloc_aligned: the current block if it has room, else the block after
\* it, which is either there from before a reset or new.  Neither the offset nor the room
\* of that block is looked at.
div0_arena_alloc_aligned(a, size, al, fresh) ==
  LET n == AlignUp(size, al)
      block == a.blocks[a.current]
      next == a.current + 1
      here == aligned_offset(block.base, block.offset, al)
  IN  IF ~ CanAlloc(a, size, al, fresh) THEN a
      ELSE IF here + n <= BLOCK_SIZE THEN Bump(a, a.current, here, n)
      ELSE IF next <= Len(a.blocks) THEN
        Bump(a, next, aligned_offset(a.blocks[next].base, 0, al), n)
      ELSE
        Bump(Extended(a, fresh), next, aligned_offset(fresh, 0, al), n)

div0_arena_alloc(a, size, fresh) == div0_arena_alloc_aligned(a, size, ALIGNMENT, fresh)

\* Where malloc may place the next regular block.
Fresh(a) == {Null} \cup {b \in Bases : Len(a.blocks) < MaxBlocks}

\* A block of its own, large enough for the alignment wherever malloc places it.
div0_arena_alloc_large(a, size, al, fresh) ==
  LET n == AlignUp(size, al)
      from == aligned_offset(fresh, 0, al)
  IN  IF size = 0 \/ fresh = Null THEN a
      ELSE [blocks |-> a.blocks, current |-> a.current,
            large_blocks |-> Append(a.large_blocks, [base |-> fresh, size |-> n + al]),
            live |-> a.live \cup {[id |-> a.handed, block |-> -(Len(a.large_blocks) + 1),
                                   from |-> from, to |-> from + n]},
            handed |-> a.handed + 1]

\* All previous allocations become invalid; the regular blocks stay.
div0_arena_reset(a) ==
  [blocks |-> [i \in 1..Len(a.blocks) |-> [base |-> a.blocks[i].base, offset |-> 0]],
   current |-> 1, large_blocks |-> <<>>, live |-> {}, handed |-> 0]
-----------------------------------------------------------------------------
(* Any use of an arena. *)

ArenaInit == \E b \in Bases : arena = div0_arena_init(b)

Alloc(q) == \E f \in Fresh(arena) :
  arena' = div0_arena_alloc_aligned(arena, q.size, q.alignment, f)

AllocLarge(q) == \E f \in Bases \cup {Null} :
  arena' = div0_arena_alloc_large(arena, q.size, q.alignment, f)

Reset == arena' = div0_arena_reset(arena)

ArenaNext ==
  \/ \E q \in Requests : Alloc(q)
  \/ \E q \in LargeRequests : AllocLarge(q)
  \/ Reset

ArenaSpec == ArenaInit /\ [][ArenaNext]_arena
-----------------------------------------------------------------------------
\* The size of the block a region lies in.
BlockSize(a, r) ==
  IF r.block > 0 THEN BLOCK_SIZE ELSE a.large_blocks[-r.block].size

Overlap(r, s) == r.block = s.block /\ r.from < s.to /\ s.from < r.to

\* What callers hold is theirs alone: no two regions handed out since the last reset
\* overlap, and each lies within its block, although a block taken up again after a
\* reset is entered by overwriting its offset and without asking whether the request
\* fits.
ArenaSafe ==
  /\ \A r \in arena.live : r.to <= BlockSize(arena, r)
  /\ \A r, s \in arena.live : r # s => ~ Overlap(r, s)
=============================================================================
