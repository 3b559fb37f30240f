--------------------------------- MODULE Mpt ---------------------------------
(***************************************************************************)
(* The Merkle Patricia trie of src/trie: mpt.c over the in-memory backend, *)
(* with the nodes of node.c, the nibble paths of nibbles.c and the         *)
(* hex-prefix encoding of hex_prefix.c.                                    *)
(*                                                                         *)
(* A node is the tree below it.  A reference holds, next to the child, the *)
(* encoding the child had when the reference was made: a reference to a    *)
(* child that changed since is stale, as in the code.  A hash is its       *)
(* preimage, so embedded and hashed references need not be told apart.  A  *)
(* recursive function gets the part of the key that its offset leaves.     *)
(* Allocation succeeds.                                                    *)
(*                                                                         *)
(* The operators named ..._Mutant are plausible mistakes in the definition *)
(* that follows them; no specification uses them.                          *)
(***************************************************************************)
EXTENDS Naturals, SequencesExt

CONSTANTS NibbleSize,  \* 16; at least 4, for the two flags of a hex prefix
          Key,         \* keys, sequences of bytes
          Value,       \* values
          EmptyValue,  \* the value of length zero
          None         \* nullptr

Nibble == 0..(NibbleSize - 1)

Byte == 0..(NibbleSize * NibbleSize - 1)

ASSUME MptAssumption ==
  /\ NibbleSize \in Nat /\ NibbleSize >= 4
  /\ Key \subseteq Seq(Byte)
  /\ EmptyValue \in Value
  /\ None \notin Value

VARIABLES root,    \* root node of the backend
          result   \* what the last mpt_insert or mpt_delete returned

vars == <<root, result>>
-----------------------------------------------------------------------------
\* Nibbles and the hex-prefix encoding

nibbles_from_bytes(bytes) ==
  FlattenSeq([i \in DOMAIN bytes |-> <<bytes[i] \div NibbleSize, bytes[i] % NibbleSize>>])

nibbles_slice(path, start) == SubSeq(path, start + 1, Len(path))

find_divergence(path, key) ==
  Cardinality({i \in 1..Len(path) : i <= Len(key) /\ \A j \in 1..i : path[j] = key[j]})

Pairs(nibbles) ==
  [i \in 1..(Len(nibbles) \div 2) |-> nibbles[2 * i - 1] * NibbleSize + nibbles[2 * i]]

\* Bit 0 of the flags marks an odd path, whose first nibble shares their byte.
hex_prefix_encode(nibbles, is_leaf) ==
  LET is_odd == Len(nibbles) % 2 = 1
      flags == (IF is_leaf THEN 2 ELSE 0) + (IF is_odd THEN 1 ELSE 0)
  IN  IF is_odd
      THEN <<flags * NibbleSize + Head(nibbles)>> \o Pairs(Tail(nibbles))
      ELSE <<flags * NibbleSize>> \o Pairs(nibbles)

hex_prefix_decode(data) ==
  LET flags == (data[1] \div NibbleSize) % 4
      rest == nibbles_from_bytes(Tail(data))
  IN  [is_leaf |-> flags \div 2 = 1,
       nibbles |-> IF flags % 2 = 1 THEN <<data[1] % NibbleSize>> \o rest ELSE rest]
-----------------------------------------------------------------------------
\* Nodes and references

mpt_node_leaf(path, value) ==
  [type |-> "leaf", path |-> path, value |-> value, cached_hash |-> None]

mpt_node_extension(path, ref) ==
  [type |-> "extension", path |-> path, child |-> ref, cached_hash |-> None]

mpt_node_branch ==
  [type |-> "branch", children |-> [n \in Nibble |-> None], value |-> None,
   cached_hash |-> None]

\* A null reference and an absent value are both encoded as the empty string.
encode_node_ref(ref) == IF ref = None THEN EmptyValue ELSE ref.encoded

encode_value(value) == IF value = None THEN EmptyValue ELSE value

mpt_node_encode(node) ==
  CASE node.type = "leaf" -> <<hex_prefix_encode(node.path, TRUE), encode_value(node.value)>>
    [] node.type = "extension" ->
         <<hex_prefix_encode(node.path, FALSE), encode_node_ref(node.child)>>
    [] node.type = "branch" ->
         Append([i \in 1..NibbleSize |-> encode_node_ref(node.children[i - 1])],
                encode_value(node.value))

mpt_node_ref(node) == [node |-> node, encoded |-> mpt_node_encode(node)]

mpt_node_hash(node) ==
  IF node.cached_hash # None THEN node.cached_hash ELSE mpt_node_encode(node)

mpt_node_invalidate_hash_Mutant(node) == node

mpt_node_invalidate_hash(node) == [node EXCEPT !.cached_hash = None]
-----------------------------------------------------------------------------
\* Insertion

\* The entry of a key whose remaining path is path, below a new branch.
AddEntry(branch, path, value) ==
  IF path = <<>>
  THEN [branch EXCEPT !.value = value]
  ELSE [branch EXCEPT !.children[Head(path)] = mpt_node_ref(mpt_node_leaf(Tail(path), value))]

AddSubtrie_Mutant(branch, path, ref) ==
  [branch EXCEPT !.children[Head(path)] = mpt_node_ref(mpt_node_extension(Tail(path), ref))]

\* What an extension led to, below a new branch that takes the first nibble of
\* what remains of its path.
AddSubtrie(branch, path, ref) ==
  [branch EXCEPT !.children[Head(path)] =
     IF Len(path) > 1 THEN mpt_node_ref(mpt_node_extension(Tail(path), ref)) ELSE ref]

UnderPrefix(prefix, branch) ==
  IF prefix = <<>> THEN branch ELSE mpt_node_extension(prefix, mpt_node_ref(branch))

RECURSIVE insert_recursive(_, _, _)

InsertAtLeaf(node, key, value) ==
  IF node.path = key
  THEN mpt_node_invalidate_hash([node EXCEPT !.value = value])
  ELSE LET match_len == find_divergence(node.path, key)
           old == AddEntry(mpt_node_branch, nibbles_slice(node.path, match_len), node.value)
       IN  UnderPrefix(SubSeq(key, 1, match_len),
                       AddEntry(old, nibbles_slice(key, match_len), value))

InsertAtExtension(node, key, value) ==
  LET match_len == find_divergence(node.path, key)
      rest == nibbles_slice(key, match_len)
      old == AddSubtrie(mpt_node_branch, nibbles_slice(node.path, match_len), node.child)
  IN  IF match_len = Len(node.path)
      THEN mpt_node_invalidate_hash(
             [node EXCEPT !.child = mpt_node_ref(insert_recursive(node.child.node, rest, value))])
      ELSE UnderPrefix(SubSeq(key, 1, match_len), AddEntry(old, rest, value))

InsertAtBranch(node, key, value) ==
  mpt_node_invalidate_hash(
    IF key = <<>>
    THEN [node EXCEPT !.value = value]
    ELSE LET ref == node.children[Head(key)]
             child == IF ref = None THEN mpt_node_leaf(Tail(key), value)
                      ELSE insert_recursive(ref.node, Tail(key), value)
         IN  [node EXCEPT !.children[Head(key)] = mpt_node_ref(child)])

insert_recursive(node, key, value) ==
  IF node = None THEN mpt_node_leaf(key, value)
  ELSE CASE node.type = "leaf" -> InsertAtLeaf(node, key, value)
         [] node.type = "extension" -> InsertAtExtension(node, key, value)
         [] node.type = "branch" -> InsertAtBranch(node, key, value)
-----------------------------------------------------------------------------
\* Deletion

NonNull(branch) == {n \in Nibble : branch.children[n] # None}

\* path in front of what node holds.  Only extensions get here with a path of more
\* than one nibble.
Lengthen(path, node) ==
  CASE node.type = "leaf" -> mpt_node_leaf(path \o node.path, node.value)
    [] node.type = "extension" -> mpt_node_extension(path \o node.path, node.child)
    [] node.type = "branch" -> mpt_node_extension(path, mpt_node_ref(node))

collapse_branch_Mutant(branch) ==
  CASE NonNull(branch) = {} /\ branch.value # None -> mpt_node_leaf(<<>>, branch.value)
    [] OTHER -> mpt_node_invalidate_hash(branch)

collapse_branch_Mutant2(branch) ==
  CASE NonNull(branch) = {} /\ branch.value # None -> mpt_node_leaf(<<>>, branch.value)
    [] \E n \in Nibble : NonNull(branch) = {n} ->
         LET n == CHOOSE n \in Nibble : NonNull(branch) = {n}
         IN  Lengthen(<<n>>, branch.children[n].node)
    [] OTHER -> mpt_node_invalidate_hash(branch)

collapse_branch(branch) ==
  CASE NonNull(branch) = {} /\ branch.value # None -> mpt_node_leaf(<<>>, branch.value)
    [] branch.value = None /\ \E n \in Nibble : NonNull(branch) = {n} ->
         LET n == CHOOSE n \in Nibble : NonNull(branch) = {n}
         IN  Lengthen(<<n>>, branch.children[n].node)
    [] OTHER -> mpt_node_invalidate_hash(branch)

NotFound(node) == [status |-> "DELETE_NOT_FOUND", node |-> node]

Updated(node) == [status |-> "DELETE_UPDATED", node |-> node]

Removed == [status |-> "DELETE_REMOVED", node |-> None]

RECURSIVE delete_recursive(_, _)

DeleteAtExtension(node, key) ==
  LET deleted == delete_recursive(node.child.node, nibbles_slice(key, Len(node.path)))
  IN  CASE ~ IsPrefix(node.path, key) \/ deleted.status = "DELETE_NOT_FOUND" -> NotFound(node)
        [] deleted.status = "DELETE_REMOVED" -> Removed
        [] deleted.node.type = "branch" ->
             Updated(mpt_node_invalidate_hash(
                       [node EXCEPT !.child = mpt_node_ref(deleted.node)]))
        [] OTHER -> Updated(Lengthen(node.path, deleted.node))

DeleteAtBranch(node, key) ==
  IF key = <<>>
  THEN IF node.value = None THEN NotFound(node)
       ELSE Updated(collapse_branch([node EXCEPT !.value = None]))
  ELSE LET ref == node.children[Head(key)]
           deleted == delete_recursive(ref.node, Tail(key))
           child == IF deleted.status = "DELETE_REMOVED" THEN None
                    ELSE mpt_node_ref(deleted.node)
       IN  IF ref = None \/ deleted.status = "DELETE_NOT_FOUND" THEN NotFound(node)
           ELSE Updated(collapse_branch([node EXCEPT !.children[Head(key)] = child]))

delete_recursive(node, key) ==
  CASE node.type = "leaf" -> IF node.path = key THEN Removed ELSE NotFound(node)
    [] node.type = "extension" -> DeleteAtExtension(node, key)
    [] node.type = "branch" -> DeleteAtBranch(node, key)
-----------------------------------------------------------------------------
\* The interface

RECURSIVE get_from(_, _)

\* The loop of mpt_get.
get_from(node, key) ==
  CASE node = None -> None
    [] node.type = "leaf" -> IF node.path = key THEN node.value ELSE None
    [] node.type = "extension" ->
         IF IsPrefix(node.path, key)
         THEN get_from(node.child.node, nibbles_slice(key, Len(node.path)))
         ELSE None
    [] node.type = "branch" ->
         IF key = <<>> THEN node.value
         ELSE IF node.children[Head(key)] = None THEN None
         ELSE get_from(node.children[Head(key)].node, Tail(key))

NibblesOf == [key \in Key |-> nibbles_from_bytes(key)]

mpt_get(key) == get_from(root, NibblesOf[key])

mpt_contains(key) == mpt_get(key) # None

mpt_root_hash == IF root = None THEN EmptyValue ELSE mpt_node_hash(root)

Init == root = None /\ result = TRUE

mpt_insert(key, value) ==
  /\ root' = insert_recursive(root, NibblesOf[key], value)
  /\ result' = TRUE

mpt_delete(key) ==
  LET deleted == IF root = None THEN NotFound(root)
                 ELSE delete_recursive(root, NibblesOf[key])
  IN  /\ root' = deleted.node
      /\ result' = (deleted.status # "DELETE_NOT_FOUND")

\* Asking for the root hash leaves it in the root node.
RootHash ==
  /\ root # None
  /\ root' = [root EXCEPT !.cached_hash = mpt_root_hash]
  /\ UNCHANGED result

mpt_clear == root' = None /\ UNCHANGED result

Next ==
  \/ \E key \in Key : mpt_delete(key) \/ \E value \in Value : mpt_insert(key, value)
  \/ RootHash
  \/ mpt_clear

Spec == Init /\ [][Next]_vars
-----------------------------------------------------------------------------
RECURSIVE WellFormed(_)

\* A leaf may hold any path; an extension has a path and leads to a branch; a
\* branch has at least two entries, its own value included.
WellFormed(node) ==
  CASE node.type = "leaf" -> node.path \in Seq(Nibble) /\ node.value \in Value
    [] node.type = "extension" ->
         /\ node.path \in Seq(Nibble) \ {<<>>}
         /\ node.child.node.type = "branch"
         /\ WellFormed(node.child.node)
    [] node.type = "branch" ->
         /\ node.value \in Value \cup {None}
         /\ Cardinality(NonNull(node)) + (IF node.value = None THEN 0 ELSE 1) >= 2
         /\ \A n \in NonNull(node) : WellFormed(node.children[n].node)

\* The nodes are those node.h describes: "child; // Reference to child (must be
\* branch)", and no insertion or deletion leaves an extension without a path or a
\* branch that a shorter node could replace.
TypeOK ==
  /\ root # None => WellFormed(root)
  /\ result \in BOOLEAN

TM == INSTANCE TrieMap WITH map <- [k \in Key |-> mpt_get(k)]

\* Seen through mpt_get, and through what mpt_delete returns, the trie is a map:
\* splitting, merging and collapsing nodes never touches the entry of another key,
\* and a key with an empty value is not a key without a value.
ImplementsTrieMap == TM!Spec

RECURSIVE Canonical(_)

\* The trie of a set of entries, built from the entries alone.
Canonical(entries) ==
  LET one == CHOOSE e \in entries : TRUE
      shared == Cardinality({i \in 1..Len(one.path) : \A e \in entries :
                               find_divergence(one.path, e.path) >= i})
      Below(n) == {[e EXCEPT !.path = Tail(@)] : e \in {f \in entries : f.path # <<>> /\ Head(f.path) = n}}
      here == {e \in entries : e.path = <<>>}
  IN  IF Cardinality(entries) = 1
      THEN mpt_node_leaf(one.path, one.value)
      ELSE IF shared > 0
      THEN mpt_node_extension(SubSeq(one.path, 1, shared), mpt_node_ref(
             Canonical({[e EXCEPT !.path = nibbles_slice(@, shared)] : e \in entries})))
      ELSE [mpt_node_branch EXCEPT
              !.children = [n \in Nibble |->
                 IF Below(n) = {} THEN None ELSE mpt_node_ref(Canonical(Below(n)))],
              !.value = IF here = {} THEN None ELSE (CHOOSE e \in here : TRUE).value]

Entries == {[path |-> NibblesOf[k], value |-> mpt_get(k)] : k \in {q \in Key : mpt_contains(q)}}

\* docs/merkle-patricia-trie.md: "Same data always produces same root hash".
\* Whatever insertions and deletions led to its entries, and whenever its hash was
\* asked for before, a trie has the root of the trie built from the entries alone.
RootIsCanonical ==
  mpt_root_hash = IF Entries = {} THEN EmptyValue ELSE mpt_node_encode(Canonical(Entries))

RECURSIVE ReadBack(_, _)

\* What someone who has only the encodings finds at the end of a path.
ReadBack(encoded, key) ==
  CASE encoded = EmptyValue -> EmptyValue
    [] encoded # EmptyValue /\ Len(encoded) = 2 ->
         LET path == hex_prefix_decode(encoded[1])
         IN  CASE path.is_leaf -> IF path.nibbles = key THEN encoded[2] ELSE EmptyValue
               [] ~ path.is_leaf /\ IsPrefix(path.nibbles, key) ->
                    ReadBack(encoded[2], nibbles_slice(key, Len(path.nibbles)))
               [] OTHER -> EmptyValue
    [] OTHER ->
         IF key = <<>> THEN encoded[NibbleSize + 1]
         ELSE ReadBack(encoded[Head(key) + 1], Tail(key))

\* docs/merkle-patricia-trie.md: "A single 32-byte root hash authenticates the
\* entire state".  The encodings below the root hash, which are made when a node is
\* referred to and not when the hash is asked for, lead to the current value of
\* every key: no reference and no cached hash is stale.  (An empty value is encoded
\* like none.)
RootCommitsToEntries ==
  \A k \in Key : ReadBack(mpt_root_hash, NibblesOf[k]) = encode_value(mpt_get(k))
=============================================================================
