------------------------------- MODULE TrieMap -------------------------------
(***************************************************************************)
(* What the trie's interface promises: a map from keys to values in which  *)
(* an empty value differs from no value, and a deletion that reports       *)
(* whether the key was there.                                              *)
(***************************************************************************)
CONSTANTS Key, Value, None

VARIABLES map, result

vars == <<map, result>>

Init == map = [k \in Key |-> None] /\ result = TRUE

Insert(k, v) == map' = [map EXCEPT ![k] = v] /\ result' = TRUE

Delete(k) == map' = [map EXCEPT ![k] = None] /\ result' = (map[k] # None)

Clear == map' = [k \in Key |-> None] /\ UNCHANGED result

Next ==
  \/ \E k \in Key : Delete(k) \/ \E v \in Value : Insert(k, v)
  \/ Clear

Spec == Init /\ [][Next]_vars
=============================================================================
