------------------------- MODULE MCStorageMetering -------------------------
(* One contract with two interchangeable slots, at the prices of gas.h. *)
EXTENDS StorageMetering, TLC

CONSTANTS a1, s1, s2

OneAddress == {a1}

TwoSlots == {s1, s2}

NoCode == {EmptyCode}

SlotSymmetry == Permutations(TwoSlots)
=============================================================================
