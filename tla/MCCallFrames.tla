---------------------------- MODULE MCCallFrames ----------------------------
(* Two contracts, one slot, a pool of a few frames; prices scaled down. *)
EXTENDS CallFrames

CONSTANTS a1, a2, s1

TwoAddresses == {a1, a2}

OneSlot == {s1}

NoCode == {EmptyCode}
=============================================================================
