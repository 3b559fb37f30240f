--------------------------- MODULE MCStateAccess ---------------------------
(* Small sets for StateAccess: one address, one slot, with and without code. *)
EXTENDS StateAccess

CONSTANTS a1, s1, c1

OneAddress == {a1}

OneSlot == {s1}

TwoCodes == {EmptyCode, c1}
=============================================================================
