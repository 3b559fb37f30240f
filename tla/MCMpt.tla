-------------------------------- MODULE MCMpt --------------------------------
(* Keys that are prefixes of each other, that share some nibbles, or none. *)
EXTENDS Mpt

CONSTANTS v1

SomeKeys == {<<>>, <<0>>, <<0, 0>>, <<0, 1>>, <<0, 4>>, <<5, 1>>}

TwoValues == {EmptyValue, v1}
=============================================================================
