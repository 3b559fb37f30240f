----------------------------- MODULE AccountMap -----------------------------
(***************************************************************************)
(* What the state access interface promises a client that only sees its    *)
(* getters: four total maps, each call changing one entry of one of them.  *)
(* There are no tries, no dirty or tracking sets, and no notion of an      *)
(* account that exists or is dropped for being empty.                      *)
(***************************************************************************)
EXTENDS Naturals

CONSTANTS Address, Slot, Code, EmptyCode, Balance, Nonce, Word

VARIABLES balance, nonce, code_hash, storage

vars == <<balance, nonce, code_hash, storage>>

ZeroStorage == [s \in Slot |-> 0]

Init ==
  /\ balance = [a \in Address |-> 0]
  /\ nonce = [a \in Address |-> 0]
  /\ code_hash = [a \in Address |-> EmptyCode]
  /\ storage = [a \in Address |-> ZeroStorage]

SetBalance(a, b) ==
  balance' = [balance EXCEPT ![a] = b] /\ UNCHANGED <<nonce, code_hash, storage>>

SetNonce(a, n) ==
  nonce' = [nonce EXCEPT ![a] = n] /\ UNCHANGED <<balance, code_hash, storage>>

SetCode(a, c) ==
  code_hash' = [code_hash EXCEPT ![a] = c] /\ UNCHANGED <<balance, nonce, storage>>

SetStorage(a, s, v) ==
  storage' = [storage EXCEPT ![a][s] = v] /\ UNCHANGED <<balance, nonce, code_hash>>

Delete(a) ==
  /\ balance' = [balance EXCEPT ![a] = 0]
  /\ nonce' = [nonce EXCEPT ![a] = 0]
  /\ code_hash' = [code_hash EXCEPT ![a] = EmptyCode]
  /\ storage' = [storage EXCEPT ![a] = ZeroStorage]

Clear ==
  /\ balance' = [a \in Address |-> 0]
  /\ nonce' = [a \in Address |-> 0]
  /\ code_hash' = [a \in Address |-> EmptyCode]
  /\ storage' = [a \in Address |-> ZeroStorage]

Next ==
  \/ \E a \in Address :
       \/ \E b \in Balance : SetBalance(a, b)
       \/ \E n \in Nonce : SetNonce(a, n)
       \/ \E c \in Code : SetCode(a, c)
       \/ \E s \in Slot, v \in Word : SetStorage(a, s, v)
       \/ Delete(a)
  \/ Clear

Spec == Init /\ [][Next]_vars
=============================================================================
