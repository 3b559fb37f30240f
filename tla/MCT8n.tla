------------------------------- MODULE MCT8n -------------------------------
(* The blocks of MCBlockExecutor under the t8n command, with pre-states that  *)
(* hold contracts.                                                            *)
EXTENDS T8n, MCBlockExecutor

CONSTANT c2

ThreeCodes == {EmptyCode, c1, c2}

NoField == [balance |-> None, nonce |-> None, code |-> None, storage |-> None]

Rich == [NoField EXCEPT !.balance = 6]

\* One sender; two senders, a contract with storage and an entry that is zero; a
\* contract at the address that a1 creates; storage without an account; no balance.
SmallAllocs ==
  {[a \in {a1} |-> Rich],
   [a \in {a1, a2, a3} |->
      CASE a = a1 -> [NoField EXCEPT !.balance = 3]
        [] a = a2 -> [NoField EXCEPT !.balance = 2, !.storage = [s \in Slot |-> 0]]
        [] a = a3 -> [NoField EXCEPT !.balance = 1, !.nonce = 1, !.code = c1, !.storage = [s \in Slot |-> 1]]],
   [a \in {a1, a3} |->
      IF a = a1 THEN Rich ELSE [NoField EXCEPT !.balance = 0, !.code = c2]],
   [a \in {a2, a3} |->
      IF a = a2 THEN [Rich EXCEPT !.nonce = 0] ELSE [NoField EXCEPT !.balance = 0, !.storage = [s \in Slot |-> 1]]],
   [a \in {a1} |-> NoField]}

T8nTx == AllTx \cup FewTx \cup {[Base EXCEPT !.to = a3, !.value = v] : v \in {0, 1}}

SmallRewards == {-1, 0, 2}
=============================================================================
