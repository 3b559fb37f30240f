----------------------- MODULE StorageMeteringProofs -----------------------
(***************************************************************************)
(* Net gas metering for every set of contracts and slots, every word size  *)
(* and every price that GasAssumption allows.                              *)
(*                                                                         *)
(* NetMetering is not inductive: that the cold surcharge is paid once      *)
(* rests on the warm set, so MeterInv adds that a slot that is not warm    *)
(* has paid none.                                                          *)
(***************************************************************************)
EXTENDS StorageMetering, WorldStateProofs

MeterType ==
  /\ ws \in WorldStateType
  /\ ops \in [SlotKey -> Nat]
  /\ cold \in [SlotKey -> Int]
  /\ spent \in [SlotKey -> Int]
  /\ back \in [SlotKey -> Int]

ColdIsUnpaid == \A k \in SlotKey : k \notin ws.warm_slots => cold[k] = 0

MeterInv == MeterType /\ NetMetering /\ ColdIsUnpaid

\* Writing a slot changes its value and no other, and no original value.
LEMMA SetStorageView ==
  ASSUME NEW w \in WorldStateType, NEW a \in Address, NEW s \in Slot, NEW v \in Word,
         NEW b \in Address, NEW t \in Slot
  PROVE  LET x == set_storage(w, a, s, v)
         IN  /\ get_storage(x, b, t) = IF b = a /\ t = s THEN v ELSE get_storage(w, b, t)
             /\ get_original_storage(x, b, t) = get_original_storage(w, b, t)
             /\ x.warm_slots = w.warm_slots
<1> DEFINE x == set_storage(w, a, s, v)
<1>1. <<a, s>> \in SlotKey /\ <<b, t>> \in SlotKey /\ (<<a, s>> = <<b, t>> <=> a = b /\ s = t)
  BY DEF SlotKey
<1>2. /\ x.storage_tries = [w.storage_tries EXCEPT ![a] = [StorageOf(w, a) EXCEPT ![s] = v]]
      /\ x.original_storage = map_insert(w.original_storage, <<a, s>>, get_storage(w, a, s))
      /\ x.warm_slots = w.warm_slots
  BY DEF set_storage, WorldStateType
<1>3. StorageOf(w, a) \in Storage /\ [StorageOf(w, a) EXCEPT ![s] = v] \in Storage
  BY StorageOfType DEF Storage
<1>4. w.storage_tries \in [Address -> Storage \cup {None}]
      /\ w.original_storage \in [SlotKey -> Word \cup {None}]
  BY DEF WorldStateType
<1> HIDE DEF x
<1>5. StorageOf(x, b) = IF b = a THEN [StorageOf(w, a) EXCEPT ![s] = v] ELSE StorageOf(w, b)
  BY <1>2, <1>3, <1>4, NoneIsAbsent DEF StorageOf
<1>6. get_storage(x, b, t) = IF b = a /\ t = s THEN v ELSE get_storage(w, b, t)
  BY <1>3, <1>5 DEF get_storage, Storage
<1>7. get_storage(w, a, s) \in Word /\ get_storage(w, a, s) # None
  BY GetStorageType, NoneIsAbsent
<1>8. get_original_storage(x, b, t) = get_original_storage(w, b, t)
  <2>1. CASE b = a /\ t = s
    BY <1>1, <1>2, <1>4, <1>7, <2>1 DEF get_original_storage, map_insert
  <2>2. CASE ~ (b = a /\ t = s)
    BY <1>1, <1>2, <1>4, <1>6, <2>2 DEF get_original_storage, map_insert
  <2> QED
    BY <2>1, <2>2
<1> QED
  BY <1>2, <1>6, <1>8 DEF x

\* Warming a slot changes no value.
LEMMA WarmSlotView ==
  ASSUME NEW w \in WorldStateType, NEW a \in Address, NEW s \in Slot
  PROVE  LET x == warm_slot(w, a, s)
         IN  /\ x.warm_slots = w.warm_slots \cup {<<a, s>>}
             /\ \A b \in Address, t \in Slot :
                  /\ get_storage(x, b, t) = get_storage(w, b, t)
                  /\ get_original_storage(x, b, t) = get_original_storage(w, b, t)
<1> DEFINE x == warm_slot(w, a, s)
<1>1. /\ x.warm_slots = w.warm_slots \cup {<<a, s>>}
      /\ x.storage_tries = w.storage_tries /\ x.original_storage = w.original_storage
  BY DEF warm_slot, WorldStateType
<1> HIDE DEF x
<1>2. \A b \in Address, t \in Slot :
        /\ get_storage(x, b, t) = get_storage(w, b, t)
        /\ get_original_storage(x, b, t) = get_original_storage(w, b, t)
  BY <1>1 DEF get_storage, get_original_storage, StorageOf
<1> QED
  BY <1>1, <1>2 DEF x

\* The potential argument of net metering: writing new over current costs a warm read and
\* the difference of the potentials, once the refund is taken off.
LEMMA StoreMovesPotential ==
  ASSUME NEW original \in Word, NEW current \in Word, NEW new \in Word
  PROVE  /\ sstore_cost(FALSE, current, original, new) - sstore_refund(current, original, new)
              = GAS_WARM_STORAGE_READ + Potential(original, new) - Potential(original, current)
         /\ sstore_cost(TRUE, current, original, new)
              = GAS_COLD_SLOAD + sstore_cost(FALSE, current, original, new)
         /\ sstore_cost(FALSE, current, original, new) \in Int
         /\ sstore_refund(current, original, new) \in Int
         /\ Potential(original, new) \in Int /\ Potential(original, current) \in Int
BY GasAssumption, WorldStateAssumption
   DEF sstore_cost, sstore_refund, clear_refund, restore_refund, Potential, Word

\* What an operation on a slot must satisfy to preserve the invariant: it warms the slot,
\* charges the surcharge only when the slot was cold, and what it costs on a warm slot, less
\* its refund, is a warm read and the difference of the potentials.
LEMMA CountStep ==
  ASSUME MeterInv, NEW a \in Address, NEW s \in Slot,
         NEW cost \in Int, NEW warm \in Int, NEW refund \in Int,
         Count(<<a, s>>, cost, warm, refund),
         ws' \in WorldStateType,
         ws'.warm_slots = ws.warm_slots \cup {<<a, s>>},
         cost - warm <= GAS_COLD_SLOAD,
         is_slot_warm(ws, a, s) => cost = warm,
         \A b \in Address, t \in Slot : <<b, t>> # <<a, s>> =>
           get_storage(ws', b, t) = get_storage(ws, b, t),
         \A b \in Address, t \in Slot :
           get_original_storage(ws', b, t) = get_original_storage(ws, b, t),
         warm - refund = GAS_WARM_STORAGE_READ
           + Potential(get_original_storage(ws, a, s), get_storage(ws', a, s))
           - Potential(get_original_storage(ws, a, s), get_storage(ws, a, s))
  PROVE  MeterInv'
<1> DEFINE k == <<a, s>>
<1>1. k \in SlotKey
  BY DEF SlotKey
<1>2. /\ ops' = [ops EXCEPT ![k] = ops[k] + 1]
      /\ spent' = [spent EXCEPT ![k] = spent[k] + cost]
      /\ cold' = [cold EXCEPT ![k] = cold[k] + (cost - warm)]
      /\ back' = [back EXCEPT ![k] = back[k] + refund]
  BY DEF Count
<1>3. ops[k] \in Nat /\ spent[k] \in Int /\ cold[k] \in Int /\ back[k] \in Int
  BY <1>1 DEF MeterInv, MeterType
<1>4. MeterType'
  BY <1>1, <1>2, <1>3 DEF MeterInv, MeterType
<1>5. /\ ops'[k] = ops[k] + 1 /\ spent'[k] = spent[k] + cost
      /\ cold'[k] = cold[k] + (cost - warm) /\ back'[k] = back[k] + refund
      /\ \A j \in SlotKey : j # k =>
           ops'[j] = ops[j] /\ spent'[j] = spent[j] /\ cold'[j] = cold[j] /\ back'[j] = back[j]
  BY <1>1, <1>2 DEF MeterInv, MeterType
<1>6. ColdIsUnpaid'
  BY <1>5 DEF MeterInv, ColdIsUnpaid
<1>7. cold'[k] <= GAS_COLD_SLOAD
  <2>1. CASE is_slot_warm(ws, a, s)
    BY <1>3, <1>5, <2>1 DEF MeterInv, NetMetering
  <2>2. CASE ~ is_slot_warm(ws, a, s)
    <3>1. cold[k] = 0
      BY <1>1, <2>2 DEF MeterInv, ColdIsUnpaid, is_slot_warm
    <3> QED
      BY <1>5, <3>1
  <2> QED
    BY <2>1, <2>2
<1> HIDE DEF k
<1>8. spent'[k] - back'[k] = GAS_WARM_STORAGE_READ * ops'[k] + cold'[k]
        + Potential(get_original_storage(ws, a, s), get_storage(ws', a, s))
  <2> DEFINE p == Potential(get_original_storage(ws, a, s), get_storage(ws, a, s))
             q == Potential(get_original_storage(ws, a, s), get_storage(ws', a, s))
  <2>1. spent[k] - back[k] = GAS_WARM_STORAGE_READ * ops[k] + cold[k] + p
    BY DEF MeterInv, NetMetering, k
  <2>2. p \in Int /\ q \in Int
    BY GetStorageType, StoreMovesPotential, Zenon DEF MeterInv, MeterType
  <2>3. GAS_WARM_STORAGE_READ * (ops[k] + 1) = GAS_WARM_STORAGE_READ * ops[k] + GAS_WARM_STORAGE_READ
        /\ GAS_WARM_STORAGE_READ * ops[k] \in Int /\ GAS_WARM_STORAGE_READ \in Int
    BY <1>3, GasAssumption
  <2>4. warm - refund = GAS_WARM_STORAGE_READ + q - p
    OBVIOUS
  <2> HIDE DEF p, q
  <2> DEFINE m == GAS_WARM_STORAGE_READ * ops[k]
  <2>5. GAS_WARM_STORAGE_READ * ops'[k] = m + GAS_WARM_STORAGE_READ /\ m \in Int
        /\ spent[k] - back[k] = m + cold[k] + p
    BY <1>5, <2>1, <2>3
  <2> HIDE DEF m
  <2>6. spent'[k] - back'[k] = (m + GAS_WARM_STORAGE_READ) + cold'[k] + q
    <3>1. GAS_WARM_STORAGE_READ \in Int /\ m \in Int /\ spent[k] - back[k] = m + cold[k] + p
      BY <2>3, <2>5
    <3> QED
      BY <1>3, <1>5, <2>2, <2>4, <3>1
  <2>7. spent'[k] - back'[k] = GAS_WARM_STORAGE_READ * ops'[k] + cold'[k] + q
    BY <2>5, <2>6, Zenon
  <2> QED
    BY <2>7 DEF q
<1>9. NetMetering'
  <2> SUFFICES ASSUME NEW b \in Address, NEW t \in Slot
               PROVE  /\ spent'[<<b, t>>] - back'[<<b, t>>] =
                           GAS_WARM_STORAGE_READ * ops'[<<b, t>>] + cold'[<<b, t>>]
                             + Potential(get_original_storage(ws', b, t), get_storage(ws', b, t))
                      /\ cold'[<<b, t>>] <= GAS_COLD_SLOAD
    BY Zenon DEF NetMetering
  <2>1. CASE <<b, t>> = <<a, s>>
    <3>1. b = a /\ t = s
      BY <2>1
    <3> QED
      BY <1>7, <1>8, <3>1 DEF k
  <2>2. CASE <<b, t>> # <<a, s>>
    <3>1. <<b, t>> \in SlotKey /\ <<b, t>> # k
      BY <2>2 DEF SlotKey, k
    <3>2. /\ get_storage(ws', b, t) = get_storage(ws, b, t)
          /\ get_original_storage(ws', b, t) = get_original_storage(ws, b, t)
      BY <2>2
    <3>3. /\ spent[<<b, t>>] - back[<<b, t>>] =
               GAS_WARM_STORAGE_READ * ops[<<b, t>>] + cold[<<b, t>>]
                 + Potential(get_original_storage(ws, b, t), get_storage(ws, b, t))
          /\ cold[<<b, t>>] <= GAS_COLD_SLOAD
      BY DEF MeterInv, NetMetering
    <3> QED
      BY <1>5, <3>1, <3>2, <3>3
  <2> QED
    BY <2>1, <2>2
<1> QED
  BY <1>4, <1>6, <1>9 DEF MeterInv

\* The invariant holds before the first transaction.
LEMMA MeterInitStep == Init => MeterInv
<1> SUFFICES ASSUME Init PROVE MeterInv
  OBVIOUS
<1>1. MeterType /\ ColdIsUnpaid
  BY CreateType DEF Init, MeterType, ColdIsUnpaid, Zero
<1>2. ASSUME NEW a \in Address, NEW s \in Slot
      PROVE  /\ get_original_storage(ws, a, s) = get_storage(ws, a, s)
             /\ <<a, s>> \in SlotKey
  BY <1>2 DEF Init, world_state_create, get_original_storage, SlotKey
<1> QED
  BY <1>1, <1>2, GasAssumption DEF MeterInv, NetMetering, Init, Zero, Potential

\* The start of a transaction forgets the originals and the warm slots: the invariant starts
\* anew, with every potential at zero.
LEMMA NextTransactionStep ==
  ASSUME MeterInv, NextTransaction
  PROVE  MeterInv'
<1>1. /\ ws' = begin_transaction(ws)
      /\ ops' = Zero /\ cold' = Zero /\ spent' = Zero /\ back' = Zero
  BY DEF NextTransaction
<1>2. ASSUME NEW a \in Address, NEW s \in Slot
      PROVE  /\ get_original_storage(ws', a, s) = get_storage(ws', a, s)
             /\ <<a, s>> \in SlotKey
  <2>1. <<a, s>> \in SlotKey
    BY DEF SlotKey
  <2>2. ws'.original_storage = [k \in SlotKey |-> None]
    BY <1>1 DEF begin_transaction, MeterInv, MeterType, WorldStateType
  <2> QED
    BY <2>1, <2>2 DEF get_original_storage
<1>3. begin_transaction(ws) \in WorldStateType
  BY Zenon DEF begin_transaction, WorldStateType, MeterInv, MeterType
<1>4. MeterType' /\ ColdIsUnpaid'
  BY <1>1, <1>3 DEF MeterType, ColdIsUnpaid, Zero
<1>5. NetMetering'
  <2>1. \A k \in SlotKey : ops'[k] = 0 /\ cold'[k] = 0 /\ spent'[k] = 0 /\ back'[k] = 0
    BY <1>1 DEF Zero
  <2>2. \A a \in Address, s \in Slot :
          Potential(get_original_storage(ws', a, s), get_storage(ws', a, s)) = 0
    BY <1>2, Zenon DEF Potential
  <2>3. 0 - 0 = GAS_WARM_STORAGE_READ * 0 + 0 + 0 /\ 0 <= GAS_COLD_SLOAD
    BY GasAssumption
  <2> QED
    BY <1>2, <2>1, <2>2, <2>3, Zenon DEF NetMetering
<1> QED
  BY <1>4, <1>5 DEF MeterInv

\* An operation that runs out of gas has warmed its slot and paid nothing.
LEMMA OutOfGasStep ==
  ASSUME MeterInv, NEW a \in Address, NEW s \in Slot, OutOfGas(a, s)
  PROVE  MeterInv'
<1>1. ws' = warm_slot(ws, a, s) /\ UNCHANGED <<ops, cold, spent, back>> /\ ws \in WorldStateType
  BY DEF OutOfGas, history, MeterInv, MeterType
<1>2. /\ ws' \in WorldStateType
      /\ ws'.warm_slots = ws.warm_slots \cup {<<a, s>>}
      /\ \A b \in Address, t \in Slot :
           /\ get_storage(ws', b, t) = get_storage(ws, b, t)
           /\ get_original_storage(ws', b, t) = get_original_storage(ws, b, t)
  BY <1>1, WarmSlotView, WarmTypes
<1> QED
  BY <1>1, <1>2 DEF MeterInv, MeterType, NetMetering, ColdIsUnpaid

\* SLOAD preserves the invariant.
LEMMA LoadStep ==
  ASSUME MeterInv, NEW a \in Address, NEW s \in Slot, op_sload(a, s)
  PROVE  MeterInv'
<1>1. ws' = warm_slot(ws, a, s) /\ ws \in WorldStateType
  BY DEF op_sload, MeterInv, MeterType
<1>2. /\ ws' \in WorldStateType
      /\ ws'.warm_slots = ws.warm_slots \cup {<<a, s>>}
      /\ \A b \in Address, t \in Slot :
           /\ get_storage(ws', b, t) = get_storage(ws, b, t)
           /\ get_original_storage(ws', b, t) = get_original_storage(ws, b, t)
  BY <1>1, WarmSlotView, WarmTypes
<1> DEFINE cost == sload_cost(~ is_slot_warm(ws, a, s))
           warm == sload_cost(FALSE)
<1>3. /\ cost \in Int /\ warm \in Int /\ cost - warm <= GAS_COLD_SLOAD
      /\ is_slot_warm(ws, a, s) => cost = warm
      /\ warm = GAS_WARM_STORAGE_READ
  BY GasAssumption DEF sload_cost
<1>4. Count(<<a, s>>, cost, warm, 0)
  BY Zenon DEF op_sload
<1>5. Potential(get_original_storage(ws, a, s), get_storage(ws, a, s)) \in Int
  BY <1>1, GetStorageType, StoreMovesPotential, Zenon
<1>6. warm - 0 = GAS_WARM_STORAGE_READ
           + Potential(get_original_storage(ws, a, s), get_storage(ws', a, s))
           - Potential(get_original_storage(ws, a, s), get_storage(ws, a, s))
  <2> DEFINE p == Potential(get_original_storage(ws, a, s), get_storage(ws, a, s))
  <2>1. Potential(get_original_storage(ws, a, s), get_storage(ws', a, s)) = p
    BY <1>2
  <2>2. p \in Int /\ warm \in Int /\ warm = GAS_WARM_STORAGE_READ
    BY <1>3, <1>5, Zenon
  <2> HIDE DEF p, warm
  <2>3. warm - 0 = GAS_WARM_STORAGE_READ + p - p
    BY <2>2
  <2> QED
    BY <2>1, <2>3 DEF p
<1> HIDE DEF cost, warm
<1> QED
  BY <1>2, <1>3, <1>4, <1>6, CountStep

\* SSTORE preserves the invariant, whatever it writes over whatever.
LEMMA StoreStep ==
  ASSUME MeterInv, NEW a \in Address, NEW s \in Slot, NEW v \in Word, op_sstore(a, s, v)
  PROVE  MeterInv'
<1> DEFINE current == get_storage(ws, a, s)
           original == get_original_storage(ws, a, s)
           cost == sstore_cost(~ is_slot_warm(ws, a, s), current, original, v)
           warm == sstore_cost(FALSE, current, original, v)
           refund == sstore_refund(current, original, v)
           w == warm_slot(ws, a, s)
<1>1. ws' = set_storage(w, a, s, v) /\ ws \in WorldStateType /\ Count(<<a, s>>, cost, warm, refund)
  BY Zenon DEF op_sstore, MeterInv, MeterType
<1>2. /\ w \in WorldStateType
      /\ w.warm_slots = ws.warm_slots \cup {<<a, s>>}
      /\ \A b \in Address, t \in Slot :
           /\ get_storage(w, b, t) = get_storage(ws, b, t)
           /\ get_original_storage(w, b, t) = get_original_storage(ws, b, t)
  BY <1>1, WarmSlotView, WarmTypes
<1>3. current \in Word /\ original \in Word
  BY <1>1, GetStorageType
<1> HIDE DEF w
<1>4. /\ ws' \in WorldStateType /\ ws'.warm_slots = w.warm_slots
      /\ \A b \in Address, t \in Slot :
           /\ get_storage(ws', b, t) = IF b = a /\ t = s THEN v ELSE get_storage(w, b, t)
           /\ get_original_storage(ws', b, t) = get_original_storage(w, b, t)
  <2>1. w \in WorldStateType /\ ws' = set_storage(w, a, s, v)
    BY <1>1, <1>2
  <2>2. ws' \in WorldStateType
    BY <2>1, SetStorageType
  <2> QED
    BY <2>1, <2>2, SetStorageView
<1>5. /\ cost \in Int /\ warm \in Int /\ refund \in Int
      /\ cost - warm <= GAS_COLD_SLOAD
      /\ is_slot_warm(ws, a, s) => cost = warm
      /\ warm - refund = GAS_WARM_STORAGE_READ + Potential(original, v) - Potential(original, current)
  <2>1. cost = IF is_slot_warm(ws, a, s) THEN warm ELSE GAS_COLD_SLOAD + warm
    BY <1>3, StoreMovesPotential, Zenon
  <2>2. /\ warm \in Int /\ refund \in Int
        /\ warm - refund = GAS_WARM_STORAGE_READ + Potential(original, v) - Potential(original, current)
    BY <1>3, StoreMovesPotential, Zenon
  <2> HIDE DEF cost, warm, refund
  <2> QED
    BY <2>1, <2>2, GasAssumption
<1>6. get_storage(ws', a, s) = v
  BY <1>4
<1>7. ws'.warm_slots = ws.warm_slots \cup {<<a, s>>}
  BY <1>2, <1>4
<1>8. \A b \in Address, t \in Slot : <<b, t>> # <<a, s>> =>
        get_storage(ws', b, t) = get_storage(ws, b, t)
  BY <1>2, <1>4
<1>9. \A b \in Address, t \in Slot :
        get_original_storage(ws', b, t) = get_original_storage(ws, b, t)
  BY <1>2, <1>4
<1>10. ws' \in WorldStateType /\ Count(<<a, s>>, cost, warm, refund)
  BY <1>1, <1>4, Zenon
<1>11. warm - refund = GAS_WARM_STORAGE_READ
           + Potential(get_original_storage(ws, a, s), get_storage(ws', a, s))
           - Potential(get_original_storage(ws, a, s), get_storage(ws, a, s))
  BY <1>5, <1>6, Zenon
<1> HIDE DEF cost, warm, refund, current, original
<1> QED
  BY <1>5, <1>7, <1>8, <1>9, <1>10, <1>11, CountStep

\* The net price of a slot depends only on its first and its last value, whatever SLOADs and
\* SSTOREs of any contracts come in between, fail or succeed, for every price list in which
\* a change costs at least a warm read.
THEOREM NetPrice == Spec => []NetMetering
<1>1. MeterInv /\ [Next]_vars => MeterInv'
  <2> SUFFICES ASSUME MeterInv, [Next]_vars PROVE MeterInv'
    OBVIOUS
  <2>1. CASE UNCHANGED vars
    BY <2>1 DEF vars, history, MeterInv, MeterType, NetMetering, ColdIsUnpaid
  <2> QED
    BY <2>1, LoadStep, StoreStep, OutOfGasStep, NextTransactionStep, Zenon DEF Next
<1>2. MeterInv => NetMetering
  BY DEF MeterInv
<1> QED
  BY <1>1, <1>2, MeterInitStep, PTL DEF Spec
=============================================================================
