-------------------------- MODULE CallFramesProofs --------------------------
(***************************************************************************)
(* The pool discipline, the conservation of gas and the static context of  *)
(* CallFrames, for every depth of the pools, every gas and every price     *)
(* that GasAssumption allows.                                              *)
(*                                                                         *)
(* PoolsAgree and GasIsConserved are inductive together with the types of  *)
(* what they speak of.  StaticIsReadOnly rests on StaticBelow: a frame     *)
(* below a static one is static, so that it is enough that each opcode     *)
(* looks at the flag of its own frame.                                     *)
(***************************************************************************)
EXTENDS CallFrames, WorldStateProofs

TypeInv ==
  /\ ws \in WorldStateType
  /\ frames \in [Index -> Frame \cup {None}]
  /\ frame_stack \in [Index -> Nat]
  /\ stack_depth \in Index
  /\ initial_gas \in Nat
  /\ grant \in [Index -> Nat]

\* Every frame called, directly or not, by a static frame is static.
StaticBelow ==
  Running => \A i, j \in Live : i <= j /\ frames[i].is_static => frames[j].is_static

IInv == TypeInv /\ PoolsAgree /\ GasIsConserved /\ StaticBelow

\* What the invariant says of the current frame while the main loop runs.
LEMMA TopFacts ==
  ASSUME IInv, Running
  PROVE  /\ frame = stack_depth /\ frame \in Index /\ frame \in Nat
         /\ Top \in Frame /\ Top.gas \in Nat /\ Top.depth = frame
         /\ Top.address \in Address /\ Top.is_static \in BOOLEAN
         /\ Top.gas <= grant[frame]
         /\ frame = 0 => Top.gas <= initial_gas
<1>1. frame = stack_depth /\ frame \in Index /\ frame \in Nat /\ frame \in Live
  BY CallFramesAssumption DEF IInv, TypeInv, PoolsAgree, Live, Index
<1>2. frames[frame] # None /\ frames[frame].depth = frame
  BY <1>1 DEF IInv, PoolsAgree
<1>3. frames[frame] \in Frame
  BY <1>1, <1>2 DEF IInv, TypeInv
<1>4. frames[frame].gas <= grant[frame] /\ grant[0] = initial_gas
  BY <1>1 DEF IInv, GasIsConserved
<1> QED
  BY <1>1, <1>2, <1>3, <1>4 DEF Top, Frame

\* An opcode that uses gas and goes on preserves the invariant.
LEMMA ContinueStep ==
  ASSUME IInv, NEW w \in WorldStateType, NEW g \in Nat, Running, g <= Top.gas, Continue(w, g)
  PROVE  IInv'
<1>1. /\ frame = stack_depth /\ frame \in Index /\ frame \in Nat
      /\ frames[frame] \in Frame /\ frames[frame].gas \in Nat /\ g <= frames[frame].gas
  BY TopFacts DEF Top
<1>2. /\ ws' = w /\ frames' = [frames EXCEPT ![frame].gas = g]
      /\ UNCHANGED <<frame_pool, memory_pool, frame_stack, stack_depth, frame, grant,
                     initial_gas, result>>
  BY DEF Continue
<1>3. frames'[frame] = [frames[frame] EXCEPT !.gas = g] /\ frames'[frame] \in Frame
      /\ frames'[frame].gas = g /\ frames'[frame].depth = frames[frame].depth
      /\ frames'[frame].is_static = frames[frame].is_static
  BY <1>1, <1>2 DEF IInv, TypeInv, Frame
<1>4. \A i \in Index : i # frame => frames'[i] = frames[i]
  BY <1>2 DEF IInv, TypeInv
<1>5. TypeInv'
  <2>1. frames' \in [Index -> Frame \cup {None}]
    BY <1>1, <1>2, <1>3 DEF IInv, TypeInv
  <2> QED
    BY <1>2, <2>1 DEF IInv, TypeInv
<1>6. Live \subseteq Index /\ Live' = Live /\ frame \in Live
  BY <1>1, <1>2, CallFramesAssumption DEF Live, Index
<1>7. PoolsAgree'
  <2>1. \A i \in Live : frames'[i] # None /\ frames'[i].depth = i
    <3>1. \A i \in Live : frames[i] # None /\ frames[i].depth = i
      BY DEF IInv, PoolsAgree
    <3>2. \A i \in Live : i # frame => frames'[i] = frames[i]
      BY <1>4, <1>6
    <3>3. frames'[frame] # None
      BY <1>3, CallFramesAssumption
    <3> QED
      BY <1>3, <1>6, <3>1, <3>2, <3>3, Zenon
  <2> QED
    BY <1>2, <1>6, <2>1 DEF IInv, PoolsAgree, Running
<1>8. GasIsConserved'
  BY <1>1, <1>2, <1>3, <1>4, <1>6 DEF IInv, TypeInv, GasIsConserved, Running, Live, Index
<1>9. StaticBelow'
  BY <1>1, <1>2, <1>3, <1>4, <1>6 DEF IInv, StaticBelow, Running
<1> QED
  BY <1>5, <1>7, <1>8, <1>9 DEF IInv

\* Giving a frame back preserves the invariant: the parent becomes the current frame, with
\* no more gas than it started with.
LEMMA ReturnStep ==
  ASSUME IInv, Running, NEW g \in Nat, g <= Top.gas, NEW size, Top.depth > 0,
         ReturnToParent(g, size), ws' \in WorldStateType, UNCHANGED initial_gas
  PROVE  IInv'
<1> DEFINE p == stack_depth - 1
<1>1. /\ frame = stack_depth /\ frame \in Index /\ frame \in Nat /\ frame > 0
      /\ frames[frame].gas \in Nat /\ g <= frames[frame].gas /\ frames[frame].gas <= grant[frame]
  BY TopFacts DEF Top
<1>2. p \in Index /\ p \in Nat /\ p + 1 = frame /\ p # frame /\ p \in Live /\ p \in Live \ {stack_depth}
  BY <1>1, CallFramesAssumption DEF Index, Live
<1>3. frame_stack[p] = p /\ frames[p] # None /\ frames[p].depth = p
  BY <1>2 DEF IInv, PoolsAgree
<1>4. frames[p] \in Frame /\ frames[p].gas \in Nat /\ frames[p].gas + grant[frame] <= grant[p]
      /\ grant[p] \in Nat /\ grant[frame] \in Nat
  BY <1>1, <1>2, <1>3 DEF IInv, TypeInv, Frame, GasIsConserved
<1>5. /\ frames' = [frames EXCEPT ![p].gas = @ + g, ![frame] = None]
      /\ frame_pool' = frame_pool - 1 /\ memory_pool' = memory_pool - 1
      /\ stack_depth' = p /\ frame' = p
      /\ grant' = [grant EXCEPT ![frame] = 0]
      /\ UNCHANGED <<frame_stack, result, initial_gas>>
  BY <1>3 DEF ReturnToParent
<1> HIDE DEF p
<1>6. /\ frames'[p] = [frames[p] EXCEPT !.gas = frames[p].gas + g]
      /\ \A i \in Index \ {p, frame} : frames'[i] = frames[i]
      /\ frames'[frame] = None
      /\ frames' \in [Index -> Frame \cup {None}]
  BY <1>1, <1>2, <1>4, <1>5 DEF IInv, TypeInv, Frame
<1>7. /\ frames'[p] \in Frame /\ frames'[p].gas = frames[p].gas + g
      /\ frames'[p].depth = p /\ frames'[p].is_static = frames[p].is_static
  BY <1>3, <1>4, <1>6 DEF Frame
<1>8. /\ \A i \in Index \ {frame} : grant'[i] = grant[i]
      /\ grant' \in [Index -> Nat]
  BY <1>1, <1>5 DEF IInv, TypeInv
<1>9. Live' = 0..p /\ Live' \subseteq Live \ {stack_depth} /\ Live \subseteq Index /\ p \in Live'
  BY <1>1, <1>2, <1>5, CallFramesAssumption DEF Live, Index
<1>10. TypeInv'
  BY <1>2, <1>5, <1>6, <1>8 DEF IInv, TypeInv
<1>11. PoolsAgree'
  <2>1. \A i \in Live' : frames'[i] # None /\ frames'[i].depth = i
    BY <1>1, <1>6, <1>7, <1>9, CallFramesAssumption, Zenon DEF IInv, PoolsAgree
  <2>2. \A i \in Live' : frame_stack'[i] = i
    BY <1>5, <1>9 DEF IInv, PoolsAgree
  <2>3. frame_pool' = p + 1 /\ memory_pool' = frame_pool'
    BY <1>1, <1>2, <1>5 DEF IInv, PoolsAgree
  <2> QED
    BY <1>5, <2>1, <2>2, <2>3, Zenon DEF PoolsAgree
<1>12. GasIsConserved'
  <2>1. frames'[p].gas <= grant'[p]
    BY <1>1, <1>2, <1>4, <1>7, <1>8
  <2>2. grant'[0] = initial_gas'
    <3>1. grant[0] = initial_gas /\ 0 \in Index /\ 0 # frame
      BY <1>1, CallFramesAssumption DEF IInv, GasIsConserved, Index
    <3> QED
      BY <1>5, <1>8, <3>1
  <2>3. ASSUME NEW i \in Live' \ {p}
        PROVE  frames'[i].gas + grant'[i + 1] <= grant'[i]
    <3>1. i \in Live \ {stack_depth} /\ i \in Index \ {p, frame} /\ i + 1 \in Index \ {frame}
      BY <1>1, <1>2, <1>9 DEF Index
    <3>2. frames[i].gas + grant[i + 1] <= grant[i]
      BY <3>1 DEF IInv, GasIsConserved
    <3> QED
      BY <1>6, <1>8, <3>1, <3>2
  <2> QED
    BY <1>5, <2>1, <2>2, <2>3, Zenon DEF GasIsConserved, Running
<1>13. StaticBelow'
  <2>1. \A i \in Live' : frames'[i].is_static = frames[i].is_static
    BY <1>1, <1>6, <1>7, <1>9, Zenon
  <2> QED
    BY <1>9, <2>1 DEF IInv, StaticBelow
<1> QED
  BY <1>10, <1>11, <1>12, <1>13 DEF IInv

\* Ending the transaction preserves the invariant: the gas it reports is within its own.
LEMMA FinishStep ==
  ASSUME IInv, Running, NEW used \in 0..initial_gas, NEW success, NEW refund, NEW size, NEW count,
         Finish(success, used, refund, size, count), ws' \in WorldStateType, UNCHANGED initial_gas
  PROVE  IInv'
<1>1. /\ UNCHANGED <<frames, frame_pool, memory_pool, frame_stack, stack_depth, frame, grant>>
      /\ result'.gas_used = used
  BY DEF Finish, machine
<1>2. TypeInv'
  BY <1>1 DEF IInv, TypeInv
<1>3. PoolsAgree'
  BY <1>1 DEF IInv, PoolsAgree, Live
<1>4. GasIsConserved'
  BY <1>1 DEF IInv, GasIsConserved, Live
<1>5. StaticBelow'
  BY <1>1 DEF IInv, StaticBelow, Live
<1> QED
  BY <1>2, <1>3, <1>4, <1>5 DEF IInv

\* A frame that fails, in a state w that it left, preserves the invariant.
LEMMA FrameErrorStep ==
  ASSUME IInv, NEW w \in WorldStateType, FrameError(w)
  PROVE  IInv'
<1>1. Running /\ ws' = w /\ UNCHANGED initial_gas
  BY DEF FrameError
<1>2. CASE Top.depth = 0 /\ Finish(FALSE, initial_gas, 0, 0, 0)
  <2>1. initial_gas \in 0..initial_gas
    BY DEF IInv, TypeInv
  <2> QED
    BY <1>1, <1>2, <2>1, FinishStep, Zenon
<1>3. CASE Top.depth > 0 /\ ReturnToParent(0, 0)
  <2>1. Top.gas \in Nat
    BY <1>1, TopFacts
  <2> QED
    BY <1>1, <1>3, <2>1, ReturnStep
<1> QED
  BY <1>2, <1>3, Zenon DEF FrameError

\* A frame that ends with g of its gas left preserves the invariant, whether it has a
\* parent or not.
LEMMA FrameEndStep ==
  ASSUME IInv, Running, NEW g \in Nat, g <= Top.gas, NEW success, NEW refund, NEW size, NEW out, NEW count,
         \/ Top.depth = 0 /\ Finish(success, initial_gas - g, refund, out, count)
         \/ Top.depth > 0 /\ ReturnToParent(g, size),
         ws' \in WorldStateType, UNCHANGED initial_gas
  PROVE  IInv'
<1>1. CASE Top.depth = 0 /\ Finish(success, initial_gas - g, refund, out, count)
  <2>1. initial_gas - g \in 0..initial_gas
    BY <1>1, TopFacts DEF IInv, TypeInv
  <2> QED
    BY <1>1, <2>1, FinishStep
<1> QED
  BY <1>1, ReturnStep

\* The child of a call gets no more than what is left to its caller.
LEMMA ChildGasBounds ==
  ASSUME NEW left \in Nat, NEW requested \in Nat
  PROVE  call_child_gas(left, requested) \in 0..left
<1>1. left \div CallGasDivisor \in 0..left
  BY GasAssumption
<1> QED
  BY <1>1 DEF call_child_gas, gas_cap_call

\* What the caller keeps of its gas and what the callee is given, the stipend included, are
\* no more than what the caller had: the price of a call with value covers the stipend.
LEMMA CallGas ==
  ASSUME IInv, NEW c \in CallOp, Prepared(c)
  PROVE  KeptGas(c) \in Nat /\ GivenGas(c) \in Nat /\ KeptGas(c) + GivenGas(c) <= Top.gas
<1>1. Running /\ Top.gas >= call_gas_cost(c) /\ Top.gas \in Nat
  BY TopFacts DEF Prepared
<1>2. c.memory \in Nat /\ c.requested \in Nat
  BY CallFramesAssumption, Zenon DEF CallOp
<1> DEFINE access == account_access_cost(~ is_address_warm(ws, c.target))
           stipend == IF transfers_value(c) THEN GAS_CALL_STIPEND ELSE 0
<1>3. access \in Nat /\ stipend \in Nat
  BY GasAssumption DEF account_access_cost
<1>4. call_gas_cost(c) \in Nat /\ stipend <= call_gas_cost(c)
  BY <1>2, <1>3, GasAssumption DEF call_gas_cost
<1> HIDE DEF access
<1>5. LeftGas(c) \in Nat /\ LeftGas(c) + stipend <= Top.gas
  BY <1>1, <1>3, <1>4 DEF LeftGas
<1>6. ChildGas(c) \in 0..LeftGas(c)
  BY <1>2, <1>5, ChildGasBounds, Zenon DEF ChildGas
<1>7. GivenGas(c) = ChildGas(c) + stipend
  BY DEF GivenGas
<1> HIDE DEF stipend
<1>8. KeptGas(c) = LeftGas(c) - ChildGas(c)
  BY <1>5, <1>6 DEF KeptGas
<1> QED
  BY <1>1, <1>3, <1>5, <1>6, <1>7, <1>8

\* The world state stays well formed through a call.
LEMMA CallTypes ==
  ASSUME IInv, Running, NEW c \in CallOp
  PROVE  Warmed(c) \in WorldStateType /\ Transferred(c) \in WorldStateType
<1>1. ws \in WorldStateType /\ Top.address \in Address /\ c.target \in Address /\ c.value \in Balance
  BY TopFacts DEF IInv, TypeInv, CallOp
<1>2. Warmed(c) \in WorldStateType
  BY <1>1, WarmTypes DEF Warmed
<1>3. sub_balance(Warmed(c), Top.address, c.value) \in WorldStateType
  BY <1>1, <1>2, SubBalanceType
<1>4. add_balance(sub_balance(Warmed(c), Top.address, c.value), c.target, c.value) \in WorldStateType
  BY <1>1, <1>3, AddBalanceType
<1> QED
  BY <1>2, <1>4 DEF Transferred

\* Entering a callee preserves the invariant: it takes the next frame of the pool.
LEMMA EnterStep ==
  ASSUME IInv, NEW c \in CallOp, CallEnter(c)
  PROVE  IInv'
<1> DEFINE n == stack_depth + 1
           child == ChildFrame(c)
           kept == KeptGas(c)
           given == GivenGas(c)
<1>1. Running /\ Prepared(c)
  BY DEF CallEnter, Prepared
<1>2. /\ frame = stack_depth /\ frame \in Index /\ frame \in Nat
      /\ Top \in Frame /\ Top.gas \in Nat /\ Top.depth = frame /\ Top.is_static \in BOOLEAN
      /\ Top.gas <= grant[frame] /\ Top.address \in Address
  BY <1>1, TopFacts
<1>3. /\ frame_pool = n /\ memory_pool = n /\ n < EVM_MAX_CALL_DEPTH
  BY <1>1, <1>2 DEF IInv, PoolsAgree, CallEnter
<1>4. n \in Index /\ n \in Nat /\ n # frame /\ n > 0
  BY <1>2, <1>3, CallFramesAssumption DEF Index
<1>5. kept \in Nat /\ given \in Nat /\ kept + given <= Top.gas
  BY <1>1, CallGas
<1>6. child \in Frame /\ child.depth = n /\ child.gas = given /\ child # None
      /\ (Top.is_static => child.is_static)
  <2>1. c.target \in Address
    BY DEF CallOp
  <2>2. child \in Frame /\ child.depth = n /\ child.gas = given /\ (Top.is_static => child.is_static)
    BY <1>2, <1>5, <2>1 DEF ChildFrame, Frame
  <2> QED
    BY <2>2, CallFramesAssumption
<1>7. /\ frames' = [frames EXCEPT ![frame].gas = kept, ![n] = child]
      /\ grant' = [grant EXCEPT ![n] = given]
      /\ frame_pool' = n + 1 /\ memory_pool' = n + 1
      /\ frame_stack' = [frame_stack EXCEPT ![stack_depth] = frame]
      /\ stack_depth' = n /\ frame' = n
      /\ UNCHANGED <<initial_gas, result>>
      /\ ws' \in WorldStateType
  <2>1. Transferred(c) \in WorldStateType
    BY <1>1, CallTypes
  <2> QED
    BY <1>3, <2>1 DEF CallEnter
<1> HIDE DEF child, kept, given, n
<1>8. /\ frames'[frame] = [Top EXCEPT !.gas = kept]
      /\ frames'[n] = child
      /\ \A i \in Index \ {frame, n} : frames'[i] = frames[i]
      /\ frames' \in [Index -> Frame \cup {None}]
  BY <1>2, <1>4, <1>5, <1>6, <1>7 DEF IInv, TypeInv, Frame, Top
<1>9. /\ frames'[frame] \in Frame /\ frames'[frame].gas = kept /\ frames'[frame].depth = frame
      /\ frames'[frame].is_static = Top.is_static /\ frames'[frame] # None
  BY <1>2, <1>5, <1>8, CallFramesAssumption DEF Frame
<1>10. /\ \A i \in Index \ {n} : grant'[i] = grant[i]
       /\ grant'[n] = given /\ grant' \in [Index -> Nat]
  BY <1>4, <1>5, <1>7 DEF IInv, TypeInv
<1>11. /\ \A i \in Index \ {frame} : frame_stack'[i] = frame_stack[i]
       /\ frame_stack'[frame] = frame /\ frame_stack' \in [Index -> Nat]
  BY <1>2, <1>7 DEF IInv, TypeInv
<1>12. /\ Live' = Live \cup {n} /\ n \notin Live /\ frame \in Live /\ Live \subseteq Index
       /\ \A i \in Live : i \in Nat /\ i < n
  <2>1. Live' = 0..n /\ Live = 0..frame
    BY <1>2, <1>7 DEF Live
  <2>2. n = frame + 1
    BY <1>2 DEF n
  <2> QED
    BY <1>2, <1>4, <2>1, <2>2, CallFramesAssumption DEF Index
<1>13. TypeInv'
  BY <1>4, <1>7, <1>8, <1>10, <1>11 DEF IInv, TypeInv
<1>14. PoolsAgree'
  <2>1. \A i \in Live' : frames'[i] # None /\ frames'[i].depth = i
    <3>1. \A i \in Live : frames[i] # None /\ frames[i].depth = i
      BY <1>1 DEF IInv, PoolsAgree
    <3>2. \A i \in Live : i # frame => frames'[i] = frames[i]
      BY <1>8, <1>12
    <3>3. \A i \in Live : frames'[i] # None /\ frames'[i].depth = i
      BY <1>9, <3>1, <3>2
    <3>4. frames'[n] # None /\ frames'[n].depth = n
      BY <1>6, <1>8
    <3> QED
      BY <1>12, <3>3, <3>4
  <2>2. \A i \in Live : frame_stack'[i] = i
    BY <1>1, <1>2, <1>11, <1>12 DEF IInv, PoolsAgree
  <2> QED
    BY <1>7, <1>12, <2>1, <2>2, Zenon DEF PoolsAgree
<1>15. GasIsConserved'
  <2>1. frames'[n].gas <= grant'[n]
    BY <1>5, <1>6, <1>8, <1>10
  <2>2. grant'[0] = initial_gas'
    <3>1. grant[0] = initial_gas /\ 0 \in Index /\ 0 # n
      BY <1>1, <1>4, CallFramesAssumption DEF IInv, GasIsConserved, Index
    <3> QED
      BY <1>7, <1>10, <3>1
  <2>3. ASSUME NEW i \in Live, i # frame
        PROVE  frames'[i].gas + grant'[i + 1] <= grant'[i]
    <3>1. i \in Index \ {frame, n} /\ i + 1 \in Index \ {n}
      BY <1>2, <1>4, <1>12, <2>3 DEF Index, Live, n
    <3>2. frames[i].gas + grant[i + 1] <= grant[i]
      BY <1>1, <1>2, <2>3 DEF IInv, GasIsConserved
    <3> QED
      BY <1>8, <1>10, <3>1, <3>2
  <2>4. frames'[frame].gas + grant'[frame + 1] <= grant'[frame]
    <3>1. frame + 1 = n /\ grant'[frame] = grant[frame] /\ grant[frame] \in Nat
      BY <1>2, <1>4, <1>10 DEF n, IInv, TypeInv
    <3> QED
      BY <1>2, <1>5, <1>9, <1>10, <3>1
  <2> QED
    BY <1>1, <1>7, <1>12, <2>1, <2>2, <2>3, <2>4, Zenon DEF GasIsConserved, Running
<1>16. StaticBelow'
  <2>1. \A i \in Live : frames'[i].is_static = frames[i].is_static
    BY <1>8, <1>9, <1>12, Zenon DEF Top
  <2>2. \A i \in Live : frames[i].is_static => Top.is_static
    BY <1>1, <1>2, <1>12 DEF IInv, StaticBelow, Live, Top
  <2> SUFFICES ASSUME NEW i \in Live', NEW j \in Live', i <= j, frames'[i].is_static
               PROVE  frames'[j].is_static
    BY DEF StaticBelow
  <2>3. CASE j \in Live
    <3>1. i \in Live
      BY <1>4, <1>12, <2>3
    <3> QED
      BY <1>1, <2>1, <2>3, <3>1 DEF IInv, StaticBelow
  <2>4. CASE j = n
    BY <1>6, <1>8, <1>12, <2>1, <2>2, <2>4
  <2> QED
    BY <1>12, <2>3, <2>4
<1> QED
  BY <1>13, <1>14, <1>15, <1>16 DEF IInv

\* The main loop starts with one frame that has the gas of the transaction.
LEMMA BeginStep ==
  ASSUME IInv, NEW gas \in TxGas, NEW a \in Address, evm_execute_env(gas, a)
  PROVE  IInv'
<1> DEFINE root == [gas |-> gas, depth |-> 0, is_static |-> FALSE, address |-> a]
<1>1. gas \in Nat /\ 0 \in Index
  BY CallFramesAssumption DEF Index
<1>2. root \in Frame /\ root # None /\ root.depth = 0 /\ root.gas = gas /\ root.is_static = FALSE
  <2>1. root \in Frame /\ root.depth = 0 /\ root.gas = gas /\ root.is_static = FALSE
    BY <1>1 DEF Frame
  <2> QED
    BY <2>1, CallFramesAssumption, Zenon
<1>3. /\ ws' = begin_transaction(ws)
      /\ frames' = [i \in Index |-> IF i = 0 THEN root ELSE None]
      /\ frame_pool' = 1 /\ memory_pool' = 1 /\ stack_depth' = 0 /\ frame' = 0
      /\ initial_gas' = gas /\ result' = None
      /\ grant' = [i \in Index |-> IF i = 0 THEN gas ELSE 0]
      /\ frame_stack' = frame_stack
  BY DEF evm_execute_env
<1> HIDE DEF root
<1>4. frames'[0] = root /\ grant'[0] = gas /\ Live' = {0}
  BY <1>1, <1>3 DEF Live
<1>5. TypeInv'
  <2>1. ws' \in WorldStateType
    BY <1>3, WarmTypes DEF IInv, TypeInv
  <2> QED
    BY <1>1, <1>2, <1>3, <2>1 DEF IInv, TypeInv
<1>6. PoolsAgree'
  BY <1>2, <1>3, <1>4 DEF PoolsAgree
<1>7. GasIsConserved'
  BY <1>1, <1>2, <1>3, <1>4 DEF GasIsConserved, Running
<1>8. StaticBelow'
  BY <1>2, <1>4 DEF StaticBelow
<1> QED
  BY <1>5, <1>6, <1>7, <1>8 DEF IInv

\* Prices are natural numbers.
LEMMA CostTypes ==
  ASSUME NEW cold \in BOOLEAN, NEW current, NEW original, NEW new
  PROVE  /\ account_access_cost(cold) \in Nat /\ sload_cost(cold) \in Nat
         /\ sstore_cost(cold, current, original, new) \in Nat
BY GasAssumption DEF account_access_cost, sload_cost, sstore_cost

\* Every opcode, with whatever its frame's result makes the main loop do, preserves the
\* invariant.
LEMMA OpcodeStep ==
  ASSUME IInv, Opcode
  PROVE  IInv'
<1>1. ws \in WorldStateType
  BY DEF IInv, TypeInv
<1>2. ASSUME Running
      PROVE  Top.gas \in Nat /\ Top.address \in Address
  BY <1>2, TopFacts
<1>3. CASE op_stop
  <2>1. Running /\ Top.gas \in Nat /\ ws' \in WorldStateType /\ UNCHANGED initial_gas
    BY <1>1, <1>2, <1>3 DEF op_stop
  <2> DEFINE g == Top.gas
  <2>2. g \in Nat /\ g <= Top.gas
    BY <2>1
  <2>3. PICK success \in BOOLEAN :
          \/ Top.depth = 0 /\ Finish(success, initial_gas - g, gas_refund, return_data_size, logs)
          \/ Top.depth > 0 /\ ReturnToParent(g, 0)
    BY <1>3, Zenon DEF op_stop
  <2> HIDE DEF g
  <2> QED
    BY <2>1, <2>2, <2>3, FrameEndStep
<1>4. ASSUME NEW size \in ReturnSize, NEW cost \in CopyCost(size),
             op_return(size, cost) \/ op_revert(size, cost)
      PROVE  IInv'
  <2>1. cost \in Nat
    BY CallFramesAssumption DEF CopyCost
  <2>2. Running /\ Top.gas >= cost /\ ws' \in WorldStateType /\ UNCHANGED initial_gas
    BY <1>1, <1>4, Zenon DEF op_return, op_revert
  <2> DEFINE g == Top.gas - cost
  <2>3. g \in Nat /\ g <= Top.gas
    BY <1>2, <2>1, <2>2
  <2>4. PICK success \in BOOLEAN, refund \in {0, gas_refund}, count \in {0, logs} :
          \/ Top.depth = 0 /\ Finish(success, initial_gas - g, refund, size, count)
          \/ Top.depth > 0 /\ ReturnToParent(g, size)
    BY <1>4, Zenon DEF op_return, op_revert
  <2> HIDE DEF g
  <2> QED
    BY <2>2, <2>3, <2>4, FrameEndStep
<1>5. ASSUME NEW cost \in OpCost, PlainOp(cost)
      PROVE  IInv'
  <2>1. Running /\ Top.gas - cost \in Nat /\ Top.gas - cost <= Top.gas /\ Continue(ws, Top.gas - cost)
    BY <1>2, <1>5, CallFramesAssumption DEF PlainOp
  <2> QED
    BY <1>1, <2>1, ContinueStep
<1>6. CASE FailedOp
  BY <1>1, <1>6, FrameErrorStep DEF FailedOp
<1>7. ASSUME NEW a \in Address, NEW memory \in MemoryCost, AccountOp(a, memory)
      PROVE  IInv'
  <2> DEFINE cost == account_access_cost(~ is_address_warm(ws, a)) + memory
             w == warm_address(ws, a)
  <2>1. cost \in Nat /\ w \in WorldStateType
    <3>1. account_access_cost(~ is_address_warm(ws, a)) \in Nat /\ w \in WorldStateType
      BY <1>1, CostTypes, WarmTypes, Zenon
    <3> QED
      BY <3>1, CallFramesAssumption
  <2>2. \/ Running /\ Top.gas >= cost /\ Continue(w, Top.gas - cost)
        \/ FrameError(w)
    BY <1>7 DEF AccountOp
  <2> HIDE DEF cost, w
  <2>3. ASSUME Running, Top.gas >= cost
        PROVE  Top.gas - cost \in Nat /\ Top.gas - cost <= Top.gas
    BY <1>2, <2>1, <2>3
  <2> QED
    BY <2>1, <2>2, <2>3, ContinueStep, FrameErrorStep
<1>8. ASSUME NEW s \in Slot, op_sload(s)
      PROVE  IInv'
  <2> DEFINE cost == sload_cost(~ is_slot_warm(ws, Top.address, s))
             w == warm_slot(ws, Top.address, s)
  <2>1. Running
    BY <1>8 DEF op_sload
  <2>2. cost \in Nat /\ w \in WorldStateType
    BY <1>1, <1>2, <2>1, CostTypes, WarmTypes, Zenon
  <2>3. \/ Top.gas >= cost /\ Continue(w, Top.gas - cost)
        \/ FrameError(w)
    BY <1>8 DEF op_sload
  <2> HIDE DEF cost, w
  <2>4. Top.gas >= cost => Top.gas - cost \in Nat /\ Top.gas - cost <= Top.gas
    BY <1>2, <2>1, <2>2
  <2> QED
    BY <2>1, <2>2, <2>3, <2>4, ContinueStep, FrameErrorStep
<1>9. ASSUME NEW s \in Slot, NEW v \in Word, op_sstore(s, v)
      PROVE  IInv'
  <2> DEFINE a == Top.address
             cost == sstore_cost(~ is_slot_warm(ws, a, s), get_storage(ws, a, s),
                                 get_original_storage(ws, a, s), v)
             w == warm_slot(ws, a, s)
             x == set_storage(w, a, s, v)
  <2>1. Running
    BY <1>9 DEF op_sstore
  <2>2. cost \in Nat /\ w \in WorldStateType
    BY <1>1, <1>2, <2>1, CostTypes, WarmTypes, Zenon
  <2>3. x \in WorldStateType
    BY <1>2, <2>1, <2>2, SetStorageType
  <2>4. \/ FrameError(ws)
        \/ FrameError(w)
        \/ Top.gas >= cost /\ Continue(x, Top.gas - cost)
    BY <1>9 DEF op_sstore
  <2> HIDE DEF cost, w, x
  <2>5. Top.gas >= cost => Top.gas - cost \in Nat /\ Top.gas - cost <= Top.gas
    BY <1>2, <2>1, <2>2
  <2> QED
    BY <1>1, <2>1, <2>2, <2>3, <2>4, <2>5, ContinueStep, FrameErrorStep
<1>10. ASSUME NEW memory \in MemoryCost, op_log(memory)
       PROVE  IInv'
  <2>1. Running /\ GAS_LOG + memory \in Nat
    BY <1>10, GasAssumption, CallFramesAssumption DEF op_log
  <2>2. \/ FrameError(ws)
        \/ Top.gas >= GAS_LOG + memory /\ Continue(ws, Top.gas - (GAS_LOG + memory))
    BY <1>10 DEF op_log
  <2>3. Top.gas >= GAS_LOG + memory =>
          Top.gas - (GAS_LOG + memory) \in Nat /\ Top.gas - (GAS_LOG + memory) <= Top.gas
    BY <1>2, <2>1
  <2> QED
    BY <1>1, <2>1, <2>2, <2>3, ContinueStep, FrameErrorStep
<1>11. ASSUME NEW c \in CallOp,
              \/ CallWriteProtection(c) \/ CallOutOfGas(c) \/ CallUnfunded(c)
              \/ CallPoolExhausted(c) \/ CallEnter(c)
       PROVE  IInv'
  <2>1. Running
    BY <1>11 DEF CallWriteProtection, CallOutOfGas, CallUnfunded, CallPoolExhausted, CallEnter,
       Prepared
  <2>2. Warmed(c) \in WorldStateType /\ Transferred(c) \in WorldStateType
    BY <2>1, CallTypes
  <2>3. CASE CallWriteProtection(c) \/ CallOutOfGas(c)
    BY <1>1, <2>2, <2>3, FrameErrorStep DEF CallWriteProtection, CallOutOfGas
  <2>4. CASE CallUnfunded(c) \/ CallPoolExhausted(c)
    <3>1. Prepared(c) /\ (Continue(Warmed(c), KeptGas(c)) \/ Continue(Transferred(c), KeptGas(c)))
      BY <2>4 DEF CallUnfunded, CallPoolExhausted
    <3>2. KeptGas(c) \in Nat /\ KeptGas(c) <= Top.gas
      BY <1>2, <2>1, <3>1, CallGas
    <3> QED
      BY <2>1, <2>2, <3>1, <3>2, ContinueStep
  <2>5. CASE CallEnter(c)
    BY <2>5, EnterStep
  <2> QED
    BY <1>11, <2>3, <2>4, <2>5
<1> QED
  BY <1>3, <1>4, <1>5, <1>6, <1>7, <1>8, <1>9, <1>10, <1>11 DEF Opcode

\* An opcode that never returns preserves the invariant.
LEMMA EndlessStep ==
  ASSUME IInv, EndlessExpansion
  PROVE  IInv'
<1>1. Running /\ Top.gas \in Nat /\ Top.gas <= Top.gas /\ ws \in WorldStateType
  BY TopFacts DEF EndlessExpansion, IInv, TypeInv
<1>2. CASE Continue(ws, Top.gas)
  BY <1>1, <1>2, ContinueStep
<1>3. ASSUME NEW a \in Address, Continue(warm_address(ws, a), Top.gas)
      PROVE  IInv'
  <2>1. warm_address(ws, a) \in WorldStateType
    BY <1>1, WarmTypes
  <2> QED
    BY <1>1, <1>3, <2>1, ContinueStep
<1>4. ASSUME NEW c \in CallOp, Prepared(c), Continue(Warmed(c), KeptGas(c))
      PROVE  IInv'
  <2>1. Warmed(c) \in WorldStateType
    BY <1>1, CallTypes
  <2>2. KeptGas(c) \in Nat /\ KeptGas(c) <= Top.gas
    BY <1>1, <1>4, CallGas
  <2> QED
    BY <1>1, <1>4, <2>1, <2>2, ContinueStep
<1> QED
  BY <1>2, <1>3, <1>4 DEF EndlessExpansion

\* The invariant holds before the first transaction.
LEMMA InitStep == Init => IInv
<1> SUFFICES ASSUME Init PROVE IInv
  OBVIOUS
<1>1. ws \in WorldStateType
  BY CreateType, SetBalanceType, WorldStateAssumption DEF Init, Balance
<1>2. result \in EvmResult /\ result.gas_used = 0 /\ ~ Running
  <2>1. result \in EvmResult /\ result.gas_used = 0
    BY DEF Init, EvmResult
  <2> QED
    BY <2>1, CallFramesAssumption DEF Running
<1>3. TypeInv
  BY <1>1, CallFramesAssumption DEF Init, TypeInv, Index
<1> QED
  BY <1>2, <1>3 DEF IInv, PoolsAgree, GasIsConserved, StaticBelow, TypeInv

\* The invariant is inductive.
THEOREM Inductive == Spec => []IInv
<1>1. IInv /\ [Next]_vars => IInv'
  <2> SUFFICES ASSUME IInv, [Next]_vars PROVE IInv'
    OBVIOUS
  <2>1. CASE UNCHANGED vars
    <3>1. UNCHANGED <<ws, frames, frame_pool, memory_pool, frame_stack, stack_depth, frame, grant,
                      initial_gas, result>>
      BY <2>1 DEF vars, machine
    <3> QED
      BY <3>1 DEF IInv, TypeInv, PoolsAgree, GasIsConserved, StaticBelow, Running, Live
  <2> QED
    BY <2>1, OpcodeStep, EndlessStep, BeginStep DEF Next, Step
<1> QED
  BY <1>1, InitStep, PTL DEF Spec

\* However calls nest, fail and return, the frame pool, the memory pool and the frame stack
\* of evm_execute_env move together, for every depth of the pools.
THEOREM PoolDiscipline == Spec => []PoolsAgree
<1>1. IInv => PoolsAgree
  BY DEF IInv
<1> QED
  BY <1>1, Inductive, PTL

\* No sequence of calls creates gas, and gas_used never wraps around, for every gas and
\* every price of a call with value that covers the stipend.
THEOREM GasConservation == Spec => []GasIsConserved
<1>1. IInv => GasIsConserved
  BY DEF IInv
<1> QED
  BY <1>1, Inductive, PTL

\* Warming an address or a slot changes nothing that a static context protects.
LEMMA WarmIsProtected ==
  ASSUME NEW w \in WorldStateType, NEW a
  PROVE  /\ warm_address(w, a).state_trie = w.state_trie
         /\ warm_address(w, a).storage_tries = w.storage_tries
         /\ warm_address(w, a).code_store = w.code_store
         /\ \A s : /\ warm_slot(w, a, s).state_trie = w.state_trie
                   /\ warm_slot(w, a, s).storage_tries = w.storage_tries
                   /\ warm_slot(w, a, s).code_store = w.code_store
BY DEF warm_address, warm_slot, WorldStateType

\* No opcode of a static frame changes what is protected.
LEMMA StaticStep ==
  ASSUME IInv, Running, Top.is_static, Opcode
  PROVE  UNCHANGED ProtectedState
<1> DEFINE Kept(w) == /\ w.state_trie = ws.state_trie
                      /\ w.storage_tries = ws.storage_tries
                      /\ w.code_store = ws.code_store
<1>1. ws \in WorldStateType /\ Kept(ws)
  BY DEF IInv, TypeInv
<1>2. \A a : Kept(warm_address(ws, a)) /\ \A s : Kept(warm_slot(ws, a, s))
  BY <1>1, WarmIsProtected, Zenon
<1>3. ASSUME NEW w, Kept(w), ws' = w, UNCHANGED <<gas_refund, logs>>
      PROVE  UNCHANGED ProtectedState
  BY <1>3 DEF ProtectedState
<1>4. ASSUME NEW w, Kept(w), FrameError(w)
      PROVE  UNCHANGED ProtectedState
  <2>1. ws' = w /\ UNCHANGED <<gas_refund, logs>>
    BY <1>4 DEF FrameError
  <2> QED
    BY <1>3, <1>4, <2>1
<1>5. ASSUME NEW w, Kept(w), NEW g, Continue(w, g), UNCHANGED <<gas_refund, logs>>
      PROVE  UNCHANGED ProtectedState
  <2>1. ws' = w
    BY <1>5 DEF Continue
  <2> QED
    BY <1>3, <1>5, <2>1
<1>6. ASSUME NEW c \in CallOp
      PROVE  Kept(Warmed(c)) /\ (Prepared(c) => Kept(Transferred(c)))
  BY <1>2, Zenon DEF Warmed, Prepared, Transferred
<1> HIDE DEF Kept
<1>7. CASE op_stop
  <2>1. UNCHANGED <<ws, gas_refund, logs>>
    BY <1>7 DEF op_stop
  <2> QED
    BY <1>1, <1>3, <2>1
<1>8. ASSUME NEW size \in ReturnSize, NEW cost \in CopyCost(size),
             op_return(size, cost) \/ op_revert(size, cost)
      PROVE  UNCHANGED ProtectedState
  <2>1. UNCHANGED <<ws, gas_refund, logs>>
    BY <1>8, Zenon DEF op_return, op_revert
  <2> QED
    BY <1>1, <1>3, <2>1
<1>9. ASSUME NEW cost \in OpCost, PlainOp(cost)
      PROVE  UNCHANGED ProtectedState
  BY <1>1, <1>5, <1>9 DEF PlainOp
<1>10. CASE FailedOp
  BY <1>1, <1>4, <1>10 DEF FailedOp
<1>11. ASSUME NEW a \in Address, NEW memory \in MemoryCost, AccountOp(a, memory)
       PROVE  UNCHANGED ProtectedState
  BY <1>2, <1>4, <1>5, <1>11 DEF AccountOp
<1>12. ASSUME NEW s \in Slot, op_sload(s)
       PROVE  UNCHANGED ProtectedState
  BY <1>2, <1>4, <1>5, <1>12 DEF op_sload
<1>13. ASSUME NEW s \in Slot, NEW v \in Word, op_sstore(s, v)
       PROVE  UNCHANGED ProtectedState
  BY <1>1, <1>4, <1>13 DEF op_sstore
<1>14. ASSUME NEW memory \in MemoryCost, op_log(memory)
       PROVE  UNCHANGED ProtectedState
  BY <1>1, <1>4, <1>14 DEF op_log
<1>15. ASSUME NEW c \in CallOp,
              \/ CallWriteProtection(c) \/ CallOutOfGas(c) \/ CallUnfunded(c)
              \/ CallPoolExhausted(c) \/ CallEnter(c)
       PROVE  UNCHANGED ProtectedState
  <2>1. CASE CallWriteProtection(c) \/ CallOutOfGas(c)
    BY <1>1, <1>4, <1>6, <2>1 DEF CallWriteProtection, CallOutOfGas
  <2>2. CASE CallUnfunded(c) \/ CallPoolExhausted(c)
    BY <1>5, <1>6, <2>2 DEF CallUnfunded, CallPoolExhausted
  <2>3. CASE CallEnter(c)
    <3>1. Prepared(c) /\ ws' = Transferred(c) /\ UNCHANGED <<gas_refund, logs>>
      BY <2>3 DEF CallEnter
    <3> QED
      BY <1>3, <1>6, <3>1
  <2> QED
    BY <1>15, <2>1, <2>2, <2>3
<1> QED
  BY <1>7, <1>8, <1>9, <1>10, <1>11, <1>12, <1>13, <1>14, <1>15 DEF Opcode

\* Nor does one that never returns.
LEMMA StaticEndless ==
  ASSUME IInv, EndlessExpansion
  PROVE  UNCHANGED ProtectedState
<1>1. ws \in WorldStateType /\ UNCHANGED <<gas_refund, logs>>
  BY DEF IInv, TypeInv, EndlessExpansion
<1>2. ws' = ws \/ \E a : ws' = warm_address(ws, a)
  BY DEF EndlessExpansion, Continue, Warmed
<1>3. /\ ws'.state_trie = ws.state_trie
      /\ ws'.storage_tries = ws.storage_tries
      /\ ws'.code_store = ws.code_store
  BY <1>1, <1>2, WarmIsProtected
<1> QED
  BY <1>1, <1>3 DEF ProtectedState

\* Below a STATICCALL nothing is written, whatever kinds of calls lead there, for every depth:
\* each opcode looks only at the flag of its own frame, and the flag is inherited.
THEOREM StaticContext == Spec => StaticIsReadOnly
<1>1. IInv /\ [Next]_vars =>
        [Running /\ (\E i \in Live : frames[i].is_static) => UNCHANGED ProtectedState]_vars
  <2> SUFFICES ASSUME IInv, Next, Running, NEW i \in Live, frames[i].is_static
               PROVE  UNCHANGED ProtectedState
    OBVIOUS
  <2>1. frame = stack_depth /\ frame \in Nat
    BY TopFacts
  <2>2. Top.is_static
    BY <2>1 DEF IInv, StaticBelow, Live, Top
  <2>3. Opcode \/ EndlessExpansion
    BY DEF Next, Step, evm_execute_env
  <2> QED
    BY <2>2, <2>3, StaticStep, StaticEndless
<1> QED
  BY <1>1, Inductive, PTL DEF Spec, StaticIsReadOnly
=============================================================================
