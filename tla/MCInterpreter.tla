---------------------------- MODULE MCInterpreter ----------------------------
(***************************************************************************)
(* Programs for model checking Interpreter.  A byte and size_t have 6 bits *)
(* and a word two bytes, so that every boundary of the size arithmetic is  *)
(* the operand of some PUSH1, and beyond it of some PUSH2.                 *)
(***************************************************************************)
EXTENDS Interpreter

\* The control instructions have the low numbers: in a short program each is also
\* the offset of a byte, and each offset the number of an instruction.
Instructions ==
  <<"STOP", "JUMPDEST", "PUSH1", "JUMP", "JUMPI", "PUSH2", "PC", "ADD",
    "MLOAD", "MSTORE", "MSTORE8", "KECCAK256", "CALLDATACOPY", "CODECOPY",
    "RETURNDATACOPY", "RETURN", "REVERT",
    "MUL", "SUB", "DIV", "MOD", "SDIV", "SMOD", "ADDMOD", "MULMOD", "EXP", "SIGNEXTEND",
    "LT", "GT", "SLT", "SGT", "EQ", "ISZERO", "AND", "OR", "XOR", "NOT", "BYTE", "SHL", "SHR", "SAR",
    "CALLDATALOAD", "BLOCKHASH", "GAS", "MSIZE", "CODESIZE", "RETURNDATASIZE", "ADDRESS",
    "COINBASE", "PUSH0", "POP", "DUP1", "DUP2", "SWAP1", "SWAP2">>

Opcodes == [b \in 0..63 |-> IF b < Len(Instructions) THEN Instructions[b + 1] ELSE "INVALID"]

ByteOf(op) == CHOOSE b \in 0..63 : Opcodes[b] = op

\* Every byte string up to this length over the control instructions.
ControlLength == 5
ControlPrograms == UNION {[1..n -> 0..5] : n \in 0..ControlLength}

\* Loops around ADD, which is free, and around nothing.
Loops ==
  { <<1, 2, 0, 3>>, <<1, 2, 1, 2, 1, 7, 2, 0, 4>>, <<2, 3, 1, 1, 2, 2, 7, ByteOf("POP"), 2, 2, 3>> }

\* Operands: zero, inside a word, beyond what can be allocated, where rounding up to
\* a word wraps, and beyond every size.
Operands == {<<2, 0>>, <<2, 5>>, <<2, 30>>, <<2, 62>>, <<5, 1, 0>>}
FewOperands == {<<2, 0>>, <<2, 5>>, <<5, 63, 62>>}

\* Three operands, any instruction on them, and one of a few on what it left.
Then == {ByteOf(op) : op \in {"DUP1", "MSIZE", "MSTORE", "MLOAD"}}
DataPrograms ==
  {p \o q \o r \o <<a, b>> : p, q, r \in Operands, a \in 7..16, b \in Then}
    \cup {p \o q \o r \o <<a, b>> : p, q, r \in FewOperands, a \in 17..55, b \in Then}

\* Two accesses in a row, each with operands of its own.
TwoAccesses ==
  {p \o q \o <<a>> \o r \o t \o <<b>> :
     p, r \in {<<2, 0>>, <<2, 5>>, <<2, 61>>}, q, t \in {<<2, 0>>, <<2, 1>>, <<2, 5>>},
     a \in {ByteOf("MSTORE8"), ByteOf("KECCAK256")},
     b \in {ByteOf(op) : op \in {"MSTORE", "KECCAK256", "RETURN"}}}

Programs == ControlPrograms \cup Loops \cup DataPrograms \cup TwoAccesses

\* The static costs, scaled; the table has none for the block instructions.
Costs == [op \in {Instructions[i] : i \in DOMAIN Instructions} |->
            IF op \in BlockOps \cup {"BLOCKHASH"} THEN 0 ELSE 1]
=============================================================================
