-------------------------------- MODULE Words --------------------------------
(***************************************************************************)
(* The arithmetic, comparison and bitwise instructions of the EVM as       *)
(* functions on integers 0..2^WordBits-1 (src/evm/opcodes/arithmetic.h,    *)
(* comparison.h, bitwise.h): the operands as they are popped, the result   *)
(* as it is pushed.  Uint256 shows that the limb algorithms compute these. *)
(***************************************************************************)
EXTENDS Integers, FiniteSetsExt

CONSTANTS WordBits,  \* width of a word: 256
          ByteBits   \* width of a byte: 8

ASSUME WordsAssumption ==
  /\ ByteBits \in Nat \ {0} /\ WordBits \in Nat \ {0} /\ WordBits % ByteBits = 0

WordCount == 2 ^ WordBits
Word == 0..(WordCount - 1)
BytesPerWord == WordBits \div ByteBits

Negative(x) == x >= WordCount \div 2
Signed(x) == IF Negative(x) THEN x - WordCount ELSE x
Unsigned(i) == i % WordCount
Abs(i) == IF i < 0 THEN -i ELSE i

\* Division of signed integers rounds toward zero, its remainder has a's sign.
Quotient(a, b) == IF (a < 0) = (b < 0) THEN Abs(a) \div Abs(b) ELSE -(Abs(a) \div Abs(b))
Remainder(a, b) == IF a < 0 THEN -(Abs(a) % Abs(b)) ELSE a % Abs(b)

\* a * b modulo a modulus, bit by bit: TLC's integers have 32 bits.
Times(a, b, modulus) ==
  LET times[k \in 0..a] ==
        IF k = 0 THEN 0 ELSE (2 * times[k \div 2] + (k % 2) * b) % modulus
  IN  times[a]

Power(b, e) ==
  LET Squared(k) ==
        [root \in Word |->
           Times(Times(root, root, WordCount), IF k % 2 = 1 THEN b ELSE 1, WordCount)]
      pow[k \in 0..e] == IF k = 0 THEN 1 ELSE Squared(k)[pow[k \div 2]]
  IN  pow[e]

\* Bytes above byte k (0 the lowest) become copies of its sign bit.
SignExtended(k, x) ==
  LET m == 2 ^ (ByteBits * (k + 1))
  IN  IF (x % m) < m \div 2 THEN x % m ELSE (x % m) + WordCount - m

ArithmeticResult(op, x) ==
  CASE op = "ADD"        -> Unsigned(x[1] + x[2])
    [] op = "SUB"        -> Unsigned(x[1] - x[2])
    [] op = "MUL"        -> Times(x[1], x[2], WordCount)
    [] op = "DIV"        -> IF x[2] = 0 THEN 0 ELSE x[1] \div x[2]
    [] op = "MOD"        -> IF x[2] = 0 THEN 0 ELSE x[1] % x[2]
    [] op = "SDIV"       -> IF x[2] = 0 THEN 0 ELSE Unsigned(Quotient(Signed(x[1]), Signed(x[2])))
    [] op = "SMOD"       -> IF x[2] = 0 THEN 0 ELSE Unsigned(Remainder(Signed(x[1]), Signed(x[2])))
    [] op = "ADDMOD"     -> IF x[3] = 0 THEN 0 ELSE (x[1] + x[2]) % x[3]
    [] op = "MULMOD"     -> IF x[3] = 0 THEN 0 ELSE Times(x[1], x[2], x[3])
    [] op = "EXP"        -> Power(x[1], x[2])
    [] op = "SIGNEXTEND" -> IF x[1] >= BytesPerWord - 1 THEN x[2] ELSE SignExtended(x[1], x[2])

Truth(b) == IF b THEN 1 ELSE 0

ComparisonResult(op, x) ==
  CASE op = "LT"     -> Truth(x[1] < x[2])
    [] op = "GT"     -> Truth(x[1] > x[2])
    [] op = "SLT"    -> Truth(Signed(x[1]) < Signed(x[2]))
    [] op = "SGT"    -> Truth(Signed(x[1]) > Signed(x[2]))
    [] op = "EQ"     -> Truth(x[1] = x[2])
    [] op = "ISZERO" -> Truth(x[1] = 0)

Bit(x, i) == (x \div 2 ^ i) % 2
FromBits(bit(_)) == MapThenSumSet(LAMBDA i : bit(i) * 2 ^ i, 0..(WordBits - 1))

\* The shift amount and the byte index come first; index 0 is the highest byte.
BitwiseResult(op, x) ==
  CASE op = "AND"  -> FromBits(LAMBDA i : Bit(x[1], i) * Bit(x[2], i))
    [] op = "OR"   -> FromBits(LAMBDA i : Max({Bit(x[1], i), Bit(x[2], i)}))
    [] op = "XOR"  -> FromBits(LAMBDA i : (Bit(x[1], i) + Bit(x[2], i)) % 2)
    [] op = "NOT"  -> WordCount - 1 - x[1]
    [] op = "BYTE" -> IF x[1] >= BytesPerWord THEN 0
                      ELSE (x[2] \div 2 ^ (ByteBits * (BytesPerWord - 1 - x[1]))) % 2 ^ ByteBits
    [] op = "SHL"  -> IF x[1] >= WordBits THEN 0 ELSE Times(2 ^ x[1], x[2], WordCount)
    [] op = "SHR"  -> IF x[1] >= WordBits THEN 0 ELSE x[2] \div 2 ^ x[1]
    [] op = "SAR"  -> IF x[1] < WordBits THEN Unsigned(Signed(x[2]) \div 2 ^ x[1])
                      ELSE IF Negative(x[2]) THEN WordCount - 1 ELSE 0

ArithmeticOps == [ADD |-> 2, SUB |-> 2, MUL |-> 2, DIV |-> 2, MOD |-> 2, SDIV |-> 2, SMOD |-> 2,
                  ADDMOD |-> 3, MULMOD |-> 3, EXP |-> 2, SIGNEXTEND |-> 2]
ComparisonOps == [LT |-> 2, GT |-> 2, SLT |-> 2, SGT |-> 2, EQ |-> 2, ISZERO |-> 1]
BitwiseOps == [AND |-> 2, OR |-> 2, XOR |-> 2, NOT |-> 1, BYTE |-> 2, SHL |-> 2, SHR |-> 2, SAR |-> 2]

WordResult(op, x) ==
  CASE op \in DOMAIN ArithmeticOps -> ArithmeticResult(op, x)
    [] op \in DOMAIN ComparisonOps -> ComparisonResult(op, x)
    [] op \in DOMAIN BitwiseOps    -> BitwiseResult(op, x)

\* uint256_byte_length: the bytes an exponent is charged for.
ByteLength(x) == Min({n \in 0..BytesPerWord : x < 2 ^ (ByteBits * n)})
=============================================================================
