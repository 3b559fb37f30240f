------------------------------- MODULE Uint256 -------------------------------
(***************************************************************************)
(* The 256-bit integers of src/types/uint256.c and uint256.h: four limbs,  *)
(* least significant first, and the algorithms on limbs behind each        *)
(* instruction, with the carries, borrows and estimates of the code.  Each *)
(* is compared with what Words says the instruction computes.              *)
(*                                                                         *)
(* The width of a limb is a parameter.  reciprocal_2by1 approximates in    *)
(* steps that are fixed to 64 bits and is modelled by its result.          *)
(*                                                                         *)
(* The operators named ..._Mutant are plausible mistakes in the definition *)
(* that follows them; no specification uses them.                          *)
(***************************************************************************)
EXTENDS Words, Sequences

CONSTANTS LimbBits,   \* width of a limb: 64
          Operand,    \* the words to compute with
          Edge        \* the words for the second and the third operand

B == 2 ^ LimbBits

ASSUME Uint256Assumption ==
  /\ LimbBits \in Nat /\ WordBits = 4 * LimbBits /\ LimbBits % ByteBits = 0
  /\ BytesPerWord <= B /\ WordBits <= B
  /\ Operand \subseteq Word /\ Edge \subseteq Word /\ 0 \in Edge

Index == 0..3
Uint == [Index -> 0..(B - 1)]

Limbs(x) == [i \in Index |-> (x \div B ^ i) % B]
Value(a) == a[0] + B * (a[1] + B * (a[2] + B * a[3]))

uint256_zero == [i \in Index |-> 0]
uint256_from_u64(v) == [uint256_zero EXCEPT ![0] = v]
MINUS_ONE == [i \in Index |-> B - 1]
MIN_NEGATIVE_VALUE == [uint256_zero EXCEPT ![3] = B \div 2]

uint256_is_zero(a) == a = uint256_zero
uint256_fits_u64(a) == \A i \in 1..3 : a[i] = 0
uint256_is_negative(a) == a[3] \div (B \div 2) # 0

(***************************************************************************)
(* Addition, subtraction, comparison, multiplication.                      *)
(***************************************************************************)
\* The chain of __builtin_addcll: the limbs and the carry out of the last.
AddWithCarry(a, b) ==
  LET carry[i \in 0..4] == IF i = 0 THEN 0 ELSE (a[i - 1] + b[i - 1] + carry[i - 1]) \div B
  IN  [sum |-> [i \in Index |-> (a[i] + b[i] + carry[i]) % B], carry |-> carry[4]]

uint256_add(a, b) == AddWithCarry(a, b).sum

uint256_sub(a, b) ==
  LET borrow[i \in 0..4] ==
        IF i = 0 THEN 0 ELSE IF a[i - 1] < b[i - 1] + borrow[i - 1] THEN 1 ELSE 0
  IN  [i \in Index |-> (a[i] - b[i] - borrow[i]) % B]

\* The first limb from the top that differs decides.
uint256_lt(a, b) == \E i \in Index : a[i] < b[i] /\ \A j \in (i + 1)..3 : a[j] = b[j]

uint256_negate(a) == uint256_add([i \in Index |-> B - 1 - a[i]], uint256_from_u64(1))

Lo(p) == p % B
Hi(p) == p \div B

\* Columns of partial products, each with the carry of the one before it.
uint256_mul_Mutant(a, b) ==
  LET p(i, j) == a[i] * b[j]
      col1 == Hi(p(0, 0)) + Lo(p(0, 1)) + Lo(p(1, 0))
      col2 == Hi(p(0, 1)) + Hi(p(1, 0)) + Lo(p(0, 2)) + Lo(p(1, 1)) + Lo(p(2, 0))
      col3 == Hi(col2) + Hi(p(0, 2)) + Hi(p(1, 1)) + Hi(p(2, 0))
                + p(0, 3) + p(1, 2) + p(2, 1) + p(3, 0)
  IN  [i \in Index |-> Lo(<<p(0, 0), col1, col2, col3>>[i + 1])]

\* Columns of partial products, each with the carry of the one before it.
uint256_mul(a, b) ==
  LET p(i, j) == a[i] * b[j]
      col1 == Hi(p(0, 0)) + Lo(p(0, 1)) + Lo(p(1, 0))
      col2 == Hi(col1) + Hi(p(0, 1)) + Hi(p(1, 0)) + Lo(p(0, 2)) + Lo(p(1, 1)) + Lo(p(2, 0))
      col3 == Hi(col2) + Hi(p(0, 2)) + Hi(p(1, 1)) + Hi(p(2, 0))
                + p(0, 3) + p(1, 2) + p(2, 1) + p(3, 0)
  IN  [i \in Index |-> Lo(<<p(0, 0), col1, col2, col3>>[i + 1])]

(***************************************************************************)
(* Division.                                                               *)
(***************************************************************************)
\* __builtin_clzll: how far a non-zero limb is from having its top bit set.
Clz(d) == CHOOSE s \in 0..(LimbBits - 1) : d * 2 ^ s \in (B \div 2)..(B - 1)

\* n limbs shifted left by less than a limb, with one limb more for what moves out.
ShiftedLeft(a, n, s) ==
  [i \in 0..n |-> (IF i < n THEN Lo(a[i] * 2 ^ s) ELSE 0)
                    + (IF i > 0 THEN a[i - 1] \div 2 ^ (LimbBits - s) ELSE 0)]

\* The lowest n limbs of u shifted right, as a word.
Denormalized(u, n, s) ==
  [i \in Index |-> IF i >= n THEN 0
                   ELSE (u[i] \div 2 ^ s)
                          + (IF i < n - 1 THEN Lo(u[i + 1] * 2 ^ (LimbBits - s)) ELSE 0)]

\* The result promised by reciprocal_2by1's comment: (2^128 - 1) / d - 2^64.
reciprocal_2by1(d) == (B * B - 1) \div d - B

\* Two limbs by one, with the reciprocal v of the normalised divisor d.
udivrem_2by1(u_lo, u_hi, d, v) ==
  LET q == (v * u_hi + u_lo + u_hi * B) % (B * B)
      q1 == Lo(Hi(q) + 1)
      r1 == (u_lo - q1 * d) % B
      down == r1 > Lo(q)
      q2 == IF down THEN (q1 - 1) % B ELSE q1
      r2 == IF down THEN Lo(r1 + d) ELSE r1
  IN  IF r2 >= d THEN [q |-> Lo(q2 + 1), r |-> r2 - d] ELSE [q |-> q2, r |-> r2]

divmod_single_limb(a, divisor) ==
  LET shift == Clz(divisor)
      d == divisor * 2 ^ shift
      u == ShiftedLeft(a, 4, shift)
      step[i \in 0..4] ==
        IF i = 4 THEN [q |-> uint256_zero, r |-> u[4]]
        ELSE LET before == step[i + 1]
                 digit == udivrem_2by1(u[i], before.r, d, reciprocal_2by1(d))
             IN  [q |-> [before.q EXCEPT ![i] = digit.q], r |-> digit.r]
      last == step[0]
  IN  [q |-> last.q, r |-> uint256_from_u64(last.r \div 2 ^ shift)]

RECURSIVE Refined(_, _, _, _, _)
\* The estimate q_hat of a quotient digit, lowered while it is seen to be too large.
\* top is the divisor's top limb, second the one below it, next the dividend's limb.
Refined(q_hat, r_hat, top, second, next) ==
  IF ~(q_hat >= B \/ q_hat * second > r_hat * B + next) THEN q_hat
  ELSE IF r_hat + top >= B THEN q_hat - 1
  ELSE Refined(q_hat - 1, r_hat + top, top, second, next)

\* u[j..j+n] less q_hat * v, limb by limb, and the borrow out of the top.
MultiplySubtract(u, v, n, j, q_hat) ==
  LET chain[i \in 0..n] ==
        IF i = 0 THEN [carry |-> 0, borrow |-> 0, limbs |-> <<>>]
        ELSE LET before == chain[i - 1]
                 prod == q_hat * v[i - 1] + before.carry
                 diff == u[j + i - 1] + B - (Lo(prod) + before.borrow)
             IN  [carry |-> Hi(prod), borrow |-> 1 - Hi(diff),
                  limbs |-> Append(before.limbs, Lo(diff))]
      last == chain[n]
      diff_final == u[j + n] + B - (last.carry + last.borrow)
  IN  [u |-> [k \in DOMAIN u |-> IF k = j + n THEN Lo(diff_final)
                                 ELSE IF k \in j..(j + n - 1) THEN last.limbs[k - j + 1] ELSE u[k]],
       borrow |-> 1 - Hi(diff_final)]

\* v added back to u[j..j+n], the carry out of the top dropped.
AddBack(u, v, n, j) ==
  LET carry[i \in 0..n] == IF i = 0 THEN 0 ELSE Hi(u[j + i - 1] + v[i - 1] + carry[i - 1])
  IN  [k \in DOMAIN u |-> IF k = j + n THEN Lo(u[k] + carry[n])
                          ELSE IF k \in j..(j + n - 1) THEN Lo(u[k] + v[k - j] + carry[k - j])
                          ELSE u[k]]

\* One digit without the step that adds the divisor back.
KnuthDigit_Mutant(u, v, n, j) ==
  LET tmp == u[j + n] * B + u[j + n - 1]
      second == IF n >= 2 THEN v[n - 2] ELSE 0
      q_hat == Refined(tmp \div v[n - 1], tmp % v[n - 1], v[n - 1], second,
                       IF n >= 2 THEN u[j + n - 2] ELSE 0)
  IN  [q |-> q_hat, u |-> MultiplySubtract(u, v, n, j, q_hat).u]

\* One digit: estimate, refine, multiply and subtract, add back if that was too much.
KnuthDigit(u, v, n, j) ==
  LET tmp == u[j + n] * B + u[j + n - 1]
      second == IF n >= 2 THEN v[n - 2] ELSE 0
      q_hat == Refined(tmp \div v[n - 1], tmp % v[n - 1], v[n - 1], second,
                       IF n >= 2 THEN u[j + n - 2] ELSE 0)
      less == MultiplySubtract(u, v, n, j, q_hat)
  IN  IF less.borrow = 0 THEN [q |-> q_hat, u |-> less.u]
      ELSE [q |-> q_hat - 1, u |-> AddBack(less.u, v, n, j)]

\* Knuth's algorithm D: `limbs` limbs of a by b, the top limb of b being b[n - 1].
KnuthD(a, limbs, b, n) ==
  LET shift == Clz(b[n - 1])
      v == ShiftedLeft(b, n, shift)
      step[j \in 0..(limbs - n + 1)] ==
        IF j = limbs - n + 1 THEN [q |-> [i \in 0..7 |-> 0], u |-> ShiftedLeft(a, limbs, shift)]
        ELSE LET before == step[j + 1]
                 digit == KnuthDigit(before.u, v, n, j)
             IN  [q |-> [before.q EXCEPT ![j] = digit.q], u |-> digit.u]
      last == step[0]
  IN  [q |-> [i \in Index |-> last.q[i]], r |-> Denormalized(last.u, n, shift)]

TopLimb(b) == CHOOSE i \in Index : b[i] # 0 /\ \A j \in (i + 1)..3 : b[j] = 0

uint256_divmod(a, b) ==
  IF uint256_is_zero(b) THEN [q |-> uint256_zero, r |-> uint256_zero]
  ELSE IF uint256_lt(a, b) THEN [q |-> uint256_zero, r |-> a]
  ELSE IF uint256_fits_u64(a) /\ uint256_fits_u64(b)
       THEN [q |-> uint256_from_u64(a[0] \div b[0]), r |-> uint256_from_u64(a[0] % b[0])]
  ELSE IF TopLimb(b) = 0 THEN divmod_single_limb(a, b[0])
  ELSE KnuthD(a, 4, b, TopLimb(b) + 1)

uint256_div(a, b) == uint256_divmod(a, b).q
uint256_mod(a, b) == uint256_divmod(a, b).r

(***************************************************************************)
(* Signed arithmetic.                                                      *)
(***************************************************************************)
Magnitude(a) == IF uint256_is_negative(a) THEN uint256_negate(a) ELSE a
SignedBy(negative, a) == IF negative THEN uint256_negate(a) ELSE a

\* The fast path for two one-limb magnitudes divides as uint256_divmod does there.
uint256_sdiv(a, b) ==
  IF uint256_is_zero(b) THEN uint256_zero
  ELSE IF a = MIN_NEGATIVE_VALUE /\ b = MINUS_ONE THEN MIN_NEGATIVE_VALUE
  ELSE SignedBy(uint256_is_negative(a) # uint256_is_negative(b),
                uint256_div(Magnitude(a), Magnitude(b)))

uint256_smod_Mutant(a, b) ==
  IF uint256_is_zero(b) THEN uint256_zero
  ELSE SignedBy(uint256_is_negative(a) # uint256_is_negative(b),
                uint256_mod(Magnitude(a), Magnitude(b)))

uint256_smod(a, b) ==
  IF uint256_is_zero(b) THEN uint256_zero
  ELSE SignedBy(uint256_is_negative(a), uint256_mod(Magnitude(a), Magnitude(b)))

uint256_slt(a, b) ==
  IF uint256_is_negative(a) # uint256_is_negative(b) THEN uint256_is_negative(a)
  ELSE uint256_lt(a, b)

\* The limb of the sign bit is cut above it and filled; the limbs above are replaced.
uint256_signextend(byte_pos, x) ==
  LET bit_index == ByteBits * byte_pos[0] + ByteBits - 1
      limb_index == bit_index \div LimbBits
      span == 2 ^ ((bit_index % LimbBits) + 1)
      low == x[limb_index] % span
      sign_bit == low >= span \div 2
  IN  IF ~uint256_fits_u64(byte_pos) \/ byte_pos[0] >= BytesPerWord - 1 THEN x
      ELSE [i \in Index |-> CASE i < limb_index -> x[i]
                             [] i = limb_index -> IF sign_bit THEN low + B - span ELSE low
                             [] i > limb_index -> IF sign_bit THEN B - 1 ELSE 0]

(***************************************************************************)
(* Modular arithmetic and powers.                                          *)
(***************************************************************************)
uint256_addmod_Mutant(a, b, n) ==
  IF uint256_is_zero(n) THEN uint256_zero ELSE uint256_mod(uint256_add(a, b), n)

\* With a carry out of the sum, 2^256 mod n is added; that sum is taken not to carry.
uint256_addmod(a, b, n) ==
  LET s == AddWithCarry(a, b)
      pow_256_mod_n == uint256_mod(uint256_add(uint256_sub(MINUS_ONE, n), uint256_from_u64(1)), n)
      partial == uint256_add(pow_256_mod_n, uint256_mod(s.sum, n))
  IN  IF uint256_is_zero(n) THEN uint256_zero
      ELSE IF s.carry = 0 THEN uint256_mod(s.sum, n)
      ELSE IF uint256_lt(partial, pow_256_mod_n) THEN uint256_mod(partial, n)
      ELSE IF uint256_lt(partial, n) THEN partial
      ELSE uint256_sub(partial, n)

\* Eight limbs: row i adds a[i] * b at limb i, and its last carry lands on limb i + 4.
uint256_mul_full(a, b) ==
  LET Row(i, acc) ==
        LET prod[j \in 0..4] ==
              IF j = 4 THEN 0 ELSE a[i] * b[j] + acc[i + j] + (IF j = 0 THEN 0 ELSE Hi(prod[j - 1]))
        IN  [k \in 0..7 |-> IF k \in i..(i + 3) THEN Lo(prod[k - i])
                            ELSE IF k = i + 4 THEN Hi(prod[3]) ELSE acc[k]]
      rows[i \in 0..4] == IF i = 0 THEN [k \in 0..7 |-> 0] ELSE Row(i - 1, rows[i - 1])
  IN  rows[4]

FitsWord(p) == \A k \in 4..7 : p[k] = 0
LowWord(p) == [i \in Index |-> p[i]]

\* Eight limbs modulo four, by the same algorithm D; here the divisor may have one limb.
uint512_mod_256(p, b) ==
  IF uint256_is_zero(b) THEN uint256_zero
  ELSE IF FitsWord(p) THEN uint256_mod(LowWord(p), b)
  ELSE KnuthD(p, 8, b, TopLimb(b) + 1).r

uint256_mulmod(a, b, n) ==
  IF uint256_is_zero(n) \/ uint256_is_zero(a) \/ uint256_is_zero(b) THEN uint256_zero
  ELSE uint512_mod_256(uint256_mul_full(a, b), n)

\* The loop of uint256_exp over the bits of the exponent, the lowest first.
SquareAndMultiply[result \in Uint, multiplier \in Uint, exp \in Word] ==
  IF exp = 0 THEN result
  ELSE SquareAndMultiply[IF exp % 2 = 1 THEN uint256_mul(result, multiplier) ELSE result,
                         uint256_mul(multiplier, multiplier), exp \div 2]

\* An even base to a power of at least the width is zero, known without the loop.
uint256_exp(base, exponent) ==
  LET one == uint256_from_u64(1)
  IN  IF uint256_is_zero(exponent) \/ base = one THEN one
      ELSE IF uint256_is_zero(base) THEN uint256_zero
      ELSE IF base[0] % 2 = 0 /\ (exponent[0] > WordBits - 1 \/ ~uint256_fits_u64(exponent))
           THEN uint256_zero
      ELSE SquareAndMultiply[one, base, Value(exponent)]

(***************************************************************************)
(* Bits and bytes.                                                         *)
(***************************************************************************)
uint256_shl(shift, value) ==
  LET limb_shift == shift[0] \div LimbBits
      bit_shift == shift[0] % LimbBits
      Src(i) == IF i >= 0 THEN value[i] ELSE 0
  IN  IF ~uint256_fits_u64(shift) \/ shift[0] >= WordBits THEN uint256_zero
      ELSE [i \in Index |-> Lo(Src(i - limb_shift) * 2 ^ bit_shift)
                              + Src(i - limb_shift - 1) \div 2 ^ (LimbBits - bit_shift)]

uint256_shr(shift, value) ==
  LET limb_shift == shift[0] \div LimbBits
      bit_shift == shift[0] % LimbBits
      Src(i) == IF i < 4 THEN value[i] ELSE 0
  IN  IF ~uint256_fits_u64(shift) \/ shift[0] >= WordBits THEN uint256_zero
      ELSE [i \in Index |-> Src(i + limb_shift) \div 2 ^ bit_shift
                              + Lo(Src(i + limb_shift + 1) * 2 ^ (LimbBits - bit_shift))]

\* A logical shift, then ones from the first bit that was shifted in.
uint256_sar(shift, value) ==
  LET first_clear_bit == WordBits - shift[0]
      first_limb == first_clear_bit \div LimbBits
      span == 2 ^ (first_clear_bit % LimbBits)
      logical == uint256_shr(shift, value)
  IN  IF ~uint256_fits_u64(shift) \/ shift[0] >= WordBits
      THEN IF uint256_is_negative(value) THEN MINUS_ONE ELSE uint256_zero
      ELSE IF ~uint256_is_negative(value) \/ shift[0] = 0 THEN logical
      ELSE [i \in Index |-> CASE i < first_limb -> logical[i]
                             [] i = first_limb -> (logical[i] % span) + B - span
                             [] i > first_limb -> B - 1]

BytesPerLimb == LimbBits \div ByteBits

uint256_byte(index, value) ==
  LET le_byte_idx == BytesPerWord - 1 - index[0]
  IN  IF ~uint256_fits_u64(index) \/ index[0] >= BytesPerWord THEN uint256_zero
      ELSE uint256_from_u64((value[le_byte_idx \div BytesPerLimb]
                               \div 2 ^ (ByteBits * (le_byte_idx % BytesPerLimb))) % 2 ^ ByteBits)

\* Big-endian: byte 1 is the highest byte of the highest limb.
uint256_to_bytes_be(a) ==
  [k \in 1..BytesPerWord |->
     LET i == BytesPerWord - k
     IN  (a[i \div BytesPerLimb] \div 2 ^ (ByteBits * (i % BytesPerLimb))) % 2 ^ ByteBits]

\* At most one word of bytes, the last ones; fewer are padded on the left.
uint256_from_bytes_be(data) ==
  LET Byte(k) == IF k >= 1 /\ k <= Len(data) THEN data[k] ELSE 0
      ByteOfLimb(i, j) == Byte(Len(data) - i * BytesPerLimb - j)
  IN  [i \in Index |-> MapThenSumSet(LAMBDA j : ByteOfLimb(i, j) * 2 ^ (ByteBits * j),
                                     0..(BytesPerLimb - 1))]

\* The highest non-zero byte of the highest non-zero limb.
uint256_byte_length(a) ==
  IF uint256_is_zero(a) THEN 0
  ELSE TopLimb(a) * BytesPerLimb
         + Min({n \in 1..BytesPerLimb : a[TopLimb(a)] < 2 ^ (ByteBits * n)})

(***************************************************************************)
(* A calculator: two operands, one operation.                              *)
(***************************************************************************)
VARIABLES x,   \* the operands, in the order the instruction pops them
          op,  \* the operation done, "none" at first
          r    \* its result
vars == <<x, op, r>>

Init == x \in {<<a, b>> : a \in Operand, b \in Edge} /\ op = "none" /\ r = uint256_zero

Done(o, result) == op = "none" /\ op' = o /\ r' = result

First == Limbs(x[1])
Second == Limbs(x[2])
Word1(b) == uint256_from_u64(Truth(b))

Divide ==
  /\ \/ Done("DIV", uint256_div(First, Second))
     \/ Done("MOD", uint256_mod(First, Second))
     \/ Done("SDIV", uint256_sdiv(First, Second))
     \/ Done("SMOD", uint256_smod(First, Second))
  /\ UNCHANGED x

Others ==
  /\ \/ Done("ADD", uint256_add(First, Second))
     \/ Done("SUB", uint256_sub(First, Second))
     \/ Done("MUL", uint256_mul(First, Second))
     \/ Done("EXP", uint256_exp(First, Second))
     \/ Done("LT", Word1(uint256_lt(First, Second)))
     \/ Done("SLT", Word1(uint256_slt(First, Second)))
  /\ UNCHANGED x

\* The second word is the position or the shift, popped first.
Positions ==
  /\ \/ Done("SIGNEXTEND", uint256_signextend(Second, First))
     \/ Done("SHL", uint256_shl(Second, First))
     \/ Done("SHR", uint256_shr(Second, First))
     \/ Done("SAR", uint256_sar(Second, First))
     \/ Done("BYTE", uint256_byte(Second, First))
  /\ x' = <<x[2], x[1]>>

Modular ==
  \E n \in Edge :
    /\ x[1] \in Edge
    /\ x' = <<x[1], x[2], n>>
    /\ \/ Done("ADDMOD", uint256_addmod(First, Second, Limbs(n)))
       \/ Done("MULMOD", uint256_mulmod(First, Second, Limbs(n)))

Bytes ==
  /\ x[2] = 0
  /\ \/ Done("BYTES", uint256_from_bytes_be(uint256_to_bytes_be(First)))
     \/ Done("LENGTH", uint256_from_u64(uint256_byte_length(First)))
  /\ UNCHANGED x

Next == Divide \/ Others \/ Positions \/ Modular \/ Bytes

Spec == Init /\ [][Next]_vars

(***************************************************************************)
(* Properties.                                                             *)
(***************************************************************************)
Computes(ops) == op \in ops => Value(r) = WordResult(op, x)

\* Quotient and remainder are those of the integers, through every path of
\* uint256_divmod: one limb by native division, one-limb divisors by reciprocal, and
\* algorithm D with its estimates, corrections and the step that adds back.
DivisionIsExact == Computes({"DIV", "MOD"})

\* Signed division rounds toward zero and the remainder has the dividend's sign; sign
\* extension, arithmetic shift and signed comparison agree with two's complement.
SignedIsExact == Computes({"SDIV", "SMOD", "SLT", "SIGNEXTEND", "SAR"})

\* uint256_addmod and uint256_mulmod reduce the sum of 257 bits and the product of
\* 512, not the wrapped ones.
ModularIsExact == Computes({"ADDMOD", "MULMOD"})

\* Sums, products, powers, shifts and byte selection on limbs are those of integers
\* modulo 2^256; big-endian bytes convert back to the number they came from, and
\* uint256_byte_length counts the bytes without leading zeros.
ArithmeticIsExact ==
  /\ Computes({"ADD", "SUB", "MUL", "EXP", "LT", "SHL", "SHR", "BYTE"})
  /\ op = "BYTES" => Value(r) = x[1]
  /\ op = "LENGTH" => Value(r) = ByteLength(x[1])
=============================================================================
