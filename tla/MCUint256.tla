------------------------------ MODULE MCUint256 ------------------------------
(***************************************************************************)
(* Words of four limbs, each limb at an edge of its range.                 *)
(***************************************************************************)
EXTENDS Uint256

\* A word from its limbs, the highest first.
W(d, c, b, a) == a + B * (b + B * (c + B * d))

Top == B \div 2
Full == B - 1

\* Limbs that are empty, smallest, only the top bit, full.
EdgeLimbs == LET S == {0, 1, Top, Full} IN {W(d, c, b, a) : a, b, c, d \in S}

\* Positions and shifts within, at and beyond their limits; divisors of every number of
\* limbs, normalised and not; the ends of the signed and the unsigned range.
EdgeWords ==
  {0, 1, 2, 3, 5, 6, 7, 8, 9, 12, 17, 23, 24, 31, Full, W(0, 0, 1, 0), W(0, 0, 1, 1),
   W(0, 0, Top - 1, Full), W(0, 0, Top, Full), W(0, 1, Full, Full), W(0, Top, 0, 1),
   W(0, Top, 1, 0), W(1, 0, 0, 1), W(Top - 1, Full, Full, Full), W(Top, 0, 0, 0),
   W(Top, 0, 0, Full), W(Full, 0, Top, 1), W(Full, Full, Full, Full - 1),
   W(Full, Full, Full, Full)}
=============================================================================
