----------------------------- MODULE GuestWord -----------------------------
(***************************************************************************)
(* Machine words of the guest as the sets of their one bits, so that a     *)
(* 64-bit register is a subset of 0..63 and no integer of the checker ever *)
(* overflows.  Arithmetic is modulo 2^n for the width n given.             *)
(***************************************************************************)
EXTENDS Integers, Sequences, FiniteSetsExt, SequencesExt

Mask(n) == 0..(n - 1)
Inv(a, n) == Mask(n) \ a
Xor(a, b) == (a \ b) \cup (b \ a)

\* The bits of a natural number below 2^31, and its value again.
Bits(k) == {i \in 0..30 : (k \div 2^i) % 2 = 1}
Nat31(a) == SumSet({2^i : i \in a \cap 0..29})

\* A small integer as a 64-bit word in two's complement, and its value again.
W(k) == IF k >= 0 THEN Bits(k) ELSE Inv(Bits(-k - 1), 64)
Int31(a) == IF 63 \in a THEN -Nat31(Inv(a, 64)) - 1 ELSE Nat31(a)

\* The word of four halfwords, the highest first.
Hex(a, b, c, d) ==
  LET at(h, k) == {i + k : i \in Bits(h)}
  IN  at(a, 48) \cup at(b, 32) \cup at(c, 16) \cup at(d, 0)

Shl(a, k, n) == {i + k : i \in a} \cap Mask(n)
Shr(a, k) == {i - k : i \in {j \in a : j >= k}}
Sra(a, k, n) == Shr(a, k) \cup (IF n - 1 \in a THEN (n - k)..(n - 1) ELSE {})
Ror(a, k, n) == {(i - k) % n : i \in a}

\* The lowest m bits of a, sign-extended to n bits.
Sx(a, m, n) == (a \cap Mask(m)) \cup (IF m - 1 \in a THEN m..(n - 1) ELSE {})

\* w bits of a from bit k on.
Field(a, k, w) == Shr(a, k) \cap Mask(w)

\* The carry into bit i: the nearest lower bit where a and b agree decides it.
Carry(a, b, c, i) ==
  LET same == {j \in Mask(i) : (j \in a) = (j \in b)}
  IN  IF same = {} THEN c ELSE Max(same) \in a

Sum(a, b, c, n) == {i \in Mask(n) : (i \in Xor(a, b)) # Carry(a, b, c, i)}
Add(a, b, n) == Sum(a, b, FALSE, n)
Sub(a, b, n) == Sum(a, Inv(b, n), TRUE, n)
Neg(a, n) == Sub({}, a, n)

\* a + b + c overflows as a signed sum of n bits.
Overflow(a, b, c, n) ==
  (n - 1 \in a) = (n - 1 \in b) /\ (n - 1 \in Sum(a, b, c, n)) # (n - 1 \in a)

Mul(a, b, n) == FoldSet(LAMBDA i, s : Add(s, Shl(a, i, n), n), {}, b)

Below(a, b) == Xor(a, b) # {} /\ Max(Xor(a, b)) \in b

\* Division of words below 2^30, and of any word by one; by zero it gives zero.
Div(a, b) ==
  IF b = {} THEN {} ELSE IF b = {0} THEN a ELSE Bits(Nat31(a) \div Nat31(b))

Magnitude(a, n) == IF n - 1 \in a THEN Neg(a, n) ELSE a

SDiv(a, b, n) ==
  LET q == Div(Magnitude(a, n), Magnitude(b, n))
  IN  IF (n - 1 \in a) = (n - 1 \in b) THEN q ELSE Neg(q, n)

\* The bytes of every group of k bits in the opposite order.
SwapBytes(a, k) ==
  {k * (i \div k) + (k - 8) - 8 * ((i % k) \div 8) + (i % 8) : i \in a}

LeadingZeros(a, n) == IF a = {} THEN n ELSE n - 1 - Max(a)

\* Lane j of e bits, and the vector of the given lanes.
Lane(a, j, e) == Field(a, j * e, e)
LaneSet(e) == 0..(128 \div e - 1)
Lanes(lanes, e) == UNION {Shl(lanes[j], j * e, 128) : j \in LaneSet(e)}

-----------------------------------------------------------------------------
(* The few floating-point values the tests use are multiples of a quarter:  *)
(* q stands for q/4.                                                        *)

Float(q, exponent, mantissa, bias) ==
  LET a == Bits(IF q < 0 THEN -q ELSE q)
      e == Max(a)
      sign == IF q < 0 THEN {exponent + mantissa} ELSE {}
  IN  IF q = 0 THEN {}
      ELSE {i + mantissa - e : i \in a \ {e}}
           \cup Shl(Bits(bias + e - 2), mantissa, mantissa + exponent) \cup sign
Double(q) == Float(q, 11, 52, 1023)
Single(q) == Float(q, 8, 23, 127)
OfDouble(a) == CHOOSE q \in -127..127 : Double(q) = a
OfSingle(a) == CHOOSE q \in -127..127 : Single(q) = a

\* To an integer: down, up, toward zero, to the nearest even, and away.
Round(mode, q) ==
  LET down == q \div 4
      up == -((-q) \div 4)
  IN  CASE mode = "m" -> down
        [] mode = "p" -> up
        [] mode = "z" -> IF q < 0 THEN up ELSE down
        [] mode = "a" -> IF q < 0 THEN -((-q + 2) \div 4) ELSE (q + 2) \div 4
        [] mode = "n" -> IF q % 4 # 2 THEN (q + 2) \div 4
                         ELSE IF down % 2 = 0 THEN down ELSE up
=============================================================================
