----------------------------- MODULE IntLanes -----------------------------
(***************************************************************************)
(* The integer sequences scripts/x86gen/gen.py writes: what each returns   *)
(* for one lane x (and y) of type t, or for one register where the lanes   *)
(* of the sequence are wider or narrower than those of the operation.  The *)
(* second half works on a lane's bits: the overflow tests, the shifts, the *)
(* bit counts and the narrowings.                                          *)
(***************************************************************************)
EXTENDS Lanes

\* Lanes of u8 seen two at a time through 16-bit instructions, and so on.
Twice(t) == [t EXCEPT !.e = 2 * t.e]

-----------------------------------------------------------------------------
(* fam_int_basic *)

WrappingNeg(t, x) == Wrap(Bits(t), 0 - x)
Not(t, x) == Xor(Bits(t), x, Ones(Bits(t)))

-----------------------------------------------------------------------------
(* fam_int_mul *)

\* The 16-bit products of the even and of the odd bytes, their low bytes: two bytes at once.
MulBytes(t, x, y) ==
  LET b == Bits(t)  w == 2 * b
      ev == And(w, Wrap(w, x * y), Ones(b))
      od == Sll(w, Wrap(w, Srl(w, x, b) * Srl(w, y, b)), b)
  IN Or(w, ev, od)

\* Two pmuludq over the even and the odd lanes; their low halves interleaved.
MulDwords(t, r, q) ==
  LET w == Bits(t)
      srl(z) == Narrower(2 * w, [i \in 1 .. 2 |-> Srl(2 * w, Wider(w, z)[i], w)])
      ev == Shuffle(MulEven(w, r, q), 8)
      od == Shuffle(MulEven(w, srl(r), srl(q)), 8)
  IN <<ev[1], od[1], ev[2], od[2]>>

\* The partial products: lo * lo + (hi * lo + lo * hi) << 32.
MulQwords(t, x, y) ==
  LET w == Bits(t)  h == w \div 2
      mul(p, q) == Lo(h, p) * Lo(h, q)
      c == Wrap(w, mul(Srl(w, x, h), y) + mul(x, Srl(w, y, h)))
  IN Wrap(w, mul(x, y) + Sll(w, c, h))

-----------------------------------------------------------------------------
(* gt_expr, blend, minmax_expr, fam_int_minmax *)

Gt(t, x, y) ==
  LET w == Bits(t)
  IN IF t.s THEN CmpGt(w, x, y) ELSE CmpGt(w, Xor(w, x, SignBit(w)), Xor(w, y, SignBit(w)))

Blend(w, m, x, y) == Or(w, And(w, m, x), AndNot(w, m, y))

\* The pmin and pmax instructions.
MinIns(t, x, y) == IF Value(t, x) < Value(t, y) THEN x ELSE y
MaxIns(t, x, y) == IF Value(t, x) > Value(t, y) THEN x ELSE y

MinBlend(t, x, y) == Blend(Bits(t), Gt(t, x, y), y, x)
MaxBlend(t, x, y) == Blend(Bits(t), Gt(t, x, y), x, y)

SubSat(t, x, y) == Saturate(t, Value(t, x) - Value(t, y))

\* u16 in SSE2: a - (a -sat b), b + (a -sat b).
MinSat(t, x, y) == Wrap(Bits(t), x - SubSat(t, x, y))
MaxSat(t, x, y) == Wrap(Bits(t), y + SubSat(t, x, y))

\* sign_epi8(x, x), the unsigned minimum of x and -x, and (x ^ s) - s.
AbsSign(t, x) ==
  LET v == Signed(Bits(t), x) IN Wrap(Bits(t), IF v < 0 THEN -x ELSE IF v = 0 THEN 0 ELSE x)
AbsMin(t, x) == MinIns([t EXCEPT !.s = FALSE], x, WrappingNeg(t, x))
AbsXor(t, x) ==
  LET w == Bits(t)
      s == IF t.e = 8 THEN CmpGt(w, 0, x) ELSE Sra(w, x, w - 1)
  IN Wrap(w, Xor(w, x, s) - s)

\* |x - y| in the unsigned type: max - min, wrapping.
AbsDiff(t, x, y) == Wrap(Bits(t), MaxIns(t, x, y) - MinIns(t, x, y))

-----------------------------------------------------------------------------
(* fam_compare: a lane of all ones where the comparison holds. *)

CmpLanes(c, t, x, y) ==
  LET w == Bits(t)  no(m) == Xor(w, m, Ones(w))
  IN CASE c = "eq" -> CmpEq(w, x, y)
       [] c = "ne" -> no(CmpEq(w, x, y))
       [] c = "gt" -> Gt(t, x, y)
       [] c = "lt" -> Gt(t, y, x)
       [] c = "le" -> no(Gt(t, x, y))
       [] c = "ge" -> no(Gt(t, y, x))

-----------------------------------------------------------------------------
(* fam_i64_gaps: 64-bit lanes x, y as pairs of the 32-bit ones SSE2 has. *)

\* pshufd 245 of the upper half's sign, spread over the lane.
SpreadSign(w, o) == LET s == Sra(w \div 2, Hi(w \div 2, o), w - 1) IN Join(w \div 2, s, s)

\* The difference's sign, corrected on overflow; unsigned lanes flip their sign bits first.
LtSse2(t, a, b) ==
  LET w == Bits(t)
      x == IF t.s THEN a ELSE Xor(w, a, SignBit(w))
      y == IF t.s THEN b ELSE Xor(w, b, SignBit(w))
      d == Wrap(w, x - y)
  IN SpreadSign(w, Xor(w, d, And(w, Xor(w, x, y), Xor(w, d, x))))

EqSse2(t, x, y) ==
  LET h == Bits(t) \div 2
      lo == CmpEq(h, Lo(h, x), Lo(h, y))
      hi == CmpEq(h, Hi(h, x), Hi(h, y))
  IN And(2 * h, Join(h, hi, lo), Join(h, lo, hi))

CmpSse2(c, t, x, y) ==
  LET w == Bits(t)  no(m) == Xor(w, m, Ones(w))
  IN CASE c = "eq" -> EqSse2(t, x, y)
       [] c = "ne" -> no(EqSse2(t, x, y))
       [] c = "lt" -> LtSse2(t, x, y)
       [] c = "gt" -> LtSse2(t, y, x)
       [] c = "le" -> no(LtSse2(t, y, x))
       [] c = "ge" -> no(LtSse2(t, x, y))

MinSse2(t, x, y) == Blend(Bits(t), LtSse2(t, x, y), x, y)
MaxSse2(t, x, y) == Blend(Bits(t), LtSse2(t, x, y), y, x)

\* The smaller operand subtracted from the larger, by either comparison.
AbsDiffBlend(t, lt, x, y) == Blend(Bits(t), lt, Wrap(Bits(t), y - x), Wrap(Bits(t), x - y))

AbsSse2(t, x) ==
  LET w == Bits(t)  s == SpreadSign(w, x) IN Wrap(w, Xor(w, x, s) - s)
AbsSse42(t, x) ==
  LET w == Bits(t)  s == CmpGt(w, 0, x) IN Wrap(w, Xor(w, x, s) - s)

\* An arithmetic shift by the lane's count: the logical one of the value, its sign flipped away.
ShrByLane(t, x, n) ==
  LET w == Bits(t)
      s == CmpGt(w, 0, x)
  IN Xor(w, Srl(w, Xor(w, x, s), And(w, n, w - 1)), s)

-----------------------------------------------------------------------------
(* sign_mask, fam_overflow *)

\* pmovmskb of the packed words, pmovmskb and movmskps: a lane's bit of the mask.
SignMask(t, o) ==
  IF t.e = 16 THEN Negative(t.b, Packs(t, o)) ELSE Negative(Bits(t), o)

OverflowAdd(t, x, y) ==
  LET w == Bits(t)  r == Wrap(w, x + y)
  IN SignMask(t, IF t.s THEN And(w, Xor(w, x, r), Xor(w, y, r)) ELSE Gt(t, x, r))

\* A mutant of OverflowSub: the test of a sum.
OverflowSub_AsSum(t, x, y) ==
  LET w == Bits(t)  r == Wrap(w, x - y)
  IN SignMask(t, IF t.s THEN And(w, Xor(w, x, r), Xor(w, y, r)) ELSE Gt(t, y, x))

OverflowSub(t, x, y) ==
  LET w == Bits(t)  r == Wrap(w, x - y)
  IN SignMask(t, IF t.s THEN And(w, Xor(w, x, y), Xor(w, x, r)) ELSE Gt(t, y, x))

\* The high half of the product against zero, or against the low half's sign; only 16-bit lanes.
OverflowMul(t, x, y) ==
  LET w == Bits(t)
      product == Value(t, x) * Value(t, y)
      mulhi == Wrap(w, product \div 2^w)
      o == IF t.s THEN Xor(w, mulhi, Sra(w, Wrap(w, product), w - 1)) ELSE mulhi
  IN ~SignMask(t, CmpEq(w, o, 0))

-----------------------------------------------------------------------------
(* fam_shift *)

\* Bytes, two at once: the 16-bit shift, then the bits that crossed a byte cleared.
ShlBytes(t, x, n) ==
  LET b == Bits(t)  keep == Lo(b, Sll(2 * b, Ones(b), n))
  IN And(2 * b, Sll(2 * b, x, n), Join(b, keep, keep))

ShrBytes(t, x, n) ==
  LET b == Bits(t)
      keep == Ones(b) \div 2^n
      lo == And(2 * b, Srl(2 * b, x, n), Join(b, keep, keep))
      m == SignBit(b) \div 2^n
      extend(z) == Wrap(b, Xor(b, z, m) - m)
  IN IF t.s THEN Join(b, extend(Hi(b, lo)), extend(Lo(b, lo))) ELSE lo

ShlScalar(t, x, n) == Sll(Bits(t), x, n)

\* The instruction, and before AVX-512 on 64-bit lanes the logical shift with the sign spread.
ShrScalar(t, x, n) == IF t.s THEN Sra(Bits(t), x, n) ELSE Srl(Bits(t), x, n)
ShrSpread(t, x, n) ==
  LET w == Bits(t)  m == 2^(w - 1 - n) IN Wrap(w, Xor(w, Srl(w, x, n), m) - m)

\* A vector count, modulo the width.
ShiftCount(t, n) == And(Bits(t), n, Bits(t) - 1)
WrappingShl(t, x, n) == Sll(Bits(t), x, ShiftCount(t, n))
WrappingShr(t, x, n) == ShrScalar(t, x, ShiftCount(t, n))

-----------------------------------------------------------------------------
(* fam_bits *)

\* The bits of pattern x: bin(x).count('1'), and the table of the nibbles' counts.
Count(w, x) == Cardinality({i \in 0 .. w - 1 : Bit(x, i)})

\* The counts of a lane's bytes: each nibble's from the table (pshufb), added.
ByteCounts(t, x) ==
  LET h == t.b \div 2
      count(z) == Count(h, Lo(h, z)) + Count(h, Lo(h, Hi(h, z)))
      bytes == t.e \div 8
      sum[i \in 0 .. bytes] ==
        IF i = bytes THEN 0
        ELSE sum[i + 1] + Wrap(t.b, count(x \div 2^(i * t.b))) * 2^(i * t.b)
  IN sum[0]

\* Neighbouring counts of h bits added into lanes of 2h.
Fold(h, w, c) ==
  LET lanes == w \div (2 * h)
      sum[i \in 0 .. lanes] ==
        IF i = lanes THEN 0
        ELSE LET z == Lo(2 * h, c \div 2^(2 * h * i))
             IN sum[i + 1] + Wrap(2 * h, Lo(h, z) + Hi(h, z)) * 2^(2 * h * i)
  IN sum[0]

\* psadbw against zero: the sum of the bytes.
Sad(b, w, c) ==
  LET bytes == w \div b
      sum[i \in 0 .. bytes] == IF i = bytes THEN 0 ELSE sum[i + 1] + Lo(b, c \div 2^(b * i))
  IN sum[0]

CountOnes(t, x) ==
  LET w == Bits(t)  c == ByteCounts(t, x)
  IN CASE t.e = 8  -> c
       [] t.e = 16 -> Fold(t.b, w, c)
       [] t.e = 32 -> Fold(2 * t.b, w, Fold(t.b, w, c))
       [] t.e = 64 -> Sad(t.b, w, c)

-----------------------------------------------------------------------------
(* fam_cast: the integer conversions *)

\* Sign- or zero-extension to lanes of twice, four or eight times the width, by the source's sign.
Widen(s, t, x) == Wrap(Bits(t), Value(s, x))

\* The low bits: packus of the lanes with the upper half cleared; and the even words of quadwords.
NarrowPack(t, x) == Packus(t, And(Bits(t), x, Ones(Bits(t) \div 2)))
NarrowEven(t, x) == Lo(Bits(t) \div 2, x)

\* Signed lanes straight into packs or packus; unsigned ones clamped below the signed maximum.
NarrowSaturating(t, s, x) ==
  LET h == Bits(t) \div 2
  IN IF t.s THEN (IF s THEN Packs(t, x) ELSE Packus(t, x))
     ELSE Packus(t, MinIns(t, x, Ones(h)))
=============================================================================
