---------------------------- MODULE FloatLanes ----------------------------
(***************************************************************************)
(* The float sequences of scripts/x86gen/gen.py over a small format: f.x   *)
(* exponent and f.m mantissa bits under a sign, as bit patterns, so that   *)
(* the signs of zeros and the payloads of NaNs are there.                  *)
(***************************************************************************)
EXTENDS Lanes

FBits(f) == 1 + f.x + f.m
Sign(f) == 2^(f.x + f.m)
Infinity(f) == Ones(f.x) * 2^f.m
Quiet(f) == 2^(f.m - 1)
Magnitude(f, p) == p % Sign(f)

IsNaN(f, p) == Magnitude(f, p) > Infinity(f)
IsZero(f, p) == Magnitude(f, p) = 0

\* The number in units of the least subnormal; an infinity counts as the next power of two.
Num(f, p) ==
  LET e == Magnitude(f, p) \div 2^f.m
      n == IF e = 0 THEN p % 2^f.m ELSE (2^f.m + (p % 2^f.m)) * 2^(e - 1)
  IN IF Negative(FBits(f), p) THEN -n ELSE n

\* One in those units, the format's bias being 2^(x-1) - 1.
Unit(f) == 2^(2^(f.x - 1) - 2 + f.m)

Unordered(f, x, y) == IsNaN(f, x) \/ IsNaN(f, y)

\* cmpps by its immediate: 0 eq, 3 unordered, 4 not equal or unordered, 7 ordered,
\* 17 lt, 18 le, 29 ge, 30 gt; the last four are false on a NaN.
CmpPs(f, imm, x, y) ==
  LET u == Unordered(f, x, y)
  IN CASE imm = 0  -> ~u /\ Num(f, x) = Num(f, y)
       [] imm = 3  -> u
       [] imm = 4  -> u \/ Num(f, x) # Num(f, y)
       [] imm = 7  -> ~u
       [] imm = 17 -> ~u /\ Num(f, x) < Num(f, y)
       [] imm = 18 -> ~u /\ Num(f, x) <= Num(f, y)
       [] imm = 29 -> ~u /\ Num(f, x) >= Num(f, y)
       [] imm = 30 -> ~u /\ Num(f, x) > Num(f, y)

\* minps, maxps: the second operand when either is NaN or both are zeros.
MinPs(f, x, y) == IF CmpPs(f, 17, x, y) THEN x ELSE y
MaxPs(f, x, y) == IF CmpPs(f, 30, x, y) THEN x ELSE y

-----------------------------------------------------------------------------
(* fam_compare: FCMP, and SSE's forms with swapped operands for gt and ge *)

FCMP == [eq |-> 0, ne |-> 4, lt |-> 17, le |-> 18, gt |-> 30, ge |-> 29]

CmpFloatLanes(f, c, x, y) == Lane(FBits(f), CmpPs(f, FCMP[c], x, y))

CmpFloatSse(f, c, x, y) ==
  Lane(FBits(f), CASE c = "gt" -> CmpPs(f, FCMP.lt, y, x)
                   [] c = "ge" -> CmpPs(f, FCMP.le, y, x)
                   [] OTHER -> CmpPs(f, FCMP[c], x, y))

-----------------------------------------------------------------------------
(* fam_float: the sign bit alone *)

Neg(f, x) == Xor(FBits(f), x, Sign(f))
Abs(f, x) == AndNot(FBits(f), Sign(f), x)
Copysign(f, x, y) ==
  Or(FBits(f), AndNot(FBits(f), Sign(f), x), And(FBits(f), Sign(f), y))

-----------------------------------------------------------------------------
(* fam_fminmax *)

Pick(f, holds, x, y) ==
  LET w == FBits(f)  m == Lane(w, holds) IN Or(w, And(w, m, x), AndNot(w, m, y))

\* Equal operands take their OR (minimum) or AND (maximum), the sign rule of zeros.
Ordered(f, op, x, y) ==
  LET w == FBits(f)
  IN IF op = "min" THEN Pick(f, CmpPs(f, 0, x, y), Or(w, x, y), MinPs(f, x, y))
     ELSE Pick(f, CmpPs(f, 0, x, y), And(w, x, y), MaxPs(f, x, y))

\* A NaN second operand takes the first, quieted when NaN.
NumberForm(f, op, x, y) ==
  LET w == FBits(f)
      xq == Or(w, x, And(w, Lane(w, IsNaN(f, x)), Quiet(f)))
  IN Pick(f, IsNaN(f, y), xq, Ordered(f, op, x, y))

\* Any NaN gives all ones.
NaNForm(f, op, x, y) ==
  Or(FBits(f), Ordered(f, op, x, y), Lane(FBits(f), Unordered(f, x, y)))

\* With mask registers: the same rules by blends.
NumberForm512(f, op, x, y) ==
  LET w == FBits(f)
      z == IF op = "min" THEN Or(w, x, y) ELSE And(w, x, y)
      r == IF CmpPs(f, 0, x, y) THEN z ELSE IF op = "min" THEN MinPs(f, x, y) ELSE MaxPs(f, x, y)
      xq == IF CmpPs(f, 3, x, x) THEN Or(w, x, Quiet(f)) ELSE x
  IN IF CmpPs(f, 3, y, y) THEN xq ELSE r

NaNForm512(f, op, x, y) ==
  LET w == FBits(f)
      z == IF op = "min" THEN Or(w, x, y) ELSE And(w, x, y)
      r == IF CmpPs(f, 0, x, y) THEN z ELSE IF op = "min" THEN MinPs(f, x, y) ELSE MaxPs(f, x, y)
  IN IF CmpPs(f, 3, x, y) THEN Ones(w) ELSE r

\* fam_minmax_avx10: vminmax by its immediate.  Bit 0 picks the maximum, bit 4 the forms where
\* a NaN yields the other operand; bits 2 and 3 at 01 keep the chosen operand's sign.
VMinMax(f, imm, x, y) ==
  LET above(p, q) == \/ Num(f, p) > Num(f, q)
                     \/ Num(f, p) = Num(f, q) /\ p < q
      smaller == IF above(x, y) THEN y ELSE x
      larger == IF above(x, y) THEN x ELSE y
      chosen == IF Bit(imm, 0) THEN larger ELSE smaller
      quieted(p) == Or(FBits(f), p, Quiet(f))
  IN CASE ~Unordered(f, x, y) -> chosen
       [] Bit(imm, 4) /\ ~IsNaN(f, x) -> x
       [] Bit(imm, 4) /\ ~IsNaN(f, y) -> y
       [] OTHER -> quieted(IF IsNaN(f, x) THEN x ELSE y)

Avx10(f, op, number, x, y) ==
  VMinMax(f, CASE op = "min" /\ number  -> 20
               [] op = "max" /\ number  -> 21
               [] op = "min" /\ ~number -> 4
               [] op = "max" /\ ~number -> 5, x, y)

-----------------------------------------------------------------------------
(* f2i32 and the rounding of u32: integers of w bits *)

\* cvttps2dq: truncation; the most negative integer for NaN and past either end.
Truncated(f, n) == IF n < 0 THEN -((-n) \div Unit(f)) ELSE n \div Unit(f)
CvttNum(f, w, nan, n) ==
  LET i == Truncated(f, n)
  IN IF nan \/ i < -SignBit(w) \/ i >= SignBit(w) THEN SignBit(w) ELSE Wrap(w, i)
Cvtt(f, w, x) == CvttNum(f, w, IsNaN(f, x), Num(f, x))

Reaches(f, x, n) == ~IsNaN(f, x) /\ Num(f, x) >= n * Unit(f)

ToSigned(f, w, x) ==
  LET r == Cvtt(f, w, x)
      big == Lane(w, Reaches(f, x, SignBit(w)))
      ord == Lane(w, ~IsNaN(f, x))
  IN And(w, Xor(w, r, big), ord)

\* Negative and NaN lanes to 0 by max, the lanes from 2^31 converted 2^31 lower and their top
\* bit set, past 2^32 all ones.
ToUnsigned(f, w, a) ==
  LET x == MaxPs(f, a, 0)
      big == Lane(w, Reaches(f, x, SignBit(w)))
      lo == Cvtt(f, w, x)
      up == Xor(w, CvttNum(f, w, IsNaN(f, x), Num(f, x) - SignBit(w) * Unit(f)), SignBit(w))
      r == Or(w, And(w, big, up), AndNot(w, big, lo))
  IN Or(w, r, Lane(w, Reaches(f, x, 2^w)))

\* 512 bits: past either end that end, NaN 0, by the comparison masks.
ToSigned512(f, w, x) ==
  LET r1 == IF Reaches(f, x, SignBit(w)) THEN SignBit(w) - 1 ELSE Cvtt(f, w, x)
  IN IF IsNaN(f, x) THEN 0 ELSE r1

\* vcvttps2udq: all ones for NaN, below zero and past the end.
CvttU(f, w, x) ==
  LET i == Truncated(f, Num(f, x))
  IN IF IsNaN(f, x) \/ i < 0 \/ i > Ones(w) THEN Ones(w) ELSE i
ToUnsigned512(f, w, x) ==
  LET r1 == IF Reaches(f, x, 2^w) THEN Ones(w) ELSE CvttU(f, w, x)
      r2 == IF CmpPs(f, 17, x, 0) THEN 0 ELSE r1
  IN IF IsNaN(f, x) THEN 0 ELSE r2

\* n rounded to p significant bits, ties to even.
Round(p, n) ==
  LET s == CHOOSE k \in 0 .. 32 : n < 2^(p + k) /\ (k = 0 \/ n >= 2^(p + k - 1))
      q == n \div 2^s
      r == n % 2^s
      up == 2 * r > 2^s \/ (2 * r = 2^s /\ s > 0 /\ q % 2 = 1)
  IN (IF up THEN q + 1 ELSE q) * 2^s

\* u32 to f32: the halves converted apart; one rounding in the sum.
FromUnsigned(p, w, x) ==
  LET h == w \div 2
      hi == Round(p, Round(p, Srl(w, x, h)) * 2^h)
  IN Round(p, hi + Round(p, And(w, x, Ones(h))))
=============================================================================
