------------------------------- MODULE Lanes -------------------------------
(***************************************************************************)
(* Lanes of vector registers as bit patterns, and the x86 instructions the *)
(* generated backend std/simd/backend/x86_64.spc is written in, by their   *)
(* effect on one lane or on one register.  A lane of nominal width e has   *)
(* Bits(t) bits: every width is scaled by the same factor, so a byte is    *)
(* t.b bits wide, a 16-bit lane two of them, and so on.                    *)
(***************************************************************************)
EXTENDS Integers, Sequences, SequencesExt, FiniteSets

\* A lane type: t.b bits to the byte, nominal width t.e, signed or not (BITS, sg).
Bits(t) == (t.e * t.b) \div 8

Ones(w) == 2^w - 1
Pattern(w) == 0 .. Ones(w)
Wrap(w, n) == n % 2^w
Negative(w, x) == x >= 2^(w - 1)
Signed(w, x) == IF Negative(w, x) THEN x - 2^w ELSE x
SignBit(w) == 2^(w - 1)

\* The number a lane of type t stands for, and the type's ends.
Value(t, x) == IF t.s THEN Signed(Bits(t), x) ELSE x
Least(t) == IF t.s THEN -SignBit(Bits(t)) ELSE 0
Most(t) == IF t.s THEN SignBit(Bits(t)) - 1 ELSE Ones(Bits(t))
Saturate(t, n) ==
  Wrap(Bits(t), IF n < Least(t) THEN Least(t) ELSE IF n > Most(t) THEN Most(t) ELSE n)

-----------------------------------------------------------------------------
(* pand, por, pxor, pandn: bit by bit. *)

Bit(x, i) == (x \div 2^i) % 2 = 1

FromBits(w, B(_)) ==
  LET sum[i \in 0 .. w] == IF i = w THEN 0 ELSE sum[i + 1] + (IF B(i) THEN 2^i ELSE 0)
  IN sum[0]

And(w, x, y) == FromBits(w, LAMBDA i : Bit(x, i) /\ Bit(y, i))
Or(w, x, y) == FromBits(w, LAMBDA i : Bit(x, i) \/ Bit(y, i))
Xor(w, x, y) == FromBits(w, LAMBDA i : Bit(x, i) # Bit(y, i))
AndNot(w, x, y) == FromBits(w, LAMBDA i : ~Bit(x, i) /\ Bit(y, i))

-----------------------------------------------------------------------------
(* Shifts (psll, psrl, psra): a count past the width clears or spreads the sign. *)

Sll(w, x, n) == IF n >= w THEN 0 ELSE Wrap(w, x * 2^n)
Srl(w, x, n) == IF n >= w THEN 0 ELSE x \div 2^n
Sra(w, x, n) == Wrap(w, Signed(w, x) \div 2^(IF n >= w THEN w - 1 ELSE n))

(* Comparisons (pcmpeq, pcmpgt): all ones or zero. *)

Lane(w, holds) == IF holds THEN Ones(w) ELSE 0
CmpEq(w, x, y) == Lane(w, x = y)
CmpGt(w, x, y) == Lane(w, Signed(w, x) > Signed(w, y))

(* Packs to half the width with saturation: packs to signed, packus to unsigned lanes.
   Both read signed lanes. *)

Half(t, s) == [t EXCEPT !.e = t.e \div 2, !.s = s]
Packs(t, x) == Saturate(Half(t, TRUE), Signed(Bits(t), x))
Packus(t, x) == Saturate(Half(t, FALSE), Signed(Bits(t), x))

-----------------------------------------------------------------------------
(* Registers: sequences of lanes, the lowest first. *)

\* Two lanes of w bits seen as one of 2w bits, and back.
Lo(w, x) == x % 2^w
Hi(w, x) == x \div 2^w
Join(w, hi, lo) == hi * 2^w + lo

\* The register's lanes of w bits seen as lanes of twice the width, and as lanes of half.
Wider(w, r) == [i \in 1 .. Len(r) \div 2 |-> Join(w, r[2*i], r[2*i - 1])]
Narrower(w, r) ==
  [i \in 1 .. 2 * Len(r) |->
     IF i % 2 = 1 THEN Lo(w \div 2, r[(i + 1) \div 2]) ELSE Hi(w \div 2, r[i \div 2])]

Map2(Op(_, _), r, q) == [i \in DOMAIN r |-> Op(r[i], q[i])]

\* pshufd: lane i of the four is the source's lane number (imm / 4^i) mod 4.
Shuffle(r, imm) == [i \in 1 .. 4 |-> r[1 + ((imm \div 4^(i - 1)) % 4)]]

\* punpckhqdq of a register with itself: both halves the upper one.
UpperTwice(r) ==
  LET h == Len(r) \div 2 IN [i \in DOMAIN r |-> r[IF i > h THEN i ELSE i + h]]

\* pmuludq: the products of the even lanes, each over two lanes.
MulEven(w, r, q) ==
  [i \in DOMAIN r |->
     IF i % 2 = 1 THEN Lo(w, r[i] * q[i]) ELSE Hi(w, r[i - 1] * q[i - 1])]
=============================================================================
