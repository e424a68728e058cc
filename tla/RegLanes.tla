----------------------------- MODULE RegLanes -----------------------------
(***************************************************************************)
(* The sequences of scripts/x86gen/gen.py that move lanes or look at all   *)
(* of a register: masks, reductions, a run-time byte index, masked memory  *)
(* and gathers.  A register is a sequence of lanes of type t, a mask a     *)
(* number whose bit i - 1 belongs to lane i.                               *)
(***************************************************************************)
EXTENDS IntLanes

-----------------------------------------------------------------------------
(* fam_compare: lane masks to the mask's bits and back *)

LanesToMask(t, r) == FromBits(Len(r), LAMBDA i : SignMask(t, r[i + 1]))

\* The packed words of two halves, movemasked together (16-bit lanes of 256 bits), are the
\* words in their order; every other width reads the lanes' own sign bits.
AnyLanes(t, r) == \E i \in DOMAIN r : \E j \in 1 .. (t.e \div 8) :
                    Bit(r[i], j * t.b - 1)
AllLanes(t, r) == \A i \in DOMAIN r : \A j \in 1 .. (t.e \div 8) :
                    Bit(r[i], j * t.b - 1)

\* Each byte lane tests bit (i mod 8) of its byte of the mask, pshufb'd beside it; each wider
\* lane its own bit i of the mask in every lane.
ByteBit(t, i) == 2^(i % t.b)
MaskToBytes(t, n, m) ==
  [i \in 1 .. n |->
     LET byte == Lo(t.b, m \div 2^(t.b * ((i - 1) \div t.b)))
         b == ByteBit(t, i - 1)
     IN CmpEq(t.b, And(t.b, byte, b), b)]

MaskToLanes(t, n, m) ==
  [i \in 1 .. n |->
     LET w == Bits(t) IN CmpEq(w, And(w, Wrap(w, m), 2^(i - 1)), 2^(i - 1))]

\* A mutant of MaskToQwords: without the shuffle the high halves keep the test that always holds.
MaskToQwords_NoCopy(t, m) ==
  LET h == Bits(t) \div 2
      b == <<1, 0, 2, 0>>
  IN Wider(h, [i \in 1 .. 4 |-> CmpEq(h, And(h, Wrap(h, m), b[i]), b[i])])

\* SSE2, 64-bit lanes: the low halves' 32-bit test, copied into the high halves by pshufd 160.
MaskToQwords(t, m) ==
  LET h == Bits(t) \div 2
      b == <<1, 0, 2, 0>>
      test == [i \in 1 .. 4 |-> CmpEq(h, And(h, Wrap(h, m), b[i]), b[i])]
  IN Wider(h, Shuffle(test, 160))

-----------------------------------------------------------------------------
(* fam_reduce: registers of 128 bits *)

\* The register as lanes of another nominal width (e2), and back.
Recast(t, e2, r) ==
  LET wide[e \in {8, 16, 32, 64}] ==
        IF e = t.e THEN r
        ELSE IF e > t.e THEN Wider((t.b * e) \div 16, wide[e \div 2])
        ELSE Narrower((t.b * e) \div 4, wide[2 * e])
  IN wide[e2]

T(t, e) == [t EXCEPT !.e = e]

\* The register with its halves, quarters, ... brought onto the lower ones: punpckhqdq,
\* pshufd 177, psrld 16, psrlw 8.
Fold64(t, r) == UpperTwice(r)
Fold32(t, r) == Recast(T(t, 32), t.e, Shuffle(Recast(t, 32, r), 177))
Fold16(t, r) ==
  LET w == Bits(T(t, 32))  q == Recast(t, 32, r)
  IN Recast(T(t, 32), t.e, [i \in DOMAIN q |-> Srl(w, q[i], w \div 2)])
Fold8(t, r) ==
  LET w == Bits(T(t, 16))  q == Recast(t, 16, r)
  IN Recast(T(t, 16), t.e, [i \in DOMAIN q |-> Srl(w, q[i], w \div 2)])

\* Op over the register and its upper parts, down to one lane of width t.e.
FoldHalves(t, Op(_, _, _), r) ==
  LET op(x, y) == Op(t, x, y)
      s64 == Map2(op, r, Fold64(t, r))
      s32 == IF t.e <= 32 THEN Map2(op, s64, Fold32(t, s64)) ELSE s64
      s16 == IF t.e <= 16 THEN Map2(op, s32, Fold16(t, s32)) ELSE s32
      s8 == IF t.e = 8 THEN Map2(op, s16, Fold8(t, s16)) ELSE s16
  IN s8[1]

AndLane(t, x, y) == And(Bits(t), x, y)
OrLane(t, x, y) == Or(Bits(t), x, y)
XorLane(t, x, y) == Xor(Bits(t), x, y)

\* u16: phminposuw, and of the complement for the maximum.
SmallestWord(r) == CHOOSE x \in ToSet(r) : \A y \in ToSet(r) : x <= y
ReduceMinWord(t, r) == SmallestWord(r)
ReduceMaxWord(t, r) ==
  LET w == Bits(t) IN Ones(w) - SmallestWord([i \in DOMAIN r |-> Xor(w, r[i], Ones(w))])

\* pmaddwd: the signed products of the words of r and q, summed by pairs into dwords.
MaddPairs(t, r, q) ==
  [i \in 1 .. Len(r) \div 2 |->
     Wrap(2 * Bits(t), Signed(Bits(t), r[2*i - 1]) * Signed(Bits(t), q[2*i - 1])
                       + Signed(Bits(t), r[2*i]) * Signed(Bits(t), q[2*i]))]

\* The sum of four dwords: pshufd 78, then 177.
SumDwords(w, d) ==
  LET add(x, y) == Wrap(w, x + y)
      s2 == Map2(add, d, Shuffle(d, 78))
  IN Map2(add, s2, Shuffle(s2, 177))[1]

ReduceAdd(t, r) ==
  CASE t.e = 8 ->
         \* psadbw against zero sums the bytes of each half; the halves added, the low byte kept.
         LET half(k) == LET q == Recast(t, 64, r)[k] IN Sad(t.b, 8 * t.b, q)
         IN Wrap(t.b, half(1) + half(2))
    [] t.e = 16 -> Wrap(2 * t.b, SumDwords(4 * t.b, MaddPairs(t, r, [i \in DOMAIN r |-> 1])))
    [] t.e = 32 -> SumDwords(4 * t.b, r)
    [] t.e = 64 -> Wrap(8 * t.b, r[1] + UpperTwice(r)[1])

\* dot::<i32> of i16 lanes.
DotWords(t, r, q) == SumDwords(2 * Bits(t), MaddPairs(t, r, q))

\* The tree of a float sum or product, as the term it computes: movehlps, then the second lane.
ReduceTree(v) ==
  IF Len(v) = 4 THEN <<<<v[1], v[3]>>, <<v[2], v[4]>>>> ELSE <<v[1], v[2]>>

\* A run-time byte index: pshufb gives 0 where the index byte's top bit is set, and reads the
\* low four bits else; the indexes from 16 saturate past 127 first (adds of 112).
SwizzleOrZero(b, lanes, idx) ==
  LET n == Len(lanes)
      sat(k) == IF k + (SignBit(b) - n) > Ones(b) THEN Ones(b) ELSE k + (SignBit(b) - n)
      pshufb(k) == IF Negative(b, k) THEN 0 ELSE lanes[1 + (k % n)]
  IN [i \in DOMAIN idx |-> pshufb(sat(idx[i]))]

-----------------------------------------------------------------------------
(* fam_masked, fam_gather: memory is a function from addresses; touched is what is accessed *)

\* The lane masks of lane_bits: all ones where the mask's bit is set.
LaneBits(w, n, m) == [i \in 1 .. n |-> CmpEq(w, And(w, Wrap(w, m), 2^(i - 1)), 2^(i - 1))]

\* maskload reads the lanes whose mask has its sign bit, 0 else; the blend gives the fallback.
LoadMasked(w, mem, p, m, fb) ==
  LET s == LaneBits(w, Len(fb), m)
      on == {i \in DOMAIN fb : Negative(w, s[i])}
      r == [i \in DOMAIN fb |-> IF i \in on THEN mem[p + i - 1] ELSE 0]
  IN [out |-> [i \in DOMAIN fb |-> IF Negative(w, s[i]) THEN r[i] ELSE fb[i]],
      touched |-> {p + i - 1 : i \in on}]

StoreMasked(w, mem, p, m, v) ==
  LET s == LaneBits(w, Len(v), m)
      on == {i \in DOMAIN v : Negative(w, s[i])}
  IN [mem |-> [a \in DOMAIN mem |-> IF a - p + 1 \in on THEN v[a - p + 1] ELSE mem[a]],
      touched |-> {p + i - 1 : i \in on}]

\* Where lane i's index points: index lanes of type t widen to quadwords by zero-extension.
At(t, p, idx, i) == p + Signed(8 * t.b, Widen([t EXCEPT !.s = FALSE], T(t, 64), idx[i]))

\* The masked gather of a half or a whole, index lanes of type t.
GatherOnce(t, mem, p, idx, m, fb) ==
  LET s == LaneBits(Bits(t), Len(fb), m)
      on == {i \in DOMAIN fb : Negative(Bits(t), s[i])}
  IN [out |-> [i \in DOMAIN fb |-> IF i \in on THEN mem[At(t, p, idx, i)] ELSE fb[i]],
      touched |-> {At(t, p, idx, i) : i \in on}]

\* Twice the lanes of one gather: the low and the high half, each with its bits of the mask.
Gather(t, mem, p, idx, m, fb) ==
  LET h == Len(fb) \div 2
      lo == GatherOnce(t, mem, p, SubSeq(idx, 1, h), m % 2^h, SubSeq(fb, 1, h))
      hi == GatherOnce(t, mem, p, SubSeq(idx, h + 1, 2 * h), m \div 2^h,
                       SubSeq(fb, h + 1, 2 * h))
  IN [out |-> lo.out \o hi.out, touched |-> lo.touched \cup hi.touched]

\* AVX-512's scatter of a half: the lanes in order, so of equal indexes the last lane's stays.
ScatterOnce(t, mem, p, idx, m, v) ==
  LET on(a) == {i \in DOMAIN v : Bit(m, i - 1) /\ At(t, p, idx, i) = a}
  IN [a \in DOMAIN mem |-> IF on(a) = {} THEN mem[a] ELSE v[Max(on(a))]]

Scatter(t, mem, p, idx, m, v) ==
  LET h == Len(v) \div 2
      lo == ScatterOnce(t, mem, p, SubSeq(idx, 1, h), m % 2^h, SubSeq(v, 1, h))
  IN ScatterOnce(t, lo, p, SubSeq(idx, h + 1, 2 * h), m \div 2^h, SubSeq(v, h + 1, 2 * h))

\* Compress packs the chosen lanes down, the fill's lanes above them; expand the other way.
Rank(m, i) == Cardinality({j \in 0 .. i - 1 : Bit(m, j)})
Compress(m, v, fill) ==
  LET k == Rank(m, Len(v))
  IN [i \in DOMAIN v |->
        IF i > k THEN fill[i] ELSE v[CHOOSE j \in DOMAIN v : Bit(m, j - 1) /\ Rank(m, j) = i]]
Expand(m, v, fill) ==
  [i \in DOMAIN v |-> IF Bit(m, i - 1) THEN v[Rank(m, i)] ELSE fill[i]]
=============================================================================
