------------------------------ MODULE Backend ------------------------------
(***************************************************************************)
(* Calls of the entries of std/simd/backend/x86_64.spc.  An operation has  *)
(* one entry per feature set; a call collects what each of them returns    *)
(* (out), and the properties state the operation's own meaning, as         *)
(* std/simd.spc documents it, for the lanes of the call.  The entries have *)
(* no state, so every input is a call of its own.                          *)
(***************************************************************************)
EXTENDS RegLanes

F == INSTANCE FloatLanes

CONSTANTS IntTypes,   \* lane types of the lane-wise operations
          Samples,    \* the lanes each of them is called with
          RegTypes,   \* lane types of whole registers
          Registers,  \* the registers of each of them
          Float,      \* the float format of comparisons and extremes
          Wide,       \* one with room for integers of IntBits bits and their halves
          IntBits,    \* the integers Wide is converted to
          Rounding,   \* significant bits p and integer width w: the halves fit p, the whole not
          Base        \* the first address of the array in memory

VARIABLES
  op,   \* the operation called, or "none"
  t,    \* its lane type (for a float operation, the format)
  in,   \* its operands
  out   \* what the variants returned

vars == <<op, t, in, out>>

Init == op = "none" /\ t = <<>> /\ in = <<>> /\ out = {}

Call(o, type, args, results) ==
  op' = o /\ t' = type /\ in' = args /\ out' = results

Return ==
  op # "none" /\ op' = "none" /\ t' = <<>> /\ in' = <<>> /\ out' = {}

Unsigned(type) == [type EXCEPT !.s = FALSE]

-----------------------------------------------------------------------------
(* Lane-wise integer operations *)

Unary == \E type \in IntTypes : \E x \in Samples[type] :
  \/ Call("wrapping_neg", type, <<x>>, {WrappingNeg(type, x)})
  \/ Call("not", type, <<x>>, {Not(type, x)})
  \/ type.s /\ Call("wrapping_abs", type, <<x>>,
                    {AbsXor(type, x), AbsSse2(type, x), AbsSse42(type, x)}
                    \cup IF type.e = 8 THEN {AbsSign(type, x), AbsMin(type, x)} ELSE {})
  \/ Call("count_ones", type, <<x>>, {CountOnes(type, x)})

\* Bytes are multiplied two at a time, 64-bit lanes by halves.
Multiply == \E type \in IntTypes :
  \/ type.e = 8 /\ \E x, y \in Pattern(2 * Bits(type)) :
       Call("wrapping_mul_bytes", type, <<x, y>>, {MulBytes(type, x, y)})
  \/ type.e = 64 /\ \E x, y \in Samples[type] :
       Call("wrapping_mul", type, <<x, y>>, {MulQwords(type, x, y)})

MinMax == \E type \in IntTypes : \E x, y \in Samples[type] :
  \/ Call("min", type, <<x, y>>,
          {MinIns(type, x, y), MinBlend(type, x, y), MinSse2(type, x, y)}
          \cup IF type.e = 16 /\ ~type.s THEN {MinSat(type, x, y)} ELSE {})
  \/ Call("max", type, <<x, y>>,
          {MaxIns(type, x, y), MaxBlend(type, x, y), MaxSse2(type, x, y)}
          \cup IF type.e = 16 /\ ~type.s THEN {MaxSat(type, x, y)} ELSE {})
  \/ Call("abs_diff", type, <<x, y>>,
          {AbsDiff(type, x, y), AbsDiffBlend(type, LtSse2(type, x, y), x, y),
           AbsDiffBlend(type, Gt(type, y, x), x, y)})

Comparisons == {"eq", "ne", "lt", "le", "gt", "ge"}

Compare == \E type \in IntTypes, c \in Comparisons : \E x, y \in Samples[type] :
  Call(c, type, <<x, y>>, {CmpLanes(c, type, x, y), CmpSse2(c, type, x, y)})

Overflow == \E type \in IntTypes : \E x, y \in Samples[type] :
  \/ Call("overflow_add", type, <<x, y>>, {OverflowAdd(type, x, y)})
  \/ Call("overflow_sub", type, <<x, y>>, {OverflowSub(type, x, y)})
  \/ type.e = 16 /\ Call("overflow_mul", type, <<x, y>>, {OverflowMul(type, x, y)})

\* A scalar count is below the width, or the operation traps before its entry runs.
Shift == \E type \in IntTypes :
  \/ \E x \in Samples[type], n \in 0 .. Bits(type) - 1 :
       \/ Call("shl_scalar", type, <<x, n>>, {ShlScalar(type, x, n)})
       \/ Call("shr_scalar", type, <<x, n>>,
               {ShrScalar(type, x, n)} \cup IF type.s THEN {ShrSpread(type, x, n)} ELSE {})
  \/ \E x, n \in Samples[type] : type.e >= 16 /\
       \/ Call("wrapping_shl", type, <<x, n>>, {WrappingShl(type, x, n)})
       \/ Call("wrapping_shr", type, <<x, n>>,
               {WrappingShr(type, x, n)} \cup IF type.s THEN {ShrByLane(type, x, n)} ELSE {})
  \/ type.e = 8 /\ \E x \in Pattern(2 * Bits(type)), n \in 0 .. Bits(type) - 1 :
       \/ Call("shl_bytes", type, <<x, n>>, {ShlBytes(type, x, n)})
       \/ Call("shr_bytes", type, <<x, n>>, {ShrBytes(type, x, n)})

Convert == \E type \in IntTypes, s \in BOOLEAN : \E x \in Samples[type] :
  \/ type.e \in {16, 32} /\ Call("narrow_wrapping", type, <<x>>,
                                 {NarrowPack(type, x), NarrowEven(type, x)})
  \/ type.e \in {16, 32} /\ (s => type.s) /\
       Call("narrow_saturating", type, <<x, s>>, {NarrowSaturating(type, s, x)})
  \/ type.e <= 32 /\ Call("widen", type, <<x, s>>, {Widen(type, [Twice(type) EXCEPT !.s = s], x)})

-----------------------------------------------------------------------------
(* Float operations *)

FloatLane == \E x, y \in Pattern(F!FBits(Float)) :
  \/ \E c \in Comparisons :
       Call("float_" \o c, Float, <<x, y>>,
            {F!CmpFloatLanes(Float, c, x, y), F!CmpFloatSse(Float, c, x, y)})
  \/ \E o \in {"min", "max"} :
       \/ Call(o \o "_num", Float, <<x, y>>,
               {F!NumberForm(Float, o, x, y), F!NumberForm512(Float, o, x, y),
                F!Avx10(Float, o, TRUE, x, y)})
       \/ Call(o \o "imum", Float, <<x, y>>,
               {F!NaNForm(Float, o, x, y), F!NaNForm512(Float, o, x, y),
                F!Avx10(Float, o, FALSE, x, y)})
  \/ Call("sign_ops", Float, <<x, y>>,
          {<<F!Neg(Float, x), F!Abs(Float, x), F!Copysign(Float, x, y)>>})

FloatConvert ==
  \/ \E x \in Pattern(F!FBits(Wide)) :
       \/ Call("as_signed", Wide, <<x>>,
               {F!ToSigned(Wide, IntBits, x), F!ToSigned512(Wide, IntBits, x)})
       \/ Call("as_unsigned", Wide, <<x>>,
               {F!ToUnsigned(Wide, IntBits, x), F!ToUnsigned512(Wide, IntBits, x)})
  \/ \E r \in Rounding : \E x \in Pattern(r.w) :
       Call("from_unsigned", r, <<x>>, {F!FromUnsigned(r.p, r.w, x)})

-----------------------------------------------------------------------------
(* Whole registers *)

Reduce == \E type \in RegTypes : \E r \in Registers[type] :
  \/ Call("reduce_add", type, <<r>>, {ReduceAdd(type, r)})
  \/ Call("reduce_and", type, <<r>>, {FoldHalves(type, AndLane, r)})
  \/ Call("reduce_or", type, <<r>>, {FoldHalves(type, OrLane, r)})
  \/ Call("reduce_xor", type, <<r>>, {FoldHalves(type, XorLane, r)})
  \/ Call("reduce_min", type, <<r>>,
          IF type.e = 16 /\ ~type.s THEN {ReduceMinWord(type, r)}
                                    ELSE {FoldHalves(type, MinIns, r)})
  \/ Call("reduce_max", type, <<r>>,
          IF type.e = 16 /\ ~type.s THEN {ReduceMaxWord(type, r)}
                                    ELSE {FoldHalves(type, MaxIns, r)})
  \/ \E q \in Registers[type] :
       \/ type.e = 16 /\ type.s /\ Call("dot", type, <<r, q>>, {DotWords(type, r, q)})
       \/ type.e = 32 /\ Call("wrapping_mul", type, <<r, q>>, {MulDwords(type, r, q)})

\* As many lanes as the lane has bits, at most 16; two bytes of mask for bytes.
Masks == \E type \in RegTypes :
  \/ type.e = 8 /\ \E m \in Pattern(2 * type.b) :
       Call("mask_to_lanes", type, <<m, 2 * type.b>>, {MaskToBytes(type, 2 * type.b, m)})
  \/ type.e > 8 /\ \E m \in Pattern(4) :
       Call("mask_to_lanes", type, <<m, 4>>, {MaskToLanes(type, 4, m)})
  \/ type.e = 64 /\ \E m \in Pattern(2) :
       Call("mask_to_lanes", type, <<m, 2>>, {MaskToLanes(type, 2, m), MaskToQwords(type, m)})

\* A run-time byte index, and the trees of a float reduction as the terms they compute.
Swizzle == \E k \in Pattern(8) :
  LET lanes == [i \in 1 .. 16 |-> i]  idx == [i \in 1 .. 16 |-> Wrap(8, k + 15 * i)]
  IN Call("swizzle_or_zero", [e |-> 8], <<lanes, idx>>, {SwizzleOrZero(8, lanes, idx)})

Tree == \E n \in {2, 4} :
  LET v == SubSeq(<<"v1", "v2", "v3", "v4">>, 1, n)
  IN Call("reduce_tree", [e |-> 128 \div n], <<v>>, {ReduceTree(v)})

-----------------------------------------------------------------------------
(* Masked memory.  Every address holds itself. *)

Index == [b |-> 1, e |-> 32, s |-> FALSE]
Memory == [a \in Base - 8 .. Base + 15 |-> a]
Lanes8 == 1 .. 8
Fallback == [i \in Lanes8 |-> 100 + i]
Indexes == {[i \in Lanes8 |-> Wrap(4, k * i + c)] : k \in {0, 1, 3}, c \in {0, 7}}

MaskedCall == \E m \in Pattern(4) :
  \/ Call("load_masked", Index, <<m>>,
          {LoadMasked(Bits(Index), Memory, Base, m, SubSeq(Fallback, 1, 4))})
  \/ Call("store_masked", Index, <<m>>,
          {StoreMasked(Bits(Index), Memory, Base, m, SubSeq(Fallback, 1, 4))})

GatherCall == \E m \in Pattern(8) : \E idx \in Indexes :
  \/ Call("gather", Index, <<m, idx>>, {Gather(Index, Memory, Base, idx, m, Fallback)})
  \/ Call("scatter", Index, <<m, idx>>, {Scatter(Index, Memory, Base, idx, m, Fallback)})

CompressCall == \E m \in Pattern(8) :
  LET v == [i \in Lanes8 |-> i] IN
  \/ Call("compress", Index, <<m>>, {Compress(m, v, Fallback)})
  \/ Call("expand", Index, <<m>>, {Expand(m, v, Fallback)})

Next ==
  \/ /\ op = "none"
     /\ \/ Unary \/ Multiply \/ MinMax \/ Compare \/ Overflow \/ Shift \/ Convert
        \/ FloatLane \/ FloatConvert
        \/ Reduce \/ Masks \/ Swizzle \/ Tree
        \/ MaskedCall \/ GatherCall \/ CompressCall
  \/ Return

Spec == Init /\ [][Next]_vars
-----------------------------------------------------------------------------
(* Properties: each operation's meaning for every input, whatever the variant *)

Is(o, meaning) == op = o => out = {meaning}
x1 == in[1]
x2 == in[2]
V(x) == Value(t, x)

\* Each byte of a pair.
Bytes(z) == <<Lo(Bits(t), z), Hi(Bits(t), z)>>
OnBytes(o, Meaning(_)) ==
  op = o => \A r \in out : \A k \in 1 .. 2 : Bytes(r)[k] = Meaning(Bytes(x1)[k])

\* The arithmetic entries give the result modulo 2^W (std/simd.spc:190-208), the smaller and
\* the larger lane, the absolute value and the exact difference, whatever variant runs: the
\* products put together from halves, the extremes from a comparison, the sign from a shift.
ArithmeticExact ==
  /\ Is("wrapping_neg", Wrap(Bits(t), -V(x1)))
  /\ Is("wrapping_abs", Wrap(Bits(t), IF V(x1) < 0 THEN -V(x1) ELSE V(x1)))
  /\ op = "wrapping_mul_bytes" => \A r \in out : \A k \in 1 .. 2 :
        Bytes(r)[k] = Wrap(Bits(t), Bytes(x1)[k] * Bytes(x2)[k])
  /\ op = "wrapping_mul" /\ t.e = 64 => out = {Wrap(Bits(t), Signed(Bits(t), x1) * Signed(Bits(t), x2))}
  /\ op = "wrapping_mul" /\ t.e = 32 =>
        out = {[i \in 1 .. 4 |-> Wrap(Bits(t), x1[i] * x2[i])]}
  /\ Is("min", IF V(x1) < V(x2) THEN x1 ELSE x2)
  /\ Is("max", IF V(x1) > V(x2) THEN x1 ELSE x2)
  /\ Is("abs_diff", IF V(x1) < V(x2) THEN V(x2) - V(x1) ELSE V(x1) - V(x2))

\* The lane masks are all ones exactly where the comparison of the numbers holds, before AVX
\* has a 64-bit comparison too, and a sum, difference or product overflows exactly when the
\* type does not hold it (std/simd.spc:222-238).
OrderExact ==
  LET w == Bits(t)
      holds == CASE op = "eq" -> V(x1) = V(x2)  [] op = "ne" -> V(x1) # V(x2)
                 [] op = "lt" -> V(x1) < V(x2)  [] op = "le" -> V(x1) <= V(x2)
                 [] op = "gt" -> V(x1) > V(x2)  [] op = "ge" -> V(x1) >= V(x2)
      fits(n) == Least(t) <= n /\ n <= Most(t)
  IN /\ op \in Comparisons => out = {Lane(w, holds)}
     /\ Is("overflow_add", ~fits(V(x1) + V(x2)))
     /\ Is("overflow_sub", ~fits(V(x1) - V(x2)))
     /\ Is("overflow_mul", ~fits(V(x1) * V(x2)))

\* Shifts divide or multiply by the power of two, arithmetic on signed lanes, the bytes of a
\* word apart; a lane count wraps at the width; the counts of bits are those of the lane.
BitsExact ==
  LET w == Bits(t)
      left(x, n) == Wrap(w, x * 2^n)
      right(x, n) == Wrap(w, V(x) \div 2^n)
  IN /\ Is("shl_scalar", left(x1, x2))
     /\ Is("shr_scalar", right(x1, x2))
     /\ Is("wrapping_shl", left(x1, x2 % w))
     /\ Is("wrapping_shr", right(x1, x2 % w))
     /\ OnBytes("shl_bytes", LAMBDA z : left(z, x2))
     /\ OnBytes("shr_bytes", LAMBDA z : right(z, x2))
     /\ Is("count_ones", Count(w, x1))
     /\ Is("not", Ones(w) - x1)

\* What the lane entries give: arithmetic, comparisons and bits, each as above.
LanesExact == ArithmeticExact /\ OrderExact /\ BitsExact

\* Conversions: narrowing keeps the low bits or clamps to the target's range, a float
\* truncates toward zero and saturates, a NaN is 0, an integer rounds to the nearest float
\* once (std/simd.spc:141-142, 297).
ConversionsExact ==
  LET h == Bits(t) \div 2
      clamp(n, lo, hi) == IF n < lo THEN lo ELSE IF n > hi THEN hi ELSE n
      whole(x) == F!Truncated(t, F!Num(t, x))
      number(x, lo, hi) == IF F!IsNaN(t, x) THEN 0 ELSE clamp(whole(x), lo, hi)
  IN /\ Is("narrow_wrapping", x1 % 2^h)
     /\ op = "narrow_saturating" => out =
          {Wrap(h, IF x2 THEN clamp(V(x1), -SignBit(h), SignBit(h) - 1)
                         ELSE clamp(V(x1), 0, Ones(h)))}
     /\ Is("widen", Wrap(2 * Bits(t), V(x1)))
     /\ Is("as_signed", Wrap(IntBits, number(x1, -SignBit(IntBits), SignBit(IntBits) - 1)))
     /\ Is("as_unsigned", number(x1, 0, Ones(IntBits)))
     /\ Is("from_unsigned", F!Round(t.p, x1))

\* Float comparisons are false on a NaN but for "ne"; minimumNumber takes the other lane of a
\* NaN, minimum gives a NaN, and -0.0 is below +0.0 in both (std/simd.spc:102-122, 330-344).
FloatOrderExact ==
  LET nan(x) == F!IsNaN(t, x)
      n(x) == F!Num(t, x)
      negative(x) == Negative(F!FBits(t), x)
      below(x, y) == n(x) < n(y) \/ (n(x) = n(y) /\ negative(x) /\ ~negative(y))
      is(o, holds) == op = "float_" \o o => out = {Lane(F!FBits(t), holds)}
      either == nan(x1) \/ nan(x2)
      least == IF below(x2, x1) THEN x2 ELSE x1
      most == IF below(x1, x2) THEN x2 ELSE x1
      numbers(o, best) == op = o => \A r \in out :
        IF nan(x1) /\ nan(x2) THEN nan(r)
        ELSE r = IF nan(x1) THEN x2 ELSE IF nan(x2) THEN x1 ELSE best
      nans(o, best) == op = o => \A r \in out : IF either THEN nan(r) ELSE r = best
  IN /\ is("eq", ~either /\ n(x1) = n(x2))
     /\ is("ne", either \/ n(x1) # n(x2))
     /\ is("lt", ~either /\ n(x1) < n(x2))
     /\ is("le", ~either /\ n(x1) <= n(x2))
     /\ is("gt", ~either /\ n(x1) > n(x2))
     /\ is("ge", ~either /\ n(x1) >= n(x2))
     /\ numbers("min_num", least) /\ numbers("max_num", most)
     /\ nans("minimum", least) /\ nans("maximum", most)
     /\ op = "sign_ops" => \A r \in out :
          /\ negative(r[1]) # negative(x1) /\ F!Magnitude(t, r[1]) = F!Magnitude(t, x1)
          /\ r[2] = F!Magnitude(t, x1)
          /\ negative(r[3]) = negative(x2) /\ F!Magnitude(t, r[3]) = F!Magnitude(t, x1)

\* A reduction combines every lane once: sums modulo 2^W, dot products in twice the width,
\* the extremes of the numbers, float sums and products by halves (std/simd.spc:1047); masks
\* become lanes and lanes masks without a bit moving; an index past the lanes gives 0.
RegistersExact ==
  LET r == x1
      w == Bits(t)
      total(f) == FoldFunction(LAMBDA a, b : a + b, 0, f)
  IN /\ Is("reduce_add", Wrap(w, total(r)))
     /\ Is("reduce_and", FromBits(w, LAMBDA k : \A i \in DOMAIN r : Bit(r[i], k)))
     /\ Is("reduce_or", FromBits(w, LAMBDA k : \E i \in DOMAIN r : Bit(r[i], k)))
     /\ Is("reduce_xor",
           FromBits(w, LAMBDA k : Cardinality({i \in DOMAIN r : Bit(r[i], k)}) % 2 = 1))
     /\ op = "reduce_min" => \A m \in out :
          m \in ToSet(r) /\ \A i \in DOMAIN r : V(m) <= V(r[i])
     /\ op = "reduce_max" => \A m \in out :
          m \in ToSet(r) /\ \A i \in DOMAIN r : V(m) >= V(r[i])
     /\ Is("dot", Wrap(2 * w, total([i \in DOMAIN r |-> V(r[i]) * V(x2[i])])))
     /\ op = "mask_to_lanes" => \A lanes \in out :
          /\ lanes = [i \in 1 .. x2 |-> Lane(w, Bit(x1, i - 1))]
          /\ LanesToMask(t, lanes) = x1
          /\ AnyLanes(t, lanes) = (x1 # 0)
          /\ AllLanes(t, lanes) = (x1 = Ones(x2))
     /\ Is("swizzle_or_zero", [i \in DOMAIN x2 |-> IF x2[i] < 16 THEN x1[1 + x2[i]] ELSE 0])
     /\ op = "reduce_tree" =>
          out = {IF Len(x1) = 2 THEN <<x1[1], x1[2]>>
                 ELSE LET s == [i \in 1 .. 2 |-> <<x1[i], x1[i + 2]>>] IN <<s[1], s[2]>>}

\* Masked memory is accessed at the active lanes and nowhere else; an inactive lane is the
\* fallback's; an index is unsigned; of active lanes with one index the highest is written
\* last; compress keeps the active lanes' order and expand undoes it (std/simd.spc:996-1003,
\* 1144-1236).
MemoryExact ==
  LET m == x1
      on(n) == {i \in 1 .. n : Bit(m, i - 1)}
      v == [i \in Lanes8 |-> i]
  IN /\ op = "load_masked" => out =
          {[out |-> [i \in 1 .. 4 |-> IF i \in on(4) THEN Base + i - 1 ELSE Fallback[i]],
            touched |-> {Base + i - 1 : i \in on(4)}]}
     /\ op = "store_masked" => out =
          {[mem |-> [a \in DOMAIN Memory |->
                       IF a - Base + 1 \in on(4) THEN Fallback[a - Base + 1] ELSE a],
            touched |-> {Base + i - 1 : i \in on(4)}]}
     /\ op = "gather" => out =
          {[out |-> [i \in Lanes8 |-> IF i \in on(8) THEN Base + x2[i] ELSE Fallback[i]],
            touched |-> {Base + x2[i] : i \in on(8)}]}
     /\ op = "scatter" => out =
          {[a \in DOMAIN Memory |->
              LET here == {i \in on(8) : Base + x2[i] = a}
              IN IF here = {} THEN a ELSE Fallback[Max(here)]]}
     /\ op = "compress" => \A r \in out :
          LET k == Cardinality(on(8))
          IN /\ SubSeq(r, 1, k) = SelectSeq(v, LAMBDA z : z \in on(8))
             /\ \A i \in k + 1 .. 8 : r[i] = Fallback[i]
             /\ Expand(m, r, v) = v
     /\ op = "expand" => \A r \in out : \A i \in Lanes8 : i \notin on(8) => r[i] = Fallback[i]

\* What the entries on a whole register and on memory give.
WholeExact == RegistersExact /\ MemoryExact
=============================================================================
