------------------------------ MODULE MCInputs ------------------------------
(* What the generators are called with, and what clang and llvm-mc may answer, for the instances
   of Backend, Templates and X64Rows. *)
EXTENDS Lanes

-----------------------------------------------------------------------------
(* The lanes Backend is called with: bytes of two bits, with the words and bytes of four bits
   beside them; every lane up to four bits, the ends and middles of the wider ones. *)

MCIntTypes ==
  [b : {2}, e : {8, 16, 32, 64}, s : BOOLEAN] \cup [b : {4}, e : {8, 16}, s : BOOLEAN]

Edges(h) == {0, 1, SignBit(h) - 1, SignBit(h), Ones(h)}
MCSamples == [type \in MCIntTypes |->
  LET w == Bits(type)
  IN IF w <= 4 THEN Pattern(w) ELSE {Join(w \div 2, p, q) : p, q \in Edges(w \div 2)}]

MCRegTypes == [b : {2}, e : {8, 16, 32, 64}, s : BOOLEAN]
Spread(type) ==
  LET w == Bits(type)  n == 128 \div type.e
      values == {0, 1, SignBit(w) - 1, SignBit(w), Ones(w)}
  IN {[i \in 1 .. n |-> IF i = k THEN p ELSE q] : k \in {1, n \div 2, n}, p, q \in values}
MCRegisters == [type \in MCRegTypes |-> Spread(type)]

MCFloat == [x |-> 2, m |-> 2]
MCRounding == {[p |-> 3, w |-> 4], [p |-> 6, w |-> 8]}
MCWide == [x |-> 4, m |-> 2]

-----------------------------------------------------------------------------
(* Intrinsics.  The code of each names a register, numbered 1, and has one or two numbers that
   follow an immediate. *)

Register == [by |-> 0, a |-> 0, b |-> 1, room |-> 0, operand |-> FALSE]
Places(k, rooms) == [by : {k}, a : {1, 2, -1}, b : {0, 3}, room : rooms, operand : {TRUE}]

NoImmediate == [imms |-> {}, range |-> <<{}, {}>>, special |-> <<-1, -1>>, keeps |-> TRUE,
                places |-> <<Register>>]
OneImmediate ==
  [imms : {{1}}, range : {<<r, {}>> : r \in {{0, 1}, 0 .. 3, 1 .. 4, {4, 8, 12}, 0 .. 97}},
   special : {<<v, -1>> : v \in {-1, 0, 1, 2}}, keeps : BOOLEAN,
   places : {<<Register, p>> : p \in Places(1, {0, 4, 6})}]
TwoImmediates ==
  [imms : {{1, 2}}, range : {<<r, q>> : r \in {0 .. 3, 1 .. 5}, q \in {{0, 1}, 0 .. 9}},
   special : {<<v, w>> : v, w \in {-1, 0, 1}}, keeps : BOOLEAN,
   places : {<<Register, p, q>> : p \in Places(1, {0}), q \in Places(2, {0, 4})}]

MCCompilers == {NoImmediate} \cup OneImmediate \cup TwoImmediates

-----------------------------------------------------------------------------
(* Instructions: the operands of a form in AT&T order. *)

V(f) == [c |-> "v", at |-> f]
K(f) == [c |-> "k", at |-> f]
I8 == [c |-> "imm", at |-> "imm"]
X0 == [c |-> "x0", at |-> "x0"]
Index == [c |-> "vsib", at |-> "rm"]
Plain == [mem |-> FALSE, mask |-> FALSE, zero |-> FALSE]
Memory == [Plain EXCEPT !.mem = TRUE]
Masked == [Plain EXCEPT !.mask = TRUE]
Legacy == [enc |-> 0, pfx |-> 102, map |-> 1, op |-> 84, W |-> 0, L |-> 0, ops |-> <<V("rm"), V("reg")>>,
           digit |-> 0, mem |-> "too", vsib |-> FALSE, n |-> 1, mk |-> FALSE, mz |-> FALSE,
           mr |-> FALSE, swap |-> "no", store |-> 0]
Vex == [Legacy EXCEPT !.enc = 1, !.L = 1, !.ops = <<V("rm"), V("vvvv"), V("reg")>>]
Evex == [Vex EXCEPT !.enc = 2, !.L = 2, !.n = 64, !.mk = TRUE, !.mz = TRUE]
Alone(form, shape) == << [form |-> form, shape |-> shape] >>

\* Operations of each encoding: with and without memory, masks, immediates, sources that commute,
\* a move with both of its forms and a gather.
MCInstructions ==
  { Alone(Legacy, Plain),
    Alone([Legacy EXCEPT !.ops = <<X0, V("rm"), V("reg")>>], Plain),
    Alone([Legacy EXCEPT !.ops = <<I8, V("rm")>>, !.digit = 6, !.mem = "no"], Plain),
    Alone([Vex EXCEPT !.ops = <<>>, !.mem = "no"], Plain),
    Alone([Vex EXCEPT !.ops = <<I8, V("rm"), V("vvvv")>>, !.digit = 2, !.mem = "no"], Plain),
    Alone([Vex EXCEPT !.swap = "all"], Plain),
    Alone(Vex, Memory),
    Alone([Vex EXCEPT !.map = 2, !.W = 1, !.swap = "all"], Plain),
    Alone([Vex EXCEPT !.ops = <<I8, V("rm"), V("vvvv"), V("reg")>>, !.swap = "some"], Plain),
    Alone([Vex EXCEPT !.ops = <<V("is4"), V("rm"), V("vvvv"), V("reg")>>, !.map = 3], Plain),
    << [form |-> [Vex EXCEPT !.ops = <<V("rm"), V("reg")>>, !.store = 85], shape |-> Plain],
       [form |-> [Vex EXCEPT !.ops = <<V("reg"), V("rm")>>, !.op = 85], shape |-> Memory] >>,
    Alone(Evex, Masked),
    Alone([Evex EXCEPT !.n = 4], Memory),
    Alone([Evex EXCEPT !.ops = <<V("reg"), V("rm")>>, !.n = 32], Plain),
    Alone([Evex EXCEPT !.ops = <<I8, V("rm"), V("vvvv"), K("reg")>>, !.mz = FALSE, !.n = 8], Plain),
    Alone([Evex EXCEPT !.ops = <<Index, V("reg")>>, !.mem = "only", !.vsib = TRUE, !.n = 8,
                     !.mz = FALSE, !.mr = TRUE], [Memory EXCEPT !.mask = TRUE]) }
=============================================================================
