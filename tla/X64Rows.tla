------------------------------ MODULE X64Rows ------------------------------
(***************************************************************************)
(* The rows of the x86-64 instruction table.  scripts/intrin/x64rows.py    *)
(* has llvm-mc encode an instruction with two choices of registers, finds  *)
(* from the bytes which field holds each operand, asks with further        *)
(* encodings what else the form takes, and writes the table's row;         *)
(* target/x64tab.spc encodes instructions from rows.                       *)
(*                                                                         *)
(* llvm-mc is outside: an instruction of it is a record I of what the      *)
(* architecture says of it.  Code is the sequence of its fields as its     *)
(* bytes hold them, some inverted; the registers are 0 .. 15.              *)
(***************************************************************************)
EXTENDS Integers, FiniteSets, SequencesExt

CONSTANTS Instructions,  \* the instructions, each its forms in the order of their rows: see Encodes
          Numbers        \* the registers a use names

VARIABLES
  inst,  \* the instruction at hand
  rows,  \* its rows
  code   \* what llvm-mc and the table make of one use of it

vars == <<inst, rows, code>>

Rejected == <<"rejected">>
NoCode == [mc |-> Rejected, table |-> Rejected]

Init == inst = <<>> /\ rows = <<>> /\ code = NoCode

Hi(g) == g \div 8
Pp(pfx) == CASE pfx = 0 -> 0 [] pfx = 102 -> 1 [] pfx = 243 -> 2 [] pfx = 242 -> 3

-----------------------------------------------------------------------------
(* llvm-mc *)

\* The code of a form e (enc, pfx, map, op, W, L) with its register bits; tail is the rest:
\* mod, reg, rm, the index register, the displacement and the last byte's register.
Code(e, R, X, B, v, z, aaa, tail) ==
  CASE e.enc = 0 -> <<"legacy", e.pfx, e.W, R, X, B, e.map, e.op>> \o tail
    [] e.enc = 1 /\ e.map = 1 /\ e.W = 0 /\ X = 0 /\ B = 0 ->
         <<"C5", 1 - R, 15 - v, e.L, Pp(e.pfx), e.op>> \o tail
    [] e.enc = 1 /\ ~(e.map = 1 /\ e.W = 0 /\ X = 0 /\ B = 0) ->
         <<"C4", 1 - R, 1 - X, 1 - B, e.map, e.W, 15 - v, e.L, Pp(e.pfx), e.op>> \o tail
    [] e.enc = 2 ->
         <<"62", 1 - R, 1 - X, 1 - B, e.map, e.W, 15 - v, Pp(e.pfx), z, e.L, aaa, e.op>> \o tail

\* The operand of field f, in AT&T order; its register, 0 without one.
At(I, f) == {i \in DOMAIN I.ops : I.ops[i].at = f}
Reg(I, o, f) == IF At(I, f) = {} THEN 0 ELSE o.nums[CHOOSE i \in At(I, f) : TRUE]

\* mod and displacement of the operand o.disp(%rax): counted in N bytes when that fits.
Disp(o, n) == IF o.disp % n = 0 THEN <<1, o.disp \div n>> ELSE <<2, o.disp>>

\* What a compare's swapped sources leave as it is.
Symmetric(imm) == imm % 8 \in {0, 3, 4, 7}

Mask(b) == IF b THEN 1 ELSE 0

\* llvm-mc's code for form I with operands o, the sources of a commutative operation and the two
\* forms of a move exchanged where that saves the third byte of a VEX prefix.
Encodes(I, o) ==
  LET short == I.enc = 1 /\ I.map = 1 /\ I.W = 0 /\ ~o.mem /\ Hi(Reg(I, o, "rm")) = 1
      swap == short /\ Hi(Reg(I, o, "vvvv")) = 0
              /\ (I.swap = "all" \/ (I.swap = "some" /\ Symmetric(o.imm)))
      move == short /\ I.store # 0 /\ Hi(Reg(I, o, "reg")) = 0
      field == IF At(I, "reg") = {} THEN I.digit ELSE Reg(I, o, "reg")
      reg == IF move THEN Reg(I, o, "rm") ELSE field
      rm == IF swap THEN Reg(I, o, "vvvv") ELSE IF move THEN field ELSE Reg(I, o, "rm")
      v == IF swap THEN Reg(I, o, "rm") ELSE Reg(I, o, "vvvv")
      last == <<IF At(I, "is4") # {} THEN Reg(I, o, "is4") ELSE IF At(I, "imm") # {} THEN o.imm ELSE 0>>
      toMemory == o.mem /\ At(I, "rm") = {Len(I.ops)}
  IN IF \/ IF o.mem THEN I.mem = "no" ELSE I.mem = "only"
        \/ IF o.mask THEN ~I.mk ELSE I.mr \/ o.zero
        \/ o.zero /\ (~I.mz \/ toMemory)
        \/ \E i \in DOMAIN I.ops : I.ops[i].c = "k" /\ o.nums[i] > 7
        \/ \E i \in At(I, "x0") : o.nums[i] # 0
       THEN Rejected
     ELSE Code([I EXCEPT !.op = IF move THEN I.store ELSE I.op],
               Hi(reg), IF o.mem THEN Hi(rm) ELSE 0, IF o.mem THEN 0 ELSE Hi(rm),
               v, Mask(o.zero), Mask(o.mask),
               IF I.ops = <<>> THEN <<>>
               ELSE IF o.mem
                 THEN <<Disp(o, I.n)[1], reg % 8, IF I.vsib THEN 4 ELSE 0, rm % 8, Disp(o, I.n)[2]>> \o last
               ELSE <<3, reg % 8, rm % 8, 0, 0>> \o last)

-----------------------------------------------------------------------------
(* decode *)

Prefix(pp) == <<0, 102, 243, 242>>[pp + 1]

\* The fields of a code; no mod without a ModRM byte.
Decode(b) ==
  LET f == CASE b[1] = "legacy" -> [enc |-> 0, pfx |-> b[2], W |-> b[3], R |-> b[4], X |-> b[5],
                                    B |-> b[6], map |-> b[7], v |-> 0, L |-> 0, op |-> b[8], at |-> 9]
             [] b[1] = "C5" -> [enc |-> 1, pfx |-> Prefix(b[5]), W |-> 0, R |-> 1 - b[2], X |-> 0,
                                B |-> 0, map |-> 1, v |-> 15 - b[3], L |-> b[4], op |-> b[6], at |-> 7]
             [] b[1] = "C4" -> [enc |-> 1, pfx |-> Prefix(b[9]), W |-> b[6], R |-> 1 - b[2],
                                X |-> 1 - b[3], B |-> 1 - b[4], map |-> b[5], v |-> 15 - b[7],
                                L |-> b[8], op |-> b[10], at |-> 11]
             [] b[1] = "62" -> [enc |-> 2, pfx |-> Prefix(b[8]), W |-> b[6], R |-> 1 - b[2],
                                X |-> 1 - b[3], B |-> 1 - b[4], map |-> b[5], v |-> 15 - b[7],
                                L |-> b[10], op |-> b[12], at |-> 13]
      form == [k \in {"enc", "pfx", "W", "map", "L", "op"} |-> f[k]]
      t == SubSeq(b, f.at, Len(b))
  IN IF t = <<>> THEN [form |-> form, mod |-> -1, reg |-> 0, rm |-> 0, v |-> f.v, disp |-> 0, last |-> 0]
     ELSE [form |-> form, mod |-> t[1], reg |-> t[2] + 8 * f.R, rm |-> t[3] + 8 * f.B,
           v |-> f.v, disp |-> t[5], last |-> t[6]]

-----------------------------------------------------------------------------
(* derive *)

\* Mutant of N2: the other choice of registers differs in the first operand only.
N2_Same == <<3, 2, 3, 5, 6>>

N1 == <<1, 2, 3, 5, 6>>
N2 == <<3, 5, 6, 7, 1>>

\* numbering: the implied xmm0 takes no number of the base.
Numbering(I, base) == [i \in DOMAIN I.ops |->
  IF I.ops[i].at = "x0" THEN 0
  ELSE base[i - Cardinality({j \in 1 .. i : I.ops[j].at = "x0"})]]

\* text: the use of a shape with the registers nums.
Use(nums, shape) ==
  [nums |-> nums, mem |-> shape.mem, mask |-> shape.mask, zero |-> shape.zero, imm |-> 1, disp |-> 64]

Fixed(I, i) == I.ops[i].at \in {"imm", "x0"}

\* The value a field has, if it names a register.
ValueOf(f, field) ==
  CASE field = "reg" -> f.reg
    [] field = "rm" -> IF f.mod = 3 THEN f.rm ELSE -1
    [] field = "vvvv" -> f.v
    [] field = "is4" -> f.last

\* The fields an operand may be in: those that follow its number and that no operand before
\* it is in.  A memory operand is in rm.
Followers(I, f1, f2, i, taken) == {field \in {"reg", "rm", "vvvv", "is4"} \ taken :
  ValueOf(f1, field) = Numbering(I, N1)[i] /\ ValueOf(f2, field) = Numbering(I, N2)[i]}

Fields(I, f1, f2, shape) ==
  LET upto[n \in 0 .. Len(I.ops)] ==
        IF n = 0 THEN <<>>
        ELSE IF Fixed(I, n) THEN Append(upto[n - 1], {I.ops[n].at})
        ELSE IF shape.mem /\ I.ops[n].at = "rm" THEN Append(upto[n - 1], {"rm"})
        ELSE Append(upto[n - 1],
                    Followers(I, f1, f2, n, UNION {upto[n - 1][j] : j \in 1 .. n - 1}))
  IN upto[Len(I.ops)]

SameOp(b, f) == b # Rejected /\ Decode(b).form = f.form

\* The commutations llvm-mc shows: of the sources, for every predicate or some, and of a move.
Probe(I, nums, imm) == [nums |-> nums, mem |-> FALSE, mask |-> FALSE, zero |-> FALSE, imm |-> imm, disp |-> 64]
Swapped(I, kinds, imm) ==
  LET nums == IF Len(kinds) = 4 THEN <<0, 8, 1, 2>> ELSE <<8, 1, 2>>
  IN Decode(Encodes(I, Probe(I, nums, imm))).v = 8
Sources(kinds) ==
  /\ Len(kinds) \in {3, 4} /\ (Len(kinds) = 4 => kinds[4].at = "imm")
  /\ \A i \in 1 .. 3 : kinds[i].c = "v"
  /\ kinds[1].at = "reg" /\ kinds[2].at = "vvvv" /\ kinds[3].at = "rm" /\ kinds[3].mem = "too"
SwapOf(I, f, kinds) ==
  IF f.form.enc # 1 \/ ~Sources(kinds) \/ ~Swapped(I, kinds, 0) THEN "no"
  ELSE IF Len(kinds) = 4 /\ ~Swapped(I, kinds, 1) THEN "some" ELSE "all"
MoveOf(I, f, kinds) ==
  /\ f.form.enc = 1 /\ Len(kinds) = 2
  /\ kinds[1] = [c |-> "v", at |-> "reg", mem |-> "no"] /\ kinds[2] = [c |-> "v", at |-> "rm", mem |-> "too"]
  /\ Decode(Encodes(I, Probe(I, <<8, 1>>, 0))).form.op # f.form.op

NoRow == [ok |-> FALSE]

\* The displacement scale as a row has it: the vector length shifted, or a power of two.
NCode(n, L) ==
  LET shifts == {c \in 0 .. 3 : (16 * 2 ^ L) \div 2 ^ c = n}
  IN IF shifts # {} THEN CHOOSE c \in shifts : TRUE
     ELSE 4 + CHOOSE c \in 0 .. 5 : 2 ^ c = n

\* The row of a form, from one shape of it.
Derive(I, shape) ==
  LET e1 == Encodes(I, Use(Numbering(I, N1), shape))
      f1 == Decode(e1)
      f2 == Decode(Encodes(I, Use(Numbering(I, N2), shape)))
      fields == Fields(I, f1, f2, shape)
      at(i) == CHOOSE f \in fields[i] : TRUE
      used == UNION {fields[i] : i \in DOMAIN I.ops}
      asMemory == Encodes(I, Use(Numbering(I, N1), [shape EXCEPT !.mem = TRUE]))
      asRegister == Encodes(I, Use(Numbering(I, N1), [shape EXCEPT !.mem = FALSE]))
      class == IF shape.mem THEN (IF ~I.vsib /\ SameOp(asRegister, f1) THEN "too" ELSE "only")
               ELSE IF SameOp(asMemory, f1) THEN "too" ELSE "no"
      kind(i) == [c |-> I.ops[i].c, at |-> at(i), mem |-> IF at(i) = "rm" THEN class ELSE "no"]
      kinds == Reverse([i \in DOMAIN I.ops |-> kind(i)])
      masked(m, z) == Encodes(I, Use(Numbering(I, N1), [shape EXCEPT !.mask = m, !.zero = z]))
  IN IF e1 = Rejected \/ \E i \in DOMAIN I.ops : Cardinality(fields[i]) # 1 THEN NoRow
     ELSE [ok |-> TRUE, form |-> f1.form, kinds |-> kinds,
           digit |-> IF f1.mod = -1 THEN "N" ELSE IF "reg" \in used THEN "R" ELSE "D",
           value |-> IF "reg" \in used THEN 0 ELSE f1.reg % 8,
           n |-> IF f1.form.enc # 2 \/ class = "no" \/ "rm" \notin used THEN 0
                 ELSE NCode(64 \div Decode(asMemory).disp, f1.form.L),
           mk |-> f1.form.enc = 2 /\ SameOp(masked(TRUE, FALSE), f1),
           mz |-> f1.form.enc = 2 /\ SameOp(masked(TRUE, TRUE), f1),
           mr |-> f1.form.enc = 2 /\ masked(FALSE, FALSE) = Rejected,
           swap |-> SwapOf(I, f1, kinds),
           mv |-> MoveOf(I, f1, kinds)]

-----------------------------------------------------------------------------
(* x64tab.spc: encode *)

Scale(row) == IF row.n < 4 THEN (16 * 2 ^ row.form.L) \div 2 ^ row.n ELSE 2 ^ (row.n - 4)

\* The register of the row's operand of field f, in Intel order.
Named(row, o, f) ==
  LET at == {i \in DOMAIN row.kinds : row.kinds[i].at = f}
  IN IF at = {} THEN 0 ELSE Reverse(o.nums)[CHOOSE i \in at : TRUE]

Takes(row, o) ==
  LET rm == {i \in DOMAIN row.kinds : row.kinds[i].at = "rm"} IN
  /\ \A i \in rm : (o.mem => row.kinds[i].mem # "no") /\ (~o.mem => row.kinds[i].mem # "only")
  /\ o.mem => rm # {}
  /\ \A i \in DOMAIN row.kinds :
       (row.kinds[i].c = "k" => Reverse(o.nums)[i] <= 7) /\ (row.kinds[i].at = "x0" => Reverse(o.nums)[i] = 0)
  /\ row.form.enc # 2 => ~o.mask /\ ~o.zero
  /\ o.mask => row.mk
  /\ ~o.mask => ~row.mr
  /\ o.zero => row.mz /\ o.mask /\ ~(o.mem /\ 1 \in rm)

\* The sources swap when only rm needs REX.B.
Exchanges(row, o) ==
  /\ ~o.mem /\ Hi(Named(row, o, "rm")) = 1 /\ Hi(Named(row, o, "vvvv")) = 0
  /\ (row.swap = "all" \/ (row.swap = "some" /\ Symmetric(o.imm)))

\* The row leaves a register-to-register move to the next one.
Leaves(row, o) ==
  row.mv /\ ~o.mem /\ Hi(Named(row, o, "rm")) = 1 /\ Hi(Named(row, o, "reg")) = 0

Encode(row, o) ==
  LET rm == IF Exchanges(row, o) THEN Named(row, o, "vvvv") ELSE Named(row, o, "rm")
      v == IF Exchanges(row, o) THEN Named(row, o, "rm") ELSE Named(row, o, "vvvv")
      reg == IF row.digit = "R" THEN Named(row, o, "reg") ELSE row.value
      disp == Disp(o, IF row.form.enc = 2 THEN Scale(row) ELSE 1)
      has(f) == \E i \in DOMAIN row.kinds : row.kinds[i].at = f
      vsib == \E i \in DOMAIN row.kinds : row.kinds[i].c = "vsib"
      last == <<IF has("is4") THEN Named(row, o, "is4") ELSE IF has("imm") THEN o.imm ELSE 0>>
  IN Code(row.form, IF row.digit = "R" THEN Hi(reg) ELSE 0,
          IF o.mem THEN Hi(rm) ELSE 0, IF o.mem THEN 0 ELSE Hi(rm), v, Mask(o.zero), Mask(o.mask),
          IF row.digit = "N" THEN <<>>
          ELSE IF o.mem THEN <<disp[1], reg % 8, IF vsib THEN 4 ELSE 0, rm % 8, disp[2]>> \o last
          ELSE <<3, reg % 8, rm % 8, 0, 0>> \o last)

\* The assembler takes the first row that encodes.
Assembled(table, o) ==
  LET takers == {i \in DOMAIN table : table[i].ok /\ Takes(table[i], o) /\ ~Leaves(table[i], o)}
  IN IF takers = {} THEN Rejected
     ELSE LET first == CHOOSE i \in takers : \A j \in takers : i <= j
          IN Encode(table[first], o)

-----------------------------------------------------------------------------

\* The uses of a form: its registers, and what else an assembly line may give it.
Operands(I) ==
  [nums : [DOMAIN I.ops -> Numbers], mem : BOOLEAN, mask : BOOLEAN, zero : BOOLEAN,
   imm : IF At(I, "imm") = {} THEN {1} ELSE {0, 1}, disp : {4, 64}]

\* The script goes through the instruction's forms, each in one of its shapes.
Tabulate ==
  /\ inst = <<>>
  /\ \E i \in Instructions : inst' = i /\ rows' = [k \in DOMAIN i |-> Derive(i[k].form, i[k].shape)]
  /\ UNCHANGED code

Assemble ==
  /\ inst # <<>> /\ code = NoCode
  /\ \E o \in Operands(inst[1].form) :
       code' = [mc |-> Encodes(inst[1].form, o), table |-> Assembled(rows, o)]
  /\ UNCHANGED <<inst, rows>>

Forget == inst # <<>> /\ inst' = <<>> /\ rows' = <<>> /\ code' = NoCode

Next == Tabulate \/ Assemble \/ Forget

Spec == Init /\ [][Next]_vars

-----------------------------------------------------------------------------
(* Properties *)

\* The table encodes an instruction as llvm-mc does, whatever the registers, the displacement, the mask
\* and the immediate, and refuses what it refuses, though the row was derived from two uses
\* of it and a few probes (x64rows.py:1-6).
RowsEncode == code.table = code.mc
=============================================================================
