----------------------------- MODULE Templates -----------------------------
(***************************************************************************)
(* The intrinsic templates of scripts/intrin/gen.py.  clang compiles a     *)
(* one-call wrapper of an intrinsic at chosen values of its immediate      *)
(* arguments; the script fits the numbers of the code as linear functions  *)
(* of each immediate in turn and checks each fit on further values.        *)
(*                                                                         *)
(* clang is outside.  Code is its form, the text between the numbers, with *)
(* its numbers; in an instruction a number follows one immediate at most,  *)
(* linearly but for the bits it has no room for, and some value of an      *)
(* immediate may have instructions of its own.                             *)
(***************************************************************************)
EXTENDS Integers, Sequences, FiniteSets

CONSTANTS Ints,      \* the integer parameters, by index
          Compilers  \* what clang may do with an intrinsic: see Compile

None == -1
NoClang == [imms |-> {}]
NoTemplate == [form |-> "none", nums |-> <<>>, fits |-> <<>>, tops |-> <<>>]

VARIABLES
  clang,     \* what it does with the intrinsic at hand
  codes,     \* its code along each immediate, the others fixed
  template   \* what derive returned

vars == <<clang, codes, template>>

Init == clang = NoClang /\ codes = <<>> /\ template = NoTemplate

-----------------------------------------------------------------------------
(* clang *)

Rejected == [form |-> "rejected", nums |-> <<>>]

\* The number at a position that follows an immediate of value v.
Number(p, v) == IF p.room = 0 THEN p.a * v + p.b ELSE (p.a * v + p.b) % p.room

\* The values with instructions of their own that vals has, by immediate.
Special(c, vals) == {k \in c.imms : vals[k] = c.special[k]}

\* The places of the code's numbers: the special form may do without some.
Shown(c, vals) ==
  IF c.keeps THEN c.places ELSE SelectSeq(c.places, LAMBDA p : p.by \notin Special(c, vals))

Text(special) == IF special = {} THEN "general" ELSE IF special = {1} THEN "special 1"
                 ELSE IF special = {2} THEN "special 2" ELSE "special 1 2"

\* The code at the constants vals.  It is an error to leave an immediate a variable, or to give
\* it a value outside c.range, which may well hold more than what the intrinsic defines.
Compile(c, vals) ==
  IF ~(c.imms \subseteq DOMAIN vals) \/ \E k \in c.imms : vals[k] \notin c.range[k]
    THEN Rejected
    ELSE [form |-> Text(Special(c, vals)),
          nums |-> [i \in DOMAIN Shown(c, vals) |->
            LET p == Shown(c, vals)[i] IN IF p.by = 0 THEN p.b ELSE Number(p, vals[p.by])]]

Accepts(c, vals) == Compile(c, vals) # Rejected

-----------------------------------------------------------------------------
(* derive *)

Candidates == << <<1, 2, 3>>, <<2, 3, 4>>, <<0, 1, 2>>, <<2, 4, 8>>, <<1, 2>>, <<0, 1>>,
                 <<4, 8, 12>>, <<8, 16, 24>>, <<16, 32, 48>>, <<0, 2, 4>> >>

\* The smallest set of parameters that must be constants, found with all of them 1, 0 or 2.
Valid(c, S) == \E v \in {1, 0, 2} : Accepts(c, [k \in S |-> v])
Imms(c) == IF {S \in SUBSET Ints : Valid(c, S)} = {} THEN {}
           ELSE CHOOSE S \in SUBSET Ints : Valid(c, S)
             /\ \A T \in SUBSET Ints : Valid(c, T) => Cardinality(S) <= Cardinality(T)

\* Each immediate's first valid value of 1, 0 and 2, the others at 1.
Fixed(c) == [k \in Imms(c) |->
  LET At(v) == [j \in Imms(c) |-> IF j = k THEN v ELSE 1]
  IN IF Accepts(c, At(1)) THEN 1 ELSE IF Accepts(c, At(0)) THEN 0
     ELSE IF Accepts(c, At(2)) THEN 2 ELSE None]

\* The values any candidate, and the check of it, goes up to.
Reach == 0 .. 97

\* The compiles that follow: the code with one immediate at v and the others fixed.
Along(c) == LET fixed == Fixed(c) IN
  [k \in Imms(c) |-> [v \in Reach |-> Compile(c, [fixed EXCEPT ![k] = v])]]

\* The fit of a candidate's codes: a line through the numbers of each place that changes.
Fit(cand, along) ==
  LET num(p, i) == along[cand[i]].nums[p]
      line(p) == LET a == (num(p, 2) - num(p, 1)) \div (cand[2] - cand[1])
                 IN [a |-> a, b |-> num(p, 1) - a * cand[1]]
  IN [p \in {q \in DOMAIN along[cand[1]].nums : \E i \in DOMAIN cand : num(q, i) # num(q, 1)}
        |-> line(p)]

\* The number the code has at a place for value v: that of the fit, or else the first one.
Fitting(fit, first, p, v) == IF p \in DOMAIN fit THEN fit[p].a * v + fit[p].b ELSE first.nums[p]

\* Mutant of Tried: no further value.
Tried_Fitted(top) == 0 .. top

\* The values verify tries.
Tried(top) == 0 .. 2 * top + 1

\* verify: so it is at every value that is accepted and gives as many numbers.
Verified(fit, first, along, top) == \A v \in Tried(top) :
  along[v] # Rejected /\ Len(along[v].nums) = Len(first.nums) =>
    \A p \in DOMAIN first.nums : along[v].nums[p] = Fitting(fit, first, p, v)

Last(cand) == cand[Len(cand)]

\* The code at a candidate's values has one form, and its numbers are linear in them, as they
\* are at the values verify tries.
Usable(cand, along) ==
  LET first == along[cand[1]]  fit == Fit(cand, along) IN
    /\ \A i \in DOMAIN cand : along[cand[i]] # Rejected /\ along[cand[i]].form = first.form
    /\ fit # <<>>
    /\ \A p \in DOMAIN fit, i \in DOMAIN cand :
         along[cand[i]].nums[p] = Fitting(fit, first, p, cand[i])
    /\ Verified(fit, first, along, Last(cand))

FirstOf(S) == CHOOSE i \in S : \A j \in S : i <= j

\* The only operand of value 1 in the code at 1, an index or an immediate: taken as the value.
Ones(c, k, along) == {p \in DOMAIN along[1].nums :
  along[1].nums[p] = 1 /\ Shown(c, [Fixed(c) EXCEPT ![k] = 1])[p].operand}

Unknown == [code |-> Rejected, fit |-> <<>>, top |-> None]

\* What is known of immediate k: the code it was found in, its fit, and up to which value.
Got(c, k, along) ==
  LET usable == {i \in DOMAIN Candidates : Usable(Candidates[i], along)} IN
  IF usable # {}
    THEN LET cand == Candidates[FirstOf(usable)]
         IN [code |-> along[cand[1]], fit |-> Fit(cand, along), top |-> Last(cand)]
  ELSE IF along[1] # Rejected /\ Cardinality(Ones(c, k, along)) = 1
    THEN [code |-> along[1], fit |-> [p \in Ones(c, k, along) |-> [a |-> 1, b |-> 0]],
          top |-> None]
  ELSE Unknown

\* The code of the first immediate, with the fit of every immediate laid over it: a later one
\* replaces what an earlier one says of a number.  No immediate: the code as it is.
Derive(c, got) ==
  IF (got = <<>> /\ ~Accepts(c, <<>>)) \/ \E k \in DOMAIN got : got[k] = Unknown
    THEN [form |-> "error", nums |-> <<>>, fits |-> <<>>, tops |-> <<>>]
  ELSE LET code == IF got = <<>> THEN Compile(c, <<>>) ELSE got[FirstOf(DOMAIN got)].code
           laid(p) == {k \in DOMAIN got : p \in DOMAIN got[k].fit}
           by(p) == CHOOSE k \in laid(p) : \A j \in laid(p) : j <= k
       IN [form |-> code.form,
           nums |-> code.nums,
           fits |-> [p \in {q \in DOMAIN code.nums : laid(q) # {}} |->
                      [k |-> by(p), a |-> got[by(p)].fit[p].a, b |-> got[by(p)].fit[p].b]],
           tops |-> [k \in DOMAIN got |->
                      IF got[k].code.form = code.form THEN got[k].top ELSE None]]

Wrap ==
  /\ clang = NoClang
  /\ \E c \in Compilers : clang' = c /\ codes' = Along(c)
  /\ UNCHANGED template

Bind ==
  /\ clang # NoClang /\ template = NoTemplate
  /\ template' = Derive(clang, [k \in DOMAIN codes |-> Got(clang, k, codes[k])])
  /\ UNCHANGED <<clang, codes>>

Written ==
  /\ template # NoTemplate
  /\ clang' = NoClang /\ codes' = <<>> /\ template' = NoTemplate

Next == Wrap \/ Bind \/ Written

Spec == Init /\ [][Next]_vars

-----------------------------------------------------------------------------
(* Properties *)

\* The numbers a template gives at vals.
Given(t, vals) == [p \in DOMAIN t.nums |->
  IF p \in DOMAIN t.fits THEN t.fits[p].a * vals[t.fits[p].k] + t.fits[p].b ELSE t.nums[p]]

\* Every immediate was fitted, not guessed, and to the code the template is made of.
Fitted == /\ template.form \notin {"none", "error"}
          /\ \A k \in DOMAIN template.tops : template.tops[k] # None

\* A fitted template gives the code clang gives, wherever that has the template's form, at every
\* combination of the immediates up to twice what was fitted, though each was only tried
\* alone (gen.py:17-18).
TemplateExact == Fitted =>
  LET tops == template.tops
      at(v, w) == [k \in DOMAIN tops |-> IF k = FirstOf(DOMAIN tops) THEN v ELSE w]
      seconds == DOMAIN tops \ {FirstOf(DOMAIN tops)}
      Exact(vals) == LET code == Compile(clang, vals) IN
        code.form = template.form => Given(template, vals) = code.nums
  IN IF tops = <<>> THEN Exact(<<>>)
     ELSE \A v \in 0 .. 2 * tops[FirstOf(DOMAIN tops)] :
       IF seconds = {} THEN Exact(at(v, v))
       ELSE \A w \in 0 .. 2 * tops[FirstOf(seconds)] : Exact(at(v, w))
=============================================================================
