----------------------------- MODULE TasksProofs -----------------------------
(***************************************************************************)
(* Theorems about what the scheduler and the tasks keep.                   *)
(*                                                                         *)
(* Arc, for any number of handles and any limit of the counts: the value   *)
(* and the block live as long as what points at them.                      *)
(*                                                                         *)
(* The run queues, for any number of workers and tasks and any size of the *)
(* rings: every task is in one place.  The invariant says of a thief that  *)
(* what it copied is what its victim has, as long as the victim's head is  *)
(* where the thief read it, and that it copied into slots nobody uses.     *)
(*                                                                         *)
(* A task group and its sources, for any number of tasks, sources and      *)
(* threads, and any batch: a cancel reaches every member and nobody else,  *)
(* and what is counted is there.  The invariant says how a request that    *)
(* was not made yet will be: the task asks itself, a sweep has its key, or *)
(* the sweep's next batch will.                                            *)
(***************************************************************************)
EXTENDS MCTasks, SequenceTheorems, FiniteSetTheorems, TLAPS

-----------------------------------------------------------------------------
(* Arc *)

USE ArcAssumption

-----------------------------------------------------------------------------
(* The handles by their states, as numbers *)

Number(S) == Cardinality(Of(S))

LockStates == {"checking", "unique", "shared"}
Active == States \ {"none"}

\* Whose clone found the count past the limit: they will panic, and do nothing else.
Doomed(s) == {h \in Handles : st[h] = s /\ seen[h] > MaxRef}

Bit(b) == IF b THEN 1 ELSE 0

LEMMA Finite ==
  ASSUME NEW T \in SUBSET Handles, NEW h
  PROVE  /\ IsFiniteSet(T) /\ Cardinality(T) \in Nat
         /\ Cardinality(T) <= Cardinality(Handles)
         /\ h \in T => Cardinality(T) > 0
         /\ Cardinality(T \cup {h}) = Cardinality(T) + Bit(h \notin T)
         /\ Cardinality(T \ {h}) = Cardinality(T) - Bit(h \in T)
<1>1. IsFiniteSet(T) /\ Cardinality(T) <= Cardinality(Handles)
  BY FS_Subset
<1>2. Cardinality(T) \in Nat /\ (h \in T => Cardinality(T) # 0)
  BY <1>1, FS_CardinalityType, FS_EmptySet
<1>3. /\ Cardinality(T \cup {h}) = IF h \in T THEN Cardinality(T) ELSE Cardinality(T) + 1
      /\ Cardinality(T \ {h}) = IF h \in T THEN Cardinality(T) - 1 ELSE Cardinality(T)
  BY <1>1, FS_AddElement, FS_RemoveElement
<1> QED BY <1>1, <1>2, <1>3 DEF Bit

LEMMA NumberType ==
  ASSUME NEW S
  PROVE  Number(S) \in Nat /\ Number(S) <= Cardinality(Handles) /\ Cardinality(Handles) \in Nat
BY Finite, FS_CardinalityType DEF Number, Of

LEMMA DoomedType ==
  ASSUME NEW s
  PROVE  Cardinality(Doomed(s)) \in Nat /\ Cardinality(Doomed(s)) <= Cardinality(Handles)
BY Finite DEF Doomed

\* Some states are some of others.
LEMMA NumberMonotone ==
  ASSUME NEW S, NEW T, S \subseteq T
  PROVE  Number(S) <= Number(T)
<1>1. Of(S) \in SUBSET Of(T) /\ Of(T) \in SUBSET Handles
  BY DEF Of
<1> QED BY <1>1, Finite, FS_Subset DEF Number

\* A handle in one of the states is counted.
LEMMA NumberPositive ==
  ASSUME NEW S, NEW h \in Handles, st[h] \in S
  PROVE  Number(S) > 0
BY Finite DEF Number, Of

LEMMA NumberZero ==
  ASSUME NEW S
  PROVE  Number(S) = 0 <=> \A h \in Handles : st[h] \notin S
<1>1. IsFiniteSet(Of(S))
  BY Finite DEF Of
<1> QED BY <1>1, FS_EmptySet DEF Number, Of

\* A handle that is alone in its states.
LEMMA NumberOne ==
  ASSUME NEW S, NEW h \in Handles, st[h] \in S, Number(S) = 1
  PROVE  Of(S) = {h}
<1>1. IsFiniteSet(Of(S)) /\ h \in Of(S)
  BY Finite DEF Of
<1> QED BY <1>1, FS_Singleton DEF Number

LEMMA NumberUnion ==
  ASSUME NEW S, NEW T, S \cap T = {}
  PROVE  Number(S \cup T) = Number(S) + Number(T)
<1>1. IsFiniteSet(Of(S)) /\ IsFiniteSet(Of(T)) /\ Cardinality(Of(S)) \in Nat /\ Cardinality(Of(T)) \in Nat
  BY Finite DEF Of
<1>2. Of(S \cup T) = Of(S) \cup Of(T) /\ Of(S) \cap Of(T) = {}
  BY DEF Of
<1>3. Cardinality(Of(S) \cup Of(T)) =
        Cardinality(Of(S)) + Cardinality(Of(T)) - Cardinality(Of(S) \cap Of(T))
  BY <1>1, FS_Union
<1>4. Cardinality(Of(S) \cap Of(T)) = 0
  BY <1>2, FS_EmptySet
<1>5. Cardinality(Of(S \cup T)) = Cardinality(Of(S) \cup Of(T))
  BY <1>2
<1> QED BY <1>1, <1>3, <1>4, <1>5 DEF Number

\* A handle is strong, weak or the last of its strong ones.
LEMMA ActiveSplit ==
  Number(Active) = Number(StrongStates) + Number(WeakStates) + Number(LastStates)
<1>1. Active = StrongStates \cup (WeakStates \cup LastStates)
  BY DEF Active, States, StrongStates, WeakStates, LastStates
<1>2. StrongStates \cap (WeakStates \cup LastStates) = {} /\ WeakStates \cap LastStates = {}
  BY DEF StrongStates, WeakStates, LastStates
<1>3. Number(WeakStates \cup LastStates) = Number(WeakStates) + Number(LastStates)
  BY <1>2, NumberUnion
<1>4. Number(Active) = Number(StrongStates) + Number(WeakStates \cup LastStates)
  BY <1>1, <1>2, NumberUnion
<1> QED BY <1>3, <1>4, NumberType

\* One handle changes its state.
LEMMA NumberMove ==
  ASSUME st \in [Handles -> States], NEW h \in Handles, NEW s, Goto(h, s), NEW S
  PROVE  Number(S)' = Number(S) - Bit(st[h] \in S) + Bit(s \in S)
<1>1. Of(S) \in SUBSET Handles
  BY DEF Of
<1>0. /\ Cardinality(Of(S)) \in Nat
      /\ Cardinality(Of(S) \cup {h}) = Cardinality(Of(S)) + Bit(h \notin Of(S))
      /\ Cardinality(Of(S) \ {h}) = Cardinality(Of(S)) - Bit(h \in Of(S))
      /\ h \in Of(S) <=> st[h] \in S
  BY <1>1, Finite DEF Of
<1>2. CASE s \in S
  <2>1. Of(S)' = Of(S) \cup {h}
    BY <1>2 DEF Of, Goto
  <2>2. Number(S)' = Cardinality(Of(S) \cup {h})
    BY <2>1 DEF Number
  <2> QED BY <1>0, <1>2, <2>2 DEF Number, Bit
<1>3. CASE s \notin S
  <2>1. Of(S)' = Of(S) \ {h}
    BY <1>3 DEF Of, Goto
  <2>2. Number(S)' = Cardinality(Of(S) \ {h})
    BY <2>1 DEF Number
  <2> QED BY <1>0, <1>3, <2>2 DEF Number, Bit
<1> QED BY <1>2, <1>3

\* One handle comes to rest and another begins.
LEMMA NumberMake ==
  ASSUME st \in [Handles -> States], NEW h \in Handles, NEW g \in Handles, st[h] # "none",
         NEW s, NEW new, Makes(h, s, g, new), NEW S, "none" \notin S
  PROVE  Number(S)' = Number(S) - Bit(st[h] \in S) + Bit(s \in S) + Bit(new \in S)
<1> DEFINE A == Of(S)
           B == IF s \in S THEN A \cup {h} ELSE A \ {h}
<1>1. A \in SUBSET Handles /\ B \in SUBSET Handles
  BY DEF Of
<1>2. (h \in A <=> st[h] \in S) /\ g \notin A /\ g # h /\ g \notin B
  BY DEF Of, Makes
<1>3. Of(S)' = IF new \in S THEN B \cup {g} ELSE B
  <2>1. st' = [x \in Handles |-> IF x = g THEN new ELSE IF x = h THEN s ELSE st[x]]
    BY <1>2 DEF Makes
  <2> QED BY <1>2, <2>1 DEF Of
<1> HIDE DEF A, B
<1>4. Cardinality(B) = Cardinality(A) - Bit(st[h] \in S) + Bit(s \in S)
  <2>0. /\ Cardinality(A) \in Nat
        /\ Cardinality(A \cup {h}) = Cardinality(A) + Bit(h \notin A)
        /\ Cardinality(A \ {h}) = Cardinality(A) - Bit(h \in A)
    BY <1>1, Finite
  <2>1. CASE s \in S
    <3>1. B = A \cup {h}
      BY <2>1 DEF B
    <3> QED BY <1>2, <2>0, <2>1, <3>1 DEF Bit
  <2>2. CASE s \notin S
    <3>1. B = A \ {h}
      BY <2>2 DEF B
    <3> QED BY <1>2, <2>0, <2>2, <3>1 DEF Bit
  <2> QED BY <2>1, <2>2
<1>5. Cardinality(B \cup {g}) = Cardinality(B) + 1 /\ Cardinality(A) \in Nat
  BY <1>1, <1>2, Finite DEF Bit
<1>6. CASE new \in S
  BY <1>3, <1>4, <1>5, <1>6 DEF Number, A, Bit
<1>7. CASE new \notin S
  BY <1>3, <1>4, <1>5, <1>7 DEF Number, A, Bit
<1> QED BY <1>6, <1>7

-----------------------------------------------------------------------------
(* What holds throughout *)

Typed ==
  /\ strong \in Nat /\ weak \in Nat
  /\ st \in [Handles -> States] /\ seen \in [Handles -> Nat]
  /\ lost \in [strong : Nat, weak : Nat]
  /\ value \in {"live", "moved", "freed"} /\ block \in {"allocated", "freed"}

\* The strong count is that of the handles, those in the making and those forgotten; it passes
\* its limit by one for each handle whose clone will panic, and so it does not come round.
StrongTrue ==
  /\ strong = Number(StrongStates) + Number({"cloned"}) + lost.strong
  /\ strong <= MaxRef + 1 + Cardinality(Doomed("cloned"))

\* So does the weak count, but that it holds one reference for all strong handles, and that a
\* handle which looks whether it is the only one has locked it.
WeakTrue ==
  IF Number(LockStates) = 0
    THEN /\ weak = Number(WeakStates) + Number({"wcloned"}) + lost.weak
                     + Bit(strong > 0 \/ Number(LastStates) > 0)
         /\ weak <= MaxRef + 1 + Cardinality(Doomed("wcloned"))
    ELSE /\ Number(LockStates) = 1 /\ weak = Locked
         /\ Number(WeakStates) = 0 /\ lost.weak = 0

\* One handle is the last.
LastTrue == Number(LastStates) > 0 => strong = 0 /\ Number(LastStates) = 1

\* What the counts stand for.
Alive ==
  /\ value = "live" <=> strong > 0 \/ Number({"freeing"}) > 0
  /\ block = "allocated" <=> weak > 0

\* Who found itself the only handle is.
Alone ==
  \A h \in Handles : st[h] \in {"unique", "borrowed"} =>
    Number(Active) = 1 /\ lost.strong = 0 /\ lost.weak = 0

IInv == Typed /\ StrongTrue /\ WeakTrue /\ LastTrue /\ Alive /\ Alone

\* What the parts say together of the numbers.
LEMMA Facts ==
  ASSUME IInv
  PROVE  /\ Wrap \in Nat /\ MaxRef \in Nat /\ MaxRef > 0
         /\ strong < Locked
         /\ Number(LockStates) = 0 => weak < Locked
         /\ Locked > 1 /\ Locked + 1 = Wrap
         /\ Number({"cloned"}) <= Number(StrongStates)
         /\ Number(LockStates) <= Number(StrongStates)
         /\ Number({"wcloned"}) <= Number(WeakStates)
         /\ Number({"freeing"}) <= Number(LastStates)
<1>1. /\ {"cloned"} \subseteq StrongStates /\ LockStates \subseteq StrongStates
      /\ {"wcloned"} \subseteq WeakStates /\ {"freeing"} \subseteq LastStates
  BY DEF StrongStates, LockStates, WeakStates, LastStates
<1>2. /\ Number({"cloned"}) <= Number(StrongStates)
      /\ Number(LockStates) <= Number(StrongStates)
      /\ Number({"wcloned"}) <= Number(WeakStates)
      /\ Number({"freeing"}) <= Number(LastStates)
  BY <1>1, NumberMonotone
<1>3. /\ Cardinality(Handles) \in Nat
      /\ Cardinality(Doomed("cloned")) \in Nat /\ Cardinality(Doomed("wcloned")) \in Nat
      /\ Cardinality(Doomed("cloned")) <= Cardinality(Handles)
      /\ Cardinality(Doomed("wcloned")) <= Cardinality(Handles)
  BY DoomedType, NumberType
<1>4. strong < Locked
  BY <1>3 DEF IInv, Typed, StrongTrue, Locked, ArcAssumption
<1>5. Number(LockStates) = 0 => weak < Locked
  BY <1>3 DEF IInv, Typed, WeakTrue, Locked, ArcAssumption
<1>6. Locked > 1 /\ Locked + 1 = Wrap
  BY <1>3 DEF Locked, ArcAssumption
<1> QED BY <1>2, <1>4, <1>5, <1>6 DEF ArcAssumption

\* The counts never come round.
LEMMA UpDown ==
  ASSUME IInv
  PROVE  /\ Up(strong) = strong + 1
         /\ strong > 0 => Down(strong) = strong - 1
         /\ Number(LockStates) = 0 => Up(weak) = weak + 1
         /\ weak > 0 => Down(weak) = weak - 1
<1>1. /\ strong \in Nat /\ weak \in Nat /\ Wrap \in Nat /\ Locked \in Nat
      /\ strong < Locked /\ Locked + 1 = Wrap
      /\ Number(LockStates) = 0 => weak < Locked
      /\ weak < Wrap
  BY Facts DEF IInv, Typed, WeakTrue, Locked
<1>2. \A n \in Nat : n + 1 < Wrap => (n + 1) % Wrap = n + 1
  BY <1>1
<1>3. \A n \in Nat : n > 0 /\ n < Wrap => (n + Wrap - 1) % Wrap = n - 1
  BY <1>1
<1> QED BY <1>1, <1>2, <1>3 DEF Up, Down

\* The invariant is what was claimed.
LEMMA SoundNow == IInv => ArcSound
<1> SUFFICES ASSUME IInv PROVE HandlesValid /\ NothingLeaks
  BY DEF ArcSound
<1>0. /\ \A S : Number(S) \in Nat
      /\ \A S : \A h \in Handles : st[h] \in S => Number(S) > 0
  BY NumberType, NumberPositive
<1>1. ASSUME Of(StrongStates \cup {"freeing"}) # {} PROVE value = "live"
  <2>1. Number(StrongStates) > 0 \/ Number({"freeing"}) > 0
    BY <1>0, <1>1 DEF Of
  <2> QED BY <1>0, <2>1 DEF IInv, Typed, StrongTrue, Alive
<1>2. ASSUME Of(States \ {"none"}) # {} PROVE block = "allocated"
  <2>1. Number(StrongStates) > 0 \/ Number(WeakStates) > 0 \/ Number(LastStates) > 0
    BY <1>0, <1>2 DEF Of, States
  <2>2. Number(StrongStates) > 0 => strong > 0
    BY <1>0 DEF IInv, Typed, StrongTrue
  <2>3. weak > 0
    BY <1>0, <2>1, <2>2, Facts DEF IInv, Typed, WeakTrue, Bit
  <2> QED BY <2>3 DEF IInv, Alive
<1>3. ASSUME NEW h \in Of({"borrowed"})
      PROVE  Of(States \ {"none"}) = {h} /\ lost = [strong |-> 0, weak |-> 0]
  <2>1. h \in Handles /\ st[h] = "borrowed" /\ st[h] \in Active
    BY DEF Of, Active, States, StrongStates
  <2>2. Number(Active) = 1 /\ lost.strong = 0 /\ lost.weak = 0
    BY <2>1 DEF IInv, Alone
  <2>3. Of(Active) = {h}
    BY <2>1, <2>2, NumberOne
  <2> QED BY <2>2, <2>3 DEF Active, IInv, Typed
<1>4. ASSUME Of(States \ {"none"}) = {}
      PROVE  /\ lost.strong = 0 => value # "live"
             /\ lost.strong + lost.weak = 0 => block = "freed"
  <2>1. \A h \in Handles : st[h] \notin Active
    BY <1>4 DEF Of, Active
  <2>2. Number(Active) = 0
    BY <2>1, NumberZero
  <2>3. /\ Number(StrongStates) = 0 /\ Number(WeakStates) = 0 /\ Number(LastStates) = 0
        /\ Number({"cloned"}) = 0 /\ Number({"wcloned"}) = 0 /\ Number({"freeing"}) = 0
        /\ Number(LockStates) = 0
    BY <1>0, <2>2, ActiveSplit, Facts
  <2>4. strong = lost.strong /\ lost.strong \in Nat /\ lost.weak \in Nat
    BY <2>3 DEF IInv, Typed, StrongTrue
  <2>5. weak = lost.weak + Bit(strong > 0)
    BY <2>3, <2>4 DEF IInv, WeakTrue, Bit
  <2> QED BY <2>3, <2>4, <2>5 DEF IInv, Typed, Alive, Bit
<1> QED BY <1>1, <1>2, <1>3, <1>4 DEF HandlesValid, NothingLeaks

-----------------------------------------------------------------------------
(* Steps *)

\* Who is doomed stays so, and nobody else is, unless a handle clones.
LEMMA DoomedSame ==
  ASSUME NEW s, \A h \in Handles : (st'[h] = s /\ seen'[h] > MaxRef) <=> (st[h] = s /\ seen[h] > MaxRef)
  PROVE  Cardinality(Doomed(s))' = Cardinality(Doomed(s))
<1>1. Doomed(s)' = Doomed(s)
  BY DEF Doomed
<1> QED BY <1>1

\* A clone that finds the count past the limit is one more.
LEMMA DoomedMore ==
  ASSUME IInv, NEW s \in States, NEW h \in Handles, st[h] # s, Goto(h, s), NEW n \in Nat, Sees(h, n)
  PROVE  Cardinality(Doomed(s))' = Cardinality(Doomed(s)) + Bit(n > MaxRef)
<1> USE DEF IInv, Typed, Goto, Sees
<1>1. Doomed(s) \in SUBSET Handles /\ h \notin Doomed(s)
  BY DEF Doomed
<1>2. CASE n > MaxRef
  <2>1. Doomed(s)' = Doomed(s) \cup {h}
    BY <1>2 DEF Doomed
  <2>2. Cardinality(Doomed(s) \cup {h}) = Cardinality(Doomed(s)) + 1
    BY <1>1, Finite DEF Bit
  <2> QED BY <1>2, <2>1, <2>2 DEF Bit
<1>3. CASE ~(n > MaxRef)
  <2>1. Doomed(s)' = Doomed(s)
    BY <1>3 DEF Doomed
  <2>2. Cardinality(Doomed(s)) \in Nat
    BY DoomedType
  <2> QED BY <1>3, <2>1, <2>2 DEF Bit
<1> QED BY <1>2, <1>3

\* A handle that moves while another is alone is that one; the others are not there.
LEMMA AloneActs ==
  ASSUME IInv, NEW g \in Handles, st[g] \in {"unique", "borrowed"},
         NEW h \in Handles, st[h] # "none"
  PROVE  h = g
<1>1. st[g] \in Active /\ st[h] \in Active
  BY DEF IInv, Typed, Active, States, StrongStates
<1>2. Number(Active) = 1
  BY DEF IInv, Alone
<1> QED BY <1>1, <1>2, NumberOne DEF Of

\* The handles of one step, before and after: which sets it leaves and which it joins.
LEMMA AfterMove ==
  ASSUME IInv, NEW h \in Handles, NEW s \in States, Goto(h, s)
  PROVE  /\ st' \in [Handles -> States]
         /\ \A S : Number(S)' = Number(S) - Bit(st[h] \in S) + Bit(s \in S)
BY NumberMove DEF IInv, Typed, Goto

LEMMA AfterMake ==
  ASSUME IInv, NEW h \in Handles, NEW g \in Handles, st[h] # "none",
         NEW s \in States, NEW new \in States, Makes(h, s, g, new)
  PROVE  /\ st' \in [Handles -> States] /\ st[g] = "none" /\ g # h
         /\ \A S : "none" \notin S =>
              Number(S)' = Number(S) - Bit(st[h] \in S) + Bit(s \in S) + Bit(new \in S)
<1>1. st[g] = "none" /\ g # h /\ st' \in [Handles -> States]
  BY DEF IInv, Typed, Makes
<1>2. st \in [Handles -> States]
  BY DEF IInv, Typed
<1> QED BY <1>1, <1>2, NumberMake

\* A step that changes no handle and no count.
LEMMA Unchanged ==
  ASSUME IInv, UNCHANGED <<strong, weak, value, block, st, seen, lost>>
  PROVE  IInv'
<1>1. \A S : Number(S)' = Number(S)
  BY DEF Number, Of
<1>2. \A s : Cardinality(Doomed(s))' = Cardinality(Doomed(s))
  BY DEF Doomed
<1>3. Typed'
  BY DEF IInv, Typed
<1>4. StrongTrue'
  BY <1>1, <1>2 DEF IInv, StrongTrue
<1>5. WeakTrue' /\ LastTrue'
  BY <1>1, <1>2 DEF IInv, WeakTrue, LastTrue
<1>6. Alive' /\ Alone'
  BY <1>1 DEF IInv, Alive, Alone
<1> QED BY <1>3, <1>4, <1>5, <1>6 DEF IInv

\* A step of another handle finds nobody alone.
LEMMA AloneMove ==
  ASSUME IInv, NEW h \in Handles, NEW s \in States, Goto(h, s), st[h] # "none",
         s \notin {"unique", "borrowed"}
  PROVE  Alone'
<1> SUFFICES ASSUME NEW g \in Handles, st'[g] \in {"unique", "borrowed"} PROVE FALSE
  BY DEF Alone
<1>1. g # h /\ st[g] = st'[g]
  BY DEF IInv, Typed, Goto
<1> QED BY <1>1, AloneActs

LEMMA AloneMake ==
  ASSUME IInv, NEW h \in Handles, NEW g \in Handles, st[h] # "none",
         NEW s \in States \ {"unique", "borrowed"}, NEW new \in States \ {"unique", "borrowed"},
         Makes(h, s, g, new)
  PROVE  Alone'
<1> SUFFICES ASSUME NEW x \in Handles, st'[x] \in {"unique", "borrowed"} PROVE FALSE
  BY DEF Alone
<1>1. x # h /\ x # g /\ st[x] = st'[x]
  BY DEF IInv, Typed, Makes
<1> QED BY <1>1, AloneActs

\* A strong handle: the value is there, and nobody is the last.
LEMMA StrongHeld ==
  ASSUME IInv, NEW h \in Handles, st[h] \in StrongStates
  PROVE  strong > 0 /\ Number(StrongStates) > 0 /\ Number(LastStates) = 0
<1>1. Number(StrongStates) > 0 /\ Number(StrongStates) \in Nat /\ Number({"cloned"}) \in Nat
  BY NumberPositive, NumberType
<1>2. strong > 0
  BY <1>1 DEF IInv, Typed, StrongTrue
<1>3. ~(Number(LastStates) > 0) /\ Number(LastStates) \in Nat
  BY <1>2, NumberType DEF IInv, Typed, LastTrue
<1> QED BY <1>1, <1>2, <1>3

\* A weak handle: nobody has locked the count.
LEMMA WeakHeld ==
  ASSUME IInv, NEW h \in Handles, st[h] \in WeakStates
  PROVE  weak > 0 /\ Number(WeakStates) > 0 /\ Number(LockStates) = 0
<1>1. Number(WeakStates) > 0 /\ Number(WeakStates) \in Nat /\ Number({"wcloned"}) \in Nat
  BY NumberPositive, NumberType
<1>2. Number(LockStates) = 0
  BY <1>1 DEF IInv, WeakTrue
<1> QED BY <1>1, <1>2 DEF IInv, Typed, WeakTrue, Bit

\* The last handle: no strong one is left, and nobody has locked the count.
LEMMA LastHeld ==
  ASSUME IInv, NEW h \in Handles, st[h] \in LastStates
  PROVE  /\ strong = 0 /\ weak > 0 /\ Number(LastStates) = 1
         /\ Number(LockStates) = 0 /\ Number(StrongStates) = 0
<1>1. strong = 0 /\ Number(LastStates) = 1
  BY NumberPositive, NumberType DEF IInv, LastTrue
<1>2. Number(StrongStates) = 0 /\ Number({"cloned"}) = 0
  BY <1>1, NumberType DEF IInv, Typed, StrongTrue
<1>3. Number(LockStates) = 0 /\ Number(WeakStates) \in Nat /\ Number({"wcloned"}) \in Nat
  BY <1>2, Facts, NumberType
<1> QED BY <1>1, <1>2, <1>3 DEF IInv, Typed, WeakTrue, Bit

-----------------------------------------------------------------------------
(* Steps that count nothing *)

\* A handle that goes on among handles of its kind.
LEMMA CalmMove ==
  ASSUME IInv, NEW h \in Handles, NEW s \in States, Goto(h, s),
         UNCHANGED <<strong, weak, value, block, lost>>,
         seen' \in [Handles -> Nat], \A x \in Handles : x # h => seen'[x] = seen[x],
         \/ {st[h], s} \subseteq {"strong", "downgrade", "borrowed"}
         \/ {st[h], s} \subseteq {"weak", "upgrade"}
         \/ {st[h], s} \subseteq LockStates,
         s \notin {"unique", "borrowed"}
  PROVE  IInv'
<1> USE DEF StrongStates, WeakStates, LastStates, LockStates
<1>1. \A S \in {StrongStates, {"cloned"}, WeakStates, {"wcloned"}, LastStates, {"freeing"}, LockStates} :
        Number(S)' = Number(S)
  <2>1. ASSUME NEW S, st[h] \in S <=> s \in S PROVE Number(S)' = Number(S)
    BY <2>1, AfterMove, NumberType DEF Bit
  <2> QED BY <2>1
<1>2. \A c \in {"cloned", "wcloned"} : Cardinality(Doomed(c))' = Cardinality(Doomed(c))
  BY DoomedSame DEF IInv, Typed, Goto
<1>3. Typed'
  BY AfterMove DEF IInv, Typed
<1>4. StrongTrue' /\ WeakTrue' /\ LastTrue' /\ Alive'
  <2> HIDE DEF StrongStates, WeakStates, LastStates, LockStates
  <2> QED BY <1>1, <1>2 DEF IInv, StrongTrue, WeakTrue, LastTrue, Alive
<1>5. Alone'
  BY AloneMove
<1> QED BY <1>3, <1>4, <1>5 DEF IInv

LEMMA CalmStep ==
  ASSUME IInv, NEW h \in Handles,
         \/ Downgrade(h) \/ DowngradeRetry(h) \/ Upgrade(h) \/ UpgradeNone(h) \/ UpgradeRetry(h)
         \/ Return(h)
  PROVE  IInv'
<1>1. /\ UNCHANGED <<strong, weak, value, block, lost>>
      /\ seen' \in [Handles -> Nat] /\ \A x \in Handles : x # h => seen'[x] = seen[x]
  BY DEF IInv, Typed, Downgrade, DowngradeRetry, Upgrade, UpgradeNone, UpgradeRetry, Return, Sees
<1>2. \/ st[h] \in {"strong", "downgrade"} /\ Goto(h, "downgrade")
      \/ st[h] \in {"weak", "upgrade"} /\ Goto(h, "upgrade")
      \/ st[h] = "upgrade" /\ Goto(h, "weak")
      \/ st[h] = "borrowed" /\ Goto(h, "strong")
  BY DEF IInv, Typed, Downgrade, DowngradeRetry, Upgrade, UpgradeNone, UpgradeRetry, Return, Goto
<1> QED BY <1>1, <1>2, CalmMove DEF States, StrongStates, WeakStates

-----------------------------------------------------------------------------
(* Cloning *)

LEMMA CloneStep == ASSUME IInv, NEW h \in Handles, Clone(h) PROVE IInv'
<1>1. /\ st[h] = "strong" /\ strong' = strong + 1
      /\ Goto(h, "cloned") /\ Sees(h, strong)
      /\ UNCHANGED <<weak, value, block, lost>>
  BY UpDown DEF Clone
<1>2. strong > 0
  BY <1>1, StrongHeld DEF StrongStates
<1>3. \A S : Number(S)' = Number(S) - Bit("strong" \in S) + Bit("cloned" \in S)
  BY <1>1, AfterMove DEF States, StrongStates
<1>4. /\ Number(StrongStates)' = Number(StrongStates)
      /\ Number({"cloned"})' = Number({"cloned"}) + 1
      /\ Number(WeakStates)' = Number(WeakStates) /\ Number({"wcloned"})' = Number({"wcloned"})
      /\ Number(LastStates)' = Number(LastStates) /\ Number({"freeing"})' = Number({"freeing"})
      /\ Number(LockStates)' = Number(LockStates)
  BY <1>3, NumberType DEF Bit, StrongStates, WeakStates, LastStates, LockStates
<1>5. Cardinality(Doomed("cloned"))' = Cardinality(Doomed("cloned")) + Bit(strong > MaxRef)
  BY <1>1, DoomedMore DEF States, StrongStates, IInv, Typed
<1>6. Cardinality(Doomed("wcloned"))' = Cardinality(Doomed("wcloned"))
  BY <1>1, DoomedSame DEF IInv, Typed, Goto, Sees
<1>7. Typed'
  BY <1>1 DEF IInv, Typed, Goto, Sees, States, StrongStates
<1>8. StrongTrue'
  BY <1>1, <1>4, <1>5, DoomedType, NumberType DEF IInv, Typed, StrongTrue, Bit
<1>9. WeakTrue' /\ LastTrue' /\ Alive'
  BY <1>1, <1>2, <1>4, <1>6 DEF IInv, Typed, WeakTrue, LastTrue, Alive, Bit
<1> QED BY <1>1, <1>7, <1>8, <1>9, AloneMove DEF IInv, States, StrongStates

LEMMA ClonedStep ==
  ASSUME IInv, NEW h \in Handles, NEW g \in Handles, Cloned(h, g) PROVE IInv'
<1>1. CASE seen[h] > MaxRef
  BY <1>1, Unchanged DEF Cloned
<1>2. CASE ~(seen[h] > MaxRef)
  <2>1. /\ st[h] = "cloned" /\ Makes(h, "strong", g, "strong")
        /\ UNCHANGED <<strong, weak, value, block, seen, lost>>
    BY <1>2 DEF Cloned
  <2>2. /\ st' \in [Handles -> States] /\ st[g] = "none" /\ g # h
        /\ \A S : "none" \notin S => Number(S)' =
             Number(S) - Bit("cloned" \in S) + Bit("strong" \in S) + Bit("strong" \in S)
    BY <2>1, AfterMake DEF States, StrongStates
  <2>3. /\ Number(StrongStates)' = Number(StrongStates) + 1
        /\ Number({"cloned"})' = Number({"cloned"}) - 1
        /\ Number(WeakStates)' = Number(WeakStates) /\ Number({"wcloned"})' = Number({"wcloned"})
        /\ Number(LastStates)' = Number(LastStates) /\ Number({"freeing"})' = Number({"freeing"})
        /\ Number(LockStates)' = Number(LockStates)
    BY <2>2, NumberType DEF Bit, StrongStates, WeakStates, LastStates, LockStates
  <2>4. \A c \in {"cloned", "wcloned"} : Cardinality(Doomed(c))' = Cardinality(Doomed(c))
    BY <1>2, <2>1, <2>2, DoomedSame DEF IInv, Typed, Makes
  <2>5. Typed'
    BY <2>1, <2>2 DEF IInv, Typed
  <2>6. StrongTrue'
    BY <2>1, <2>3, <2>4, NumberType DEF IInv, Typed, StrongTrue
  <2>7. WeakTrue' /\ LastTrue' /\ Alive'
    BY <2>1, <2>3, <2>4 DEF IInv, WeakTrue, LastTrue, Alive
  <2> QED BY <2>1, <2>5, <2>6, <2>7, AloneMake DEF IInv, States, StrongStates
<1> QED BY <1>1, <1>2

LEMMA CloneWeakStep == ASSUME IInv, NEW h \in Handles, CloneWeak(h) PROVE IInv'
<1>1. st[h] = "weak" /\ Number(LockStates) = 0 /\ weak > 0
  BY WeakHeld DEF CloneWeak, WeakStates
<1>2. /\ weak' = weak + 1 /\ Goto(h, "wcloned") /\ Sees(h, weak)
      /\ UNCHANGED <<strong, value, block, lost>>
  BY <1>1, UpDown DEF CloneWeak
<1>3. \A S : Number(S)' = Number(S) - Bit("weak" \in S) + Bit("wcloned" \in S)
  BY <1>1, <1>2, AfterMove DEF States, WeakStates
<1>4. /\ Number(StrongStates)' = Number(StrongStates) /\ Number({"cloned"})' = Number({"cloned"})
      /\ Number(WeakStates)' = Number(WeakStates)
      /\ Number({"wcloned"})' = Number({"wcloned"}) + 1
      /\ Number(LastStates)' = Number(LastStates) /\ Number({"freeing"})' = Number({"freeing"})
      /\ Number(LockStates)' = Number(LockStates)
  BY <1>3, NumberType DEF Bit, StrongStates, WeakStates, LastStates, LockStates
<1>5. Cardinality(Doomed("wcloned"))' = Cardinality(Doomed("wcloned")) + Bit(weak > MaxRef)
  BY <1>1, <1>2, DoomedMore DEF States, WeakStates, IInv, Typed
<1>6. Cardinality(Doomed("cloned"))' = Cardinality(Doomed("cloned"))
  BY <1>1, <1>2, DoomedSame DEF IInv, Typed, Goto, Sees
<1>7. Typed'
  BY <1>2 DEF IInv, Typed, Goto, Sees, States, WeakStates
<1>8. StrongTrue' /\ LastTrue' /\ Alive'
  BY <1>1, <1>2, <1>4, <1>6 DEF IInv, Typed, StrongTrue, LastTrue, Alive
<1>9. WeakTrue'
  BY <1>1, <1>2, <1>4, <1>5, DoomedType, NumberType DEF IInv, Typed, WeakTrue, Bit
<1> QED BY <1>1, <1>2, <1>7, <1>8, <1>9, AloneMove DEF IInv, States, WeakStates

LEMMA ClonedWeakStep ==
  ASSUME IInv, NEW h \in Handles, NEW g \in Handles, ClonedWeak(h, g) PROVE IInv'
<1>1. CASE seen[h] > MaxRef
  BY <1>1, Unchanged DEF ClonedWeak
<1>2. CASE ~(seen[h] > MaxRef)
  <2>1. /\ st[h] = "wcloned" /\ Makes(h, "weak", g, "weak")
        /\ UNCHANGED <<strong, weak, value, block, seen, lost>>
    BY <1>2 DEF ClonedWeak
  <2>2. /\ st' \in [Handles -> States] /\ st[g] = "none" /\ g # h
        /\ \A S : "none" \notin S => Number(S)' =
             Number(S) - Bit("wcloned" \in S) + Bit("weak" \in S) + Bit("weak" \in S)
    BY <2>1, AfterMake DEF States, WeakStates
  <2>3. /\ Number(StrongStates)' = Number(StrongStates) /\ Number({"cloned"})' = Number({"cloned"})
        /\ Number(WeakStates)' = Number(WeakStates) + 1
        /\ Number({"wcloned"})' = Number({"wcloned"}) - 1
        /\ Number(LastStates)' = Number(LastStates) /\ Number({"freeing"})' = Number({"freeing"})
        /\ Number(LockStates)' = Number(LockStates)
    BY <2>2, NumberType DEF Bit, StrongStates, WeakStates, LastStates, LockStates
  <2>4. \A c \in {"cloned", "wcloned"} : Cardinality(Doomed(c))' = Cardinality(Doomed(c))
    BY <1>2, <2>1, <2>2, DoomedSame DEF IInv, Typed, Makes
  <2>5. Number(LockStates) = 0
    BY <2>1, WeakHeld DEF WeakStates
  <2>6. Typed'
    BY <2>1, <2>2 DEF IInv, Typed
  <2>7. StrongTrue' /\ LastTrue' /\ Alive'
    BY <2>1, <2>3, <2>4 DEF IInv, StrongTrue, LastTrue, Alive
  <2>8. WeakTrue'
    BY <2>1, <2>3, <2>4, <2>5, NumberType DEF IInv, Typed, WeakTrue, Bit
  <2> QED BY <2>1, <2>6, <2>7, <2>8, AloneMake DEF IInv, States, WeakStates
<1> QED BY <1>1, <1>2

-----------------------------------------------------------------------------
(* downgrade, upgrade *)

LEMMA DowngradeSwapStep ==
  ASSUME IInv, NEW h \in Handles, NEW g \in Handles, DowngradeSwap(h, g) PROVE IInv'
<1>1. CASE seen[h] > MaxRef
  BY <1>1, Unchanged DEF DowngradeSwap
<1>2. CASE ~(seen[h] > MaxRef)
  <2>1. /\ st[h] = "downgrade" /\ weak # Locked /\ weak <= MaxRef
        /\ Makes(h, "strong", g, "weak") /\ weak' = Up(weak)
        /\ UNCHANGED <<strong, value, block, seen, lost>>
    BY <1>2 DEF DowngradeSwap, IInv, Typed, ArcAssumption
  <2>2. Number(LockStates) = 0
    BY <2>1 DEF IInv, WeakTrue
  <2>3. weak' = weak + 1 /\ strong > 0
    BY <2>1, <2>2, UpDown, StrongHeld DEF StrongStates
  <2>4. /\ st' \in [Handles -> States] /\ st[g] = "none" /\ g # h
        /\ \A S : "none" \notin S => Number(S)' =
             Number(S) - Bit("downgrade" \in S) + Bit("strong" \in S) + Bit("weak" \in S)
    BY <2>1, AfterMake DEF States, StrongStates, WeakStates
  <2>5. /\ Number(StrongStates)' = Number(StrongStates) /\ Number({"cloned"})' = Number({"cloned"})
        /\ Number(WeakStates)' = Number(WeakStates) + 1
        /\ Number({"wcloned"})' = Number({"wcloned"})
        /\ Number(LastStates)' = Number(LastStates) /\ Number({"freeing"})' = Number({"freeing"})
        /\ Number(LockStates)' = Number(LockStates)
    BY <2>4, NumberType DEF Bit, StrongStates, WeakStates, LastStates, LockStates
  <2>6. \A c \in {"cloned", "wcloned"} : Cardinality(Doomed(c))' = Cardinality(Doomed(c))
    BY <2>1, <2>4, DoomedSame DEF IInv, Typed, Makes
  <2>7. Typed'
    BY <2>1, <2>3, <2>4 DEF IInv, Typed
  <2>8. StrongTrue' /\ LastTrue'
    BY <2>1, <2>5, <2>6 DEF IInv, StrongTrue, LastTrue
  <2>9. WeakTrue' /\ Alive'
    <3>1. Number(WeakStates) \in Nat /\ Number({"wcloned"}) \in Nat /\ weak > 0
      BY <2>2, <2>3, NumberType DEF IInv, Typed, WeakTrue, Bit
    <3>2. Cardinality(Doomed("wcloned")) \in Nat /\ MaxRef \in Nat
      BY DoomedType DEF ArcAssumption
    <3>3. WeakTrue'
      BY <2>1, <2>2, <2>3, <2>5, <2>6, <3>1, <3>2 DEF IInv, Typed, WeakTrue, Bit
    <3>4. Alive'
      BY <2>1, <2>3, <2>5, <3>1 DEF IInv, Typed, Alive
    <3> QED BY <3>3, <3>4
  <2> QED BY <2>1, <2>7, <2>8, <2>9, AloneMake DEF IInv, States, StrongStates, WeakStates
<1> QED BY <1>1, <1>2

LEMMA UpgradeSwapStep ==
  ASSUME IInv, NEW h \in Handles, NEW g \in Handles, UpgradeSwap(h, g) PROVE IInv'
<1>1. CASE seen[h] > MaxRef
  BY <1>1, Unchanged DEF UpgradeSwap
<1>2. CASE ~(seen[h] > MaxRef)
  <2>1. /\ st[h] = "upgrade" /\ strong > 0 /\ strong <= MaxRef
        /\ Makes(h, "weak", g, "strong") /\ strong' = strong + 1
        /\ UNCHANGED <<weak, value, block, seen, lost>>
    BY <1>2, UpDown DEF UpgradeSwap, Upgradable, IInv, Typed, ArcAssumption
  <2>2. /\ st' \in [Handles -> States] /\ st[g] = "none" /\ g # h
        /\ \A S : "none" \notin S => Number(S)' =
             Number(S) - Bit("upgrade" \in S) + Bit("weak" \in S) + Bit("strong" \in S)
    BY <2>1, AfterMake DEF States, StrongStates, WeakStates
  <2>3. /\ Number(StrongStates)' = Number(StrongStates) + 1
        /\ Number({"cloned"})' = Number({"cloned"})
        /\ Number(WeakStates)' = Number(WeakStates) /\ Number({"wcloned"})' = Number({"wcloned"})
        /\ Number(LastStates)' = Number(LastStates) /\ Number({"freeing"})' = Number({"freeing"})
        /\ Number(LockStates)' = Number(LockStates)
    BY <2>2, NumberType DEF Bit, StrongStates, WeakStates, LastStates, LockStates
  <2>4. \A c \in {"cloned", "wcloned"} : Cardinality(Doomed(c))' = Cardinality(Doomed(c))
    BY <2>1, <2>2, DoomedSame DEF IInv, Typed, Makes
  <2>5. Typed'
    BY <2>1, <2>2 DEF IInv, Typed
  <2>6. StrongTrue'
    <3>1. Cardinality(Doomed("cloned")) \in Nat /\ MaxRef \in Nat
      BY DoomedType DEF ArcAssumption
    <3> QED BY <2>1, <2>3, <2>4, <3>1, NumberType DEF IInv, Typed, StrongTrue
  <2>7. WeakTrue' /\ LastTrue' /\ Alive'
    BY <2>1, <2>3, <2>4 DEF IInv, Typed, WeakTrue, LastTrue, Alive, Bit
  <2> QED BY <2>1, <2>5, <2>6, <2>7, AloneMake DEF IInv, States, StrongStates, WeakStates
<1> QED BY <1>1, <1>2

-----------------------------------------------------------------------------
(* get_mut *)

LEMMA LockStep == ASSUME IInv, NEW h \in Handles, Lock(h) PROVE IInv'
<1>1. /\ st[h] = "strong" /\ weak = 1 /\ weak' = Locked /\ Goto(h, "checking")
      /\ UNCHANGED <<strong, value, block, seen, lost>>
  BY DEF Lock
<1>2. strong > 0 /\ Locked > 1 /\ Locked \in Nat
  BY <1>1, StrongHeld, Facts DEF StrongStates, Locked
<1>3. Number(LockStates) = 0
  BY <1>1, <1>2 DEF IInv, WeakTrue
<1>4. /\ st' \in [Handles -> States]
      /\ \A S : Number(S)' = Number(S) - Bit("strong" \in S) + Bit("checking" \in S)
  BY <1>1, AfterMove DEF States, StrongStates
<1>5. /\ Number(StrongStates)' = Number(StrongStates) /\ Number({"cloned"})' = Number({"cloned"})
      /\ Number(WeakStates)' = Number(WeakStates) /\ Number({"wcloned"})' = Number({"wcloned"})
      /\ Number(LastStates)' = Number(LastStates) /\ Number({"freeing"})' = Number({"freeing"})
      /\ Number(LockStates)' = 1
  BY <1>3, <1>4, NumberType DEF Bit, StrongStates, WeakStates, LastStates, LockStates
<1>6. Cardinality(Doomed("cloned"))' = Cardinality(Doomed("cloned"))
  BY <1>1, DoomedSame DEF IInv, Typed, Goto
<1>7. Typed'
  BY <1>1, <1>2, <1>4 DEF IInv, Typed
<1>8. StrongTrue' /\ LastTrue' /\ Alive'
  BY <1>1, <1>2, <1>5, <1>6 DEF IInv, Typed, StrongTrue, LastTrue, Alive
<1>9. WeakTrue'
  <2>1. Number(WeakStates) = 0 /\ lost.weak = 0
    BY <1>1, <1>2, <1>3, NumberType DEF IInv, Typed, WeakTrue, Bit
  <2> QED BY <1>1, <1>5, <2>1 DEF WeakTrue
<1> QED BY <1>1, <1>7, <1>8, <1>9, AloneMove DEF IInv, States, StrongStates

LEMMA CheckStep == ASSUME IInv, NEW h \in Handles, Check(h) PROVE IInv'
<1>1. CASE strong # 1
  BY <1>1, CalmMove DEF Check, IInv, Typed, States, StrongStates, LockStates
<1>2. CASE strong = 1
  <2>1. /\ st[h] = "checking" /\ Goto(h, "unique")
        /\ UNCHANGED <<strong, weak, value, block, seen, lost>>
    BY <1>2 DEF Check
  <2>2. /\ st' \in [Handles -> States]
        /\ \A S : Number(S)' = Number(S) - Bit("checking" \in S) + Bit("unique" \in S)
    BY <2>1, AfterMove DEF States, StrongStates
  <2>3. /\ Number(StrongStates)' = Number(StrongStates) /\ Number({"cloned"})' = Number({"cloned"})
        /\ Number(WeakStates)' = Number(WeakStates) /\ Number({"wcloned"})' = Number({"wcloned"})
        /\ Number(LastStates)' = Number(LastStates) /\ Number({"freeing"})' = Number({"freeing"})
        /\ Number(LockStates)' = Number(LockStates) /\ Number(Active)' = Number(Active)
    BY <2>2, NumberType
       DEF Bit, StrongStates, WeakStates, LastStates, LockStates, Active, States
  <2>4. \A c \in {"cloned", "wcloned"} : Cardinality(Doomed(c))' = Cardinality(Doomed(c))
    BY <2>1, DoomedSame DEF IInv, Typed, Goto
  <2>5. Typed'
    BY <2>1, <2>2 DEF IInv, Typed
  <2>6. StrongTrue' /\ WeakTrue' /\ LastTrue' /\ Alive'
    BY <2>1, <2>3, <2>4 DEF IInv, StrongTrue, WeakTrue, LastTrue, Alive
  <2>7. Alone'
    <3>1. Number(LockStates) > 0 /\ Number(LastStates) = 0 /\ Number(StrongStates) > 0
      BY <2>1, NumberPositive, StrongHeld DEF LockStates, StrongStates
    <3>2. Number(WeakStates) = 0 /\ lost.weak = 0
      BY <3>1 DEF IInv, WeakTrue
    <3>3. Number(StrongStates) = 1 /\ lost.strong = 0
      BY <1>2, <3>1, NumberType DEF IInv, Typed, StrongTrue
    <3>4. Number(Active) = 1
      BY <3>1, <3>2, <3>3, ActiveSplit
    <3> QED BY <2>1, <2>3, <3>2, <3>3, <3>4 DEF Alone
  <2> QED BY <2>5, <2>6, <2>7 DEF IInv
<1> QED BY <1>1, <1>2

LEMMA UnlockStep == ASSUME IInv, NEW h \in Handles, Unlock(h) PROVE IInv'
<1> DEFINE s == IF st[h] = "unique" THEN "borrowed" ELSE "strong"
<1>1. /\ st[h] \in {"unique", "shared"} /\ weak' = 1 /\ Goto(h, s)
      /\ UNCHANGED <<strong, value, block, seen, lost>>
  BY DEF Unlock
<1>2. s \in {"borrowed", "strong"} /\ (s = "borrowed" <=> st[h] = "unique")
  BY <1>1
<1> HIDE DEF s
<1>3. /\ strong > 0 /\ Number(LockStates) = 1 /\ Number(LastStates) = 0
      /\ Number(WeakStates) = 0 /\ lost.weak = 0 /\ weak > 0 /\ Number({"wcloned"}) = 0
  <2>1. strong > 0 /\ Number(LastStates) = 0 /\ Number(LockStates) > 0
    BY <1>1, StrongHeld, NumberPositive DEF StrongStates, LockStates
  <2>2. Number(LockStates) = 1 /\ weak = Locked /\ Number(WeakStates) = 0 /\ lost.weak = 0
    BY <2>1 DEF IInv, WeakTrue
  <2>3. Locked > 1 /\ Number({"wcloned"}) = 0
    BY <2>2, Facts, NumberType
  <2>4. weak > 0
    <3>1. Locked \in Int
      BY ArcAssumption DEF ArcAssumption, Locked
    <3> HIDE DEF Locked
    <3> QED BY <3>1, <2>2, <2>3
  <2> QED BY <2>1, <2>2, <2>3, <2>4
<1>4. /\ st' \in [Handles -> States]
      /\ \A S : Number(S)' = Number(S) - Bit(st[h] \in S) + Bit(s \in S)
  BY <1>1, <1>2, AfterMove DEF States, StrongStates
<1>5. /\ Number(StrongStates)' = Number(StrongStates) /\ Number({"cloned"})' = Number({"cloned"})
      /\ Number(WeakStates)' = 0 /\ Number({"wcloned"})' = 0
      /\ Number(LastStates)' = 0 /\ Number({"freeing"})' = Number({"freeing"})
      /\ Number(LockStates)' = 0 /\ Number(Active)' = Number(Active)
  <2>1. \A S : Number(S) \in Nat
    BY NumberType
  <2>2. CASE st[h] = "unique"
    <3>1. s = "borrowed"
      BY <1>2, <2>2
    <3> QED BY <1>3, <1>4, <2>1, <2>2, <3>1
            DEF Bit, StrongStates, WeakStates, LastStates, LockStates, Active, States
  <2>3. CASE st[h] = "shared"
    <3>1. s = "strong"
      BY <1>2, <2>3
    <3> QED BY <1>3, <1>4, <2>1, <2>3, <3>1
            DEF Bit, StrongStates, WeakStates, LastStates, LockStates, Active, States
  <2> QED BY <1>1, <2>2, <2>3
<1>6. \A c \in {"cloned", "wcloned"} : Cardinality(Doomed(c))' = Cardinality(Doomed(c))
  BY <1>1, <1>2, DoomedSame DEF IInv, Typed, Goto
<1>7. Typed'
  BY <1>1, <1>4 DEF IInv, Typed
<1>8. StrongTrue' /\ LastTrue' /\ Alive'
  BY <1>1, <1>3, <1>5, <1>6 DEF IInv, Typed, StrongTrue, LastTrue, Alive
<1>9. WeakTrue'
  <2>1. Cardinality(Doomed("wcloned")) \in Nat /\ MaxRef \in Nat
    BY DoomedType DEF ArcAssumption
  <2> QED BY <1>1, <1>3, <1>5, <1>6, <2>1 DEF WeakTrue, Bit
<1>10. Alone'
  <2>1. CASE st[h] = "unique"
    <3>1. Number(Active) = 1 /\ lost.strong = 0 /\ lost.weak = 0
      BY <2>1 DEF IInv, Alone
    <3> QED BY <1>1, <1>5, <3>1 DEF Alone
  <2>2. CASE st[h] = "shared"
    BY <1>1, <1>2, <2>2, AloneMove DEF States, StrongStates
  <2> QED BY <1>1, <2>1, <2>2
<1> QED BY <1>7, <1>8, <1>9, <1>10 DEF IInv

-----------------------------------------------------------------------------
(* The end of a handle *)

LEMMA TryUnwrapStep == ASSUME IInv, NEW h \in Handles, TryUnwrap(h) PROVE IInv'
<1>1. /\ st[h] = "strong" /\ strong = 1 /\ strong' = 0 /\ value' = "moved"
      /\ Goto(h, "collective") /\ UNCHANGED <<weak, block, seen, lost>>
  BY DEF TryUnwrap
<1>2. /\ Number(StrongStates) = 1 /\ lost.strong = 0 /\ Number({"cloned"}) = 0
      /\ Number(LastStates) = 0 /\ Number(LockStates) = 0 /\ Number({"freeing"}) = 0
  <2>1. Number(StrongStates) > 0 /\ Number(LastStates) = 0
    BY <1>1, StrongHeld DEF StrongStates
  <2>2. Number(StrongStates) = 1 /\ lost.strong = 0 /\ Number({"cloned"}) = 0
    BY <1>1, <2>1, NumberType DEF IInv, Typed, StrongTrue
  <2>3. Of(StrongStates) = {h}
    BY <1>1, <2>2, NumberOne DEF StrongStates
  <2>4. \A x \in Handles : st[x] \notin LockStates
    BY <1>1, <2>3 DEF Of, StrongStates, LockStates
  <2>5. Number(LockStates) = 0
    BY <2>4, NumberZero
  <2>6. Number({"freeing"}) = 0
    BY <2>1, Facts, NumberType
  <2> QED BY <2>1, <2>2, <2>5, <2>6
<1>3. /\ st' \in [Handles -> States]
      /\ \A S : Number(S)' = Number(S) - Bit("strong" \in S) + Bit("collective" \in S)
  BY <1>1, AfterMove DEF States, LastStates
<1>4. /\ Number(StrongStates)' = 0 /\ Number({"cloned"})' = 0
      /\ Number(WeakStates)' = Number(WeakStates) /\ Number({"wcloned"})' = Number({"wcloned"})
      /\ Number(LastStates)' = 1 /\ Number({"freeing"})' = 0 /\ Number(LockStates)' = 0
  BY <1>2, <1>3, NumberType DEF Bit, StrongStates, WeakStates, LastStates, LockStates
<1>5. \A c \in {"cloned", "wcloned"} : Cardinality(Doomed(c))' = Cardinality(Doomed(c))
  BY <1>1, DoomedSame DEF IInv, Typed, Goto
<1>6. Typed'
  BY <1>1, <1>3 DEF IInv, Typed
<1>7. StrongTrue'
  <2>1. Cardinality(Doomed("cloned")) \in Nat /\ MaxRef \in Nat
    BY DoomedType DEF ArcAssumption
  <2> QED BY <1>1, <1>2, <1>4, <1>5, <2>1 DEF StrongTrue
<1>8. WeakTrue' /\ LastTrue' /\ Alive'
  BY <1>1, <1>2, <1>4, <1>5 DEF IInv, WeakTrue, LastTrue, Alive, Bit
<1> QED BY <1>1, <1>6, <1>7, <1>8, AloneMove DEF IInv, States, LastStates

LEMMA DropStep == ASSUME IInv, NEW h \in Handles, Drop(h) PROVE IInv'
<1> DEFINE s == IF strong = 1 THEN "freeing" ELSE "none"
<1>1. /\ st[h] = "strong" /\ strong > 0 /\ strong' = strong - 1 /\ Goto(h, s)
      /\ UNCHANGED <<weak, value, block, seen, lost>>
      /\ Number(StrongStates) > 0 /\ Number(LastStates) = 0
  BY StrongHeld, UpDown DEF Drop, LastDrop, StrongStates
<1>2. (strong = 1 => s = "freeing") /\ (strong # 1 => s = "none")
  OBVIOUS
<1> HIDE DEF s
<1>3. Number({"freeing"}) = 0 /\ \A S : Number(S) \in Nat
  BY <1>1, Facts, NumberType
<1>4. /\ st' \in [Handles -> States]
      /\ \A S : Number(S)' = Number(S) - Bit("strong" \in S) + Bit(s \in S)
  BY <1>1, <1>2, AfterMove DEF States, LastStates
<1>5. /\ Number(StrongStates)' = Number(StrongStates) - 1
      /\ Number({"cloned"})' = Number({"cloned"})
      /\ Number(WeakStates)' = Number(WeakStates) /\ Number({"wcloned"})' = Number({"wcloned"})
      /\ Number(LockStates)' = Number(LockStates)
      /\ Number(LastStates)' = Bit(strong = 1) /\ Number({"freeing"})' = Bit(strong = 1)
  BY <1>1, <1>2, <1>3, <1>4 DEF Bit, StrongStates, WeakStates, LastStates, LockStates
<1>6. \A c \in {"cloned", "wcloned"} : Cardinality(Doomed(c))' = Cardinality(Doomed(c))
  BY <1>1, <1>2, DoomedSame DEF IInv, Typed, Goto
<1>7. Typed'
  BY <1>1, <1>4 DEF IInv, Typed
<1>8. StrongTrue'
  <2>1. Cardinality(Doomed("cloned")) \in Nat /\ MaxRef \in Nat
    BY DoomedType DEF ArcAssumption
  <2> QED BY <1>1, <1>3, <1>5, <1>6, <2>1 DEF IInv, Typed, StrongTrue
<1>9. WeakTrue' /\ LastTrue' /\ Alive'
  BY <1>1, <1>3, <1>5, <1>6 DEF IInv, Typed, WeakTrue, LastTrue, Alive, Bit
<1> QED BY <1>1, <1>2, <1>7, <1>8, <1>9, AloneMove DEF IInv, States, LastStates

LEMMA FreeValueStep == ASSUME IInv, NEW h \in Handles, FreeValue(h) PROVE IInv'
<1>1. /\ st[h] = "freeing" /\ value' = "freed" /\ Goto(h, "collective")
      /\ UNCHANGED <<strong, weak, block, seen, lost>>
  BY DEF FreeValue
<1>2. strong = 0 /\ Number(LastStates) = 1 /\ Number({"freeing"}) = 1
  <2>1. strong = 0 /\ Number(LastStates) = 1
    BY <1>1, LastHeld DEF LastStates
  <2>2. Number({"freeing"}) > 0 /\ Number({"freeing"}) <= 1
    BY <1>1, <2>1, NumberPositive, Facts
  <2> QED BY <2>1, <2>2, NumberType
<1>3. /\ st' \in [Handles -> States]
      /\ \A S : Number(S)' = Number(S) - Bit("freeing" \in S) + Bit("collective" \in S)
  BY <1>1, AfterMove DEF States, LastStates
<1>4. /\ Number(StrongStates)' = Number(StrongStates) /\ Number({"cloned"})' = Number({"cloned"})
      /\ Number(WeakStates)' = Number(WeakStates) /\ Number({"wcloned"})' = Number({"wcloned"})
      /\ Number(LastStates)' = 1 /\ Number({"freeing"})' = 0
      /\ Number(LockStates)' = Number(LockStates)
  BY <1>2, <1>3, NumberType DEF Bit, StrongStates, WeakStates, LastStates, LockStates
<1>5. \A c \in {"cloned", "wcloned"} : Cardinality(Doomed(c))' = Cardinality(Doomed(c))
  BY <1>1, DoomedSame DEF IInv, Typed, Goto
<1>6. Typed'
  BY <1>1, <1>3 DEF IInv, Typed
<1>7. StrongTrue' /\ WeakTrue' /\ LastTrue' /\ Alive'
  BY <1>1, <1>2, <1>4, <1>5 DEF IInv, StrongTrue, WeakTrue, LastTrue, Alive, Bit
<1> QED BY <1>1, <1>6, <1>7, AloneMove DEF IInv, States, LastStates

LEMMA DropWeakStep == ASSUME IInv, NEW h \in Handles, DropWeak(h) PROVE IInv'
<1>1. /\ st[h] \in {"weak", "collective"} /\ Goto(h, "none")
      /\ block' = IF weak = 1 THEN "freed" ELSE block
      /\ UNCHANGED <<strong, value, seen, lost>>
  BY DEF DropWeak
<1>2. /\ weak > 0 /\ weak' = weak - 1 /\ Number(LockStates) = 0
      /\ st[h] = "weak" => Number(WeakStates) > 0
      /\ st[h] = "collective" => strong = 0 /\ Number(LastStates) = 1 /\ Number(StrongStates) = 0
  BY <1>1, WeakHeld, LastHeld, UpDown DEF DropWeak, WeakStates, LastStates
<1>3. /\ st' \in [Handles -> States]
      /\ \A S : Number(S)' = Number(S) - Bit(st[h] \in S) + Bit("none" \in S)
  BY <1>1, AfterMove DEF States
<1>4. /\ Number(StrongStates)' = Number(StrongStates) /\ Number({"cloned"})' = Number({"cloned"})
      /\ Number(WeakStates)' = Number(WeakStates) - Bit(st[h] = "weak")
      /\ Number({"wcloned"})' = Number({"wcloned"})
      /\ Number(LastStates)' = Number(LastStates) - Bit(st[h] = "collective")
      /\ Number({"freeing"})' = Number({"freeing"}) /\ Number(LockStates)' = 0
  BY <1>1, <1>2, <1>3, NumberType DEF Bit, StrongStates, WeakStates, LastStates, LockStates
<1>5. \A c \in {"cloned", "wcloned"} : Cardinality(Doomed(c))' = Cardinality(Doomed(c))
  BY <1>1, DoomedSame DEF IInv, Typed, Goto
<1>6. Typed'
  BY <1>1, <1>2, <1>3 DEF IInv, Typed
<1>7. StrongTrue'
  BY <1>1, <1>4, <1>5 DEF IInv, StrongTrue
<1>8. WeakTrue' /\ LastTrue'
  <2>1. /\ Cardinality(Doomed("wcloned")) \in Nat /\ MaxRef \in Nat
        /\ Number(WeakStates) \in Nat /\ Number({"wcloned"}) \in Nat /\ Number(LastStates) \in Nat
    BY DoomedType, NumberType DEF ArcAssumption
  <2>2. CASE st[h] = "weak"
    BY <1>1, <1>2, <1>4, <1>5, <2>1, <2>2 DEF IInv, Typed, WeakTrue, LastTrue, Bit
  <2>3. CASE st[h] = "collective"
    BY <1>1, <1>2, <1>4, <1>5, <2>1, <2>3 DEF IInv, Typed, WeakTrue, LastTrue, Bit
  <2> QED BY <1>1, <2>2, <2>3
<1>9. Alive'
  BY <1>1, <1>2, <1>4 DEF IInv, Typed, Alive
<1> QED BY <1>1, <1>6, <1>7, <1>8, <1>9, AloneMove DEF IInv, States

LEMMA ForgetStep == ASSUME IInv, NEW h \in Handles, Forget(h) PROVE IInv'
<1>1. /\ st[h] \in {"strong", "weak"} /\ Goto(h, "none")
      /\ UNCHANGED <<strong, weak, value, block, seen>>
      /\ lost' \in [strong : Nat, weak : Nat]
      /\ lost'.strong = lost.strong + Bit(st[h] = "strong")
      /\ lost'.weak = lost.weak + Bit(st[h] = "weak")
  BY DEF Forget, IInv, Typed, Bit
<1>2. /\ st' \in [Handles -> States]
      /\ \A S : Number(S)' = Number(S) - Bit(st[h] \in S) + Bit("none" \in S)
  BY <1>1, AfterMove DEF States
<1>3. /\ Number(StrongStates)' = Number(StrongStates) - Bit(st[h] = "strong")
      /\ Number({"cloned"})' = Number({"cloned"})
      /\ Number(WeakStates)' = Number(WeakStates) - Bit(st[h] = "weak")
      /\ Number({"wcloned"})' = Number({"wcloned"})
      /\ Number(LastStates)' = Number(LastStates) /\ Number({"freeing"})' = Number({"freeing"})
      /\ Number(LockStates)' = Number(LockStates)
  BY <1>1, <1>2, NumberType DEF Bit, StrongStates, WeakStates, LastStates, LockStates
<1>4. \A c \in {"cloned", "wcloned"} : Cardinality(Doomed(c))' = Cardinality(Doomed(c))
  BY <1>1, DoomedSame DEF IInv, Typed, Goto
<1>5. Typed'
  BY <1>1, <1>2 DEF IInv, Typed
<1>6. StrongTrue' /\ LastTrue' /\ Alive'
  BY <1>1, <1>3, <1>4, NumberType DEF IInv, Typed, StrongTrue, LastTrue, Alive, Bit
<1>7. WeakTrue'
  <2>1. st[h] = "weak" => Number(LockStates) = 0
    BY WeakHeld DEF WeakStates
  <2> QED BY <1>1, <1>3, <1>4, <2>1, NumberType DEF IInv, Typed, WeakTrue, Bit
<1> QED BY <1>1, <1>5, <1>6, <1>7, AloneMove DEF IInv, States

-----------------------------------------------------------------------------
(* The theorem *)

LEMMA InitHolds == Init => IInv
<1> SUFFICES ASSUME Init PROVE IInv
  OBVIOUS
<1> PICK h \in Handles : st = [g \in Handles |-> IF g = h THEN "strong" ELSE "none"]
  BY DEF Init
<1>1. Typed
  BY DEF Init, Typed, States, StrongStates
<1>2. /\ \A S : "none" \notin S /\ "strong" \notin S => Number(S) = 0
      /\ Number(StrongStates) = 1
  <2>1. \A S : "none" \notin S /\ "strong" \notin S => Number(S) = 0
    BY NumberZero
  <2>2. Of(StrongStates) = {h}
    BY DEF Of, StrongStates
  <2> QED BY <2>1, <2>2, FS_Singleton DEF Number
<1>3. /\ Number({"cloned"}) = 0 /\ Number(WeakStates) = 0 /\ Number({"wcloned"}) = 0
      /\ Number(LastStates) = 0 /\ Number({"freeing"}) = 0 /\ Number(LockStates) = 0
  BY <1>2 DEF WeakStates, LastStates, LockStates
<1>4. /\ Cardinality(Doomed("cloned")) \in Nat /\ Cardinality(Doomed("wcloned")) \in Nat
      /\ MaxRef \in Nat
  BY DoomedType DEF ArcAssumption
<1>5. StrongTrue /\ WeakTrue /\ LastTrue /\ Alive
  BY <1>2, <1>3, <1>4 DEF Init, StrongTrue, WeakTrue, LastTrue, Alive, Bit
<1>6. Alone
  BY DEF Alone
<1> QED BY <1>1, <1>5, <1>6 DEF IInv

LEMMA StepHolds == IInv /\ [Next]_vars => IInv'
<1> SUFFICES ASSUME IInv, [Next]_vars PROVE IInv'
  OBVIOUS
<1>1. CASE UNCHANGED vars
  BY <1>1, Unchanged DEF vars
<1>2. CASE Next
  <2> PICK h \in Handles :
       \/ Clone(h) \/ CloneWeak(h) \/ Downgrade(h) \/ DowngradeRetry(h)
       \/ Upgrade(h) \/ UpgradeNone(h) \/ UpgradeRetry(h)
       \/ Lock(h) \/ Check(h) \/ Unlock(h) \/ Return(h)
       \/ TryUnwrap(h) \/ Drop(h) \/ FreeValue(h) \/ DropWeak(h) \/ Forget(h)
       \/ \E g \in Handles :
            Cloned(h, g) \/ ClonedWeak(h, g) \/ DowngradeSwap(h, g) \/ UpgradeSwap(h, g)
    BY <1>2 DEF Next
  <2> QED BY CalmStep, CloneStep, ClonedStep, CloneWeakStep, ClonedWeakStep, DowngradeSwapStep,
             UpgradeSwapStep, LockStep, CheckStep, UnlockStep, TryUnwrapStep, DropStep,
             FreeValueStep, DropWeakStep, ForgetStep
<1> QED BY <1>1, <1>2

\* Whatever threads clone, upgrade, downgrade, borrow, unwrap and drop, each handle finds what
\* it points at, a borrow is alone, and what nobody points at is freed, once.
THEOREM CountsAreSound == Spec => []ArcSound
BY InitHolds, StepHolds, SoundNow, PTL DEF Spec

HIDE ArcAssumption

-----------------------------------------------------------------------------
(* The run queues: indices and slots *)

\* What the rings are given.
LEMMA DequesGiven ==
  /\ NoTask \notin Workers \cup Tasks
  /\ Cap \in Nat \ {0} /\ StealMax \in Nat \ {0} /\ YMax \in Nat /\ BatchMax \in Nat
  /\ IsFiniteSet(Workers) /\ Workers # {}
<1>1. Deques!DequeAssumption
  BY TasksAssumption
<1>2. Deques!IsFiniteSet(Workers) = IsFiniteSet(Workers)
  BY DEF Deques!IsFiniteSet, IsFiniteSet
<1> QED BY <1>1, <1>2 DEF Deques!DequeAssumption

\* Division with rest.
LEMMA DivMod ==
  ASSUME NEW a \in Nat, NEW m \in Nat \ {0}, NEW q \in Int, NEW r \in Int, q = a \div m, r = a % m
  PROVE  a = m * q + r
OBVIOUS

\* Two indices less than a turn apart are of two slots.
LEMMA IndicesDiffer ==
  ASSUME NEW m \in Nat \ {0}, NEW a \in Nat, NEW b \in Nat, a < b, b < a + m
  PROVE  a % m # b % m
<1> SUFFICES ASSUME a % m = b % m PROVE FALSE
  OBVIOUS
<1>1. PICK p \in Int, q \in Int, r \in Int : p = a \div m /\ q = b \div m /\ r = a % m
  <2>1. a \div m \in Int /\ b \div m \in Int /\ a % m \in Int
    OBVIOUS
  <2> QED BY <2>1
<1>2. a = m * p + r /\ b = m * q + r
  BY <1>1, DivMod
<1>3. PICK d \in Int : d = q - p
  OBVIOUS
<1>4. m * d > 0 /\ m * d < m
  <2>1. m * d = m * q - m * p
    BY <1>3
  <2> QED BY <1>2, <2>1
<1>5. CASE d <= 0
  BY <1>4, <1>5
<1>6. CASE d >= 1
  BY <1>4, <1>6
<1> QED BY <1>5, <1>6

\* An index is of a slot.
LEMMA IndexInRing ==
  ASSUME NEW m \in Nat \ {0}, NEW a \in Nat PROVE a % m \in 0 .. m - 1
OBVIOUS

\* The slots past its tail that a worker has filled for good and not yet published.
Ahead(w) ==
  IF pc[w] \in {"pushed", "shared"} THEN 1 ELSE IF pc[w] = "publish" THEN copy[w].n - 1 ELSE 0

CopyType == [from : Workers \cup {NoTask}, h : Nat, n : Nat, i : Nat,
             first : Tasks \cup {NoTask}]

DequeTyped ==
  /\ buf \in [Workers -> [0 .. Cap - 1 -> Tasks \cup {NoTask}]]
  /\ head \in [Workers -> Nat] /\ tail \in [Workers -> Nat]
  /\ yielded \in [Workers -> Seq(Tasks)] /\ inj \in Seq(Tasks)
  /\ qlock \in Workers \cup {NoTask} /\ parked \in SUBSET Tasks
  /\ hand \in [Workers -> Tasks \cup {NoTask}]
  /\ copy \in [Workers -> CopyType] /\ left \in [Workers -> Nat]
  /\ pc \in [Workers -> Deques!PCs]

\* A ring never holds more than its slots, the unpublished ones among them.
RingFits(w) == head[w] <= tail[w] /\ tail[w] + Ahead(w) <= head[w] + Cap /\ Ahead(w) \in Nat

\* Who moves its share holds the queue's lock, and the share is there.
ShareThere(w) ==
  /\ pc[w] \in {"share", "shared"} => qlock = w
  /\ pc[w] = "share" => left[w] <= Len(inj)
  /\ pc[w] = "shared" => left[w] \in 1 .. Len(inj) + 1

HandFull(w) == hand[w] # NoTask <=> pc[w] \in {"run", "pushed", "share", "shared", "publish"}

\* A claim of the owner that head has not passed is of a task that is there.
PopTrue(w) ==
  pc[w] = "pop" =>
    /\ copy[w].h <= head[w]
    /\ copy[w].h = head[w] => copy[w].h < tail[w] /\ copy[w].first = Deques!Slot(w, copy[w].h)

\* So is a thief's, and what it copied are the victim's tasks.
StealTrue(w) ==
  LET c == copy[w] IN
    /\ pc[w] \in {"tail", "copy", "claim"} =>
         c.from \in Workers \ {w} /\ c.h <= head[c.from] /\ (pc[w] = "tail" => c.i = 0)
    /\ pc[w] \in {"copy", "claim"} =>
         /\ c.n > 0 /\ tail[w] + c.n <= head[w] + Cap + 1 /\ c.h + c.n <= tail[c.from]
         /\ c.i \in 0 .. c.n /\ (pc[w] = "claim" <=> c.i = c.n)
         /\ head[c.from] = c.h =>
              /\ c.i > 0 => c.first = Deques!Slot(c.from, c.h)
              /\ \A j \in 1 .. c.i - 1 :
                   Deques!Slot(w, tail[w] + j - 1) = Deques!Slot(c.from, c.h + j)

WorkerSound(w) == RingFits(w) /\ ShareThere(w) /\ HandFull(w) /\ PopTrue(w) /\ StealTrue(w)

-----------------------------------------------------------------------------
(* Where the tasks are *)

Elements(q) == {x \in Tasks : \E i \in DOMAIN q : q[i] = x}

Ringed == {x \in Tasks : \E w \in Workers : \E i \in Deques!Held(w) : Deques!Slot(w, i) = x}
Yielded == {x \in Tasks : \E w \in Workers : x \in Elements(yielded[w])}
Injected == Elements(inj)
InHand == {x \in Tasks : \E w \in Workers : hand[w] = x}

\* No two places of a kind have the same task.
RingsOnce ==
  \A u, v \in Workers : \A i \in Deques!Held(u), j \in Deques!Held(v) :
    /\ Deques!Slot(u, i) \in Tasks
    /\ Deques!Slot(u, i) = Deques!Slot(v, j) => u = v /\ i = j
Once(q) == \A i, j \in DOMAIN q : q[i] = q[j] => i = j
YieldsOnce ==
  /\ \A w \in Workers : Once(yielded[w])
  /\ \A u, v \in Workers : u # v => Elements(yielded[u]) \cap Elements(yielded[v]) = {}
HandsOnce == \A u, v \in Workers : hand[u] = hand[v] /\ hand[u] # NoTask => u = v

\* Every task is of one of five kinds.
OneKind(R, Y, I, H, P) ==
  \A x \in Tasks :
    \/ x \in R /\ x \notin Y /\ x \notin I /\ x \notin H /\ x \notin P
    \/ x \notin R /\ x \in Y /\ x \notin I /\ x \notin H /\ x \notin P
    \/ x \notin R /\ x \notin Y /\ x \in I /\ x \notin H /\ x \notin P
    \/ x \notin R /\ x \notin Y /\ x \notin I /\ x \in H /\ x \notin P
    \/ x \notin R /\ x \notin Y /\ x \notin I /\ x \notin H /\ x \in P

TasksPlaced ==
  /\ RingsOnce /\ YieldsOnce /\ Once(inj) /\ HandsOnce
  /\ OneKind(Ringed, Yielded, Injected, InHand, parked)

DequeSound == DequeTyped /\ \A w \in Workers : WorkerSound(w)
DequeInv == DequeSound /\ TasksPlaced
-----------------------------------------------------------------------------
(* What a store changes *)

\* A store reads back, and changes no other slot of less than a turn around it.
LEMMA StoreReads ==
  ASSUME DequeTyped, NEW w \in Workers, NEW k \in Nat, NEW x \in Tasks \cup {NoTask},
         Deques!Store(w, k, x)
  PROVE  /\ buf' \in [Workers -> [0 .. Cap - 1 -> Tasks \cup {NoTask}]]
         /\ Deques!Slot(w, k)' = x
         /\ \A v \in Workers \ {w} : \A i : Deques!Slot(v, i)' = Deques!Slot(v, i)
         /\ \A i \in Nat : i < k /\ k < i + Cap => Deques!Slot(w, i)' = Deques!Slot(w, i)
<1>1. /\ buf \in [Workers -> [0 .. Cap - 1 -> Tasks \cup {NoTask}]]
      /\ buf' = [buf EXCEPT ![w] = [buf[w] EXCEPT ![k % Cap] = x]]
  BY DEF DequeTyped, Deques!Store
<1>2. \A i \in Nat : i % Cap \in 0 .. Cap - 1
  BY IndexInRing, DequesGiven
<1>3. \A i \in Nat : i < k /\ k < i + Cap => i % Cap # k % Cap
  BY IndicesDiffer, DequesGiven
<1>4. \A v \in Workers : \A i : Deques!Slot(v, i)' = buf'[v][i % Cap]
  BY DEF Deques!Slot
<1>5. \A v \in Workers : \A i : Deques!Slot(v, i) = buf[v][i % Cap]
  BY DEF Deques!Slot
<1>6. buf' \in [Workers -> [0 .. Cap - 1 -> Tasks \cup {NoTask}]]
  <2>1. [buf[w] EXCEPT ![k % Cap] = x] \in [0 .. Cap - 1 -> Tasks \cup {NoTask}]
    BY <1>1
  <2> QED BY <1>1, <2>1
<1>7. buf'[w] = [buf[w] EXCEPT ![k % Cap] = x] /\ \A v \in Workers \ {w} : buf'[v] = buf[v]
  BY <1>1
<1>8. Deques!Slot(w, k)' = x
  <2>1. buf'[w][k % Cap] = x
    BY <1>1, <1>2, <1>7
  <2> QED BY <2>1, <1>4
<1>9. \A i \in Nat : i < k /\ k < i + Cap => Deques!Slot(w, i)' = Deques!Slot(w, i)
  <2> SUFFICES ASSUME NEW i \in Nat, i < k, k < i + Cap
               PROVE  Deques!Slot(w, i)' = Deques!Slot(w, i)
    OBVIOUS
  <2>1. i % Cap # k % Cap /\ i % Cap \in 0 .. Cap - 1
    BY <1>2, <1>3
  <2>2. buf'[w][i % Cap] = buf[w][i % Cap]
    BY <1>1, <1>7, <2>1
  <2> QED BY <2>2, <1>4, <1>5
<1> QED BY <1>4, <1>5, <1>6, <1>7, <1>8, <1>9

\* What the rings hold is what they held, when nobody moved and no slot of theirs was stored to.
LEMMA RingsSame ==
  ASSUME \A w \in Workers : Deques!Held(w)' = Deques!Held(w),
         \A w \in Workers : \A i \in Deques!Held(w) : Deques!Slot(w, i)' = Deques!Slot(w, i)
  PROVE  Ringed' = Ringed /\ (RingsOnce => RingsOnce')
BY DEF Ringed, RingsOnce

-----------------------------------------------------------------------------
(* Who does not step *)

\* What a step of another leaves to a worker: it only takes from the worker's ring, adds to its
\* own, keeps every slot that was in use, and leaves the queue to who has its lock.
Undisturbed(u) ==
  /\ tail'[u] = tail[u] /\ copy'[u] = copy[u] /\ pc'[u] = pc[u]
  /\ left'[u] = left[u] /\ hand'[u] = hand[u]
  /\ \A i \in Nat : Deques!Slot(u, i)' = Deques!Slot(u, i)
  /\ pc[u] \in {"share", "shared"} => qlock' = u /\ inj' = inj

\* What every step does to the rings.
RingsMove ==
  \A v \in Workers :
    /\ head'[v] \in Nat /\ tail'[v] \in Nat
    /\ head[v] <= head'[v] /\ head'[v] <= tail'[v] /\ tail[v] <= tail'[v]
    /\ \A i \in head[v] .. tail[v] - 1 : Deques!Slot(v, i)' = Deques!Slot(v, i)

\* What a worker knows stays true while another one steps.
LEMMA OthersSound ==
  ASSUME DequeTyped, NEW u \in Workers, WorkerSound(u), RingsMove, Undisturbed(u)
  PROVE  WorkerSound(u)'
<1> USE DequesGiven
<1>1. /\ head[u] \in Nat /\ tail[u] \in Nat /\ copy[u] \in CopyType /\ left[u] \in Nat
      /\ \A v \in Workers : head[v] \in Nat /\ tail[v] \in Nat
  BY DEF DequeTyped
<1>2. RingFits(u)'
  <2>1. Ahead(u)' = Ahead(u)
    BY DEF Undisturbed, Ahead
  <2> QED BY <1>1, <2>1 DEF RingFits, WorkerSound, RingsMove, Undisturbed
<1>3. ShareThere(u)' /\ HandFull(u)'
  BY DEF ShareThere, HandFull, WorkerSound, Undisturbed
<1>4. PICK c \in CopyType, t \in Nat : c = copy[u] /\ t = tail[u]
  BY <1>1
<1>5. c.h \in Nat /\ c.n \in Nat /\ c.i \in Nat
  BY DEF CopyType
<1>6. PopTrue(u)'
  <2> SUFFICES ASSUME pc[u] = "pop"
               PROVE  /\ c.h <= head'[u]
                      /\ c.h = head'[u] => c.h < t /\ c.first = Deques!Slot(u, c.h)'
    BY <1>4 DEF PopTrue, Undisturbed, Deques!Slot
  <2>1. /\ c.h <= head[u]
        /\ c.h = head[u] => c.h < t /\ c.first = Deques!Slot(u, c.h)
    BY <1>4 DEF PopTrue, WorkerSound
  <2> QED BY <1>1, <1>5, <2>1 DEF RingsMove, Undisturbed
<1>7. StealTrue(u)'
  <2> DEFINE v == c.from
  <2>1. copy'[u] = c /\ pc'[u] = pc[u] /\ tail'[u] = t
    BY <1>4 DEF Undisturbed
  <2>2. CASE pc[u] \in {"tail", "copy", "claim"}
    <3>1. v \in Workers \ {u} /\ c.h <= head[v] /\ (pc[u] = "tail" => c.i = 0)
      BY <1>4, <2>2 DEF StealTrue, WorkerSound
    <3>2. v \in Workers \ {u} /\ c.h <= head'[v]
      BY <1>1, <1>5, <3>1 DEF RingsMove
    <3>3. ASSUME pc[u] \in {"copy", "claim"}
          PROVE  /\ c.n > 0 /\ t + c.n <= head'[u] + Cap + 1 /\ c.h + c.n <= tail'[v]
                 /\ c.i \in 0 .. c.n /\ (pc[u] = "claim" <=> c.i = c.n)
      BY <1>1, <1>4, <1>5, <3>1, <3>3 DEF StealTrue, WorkerSound, RingsMove
    <3>4. ASSUME pc[u] \in {"copy", "claim"}, head'[v] = c.h
          PROVE  /\ c.i > 0 => c.first = Deques!Slot(v, c.h)'
                 /\ \A j \in 1 .. c.i - 1 :
                      Deques!Slot(u, t + j - 1)' = Deques!Slot(v, c.h + j)'
      <4>1. head[v] = c.h
        BY <1>1, <1>5, <3>1, <3>4 DEF RingsMove
      <4>2. /\ c.n > 0 /\ c.h + c.n <= tail[v] /\ c.i \in 0 .. c.n
            /\ c.i > 0 => c.first = Deques!Slot(v, c.h)
            /\ \A j \in 1 .. c.i - 1 :
                 Deques!Slot(u, t + j - 1) = Deques!Slot(v, c.h + j)
        BY <1>4, <3>4, <4>1 DEF StealTrue, WorkerSound
      <4>3. \A j \in 0 .. c.i - 1 : Deques!Slot(v, c.h + j)' = Deques!Slot(v, c.h + j)
        <5> SUFFICES ASSUME NEW j \in 0 .. c.i - 1
                     PROVE  Deques!Slot(v, c.h + j)' = Deques!Slot(v, c.h + j)
          OBVIOUS
        <5>1. c.h + j \in head[v] .. tail[v] - 1
          BY <1>1, <1>5, <3>1, <4>1, <4>2
        <5> QED BY <3>1, <5>1 DEF RingsMove
      <4>4. c.i > 0 => c.first = Deques!Slot(v, c.h)'
        <5>1. c.i > 0 => c.h \in head[v] .. tail[v] - 1
          BY <1>1, <1>5, <3>1, <4>1, <4>2
        <5> QED BY <3>1, <4>2, <5>1 DEF RingsMove
      <4>5. \A j \in 1 .. c.i - 1 : Deques!Slot(u, t + j - 1)' = Deques!Slot(u, t + j - 1)
        <5>1. \A j \in 1 .. c.i - 1 : t + j - 1 \in Nat
          BY <1>5
        <5> QED BY <5>1 DEF Undisturbed
      <4> QED BY <4>2, <4>3, <4>4, <4>5
    <3> QED BY <2>1, <3>1, <3>2, <3>3, <3>4 DEF StealTrue, Deques!Slot
  <2> QED BY <2>1, <2>2 DEF StealTrue
<1> QED BY <1>2, <1>3, <1>6, <1>7 DEF WorkerSound

-----------------------------------------------------------------------------
(* What a queue, a hand and a ring gain and lose *)

\* A task is appended to a queue that does not have it.
LEMMA QueueGains ==
  ASSUME NEW q \in Seq(Tasks), NEW x \in Tasks
  PROVE  /\ Append(q, x) \in Seq(Tasks) /\ Len(Append(q, x)) = Len(q) + 1
         /\ Elements(Append(q, x)) = Elements(q) \cup {x}
         /\ Once(q) /\ x \notin Elements(q) => Once(Append(q, x))
<1> DEFINE p == Append(q, x)
           n == Len(q)
<1>1. /\ p \in Seq(Tasks) /\ Len(p) = n + 1 /\ n \in Nat
      /\ \A i \in 1 .. n : p[i] = q[i]
      /\ p[n + 1] = x
  BY AppendProperties, LenProperties
<1>2. DOMAIN p = 1 .. n + 1 /\ DOMAIN q = 1 .. n /\ \A i \in 1 .. n : q[i] \in Tasks
  BY <1>1, LenProperties, ElementOfSeq
<1> HIDE DEF p, n
<1>3. Elements(p) = Elements(q) \cup {x}
  BY <1>1, <1>2 DEF Elements
<1>4. ASSUME Once(q), x \notin Elements(q) PROVE Once(p)
  <2>1. \A i \in 1 .. n : p[i] # x
    BY <1>1, <1>2, <1>4 DEF Elements
  <2>2. \A i \in 1 .. n + 1 : i = n + 1 \/ i \in 1 .. n
    BY <1>1
  <2> QED BY <1>1, <1>2, <1>4, <2>1, <2>2 DEF Once
<1> QED BY <1>1, <1>3, <1>4 DEF p, n

\* The first task of a queue is taken.
LEMMA QueueLoses ==
  ASSUME NEW q \in Seq(Tasks), q # <<>>
  PROVE  /\ Tail(q) \in Seq(Tasks) /\ Len(Tail(q)) = Len(q) - 1 /\ Len(q) \in Nat \ {0}
         /\ Head(q) \in Tasks /\ Head(q) \in Elements(q)
         /\ Elements(Tail(q)) \cup {Head(q)} = Elements(q)
         /\ Once(q) => Once(Tail(q)) /\ Elements(Tail(q)) = Elements(q) \ {Head(q)}
<1> DEFINE p == Tail(q)
           n == Len(q)
<1>1. /\ p \in Seq(Tasks) /\ Len(p) = n - 1 /\ n \in Nat /\ Head(q) \in Tasks
      /\ \A i \in 1 .. n - 1 : p[i] = q[i + 1]
      /\ Head(q) = q[1]
  BY HeadTailProperties, LenProperties
<1>2. n # 0
  BY EmptySeq
<1>3. DOMAIN p = 1 .. n - 1 /\ DOMAIN q = 1 .. n /\ \A i \in 1 .. n : q[i] \in Tasks
  BY <1>1, LenProperties, ElementOfSeq
<1> HIDE DEF p, n
<1>4. Elements(p) \cup {q[1]} = Elements(q)
  <2>1. \A i \in 1 .. n : i = 1 \/ (i - 1 \in 1 .. n - 1 /\ p[i - 1] = q[i])
    BY <1>1
  <2>2. 1 \in 1 .. n /\ \A i \in 1 .. n - 1 : i + 1 \in 1 .. n
    BY <1>1, <1>2
  <2> QED BY <1>1, <1>3, <2>1, <2>2 DEF Elements
<1>5. ASSUME Once(q) PROVE Once(p) /\ q[1] \notin Elements(p)
  <2>1. \A i \in 1 .. n - 1 : i + 1 \in 1 .. n /\ i + 1 # 1 /\ 1 \in 1 .. n
    BY <1>1
  <2>2. ASSUME NEW i \in 1 .. n - 1, NEW j \in 1 .. n - 1, p[i] = p[j] PROVE i = j
    <3>1. i + 1 = j + 1
      BY ZenonT(30), <1>1, <1>3, <1>5, <2>1, <2>2 DEF Once
    <3> QED BY <3>1
  <2>3. \A i \in 1 .. n - 1 : p[i] # q[1]
    BY <1>1, <1>3, <1>5, <2>1 DEF Once
  <2> QED BY <1>3, <2>2, <2>3 DEF Once, Elements
<1> QED BY <1>1, <1>2, <1>3, <1>4, <1>5 DEF Elements, p, n

\* A worker's task goes to its yield queue.
LEMMA YieldGained ==
  ASSUME DequeTyped, NEW w \in Workers, NEW x \in Tasks,
         yielded' = [yielded EXCEPT ![w] = Append(@, x)], YieldsOnce, x \notin Yielded
  PROVE  yielded' \in [Workers -> Seq(Tasks)] /\ Yielded' = Yielded \cup {x} /\ YieldsOnce'
<1>1. yielded \in [Workers -> Seq(Tasks)]
  BY DEF DequeTyped
<1> DEFINE p == Append(yielded[w], x)
<1>2. /\ p \in Seq(Tasks) /\ Elements(p) = Elements(yielded[w]) \cup {x}
      /\ Once(yielded[w]) /\ x \notin Elements(yielded[w]) => Once(p)
  BY <1>1, QueueGains
<1>3. /\ yielded' \in [Workers -> Seq(Tasks)] /\ yielded'[w] = p
      /\ \A v \in Workers \ {w} : yielded'[v] = yielded[v]
  BY <1>1, <1>2
<1> HIDE DEF p
<1>4. \A v \in Workers : x \notin Elements(yielded[v])
  BY DEF Yielded
<1>5. Yielded' = Yielded \cup {x}
  BY <1>2, <1>3 DEF Yielded, Elements
<1>6. YieldsOnce'
  <2>1. \A v \in Workers : Once(yielded'[v])
    BY <1>2, <1>3, <1>4 DEF YieldsOnce
  <2>2. \A v \in Workers : Elements(yielded'[v]) =
          IF v = w THEN Elements(yielded[v]) \cup {x} ELSE Elements(yielded[v])
    BY <1>2, <1>3
  <2>3. ASSUME NEW u \in Workers, NEW v \in Workers, u # v
        PROVE  Elements(yielded'[u]) \cap Elements(yielded'[v]) = {}
    <3>1. Elements(yielded[u]) \cap Elements(yielded[v]) = {}
      BY <2>3 DEF YieldsOnce
    <3>2. /\ x \notin Elements(yielded[u]) /\ x \notin Elements(yielded[v])
          /\ Elements(yielded'[u]) =
               IF u = w THEN Elements(yielded[u]) \cup {x} ELSE Elements(yielded[u])
          /\ Elements(yielded'[v]) =
               IF v = w THEN Elements(yielded[v]) \cup {x} ELSE Elements(yielded[v])
      BY <1>4, <2>2
    <3> QED BY <2>3, <3>1, <3>2
  <2> QED BY <2>1, <2>3 DEF YieldsOnce, Once, Elements
<1> QED BY <1>3, <1>5, <1>6

\* A worker takes the first task of its yield queue.
LEMMA YieldLost ==
  ASSUME DequeTyped, NEW w \in Workers, yielded[w] # <<>>,
         yielded' = [yielded EXCEPT ![w] = Tail(@)], YieldsOnce
  PROVE  /\ yielded' \in [Workers -> Seq(Tasks)]
         /\ Head(yielded[w]) \in Tasks /\ Head(yielded[w]) \in Yielded
         /\ Yielded' = Yielded \ {Head(yielded[w])} /\ YieldsOnce'
<1>1. yielded \in [Workers -> Seq(Tasks)]
  BY DEF DequeTyped
<1> DEFINE p == Tail(yielded[w])
<1>0. PICK x : x = Head(yielded[w])
  OBVIOUS
<1>2. /\ p \in Seq(Tasks) /\ x \in Tasks /\ x \in Elements(yielded[w])
      /\ Once(p) /\ Elements(p) = Elements(yielded[w]) \ {x}
  BY <1>0, <1>1, QueueLoses DEF YieldsOnce
<1>3. /\ yielded' \in [Workers -> Seq(Tasks)] /\ yielded'[w] = p
      /\ \A v \in Workers \ {w} : yielded'[v] = yielded[v]
  BY <1>1, <1>2
<1> HIDE DEF p
<1>4. \A v \in Workers \ {w} : x \notin Elements(yielded[v])
  BY <1>2 DEF YieldsOnce
<1>5. \A v \in Workers : Elements(yielded'[v]) = Elements(yielded[v]) \ {x}
  BY <1>2, <1>3, <1>4
<1>6. Yielded' = Yielded \ {x} /\ x \in Yielded
  <2>1. \A y \in Tasks : y \in Yielded' <=> \E v \in Workers : y \in Elements(yielded'[v])
    BY DEF Yielded, Elements
  <2>2. \A y \in Tasks : y \in Yielded <=> \E v \in Workers : y \in Elements(yielded[v])
    BY DEF Yielded
  <2>3. Yielded \subseteq Tasks /\ Yielded' \subseteq Tasks
    BY DEF Yielded
  <2>4. \A y \in Tasks : y \in Yielded' <=> y \in Yielded /\ y # x
    BY <1>5, <2>1, <2>2
  <2>5. x \in Yielded
    BY <1>2, <2>2
  <2> QED BY <2>3, <2>4, <2>5
<1>7. YieldsOnce'
  <2>1. \A v \in Workers : Once(yielded'[v])
    BY <1>2, <1>3 DEF YieldsOnce
  <2>2. \A u, v \in Workers : u # v => Elements(yielded'[u]) \cap Elements(yielded'[v]) = {}
    BY <1>5 DEF YieldsOnce
  <2> QED BY <2>1, <2>2 DEF YieldsOnce, Once, Elements
<1> QED BY <1>0, <1>2, <1>3, <1>6, <1>7

\* A task gets into an empty hand.
LEMMA HandGains ==
  ASSUME DequeTyped, NEW w \in Workers, NEW x \in Tasks, hand[w] = NoTask,
         hand' = [hand EXCEPT ![w] = x], HandsOnce, x \notin InHand
  PROVE  hand' \in [Workers -> Tasks \cup {NoTask}] /\ InHand' = InHand \cup {x} /\ HandsOnce'
<1>1. /\ hand \in [Workers -> Tasks \cup {NoTask}] /\ x # NoTask
      /\ \A v \in Workers : hand'[v] = IF v = w THEN x ELSE hand[v]
      /\ hand' \in [Workers -> Tasks \cup {NoTask}]
  BY DequesGiven DEF DequeTyped
<1>2. InHand' = InHand \cup {x}
  <2>1. \A y \in Tasks : (\E v \in Workers : hand'[v] = y) <=>
          (\E v \in Workers : hand[v] = y) \/ y = x
    <3>1. \A y \in Tasks : hand[w] # y
      BY DequesGiven
    <3> QED BY <1>1, <3>1
  <2> QED BY <2>1 DEF InHand
<1>3. HandsOnce'
  BY <1>1 DEF HandsOnce, InHand
<1> QED BY <1>1, <1>2, <1>3

\* A worker's task leaves its hand.
LEMMA HandLoses ==
  ASSUME DequeTyped, NEW w \in Workers, hand[w] # NoTask,
         hand' = [hand EXCEPT ![w] = NoTask], HandsOnce
  PROVE  /\ hand' \in [Workers -> Tasks \cup {NoTask}]
         /\ hand[w] \in Tasks /\ hand[w] \in InHand
         /\ InHand' = InHand \ {hand[w]} /\ HandsOnce'
<1>1. /\ hand \in [Workers -> Tasks \cup {NoTask}] /\ NoTask \notin Tasks
      /\ \A v \in Workers : hand'[v] = IF v = w THEN NoTask ELSE hand[v]
      /\ hand' \in [Workers -> Tasks \cup {NoTask}]
  BY DequesGiven DEF DequeTyped
<1>2. hand[w] \in Tasks /\ hand[w] \in InHand
  BY <1>1 DEF InHand
<1>3. InHand' = InHand \ {hand[w]}
  BY <1>1 DEF InHand, HandsOnce
<1>4. HandsOnce'
  BY <1>1 DEF HandsOnce
<1> QED BY <1>1, <1>2, <1>3, <1>4

\* A ring's owner puts a task past what it holds.
LEMMA RingGains ==
  ASSUME NEW w \in Workers, NEW x \in Tasks, NEW k, RingsOnce, x \notin Ringed,
         k \notin Deques!Held(w), Deques!Held(w)' = Deques!Held(w) \cup {k},
         \A v \in Workers \ {w} : Deques!Held(v)' = Deques!Held(v),
         \A v \in Workers : \A i \in Deques!Held(v) : Deques!Slot(v, i)' = Deques!Slot(v, i),
         Deques!Slot(w, k)' = x
  PROVE  Ringed' = Ringed \cup {x} /\ RingsOnce'
<1>1. \A v \in Workers : \A i \in Deques!Held(v) : Deques!Slot(v, i) # x
  BY DEF Ringed
<1>2. \A v \in Workers : \A i \in Deques!Held(v)' :
        \/ v = w /\ i = k /\ Deques!Slot(v, i)' = x
        \/ i \in Deques!Held(v) /\ Deques!Slot(v, i)' = Deques!Slot(v, i)
  OBVIOUS
<1>3. \A v \in Workers : \A i \in Deques!Held(v) : i \in Deques!Held(v)'
  OBVIOUS
<1>4. Ringed' = Ringed \cup {x}
  <2>1. \A y \in Tasks : y \in Ringed' <=>
          \E v \in Workers : \E i \in Deques!Held(v)' : Deques!Slot(v, i)' = y
    BY DEF Ringed
  <2>2. \A y \in Tasks : y \in Ringed <=>
          \E v \in Workers : \E i \in Deques!Held(v) : Deques!Slot(v, i) = y
    BY DEF Ringed
  <2>3. Ringed \subseteq Tasks /\ Ringed' \subseteq Tasks
    BY DEF Ringed
  <2>4. \A y \in Tasks : y \in Ringed' => y \in Ringed \/ y = x
    BY <1>2, <2>1, <2>2
  <2>5. \A y \in Tasks : y \in Ringed => y \in Ringed'
    BY <1>3, <2>1, <2>2
  <2>6. x \in Ringed'
    BY <2>1
  <2> QED BY <2>3, <2>4, <2>5, <2>6
<1>5. RingsOnce'
  <2> SUFFICES ASSUME NEW u \in Workers, NEW v \in Workers,
                      NEW i \in Deques!Held(u)', NEW j \in Deques!Held(v)'
               PROVE  /\ Deques!Slot(u, i)' \in Tasks
                      /\ Deques!Slot(u, i)' = Deques!Slot(v, j)' => u = v /\ i = j
    BY DEF RingsOnce
  <2>1. CASE i \in Deques!Held(u) /\ j \in Deques!Held(v)
    BY <2>1 DEF RingsOnce
  <2>2. CASE u = w /\ i = k /\ j \in Deques!Held(v)
    BY <1>1, <2>2
  <2>3. CASE i \in Deques!Held(u) /\ v = w /\ j = k
    BY <1>1, <2>3 DEF RingsOnce
  <2>4. CASE u = w /\ i = k /\ v = w /\ j = k
    BY <2>4
  <2> QED BY <1>2, <2>1, <2>2, <2>3, <2>4
<1> QED BY <1>4, <1>5

\* The owner takes a task from its ring.
LEMMA RingLoses ==
  ASSUME NEW w \in Workers, NEW k \in Deques!Held(w), RingsOnce,
         Deques!Held(w)' = Deques!Held(w) \ {k},
         \A v \in Workers \ {w} : Deques!Held(v)' = Deques!Held(v),
         \A v \in Workers : \A i \in Deques!Held(v) : Deques!Slot(v, i)' = Deques!Slot(v, i)
  PROVE  /\ Deques!Slot(w, k) \in Tasks /\ Deques!Slot(w, k) \in Ringed
         /\ Ringed' = Ringed \ {Deques!Slot(w, k)} /\ RingsOnce'
<1>0. PICK x : x = Deques!Slot(w, k)
  OBVIOUS
<1>1. x \in Tasks /\ \A v \in Workers : \A i \in Deques!Held(v) :
        Deques!Slot(v, i) = x => v = w /\ i = k
  BY <1>0 DEF RingsOnce
<1>2. \A v \in Workers : \A i : i \in Deques!Held(v)' <=> i \in Deques!Held(v) /\ ~(v = w /\ i = k)
  OBVIOUS
<1>3. Ringed' = Ringed \ {x} /\ x \in Ringed
  <2>1. \A y \in Tasks : y \in Ringed' <=>
          \E v \in Workers : \E i \in Deques!Held(v)' : Deques!Slot(v, i)' = y
    BY DEF Ringed
  <2>2. \A y \in Tasks : y \in Ringed <=>
          \E v \in Workers : \E i \in Deques!Held(v) : Deques!Slot(v, i) = y
    BY DEF Ringed
  <2>3. Ringed \subseteq Tasks /\ Ringed' \subseteq Tasks
    BY DEF Ringed
  <2>4. \A y \in Tasks : y \in Ringed' => y \in Ringed /\ y # x
    BY <1>1, <1>2, <2>1, <2>2
  <2>5. \A y \in Tasks : y \in Ringed /\ y # x => y \in Ringed'
    BY <1>0, <1>2, <2>1, <2>2
  <2>6. x \in Ringed
    BY <1>0, <1>1, <2>2
  <2> QED BY <2>3, <2>4, <2>5, <2>6
<1>4. RingsOnce'
  BY <1>2 DEF RingsOnce
<1> QED BY <1>0, <1>1, <1>3, <1>4

\* A thief w takes n tasks of v from h on: the first to run, the others to its own tail t.
Moves(w, v, h, n, t) ==
  /\ h .. h + n - 1 \subseteq Deques!Held(v)
  /\ Deques!Held(v)' = Deques!Held(v) \ (h .. h + n - 1)
  /\ Deques!Held(w)' = Deques!Held(w) \cup (t .. t + n - 2)
  /\ \A u \in Workers \ {v, w} : Deques!Held(u)' = Deques!Held(u)
  /\ \A u \in Workers : \A i : Deques!Slot(u, i)' = Deques!Slot(u, i)
  /\ \A j \in 1 .. n - 1 : Deques!Slot(w, t + j - 1) = Deques!Slot(v, h + j)

\* After that the first is in no ring, and every other is in one.
LEMMA RingMoves ==
  ASSUME NEW w \in Workers, NEW v \in Workers \ {w}, RingsOnce,
         NEW h \in Nat, NEW n \in Nat \ {0}, NEW t \in Nat, Moves(w, v, h, n, t)
  PROVE  /\ Deques!Slot(v, h) \in Tasks /\ Deques!Slot(v, h) \in Ringed
         /\ Ringed' = Ringed \ {Deques!Slot(v, h)} /\ RingsOnce'
<1> USE DEF Moves
<1>0. PICK x : x = Deques!Slot(v, h)
  OBVIOUS
<1>1. /\ h \in h .. h + n - 1
      /\ \A i \in h .. h + n - 1 : i = h \/ (i - h \in 1 .. n - 1 /\ i = h + (i - h))
      /\ \A i \in t .. t + n - 2 : /\ i - t + 1 \in 1 .. n - 1
                                   /\ i = t + (i - t + 1) - 1
                                   /\ h + (i - t + 1) \in h .. h + n - 1
                                   /\ h + (i - t + 1) # h
      /\ \A j \in 1 .. n - 1 : t + j - 1 \in t .. t + n - 2 /\ h + j \in h .. h + n - 1
  OBVIOUS
<1>2. x \in Tasks /\ \A u \in Workers : \A i \in Deques!Held(u) :
        Deques!Slot(u, i) = x => u = v /\ i = h
  BY <1>0, <1>1 DEF RingsOnce
\* Where each task of a ring was before.
<1>3. \A u \in Workers : \A i \in Deques!Held(u)' :
        \/ i \in Deques!Held(u) /\ ~(u = v /\ i \in h .. h + n - 1)
        \/ /\ u = w /\ i \in t .. t + n - 2
           /\ Deques!Slot(u, i) = Deques!Slot(v, h + (i - t + 1))
           /\ h + (i - t + 1) \in Deques!Held(v)
  BY <1>1
<1>4. Ringed' = Ringed \ {x} /\ x \in Ringed
  <2>1. \A y \in Tasks : y \in Ringed' <=>
          \E u \in Workers : \E i \in Deques!Held(u)' : Deques!Slot(u, i) = y
    BY DEF Ringed
  <2>2. \A y \in Tasks : y \in Ringed <=>
          \E u \in Workers : \E i \in Deques!Held(u) : Deques!Slot(u, i) = y
    BY DEF Ringed
  <2>3. Ringed \subseteq Tasks /\ Ringed' \subseteq Tasks
    BY DEF Ringed
  <2>4. ASSUME NEW y \in Tasks, y \in Ringed' PROVE y \in Ringed /\ y # x
    <3>0. PICK u \in Workers : \E i \in Deques!Held(u)' : Deques!Slot(u, i) = y
      BY <2>1, <2>4
    <3>1. PICK i \in Deques!Held(u)' : Deques!Slot(u, i) = y
      BY <3>0
    <3>2. CASE i \in Deques!Held(u) /\ ~(u = v /\ i \in h .. h + n - 1)
      BY <1>1, <1>2, <2>2, <3>1, <3>2
    <3>3. CASE /\ u = w /\ i \in t .. t + n - 2
               /\ Deques!Slot(u, i) = Deques!Slot(v, h + (i - t + 1))
               /\ h + (i - t + 1) \in Deques!Held(v)
      BY <1>1, <1>2, <2>2, <3>1, <3>3
    <3> QED BY <1>3, <3>2, <3>3
  <2>5. ASSUME NEW y \in Tasks, y \in Ringed, y # x PROVE y \in Ringed'
    <3>0. PICK u \in Workers : \E i \in Deques!Held(u) : Deques!Slot(u, i) = y
      BY <2>2, <2>5
    <3>1. PICK i \in Deques!Held(u) : Deques!Slot(u, i) = y
      BY <3>0
    <3>2. CASE u = v /\ i \in h .. h + n - 1
      <4>1. i - h \in 1 .. n - 1 /\ i = h + (i - h)
        BY <1>0, <1>1, <2>5, <3>1, <3>2
      <4>2. /\ t + (i - h) - 1 \in Deques!Held(w)'
            /\ Deques!Slot(w, t + (i - h) - 1) = Deques!Slot(v, i)
        BY <1>1, <4>1
      <4> QED BY <2>1, <3>1, <3>2, <4>2
    <3>3. CASE ~(u = v /\ i \in h .. h + n - 1)
      <4>1. i \in Deques!Held(u)'
        BY <3>1, <3>3
      <4> QED BY <2>1, <3>1, <4>1
    <3> QED BY <3>2, <3>3
  <2>6. x \in Ringed
    BY <1>0, <1>1, <1>2, <2>2
  <2> QED BY <2>3, <2>4, <2>5, <2>6
<1>5. RingsOnce'
  <2> SUFFICES ASSUME NEW a \in Workers, NEW b \in Workers,
                      NEW i \in Deques!Held(a)', NEW j \in Deques!Held(b)'
               PROVE  /\ Deques!Slot(a, i) \in Tasks
                      /\ Deques!Slot(a, i) = Deques!Slot(b, j) => a = b /\ i = j
    BY DEF RingsOnce
  <2> DEFINE Kept(u, k) == k \in Deques!Held(u) /\ ~(u = v /\ k \in h .. h + n - 1)
             Moved(u, k) == /\ u = w /\ k \in t .. t + n - 2
                            /\ Deques!Slot(u, k) = Deques!Slot(v, h + (k - t + 1))
                            /\ h + (k - t + 1) \in Deques!Held(v)
  <2>1. (Kept(a, i) \/ Moved(a, i)) /\ (Kept(b, j) \/ Moved(b, j))
    BY <1>3
  <2>2. CASE Kept(a, i) /\ Kept(b, j)
    BY <2>2 DEF RingsOnce
  <2>3. CASE Kept(a, i) /\ Moved(b, j)
    <3>1. h + (j - t + 1) \in h .. h + n - 1
      BY <1>1, <2>3
    <3> QED BY <2>3, <3>1 DEF RingsOnce
  <2>4. CASE Moved(a, i) /\ Kept(b, j)
    <3>1. h + (i - t + 1) \in h .. h + n - 1
      BY <1>1, <2>4
    <3> QED BY <2>4, <3>1 DEF RingsOnce
  <2>5. CASE Moved(a, i) /\ Moved(b, j)
    <3>1. h + (i - t + 1) = h + (j - t + 1) => i = j
      BY <2>5
    <3> QED BY <2>5, <3>1 DEF RingsOnce
  <2> QED BY <2>1, <2>2, <2>3, <2>4, <2>5
<1> QED BY <1>0, <1>2, <1>4, <1>5

-----------------------------------------------------------------------------
(* What every step keeps *)

\* A slot has a task, or none yet.
LEMMA SlotTyped ==
  ASSUME DequeTyped, NEW v \in Workers, NEW i \in Nat
  PROVE  Deques!Slot(v, i) \in Tasks \cup {NoTask}
<1>1. i % Cap \in 0 .. Cap - 1
  BY IndexInRing, DequesGiven
<1>2. buf[v] \in [0 .. Cap - 1 -> Tasks \cup {NoTask}]
  BY DEF DequeTyped
<1> QED BY <1>1, <1>2 DEF Deques!Slot

\* A step that leaves the rings alone moves nothing in them.
LEMMA StillRings ==
  ASSUME DequeSound, UNCHANGED <<buf, head, tail>>
  PROVE  RingsMove /\ \A v \in Workers : \A i : Deques!Slot(v, i)' = Deques!Slot(v, i)
BY DEF DequeSound, DequeTyped, WorkerSound, RingFits, RingsMove, Deques!Slot

\* And leaves what they hold, when nobody's unpublished slots change.
LEMMA StillHeld ==
  ASSUME UNCHANGED <<buf, head, tail>>, \A v \in Workers : Ahead(v)' = Ahead(v)
  PROVE  Ringed' = Ringed /\ (RingsOnce => RingsOnce')
<1>1. \A v \in Workers : Deques!Held(v)' = Deques!Held(v)
  BY DEF Deques!Held, Ahead
<1>2. \A v \in Workers : \A i : Deques!Slot(v, i)' = Deques!Slot(v, i)
  BY DEF Deques!Slot
<1> QED BY <1>1, <1>2, RingsSame

\* What a step does not touch has the tasks it had.
LEMMA StillQueued ==
  /\ yielded' = yielded => Yielded' = Yielded /\ (YieldsOnce => YieldsOnce')
  /\ inj' = inj => Injected' = Injected /\ (Once(inj) => Once(inj)')
  /\ hand' = hand => InHand' = InHand /\ (HandsOnce => HandsOnce')
BY DEF Yielded, YieldsOnce, Injected, InHand, HandsOnce, Elements, Once

\* A step of w that only changes its place, its claim and its share.
LEMMA StillPlaced ==
  ASSUME DequeInv, UNCHANGED <<buf, head, tail, yielded, inj, parked, hand>>,
         \A v \in Workers : Ahead(v)' = Ahead(v)
  PROVE  TasksPlaced'
<1>1. Ringed' = Ringed /\ RingsOnce'
  BY StillHeld DEF DequeInv, TasksPlaced
<1> QED BY <1>1, StillQueued DEF DequeInv, TasksPlaced, OneKind

\* The others are undisturbed by a worker that stays in its own ring.
LEMMA StepSound ==
  ASSUME DequeSound, NEW w \in Workers, DequeTyped', RingsMove,
         \A u \in Workers \ {w} : Undisturbed(u), WorkerSound(w)'
  PROVE  DequeSound'
BY OthersSound DEF DequeSound

\* What is the same for the others when these functions change at w only.
LEMMA OthersStill ==
  ASSUME DequeSound, NEW w \in Workers,
         \A u \in Workers \ {w} :
           /\ tail'[u] = tail[u] /\ copy'[u] = copy[u] /\ pc'[u] = pc[u] /\ left'[u] = left[u]
           /\ hand'[u] = hand[u] /\ buf'[u] = buf[u],
         \/ qlock' = qlock /\ inj' = inj
         \/ qlock = NoTask \/ qlock = w
  PROVE  \A u \in Workers \ {w} : Undisturbed(u)
BY DequesGiven DEF DequeSound, WorkerSound, ShareThere, Undisturbed, Deques!Slot

-----------------------------------------------------------------------------
(* Steps that move no task *)

\* A worker goes on with another claim.
LEMMA QuietStep ==
  ASSUME DequeInv, NEW w \in Workers, NEW l \in Deques!PCs, NEW c \in CopyType,
         UNCHANGED <<buf, head, tail, yielded, inj, parked, hand, left>>,
         pc' = [pc EXCEPT ![w] = l], copy' = [copy EXCEPT ![w] = c],
         qlock' = qlock \/ (qlock = w /\ qlock' = NoTask),
         Ahead(w)' = Ahead(w), WorkerSound(w)'
  PROVE  DequeInv'
<1> USE DequesGiven DEF DequeInv
<1>1. DequeTyped /\ DequeTyped'
  BY DEF DequeSound, DequeTyped
<1>2. RingsMove
  BY StillRings
<1>3. \A u \in Workers \ {w} : Undisturbed(u)
  BY <1>1, OthersStill DEF DequeTyped
<1>4. TasksPlaced'
  BY <1>1, StillPlaced DEF Ahead, DequeTyped
<1> QED BY <1>1, <1>2, <1>3, <1>4, StepSound

\* What a worker starts a claim with, or is left with after one.
LEMMA NoCopyTyped == Deques!NoCopy \in CopyType /\ Deques!NoCopy.i = 0
BY DEF Deques!NoCopy, CopyType

\* The owner reads its head and the task there, or finds its ring empty.
LEMMA PopKept ==
  ASSUME DequeInv, NEW w \in Workers, Deques!Pop(w)
  PROVE  DequeInv'
<1> USE DequesGiven DEF DequeInv
<1>1. DequeTyped /\ WorkerSound(w) /\ head[w] \in Nat /\ tail[w] \in Nat
  BY DEF DequeSound, DequeTyped
<1>2. PICK c \in CopyType, l \in {"yield", "pop"} :
        /\ pc[w] = "find" /\ pc' = [pc EXCEPT ![w] = l] /\ copy' = [copy EXCEPT ![w] = c]
        /\ UNCHANGED <<buf, head, tail, yielded, inj, qlock, parked, hand, left>>
        /\ l = "pop" =>
             head[w] # tail[w] /\ c.h = head[w] /\ c.first = Deques!Slot(w, head[w])
  <2>1. CASE head[w] = tail[w]
    <3>1. copy[w] \in CopyType /\ copy = [copy EXCEPT ![w] = copy[w]]
      BY <1>1 DEF DequeTyped
    <3> QED BY <2>1, <3>1
            DEF Deques!Pop, Deques!Goto, Deques!ringVars, Deques!restVars
  <2>2. CASE head[w] # tail[w]
    <3>1. Deques!Slot(w, head[w]) \in Tasks \cup {NoTask}
      BY <1>1, SlotTyped
    <3>2. PICK d : d = [Deques!NoCopy EXCEPT !.h = head[w], !.first = Deques!Slot(w, head[w])]
      OBVIOUS
    <3>3. d = [from |-> NoTask, h |-> head[w], n |-> 0, i |-> 0, first |-> Deques!Slot(w, head[w])]
      BY <3>2 DEF Deques!NoCopy
    <3>4. d \in CopyType /\ d.h = head[w] /\ d.first = Deques!Slot(w, head[w])
      BY <1>1, <3>1, <3>3 DEF CopyType
    <3>5. /\ pc[w] = "find" /\ pc' = [pc EXCEPT ![w] = "pop"] /\ copy' = [copy EXCEPT ![w] = d]
          /\ UNCHANGED <<buf, head, tail, yielded, inj, qlock, parked, hand, left>>
      BY <2>2, <3>2 DEF Deques!Pop, Deques!Goto, Deques!ringVars, Deques!restVars
    <3> QED BY <2>2, <3>4, <3>5
  <2> QED BY <2>1, <2>2
<1>3. pc'[w] = l /\ copy'[w] = c /\ l \in Deques!PCs
  BY <1>1, <1>2 DEF DequeTyped, Deques!PCs
<1>4. Ahead(w) = 0 /\ Ahead(w)' = 0
  BY <1>2, <1>3 DEF Ahead
<1>5. RingFits(w)' /\ ShareThere(w)' /\ HandFull(w)' /\ StealTrue(w)'
  BY <1>1, <1>2, <1>3, <1>4 DEF WorkerSound, RingFits, ShareThere, HandFull, StealTrue
<1>6. PopTrue(w)'
  BY <1>1, <1>2, <1>3, <1>4 DEF WorkerSound, RingFits, PopTrue, Deques!Slot
<1> QED BY <1>2, <1>3, <1>4, <1>5, <1>6, QuietStep DEF WorkerSound

\* Steps that only go elsewhere, after a look that found nothing.
LEMMA LooksKept ==
  ASSUME DequeInv, NEW w \in Workers,
         Deques!SkipInjection(w) \/ Deques!GiveUp(w) \/ Deques!Taken(w)
  PROVE  DequeInv'
<1> USE DequesGiven DEF DequeInv
<1>1. DequeTyped /\ WorkerSound(w) /\ copy[w] \in CopyType /\ copy = [copy EXCEPT ![w] = copy[w]]
  BY DEF DequeSound, DequeTyped
<1>2. PICK l \in {"steal", "find", "run"} :
        /\ pc' = [pc EXCEPT ![w] = l] /\ pc[w] \in {"inject", "steal", "share"}
        /\ l = "run" <=> pc[w] = "share"
        /\ UNCHANGED <<buf, head, tail, yielded, inj, parked, hand, copy, left>>
        /\ IF l = "run" THEN qlock' = NoTask ELSE qlock' = qlock
  BY DEF Deques!SkipInjection, Deques!GiveUp, Deques!Taken, Deques!Goto, Deques!ringVars,
         Deques!restVars
<1>3. pc'[w] = l /\ l \in Deques!PCs
  BY <1>1, <1>2 DEF DequeTyped, Deques!PCs
<1>4. Ahead(w) = 0 /\ Ahead(w)' = 0
  BY <1>2, <1>3 DEF Ahead
<1>5. l = "run" => qlock = w
  BY <1>1, <1>2 DEF WorkerSound, ShareThere
<1>6. WorkerSound(w)'
  BY <1>1, <1>2, <1>3, <1>4
     DEF WorkerSound, RingFits, ShareThere, HandFull, PopTrue, StealTrue
<1> QED BY <1>1, <1>2, <1>3, <1>4, <1>5, <1>6, QuietStep

\* A thief reads the head of a victim.
LEMMA StealKept ==
  ASSUME DequeInv, NEW w \in Workers, NEW v \in Workers, Deques!Steal(w, v)
  PROVE  DequeInv'
<1> USE DequesGiven DEF DequeInv
<1>1. DequeTyped /\ WorkerSound(w) /\ head[v] \in Nat
  BY DEF DequeSound, DequeTyped
<1>2. PICK c \in CopyType :
        /\ pc[w] = "steal" /\ v # w /\ c.from = v /\ c.h = head[v] /\ c.i = 0
        /\ pc' = [pc EXCEPT ![w] = "tail"] /\ copy' = [copy EXCEPT ![w] = c]
        /\ UNCHANGED <<buf, head, tail, yielded, inj, qlock, parked, hand, left>>
  <2>1. PICK c : c = [Deques!NoCopy EXCEPT !.from = v, !.h = head[v]]
    OBVIOUS
  <2>2. c = [from |-> v, h |-> head[v], n |-> 0, i |-> 0, first |-> NoTask]
    BY <2>1 DEF Deques!NoCopy
  <2>3. c \in CopyType /\ c.from = v /\ c.h = head[v] /\ c.i = 0
    BY <1>1, <2>2 DEF CopyType
  <2> QED BY <2>1, <2>3 DEF Deques!Steal, Deques!Goto, Deques!ringVars, Deques!restVars
<1>3. pc'[w] = "tail" /\ copy'[w] = c /\ "tail" \in Deques!PCs
  BY <1>1, <1>2 DEF DequeTyped, Deques!PCs
<1>4. Ahead(w) = 0 /\ Ahead(w)' = 0
  BY <1>2, <1>3 DEF Ahead
<1>5. WorkerSound(w)'
  BY <1>1, <1>2, <1>3, <1>4
     DEF WorkerSound, RingFits, ShareThere, HandFull, PopTrue, StealTrue
<1> QED BY <1>2, <1>3, <1>4, <1>5, QuietStep

\* What a thief decides to copy is there, and its own ring has room.
LEMMA StealTailKept ==
  ASSUME DequeInv, NEW w \in Workers, Deques!StealTail(w)
  PROVE  DequeInv'
<1> USE DequesGiven DEF DequeInv
<1>1. PICK c \in CopyType : c = copy[w] /\ c.h \in Nat
  BY DEF DequeSound, DequeTyped, CopyType
<1> DEFINE v == c.from
           n == Deques!Takes(w, tail[v] - c.h)
<1>2. /\ DequeTyped /\ WorkerSound(w) /\ WorkerSound(v) /\ pc[w] = "tail"
      /\ v \in Workers \ {w} /\ c.h <= head[v] /\ c.i = 0
      /\ head[v] \in Nat /\ tail[v] \in Nat /\ head[w] \in Nat /\ tail[w] \in Nat
  <2>1. pc[w] = "tail"
    BY DEF Deques!StealTail
  <2>2. DequeTyped /\ WorkerSound(w)
    BY DEF DequeSound
  <2>3. v \in Workers \ {w} /\ c.h <= head[v] /\ c.i = 0
    BY <1>1, <2>1, <2>2 DEF WorkerSound, StealTrue
  <2>4. WorkerSound(v)
    BY <2>3 DEF DequeSound
  <2> QED BY <2>1, <2>2, <2>3, <2>4 DEF DequeTyped
<1>3. head[v] <= tail[v] /\ head[w] <= tail[w] /\ tail[w] <= head[w] + Cap
  BY <1>2 DEF WorkerSound, RingFits, Ahead
<1>4. ASSUME tail[v] # c.h
      PROVE  n \in Nat \ {0} /\ c.h + n <= tail[v] /\ tail[w] + n <= head[w] + Cap + 1
  <2>1. PICK a \in Nat \ {0} : a = tail[v] - c.h
    BY <1>1, <1>2, <1>3, <1>4
  <2>2. a - a \div 2 \in 1 .. a
    OBVIOUS
  <2> QED BY <1>1, <1>2, <1>3, <2>1, <2>2 DEF Deques!Takes, Deques!AtMost
<1> HIDE DEF n
<1>5. PICK d \in CopyType, l \in {"steal", "copy"} :
        /\ pc' = [pc EXCEPT ![w] = l] /\ copy' = [copy EXCEPT ![w] = d]
        /\ UNCHANGED <<buf, head, tail, yielded, inj, qlock, parked, hand, left>>
        /\ l = "copy" => /\ tail[v] # c.h /\ d.from = v /\ d.h = c.h /\ d.n = n
                         /\ d.i = c.i
  <2>1. CASE tail[v] = c.h \/ n = 0
    BY <1>1, <2>1, NoCopyTyped
       DEF Deques!StealTail, Deques!Goto, Deques!ringVars, Deques!restVars, n
  <2>2. CASE tail[v] # c.h /\ n # 0
    <3>1. [c EXCEPT !.n = n] \in CopyType
      BY <1>4, <2>2 DEF CopyType
    <3>2. /\ copy' = [copy EXCEPT ![w] = [c EXCEPT !.n = n]]
          /\ pc' = [pc EXCEPT ![w] = "copy"]
          /\ UNCHANGED <<buf, head, tail, yielded, inj, qlock, parked, hand, left>>
      BY <1>1, <2>2 DEF Deques!StealTail, Deques!Goto, Deques!ringVars, Deques!restVars, n
    <3> QED BY <2>2, <3>1, <3>2 DEF CopyType
  <2> QED BY <2>1, <2>2
<1>6. pc'[w] = l /\ copy'[w] = d /\ l \in Deques!PCs
  BY <1>2, <1>5 DEF DequeTyped, Deques!PCs
<1>7. Ahead(w) = 0 /\ Ahead(w)' = 0
  BY <1>2, <1>6 DEF Ahead
<1>8. RingFits(w)' /\ ShareThere(w)' /\ HandFull(w)' /\ PopTrue(w)'
  BY <1>2, <1>5, <1>6, <1>7 DEF WorkerSound, RingFits, ShareThere, HandFull, PopTrue
<1>9. StealTrue(w)'
  BY <1>2, <1>4, <1>5, <1>6 DEF StealTrue
<1> QED BY <1>5, <1>6, <1>7, <1>8, <1>9, QuietStep DEF WorkerSound

\* A worker publishes what it put past its tail.
LEMMA PublishStep ==
  ASSUME DequeInv, NEW w \in Workers, NEW l \in {"run", "share"}, NEW c \in CopyType, NEW m \in Nat,
         pc[w] \in {"pushed", "shared", "publish"}, l = "share" <=> pc[w] = "shared",
         UNCHANGED <<buf, head, yielded, inj, qlock, parked, hand>>,
         tail' = [tail EXCEPT ![w] = @ + Ahead(w)],
         pc' = [pc EXCEPT ![w] = l], copy' = [copy EXCEPT ![w] = c], left' = [left EXCEPT ![w] = m],
         l = "share" => m <= Len(inj)
  PROVE  DequeInv'
<1> USE DequesGiven DEF DequeInv
<1>1. /\ DequeTyped /\ WorkerSound(w) /\ head[w] \in Nat /\ tail[w] \in Nat /\ Ahead(w) \in Nat
      /\ head[w] <= tail[w] /\ tail[w] + Ahead(w) <= head[w] + Cap
  BY DEF DequeSound, DequeTyped, WorkerSound, RingFits
<1>2. /\ pc'[w] = l /\ copy'[w] = c /\ left'[w] = m /\ l \in Deques!PCs
      /\ tail'[w] = tail[w] + Ahead(w)
  BY <1>1 DEF DequeTyped, Deques!PCs
<1>3. Ahead(w)' = 0 /\ \A u \in Workers \ {w} : Ahead(u)' = Ahead(u) /\ tail'[u] = tail[u]
  BY <1>1, <1>2 DEF Ahead, DequeTyped
<1>4. DequeTyped'
  <2>1. tail' \in [Workers -> Nat]
    <3>1. tail \in [Workers -> Nat] /\ tail[w] + Ahead(w) \in Nat
      BY SMTT(30), <1>1 DEF DequeTyped
    <3> QED BY <3>1
  <2>2. /\ pc' \in [Workers -> Deques!PCs] /\ copy' \in [Workers -> CopyType]
        /\ left' \in [Workers -> Nat]
    BY <1>1, <1>2 DEF DequeTyped
  <2> QED BY <1>1, <2>1, <2>2 DEF DequeTyped
<1>5. RingsMove
  <2>1. \A v \in Workers : head[v] \in Nat /\ tail[v] \in Nat /\ head[v] <= tail[v]
    BY DEF DequeSound, DequeTyped, WorkerSound, RingFits
  <2>2. \A v \in Workers : \A i : Deques!Slot(v, i)' = Deques!Slot(v, i)
    BY DEF Deques!Slot
  <2>3. \A v \in Workers : tail'[v] \in Nat /\ tail[v] <= tail'[v]
    BY <1>1, <1>2, <1>3, <2>1
  <2> QED BY <2>1, <2>2, <2>3 DEF RingsMove
<1>6. \A u \in Workers \ {w} : Undisturbed(u)
  BY <1>1, <1>3, OthersStill DEF DequeTyped
<1>7. WorkerSound(w)'
  <2>1. RingFits(w)'
    BY <1>1, <1>2, <1>3 DEF RingFits
  <2>2. ShareThere(w)' /\ HandFull(w)' /\ PopTrue(w)' /\ StealTrue(w)'
    BY <1>1, <1>2 DEF WorkerSound, ShareThere, HandFull, PopTrue, StealTrue
  <2> QED BY <2>1, <2>2 DEF WorkerSound
<1>8. TasksPlaced'
  <2>1. \A v \in Workers : Deques!Held(v) = head[v] .. tail[v] - 1 + Ahead(v)
    BY DEF Deques!Held, Ahead
  <2>2. \A v \in Workers : Deques!Held(v)' = head[v] .. tail'[v] - 1 + Ahead(v)'
    BY DEF Deques!Held, Ahead
  <2>3. \A v \in Workers : Deques!Held(v)' = Deques!Held(v)
    BY <1>1, <1>2, <1>3, <2>1, <2>2
  <2>4. \A v \in Workers : \A i : Deques!Slot(v, i)' = Deques!Slot(v, i)
    BY DEF Deques!Slot
  <2>5. Ringed' = Ringed /\ RingsOnce'
    BY <2>3, <2>4, RingsSame DEF TasksPlaced
  <2> QED BY <2>5, StillQueued DEF TasksPlaced, OneKind
<1> QED BY <1>4, <1>5, <1>6, <1>7, <1>8, StepSound

\* A push ends, of a task or of one of the share, and so does a steal.
LEMMA PublishKept ==
  ASSUME DequeInv, NEW w \in Workers,
         Deques!Enqueued(w) \/ Deques!Shared(w) \/ Deques!StealPublish(w)
  PROVE  DequeInv'
<1> USE DequesGiven DEF DequeInv
<1>1. /\ DequeTyped /\ WorkerSound(w) /\ copy[w] \in CopyType /\ left[w] \in Nat
      /\ tail[w] \in Nat /\ copy[w].n \in Nat
      /\ copy = [copy EXCEPT ![w] = copy[w]] /\ left = [left EXCEPT ![w] = left[w]]
  BY DEF DequeSound, DequeTyped, CopyType
<1>2. CASE Deques!Enqueued(w)
  <2>1. /\ pc[w] = "pushed"
        /\ UNCHANGED <<buf, head, yielded, inj, qlock, parked, hand, copy, left>>
        /\ tail' = [tail EXCEPT ![w] = @ + Ahead(w)] /\ pc' = [pc EXCEPT ![w] = "run"]
    BY <1>2 DEF Deques!Enqueued, Deques!Publish, Deques!Goto, Deques!restVars, Ahead
  <2> QED BY <1>1, <2>1, PublishStep
<1>3. CASE Deques!Shared(w)
  <2>1. /\ pc[w] = "shared" /\ UNCHANGED <<buf, head, yielded, inj, qlock, parked, hand, copy>>
        /\ tail' = [tail EXCEPT ![w] = @ + Ahead(w)] /\ pc' = [pc EXCEPT ![w] = "share"]
        /\ left' = [left EXCEPT ![w] = left[w] - 1]
    BY <1>3 DEF Deques!Shared, Deques!Publish, Deques!Goto, Deques!restVars, Ahead
  <2>2. Len(inj) \in Nat
    BY <1>1, LenProperties DEF DequeTyped
  <2>3. left[w] - 1 \in Nat /\ left[w] - 1 <= Len(inj)
    BY <1>1, <2>1, <2>2 DEF WorkerSound, ShareThere
  <2> QED BY <1>1, <2>1, <2>3, PublishStep
<1>4. CASE Deques!StealPublish(w)
  <2>1. pc[w] = "publish" /\ Ahead(w) = copy[w].n - 1
    BY <1>4 DEF Deques!StealPublish, Ahead
  <2>2. tail[w] + copy[w].n - 1 = tail[w] + Ahead(w)
    BY <1>1, <2>1
  <2>3. /\ UNCHANGED <<buf, head, yielded, inj, qlock, parked, hand, left>>
        /\ tail' = [tail EXCEPT ![w] = @ + Ahead(w)] /\ pc' = [pc EXCEPT ![w] = "run"]
        /\ copy' = [copy EXCEPT ![w] = Deques!NoCopy]
    BY <1>4, <2>2 DEF Deques!StealPublish, Deques!Goto, Deques!restVars
  <2> QED BY <1>1, <2>1, <2>3, NoCopyTyped, PublishStep
<1> QED BY <1>2, <1>3, <1>4

-----------------------------------------------------------------------------
(* Steps that put a task into a ring or into the injection queue *)

\* A worker puts a task, its own to make runnable or one of its share, past its tail.
LEMMA StoreStep ==
  ASSUME DequeInv, NEW w \in Workers, NEW x \in Tasks, NEW l \in {"pushed", "shared"},
         IF l = "shared" THEN pc[w] = "share" ELSE pc[w] = "run",
         ~Deques!Full(w), Deques!Store(w, tail[w], x), x \notin Ringed,
         UNCHANGED <<head, tail, yielded, qlock, hand, copy, left>>,
         pc' = [pc EXCEPT ![w] = l],
         parked' \in SUBSET Tasks, inj' \in Seq(Tasks), Once(inj'),
         IF l = "shared" THEN left[w] > 0 /\ Len(inj') = Len(inj) - 1 ELSE inj' = inj,
         OneKind(Ringed \cup {x}, Yielded, Elements(inj'), InHand, parked')
  PROVE  DequeInv'
<1> USE DequesGiven DEF DequeInv
<1>1. /\ DequeTyped /\ WorkerSound(w) /\ left[w] \in Nat
      /\ \A v \in Workers : head[v] \in Nat /\ tail[v] \in Nat /\ head[v] <= tail[v]
  BY DEF DequeSound, DequeTyped, WorkerSound, RingFits
<1>2. tail[w] < head[w] + Cap
  BY <1>1 DEF Deques!Full
<1>3. /\ pc'[w] = l /\ l \in Deques!PCs
      /\ \A u \in Workers \ {w} : pc'[u] = pc[u] /\ buf'[u] = buf[u]
  BY <1>1 DEF DequeTyped, Deques!PCs, Deques!Store
<1>4. /\ buf' \in [Workers -> [0 .. Cap - 1 -> Tasks \cup {NoTask}]]
      /\ Deques!Slot(w, tail[w])' = x
      /\ \A v \in Workers \ {w} : \A i : Deques!Slot(v, i)' = Deques!Slot(v, i)
      /\ \A i \in Nat : i < tail[w] /\ tail[w] < i + Cap =>
           Deques!Slot(w, i)' = Deques!Slot(w, i)
  BY <1>1, StoreReads
<1>5. \A v \in Workers : \A i \in head[v] .. tail[v] - 1 : Deques!Slot(v, i)' = Deques!Slot(v, i)
  <2>1. \A i \in head[w] .. tail[w] - 1 : i \in Nat /\ i < tail[w] /\ tail[w] < i + Cap
    BY <1>1, <1>2
  <2>2. \A i \in head[w] .. tail[w] - 1 : Deques!Slot(w, i)' = Deques!Slot(w, i)
    BY <1>4, <2>1
  <2> QED BY <1>4, <2>2
<1>6. Ahead(w) = 0 /\ Ahead(w)' = 1 /\ \A u \in Workers \ {w} : Ahead(u)' = Ahead(u)
  BY <1>3 DEF Ahead
<1>7. DequeTyped'
  BY <1>1, <1>3, <1>4 DEF DequeTyped
<1>8. RingsMove
  BY <1>1, <1>5 DEF RingsMove
<1>9. \A u \in Workers \ {w} : Undisturbed(u)
  <2>1. (qlock' = qlock /\ inj' = inj) \/ qlock = w
    BY <1>1 DEF WorkerSound, ShareThere
  <2> QED BY <1>3, <2>1, OthersStill
<1>10. WorkerSound(w)'
  <2>1. RingFits(w)'
    BY <1>1, <1>2, <1>6 DEF RingFits
  <2>2. ShareThere(w)'
    <3>1. Len(inj) \in Nat /\ Len(inj') \in Nat
      BY <1>1, LenProperties DEF DequeTyped
    <3> QED BY <1>1, <1>3, <3>1 DEF WorkerSound, ShareThere
  <2>3. HandFull(w)' /\ PopTrue(w)' /\ StealTrue(w)'
    BY <1>1, <1>3 DEF WorkerSound, HandFull, PopTrue, StealTrue
  <2> QED BY <2>1, <2>2, <2>3 DEF WorkerSound
<1>11. TasksPlaced'
  <2>1. \A v \in Workers : Deques!Held(v) = head[v] .. tail[v] - 1 + Ahead(v)
    BY DEF Deques!Held, Ahead
  <2>2. \A v \in Workers : Deques!Held(v)' = head[v] .. tail[v] - 1 + Ahead(v)'
    BY DEF Deques!Held, Ahead
  <2>3. Deques!Held(w)' = Deques!Held(w) \cup {tail[w]} /\ tail[w] \notin Deques!Held(w)
    BY <1>1, <1>6, <2>1, <2>2
  <2>4. \A v \in Workers \ {w} : Deques!Held(v)' = Deques!Held(v)
    BY <1>6, <2>1, <2>2
  <2>5. \A v \in Workers : \A i \in Deques!Held(v) : Deques!Slot(v, i)' = Deques!Slot(v, i)
    <3>1. Deques!Held(w) = head[w] .. tail[w] - 1
      BY <1>1, <1>6, <2>1
    <3>2. \A i \in Deques!Held(w) : Deques!Slot(w, i)' = Deques!Slot(w, i)
      BY <1>5, <3>1
    <3> QED BY <1>4, <3>2
  <2>6. Ringed' = Ringed \cup {x} /\ RingsOnce'
    BY <1>4, <2>3, <2>4, <2>5, RingGains DEF TasksPlaced
  <2>7. Yielded' = Yielded /\ YieldsOnce' /\ InHand' = InHand /\ HandsOnce'
    BY StillQueued DEF TasksPlaced
  <2>8. Injected' = Elements(inj') /\ Once(inj)' = Once(inj')
    BY DEF Injected, Elements, Once
  <2>9. OneKind(Ringed, Yielded, Injected, InHand, parked)'
    BY <2>6, <2>7, <2>8 DEF OneKind
  <2> QED BY <2>6, <2>7, <2>8, <2>9 DEF TasksPlaced
<1> QED BY <1>7, <1>8, <1>9, <1>10, <1>11, StepSound

\* A task that goes to the end of the injection queue, from parked or from the hand of w.
LEMMA QueueStep ==
  ASSUME DequeInv, NEW w \in Workers, NEW x \in Tasks, x \notin Injected, qlock = NoTask,
         inj' = Append(inj, x), UNCHANGED <<buf, head, tail, yielded, qlock, copy, left>>,
         parked' \in SUBSET Tasks, hand' \in [Workers -> Tasks \cup {NoTask}], HandsOnce',
         \/ hand' = hand /\ pc' = pc
         \/ /\ pc[w] = "run" /\ pc' = [pc EXCEPT ![w] = "find"]
            /\ hand' = [hand EXCEPT ![w] = NoTask],
         OneKind(Ringed, Yielded, Injected \cup {x}, InHand', parked')
  PROVE  DequeInv'
<1> USE DequesGiven DEF DequeInv
<1>1. DequeTyped /\ (\A u \in Workers : WorkerSound(u)) /\ inj \in Seq(Tasks)
  BY DEF DequeSound, DequeTyped
<1>2. /\ inj' \in Seq(Tasks) /\ Len(inj') = Len(inj) + 1 /\ Elements(inj') = Injected \cup {x}
      /\ Once(inj')
  BY <1>1, QueueGains DEF TasksPlaced, Injected
<1>3. /\ \A u \in Workers \ {w} : pc'[u] = pc[u] /\ hand'[u] = hand[u]
      /\ \A u \in Workers : Ahead(u)' = Ahead(u)
      /\ pc' \in [Workers -> Deques!PCs]
  BY <1>1 DEF DequeTyped, Deques!PCs, Ahead
<1>4. DequeTyped'
  BY <1>1, <1>2, <1>3 DEF DequeTyped
<1>5. RingsMove
  BY StillRings
<1>6. \A u \in Workers \ {w} : Undisturbed(u)
  BY <1>3, OthersStill
<1>7. WorkerSound(w)'
  <2>1. RingFits(w)'
    BY <1>1, <1>3 DEF WorkerSound, RingFits
  <2>2. CASE hand' = hand /\ pc' = pc
    <3>1. pc[w] \notin {"share", "shared"}
      BY <1>1 DEF WorkerSound, ShareThere
    <3>2. ShareThere(w)' /\ HandFull(w)'
      BY <1>1, <2>2, <3>1 DEF WorkerSound, ShareThere, HandFull
    <3>3. PopTrue(w)' /\ StealTrue(w)'
      BY <1>1, <2>2 DEF WorkerSound, PopTrue, StealTrue, Deques!Slot
    <3> QED BY <2>1, <3>2, <3>3 DEF WorkerSound
  <2>3. CASE pc'[w] = "find" /\ hand'[w] = NoTask
    BY <2>1, <2>3 DEF WorkerSound, ShareThere, HandFull, PopTrue, StealTrue
  <2> QED BY <1>1, <2>2, <2>3 DEF DequeTyped
<1>8. TasksPlaced'
  <2>1. Ringed' = Ringed /\ RingsOnce'
    BY <1>3, StillHeld DEF TasksPlaced
  <2>2. Yielded' = Yielded /\ YieldsOnce'
    BY StillQueued DEF TasksPlaced
  <2>3. Injected' = Injected \cup {x} /\ Once(inj)' = Once(inj')
    BY <1>2 DEF Injected, Elements, Once
  <2>4. OneKind(Ringed, Yielded, Injected, InHand, parked)'
    BY <2>1, <2>2, <2>3 DEF OneKind
  <2> QED BY <1>2, <2>1, <2>2, <2>3, <2>4 DEF TasksPlaced
<1> QED BY <1>4, <1>5, <1>6, <1>7, <1>8, StepSound

\* A thread outside the pool makes a task runnable.  (There is a worker: some w is needed.)
LEMMA InjectKept ==
  ASSUME DequeInv, NEW x \in Tasks, Deques!Inject(x), NEW w \in Workers
  PROVE  DequeInv'
<1>1. /\ x \in parked /\ qlock = NoTask /\ parked' = parked \ {x} /\ inj' = Append(inj, x)
      /\ UNCHANGED <<buf, head, tail, yielded, qlock, hand, copy, left, pc>>
  BY DEF Deques!Inject, Deques!ringVars
<1>2. hand \in [Workers -> Tasks \cup {NoTask}] /\ parked \in SUBSET Tasks
  BY DEF DequeInv, DequeSound, DequeTyped
<1>3. x \notin Injected /\ OneKind(Ringed, Yielded, Injected \cup {x}, InHand, parked')
  BY <1>1 DEF DequeInv, TasksPlaced, OneKind
<1>4. HandsOnce' /\ InHand' = InHand
  BY <1>1, StillQueued DEF DequeInv, TasksPlaced
<1> QED BY <1>1, <1>2, <1>3, <1>4, QueueStep

\* A worker makes a task runnable: onto its ring, or into the queue when that is full.
LEMMA EnqueueKept ==
  ASSUME DequeInv, NEW w \in Workers, NEW x \in Tasks, Deques!Enqueue(w, x)
  PROVE  DequeInv'
<1> USE DequesGiven DEF DequeInv
<1>1. /\ DequeTyped /\ hand \in [Workers -> Tasks \cup {NoTask}] /\ parked \in SUBSET Tasks
      /\ inj \in Seq(Tasks)
  BY DEF DequeSound, DequeTyped
<1>2. /\ pc[w] = "run" /\ x \in parked /\ parked' = parked \ {x}
      /\ UNCHANGED <<head, tail, yielded, qlock, hand, copy, left>>
  BY DEF Deques!Enqueue
<1>3. CASE Deques!Full(w)
  <2>1. /\ qlock = NoTask /\ inj' = Append(inj, x) /\ UNCHANGED <<buf, pc>>
    BY <1>3 DEF Deques!Enqueue
  <2>2. x \notin Injected /\ OneKind(Ringed, Yielded, Injected \cup {x}, InHand, parked')
    BY <1>2 DEF TasksPlaced, OneKind
  <2>3. HandsOnce' /\ InHand' = InHand
    BY <1>2, StillQueued DEF TasksPlaced
  <2> QED BY <1>1, <1>2, <2>1, <2>2, <2>3, QueueStep
<1>4. CASE ~Deques!Full(w)
  <2>1. /\ Deques!Store(w, tail[w], x) /\ pc' = [pc EXCEPT ![w] = "pushed"] /\ inj' = inj
    BY <1>4 DEF Deques!Enqueue, Deques!Goto
  <2>2. x \notin Ringed /\ OneKind(Ringed \cup {x}, Yielded, Elements(inj'), InHand, parked')
    BY <1>2, <2>1 DEF TasksPlaced, OneKind, Injected
  <2>3. Once(inj')
    BY <2>1 DEF TasksPlaced
  <2> QED BY <1>1, <1>2, <1>4, <2>1, <2>2, <2>3, StoreStep
<1> QED BY <1>3, <1>4

-----------------------------------------------------------------------------
(* Steps that fill or empty a hand *)

\* A worker's task gives the worker back, and is on no ring.
LEMMA ReturnStep ==
  ASSUME DequeInv, NEW w \in Workers, pc[w] = "run", pc' = [pc EXCEPT ![w] = "find"],
         hand' = [hand EXCEPT ![w] = NoTask], UNCHANGED <<buf, head, tail, inj, qlock, copy, left>>,
         yielded' \in [Workers -> Seq(Tasks)], YieldsOnce', parked' \in SUBSET Tasks,
         OneKind(Ringed, Yielded', Injected, InHand \ {hand[w]}, parked')
  PROVE  DequeInv'
<1> USE DequesGiven DEF DequeInv
<1>1. DequeTyped /\ WorkerSound(w) /\ hand[w] # NoTask
  BY DEF DequeSound, WorkerSound, HandFull
<1>2. /\ \A u \in Workers \ {w} : pc'[u] = pc[u] /\ hand'[u] = hand[u]
      /\ \A u \in Workers : Ahead(u)' = Ahead(u)
      /\ pc' \in [Workers -> Deques!PCs] /\ pc'[w] = "find" /\ hand'[w] = NoTask
  BY <1>1 DEF DequeTyped, Deques!PCs, Ahead
<1>3. hand' \in [Workers -> Tasks \cup {NoTask}] /\ InHand' = InHand \ {hand[w]} /\ HandsOnce'
  BY <1>1, HandLoses DEF TasksPlaced
<1>4. DequeTyped'
  BY <1>1, <1>2, <1>3 DEF DequeTyped
<1>5. RingsMove
  BY StillRings
<1>6. \A u \in Workers \ {w} : Undisturbed(u)
  BY <1>2, OthersStill
<1>7. WorkerSound(w)'
  BY <1>1, <1>2
     DEF WorkerSound, RingFits, ShareThere, HandFull, PopTrue, StealTrue
<1>8. TasksPlaced'
  <2>1. Ringed' = Ringed /\ RingsOnce'
    BY <1>2, StillHeld DEF TasksPlaced
  <2>2. Injected' = Injected /\ Once(inj)'
    BY StillQueued DEF TasksPlaced
  <2>3. OneKind(Ringed, Yielded, Injected, InHand, parked)'
    BY <1>3, <2>1, <2>2 DEF OneKind
  <2> QED BY <1>3, <2>1, <2>2, <2>3 DEF TasksPlaced
<1> QED BY <1>4, <1>5, <1>6, <1>7, <1>8, StepSound

\* A task parks, or yields: to the worker's own queue, or to the other one when that is long.
LEMMA ReturnKept ==
  ASSUME DequeInv, NEW w \in Workers, Deques!Parks(w) \/ Deques!Yields(w)
  PROVE  DequeInv'
<1> USE DequesGiven DEF DequeInv
<1>1. /\ pc[w] = "run" /\ pc' = [pc EXCEPT ![w] = "find"] /\ hand' = [hand EXCEPT ![w] = NoTask]
      /\ UNCHANGED <<buf, head, tail, qlock, copy, left>>
  BY DEF Deques!Parks, Deques!Yields, Deques!Goto, Deques!ringVars
<1>2. PICK x : x = hand[w]
  OBVIOUS
<1>3. /\ DequeTyped /\ hand \in [Workers -> Tasks \cup {NoTask}] /\ parked \in SUBSET Tasks
      /\ x # NoTask /\ yielded \in [Workers -> Seq(Tasks)]
  BY <1>1, <1>2 DEF DequeSound, DequeTyped, WorkerSound, HandFull
<1>4. /\ hand' \in [Workers -> Tasks \cup {NoTask}] /\ x \in Tasks /\ x \in InHand
      /\ InHand' = InHand \ {x} /\ HandsOnce'
  BY <1>1, <1>2, <1>3, HandLoses DEF TasksPlaced
<1>5. /\ x \notin Ringed /\ x \notin Yielded /\ x \notin Injected
      /\ OneKind(Ringed, Yielded, Injected, InHand, parked)
  BY <1>4 DEF TasksPlaced, OneKind
<1>6. CASE Deques!Parks(w)
  <2>1. UNCHANGED <<yielded, inj>> /\ parked' = parked \cup {x}
    BY <1>2, <1>6 DEF Deques!Parks
  <2>2. YieldsOnce' /\ Yielded' = Yielded
    BY <2>1, StillQueued DEF TasksPlaced
  <2>3. OneKind(Ringed, Yielded', Injected, InHand \ {x}, parked')
    BY <1>4, <1>5, <2>1, <2>2 DEF OneKind
  <2> QED BY <1>1, <1>2, <1>3, <1>4, <2>1, <2>2, <2>3, ReturnStep
<1>7. CASE Deques!Yields(w) /\ Len(yielded[w]) < YMax
  <2>1. yielded' = [yielded EXCEPT ![w] = Append(@, x)] /\ UNCHANGED <<inj, parked>>
    BY <1>2, <1>7 DEF Deques!Yields
  <2>2. yielded' \in [Workers -> Seq(Tasks)] /\ YieldsOnce' /\ Yielded' = Yielded \cup {x}
    BY <1>3, <1>4, <1>5, <2>1, YieldGained DEF TasksPlaced
  <2>3. OneKind(Ringed, Yielded', Injected, InHand \ {x}, parked')
    BY <1>4, <1>5, <2>1, <2>2 DEF OneKind
  <2> QED BY <1>1, <1>2, <1>3, <2>1, <2>2, <2>3, ReturnStep
<1>8. CASE Deques!Yields(w) /\ ~(Len(yielded[w]) < YMax)
  <2>1. qlock = NoTask /\ inj' = Append(inj, x) /\ UNCHANGED <<yielded, parked>>
    BY <1>2, <1>8 DEF Deques!Yields
  <2>2. OneKind(Ringed, Yielded, Injected \cup {x}, InHand', parked')
    BY <1>4, <1>5, <2>1 DEF OneKind
  <2> QED BY <1>1, <1>3, <1>4, <1>5, <2>1, <2>2, QueueStep
<1> QED BY <1>6, <1>7, <1>8

\* A worker gets a task from its ring or from its yield queue.
LEMMA GetStep ==
  ASSUME DequeInv, NEW w \in Workers, NEW x \in Tasks, NEW c \in CopyType, NEW h \in Nat,
         pc[w] \in {"pop", "find", "yield"}, pc' = [pc EXCEPT ![w] = "run"],
         hand' = [hand EXCEPT ![w] = x], UNCHANGED <<buf, tail, inj, qlock, parked, left>>,
         copy' = [copy EXCEPT ![w] = c], head' = [head EXCEPT ![w] = h],
         head[w] <= h, h <= tail[w], RingsOnce',
         yielded' \in [Workers -> Seq(Tasks)], YieldsOnce', x \notin InHand,
         OneKind(Ringed', Yielded', Injected, InHand \cup {x}, parked)
  PROVE  DequeInv'
<1> USE DequesGiven DEF DequeInv
<1>1. /\ DequeTyped /\ WorkerSound(w) /\ hand[w] = NoTask
      /\ \A v \in Workers : head[v] \in Nat /\ tail[v] \in Nat /\ head[v] <= tail[v]
  BY DEF DequeSound, DequeTyped, WorkerSound, HandFull, RingFits
<1>2. /\ \A u \in Workers \ {w} : pc'[u] = pc[u] /\ hand'[u] = hand[u] /\ copy'[u] = copy[u]
      /\ Ahead(w) = 0 /\ Ahead(w)' = 0
      /\ pc' \in [Workers -> Deques!PCs] /\ pc'[w] = "run" /\ hand'[w] = x
      /\ head'[w] = h /\ \A v \in Workers \ {w} : head'[v] = head[v]
  BY <1>1 DEF DequeTyped, Deques!PCs, Ahead
<1>3. hand' \in [Workers -> Tasks \cup {NoTask}] /\ InHand' = InHand \cup {x} /\ HandsOnce'
  BY <1>1, HandGains DEF TasksPlaced
<1>4. DequeTyped'
  BY <1>1, <1>2, <1>3 DEF DequeTyped
<1>5. RingsMove
  <2>1. \A v \in Workers : \A i : Deques!Slot(v, i)' = Deques!Slot(v, i)
    BY DEF Deques!Slot
  <2>2. \A v \in Workers : head'[v] \in Nat /\ head[v] <= head'[v] /\ head'[v] <= tail[v]
    BY <1>1, <1>2
  <2> QED BY <1>1, <2>1, <2>2 DEF RingsMove
<1>6. \A u \in Workers \ {w} : Undisturbed(u)
  BY <1>2, OthersStill
<1>7. WorkerSound(w)'
  <2>1. RingFits(w)'
    BY <1>1, <1>2 DEF WorkerSound, RingFits
  <2>2. ShareThere(w)' /\ HandFull(w)' /\ PopTrue(w)' /\ StealTrue(w)'
    BY <1>2 DEF ShareThere, HandFull, PopTrue, StealTrue
  <2> QED BY <2>1, <2>2 DEF WorkerSound
<1>8. TasksPlaced'
  <2>1. Injected' = Injected /\ Once(inj)'
    BY StillQueued DEF TasksPlaced
  <2>2. OneKind(Ringed, Yielded, Injected, InHand, parked)'
    BY <1>3, <2>1 DEF OneKind
  <2> QED BY <1>3, <2>1, <2>2 DEF TasksPlaced
<1> QED BY <1>4, <1>5, <1>6, <1>7, <1>8, StepSound

\* The owner takes the task at its head, or finds that a thief did.
LEMMA PopClaimKept ==
  ASSUME DequeInv, NEW w \in Workers, Deques!PopClaim(w)
  PROVE  DequeInv'
<1> USE DequesGiven DEF DequeInv
<1>1. /\ DequeTyped /\ WorkerSound(w) /\ hand[w] = NoTask /\ pc[w] = "pop"
      /\ UNCHANGED <<buf, tail, yielded, inj, qlock, parked, left>>
      /\ copy' = [copy EXCEPT ![w] = Deques!NoCopy]
  BY DEF DequeSound, WorkerSound, HandFull, Deques!PopClaim, Deques!restVars
<1>2. PICK h \in Nat, t \in Nat : h = head[w] /\ t = tail[w]
  BY <1>1 DEF DequeTyped
<1>3. Ahead(w) = 0 /\ h <= t
  BY <1>1, <1>2 DEF WorkerSound, RingFits, Ahead
<1>4. CASE copy[w].h = head[w]
  <2>1. h < t /\ copy[w].first = Deques!Slot(w, h)
    BY <1>1, <1>2, <1>4 DEF WorkerSound, PopTrue
  <2>2. PICK x : x = Deques!Slot(w, h)
    OBVIOUS
  <2>3. /\ head' = [head EXCEPT ![w] = h + 1] /\ hand' = [hand EXCEPT ![w] = x]
        /\ pc' = [pc EXCEPT ![w] = "run"]
    BY <1>2, <1>4, <2>1, <2>2
       DEF Deques!PopClaim, Deques!Claimed, Deques!Gets, Deques!Goto
  <2>4. \A v \in Workers : Deques!Held(v) = head[v] .. tail[v] - 1 + Ahead(v)
    BY DEF Deques!Held, Ahead
  <2>5. \A v \in Workers : Deques!Held(v)' = head'[v] .. tail[v] - 1 + Ahead(v)'
    BY <1>1 DEF Deques!Held, Ahead
  <2>6. /\ Ahead(w)' = 0 /\ head'[w] = h + 1
        /\ \A v \in Workers \ {w} : Ahead(v)' = Ahead(v) /\ head'[v] = head[v]
    BY <1>1, <2>3 DEF Ahead, DequeTyped
  <2>7. Deques!Held(w) = h .. t - 1 /\ Deques!Held(w)' = h + 1 .. t - 1
    BY <1>2, <1>3, <2>4, <2>5, <2>6
  <2>8. h \in Deques!Held(w) /\ Deques!Held(w)' = Deques!Held(w) \ {h}
    BY <2>1, <2>7
  <2>9. \A v \in Workers \ {w} : Deques!Held(v)' = Deques!Held(v)
    BY <2>4, <2>5, <2>6
  <2>10. \A v \in Workers : \A i : Deques!Slot(v, i)' = Deques!Slot(v, i)
    BY <1>1 DEF Deques!Slot
  <2>11. x \in Tasks /\ x \in Ringed /\ Ringed' = Ringed \ {x} /\ RingsOnce'
    BY <2>2, <2>8, <2>9, <2>10, RingLoses DEF TasksPlaced
  <2>12. yielded' \in [Workers -> Seq(Tasks)] /\ Yielded' = Yielded /\ YieldsOnce'
    BY <1>1, StillQueued DEF TasksPlaced, DequeTyped
  <2>13. x \notin InHand /\ OneKind(Ringed', Yielded', Injected, InHand \cup {x}, parked)
    BY <2>11, <2>12 DEF TasksPlaced, OneKind
  <2>14. h + 1 \in Nat /\ h <= h + 1 /\ h + 1 <= t
    BY <2>1
  <2> QED BY <1>1, <1>2, <2>3, <2>11, <2>12, <2>13, <2>14, NoCopyTyped, GetStep
<1>5. CASE copy[w].h # head[w]
  <2>1. PICK l \in {"find", "yield"} : pc' = [pc EXCEPT ![w] = l] /\ UNCHANGED <<head, hand>>
    BY <1>5 DEF Deques!PopClaim, Deques!Claimed, Deques!Goto
  <2>2. pc'[w] = l /\ copy'[w] = Deques!NoCopy /\ l \in Deques!PCs
    BY <1>1, <2>1 DEF DequeTyped, Deques!PCs
  <2>3. Ahead(w)' = 0
    BY <2>2 DEF Ahead
  <2>4. WorkerSound(w)'
    BY <1>1, <1>3, <2>1, <2>2, <2>3
       DEF WorkerSound, RingFits, ShareThere, HandFull, PopTrue, StealTrue
  <2> QED BY <1>1, <1>3, <2>1, <2>2, <2>3, <2>4, NoCopyTyped, QuietStep
<1> QED BY <1>4, <1>5

\* A worker takes what it yielded, or finds nothing there.
LEMMA PopYieldedKept ==
  ASSUME DequeInv, NEW w \in Workers, Deques!PopYielded(w)
  PROVE  DequeInv'
<1> USE DequesGiven DEF DequeInv
<1>1. /\ DequeTyped /\ WorkerSound(w) /\ hand[w] = NoTask /\ pc[w] \in {"find", "yield"}
      /\ UNCHANGED <<buf, head, tail, inj, qlock, parked, copy, left>>
  BY DEF DequeSound, WorkerSound, HandFull, Deques!PopYielded, Deques!ringVars
<1>2. /\ Ahead(w) = 0 /\ copy[w] \in CopyType /\ copy' = [copy EXCEPT ![w] = copy[w]]
      /\ head[w] \in Nat /\ tail[w] \in Nat /\ head[w] <= tail[w]
      /\ head' = [head EXCEPT ![w] = head[w]]
  BY <1>1 DEF DequeTyped, WorkerSound, RingFits, Ahead
<1>3. CASE yielded[w] # <<>>
  <2>1. PICK x : x = Head(yielded[w])
    OBVIOUS
  <2>2. /\ yielded' = [yielded EXCEPT ![w] = Tail(@)] /\ hand' = [hand EXCEPT ![w] = x]
        /\ pc' = [pc EXCEPT ![w] = "run"]
    BY <1>3, <2>1 DEF Deques!PopYielded, Deques!Gets, Deques!Goto
  <2>3. /\ yielded' \in [Workers -> Seq(Tasks)] /\ x \in Tasks /\ x \in Yielded
        /\ Yielded' = Yielded \ {x} /\ YieldsOnce'
    BY <1>1, <1>3, <2>1, <2>2, YieldLost DEF TasksPlaced
  <2>4. \A v \in Workers : Ahead(v)' = Ahead(v)
    BY <1>1, <2>2 DEF Ahead, DequeTyped
  <2>5. Ringed' = Ringed /\ RingsOnce'
    BY <1>1, <2>4, StillHeld DEF TasksPlaced
  <2>6. x \notin InHand /\ OneKind(Ringed', Yielded', Injected, InHand \cup {x}, parked)
    BY <2>3, <2>5 DEF TasksPlaced, OneKind
  <2>7. PICK h \in Nat, c \in CopyType :
          h = head[w] /\ h <= tail[w] /\ head[w] <= h /\ c = copy[w]
    BY <1>2
  <2>8. head' = [head EXCEPT ![w] = h] /\ copy' = [copy EXCEPT ![w] = c]
    BY <1>2, <2>7
  <2> QED BY <1>1, <2>2, <2>3, <2>5, <2>6, <2>7, <2>8, GetStep
<1>4. CASE yielded[w] = <<>>
  <2>1. pc' = [pc EXCEPT ![w] = "inject"] /\ UNCHANGED <<yielded, hand>>
    BY <1>4 DEF Deques!PopYielded, Deques!Goto
  <2>2. pc'[w] = "inject" /\ "inject" \in Deques!PCs /\ Ahead(w)' = 0
    BY <1>1, <2>1 DEF DequeTyped, Deques!PCs, Ahead
  <2>3. WorkerSound(w)'
    BY <1>1, <1>2, <2>1, <2>2
       DEF WorkerSound, RingFits, ShareThere, HandFull, PopTrue, StealTrue
  <2> QED BY <1>1, <1>2, <2>1, <2>2, <2>3, QuietStep
<1> QED BY <1>3, <1>4

\* A share is no more than what is shared.
LEMMA DivSmall ==
  ASSUME NEW a \in Nat, NEW m \in Nat \ {0} PROVE a \div m \in Nat /\ a \div m <= a
<1>1. PICK q \in Int : q = a \div m
  <2>1. a \div m \in Int
    OBVIOUS
  <2> QED BY <2>1
<1>2. PICK r \in 0 .. m - 1 : r = a % m
  BY IndexInRing
<1>3. a = m * q + r
  BY <1>1, <1>2, DivMod
<1>4. q >= 0
  <2>1. ASSUME q < 0 PROVE FALSE
    <3>1. PICK p \in Nat : q = -p - 1
      BY <2>1
    <3>2. m * q = -(m * p) - m /\ m * p \in Nat
      BY <3>1
    <3> QED BY <1>3, <3>2
  <2> QED BY <2>1
<1>5. m * q >= q
  <2>1. PICK k \in Nat : m = k + 1
    <3>1. m - 1 \in Nat /\ m = (m - 1) + 1
      OBVIOUS
    <3> QED BY <3>1
  <2>2. m * q = k * q + q /\ k * q \in Nat
    BY <1>4, <2>1
  <2> QED BY <2>2
<1> QED BY <1>1, <1>2, <1>3, <1>4, <1>5

\* The number of workers divides the queue: a worker takes no more than what is left in it.
LEMMA ShareSmall ==
  ASSUME NEW n \in Nat \ {0}, NEW w \in Workers
  PROVE  Deques!AtMost((n - 1) \div Deques!Cardinality(Workers), BatchMax) \in 0 .. n - 1
<1>1. Deques!Cardinality(Workers) = Cardinality(Workers)
  BY DEF Deques!Cardinality, Cardinality
<1>2. PICK m \in Nat \ {0} : m = Deques!Cardinality(Workers)
  <2>1. Cardinality(Workers) \in Nat /\ Cardinality(Workers) # 0
    BY DequesGiven, FS_CardinalityType, FS_EmptySet
  <2> QED BY <1>1, <2>1
<1>3. (n - 1) \div m \in Nat /\ (n - 1) \div m <= n - 1
  BY DivSmall
<1> QED BY <1>2, <1>3, DequesGiven DEF Deques!AtMost

\* A worker takes a task of the injection queue, its lock, and a share to move.
LEMMA TakeInjectionKept ==
  ASSUME DequeInv, NEW w \in Workers, Deques!TakeInjection(w)
  PROVE  DequeInv'
<1> USE DequesGiven DEF DequeInv
<1>1. PICK x : x = Head(inj)
  OBVIOUS
<1>2. PICK m : m = Deques!AtMost((Len(inj) - 1) \div Deques!Cardinality(Workers), BatchMax)
  OBVIOUS
<1>3. /\ pc[w] \in {"find", "inject"} /\ qlock = NoTask /\ inj # <<>> /\ qlock' = w
      /\ hand' = [hand EXCEPT ![w] = x] /\ inj' = Tail(inj) /\ left' = [left EXCEPT ![w] = m]
      /\ pc' = [pc EXCEPT ![w] = "share"]
      /\ UNCHANGED <<buf, head, tail, yielded, parked, copy>>
  BY <1>1, <1>2 DEF Deques!TakeInjection, Deques!Goto, Deques!ringVars
<1>4. DequeTyped /\ WorkerSound(w) /\ hand[w] = NoTask /\ inj \in Seq(Tasks)
  BY <1>3 DEF DequeSound, DequeTyped, WorkerSound, HandFull
<1>5. /\ inj' \in Seq(Tasks) /\ Len(inj') = Len(inj) - 1 /\ Len(inj) \in Nat \ {0}
      /\ x \in Tasks /\ x \in Injected /\ Elements(inj') = Injected \ {x} /\ Once(inj')
  BY <1>1, <1>3, <1>4, QueueLoses DEF TasksPlaced, Injected
<1>6. m \in Nat /\ m <= Len(inj')
  BY <1>2, <1>5, ShareSmall
<1>7. x \notin InHand /\ OneKind(Ringed, Yielded, Injected, InHand, parked)
  BY <1>5 DEF TasksPlaced, OneKind
<1>8. hand' \in [Workers -> Tasks \cup {NoTask}] /\ InHand' = InHand \cup {x} /\ HandsOnce'
  BY <1>3, <1>4, <1>5, <1>7, HandGains DEF TasksPlaced
<1>9. /\ \A u \in Workers \ {w} : /\ pc'[u] = pc[u] /\ hand'[u] = hand[u] /\ left'[u] = left[u]
      /\ \A u \in Workers : Ahead(u)' = Ahead(u)
      /\ pc' \in [Workers -> Deques!PCs] /\ pc'[w] = "share" /\ hand'[w] = x /\ left'[w] = m
  BY <1>3, <1>4 DEF DequeTyped, Deques!PCs, Ahead
<1>10. DequeTyped'
  BY <1>3, <1>4, <1>5, <1>6, <1>8, <1>9 DEF DequeTyped
<1>11. RingsMove
  BY <1>3, StillRings
<1>12. \A u \in Workers \ {w} : Undisturbed(u)
  BY <1>3, <1>9, OthersStill
<1>13. WorkerSound(w)'
  <2>1. RingFits(w)'
    BY <1>3, <1>4, <1>9 DEF WorkerSound, RingFits
  <2>2. ShareThere(w)' /\ HandFull(w)' /\ PopTrue(w)' /\ StealTrue(w)'
    BY <1>3, <1>5, <1>6, <1>9 DEF ShareThere, HandFull, PopTrue, StealTrue
  <2> QED BY <2>1, <2>2 DEF WorkerSound
<1>14. TasksPlaced'
  <2>1. Ringed' = Ringed /\ RingsOnce'
    BY <1>3, <1>9, StillHeld DEF TasksPlaced
  <2>2. Yielded' = Yielded /\ YieldsOnce'
    BY <1>3, StillQueued DEF TasksPlaced
  <2>3. Injected' = Injected \ {x} /\ Once(inj)' = Once(inj')
    BY <1>5 DEF Injected, Elements, Once
  <2>4. OneKind(Ringed, Yielded, Injected, InHand, parked)'
    BY <1>3, <1>5, <1>7, <1>8, <2>1, <2>2, <2>3 DEF OneKind
  <2> QED BY <1>5, <1>8, <2>1, <2>2, <2>3, <2>4 DEF TasksPlaced
<1> QED BY <1>10, <1>11, <1>12, <1>13, <1>14, StepSound

\* A worker moves a task of its share to its ring, or puts it back when that is full.
LEMMA ShareKept ==
  ASSUME DequeInv, NEW w \in Workers, Deques!Share(w)
  PROVE  DequeInv'
<1> USE DequesGiven DEF DequeInv
<1>1. PICK x : x = Head(inj)
  OBVIOUS
<1>2. /\ pc[w] = "share" /\ left[w] > 0
      /\ UNCHANGED <<head, tail, yielded, qlock, parked, hand, copy>>
      /\ DequeTyped /\ WorkerSound(w) /\ left[w] \in Nat /\ inj \in Seq(Tasks)
      /\ left[w] <= Len(inj) /\ qlock = w
  BY DEF DequeSound, DequeTyped, WorkerSound, ShareThere, Deques!Share
<1>3. inj # <<>>
  BY <1>2, EmptySeq
<1>4. /\ Tail(inj) \in Seq(Tasks) /\ Len(Tail(inj)) = Len(inj) - 1 /\ Len(inj) \in Nat \ {0}
      /\ x \in Tasks /\ x \in Injected /\ Elements(Tail(inj)) = Injected \ {x} /\ Once(Tail(inj))
  BY <1>1, <1>2, <1>3, QueueLoses DEF TasksPlaced, Injected
<1>5. CASE Deques!Full(w)
  <2>1. /\ inj' = Tail(inj) \o <<x>> /\ left' = [left EXCEPT ![w] = 0] /\ UNCHANGED <<buf, pc>>
    BY <1>1, <1>5 DEF Deques!Share
  <2>2. inj' = Append(Tail(inj), x)
    BY <1>4, <2>1, AppendIsConcat
  <2>3. inj' \in Seq(Tasks) /\ Elements(inj') = Injected /\ Once(inj')
    <3>1. /\ inj' \in Seq(Tasks) /\ Elements(inj') = (Injected \ {x}) \cup {x} /\ Once(inj')
      BY <1>4, <2>2, QueueGains
    <3> QED BY <1>4, <3>1
  <2>4. /\ \A u \in Workers \ {w} : left'[u] = left[u]
        /\ \A u \in Workers : Ahead(u)' = Ahead(u)
        /\ left' \in [Workers -> Nat] /\ left'[w] = 0
    BY <1>2, <2>1 DEF DequeTyped, Ahead
  <2>5. DequeTyped'
    BY <1>2, <2>1, <2>3, <2>4 DEF DequeTyped
  <2>6. RingsMove
    BY <1>2, <2>1, StillRings
  <2>7. \A u \in Workers \ {w} : Undisturbed(u)
    BY <1>2, <2>1, <2>4, OthersStill
  <2>8. WorkerSound(w)'
    <3>1. RingFits(w)'
      BY <1>2, <2>4 DEF WorkerSound, RingFits
    <3>2. Len(inj') \in Nat
      BY <2>3, LenProperties
    <3>3. ShareThere(w)' /\ HandFull(w)' /\ PopTrue(w)' /\ StealTrue(w)'
      BY <1>2, <2>1, <2>4, <3>2 DEF WorkerSound, ShareThere, HandFull, PopTrue, StealTrue
    <3> QED BY <3>1, <3>3 DEF WorkerSound
  <2>9. TasksPlaced'
    <3>1. Ringed' = Ringed /\ RingsOnce'
      BY <1>2, <2>1, <2>4, StillHeld DEF TasksPlaced
    <3>2. Yielded' = Yielded /\ YieldsOnce' /\ InHand' = InHand /\ HandsOnce'
      BY <1>2, StillQueued DEF TasksPlaced
    <3>3. Injected' = Injected /\ Once(inj)' = Once(inj')
      BY <2>3 DEF Injected, Elements, Once
    <3>4. OneKind(Ringed, Yielded, Injected, InHand, parked)'
      BY <1>2, <3>1, <3>2, <3>3 DEF OneKind, TasksPlaced
    <3> QED BY <2>3, <3>1, <3>2, <3>3, <3>4 DEF TasksPlaced
  <2> QED BY <2>5, <2>6, <2>7, <2>8, <2>9, StepSound
<1>6. CASE ~Deques!Full(w)
  <2>1. /\ inj' = Tail(inj) \o <<>> /\ Deques!Store(w, tail[w], x) /\ left' = left
        /\ pc' = [pc EXCEPT ![w] = "shared"]
    BY <1>1, <1>6 DEF Deques!Share, Deques!Goto
  <2>2. inj' = Tail(inj)
    BY <1>4, <2>1, ConcatEmptySeq
  <2>3. x \notin Ringed /\ OneKind(Ringed \cup {x}, Yielded, Elements(inj'), InHand, parked')
    BY <1>2, <1>4, <2>2 DEF TasksPlaced, OneKind
  <2>4. parked' \in SUBSET Tasks
    BY <1>2 DEF DequeTyped
  <2> QED BY <1>2, <1>4, <1>6, <2>1, <2>2, <2>3, <2>4, StoreStep
<1> QED BY <1>5, <1>6

-----------------------------------------------------------------------------
(* Steps of a thief *)

\* A thief copies one task: the first to its hand-to-be, the others past its own tail, where
\* nothing is in use.
LEMMA StealCopyKept ==
  ASSUME DequeInv, NEW w \in Workers, Deques!StealCopy(w)
  PROVE  DequeInv'
<1> USE DequesGiven DEF DequeInv
<1>1. PICK c \in CopyType, t \in Nat : c = copy[w] /\ t = tail[w]
  BY DEF DequeSound, DequeTyped
<1> DEFINE v == c.from
<1>2. c.h \in Nat /\ c.n \in Nat /\ c.i \in Nat
  BY DEF CopyType
<1>3. /\ DequeTyped /\ WorkerSound(w) /\ WorkerSound(v) /\ pc[w] = "copy"
      /\ v \in Workers \ {w} /\ c.h <= head[v]
      /\ head[v] \in Nat /\ tail[v] \in Nat /\ head[w] \in Nat
      /\ c.n > 0 /\ t + c.n <= head[w] + Cap + 1 /\ c.h + c.n <= tail[v]
      /\ c.i \in 0 .. c.n - 1
      /\ head[v] = c.h =>
           /\ c.i > 0 => c.first = Deques!Slot(v, c.h)
           /\ \A j \in 1 .. c.i - 1 : Deques!Slot(w, t + j - 1) = Deques!Slot(v, c.h + j)
  <2>1. pc[w] = "copy"
    BY DEF Deques!StealCopy
  <2>2. DequeTyped /\ WorkerSound(w) /\ StealTrue(w)
    BY DEF DequeSound, WorkerSound
  <2>3. /\ v \in Workers \ {w} /\ c.i \in 0 .. c.n /\ c.i # c.n /\ c.h <= head[v]
        /\ c.n > 0 /\ t + c.n <= head[w] + Cap + 1 /\ c.h + c.n <= tail[v]
        /\ head[v] = c.h =>
             /\ c.i > 0 => c.first = Deques!Slot(v, c.h)
             /\ \A j \in 1 .. c.i - 1 : Deques!Slot(w, t + j - 1) = Deques!Slot(v, c.h + j)
    BY <1>1, <2>1, <2>2 DEF StealTrue
  <2>4. WorkerSound(v) /\ head[v] \in Nat /\ tail[v] \in Nat /\ head[w] \in Nat
    BY <2>3 DEF DequeSound, DequeTyped
  <2>5. c.i \in 0 .. c.n - 1
    BY <1>2, <2>3
  <2> QED BY <2>1, <2>2, <2>3, <2>4, <2>5
<1>4. PICK x \in Tasks \cup {NoTask} : x = Deques!Slot(v, c.h + c.i)
  <2>1. c.h + c.i \in Nat
    BY <1>2
  <2> QED BY <1>3, <2>1, SlotTyped
<1>5. PICK d \in CopyType :
        /\ d.from = v /\ d.h = c.h /\ d.n = c.n /\ d.i = c.i + 1
        /\ d.first = IF c.i = 0 THEN x ELSE c.first
        /\ copy' = [copy EXCEPT ![w] = d]
  <2>1. PICK e : e = [c EXCEPT !.i = c.i + 1]
    OBVIOUS
  <2>2. e \in CopyType /\ e.from = v /\ e.h = c.h /\ e.n = c.n /\ e.i = c.i + 1
    BY <1>2, <2>1 DEF CopyType
  <2>3. PICK y \in Tasks \cup {NoTask} : y = IF c.i = 0 THEN x ELSE c.first
    BY DEF CopyType
  <2>4. PICK d : d = [e EXCEPT !.first = y]
    OBVIOUS
  <2>5. d \in CopyType /\ d.from = v /\ d.h = c.h /\ d.n = c.n /\ d.i = c.i + 1 /\ d.first = y
    BY <2>2, <2>4 DEF CopyType
  <2>6. copy' = [copy EXCEPT ![w].i = c.i + 1, ![w].first = y]
    BY <1>1, <1>4, <2>3 DEF Deques!StealCopy
  <2>7. copy' = [copy EXCEPT ![w] = d]
    BY <1>1, <1>3, <2>1, <2>4, <2>6 DEF DequeTyped
  <2> QED BY <2>3, <2>5, <2>7
<1>6. PICK l \in {"copy", "claim"} :
        /\ pc' = [pc EXCEPT ![w] = l] /\ (l = "claim" <=> c.i + 1 = c.n)
        /\ UNCHANGED <<head, tail, yielded, inj, qlock, parked, hand, left>>
        /\ IF c.i = 0 THEN buf' = buf ELSE Deques!Store(w, t + c.i - 1, x)
  <2>1. pc = [pc EXCEPT ![w] = "copy"]
    BY <1>3 DEF DequeTyped
  <2> QED BY <1>1, <1>4, <2>1 DEF Deques!StealCopy, Deques!Goto, Deques!restVars
\* The copy goes where no slot is in use.
<1>7. /\ buf' \in [Workers -> [0 .. Cap - 1 -> Tasks \cup {NoTask}]]
      /\ c.i > 0 => Deques!Slot(w, t + c.i - 1)' = x
      /\ \A u \in Workers \ {w} : \A i : Deques!Slot(u, i)' = Deques!Slot(u, i)
      /\ \A i \in Nat : i < t + c.i - 1 /\ t + c.i - 1 < i + Cap =>
           Deques!Slot(w, i)' = Deques!Slot(w, i)
      /\ \A u \in Workers \ {w} : buf'[u] = buf[u]
  <2>1. CASE c.i = 0
    <3>1. buf' = buf
      BY <1>6, <2>1
    <3>2. \A u, i : Deques!Slot(u, i)' = Deques!Slot(u, i)
      BY <3>1 DEF Deques!Slot
    <3>3. buf' \in [Workers -> [0 .. Cap - 1 -> Tasks \cup {NoTask}]]
      BY <1>3, <3>1 DEF DequeTyped
    <3>4. ~(c.i > 0)
      BY <2>1
    <3> QED BY <3>1, <3>2, <3>3, <3>4
  <2>2. CASE c.i # 0
    <3>1. PICK k \in Nat : k = t + c.i - 1
      BY <1>2, <2>2
    <3>2. Deques!Store(w, k, x)
      BY <1>6, <2>2, <3>1
    <3>3. \A u \in Workers \ {w} : buf'[u] = buf[u]
      BY <1>3, <3>2 DEF Deques!Store, DequeTyped
    <3> QED BY <1>3, <3>1, <3>2, <3>3, StoreReads
  <2> QED BY <2>1, <2>2
<1>8. \A u \in Workers : \A i \in head[u] .. tail[u] - 1 : Deques!Slot(u, i)' = Deques!Slot(u, i)
  <2>1. \A i \in head[w] .. tail[w] - 1 :
          c.i > 0 => i \in Nat /\ i < t + c.i - 1 /\ t + c.i - 1 < i + Cap
    BY <1>1, <1>2, <1>3
  <2>2. c.i = 0 => \A i : Deques!Slot(w, i)' = Deques!Slot(w, i)
    BY <1>6 DEF Deques!Slot
  <2>3. \A i \in head[w] .. tail[w] - 1 : Deques!Slot(w, i)' = Deques!Slot(w, i)
    BY <1>2, <1>7, <2>1, <2>2
  <2> QED BY <1>7, <2>3
<1>9. /\ pc'[w] = l /\ copy'[w] = d /\ l \in Deques!PCs
      /\ \A u \in Workers \ {w} : pc'[u] = pc[u] /\ copy'[u] = copy[u]
      /\ \A u \in Workers : Ahead(u)' = Ahead(u) /\ Ahead(w) = 0
  BY <1>3, <1>5, <1>6 DEF DequeTyped, Deques!PCs, Ahead
<1>10. DequeTyped'
  BY <1>3, <1>5, <1>6, <1>7, <1>9 DEF DequeTyped
<1>11. RingsMove
  <2>1. \A u \in Workers : head[u] \in Nat /\ tail[u] \in Nat /\ head[u] <= tail[u]
    BY DEF DequeSound, DequeTyped, WorkerSound, RingFits
  <2> QED BY <1>6, <1>8, <2>1 DEF RingsMove
<1>12. \A u \in Workers \ {w} : Undisturbed(u)
  BY <1>6, <1>7, <1>9, OthersStill
<1>13. WorkerSound(w)'
  <2>1. RingFits(w)'
    BY <1>3, <1>6, <1>9 DEF WorkerSound, RingFits
  <2>2. ShareThere(w)' /\ HandFull(w)' /\ PopTrue(w)'
    BY <1>3, <1>6, <1>9 DEF WorkerSound, ShareThere, HandFull, PopTrue
  <2>3. StealTrue(w)'
    <3>1. d.i \in 0 .. d.n /\ d.i > 0 /\ (l = "claim" <=> d.i = d.n)
      BY <1>2, <1>3, <1>5, <1>6
    <3>2. ASSUME head[v] = c.h
          PROVE  /\ d.first = Deques!Slot(v, c.h)'
                 /\ \A j \in 1 .. d.i - 1 :
                      Deques!Slot(w, t + j - 1)' = Deques!Slot(v, c.h + j)'
      <4>1. \A i : Deques!Slot(v, i)' = Deques!Slot(v, i)
        BY <1>3, <1>7
      <4>2. d.first = Deques!Slot(v, c.h)'
        <5>1. CASE c.i = 0
          <6>1. c.h + c.i = c.h
            BY <1>2, <5>1
          <6> QED BY <1>4, <1>5, <4>1, <5>1, <6>1
        <5>2. CASE c.i # 0
          BY <1>2, <1>3, <1>5, <3>2, <4>1, <5>2
        <5> QED BY <5>1, <5>2
      <4>3. ASSUME NEW j \in 1 .. d.i - 1
            PROVE  Deques!Slot(w, t + j - 1)' = Deques!Slot(v, c.h + j)'
        <5>1. j \in 1 .. c.i
          BY <1>2, <1>5
        <5>2. CASE j = c.i
          BY <1>4, <1>7, <4>1, <5>1, <5>2
        <5>3. CASE j # c.i
          <6>1. /\ j \in 1 .. c.i - 1 /\ t + j - 1 \in Nat /\ t + j - 1 < t + c.i - 1
                /\ t + c.i - 1 < (t + j - 1) + Cap
            <7>1. j \in 1 .. c.i - 1 /\ t + j - 1 \in Nat /\ t + j - 1 < t + c.i - 1
              BY <1>2, <5>1, <5>3
            <7>2. c.i < c.n /\ c.n <= Cap + 1
              <8>1. head[w] <= t
                BY <1>1, <1>3 DEF WorkerSound, RingFits
              <8> QED BY <1>2, <1>3, <8>1
            <7> QED BY <1>2, <5>1, <5>3, <7>1, <7>2
          <6>2. Deques!Slot(w, t + j - 1)' = Deques!Slot(w, t + j - 1)
            BY <1>7, <6>1
          <6> QED BY <1>3, <3>2, <4>1, <6>1, <6>2
        <5> QED BY <5>2, <5>3
      <4> QED BY <4>2, <4>3
    <3>3. head'[v] = head[v] /\ tail'[v] = tail[v] /\ head'[w] = head[w] /\ tail'[w] = t
      BY <1>1, <1>6
    <3> QED BY <1>3, <1>5, <1>6, <1>9, <3>1, <3>2, <3>3 DEF StealTrue, Deques!Slot
  <2> QED BY <2>1, <2>2, <2>3 DEF WorkerSound
<1>14. TasksPlaced'
  <2>1. \A u \in Workers : Deques!Held(u)' = Deques!Held(u)
    BY <1>6, <1>9 DEF Deques!Held, Ahead
  <2>2. ASSUME NEW u \in Workers, NEW i \in Deques!Held(u)
        PROVE  Deques!Slot(u, i)' = Deques!Slot(u, i)
    <3>1. CASE u = w
      <4>1. i \in head[w] .. tail[w] - 1
        BY <1>3, <2>2, <3>1 DEF Deques!Held, DequeTyped
      <4> QED BY <1>8, <3>1, <4>1
    <3> QED BY <1>7, <3>1
  <2>3. Ringed' = Ringed /\ RingsOnce'
    BY <2>1, <2>2, RingsSame DEF TasksPlaced
  <2> QED BY <1>6, <2>3, StillQueued DEF TasksPlaced, OneKind
<1> QED BY <1>10, <1>11, <1>12, <1>13, <1>14, StepSound

\* A thief's compare-and-swap: if the victim's head is where it was, what was copied is what is
\* taken, and it is in nobody's ring any more but the thief's.
LEMMA StealClaimKept ==
  ASSUME DequeInv, NEW w \in Workers, Deques!StealClaim(w)
  PROVE  DequeInv'
<1> USE DequesGiven DEF DequeInv
<1>1. PICK c \in CopyType, t \in Nat : c = copy[w] /\ t = tail[w]
  BY DEF DequeSound, DequeTyped
<1>2. c.h \in Nat /\ c.n \in Nat /\ c.i \in Nat
  BY DEF CopyType
<1>3. PICK v : v = c.from
  OBVIOUS
<1>4. PICK h \in Nat, n \in Nat : h = c.h /\ n = c.n
  BY <1>2
<1>5. /\ DequeTyped /\ WorkerSound(w) /\ StealTrue(w) /\ pc[w] = "claim" /\ hand[w] = NoTask
      /\ UNCHANGED <<buf, tail, yielded, inj, qlock, parked, left>>
  BY DEF DequeSound, WorkerSound, HandFull, Deques!StealClaim, Deques!restVars
<1>6. /\ v \in Workers \ {w} /\ h <= head[v]
      /\ n > 0 /\ t + n <= head[w] + Cap + 1 /\ h + n <= tail[v]
      /\ head[v] = h =>
           /\ c.first = Deques!Slot(v, h)
           /\ \A j \in 1 .. n - 1 : Deques!Slot(w, t + j - 1) = Deques!Slot(v, h + j)
  BY <1>1, <1>2, <1>3, <1>4, <1>5 DEF StealTrue
<1>7. /\ Ahead(w) = 0
      /\ \A u \in Workers : head[u] \in Nat /\ tail[u] \in Nat /\ Ahead(u) \in Nat
                            /\ head[u] <= tail[u]
  BY <1>5 DEF DequeSound, DequeTyped, WorkerSound, RingFits, Ahead
<1>8. CASE head[v] = h
  <2>1. PICK x : x = Deques!Slot(v, h)
    OBVIOUS
  <2>2. /\ head' = [head EXCEPT ![v] = h + n] /\ hand' = [hand EXCEPT ![w] = x]
        /\ pc' = [pc EXCEPT ![w] = "publish"] /\ copy' = copy
    BY <1>1, <1>3, <1>4, <1>6, <1>8, <2>1 DEF Deques!StealClaim, Deques!Claimed, Deques!Goto
  <2>3. /\ head'[v] = h + n /\ \A u \in Workers \ {v} : head'[u] = head[u]
        /\ pc' \in [Workers -> Deques!PCs] /\ pc'[w] = "publish"
        /\ hand'[w] = x
        /\ \A u \in Workers \ {w} : pc'[u] = pc[u] /\ hand'[u] = hand[u]
    BY <1>5, <1>6, <2>2 DEF DequeTyped, Deques!PCs
  <2>4. Ahead(w)' = n - 1 /\ \A u \in Workers \ {w} : Ahead(u)' = Ahead(u)
    BY <1>1, <1>4, <2>2, <2>3 DEF Ahead
  <2>5. \A u \in Workers : \A i : Deques!Slot(u, i)' = Deques!Slot(u, i)
    BY <1>5 DEF Deques!Slot
  <2>6. \A u \in Workers : Deques!Held(u) = head[u] .. tail[u] - 1 + Ahead(u)
    BY DEF Deques!Held, Ahead
  <2>7. \A u \in Workers : Deques!Held(u)' = head'[u] .. tail[u] - 1 + Ahead(u)'
    BY <1>5 DEF Deques!Held, Ahead
  <2>8. h .. h + n - 1 \subseteq Deques!Held(v)
    BY <1>6, <1>7, <1>8, <2>6
  <2>9. Deques!Held(v)' = Deques!Held(v) \ (h .. h + n - 1)
    <3>1. Deques!Held(v) = h .. tail[v] - 1 + Ahead(v)
      BY <1>6, <1>8, <2>6
    <3>2. Deques!Held(v)' = h + n .. tail[v] - 1 + Ahead(v)
      BY <1>6, <2>3, <2>4, <2>7
    <3> QED BY <1>6, <1>7, <3>1, <3>2
  <2>10. Deques!Held(w)' = Deques!Held(w) \cup (t .. t + n - 2)
    <3>1. Deques!Held(w) = head[w] .. t - 1
      BY <1>1, <1>7, <2>6
    <3>2. Deques!Held(w)' = head[w] .. t - 1 + (n - 1)
      BY <1>1, <1>6, <2>3, <2>4, <2>7
    <3>3. head[w] \in Nat /\ head[w] <= t
      BY <1>1, <1>7
    <3> QED BY <1>6, <3>1, <3>2, <3>3
  <2>11. \A u \in Workers \ {v, w} : Deques!Held(u)' = Deques!Held(u)
    BY <2>3, <2>4, <2>6, <2>7
  <2>12. n \in Nat \ {0}
    BY <1>6
  <2>13. x \in Tasks /\ x \in Ringed /\ Ringed' = Ringed \ {x} /\ RingsOnce'
    <3>1. RingsOnce /\ v \in Workers \ {w}
      BY <1>6 DEF TasksPlaced
    <3>2. \A j \in 1 .. n - 1 : Deques!Slot(w, t + j - 1) = Deques!Slot(v, h + j)
      BY <1>6, <1>8
    <3>3. /\ Deques!Slot(v, h) \in Tasks /\ Deques!Slot(v, h) \in Ringed
          /\ Ringed' = Ringed \ {Deques!Slot(v, h)} /\ RingsOnce'
      <4>1. Moves(w, v, h, n, t)
        BY <2>5, <2>8, <2>9, <2>10, <2>11, <3>2 DEF Moves
      <4> QED BY <2>12, <3>1, <4>1, RingMoves
    <3> QED BY <2>1, <3>3
  <2>14. x \notin InHand /\ OneKind(Ringed, Yielded, Injected, InHand, parked)
    BY <2>13 DEF TasksPlaced, OneKind
  <2>15. hand' \in [Workers -> Tasks \cup {NoTask}] /\ InHand' = InHand \cup {x} /\ HandsOnce'
    BY <1>5, <2>2, <2>13, <2>14, HandGains DEF TasksPlaced
  <2>16. DequeTyped'
    <3>1. head' \in [Workers -> Nat]
      BY <1>5, <1>6, <2>2 DEF DequeTyped
    <3> QED BY <1>5, <2>2, <2>3, <2>15, <3>1 DEF DequeTyped
  <2>17. RingsMove
    <3>1. \A u \in Workers : head'[u] \in Nat /\ head[u] <= head'[u] /\ head'[u] <= tail[u]
      BY <1>6, <1>7, <1>8, <2>3
    <3> QED BY <1>5, <1>7, <2>5, <3>1 DEF RingsMove
  <2>18. \A u \in Workers \ {w} : Undisturbed(u)
    BY <1>5, <2>2, <2>3, OthersStill
  <2>19. WorkerSound(w)'
    <3>1. RingFits(w)'
      BY <1>1, <1>5, <1>6, <1>7, <2>3, <2>4 DEF RingFits
    <3>2. ShareThere(w)' /\ HandFull(w)' /\ PopTrue(w)' /\ StealTrue(w)'
      BY <2>3, <2>13 DEF ShareThere, HandFull, PopTrue, StealTrue
    <3> QED BY <3>1, <3>2 DEF WorkerSound
  <2>20. TasksPlaced'
    <3>1. Yielded' = Yielded /\ YieldsOnce' /\ Injected' = Injected /\ Once(inj)'
      BY <1>5, StillQueued DEF TasksPlaced
    <3>2. OneKind(Ringed, Yielded, Injected, InHand, parked)'
      BY <1>5, <2>13, <2>14, <2>15, <3>1 DEF OneKind
    <3> QED BY <2>13, <2>15, <3>1, <3>2 DEF TasksPlaced
  <2> QED BY <2>16, <2>17, <2>18, <2>19, <2>20, StepSound
<1>9. CASE head[v] # h
  <2>1. PICK d \in CopyType, l \in {"tail", "steal"} :
          /\ copy' = [copy EXCEPT ![w] = d] /\ pc' = [pc EXCEPT ![w] = l]
          /\ l = "tail" => d.from = v /\ d.h = head[v] /\ d.i = 0
          /\ UNCHANGED <<head, hand>>
    <3>1. PICK d : d = [Deques!NoCopy EXCEPT !.from = v, !.h = head[v]]
      OBVIOUS
    <3>2. d = [from |-> v, h |-> head[v], n |-> 0, i |-> 0, first |-> NoTask]
      BY <3>1 DEF Deques!NoCopy
    <3>3. d \in CopyType /\ d.from = v /\ d.h = head[v] /\ d.i = 0
      BY <1>6, <1>7, <3>2 DEF CopyType
    <3>4. /\ UNCHANGED <<head, hand>>
          /\ \/ copy' = [copy EXCEPT ![w] = d] /\ pc' = [pc EXCEPT ![w] = "tail"]
             \/ copy' = [copy EXCEPT ![w] = Deques!NoCopy] /\ pc' = [pc EXCEPT ![w] = "steal"]
      BY <1>1, <1>3, <1>4, <1>9, <3>1 DEF Deques!StealClaim, Deques!Claimed, Deques!Goto
    <3> QED BY <3>3, <3>4, NoCopyTyped
  <2>2. pc'[w] = l /\ copy'[w] = d /\ l \in Deques!PCs
    BY <1>5, <2>1 DEF DequeTyped, Deques!PCs
  <2>3. Ahead(w)' = 0
    BY <2>2 DEF Ahead
  <2>4. WorkerSound(w)'
    <3>1. RingFits(w)'
      BY <1>5, <1>7, <2>1, <2>3 DEF WorkerSound, RingFits
    <3>2. ShareThere(w)' /\ HandFull(w)' /\ PopTrue(w)'
      BY <1>5, <2>1, <2>2 DEF ShareThere, HandFull, PopTrue
    <3>3. StealTrue(w)'
      BY <1>6, <1>7, <2>1, <2>2 DEF StealTrue
    <3> QED BY <3>1, <3>2, <3>3 DEF WorkerSound
  <2> QED BY <1>5, <1>7, <2>1, <2>2, <2>3, <2>4, QuietStep
<1> QED BY <1>8, <1>9

-----------------------------------------------------------------------------
(* Every step *)

\* No step of the run queues loses a task or has it twice.
LEMMA DequesStep ==
  ASSUME DequeInv, Deques!Next
  PROVE  DequeInv'
<1>1. ASSUME NEW x \in Tasks, Deques!Inject(x) PROVE DequeInv'
  <2>1. PICK w \in Workers : TRUE
    BY DequesGiven
  <2> QED BY <1>1, <2>1, InjectKept
<1>2. ASSUME NEW w \in Workers, NEW x \in Tasks, Deques!Enqueue(w, x) PROVE DequeInv'
  BY <1>2, EnqueueKept
<1>3. ASSUME NEW w \in Workers,
             Deques!Enqueued(w) \/ Deques!Shared(w) \/ Deques!StealPublish(w)
      PROVE  DequeInv'
  BY <1>3, PublishKept
<1>4. ASSUME NEW w \in Workers, Deques!Parks(w) \/ Deques!Yields(w) PROVE DequeInv'
  BY <1>4, ReturnKept
<1>5. ASSUME NEW w \in Workers, Deques!Pop(w) PROVE DequeInv'
  BY <1>5, PopKept
<1>6. ASSUME NEW w \in Workers, Deques!PopClaim(w) PROVE DequeInv'
  BY <1>6, PopClaimKept
<1>7. ASSUME NEW w \in Workers, Deques!PopYielded(w) PROVE DequeInv'
  BY <1>7, PopYieldedKept
<1>8. ASSUME NEW w \in Workers, Deques!TakeInjection(w) PROVE DequeInv'
  BY <1>8, TakeInjectionKept
<1>9. ASSUME NEW w \in Workers, Deques!Share(w) PROVE DequeInv'
  BY <1>9, ShareKept
<1>10. ASSUME NEW w \in Workers,
              Deques!SkipInjection(w) \/ Deques!GiveUp(w) \/ Deques!Taken(w)
       PROVE  DequeInv'
  BY <1>10, LooksKept
<1>11. ASSUME NEW w \in Workers, NEW v \in Workers, Deques!Steal(w, v) PROVE DequeInv'
  BY <1>11, StealKept
<1>12. ASSUME NEW w \in Workers, Deques!StealTail(w) PROVE DequeInv'
  BY <1>12, StealTailKept
<1>13. ASSUME NEW w \in Workers, Deques!StealCopy(w) PROVE DequeInv'
  BY <1>13, StealCopyKept
<1>14. ASSUME NEW w \in Workers, Deques!StealClaim(w) PROVE DequeInv'
  BY <1>14, StealClaimKept
<1> QED BY <1>1, <1>2, <1>3, <1>4, <1>5, <1>6, <1>7, <1>8, <1>9, <1>10, <1>11, <1>12, <1>13,
           <1>14 DEF Deques!Next

\* Nobody touches the run queues in the other parts of a run.
LEMMA DequesStill ==
  ASSUME DequeInv, UNCHANGED dequeVars
  PROVE  DequeInv'
<1>1. /\ DequeTyped' = DequeTyped /\ TasksPlaced' = TasksPlaced
      /\ \A w \in Workers : WorkerSound(w)' = WorkerSound(w)
  <2>1. /\ buf' = buf /\ head' = head /\ tail' = tail /\ yielded' = yielded /\ inj' = inj
        /\ qlock' = qlock /\ parked' = parked /\ hand' = hand /\ copy' = copy /\ left' = left
        /\ pc' = pc
    BY DEF dequeVars
  <2>2. DequeTyped' = DequeTyped
    BY <2>1 DEF DequeTyped
  <2>3. \A w \in Workers : WorkerSound(w)' = WorkerSound(w)
    BY <2>1 DEF WorkerSound, RingFits, ShareThere, HandFull, PopTrue, StealTrue, Ahead,
                Deques!Slot
  <2>4. /\ Ringed' = Ringed /\ RingsOnce' = RingsOnce
    BY <2>1 DEF Ringed, RingsOnce, Deques!Held, Deques!Slot
  <2>5. /\ Yielded' = Yielded /\ YieldsOnce' = YieldsOnce /\ Injected' = Injected
        /\ Once(inj)' = Once(inj) /\ InHand' = InHand /\ HandsOnce' = HandsOnce
    BY <2>1 DEF Yielded, YieldsOnce, Injected, InHand, HandsOnce, Elements, Once
  <2>6. OneKind(Ringed, Yielded, Injected, InHand, parked)' =
          OneKind(Ringed, Yielded, Injected, InHand, parked)
    BY <2>1, <2>4, <2>5 DEF OneKind
  <2> QED BY <2>2, <2>3, <2>4, <2>5, <2>6 DEF TasksPlaced
<1> QED BY <1>1 DEF DequeInv, DequeSound

\* In the beginning every task is parked.
LEMMA DequesInit ==
  ASSUME Deques!Init
  PROVE  DequeInv
<1> USE DequesGiven DEF Deques!Init
<1>1. \A w \in Workers : head[w] = 0 /\ tail[w] = 0 /\ pc[w] = "find" /\ Ahead(w) = 0
  BY DEF Ahead
<1>2. DequeTyped
  <2>1. copy \in [Workers -> CopyType]
    BY NoCopyTyped
  <2> QED BY <2>1 DEF DequeTyped, Deques!PCs
<1>3. ASSUME NEW w \in Workers PROVE WorkerSound(w)
  <2>1. RingFits(w)
    BY <1>1 DEF RingFits
  <2> QED BY <1>1, <2>1 DEF WorkerSound, ShareThere, HandFull, PopTrue, StealTrue
<1>4. TasksPlaced
  <2>1. \A w \in Workers : Deques!Held(w) = {}
    BY <1>1 DEF Deques!Held
  <2>2. RingsOnce /\ Ringed = {}
    BY <2>1 DEF RingsOnce, Ringed
  <2>3. \A w \in Workers : yielded[w] = <<>>
    OBVIOUS
  <2>4. DOMAIN inj = {} /\ \A w \in Workers : DOMAIN yielded[w] = {}
    BY <2>3
  <2>5. YieldsOnce /\ Once(inj) /\ Yielded = {} /\ Injected = {}
    BY <2>4 DEF YieldsOnce, Once, Yielded, Injected, Elements
  <2>6. HandsOnce /\ InHand = {}
    BY DEF HandsOnce, InHand
  <2>7. OneKind(Ringed, Yielded, Injected, InHand, parked)
    BY <2>2, <2>5, <2>6 DEF OneKind
  <2> QED BY <2>2, <2>5, <2>6, <2>7 DEF TasksPlaced
<1> QED BY <1>2, <1>3, <1>4 DEF DequeInv, DequeSound

-----------------------------------------------------------------------------
(* Counting *)

\* What the run queues count with is what the library counts with.
LEMMA Counted ==
  /\ Deques!Cardinality({}) = 0
  /\ \A p : Deques!Cardinality({p}) = 1
<1>1. \A S : Deques!Cardinality(S) = Cardinality(S)
  BY DEF Deques!Cardinality, Cardinality
<1> QED BY <1>1, FS_EmptySet, FS_Singleton

\* A task is in one slot of the rings or in none.
LEMMA RingsCounted ==
  ASSUME RingsOnce, NEW x \in Tasks
  PROVE  Deques!Cardinality(Deques!InRings(x)) = IF x \in Ringed THEN 1 ELSE 0
<1>1. \A p : p \in Deques!InRings(x) <=>
               \E w \in Workers : \E i \in Deques!Held(w) :
                 Deques!Slot(w, i) = x /\ p = <<w, i>>
  BY DEF Deques!InRings
<1>2. CASE x \in Ringed
  <2>0. PICK w \in Workers : \E i \in Deques!Held(w) : Deques!Slot(w, i) = x
    BY <1>2 DEF Ringed
  <2>1. PICK i \in Deques!Held(w) : Deques!Slot(w, i) = x
    BY <2>0
  <2>2. \A v \in Workers : \A j \in Deques!Held(v) : Deques!Slot(v, j) = x => v = w /\ j = i
    BY <2>1 DEF RingsOnce
  <2>3. Deques!InRings(x) = {<<w, i>>}
    BY <1>1, <2>1, <2>2
  <2> QED BY <1>2, <2>3, Counted
<1>3. CASE x \notin Ringed
  <2>1. Deques!InRings(x) = {}
    BY <1>1, <1>3 DEF Ringed
  <2> QED BY <1>3, <2>1, Counted
<1> QED BY <1>2, <1>3

\* It is in one place of the yield queues or in none.
LEMMA YieldsCounted ==
  ASSUME YieldsOnce, NEW x \in Tasks
  PROVE  Deques!Cardinality(Deques!InYields(x)) = IF x \in Yielded THEN 1 ELSE 0
<1>1. \A p : p \in Deques!InYields(x) <=>
               \E w \in Workers : \E i \in DOMAIN yielded[w] : yielded[w][i] = x /\ p = <<w, i>>
  BY DEF Deques!InYields
<1>2. CASE x \in Yielded
  <2>0. PICK w \in Workers : \E i \in DOMAIN yielded[w] : yielded[w][i] = x
    BY <1>2 DEF Yielded, Elements
  <2>1. PICK i \in DOMAIN yielded[w] : yielded[w][i] = x
    BY <2>0
  <2>2. \A v \in Workers : \A j \in DOMAIN yielded[v] : yielded[v][j] = x => v = w /\ j = i
    <3>1. ASSUME NEW v \in Workers, NEW j \in DOMAIN yielded[v], yielded[v][j] = x
          PROVE  v = w /\ j = i
      <4>1. x \in Elements(yielded[v]) /\ x \in Elements(yielded[w])
        BY <2>1, <3>1 DEF Elements
      <4>2. v = w
        BY <4>1 DEF YieldsOnce
      <4> QED BY <2>1, <3>1, <4>2 DEF YieldsOnce, Once
    <3> QED BY <3>1
  <2>3. Deques!InYields(x) = {<<w, i>>}
    BY <1>1, <2>1, <2>2
  <2> QED BY <1>2, <2>3, Counted
<1>3. CASE x \notin Yielded
  <2>1. Deques!InYields(x) = {}
    BY <1>1, <1>3 DEF Yielded, Elements
  <2> QED BY <1>3, <2>1, Counted
<1> QED BY <1>2, <1>3

\* It is in one place of the injection queue or in none, and in one hand or in none.
LEMMA OthersCounted ==
  ASSUME Once(inj), HandsOnce, NEW x \in Tasks
  PROVE  /\ Deques!Cardinality({i \in DOMAIN inj : inj[i] = x}) = IF x \in Injected THEN 1 ELSE 0
         /\ Deques!Cardinality({w \in Workers : hand[w] = x}) = IF x \in InHand THEN 1 ELSE 0
<1>1. Deques!Cardinality({i \in DOMAIN inj : inj[i] = x}) = IF x \in Injected THEN 1 ELSE 0
  <2>1. CASE x \in Injected
    <3>1. PICK i \in DOMAIN inj : inj[i] = x
      BY <2>1 DEF Injected, Elements
    <3>2. {j \in DOMAIN inj : inj[j] = x} = {i}
      BY <3>1 DEF Once
    <3> QED BY <2>1, <3>2, Counted
  <2>2. CASE x \notin Injected
    <3>1. {j \in DOMAIN inj : inj[j] = x} = {}
      BY <2>2 DEF Injected, Elements
    <3> QED BY <2>2, <3>1, Counted
  <2> QED BY <2>1, <2>2
<1>2. Deques!Cardinality({w \in Workers : hand[w] = x}) = IF x \in InHand THEN 1 ELSE 0
  <2>1. CASE x \in InHand
    <3>1. PICK w \in Workers : hand[w] = x
      BY <2>1 DEF InHand
    <3>2. {v \in Workers : hand[v] = x} = {w}
      BY <3>1, DequesGiven DEF HandsOnce
    <3> QED BY <2>1, <3>2, Counted
  <2>2. CASE x \notin InHand
    <3>1. {v \in Workers : hand[v] = x} = {}
      BY <2>2 DEF InHand
    <3> QED BY <2>2, <3>1, Counted
  <2> QED BY <2>1, <2>2
<1> QED BY <1>1, <1>2

\* So every task is in one place, and no ring holds more than its slots.
LEMMA OncePlaced ==
  ASSUME DequeInv
  PROVE  Deques!EveryTaskOnce
<1>1. DequeTyped /\ TasksPlaced /\ \A w \in Workers : RingFits(w)
  BY DEF DequeInv, DequeSound, WorkerSound
<1>2. ASSUME NEW x \in Tasks PROVE Deques!Copies(x) = 1
  <2>1. /\ Deques!Cardinality(Deques!InRings(x)) = IF x \in Ringed THEN 1 ELSE 0
        /\ Deques!Cardinality(Deques!InYields(x)) = IF x \in Yielded THEN 1 ELSE 0
        /\ Deques!Cardinality({i \in DOMAIN inj : inj[i] = x}) = IF x \in Injected THEN 1 ELSE 0
        /\ Deques!Cardinality({w \in Workers : hand[w] = x}) = IF x \in InHand THEN 1 ELSE 0
    BY <1>1, RingsCounted, YieldsCounted, OthersCounted DEF TasksPlaced
  <2>2. OneKind(Ringed, Yielded, Injected, InHand, parked)
    BY <1>1 DEF TasksPlaced
  <2> QED BY <2>1, <2>2 DEF Deques!Copies, OneKind
<1>3. ASSUME NEW w \in Workers PROVE tail[w] - head[w] \in 0 .. Cap
  <2>1. head[w] \in Nat /\ tail[w] \in Nat /\ RingFits(w)
    BY <1>1 DEF DequeTyped
  <2> QED BY <2>1, DequesGiven DEF RingFits
<1> QED BY <1>2, <1>3 DEF Deques!EveryTaskOnce

\* Every runnable task is in one place, whatever the number of workers and tasks and the size
\* of the rings: what a thief copies it has if and only if its compare-and-swap succeeds.
THEOREM TasksKeptOnce == MCSpec => []EveryTaskOnce
<1>1. MCInit => DequeInv
  BY DequesInit DEF MCInit
<1>2. DequeInv /\ [MCNext]_allVars => DequeInv'
  <2> SUFFICES ASSUME DequeInv, [MCNext]_allVars PROVE DequeInv'
    OBVIOUS
  <2>1. CASE Deques!Next
    BY <2>1, DequesStep
  <2>2. CASE UNCHANGED dequeVars
    BY <2>2, DequesStill
  <2> QED BY <2>1, <2>2 DEF MCNext, DequeNext, allVars
<1>3. DequeInv => EveryTaskOnce
  BY OncePlaced DEF EveryTaskOnce
<1> QED BY <1>1, <1>2, <1>3, PTL DEF MCSpec
-----------------------------------------------------------------------------
(* Task groups: lists and numbers of tasks *)

\* What the group and the sources are given.
LEMMA GroupGiven ==
  /\ IsFiniteSet(Blocks) /\ Own \notin Others /\ Owner \notin Cancellers
  /\ User \in Reasons /\ NoReason \notin Reasons \cup Group!Sources
  /\ CancelBatch \in Nat \ {0}
  /\ Own \in Group!Sources /\ Others \subseteq Group!Sources
  /\ Owner \in Group!Callers /\ Cancellers \subseteq Group!Callers
<1>1. Group!GroupAssumption
  BY TasksAssumption
<1>2. Group!IsFiniteSet(Blocks) = IsFiniteSet(Blocks)
  BY DEF Group!IsFiniteSet, IsFiniteSet
<1> QED BY <1>1, <1>2 DEF Group!GroupAssumption, Group!Sources, Group!Callers

\* A sequence at its indices.
LEMMA AtIndices ==
  ASSUME NEW S, NEW q \in Seq(S)
  PROVE  /\ Len(q) \in Nat /\ DOMAIN q = 1 .. Len(q) /\ \A i \in 1 .. Len(q) : q[i] \in S
         /\ Group!ToSet(q) \subseteq S
         /\ \A x : x \in Group!ToSet(q) <=> \E i \in 1 .. Len(q) : q[i] = x
         /\ \A x : Group!Contains(q, x) <=> x \in Group!ToSet(q)
         /\ q = <<>> <=> Group!ToSet(q) = {}
<1>1. Len(q) \in Nat /\ DOMAIN q = 1 .. Len(q) /\ \A i \in 1 .. Len(q) : q[i] \in S
  BY LenProperties, ElementOfSeq
<1>2. \A x : x \in Group!ToSet(q) <=> \E i \in 1 .. Len(q) : q[i] = x
  BY <1>1 DEF Group!ToSet
<1>3. q # <<>> => 1 \in 1 .. Len(q)
  BY <1>1, EmptySeq
<1>4. q = <<>> => Group!ToSet(q) = {}
  BY <1>1, <1>2, EmptySeq
<1> QED BY <1>1, <1>2, <1>3, <1>4 DEF Group!Contains

\* A list gets one more.
LEMMA ListGains ==
  ASSUME NEW S, NEW q \in Seq(S), NEW x \in S
  PROVE  /\ Append(q, x) \in Seq(S) /\ Group!ToSet(Append(q, x)) = Group!ToSet(q) \cup {x}
         /\ Group!IsInjective(q) /\ x \notin Group!ToSet(q) => Group!IsInjective(Append(q, x))
<1> DEFINE p == Append(q, x)
           n == Len(q)
<1>1. p \in Seq(S) /\ Len(p) = n + 1 /\ (\A i \in 1 .. n : p[i] = q[i]) /\ p[n + 1] = x
  BY AppendProperties, LenProperties
<1>2. n \in Nat /\ DOMAIN p = 1 .. n + 1 /\ DOMAIN q = 1 .. n
  BY <1>1, AtIndices
<1>3. \A i \in 1 .. n + 1 : i = n + 1 \/ i \in 1 .. n
  BY <1>2
<1>4. n + 1 \in 1 .. n + 1 /\ \A i \in 1 .. n : i \in 1 .. n + 1
  BY <1>2
<1> HIDE DEF p, n
<1>5. Group!ToSet(p) = Group!ToSet(q) \cup {x}
  BY <1>1, <1>2, <1>3, <1>4 DEF Group!ToSet
<1>6. ASSUME Group!IsInjective(q), x \notin Group!ToSet(q) PROVE Group!IsInjective(p)
  <2>1. \A i \in 1 .. n : p[i] # x
    BY <1>1, <1>2, <1>6 DEF Group!ToSet
  <2> QED BY <1>1, <1>2, <1>3, <1>6, <2>1 DEF Group!IsInjective
<1> QED BY <1>1, <1>5, <1>6 DEF p, n

\* A list gets a new first.
LEMMA ListStarts ==
  ASSUME NEW S, NEW q \in Seq(S), NEW x \in S
  PROVE  /\ <<x>> \o q \in Seq(S) /\ Group!ToSet(<<x>> \o q) = Group!ToSet(q) \cup {x}
         /\ Head(<<x>> \o q) = x /\ <<x>> \o q # <<>>
         /\ Group!IsInjective(q) /\ x \notin Group!ToSet(q) => Group!IsInjective(<<x>> \o q)
<1> DEFINE p == <<x>> \o q
           n == Len(q)
<1>1. n \in Nat /\ <<x>> \in Seq(S) /\ Len(<<x>>) = 1 /\ <<x>>[1] = x
  BY LenProperties
<1>2. p \in Seq(S) /\ Len(p) = n + 1 /\ p[1] = x /\ \A i \in 1 .. n + 1 : i # 1 => p[i] = q[i - 1]
  BY <1>1, ConcatProperties
<1>3. DOMAIN p = 1 .. n + 1 /\ DOMAIN q = 1 .. n
  BY <1>2, AtIndices
<1>4. /\ \A i \in 1 .. n + 1 : i = 1 \/ i - 1 \in 1 .. n
      /\ 1 \in 1 .. n + 1 /\ \A i \in 1 .. n : i + 1 \in 1 .. n + 1 /\ i + 1 # 1 /\ (i + 1) - 1 = i
  BY <1>1
<1>5. p # <<>> /\ Head(p) = p[1]
  BY <1>1, <1>2
<1> HIDE DEF p, n
<1>6. Group!ToSet(p) = Group!ToSet(q) \cup {x}
  <2>1. \A i \in 1 .. n : p[i + 1] = q[i]
    BY <1>2, <1>4
  <2>2. /\ \A y : y \in Group!ToSet(p) <=> \E i \in 1 .. n + 1 : p[i] = y
        /\ \A y : y \in Group!ToSet(q) <=> \E i \in 1 .. n : q[i] = y
    BY <1>3 DEF Group!ToSet
  <2>3. \A i \in 1 .. n + 1 : p[i] = x \/ p[i] \in Group!ToSet(q)
    BY <1>2, <1>4, <2>2
  <2>4. x \in Group!ToSet(p) /\ \A i \in 1 .. n : q[i] \in Group!ToSet(p)
    BY <1>2, <1>4, <2>1, <2>2
  <2> QED BY <2>2, <2>3, <2>4
<1>7. ASSUME Group!IsInjective(q), x \notin Group!ToSet(q) PROVE Group!IsInjective(p)
  <2>1. \A i \in 1 .. n : q[i] # x
    BY <1>3, <1>7 DEF Group!ToSet
  <2>2. ASSUME NEW i \in 1 .. n + 1, NEW j \in 1 .. n + 1, p[i] = p[j] PROVE i = j
    <3>1. CASE i = 1 \/ j = 1
      BY <1>2, <1>4, <2>1, <2>2, <3>1
    <3>2. CASE i # 1 /\ j # 1
      <4>1. i - 1 \in 1 .. n /\ j - 1 \in 1 .. n /\ q[i - 1] = q[j - 1]
        BY <1>2, <1>4, <2>2, <3>2
      <4>2. i - 1 = j - 1
        BY <1>3, <1>7, <4>1 DEF Group!IsInjective
      <4> QED BY <4>2
    <3> QED BY <3>1, <3>2
  <2> QED BY <1>3, <2>2 DEF Group!IsInjective
<1> QED BY <1>2, <1>5, <1>6, <1>7 DEF p, n

\* A list is parted: the first n, and the rest.
LEMMA ListParts ==
  ASSUME NEW S, NEW q \in Seq(S), NEW n \in 0 .. Len(q)
  PROVE  LET front == SubSeq(q, 1, n)
             rest  == SubSeq(q, n + 1, Len(q))
         IN  /\ front \in Seq(S) /\ rest \in Seq(S) /\ Len(front) = n
             /\ Group!ToSet(front) \cup Group!ToSet(rest) = Group!ToSet(q)
             /\ n = Len(q) => rest = <<>>
             /\ Group!IsInjective(q) =>
                  /\ Group!IsInjective(front) /\ Group!IsInjective(rest)
                  /\ Group!ToSet(front) \cap Group!ToSet(rest) = {}
<1> DEFINE front == SubSeq(q, 1, n)
           rest  == SubSeq(q, n + 1, Len(q))
           m == Len(q)
<1>1. m \in Nat /\ n \in Nat /\ n <= m /\ DOMAIN q = 1 .. m /\ \A i \in 1 .. m : q[i] \in S
  BY AtIndices
<1>2. front \in Seq(S) /\ Len(front) = n /\ \A i \in 1 .. n : front[i] = q[i]
  <2>1. \A i \in 1 .. n : q[i] \in S
    BY <1>1
  <2>2. /\ front \in Seq(S) /\ Len(front) = (IF 1 <= n THEN n - 1 + 1 ELSE 0)
        /\ \A i \in 1 .. n - 1 + 1 : front[i] = q[1 + i - 1]
    BY <1>1, <2>1, SubSeqProperties
  <2> HIDE DEF front
  <2> QED BY <1>1, <2>2
<1>3. rest \in Seq(S) /\ Len(rest) = m - n /\ \A i \in 1 .. m - n : rest[i] = q[n + i]
  <2>1. \A i \in n + 1 .. m : q[i] \in S
    BY <1>1
  <2>2. /\ rest \in Seq(S) /\ Len(rest) = (IF n + 1 <= m THEN m - (n + 1) + 1 ELSE 0)
        /\ \A i \in 1 .. m - (n + 1) + 1 : rest[i] = q[(n + 1) + i - 1]
    BY <1>1, <2>1, SubSeqProperties
  <2> HIDE DEF rest
  <2>0. m \in Nat /\ n \in Nat /\ n <= m
    BY <1>1
  <2>3. (n + 1 <= m => m - (n + 1) + 1 = m - n) /\ (~(n + 1 <= m) => m - n = 0)
    <3> HIDE DEF m
    <3> QED BY <2>0
  <2>4. m - (n + 1) + 1 = m - n /\ \A i \in 1 .. m - n : (n + 1) + i - 1 = n + i
    BY <1>1
  <2> QED BY <2>2, <2>3, <2>4
<1>4. DOMAIN front = 1 .. n /\ DOMAIN rest = 1 .. m - n
  BY <1>2, <1>3, AtIndices
<1>5. n = m => rest = <<>>
  BY <1>1, SubSeqEmpty
<1> HIDE DEF front, rest, m
<1>6. /\ \A i \in 1 .. m : i \in 1 .. n \/ (i - n \in 1 .. m - n /\ n + (i - n) = i)
      /\ \A i \in 1 .. n : i \in 1 .. m
      /\ \A i \in 1 .. m - n : n + i \in 1 .. m /\ n + i \notin 1 .. n
  BY <1>1
<1>7. Group!ToSet(front) \cup Group!ToSet(rest) = Group!ToSet(q)
  <2>1. \A i \in 1 .. m : i \in 1 .. n \/ (i - n \in 1 .. m - n /\ rest[i - n] = q[i])
    BY <1>3, <1>6
  <2>2. /\ \A y : y \in Group!ToSet(front) <=> \E i \in 1 .. n : front[i] = y
        /\ \A y : y \in Group!ToSet(rest) <=> \E i \in 1 .. m - n : rest[i] = y
        /\ \A y : y \in Group!ToSet(q) <=> \E i \in 1 .. m : q[i] = y
    BY <1>1, <1>4 DEF Group!ToSet
  <2>3. \A i \in 1 .. m : q[i] \in Group!ToSet(front) \cup Group!ToSet(rest)
    BY <1>2, <2>1, <2>2
  <2>4. /\ \A i \in 1 .. n : front[i] \in Group!ToSet(q)
        /\ \A i \in 1 .. m - n : rest[i] \in Group!ToSet(q)
    BY <1>2, <1>3, <1>6, <2>2
  <2> QED BY <2>2, <2>3, <2>4
<1>8. ASSUME Group!IsInjective(q)
      PROVE  /\ Group!IsInjective(front) /\ Group!IsInjective(rest)
             /\ Group!ToSet(front) \cap Group!ToSet(rest) = {}
  <2>1. Group!IsInjective(front)
    BY <1>1, <1>2, <1>4, <1>6, <1>8 DEF Group!IsInjective
  <2>2. Group!IsInjective(rest)
    <3>1. ASSUME NEW i \in 1 .. m - n, NEW j \in 1 .. m - n, rest[i] = rest[j] PROVE i = j
      <4>1. n + i = n + j
        BY <1>1, <1>3, <1>6, <1>8, <3>1 DEF Group!IsInjective
      <4> QED BY <1>1, <4>1
    <3> QED BY <1>4, <3>1 DEF Group!IsInjective
  <2>3. ASSUME NEW i \in 1 .. n, NEW j \in 1 .. m - n PROVE front[i] # rest[j]
    <3>1. i \in 1 .. m /\ n + j \in 1 .. m /\ i # n + j
      BY <1>6
    <3> QED BY <1>1, <1>2, <1>3, <1>8, <3>1 DEF Group!IsInjective
  <2> QED BY <1>4, <2>1, <2>2, <2>3 DEF Group!ToSet
<1> QED BY <1>2, <1>3, <1>5, <1>7, <1>8 DEF front, rest, m

\* The first of a list goes.
LEMMA ListLoses ==
  ASSUME NEW S, NEW q \in Seq(S), q # <<>>
  PROVE  /\ Tail(q) \in Seq(S) /\ Head(q) \in S /\ Head(q) \in Group!ToSet(q)
         /\ Group!ToSet(Tail(q)) \cup {Head(q)} = Group!ToSet(q)
         /\ Group!IsInjective(q) =>
              Group!IsInjective(Tail(q)) /\ Group!ToSet(Tail(q)) = Group!ToSet(q) \ {Head(q)}
<1> DEFINE front == SubSeq(q, 1, 1)
           rest == SubSeq(q, 2, Len(q))
<1>1. Tail(q) = rest /\ Tail(q) \in Seq(S) /\ Head(q) \in S
  BY TailIsSubSeq, HeadTailProperties
<1>2. Len(q) \in Nat \ {0} /\ Head(q) = q[1]
  BY EmptySeq
<1>3. 1 \in 0 .. Len(q) /\ 1 + 1 = 2
  BY <1>2
<1>4. /\ front \in Seq(S) /\ Len(front) = 1
      /\ Group!ToSet(front) \cup Group!ToSet(rest) = Group!ToSet(q)
      /\ Group!IsInjective(q) =>
           Group!IsInjective(rest) /\ Group!ToSet(front) \cap Group!ToSet(rest) = {}
  <2>1. /\ front \in Seq(S) /\ Len(front) = 1
        /\ Group!ToSet(front) \cup Group!ToSet(SubSeq(q, 1 + 1, Len(q))) = Group!ToSet(q)
        /\ Group!IsInjective(q) =>
             /\ Group!IsInjective(SubSeq(q, 1 + 1, Len(q)))
             /\ Group!ToSet(front) \cap Group!ToSet(SubSeq(q, 1 + 1, Len(q))) = {}
    BY <1>3, ListParts
  <2> QED BY <1>3, <2>1
<1>5. Group!ToSet(front) = {Head(q)}
  <2>1. front[1] = q[1]
    BY <1>2, SubSeqProperties, AtIndices
  <2>2. DOMAIN front = 1 .. 1
    BY <1>4, AtIndices
  <2> HIDE DEF front
  <2> QED BY <1>2, <2>1, <2>2 DEF Group!ToSet
<1> HIDE DEF front, rest
<1> QED BY <1>1, <1>4, <1>5

\* One of a list goes, wherever it is.
LEMMA ListWithout ==
  ASSUME NEW S, NEW q \in Seq(S), Group!IsInjective(q), NEW k \in Group!ToSet(q)
  PROVE  /\ Group!Without(q, k) \in Seq(S) /\ Group!IsInjective(Group!Without(q, k))
         /\ Group!ToSet(Group!Without(q, k)) = Group!ToSet(q) \ {k}
<1>1. PICK i \in 1 .. Len(q) : q[i] = k /\ i = CHOOSE j \in DOMAIN q : q[j] = k
  <2>1. \E j \in DOMAIN q : q[j] = k
    BY DEF Group!ToSet
  <2> QED BY <2>1, AtIndices
<1>2. PICK n \in Nat : n = i - 1 /\ n + 1 = i /\ n \in 0 .. Len(q) /\ i \in 0 .. Len(q)
  BY AtIndices
<1> DEFINE front == SubSeq(q, 1, n)
           mid == SubSeq(q, n + 1, Len(q))
           upto == SubSeq(q, 1, i)
           back == SubSeq(q, i + 1, Len(q))
<1>3. Group!Without(q, k) = front \o back
  BY <1>1, <1>2 DEF Group!Without, Group!RemoveAt
<1>4. /\ front \in Seq(S) /\ mid \in Seq(S) /\ Len(front) = n
      /\ Group!ToSet(front) \cup Group!ToSet(mid) = Group!ToSet(q)
      /\ Group!IsInjective(front) /\ Group!ToSet(front) \cap Group!ToSet(mid) = {}
  BY <1>2, ListParts
<1>5. /\ upto \in Seq(S) /\ back \in Seq(S) /\ Len(upto) = i
      /\ Group!ToSet(upto) \cup Group!ToSet(back) = Group!ToSet(q)
      /\ Group!IsInjective(back) /\ Group!ToSet(upto) \cap Group!ToSet(back) = {}
  BY <1>2, ListParts
<1>6. Group!ToSet(upto) = Group!ToSet(front) \cup {k}
  <2>1. \A j \in 1 .. Len(q) : q[j] \in S
    BY AtIndices
  <2>2. \A j \in 1 .. i : upto[j] = q[j]
    BY <1>2, <2>1, SubSeqProperties
  <2>3. \A j \in 1 .. n : front[j] = q[j]
    BY <1>2, <2>1, SubSeqProperties
  <2>4. DOMAIN upto = 1 .. i /\ DOMAIN front = 1 .. n
    BY <1>4, <1>5, AtIndices
  <2>5. (\A j \in 1 .. i : j = i \/ j \in 1 .. n) /\ i \in 1 .. i /\ \A j \in 1 .. n : j \in 1 .. i
    BY <1>2
  <2> HIDE DEF upto, front
  <2> QED BY <1>1, <2>2, <2>3, <2>4, <2>5 DEF Group!ToSet
<1>7. k \notin Group!ToSet(front) /\ k \notin Group!ToSet(back)
  <2>1. \A j \in 1 .. n : front[j] = q[j] /\ j \in DOMAIN q /\ j # i /\ i \in DOMAIN q
    <3>1. DOMAIN q = 1 .. Len(q) /\ Len(q) \in Nat /\ \A j \in 1 .. Len(q) : q[j] \in S
      BY AtIndices
    <3>2. (\A j \in 1 .. n : j \in 1 .. Len(q) /\ j # i) /\ i \in DOMAIN q
      <4>1. n \in Nat /\ n + 1 = i /\ Len(q) \in Nat /\ i \in 1 .. Len(q)
        BY <1>2, <3>1
      <4> QED BY <3>1, <4>1
    <3>3. \A j \in 1 .. n : q[j] \in S
      BY <3>1, <3>2
    <3>4. \A j \in 1 .. n : front[j] = q[j]
      BY <1>2, <3>3, SubSeqProperties
    <3> HIDE DEF front
    <3> QED BY <3>1, <3>2, <3>4
  <2>2. DOMAIN front = 1 .. n
    BY <1>4, AtIndices
  <2>3. k \notin Group!ToSet(front)
    BY <1>1, <2>1, <2>2 DEF Group!ToSet, Group!IsInjective
  <2> QED BY <1>5, <1>6, <2>3
<1> HIDE DEF front, back, mid, upto
<1>8. /\ front \o back \in Seq(S) /\ Len(front \o back) = Len(front) + Len(back)
      /\ \A j \in 1 .. Len(front) + Len(back) :
           (front \o back)[j] = IF j <= Len(front) THEN front[j] ELSE back[j - Len(front)]
  BY <1>4, <1>5, ConcatProperties
<1> DEFINE p == front \o back
           a == Len(front)
           c == Len(back)
<1>9. /\ a \in Nat /\ c \in Nat /\ DOMAIN front = 1 .. a /\ DOMAIN back = 1 .. c
      /\ DOMAIN p = 1 .. a + c
  BY <1>4, <1>5, <1>8, AtIndices
<1>10. /\ \A j \in 1 .. a : p[j] = front[j]
       /\ \A j \in 1 .. a + c : j \notin 1 .. a => j - a \in 1 .. c /\ p[j] = back[j - a]
       /\ \A j \in 1 .. a : j \in 1 .. a + c
       /\ \A j \in 1 .. c : j + a \in 1 .. a + c /\ p[j + a] = back[j]
  <2> HIDE DEF p
  <2>1. \A j \in 1 .. a + c : p[j] = IF j <= a THEN front[j] ELSE back[j - a]
    BY <1>8 DEF p
  <2> HIDE DEF a, c
  <2>2. \A j \in 1 .. c : j + a \in 1 .. a + c /\ ~(j + a <= a) /\ (j + a) - a = j
    BY <1>9
  <2> QED BY <1>9, <2>1, <2>2
<1> HIDE DEF p, a, c
<1>11. Group!ToSet(p) = Group!ToSet(front) \cup Group!ToSet(back)
  <2>1. /\ \A y : y \in Group!ToSet(front) <=> \E j \in 1 .. a : front[j] = y
        /\ \A y : y \in Group!ToSet(back) <=> \E j \in 1 .. c : back[j] = y
        /\ \A y : y \in Group!ToSet(p) <=> \E j \in 1 .. a + c : p[j] = y
    BY <1>9 DEF Group!ToSet
  <2>2. \A j \in 1 .. a + c : p[j] \in Group!ToSet(front) \cup Group!ToSet(back)
    BY <1>10, <2>1
  <2>3. /\ \A j \in 1 .. a : front[j] \in Group!ToSet(p)
        /\ \A j \in 1 .. c : back[j] \in Group!ToSet(p)
    BY <1>10, <2>1
  <2> QED BY <2>1, <2>2, <2>3
<1>12. Group!IsInjective(p)
  <2>1. ASSUME NEW x \in 1 .. a + c, NEW y \in 1 .. a + c, p[x] = p[y] PROVE x = y
    <3>1. CASE x \in 1 .. a /\ y \in 1 .. a
      BY <1>4, <1>9, <1>10, <2>1, <3>1 DEF Group!IsInjective
    <3>2. CASE x \notin 1 .. a /\ y \notin 1 .. a
      <4>0. x - a \in 1 .. c /\ y - a \in 1 .. c /\ back[x - a] = back[y - a]
        BY <1>10, <2>1, <3>2
      <4>1. x - a = y - a
        BY <1>5, <1>9, <4>0 DEF Group!IsInjective
      <4> QED BY <1>9, <4>1
    <3>3. Group!ToSet(front) \cap Group!ToSet(back) = {}
      BY <1>5, <1>6
    <3>4. CASE x \in 1 .. a /\ y \notin 1 .. a
      <4>1. p[x] \in Group!ToSet(front) /\ p[y] \in Group!ToSet(back)
        BY <1>9, <1>10, <3>4 DEF Group!ToSet
      <4> QED BY <2>1, <3>3, <4>1
    <3>5. CASE x \notin 1 .. a /\ y \in 1 .. a
      <4>1. p[y] \in Group!ToSet(front) /\ p[x] \in Group!ToSet(back)
        BY <1>9, <1>10, <3>5 DEF Group!ToSet
      <4> QED BY <2>1, <3>3, <4>1
    <3> QED BY <3>1, <3>2, <3>4, <3>5
  <2> QED BY <1>9, <2>1 DEF Group!IsInjective
<1>13. Group!ToSet(front) \cup Group!ToSet(back) = Group!ToSet(q) \ {k}
  BY <1>5, <1>6, <1>7
<1> QED BY <1>3, <1>8, <1>11, <1>12, <1>13 DEF p

-----------------------------------------------------------------------------
(* Task groups: the invariant *)

\* The tasks between their spawn and the end of their hold on the group.
Running == {"start", "body", "asking", "ended", "counted"}
Uncounted == Running \ {"counted"}
In(S) == {b \in Blocks : task[b] \in S}

SweepType == [src : Group!Sources \cup {NoReason}, why : Reasons \cup {NoReason},
              keys : Seq(Blocks \X Nat), more : BOOLEAN]

GroupTyped ==
  /\ reason \in [Group!Sources -> Reasons \cup {NoReason}]
  /\ list \in [Group!Sources -> Seq(Blocks \X Nat)] /\ refs \in [Group!Sources -> Int]
  /\ held \in SUBSET Others /\ sweep \in [Group!Callers -> SweepType]
  /\ life \in [Blocks -> Nat] /\ task \in [Blocks -> Group!States]
  /\ memb \in [Blocks -> Seq(Group!Sources)] /\ linked \in [Blocks -> SUBSET Group!Sources]
  /\ request \in [Blocks -> Reasons \cup {NoReason}] /\ accepted \in SUBSET Blocks
  /\ count \in Int /\ spawned \in Int /\ completed \in Int /\ cancelled \in Int
  /\ owner \in {"open", "joined", "reported", "dropping", "gone"}

\* A task has one record a source, and only while it runs or is taken apart.  The record is on
\* its source's list until a sweep takes it off, and a source that was not cancelled has no sweep.
RecordsTrue(b) ==
  /\ Group!IsInjective(memb[b]) /\ linked[b] \subseteq Group!ToSet(memb[b])
  /\ task[b] \in {"free", "start"} => memb[b] = <<>>
  /\ task[b] \in {"asking", "unlink"} => memb[b] # <<>>
  /\ task[b] = "asking" => reason[Head(memb[b])] # NoReason
  /\ task[b] \in Running => \A s \in Group!ToSet(memb[b]) : reason[s] = NoReason => s \in linked[b]

\* A list holds the present key of each task whose record is on it, once.
Listed(s) == {Group!Key(b) : b \in {x \in Blocks : s \in linked[x]}}
ListTrue(s) == Group!IsInjective(list[s]) /\ Group!ToSet(list[s]) = Listed(s)

\* A sweep has the reason of its source, and of the tasks that still run only members of it.
SweepTrue(c) ==
  \/ sweep[c] = Group!NoSweep
  \/ /\ sweep[c].src \in Group!Sources /\ sweep[c].why \in Reasons
     /\ reason[sweep[c].src] = sweep[c].why
     /\ \A k \in Group!ToSet(sweep[c].keys) :
          /\ k[2] <= life[k[1]]
          /\ k[2] = life[k[1]] /\ task[k[1]] \in Running
               => sweep[c].src \in Group!ToSet(memb[k[1]])

\* The request of s is on its way to b: b asks itself, or a sweep has its key or will take it.
SweepComing(c, b, s) ==
  /\ sweep[c].src = s
  /\ Group!Key(b) \in Group!ToSet(sweep[c].keys) \/ (s \in linked[b] /\ sweep[c].more)
Coming(b, s) ==
  \/ task[b] = "asking" /\ Head(memb[b]) = s
  \/ \E c \in Group!Callers : SweepComing(c, b, s)

\* Whoever is to be asked was, or will be; who was asked is a member of a source that was cancelled.
Asked(b) ==
  task[b] \in Running =>
    /\ \A s \in Group!ToSet(memb[b]) :
         reason[s] # NoReason => request[b] # NoReason \/ Coming(b, s)
    /\ request[b] # NoReason => \E s \in Group!ToSet(memb[b]) : reason[s] = request[b]

GroupSound ==
  /\ GroupTyped
  /\ \A b \in Blocks : RecordsTrue(b) /\ Asked(b)
  /\ \A s \in Group!Sources : ListTrue(s)
  /\ \A c \in Group!Callers : SweepTrue(c)

\* The wait group counts the tasks that run, and the report those that no longer do.
CountTrue ==
  /\ count = Cardinality(In(Running))
  /\ completed + cancelled + Cardinality(In(Uncounted)) = spawned
  /\ owner \in {"joined", "gone"} => count = 0

\* The references of a source: its handle, its records, and of the group's the children's tokens.
Holder(s) == IF s \in held \/ (s = Own /\ owner # "gone") THEN 1 ELSE 0
MembersOf(s) == {b \in Blocks : s \in Group!ToSet(memb[b])}
Tokens(s) == IF s = Own THEN Cardinality(In(Running)) ELSE 0
RefsTrue == \A s \in Group!Sources :
              refs[s] = Holder(s) + Cardinality(MembersOf(s)) + Tokens(s)

GroupInv == GroupSound /\ CountTrue /\ RefsTrue

-----------------------------------------------------------------------------
(* Task groups: counting *)

\* Two sets of tasks that differ in one at most.
LEMMA BlocksCount ==
  ASSUME NEW T \in SUBSET Blocks, NEW U \in SUBSET Blocks, NEW b \in Blocks,
         \A x \in Blocks : x # b => (x \in U <=> x \in T)
  PROVE  /\ Cardinality(T) \in Nat
         /\ Cardinality(U) = Cardinality(T) - Bit(b \in T) + Bit(b \in U)
         /\ b \in T => Cardinality(T) > 0
         /\ Cardinality(T) = 0 => T = {}
<1>1. IsFiniteSet(T) /\ IsFiniteSet(U)
  BY GroupGiven, FS_Subset
<1>2. Cardinality(T) \in Nat /\ (b \in T => Cardinality(T) # 0) /\ (Cardinality(T) = 0 => T = {})
  BY <1>1, FS_CardinalityType, FS_EmptySet
<1>3. /\ Cardinality(T \cup {b}) = IF b \in T THEN Cardinality(T) ELSE Cardinality(T) + 1
      /\ Cardinality(T \ {b}) = IF b \in T THEN Cardinality(T) - 1 ELSE Cardinality(T)
  BY <1>1, FS_AddElement, FS_RemoveElement
<1>4. U = IF b \in U THEN T \cup {b} ELSE T \ {b}
  OBVIOUS
<1> QED BY <1>2, <1>3, <1>4 DEF Bit

\* A task that goes on is counted where it is.
LEMMA TaskMoves ==
  ASSUME GroupTyped, NEW b \in Blocks, NEW l, Group!Goto(b, l), NEW S
  PROVE  /\ Cardinality(In(S)) \in Nat
         /\ Cardinality(In(S))' = Cardinality(In(S)) - Bit(task[b] \in S) + Bit(l \in S)
         /\ task[b] \in S => Cardinality(In(S)) > 0
<1>1. task'[b] = l /\ \A x \in Blocks : x # b => task'[x] = task[x]
  BY DEF GroupTyped, Group!Goto
<1>2. /\ b \in In(S) <=> task[b] \in S
      /\ b \in In(S)' <=> l \in S
      /\ \A x \in Blocks : x # b => (x \in In(S)' <=> x \in In(S))
  BY <1>1 DEF In
<1>3. In(S) \in SUBSET Blocks /\ In(S)' \in SUBSET Blocks
  BY DEF In
<1>4. PICK T \in SUBSET Blocks, U \in SUBSET Blocks : T = In(S) /\ U = In(S)'
  BY <1>3
<1>5. /\ Cardinality(T) \in Nat
      /\ Cardinality(U) = Cardinality(T) - Bit(b \in T) + Bit(b \in U)
      /\ b \in T => Cardinality(T) > 0
  BY <1>2, <1>4, BlocksCount
<1> QED BY <1>2, <1>4, <1>5 DEF Bit

\* A task whose records change is counted by its sources.
LEMMA RecordsMove ==
  ASSUME GroupTyped, NEW b \in Blocks, \A x \in Blocks : x # b => memb'[x] = memb[x],
         NEW s \in Group!Sources
  PROVE  /\ Cardinality(MembersOf(s)) \in Nat
         /\ Cardinality(MembersOf(s))' = Cardinality(MembersOf(s))
              - Bit(s \in Group!ToSet(memb[b])) + Bit(s \in Group!ToSet(memb'[b]))
<1>1. /\ b \in MembersOf(s) <=> s \in Group!ToSet(memb[b])
      /\ b \in MembersOf(s)' <=> s \in Group!ToSet(memb'[b])
      /\ \A x \in Blocks : x # b => (x \in MembersOf(s)' <=> x \in MembersOf(s))
  BY DEF MembersOf
<1>2. MembersOf(s) \in SUBSET Blocks /\ MembersOf(s)' \in SUBSET Blocks
  BY DEF MembersOf
<1>3. PICK T \in SUBSET Blocks, U \in SUBSET Blocks : T = MembersOf(s) /\ U = MembersOf(s)'
  BY <1>2
<1>4. Cardinality(T) \in Nat /\ Cardinality(U) = Cardinality(T) - Bit(b \in T) + Bit(b \in U)
  BY <1>1, <1>3, BlocksCount
<1> QED BY <1>1, <1>3, <1>4 DEF Bit

LEMMA CountType ==
  ASSUME GroupTyped
  PROVE  /\ \A S : Cardinality(In(S)) \in Nat /\ (Cardinality(In(S)) = 0 => In(S) = {})
         /\ \A s \in Group!Sources : Cardinality(MembersOf(s)) \in Nat
<1>1. ASSUME NEW T \in SUBSET Blocks
      PROVE  Cardinality(T) \in Nat /\ (Cardinality(T) = 0 => T = {})
  BY GroupGiven, FS_Subset, FS_CardinalityType, FS_EmptySet
<1> QED BY <1>1 DEF In, MembersOf

\* Nothing that is counted changes.
LEMMA CountsStill ==
  ASSUME CountTrue, RefsTrue, UNCHANGED <<refs, held, count, spawned, completed, cancelled>>,
         In(Running)' = In(Running), In(Uncounted)' = In(Uncounted), UNCHANGED memb,
         owner' = owner \/ (owner' \in {"open", "reported", "dropping"} /\ owner # "gone")
                        \/ (owner' = "joined" /\ count = 0 /\ owner # "gone")
  PROVE  CountTrue' /\ RefsTrue'
<1>1. CountTrue'
  BY DEF CountTrue
<1>2. ASSUME NEW s \in Group!Sources
      PROVE  Holder(s)' = Holder(s) /\ MembersOf(s)' = MembersOf(s) /\ Tokens(s)' = Tokens(s)
  BY DEF Holder, MembersOf, Tokens
<1> QED BY <1>1, <1>2 DEF RefsTrue

-----------------------------------------------------------------------------
(* Task groups: steps that leave the lists alone *)

LEMMA StillSound ==
  ASSUME GroupSound, GroupTyped',
         UNCHANGED <<reason, list, sweep, life, task, memb, linked, request>>
  PROVE  GroupSound'
<1>1. ASSUME NEW b \in Blocks PROVE RecordsTrue(b)' /\ Asked(b)'
  <2>1. RecordsTrue(b) /\ Asked(b)
    BY DEF GroupSound
  <2>2. \A s : Coming(b, s)' <=> Coming(b, s)
    BY DEF Coming, SweepComing, Group!Key
  <2> QED BY <2>1, <2>2 DEF RecordsTrue, Asked
<1>2. ASSUME NEW s \in Group!Sources PROVE ListTrue(s)'
  BY <1>2 DEF GroupSound, ListTrue, Listed, Group!Key
<1>3. ASSUME NEW c \in Group!Callers PROVE SweepTrue(c)'
  BY <1>3 DEF GroupSound, SweepTrue
<1> QED BY <1>1, <1>2, <1>3 DEF GroupSound

\* A task that goes on, and neither starts nor ends to ask itself.
LEMMA MoveSound ==
  ASSUME GroupSound, GroupTyped', NEW b \in Blocks, NEW l, Group!Goto(b, l),
         UNCHANGED <<reason, list, sweep, life, memb, linked, request>>,
         l \in Running => task[b] \in Running, task[b] # "asking", l # "asking",
         l \in {"free", "start"} => memb[b] = <<>>, l = "unlink" => memb[b] # <<>>
  PROVE  GroupSound'
<1>1. task'[b] = l /\ \A x \in Blocks : x # b => task'[x] = task[x]
  BY DEF GroupSound, GroupTyped, Group!Goto
<1>2. ASSUME NEW x \in Blocks PROVE RecordsTrue(x)' /\ Asked(x)'
  <2>1. RecordsTrue(x) /\ Asked(x)
    BY DEF GroupSound
  <2>2. \A s : Coming(x, s)' <=> Coming(x, s)
    BY <1>1 DEF Coming, SweepComing, Group!Key
  <2> QED BY <1>1, <2>1, <2>2 DEF RecordsTrue, Asked
<1>3. ASSUME NEW s \in Group!Sources PROVE ListTrue(s)'
  BY <1>3 DEF GroupSound, ListTrue, Listed, Group!Key
<1>4. ASSUME NEW c \in Group!Callers PROVE SweepTrue(c)'
  <2>1. SweepTrue(c)
    BY DEF GroupSound
  <2>2. CASE sweep[c] = Group!NoSweep
    BY <2>2 DEF SweepTrue
  <2>3. CASE sweep[c] # Group!NoSweep
    <3>1. \A k \in Group!ToSet(sweep[c].keys) : k[1] \in Blocks
      <4>1. sweep[c].keys \in Seq(Blocks \X Nat)
        BY DEF GroupSound, GroupTyped, SweepType
      <4>2. Group!ToSet(sweep[c].keys) \subseteq Blocks \X Nat
        BY <4>1, AtIndices
      <4> QED BY <4>2
    <3>2. \A k \in Group!ToSet(sweep[c].keys) : task'[k[1]] \in Running => task[k[1]] \in Running
      BY <1>1, <3>1
    <3> QED BY <2>1, <2>3, <3>2 DEF SweepTrue
  <2> QED BY <2>2, <2>3
<1> QED BY <1>2, <1>3, <1>4 DEF GroupSound

\* The task has not the records of its sweep's keys only: its keys are of the tasks.
LEMMA KeysTyped ==
  ASSUME GroupTyped, NEW c \in Group!Callers
  PROVE  /\ sweep[c] \in SweepType /\ sweep[c].keys \in Seq(Blocks \X Nat)
         /\ \A k \in Group!ToSet(sweep[c].keys) : k[1] \in Blocks /\ k[2] \in Nat /\ k = <<k[1], k[2]>>
<1>1. sweep[c] \in SweepType /\ sweep[c].keys \in Seq(Blocks \X Nat)
  BY DEF GroupTyped, SweepType
<1>2. Group!ToSet(sweep[c].keys) \subseteq Blocks \X Nat
  BY <1>1, AtIndices
<1> QED BY <1>1, <1>2

\* A source without a sweep is nobody's.
LEMMA NoSweepTyped ==
  /\ Group!NoSweep \in SweepType /\ Group!NoSweep.src = NoReason /\ Group!NoSweep.keys = <<>>
  /\ Group!NoSweep.more = FALSE
BY EmptySeq DEF Group!NoSweep, SweepType

\* A request that was made stays, and is for a reason.
LEMMA RequestMade ==
  ASSUME GroupTyped, NEW b \in Blocks, NEW n, NEW why \in Reasons,
         Group!Requested(<<b, n>>, why)
  PROVE  /\ request' \in [Blocks -> Reasons \cup {NoReason}]
         /\ \A x \in Blocks : x # b => request'[x] = request[x]
         /\ request'[b] = request[b] \/ (request[b] = NoReason /\ request'[b] = why /\ n = life[b])
         /\ task[b] # "free" /\ n = life[b] => request'[b] # NoReason
<1>1. /\ <<b, n>>[1] = b /\ <<b, n>>[2] = n
  OBVIOUS
<1>2. request' = IF task[b] # "free" /\ life[b] = n /\ request[b] = NoReason
                   THEN [request EXCEPT ![b] = why] ELSE request
  BY <1>1 DEF Group!Requested
<1> QED BY <1>2, GroupGiven DEF GroupTyped

-----------------------------------------------------------------------------
(* Task groups: a sweep *)

\* A key is asked outside the lock.
LEMMA RequestNextKept ==
  ASSUME GroupInv, NEW c \in Group!Callers, Group!RequestNext(c) PROVE GroupInv'
<1> DEFINE w == sweep[c]
           k == Head(w.keys)
           b == k[1]
<1>1. /\ GroupTyped /\ GroupSound /\ w.keys # <<>> /\ Group!Requested(k, w.why)
      /\ sweep' = [sweep EXCEPT ![c].keys = Tail(w.keys)]
      /\ UNCHANGED <<reason, list, refs, held, life, task, memb, linked, accepted,
                     count, spawned, completed, cancelled, owner>>
  BY DEF GroupInv, GroupSound, Group!RequestNext, Group!groupVars
<1>2. /\ w \in SweepType /\ w.keys \in Seq(Blocks \X Nat)
      /\ \A x \in Group!ToSet(w.keys) : x[1] \in Blocks /\ x[2] \in Nat /\ x = <<x[1], x[2]>>
  BY <1>1, KeysTyped
<1>3. /\ Tail(w.keys) \in Seq(Blocks \X Nat) /\ k \in Group!ToSet(w.keys)
      /\ Group!ToSet(Tail(w.keys)) \cup {k} = Group!ToSet(w.keys)
  BY <1>1, <1>2, ListLoses
<1>4. /\ w # Group!NoSweep /\ w.src \in Group!Sources /\ w.why \in Reasons
      /\ reason[w.src] = w.why
      /\ \A x \in Group!ToSet(w.keys) :
           /\ x[2] <= life[x[1]]
           /\ x[2] = life[x[1]] /\ task[x[1]] \in Running => w.src \in Group!ToSet(memb[x[1]])
  BY <1>1, NoSweepTyped DEF GroupSound, SweepTrue
<1>5. b \in Blocks /\ k[2] \in Nat /\ k = <<b, k[2]>>
  BY <1>2, <1>3
<1>6. /\ request' \in [Blocks -> Reasons \cup {NoReason}]
      /\ \A x \in Blocks : x # b => request'[x] = request[x]
      /\ request'[b] = request[b]
           \/ (request[b] = NoReason /\ request'[b] = w.why /\ k[2] = life[b])
      /\ task[b] # "free" /\ k[2] = life[b] => request'[b] # NoReason
  BY <1>1, <1>4, <1>5, RequestMade
<1>7. /\ sweep'[c].src = w.src /\ sweep'[c].why = w.why /\ sweep'[c].more = w.more
      /\ sweep'[c].keys = Tail(w.keys) /\ sweep'[c] \in SweepType
      /\ sweep' \in [Group!Callers -> SweepType]
      /\ \A d \in Group!Callers : d # c => sweep'[d] = sweep[d]
  <2>1. sweep \in [Group!Callers -> SweepType]
    BY <1>1 DEF GroupTyped
  <2>2. sweep' = [sweep EXCEPT ![c] = [w EXCEPT !.keys = Tail(w.keys)]]
    BY <1>1
  <2>3. PICK v \in SweepType : v = [w EXCEPT !.keys = Tail(w.keys)]
    BY <1>2, <1>3 DEF SweepType
  <2>4. /\ v.src = w.src /\ v.why = w.why /\ v.more = w.more /\ v.keys = Tail(w.keys)
    BY <1>2, <2>3 DEF SweepType
  <2> QED BY <2>1, <2>2, <2>3, <2>4
<1> HIDE DEF w, k, b
<1>8. GroupTyped'
  BY <1>1, <1>6, <1>7 DEF GroupTyped
<1>9. ASSUME NEW x \in Blocks PROVE RecordsTrue(x)' /\ Asked(x)'
  <2>1. RecordsTrue(x) /\ Asked(x)
    BY <1>1 DEF GroupSound
  <2>2. RecordsTrue(x)'
    BY <1>1, <2>1 DEF RecordsTrue
  <2>3. ASSUME task[x] \in Running, NEW s \in Group!ToSet(memb[x]), reason[s] # NoReason
        PROVE  request'[x] # NoReason \/ Coming(x, s)'
    <3>1. CASE request[x] # NoReason
      BY <1>6, <3>1
    <3>2. CASE Coming(x, s)
      <4>1. CASE task[x] = "asking" /\ Head(memb[x]) = s
        BY <1>1, <4>1 DEF Coming
      <4>2. CASE \E d \in Group!Callers : SweepComing(d, x, s)
        <5>1. PICK d \in Group!Callers : SweepComing(d, x, s)
          BY <4>2
        <5>2. CASE d # c \/ (s \in linked[x] /\ sweep[d].more)
          <6>1. SweepComing(d, x, s)'
            BY <1>1, <1>7, <5>1, <5>2 DEF SweepComing, Group!Key, w
          <6> QED BY <6>1 DEF Coming
        <5>3. CASE d = c /\ Group!Key(x) \in Group!ToSet(w.keys)
          <6>1. CASE Group!Key(x) = k
            <7>1. x = b /\ k[2] = life[b]
              BY <1>5, <6>1 DEF Group!Key
            <7> QED BY <1>6, <2>3, <7>1 DEF Running
          <6>2. CASE Group!Key(x) \in Group!ToSet(Tail(w.keys))
            <7>1. SweepComing(c, x, s)'
              BY <1>1, <1>7, <5>1, <5>3, <6>2 DEF SweepComing, Group!Key, w
            <7> QED BY <7>1 DEF Coming
          <6> QED BY <1>3, <5>3, <6>1, <6>2
        <5> QED BY <5>1, <5>2, <5>3 DEF SweepComing, w
      <4> QED BY <3>2, <4>1, <4>2 DEF Coming
    <3> QED BY <2>1, <2>3, <3>1, <3>2 DEF Asked
  <2>4. ASSUME task[x] \in Running, request'[x] # NoReason
        PROVE  \E s \in Group!ToSet(memb[x]) : reason[s] = request'[x]
    <3>1. CASE request'[x] = request[x]
      BY <2>1, <2>4, <3>1 DEF Asked
    <3>2. CASE x = b /\ request'[b] = w.why /\ k[2] = life[b]
      BY <1>3, <1>4, <2>4, <3>2 DEF b
    <3> QED BY <1>6, <3>1, <3>2
  <2> QED BY <1>1, <2>2, <2>3, <2>4 DEF Asked
<1>10. ASSUME NEW s \in Group!Sources PROVE ListTrue(s)'
  BY <1>1 DEF GroupSound, ListTrue, Listed, Group!Key
<1>11. ASSUME NEW d \in Group!Callers PROVE SweepTrue(d)'
  <2>1. CASE d = c
    BY <1>1, <1>3, <1>4, <1>7, <2>1 DEF SweepTrue
  <2>2. CASE d # c
    BY <1>1, <1>7, <2>2 DEF GroupSound, SweepTrue
  <2> QED BY <2>1, <2>2
<1>12. GroupSound'
  BY <1>8, <1>9, <1>10, <1>11 DEF GroupSound
<1>13. CountTrue' /\ RefsTrue'
  BY <1>1, CountsStill DEF GroupInv, In
<1> QED BY <1>12, <1>13 DEF GroupInv

\* What a batch takes: the list keeps the rest, and whoever is in neither was not listed.
GatheredTo(c, s, why, keys, more) ==
  /\ sweep' = [sweep EXCEPT ![c] = [src |-> s, why |-> why, keys |-> keys, more |-> more]]
  /\ keys \in Seq(Blocks \X Nat) /\ more \in BOOLEAN
  /\ list' \in [Group!Sources -> Seq(Blocks \X Nat)]
  /\ \A x \in Group!Sources : x # s => list'[x] = list[x]
  /\ linked' \in [Blocks -> SUBSET Group!Sources]
  /\ \A b \in Blocks :
       linked'[b] = IF Group!Key(b) \in Group!ToSet(keys) THEN linked[b] \ {s} ELSE linked[b]
  /\ Group!ToSet(keys) \subseteq Listed(s)
  /\ Group!IsInjective(list'[s]) /\ Group!ToSet(list'[s]) = Listed(s) \ Group!ToSet(keys)
  /\ ~more => Group!ToSet(list'[s]) = {}

LEMMA Gathers ==
  ASSUME GroupSound, NEW c \in Group!Callers, NEW s \in Group!Sources, NEW why \in Reasons,
         Group!Gather(c, s, why)
  PROVE  \E keys, more : GatheredTo(c, s, why, keys, more)
<1>1. GroupTyped /\ list[s] \in Seq(Blocks \X Nat) /\ ListTrue(s)
  BY DEF GroupSound, GroupTyped
<1>2. Len(list[s]) \in Nat /\ CancelBatch \in Nat
  BY <1>1, AtIndices, GroupGiven
<1>3. PICK n \in 0 .. Len(list[s]) : n = IF Len(list[s]) < CancelBatch THEN Len(list[s]) ELSE CancelBatch
  BY <1>2
<1>4. PICK keys, rest : keys = SubSeq(list[s], 1, n) /\ rest = SubSeq(list[s], n + 1, Len(list[s]))
  OBVIOUS
<1>5. /\ list' = [list EXCEPT ![s] = rest]
      /\ linked' = [b \in Blocks |->
                      IF \E i \in 1 .. n : keys[i][1] = b THEN linked[b] \ {s} ELSE linked[b]]
      /\ sweep' = [sweep EXCEPT ![c] = [src |-> s, why |-> why, keys |-> keys,
                                         more |-> n = CancelBatch]]
  BY <1>3, <1>4 DEF Group!Gather
<1>6. /\ keys \in Seq(Blocks \X Nat) /\ rest \in Seq(Blocks \X Nat) /\ Len(keys) = n
      /\ Group!ToSet(keys) \cup Group!ToSet(rest) = Group!ToSet(list[s])
      /\ n = Len(list[s]) => rest = <<>>
      /\ Group!IsInjective(rest) /\ Group!ToSet(keys) \cap Group!ToSet(rest) = {}
  BY SMTT(30), <1>1, <1>4, ListParts DEF ListTrue
<1>7. /\ Group!ToSet(keys) \subseteq Listed(s)
      /\ Group!ToSet(rest) = Listed(s) \ Group!ToSet(keys)
  BY <1>1, <1>6 DEF ListTrue
<1>8. ASSUME NEW b \in Blocks
      PROVE  (\E i \in 1 .. n : keys[i][1] = b) <=> Group!Key(b) \in Group!ToSet(keys)
  <2>1. \A x : x \in Group!ToSet(keys) <=> \E i \in 1 .. n : keys[i] = x
    BY ZenonT(30), <1>6, AtIndices
  <2>2. ASSUME NEW i \in 1 .. n, keys[i][1] = b PROVE Group!Key(b) \in Group!ToSet(keys)
    <3>1. keys[i] \in Listed(s)
      BY <1>7, <2>1
    <3>2. PICK x \in Blocks : keys[i] = Group!Key(x)
      BY <3>1 DEF Listed
    <3>3. x = b
      BY <2>2, <3>2 DEF Group!Key
    <3> QED BY <2>1, <3>2, <3>3
  <2>3. ASSUME NEW i \in 1 .. n, keys[i] = Group!Key(b) PROVE keys[i][1] = b
    BY <2>3 DEF Group!Key
  <2> QED BY <2>1, <2>2, <2>3
<1>9. /\ list' \in [Group!Sources -> Seq(Blocks \X Nat)] /\ list'[s] = rest
      /\ \A x \in Group!Sources : x # s => list'[x] = list[x]
  BY <1>1, <1>5, <1>6 DEF GroupTyped
<1>10. /\ linked' \in [Blocks -> SUBSET Group!Sources]
       /\ \A b \in Blocks :
            linked'[b] = IF Group!Key(b) \in Group!ToSet(keys) THEN linked[b] \ {s} ELSE linked[b]
  <2>1. linked \in [Blocks -> SUBSET Group!Sources]
    BY <1>1 DEF GroupTyped
  <2>2. \A b \in Blocks :
          linked'[b] = IF Group!Key(b) \in Group!ToSet(keys) THEN linked[b] \ {s} ELSE linked[b]
    BY <1>5, <1>8
  <2> QED BY <1>5, <2>1, <2>2
<1>11. n # CancelBatch => Group!ToSet(rest) = {}
  <2>1. n # CancelBatch => rest = <<>>
    BY <1>2, <1>3, <1>6
  <2>2. Group!ToSet(<<>>) = {}
    BY EmptySeq DEF Group!ToSet
  <2> QED BY <2>1, <2>2
<1>12. PICK more \in BOOLEAN : more = (n = CancelBatch)
  OBVIOUS
<1>13. sweep' = [sweep EXCEPT ![c] = [src |-> s, why |-> why, keys |-> keys, more |-> more]]
  BY <1>5, <1>12
<1>14. GatheredTo(c, s, why, keys, more)
  BY <1>6, <1>7, <1>9, <1>10, <1>11, <1>12, <1>13 DEF GatheredTo
<1> QED BY <1>14

\* A batch taken: whoever was listed is in it, or in a later one.
LEMMA GatherKept ==
  ASSUME GroupSound, NEW c \in Group!Callers, NEW s \in Group!Sources, NEW why \in Reasons,
         Group!Gather(c, s, why),
         UNCHANGED <<refs, held, life, task, memb, request, accepted,
                     count, spawned, completed, cancelled>>,
         owner' \in {"open", "joined", "reported", "dropping", "gone"},
         reason' \in [Group!Sources -> Reasons \cup {NoReason}], reason'[s] = why,
         \A x \in Group!Sources : x # s => reason'[x] = reason[x],
         reason[s] \in {NoReason, why},
         sweep[c] = Group!NoSweep \/ (sweep[c].src = s /\ sweep[c].keys = <<>>)
  PROVE  GroupSound'
<1>1. PICK keys, more : GatheredTo(c, s, why, keys, more)
  BY Gathers
<1>2. /\ keys \in Seq(Blocks \X Nat) /\ more \in BOOLEAN
      /\ list' \in [Group!Sources -> Seq(Blocks \X Nat)]
      /\ \A x \in Group!Sources : x # s => list'[x] = list[x]
      /\ linked' \in [Blocks -> SUBSET Group!Sources]
      /\ \A b \in Blocks :
           linked'[b] = IF Group!Key(b) \in Group!ToSet(keys) THEN linked[b] \ {s} ELSE linked[b]
      /\ Group!ToSet(keys) \subseteq Listed(s)
      /\ Group!IsInjective(list'[s]) /\ Group!ToSet(list'[s]) = Listed(s) \ Group!ToSet(keys)
      /\ ~more => Group!ToSet(list'[s]) = {}
  BY <1>1 DEF GatheredTo
<1>3. /\ sweep' \in [Group!Callers -> SweepType]
      /\ sweep'[c].src = s /\ sweep'[c].why = why /\ sweep'[c].keys = keys /\ sweep'[c].more = more
      /\ \A d \in Group!Callers : d # c => sweep'[d] = sweep[d]
  <2>1. sweep' = [sweep EXCEPT ![c] = [src |-> s, why |-> why, keys |-> keys, more |-> more]]
    BY <1>1 DEF GatheredTo
  <2>2. [src |-> s, why |-> why, keys |-> keys, more |-> more] \in SweepType
    BY <1>2 DEF SweepType
  <2>3. sweep \in [Group!Callers -> SweepType]
    BY DEF GroupSound, GroupTyped
  <2> QED BY <2>1, <2>2, <2>3
<1>4. GroupTyped'
  BY <1>2, <1>3 DEF GroupSound, GroupTyped
<1>5. UNCHANGED <<life, task, memb, request>> /\ \A x, y : Group!Key(x)' = Group!Key(x)
  BY DEF Group!Key
<1>6. NoReason \notin Reasons /\ NoReason \notin Group!Sources
  BY GroupGiven
<1>7. \A b \in Blocks : s \in linked[b] <=> Group!Key(b) \in Listed(s)
  <2>1. \A x, y \in Blocks : Group!Key(x) = Group!Key(y) => x = y
    BY DEF Group!Key
  <2> QED BY <2>1 DEF Listed
<1>8. \A b \in Blocks : s \in linked[b] =>
        Group!Key(b) \in Group!ToSet(keys) \/ (s \in linked'[b] /\ more)
  BY <1>2, <1>7
<1>9. \A b \in Blocks : s \in linked[b] => SweepComing(c, b, s)'
  BY <1>3, <1>5, <1>8 DEF SweepComing
<1>10. ASSUME NEW b \in Blocks PROVE RecordsTrue(b)' /\ Asked(b)'
  <2>1. RecordsTrue(b) /\ Asked(b)
    BY DEF GroupSound
  <2>2. linked'[b] \subseteq linked[b] /\ \A x : x # s => (x \in linked'[b] <=> x \in linked[b])
    BY <1>2
  <2>3. memb[b] \in Seq(Group!Sources) /\ Group!ToSet(memb[b]) \subseteq Group!Sources
    <3>1. memb[b] \in Seq(Group!Sources)
      BY DEF GroupSound, GroupTyped
    <3> QED BY <3>1, AtIndices
  <2>4. memb[b] # <<>> => Head(memb[b]) \in Group!Sources
    BY <2>3, HeadTailProperties
  <2>5. \A x \in Group!Sources : reason[x] # NoReason => reason'[x] # NoReason /\ reason'[x] = reason[x]
    BY <1>6
  <2>6. RecordsTrue(b)'
    <3>1. task[b] = "asking" => reason'[Head(memb[b])] # NoReason
      BY <2>1, <2>4, <2>5 DEF RecordsTrue
    <3>2. \A x \in Group!ToSet(memb[b]) :
            task[b] \in Running /\ reason'[x] = NoReason => x \in linked'[b]
      <4>1. ASSUME NEW x \in Group!ToSet(memb[b]), task[b] \in Running, reason'[x] = NoReason
            PROVE  x \in linked'[b]
        <5>1. x # s /\ reason[x] = NoReason
          BY <1>6, <2>3, <4>1
        <5> QED BY <2>1, <2>2, <4>1, <5>1 DEF RecordsTrue
      <4> QED BY <4>1
    <3> QED BY <1>5, <2>1, <2>2, <3>1, <3>2 DEF RecordsTrue
  <2>7. ASSUME task[b] \in Running, NEW x \in Group!ToSet(memb[b]), reason'[x] # NoReason,
               request[b] = NoReason
        PROVE  Coming(b, x)'
    <3>1. CASE x = s /\ s \in linked[b]
      BY <1>9, <3>1 DEF Coming
    <3>2. CASE ~(x = s /\ s \in linked[b])
      <4>1. reason[x] # NoReason
        BY <2>1, <2>3, <2>7, <3>2 DEF RecordsTrue
      <4>2. Coming(b, x)
        BY <2>1, <2>7, <4>1 DEF Asked
      <4>3. CASE task[b] = "asking" /\ Head(memb[b]) = x
        BY <1>5, <4>3 DEF Coming
      <4>4. CASE \E d \in Group!Callers : SweepComing(d, b, x)
        <5>1. PICK d \in Group!Callers : SweepComing(d, b, x)
          BY <4>4
        <5>2. CASE d = c
          <6>1. sweep[c].src = x /\ x # NoReason
            BY <1>6, <2>3, <2>7, <5>1, <5>2 DEF SweepComing
          <6>2. x = s /\ sweep[c].keys = <<>>
            BY <6>1, NoSweepTyped
          <6>3. Group!Key(b) \notin Group!ToSet(sweep[c].keys)
            BY <6>2, AtIndices, EmptySeq
          <6> QED BY <3>2, <5>1, <5>2, <6>2, <6>3 DEF SweepComing
        <5>3. CASE d # c
          <6>1. x \in linked[b] => x # s
            BY <3>2
          <6>2. SweepComing(d, b, x)'
            BY <1>3, <1>5, <2>2, <5>1, <5>3, <6>1 DEF SweepComing
          <6> QED BY <6>2 DEF Coming
        <5> QED BY <5>2, <5>3
      <4> QED BY <4>2, <4>3, <4>4 DEF Coming
    <3> QED BY <3>1, <3>2
  <2>8. ASSUME task[b] \in Running, request[b] # NoReason
        PROVE  \E x \in Group!ToSet(memb[b]) : reason'[x] = request[b]
    <3>1. PICK x \in Group!ToSet(memb[b]) : reason[x] = request[b]
      BY <2>1, <2>8 DEF Asked
    <3> QED BY <2>3, <2>5, <2>8, <3>1
  <2> QED BY <1>5, <2>6, <2>7, <2>8 DEF Asked
<1>11. ASSUME NEW x \in Group!Sources PROVE ListTrue(x)'
  <2>1. CASE x = s
    <3>1. Listed(s)' = Listed(s) \ Group!ToSet(keys)
      <4>1. \A b \in Blocks : s \in linked'[b] <=> s \in linked[b] /\ Group!Key(b) \notin Group!ToSet(keys)
        BY <1>2
      <4>2. Listed(s)' = {Group!Key(b) : b \in {y \in Blocks : s \in linked'[y]}}
        BY <1>5 DEF Listed
      <4> QED BY SMTT(30), <4>1, <4>2 DEF Listed
    <3> QED BY <1>2, <2>1, <3>1 DEF ListTrue
  <2>2. CASE x # s
    <3>1. \A b \in Blocks : x \in linked'[b] <=> x \in linked[b]
      BY <1>2, <2>2
    <3>2. Listed(x)' = Listed(x)
      BY <1>5, <3>1 DEF Listed
    <3> QED BY <1>2, <2>2, <3>2 DEF GroupSound, ListTrue
  <2> QED BY <2>1, <2>2
<1>12. ASSUME NEW d \in Group!Callers PROVE SweepTrue(d)'
  <2>1. CASE d = c
    <3>1. ASSUME NEW k \in Group!ToSet(keys)
          PROVE  k[2] <= life[k[1]] /\ s \in Group!ToSet(memb[k[1]])
      <4>1. PICK b \in Blocks : s \in linked[b] /\ k = Group!Key(b)
        BY <1>2, <3>1 DEF Listed
      <4>2. k[1] = b /\ k[2] = life[b] /\ life[b] \in Nat
        BY <4>1 DEF Group!Key, GroupSound, GroupTyped
      <4>3. s \in Group!ToSet(memb[b])
        BY <4>1 DEF GroupSound, RecordsTrue
      <4> QED BY <4>2, <4>3
    <3> QED BY <1>3, <1>5, <2>1, <3>1 DEF SweepTrue
  <2>2. CASE d # c
    <3>1. SweepTrue(d) /\ sweep'[d] = sweep[d]
      BY <1>3, <2>2 DEF GroupSound
    <3>2. sweep[d].src = s => sweep[d] = Group!NoSweep \/ reason'[s] = reason[s]
      BY <1>6, <3>1 DEF SweepTrue
    <3> QED BY <1>5, <3>1, <3>2 DEF SweepTrue
  <2> QED BY <2>1, <2>2
<1> QED BY <1>4, <1>10, <1>11, <1>12 DEF GroupSound

\* A full batch may not have been the last.
LEMMA NextBatchKept ==
  ASSUME GroupInv, NEW c \in Group!Callers, Group!NextBatch(c) PROVE GroupInv'
<1>1. /\ GroupSound /\ GroupTyped /\ sweep[c] # Group!NoSweep /\ sweep[c].keys = <<>>
      /\ UNCHANGED <<reason, refs, held, life, task, memb, request, accepted,
                     count, spawned, completed, cancelled, owner>>
  BY DEF GroupInv, GroupSound, Group!NextBatch, Group!groupVars
<1>2. CountTrue' /\ RefsTrue'
  BY <1>1, CountsStill DEF GroupInv, In
<1>3. /\ sweep[c].src \in Group!Sources /\ sweep[c].why \in Reasons
      /\ reason[sweep[c].src] = sweep[c].why
  BY <1>1 DEF GroupSound, SweepTrue
<1>4. CASE sweep[c].more
  <2>1. PICK s \in Group!Sources, why \in Reasons : s = sweep[c].src /\ why = sweep[c].why
    BY <1>3
  <2>2. Group!Gather(c, s, why)
    BY <1>4, <2>1 DEF Group!NextBatch
  <2>3. /\ reason' \in [Group!Sources -> Reasons \cup {NoReason}]
        /\ owner' \in {"open", "joined", "reported", "dropping", "gone"}
        /\ reason'[s] = why /\ reason[s] = why
    BY <1>1, <1>3, <2>1 DEF GroupTyped
  <2>4. GroupSound'
    BY <1>1, <2>1, <2>2, <2>3, GatherKept
  <2> QED BY <1>2, <2>4 DEF GroupInv
<1>5. CASE ~sweep[c].more
  <2>1. sweep' = [sweep EXCEPT ![c] = Group!NoSweep] /\ UNCHANGED <<list, linked>>
    BY <1>5 DEF Group!NextBatch
  <2>2. /\ sweep' \in [Group!Callers -> SweepType] /\ sweep'[c] = Group!NoSweep
        /\ \A d \in Group!Callers : d # c => sweep'[d] = sweep[d]
    BY <1>1, <2>1, NoSweepTyped DEF GroupTyped
  <2>3. GroupTyped'
    BY <1>1, <2>1, <2>2 DEF GroupTyped
  <2>4. ASSUME NEW b \in Blocks PROVE RecordsTrue(b)' /\ Asked(b)'
    <3>1. RecordsTrue(b) /\ Asked(b)
      BY <1>1 DEF GroupSound
    <3>2. ASSUME NEW s, Coming(b, s) PROVE Coming(b, s)'
      <4>1. CASE task[b] = "asking" /\ Head(memb[b]) = s
        BY <1>1, <4>1 DEF Coming
      <4>2. CASE \E d \in Group!Callers : SweepComing(d, b, s)
        <5>1. PICK d \in Group!Callers : SweepComing(d, b, s)
          BY <4>2
        <5>2. ~SweepComing(c, b, s)
          <6>1. \A k : k \notin Group!ToSet(sweep[c].keys)
            BY <1>1, AtIndices, EmptySeq
          <6> QED BY <1>5, <6>1 DEF SweepComing
        <5>3. SweepComing(d, b, s)'
          BY <1>1, <2>1, <2>2, <5>1, <5>2 DEF SweepComing, Group!Key
        <5> QED BY <5>3 DEF Coming
      <4> QED BY <3>2, <4>1, <4>2 DEF Coming
    <3> QED BY <1>1, <2>1, <3>1, <3>2 DEF RecordsTrue, Asked
  <2>5. ASSUME NEW s \in Group!Sources PROVE ListTrue(s)'
    BY <1>1, <2>1 DEF GroupSound, ListTrue, Listed, Group!Key
  <2>6. ASSUME NEW d \in Group!Callers PROVE SweepTrue(d)'
    BY <1>1, <2>2 DEF GroupSound, SweepTrue
  <2> QED BY <1>2, <2>3, <2>4, <2>5, <2>6 DEF GroupInv, GroupSound
<1> QED BY <1>4, <1>5

\* The first cancel of a source.
LEMMA CancelKept ==
  ASSUME GroupInv, NEW c \in Group!Callers, NEW s \in Group!Sources, NEW why \in Reasons,
         Group!Cancel(c, s, why), UNCHANGED <<count, spawned, completed, cancelled>>,
         owner' = owner \/ (owner' = "dropping" /\ owner # "gone")
  PROVE  GroupInv'
<1>1. /\ GroupSound /\ GroupTyped /\ sweep[c] = Group!NoSweep /\ reason[s] = NoReason
      /\ reason' = [reason EXCEPT ![s] = why] /\ Group!Gather(c, s, why)
      /\ UNCHANGED <<refs, held, life, task, memb, request, accepted>>
  BY DEF GroupInv, GroupSound, Group!Cancel
<1>2. CountTrue' /\ RefsTrue'
  BY <1>1, CountsStill DEF GroupInv, In
<1>3. /\ reason' \in [Group!Sources -> Reasons \cup {NoReason}] /\ reason'[s] = why
      /\ \A x \in Group!Sources : x # s => reason'[x] = reason[x]
      /\ owner' \in {"open", "joined", "reported", "dropping", "gone"}
  BY <1>1 DEF GroupTyped
<1>4. GroupSound'
  BY <1>1, <1>3, GatherKept
<1> QED BY <1>2, <1>4 DEF GroupInv

\* The last handle of another source goes.
LEMMA DropSourceKept ==
  ASSUME GroupInv, NEW s \in Others, Group!DropSource(s) PROVE GroupInv'
<1>1. /\ GroupSound /\ GroupTyped /\ s \in held /\ held' = held \ {s}
      /\ refs' = [refs EXCEPT ![s] = refs[s] - 1]
      /\ UNCHANGED <<reason, list, sweep, life, task, memb, linked, request, accepted,
                     count, spawned, completed, cancelled, owner>>
  BY DEF GroupInv, GroupSound, Group!DropSource, Group!taskVars, Group!groupVars
<1>2. s \in Group!Sources /\ s # Own
  BY GroupGiven
<1>3. GroupTyped'
  BY <1>1, <1>2 DEF GroupTyped
<1>4. GroupSound'
  BY <1>1, <1>3, StillSound
<1>5. CountTrue'
  BY <1>1 DEF GroupInv, CountTrue, In
<1>6. ASSUME NEW x \in Group!Sources
      PROVE  refs'[x] = Holder(x)' + Cardinality(MembersOf(x))' + Tokens(x)'
  <2>1. MembersOf(x)' = MembersOf(x) /\ Tokens(x)' = Tokens(x)
    BY <1>1 DEF MembersOf, Tokens, In
  <2>2. refs[x] = Holder(x) + Cardinality(MembersOf(x)) + Tokens(x)
    BY DEF GroupInv, RefsTrue
  <2>3. Cardinality(MembersOf(x)) \in Nat /\ Tokens(x) \in Nat
    BY <1>1, CountType DEF Tokens
  <2>4. CASE x = s
    BY <1>1, <1>2, <2>1, <2>2, <2>3, <2>4 DEF Holder, GroupTyped
  <2>5. CASE x # s
    BY <1>1, <1>2, <2>1, <2>2, <2>5 DEF Holder, GroupTyped
  <2> QED BY <2>4, <2>5
<1> QED BY <1>4, <1>5, <1>6 DEF GroupInv, RefsTrue

-----------------------------------------------------------------------------
(* Task groups: a child *)

\* A block starts over under the next key.
LEMMA SpawnKept ==
  ASSUME GroupInv, NEW b \in Blocks, Group!Spawn(b) PROVE GroupInv'
<1>1. /\ GroupSound /\ GroupTyped /\ task[b] = "free" /\ owner = "open"
      /\ count' = count + 1 /\ spawned' = spawned + 1
      /\ refs' = [refs EXCEPT ![Own] = refs[Own] + 1]
      /\ life' = [life EXCEPT ![b] = life[b] + 1]
      /\ request' = [request EXCEPT ![b] = NoReason] /\ accepted' = accepted \ {b}
      /\ Group!Goto(b, "start")
      /\ UNCHANGED <<reason, list, held, sweep, memb, linked, completed, cancelled, owner>>
  BY DEF GroupInv, GroupSound, Group!Spawn
<1>2. /\ task'[b] = "start" /\ \A x \in Blocks : x # b => task'[x] = task[x]
      /\ life'[b] = life[b] + 1 /\ life[b] \in Nat /\ \A x \in Blocks : x # b => life'[x] = life[x]
      /\ request'[b] = NoReason /\ \A x \in Blocks : x # b => request'[x] = request[x]
  BY <1>1 DEF GroupTyped, Group!Goto
<1>3. memb[b] = <<>> /\ linked[b] = {} /\ Group!ToSet(memb[b]) = {}
  <2>1. RecordsTrue(b) /\ memb[b] \in Seq(Group!Sources)
    BY <1>1 DEF GroupSound, GroupTyped
  <2> QED BY <1>1, <2>1, AtIndices DEF RecordsTrue
<1>4. GroupTyped'
  <2>1. task' \in [Blocks -> Group!States]
    BY <1>1 DEF GroupTyped, Group!Goto, Group!States
  <2>2. life' \in [Blocks -> Nat] /\ request' \in [Blocks -> Reasons \cup {NoReason}]
    BY <1>1, <1>2 DEF GroupTyped
  <2>3. refs' \in [Group!Sources -> Int]
    BY <1>1, GroupGiven DEF GroupTyped
  <2> QED BY <1>1, <2>1, <2>2, <2>3 DEF GroupTyped
<1>5. ASSUME NEW x \in Blocks PROVE RecordsTrue(x)' /\ Asked(x)'
  <2>1. RecordsTrue(x) /\ Asked(x)
    BY <1>1 DEF GroupSound
  <2>2. CASE x = b
    BY <1>1, <1>2, <1>3, <2>1, <2>2 DEF RecordsTrue, Asked
  <2>3. CASE x # b
    <3>1. \A s : Coming(x, s) => Coming(x, s)'
      BY <1>1, <1>2, <2>3 DEF Coming, SweepComing, Group!Key
    <3> QED BY <1>1, <1>2, <2>1, <2>3, <3>1 DEF RecordsTrue, Asked
  <2> QED BY <2>2, <2>3
<1>6. ASSUME NEW s \in Group!Sources PROVE ListTrue(s)'
  <2>1. \A x \in Blocks : s \in linked[x] => Group!Key(x)' = Group!Key(x)
    BY <1>2, <1>3 DEF Group!Key
  <2>2. Listed(s)' = Listed(s)
    <3>1. Listed(s)' = {Group!Key(x)' : x \in {y \in Blocks : s \in linked[y]}}
      BY <1>1 DEF Listed
    <3> QED BY <2>1, <3>1 DEF Listed
  <2> QED BY <1>1, <2>2 DEF GroupSound, ListTrue
<1>7. ASSUME NEW c \in Group!Callers PROVE SweepTrue(c)'
  <2>1. SweepTrue(c)
    BY <1>1 DEF GroupSound
  <2>2. CASE sweep[c] = Group!NoSweep
    BY <1>1, <2>2 DEF SweepTrue
  <2>3. CASE sweep[c] # Group!NoSweep
    <3>1. ASSUME NEW k \in Group!ToSet(sweep[c].keys)
          PROVE  /\ k[2] <= life'[k[1]]
                 /\ k[2] = life'[k[1]] /\ task'[k[1]] \in Running
                      => sweep[c].src \in Group!ToSet(memb[k[1]])
      <4>1. k[1] \in Blocks /\ k[2] \in Nat /\ k[2] <= life[k[1]]
        BY <1>1, <2>1, <2>3, <3>1, KeysTyped DEF SweepTrue
      <4>2. CASE k[1] = b
        BY <1>2, <4>1, <4>2
      <4>3. CASE k[1] # b
        BY <1>2, <2>1, <2>3, <3>1, <4>1, <4>3 DEF SweepTrue
      <4> QED BY <4>2, <4>3
    <3> QED BY <1>1, <2>1, <2>3, <3>1 DEF SweepTrue
  <2> QED BY <2>2, <2>3
<1>8. /\ Cardinality(In(Running))' = Cardinality(In(Running)) + 1
      /\ Cardinality(In(Uncounted))' = Cardinality(In(Uncounted)) + 1
      /\ Cardinality(In(Running)) \in Nat /\ Cardinality(In(Uncounted)) \in Nat
  <2>1. "free" \notin Running /\ "start" \in Running /\ "free" \notin Uncounted /\ "start" \in Uncounted
    BY DEF Running, Uncounted
  <2> QED BY <1>1, <2>1, TaskMoves DEF Bit
<1>9. CountTrue'
  BY <1>1, <1>8 DEF GroupInv, CountTrue, GroupTyped
<1>10. ASSUME NEW x \in Group!Sources
       PROVE  refs'[x] = Holder(x)' + Cardinality(MembersOf(x))' + Tokens(x)'
  <2>1. MembersOf(x)' = MembersOf(x) /\ Holder(x)' = Holder(x)
    BY <1>1 DEF MembersOf, Holder
  <2>2. refs[x] = Holder(x) + Cardinality(MembersOf(x)) + Tokens(x)
    BY DEF GroupInv, RefsTrue
  <2>3. Cardinality(MembersOf(x)) \in Nat /\ Holder(x) \in Nat
    BY <1>1, CountType DEF Holder
  <2>4. refs'[x] = IF x = Own THEN refs[x] + 1 ELSE refs[x]
    BY <1>1 DEF GroupTyped
  <2>5. Tokens(x)' = IF x = Own THEN Tokens(x) + 1 ELSE Tokens(x)
    BY <1>8 DEF Tokens
  <2>6. Tokens(x) \in Nat
    BY <1>8 DEF Tokens
  <2> QED BY <2>1, <2>2, <2>3, <2>4, <2>5, <2>6
<1> QED BY <1>4, <1>5, <1>6, <1>7, <1>9, <1>10 DEF GroupInv, GroupSound, RefsTrue

\* A record more, or one that is there.
LEMMA BindKept ==
  ASSUME GroupInv, NEW b \in Blocks, NEW s \in Group!Sources, Group!Bind(b, s) PROVE GroupInv'
<1>1. /\ GroupSound /\ GroupTyped /\ task[b] \in {"start", "body"}
      /\ UNCHANGED <<reason, held, sweep, life, request, accepted,
                     count, spawned, completed, cancelled, owner>>
  BY DEF GroupInv, GroupSound, Group!Bind, Group!groupVars
<1>2. memb[b] \in Seq(Group!Sources) /\ RecordsTrue(b)
  BY <1>1 DEF GroupTyped, GroupSound
<1>3. Group!Contains(memb[b], s) <=> s \in Group!ToSet(memb[b])
  BY <1>2, AtIndices
<1>4. CASE s \in Group!ToSet(memb[b])
  <2>1. Group!Goto(b, "body") /\ UNCHANGED <<list, refs, memb, linked>>
    BY <1>3, <1>4 DEF Group!Bind
  <2>2. task[b] # "start"
    <3>1. memb[b] # <<>>
      BY <1>2, <1>4, AtIndices
    <3> QED BY <1>2, <3>1 DEF RecordsTrue
  <2>3. GroupTyped'
    BY <1>1, <2>1 DEF GroupTyped, Group!Goto, Group!States
  <2>4. GroupSound'
    BY <1>1, <2>1, <2>2, <2>3, MoveSound DEF Running
  <2>5. task' = task
    BY <1>1, <2>1, <2>2 DEF GroupTyped, Group!Goto
  <2>6. CountTrue' /\ RefsTrue'
    BY <1>1, <2>1, <2>5, CountsStill DEF GroupInv, In
  <2> QED BY <2>4, <2>6 DEF GroupInv
<1>5. CASE s \notin Group!ToSet(memb[b])
  <2>1. /\ memb' = [memb EXCEPT ![b] = <<s>> \o memb[b]]
        /\ refs' = [refs EXCEPT ![s] = refs[s] + 1]
        /\ IF Group!Joins(s)
             THEN /\ list' = [list EXCEPT ![s] = Append(list[s], Group!Key(b))]
                  /\ linked' = [linked EXCEPT ![b] = linked[b] \cup {s}]
                  /\ Group!Goto(b, "body")
             ELSE Group!Goto(b, "asking") /\ UNCHANGED <<list, linked>>
    BY <1>3, <1>5 DEF Group!Bind
  <2>2. PICK l \in {"body", "asking"} :
          /\ Group!Goto(b, l)
          /\ l = "body" => /\ reason[s] = NoReason
                           /\ list' = [list EXCEPT ![s] = Append(list[s], Group!Key(b))]
                           /\ linked' = [linked EXCEPT ![b] = linked[b] \cup {s}]
          /\ l = "asking" => reason[s] # NoReason /\ UNCHANGED <<list, linked>>
    BY <2>1 DEF Group!Joins
  <2>3. /\ <<s>> \o memb[b] \in Seq(Group!Sources) /\ <<s>> \o memb[b] # <<>>
        /\ Group!ToSet(<<s>> \o memb[b]) = Group!ToSet(memb[b]) \cup {s}
        /\ Head(<<s>> \o memb[b]) = s /\ Group!IsInjective(<<s>> \o memb[b])
    BY <1>2, <1>5, ListStarts DEF RecordsTrue
  <2>4. /\ memb' \in [Blocks -> Seq(Group!Sources)] /\ memb'[b] # <<>> /\ Head(memb'[b]) = s
        /\ Group!ToSet(memb'[b]) = Group!ToSet(memb[b]) \cup {s} /\ Group!IsInjective(memb'[b])
        /\ \A x \in Blocks : x # b => memb'[x] = memb[x]
    BY <1>1, <2>1, <2>3 DEF GroupTyped
  <2>5. /\ task' \in [Blocks -> Group!States] /\ task'[b] = l
        /\ \A x \in Blocks : x # b => task'[x] = task[x]
    BY <1>1, <2>2 DEF GroupTyped, Group!Goto, Group!States
  <2>6. Group!Key(b) \in Blocks \X Nat /\ Group!Key(b) \notin Group!ToSet(list[s])
    <3>1. s \notin linked[b]
      BY <1>2, <1>5 DEF RecordsTrue
    <3>2. Group!ToSet(list[s]) = Listed(s)
      BY <1>1 DEF GroupSound, ListTrue
    <3>3. \A x \in Blocks : Group!Key(x) = Group!Key(b) => x = b
      BY DEF Group!Key
    <3>4. Group!Key(b) \in Blocks \X Nat
      BY <1>1 DEF Group!Key, GroupTyped
    <3> QED BY <3>1, <3>2, <3>3, <3>4 DEF Listed
  <2>7. /\ Append(list[s], Group!Key(b)) \in Seq(Blocks \X Nat)
        /\ Group!ToSet(Append(list[s], Group!Key(b))) = Group!ToSet(list[s]) \cup {Group!Key(b)}
        /\ Group!IsInjective(Append(list[s], Group!Key(b)))
    <3>1. list[s] \in Seq(Blocks \X Nat) /\ Group!IsInjective(list[s])
      BY <1>1 DEF GroupSound, GroupTyped, ListTrue
    <3> QED BY <2>6, <3>1, ListGains
  <2>8. /\ list' \in [Group!Sources -> Seq(Blocks \X Nat)]
        /\ \A x \in Group!Sources : x # s \/ l = "asking" => list'[x] = list[x]
        /\ l = "body" => list'[s] = Append(list[s], Group!Key(b))
    BY ZenonT(30), <1>1, <2>2, <2>7 DEF GroupTyped
  <2>9. /\ linked' \in [Blocks -> SUBSET Group!Sources]
        /\ \A x \in Blocks : x # b => linked'[x] = linked[x]
        /\ linked'[b] = IF l = "body" THEN linked[b] \cup {s} ELSE linked[b]
    <3>1. linked \in [Blocks -> SUBSET Group!Sources]
      BY <1>1 DEF GroupTyped
    <3>2. PICK m \in SUBSET Group!Sources : m = linked[b] \cup {s}
      BY <3>1
    <3>3. CASE l = "body"
      <4>1. linked' = [linked EXCEPT ![b] = m]
        BY <2>2, <3>2, <3>3
      <4> QED BY <3>1, <3>2, <3>3, <4>1
    <3>4. CASE l = "asking"
      BY <2>2, <3>1, <3>4
    <3> QED BY <3>3, <3>4
  <2>10. GroupTyped'
    <3>1. refs' \in [Group!Sources -> Int]
      BY <1>1, <2>1 DEF GroupTyped
    <3> QED BY <1>1, <2>4, <2>5, <2>8, <2>9, <3>1 DEF GroupTyped
  <2>11. \A x : Group!Key(x)' = Group!Key(x)
    BY <1>1 DEF Group!Key
  <2>12. ASSUME NEW x \in Blocks PROVE RecordsTrue(x)' /\ Asked(x)'
    <3>1. RecordsTrue(x) /\ Asked(x)
      BY <1>1 DEF GroupSound
    <3>2. ASSUME NEW y, Coming(x, y), x = b => task[b] # "asking" PROVE Coming(x, y)'
      <4>1. CASE x # b /\ task[x] = "asking" /\ Head(memb[x]) = y
        BY <2>4, <2>5, <4>1 DEF Coming
      <4>2. CASE \E c \in Group!Callers : SweepComing(c, x, y)
        <5>1. \A c : SweepComing(c, x, y) => SweepComing(c, x, y)'
          BY <1>1, <2>9, <2>11 DEF SweepComing
        <5> QED BY <4>2, <5>1 DEF Coming
      <4> QED BY <3>2, <4>1, <4>2 DEF Coming
    <3>3. CASE x = b
      <4>1. RecordsTrue(b)'
        <5>1. \A y \in Group!ToSet(memb'[b]) : reason[y] = NoReason => y \in linked'[b]
          BY <1>1, <1>2, <2>2, <2>4, <2>9 DEF RecordsTrue, Running
        <5> QED BY <1>1, <1>2, <2>2, <2>4, <2>5, <2>9, <5>1 DEF RecordsTrue
      <4>2. task[b] \in Running /\ task[b] # "asking"
        BY <1>1 DEF Running
      <4>3. \A y \in Group!ToSet(memb[b]) :
              reason[y] # NoReason => request[b] # NoReason \/ Coming(b, y)'
        BY <3>1, <3>2, <3>3, <4>2 DEF Asked
      <4>4. reason[s] # NoReason => Coming(b, s)'
        BY <2>2, <2>4, <2>5 DEF Coming
      <4>5. request[b] # NoReason => \E y \in Group!ToSet(memb'[b]) : reason[y] = request[b]
        BY <2>4, <3>1, <3>3, <4>2 DEF Asked
      <4>6. Asked(b)'
        BY <1>1, <2>4, <4>3, <4>4, <4>5 DEF Asked
      <4> QED BY <3>3, <4>1, <4>6
    <3>4. CASE x # b
      <4>1. RecordsTrue(x)'
        BY <1>1, <2>4, <2>5, <2>9, <3>1, <3>4 DEF RecordsTrue
      <4> QED BY <1>1, <2>4, <2>5, <3>1, <3>2, <3>4, <4>1 DEF Asked
    <3> QED BY <3>3, <3>4
  <2>13. ASSUME NEW x \in Group!Sources PROVE ListTrue(x)'
    <3>1. ListTrue(x)
      BY <1>1 DEF GroupSound
    <3>2. Listed(x)' = {Group!Key(y) : y \in {z \in Blocks : x \in linked'[z]}}
      BY <2>11 DEF Listed
    <3>3. CASE x = s /\ l = "body"
      <4>1. \A y \in Blocks : x \in linked'[y] <=> x \in linked[y] \/ y = b
        BY <2>9, <3>3
      <4>2. Listed(x)' = Listed(x) \cup {Group!Key(b)}
        BY <3>2, <4>1 DEF Listed
      <4> QED BY <2>7, <2>8, <3>1, <3>3, <4>2 DEF ListTrue
    <3>4. CASE ~(x = s /\ l = "body")
      <4>1. \A y \in Blocks : x \in linked'[y] <=> x \in linked[y]
        BY <2>9, <3>4
      <4>2. Listed(x)' = Listed(x)
        BY <3>2, <4>1 DEF Listed
      <4>3. list'[x] = list[x]
        BY <2>8, <3>4
      <4> QED BY <3>1, <4>2, <4>3 DEF ListTrue
    <3> QED BY <3>3, <3>4
  <2>14. ASSUME NEW c \in Group!Callers PROVE SweepTrue(c)'
    <3>1. SweepTrue(c)
      BY <1>1 DEF GroupSound
    <3>2. CASE sweep[c] = Group!NoSweep
      BY <1>1, <3>2 DEF SweepTrue
    <3>3. CASE sweep[c] # Group!NoSweep
      <4>1. \A k \in Group!ToSet(sweep[c].keys) : k[1] \in Blocks
        BY <1>1, KeysTyped
      <4>2. \A x \in Blocks : task'[x] \in Running => task[x] \in Running
        BY <1>1, <2>5 DEF Running
      <4>3. \A x \in Blocks : Group!ToSet(memb[x]) \subseteq Group!ToSet(memb'[x])
        BY <2>4
      <4> QED BY <1>1, <3>1, <3>3, <4>1, <4>2, <4>3 DEF SweepTrue
    <3> QED BY <3>2, <3>3
  <2>15. CountTrue' /\ \A x \in Group!Sources : Tokens(x)' = Tokens(x) /\ Tokens(x) \in Nat
    <3>1. \A x \in Blocks : /\ task'[x] \in Running <=> task[x] \in Running
                            /\ task'[x] \in Uncounted <=> task[x] \in Uncounted
      BY <1>1, <2>5 DEF Running, Uncounted
    <3>2. In(Running)' = In(Running) /\ In(Uncounted)' = In(Uncounted)
      BY <3>1 DEF In
    <3> QED BY <1>1, <3>2, CountType DEF GroupInv, CountTrue, Tokens
  <2>16. ASSUME NEW x \in Group!Sources
         PROVE  refs'[x] = Holder(x)' + Cardinality(MembersOf(x))' + Tokens(x)'
    <3>1. Holder(x)' = Holder(x) /\ Holder(x) \in Nat
      BY <1>1 DEF Holder
    <3>2. refs[x] = Holder(x) + Cardinality(MembersOf(x)) + Tokens(x)
      BY DEF GroupInv, RefsTrue
    <3>3. /\ Cardinality(MembersOf(x)) \in Nat
          /\ Cardinality(MembersOf(x))' = Cardinality(MembersOf(x))
               - Bit(x \in Group!ToSet(memb[b])) + Bit(x \in Group!ToSet(memb'[b]))
      BY <1>1, <2>4, RecordsMove
    <3>4. refs'[x] = IF x = s THEN refs[x] + 1 ELSE refs[x]
      BY <1>1, <2>1 DEF GroupTyped
    <3>5. Cardinality(MembersOf(x))' = Cardinality(MembersOf(x)) + IF x = s THEN 1 ELSE 0
      BY <1>5, <2>4, <3>3 DEF Bit
    <3> QED BY <2>15, <3>1, <3>2, <3>3, <3>4, <3>5
  <2> QED BY <2>10, <2>12, <2>13, <2>14, <2>15, <2>16 DEF GroupInv, GroupSound, RefsTrue
<1> QED BY <1>4, <1>5

\* The task asks itself.
LEMMA AskSelfKept ==
  ASSUME GroupInv, NEW b \in Blocks, Group!AskSelf(b) PROVE GroupInv'
<1>1. /\ GroupSound /\ GroupTyped /\ task[b] = "asking"
      /\ Group!Requested(Group!Key(b), reason[Head(memb[b])]) /\ Group!Goto(b, "body")
      /\ UNCHANGED <<reason, list, refs, held, sweep, life, memb, linked, accepted,
                     count, spawned, completed, cancelled, owner>>
  BY DEF GroupInv, GroupSound, Group!AskSelf, Group!sourceVars, Group!groupVars
<1>2. /\ memb[b] \in Seq(Group!Sources) /\ memb[b] # <<>>
      /\ RecordsTrue(b) /\ reason[Head(memb[b])] # NoReason
  BY <1>1 DEF GroupTyped, GroupSound, RecordsTrue
<1>3. PICK h \in Group!ToSet(memb[b]) : h = Head(memb[b]) /\ h \in Group!Sources
  BY <1>2, ListLoses
<1>4. reason[h] \in Reasons
  BY <1>1, <1>2, <1>3 DEF GroupTyped
<1>5. /\ request' \in [Blocks -> Reasons \cup {NoReason}]
      /\ \A x \in Blocks : x # b => request'[x] = request[x]
      /\ request'[b] = request[b] \/ request'[b] = reason[h]
      /\ request'[b] # NoReason
  <2>1. Group!Requested(<<b, life[b]>>, reason[h])
    BY <1>1, <1>3 DEF Group!Key
  <2> QED BY <1>1, <1>4, <2>1, RequestMade
<1>6. task'[b] = "body" /\ \A x \in Blocks : x # b => task'[x] = task[x]
  BY <1>1 DEF GroupTyped, Group!Goto
<1>7. GroupTyped'
  BY <1>1, <1>5 DEF GroupTyped, Group!Goto, Group!States
<1>8. ASSUME NEW x \in Blocks PROVE RecordsTrue(x)' /\ Asked(x)'
  <2>1. RecordsTrue(x) /\ Asked(x)
    BY <1>1 DEF GroupSound
  <2>2. RecordsTrue(x)'
    BY <1>1, <1>6, <2>1 DEF RecordsTrue, Running
  <2>3. CASE x = b
    <3>1. task[b] \in Running
      BY <1>1 DEF Running
    <3>2. \E s \in Group!ToSet(memb[b]) : reason[s] = request'[b]
      <4>1. CASE request'[b] = reason[h]
        BY <4>1
      <4>2. CASE request'[b] = request[b]
        BY <1>5, <2>1, <2>3, <3>1, <4>2 DEF Asked
      <4> QED BY <1>5, <4>1, <4>2
    <3> QED BY <1>1, <1>5, <2>2, <2>3, <3>2 DEF Asked
  <2>4. CASE x # b
    <3>1. \A s : Coming(x, s) => Coming(x, s)'
      BY <1>1, <1>6, <2>4 DEF Coming, SweepComing, Group!Key
    <3> QED BY <1>1, <1>5, <1>6, <2>1, <2>2, <2>4, <3>1 DEF Asked
  <2> QED BY <2>3, <2>4
<1>9. ASSUME NEW s \in Group!Sources PROVE ListTrue(s)'
  BY <1>1 DEF GroupSound, ListTrue, Listed, Group!Key
<1>10. ASSUME NEW c \in Group!Callers PROVE SweepTrue(c)'
  <2>1. SweepTrue(c)
    BY <1>1 DEF GroupSound
  <2>2. \A k \in Group!ToSet(sweep[c].keys) : k[1] \in Blocks
    BY <1>1, KeysTyped
  <2>3. \A x \in Blocks : task'[x] \in Running => task[x] \in Running
    BY <1>1, <1>6 DEF Running
  <2> QED BY <1>1, <2>1, <2>2, <2>3 DEF SweepTrue
<1>11. In(Running)' = In(Running) /\ In(Uncounted)' = In(Uncounted)
  BY <1>1, <1>6 DEF In, Running, Uncounted
<1>12. CountTrue' /\ RefsTrue'
  BY <1>1, <1>11, CountsStill DEF GroupInv
<1> QED BY <1>7, <1>8, <1>9, <1>10, <1>12 DEF GroupInv, GroupSound

\* A cancellation point, and the end of the body.
LEMMA AcceptKept ==
  ASSUME GroupInv, NEW b \in Blocks, Group!Accept(b) \/ Group!End(b) PROVE GroupInv'
<1>1. /\ GroupSound /\ GroupTyped /\ task[b] = "body"
      /\ UNCHANGED <<reason, list, refs, held, sweep, life, memb, linked, request,
                     count, spawned, completed, cancelled, owner>>
  BY DEF GroupInv, GroupSound, Group!Accept, Group!End, Group!sourceVars, Group!groupVars
<1>2. PICK l \in {"body", "ended"} : Group!Goto(b, l) /\ accepted' \in SUBSET Blocks
  <2>1. CASE Group!Accept(b)
    <3>1. task' = [task EXCEPT ![b] = "body"] /\ accepted' \in SUBSET Blocks
      BY <1>1, <2>1 DEF GroupTyped, Group!Accept
    <3> QED BY <3>1 DEF Group!Goto
  <2>2. CASE Group!End(b)
    BY <1>1, <2>2 DEF GroupTyped, Group!End
  <2> QED BY <2>1, <2>2
<1>3. GroupTyped'
  BY <1>1, <1>2 DEF GroupTyped, Group!Goto, Group!States
<1>4. GroupSound'
  BY <1>1, <1>2, <1>3, MoveSound DEF Running
<1>5. In(Running)' = In(Running) /\ In(Uncounted)' = In(Uncounted)
  BY <1>1, <1>2 DEF In, Running, Uncounted, GroupTyped, Group!Goto
<1>6. CountTrue' /\ RefsTrue'
  BY <1>1, <1>5, CountsStill DEF GroupInv
<1> QED BY <1>4, <1>6 DEF GroupInv

\* The task gets into the report.
LEMMA CountKept ==
  ASSUME GroupInv, NEW b \in Blocks, Group!Count(b) PROVE GroupInv'
<1>1. /\ GroupSound /\ GroupTyped /\ task[b] = "ended" /\ Group!Goto(b, "counted")
      /\ \/ cancelled' = cancelled + 1 /\ completed' = completed
         \/ completed' = completed + 1 /\ cancelled' = cancelled
      /\ UNCHANGED <<reason, list, refs, held, sweep, life, memb, linked, request, accepted,
                     count, spawned, owner>>
  BY DEF GroupInv, GroupSound, Group!Count, Group!sourceVars
<1>2. GroupTyped'
  BY <1>1 DEF GroupTyped, Group!Goto, Group!States
<1>3. GroupSound'
  BY <1>1, <1>2, MoveSound DEF Running
<1>4. In(Running)' = In(Running)
  BY <1>1 DEF In, Running, GroupTyped, Group!Goto
<1>5. /\ Cardinality(In(Uncounted)) \in Nat
      /\ Cardinality(In(Uncounted))' = Cardinality(In(Uncounted)) - 1
  <2>1. "ended" \in Uncounted /\ "counted" \notin Uncounted
    BY DEF Running, Uncounted
  <2> QED BY <1>1, <2>1, TaskMoves DEF Bit
<1>6. CountTrue'
  <2>1. CountTrue /\ completed \in Int /\ cancelled \in Int
    BY <1>1 DEF GroupInv, GroupTyped
  <2>2. completed' + cancelled' + Cardinality(In(Uncounted))' = spawned
    BY <1>1, <1>5, <2>1 DEF CountTrue
  <2> QED BY <1>1, <1>4, <2>1, <2>2 DEF CountTrue
<1>7. ASSUME NEW s \in Group!Sources
      PROVE  Holder(s)' = Holder(s) /\ MembersOf(s)' = MembersOf(s) /\ Tokens(s)' = Tokens(s)
  BY <1>1, <1>4 DEF Holder, MembersOf, Tokens
<1> QED BY <1>1, <1>3, <1>6, <1>7 DEF GroupInv, RefsTrue

\* The wait group counts it no more, and its token goes.
LEMMA DoneKept ==
  ASSUME GroupInv, NEW b \in Blocks, Group!Done(b) PROVE GroupInv'
<1>1. /\ GroupSound /\ GroupTyped /\ task[b] = "counted" /\ Group!Goto(b, "hook")
      /\ count' = count - 1 /\ refs' = [refs EXCEPT ![Own] = refs[Own] - 1]
      /\ UNCHANGED <<reason, list, held, sweep, life, memb, linked, request, accepted,
                     spawned, completed, cancelled, owner>>
  BY DEF GroupInv, GroupSound, Group!Done
<1>2. GroupTyped'
  <2>1. refs' \in [Group!Sources -> Int]
    BY <1>1, GroupGiven DEF GroupTyped
  <2> QED BY <1>1, <2>1 DEF GroupTyped, Group!Goto, Group!States
<1>3. GroupSound'
  BY <1>1, <1>2, MoveSound DEF Running
<1>4. In(Uncounted)' = In(Uncounted)
  BY <1>1 DEF In, Running, Uncounted, GroupTyped, Group!Goto
<1>5. /\ Cardinality(In(Running)) \in Nat /\ Cardinality(In(Running)) > 0
      /\ Cardinality(In(Running))' = Cardinality(In(Running)) - 1
  <2>1. "counted" \in Running /\ "hook" \notin Running
    BY DEF Running
  <2> QED BY <1>1, <2>1, TaskMoves DEF Bit
<1>6. CountTrue'
  BY <1>1, <1>4, <1>5 DEF GroupInv, CountTrue
<1>7. ASSUME NEW s \in Group!Sources
      PROVE  refs'[s] = Holder(s)' + Cardinality(MembersOf(s))' + Tokens(s)'
  <2>1. Holder(s)' = Holder(s) /\ MembersOf(s)' = MembersOf(s) /\ Holder(s) \in Nat
    BY <1>1 DEF Holder, MembersOf
  <2>2. Tokens(s)' = IF s = Own THEN Tokens(s) - 1 ELSE Tokens(s)
    BY <1>5 DEF Tokens
  <2>3. Tokens(s) \in Nat /\ Cardinality(MembersOf(s)) \in Nat
    BY <1>1, CountType DEF Tokens
  <2>4. refs[s] = Holder(s) + Cardinality(MembersOf(s)) + Tokens(s)
    BY DEF GroupInv, RefsTrue
  <2>5. refs'[s] = IF s = Own THEN refs[s] - 1 ELSE refs[s]
    BY <1>1 DEF GroupTyped
  <2> QED BY <2>1, <2>2, <2>3, <2>4, <2>5
<1> QED BY <1>3, <1>6, <1>7 DEF GroupInv, RefsTrue

\* A record goes, and its reference with it: a list has it no more, for nobody runs any longer.
LEMMA RecordDropped ==
  ASSUME GroupInv, NEW b \in Blocks, task[b] \in {"hook", "unlink"}, memb[b] # <<>>,
         Group!DropRecord(b), Group!Goto(b, "hook"),
         linked' \in [Blocks -> SUBSET Group!Sources],
         \A x \in Blocks : x # b => linked'[x] = linked[x],
         linked'[b] = linked[b] \ {Head(memb[b])},
         list' \in [Group!Sources -> Seq(Blocks \X Nat)],
         \A s \in Group!Sources :
           /\ Group!IsInjective(list'[s])
           /\ Group!ToSet(list'[s]) =
                {Group!Key(x) : x \in {y \in Blocks : s \in linked'[y]}},
         UNCHANGED <<reason, held, sweep, life, request, accepted,
                     count, spawned, completed, cancelled, owner>>
  PROVE  GroupInv'
<1>1. /\ GroupSound /\ GroupTyped /\ RecordsTrue(b) /\ memb[b] \in Seq(Group!Sources)
      /\ memb' = [memb EXCEPT ![b] = Tail(memb[b])]
      /\ refs' = [refs EXCEPT ![Head(memb[b])] = refs[Head(memb[b])] - 1]
  BY DEF GroupInv, GroupSound, GroupTyped, Group!DropRecord
<1>2. PICK h \in Group!Sources : h = Head(memb[b])
  BY <1>1, HeadTailProperties
<1>3. /\ Tail(memb[b]) \in Seq(Group!Sources) /\ h \in Group!ToSet(memb[b])
      /\ Group!IsInjective(Tail(memb[b]))
      /\ Group!ToSet(Tail(memb[b])) = Group!ToSet(memb[b]) \ {h}
  BY <1>1, <1>2, ListLoses DEF RecordsTrue
<1>4. /\ memb' \in [Blocks -> Seq(Group!Sources)]
      /\ \A x \in Blocks : x # b => memb'[x] = memb[x]
      /\ Group!ToSet(memb'[b]) = Group!ToSet(memb[b]) \ {h} /\ Group!IsInjective(memb'[b])
  BY <1>1, <1>3 DEF GroupTyped
<1>5. /\ task' \in [Blocks -> Group!States] /\ task'[b] = "hook"
      /\ \A x \in Blocks : x # b => task'[x] = task[x]
  BY <1>1 DEF GroupTyped, Group!Goto, Group!States
<1>6. refs' \in [Group!Sources -> Int]
      /\ \A s \in Group!Sources : refs'[s] = IF s = h THEN refs[s] - 1 ELSE refs[s]
  BY <1>1, <1>2 DEF GroupTyped
<1>7. GroupTyped'
  BY <1>1, <1>4, <1>5, <1>6 DEF GroupTyped
<1>8. \A x : Group!Key(x)' = Group!Key(x)
  BY DEF Group!Key
<1>9. ASSUME NEW x \in Blocks PROVE RecordsTrue(x)' /\ Asked(x)'
  <2>1. RecordsTrue(x) /\ Asked(x)
    BY <1>1 DEF GroupSound
  <2>2. CASE x = b
    BY <1>2, <1>4, <1>5, <2>1, <2>2 DEF RecordsTrue, Asked, Running
  <2>3. CASE x # b
    <3>1. \A s : Coming(x, s) => Coming(x, s)'
      BY <1>4, <1>5, <1>8, <2>3 DEF Coming, SweepComing
    <3> QED BY <1>4, <1>5, <2>1, <2>3, <3>1 DEF RecordsTrue, Asked
  <2> QED BY <2>2, <2>3
<1>10. ASSUME NEW s \in Group!Sources PROVE ListTrue(s)'
  <2>1. Listed(s)' = {Group!Key(x) : x \in {y \in Blocks : s \in linked'[y]}}
    BY <1>8 DEF Listed
  <2> QED BY <2>1 DEF ListTrue
<1>11. ASSUME NEW c \in Group!Callers PROVE SweepTrue(c)'
  <2>1. SweepTrue(c)
    BY <1>1 DEF GroupSound
  <2>2. \A k \in Group!ToSet(sweep[c].keys) : k[1] \in Blocks
    BY <1>1, KeysTyped
  <2>3. \A x \in Blocks : task'[x] \in Running => task[x] \in Running /\ memb'[x] = memb[x]
    BY <1>4, <1>5 DEF Running
  <2> QED BY <2>1, <2>2, <2>3 DEF SweepTrue
<1>12. In(Running)' = In(Running) /\ In(Uncounted)' = In(Uncounted)
  BY <1>5 DEF In, Running, Uncounted
<1>13. CountTrue'
  BY <1>12 DEF GroupInv, CountTrue
<1>14. ASSUME NEW s \in Group!Sources
       PROVE  refs'[s] = Holder(s)' + Cardinality(MembersOf(s))' + Tokens(s)'
  <2>1. Holder(s)' = Holder(s) /\ Tokens(s)' = Tokens(s) /\ Holder(s) \in Nat
    BY <1>12 DEF Holder, Tokens
  <2>2. refs[s] = Holder(s) + Cardinality(MembersOf(s)) + Tokens(s)
    BY DEF GroupInv, RefsTrue
  <2>3. Tokens(s) \in Nat
    BY <1>1, CountType DEF Tokens
  <2>4. /\ Cardinality(MembersOf(s)) \in Nat
        /\ Cardinality(MembersOf(s))' = Cardinality(MembersOf(s))
             - Bit(s \in Group!ToSet(memb[b])) + Bit(s \in Group!ToSet(memb'[b]))
    BY <1>1, <1>4, RecordsMove
  <2>5. Cardinality(MembersOf(s))' = Cardinality(MembersOf(s)) - IF s = h THEN 1 ELSE 0
    BY <1>3, <1>4, <2>4 DEF Bit
  <2> QED BY <1>6, <2>1, <2>2, <2>3, <2>4, <2>5
<1> QED BY <1>7, <1>9, <1>10, <1>11, <1>13, <1>14 DEF GroupInv, GroupSound, RefsTrue

\* A record that no list has goes at once.
LEMMA ReleaseKept ==
  ASSUME GroupInv, NEW b \in Blocks, Group!Release(b) PROVE GroupInv'
<1>1. /\ GroupSound /\ GroupTyped /\ task[b] = "hook" /\ memb[b] # <<>>
      /\ UNCHANGED <<reason, list, held, sweep, life, linked, request, accepted,
                     count, spawned, completed, cancelled, owner>>
  BY DEF GroupInv, GroupSound, Group!Release, Group!groupVars
<1>2. CASE Head(memb[b]) \in linked[b]
  <2>1. Group!Goto(b, "unlink") /\ UNCHANGED <<memb, refs>>
    BY <1>2 DEF Group!Release
  <2>2. GroupTyped'
    BY <1>1, <2>1 DEF GroupTyped, Group!Goto, Group!States
  <2>3. GroupSound'
    BY <1>1, <2>1, <2>2, MoveSound DEF Running
  <2>4. In(Running)' = In(Running) /\ In(Uncounted)' = In(Uncounted)
    BY <1>1, <2>1 DEF In, Running, Uncounted, GroupTyped, Group!Goto
  <2>5. CountTrue' /\ RefsTrue'
    BY <1>1, <2>1, <2>4, CountsStill DEF GroupInv
  <2> QED BY <2>3, <2>5 DEF GroupInv
<1>3. CASE Head(memb[b]) \notin linked[b]
  <2>1. Group!DropRecord(b) /\ UNCHANGED task
    BY <1>3 DEF Group!Release
  <2>2. Group!Goto(b, "hook")
    BY <1>1, <2>1 DEF GroupTyped, Group!Goto
  <2>3. /\ linked' \in [Blocks -> SUBSET Group!Sources]
        /\ \A x \in Blocks : x # b => linked'[x] = linked[x]
        /\ linked'[b] = linked[b] \ {Head(memb[b])}
        /\ list' \in [Group!Sources -> Seq(Blocks \X Nat)]
    BY <1>1, <1>3 DEF GroupTyped
  <2>4. \A s \in Group!Sources :
          /\ Group!IsInjective(list'[s])
          /\ Group!ToSet(list'[s]) = {Group!Key(x) : x \in {y \in Blocks : s \in linked'[y]}}
    BY <1>1 DEF GroupSound, ListTrue, Listed
  <2> QED BY <1>1, <2>1, <2>2, <2>3, <2>4, RecordDropped
<1> QED BY <1>2, <1>3

\* A record that a list may have goes under the lock.
LEMMA UnlinkKept ==
  ASSUME GroupInv, NEW b \in Blocks, Group!Unlink(b) PROVE GroupInv'
<1>1. /\ GroupSound /\ GroupTyped /\ task[b] = "unlink" /\ memb[b] # <<>>
      /\ memb[b] \in Seq(Group!Sources)
      /\ Group!DropRecord(b) /\ Group!Goto(b, "hook")
      /\ UNCHANGED <<reason, held, sweep, life, request, accepted,
                     count, spawned, completed, cancelled, owner>>
  BY DEF GroupInv, GroupSound, GroupTyped, RecordsTrue, Group!Unlink, Group!groupVars
<1>2. PICK h \in Group!Sources : h = Head(memb[b])
  BY <1>1, HeadTailProperties
<1>3. /\ list' = IF h \in linked[b]
                   THEN [list EXCEPT ![h] = Group!Without(list[h], Group!Key(b))] ELSE list
      /\ linked' = [linked EXCEPT ![b] = linked[b] \ {h}]
  BY <1>2 DEF Group!Unlink
<1>4. /\ linked' \in [Blocks -> SUBSET Group!Sources]
      /\ \A x \in Blocks : x # b => linked'[x] = linked[x]
      /\ linked'[b] = linked[b] \ {h}
  <2>1. linked \in [Blocks -> SUBSET Group!Sources]
    BY <1>1 DEF GroupTyped
  <2>2. PICK m \in SUBSET Group!Sources : m = linked[b] \ {h}
    BY <2>1
  <2> QED BY <1>3, <2>1, <2>2
<1>5. \A x \in Blocks : Group!Key(x) = Group!Key(b) => x = b
  BY DEF Group!Key
<1>6. \A s \in Group!Sources :
        list[s] \in Seq(Blocks \X Nat) /\ Group!IsInjective(list[s]) /\ Group!ToSet(list[s]) = Listed(s)
  BY <1>1 DEF GroupSound, GroupTyped, ListTrue
<1>7. CASE h \in linked[b]
  <2>1. Group!Key(b) \in Group!ToSet(list[h])
    BY <1>6, <1>7 DEF Listed
  <2>2. PICK q : q = Group!Without(list[h], Group!Key(b))
    OBVIOUS
  <2>3. /\ q \in Seq(Blocks \X Nat) /\ Group!IsInjective(q)
        /\ Group!ToSet(q) = Listed(h) \ {Group!Key(b)}
    BY <1>6, <2>1, <2>2, ListWithout
  <2>4. /\ list' \in [Group!Sources -> Seq(Blocks \X Nat)] /\ list'[h] = q
        /\ \A s \in Group!Sources : s # h => list'[s] = list[s]
    BY <1>1, <1>3, <1>7, <2>2, <2>3 DEF GroupTyped
  <2>5. ASSUME NEW s \in Group!Sources
        PROVE  /\ Group!IsInjective(list'[s])
               /\ Group!ToSet(list'[s]) = {Group!Key(x) : x \in {y \in Blocks : s \in linked'[y]}}
    <3>1. CASE s = h
      <4>1. \A x \in Blocks : s \in linked'[x] <=> s \in linked[x] /\ x # b
        BY <1>4, <3>1
      <4>2. Listed(h) \ {Group!Key(b)} = {Group!Key(x) : x \in {y \in Blocks : s \in linked'[y]}}
        BY <1>5, <3>1, <4>1 DEF Listed
      <4> QED BY <2>3, <2>4, <3>1, <4>2
    <3>2. CASE s # h
      <4>1. \A x \in Blocks : s \in linked'[x] <=> s \in linked[x]
        BY <1>4, <3>2
      <4>2. Listed(s) = {Group!Key(x) : x \in {y \in Blocks : s \in linked'[y]}}
        BY <4>1 DEF Listed
      <4> QED BY <1>6, <2>4, <3>2, <4>2
    <3> QED BY <3>1, <3>2
  <2> QED BY <1>1, <1>2, <1>4, <2>4, <2>5, RecordDropped
<1>8. CASE h \notin linked[b]
  <2>1. linked' = linked /\ list' = list
    BY <1>1, <1>3, <1>8 DEF GroupTyped
  <2>2. \A s \in Group!Sources :
          /\ Group!IsInjective(list'[s])
          /\ Group!ToSet(list'[s]) = {Group!Key(x) : x \in {y \in Blocks : s \in linked'[y]}}
    BY <1>6, <2>1 DEF Listed
  <2>3. list' \in [Group!Sources -> Seq(Blocks \X Nat)]
    BY <1>1, <2>1 DEF GroupTyped
  <2> QED BY <1>1, <1>2, <1>4, <2>2, <2>3, RecordDropped
<1> QED BY <1>7, <1>8

\* The block is free.
LEMMA CompleteKept ==
  ASSUME GroupInv, NEW b \in Blocks, Group!Complete(b) PROVE GroupInv'
<1>1. /\ GroupSound /\ GroupTyped /\ task[b] = "hook" /\ memb[b] = <<>> /\ Group!Goto(b, "free")
      /\ UNCHANGED <<reason, list, refs, held, sweep, life, memb, linked, request, accepted,
                     count, spawned, completed, cancelled, owner>>
  BY DEF GroupInv, GroupSound, Group!Complete, Group!sourceVars, Group!groupVars
<1>2. GroupTyped'
  BY <1>1 DEF GroupTyped, Group!Goto, Group!States
<1>3. GroupSound'
  BY <1>1, <1>2, MoveSound DEF Running
<1>4. In(Running)' = In(Running) /\ In(Uncounted)' = In(Uncounted)
  BY <1>1 DEF In, Running, Uncounted, GroupTyped, Group!Goto
<1>5. CountTrue' /\ RefsTrue'
  BY <1>1, <1>4, CountsStill DEF GroupInv
<1> QED BY <1>3, <1>5 DEF GroupInv

-----------------------------------------------------------------------------
(* Task groups: the owner *)

\* The owner waits, reads its report, or starts to free the group that was cancelled before.
LEMMA OwnerKept ==
  ASSUME GroupInv, UNCHANGED <<reason, list, refs, held, sweep, life, task, memb, linked, request,
                               accepted, count, spawned, completed, cancelled>>,
         \/ owner' \in {"open", "reported", "dropping"} /\ owner # "gone"
         \/ owner' = "joined" /\ count = 0 /\ owner # "gone"
  PROVE  GroupInv'
<1>1. GroupSound /\ GroupTyped'
  BY DEF GroupInv, GroupSound, GroupTyped
<1>2. GroupSound'
  BY <1>1, StillSound
<1>3. CountTrue' /\ RefsTrue'
  BY CountsStill DEF GroupInv, In
<1> QED BY <1>2, <1>3 DEF GroupInv

\* The group's own handle goes when nothing is counted.
LEMMA FreedKept ==
  ASSUME GroupInv, Group!Freed PROVE GroupInv'
<1>1. /\ GroupSound /\ GroupTyped /\ owner = "dropping" /\ count = 0 /\ owner' = "gone"
      /\ refs' = [refs EXCEPT ![Own] = refs[Own] - 1]
      /\ UNCHANGED <<reason, list, held, sweep, life, task, memb, linked, request, accepted,
                     count, spawned, completed, cancelled>>
  BY DEF GroupInv, GroupSound, Group!Freed, Group!taskVars
<1>2. GroupTyped'
  <2>1. refs' \in [Group!Sources -> Int]
    BY <1>1, GroupGiven DEF GroupTyped
  <2> QED BY <1>1, <2>1 DEF GroupTyped
<1>3. GroupSound'
  BY <1>1, <1>2, StillSound
<1>4. CountTrue'
  BY <1>1 DEF GroupInv, CountTrue, In
<1>5. Own \notin held
  BY <1>1, GroupGiven DEF GroupTyped
<1>6. ASSUME NEW s \in Group!Sources
      PROVE  refs'[s] = Holder(s)' + Cardinality(MembersOf(s))' + Tokens(s)'
  <2>1. MembersOf(s)' = MembersOf(s) /\ Tokens(s)' = Tokens(s)
    BY <1>1 DEF MembersOf, Tokens, In
  <2>2. refs[s] = Holder(s) + Cardinality(MembersOf(s)) + Tokens(s)
    BY DEF GroupInv, RefsTrue
  <2>3. Cardinality(MembersOf(s)) \in Nat /\ Tokens(s) \in Nat
    BY <1>1, CountType DEF Tokens
  <2>4. Holder(s)' = (IF s = Own THEN Holder(s) - 1 ELSE Holder(s)) /\ Holder(s) \in Nat
    BY <1>1, <1>5 DEF Holder
  <2>5. refs'[s] = IF s = Own THEN refs[s] - 1 ELSE refs[s]
    BY <1>1 DEF GroupTyped
  <2> QED BY <2>1, <2>2, <2>3, <2>4, <2>5
<1> QED BY <1>3, <1>4, <1>6 DEF GroupInv, RefsTrue

LEMMA GroupStep == ASSUME GroupInv, Group!Next PROVE GroupInv'
<1>1. ASSUME NEW c \in Group!Callers, Group!RequestNext(c) \/ Group!NextBatch(c) PROVE GroupInv'
  BY <1>1, RequestNextKept, NextBatchKept
<1>2. ASSUME NEW c \in Cancellers, NEW s \in Others, NEW why \in Reasons,
             Group!CancelOther(c, s, why)
      PROVE  GroupInv'
  <2>1. Group!Cancel(c, s, why) /\ UNCHANGED <<count, spawned, completed, cancelled, owner>>
    BY <1>2 DEF Group!CancelOther, Group!groupVars
  <2>2. c \in Group!Callers /\ s \in Group!Sources
    BY GroupGiven
  <2> QED BY <2>1, <2>2, CancelKept
<1>3. ASSUME NEW s \in Others, Group!DropSource(s) PROVE GroupInv'
  BY <1>3, DropSourceKept
<1>4. ASSUME NEW b \in Blocks,
             \/ Group!Spawn(b) \/ Group!AskSelf(b) \/ Group!Accept(b) \/ Group!End(b)
             \/ Group!Count(b) \/ Group!Done(b) \/ Group!Release(b) \/ Group!Unlink(b)
             \/ Group!Complete(b)
      PROVE  GroupInv'
  BY <1>4, SpawnKept, AskSelfKept, AcceptKept, CountKept, DoneKept, ReleaseKept, UnlinkKept,
     CompleteKept
<1>5. ASSUME NEW b \in Blocks, NEW s \in Group!Sources, Group!Bind(b, s) PROVE GroupInv'
  BY <1>5, BindKept
<1>6. CASE Group!CancelGroup
  <2>1. Group!Cancel(Owner, Own, User) /\ UNCHANGED <<count, spawned, completed, cancelled, owner>>
    BY <1>6 DEF Group!CancelGroup, Group!groupVars
  <2> QED BY <2>1, GroupGiven, CancelKept
<1>7. ASSUME NEW cut \in BOOLEAN, Group!Join(cut) PROVE GroupInv'
  BY <1>7, OwnerKept DEF Group!Join, Group!sourceVars, Group!taskVars
<1>8. CASE Group!Reported
  BY <1>8, OwnerKept DEF Group!Reported, Group!sourceVars, Group!taskVars
<1>9. CASE Group!Free
  <2>1. /\ owner \in {"open", "reported"} /\ owner' = "dropping"
        /\ UNCHANGED <<count, spawned, completed, cancelled>>
    BY <1>9 DEF Group!Free
  <2>2. CASE reason[Own] = NoReason
    <3>1. Group!Cancel(Owner, Own, User)
      BY <1>9, <2>2 DEF Group!Free
    <3> QED BY <2>1, <3>1, GroupGiven, CancelKept
  <2>3. CASE reason[Own] # NoReason
    BY <1>9, <2>1, <2>3, OwnerKept DEF Group!Free, Group!sourceVars, Group!taskVars
  <2> QED BY <2>2, <2>3
<1>10. CASE Group!Freed
  BY <1>10, FreedKept
<1> QED BY <1>1, <1>2, <1>3, <1>4, <1>5, <1>6, <1>7, <1>8, <1>9, <1>10 DEF Group!Next

LEMMA GroupStill == ASSUME GroupInv, UNCHANGED groupVars PROVE GroupInv'
<1>1. GroupSound /\ GroupTyped'
  BY DEF GroupInv, GroupSound, GroupTyped, groupVars
<1>2. GroupSound'
  BY <1>1, StillSound DEF groupVars
<1>3. CountTrue' /\ RefsTrue'
  BY CountsStill DEF GroupInv, In, groupVars
<1> QED BY <1>2, <1>3 DEF GroupInv

LEMMA GroupInit == ASSUME Group!Init PROVE GroupInv
<1>1. /\ \A b \in Blocks : /\ task[b] = "free" /\ memb[b] = <<>> /\ linked[b] = {}
                           /\ life[b] = 0 /\ request[b] = NoReason
      /\ \A s \in Group!Sources : reason[s] = NoReason /\ list[s] = <<>> /\ refs[s] = 1
      /\ \A c \in Group!Callers : sweep[c] = Group!NoSweep
      /\ held = Others /\ accepted = {} /\ owner = "open"
      /\ count = 0 /\ spawned = 0 /\ completed = 0 /\ cancelled = 0
  BY DEF Group!Init
<1>2. Group!ToSet(<<>>) = {} /\ Group!IsInjective(<<>>)
  BY EmptySeq DEF Group!ToSet, Group!IsInjective
<1>3. GroupTyped
  <2>1. <<>> \in Seq(Blocks \X Nat) /\ <<>> \in Seq(Group!Sources)
    BY EmptySeq
  <2>2. /\ reason \in [Group!Sources -> Reasons \cup {NoReason}]
        /\ list \in [Group!Sources -> Seq(Blocks \X Nat)] /\ refs \in [Group!Sources -> Int]
        /\ sweep \in [Group!Callers -> SweepType]
        /\ life \in [Blocks -> Nat] /\ task \in [Blocks -> Group!States]
        /\ memb \in [Blocks -> Seq(Group!Sources)] /\ linked \in [Blocks -> SUBSET Group!Sources]
        /\ request \in [Blocks -> Reasons \cup {NoReason}]
    BY <2>1, NoSweepTyped DEF Group!Init, Group!States
  <2> QED BY <1>1, <2>2 DEF GroupTyped
<1>4. ASSUME NEW b \in Blocks PROVE RecordsTrue(b) /\ Asked(b)
  BY <1>1, <1>2 DEF RecordsTrue, Asked, Running
<1>5. ASSUME NEW s \in Group!Sources PROVE ListTrue(s)
  BY <1>1, <1>2 DEF ListTrue, Listed
<1>6. ASSUME NEW c \in Group!Callers PROVE SweepTrue(c)
  BY <1>1 DEF SweepTrue
<1>7. In(Running) = {} /\ In(Uncounted) = {} /\ Cardinality({}) = 0
  BY <1>1, FS_EmptySet DEF In, Running, Uncounted
<1>8. CountTrue
  BY <1>1, <1>7 DEF CountTrue
<1>9. ASSUME NEW s \in Group!Sources
      PROVE  refs[s] = Holder(s) + Cardinality(MembersOf(s)) + Tokens(s)
  <2>1. MembersOf(s) = {}
    BY <1>1, <1>2 DEF MembersOf
  <2>2. Holder(s) = 1
    BY <1>1 DEF Holder, Group!Sources
  <2> QED BY <1>1, <1>7, <2>1, <2>2 DEF Tokens
<1> QED BY <1>3, <1>4, <1>5, <1>6, <1>8, <1>9 DEF GroupInv, GroupSound, RefsTrue

\* What the invariant says of a group and its sources.
LEMMA GroupHolds == ASSUME GroupInv PROVE Group!GroupKept
<1>1. GroupSound /\ GroupTyped /\ CountTrue
  BY DEF GroupInv, GroupSound
<1>2. Group!MembersReached
  <2>1. ASSUME NEW b \in Group!InBody, NEW s \in Group!ToSet(memb[b]),
               reason[s] # NoReason, \A c \in Group!Callers : sweep[c].src # s
        PROVE  request[b] # NoReason
    <3>1. b \in Blocks /\ task[b] \in Running /\ task[b] # "asking"
      BY <2>1 DEF Group!InBody, Running
    <3>2. ~Coming(b, s)
      BY <2>1, <3>1 DEF Coming, SweepComing
    <3> QED BY <1>1, <2>1, <3>1, <3>2 DEF GroupSound, Asked
  <2>2. ASSUME NEW b \in Group!InBody, request[b] # NoReason
        PROVE  \E s \in Group!ToSet(memb[b]) : reason[s] = request[b]
    <3>1. b \in Blocks /\ task[b] \in Running
      BY <2>2 DEF Group!InBody, Running
    <3> QED BY <1>1, <2>2, <3>1 DEF GroupSound, Asked
  <2> QED BY <2>1, <2>2 DEF Group!MembersReached
<1>3. Group!ListsTrue
  BY <1>1 DEF GroupSound, ListTrue, Listed, RecordsTrue, Group!ListsTrue
<1>4. \A S : Group!Cardinality(S) = Cardinality(S)
  BY DEF Group!Cardinality, Cardinality, Group!IsFiniteSet, IsFiniteSet
<1>5. Group!SharedAlive
  <2>1. ASSUME NEW s \in Group!Sources
        PROVE  MembersOf(s) = {b \in Blocks : Group!Contains(memb[b], s)}
    <3>1. \A b \in Blocks : Group!Contains(memb[b], s) <=> s \in Group!ToSet(memb[b])
      BY <1>1, AtIndices DEF GroupTyped
    <3> QED BY <3>1 DEF MembersOf
  <2>2. In(Running) = {b \in Blocks : task[b] \notin {"free", "hook", "unlink"}}
    BY <1>1 DEF In, Running, GroupTyped, Group!States
  <2>3. ASSUME NEW s \in Group!Sources
        PROVE  refs[s] =
          (IF s \in held \/ (s = Own /\ owner # "gone") THEN 1 ELSE 0)
            + Group!Cardinality({b \in Blocks : Group!Contains(memb[b], s)})
            + (IF s = Own THEN Group!Cardinality({b \in Blocks : task[b] \notin {"free", "hook", "unlink"}})
               ELSE 0)
    <3>1. refs[s] = Holder(s) + Cardinality(MembersOf(s)) + Tokens(s)
      BY DEF GroupInv, RefsTrue
    <3> QED BY <1>4, <2>1, <2>2, <3>1 DEF Holder, Tokens
  <2> QED BY <2>3 DEF Group!SharedAlive
<1>6. Group!ReportAddsUp /\ Group!NobodyOutlives
  <2>1. Cardinality(In(Uncounted)) \in Nat /\ (Cardinality(In(Running)) = 0 => In(Running) = {})
    BY <1>1, CountType
  <2>2. completed + cancelled + Cardinality(In(Uncounted)) = spawned
    BY <1>1 DEF CountTrue
  <2>3. ASSUME owner \in {"joined", "gone"} PROVE In(Running) = {}
    BY <1>1, <2>1, <2>3 DEF CountTrue
  <2>4. In(Running) = {} => Cardinality(In(Uncounted)) = 0
    <3>1. In(Running) = {} => In(Uncounted) = {}
      BY DEF In, Running, Uncounted
    <3> QED BY <3>1, FS_EmptySet
  <2>5. completed + cancelled <= spawned /\ (owner = "joined" => completed + cancelled = spawned)
    BY <1>1, <2>1, <2>2, <2>3, <2>4 DEF GroupTyped
  <2>6. owner = "gone" => Group!InBody \cup {b \in Blocks : task[b] = "start"} = {}
    BY <2>3 DEF Group!InBody, In, Running
  <2> QED BY <2>5, <2>6 DEF Group!ReportAddsUp, Group!NobodyOutlives
<1> QED BY <1>2, <1>3, <1>5, <1>6 DEF Group!GroupKept

\* Whatever is spawned, bound, cancelled, ended and started over in the same blocks, and with any
\* number of tasks, sources and threads: a cancel reaches every member of its source and nobody
\* else, the lists and references are those of the records, and no child outlives its group.
THEOREM GroupsKept == MCSpec => []GroupKept
<1>1. MCInit => GroupInv
  BY GroupInit DEF MCInit
<1>2. GroupInv /\ [MCNext]_allVars => GroupInv'
  <2> SUFFICES ASSUME GroupInv, [MCNext]_allVars PROVE GroupInv'
    OBVIOUS
  <2>1. CASE Group!Next
    BY <2>1, GroupStep
  <2>2. CASE UNCHANGED groupVars
    BY <2>2, GroupStill
  <2> QED BY <2>1, <2>2 DEF MCNext, allVars
<1>3. GroupInv => GroupKept
  BY GroupHolds DEF GroupKept
<1> QED BY <1>1, <1>2, <1>3, PTL DEF MCSpec
=============================================================================
