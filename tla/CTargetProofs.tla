--------------------------- MODULE CTargetProofs ---------------------------
(***************************************************************************)
(* LayersRebuild, for every number of targets, every tables and every      *)
(* choice of groups: the layers of gen_ctarget.py say what the reference   *)
(* compiler said when merge_layers, which never removes, applies them.     *)
(***************************************************************************)
EXTENDS CTarget, Integers, FiniteSetTheorems, TLAPS

Layer == [sets : Table, dels : SUBSET Names]

TypeOK ==
  /\ finals \in [Targets -> Table]
  /\ state \in [Targets -> Table]
  /\ layers \in Seq(Layer)
  /\ plan \in [Targets -> Seq(1 .. Len(layers))]
  /\ at \in Nat \ {0}

\* What the layers say of a target so far is true of it.
Truthful == \A t \in Targets : \A k \in Names :
  state[t][k] # NoLine => state[t][k] = finals[t][k]

\* The targets that have their own layer are done.
OwnDone == \A t \in Targets : t < Own => state[t] = finals[t]

\* The groups planned so far that a target is in, and the layers it has of them.
Passed(t, n) == {g \in DOMAIN Groups : t \in Groups[g] /\ g < n}
Bounded == \A t \in Targets :
  Len(plan[t]) <= Cardinality(Passed(t, at)) + (IF t < Own THEN 1 ELSE 0)

\* The layers of a target that set a name have a last one.
HasLast(t, table, k) == Setting(t, table, k) # {} =>
  \E i \in Setting(t, table, k) : \A j \in Setting(t, table, k) : j <= i
LastOnes == \A t \in Targets : \A table \in {Macros, Names \ Macros} : \A k \in Names :
  HasLast(t, table, k)

Inv == /\ TypeOK /\ Truthful /\ OwnDone /\ Bounded /\ LastOnes
       /\ NoLayerRemoves /\ RebuildsState

-----------------------------------------------------------------------------
(* A layer that is true of its members and removes nothing *)

\* What is true of a layer the generator adds.
Sound(members, layer) ==
  /\ layer \in Layer
  /\ layer.dels = {}
  /\ \A t \in members : \A k \in Names :
       layer.sets[k] # NoLine => layer.sets[k] = finals[t][k]

\* A group's layer is sound: on no name that some member has do all agree to have none.
LEMMA GroupLayerSound ==
  ASSUME Inv, NEW members \in SUBSET Targets
  PROVE  Sound(members, GroupLayer(members))
<1> DEFINE news(k) == {v \in Lines : Agreed(members, k, v) /\ \E t \in members : state[t][k] # v}
           l == GroupLayer(members)
<1>1. l.sets = [k \in Names |-> IF news(k) = {} THEN NoLine ELSE CHOOSE v \in news(k) : TRUE]
  BY DEF GroupLayer
<1>2. ASSUME NEW k \in Names, news(k) # {}
      PROVE  l.sets[k] \in news(k)
  BY <1>1, <1>2
<1>3. ASSUME NEW k \in Names, news(k) = {}
      PROVE  l.sets[k] = NoLine
  BY <1>1, <1>3
<1>4. l.sets \in Table
  BY <1>1, <1>2, <1>3 DEF Table
<1>5. l.dels = {}
  <2>1. SUFFICES ASSUME NEW k \in l.dels
                 PROVE  FALSE
    OBVIOUS
  <2>2. /\ k \in Names /\ members # {}
        /\ \A t \in members : finals[t][k] = NoLine /\ state[t][k] # NoLine
    BY <2>1 DEF GroupLayer
  <2>3. PICK t \in members : TRUE
    BY <2>2
  <2> QED
    BY <2>2, <2>3 DEF Inv, Truthful
<1>6. l \in Layer
  BY <1>4, <1>5 DEF Layer, GroupLayer
<1>7. ASSUME NEW t \in members, NEW k \in Names, l.sets[k] # NoLine
      PROVE  l.sets[k] = finals[t][k]
  BY <1>2, <1>3, <1>7 DEF Agreed
<1> QED
  BY <1>5, <1>6, <1>7 DEF Sound

\* A target's own layer is sound, and completes it.
LEMMA OwnLayerSound ==
  ASSUME Inv, NEW t \in Targets
  PROVE  /\ Sound({t}, OwnLayer(t))
         /\ \A k \in Names :
              finals[t][k] = IF OwnLayer(t).sets[k] # NoLine THEN OwnLayer(t).sets[k] ELSE state[t][k]
<1> DEFINE l == OwnLayer(t)
<1>1. l.sets = [k \in Names |-> IF state[t][k] = finals[t][k] THEN NoLine ELSE finals[t][k]]
  BY DEF OwnLayer
<1>2. \A k \in Names : finals[t][k] \in Lines \cup {NoLine}
  BY DEF Inv, TypeOK, Table
<1>3. l.sets \in Table
  BY <1>1, <1>2 DEF Table
<1>4. l.dels = {}
  BY DEF OwnLayer, Inv, Truthful
<1>5. l \in Layer
  BY <1>3, <1>4 DEF Layer, OwnLayer
<1>6. \A k \in Names : l.sets[k] # NoLine => l.sets[k] = finals[t][k]
  BY <1>1
<1>7. \A k \in Names : finals[t][k] = IF l.sets[k] # NoLine THEN l.sets[k] ELSE state[t][k]
  BY <1>1 DEF Inv, Truthful
<1> QED
  BY <1>4, <1>5, <1>6, <1>7 DEF Sound

\* What adding a sound layer does, made or not.
LEMMA AddSays ==
  ASSUME Inv, NEW members \in SUBSET Targets, NEW l, Sound(members, l), Add(members, l)
  PROVE  \A t \in Targets : \A k \in Names :
           state'[t][k] = IF t \in members /\ l.sets[k] # NoLine THEN l.sets[k] ELSE state[t][k]
<1>1. l.dels = {}
  BY DEF Sound
<1>2. CASE Empty(l)
  <2>1. \A k \in Names : l.sets[k] = NoLine
    BY <1>2 DEF Empty, Blank
  <2>2. state' = state
    BY <1>2 DEF Add
  <2> QED
    BY <2>1, <2>2
<1>3. CASE ~Empty(l)
  BY <1>1, <1>3 DEF Add
<1> QED
  BY <1>2, <1>3

\* ... and what it leaves: a plan of layers that remove nothing.
LEMMA AddTypes ==
  ASSUME Inv, NEW members \in SUBSET Targets, NEW l, Sound(members, l), Add(members, l)
  PROVE  /\ layers' \in Seq(Layer)
         /\ plan' \in [Targets -> Seq(1 .. Len(layers'))]
         /\ state' \in [Targets -> Table]
         /\ NoLayerRemoves'
         /\ \A t \in Targets :
              Len(plan'[t]) <= Len(plan[t]) + (IF t \in members THEN 1 ELSE 0)
<1> USE DEF Inv, TypeOK
<1>1. CASE Empty(l)
  BY <1>1 DEF Add, NoLayerRemoves
<1>2. CASE ~Empty(l)
  <2> DEFINE n == Len(layers) + 1
  <2>1. /\ layers' = Append(layers, l)
        /\ plan' = [t \in Targets |-> IF t \in members THEN Append(plan[t], n) ELSE plan[t]]
    BY <1>2 DEF Add
  <2>2. l \in Layer /\ l.dels = {}
    BY DEF Sound
  <2>3. layers' \in Seq(Layer) /\ Len(layers') = n /\ n \in Nat
    BY <2>1, <2>2
  <2>4. ASSUME NEW t \in Targets
        PROVE  /\ plan'[t] \in Seq(1 .. n)
               /\ Len(plan'[t]) <= Len(plan[t]) + (IF t \in members THEN 1 ELSE 0)
    <3>1. plan[t] \in Seq(1 .. Len(layers)) /\ Len(layers) \in Nat
      OBVIOUS
    <3>2. plan[t] \in Seq(1 .. n) /\ n \in 1 .. n /\ Len(plan[t]) \in Nat
      BY <3>1
    <3>3. CASE t \in members
      <4>1. plan'[t] = Append(plan[t], n)
        BY <2>1, <3>3
      <4> HIDE DEF n
      <4>2. plan'[t] \in Seq(1 .. n) /\ Len(plan'[t]) = Len(plan[t]) + 1
        BY <3>2, <4>1
      <4> QED
        BY <3>2, <3>3, <4>2
    <3>4. CASE t \notin members
      <4>1. plan'[t] = plan[t]
        BY <2>1, <3>4
      <4> QED
        BY <3>2, <3>4, <4>1
    <3> QED
      BY <3>3, <3>4
  <2>5. plan' \in [Targets -> Seq(1 .. Len(layers'))]
    BY <2>1, <2>3, <2>4
  <2>6. NoLayerRemoves'
    BY <2>1, <2>2 DEF NoLayerRemoves
  <2>7. \A t \in Targets : l.sets \in Table /\ state[t] \in Table
    BY <2>2 DEF Layer
  <2>8. state' \in [Targets -> Table]
    <3>1. state' = [t \in Targets |->
            IF t \notin members THEN state[t]
            ELSE [k \in Names |-> IF k \in l.dels THEN NoLine
                                  ELSE IF l.sets[k] # NoLine THEN l.sets[k] ELSE state[t][k]]]
      BY <1>2 DEF Add
    <3>2. ASSUME NEW t \in Targets
          PROVE  state'[t] \in Table
      BY <2>7, <3>1 DEF Table
    <3> QED
      BY <3>1, <3>2
  <2> QED
    BY <2>3, <2>4, <2>5, <2>6, <2>8
<1> QED
  BY <1>1, <1>2

-----------------------------------------------------------------------------
(* merge_layers over one layer more *)

\* The line merge_layers gives a name.
LineOf(t, table, k) ==
  IF Setting(t, table, k) = {} THEN NoLine
  ELSE Part(layers[plan[t][LatestIn(Setting(t, table, k))]], table)[k]

LEMMA RebuiltIs ==
  ASSUME NEW t, NEW table
  PROVE  Rebuilt(t, table) = [k \in Names |-> LineOf(t, table, k)]
BY DEF Rebuilt, LineOf

\* The last of some positions of a plan that end in a new one is the new one.
LEMMA LatestIsNew ==
  ASSUME NEW n \in Nat, NEW S \in SUBSET (1 .. n)
  PROVE  LatestIn(S \cup {n + 1}) = n + 1
<1> DEFINE A == S \cup {n + 1}
           P(i) == i \in A /\ \A j \in A : j <= i
<1>1. P(n + 1)
  OBVIOUS
<1>2. \A i \in A : (\A j \in A : j <= i) => i = n + 1
  <2>1. SUFFICES ASSUME NEW i \in A, \A j \in A : j <= i
                 PROVE  i = n + 1
    OBVIOUS
  <2>2. n + 1 <= i
    BY <2>1
  <2>3. i \in 1 .. n \cup {n + 1}
    OBVIOUS
  <2> QED
    BY <2>2, <2>3
<1> QED
  BY <1>1, <1>2 DEF LatestIn

\* A layer more: its line, where it has one, and else the line there was.
LEMMA RebuildsOneMore ==
  ASSUME Inv, NEW members \in SUBSET Targets, NEW l, Sound(members, l), Add(members, l),
         ~Empty(l), NEW t \in Targets, NEW table \in {Macros, Names \ Macros}, NEW k \in Names
  PROVE  /\ HasLast(t, table, k)'
         /\ LineOf(t, table, k)' =
              IF t \in members /\ Part(l, table)[k] # NoLine THEN Part(l, table)[k]
              ELSE LineOf(t, table, k)
<1> DEFINE n == Len(layers) + 1
           m == Len(plan[t])
<1> USE DEF Inv, TypeOK
<1>1. /\ layers' = Append(layers, l)
      /\ plan'[t] = IF t \in members THEN Append(plan[t], n) ELSE plan[t]
  BY DEF Add
<1>2. /\ plan[t] \in Seq(1 .. Len(layers)) /\ Len(layers) \in Nat
      /\ m \in Nat /\ DOMAIN plan[t] = 1 .. m
  OBVIOUS
<1>3. ASSUME NEW i \in 1 .. m
      PROVE  plan'[t][i] = plan[t][i] /\ layers'[plan'[t][i]] = layers[plan[t][i]]
  <2>1. plan[t][i] \in 1 .. Len(layers)
    BY <1>2
  <2>2. plan'[t][i] = plan[t][i]
    BY <1>1, <1>2
  <2> QED
    BY <1>1, <2>1, <2>2
<1> DEFINE S == Setting(t, table, k)
           T == {i \in DOMAIN plan'[t] : Part(layers'[plan'[t][i]], table)[k] # NoLine}
<1>4. S = {i \in 1 .. m : Part(layers[plan[t][i]], table)[k] # NoLine}
  BY <1>2 DEF Setting
<1>5. Setting(t, table, k)' = T
  BY DEF Setting
<1>6. LineOf(t, table, k)' =
        IF T = {} THEN NoLine ELSE Part(layers'[plan'[t][LatestIn(T)]], table)[k]
  BY <1>5 DEF LineOf, Part
<1>7. CASE t \in members /\ Part(l, table)[k] # NoLine
  <2>1. DOMAIN plan'[t] = 1 .. m + 1 /\ plan'[t][m + 1] = n
    BY <1>1, <1>2, <1>7
  <2>2. layers'[n] = l
    BY <1>1, <1>2
  <2>3. T = S \cup {m + 1}
    BY <1>2, <1>3, <1>4, <1>7, <2>1, <2>2
  <2>4. S \in SUBSET (1 .. m)
    BY <1>4
  <2> HIDE DEF S, T, m
  <2>5. LatestIn(T) = m + 1
    BY <1>2, <2>3, <2>4, LatestIsNew
  <2>6. \A j \in T : j <= m + 1
    BY <1>2, <2>3, <2>4
  <2>7. HasLast(t, table, k)'
    BY <1>5, <2>3, <2>6 DEF HasLast
  <2> QED
    BY <1>6, <1>7, <2>1, <2>2, <2>3, <2>5, <2>7
<1>8. CASE ~(t \in members /\ Part(l, table)[k] # NoLine)
  <2>1. T = S
    <3>1. CASE t \in members
      <4>1. DOMAIN plan'[t] = 1 .. m + 1 /\ plan'[t][m + 1] = n
        BY <1>1, <1>2, <3>1
      <4>2. layers'[n] = l
        BY <1>1, <1>2
      <4> QED
        BY <1>2, <1>3, <1>4, <1>8, <3>1, <4>1, <4>2
    <3>2. CASE t \notin members
      BY <1>1, <1>2, <1>3, <1>4, <3>2
    <3> QED
      BY <3>1, <3>2
  <2>2. HasLast(t, table, k)
    BY DEF LastOnes
  <2>3. HasLast(t, table, k)'
    BY <1>5, <2>1, <2>2 DEF HasLast
  <2>4. CASE S = {}
    BY <1>6, <1>8, <2>1, <2>3, <2>4 DEF LineOf
  <2>5. CASE S # {}
    <3>1. LatestIn(S) \in S
      BY <2>2, <2>5 DEF HasLast, LatestIn
    <3>2. LatestIn(S) \in 1 .. m
      BY <3>1, <1>4
    <3> QED
      BY <1>3, <1>6, <1>8, <2>1, <2>3, <2>5, <3>2 DEF LineOf
  <2> QED
    BY <2>4, <2>5
<1> QED
  BY <1>7, <1>8

\* A sound layer keeps what the layers say true, and what merge_layers makes of them.
LEMMA AddKeeps ==
  ASSUME Inv, NEW members \in SUBSET Targets, NEW l, Sound(members, l), Add(members, l),
         UNCHANGED finals
  PROVE  Truthful' /\ LastOnes' /\ RebuildsState'
<1>1. Truthful'
  <2>1. SUFFICES ASSUME NEW t \in Targets, NEW k \in Names, state'[t][k] # NoLine
                 PROVE  state'[t][k] = finals'[t][k]
    BY DEF Truthful
  <2>2. state'[t][k] = IF t \in members /\ l.sets[k] # NoLine THEN l.sets[k] ELSE state[t][k]
    BY AddSays
  <2> QED
    BY <2>1, <2>2 DEF Inv, Truthful, Sound
<1>2. CASE Empty(l)
  <2>1. UNCHANGED <<finals, state, layers, plan>>
    BY <1>2 DEF Add
  <2>2. LastOnes'
    BY <2>1 DEF Inv, LastOnes, HasLast, Setting, Part
  <2>3. RebuildsState'
    <3>1. SUFFICES ASSUME NEW t \in Targets, NEW table \in {Macros, Names \ Macros}
                   PROVE  Rebuilt(t, table)' =
                            [k \in Names |-> IF k \in table THEN state'[t][k] ELSE NoLine]
      BY DEF RebuildsState
    <3>2. Rebuilt(t, table)' = Rebuilt(t, table)
      BY <2>1 DEF Rebuilt, Setting, Part
    <3> QED
      BY <2>1, <3>2 DEF Inv, RebuildsState
  <2> QED
    BY <1>1, <2>2, <2>3
<1>3. CASE ~Empty(l)
  <2>1. LastOnes'
    BY <1>3, RebuildsOneMore DEF LastOnes
  <2>2. ASSUME NEW t \in Targets, NEW table \in {Macros, Names \ Macros}
        PROVE  Rebuilt(t, table)' = [k \in Names |-> IF k \in table THEN state'[t][k] ELSE NoLine]
    <3>1. Rebuilt(t, table)' = [k \in Names |-> LineOf(t, table, k)']
      BY DEF Rebuilt, LineOf
    <3>2. ASSUME NEW k \in Names
          PROVE  LineOf(t, table, k)' = IF k \in table THEN state'[t][k] ELSE NoLine
      <4>1. LineOf(t, table, k) = IF k \in table THEN state[t][k] ELSE NoLine
        <5>1. Rebuilt(t, table) = [j \in Names |-> IF j \in table THEN state[t][j] ELSE NoLine]
          BY DEF Inv, RebuildsState
        <5>2. Rebuilt(t, table)[k] = LineOf(t, table, k)
          BY RebuiltIs
        <5> QED
          BY <5>1, <5>2
      <4>2. Part(l, table)[k] = IF k \in table THEN l.sets[k] ELSE NoLine
        BY DEF Part
      <4>3. state'[t][k] = IF t \in members /\ l.sets[k] # NoLine THEN l.sets[k] ELSE state[t][k]
        BY AddSays
      <4>4. LineOf(t, table, k)' =
              IF t \in members /\ Part(l, table)[k] # NoLine THEN Part(l, table)[k]
              ELSE LineOf(t, table, k)
        BY <1>3, RebuildsOneMore
      <4> QED
        BY <4>1, <4>2, <4>3, <4>4
    <3> QED
      BY <3>1, <3>2
  <2>3. RebuildsState'
    BY <2>2 DEF RebuildsState
  <2> QED
    BY <1>1, <2>1, <2>3
<1> QED
  BY <1>2, <1>3

-----------------------------------------------------------------------------
(* Rows *)

\* The groups passed are finitely many, and grow by the one at hand.
LEMMA PassedGrows ==
  ASSUME NEW t \in Targets, NEW n \in Nat \ {0}
  PROVE  /\ IsFiniteSet(Passed(t, n)) /\ Cardinality(Passed(t, n)) \in Nat
         /\ n \in DOMAIN Groups /\ t \in Groups[n] =>
              Cardinality(Passed(t, n + 1)) = Cardinality(Passed(t, n)) + 1
         /\ ~(n \in DOMAIN Groups /\ t \in Groups[n]) => Passed(t, n + 1) = Passed(t, n)
<1>1. DOMAIN Groups = 1 .. Len(Groups) /\ Len(Groups) \in Nat
  BY CTargetAssumption
<1>2. IsFiniteSet(DOMAIN Groups)
  BY <1>1, FS_Interval
<1>3. IsFiniteSet(Passed(t, n)) /\ Cardinality(Passed(t, n)) \in Nat
  BY <1>2, FS_Subset, FS_CardinalityType DEF Passed
<1>4. ASSUME n \in DOMAIN Groups, t \in Groups[n]
      PROVE  Cardinality(Passed(t, n + 1)) = Cardinality(Passed(t, n)) + 1
  <2>1. Passed(t, n + 1) = Passed(t, n) \cup {n} /\ n \notin Passed(t, n)
    BY <1>1, <1>4 DEF Passed
  <2> QED
    BY <1>3, <2>1, FS_AddElement
<1>5. ASSUME ~(n \in DOMAIN Groups /\ t \in Groups[n])
      PROVE  Passed(t, n + 1) = Passed(t, n)
  BY <1>1, <1>5 DEF Passed
<1> QED
  BY <1>3, <1>4, <1>5

\* A target has at most a layer per group passed, and its own: it fits its row.
LEMMA RowsFit == Inv => FitsRow
<1> SUFFICES ASSUME Inv, NEW t \in Targets
             PROVE  Len(plan[t]) <= Cardinality({g \in DOMAIN Groups : t \in Groups[g]}) + 1
  BY DEF FitsRow
<1> DEFINE all == {g \in DOMAIN Groups : t \in Groups[g]}
<1>1. DOMAIN Groups = 1 .. Len(Groups) /\ Len(Groups) \in Nat
  BY CTargetAssumption
<1>2. IsFiniteSet(all) /\ Passed(t, at) \in SUBSET all
  <2>1. IsFiniteSet(DOMAIN Groups)
    BY <1>1, FS_Interval
  <2>2. all \subseteq DOMAIN Groups /\ Passed(t, at) \subseteq all
    BY DEF Passed
  <2> QED
    BY <2>1, <2>2, FS_Subset
<1>3. Cardinality(Passed(t, at)) <= Cardinality(all) /\ Cardinality(all) \in Nat
      /\ Cardinality(Passed(t, at)) \in Nat
  BY <1>2, FS_Subset, FS_CardinalityType
<1>4. Len(plan[t]) \in Nat
  BY DEF Inv, TypeOK
<1> QED
  BY <1>3, <1>4 DEF Inv, Bounded

-----------------------------------------------------------------------------
(* The steps *)

LEMMA InitInv == Init => Inv
<1> SUFFICES ASSUME Init PROVE Inv
  OBVIOUS
<1> USE DEF Init
<1>1. Blank \in Table
  BY DEF Blank, Table
<1>2. TypeOK
  BY <1>1 DEF TypeOK
<1>3. Truthful
  BY DEF Truthful, Blank
<1>4. OwnDone
  BY CTargetAssumption DEF OwnDone, Own, Targets
<1>5. Bounded
  <2>1. ASSUME NEW t \in Targets
        PROVE  Len(plan[t]) <= Cardinality(Passed(t, at)) + (IF t < Own THEN 1 ELSE 0)
    BY PassedGrows
  <2> QED
    BY <2>1 DEF Bounded
<1>6. \A t \in Targets : \A table, k : Setting(t, table, k) = {}
  BY DEF Setting
<1>7. LastOnes
  BY <1>6 DEF LastOnes, HasLast
<1>8. NoLayerRemoves
  BY DEF NoLayerRemoves
<1>9. RebuildsState
  BY <1>6 DEF RebuildsState, Rebuilt, Blank
<1> QED
  BY <1>2, <1>3, <1>4, <1>5, <1>7, <1>8, <1>9 DEF Inv

LEMMA ShareGroupInv == Inv /\ ShareGroup => Inv'
<1> SUFFICES ASSUME Inv, ShareGroup PROVE Inv'
  OBVIOUS
<1> DEFINE members == Groups[at]
           l == GroupLayer(members)
<1>0. /\ Len(Groups) \in Nat /\ DOMAIN Groups = 1 .. Len(Groups)
      /\ at \in DOMAIN Groups /\ at \in Nat \ {0}
      /\ members \in SUBSET Targets
  BY CTargetAssumption DEF ShareGroup, Inv, TypeOK
<1>1. at' = at + 1 /\ finals' = finals /\ Add(members, l)
  BY DEF ShareGroup
<1>2. Sound(members, l)
  BY <1>0, GroupLayerSound
<1> HIDE DEF members, l
<1>3. /\ layers' \in Seq(Layer)
      /\ plan' \in [Targets -> Seq(1 .. Len(layers'))]
      /\ state' \in [Targets -> Table]
      /\ NoLayerRemoves'
      /\ \A t \in Targets : Len(plan'[t]) <= Len(plan[t]) + (IF t \in members THEN 1 ELSE 0)
  BY <1>0, <1>1, <1>2, AddTypes
<1>4. TypeOK'
  BY <1>0, <1>1, <1>3 DEF Inv, TypeOK
<1>5. Truthful' /\ LastOnes' /\ RebuildsState'
  BY <1>0, <1>1, <1>2, AddKeeps
<1>6. Own < 0 /\ Own' <= 0
  BY <1>0, <1>1 DEF Own
<1>7. \A t \in Targets : ~(t < Own) /\ ~(t < Own')
  BY <1>0, <1>1, CTargetAssumption DEF Own, Targets
<1>8. OwnDone'
  BY <1>7 DEF OwnDone
<1>9. Bounded'
  <2>1. SUFFICES ASSUME NEW t \in Targets
                 PROVE  Len(plan'[t]) <= Cardinality(Passed(t, at + 1)) + 0
    BY <1>1, <1>7 DEF Bounded, Passed
  <2>a. Len(plan'[t]) <= Len(plan[t]) + (IF t \in members THEN 1 ELSE 0)
    BY <1>3
  <2>2. Len(plan[t]) \in Nat /\ Len(plan'[t]) \in Nat
    BY <1>3 DEF Inv, TypeOK
  <2>3. Len(plan[t]) <= Cardinality(Passed(t, at)) /\ Cardinality(Passed(t, at)) \in Nat
    BY <1>0, <1>7, <2>2, PassedGrows DEF Inv, Bounded
  <2>4. CASE t \in members
    <3>1. Cardinality(Passed(t, at + 1)) = Cardinality(Passed(t, at)) + 1
      BY <1>0, <2>4, PassedGrows DEF members
    <3> QED
      BY <2>2, <2>3, <2>4, <2>a, <3>1
  <2>5. CASE t \notin members
    <3>1. Passed(t, at + 1) = Passed(t, at)
      BY <1>0, <2>5, PassedGrows DEF members
    <3> QED
      BY <2>2, <2>3, <2>5, <2>a, <3>1
  <2> QED
    BY <2>4, <2>5
<1> QED
  BY <1>3, <1>4, <1>5, <1>8, <1>9 DEF Inv

LEMMA AddOwnInv == Inv /\ AddOwn => Inv'
<1> SUFFICES ASSUME Inv, AddOwn PROVE Inv'
  OBVIOUS
<1> DEFINE l == OwnLayer(Own)
<1>0. /\ Len(Groups) \in Nat /\ DOMAIN Groups = 1 .. Len(Groups)
      /\ at \notin DOMAIN Groups /\ at \in Nat \ {0}
      /\ Own \in Targets /\ Own \in Nat /\ Own' = Own + 1
  BY CTargetAssumption DEF AddOwn, Own, Inv, TypeOK, Targets
<1>1. at' = at + 1 /\ finals' = finals /\ Add({Own}, l)
  BY DEF AddOwn
<1>2. /\ Sound({Own}, l)
      /\ \A k \in Names : finals[Own][k] = IF l.sets[k] # NoLine THEN l.sets[k] ELSE state[Own][k]
  BY <1>0, OwnLayerSound
<1>a. {Own} \in SUBSET Targets
  BY <1>0
<1> HIDE DEF l
<1>3. /\ layers' \in Seq(Layer)
      /\ plan' \in [Targets -> Seq(1 .. Len(layers'))]
      /\ state' \in [Targets -> Table]
      /\ NoLayerRemoves'
      /\ \A t \in Targets : Len(plan'[t]) <= Len(plan[t]) + (IF t \in {Own} THEN 1 ELSE 0)
  BY <1>1, <1>2, <1>a, AddTypes
<1>4. TypeOK'
  BY <1>0, <1>1, <1>3 DEF Inv, TypeOK
<1>5. Truthful' /\ LastOnes' /\ RebuildsState'
  BY <1>1, <1>2, <1>a, AddKeeps
<1>6. \A t \in Targets : \A k \in Names :
        state'[t][k] = IF t \in {Own} /\ l.sets[k] # NoLine THEN l.sets[k] ELSE state[t][k]
  BY <1>1, <1>2, <1>a, AddSays
<1>7. OwnDone'
  <2>1. SUFFICES ASSUME NEW t \in Targets, t < Own + 1
                 PROVE  state'[t] = finals[t]
    BY <1>0, <1>1 DEF OwnDone
  <2>2. state'[t] \in [Names -> Lines \cup {NoLine}] /\ finals[t] \in [Names -> Lines \cup {NoLine}]
    BY <1>3 DEF Inv, TypeOK, Table
  <2>3. CASE t = Own
    <3>1. \A k \in Names : state'[t][k] = finals[t][k]
      BY <1>2, <1>6, <2>3
    <3> QED
      BY <2>2, <3>1
  <2>4. CASE t # Own
    <3>1. t \in Nat /\ t < Own
      BY <1>0, <2>1, <2>4, CTargetAssumption DEF Targets
    <3>2. state[t] = finals[t]
      BY <3>1 DEF Inv, OwnDone
    <3>3. \A k \in Names : state'[t][k] = finals[t][k]
      BY <1>6, <2>4, <3>2
    <3> QED
      BY <2>2, <3>3
  <2> QED
    BY <2>3, <2>4
<1>8. Bounded'
  <2>1. SUFFICES ASSUME NEW t \in Targets
                 PROVE  Len(plan'[t]) <= Cardinality(Passed(t, at)) + (IF t < Own + 1 THEN 1 ELSE 0)
    <3>1. \A u \in Targets : Passed(u, at + 1) = Passed(u, at)
      BY <1>0, PassedGrows
    <3> QED
      BY <1>0, <1>1, <3>1 DEF Bounded, Passed
  <2>2. Len(plan[t]) \in Nat /\ Len(plan'[t]) \in Nat /\ t \in Nat
    BY <1>3, CTargetAssumption DEF Inv, TypeOK, Targets
  <2>3. Len(plan[t]) <= Cardinality(Passed(t, at)) + (IF t < Own THEN 1 ELSE 0)
        /\ Cardinality(Passed(t, at)) \in Nat
    BY <1>0, PassedGrows DEF Inv, Bounded
  <2>4. Len(plan'[t]) <= Len(plan[t]) + (IF t = Own THEN 1 ELSE 0)
    BY <1>3
  <2>5. CASE t = Own
    BY <1>0, <2>2, <2>3, <2>4, <2>5
  <2>6. CASE t # Own
    BY <1>0, <2>2, <2>3, <2>4, <2>6
  <2> QED
    BY <2>5, <2>6
<1> QED
  BY <1>3, <1>4, <1>5, <1>7, <1>8 DEF Inv

LEMMA StutterInv == Inv /\ UNCHANGED vars => Inv'
<1> SUFFICES ASSUME Inv, UNCHANGED vars PROVE Inv'
  OBVIOUS
<1> USE DEF Inv, vars
<1>1. TypeOK' /\ Truthful'
  BY DEF TypeOK, Truthful
<1>2. OwnDone' /\ Bounded'
  BY DEF OwnDone, Own, Bounded, Passed
<1>3. LastOnes'
  BY DEF LastOnes, HasLast, Setting, Part
<1>4. NoLayerRemoves'
  BY DEF NoLayerRemoves
<1>5. RebuildsState'
  <2>1. SUFFICES ASSUME NEW t \in Targets, NEW table \in {Macros, Names \ Macros}
                 PROVE  Rebuilt(t, table)' =
                          [k \in Names |-> IF k \in table THEN state'[t][k] ELSE NoLine]
    BY DEF RebuildsState
  <2>2. Rebuilt(t, table)' = Rebuilt(t, table)
    BY DEF Rebuilt, Setting, Part
  <2> QED
    BY <2>2 DEF RebuildsState
<1> QED
  BY <1>1, <1>2, <1>3, <1>4, <1>5

\* The invariant says what is asked of the layers.
LEMMA InvRebuilds == Inv => LayersRebuild
<1>1. ASSUME Inv, Done
      PROVE  state = finals
  <2>1. Own = N
    BY <1>1, CTargetAssumption DEF Done, Own, Inv, TypeOK
  <2>2. \A t \in Targets : state[t] = finals[t]
    BY <1>1, <2>1, CTargetAssumption DEF Inv, OwnDone, Targets
  <2> QED
    BY <1>1, <2>2 DEF Inv, TypeOK
<1> QED
  BY <1>1, RowsFit DEF LayersRebuild, Complete, Inv

-----------------------------------------------------------------------------

\* In every state of the generator its layers remove nothing, rebuild at run time what was
\* planned, in the end every answer of the reference compiler, and fit a target's row.
THEOREM LayersAlwaysRebuild == Spec => []LayersRebuild
<1>1. Init => Inv
  BY InitInv
<1>2. Inv /\ [Next]_vars => Inv'
  BY ShareGroupInv, AddOwnInv, StutterInv DEF Next, End
<1>3. Inv => LayersRebuild
  BY InvRebuilds
<1> QED
  BY <1>1, <1>2, <1>3, PTL DEF Spec
=============================================================================
