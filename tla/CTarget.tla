------------------------------ MODULE CTarget ------------------------------
(***************************************************************************)
(* The layered C environment tables of scripts/gen_ctarget.py.  Every      *)
(* target has a line per name (a macro, or a true answer of __has_x); the  *)
(* generator shares lines among groups of targets as layers, plan_layers,  *)
(* and bindgen/ctarget.spc rebuilds a target's table from its layers at    *)
(* run time, merge_layers, which sets lines and never removes one.         *)
(***************************************************************************)
EXTENDS Naturals, Sequences, FiniteSets

CONSTANTS N,       \* the targets are rows 0 .. N - 1
          Names, Lines, NoLine,
          Macros,  \* the names of the macro table; the others are answers
          Groups   \* sequence of sets of targets: all, by architecture, by family

Targets == 0 .. N - 1
Table == [Names -> Lines \cup {NoLine}]
Blank == [k \in Names |-> NoLine]

ASSUME CTargetAssumption ==
  /\ N \in Nat
  /\ NoLine \notin Lines
  /\ Macros \subseteq Names
  /\ Groups \in Seq(SUBSET Targets)

VARIABLES
  finals,  \* the reference compiler's answers: what the tables must say
  state,   \* what the layers planned so far say
  layers,  \* sequence of [sets, dels]
  plan,    \* each target's layers, by index
  at       \* the next group, then the next target's own layer

vars == <<finals, state, layers, plan, at>>

Init ==
  /\ finals \in [Targets -> Table]
  /\ state = [t \in Targets |-> Blank]
  /\ layers = <<>>
  /\ plan = [t \in Targets |-> <<>>]
  /\ at = 1

-----------------------------------------------------------------------------
(* plan_layers *)

Empty(layer) == layer.sets = Blank /\ layer.dels = {}

\* add: a layer that says nothing is not made.
Add(members, layer) ==
  IF Empty(layer) THEN UNCHANGED <<layers, plan, state>>
  ELSE /\ layers' = Append(layers, layer)
       /\ plan' = [t \in Targets |->
            IF t \in members THEN Append(plan[t], Len(layers) + 1) ELSE plan[t]]
       /\ state' = [t \in Targets |->
            IF t \notin members THEN state[t]
            ELSE [k \in Names |-> IF k \in layer.dels THEN NoLine
                                  ELSE IF layer.sets[k] # NoLine THEN layer.sets[k]
                                  ELSE state[t][k]]]

\* Mutant of Agreed: the members that have the name agree on its line.
Agreed_WhereSet(members, k, v) ==
  \A t \in members : finals[t][k] \in {v, NoLine}

\* The members agree on the name's line, or on having none.
Agreed(members, k, v) == \A t \in members : finals[t][k] = v

\* What the members agree on and some of them does not say yet.
GroupLayer(members) ==
  [sets |-> [k \in Names |->
      LET news == {v \in Lines : Agreed(members, k, v)
                                 /\ \E t \in members : state[t][k] # v}
      IN IF news = {} THEN NoLine ELSE CHOOSE v \in news : TRUE],
   dels |-> {k \in Names : /\ members # {}
                           /\ \A t \in members : finals[t][k] = NoLine /\ state[t][k] # NoLine}]

OwnLayer(t) ==
  [sets |-> [k \in Names |-> IF state[t][k] = finals[t][k] THEN NoLine ELSE finals[t][k]],
   dels |-> {k \in Names : state[t][k] # NoLine /\ finals[t][k] = NoLine}]

ShareGroup ==
  /\ at <= Len(Groups)
  /\ Add(Groups[at], GroupLayer(Groups[at]))
  /\ at' = at + 1
  /\ UNCHANGED finals

\* The target whose own layer comes next.
Own == at - Len(Groups) - 1

AddOwn ==
  /\ at > Len(Groups) /\ Own \in Targets
  /\ Add({Own}, OwnLayer(Own))
  /\ at' = at + 1
  /\ UNCHANGED finals

Done == at = Len(Groups) + N + 1

\* The script ends.
End == Done /\ UNCHANGED vars

Next == ShareGroup \/ AddOwn \/ End

Spec == Init /\ [][Next]_vars

-----------------------------------------------------------------------------
(* merge_layers *)

\* One table's part of a layer: the text of MACRO_LAYERS or of HAS_LAYERS.
Part(layer, table) == [k \in Names |-> IF k \in table THEN layer.sets[k] ELSE NoLine]

\* A later layer's line replaces an earlier one's.
Setting(t, table, k) == {i \in DOMAIN plan[t] : Part(layers[plan[t][i]], table)[k] # NoLine}
LatestIn(S) == CHOOSE i \in S : \A j \in S : j <= i
Rebuilt(t, table) == [k \in Names |->
  IF Setting(t, table, k) = {} THEN NoLine
  ELSE Part(layers[plan[t][LatestIn(Setting(t, table, k))]], table)[k]]

-----------------------------------------------------------------------------
(* Properties *)

\* No layer removes a name: merge_layers could not (gen_ctarget.py:311 asserts it).  It holds
\* because a layer only ever says what is true of every member.
NoLayerRemoves == \A i \in DOMAIN layers : layers[i].dels = {}

\* What the run time rebuilds from the layers is what was planned, and in the end what the
\* reference compiler said, in either table.
RebuildsState == \A t \in Targets : \A table \in {Macros, Names \ Macros} :
  Rebuilt(t, table) = [k \in Names |-> IF k \in table THEN state[t][k] ELSE NoLine]

Complete == Done => state = finals

\* A row holds a target's layers: one per group it is in and its own (gen_ctarget.py:327).
FitsRow == \A t \in Targets :
  Len(plan[t]) <= Cardinality({g \in DOMAIN Groups : t \in Groups[g]}) + 1

LayersRebuild == NoLayerRemoves /\ RebuildsState /\ Complete /\ FitsRow
=============================================================================
