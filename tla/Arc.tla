--------------------------------- MODULE Arc ---------------------------------
(***************************************************************************)
(* Arc and Weak of std/parallel/arc.spc: two counts beside a value.  The   *)
(* strong handles hold one weak reference together; the last of them frees *)
(* the value and then gives that reference back, and the last weak         *)
(* reference frees the block.                                              *)
(*                                                                         *)
(* A handle is used by one thread at a time, so a handle is also who acts; *)
(* its state says how far the call in progress has come.  A call that      *)
(* makes a handle hands it to the owner of a handle that is free.  Counts  *)
(* are as wide as Wrap says, and a handle that is forgotten stays counted. *)
(***************************************************************************)
EXTENDS Integers, FiniteSets

CONSTANTS Handles,
          MaxRef,    \* MAX_REFCOUNT
          Wrap,      \* how many values a count has: usize::MAX + 1
          MaxForgot  \* bound: the handles ever forgotten

Locked == Wrap - 1  \* WEAK_LOCKED

ASSUME ArcAssumption ==
  /\ IsFiniteSet(Handles)
  /\ MaxRef \in Nat \ {0} /\ Wrap \in Nat /\ MaxForgot \in Nat
  /\ MaxRef + 2 * Cardinality(Handles) + 2 < Wrap

VARIABLES
  strong, weak,  \* ArcInner's counts
  value,         \* ArcInner.value: who reads it finds it "live"
  block,         \* the allocation
  st,            \* each handle's state
  seen,          \* the count a call in progress read
  lost,          \* [strong, weak]: the handles that were forgotten
  panicked       \* a panic ends the process

vars == <<strong, weak, value, block, st, seen, lost, panicked>>

\* A strong handle: at rest, in clone, in downgrade, in is_unique before and after it reads the
\* strong count, or mutably borrowed.
StrongStates == {"strong", "cloned", "downgrade", "checking", "unique", "shared", "borrowed"}

\* A weak handle: at rest, in clone, in upgrade.
WeakStates == {"weak", "wcloned", "upgrade"}

\* The last strong handle: freeing the value, then with only the collective reference left.
LastStates == {"freeing", "collective"}

States == StrongStates \cup WeakStates \cup LastStates \cup {"none"}

Init ==
  /\ strong = 1 /\ weak = 1   \* Arc::new
  /\ value = "live" /\ block = "allocated"
  /\ \E h \in Handles : st = [g \in Handles |-> IF g = h THEN "strong" ELSE "none"]
  /\ seen = [h \in Handles |-> 0]
  /\ lost = [strong |-> 0, weak |-> 0]
  /\ panicked = FALSE

\* fetch_add, fetch_sub
Up(n) == (n + 1) % Wrap
Down(n) == (n + Wrap - 1) % Wrap

Goto(h, s) == st' = [st EXCEPT ![h] = s]
Sees(h, n) == seen' = [seen EXCEPT ![h] = n]

\* The handle is at rest again, and g is a new handle.
Makes(h, s, g, new) == st[g] = "none" /\ st' = [st EXCEPT ![h] = s, ![g] = new]

Panics == panicked' = TRUE

-----------------------------------------------------------------------------
(* Arc::clone, Weak::clone: the count first, the check of what it was after *)

Clone(h) ==
  /\ st[h] = "strong"
  /\ strong' = Up(strong) /\ Sees(h, strong)
  /\ Goto(h, "cloned")
  /\ UNCHANGED <<weak, value, block, lost, panicked>>

Cloned(h, g) ==
  /\ st[h] = "cloned"
  /\ IF seen[h] > MaxRef THEN Panics /\ UNCHANGED st
     ELSE Makes(h, "strong", g, "strong") /\ UNCHANGED panicked
  /\ UNCHANGED <<strong, weak, value, block, seen, lost>>

CloneWeak(h) ==
  /\ st[h] = "weak"
  /\ weak' = Up(weak) /\ Sees(h, weak)
  /\ Goto(h, "wcloned")
  /\ UNCHANGED <<strong, value, block, lost, panicked>>

ClonedWeak(h, g) ==
  /\ st[h] = "wcloned"
  /\ IF seen[h] > MaxRef THEN Panics /\ UNCHANGED st
     ELSE Makes(h, "weak", g, "weak") /\ UNCHANGED panicked
  /\ UNCHANGED <<strong, weak, value, block, seen, lost>>

-----------------------------------------------------------------------------
(* downgrade, upgrade: a count is read, then exchanged for the next *)

Downgrade(h) ==
  /\ st[h] = "strong"
  /\ Sees(h, weak) /\ Goto(h, "downgrade")
  /\ UNCHANGED <<strong, weak, value, block, lost, panicked>>

\* A locked count, and an exchange that fails, read again.  So may one that could succeed.
DowngradeRetry(h) ==
  /\ st[h] = "downgrade"
  /\ seen[h] = Locked \/ seen[h] <= MaxRef
  /\ Sees(h, weak)
  /\ UNCHANGED <<strong, weak, value, block, st, lost, panicked>>

DowngradeSwap(h, g) ==
  /\ st[h] = "downgrade" /\ seen[h] # Locked
  /\ IF seen[h] > MaxRef THEN Panics /\ UNCHANGED <<weak, st>>
     ELSE /\ weak = seen[h]
          /\ weak' = Up(weak)
          /\ Makes(h, "strong", g, "weak")
          /\ UNCHANGED panicked
  /\ UNCHANGED <<strong, value, block, seen, lost>>

Upgrade(h) ==
  /\ st[h] = "weak"
  /\ Sees(h, strong) /\ Goto(h, "upgrade")
  /\ UNCHANGED <<strong, weak, value, block, lost, panicked>>

\* Mutant of Upgradable: a count of zero is exchanged like any other.
Upgradable_Zero(n) == TRUE

Upgradable(n) == n # 0

UpgradeNone(h) ==
  /\ st[h] = "upgrade" /\ ~Upgradable(seen[h])
  /\ Goto(h, "weak")
  /\ UNCHANGED <<strong, weak, value, block, seen, lost, panicked>>

UpgradeRetry(h) ==
  /\ st[h] = "upgrade" /\ Upgradable(seen[h]) /\ seen[h] <= MaxRef
  /\ Sees(h, strong)
  /\ UNCHANGED <<strong, weak, value, block, st, lost, panicked>>

UpgradeSwap(h, g) ==
  /\ st[h] = "upgrade" /\ Upgradable(seen[h])
  /\ IF seen[h] > MaxRef THEN Panics /\ UNCHANGED <<strong, st>>
     ELSE /\ strong = seen[h]
          /\ strong' = Up(strong)
          /\ Makes(h, "weak", g, "strong")
          /\ UNCHANGED panicked
  /\ UNCHANGED <<weak, value, block, seen, lost>>

-----------------------------------------------------------------------------
(* get_mut: the weak count is locked at 1 while the strong count is read *)

Lock(h) ==
  /\ st[h] = "strong" /\ weak = 1
  /\ weak' = Locked
  /\ Goto(h, "checking")
  /\ UNCHANGED <<strong, value, block, seen, lost, panicked>>

Check(h) ==
  /\ st[h] = "checking"
  /\ Goto(h, IF strong = 1 THEN "unique" ELSE "shared")
  /\ UNCHANGED <<strong, weak, value, block, seen, lost, panicked>>

Unlock(h) ==
  /\ st[h] \in {"unique", "shared"}
  /\ weak' = 1
  /\ Goto(h, IF st[h] = "unique" THEN "borrowed" ELSE "strong")
  /\ UNCHANGED <<strong, value, block, seen, lost, panicked>>

\* The borrow of the value ends.
Return(h) ==
  /\ st[h] = "borrowed"
  /\ Goto(h, "strong")
  /\ UNCHANGED <<strong, weak, value, block, seen, lost, panicked>>

-----------------------------------------------------------------------------
(* try_unwrap, and the end of a handle *)

\* The value moves out.  A handle that is not the only one is given back.
TryUnwrap(h) ==
  /\ st[h] = "strong" /\ strong = 1
  /\ strong' = 0
  /\ value' = "moved"
  /\ Goto(h, "collective")
  /\ UNCHANGED <<weak, block, seen, lost, panicked>>

\* The decrement returned 1.
LastDrop(n) == n = 1

Drop(h) ==
  /\ st[h] = "strong"
  /\ strong' = Down(strong)
  /\ Goto(h, IF LastDrop(strong) THEN "freeing" ELSE "none")
  /\ UNCHANGED <<weak, value, block, seen, lost, panicked>>

FreeValue(h) ==
  /\ st[h] = "freeing"
  /\ value' = "freed"
  /\ Goto(h, "collective")
  /\ UNCHANGED <<strong, weak, block, seen, lost, panicked>>

\* Weak::free, of a weak handle or of the reference the strong handles held together.
DropWeak(h) ==
  /\ st[h] \in {"weak", "collective"}
  /\ weak' = Down(weak)
  /\ block' = IF weak = 1 THEN "freed" ELSE block
  /\ Goto(h, "none")
  /\ UNCHANGED <<strong, value, seen, lost, panicked>>

\* std's forget: the handle is gone and nothing is freed.
Forget(h) ==
  /\ st[h] \in {"strong", "weak"} /\ lost.strong + lost.weak < MaxForgot
  /\ lost' = IF st[h] = "strong" THEN [lost EXCEPT !.strong = @ + 1]
             ELSE [lost EXCEPT !.weak = @ + 1]
  /\ Goto(h, "none")
  /\ UNCHANGED <<strong, weak, value, block, seen, panicked>>

Next ==
  /\ ~panicked
  /\ \E h \in Handles :
       \/ Clone(h) \/ CloneWeak(h) \/ Downgrade(h) \/ DowngradeRetry(h)
       \/ Upgrade(h) \/ UpgradeNone(h) \/ UpgradeRetry(h)
       \/ Lock(h) \/ Check(h) \/ Unlock(h) \/ Return(h)
       \/ TryUnwrap(h) \/ Drop(h) \/ FreeValue(h) \/ DropWeak(h) \/ Forget(h)
       \/ \E g \in Handles :
            Cloned(h, g) \/ ClonedWeak(h, g) \/ DowngradeSwap(h, g) \/ UpgradeSwap(h, g)

Spec == Init /\ [][Next]_vars

-----------------------------------------------------------------------------
(* Properties *)

Of(S) == {h \in Handles : st[h] \in S}

\* A handle never outlives what it points at: the value is there for every strong handle, and
\* until it is freed, once; the block for every handle; and who borrows the value mutably has
\* the only handle of either kind.
HandlesValid ==
  /\ Of(StrongStates \cup {"freeing"}) # {} => value = "live"
  /\ Of(States \ {"none"}) # {} => block = "allocated"
  /\ \A h \in Of({"borrowed"}) :
       Of(States \ {"none"}) = {h} /\ lost = [strong |-> 0, weak |-> 0]

\* What is owed is freed: with no handle left, and none forgotten, neither value nor block remains.
NothingLeaks ==
  Of(States \ {"none"}) = {} =>
    /\ lost.strong = 0 => value # "live"
    /\ lost.strong + lost.weak = 0 => block = "freed"

ArcSound == HandlesValid /\ NothingLeaks
=============================================================================
