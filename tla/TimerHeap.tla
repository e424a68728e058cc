----------------------------- MODULE TimerHeap -----------------------------
(***************************************************************************)
(* The timer heap of std/parallel/runtime.spc: a binary heap in one array  *)
(* that grows and shrinks, and in every armed coroutine the index of its   *)
(* entry (theap), from which it is disarmed without a search.  Everything  *)
(* here runs under the scheduler's lock.                                   *)
(***************************************************************************)
EXTENDS Integers, FiniteSets, Sequences

CONSTANTS Coroutines, Deadlines,
          InitCap,  \* TIMER_INIT_CAP
          MaxCap,   \* TIMER_MAX
          Batch,    \* PROMOTE_BATCH
          MaxSeq    \* bound: how often a timer is armed

None == -1   \* TH_NONE

TimerAssumption ==
  /\ {InitCap, MaxCap, Batch} \subseteq Nat \ {0} /\ MaxSeq \in Nat
  /\ Deadlines \subseteq Nat
  /\ Cardinality(Coroutines) <= MaxCap

VARIABLES
  heap,   \* [es, at]: the entries by index, and each coroutine's theap
  len,    \* timer_len
  cap,    \* timer_cap
  seq,    \* timer_seq
  fired   \* the coroutines promote_expired took out, in order, if it ran last

vars == <<heap, len, cap, seq, fired>>

NoEntry == [dl |-> 0, seq |-> 0, co |-> None]

Init ==
  /\ heap = [es |-> [i \in {} |-> NoEntry], at |-> [c \in Coroutines |-> None]]
  /\ len = 0 /\ cap = 0 /\ seq = 0
  /\ fired = <<>>

-----------------------------------------------------------------------------
(* Sifting *)

Parent(i) == (i - 1) \div 2

\* timer_less
Less(a, b) == a.dl < b.dl \/ (a.dl = b.dl /\ a.seq < b.seq)

\* timer_place for every index of a set: the entries of f, and their coroutines told.
Placed(h, f) ==
  [es |-> [i \in DOMAIN h.es |-> IF i \in DOMAIN f THEN f[i] ELSE h.es[i]],
   at |-> [c \in DOMAIN h.at |->
            IF \E i \in DOMAIN f : f[i].co = c THEN CHOOSE i \in DOMAIN f : f[i].co = c
            ELSE h.at[c]]]

\* timer_sift_up: the entry rises past the ancestors it comes before, up to the first it does not.
SiftUp(h, from) ==
  LET e == h.es[from]
      up[i \in 0 .. from] ==
        IF i = 0 \/ ~Less(e, h.es[Parent(i)]) THEN [j \in {i} |-> e]
        ELSE [j \in {i} \cup DOMAIN up[Parent(i)] |->
               IF j = i THEN h.es[Parent(i)] ELSE up[Parent(i)][j]]
  IN  Placed(h, up[from])

\* Mutant of Child: the left child, whichever comes first.
Child_Left(h, i, n) == 2 * i + 1

\* The child that comes first, of the two.
Child(h, i, n) ==
  LET l == 2 * i + 1
  IN  IF l + 1 < n /\ Less(h.es[l + 1], h.es[l]) THEN l + 1 ELSE l

\* timer_sift_down, in a heap of n entries.
SiftDown(h, from, n) ==
  LET e == h.es[from]
      down[i \in from .. n - 1] ==
        LET k == Child(h, i, n) IN
          IF 2 * i + 1 >= n \/ ~Less(h.es[k], e) THEN [j \in {i} |-> e]
          ELSE [j \in {i} \cup DOMAIN down[k] |-> IF j = i THEN h.es[k] ELSE down[k][j]]
  IN  Placed(h, down[from])

-----------------------------------------------------------------------------
(* Storage *)

\* timer_resize: the first n entries move to an array of m.
Resized(h, m, n) == [h EXCEPT !.es = [i \in 0 .. m - 1 |-> IF i < n THEN h.es[i] ELSE NoEntry]]

\* timer_reserve: the storage that one more than n entries need.
Reserved(m, n) ==
  LET grown == IF m = 0 THEN InitCap ELSE 2 * m
  IN  IF n < m THEN m ELSE IF grown > MaxCap THEN MaxCap ELSE grown

\* timer_shrink
Shrunk(m, n) == IF m > InitCap /\ n < m \div 4 THEN m \div 2 ELSE m

-----------------------------------------------------------------------------
(* The operations *)

\* arm_timer.  Whom it wakes is in module IdleWake.
Arm(c, d) ==
  /\ heap.at[c] = None /\ seq < MaxSeq
  /\ LET m == Reserved(cap, len)
         h == IF m = cap THEN heap ELSE Resized(heap, m, len)
     IN  /\ heap' = SiftUp(Placed(h, [i \in {len} |-> [dl |-> d, seq |-> seq, co |-> c]]), len)
         /\ cap' = m
  /\ len' = len + 1
  /\ seq' = seq + 1
  /\ fired' = <<>>

\* timer_remove_at, of a state [heap, len, cap]: the last entry takes the place of entry i.
\* What is left past the end is never read: it is blanked.
RemoveAt(s, i) ==
  LET n == s.len - 1
      h == [s.heap EXCEPT !.at[s.heap.es[i].co] = None]
      g == IF i = n THEN h
           ELSE LET p == Placed(h, [j \in {i} |-> h.es[n]])
                IN  IF i > 0 /\ Less(p.es[i], p.es[Parent(i)]) THEN SiftUp(p, i)
                    ELSE SiftDown(p, i, n)
      m == Shrunk(s.cap, n)
  IN  [heap |-> Resized(g, m, n), len |-> n, cap |-> m]

Becomes(s) == heap' = s.heap /\ len' = s.len /\ cap' = s.cap

Now == [heap |-> heap, len |-> len, cap |-> cap]

\* disarm_timer, from the index the coroutine remembers.
Disarm(c) ==
  /\ heap.at[c] # None
  /\ Becomes(RemoveAt(Now, heap.at[c]))
  /\ fired' = <<>>
  /\ UNCHANGED seq

\* promote_expired: the entries that are due, from the top, a batch at most.
Promote(now) ==
  LET Due(s) == s.len # 0 /\ s.heap.es[0].dl <= now
      run[k \in 0 .. Batch] ==
        IF k = 0 THEN [s |-> Now, out |-> <<>>]
        ELSE LET r == run[k - 1] IN
          IF Due(r.s) THEN [s |-> RemoveAt(r.s, 0), out |-> Append(r.out, r.s.heap.es[0].co)]
          ELSE r
  IN  /\ Due(Now)
      /\ Becomes(run[Batch].s)
      /\ fired' = run[Batch].out
      /\ UNCHANGED seq

Next ==
  \/ \E c \in Coroutines : Disarm(c) \/ \E d \in Deadlines : Arm(c, d)
  \/ \E now \in Deadlines : Promote(now)

Spec == Init /\ [][Next]_vars

-----------------------------------------------------------------------------
(* Properties *)

Entries == {heap.es[i] : i \in 0 .. len - 1}

\* The index a coroutine keeps is that of its own entry, and the storage holds what is armed.
IndexKept ==
  /\ \A c \in Coroutines :
       IF heap.at[c] = None THEN \A e \in Entries : e.co # c
       ELSE heap.at[c] \in 0 .. len - 1 /\ heap.es[heap.at[c]].co = c
  /\ len <= cap

Set == INSTANCE Timers WITH armed <- Entries

\* The heap is a set of timers: a disarm takes out the timer of that coroutine and no other,
\* and due timers come out in the order of their deadlines, for the indices are right.
IsTimerSet == Set!Spec /\ []IndexKept
=============================================================================
