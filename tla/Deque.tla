------------------------------- MODULE Deque -------------------------------
(***************************************************************************)
(* The run queues of std/parallel/runtime.spc: a ring per worker, from     *)
(* which every taker, its owner included, claims by a compare-and-swap on  *)
(* head; the private yield queue; the injection queue under its spinlock.  *)
(*                                                                         *)
(* A thief copies up to half of a ring into slots past its own tail before *)
(* it claims them.  The owner may take those tasks and reuse their slots   *)
(* meanwhile: the compare-and-swap has to throw such a copy away.          *)
(*                                                                         *)
(* How often a lost claim is tried again, the victims' order and the turns *)
(* (tick) that look at another queue first are left open.  The counters    *)
(* are 64 bits wide and do not come round.                                 *)
(***************************************************************************)
EXTENDS Integers, SequencesExt, Functions

CONSTANTS Workers, Tasks, None,
          Cap,      \* DEQUE_CAP
          StealMax, \* STEAL_MAX
          YMax,     \* Y_MAX
          BatchMax, \* BATCH_MAX
          MaxTail   \* bound: what is ever appended to the rings

DequeAssumption ==
  /\ None \notin Workers \cup Tasks
  /\ IsFiniteSet(Workers) /\ Workers # {}
  /\ {Cap, StealMax} \subseteq Nat \ {0} /\ {YMax, BatchMax, MaxTail} \subseteq Nat

VARIABLES
  buf, head, tail, \* Worker.buf, head, tail
  yielded,         \* the yield queues
  inj, qlock,      \* the injection queue, and who holds its lock
  parked,          \* the tasks that are on no queue and not running
  hand,            \* the task a worker runs or is about to run
  copy,            \* a claim in progress: [from, h, n, i, first]
  left,            \* how many tasks a worker still moves to its ring from the injection queue
  pc

vars == <<buf, head, tail, yielded, inj, qlock, parked, hand, copy, left, pc>>

ringVars == <<buf, head, tail>>
restVars == <<yielded, inj, qlock, parked>>

PCs == {"find", "pop", "yield", "inject", "steal", "tail", "copy", "claim", "publish",
        "run", "pushed", "share", "shared"}

NoCopy == [from |-> None, h |-> 0, n |-> 0, i |-> 0, first |-> None]

Init ==
  /\ buf = [w \in Workers |-> [k \in 0 .. Cap - 1 |-> None]]
  /\ head = [w \in Workers |-> 0] /\ tail = [w \in Workers |-> 0]
  /\ yielded = [w \in Workers |-> <<>>]
  /\ inj = <<>> /\ qlock = None
  /\ parked = Tasks
  /\ hand = [w \in Workers |-> None]
  /\ copy = [w \in Workers |-> NoCopy]
  /\ left = [w \in Workers |-> 0]
  /\ pc = [w \in Workers |-> "find"]

Goto(w, l) == pc' = [pc EXCEPT ![w] = l]

\* The bound: what may still be appended.
Open == SumFunction(tail) < MaxTail

AtMost(a, b) == IF a < b THEN a ELSE b

\* slot_load, slot_store
Slot(w, i) == buf[w][i % Cap]
Store(w, i, x) == buf' = [buf EXCEPT ![w][i % Cap] = x]

\* A worker has a task to run.
Gets(w, x) == hand' = [hand EXCEPT ![w] = x] /\ Goto(w, "run")

-----------------------------------------------------------------------------
(* dq_push: the slot, then the tail that publishes it *)

Full(w) == tail[w] - head[w] >= Cap

\* The end of both pushes below.
Publish(w, next) ==
  /\ tail' = [tail EXCEPT ![w] = @ + 1]
  /\ Goto(w, next)
  /\ UNCHANGED <<buf, head, restVars, hand, copy>>

\* enqueue_run on a worker: onto its own ring, or injected when that is full.
Enqueue(w, x) ==
  /\ pc[w] = "run" /\ x \in parked /\ Open
  /\ parked' = parked \ {x}
  /\ IF Full(w)
       THEN qlock = None /\ inj' = Append(inj, x) /\ UNCHANGED <<buf, pc>>
       ELSE Store(w, tail[w], x) /\ Goto(w, "pushed") /\ UNCHANGED inj
  /\ UNCHANGED <<head, tail, yielded, qlock, hand, copy, left>>

Enqueued(w) == pc[w] = "pushed" /\ Publish(w, "run") /\ UNCHANGED left

\* inject, from a thread outside the pool.
Inject(x) ==
  /\ x \in parked /\ qlock = None
  /\ parked' = parked \ {x}
  /\ inj' = Append(inj, x)
  /\ UNCHANGED <<ringVars, yielded, qlock, hand, copy, left, pc>>

-----------------------------------------------------------------------------
(* A worker's task gives the worker back *)

Parks(w) ==
  /\ pc[w] = "run"
  /\ parked' = parked \cup {hand[w]}
  /\ hand' = [hand EXCEPT ![w] = None]
  /\ Goto(w, "find")
  /\ UNCHANGED <<ringVars, yielded, inj, qlock, copy, left>>

\* yq_push, or inject when the worker keeps too many yields to itself.
Yields(w) ==
  /\ pc[w] = "run"
  /\ IF Len(yielded[w]) < YMax
       THEN yielded' = [yielded EXCEPT ![w] = Append(@, hand[w])] /\ UNCHANGED inj
       ELSE qlock = None /\ inj' = Append(inj, hand[w]) /\ UNCHANGED yielded
  /\ hand' = [hand EXCEPT ![w] = None]
  /\ Goto(w, "find")
  /\ UNCHANGED <<ringVars, qlock, parked, copy, left>>

-----------------------------------------------------------------------------
(* dq_pop *)

\* Mutant of Claimed: a claim looks whether there is still something to take.
Claimed_NotEmpty(v, h) == head[v] < tail[v]

\* The compare-and-swap finds head where the taker read it.
Claimed(v, h) == head[v] = h

\* head is read; the slot and the tail are this worker's own.
Pop(w) ==
  /\ pc[w] = "find"
  /\ IF head[w] = tail[w] THEN Goto(w, "yield") /\ UNCHANGED copy
     ELSE /\ copy' = [copy EXCEPT ![w] =
                       [NoCopy EXCEPT !.h = head[w], !.first = Slot(w, head[w])]]
          /\ Goto(w, "pop")
  /\ UNCHANGED <<ringVars, restVars, hand, left>>

PopClaim(w) ==
  /\ pc[w] = "pop"
  /\ IF Claimed(w, copy[w].h)
       THEN /\ head' = [head EXCEPT ![w] = copy[w].h + 1]
            /\ Gets(w, copy[w].first)
       ELSE /\ \E l \in {"find", "yield"} : Goto(w, l)
            /\ UNCHANGED <<head, hand>>
  /\ copy' = [copy EXCEPT ![w] = NoCopy]
  /\ UNCHANGED <<buf, tail, restVars, left>>

\* yq_pop, after the ring or on a turn that looks here first.
PopYielded(w) ==
  /\ pc[w] \in {"find", "yield"}
  /\ IF yielded[w] # <<>>
       THEN /\ Gets(w, Head(yielded[w]))
            /\ yielded' = [yielded EXCEPT ![w] = Tail(@)]
       ELSE pc[w] = "yield" /\ Goto(w, "inject") /\ UNCHANGED <<yielded, hand>>
  /\ UNCHANGED <<ringVars, inj, qlock, parked, copy, left>>

-----------------------------------------------------------------------------
(* take_injection: one task to run, a share of the others for the own ring *)

TakeInjection(w) ==
  /\ pc[w] \in {"find", "inject"} /\ qlock = None /\ inj # <<>>
  /\ qlock' = w
  /\ hand' = [hand EXCEPT ![w] = Head(inj)]
  /\ inj' = Tail(inj)
  /\ left' = [left EXCEPT ![w] = AtMost((Len(inj) - 1) \div Cardinality(Workers), BatchMax)]
  /\ Goto(w, "share")
  /\ UNCHANGED <<ringVars, yielded, parked, copy>>

\* One task of the share.  A full ring puts it back at the end of the queue and stops.
Share(w) ==
  /\ pc[w] = "share" /\ left[w] > 0 /\ Open
  /\ inj' = Tail(inj) \o (IF Full(w) THEN <<Head(inj)>> ELSE <<>>)
  /\ IF Full(w) THEN left' = [left EXCEPT ![w] = 0] /\ UNCHANGED <<buf, pc>>
     ELSE Store(w, tail[w], Head(inj)) /\ Goto(w, "shared") /\ UNCHANGED left
  /\ UNCHANGED <<head, tail, yielded, qlock, parked, hand, copy>>

Shared(w) ==
  /\ pc[w] = "shared" /\ Publish(w, "share")
  /\ left' = [left EXCEPT ![w] = @ - 1]

Taken(w) ==
  /\ pc[w] = "share" /\ left[w] = 0
  /\ qlock' = None
  /\ Goto(w, "run")
  /\ UNCHANGED <<ringVars, yielded, inj, parked, hand, copy, left>>

\* The queue is empty, or this worker is not the one to look at it.
SkipInjection(w) ==
  /\ pc[w] = "inject"
  /\ \E l \in {"steal", "find"} : Goto(w, l)
  /\ UNCHANGED <<ringVars, restVars, hand, copy, left>>

-----------------------------------------------------------------------------
(* steal_any, dq_steal *)

\* The victim's head is read.  The next victim, or none, after a steal that failed.
Steal(w, v) ==
  /\ pc[w] = "steal" /\ v # w
  /\ copy' = [copy EXCEPT ![w] = [NoCopy EXCEPT !.from = v, !.h = head[v]]]
  /\ Goto(w, "tail")
  /\ UNCHANGED <<ringVars, restVars, hand, left>>

GiveUp(w) ==
  /\ pc[w] = "steal"
  /\ Goto(w, "find")
  /\ UNCHANGED <<ringVars, restVars, hand, copy, left>>

\* Half of what there seems to be, rounded up, as much as a steal takes and the own ring holds.
\* The head read before may be old: there may seem to be more than a ring holds.
Takes(w, avail) ==
  AtMost(AtMost(avail - avail \div 2, StealMax), Cap - (tail[w] - head[w]) + 1)

\* The victim's tail is read, and the own ring's room.
StealTail(w) ==
  /\ pc[w] = "tail"
  /\ LET c == copy[w]
         n == Takes(w, tail[c.from] - c.h)
     IN  IF tail[c.from] = c.h \/ n = 0
           THEN Goto(w, "steal") /\ copy' = [copy EXCEPT ![w] = NoCopy]
           ELSE Goto(w, "copy") /\ copy' = [copy EXCEPT ![w].n = n]
  /\ UNCHANGED <<ringVars, restVars, hand, left>>

\* One slot: the first is kept to run, the others go past the own tail.
StealCopy(w) ==
  /\ pc[w] = "copy"
  /\ LET c == copy[w]
         x == Slot(c.from, c.h + c.i)
     IN  /\ IF c.i = 0 THEN UNCHANGED buf ELSE Store(w, tail[w] + c.i - 1, x)
         /\ copy' = [copy EXCEPT ![w].i = c.i + 1,
                                 ![w].first = IF c.i = 0 THEN x ELSE c.first]
         /\ IF c.i + 1 = c.n THEN Goto(w, "claim") ELSE UNCHANGED pc
  /\ UNCHANGED <<head, tail, restVars, hand, left>>

\* Copies of tasks that were taken meanwhile are thrown away.
StealClaim(w) ==
  /\ pc[w] = "claim"
  /\ LET c == copy[w] IN
       IF Claimed(c.from, c.h)
         THEN /\ head' = [head EXCEPT ![c.from] = c.h + c.n]
              /\ hand' = [hand EXCEPT ![w] = c.first]
              /\ Goto(w, "publish")
              /\ UNCHANGED copy
         ELSE /\ \/ copy' = [copy EXCEPT ![w] = [NoCopy EXCEPT !.from = c.from, !.h = head[c.from]]]
                    /\ Goto(w, "tail")
                 \/ copy' = [copy EXCEPT ![w] = NoCopy] /\ Goto(w, "steal")
              /\ UNCHANGED <<head, hand>>
  /\ UNCHANGED <<buf, tail, restVars, left>>

StealPublish(w) ==
  /\ pc[w] = "publish"
  /\ tail' = [tail EXCEPT ![w] = @ + copy[w].n - 1]
  /\ copy' = [copy EXCEPT ![w] = NoCopy]
  /\ Goto(w, "run")
  /\ UNCHANGED <<buf, head, restVars, hand, left>>

Next ==
  \/ \E x \in Tasks : Inject(x)
  \/ \E w \in Workers :
       \/ \E x \in Tasks : Enqueue(w, x)
       \/ Enqueued(w) \/ Parks(w) \/ Yields(w)
       \/ Pop(w) \/ PopClaim(w) \/ PopYielded(w)
       \/ TakeInjection(w) \/ Share(w) \/ Shared(w) \/ Taken(w) \/ SkipInjection(w)
       \/ \E v \in Workers : Steal(w, v)
       \/ GiveUp(w) \/ StealTail(w) \/ StealCopy(w) \/ StealClaim(w) \/ StealPublish(w)

Spec == Init /\ [][Next]_vars

-----------------------------------------------------------------------------
(* Properties *)

\* The slots of a ring that hold a task: published, or about to be by its owner.
Held(w) == head[w] .. tail[w] - 1 +
  (IF pc[w] \in {"pushed", "shared"} THEN 1
   ELSE IF pc[w] = "publish" THEN copy[w].n - 1 ELSE 0)

InRings(x) == UNION {{<<w, i>> : i \in {j \in Held(w) : Slot(w, j) = x}} : w \in Workers}
InYields(x) ==
  UNION {{<<w, i>> : i \in {j \in DOMAIN yielded[w] : yielded[w][j] = x}} : w \in Workers}

\* How many copies of a task the scheduler has.
Copies(x) ==
  Cardinality(InRings(x)) + Cardinality(InYields(x))
    + Cardinality({i \in DOMAIN inj : inj[i] = x})
    + Cardinality({w \in Workers : hand[w] = x})
    + (IF x \in parked THEN 1 ELSE 0)

\* Every task is in one place: none is taken twice, by a thief and the owner or by two
\* thieves, and none is lost to a slot that was reused or to a copy that was thrown away.
EveryTaskOnce ==
  /\ \A x \in Tasks : Copies(x) = 1
  /\ \A w \in Workers : tail[w] - head[w] \in 0 .. Cap
=============================================================================
