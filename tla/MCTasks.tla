------------------------------ MODULE MCTasks ------------------------------
(* What the scheduler and the tasks keep: the run queues, the timer heap, the counts of an Arc,
   a task group, one at a time: a run picks one, the others stay where they start. *)
EXTENDS Arc

CONSTANTS
  Coroutines, Deadlines, InitCap, MaxCap, TimerBatch, MaxSeq,
  Workers, Tasks, NoTask, Cap, StealMax, YMax, BatchMax, MaxTail,
  Blocks, Others, Cancellers, Own, Owner, Reasons, User, CancelBatch, MaxSpawn, NoReason

VARIABLES
  which,
  heap, len, cap, seq, fired,
  buf, head, tail, yielded, inj, qlock, parked, hand, copy, left, pc,
  reason, list, refs, held, sweep, life, task, memb, linked, request, accepted, count, spawned,
  completed, cancelled, owner

Heap == INSTANCE TimerHeap WITH Batch <- TimerBatch

Deques == INSTANCE Deque WITH None <- NoTask

Group == INSTANCE TaskGroup WITH Batch <- CancelBatch, st <- task, None <- NoReason

ASSUME TasksAssumption ==
  Heap!TimerAssumption /\ Deques!DequeAssumption /\ Group!GroupAssumption

heapVars == <<heap, len, cap, seq, fired>>
dequeVars == <<buf, head, tail, yielded, inj, qlock, parked, hand, copy, left, pc>>
groupVars == <<reason, list, refs, held, sweep, life, task, memb, linked, request, accepted,
               count, spawned, completed, cancelled, owner>>
allVars == <<which, vars, heapVars, dequeVars, groupVars>>

\* Handles are alike: the first one is CHOSEn.
MCInit ==
  /\ which \in {"deques", "timers", "arc", "group"}
  /\ Init /\ Heap!Init /\ Deques!Init /\ Group!Init
  /\ st[CHOOSE h \in Handles : TRUE] = "strong"

\* Coroutines are alike, and numbered: the lowest unarmed one is armed next.
TimerNext ==
  /\ Heap!Next
  /\ \A c, d \in Coroutines :
       (heap.at[c] = Heap!None /\ heap'.at[c] # Heap!None /\ d < c) => heap.at[d] # Heap!None

\* So are tasks: among those that nothing remembers, the lowest is made runnable next.
Forgotten(x) ==
  /\ x \in parked
  /\ \A w \in Workers : copy[w].first # x /\ \A k \in DOMAIN buf[w] : buf[w][k] # x

DequeNext ==
  /\ Deques!Next
  /\ \A x \in Tasks : (x \in parked /\ x \notin parked') =>
       \A y \in Tasks : y < x => ~(Forgotten(x) /\ Forgotten(y))

\* Timers that were all used, a value that is gone or a panic, and a group that is gone end a run.
Over ==
  \/ which = "timers" /\ seq = MaxSeq
  \/ which = "arc" /\ (panicked \/ \A h \in Handles : st[h] = "none")
  \/ which = "group" /\ owner = "gone"

MCNext ==
  \/ which = "deques" /\ DequeNext /\ UNCHANGED <<which, vars, heapVars, groupVars>>
  \/ which = "timers" /\ TimerNext /\ UNCHANGED <<which, vars, dequeVars, groupVars>>
  \/ which = "arc" /\ Next /\ UNCHANGED <<which, heapVars, dequeVars, groupVars>>
  \/ which = "group" /\ Group!Next /\ UNCHANGED <<which, vars, heapVars, dequeVars>>
  \/ Over /\ UNCHANGED allVars

MCSpec == MCInit /\ [][MCNext]_allVars

-----------------------------------------------------------------------------
(* Properties of the others, under the names of their modules *)

\* Every task is in one place: stolen and run once, and lost to no reused slot.
EveryTaskOnce == which = "deques" => Deques!EveryTaskOnce

\* The heap is a set of timers: a disarm takes out the timer of that coroutine and no other,
\* and due timers come out in the order of their deadlines, for the indices are right.
IsTimerSet == Heap!IsTimerSet

\* A cancel reaches every member of a source and nobody else, whatever is bound, completes or
\* is recycled meanwhile; a report adds up; no child outlives its group.
GroupKept == which = "group" => Group!GroupKept
=============================================================================
