------------------------------ MODULE Condvar ------------------------------
(***************************************************************************)
(* The queue of a Condvar of std/parallel/sync.spc, as operators: every    *)
(* client keeps its queue and its waits as variables of its own.           *)
(*                                                                         *)
(* The queue is only touched under the paired mutex (module RawMutex), so  *)
(* a critical section of a client is one step; it ends where the waiter    *)
(* parks.  A wait is                                                       *)
(*   "none"     not waiting                                                *)
(*   "parked"   registered, its wake still open: what wake_waiter can win  *)
(*   "notify", "timeout", "cancel"                                         *)
(*              won by that waker (module Park: exactly one wins), before  *)
(*              the waiter has the mutex again.  A timed-out or cancelled  *)
(*              waiter's node is still queued then.                        *)
(***************************************************************************)
EXTENDS Naturals, SequencesExt

WaitStates == {"none", "parked", "notify", "timeout", "cancel"}

Register(q, w) == Append(q, w)

\* A no-op if a notify popped the node.
Unlink(q, w) ==
  IF Contains(q, w) THEN RemoveAt(q, CHOOSE i \in DOMAIN q : q[i] = w) ELSE q

\* The first k nodes whose waits are not over.
Awaiting(q, wait, k) == {i \in 1..k : wait[q[i]] = "parked"}

\* Mutant of Popped: a node whose wait is over counts as woken.
Popped_Stale(q, wait, n) == IF n < Len(q) THEN n ELSE Len(q)

\* How many nodes notify_some pops to wake n waiters: a node whose wait is over does not count.
Popped(q, wait, n) ==
  LET enough == {k \in 0..Len(q) : Cardinality(Awaiting(q, wait, k)) = n}
  IN  IF enough = {} THEN Len(q) ELSE CHOOSE k \in enough : \A j \in enough : k <= j

\* The queue and the waits after notify_some(n).
Left(q, wait, n) == SubSeq(q, Popped(q, wait, n) + 1, Len(q))
Woken(q, wait, n) ==
  LET won == {q[i] : i \in Awaiting(q, wait, Popped(q, wait, n))}
  IN  [w \in DOMAIN wait |-> IF w \in won THEN "notify" ELSE wait[w]]

\* notify_all: the queue becomes empty.
WokenAll(q, wait) == Woken(q, wait, Len(q) + 1)

\* The waits after the mutex is taken again, and after one more park.
Over(wait, w) == [wait EXCEPT ![w] = "none"]
Parks(wait, w) == [wait EXCEPT ![w] = "parked"]
Wins(wait, w, reason) == [wait EXCEPT ![w] = reason]

WithReason(wait, S, reason) == {w \in S : wait[w] = reason}
=============================================================================
