------------------------------ MODULE RawMutex ------------------------------
(***************************************************************************)
(* The lock of std/parallel/sync.spc: RawMutex, the word of a Mutex, and   *)
(* the static bucket its waiters park on.                                  *)
(*                                                                         *)
(* The word takes four values: 0 free, 1 held, 2 free with a waiter        *)
(* queued, 3 held with a waiter queued.  Locks that hash to one bucket     *)
(* share its queue and its spinlock; here they all do.  A waiter is woken  *)
(* to contend again, not handed the lock.  The wake and the cancel wake of *)
(* one park race for its single claim (module Park).                       *)
(*                                                                         *)
(* How long a contender spins is left open: after any look at a held word  *)
(* it may take the queue.                                                  *)
(***************************************************************************)
EXTENDS Naturals, SequencesExt

CONSTANTS Procs,    \* coroutines and plain threads
          Tasks,    \* the coroutines: only these can be cancelled
          Locks,    \* the locks of one bucket
          NoProc, NoLock

ASSUME RawMutexAssumption ==
  /\ Tasks \subseteq Procs
  /\ NoProc \notin Procs /\ NoLock \notin Locks

VARIABLES
  word,    \* RawMutex.locked of each lock
  bucket,  \* who holds the bucket's spinlock
  queue,   \* LotBucket: the waiters, in order
  pc,      \* where each process is
  lock,    \* the lock a process acquires, holds or releases
  canPark, \* its wait opted into cancellation and is not masked
  cancel,  \* its cancellation state
  popped   \* the waiter an unlock popped and has not tried to wake

vars == <<word, bucket, queue, pc, lock, canPark, cancel, popped>>

PCs == {"out",        \* in no lock operation
        "contend",    \* in the loop of raw_mutex_lock_slow
        "queue",      \* saw 3: about to take the bucket lock
        "parking",    \* queued, the bucket lock held until the context is saved
        "parked",
        "cancelled",  \* the cancel wake won the park
        "held",
        "slow",       \* raw_mutex_unlock_slow, before its first pop
        "wake",       \* holds the bucket lock and a popped waiter, or none
        "again"}      \* the popped waiter was lost to a cancellation

\* Mutant of Held: a held word with a waiter queued is taken for a free one.
Held_Bare(m) == word[m] = 1

Held(m) == word[m] \in {1, 3}

Goto(p, l) == pc' = [pc EXCEPT ![p] = l]

-----------------------------------------------------------------------------
(* Acquiring *)

\* The acquire compare-and-swap keeps the queued bit.
Grabbed(v) == IF v = 2 THEN 3 ELSE 1

Grab(p, m) ==
  /\ ~Held(m)
  /\ word' = [word EXCEPT ![m] = Grabbed(@)]
  /\ Goto(p, "held")

\* raw_mutex_lock, raw_mutex_lock_c: uncontended.
LockFast(p, m) ==
  /\ pc[p] = "out" /\ word[m] = 0
  /\ Grab(p, m)
  /\ lock' = [lock EXCEPT ![p] = m]
  /\ UNCHANGED <<bucket, queue, canPark, cancel, popped>>

\* raw_mutex_try_lock: takes a free lock past its waiters.  A failure changes nothing.
TryLock(p, m) ==
  /\ pc[p] = "out"
  /\ Grab(p, m)
  /\ lock' = [lock EXCEPT ![p] = m]
  /\ UNCHANGED <<bucket, queue, canPark, cancel, popped>>

\* The first compare-and-swap fails.  Cleanup and masked code wait non-cancellably.
LockSlow(p, m) ==
  /\ pc[p] = "out" /\ word[m] # 0
  /\ \E c \in BOOLEAN :
       /\ c => p \in Tasks /\ cancel[p] # "accepted"
       /\ canPark' = [canPark EXCEPT ![p] = c]
  /\ lock' = [lock EXCEPT ![p] = m]
  /\ Goto(p, "contend")
  /\ UNCHANGED <<word, bucket, queue, cancel, popped>>

Acquire(p) ==
  /\ pc[p] = "contend"
  /\ Grab(p, lock[p])
  /\ UNCHANGED <<bucket, queue, lock, canPark, cancel, popped>>

\* Mutant of Marked: the queued bit is added, not set.
Marked_Added(v) == v + 2

Marked(v) == 3

\* The spin is over: make the word say a waiter is coming, if it does not yet.
Mark(p) ==
  /\ pc[p] = "contend" /\ Held(lock[p])
  /\ word' = [word EXCEPT ![lock[p]] = Marked(@)]
  /\ Goto(p, "queue")
  /\ UNCHANGED <<bucket, queue, lock, canPark, cancel, popped>>

Revalidated(m) == word[m] = 3

\* Under the bucket lock: queue only while the word still says held with a waiter.
Enqueue(p) ==
  /\ pc[p] = "queue" /\ bucket = NoProc
  /\ IF Revalidated(lock[p])
       THEN /\ bucket' = p
            /\ queue' = Append(queue, p)
            /\ Goto(p, "parking")
       ELSE /\ Goto(p, "contend")
            /\ UNCHANGED <<bucket, queue>>
  /\ UNCHANGED <<word, lock, canPark, cancel, popped>>

\* commit_lot_unlock, once the context is saved; a plain thread unlocks before it sleeps.
CommitPark(p) ==
  /\ pc[p] = "parking"
  /\ bucket' = NoProc
  /\ Goto(p, "parked")
  /\ UNCHANGED <<word, queue, lock, canPark, cancel, popped>>

-----------------------------------------------------------------------------
(* Cancelling a wait *)

Request(p) ==
  /\ p \in Tasks /\ cancel[p] = "none"
  /\ cancel' = [cancel EXCEPT ![p] = "requested"]
  /\ UNCHANGED <<word, bucket, queue, pc, lock, canPark, popped>>

\* The cancel wake claims the park (cancel_nudge, or the hand-off tail).
CancelWake(p) ==
  /\ pc[p] = "parked" /\ canPark[p] /\ cancel[p] = "requested"
  /\ Goto(p, "cancelled")
  /\ UNCHANGED <<word, bucket, queue, lock, canPark, cancel, popped>>

BucketFree == bucket = NoProc

\* lot_remove under the bucket lock, then raw_mutex_lock_c accepts.
LotRemove(p) ==
  /\ pc[p] = "cancelled" /\ BucketFree
  /\ \/ p \notin Range(queue) /\ UNCHANGED queue
     \/ \E i \in DOMAIN queue : queue[i] = p /\ queue' = RemoveAt(queue, i)
  /\ cancel' = [cancel EXCEPT ![p] = "accepted"]
  /\ lock' = [lock EXCEPT ![p] = NoLock]
  /\ Goto(p, "out")
  /\ UNCHANGED <<word, bucket, canPark, popped>>

\* Outside the lock: a cancellation point accepts; the block hosts another task.
Unwind(p) ==
  /\ pc[p] = "out" /\ cancel[p] # "none"
  /\ cancel' = [cancel EXCEPT ![p] = IF @ = "requested" THEN "accepted" ELSE "none"]
  /\ UNCHANGED <<word, bucket, queue, pc, lock, canPark, popped>>

-----------------------------------------------------------------------------
(* Releasing *)

\* raw_mutex_unlock: nobody parked, or the slow path.
Unlock(p) ==
  /\ pc[p] = "held"
  /\ IF word[lock[p]] = 1
       THEN /\ word' = [word EXCEPT ![lock[p]] = 0]
            /\ lock' = [lock EXCEPT ![p] = NoLock]
            /\ Goto(p, "out")
       ELSE /\ Goto(p, "slow")
            /\ UNCHANGED <<word, lock>>
  /\ UNCHANGED <<bucket, queue, canPark, cancel, popped>>

\* The positions at which a waiter on m is queued.
Places(m) == {i \in DOMAIN queue : lock[queue[i]] = m}

\* lot_pop's `more`: another waiter on m remains behind the first.
More(m) == \E i, j \in Places(m) : i < j

\* lot_pop: unlink the first waiter on m, whoever else's waiters it is queued among.
Pop(p, m) ==
  /\ bucket = NoProc
  /\ bucket' = p
  /\ IF Places(m) = {}
       THEN /\ popped' = [popped EXCEPT ![p] = NoProc]
            /\ UNCHANGED queue
       ELSE \E i \in Places(m) :
            /\ \A j \in Places(m) : i <= j
            /\ popped' = [popped EXCEPT ![p] = queue[i]]
            /\ queue' = RemoveAt(queue, i)
  /\ Goto(p, "wake")

Released(m) == IF More(m) THEN 2 ELSE 0

\* The first pass of raw_mutex_unlock_slow: pop, then the release store.
PopAndRelease(p) ==
  /\ pc[p] = "slow"
  /\ Pop(p, lock[p])
  /\ word' = [word EXCEPT ![lock[p]] = Released(lock[p])]
  /\ UNCHANGED <<lock, canPark, cancel>>

\* A later pass: the lock is no longer ours, only its address is still used.
PopAgain(p) ==
  /\ pc[p] = "again"
  /\ Pop(p, lock[p])
  /\ UNCHANGED <<word, lock, canPark, cancel>>

\* A woken waiter spends the release on an attempt, whatever request is pending.
WokenAt(n) == "contend"

\* Mutant of AfterWake: a wake lost to a cancellation is not passed on.
AfterWake_Dropped(n) == "out"

\* A wake whose park was already claimed goes to the next waiter.
AfterWake(n) == IF n # NoProc /\ pc[n] # "parked" THEN "again" ELSE "out"

\* Still under the bucket lock: wake the popped waiter, then drop the lock.
Wake(p) ==
  /\ pc[p] = "wake"
  /\ LET n == popped[p]
         woke == n # NoProc /\ pc[n] = "parked"
     IN /\ pc' = [q \in Procs |-> IF q = p THEN AfterWake(n)
                                  ELSE IF woke /\ q = n THEN WokenAt(n) ELSE pc[q]]
        /\ lock' = [lock EXCEPT ![p] = IF AfterWake(n) = "again" THEN @ ELSE NoLock]
  /\ bucket' = NoProc
  /\ popped' = [popped EXCEPT ![p] = NoProc]
  /\ UNCHANGED <<word, queue, canPark, cancel>>

-----------------------------------------------------------------------------
Init ==
  /\ word = [m \in Locks |-> 0]
  /\ bucket = NoProc
  /\ queue = <<>>
  /\ pc = [p \in Procs |-> "out"]
  /\ lock = [p \in Procs |-> NoLock]
  /\ canPark = [p \in Procs |-> FALSE]
  /\ cancel = [p \in Procs |-> "none"]
  /\ popped = [p \in Procs |-> NoProc]

\* The steps a process takes on its own once it is in a lock operation.
Contend(p) == Acquire(p) \/ Mark(p) \/ Enqueue(p) \/ CommitPark(p) \/ LotRemove(p)
Release(p) == Unlock(p) \/ PopAndRelease(p) \/ PopAgain(p) \/ Wake(p)

Next == \E p \in Procs :
  \/ \E m \in Locks : LockFast(p, m) \/ TryLock(p, m) \/ LockSlow(p, m)
  \/ Contend(p) \/ Release(p)
  \/ Request(p) \/ CancelWake(p) \/ Unwind(p)

Spec == Init /\ [][Next]_vars

\* A process inside an operation keeps going; owners unlock.  Nobody has to be cancelled.
Fairness == \A p \in Procs : WF_vars(Contend(p)) /\ WF_vars(Release(p))
FairSpec == Spec /\ Fairness

-----------------------------------------------------------------------------
(* Properties *)

\* The type invariant.
TypeOK ==
  /\ word \in [Locks -> 0 .. 3]
  /\ bucket \in Procs \cup {NoProc}
  /\ queue \in Seq(Procs)
  /\ pc \in [Procs -> PCs]
  /\ lock \in [Procs -> Locks \cup {NoLock}]
  /\ \A p \in Procs : lock[p] = NoLock <=> pc[p] = "out"
  /\ canPark \in [Procs -> BOOLEAN]
  /\ cancel \in [Procs -> {"none", "requested", "accepted"}]
  /\ popped \in [Procs -> Procs \cup {NoProc}]

\* p owns m: it acquired it and has not stored the release.
Owns(p, m) == lock[p] = m /\ pc[p] \in {"held", "slow"}

\* Mutual exclusion, whoever barges, waits, is cancelled or is woken meanwhile.
MutualExclusion == \A m \in Locks : \A p, q \in Procs : Owns(p, m) /\ Owns(q, m) => p = q

\* The word says held exactly when somebody owns the lock.
WordAgrees == \A m \in Locks : Held(m) <=> \E p \in Procs : Owns(p, m)

\* A queued waiter is counted: the word of its lock has the queued bit, so the next unlock
\* takes the slow path and finds it.
QueuedIsCounted == \A q \in Range(queue) : word[lock[q]] \in {2, 3}

\* p will look at the word of m again, or hands a wake to the next waiter of m.
Awake(p, m) == lock[p] = m /\ pc[p] \in {"contend", "queue", "wake", "again"}

\* No release is lost: while a lock is free and a waiter is parked on it, somebody is awake
\* to take it.
NoStrandedWaiter == \A m \in Locks :
  (~Held(m) /\ \E p \in Procs : pc[p] = "parked" /\ lock[p] = m)
    => \E q \in Procs : Awake(q, m)

\* A popped waiter's frame and task block live until its wake: it can neither return nor be
\* recycled while an unlock holds its node.
PoppedIsAlive == \A p \in Procs : popped[p] # NoProc =>
  pc[popped[p]] \in {"parked", "cancelled"} /\ lock[popped[p]] = lock[p]

\* Every waiter is accounted for.  The bucket lock is held exactly by a waiter that is parking,
\* on the queue of a lock that is held, or by an unlock between its pop and its wake; a parked
\* waiter is on the queue, once, or popped by that unlock; an unlock that popped nobody left
\* nobody.  With the properties above this is inductive.
WaitersAccounted ==
  /\ \A p \in Procs : bucket = p <=> pc[p] \in {"parking", "wake"}
  /\ IsInjective(queue)
  /\ \A q \in Range(queue) : pc[q] \in {"parking", "parked", "cancelled"}
  /\ \A p \in Procs : pc[p] = "parking" => p \in Range(queue) /\ word[lock[p]] = 3
  /\ \A p \in Procs : pc[p] = "parked" =>
       p \in Range(queue) \/ \E r \in Procs : popped[r] = p
  /\ \A r \in Procs : popped[r] # NoProc => pc[r] = "wake" /\ popped[r] \notin Range(queue)
  /\ \A r \in Procs : pc[r] = "wake" /\ popped[r] = NoProc =>
       \A q \in Range(queue) : lock[q] # lock[r]

\* The lock as its users see it: who owns it, and who is waiting for it.
owners == [m \in Locks |->
             IF \E p \in Procs : Owns(p, m) THEN CHOOSE p \in Procs : Owns(p, m) ELSE NoProc]
wants  == [p \in Procs |->
             IF pc[p] \in {"contend", "queue", "parking", "parked", "cancelled"}
               THEN lock[p] ELSE NoLock]

Abstract == INSTANCE Lock WITH owner <- owners, wants <- wants

\* Every step of the lock is a step of the abstract one or leaves it alone.
RefinesLock == Abstract!Spec

\* A lock that is free and wanted is taken, if those inside it keep going and owners unlock.
HandedOn == Abstract!FairSpec
=============================================================================
