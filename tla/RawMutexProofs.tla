--------------------------- MODULE RawMutexProofs ---------------------------
(***************************************************************************)
(* Proofs about RawMutex, for any number of processes and locks.           *)
(***************************************************************************)
EXTENDS RawMutex, QueueProofs

-----------------------------------------------------------------------------
(* Type correctness *)

USE RawMutexAssumption

\* A process inside a lock operation names a lock.
LEMMA InsideNamesLock ==
  ASSUME TypeOK, NEW p \in Procs, pc[p] # "out"
  PROVE  lock[p] \in Locks
  BY DEF TypeOK

\* Every step keeps every variable in its type, and the lock a process names in step with
\* where it is.
LEMMA TypeStep == TypeOK /\ [Next]_vars => TypeOK'
<1> SUFFICES ASSUME TypeOK, [Next]_vars PROVE TypeOK'
  OBVIOUS
<1> USE DEF TypeOK, PCs, Goto
<1>1. ASSUME NEW p \in Procs, NEW m \in Locks, LockFast(p, m) \/ TryLock(p, m) PROVE TypeOK'
  BY <1>1 DEF LockFast, TryLock, Grab, Grabbed
<1>2. ASSUME NEW p \in Procs, NEW m \in Locks, LockSlow(p, m) PROVE TypeOK'
  BY <1>2 DEF LockSlow
<1>3. ASSUME NEW p \in Procs, Acquire(p) PROVE TypeOK'
  BY <1>3 DEF Acquire, Grab, Grabbed
<1>4. ASSUME NEW p \in Procs, Mark(p) PROVE TypeOK'
  BY <1>4 DEF Mark, Marked
<1>5. ASSUME NEW p \in Procs, Enqueue(p) PROVE TypeOK'
  BY SMTT(30), <1>5, AppendProperties DEF Enqueue
<1>6. ASSUME NEW p \in Procs, CommitPark(p) PROVE TypeOK'
  BY <1>6 DEF CommitPark
<1>7. ASSUME NEW p \in Procs, LotRemove(p) PROVE TypeOK'
  <2>1. queue' \in Seq(Procs)
    BY <1>7, RemoveAtElements DEF LotRemove
  <2> QED BY <1>7, <2>1 DEF LotRemove
<1>8. ASSUME NEW p \in Procs, Request(p) \/ CancelWake(p) \/ Unwind(p) PROVE TypeOK'
  BY <1>8 DEF Request, CancelWake, Unwind
<1>9. ASSUME NEW p \in Procs, Unlock(p) PROVE TypeOK'
  BY <1>9 DEF Unlock
<1>10. ASSUME NEW p \in Procs, NEW m \in Locks, Pop(p, m)
       PROVE  queue' \in Seq(Procs) /\ popped' \in [Procs -> Procs \cup {NoProc}]
  <2>1. ASSUME NEW i \in DOMAIN queue
        PROVE  queue[i] \in Procs /\ RemoveAt(queue, i) \in Seq(Procs)
    BY <2>1, RemoveAtElements, ElementOfSeq, LenProperties
  <2> QED BY <1>10, <2>1 DEF Pop, Places
<1>11. ASSUME NEW p \in Procs, PopAndRelease(p) PROVE TypeOK'
  <2>1. lock[p] \in Locks /\ Pop(p, lock[p])
    BY <1>11, InsideNamesLock DEF PopAndRelease
  <2>2. word' \in [Locks -> 0 .. 3]
    BY <1>11 DEF PopAndRelease, Released
  <2>3. pc' = [pc EXCEPT ![p] = "wake"] /\ bucket' = p
    BY <2>1 DEF Pop
  <2> QED BY <1>10, <1>11, <2>1, <2>2, <2>3 DEF PopAndRelease
<1>12. ASSUME NEW p \in Procs, PopAgain(p) PROVE TypeOK'
  <2>1. lock[p] \in Locks /\ Pop(p, lock[p])
    BY <1>12, InsideNamesLock DEF PopAgain
  <2>3. pc' = [pc EXCEPT ![p] = "wake"] /\ bucket' = p
    BY <2>1 DEF Pop
  <2> QED BY <1>10, <1>12, <2>1, <2>3 DEF PopAgain
<1>13. ASSUME NEW p \in Procs, Wake(p) PROVE TypeOK'
  BY <1>13 DEF Wake, AfterWake, WokenAt
<1>14. CASE UNCHANGED vars
  BY <1>14 DEF vars, Places
<1> QED
  BY <1>1, <1>2, <1>3, <1>4, <1>5, <1>6, <1>7, <1>8, <1>9, <1>11, <1>12, <1>13, <1>14
  DEF Next, Contend, Release

\* Type correctness of every variable, whatever the numbers of processes and locks.
THEOREM TypeCorrect == Spec => []TypeOK
<1>1. Init => TypeOK
  BY DEF Init, TypeOK, PCs
<1> QED BY <1>1, TypeStep, PTL DEF Spec

-----------------------------------------------------------------------------
(* Mutual exclusion: one owner, and the word says so *)

Exclusion == TypeOK /\ MutualExclusion /\ WordAgrees

\* An acquisition finds a word that is not held, hence no owner.
LEMMA GrabExcludes ==
  ASSUME Exclusion, NEW p \in Procs, NEW m \in Locks, Grab(p, m), lock' = [lock EXCEPT ![p] = m],
         pc[p] \in {"out", "contend"}
  PROVE  MutualExclusion' /\ WordAgrees'
<1> USE DEF Exclusion, TypeOK
<1>1. \A q \in Procs : ~Owns(q, m)
  BY DEF Grab, WordAgrees
<1>2. \A q \in Procs, l \in Locks : Owns(q, l)' <=> Owns(q, l) \/ (q = p /\ l = m)
  BY DEF Grab, Goto, Owns
<1>3. \A l \in Locks : Held(l)' <=> Held(l) \/ l = m
  BY DEF Grab, Grabbed, Held
<1>4. MutualExclusion'
  BY <1>1, <1>2 DEF MutualExclusion
<1>5. WordAgrees'
  BY <1>1, <1>2, <1>3 DEF WordAgrees
<1> QED BY <1>4, <1>5

\* A release leaves a word that is not held and a lock without an owner.
LEMMA ReleaseExcludes ==
  ASSUME Exclusion, NEW p \in Procs, NEW m \in Locks, Owns(p, m),
         \A q \in Procs, l \in Locks : Owns(q, l)' <=> Owns(q, l) /\ q # p,
         \A l \in Locks : Held(l)' <=> Held(l) /\ l # m
  PROVE  MutualExclusion' /\ WordAgrees'
<1>1. \A q \in Procs, l \in Locks : Owns(q, l)' <=> Owns(q, l) /\ l # m
  BY DEF Exclusion, MutualExclusion, Owns
<1>2. MutualExclusion'
  BY <1>1 DEF Exclusion, MutualExclusion
<1>3. WordAgrees'
  BY <1>1 DEF Exclusion, WordAgrees
<1> QED BY <1>2, <1>3

\* A step that moves no owner and no held bit keeps both.
LEMMA OthersExclude ==
  ASSUME Exclusion,
         \A q \in Procs, l \in Locks : Owns(q, l)' <=> Owns(q, l),
         \A l \in Locks : Held(l)' <=> Held(l)
  PROVE  MutualExclusion' /\ WordAgrees'
  BY DEF Exclusion, MutualExclusion, WordAgrees

\* Every step keeps mutual exclusion and the held bit in step with the owners.
LEMMA ExclusionStep == Exclusion /\ [Next]_vars => Exclusion'
<1> SUFFICES ASSUME Exclusion, [Next]_vars PROVE MutualExclusion' /\ WordAgrees'
  BY TypeStep DEF Exclusion
<1> TypeOK
  BY DEF Exclusion
<1>1. ASSUME NEW p \in Procs, NEW m \in Locks, LockFast(p, m) \/ TryLock(p, m)
      PROVE  MutualExclusion' /\ WordAgrees'
  <2>1. Grab(p, m) /\ pc[p] = "out" /\ lock' = [lock EXCEPT ![p] = m]
    BY <1>1 DEF LockFast, TryLock
  <2> QED BY <2>1, GrabExcludes
<1>2. ASSUME NEW p \in Procs, Acquire(p) PROVE MutualExclusion' /\ WordAgrees'
  <2>1. /\ Grab(p, lock[p]) /\ pc[p] = "contend" /\ lock[p] \in Locks
        /\ lock' = [lock EXCEPT ![p] = lock[p]]
    BY <1>2, InsideNamesLock DEF Acquire, TypeOK
  <2> QED BY <2>1, GrabExcludes
<1>3. ASSUME NEW p \in Procs, Unlock(p) PROVE MutualExclusion' /\ WordAgrees'
  <2>1. lock[p] \in Locks /\ Owns(p, lock[p]) /\ pc[p] = "held"
    BY <1>3, InsideNamesLock DEF Unlock, Owns
  <2>2. CASE word[lock[p]] = 1
    <3>1. \A q \in Procs, l \in Locks : Owns(q, l)' <=> Owns(q, l) /\ q # p
      BY <1>3, <2>2 DEF Unlock, Owns, Goto, TypeOK
    <3>2. \A l \in Locks : Held(l)' <=> Held(l) /\ l # lock[p]
      BY <1>3, <2>1, <2>2 DEF Unlock, Held, TypeOK
    <3> QED BY <2>1, <3>1, <3>2, ReleaseExcludes
  <2>3. CASE word[lock[p]] # 1
    <3>1. \A q \in Procs, l \in Locks : Owns(q, l)' <=> Owns(q, l)
      BY <1>3, <2>3, <2>1 DEF Unlock, Owns, Goto, TypeOK
    <3>2. \A l \in Locks : Held(l)' <=> Held(l)
      BY <1>3, <2>3 DEF Unlock, Held
    <3> QED BY <3>1, <3>2, OthersExclude
  <2> QED BY <2>2, <2>3
<1>4. ASSUME NEW p \in Procs, PopAndRelease(p) PROVE MutualExclusion' /\ WordAgrees'
  <2>1. lock[p] \in Locks /\ Owns(p, lock[p]) /\ pc[p] = "slow"
    BY <1>4, InsideNamesLock DEF PopAndRelease, Owns
  <2>2. \A q \in Procs, l \in Locks : Owns(q, l)' <=> Owns(q, l) /\ q # p
    BY <1>4 DEF PopAndRelease, Pop, Owns, Goto, TypeOK
  <2>3. \A l \in Locks : Held(l)' <=> Held(l) /\ l # lock[p]
    BY <1>4, <2>1 DEF PopAndRelease, Released, Held, TypeOK
  <2> QED BY <2>1, <2>2, <2>3, ReleaseExcludes
<1>5. ASSUME NEW p \in Procs, Mark(p) PROVE MutualExclusion' /\ WordAgrees'
  <2>1. \A l \in Locks : Held(l)' <=> Held(l)
    BY <1>5 DEF Mark, Marked, Held, TypeOK
  <2>2. \A q \in Procs, l \in Locks : Owns(q, l)' <=> Owns(q, l)
    BY <1>5 DEF Mark, Owns, Goto, TypeOK
  <2> QED BY <2>1, <2>2, OthersExclude
<1>6. ASSUME NEW p \in Procs, Wake(p) PROVE MutualExclusion' /\ WordAgrees'
  <2>1. \A l \in Locks : Held(l)' <=> Held(l)
    BY <1>6 DEF Wake, Held
  <2>2. \A q \in Procs, l \in Locks : Owns(q, l)' <=> Owns(q, l)
    BY <1>6 DEF Wake, AfterWake, WokenAt, Owns, TypeOK
  <2> QED BY <2>1, <2>2, OthersExclude
<1>7. ASSUME NEW p \in Procs,
             \/ \E m \in Locks : LockSlow(p, m)
             \/ Enqueue(p) \/ CommitPark(p) \/ LotRemove(p) \/ PopAgain(p)
             \/ Request(p) \/ CancelWake(p) \/ Unwind(p)
      PROVE  MutualExclusion' /\ WordAgrees'
  <2>1. \A l \in Locks : Held(l)' <=> Held(l)
    BY <1>7 DEF LockSlow, Enqueue, CommitPark, LotRemove, PopAgain, Request, CancelWake, Unwind, Held
  <2>2. \A q \in Procs, l \in Locks : Owns(q, l)' <=> Owns(q, l)
    BY <1>7 DEF LockSlow, Enqueue, CommitPark, LotRemove, PopAgain, Pop, Request, CancelWake,
                Unwind, Owns, Goto, TypeOK
  <2> QED BY <2>1, <2>2, OthersExclude
<1>8. CASE UNCHANGED vars
  BY <1>8, OthersExclude DEF vars, Owns, Held
<1> QED
  BY <1>1, <1>2, <1>3, <1>4, <1>5, <1>6, <1>7, <1>8 DEF Next, Contend, Release

\* At most one process owns a lock, whoever barges, waits, is cancelled or is woken meanwhile,
\* and the word of a lock has the held bit exactly while it has an owner.
THEOREM Exclusive == Spec => [](MutualExclusion /\ WordAgrees)
<1>1. Init => Exclusion
  BY DEF Init, Exclusion, TypeOK, PCs, MutualExclusion, WordAgrees, Owns, Held
<1>2. Exclusion => MutualExclusion /\ WordAgrees
  BY DEF Exclusion
<1> QED BY <1>1, <1>2, ExclusionStep, PTL DEF Spec

-----------------------------------------------------------------------------
(* The waiters: queued, popped, counted *)

Waiting == QueuedIsCounted /\ PoppedIsAlive /\ WaitersAccounted

\* A waiter that is queued or popped names a lock, and is in no other lock operation.
LEMMA WaitersInside ==
  ASSUME TypeOK, Waiting
  PROVE  /\ Range(queue) \subseteq Procs
         /\ \A q \in Range(queue) : lock[q] \in Locks
  BY RangeOfSeq, InsideNamesLock DEF TypeOK, Waiting, WaitersAccounted

\* What a pop does to the queue.
LEMMA PopEffect ==
  ASSUME TypeOK, Waiting, NEW p \in Procs, NEW m \in Locks, Pop(p, m)
  PROVE  \/ /\ \A q \in Range(queue) : lock[q] # m
            /\ ~More(m)
            /\ queue' = queue
            /\ popped' = [popped EXCEPT ![p] = NoProc]
         \/ \E n \in Range(queue) :
            /\ lock[n] = m
            /\ popped' = [popped EXCEPT ![p] = n]
            /\ Range(queue') = Range(queue) \ {n}
            /\ IsInjective(queue')
            /\ ~More(m) => \A q \in Range(queue') : lock[q] # m
<1>1. CASE Places(m) = {}
  BY <1>1 DEF Pop, Places, More, Range
<1>2. CASE Places(m) # {}
  <2>1. PICK i \in Places(m) :
          /\ \A j \in Places(m) : i <= j
          /\ popped' = [popped EXCEPT ![p] = queue[i]]
          /\ queue' = RemoveAt(queue, i)
    BY <1>2 DEF Pop
  <2>2. i \in DOMAIN queue /\ lock[queue[i]] = m /\ queue[i] \in Range(queue)
    BY DEF Places, Range
  <2>3. Range(queue') = Range(queue) \ {queue[i]} /\ IsInjective(queue')
    BY <2>1, <2>2, RemoveAtRange DEF TypeOK, Waiting, WaitersAccounted
  <2>4. ASSUME ~More(m), NEW q \in Range(queue'), lock[q] = m PROVE FALSE
    <3>1. PICK j \in DOMAIN queue : queue[j] = q /\ j # i
      BY <2>3, <2>4 DEF Range
    <3>2. j \in Places(m) /\ i <= j
      BY <3>1, <2>1, <2>4 DEF Places
    <3>3. i \in Nat /\ j \in Nat
      BY <2>2, LenProperties DEF TypeOK
    <3> QED BY <3>1, <3>2, <3>3, <2>4 DEF More
  <2> QED BY <2>1, <2>2, <2>3, <2>4
<1> QED BY <1>1, <1>2

\* Taking the lock leaves the queued bit as it is.
LEMMA GrabWaiting ==
  ASSUME Exclusion, Waiting, NEW p \in Procs, NEW m \in Locks, Grab(p, m),
         pc[p] \in {"out", "contend"}, lock' = [lock EXCEPT ![p] = m],
         UNCHANGED <<bucket, queue, popped>>
  PROVE  Waiting'
<1> USE DEF Exclusion, TypeOK
<1>1. /\ \A q \in Range(queue) : q # p /\ lock'[q] = lock[q] /\ lock[q] \in Locks
      /\ \A r \in Procs : popped[r] # NoProc => popped[r] # p /\ r # p
  BY WaitersInside DEF Waiting, WaitersAccounted, PoppedIsAlive
<1>2. QueuedIsCounted'
  <2>1. \A l \in Locks : word[l] \in {2, 3} => word'[l] \in {2, 3}
    BY DEF Grab, Grabbed, Held
  <2> QED BY <1>1, <2>1 DEF Waiting, QueuedIsCounted
<1>3. PoppedIsAlive'
  BY <1>1 DEF Waiting, PoppedIsAlive, Grab, Goto
<1>4. WaitersAccounted'
  <2>1. \A q \in Procs : pc[q] = "parking" => word'[lock[q]] = 3
    BY DEF Waiting, WaitersAccounted, Grab, Held
  <2> QED BY <1>1, <2>1 DEF Waiting, WaitersAccounted, Grab, Goto
<1> QED BY <1>2, <1>3, <1>4 DEF Waiting

\* A pop takes one waiter, or finds none.
LEMMA PopWaiting ==
  ASSUME Exclusion, Waiting, NEW p \in Procs, Pop(p, lock[p]), pc[p] \in {"slow", "again"},
         UNCHANGED lock,
         \/ UNCHANGED word
         \/ Owns(p, lock[p]) /\ word' = [word EXCEPT ![lock[p]] = Released(lock[p])]
  PROVE  Waiting'
<1> USE DEF Exclusion, TypeOK
<1> DEFINE m == lock[p]
<1>0. /\ m \in Locks
      /\ bucket = NoProc /\ bucket' = p /\ pc' = [pc EXCEPT ![p] = "wake"]
      /\ \A q \in Range(queue) : q \in Procs /\ q # p /\ lock[q] \in Locks
      /\ \A r \in Procs : popped[r] = NoProc
      /\ \A r \in Procs : pc[r] \notin {"parking", "wake"}
  BY WaitersInside, InsideNamesLock, RawMutexAssumption DEF Pop, Goto, Waiting, WaitersAccounted
<1> HIDE DEF m
<1>1. CASE /\ \A q \in Range(queue) : lock[q] # m
           /\ queue' = queue
           /\ popped' = [popped EXCEPT ![p] = NoProc]
  <2>1. QueuedIsCounted'
    BY <1>0, <1>1 DEF Waiting, QueuedIsCounted, m
  <2>2. PoppedIsAlive'
    BY <1>0, <1>1 DEF PoppedIsAlive
  <2>4. WaitersAccounted'
    BY <1>0, <1>1 DEF Waiting, WaitersAccounted, m
  <2> QED BY <2>1, <2>2, <2>4 DEF Waiting
<1>2. ASSUME NEW n \in Range(queue), lock[n] = m,
             popped' = [popped EXCEPT ![p] = n],
             Range(queue') = Range(queue) \ {n}, IsInjective(queue'),
             ~More(m) => \A q \in Range(queue') : lock[q] # m
      PROVE  Waiting'
  <2>1. QueuedIsCounted'
    BY <1>0, <1>2 DEF Waiting, QueuedIsCounted, m, Released
  <2>2. PoppedIsAlive'
    BY <1>0, <1>2 DEF Waiting, WaitersAccounted, PoppedIsAlive, m
  <2>4. WaitersAccounted'
    BY <1>0, <1>2 DEF Waiting, WaitersAccounted
  <2> QED BY <2>1, <2>2, <2>4 DEF Waiting
<1>3. TypeOK /\ m \in Locks /\ Pop(p, m)
  BY <1>0 DEF m
<1>4. \/ /\ \A q \in Range(queue) : lock[q] # m
         /\ ~More(m)
         /\ queue' = queue
         /\ popped' = [popped EXCEPT ![p] = NoProc]
      \/ \E n \in Range(queue) :
         /\ lock[n] = m
         /\ popped' = [popped EXCEPT ![p] = n]
         /\ Range(queue') = Range(queue) \ {n}
         /\ IsInjective(queue')
         /\ ~More(m) => \A q \in Range(queue') : lock[q] # m
  BY <1>3, PopEffect
<1> QED BY <1>1, <1>2, <1>4

\* Every step keeps every waiter counted, accounted for and alive while it is popped.
LEMMA WaitingStep == Exclusion /\ Exclusion' /\ Waiting /\ [Next]_vars => Waiting'
<1> SUFFICES ASSUME Exclusion, Exclusion', Waiting, [Next]_vars PROVE Waiting'
  OBVIOUS
<1> USE DEF Exclusion, TypeOK
<1>0. /\ \A q \in Range(queue) : q \in Procs /\ lock[q] \in Locks
      /\ \A r \in Procs : popped[r] # NoProc => bucket = r /\ popped[r] \in Procs
  BY WaitersInside DEF Waiting, WaitersAccounted
<1>1. ASSUME NEW p \in Procs, NEW m \in Locks, LockFast(p, m) \/ TryLock(p, m) PROVE Waiting'
  <2>1. /\ Grab(p, m) /\ pc[p] = "out" /\ lock' = [lock EXCEPT ![p] = m]
        /\ UNCHANGED <<bucket, queue, popped>>
    BY <1>1 DEF LockFast, TryLock
  <2> QED BY <2>1, GrabWaiting
<1>2. ASSUME NEW p \in Procs, Acquire(p) PROVE Waiting'
  <2>1. /\ Grab(p, lock[p]) /\ pc[p] = "contend" /\ lock[p] \in Locks
        /\ lock' = [lock EXCEPT ![p] = lock[p]]
        /\ UNCHANGED <<bucket, queue, popped>>
    BY <1>2, InsideNamesLock DEF Acquire
  <2> QED BY <2>1, GrabWaiting
<1>3. ASSUME NEW p \in Procs, NEW m \in Locks, LockSlow(p, m) PROVE Waiting'
  BY <1>0, <1>3 DEF LockSlow, Goto, Waiting, QueuedIsCounted, PoppedIsAlive, WaitersAccounted
<1>4. ASSUME NEW p \in Procs, Mark(p) PROVE Waiting'
  BY <1>0, <1>4, InsideNamesLock
  DEF Mark, Marked, Goto, Waiting, QueuedIsCounted, PoppedIsAlive, WaitersAccounted
<1>5. ASSUME NEW p \in Procs, Enqueue(p) PROVE Waiting'
  <2>1. CASE Revalidated(lock[p])
    <3>1. /\ pc[p] = "queue" /\ word[lock[p]] = 3 /\ bucket = NoProc
          /\ pc' = [pc EXCEPT ![p] = "parking"] /\ bucket' = p /\ queue' = Append(queue, p)
          /\ UNCHANGED <<word, lock, popped>>
      BY <1>5, <2>1 DEF Enqueue, Revalidated, Goto
    <3>2. p \notin Range(queue) /\ IsInjective(queue) /\ queue \in Seq(Procs)
      BY <3>1 DEF Waiting, WaitersAccounted
    <3>4. Range(queue') = Range(queue) \cup {p} /\ IsInjective(queue')
      BY <3>1, <3>2, AppendRange
    <3>3. \A r \in Procs : popped[r] = NoProc /\ pc[r] \notin {"parking", "wake"}
      BY <1>0, <3>1, RawMutexAssumption DEF Waiting, WaitersAccounted
    <3> QED
      BY <3>1, <3>2, <3>3, <3>4, RawMutexAssumption
      DEF Waiting, QueuedIsCounted, PoppedIsAlive, WaitersAccounted
  <2>2. CASE ~Revalidated(lock[p])
    BY <1>0, <1>5, <2>2
    DEF Enqueue, Goto, Waiting, QueuedIsCounted, PoppedIsAlive, WaitersAccounted
  <2> QED BY <2>1, <2>2
<1>6. ASSUME NEW p \in Procs, CommitPark(p) PROVE Waiting'
  BY <1>0, <1>6, RawMutexAssumption
  DEF CommitPark, Goto, Waiting, QueuedIsCounted, PoppedIsAlive, WaitersAccounted
<1>7. ASSUME NEW p \in Procs, LotRemove(p) PROVE Waiting'
  <2>1. /\ pc[p] = "cancelled" /\ bucket = NoProc /\ pc' = [pc EXCEPT ![p] = "out"]
        /\ lock' = [lock EXCEPT ![p] = NoLock]
        /\ UNCHANGED <<word, bucket, popped>>
    BY <1>7 DEF LotRemove, BucketFree, Goto
  <2>2. Range(queue') = Range(queue) \ {p} /\ IsInjective(queue')
    BY <1>7, RemoveAtRange DEF LotRemove, Waiting, WaitersAccounted
  <2>3. \A r \in Procs : popped[r] = NoProc /\ pc[r] \notin {"parking", "wake"}
    BY <1>0, <2>1, RawMutexAssumption DEF Waiting, WaitersAccounted
  <2> QED
    BY <1>0, <2>1, <2>2, <2>3, RawMutexAssumption
    DEF Waiting, QueuedIsCounted, PoppedIsAlive, WaitersAccounted
<1>8. ASSUME NEW p \in Procs, Request(p) \/ CancelWake(p) \/ Unwind(p) PROVE Waiting'
  BY <1>0, <1>8 DEF Request, CancelWake, Unwind, Goto, Waiting, QueuedIsCounted, PoppedIsAlive,
                    WaitersAccounted
<1>9. ASSUME NEW p \in Procs, Unlock(p) PROVE Waiting'
  <2>1. lock[p] \in Locks /\ p \notin Range(queue) /\ \A r \in Procs : popped[r] # p
    BY <1>0, <1>9, InsideNamesLock DEF Unlock, Waiting, WaitersAccounted, PoppedIsAlive
  <2>2. CASE word[lock[p]] = 1
    BY SMTT(30), <1>0, <1>9, <2>1, <2>2
    DEF Unlock, Goto, Waiting, QueuedIsCounted, PoppedIsAlive, WaitersAccounted
  <2>3. CASE word[lock[p]] # 1
    BY <1>0, <1>9, <2>1, <2>3
    DEF Unlock, Goto, Waiting, QueuedIsCounted, PoppedIsAlive, WaitersAccounted
  <2> QED BY <2>2, <2>3
<1>10. ASSUME NEW p \in Procs, PopAndRelease(p) PROVE Waiting'
  BY <1>10, PopWaiting DEF PopAndRelease, Owns
<1>11. ASSUME NEW p \in Procs, PopAgain(p) PROVE Waiting'
  BY <1>11, PopWaiting DEF PopAgain
<1>12. ASSUME NEW p \in Procs, Wake(p) PROVE Waiting'
  <2>1. /\ pc[p] = "wake" /\ bucket = p /\ bucket' = NoProc /\ UNCHANGED <<word, queue>>
        /\ \A r \in Procs : r # p => popped[r] = NoProc /\ pc[r] \notin {"parking", "wake"}
        /\ \A r \in Procs : popped'[r] = NoProc
    BY <1>0, <1>12 DEF Wake, Waiting, WaitersAccounted
  <2>2. \A q \in Procs : q # p => lock'[q] = lock[q]
    BY <1>12 DEF Wake
  <2>3. \A q \in Procs : pc'[q] # pc[q] => q = p \/ (q = popped[p] /\ q \notin Range(queue))
    BY <1>12 DEF Wake, Waiting, WaitersAccounted
  <2>4. /\ pc'[p] \in {"again", "out"} /\ p \notin Range(queue)
        /\ \A q \in Procs : q # p => pc'[q] \notin {"parking", "wake"}
        /\ \A q \in Procs : q = popped[p] => pc'[q] # "parked"
    BY <1>12, <2>1 DEF Wake, AfterWake, WokenAt, Waiting, WaitersAccounted
  <2> QED
    BY <1>0, <2>1, <2>2, <2>3, <2>4, RawMutexAssumption
    DEF Waiting, QueuedIsCounted, PoppedIsAlive, WaitersAccounted
<1>13. CASE UNCHANGED vars
  BY <1>13 DEF vars, Waiting, QueuedIsCounted, PoppedIsAlive, WaitersAccounted
<1> QED
  BY <1>1, <1>2, <1>3, <1>4, <1>5, <1>6, <1>7, <1>8, <1>9, <1>10, <1>11, <1>12, <1>13
  DEF Next, Contend, Release

-----------------------------------------------------------------------------
(* No release is lost *)

Inductive == Exclusion /\ Waiting /\ NoStrandedWaiter

\* A step that leaves m free with a waiter queued leaves somebody awake for m.
LEMMA StaysAwake ==
  ASSUME Inductive, Exclusion', Waiting', NEW s \in Procs,
         NEW m \in Locks, NEW q \in Procs, Awake(q, m), word[m] = 2, word'[m] = 2,
         NEW p \in Range(queue'), lock'[p] = m,
         \/ \E l \in Locks : LockFast(s, l) \/ TryLock(s, l) \/ LockSlow(s, l)
         \/ Contend(s) \/ Release(s)
         \/ Request(s) \/ CancelWake(s) \/ Unwind(s)
  PROVE  \E r \in Procs : Awake(r, m)'
<1> USE DEF Inductive, Exclusion, TypeOK, Goto, Awake
<1>1. CASE s # q /\ ~Wake(s)
  BY <1>1 DEF LockFast, TryLock, LockSlow, Contend, Release, Acquire, Mark, Enqueue, CommitPark,
              LotRemove, Unlock, PopAndRelease, PopAgain, Pop, Request, CancelWake, Unwind, Grab
<1>2. CASE s # q /\ Wake(s)
  <2>1. pc[q] # "parked"
    OBVIOUS
  <2> QED BY <1>2, <2>1 DEF Wake
<1>3. CASE s = q /\ Wake(s)
  <2>1. queue' = queue /\ bucket = q /\ lock[q] = m /\ pc[q] = "wake" /\ p \in Procs
    BY <1>3, WaitersInside DEF Wake, Waiting, WaitersAccounted
  <2>2. lock[p] = m
    BY <1>3, <2>1 DEF Wake, Waiting, WaitersAccounted
  <2>3. popped[q] # NoProc
    BY <2>1, <2>2 DEF Waiting, WaitersAccounted
  <2>4. popped[q] \in Procs /\ lock[popped[q]] = m /\ popped[q] # q
    BY <2>1, <2>3 DEF Waiting, PoppedIsAlive
  <2>5. CASE pc[popped[q]] = "parked"
    BY <1>3, <2>1, <2>3, <2>4, <2>5 DEF Wake, WokenAt
  <2>6. CASE pc[popped[q]] # "parked"
    BY <1>3, <2>1, <2>3, <2>4, <2>6 DEF Wake, AfterWake
  <2> QED BY <2>5, <2>6
<1>4. CASE s = q /\ ~Wake(s)
  <2>1. ~Held(m) /\ lock[q] = m /\ pc[q] \in {"contend", "queue", "wake", "again"}
    BY DEF Held
  <2>2. ~Acquire(q) /\ ~Mark(q)
    BY <2>1 DEF Acquire, Grab, Grabbed, Mark
  <2>3. Enqueue(q) \/ PopAgain(q) \/ Request(q)
    BY <1>4, <2>1, <2>2
    DEF LockFast, TryLock, LockSlow, Contend, Release, CommitPark, LotRemove, Unlock,
        PopAndRelease, CancelWake, Unwind
  <2>4. CASE Enqueue(q)
    BY <2>1, <2>4 DEF Enqueue, Revalidated
  <2>5. CASE PopAgain(q) \/ Request(q)
    BY <2>1, <2>5 DEF PopAgain, Pop, Request
  <2> QED BY <2>3, <2>4, <2>5
<1> QED BY <1>1, <1>2, <1>3, <1>4

\* No step leaves a lock free with a parked waiter and nobody awake.
LEMMA StrandedStep ==
  Inductive /\ Exclusion' /\ Waiting' /\ [Next]_vars => NoStrandedWaiter'
<1> SUFFICES ASSUME Inductive, Exclusion', Waiting', [Next]_vars,
                    NEW m \in Locks, ~Held(m)',
                    NEW p \in Procs, pc'[p] = "parked", lock'[p] = m
             PROVE  \E q \in Procs : Awake(q, m)'
  BY DEF NoStrandedWaiter
<1> USE DEF Inductive, Exclusion, TypeOK
<1>1. CASE \E r \in Procs : popped'[r] = p
  BY <1>1, RawMutexAssumption DEF Waiting, WaitersAccounted, PoppedIsAlive, Awake
<1>2. CASE p \in Range(queue')
  <2>1. word'[m] = 2
    BY <1>2 DEF Waiting, QueuedIsCounted, Held
  <2>2. CASE UNCHANGED vars
    <3>1. pc[p] = "parked" /\ lock[p] = m /\ word[m] = 2
      BY <2>1, <2>2 DEF vars
    <3> QED BY <2>2, <3>1 DEF NoStrandedWaiter, Awake, Held, vars
  <2>3. ASSUME NEW s \in Procs, PopAndRelease(s), lock[s] = m PROVE Awake(s, m)'
    BY <2>3 DEF PopAndRelease, Pop, Goto, Awake
  <2>4. ASSUME NEW s \in Procs, ~(PopAndRelease(s) /\ lock[s] = m),
               \/ \E l \in Locks : LockFast(s, l) \/ TryLock(s, l) \/ LockSlow(s, l)
               \/ Contend(s) \/ Release(s)
               \/ Request(s) \/ CancelWake(s) \/ Unwind(s)
        PROVE  \E q \in Procs : Awake(q, m)'
    <3>1. word[m] = 2
      BY <2>1, <2>4
      DEF LockFast, TryLock, LockSlow, Contend, Release, Acquire, Mark, Marked, Enqueue,
          CommitPark, LotRemove, Unlock, PopAndRelease, PopAgain, Wake, Request, CancelWake,
          Unwind, Grab, Grabbed
    <3>2. lock[p] = m /\ pc[p] \in {"parking", "parked"}
      BY <2>4
      DEF LockFast, TryLock, LockSlow, Contend, Release, Acquire, Mark, Enqueue, CommitPark,
          LotRemove, Unlock, PopAndRelease, PopAgain, Pop, Wake, Request, CancelWake, Unwind,
          Grab, Goto, AfterWake, WokenAt
    <3>3. pc[p] = "parked"
      BY <3>1, <3>2 DEF Waiting, WaitersAccounted
    <3>4. NoStrandedWaiter /\ ~Held(m)
      BY <3>1 DEF Held
    <3>5. PICK q \in Procs : Awake(q, m)
      BY <3>2, <3>3, <3>4, Zenon DEF NoStrandedWaiter
    <3> QED BY <1>2, <2>1, <2>4, <3>1, <3>5, StaysAwake
  <2> QED BY <2>2, <2>3, <2>4 DEF Next
<1> QED BY <1>1, <1>2 DEF Waiting, WaitersAccounted

\* The conjunction of the parts above is inductive.
LEMMA InductiveInvariant == Spec => []Inductive
<1>1. Init => Inductive
  BY DEF Init, Inductive, Exclusion, TypeOK, PCs, MutualExclusion, WordAgrees, Owns, Held,
         Waiting, QueuedIsCounted, PoppedIsAlive, WaitersAccounted, Range, IsInjective,
         NoStrandedWaiter
<1>2. Inductive /\ [Next]_vars => Inductive'
  BY ExclusionStep, WaitingStep, StrandedStep DEF Inductive
<1> QED BY <1>1, <1>2, PTL DEF Spec

\* While a waiter is queued, the word of its lock has the queued bit: no unlock takes the fast
\* path past it.  And an unlock's popped waiter is alive until its wake.
THEOREM WaitersCounted == Spec => [](QueuedIsCounted /\ PoppedIsAlive /\ WaitersAccounted)
<1>1. Inductive => QueuedIsCounted /\ PoppedIsAlive /\ WaitersAccounted
  BY DEF Inductive, Waiting
<1> QED BY <1>1, InductiveInvariant, PTL

\* No release is lost: whenever a lock is free and somebody is parked on it, somebody is awake
\* to take it, however its waiters were cancelled and overtaken.
THEOREM NoneStranded == Spec => []NoStrandedWaiter
<1>1. Inductive => NoStrandedWaiter
  BY DEF Inductive
<1> QED BY <1>1, InductiveInvariant, PTL

-----------------------------------------------------------------------------
(* RawMutex implements Lock *)

\* The abstract owner of a lock is the process that owns it.
LEMMA OwnerIs ==
  ASSUME MutualExclusion, NEW m \in Locks
  PROVE  /\ \A p \in Procs : Owns(p, m) => owners[m] = p
         /\ \A p \in Procs : owners[m] = p => Owns(p, m)
         /\ (\A p \in Procs : ~Owns(p, m)) => owners[m] = NoProc
<1>1. CASE \E p \in Procs : Owns(p, m)
  <2>1. owners[m] \in Procs /\ Owns(owners[m], m)
    BY <1>1 DEF owners
  <2> QED BY <2>1 DEF MutualExclusion
<1>2. CASE \A p \in Procs : ~Owns(p, m)
  BY <1>2, RawMutexAssumption DEF owners
<1> QED BY <1>1, <1>2

\* The abstract owners are a function on the locks.
LEMMA OwnersFunction ==
  /\ owners  = [m \in Locks |-> owners[m]]
  /\ owners' = [m \in Locks |-> owners'[m]]
  BY DEF owners

\* A lock that nobody starts or stops owning keeps its abstract owner.
LEMMA SameOwner ==
  ASSUME NEW l \in Locks, \A q \in Procs : Owns(q, l)' <=> Owns(q, l)
  PROVE  owners'[l] = owners[l]
<1>1. (\E q \in Procs : Owns(q, l)') <=> (\E q \in Procs : Owns(q, l))
  OBVIOUS
<1>2. (CHOOSE q \in Procs : Owns(q, l)') = (CHOOSE q \in Procs : Owns(q, l))
  BY Zenon
<1> QED BY <1>1, <1>2 DEF owners

\* A cancelled waiter was asked to cancel.
CancelledAsked == \A p \in Procs : pc[p] = "cancelled" => cancel[p] = "requested"

Mapped == Exclusion /\ CancelledAsked

\* Every step keeps what the refinement mapping rests on.
LEMMA MappedStep == Mapped /\ [Next]_vars => Mapped'
<1> SUFFICES ASSUME Mapped, [Next]_vars PROVE CancelledAsked'
  BY ExclusionStep DEF Mapped
<1> USE DEF Mapped, Exclusion, TypeOK, CancelledAsked
<1>1. CASE UNCHANGED vars
  BY <1>1 DEF vars
<1>2. ASSUME NEW s \in Procs,
             \/ \E l \in Locks : LockFast(s, l) \/ TryLock(s, l) \/ LockSlow(s, l)
             \/ Contend(s) \/ Release(s)
             \/ Request(s) \/ CancelWake(s) \/ Unwind(s)
      PROVE  CancelledAsked'
  BY <1>2
  DEF LockFast, TryLock, LockSlow, Contend, Release, Acquire, Mark, Enqueue, CommitPark,
      LotRemove, Unlock, PopAndRelease, PopAgain, Pop, Wake, Request, CancelWake, Unwind,
      Grab, Goto, AfterWake, WokenAt
<1> QED BY <1>1, <1>2 DEF Next

\* The steps of the abstract lock, seen from the detailed one.
LEMMA TakeStep ==
  ASSUME Mapped, Mapped', NEW p \in Procs, NEW m \in Locks, Grab(p, m),
         lock' = [lock EXCEPT ![p] = m], UNCHANGED cancel,
         pc[p] = "out" \/ (pc[p] = "contend" /\ lock[p] = m)
  PROVE  Abstract!Take(p, m)
<1> USE DEF Mapped, Exclusion, TypeOK
<1>1. pc' = [pc EXCEPT ![p] = "held"] /\ \A q \in Procs : ~Owns(q, m)
  BY DEF Grab, Goto, WordAgrees
<1>2. owners[m] = NoProc
  BY <1>1, OwnerIs
<1>3. wants[p] = m \/ (wants[p] = NoLock /\ \A l \in Locks : owners[l] # p)
  BY OwnerIs DEF wants, Owns
<1>4. owners' = [owners EXCEPT ![m] = p]
  <2>1. owners'[m] = p
    BY <1>1, OwnerIs DEF Owns, owners, MutualExclusion
  <2>2. ASSUME NEW l \in Locks, l # m PROVE owners'[l] = owners[l]
    <3>1. \A q \in Procs : Owns(q, l)' <=> Owns(q, l)
      BY <1>1, <2>2 DEF Owns
    <3> QED BY <3>1, SameOwner
  <2> QED BY <2>1, <2>2, OwnersFunction
<1>5. wants' = [wants EXCEPT ![p] = NoLock]
  BY <1>1 DEF wants
<1> QED BY <1>2, <1>3, <1>4, <1>5 DEF Abstract!Take, Abstract!Idle

\* The release store is the abstract Drop.
LEMMA DropStep ==
  ASSUME Mapped, Mapped', NEW p \in Procs, NEW m \in Locks, Owns(p, m), UNCHANGED cancel,
         \/ pc' = [pc EXCEPT ![p] = "out"] /\ lock' = [lock EXCEPT ![p] = NoLock]
         \/ pc' = [pc EXCEPT ![p] = "wake"] /\ UNCHANGED lock
  PROVE  Abstract!Drop(p, m)
<1> USE DEF Mapped, Exclusion, TypeOK
<1>1. owners[m] = p
  BY OwnerIs
<1>2. owners' = [owners EXCEPT ![m] = NoProc]
  <2>1. owners'[m] = NoProc
    <3>1. \A q \in Procs : ~Owns(q, m)'
      BY RawMutexAssumption DEF Owns, MutualExclusion
    <3> QED BY <3>1 DEF owners
  <2>2. ASSUME NEW l \in Locks, l # m PROVE owners'[l] = owners[l]
    <3>1. \A q \in Procs : Owns(q, l)' <=> Owns(q, l)
      BY <2>2 DEF Owns
    <3> QED BY <3>1, SameOwner
  <2> QED BY <2>1, <2>2, OwnersFunction
<1>3. wants' = wants
  BY DEF wants, Owns
<1> QED BY <1>1, <1>2, <1>3 DEF Abstract!Drop

\* A step that moves no Owns moves no abstract owner.
LEMMA SameOwners ==
  ASSUME Mapped, \A q \in Procs, l \in Locks : Owns(q, l)' <=> Owns(q, l)
  PROVE  owners' = owners
  BY SameOwner, OwnersFunction

\* Every step of the lock is a step of the abstract one, or stutters.
LEMMA RefineStep ==
  Mapped /\ Mapped' /\ [Next]_vars => [Abstract!Next]_(Abstract!vars)
<1> SUFFICES ASSUME Mapped, Mapped', [Next]_vars
             PROVE  Abstract!Next \/ UNCHANGED <<owners, wants, cancel>>
  BY DEF Abstract!vars
<1> USE DEF Mapped, Exclusion, TypeOK, Goto
<1> DEFINE Steps == Abstract!Next \/ UNCHANGED <<owners, wants, cancel>>
<1>1. ASSUME NEW p \in Procs, NEW m \in Locks, LockFast(p, m) \/ TryLock(p, m) PROVE Steps
  <2>1. Abstract!Take(p, m)
    BY <1>1, TakeStep DEF LockFast, TryLock
  <2> QED BY <2>1 DEF Abstract!Next
<1>2. ASSUME NEW p \in Procs, NEW m \in Locks, LockSlow(p, m) PROVE Steps
  <2>1. owners' = owners
    BY <1>2, SameOwners DEF LockSlow, Owns
  <2>2. Abstract!Idle(p)
    BY <1>2, OwnerIs DEF LockSlow, wants, Owns, Abstract!Idle
  <2>3. wants' = [wants EXCEPT ![p] = m] /\ cancel' = cancel
    BY <1>2 DEF LockSlow, wants
  <2>4. Abstract!Ask(p, m)
    BY <2>1, <2>2, <2>3 DEF Abstract!Ask
  <2> QED BY <2>4 DEF Abstract!Next
<1>3. ASSUME NEW p \in Procs, Acquire(p) PROVE Steps
  <2>1. /\ lock[p] \in Locks /\ Grab(p, lock[p]) /\ pc[p] = "contend" /\ cancel' = cancel
        /\ lock' = [lock EXCEPT ![p] = lock[p]]
    BY <1>3, InsideNamesLock DEF Acquire
  <2>2. Abstract!Take(p, lock[p])
    BY <2>1, TakeStep
  <2> QED BY <2>1, <2>2 DEF Abstract!Next
<1>4. ASSUME NEW p \in Procs,
             Mark(p) \/ Enqueue(p) \/ CommitPark(p) \/ CancelWake(p) \/ PopAgain(p)
      PROVE  Steps
  <2>1. owners' = owners
    BY <1>4, SameOwners DEF Mark, Enqueue, CommitPark, CancelWake, PopAgain, Pop, Owns
  <2>2. wants' = wants /\ cancel' = cancel
    BY <1>4 DEF Mark, Enqueue, CommitPark, CancelWake, PopAgain, Pop, wants
  <2> QED BY <2>1, <2>2
<1>5. ASSUME NEW p \in Procs, LotRemove(p) PROVE Steps
  <2>1. owners' = owners
    BY <1>5, SameOwners DEF LotRemove, Owns
  <2>2. wants' = [wants EXCEPT ![p] = NoLock] /\ wants[p] # NoLock
    BY <1>5 DEF LotRemove, wants
  <2>3. cancel[p] = "requested" /\ cancel' = [cancel EXCEPT ![p] = "accepted"]
    BY <1>5 DEF LotRemove, CancelledAsked
  <2>4. Abstract!GiveUp(p)
    BY <2>1, <2>2, <2>3 DEF Abstract!GiveUp
  <2> QED BY <2>4 DEF Abstract!Next
<1>6. ASSUME NEW p \in Procs, Request(p) \/ Unwind(p) PROVE Steps
  <2>1. owners' = owners
    BY <1>6, SameOwners DEF Request, Unwind, Owns
  <2>2. wants' = wants
    BY <1>6 DEF Request, Unwind, wants
  <2>3. Unwind(p) => Abstract!Idle(p)
    BY OwnerIs DEF Unwind, wants, Owns, Abstract!Idle
  <2>4. Abstract!CancelChanges(p)
    BY <1>6, <2>1, <2>2, <2>3 DEF Request, Unwind, Abstract!CancelChanges
  <2> QED BY <2>4 DEF Abstract!Next
<1>7. ASSUME NEW p \in Procs, Unlock(p) PROVE Steps
  <2>1. lock[p] \in Locks /\ Owns(p, lock[p]) /\ cancel' = cancel
    BY <1>7, InsideNamesLock DEF Unlock, Owns
  <2>2. CASE word[lock[p]] = 1
    <3>1. Abstract!Drop(p, lock[p])
      BY <1>7, <2>1, <2>2, DropStep DEF Unlock
    <3> QED BY <2>1, <3>1 DEF Abstract!Next
  <2>3. CASE word[lock[p]] # 1
    <3>1. owners' = owners
      BY <1>7, <2>3, SameOwners DEF Unlock, Owns
    <3>2. wants' = wants
      BY <1>7, <2>3 DEF Unlock, wants
    <3> QED BY <2>1, <3>1, <3>2
  <2> QED BY <2>2, <2>3
<1>8. ASSUME NEW p \in Procs, PopAndRelease(p) PROVE Steps
  <2>1. /\ lock[p] \in Locks /\ Owns(p, lock[p]) /\ cancel' = cancel
        /\ pc' = [pc EXCEPT ![p] = "wake"] /\ lock' = lock
    BY <1>8, InsideNamesLock DEF PopAndRelease, Pop, Owns
  <2>2. Abstract!Drop(p, lock[p])
    BY <2>1, DropStep
  <2> QED BY <2>1, <2>2 DEF Abstract!Next
<1>9. ASSUME NEW p \in Procs, Wake(p) PROVE Steps
  <2>1. owners' = owners
    BY <1>9, SameOwners DEF Wake, AfterWake, WokenAt, Owns
  <2>2. wants' = wants /\ cancel' = cancel
    BY <1>9 DEF Wake, AfterWake, WokenAt, wants
  <2> QED BY <2>1, <2>2
<1>10. CASE UNCHANGED vars
  BY <1>10 DEF vars, owners, wants, Owns
<1> QED
  BY <1>1, <1>2, <1>3, <1>4, <1>5, <1>6, <1>7, <1>8, <1>9, <1>10 DEF Next, Contend, Release

\* The parking-lot mutex implements the lock its users see: one owner at a time, a waiter leaves
\* with the lock or with its own accepted cancellation, and only the owner gives a lock up.
THEOREM Refines == Spec => RefinesLock
<1>1. Init => Mapped /\ Abstract!Init
  BY DEF Init, Mapped, CancelledAsked, Exclusion, TypeOK, PCs, MutualExclusion, WordAgrees,
         Owns, Held, Abstract!Init, owners, wants
<1> QED BY <1>1, MappedStep, RefineStep, PTL DEF Spec, RefinesLock, Abstract!Spec
=============================================================================
