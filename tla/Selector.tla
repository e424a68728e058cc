------------------------------ MODULE Selector ------------------------------
(***************************************************************************)
(* A select of std/parallel/selector.spc: one wait on several channels.    *)
(* It looks at its arms one by one, then takes every lock in the order of  *)
(* addresses, looks again, queues a node per arm and waits once; the locks *)
(* are released by the hand-off when its context is saved, while a notify  *)
(* may already resume it.                                                  *)
(*                                                                         *)
(* Channels are their addresses.  An arm is a receive; a send arm is the   *)
(* same on the other queue of its channel.  Of a channel there is what a   *)
(* select sees: how many values it has, and whether it is closed.  Who is  *)
(* resumed by what is module Park's subject: the first waker wins.         *)
(***************************************************************************)
EXTENDS Integers, SequencesExt

CONSTANTS Channels,   \* integers: the addresses of their locks
          Selectors,  \* tasks and threads
          Receivers,  \* plain receivers on one channel
          Tasks,      \* the selectors that are coroutines: only these can be cancelled
          Lists,      \* the lists of arms: sequences of channels
          MaxItems,   \* the capacity of a channel
          None

SelectorAssumption ==
  /\ Channels \subseteq Int /\ None \notin Channels \cup Selectors
  /\ Tasks \subseteq Selectors /\ Selectors \cap Receivers = {}
  /\ \A l \in Lists : l # <<>> /\ ToSet(l) \subseteq Channels
  /\ MaxItems \in Nat \ {0}

Callers == Selectors \cup Receivers

VARIABLES
  items, closed,  \* of each channel
  lock,           \* which selector holds a channel's lock beyond one step
  queue,          \* the nodes on a channel's queue: <<process, its arm>>
  wait,           \* "none", "parked", or who ended it: "notify", "timeout", "cancel"
  pc,
  arms,           \* the channels a process waits on
  at,             \* where it is in a loop over its arms
  found,          \* the arms a look found ready
  woken,          \* Selector.woken; 0 for -1
  tail,           \* where the hand-off's unlock_all is; 0 when it is done
  mode, late,     \* "poll", "wait", "timed", and whose deadline has passed
  asked,          \* whose cancellation is requested
  by,             \* history: the channel whose notify ended the wait
  astray          \* history: a channel lost a notify to a selector that was told another arm

chanVars == <<items, closed, queue>>
callVars == <<arms, mode, late, asked>>
vars == <<chanVars, lock, wait, pc, callVars, at, found, woken, tail, by, astray>>

Init ==
  /\ items = [c \in Channels |-> 0] /\ closed = [c \in Channels |-> FALSE]
  /\ lock = [c \in Channels |-> None]
  /\ queue = [c \in Channels |-> <<>>]
  /\ wait = [p \in Callers |-> "none"] /\ pc = [p \in Callers |-> "out"]
  /\ arms = [p \in Callers |-> <<>>]
  /\ at = [s \in Selectors |-> 0] /\ found = [s \in Selectors |-> {}]
  /\ woken = [s \in Selectors |-> 0] /\ tail = [s \in Selectors |-> 0]
  /\ mode = [p \in Callers |-> "wait"] /\ late = {} /\ asked = {}
  /\ by = [p \in Callers |-> None]
  /\ astray = [c \in Channels |-> FALSE]

Goto(p, l) == pc' = [pc EXCEPT ![p] = l]
GotoAt(p, l, i) == Goto(p, l) /\ at' = [at EXCEPT ![p] = i]

\* What needs the lock for one step only.
Open(c) == lock[c] = None

\* recv_ready
Ready(c) == items[c] > 0 \/ closed[c]

TakeItem(c) ==
  /\ items' = [items EXCEPT ![c] = @ - 1]
  /\ astray' = [astray EXCEPT ![c] = @ /\ items[c] > 1]

\* The call is over: the frame is gone.
Leave(p) ==
  /\ Goto(p, "out")
  /\ arms' = [arms EXCEPT ![p] = <<>>] /\ by' = [by EXCEPT ![p] = None]
  /\ mode' = [mode EXCEPT ![p] = "wait"] /\ late' = late \ {p} /\ asked' = asked \ {p}

-----------------------------------------------------------------------------
(* The other side: notify_some and notify_all under the channel's lock *)

Awaited(c) == {i \in DOMAIN queue[c] : wait[queue[c][i][1]] = "parked"}

\* How many nodes notify_one pops: up to the first whose wait is open.
UpToOne(c) ==
  IF Awaited(c) = {} THEN Len(queue[c]) ELSE CHOOSE i \in Awaited(c) : \A j \in Awaited(c) : i <= j

\* k nodes are popped.  Each names its arm before it tries to wake, the ones that lose too.
\* A loser may have done so before the notify that won: then its name was written over.
Notify(c, k) ==
  LET q == queue[c]
      popped == {q[i][1] : i \in 1 .. k}
      won == {p \in popped : wait[p] = "parked"}
      lastArm(p) == q[CHOOSE i \in 1 .. k : q[i][1] = p /\ \A j \in i + 1 .. k : q[j][1] # p][2]
  IN  /\ queue' = [queue EXCEPT ![c] = SubSeq(q, k + 1, Len(q))]
      /\ wait' = [p \in Callers |-> IF p \in won THEN "notify" ELSE wait[p]]
      /\ by' = [p \in Callers |-> IF p \in won THEN c ELSE by[p]]
      /\ \E before \in SUBSET {p \in popped : wait[p] = "notify"} :
           woken' = [s \in Selectors |->
                      IF s \in popped \ before THEN lastArm(s) ELSE woken[s]]

\* Any sender, task or thread.
Send(c) ==
  /\ Open(c) /\ ~closed[c] /\ items[c] < MaxItems
  /\ items' = [items EXCEPT ![c] = @ + 1]
  /\ Notify(c, UpToOne(c))
  /\ UNCHANGED <<closed, lock, pc, callVars, at, found, tail, astray>>

Close(c) ==
  /\ Open(c) /\ ~closed[c]
  /\ closed' = [closed EXCEPT ![c] = TRUE]
  /\ Notify(c, Len(queue[c]))
  /\ UNCHANGED <<items, lock, pc, callVars, at, found, tail, astray>>

\* Somebody else's try_recv.
Steal(c) ==
  /\ Open(c) /\ items[c] > 0
  /\ TakeItem(c)
  /\ UNCHANGED <<closed, queue, lock, wait, pc, callVars, at, found, woken, tail, by>>

-----------------------------------------------------------------------------
(* recv on one channel *)

Recv(r, c) ==
  /\ r \in Receivers /\ pc[r] = "out"
  /\ Goto(r, "recv")
  /\ arms' = [arms EXCEPT ![r] = <<c>>]
  /\ UNCHANGED <<chanVars, lock, wait, mode, late, asked, at, found, woken, tail, by, astray>>

RecvStep(r) ==
  /\ pc[r] = "recv" /\ wait[r] # "parked" /\ Open(arms[r][1])
  /\ LET c == arms[r][1] IN
       IF Ready(c)
         THEN /\ IF items[c] > 0 THEN TakeItem(c) ELSE UNCHANGED <<items, astray>>
              /\ Leave(r)
              /\ wait' = [wait EXCEPT ![r] = "none"]
              /\ UNCHANGED queue
         ELSE /\ queue' = [queue EXCEPT ![c] = Append(@, <<r, 0>>)]
              /\ wait' = [wait EXCEPT ![r] = "parked"]
              /\ by' = [by EXCEPT ![r] = None]
              /\ UNCHANGED <<items, pc, callVars, astray>>
  /\ UNCHANGED <<closed, lock, at, found, woken, tail>>

-----------------------------------------------------------------------------
(* wait_deadline, poll: ready_now *)

Call(s, l, m) ==
  /\ pc[s] = "out" /\ tail[s] = 0
  /\ arms' = [arms EXCEPT ![s] = l]
  /\ mode' = [mode EXCEPT ![s] = m]
  /\ woken' = [woken EXCEPT ![s] = 0]
  /\ Goto(s, "hint")
  /\ UNCHANGED <<chanVars, lock, wait, late, asked, at, found, tail, by, astray>>

\* The arm a notify named is tried first.
Hint(s) ==
  /\ pc[s] = "hint"
  /\ woken' = [woken EXCEPT ![s] = 0]
  /\ found' = [found EXCEPT ![s] = {}]
  /\ IF woken[s] = 0 THEN GotoAt(s, "look", 1)
     ELSE /\ Open(arms[s][woken[s]])
          /\ IF Ready(arms[s][woken[s]]) THEN GotoAt(s, "ready", woken[s])
             ELSE GotoAt(s, "look", 1)
  /\ UNCHANGED <<chanVars, lock, wait, callVars, tail, by, astray>>

\* arm_ready of one arm after the other, each under its own lock; any of those found.
Look(s) ==
  /\ pc[s] = "look" /\ Open(arms[s][at[s]])
  /\ LET hits == found[s] \cup (IF Ready(arms[s][at[s]]) THEN {at[s]} ELSE {})
     IN  /\ found' = [found EXCEPT ![s] = IF at[s] < Len(arms[s]) THEN hits ELSE {}]
         /\ \/ at[s] < Len(arms[s]) /\ GotoAt(s, "look", at[s] + 1)
            \/ at[s] = Len(arms[s]) /\ hits = {} /\ GotoAt(s, "none", 0)
            \/ at[s] = Len(arms[s]) /\ \E i \in hits : GotoAt(s, "ready", i)
  /\ UNCHANGED <<chanVars, lock, wait, callVars, woken, tail, by, astray>>

\* Nothing was ready: poll and a deadline that has passed end here.
EndsUnready(s) ==
  /\ pc[s] = "none" /\ mode[s] \in {"poll", "timed"}
  /\ Leave(s)
  /\ UNCHANGED <<chanVars, lock, wait, at, found, woken, tail, astray>>

\* Ready(i): the caller performs the operation, which never waits.
TakeArm(s) ==
  /\ pc[s] = "ready" /\ Open(arms[s][at[s]])
  /\ IF items[arms[s][at[s]]] > 0 THEN TakeItem(arms[s][at[s]]) ELSE UNCHANGED <<items, astray>>
  /\ Leave(s)
  /\ at' = [at EXCEPT ![s] = 0]
  /\ UNCHANGED <<closed, queue, lock, wait, found, woken, tail>>

-----------------------------------------------------------------------------
(* block *)

\* The loop goes on to block.
Block(s) ==
  /\ pc[s] = "none" /\ mode[s] # "poll" /\ s \notin late
  /\ GotoAt(s, "lock", 1)
  /\ UNCHANGED <<chanVars, lock, wait, callVars, found, woken, tail, by, astray>>

\* Mutant of InOrder: the arms as they were given.
InOrder_Given(l) == [i \in DOMAIN l |-> i]

\* Selector.order: the arms by the address of their locks.
InOrder(l) ==
  SetToSortSeq(DOMAIN l, LAMBDA i, j : l[i] < l[j] \/ (l[i] = l[j] /\ i < j))

\* The channel of the k-th arm in that order, and whether its lock is the one before.
Kth(s, k) == arms[s][InOrder(arms[s])[k]]
Again(s, k) == k > 1 /\ Kth(s, k) = Kth(s, k - 1)

\* lock_all
LockNext(s) ==
  /\ pc[s] = "lock"
  /\ \/ Again(s, at[s]) /\ UNCHANGED lock
     \/ ~Again(s, at[s]) /\ Open(Kth(s, at[s])) /\ lock' = [lock EXCEPT ![Kth(s, at[s])] = s]
  /\ IF at[s] < Len(arms[s]) THEN GotoAt(s, "lock", at[s] + 1) ELSE GotoAt(s, "locked", 0)
  /\ UNCHANGED <<chanVars, wait, callVars, found, woken, tail, by, astray>>

\* Under all locks: something is ready now.
Unneeded(s) ==
  /\ pc[s] = "locked" /\ \E i \in DOMAIN arms[s] : Ready(arms[s][i])
  /\ Goto(s, "unlock")
  /\ tail' = [tail EXCEPT ![s] = 1]
  /\ UNCHANGED <<chanVars, lock, wait, callVars, at, found, woken, by, astray>>

\* A node on every arm's queue, and one wait.
Park(s) ==
  /\ pc[s] = "locked" /\ \A i \in DOMAIN arms[s] : ~Ready(arms[s][i])
  /\ queue' = [c \in Channels |-> queue[c] \o
       [k \in 1 .. Cardinality({i \in DOMAIN arms[s] : arms[s][i] = c}) |->
          <<s, SetToSortSeq({i \in DOMAIN arms[s] : arms[s][i] = c}, <)[k]>>]]
  /\ wait' = [wait EXCEPT ![s] = "parked"]
  /\ woken' = [woken EXCEPT ![s] = 0] /\ by' = [by EXCEPT ![s] = None]
  /\ tail' = [tail EXCEPT ![s] = 1]
  /\ Goto(s, "wait")
  /\ UNCHANGED <<items, closed, lock, callVars, at, found, astray>>

\* unlock_all, an arm at a time: by the selector that need not wait, by the hand-off of a
\* coroutine, or by a thread before it sleeps.  An arm whose lock was the last one's is skipped.
UnlockNext(s) ==
  /\ tail[s] > 0
  /\ lock' = IF Again(s, tail[s]) THEN lock ELSE [lock EXCEPT ![Kth(s, tail[s])] = None]
  /\ IF tail[s] < Len(arms[s]) THEN tail' = [tail EXCEPT ![s] = @ + 1] /\ UNCHANGED pc
     ELSE /\ tail' = [tail EXCEPT ![s] = 0]
          /\ IF pc[s] = "unlock" THEN Goto(s, "hint") ELSE UNCHANGED pc
  /\ UNCHANGED <<chanVars, wait, callVars, at, found, woken, by, astray>>

\* A coroutine's timer is armed before the hand-off unlocks, a thread's sleep comes after.
Expire(s) ==
  /\ wait[s] = "parked" /\ mode[s] = "timed" /\ (s \in Tasks \/ tail[s] = 0)
  /\ wait' = [wait EXCEPT ![s] = "timeout"]
  /\ late' = late \cup {s}
  /\ UNCHANGED <<chanVars, lock, pc, arms, mode, asked, at, found, woken, tail, by, astray>>

Request(s) ==
  /\ s \in Tasks /\ pc[s] # "out"
  /\ asked' = asked \cup {s}
  /\ UNCHANGED <<chanVars, lock, wait, pc, arms, mode, late, at, found, woken, tail, by, astray>>

\* A cancellation wins only a park that is published, after the hand-off.
CancelWake(s) ==
  /\ wait[s] = "parked" /\ s \in asked /\ tail[s] = 0
  /\ wait' = [wait EXCEPT ![s] = "cancel"]
  /\ UNCHANGED <<chanVars, lock, pc, callVars, at, found, woken, tail, by, astray>>

\* A coroutine may run again while the hand-off still unlocks.
Resume(s) ==
  /\ pc[s] = "wait" /\ wait[s] # "parked" /\ (s \in Tasks \/ tail[s] = 0)
  /\ GotoAt(s, "unregister", 1)
  /\ UNCHANGED <<chanVars, lock, wait, callVars, found, woken, tail, by, astray>>

\* A notify this wait consumed is never dropped for a request.
Accepts(s) == s \in asked /\ wait[s] # "notify"

\* The nodes are unlinked, each under its lock; after the last the wait is over.
Unregister(s) ==
  /\ pc[s] = "unregister" /\ Open(arms[s][at[s]])
  /\ queue' = [queue EXCEPT ![arms[s][at[s]]] = SelectSeq(@, LAMBDA n : n # <<s, at[s]>>)]
  /\ IF at[s] < Len(arms[s])
       THEN GotoAt(s, "unregister", at[s] + 1) /\ UNCHANGED <<wait, callVars, by, astray>>
       ELSE /\ at' = [at EXCEPT ![s] = 0]
            /\ wait' = [wait EXCEPT ![s] = "none"]
            /\ IF Accepts(s) THEN Leave(s) ELSE Goto(s, "hint") /\ UNCHANGED <<callVars, by>>
            /\ astray' = [c \in Channels |-> astray[c] \/
                           (c = by[s] /\ woken[s] # 0 /\ arms[s][woken[s]] # c)]
  /\ UNCHANGED <<items, closed, lock, found, woken, tail>>

Next ==
  \/ \E c \in Channels : Send(c) \/ Close(c) \/ Steal(c)
  \/ \E r \in Receivers : RecvStep(r) \/ \E c \in Channels : Recv(r, c)
  \/ \E s \in Selectors :
       \/ \E l \in Lists, m \in {"poll", "wait", "timed"} : Call(s, l, m)
       \/ Hint(s) \/ Look(s) \/ EndsUnready(s) \/ TakeArm(s)
       \/ Block(s) \/ LockNext(s) \/ Unneeded(s) \/ Park(s) \/ UnlockNext(s)
       \/ Expire(s) \/ Request(s) \/ CancelWake(s) \/ Resume(s) \/ Unregister(s)

Spec == Init /\ [][Next]_vars

-----------------------------------------------------------------------------
(* Properties *)

Sleepers(c) == {queue[c][i][1] : i \in Awaited(c)}

\* Each value beside a sleeper of its channel has a woken waiter of that channel on its way.
Spent(c) == Sleepers(c) # {} => items[c] <= Cardinality({p \in Callers : by[p] = c})

\* sync-and-channels.md: the notify that wins names its arm, and the consumed wake is never
\* lost.  Violated: a later notify that loses the wake writes its own arm over the winner's,
\* the selector settles on that one, and whoever was queued behind it sleeps beside a value.
NotifySpent == \A c \in Channels : Spent(c)

\* Nobody else sleeps beside a value, or on a closed channel: no value came between a
\* select's look and its park, and no wake went with a deadline or a cancellation.
NobodyForgotten ==
  \A c \in Channels :
    /\ ~astray[c] => Spent(c)
    /\ Sleepers(c) # {} => ~closed[c]

\* A select leaves no node and no lock behind.
NothingQueued ==
  \A s \in Selectors : pc[s] = "out" =>
    \A c \in Channels : lock[c] # s /\ \A i \in DOMAIN queue[c] : queue[c][i][1] # s

\* Two selects never wait for each other: each takes its locks in the one order there is.
NoLockCircle ==
  LET Wants(s, t) == pc[s] = "lock" /\ lock[Kth(s, at[s])] = t /\ ~Again(s, at[s])
  IN  ~\E s, t \in Selectors : s # t /\ Wants(s, t) /\ Wants(t, s)

\* The hand-off reads the selector, which is gone with the frame it is in: arm what a wait
\* needs, wait, act, and let it go.  Violated where the last lock is that of two arms: the
\* hand-off looks at the second arm after it has released the lock.
HandOffInFrame == \A s \in Selectors : tail[s] > 0 => pc[s] # "out"
=============================================================================
