------------------------------- MODULE Park -------------------------------
(***************************************************************************)
(* The park / wake / cancel protocol of the coroutine scheduler            *)
(* (std/parallel/runtime.spc).                                             *)
(*                                                                         *)
(* A coroutine block parks by opening a new park generation (park_begin),  *)
(* registering that generation with whoever may wake it, and switching out *)
(* (park_timed).  The worker it leaves runs the hand-off tail: it arms the *)
(* timer, releases the lock guarding the wait queue, publishes Parked and  *)
(* looks at the cancellation flag.  A notify, the timer and a canceller    *)
(* race for one claim per generation; the winner makes the block runnable  *)
(* and any worker may resume it, finish it and recycle it, all while the   *)
(* first worker is still inside its tail.                                  *)
(*                                                                         *)
(* The wait queues are sets here (their order is a client's business), the *)
(* clock is the freedom of an armed timer to expire, and both cancel wake  *)
(* reasons (WR_CANCEL, WR_SHUTDOWN) are "cancel".                          *)
(***************************************************************************)
EXTENDS Naturals, FiniteSets

CONSTANTS Blocks,    \* coroutine blocks, recycled from task to task
          Workers,   \* worker threads
          Queues,    \* wait queues, each with the lock that guards it
          Lot,       \* the parking-lot queue a contended lock acquisition waits on
          NoQueue,   \* the queue of a wait registered on no queue: a sleep or a yield
          NoBlock,   \* what an idle worker or canceller serves
          MaxGen,    \* bound: park generations a block may open
          MaxLife,   \* bound: tasks a block may host
          MaxLooks   \* the retry budget of cancel_nudge (64 in the code)

ASSUME ParkAssumption ==
  /\ Lot \in Queues
  /\ NoQueue \notin Queues
  /\ NoBlock \notin Blocks
  /\ IsFiniteSet(Workers)
  /\ MaxGen \in Nat /\ MaxLife \in Nat /\ MaxLooks \in Nat \ {0}

VARIABLES
  gen,       \* park_state, high bits: the current park generation
  claimed,   \* park_state, low bits: the reason that won it, or "none"
  phase,     \* park_phase: a generation and a PH_* phase
  canPark,   \* park_cancellable
  cur,       \* the wait in progress, in the task's frame
  outer,     \* the wait a re-lock interrupted: its frame is below `cur`'s
  cancel,    \* the CS_* cancellation state
  masked,    \* cmask # 0
  handoff,   \* hand-off tails in flight on the block
  life,      \* the registry slot's generation
  pc,        \* where the task's code is
  runq,      \* how many run-queue entries name the block
  wpc,       \* where each worker is
  wtask,     \* the block a worker runs or serves, with what its tail read
  timers,    \* the armed timer entries
  nodes,     \* the wait nodes on each queue
  held,      \* the queues whose lock a parking task took
  asker      \* one canceller: where it is, its key and what it read

taskVars == <<gen, claimed, phase, canPark, cur, outer, cancel, masked, handoff, life, pc>>
vars == <<gen, claimed, phase, canPark, cur, outer, cancel, masked, handoff, life, pc,
          runq, wpc, wtask, timers, nodes, held, asker>>

Gens    == 0 .. MaxGen
Reasons == {"none", "notify", "timeout", "cancel"}
Phases  == {"not_parking", "preparing", "switching", "parked", "resuming"}

TaskPCs == {"free",      \* no task: the block is in the pool
            "ready",     \* spawned, never run
            "run",       \* in user code
            "opened",    \* park_begin stored the new generation
            "prepared",  \* park_begin done, the wait node is queued
            "switching", \* park_timed published Switching; the context is not saved
            "saved",     \* off its worker, waiting for a wake
            "yielded",   \* off its worker, requeued
            "resumed",   \* back, timer and node still registered
            "disarmed",  \* timer dropped, node still registered
            "done"}      \* the body returned

TailPCs == {"arm", "commit", "publish", "check", "can", "claim", "end"}
WorkerPCs == {"idle", "run", "settle", "retire"} \cup TailPCs

Waits == [q : Queues \cup {NoQueue}, tok : Gens, timed : BOOLEAN,
          wants : BOOLEAN, yields : BOOLEAN, reason : Reasons]
NoWait == [q |-> NoQueue, tok |-> 0, timed |-> FALSE, wants |-> FALSE,
           yields |-> FALSE, reason |-> "none"]

NoTask == [b |-> NoBlock, tok |-> 0, q |-> NoQueue, life |-> 0]
NoRequest == [pc |-> "idle", b |-> NoBlock, life |-> 0, tok |-> 0, looks |-> 0]

Entry(b, g) == [b |-> b, tok |-> g]

-----------------------------------------------------------------------------
(* claim, enqueue_runnable *)

\* Mutant of Claimable: the token is compared without its reason bits.
Claimable_Won(b, g) == gen[b] = g

\* The compare-and-swap of `claim` succeeds: generation g of b is current and unclaimed.
Claimable(b, g) == gen[b] = g /\ claimed[b] = "none"

\* wake_as: claim generation g of b and, if won, make b runnable.
WakeAs(b, g, reason) ==
  IF Claimable(b, g)
    THEN /\ claimed' = [claimed EXCEPT ![b] = reason]
         /\ runq' = [runq EXCEPT ![b] = @ + 1]
    ELSE UNCHANGED <<claimed, runq>>

\* Worker w goes back to its queues.
GoIdle(w) ==
  /\ wpc' = [wpc EXCEPT ![w] = "idle"]
  /\ wtask' = [wtask EXCEPT ![w] = NoTask]

\* b is executing on worker w at program point p.
On(w, b, p) == wpc[w] = "run" /\ wtask[w].b = b /\ pc[b] = p

-----------------------------------------------------------------------------
(* Spawning, running and completing a task *)

SlotLocked(b) == asker.b = b /\ asker.pc \in {"look", "phase", "can", "force"}

\* spawn_coroutine_env on a pooled block: the slot generation moves under the slot lock,
\* the park generation deliberately does not restart.
Spawn(b) ==
  /\ pc[b] = "free" /\ life[b] < MaxLife /\ ~SlotLocked(b)
  /\ life' = [life EXCEPT ![b] = @ + 1]
  /\ pc' = [pc EXCEPT ![b] = "ready"]
  /\ phase' = [phase EXCEPT ![b] = [tok |-> gen[b], ph |-> "not_parking"]]
  /\ canPark' = [canPark EXCEPT ![b] = FALSE]
  /\ cancel' = [cancel EXCEPT ![b] = "none"]
  /\ masked' = [masked EXCEPT ![b] = FALSE]
  /\ handoff' = [handoff EXCEPT ![b] = 0]
  /\ cur' = [cur EXCEPT ![b] = NoWait]
  /\ outer' = [outer EXCEPT ![b] = NoWait]
  /\ runq' = [runq EXCEPT ![b] = @ + 1]
  /\ UNCHANGED <<gen, claimed, wpc, wtask, timers, nodes, held, asker>>

\* worker_main takes a runnable block.
Takes(w, b) ==
  /\ wpc[w] = "idle" /\ runq[b] > 0
  /\ runq' = [runq EXCEPT ![b] = @ - 1]
  /\ wpc' = [wpc EXCEPT ![w] = "run"]
  /\ wtask' = [wtask EXCEPT ![w] = [b |-> b, tok |-> 0, q |-> NoQueue, life |-> life[b]]]
  /\ UNCHANGED <<gen, claimed, outer, cancel, masked, handoff, life, timers, nodes, held, asker>>

\* A task starts.
Starts(b) ==
  /\ pc[b] = "ready"
  /\ pc' = [pc EXCEPT ![b] = "run"]
  /\ UNCHANGED <<phase, canPark, cur>>

\* yield_now returns: a yield is not a park.
Continues(b) ==
  /\ pc[b] = "yielded"
  /\ pc' = [pc EXCEPT ![b] = "run"]
  /\ phase' = [phase EXCEPT ![b] = [tok |-> cur[b].tok, ph |-> "not_parking"]]
  /\ cur' = [cur EXCEPT ![b] = NoWait]
  /\ UNCHANGED canPark

\* park_timed returns the winning reason.
Resumes(b) ==
  /\ pc[b] = "saved"
  /\ pc' = [pc EXCEPT ![b] = IF cur[b].timed THEN "resumed" ELSE "disarmed"]
  /\ phase' = [phase EXCEPT ![b] = [tok |-> cur[b].tok, ph |-> "resuming"]]
  /\ canPark' = [canPark EXCEPT ![b] = FALSE]
  /\ cur' = [cur EXCEPT ![b].reason = claimed[b]]

Run(w, b) == Takes(w, b) /\ (Starts(b) \/ Continues(b) \/ Resumes(b))

\* coroutine_start: the body returned and the block switches back to its worker.
Return(w, b) ==
  /\ On(w, b, "run")
  /\ pc' = [pc EXCEPT ![b] = "done"]
  /\ wpc' = [wpc EXCEPT ![w] = "settle"]
  /\ UNCHANGED <<gen, claimed, phase, canPark, cur, outer, cancel, masked, handoff, life,
                 runq, wtask, timers, nodes, held, asker>>

TailsOver(b) == handoff[b] = 0

\* The completion waits for every hand-off tail, then settles an accepted cancellation.
Settle(w, b) ==
  /\ wpc[w] = "settle" /\ wtask[w].b = b /\ TailsOver(b)
  /\ cancel' = [cancel EXCEPT ![b] = IF @ = "accepted" THEN "finished" ELSE @]
  /\ wpc' = [wpc EXCEPT ![w] = "retire"]
  /\ UNCHANGED <<gen, claimed, phase, canPark, cur, outer, masked, handoff, life, pc,
                 runq, wtask, timers, nodes, held, asker>>

\* TS_COMPLETED, then free_coroutine gives the block to the pool.
Retire(w, b) ==
  /\ wpc[w] = "retire" /\ wtask[w].b = b
  /\ pc' = [pc EXCEPT ![b] = "free"]
  /\ GoIdle(w)
  /\ UNCHANGED <<gen, claimed, phase, canPark, cur, outer, cancel, masked, handoff, life,
                 runq, timers, nodes, held, asker>>

-----------------------------------------------------------------------------
(* Parking: the task's side *)

\* Mutant of TakeLock: the waiter registers without the queue's lock.
TakeLock_Unlocked(q) == UNCHANGED held

TakeLock(q) ==
  /\ q \notin held
  /\ held' = held \cup ({q} \ {NoQueue})

\* The first store of park_begin, under the lock of the queue the wait uses.
OpenPark(w, b, wait) ==
  /\ gen[b] < MaxGen
  /\ TakeLock(wait.q)
  /\ gen' = [gen EXCEPT ![b] = @ + 1]
  /\ claimed' = [claimed EXCEPT ![b] = "none"]
  /\ cur' = [cur EXCEPT ![b] = [wait EXCEPT !.tok = gen[b] + 1]]
  /\ pc' = [pc EXCEPT ![b] = "opened"]
  /\ UNCHANGED <<phase, canPark, cancel, masked, handoff, life, runq, wpc, wtask,
                 timers, nodes, asker>>

\* A wait on a queue (Condvar.wait_raw, or a lock acquisition on the parking lot).
BeginWait(w, b) ==
  \E q \in Queues, t, c \in BOOLEAN :
    /\ On(w, b, "run")
    /\ q = Lot => ~t          \* a lock acquisition has no deadline
    /\ OpenPark(w, b, [NoWait EXCEPT !.q = q, !.timed = t, !.wants = c])
    /\ UNCHANGED outer

\* sleep_ns: on no queue; the timer and a cancel are the only wakers.
BeginSleep(w, b) ==
  /\ On(w, b, "run")
  /\ OpenPark(w, b, [NoWait EXCEPT !.timed = TRUE, !.wants = TRUE])
  /\ UNCHANGED outer

\* yield_now: retire the current token, then requeue.
BeginYield(w, b) ==
  /\ On(w, b, "run")
  /\ OpenPark(w, b, [NoWait EXCEPT !.yields = TRUE])
  /\ UNCHANGED outer

\* Condvar.wait_raw re-takes its lock and finds somebody holding it: it parks again,
\* uncancellable, while the node of the outer wait is still queued.
BeginRelock(w, b) ==
  /\ On(w, b, "disarmed") /\ outer[b] = NoWait /\ cur[b].q \in Queues \ {Lot}
  /\ outer' = [outer EXCEPT ![b] = cur[b]]
  /\ OpenPark(w, b, [NoWait EXCEPT !.q = Lot])

\* The second store of park_begin, then the wait node goes on its queue.
PreparePark(w, b) ==
  /\ On(w, b, "opened")
  /\ phase' = [phase EXCEPT ![b] = [tok |-> gen[b], ph |-> "preparing"]]
  /\ nodes' = [q \in Queues |->
                 IF q = cur[b].q THEN nodes[q] \cup {Entry(b, gen[b])} ELSE nodes[q]]
  /\ pc' = [pc EXCEPT ![b] = "prepared"]
  /\ UNCHANGED <<gen, claimed, canPark, cur, outer, cancel, masked, handoff, life, runq,
                 wpc, wtask, timers, held, asker>>

Cancellable(b) == cur[b].wants /\ ~masked[b] /\ cancel[b] # "accepted"

\* park_timed up to the context switch: is this park cancellable, then Switching.
SwitchPark(w, b) ==
  /\ On(w, b, "prepared") /\ ~cur[b].yields
  /\ canPark' = [canPark EXCEPT ![b] = Cancellable(b)]
  /\ phase' = [phase EXCEPT ![b] = [tok |-> cur[b].tok, ph |-> "switching"]]
  /\ pc' = [pc EXCEPT ![b] = "switching"]
  /\ UNCHANGED <<gen, claimed, cur, outer, cancel, masked, handoff, life, runq, wpc, wtask,
                 timers, nodes, held, asker>>

Counted(n) == n + 1

\* The context is saved; the worker reads the hand-off and counts its tail.
SwitchOut(w, b) ==
  /\ On(w, b, "switching")
  /\ pc' = [pc EXCEPT ![b] = "saved"]
  /\ handoff' = [handoff EXCEPT ![b] = Counted(@)]
  /\ wtask' = [wtask EXCEPT ![w].tok = cur[b].tok, ![w].q = cur[b].q]
  /\ wpc' = [wpc EXCEPT ![w] = IF cur[b].timed THEN "arm" ELSE "commit"]
  /\ UNCHANGED <<gen, claimed, phase, canPark, cur, outer, cancel, masked, life, runq,
                 timers, nodes, held, asker>>

\* A yield switches out and the worker requeues it: no hand-off, no claim.
SwitchYield(w, b) ==
  /\ On(w, b, "prepared") /\ cur[b].yields
  /\ pc' = [pc EXCEPT ![b] = "yielded"]
  /\ runq' = [runq EXCEPT ![b] = @ + 1]
  /\ GoIdle(w)
  /\ UNCHANGED <<gen, claimed, phase, canPark, cur, outer, cancel, masked, handoff, life,
                 timers, nodes, held, asker>>

Disarmed(b) == {e \in timers : e.b # b}

\* cancel_timer, before anything that could park again.
Disarm(w, b) ==
  /\ On(w, b, "resumed")
  /\ timers' = Disarmed(b)
  /\ pc' = [pc EXCEPT ![b] = "disarmed"]
  /\ UNCHANGED <<gen, claimed, phase, canPark, cur, outer, cancel, masked, handoff, life,
                 runq, wpc, wtask, nodes, held, asker>>

\* A finished wait accepts a pending request unless it consumed a notify, which its caller
\* must be allowed to spend (Condvar.wait, raw_mutex_lock_c, cancel_after_wait).
Accepts(b, wait) ==
  /\ wait.wants /\ ~masked[b] /\ cancel[b] = "requested"
  /\ wait.q = NoQueue \/ wait.reason # "notify"

\* Mutant of Unlinked: the node stays on the queue.
Unlinked_Left(b, wait) == nodes

Unlinked(b, wait) ==
  [q \in Queues |-> IF q = wait.q THEN nodes[q] \ {Entry(b, wait.tok)} ELSE nodes[q]]

\* Re-take the queue's lock, unlink the node, park_done, and settle the cancellation.  A
\* notified lock waiter needs no lock, its node was popped.  A finished re-lock returns into
\* the wait it interrupted.
FinishWait(w, b) ==
  /\ On(w, b, "disarmed")
  /\ cur[b].q \notin held \/ (cur[b].q = Lot /\ cur[b].reason = "notify")
  /\ nodes' = Unlinked(b, cur[b])
  /\ phase' = [phase EXCEPT ![b] = [tok |-> gen[b], ph |-> "not_parking"]]
  /\ cancel' = [cancel EXCEPT ![b] = IF Accepts(b, cur[b]) THEN "accepted" ELSE @]
  /\ cur' = [cur EXCEPT ![b] = outer[b]]
  /\ outer' = [outer EXCEPT ![b] = NoWait]
  /\ pc' = [pc EXCEPT ![b] = IF outer[b] = NoWait THEN "run" ELSE "disarmed"]
  /\ UNCHANGED <<gen, claimed, canPark, masked, handoff, life, runq, wpc, wtask, timers,
                 held, asker>>

\* cancel_mask_enter, cancel_mask_exit
ToggleMask(w, b) ==
  /\ On(w, b, "run")
  /\ masked' = [masked EXCEPT ![b] = ~@]
  /\ UNCHANGED <<gen, claimed, phase, canPark, cur, outer, cancel, handoff, life, pc, runq,
                 wpc, wtask, timers, nodes, held, asker>>

\* cancel_point
CancelPoint(w, b) ==
  /\ On(w, b, "run") /\ ~masked[b] /\ cancel[b] = "requested"
  /\ cancel' = [cancel EXCEPT ![b] = "accepted"]
  /\ UNCHANGED <<gen, claimed, phase, canPark, cur, outer, masked, handoff, life, pc, runq,
                 wpc, wtask, timers, nodes, held, asker>>

-----------------------------------------------------------------------------
(* Parking: the hand-off tail on the worker the task left *)

\* Worker w's tail is at step p for block b.
InTail(w, b, p) == wpc[w] = p /\ wtask[w].b = b

TailArm(w, b) ==
  /\ InTail(w, b, "arm")
  /\ timers' = timers \cup {Entry(b, wtask[w].tok)}
  /\ wpc' = [wpc EXCEPT ![w] = "commit"]
  /\ UNCHANGED <<taskVars, runq, wtask, nodes, held, asker>>

TailCommit(w, b) ==
  /\ InTail(w, b, "commit")
  /\ held' = held \ {wtask[w].q}
  /\ wpc' = [wpc EXCEPT ![w] = "publish"]
  /\ UNCHANGED <<taskVars, runq, wtask, timers, nodes, asker>>

\* The tagged compare-and-swap to Parked fails if the task has already moved on.
TailPublish(w, b) ==
  /\ InTail(w, b, "publish")
  /\ LET t == wtask[w].tok IN
       IF phase[b] = [tok |-> t, ph |-> "switching"]
         THEN /\ phase' = [phase EXCEPT ![b] = [tok |-> t, ph |-> "parked"]]
              /\ wpc' = [wpc EXCEPT ![w] = "check"]
         ELSE /\ wpc' = [wpc EXCEPT ![w] = "end"]
              /\ UNCHANGED phase
  /\ UNCHANGED <<gen, claimed, canPark, cur, outer, cancel, masked, handoff, life, pc, runq,
                 wtask, timers, nodes, held, asker>>

\* Mutant of AfterPublish: the flag is read only before the publication.
AfterPublish_Over(b) == "end"

AfterPublish(b) == IF cancel[b] = "requested" THEN "can" ELSE "end"

\* The cancellation flag is read after the publication, the cancellable flag after that.
TailCheck(w, b) ==
  /\ InTail(w, b, "check")
  /\ wpc' = [wpc EXCEPT ![w] = AfterPublish(b)]
  /\ UNCHANGED <<taskVars, runq, wtask, timers, nodes, held, asker>>

TailCan(w, b) ==
  /\ InTail(w, b, "can")
  /\ wpc' = [wpc EXCEPT ![w] = IF canPark[b] THEN "claim" ELSE "end"]
  /\ UNCHANGED <<taskVars, runq, wtask, timers, nodes, held, asker>>

TailClaim(w, b) ==
  /\ InTail(w, b, "claim")
  /\ WakeAs(b, wtask[w].tok, "cancel")
  /\ wpc' = [wpc EXCEPT ![w] = "end"]
  /\ UNCHANGED <<gen, phase, canPark, cur, outer, cancel, masked, handoff, life, pc, wtask,
                 timers, nodes, held, asker>>

TailEnd(w, b) ==
  /\ InTail(w, b, "end")
  /\ handoff' = [handoff EXCEPT ![b] = @ - 1]
  /\ GoIdle(w)
  /\ UNCHANGED <<gen, claimed, phase, canPark, cur, outer, cancel, masked, life, pc, runq,
                 timers, nodes, held, asker>>

-----------------------------------------------------------------------------
(* The wakers *)

\* A notify pops a node and spends its wake on it, under the queue's lock.  A lost claim
\* passes the wake on: another Notify.
Notify(q) ==
  \E n \in nodes[q] :
    /\ q \notin held
    /\ nodes' = [nodes EXCEPT ![q] = @ \ {n}]
    /\ WakeAs(n.b, n.tok, "notify")
    /\ UNCHANGED <<gen, phase, canPark, cur, outer, cancel, masked, handoff, life, pc, wpc,
                   wtask, timers, held, asker>>

\* promote_expired: a due entry leaves the heap whether or not its claim wins.
Expire ==
  \E e \in timers :
    /\ timers' = timers \ {e}
    /\ WakeAs(e.b, e.tok, "timeout")
    /\ UNCHANGED <<gen, phase, canPark, cur, outer, cancel, masked, handoff, life, pc, wpc,
                   wtask, nodes, held, asker>>

-----------------------------------------------------------------------------
(* The canceller: request_cancel on a key, then cancel_nudge *)

askerUnchanged == UNCHANGED <<gen, phase, canPark, cur, outer, masked, handoff, life, pc,
                              wpc, wtask, timers, nodes, held>>

\* Somebody captured the key of a live task (task_snapshot, bind_current).
TakeKey(b) ==
  /\ asker.pc = "idle" /\ pc[b] # "free"
  /\ asker' = [pc |-> "key", b |-> b, life |-> life[b], tok |-> 0, looks |-> 0]
  /\ UNCHANGED <<claimed, cancel, runq>> /\ askerUnchanged

\* Mutant of KeyIsLive: the slot's generation is not compared.
KeyIsLive_AnyLife(b) == pc[b] # "free"

KeyIsLive(b) == life[b] = asker.life /\ pc[b] # "free"

\* Under the slot lock: a stale key or a completed task is not live; the first request wins.
RequestCancel(b) ==
  /\ asker.pc = "key" /\ asker.b = b
  /\ IF KeyIsLive(b) /\ cancel[b] = "none"
       THEN /\ cancel' = [cancel EXCEPT ![b] = "requested"]
            /\ asker' = [asker EXCEPT !.pc = "look"]
       ELSE /\ asker' = NoRequest
            /\ UNCHANGED cancel
  /\ UNCHANGED <<claimed, runq>> /\ askerUnchanged

\* Read park_state; a park with a winner needs nothing more.
NudgeState(b) ==
  /\ asker.pc = "look" /\ asker.b = b
  /\ asker' = IF asker.looks < MaxLooks /\ claimed[b] = "none"
                THEN [asker EXCEPT !.pc = "phase", !.tok = gen[b], !.looks = @ + 1]
                ELSE NoRequest
  /\ UNCHANGED <<claimed, cancel, runq>> /\ askerUnchanged

\* Read park_phase: a transition is worth another look, a task that is not parked sees the
\* flag by itself.
NudgePhase(b) ==
  /\ asker.pc = "phase" /\ asker.b = b
  /\ asker' = CASE phase[b] = [tok |-> asker.tok, ph |-> "parked"] ->
                     [asker EXCEPT !.pc = "can"]
                [] phase[b].tok # asker.tok -> [asker EXCEPT !.pc = "look"]
                [] OTHER -> NoRequest
  /\ UNCHANGED <<claimed, cancel, runq>> /\ askerUnchanged

\* Read park_cancellable: a masked or non-cancellable wait is never forced.
NudgeCan(b) ==
  /\ asker.pc = "can" /\ asker.b = b
  /\ asker' = IF canPark[b] THEN [asker EXCEPT !.pc = "force"] ELSE NoRequest
  /\ UNCHANGED <<claimed, cancel, runq>> /\ askerUnchanged

NudgeForce(b) ==
  /\ asker.pc = "force" /\ asker.b = b
  /\ asker' = IF Claimable(b, asker.tok) THEN NoRequest ELSE [asker EXCEPT !.pc = "look"]
  /\ WakeAs(b, asker.tok, "cancel")
  /\ UNCHANGED cancel /\ askerUnchanged

-----------------------------------------------------------------------------
Init ==
  /\ gen = [b \in Blocks |-> 0]
  /\ claimed = [b \in Blocks |-> "none"]
  /\ phase = [b \in Blocks |-> [tok |-> 0, ph |-> "not_parking"]]
  /\ canPark = [b \in Blocks |-> FALSE]
  /\ cur = [b \in Blocks |-> NoWait]
  /\ outer = [b \in Blocks |-> NoWait]
  /\ cancel = [b \in Blocks |-> "none"]
  /\ masked = [b \in Blocks |-> FALSE]
  /\ handoff = [b \in Blocks |-> 0]
  /\ life = [b \in Blocks |-> 0]
  /\ pc = [b \in Blocks |-> "free"]
  /\ runq = [b \in Blocks |-> 0]
  /\ wpc = [w \in Workers |-> "idle"]
  /\ wtask = [w \in Workers |-> NoTask]
  /\ timers = {}
  /\ nodes = [q \in Queues |-> {}]
  /\ held = {}
  /\ asker = NoRequest

TaskStep(w, b) ==
  \/ BeginWait(w, b) \/ BeginSleep(w, b) \/ BeginYield(w, b) \/ BeginRelock(w, b)
  \/ PreparePark(w, b) \/ SwitchPark(w, b) \/ SwitchOut(w, b) \/ SwitchYield(w, b)
  \/ Disarm(w, b) \/ FinishWait(w, b) \/ ToggleMask(w, b) \/ CancelPoint(w, b)
  \/ Return(w, b)

TailStep(w, b) ==
  \/ TailArm(w, b) \/ TailCommit(w, b) \/ TailPublish(w, b) \/ TailCheck(w, b)
  \/ TailCan(w, b) \/ TailClaim(w, b) \/ TailEnd(w, b)

WorkerStep(w, b) == Run(w, b) \/ Settle(w, b) \/ Retire(w, b) \/ TailStep(w, b)

CancelStep(b) ==
  RequestCancel(b) \/ NudgeState(b) \/ NudgePhase(b) \/ NudgeCan(b) \/ NudgeForce(b)

\* Every task has run to its end: the pool may stay quiet for ever.
Quiescent ==
  /\ \A b \in Blocks : pc[b] = "free"
  /\ UNCHANGED vars

Next ==
  \/ \E b \in Blocks : Spawn(b) \/ TakeKey(b) \/ CancelStep(b)
  \/ \E w \in Workers, b \in Blocks : TaskStep(w, b) \/ WorkerStep(w, b)
  \/ \E q \in Queues : Notify(q)
  \/ Expire
  \/ Quiescent

Spec == Init /\ [][Next]_vars

\* What the threads promise: a hand-off tail runs on, a runnable block is taken while a
\* worker is idle, a canceller finishes its nudge.  Nothing is promised of user code, of a
\* notify or of the clock.
Fairness ==
  /\ \A w \in Workers : WF_vars(\E b \in Blocks : TailStep(w, b))
  /\ WF_vars(\E w \in Workers, b \in Blocks : Run(w, b))
  /\ WF_vars(\E b \in Blocks : CancelStep(b))

FairSpec == Spec /\ Fairness

-----------------------------------------------------------------------------
(* Properties *)

AskerPCs == {"idle", "key", "look", "phase", "can", "force"}

\* The type invariant.
TypeOK ==
  /\ gen \in [Blocks -> Gens]
  /\ claimed \in [Blocks -> Reasons]
  /\ phase \in [Blocks -> [tok : Gens, ph : Phases]]
  /\ canPark \in [Blocks -> BOOLEAN]
  /\ cur \in [Blocks -> Waits] /\ outer \in [Blocks -> Waits]
  /\ cancel \in [Blocks -> {"none", "requested", "accepted", "finished"}]
  /\ masked \in [Blocks -> BOOLEAN]
  /\ handoff \in [Blocks -> 0 .. Cardinality(Workers)]
  /\ life \in [Blocks -> 0 .. MaxLife]
  /\ pc \in [Blocks -> TaskPCs]
  /\ runq \in [Blocks -> 0 .. 1]
  /\ wpc \in [Workers -> WorkerPCs]
  /\ wtask \in [Workers -> [b : Blocks \cup {NoBlock}, tok : Gens, q : Queues \cup {NoQueue}, life : 0 .. MaxLife]]
  /\ timers \subseteq [b : Blocks, tok : Gens]
  /\ nodes \in [Queues -> SUBSET [b : Blocks, tok : Gens]]
  /\ held \subseteq Queues
  /\ asker \in [pc : AskerPCs, b : Blocks \cup {NoBlock}, life : 0 .. MaxLife,
                tok : Gens, looks : 0 .. MaxLooks]

\* The worker holds block b as the task it executes or completes.
Executes(w, b) == wpc[w] \in {"run", "settle", "retire"} /\ wtask[w].b = b

\* A block is in one place: queued once to run, or executed by one worker, or parked, or in
\* the pool.  Two claims of one park would queue it twice and two workers would run one stack.
OneOwner == \A b \in Blocks :
  LET owners == {w \in Workers : Executes(w, b)} IN
    /\ runq[b] + Cardinality(owners) <= 1
    /\ pc[b] = "free" => runq[b] = 0 /\ owners = {}

\* A block is queued to run only when a worker can switch into it: its context is saved (or
\* it has never run), however early its waker came.
SavedBeforeRunnable == \A b \in Blocks :
  runq[b] > 0 => pc[b] \in {"ready", "saved", "yielded"}

\* A hand-off tail never outlives the task it serves: while a worker is inside one, the
\* block is not back in the pool and hosts no later task.
TailHoldsBlock == \A w \in Workers :
  wpc[w] \in TailPCs => /\ pc[wtask[w].b] # "free"
                        /\ life[wtask[w].b] = wtask[w].life

\* A wait node lives in the frame of the wait that queued it: it never outlives that wait,
\* whoever ended it and however often the task parked again on its way out.
NodeInLiveFrame == \A q \in Queues : \A n \in nodes[q] :
  /\ pc[n.b] \in {"prepared", "switching", "saved", "resumed", "disarmed", "opened"}
  /\ \E wait \in {cur[n.b], outer[n.b]} : wait.q = q /\ wait.tok = n.tok

\* An armed timer belongs to the wait its block is in: a stale entry would end a later one.
TimerOfThisWait == \A e \in timers :
  /\ pc[e.b] \in {"saved", "resumed"}
  /\ cur[e.b].timed /\ cur[e.b].tok = e.tok

\* What a wait leaves behind with others, a hand-off tail, a queued node or a timer, never
\* outlives it: none of them reaches the block's next wait or its next task.
NothingOutlivesItsWait == TailHoldsBlock /\ NodeInLiveFrame /\ TimerOfThisWait

\* A cancel wake is never forced on a wait that did not opt in, on a masked task, or on a
\* task in cleanup.
CancelWakeAllowed == \A b \in Blocks :
  (pc[b] \in {"saved", "resumed", "disarmed"} /\ cur[b].reason = "none" /\ claimed[b] = "cancel")
    => cur[b].wants /\ ~masked[b] /\ cancel[b] = "requested"

\* A request is never lost to the hand-off window: once the flag is up and a cancellable
\* park is published and unclaimed, somebody is still on its way to claim it.
RequestNotLost == \A b \in Blocks :
  LET g == gen[b] IN
    (cancel[b] = "requested" /\ canPark[b] /\ phase[b] = [tok |-> g, ph |-> "parked"]
     /\ claimed[b] = "none")
      => \/ \E w \in Workers : /\ wpc[w] \in {"check", "can", "claim"}
                                /\ wtask[w].b = b /\ wtask[w].tok = g
         \/ SlotLocked(b) /\ (asker.pc = "look" => asker.looks < MaxLooks)

\* A cancellation reaches the task its key names, never a later task of the same block.
CancelHitsItsTask ==
  [][\A b \in Blocks : (cancel[b] = "none" /\ cancel'[b] = "requested") =>
        asker.b = b /\ asker.life = life[b] /\ pc[b] # "free"]_vars

\* A wait ended by a cancel wake ends with the cancellation accepted, and a notify a
\* cancellable queue wait consumed goes to its caller, whatever request is pending.
ReasonDecidesAcceptance ==
  [][\A b \in Blocks : (pc[b] = "disarmed" /\ cur[b].q # NoQueue /\ pc'[b] = "run") =>
        CASE cur[b].reason = "cancel" -> cancel'[b] = "accepted"
          [] cur[b].reason = "notify" -> cancel'[b] = cancel[b]
          [] OTHER -> TRUE]_vars

\* A cancellation ends the task it was asked of, no wait that was notified and none that did
\* not opt in.
CancelAimed == CancelHitsItsTask /\ ReasonDecidesAcceptance /\ []CancelWakeAllowed

\* Delivery: a task parked in a cancellable wait with a request pending leaves the park,
\* even if nobody ever notifies it and its timer never fires.
RequestDelivered == \A b \in Blocks :
  (cancel[b] = "requested" /\ pc[b] = "saved" /\ canPark[b]) ~> pc[b] # "saved"
=============================================================================
