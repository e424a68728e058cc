------------------------------ MODULE IdleWake ------------------------------
(***************************************************************************)
(* How the workers of std/parallel/runtime.spc look for work, fall asleep  *)
(* and are woken: dequeue_runnable, signal_work, arm_timer and             *)
(* destroy_pool.                                                           *)
(*                                                                         *)
(* A worker that finds nothing spins (one worker at a time holds the spin  *)
(* flag), then takes the scheduler lock to promote due timers and read the *)
(* next deadline, then joins the idle mask on its own parker, looks once   *)
(* more and sleeps.  A submitter that sees the spin flag wakes nobody; one *)
(* that does not claims an idle bit and wakes its worker.  One sleeping    *)
(* worker at most times its sleep to the earliest deadline.                *)
(*                                                                         *)
(* A task is counted, not named.  A timer is its deadline.  A worker's     *)
(* yield queue, the spin budget and replay mode are left out: a look that  *)
(* finds nothing may be the last.                                          *)
(***************************************************************************)
EXTENDS Naturals, FiniteSets

CONSTANTS Workers,
          Ext,       \* a thread outside the pool
          None,
          MaxTasks,  \* bound: tasks ever created
          MaxTime    \* bound: the clock

ASSUME IdleWakeAssumption ==
  /\ Ext \notin Workers /\ None \notin Workers \cup {Ext}
  /\ IsFiniteSet(Workers) /\ Workers # {}
  /\ MaxTasks \in Nat /\ MaxTime \in Nat

Agents == Workers \cup {Ext}

VARIABLES
  inj,       \* inj_len: tasks on the injection queue
  dq,        \* tasks on each worker's deque
  made,      \* tasks created so far
  spinner,   \* who set `spinning`
  idle,      \* the idle mask
  notified,  \* the parkers whose `notified` is set
  timers,    \* the armed deadlines
  watcher,   \* timer_waiter
  now,       \* the clock
  stopping,  \* shutting_down
  unwoken,   \* the workers destroy_pool has not woken yet
  slock,     \* who holds the scheduler lock over more than one step
  pc,        \* where each agent is
  fresh,     \* the first look of this call of dequeue_runnable, or since a wake (spins = 0)
  dl,        \* the deadline a worker read before parking, 0 if none
  timed,     \* its sleep is timed
  sig,       \* an agent's progress inside signal_work, claim_idle and wake_parked
  target,    \* the worker it claimed
  extra      \* further idle workers it will wake

poolVars  == <<inj, dq, made>>
sleepVars == <<spinner, idle, notified, watcher, fresh, dl, timed>>
sigVars   == <<sig, target, extra>>
stopVars  == <<stopping, unwoken>>
vars == <<poolVars, sleepVars, sigVars, timers, now, stopVars, slock, pc>>

PCs == {"find", "got", "left", "run", "arm", "armed",
        "lock", "park", "join", "asleep", "expired", "woken", "unwatch", "exit",
        "free", "wakeall", "gone"}   \* the last three are Ext's

Goto(a, l) == pc' = [pc EXCEPT ![a] = l]
At(a, l) == pc[a] = l /\ sig[a] = "none"

\* The worker's own parker mutex, held from Park until it sleeps.
ParkerHeld(w) == pc[w] = "join"

SetMin(S) == CHOOSE t \in S : \A u \in S : t <= u

-----------------------------------------------------------------------------
(* signal_work, claim_idle, wake_parked: run by whoever made work *)

\* signal_work: a spinning worker will find the work, wake nobody.  inject_chain goes on to
\* wake a worker for every further task of the chain.
SigLook(a) ==
  /\ sig[a] = "look"
  /\ sig' = [sig EXCEPT ![a] = IF spinner = None \/ extra[a] > 0 THEN "claim" ELSE "none"]
  /\ extra' = [extra EXCEPT ![a] = IF spinner = None \/ @ = 0 THEN @ ELSE @ - 1]
  /\ UNCHANGED <<poolVars, sleepVars, target, timers, now, stopVars, slock, pc>>

SigClaim(a) ==
  /\ sig[a] = "claim"
  /\ \/ /\ idle = {}
        /\ sig' = [sig EXCEPT ![a] = "none"]
        /\ extra' = [extra EXCEPT ![a] = 0]
        /\ UNCHANGED <<idle, target>>
     \/ \E w \in idle :
        /\ idle' = idle \ {w}
        /\ target' = [target EXCEPT ![a] = w]
        /\ sig' = [sig EXCEPT ![a] = "wake"]
        /\ UNCHANGED extra
  /\ UNCHANGED <<poolVars, spinner, notified, watcher, fresh, dl, timed, timers, now,
                 stopVars, slock, pc>>

\* wake_parked takes the target's parker mutex.
SigWake(a) ==
  /\ sig[a] = "wake" /\ ~ParkerHeld(target[a])
  /\ notified' = notified \cup {target[a]}
  /\ target' = [target EXCEPT ![a] = None]
  /\ sig' = [sig EXCEPT ![a] = IF extra[a] > 0 THEN "claim" ELSE "none"]
  /\ extra' = [extra EXCEPT ![a] = IF @ > 0 THEN @ - 1 ELSE 0]
  /\ UNCHANGED <<poolVars, spinner, idle, watcher, fresh, dl, timed, timers, now, stopVars,
                 slock, pc>>

-----------------------------------------------------------------------------
(* find_work, and what dequeue_runnable does with its answer *)

\* Only the spinner and a worker on its first look go near the injection queue.
Shared(w) == spinner = w \/ fresh[w]

FindLocal(w) ==
  /\ At(w, "find") /\ dq[w] > 0
  /\ dq' = [dq EXCEPT ![w] = @ - 1]
  /\ Goto(w, "got")
  /\ UNCHANGED <<inj, made, sleepVars, sigVars, timers, now, stopVars, slock>>

\* take_injection: one to run and a share of the rest onto the own deque.
FindInjected(w) ==
  /\ At(w, "find") /\ Shared(w) /\ inj > 0
  /\ LET share == (inj - 1) \div Cardinality(Workers) IN
       /\ inj' = inj - 1 - share
       /\ dq' = [dq EXCEPT ![w] = @ + share]
  /\ Goto(w, "got")
  /\ UNCHANGED <<made, sleepVars, sigVars, timers, now, stopVars, slock>>

\* Half, rounded up: a single task is worth taking.
Half(n) == n - n \div 2

\* dq_steal: half of another deque, one of it to run.
FindStolen(w) ==
  /\ At(w, "find") /\ dq[w] = 0
  /\ \E v \in Workers \ {w} :
       /\ dq[v] > 0
       /\ dq' = [dq EXCEPT ![v] = @ - Half(@), ![w] = Half(dq[v]) - 1]
  /\ Goto(w, "got")
  /\ UNCHANGED <<inj, made, sleepVars, sigVars, timers, now, stopVars, slock>>

\* Nothing in reach (a racing steal may miss): become the spinner if there is none, and
\* look again or give up.
FindNothing(w) ==
  /\ At(w, "find") /\ dq[w] = 0 /\ (Shared(w) => inj = 0)
  /\ spinner' = IF fresh[w] /\ spinner = None THEN w ELSE spinner
  /\ fresh' = [fresh EXCEPT ![w] = FALSE]
  /\ \E l \in {"find", "lock"} : Goto(w, l)
  /\ UNCHANGED <<poolVars, idle, notified, watcher, dl, timed, sigVars, timers, now,
                 stopVars, slock>>

\* The spinner found work: drop the flag, then hand the duty on if work is left.
DropSpin(w) ==
  /\ At(w, "got")
  /\ spinner' = IF spinner = w THEN None ELSE spinner
  /\ Goto(w, IF spinner = w THEN "left" ELSE "run")
  /\ UNCHANGED <<poolVars, idle, notified, watcher, fresh, dl, timed, sigVars, timers, now,
                 stopVars, slock>>

LookLeft(w) ==
  /\ At(w, "left")
  /\ sig' = [sig EXCEPT ![w] = IF inj > 0 THEN "look" ELSE "none"]
  /\ Goto(w, "run")
  /\ UNCHANGED <<poolVars, sleepVars, target, extra, timers, now, stopVars, slock>>

-----------------------------------------------------------------------------
(* Falling asleep *)

Due == {t \in timers : t <= now}

\* Under the scheduler lock: give up the spin flag; promote what is due, keep one and wake a
\* worker for each other; or leave, if stopping and drained; or read the next deadline.
LockLook(w) ==
  /\ At(w, "lock") /\ slock = None
  /\ spinner' = IF spinner = w THEN None ELSE spinner
  /\ \/ /\ Due # {}
        /\ timers' = timers \ Due
        /\ inj' = inj + Cardinality(Due)
        /\ fresh' = [fresh EXCEPT ![w] = TRUE]
        /\ extra' = [extra EXCEPT ![w] = IF Cardinality(Due) > 1 THEN Cardinality(Due) - 2 ELSE 0]
        /\ sig' = [sig EXCEPT ![w] = IF Cardinality(Due) > 1 THEN "claim" ELSE "none"]
        /\ Goto(w, "find")
        /\ UNCHANGED dl
     \/ /\ Due = {} /\ stopping /\ timers = {} /\ inj = 0 /\ \A v \in Workers : dq[v] = 0
        /\ Goto(w, "exit")
        /\ UNCHANGED <<timers, inj, fresh, extra, sig, dl>>
     \/ /\ Due = {} /\ ~(stopping /\ timers = {} /\ inj = 0 /\ \A v \in Workers : dq[v] = 0)
        /\ dl' = [dl EXCEPT ![w] = IF timers = {} THEN 0 ELSE SetMin(timers)]
        /\ Goto(w, "park")
        /\ UNCHANGED <<timers, inj, fresh, extra, sig>>
  /\ UNCHANGED <<dq, made, idle, notified, watcher, timed, target, now, stopVars, slock>>

\* Under the own parker mutex: forget an old wake-up, join the idle mask.
Park(w) ==
  /\ At(w, "park")
  /\ notified' = notified \ {w}
  /\ idle' = idle \cup {w}
  /\ Goto(w, "join")
  /\ UNCHANGED <<poolVars, spinner, watcher, fresh, dl, timed, sigVars, timers, now, stopVars,
                 slock>>

\* Mutant of SeesWork: the look after joining the mask forgets the injection queue.
SeesWork_NoInjection(w) == (dl[w] # 0 /\ dl[w] <= now) \/ stopping

\* Mutant of SeesWork: it forgets the shutdown flag.
SeesWork_NoStop(w) == inj > 0 \/ (dl[w] # 0 /\ dl[w] <= now)

SeesWork(w) == inj > 0 \/ (dl[w] # 0 /\ dl[w] <= now) \/ stopping

\* The compare-and-swap on timer_waiter: time this sleep if nobody else's is.
TakesWatch(w) == dl[w] # 0 /\ watcher = None

\* Look once more, then sleep.
Relook(w) ==
  /\ At(w, "join")
  /\ IF SeesWork(w)
       THEN /\ idle' = idle \ {w}
            /\ fresh' = [fresh EXCEPT ![w] = TRUE]
            /\ Goto(w, "find")
            /\ UNCHANGED <<watcher, timed>>
       ELSE /\ timed' = [timed EXCEPT ![w] = TakesWatch(w)]
            /\ watcher' = IF TakesWatch(w) THEN w ELSE watcher
            /\ Goto(w, "asleep")
            /\ UNCHANGED <<idle, fresh>>
  /\ UNCHANGED <<poolVars, spinner, notified, dl, sigVars, timers, now, stopVars, slock>>

\* The condition wait returns, notified or because the deadline passed.
WakeUp(w) ==
  /\ At(w, "asleep")
  /\ w \in notified \/ (timed[w] /\ dl[w] <= now)
  /\ idle' = idle \ {w}
  /\ fresh' = [fresh EXCEPT ![w] = TRUE]
  /\ Goto(w, IF ~timed[w] THEN "find" ELSE IF w \in notified THEN "woken" ELSE "expired")
  /\ UNCHANGED <<poolVars, spinner, notified, watcher, dl, timed, sigVars, timers, now,
                 stopVars, slock>>

NoWatcher == None

\* The timed sleeper gives the role up; if it was woken for work while timers are armed, it
\* wakes another idle worker for the deadline.
Unwatch(w) ==
  /\ At(w, "woken") \/ At(w, "expired")
  /\ watcher' = NoWatcher
  /\ timed' = [timed EXCEPT ![w] = FALSE]
  /\ Goto(w, IF pc[w] = "woken" THEN "unwatch" ELSE "find")
  /\ UNCHANGED <<poolVars, spinner, idle, notified, fresh, dl, sigVars, timers, now, stopVars,
                 slock>>

PassDeadline(w) ==
  /\ At(w, "unwatch")
  /\ sig' = [sig EXCEPT ![w] = IF timers # {} THEN "claim" ELSE "none"]
  /\ Goto(w, "find")
  /\ UNCHANGED <<poolVars, sleepVars, target, extra, timers, now, stopVars, slock>>

-----------------------------------------------------------------------------
(* Running tasks *)

\* A task makes another one runnable: enqueue_run onto the own deque.
Push(w) ==
  /\ At(w, "run") /\ made < MaxTasks
  /\ made' = made + 1
  /\ dq' = [dq EXCEPT ![w] = @ + 1]
  /\ sig' = [sig EXCEPT ![w] = "look"]
  /\ UNCHANGED <<inj, sleepVars, target, extra, timers, now, stopVars, slock, pc>>

Finish(w) ==
  /\ At(w, "run")
  /\ fresh' = [fresh EXCEPT ![w] = TRUE]
  /\ Goto(w, "find")
  /\ UNCHANGED <<poolVars, spinner, idle, notified, watcher, dl, timed, sigVars, timers, now,
                 stopVars, slock>>

\* A task sleeps.  arm_timer, under the scheduler lock: a new earliest deadline wakes the
\* worker whose sleep is timed, or else any idle worker.
Arm(w) ==
  /\ At(w, "run") /\ slock = None
  /\ \E t \in ((now + 1) .. MaxTime) \ timers :
       LET first == \A u \in timers : t < u IN
         /\ timers' = timers \cup {t}
         /\ target' = [target EXCEPT ![w] = IF first THEN watcher ELSE None]
         /\ slock' = IF first THEN w ELSE None
         /\ Goto(w, IF first THEN "arm" ELSE "armed")
  /\ UNCHANGED <<poolVars, sleepVars, sig, extra, now, stopVars>>

ArmClaim(w) ==
  /\ At(w, "arm")
  /\ IF target[w] \in idle
       THEN idle' = idle \ {target[w]} /\ sig' = [sig EXCEPT ![w] = "wake"] /\ UNCHANGED target
       ELSE sig' = [sig EXCEPT ![w] = "claim"] /\ target' = [target EXCEPT ![w] = None]
            /\ UNCHANGED idle
  /\ Goto(w, "armed")
  /\ UNCHANGED <<poolVars, spinner, notified, watcher, fresh, dl, timed, extra, timers, now,
                 stopVars, slock>>

\* The tail is over and the worker calls dequeue_runnable again.
TailDone(w) ==
  /\ At(w, "armed")
  /\ slock' = IF slock = w THEN None ELSE slock
  /\ fresh' = [fresh EXCEPT ![w] = TRUE]
  /\ Goto(w, "find")
  /\ UNCHANGED <<poolVars, spinner, idle, notified, watcher, dl, timed, sigVars, timers, now,
                 stopVars>>

-----------------------------------------------------------------------------
(* Outside the pool *)

\* inject of one task, inject_chain of several: push, then signal_work.
Inject ==
  /\ At(Ext, "free")
  /\ \E n \in 1 .. MaxTasks - made :
       /\ made' = made + n
       /\ inj' = inj + n
       /\ extra' = [extra EXCEPT ![Ext] = n - 1]
  /\ sig' = [sig EXCEPT ![Ext] = "look"]
  /\ UNCHANGED <<dq, sleepVars, target, timers, now, stopVars, slock, pc>>

Tick ==
  /\ now < MaxTime
  /\ now' = now + 1
  /\ UNCHANGED <<poolVars, sleepVars, sigVars, timers, stopVars, slock, pc>>

Running(w) == pc[w] \in {"got", "left", "run"}
NoLiveTask == inj = 0 /\ timers = {} /\ \A w \in Workers : dq[w] = 0 /\ ~Running(w)

\* destroy_pool, only once no task is live: set the flag under the lock, wake every parker
\* without claiming its idle bit, join every worker.
Stop ==
  /\ At(Ext, "free") /\ NoLiveTask /\ slock = None
  /\ stopping' = TRUE
  /\ unwoken' = Workers
  /\ Goto(Ext, "wakeall")
  /\ UNCHANGED <<poolVars, sleepVars, sigVars, timers, now, slock>>

StopWake(w) ==
  /\ At(Ext, "wakeall") /\ w \in unwoken /\ ~ParkerHeld(w)
  /\ notified' = notified \cup {w}
  /\ unwoken' = unwoken \ {w}
  /\ UNCHANGED <<poolVars, spinner, idle, watcher, fresh, dl, timed, sigVars, timers, now,
                 stopping, slock, pc>>

JoinAll ==
  /\ At(Ext, "wakeall") /\ unwoken = {} /\ \A w \in Workers : pc[w] = "exit"
  /\ Goto(Ext, "gone")
  /\ UNCHANGED <<poolVars, sleepVars, sigVars, timers, now, stopVars, slock>>

-----------------------------------------------------------------------------
Init ==
  /\ inj = 0 /\ made = 0 /\ dq = [w \in Workers |-> 0]
  /\ spinner = None /\ idle = {} /\ notified = {} /\ watcher = None
  /\ fresh = [w \in Workers |-> TRUE]
  /\ dl = [w \in Workers |-> 0] /\ timed = [w \in Workers |-> FALSE]
  /\ timers = {} /\ now = 0
  /\ stopping = FALSE /\ unwoken = {} /\ slock = None
  /\ pc = [a \in Agents |-> IF a = Ext THEN "free" ELSE "find"]
  /\ sig = [a \in Agents |-> "none"]
  /\ target = [a \in Agents |-> None] /\ extra = [a \in Agents |-> 0]

Signal(a) == SigLook(a) \/ SigClaim(a) \/ SigWake(a)

Search(w) ==
  \/ FindLocal(w) \/ FindInjected(w) \/ FindStolen(w) \/ FindNothing(w)
  \/ DropSpin(w) \/ LookLeft(w)
  \/ LockLook(w) \/ Park(w) \/ Relook(w) \/ WakeUp(w) \/ Unwatch(w) \/ PassDeadline(w)
  \/ ArmClaim(w) \/ TailDone(w)

Done == pc[Ext] = "gone" /\ UNCHANGED vars

Next ==
  \/ \E a \in Agents : Signal(a)
  \/ \E w \in Workers : Search(w) \/ Push(w) \/ Finish(w) \/ Arm(w) \/ StopWake(w)
  \/ Inject \/ Tick \/ Stop \/ JoinAll \/ Done

Spec == Init /\ [][Next]_vars

\* The scheduler's own code runs on, and the clock; a worker's spin is bounded; tasks return
\* or sleep.  Nobody has to submit, or to stop the pool.
Fairness ==
  /\ \A a \in Agents : WF_vars(Signal(a))
  /\ \A w \in Workers : WF_vars(Search(w) /\ pc'[w] # pc[w])
  /\ WF_vars((\E w \in Workers : StopWake(w)) \/ JoinAll)
  /\ WF_vars(Tick)

TasksReturn == \A w \in Workers : WF_vars(Finish(w))

FairSpec == Spec /\ Fairness /\ TasksReturn

-----------------------------------------------------------------------------
(* Properties *)

\* w sleeps and nobody is on the way to wake it.
Sleeps(w) == pc[w] = "asleep" /\ w \in idle \ (notified \cup unwoken)

\* w goes through find_work again before it sleeps, or is about to be woken to.
Looking(w) == pc[w] \notin {"asleep", "run", "exit"} \/ (pc[w] = "asleep" /\ ~Sleeps(w))

\* Somebody is on the way to a look at the queues, or to waking a sleeper.
Attended == (\E w \in Workers : Looking(w)) \/ \E a \in Agents : sig[a] # "none"

\* The whole pool sleeps and nobody is on the way.
AllAsleep == (\A w \in Workers : Sleeps(w)) /\ ~Attended

\* No wake-up is lost: the pool never falls asleep over an injected task, over armed timers
\* with no sleep timed at all, or over the end of the pool.
NoLostWakeup == AllAsleep =>
  inj = 0 /\ ~stopping /\ (timers = {} \/ \E w \in Workers : timed[w])

\* When the whole pool sleeps, the timed sleep ends by the earliest armed deadline.
DeadlineWatched == (AllAsleep /\ timers # {}) =>
  \E w \in Workers : timed[w] /\ dl[w] <= SetMin(timers)

\* Where tasks return, injected work is taken,
InjectedTaken == inj > 0 ~> inj = 0

\* every armed deadline is served,
DeadlineServed == \A t \in 1 .. MaxTime : t \in timers ~> t \notin timers

\* in every order in which the two compete for the one worker that is awake,
WorkServed == InjectedTaken /\ DeadlineServed

\* and the pool's end joins every worker, whenever its wake-ups land.
StopEnds == stopping ~> pc[Ext] = "gone"
=============================================================================
