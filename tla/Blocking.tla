------------------------------ MODULE Blocking ------------------------------
(***************************************************************************)
(* The blocking pool of std/parallel/blocking.spc: threads that may block, *)
(* made when jobs need them and gone when idle; calls that park their task *)
(* until a thread has run the body, some of them cancellable; admission of *)
(* a bounded number of jobs; and a shutdown that gives up at a deadline.   *)
(*                                                                         *)
(* What is done under the pool's lock is one step.  A worker that parks a  *)
(* task for its job runs the hand-off, which links the job and then wakes  *)
(* or creates a thread, while the task may be running again; a plain       *)
(* thread does that itself.  Who is resumed by what is module Park's       *)
(* subject: the first waker wins, and a cancellation may be one only when  *)
(* the hand-off is over.  @blocking functions are calls.                   *)
(***************************************************************************)
EXTENDS Integers, FiniteSetsExt, SequencesExt

CONSTANTS Tasks,       \* coroutines
          Ext,         \* plain threads
          Workers,     \* of the scheduler
          Threads,     \* records of pool threads
          Jobs,        \* records of calls
          MaxThreads,  \* MAX_THREADS
          MaxPending,  \* MAX_PENDING
          MaxCalls,    \* bound: the calls ever made
          None

BlockingAssumption ==
  /\ Tasks \cap Ext = {} /\ (Tasks \cup Ext) \cap (Workers \cup Threads) = {}
  /\ Workers \cap Threads = {} /\ None \notin Tasks \cup Ext \cup Workers \cup Threads \cup Jobs
  /\ MaxThreads \in Nat \ {0} /\ MaxPending \in Nat \ {0} /\ MaxCalls \in Nat

Callers == Tasks \cup Ext
Helpers == Workers \cup Ext

VARIABLES
  state,   \* G_STATE: "none", "ready", "closing"; there is a pool but in the first
  pool,    \* its queue of jobs, its idle threads, its counts, its lists
  thread,  \* each pool thread's record
  run,     \* the job a thread, or a worker in its place, runs, and how far it is
  helper,  \* what a submitter owes: a wake or a thread
  call,    \* each caller
  jobs,    \* each job's record
  closer,  \* try_shutdown
  made     \* how many calls were made

vars == <<state, pool, thread, run, helper, call, jobs, closer, made>>

NewPool == [shutting |-> FALSE, queue |-> <<>>, idle |-> <<>>, spinner |-> FALSE,
            running |-> 0, queued |-> 0, starting |-> 0, retired |-> {}, admit |-> <<>>,
            wakes |-> {}]
NoThread == [pc |-> "none", covering |-> FALSE, park |-> FALSE, wakes |-> 0]
NoRun == [pc |-> "none", job |-> None, kind |-> "call"]
Job(j) == [pc |-> "body", job |-> j, kind |-> jobs[j].kind]
NoHelp == [pc |-> "none", thread |-> None, joins |-> {}]
NoCall == [pc |-> "out", kind |-> "call", wait |-> "none", job |-> None, asked |-> FALSE,
           told |-> FALSE, host |-> None]
NoJob == [of |-> None, kind |-> "call", state |-> "free", refs |-> 0, value |-> 0]

Init ==
  /\ state = "none" /\ pool = NewPool
  /\ thread = [t \in Threads |-> NoThread]
  /\ run = [r \in Threads \cup Workers |-> NoRun]
  /\ helper = [h \in Helpers |-> NoHelp]
  /\ call = [c \in Callers |-> NoCall]
  /\ jobs = [j \in Jobs |-> NoJob]
  /\ closer = [pc |-> "out", joins |-> {}, woken |-> FALSE]
  /\ made = 0

\* The live list: the threads that may take jobs.
Live == {t \in Threads : thread[t].pc \in {"look", "spin", "asleep"}}

\* done_bump
Bumped == [closer EXCEPT !.woken = TRUE]

\* The worker's hand-off is over: a cancellation may wake the task it parked.
HandedOff(calls, w) ==
  [c \in Callers |-> IF calls[c].host = w THEN [calls[c] EXCEPT !.host = None] ELSE calls[c]]

-----------------------------------------------------------------------------
(* A pool thread: pool_main, and what it does when it has the lock again *)

\* admit_next: the slot goes to the first that was not cancelled, and to the plain threads.
Admitted(calls, list) ==
  LET woken == {i \in DOMAIN list : calls[list[i]].wait = "parked"}
      next == IF woken = {} THEN Len(list) + 1 ELSE Min(woken)
  IN [list |-> SubSeq(list, next + 1, Len(list)),
      calls |-> [c \in Callers |->
        IF next \in DOMAIN list /\ c = list[next] THEN [calls[c] EXCEPT !.wait = "notify"]
        ELSE IF calls[c].pc = "full" THEN [calls[c] EXCEPT !.told = TRUE] ELSE calls[c]]]

TakeJob(t, p) ==
  LET a == Admitted(call, p.admit)
  IN /\ p.queue # <<>>
     /\ pool' = [p EXCEPT !.queue = Tail(@), !.running = @ + 1, !.queued = @ - 1,
                          !.admit = a.list, !.spinner = @ /\ ~thread[t].covering]
     /\ thread' = [thread EXCEPT ![t].pc = "look", ![t].covering = FALSE]
     /\ run' = [run EXCEPT ![t] = Job(Head(p.queue))]
     /\ call' = a.calls
     /\ UNCHANGED closer

Retire(t, p) ==
  /\ pool' = [p EXCEPT !.retired = @ \cup {t}, !.spinner = @ /\ ~thread[t].covering]
  /\ thread' = [thread EXCEPT ![t].pc = "exited", ![t].covering = FALSE]
  /\ closer' = Bumped
  /\ UNCHANGED <<run, call>>

Sleep(t, p) ==
  /\ pool' = [p EXCEPT !.idle = <<t>> \o @]
  /\ thread' = [thread EXCEPT ![t].pc = "asleep", ![t].park = FALSE]
  /\ UNCHANGED <<run, call, closer>>

\* One thread spins; it may spin for longer than its budget when it found a job and lost it.
Spin(t, p) ==
  /\ pool' = [p EXCEPT !.spinner = TRUE]
  /\ thread' = [thread EXCEPT ![t].pc = "spin", ![t].covering = FALSE]
  /\ UNCHANGED <<run, call, closer>>

Proceed(t, p) ==
  \/ TakeJob(t, p)
  \/ p.queue = <<>> /\ p.shutting /\ Retire(t, p)
  \/ /\ p.queue = <<>> /\ ~p.shutting
     /\ IF thread[t].covering \/ ~p.spinner THEN Spin(t, p) ELSE Sleep(t, p)

Look(t) ==
  /\ thread[t].pc = "look" /\ run[t].pc = "none"
  /\ Proceed(t, pool)
  /\ UNCHANGED <<state, helper, jobs, made>>

SpinEnds(t) ==
  /\ thread[t].pc = "spin"
  /\ LET p == [pool EXCEPT !.spinner = FALSE]
     IN IF p.queue = <<>> /\ ~p.shutting THEN Sleep(t, p) ELSE Proceed(t, p)
  /\ UNCHANGED <<state, helper, jobs, made>>

\* The signal, or a time-out that finds the thread popped.
Woken(t) ==
  /\ thread[t].pc = "asleep" /\ thread[t].park
  /\ Proceed(t, pool)
  /\ UNCHANGED <<state, helper, jobs, made>>

TimedOut(t) ==
  /\ thread[t].pc = "asleep" /\ ~thread[t].park
  /\ LET p == [pool EXCEPT !.idle = SelectSeq(@, LAMBDA u : u # t)]
     IN IF p.queue = <<>> /\ ~p.shutting THEN Retire(t, p) ELSE Proceed(t, p)
  /\ UNCHANGED <<state, helper, jobs, made>>

-----------------------------------------------------------------------------
(* Running a job, on a pool thread or in place: run_call, run_ccall *)

Step(r, l) == run' = [run EXCEPT ![r].pc = l]

\* The trampoline returns; a worker's hand-off with it.
Over(r, calls) ==
  /\ run' = [run EXCEPT ![r] = NoRun]
  /\ call' = HandedOff(calls, r)

\* The value is stored; release: a thread without a job is the next spinner, before its caller
\* is woken.
BodyEnds(r) ==
  /\ run[r].pc = "body"
  /\ jobs' = [jobs EXCEPT ![run[r].job].value = @ + 1]
  /\ Step(r, IF run[r].kind = "call" THEN "settle" ELSE "race")
  /\ IF r \in Workers
       THEN UNCHANGED <<pool, thread, closer>>
       ELSE LET spins == ~pool.shutting /\ ~pool.spinner
            IN /\ pool' = [pool EXCEPT !.running = @ - 1, !.spinner = @ \/ spins]
               /\ thread' = [thread EXCEPT ![r].covering = @ \/ spins]
               /\ closer' = IF pool.shutting THEN Bumped ELSE closer
  /\ UNCHANGED <<state, helper, call, made>>

\* run_ccall's compare-and-swap: of an abandoned call the value is this side's to destroy.
Race(r) ==
  LET j == run[r].job
  IN /\ run[r].pc = "race"
     /\ IF jobs[j].state = "pending"
          THEN jobs' = [jobs EXCEPT ![j].state = "complete"] /\ Step(r, "settle")
          ELSE jobs' = [jobs EXCEPT ![j].value = @ - 1] /\ Step(r, "drop")
     /\ UNCHANGED <<state, pool, thread, helper, call, closer, made>>

Rest(r, calls) ==
  IF run[r].kind = "call" THEN Over(r, calls) ELSE Step(r, "drop") /\ call' = calls

\* settle: a plain thread's latch, or the claim of the task's park and wake_push.  A claim that
\* finds a stack of wakes leaves its wake to whoever began the stack.
Settle(r) ==
  LET j == run[r].job
      c == jobs[j].of
      done == [call EXCEPT ![c].wait = "done"]
      claimed == [call EXCEPT ![c].wait = "claimed"]
  IN /\ run[r].pc = "settle"
     /\ IF c \in Ext THEN Over(r, done) /\ UNCHANGED pool
        ELSE IF call[c].wait # "parked" \/ call[c].job # j THEN Rest(r, call) /\ UNCHANGED pool
        ELSE /\ pool' = [pool EXCEPT !.wakes = @ \cup {c}]
             /\ IF pool.wakes = {} THEN Step(r, "flush") /\ call' = claimed
                ELSE Rest(r, claimed)
     /\ UNCHANGED <<state, thread, helper, jobs, closer, made>>

\* wake_flush
Flush(r) ==
  /\ run[r].pc = "flush"
  /\ pool' = [pool EXCEPT !.wakes = {}]
  /\ Rest(r, [c \in Callers |-> IF c \in pool.wakes THEN [call[c] EXCEPT !.wait = "done"]
                                 ELSE call[c]])
  /\ UNCHANGED <<state, thread, helper, jobs, closer, made>>

\* crec_drop
Dropped(j) ==
  [jobs EXCEPT ![j] = IF @.refs = 1 THEN [NoJob EXCEPT !.value = jobs[j].value]
                      ELSE [@ EXCEPT !.refs = @ - 1]]

Drop(r) ==
  /\ run[r].pc = "drop"
  /\ jobs' = Dropped(run[r].job)
  /\ Over(r, call)
  /\ UNCHANGED <<state, pool, thread, helper, closer, made>>

-----------------------------------------------------------------------------
(* Submitting a job: enqueue, plan, post_run *)

\* Mutant of Covered: the spinner will take whatever is queued.
Covered_Always(p, q) == p.spinner

\* The spinner takes one job.
Covered(p, q) == p.spinner /\ Len(q) = 1

\* The helper's record once the job was linked.
Enqueue(h, p, j) ==
  LET q == Append(p.queue, j)
      t == Head(p.idle)
  IN IF Covered(p, q) \/ (p.idle = <<>> /\ Cardinality(Live) + p.starting >= MaxThreads)
       THEN /\ pool' = [p EXCEPT !.queue = q]
            /\ UNCHANGED <<thread, helper>>
     ELSE IF p.idle # <<>>
       THEN /\ pool' = [p EXCEPT !.queue = q, !.idle = Tail(@)]
            /\ thread' = [thread EXCEPT ![t].park = TRUE, ![t].wakes = @ + 1]
            /\ helper' = [helper EXCEPT ![h] = [NoHelp EXCEPT !.pc = "wake", !.thread = t]]
     ELSE /\ pool' = [p EXCEPT !.queue = q, !.starting = @ + 1]
          /\ helper' = [helper EXCEPT ![h].pc = "create"]
          /\ UNCHANGED thread

Helped(h) == helper' = [helper EXCEPT ![h] = NoHelp] /\ call' = HandedOff(call, h)

\* wake_thread, of a thread popped before
WakeThread(h) ==
  /\ helper[h].pc = "wake"
  /\ thread' = [thread EXCEPT ![helper[h].thread].wakes = @ - 1]
  /\ Helped(h)
  /\ UNCHANGED <<state, pool, run, jobs, closer, made>>

\* spawn_thread, the thread created: the handles of exited threads are joined first, without
\* the lock, and the reservation stays until the thread is on the live list.
Create(h) ==
  LET t == CHOOSE u \in Threads : thread[u].pc = "none"
  IN /\ helper[h].pc = "create" /\ \E u \in Threads : thread[u].pc = "none"
     /\ IF pool.retired = {}
          THEN /\ pool' = [pool EXCEPT !.starting = @ - 1]
               /\ thread' = [thread EXCEPT ![t].pc = "look"]
               /\ Helped(h)
          ELSE /\ pool' = [pool EXCEPT !.retired = {}]
               /\ thread' = [thread EXCEPT ![t].pc = "new"]
               /\ helper' = [helper EXCEPT ![h] =
                    [pc |-> "join", thread |-> t, joins |-> pool.retired]]
               /\ UNCHANGED call
     /\ UNCHANGED <<state, run, jobs, closer, made>>

\* reap: a record goes when nobody owes its thread a signal.
Joined(joins) == \A t \in joins : thread[t].wakes = 0
Freed(joins) == [t \in Threads |-> IF t \in joins THEN NoThread ELSE thread[t]]

Publish(h) ==
  /\ helper[h].pc = "join" /\ Joined(helper[h].joins)
  /\ pool' = [pool EXCEPT !.starting = @ - 1]
  /\ thread' = [Freed(helper[h].joins) EXCEPT ![helper[h].thread].pc = "look"]
  /\ Helped(h)
  /\ UNCHANGED <<state, run, jobs, closer, made>>

\* The creation fails; a job that nobody is left to take is fatal, and ends the process.
CreateFails(h) ==
  /\ helper[h].pc = "create"
  /\ Live # {} \/ pool.starting > 1 \/ pool.queue = <<>>
  /\ pool' = [pool EXCEPT !.starting = @ - 1]
  /\ closer' = Bumped
  /\ Helped(h)
  /\ UNCHANGED <<state, thread, run, jobs, made>>

-----------------------------------------------------------------------------
(* A call *)

Goto(c, l) == call' = [call EXCEPT ![c].pc = l]
Left(c) == call' = [call EXCEPT ![c] = [NoCall EXCEPT !.asked = call[c].asked]]

\* The wait is noted, or the plain thread counted, before the state is read.
Call(c, kind) ==
  /\ call[c].pc = "out" /\ made < MaxCalls
  /\ call' = [call EXCEPT ![c].pc = "noted", ![c].kind = kind]
  /\ made' = made + 1
  /\ UNCHANGED <<state, pool, thread, run, helper, jobs, closer>>

\* ensure_pool; a caller that finds the pool closing runs the body itself.
Ensure(c) ==
  /\ call[c].pc = "noted"
  /\ IF state = "closing" THEN Left(c) /\ UNCHANGED state
     ELSE Goto(c, IF c \in Ext THEN "lock" ELSE "try") /\ state' = "ready"
  /\ UNCHANGED <<pool, thread, run, helper, jobs, closer, made>>

Full == pool.queued >= MaxPending
Reserved == [pool EXCEPT !.queued = @ + 1]

\* reserve, without the lock
Try(c) ==
  /\ call[c].pc = "try"
  /\ IF Full THEN Goto(c, "lock") /\ UNCHANGED pool
     ELSE Goto(c, "admitted") /\ pool' = Reserved
  /\ UNCHANGED <<state, thread, run, helper, jobs, closer, made>>

\* admit, under the lock; the node goes on the list p
Admit(c, p) ==
  IF p.shutting THEN Left(c) /\ pool' = p
  ELSE IF ~Full THEN /\ call' = [call EXCEPT ![c].pc = "admitted", ![c].wait = "none"]
                     /\ pool' = [p EXCEPT !.queued = @ + 1]
  ELSE /\ call' = [call EXCEPT ![c].pc = "queued", ![c].wait = "parked"]
       /\ pool' = [p EXCEPT !.admit = Append(@, c)]

AdmitTask(c) ==
  /\ c \in Tasks /\ call[c].pc = "lock"
  /\ Admit(c, pool)
  /\ UNCHANGED <<state, thread, run, helper, jobs, closer, made>>

\* admit_unlink; a cancellation is accepted.
ResumeAdmit(c) ==
  LET p == [pool EXCEPT !.admit = SelectSeq(@, LAMBDA d : d # c)]
  IN /\ call[c].pc = "queued" /\ call[c].wait # "parked"
     /\ IF call[c].wait = "cancel" THEN call' = [call EXCEPT ![c] = NoCall] /\ pool' = p
        ELSE Admit(c, p)
     /\ UNCHANGED <<state, thread, run, helper, jobs, closer, made>>

FreeJobs == {j \in Jobs : jobs[j].state = "free"}
NewJob(c) ==
  [of |-> c, kind |-> call[c].kind, state |-> "pending",
   refs |-> IF call[c].kind = "call" THEN 1 ELSE 2, value |-> 0]

\* The task parks, and worker w hands off its job: commit_submit.  In a pool that was closed
\* since, it runs the job itself.
Submit(c, w) ==
  LET j == CHOOSE k \in FreeJobs : TRUE
      parks(host) == call' = [call EXCEPT ![c].pc = "waits", ![c].wait = "parked",
                                          ![c].job = j, ![c].host = host]
  IN /\ call[c].pc = "admitted" /\ helper[w].pc = "none" /\ run[w].pc = "none"
     /\ FreeJobs # {}
     /\ jobs' = [jobs EXCEPT ![j] = NewJob(c)]
     /\ IF pool.shutting
          THEN /\ pool' = [pool EXCEPT !.queued = @ - 1]
               /\ run' = [run EXCEPT ![w] = [pc |-> "body", job |-> j, kind |-> call[c].kind]]
               /\ parks(w)
               /\ UNCHANGED <<thread, helper>>
          ELSE /\ Enqueue(w, pool, j)
               /\ parks(IF helper'[w].pc = "none" THEN None ELSE w)
               /\ UNCHANGED run
     /\ UNCHANGED <<state, closer, made>>

\* submit_ext
SubmitExt(e) ==
  LET j == CHOOSE k \in FreeJobs : TRUE
  IN /\ call[e].pc = "lock" \/ (call[e].pc = "full" /\ call[e].told)
     /\ IF pool.shutting THEN Left(e) /\ UNCHANGED <<pool, thread, helper, jobs>>
        ELSE IF Full THEN /\ call' = [call EXCEPT ![e].pc = "full", ![e].told = FALSE]
                          /\ UNCHANGED <<pool, thread, helper, jobs>>
        ELSE /\ FreeJobs # {}
             /\ jobs' = [jobs EXCEPT ![j] = NewJob(e)]
             /\ Enqueue(e, Reserved, j)
             /\ call' = [call EXCEPT ![e].pc = "waits", ![e].wait = "parked", ![e].job = j]
     /\ UNCHANGED <<state, run, closer, made>>

\* The value is taken out of the frame, and the frame goes.
Return(c) ==
  /\ call[c].pc = "waits" /\ call[c].kind = "call" /\ call[c].wait = "done"
  /\ c \in Ext => helper[c].pc = "none"
  /\ LET j == call[c].job IN jobs' = [jobs EXCEPT ![j] = [NoJob EXCEPT !.value = jobs[j].value - 1]]
  /\ Left(c)
  /\ UNCHANGED <<state, pool, thread, run, helper, closer, made>>

\* call_c goes on: it takes the value, or accepts a cancellation and abandons the call or, if
\* that was completed, destroys the value.
ReturnC(c) ==
  LET j == call[c].job
  IN /\ call[c].pc = "waits" /\ call[c].kind = "call_c" /\ call[c].wait \in {"done", "cancel"}
     /\ jobs' = IF call[c].asked /\ jobs[j].state = "pending"
                  THEN [jobs EXCEPT ![j].state = "abandoned"]
                  ELSE [jobs EXCEPT ![j].value = @ - 1]
     /\ call' = [call EXCEPT ![c].pc = "drop", ![c].asked = FALSE]
     /\ UNCHANGED <<state, pool, thread, run, helper, closer, made>>

\* crec_drop, and then the wait's note is cleared.
DropOwn(c) ==
  /\ call[c].pc = "drop"
  /\ jobs' = Dropped(call[c].job)
  /\ Left(c)
  /\ UNCHANGED <<state, pool, thread, run, helper, closer, made>>

\* request_cancel, and the wake it claims: never before the hand-off published the park.
Cancel(c) ==
  /\ c \in Tasks /\ call[c].pc # "out" /\ ~call[c].asked
  /\ call' = [call EXCEPT ![c].asked = TRUE]
  /\ UNCHANGED <<state, pool, thread, run, helper, jobs, closer, made>>

Cancellable(c) == call[c].kind = "call_c" /\ call[c].host = None

CancelWake(c) ==
  /\ call[c].wait = "parked" /\ call[c].asked /\ Cancellable(c)
  /\ call' = [call EXCEPT ![c].wait = "cancel"]
  /\ UNCHANGED <<state, pool, thread, run, helper, jobs, closer, made>>

-----------------------------------------------------------------------------
(* try_shutdown, by a plain thread; it may be called again when it gave up *)

Close ==
  /\ closer.pc = "out" /\ state # "none"
  /\ state' = "closing"
  /\ closer' = [closer EXCEPT !.pc = "lock"]
  /\ UNCHANGED <<pool, thread, run, helper, call, jobs, made>>

\* What a shutdown waits for, under the lock.
Outstanding ==
  pool.queue # <<>> \/ pool.running # 0 \/ Live # {} \/ pool.starting # 0

\* Once around the loop, in pool p: exited threads to join, nothing left, the deadline, a sleep.
Drain(p) ==
  IF p.retired # {}
    THEN /\ pool' = [p EXCEPT !.retired = {}]
         /\ closer' = [pc |-> "join", joins |-> p.retired, woken |-> FALSE]
    ELSE /\ pool' = p
         /\ \E l \in IF Outstanding THEN {"asleep", "out"} ELSE {"ext"} :
              closer' = [pc |-> l, joins |-> {}, woken |-> FALSE]

\* The first to close wakes the idle threads and everybody who waits for admission.
CloseLocked ==
  /\ closer.pc = "lock"
  /\ Drain([pool EXCEPT !.shutting = TRUE, !.idle = <<>>, !.admit = <<>>])
  /\ thread' = [t \in Threads |-> IF t \in ToSet(pool.idle) THEN [thread[t] EXCEPT !.park = TRUE]
                                  ELSE thread[t]]
  /\ call' = [c \in Callers |->
       IF c \in ToSet(pool.admit) /\ call[c].wait = "parked" THEN [call[c] EXCEPT !.wait = "notify"]
       ELSE IF call[c].pc = "full" THEN [call[c] EXCEPT !.told = TRUE] ELSE call[c]]
  /\ UNCHANGED <<state, run, helper, jobs, made>>

CloseJoined ==
  /\ closer.pc = "join" /\ Joined(closer.joins)
  /\ thread' = Freed(closer.joins)
  /\ Drain(pool)
  /\ UNCHANGED <<state, run, helper, call, jobs, made>>

\* A change, or the deadline.
CloseWoken ==
  /\ closer.pc = "asleep"
  /\ Drain(pool)
  /\ UNCHANGED <<state, thread, run, helper, call, jobs, made>>

\* The plain threads that read the state before are gone; then the tasks are: the pool goes.
CloseExt ==
  /\ closer.pc = "ext" /\ \A e \in Ext : call[e].pc = "out"
  /\ closer' = [closer EXCEPT !.pc = "tasks"]
  /\ UNCHANGED <<state, pool, thread, run, helper, call, jobs, made>>

Release ==
  /\ closer.pc = "tasks" /\ \A c \in Tasks : call[c].pc = "out"
  /\ state' = "none" /\ pool' = NewPool
  /\ closer' = [closer EXCEPT !.pc = "out"]
  /\ UNCHANGED <<thread, run, helper, call, jobs, made>>

GiveUp ==
  /\ closer.pc \in {"ext", "tasks"}
  /\ closer' = [closer EXCEPT !.pc = "out"]
  /\ UNCHANGED <<state, pool, thread, run, helper, call, jobs, made>>

-----------------------------------------------------------------------------
Next ==
  \/ \E t \in Threads : Look(t) \/ SpinEnds(t) \/ Woken(t) \/ TimedOut(t)
  \/ \E r \in Threads \cup Workers : BodyEnds(r) \/ Race(r) \/ Settle(r) \/ Flush(r) \/ Drop(r)
  \/ \E h \in Helpers : WakeThread(h) \/ Create(h) \/ Publish(h) \/ CreateFails(h)
  \/ \E c \in Tasks : \/ \E kind \in {"call", "call_c"} : Call(c, kind)
                      \/ Try(c) \/ AdmitTask(c) \/ ResumeAdmit(c)
                      \/ \E w \in Workers : Submit(c, w)
                      \/ ReturnC(c) \/ DropOwn(c) \/ Cancel(c) \/ CancelWake(c)
  \/ \E e \in Ext : Call(e, "call") \/ SubmitExt(e)
  \/ \E c \in Callers : Ensure(c) \/ Return(c)
  \/ Close \/ CloseLocked \/ CloseJoined \/ CloseWoken \/ CloseExt \/ Release \/ GiveUp

Spec == Init /\ [][Next]_vars

-----------------------------------------------------------------------------
(* Properties *)

\* Whoever is about to touch the pool finds it there: a shutdown releases it only when no thread,
\* no caller that read the state and nobody who owes a thread is left.  A worker that gives back
\* the record of a call it ran in place is left out: see RecordsGivenBack.
PoolKept ==
  state = "none" =>
    /\ \A t \in Threads : thread[t].pc = "none" /\ run[t].pc = "none"
    /\ \A h \in Helpers : helper[h].pc = "none"
    /\ \A w \in Workers : run[w].pc \in {"none", "drop"}
    /\ \A c \in Callers : call[c].pc \in {"out", "noted"}

\* A call's record is there for whoever goes on to use it, and its value is taken or destroyed
\* once, whether the call completes, is abandoned, or both at once.
RecordsKept ==
  /\ \A j \in Jobs : jobs[j].value \in {0, 1} /\ (jobs[j].state = "free" => jobs[j].value = 0)
  /\ \A j \in ToSet(pool.queue) : jobs[j].state # "free"
  /\ \A r \in Threads \cup Workers :
       run[r].pc \in {"body", "race", "settle", "drop"} => jobs[run[r].job].state # "free"
  /\ \A c \in Callers : call[c].pc \in {"waits", "drop"} => jobs[call[c].job].of = c

\* No job waits beside an idle thread: as many threads are on their way as there are jobs, the
\* spinner for one of them.  So thread creations may fail.
IdleIsIdle ==
  pool.idle # <<>> =>
    Len(pool.queue) <= Cardinality({t \in Threads : thread[t].pc = "asleep" /\ thread[t].park})
                       + IF pool.spinner THEN 1 ELSE 0

\* A job in the queue has somebody to take it.
JobsTaken ==
  pool.queue # <<>> =>
    \/ pool.starting > 0
    \/ \E t \in Live : thread[t].pc # "asleep" \/ thread[t].park

\* Nobody waits for admission beside a free place: a task that was told of it is on its way.
\* The bound holds, and counts the jobs queued and those admitted.
AdmissionServed ==
  /\ pool.queued = Len(pool.queue) + Cardinality({c \in Tasks : call[c].pc = "admitted"})
  /\ pool.queued <= MaxPending
  /\ (\E c \in Tasks : call[c].pc = "queued" /\ call[c].wait = "parked") =>
       MaxPending - pool.queued
         <= Cardinality({c \in Tasks : call[c].pc = "queued" /\ call[c].wait = "notify"})
  /\ (\E e \in Ext : call[e].pc = "full" /\ ~call[e].told) => Full

\* A claimed task is made runnable by somebody: whoever began the stack it is on.
WakesFlushed ==
  (\E c \in Tasks : call[c].wait = "claimed") =>
    \E r \in Threads \cup Workers : run[r].pc = "flush"

\* A shutdown sleeps only while there is something that will tell it.
CloserTold == closer.pc = "asleep" /\ ~closer.woken => Outstanding

\* A thread's record is there for whoever owes it a signal.
ThreadsKept == \A h \in Helpers : helper[h].pc = "wake" => thread[helper[h].thread].pc # "none"

BlockingKept ==
  /\ PoolKept /\ RecordsKept /\ IdleIsIdle /\ JobsTaken /\ AdmissionServed
  /\ WakesFlushed /\ CloserTold /\ ThreadsKept

\* "Every caller that read state 2 has either left the lock or recorded a blocking wait; wait
\* for both counts to clear before the record they may still touch goes away": a record is given
\* back to a pool that is there.
RecordsGivenBack == state = "none" => \A w \in Workers : run[w].pc # "drop"
=============================================================================
