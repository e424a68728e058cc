------------------------------ MODULE Barrier ------------------------------
(***************************************************************************)
(* Barrier of std/parallel/sync.spc: a generation completes when the       *)
(* threshold has arrived; a cancelled participant breaks the barrier until *)
(* somebody resets it.  A waiter decides what it was told when it has the  *)
(* mutex again, and by then the barrier may be in a later generation.      *)
(***************************************************************************)
EXTENDS Condvar

CONSTANTS Procs,      \* coroutines and plain threads
          Tasks,      \* the coroutines: only these can be cancelled
          Threshold,
          MaxGen,     \* bound: the generations of a run
          MaxResets   \* bound: the resets of a run

VARIABLES
  arrived, generation, broken,  \* BarrierState
  queue,      \* the condvar's waiters
  wait,       \* each process's wait
  gen,        \* the generation a process waits for, as its frame remembers it
  resets,     \* bounds the resets
  completed,  \* history: the generations whose last participant arrived
  told        \* history: what each participant's wait reported of its generation

history == <<completed, told>>

vars == <<arrived, generation, broken, queue, wait, gen, resets, completed, told>>

Outside == MaxGen + 1   \* gen of a process that is in no wait

Init ==
  /\ arrived = 0 /\ generation = 0 /\ broken = FALSE
  /\ queue = <<>>
  /\ wait = [p \in Procs |-> "none"]
  /\ gen = [p \in Procs |-> Outside]
  /\ resets = 0
  /\ completed = {}
  /\ told = {}

Tell(p, g, r) == told' = told \cup {[who |-> p, gen |-> g, result |-> r]}

\* Everybody queued is woken.
NotifyAll == wait' = WokenAll(queue, wait) /\ queue' = <<>>

LastIn(n) == n >= Threshold

\* wait on a barrier that is broken reports so at once and takes part in nothing.
\* Otherwise the caller arrives; the last arrival completes the generation.
Arrive(p) ==
  /\ gen[p] = Outside /\ ~broken
  /\ \/ /\ LastIn(arrived + 1) /\ generation < MaxGen
        /\ arrived' = 0
        /\ generation' = generation + 1
        /\ completed' = completed \cup {generation}
        /\ Tell(p, generation, TRUE)
        /\ NotifyAll
        /\ UNCHANGED gen
     \/ /\ ~LastIn(arrived + 1)
        /\ arrived' = arrived + 1
        /\ gen' = [gen EXCEPT ![p] = generation]
        /\ queue' = Register(queue, p)
        /\ wait' = Parks(wait, p)
        /\ UNCHANGED <<generation, completed, told>>
  /\ UNCHANGED <<broken, resets>>

\* The loop condition of wait: its generation is over.
Released(p) == generation # gen[p] \/ broken

\* What a released waiter reports: whether the barrier is broken now.
Verdict == ~broken

Resume(p) ==
  /\ wait[p] = "notify"
  /\ IF Released(p)
       THEN /\ Tell(p, gen[p], Verdict)
            /\ gen' = [gen EXCEPT ![p] = Outside]
            /\ wait' = Over(wait, p)
            /\ queue' = Unlink(queue, p)
       ELSE /\ queue' = Register(queue, p)
            /\ wait' = Parks(wait, p)
            /\ UNCHANGED <<gen, told>>
  /\ UNCHANGED <<arrived, generation, broken, resets, completed>>

Freed(q, w) == WokenAll(q, w)

\* A cancelled participant breaks the barrier and wakes everybody.
Cancelled(p) ==
  /\ wait[p] = "cancel"
  /\ broken' = TRUE
  /\ wait' = Freed(Unlink(queue, p), Over(wait, p))
  /\ queue' = <<>>
  /\ gen' = [gen EXCEPT ![p] = Outside]
  /\ UNCHANGED <<arrived, generation, resets, completed, told>>

\* Mutant of ResetArrived: the arrivals of the abandoned generation count for the next.
ResetArrived_Kept(n) == n

ResetArrived(n) == 0

Reset ==
  /\ resets < MaxResets /\ generation < MaxGen
  /\ resets' = resets + 1
  /\ arrived' = ResetArrived(arrived)
  /\ generation' = generation + 1
  /\ broken' = FALSE
  /\ NotifyAll
  /\ UNCHANGED <<gen, history>>

CancelWake(p) ==
  /\ wait[p] = "parked" /\ p \in Tasks
  /\ wait' = Wins(wait, p, "cancel")
  /\ UNCHANGED <<arrived, generation, broken, queue, gen, resets, history>>

Next == Reset \/ \E p \in Procs : Arrive(p) \/ Resume(p) \/ Cancelled(p) \/ CancelWake(p)

Spec == Init /\ [][Next]_vars

-----------------------------------------------------------------------------
(* Properties *)

\* The count of arrivals is the number of processes waiting for this very generation: no
\* arrival of an earlier, abandoned or broken one stands in for somebody who is missing.
ArrivedArePresent ==
  ~broken => arrived = Cardinality({p \in Procs : gen[p] = generation})

\* Nobody sleeps for a generation that is over, or on a broken barrier (sync.spc: no other
\* participant waits for an arrival that can never come).
NobodyLeftBehind ==
  \A p \in Procs : wait[p] = "parked" => gen[p] = generation /\ ~broken

\* wait reports true only of a generation that completed normally.  A reset takes this away:
\* a waiter of a broken generation that has not run yet finds no break any more.
TrueMeansCompleted == resets = 0 => \A t \in told : t.result => t.gen \in completed

\* A generation completes by its own participants only, and true is said of no other.
CompletesWhole == ArrivedArePresent /\ TrueMeansCompleted

\* A participant that was not cancelled is told false only if its generation cannot
\* complete: not when the others of that generation were told that it did.
FalseMeansBroken == \A t \in told : ~t.result => t.gen \notin completed
=============================================================================
