----------------------------- MODULE Semaphore -----------------------------
(***************************************************************************)
(* Semaphore of std/parallel/sync.spc: a count under a mutex, and the      *)
(* condvar its acquirers wait on.  One release wakes one waiter, so a wake *)
(* that a cancelled or late waiter swallows strands a permit.              *)
(***************************************************************************)
EXTENDS Condvar

CONSTANTS Procs,   \* coroutines and plain threads
          Tasks,   \* the coroutines: only these can be cancelled
          Permits  \* what the semaphore starts with

VARIABLES
  permits,  \* SemaphoreInner.permits
  queue,    \* the condvar's waiters
  wait,     \* each process's wait
  mode,     \* the call a process is in: none, or which acquire
  has       \* who holds a permit

vars == <<permits, queue, wait, mode, has>>

Modes == {"none", "acquire", "masked", "timed"}

Init ==
  /\ permits = Permits
  /\ queue = <<>>
  /\ wait = [p \in Procs |-> "none"]
  /\ mode = [p \in Procs |-> "none"]
  /\ has = {}

Leave(p) == mode' = [mode EXCEPT ![p] = "none"] /\ wait' = Over(wait, p)

Take(p) ==
  /\ permits > 0
  /\ permits' = permits - 1
  /\ has' = has \cup {p}
  /\ Leave(p)

\* acquire, acquire_masked, acquire_timeout: their first look at the count.
\* A deadline that has already passed ends the call without a permit.
Acquire(p, m) ==
  /\ mode[p] = "none" /\ p \notin has
  /\ \/ /\ permits > 0
        /\ permits' = permits - 1
        /\ has' = has \cup {p}
        /\ UNCHANGED <<queue, wait, mode>>
     \/ /\ permits = 0
        /\ queue' = Register(queue, p)
        /\ wait' = Parks(wait, p)
        /\ mode' = [mode EXCEPT ![p] = m]
        /\ UNCHANGED <<permits, has>>

\* The waiter has the mutex again, looks at the count, and takes, waits or gives up.
Resume(p) ==
  /\ wait[p] \in {"notify", "timeout"}
  /\ \/ Take(p) /\ queue' = Unlink(queue, p)
     \/ /\ permits = 0 /\ wait[p] = "notify"
        /\ queue' = Register(Unlink(queue, p), p)
        /\ wait' = Parks(wait, p)
        /\ UNCHANGED <<permits, mode, has>>
     \/ /\ permits = 0 /\ mode[p] = "timed"
        /\ queue' = Unlink(queue, p)
        /\ Leave(p)
        /\ UNCHANGED <<permits, has>>

\* A cancelled wait returns without a permit.
Cancelled(p) ==
  /\ wait[p] = "cancel"
  /\ queue' = Unlink(queue, p)
  /\ Leave(p)
  /\ UNCHANGED <<permits, has>>

\* release, by who holds a permit.  The program lets anybody add one.
Release(p) ==
  /\ p \in has /\ mode[p] = "none"
  /\ permits' = permits + 1
  /\ has' = has \ {p}
  /\ wait' = Woken(queue, wait, 1)
  /\ queue' = Left(queue, wait, 1)
  /\ UNCHANGED mode

Cancellable(p) == p \in Tasks /\ mode[p] \in {"acquire", "timed"}

CancelWake(p) ==
  /\ wait[p] = "parked" /\ Cancellable(p)
  /\ wait' = Wins(wait, p, "cancel")
  /\ UNCHANGED <<permits, queue, mode, has>>

Expire(p) ==
  /\ wait[p] = "parked" /\ mode[p] = "timed"
  /\ wait' = Wins(wait, p, "timeout")
  /\ UNCHANGED <<permits, queue, mode, has>>

Next == \E p \in Procs :
  \/ \E m \in Modes \ {"none"} : Acquire(p, m)
  \/ Resume(p) \/ Cancelled(p) \/ Release(p) \/ CancelWake(p) \/ Expire(p)

Spec == Init /\ [][Next]_vars

-----------------------------------------------------------------------------
(* Properties *)

\* A permit is free, taken, or was never there: none is lost or made by a cancelled or
\* late acquire (sync.spc: a cancelled wait consumes and creates nothing).
PermitsConserved == permits + Cardinality(has) = Permits

\* While somebody sleeps, every free permit has a woken waiter on its way to it: no
\* release is swallowed by a waiter that gave up.
NobodyStranded ==
  WithReason(wait, Procs, "parked") # {}
    => permits <= Cardinality(WithReason(wait, Procs, "notify"))
=============================================================================
