----------------------------- MODULE WaitGroup -----------------------------
(***************************************************************************)
(* WaitGroup of std/parallel/sync.spc.  The count is atomic and a done     *)
(* that is not the last never takes the lock: the gate guards no data and  *)
(* exists only so that the last done cannot notify between a waiter's look *)
(* at the count and its park.  The gate is therefore explicit here.        *)
(***************************************************************************)
EXTENDS Condvar

CONSTANTS Procs,   \* coroutines and plain threads
          Tasks,   \* the coroutines: only these can be cancelled
          MaxAdd,  \* bound: how much is ever added
          NoProc

VARIABLES
  count,  \* WaitGroupInner.count
  owed,   \* tasks added that have not called done
  added,  \* bounds the additions
  gate,   \* who holds WaitGroupInner.gate
  queue,  \* the condvar's waiters
  wait,   \* each process's wait
  mode,   \* which wait a process is in, if any
  pc      \* where it is in it, or in done

vars == <<count, owed, added, gate, queue, wait, mode, pc>>

Modes == {"none", "wait", "masked",
          "timed",  \* wait_timeout
          "late"}   \* wait_timeout, its deadline passed

PCs == {"out",
        "lock",   \* wait saw a count above zero: about to take the gate
        "check",  \* holds the gate, about to look at the count
        "park",   \* holds the gate, saw a count above zero
        "asleep", \* in wait_raw
        "zero"}   \* done brought the count to zero and has not notified

Init ==
  /\ count = 0 /\ owed = 0 /\ added = 0
  /\ gate = NoProc
  /\ queue = <<>>
  /\ wait = [p \in Procs |-> "none"]
  /\ mode = [p \in Procs |-> "none"]
  /\ pc = [p \in Procs |-> "out"]

Goto(p, l) == pc' = [pc EXCEPT ![p] = l]

-----------------------------------------------------------------------------
(* add, done *)

Add(p) ==
  /\ pc[p] = "out" /\ added < MaxAdd
  /\ count' = count + 1 /\ owed' = owed + 1 /\ added' = added + 1
  /\ UNCHANGED <<gate, queue, wait, mode, pc>>

\* The decrement.  A count below zero panics: the tasks that add covers never get there.
Done(p) ==
  /\ pc[p] = "out" /\ owed > 0
  /\ owed' = owed - 1
  /\ count' = count - 1
  /\ Goto(p, IF count = 1 THEN "zero" ELSE "out")
  /\ UNCHANGED <<added, gate, queue, wait, mode>>

\* Mutant of GateOpen: the last done notifies without taking the gate.
GateOpen_Ignored(p) == pc[p] = "zero" \/ gate = NoProc

GateOpen(p) == gate = NoProc

\* The last done notifies under the gate.
NotifyZero(p) ==
  /\ pc[p] = "zero" /\ GateOpen(p)
  /\ wait' = WokenAll(queue, wait)
  /\ queue' = <<>>
  /\ Goto(p, "out")
  /\ UNCHANGED <<count, owed, added, gate, mode>>

-----------------------------------------------------------------------------
(* wait, wait_masked, wait_timeout *)

\* The first look, without the gate: a group at zero is never locked.
Look(p, m) ==
  /\ pc[p] = "out" /\ count > 0 /\ m \notin {"none", "late"}
  /\ mode' = [mode EXCEPT ![p] = m]
  /\ Goto(p, "lock")
  /\ UNCHANGED <<count, owed, added, gate, queue, wait>>

Lock(p) ==
  /\ pc[p] = "lock" /\ GateOpen(p)
  /\ gate' = p
  /\ Goto(p, "check")
  /\ UNCHANGED <<count, owed, added, queue, wait, mode>>

Return(p) ==
  /\ gate' = NoProc
  /\ mode' = [mode EXCEPT ![p] = "none"]
  /\ Goto(p, "out")

\* The look under the gate.  A deadline that has passed ends a timed wait above zero.
Check(p) ==
  /\ pc[p] = "check"
  /\ \/ count <= 0 /\ Return(p)
     \/ count > 0 /\ mode[p] \in {"timed", "late"} /\ Return(p)
     \/ count > 0 /\ mode[p] # "late" /\ Goto(p, "park") /\ UNCHANGED <<gate, mode>>
  /\ UNCHANGED <<count, owed, added, queue, wait>>

\* wait_raw: queue up, release the gate once parked.
Park(p) ==
  /\ pc[p] = "park"
  /\ queue' = Register(queue, p)
  /\ wait' = Parks(wait, p)
  /\ gate' = NoProc
  /\ Goto(p, "asleep")
  /\ UNCHANGED <<count, owed, added, mode>>

\* The end of wait_raw: the gate is taken again before the node is unlinked.  A cancelled
\* wait returns with the count untouched.
Resume(p) ==
  /\ pc[p] = "asleep" /\ wait[p] \notin {"none", "parked"} /\ gate = NoProc
  /\ queue' = Unlink(queue, p)
  /\ wait' = Over(wait, p)
  /\ IF wait[p] = "cancel" THEN Return(p)
     ELSE /\ gate' = p /\ Goto(p, "check")
          /\ mode' = IF wait[p] = "timeout" THEN [mode EXCEPT ![p] = "late"] ELSE mode
  /\ UNCHANGED <<count, owed, added>>

CancelWake(p) ==
  /\ wait[p] = "parked" /\ p \in Tasks /\ mode[p] # "masked"
  /\ wait' = Wins(wait, p, "cancel")
  /\ UNCHANGED <<count, owed, added, gate, queue, mode, pc>>

Expire(p) ==
  /\ wait[p] = "parked" /\ mode[p] = "timed"
  /\ wait' = Wins(wait, p, "timeout")
  /\ UNCHANGED <<count, owed, added, gate, queue, mode, pc>>

Next == \E p \in Procs :
  \/ Add(p) \/ Done(p) \/ NotifyZero(p)
  \/ \E m \in Modes : Look(p, m)
  \/ Lock(p) \/ Check(p) \/ Park(p) \/ Resume(p) \/ CancelWake(p) \/ Expire(p)

Spec == Init /\ [][Next]_vars

\* Everybody inside a call runs on.  Whether a task ever calls done is its own business.
\* Who needs the gate has it in the end though others take it again and again: the parking
\* lot wakes who waits for it.
Inside(p) == Lock(p) \/ Check(p) \/ Park(p) \/ Resume(p) \/ NotifyZero(p)

Fairness == \A p \in Procs : SF_vars(Inside(p))

FairSpec == Spec /\ Fairness

-----------------------------------------------------------------------------
(* Properties *)

\* A waiter sleeps over a group that is at zero only while the done that brought it there
\* still has to notify.
NoSleepAtZero ==
  WithReason(wait, Procs, "parked") # {} /\ count = 0 => \E p \in Procs : pc[p] = "zero"

\* A group that stays at zero lets everybody go.
WaitersReleased ==
  \A p \in Procs : <>[](count = 0) => []<>(pc[p] = "out")
=============================================================================
