-------------------------------- MODULE Lock --------------------------------
(***************************************************************************)
(* What std/parallel/sync.spc promises of its locks: one owner, a waiter   *)
(* leaves only with the lock or with its cancellation accepted, and a lock *)
(* that is free and wanted is eventually taken.                            *)
(***************************************************************************)
CONSTANTS Procs, Locks, NoProc, NoLock

VARIABLES owner,   \* who holds each lock
          wants,   \* which lock a process is in the middle of acquiring
          cancel   \* each process's cancellation

vars == <<owner, wants, cancel>>

Init ==
  /\ owner = [m \in Locks |-> NoProc]
  /\ wants = [p \in Procs |-> NoLock]
  /\ cancel = [p \in Procs |-> "none"]

Idle(p) == wants[p] = NoLock /\ \A m \in Locks : owner[m] # p

Ask(p, m) ==
  /\ Idle(p)
  /\ wants' = [wants EXCEPT ![p] = m]
  /\ UNCHANGED <<owner, cancel>>

\* A wait ends with the lock; an uncontended acquisition does not wait at all.
Take(p, m) ==
  /\ owner[m] = NoProc
  /\ wants[p] = m \/ Idle(p)
  /\ owner' = [owner EXCEPT ![m] = p]
  /\ wants' = [wants EXCEPT ![p] = NoLock]
  /\ UNCHANGED cancel

GiveUp(p) ==
  /\ wants[p] # NoLock /\ cancel[p] = "requested"
  /\ wants' = [wants EXCEPT ![p] = NoLock]
  /\ cancel' = [cancel EXCEPT ![p] = "accepted"]
  /\ UNCHANGED owner

Drop(p, m) ==
  /\ owner[m] = p
  /\ owner' = [owner EXCEPT ![m] = NoProc]
  /\ UNCHANGED <<wants, cancel>>

\* A request arrives, a cancellation point accepts it, the block hosts a new task.
CancelChanges(p) ==
  /\ \/ cancel[p] = "none" /\ cancel' = [cancel EXCEPT ![p] = "requested"]
     \/ cancel[p] = "requested" /\ Idle(p) /\ cancel' = [cancel EXCEPT ![p] = "accepted"]
     \/ cancel[p] = "accepted" /\ Idle(p) /\ cancel' = [cancel EXCEPT ![p] = "none"]
  /\ UNCHANGED <<owner, wants>>

Next == \E p \in Procs :
  \/ GiveUp(p) \/ CancelChanges(p)
  \/ \E m \in Locks : Ask(p, m) \/ Take(p, m) \/ Drop(p, m)

Spec == Init /\ [][Next]_vars

\* Somebody who wants m takes it.
TakeWanted(m) == \E p \in Procs : wants[p] = m /\ Take(p, m)

\* The owner of a lock always drops it.
FairSpec == Spec /\ \A m \in Locks : WF_vars(TakeWanted(m))
=============================================================================
