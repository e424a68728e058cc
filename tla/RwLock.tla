------------------------------- MODULE RwLock -------------------------------
(***************************************************************************)
(* RwLock of std/parallel/sync.spc: many readers or one writer, over a     *)
(* mutex held only while acquiring and releasing.  A reader also waits for *)
(* the writers that wait, so the count of those writers decides whether a  *)
(* free lock can be read.  Every change of it is announced to everybody.   *)
(***************************************************************************)
EXTENDS Condvar

CONSTANTS Procs,   \* coroutines and plain threads
          Tasks,   \* the coroutines: only these can be cancelled
          Writers  \* who asks to write; the others read

RwLockAssumption == IsFiniteSet(Procs) /\ Writers \subseteq Procs /\ Tasks \subseteq Procs

VARIABLES
  readers, writer, waiting,  \* RwState (waiting: waiting_writers)
  queue,  \* the condvar's waiters
  wait,   \* each process's wait
  pc,     \* where each process is
  masked  \* who waits in read or write, which a cancellation does not end

vars == <<readers, writer, waiting, queue, wait, pc, masked>>

Readers == Procs \ Writers

PCs == {"out", "wants", "reading", "writing"}

Init ==
  /\ readers = 0 /\ writer = FALSE /\ waiting = 0
  /\ queue = <<>>
  /\ wait = [p \in Procs |-> "none"]
  /\ pc = [p \in Procs |-> "out"]
  /\ masked = {}

Goto(p, l) == pc' = [pc EXCEPT ![p] = l]
NotifyAll == wait' = WokenAll(queue, wait) /\ queue' = <<>>

\* Mutant of Readable: a reader does not wait for the writers that wait.
Readable_Barging == ~writer

Readable == ~writer /\ waiting = 0

\* Mutant of Writable: the writer looks for another writer only.
Writable_Shared == ~writer

Writable == ~writer /\ readers = 0

-----------------------------------------------------------------------------
(* Acquiring *)

\* read, read_c, try_read.  try_read on a lock that is not readable changes nothing.
Read(p) ==
  /\ pc[p] = "out" /\ p \in Readers
  /\ \/ /\ Readable
        /\ readers' = readers + 1
        /\ Goto(p, "reading")
        /\ UNCHANGED <<queue, wait, masked>>
     \/ /\ ~Readable
        /\ queue' = Register(queue, p)
        /\ wait' = Parks(wait, p)
        /\ Goto(p, "wants")
        /\ masked' \in {masked, masked \cup {p}}
        /\ UNCHANGED readers
  /\ UNCHANGED <<writer, waiting>>

\* write, write_c: counted as waiting until it has the lock.
Write(p) ==
  /\ pc[p] = "out" /\ p \in Writers
  /\ \/ /\ Writable
        /\ writer' = TRUE
        /\ Goto(p, "writing")
        /\ UNCHANGED <<waiting, queue, wait, masked>>
     \/ /\ ~Writable
        /\ waiting' = waiting + 1
        /\ queue' = Register(queue, p)
        /\ wait' = Parks(wait, p)
        /\ Goto(p, "wants")
        /\ masked' \in {masked, masked \cup {p}}
        /\ UNCHANGED writer
  /\ UNCHANGED readers

\* A woken waiter has the mutex again: it acquires or waits once more.
ResumeRead(p) ==
  /\ wait[p] = "notify" /\ p \in Readers
  /\ IF Readable
       THEN /\ readers' = readers + 1
            /\ Goto(p, "reading")
            /\ masked' = masked \ {p}
            /\ queue' = Unlink(queue, p) /\ wait' = Over(wait, p)
       ELSE /\ queue' = Register(queue, p) /\ wait' = Parks(wait, p)
            /\ UNCHANGED <<readers, pc, masked>>
  /\ UNCHANGED <<writer, waiting>>

ResumeWrite(p) ==
  /\ wait[p] = "notify" /\ p \in Writers
  /\ IF Writable
       THEN /\ writer' = TRUE
            /\ waiting' = waiting - 1
            /\ Goto(p, "writing")
            /\ masked' = masked \ {p}
            /\ queue' = Unlink(queue, p) /\ wait' = Over(wait, p)
       ELSE /\ queue' = Register(queue, p) /\ wait' = Parks(wait, p)
            /\ UNCHANGED <<writer, waiting, pc, masked>>
  /\ UNCHANGED readers

-----------------------------------------------------------------------------
(* Cancelled waits *)

CancelWake(p) ==
  /\ wait[p] = "parked" /\ p \in Tasks \ masked
  /\ wait' = Wins(wait, p, "cancel")
  /\ UNCHANGED <<readers, writer, waiting, queue, pc, masked>>

\* A cancelled reader leaves the counts alone.
CancelledRead(p) ==
  /\ wait[p] = "cancel" /\ p \in Readers
  /\ queue' = Unlink(queue, p) /\ wait' = Over(wait, p)
  /\ Goto(p, "out")
  /\ UNCHANGED <<readers, writer, waiting, masked>>

\* Writers still wait: the readers they hold back stay asleep.
GoneQuiet(n) == n > 0

Uncounted(n) == n - 1

\* A cancelled writer takes itself off the count; if it was the last, whoever it held back may go.
CancelledWrite(p) ==
  /\ wait[p] = "cancel" /\ p \in Writers
  /\ waiting' = Uncounted(waiting)
  /\ LET q == Unlink(queue, p)
         w == Over(wait, p)
     IN  IF GoneQuiet(waiting - 1) THEN queue' = q /\ wait' = w
         ELSE queue' = <<>> /\ wait' = WokenAll(q, w)
  /\ Goto(p, "out")
  /\ UNCHANGED <<readers, writer, masked>>

-----------------------------------------------------------------------------
(* Releasing *)

\* The last reader out wakes everybody.
UnlockRead(p) ==
  /\ pc[p] = "reading"
  /\ readers' = readers - 1
  /\ Goto(p, "out")
  /\ IF readers = 1 THEN NotifyAll ELSE UNCHANGED <<queue, wait>>
  /\ UNCHANGED <<writer, waiting, masked>>

UnlockWrite(p) ==
  /\ pc[p] = "writing"
  /\ writer' = FALSE
  /\ Goto(p, "out")
  /\ NotifyAll
  /\ UNCHANGED <<readers, waiting, masked>>

Next == \E p \in Procs :
  \/ Read(p) \/ Write(p) \/ ResumeRead(p) \/ ResumeWrite(p)
  \/ CancelWake(p) \/ CancelledRead(p) \/ CancelledWrite(p)
  \/ UnlockRead(p) \/ UnlockWrite(p)

Spec == Init /\ [][Next]_vars

\* A woken waiter runs on; a guard is dropped in the end.  Nobody has to ask for the lock.
Inside(p) ==
  ResumeRead(p) \/ ResumeWrite(p) \/ CancelledRead(p) \/ CancelledWrite(p)
    \/ UnlockRead(p) \/ UnlockWrite(p)

Fairness == \A p \in Procs : WF_vars(Inside(p))

FairSpec == Spec /\ Fairness

-----------------------------------------------------------------------------
(* Properties *)

In(l) == {p \in Procs : pc[p] = l}

\* One writer and no reader, or any number of readers; and the state agrees with who holds a
\* guard and which writers wait: one that was cancelled holds no reader back.
Exclusion ==
  /\ readers = Cardinality(In("reading"))
  /\ writer <=> In("writing") # {}
  /\ Cardinality(In("writing")) <= 1
  /\ ~(In("writing") # {} /\ In("reading") # {})
  /\ waiting = Cardinality(In("wants") \cap Writers)

\* Who sleeps has a reason to: a reader a writer that holds or wants the lock, a writer
\* somebody who holds it.
NobodyStranded ==
  \A p \in WithReason(wait, Procs, "parked") :
    IF p \in Writers THEN writer \/ readers > 0 ELSE writer \/ waiting > 0

\* A steady stream of readers does not starve the writers: on a lock no writer holds, some
\* writer that waits gets in, or they all give up.  Nothing is promised among writers.
WriterNotStarved == (waiting > 0 /\ ~writer) ~> (waiting = 0 \/ writer)
=============================================================================
