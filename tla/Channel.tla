------------------------------ MODULE Channel ------------------------------
(***************************************************************************)
(* A channel of std/parallel/channel.spc: a buffer, the counts of its      *)
(* sending and receiving handles and a closed flag under one mutex, and    *)
(* two condvars: not_full for senders, not_empty for receivers.  The       *)
(* buffer is a sequence here; module Ring is the ring that holds it.       *)
(*                                                                         *)
(* Each push owes at most one wake and each pop at most one, so a wake     *)
(* that nobody uses leaves a value beside a sleeping receiver.             *)
(*                                                                         *)
(* A value is <<sender, n>>, the sender's n-th.  A batch keeps the vector  *)
(* of its caller, which send_batch reverses while it works on it.          *)
(***************************************************************************)
EXTENDS Condvar

CONSTANTS Senders, Receivers,  \* tasks and threads: each holds at most one handle
          Tasks,               \* the coroutines: only these can be cancelled
          Capacity,            \* of the bounded channel
          MaxMade,             \* bound: the values a sender makes
          MaxBatch             \* bound: the length of a batch

ChannelAssumption ==
  /\ IsFiniteSet(Senders) /\ IsFiniteSet(Receivers) /\ Senders \cap Receivers = {}
  /\ Tasks \subseteq Senders \cup Receivers
  /\ Capacity \in Nat \ {0} /\ MaxMade \in Nat /\ MaxBatch \in Nat \ {0}

VARIABLES
  unbounded,           \* which channel it is: grow the buffer instead of waiting
  buf,                 \* the buffered values, oldest first
  senders, receivers,  \* the live-handle counts
  closed,
  notFull, notEmpty,   \* the waiters of the two condvars
  strong,              \* the handles that keep the block, the factory included
  freed,               \* the block is gone
  factory,             \* the Channel value is live
  wait,                \* each process's wait
  pc,                  \* where each process is
  timed,               \* who has a deadline
  items,               \* the values in a sender's call, in the order it keeps them
  max,                 \* how many values a receiver takes
  made,                \* how many values a sender has made
  taken,               \* history: the values received, in order
  back                 \* history: the values handed back to each sender, in order

block == <<senders, receivers, closed, strong, freed, factory>>
calls == <<timed, items, max, made>>
vars == <<unbounded, buf, block, notFull, notEmpty, wait, pc, calls, taken, back>>

Procs == Senders \cup Receivers

PCs == {"out",      \* holds no handle
        "idle",     \* holds a handle, in no call
        "send", "recv",
        "release",  \* dropped its handle and has not released the block
        "unwind"}   \* accepted a cancellation: only drops its handle

Init ==
  /\ unbounded \in BOOLEAN
  /\ buf = <<>>
  /\ senders = 0 /\ receivers = 0
  /\ closed = FALSE /\ freed = FALSE /\ factory = TRUE
  /\ strong = 1
  /\ notFull = <<>> /\ notEmpty = <<>>
  /\ wait = [p \in Procs |-> "none"]
  /\ pc = [p \in Procs |-> "out"]
  /\ timed = {}
  /\ items = [p \in Senders |-> <<>>]
  /\ max = [p \in Receivers |-> 0]
  /\ made = [p \in Senders |-> 0]
  /\ taken = <<>>
  /\ back = [p \in Senders |-> <<>>]

Goto(p, l) == pc' = [pc EXCEPT ![p] = l]

Least(m, n) == IF m < n THEN m ELSE n

-----------------------------------------------------------------------------
(* Handles *)

\* Mutant of Retained: a new handle does not retain the block.
Retained_Not(n) == n

Retained(n) == n + 1

\* Sender::clone, Receiver::clone and the factory's sender() and receiver(): q gets a handle.
GetHandle(q) ==
  /\ pc[q] = "out"
  /\ \/ factory
     \/ \E p \in Procs : pc[p] = "idle" /\ (p \in Senders <=> q \in Senders)
  /\ IF q \in Senders THEN senders' = senders + 1 /\ UNCHANGED receivers
     ELSE receivers' = receivers + 1 /\ UNCHANGED senders
  /\ strong' = Retained(strong)
  /\ Goto(q, "idle")
  /\ UNCHANGED <<unbounded, buf, closed, freed, factory, notFull, notEmpty, wait, calls,
                 taken, back>>

\* The handle p drops is the last of its kind.
LastOut(p) == IF p \in Senders THEN senders = 1 ELSE receivers = 1

\* Sender::free, Receiver::free, under the mutex: the last one out wakes the other side.
Drop(p) ==
  /\ pc[p] \in {"idle", "unwind"}
  /\ IF p \in Senders
       THEN /\ senders' = senders - 1
            /\ IF LastOut(p)
                 THEN wait' = WokenAll(notEmpty, wait) /\ notEmpty' = <<>>
                 ELSE UNCHANGED <<wait, notEmpty>>
            /\ UNCHANGED <<receivers, notFull>>
       ELSE /\ receivers' = receivers - 1
            /\ IF LastOut(p)
                 THEN wait' = WokenAll(notFull, wait) /\ notFull' = <<>>
                 ELSE UNCHANGED <<wait, notFull>>
            /\ UNCHANGED <<senders, notEmpty>>
  /\ Goto(p, "release")
  /\ UNCHANGED <<unbounded, buf, closed, strong, freed, factory, calls, taken, back>>

\* release: whoever brings the count to zero frees the block.
ReleaseBlock ==
  /\ strong' = strong - 1
  /\ freed' = (strong = 1)

Release(p) ==
  /\ pc[p] = "release"
  /\ ReleaseBlock
  /\ Goto(p, "out")
  /\ UNCHANGED <<unbounded, buf, senders, receivers, closed, factory, notFull, notEmpty,
                 wait, calls, taken, back>>

\* Dropping the Channel value closes nothing.
DropFactory ==
  /\ factory
  /\ factory' = FALSE
  /\ ReleaseBlock
  /\ UNCHANGED <<unbounded, buf, senders, receivers, closed, notFull, notEmpty, wait, pc,
                 calls, taken, back>>

CloseWakes(w) == WokenAll(notFull, WokenAll(notEmpty, w))

Close(p) ==
  /\ p \in Senders /\ pc[p] = "idle"
  /\ closed' = TRUE
  /\ wait' = CloseWakes(wait)
  /\ notFull' = <<>> /\ notEmpty' = <<>>
  /\ UNCHANGED <<unbounded, buf, senders, receivers, strong, freed, factory, pc, calls,
                 taken, back>>

-----------------------------------------------------------------------------
(* Sending *)

Rejecting == closed \/ receivers = 0
Room == IF unbounded THEN MaxMade * Cardinality(Senders) ELSE Capacity - Len(buf)

Fresh(p, n) == [i \in 1..n |-> <<p, made[p] + i>>]

\* send, send_timeout, send_batch are called.  A batch has no deadline and is reversed.
BeginSend(p, n, t) ==
  /\ pc[p] = "idle" /\ p \in Senders
  /\ made[p] + n <= MaxMade
  /\ t => n = 1
  /\ made' = [made EXCEPT ![p] = @ + n]
  /\ items' = [items EXCEPT ![p] = Reverse(Fresh(p, n))]
  /\ timed' = IF t THEN timed \cup {p} ELSE timed
  /\ Goto(p, "send")
  /\ UNCHANGED <<unbounded, buf, block, notFull, notEmpty, wait, max, taken, back>>

\* Mutant of HandedBack: what was not sent dies with the call.
HandedBack_Lost(s) == <<>>

\* What is left of a batch, reversed back for the caller.
HandedBack(s) == Reverse(s)

\* The call ends; what was not sent is the caller's again.
SendReturns(p, rest, l) ==
  /\ back' = [back EXCEPT ![p] = @ \o HandedBack(rest)]
  /\ items' = [items EXCEPT ![p] = <<>>]
  /\ timed' = timed \ {p}
  /\ Goto(p, l)

Push(values) ==
  /\ buf' = buf \o values
  /\ notEmpty' = Left(notEmpty, wait, Len(values))

\* The sender has the mutex: its loop body, up to the next park, unlock or return.  A batch
\* that did not fit unlocks after each run, takes the mutex again and goes on.
SendStep(p) ==
  /\ pc[p] = "send" /\ wait[p] \in {"none", "notify", "timeout"}
  /\ LET s == items[p]
         n == Least(Len(s), Room)
         rest == SubSeq(s, 1, Len(s) - n)
     IN  \/ /\ Rejecting
            /\ SendReturns(p, s, "idle")
            /\ notFull' = Unlink(notFull, p)
            /\ wait' = Over(wait, p)
            /\ UNCHANGED <<buf, notEmpty>>
         \/ /\ ~Rejecting /\ n > 0
            /\ Push(Reverse(SubSeq(s, Len(s) - n + 1, Len(s))))
            /\ wait' = Over(Woken(notEmpty, wait, n), p)
            /\ notFull' = Unlink(notFull, p)
            /\ IF rest = <<>> THEN SendReturns(p, <<>>, "idle")
               ELSE items' = [items EXCEPT ![p] = rest] /\ UNCHANGED <<pc, timed, back>>
         \/ /\ ~Rejecting /\ n = 0 /\ wait[p] # "timeout"
            /\ notFull' = Register(Unlink(notFull, p), p)
            /\ wait' = Parks(wait, p)
            /\ UNCHANGED <<buf, notEmpty, pc, items, timed, back>>
         \/ /\ ~Rejecting /\ n = 0 /\ p \in timed   \* the deadline has passed
            /\ SendReturns(p, s, "idle")
            /\ notFull' = Unlink(notFull, p)
            /\ wait' = Over(wait, p)
            /\ UNCHANGED <<buf, notEmpty>>
  /\ UNCHANGED <<unbounded, block, max, made, taken>>

\* A cancelled send hands its values back and unwinds.
SendCancelled(p) ==
  /\ pc[p] = "send" /\ wait[p] = "cancel"
  /\ SendReturns(p, items[p], "unwind")
  /\ notFull' = Unlink(notFull, p)
  /\ wait' = Over(wait, p)
  /\ UNCHANGED <<unbounded, buf, block, notEmpty, max, made, taken>>

TrySend(p) ==
  /\ pc[p] = "idle" /\ p \in Senders /\ made[p] < MaxMade
  /\ made' = [made EXCEPT ![p] = @ + 1]
  /\ IF Rejecting \/ Room = 0
       THEN /\ back' = [back EXCEPT ![p] = @ \o Fresh(p, 1)]
            /\ UNCHANGED <<buf, notEmpty, wait>>
       ELSE /\ Push(Fresh(p, 1))
            /\ wait' = Woken(notEmpty, wait, 1)
            /\ UNCHANGED back
  /\ UNCHANGED <<unbounded, block, notFull, pc, timed, items, max, taken>>

-----------------------------------------------------------------------------
(* Receiving *)

\* recv, recv_timeout, recv_batch are called.  A batch has no deadline.
BeginRecv(p, n, t) ==
  /\ pc[p] = "idle" /\ p \in Receivers
  /\ t => n = 1
  /\ max' = [max EXCEPT ![p] = n]
  /\ timed' = IF t THEN timed \cup {p} ELSE timed
  /\ Goto(p, "recv")
  /\ UNCHANGED <<unbounded, buf, block, notFull, notEmpty, wait, items, made, taken, back>>

RecvReturns(p, l) ==
  /\ max' = [max EXCEPT ![p] = 0]
  /\ timed' = timed \ {p}
  /\ Goto(p, l)

\* Nothing is left and nothing can come.
Drained == buf = <<>> /\ (closed \/ senders = 0)

\* Mutant of Freed: a run of freed slots wakes one sender.
Freed_One(n) == IF n > 0 THEN 1 ELSE 0

\* The wakes a run of n freed slots owes.
Freed(n) == n

Pop(n) ==
  /\ taken' = taken \o SubSeq(buf, 1, n)
  /\ buf' = SubSeq(buf, n + 1, Len(buf))
  /\ notFull' = Left(notFull, wait, Freed(n))

\* The receiver has the mutex.
RecvStep(p) ==
  /\ pc[p] = "recv" /\ wait[p] \in {"none", "notify", "timeout"}
  /\ LET n == Least(max[p], Len(buf))
     IN  \/ /\ n > 0
            /\ Pop(n)
            /\ wait' = Over(Woken(notFull, wait, Freed(n)), p)
            /\ notEmpty' = Unlink(notEmpty, p)
            /\ RecvReturns(p, "idle")
         \/ /\ Drained
            /\ RecvReturns(p, "idle")
            /\ notEmpty' = Unlink(notEmpty, p)
            /\ wait' = Over(wait, p)
            /\ UNCHANGED <<buf, notFull, taken>>
         \/ /\ n = 0 /\ ~Drained /\ wait[p] # "timeout"
            /\ notEmpty' = Register(Unlink(notEmpty, p), p)
            /\ wait' = Parks(wait, p)
            /\ UNCHANGED <<buf, notFull, taken, max, timed, pc>>
         \/ /\ n = 0 /\ ~Drained /\ p \in timed   \* the deadline has passed
            /\ RecvReturns(p, "idle")
            /\ notEmpty' = Unlink(notEmpty, p)
            /\ wait' = Over(wait, p)
            /\ UNCHANGED <<buf, notFull, taken>>
  /\ UNCHANGED <<unbounded, block, items, made, back>>

\* A cancelled receive takes no value and unwinds.
RecvCancelled(p) ==
  /\ pc[p] = "recv" /\ wait[p] = "cancel"
  /\ RecvReturns(p, "unwind")
  /\ notEmpty' = Unlink(notEmpty, p)
  /\ wait' = Over(wait, p)
  /\ UNCHANGED <<unbounded, buf, block, notFull, items, made, taken, back>>

TryRecv(p) ==
  /\ pc[p] = "idle" /\ p \in Receivers /\ buf # <<>>
  /\ Pop(1)
  /\ wait' = Woken(notFull, wait, Freed(1))
  /\ UNCHANGED <<unbounded, block, notEmpty, pc, calls, back>>

-----------------------------------------------------------------------------
(* Other wakers, and the whole *)

CancelWake(p) ==
  /\ wait[p] = "parked" /\ p \in Tasks
  /\ wait' = Wins(wait, p, "cancel")
  /\ UNCHANGED <<unbounded, buf, block, notFull, notEmpty, pc, calls, taken, back>>

Expire(p) ==
  /\ wait[p] = "parked" /\ p \in timed
  /\ wait' = Wins(wait, p, "timeout")
  /\ UNCHANGED <<unbounded, buf, block, notFull, notEmpty, pc, calls, taken, back>>

Next ==
  \/ DropFactory
  \/ \E p \in Procs :
       \/ GetHandle(p) \/ Drop(p) \/ Release(p) \/ Close(p)
       \/ \E n \in 1..MaxBatch, t \in BOOLEAN : BeginSend(p, n, t) \/ BeginRecv(p, n, t)
       \/ SendStep(p) \/ SendCancelled(p) \/ TrySend(p)
       \/ RecvStep(p) \/ RecvCancelled(p) \/ TryRecv(p)
       \/ CancelWake(p) \/ Expire(p)

Spec == Init /\ [][Next]_vars

-----------------------------------------------------------------------------
(* Properties *)

Holding(S) == {p \in S : pc[p] \notin {"out", "release"}}

\* The counts are the live handles, and the block lives as long as anybody can touch it,
\* the task included that dropped its handle and still has to release the block.
HandlesCounted ==
  /\ senders = Cardinality(Holding(Senders))
  /\ receivers = Cardinality(Holding(Receivers))
  /\ strong = Cardinality({p \in Procs : pc[p] # "out"}) + (IF factory THEN 1 ELSE 0)
  /\ freed <=> strong = 0

\* While anybody of S sleeps, each of n has a woken member of S on its way to it.
Served(S, n) ==
  WithReason(wait, S, "parked") # {} => n <= Cardinality(WithReason(wait, S, "notify"))

\* While a receiver sleeps, every buffered value has a woken receiver on its way to it, and
\* while a sender sleeps, every free slot a woken sender: no wake is spent on a wait that
\* timed out or was cancelled, and a batch wakes as many as it serves.
SidesServed == Served(Receivers, Len(buf)) /\ Served(Senders, Room)

\* Nobody sleeps on a channel whose other side is gone or that was closed.
NobodySleepsOnClosed ==
  /\ WithReason(wait, Receivers, "parked") # {} => ~closed /\ senders > 0
  /\ WithReason(wait, Senders, "parked") # {} => ~Rejecting

Made == UNION {{<<p, i>> : i \in 1..made[p]} : p \in Senders}
InHand(p) == items[p] \o back[p]

\* Every value is in one place: in a sender's hand, in the buffer, or received. None is lost
\* or doubled by a rejection, a timeout, a cancellation or half a batch.
ValuesConserved ==
  /\ ToSet(buf) \cup ToSet(taken) \cup UNION {ToSet(InHand(p)) : p \in Senders} = Made
  /\ Len(buf) + Len(taken) + MapThenSumSet(LAMBDA p : Len(InHand(p)), Senders)
       = Cardinality(Made)

InOrder(s) ==
  \A i, j \in DOMAIN s : i < j /\ s[i][1] = s[j][1] => s[i][2] < s[j][2]

\* What one sender sent arrives in the order it was sent in, whatever wakes, batches and
\* receivers come between, and what is handed back to it is in order too.
OrderKept == InOrder(taken \o buf) /\ \A p \in Senders : InOrder(back[p])

\* Every value reaches one receiver or its sender again, once and in the order it was sent.
ValuesKept == ValuesConserved /\ OrderKept

\* Nobody sleeps beside what he waits for: values, room, or the end of the channel.
NobodyForgotten == SidesServed /\ NobodySleepsOnClosed
=============================================================================
