------------------------------- MODULE Timers -------------------------------
(***************************************************************************)
(* What the scheduler's timers promise: a set of entries, at most one for  *)
(* a coroutine, of which the due ones come out in the order of their       *)
(* deadlines, and of their arming when those are equal.                    *)
(***************************************************************************)
EXTENDS Integers, FiniteSets, Sequences

CONSTANTS Coroutines, Deadlines,
          Batch  \* PROMOTE_BATCH

VARIABLES
  armed,  \* set of [dl, seq, co]
  fired   \* the coroutines promote_expired took out, in order, if it ran last

Before(a, b) == a.dl < b.dl \/ (a.dl = b.dl /\ a.seq < b.seq)

Init == armed = {} /\ fired = <<>>

Arm(c, d) ==
  /\ \A e \in armed : e.co # c
  /\ \E e \in armed' :
       /\ e = [dl |-> d, seq |-> e.seq, co |-> c]
       /\ \A a \in armed : a.seq < e.seq
       /\ armed' = armed \cup {e}
  /\ fired' = <<>>

Disarm(c) == armed' = {e \in armed : e.co # c} /\ fired' = <<>>

\* The due entries that come before all others, as many as one batch takes.
Promote(now) ==
  LET due == {e \in armed : e.dl <= now}
      first == {e \in due : Cardinality({a \in due : Before(a, e)}) < Batch}
  IN  /\ armed' = armed \ first
      /\ fired' = [i \in 1 .. Cardinality(first) |->
                    (CHOOSE e \in first : Cardinality({a \in first : Before(a, e)}) = i - 1).co]

Next ==
  \/ \E c \in Coroutines : Disarm(c) \/ \E d \in Deadlines : Arm(c, d)
  \/ \E now \in Deadlines : Promote(now)

Spec == Init /\ [][Next]_<<armed, fired>>
=============================================================================
