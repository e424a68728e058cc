-------------------------------- MODULE Ring --------------------------------
(***************************************************************************)
(* The ring of ChannelState in std/parallel/channel.spc, under the         *)
(* channel's mutex: push, pop, and the resizes of an unbounded channel's   *)
(* ring.  A payload without a size has no slots and is left out.           *)
(*                                                                         *)
(* A slot whose value was moved out holds NoValue: in the program it holds *)
(* the bits of a value that now lives elsewhere, to be read by nobody.     *)
(***************************************************************************)
EXTENDS Naturals, Sequences

CONSTANTS Values, NoValue,
          Capacity,  \* of a bounded channel
          Start,     \* UNBOUNDED_START
          MaxCount   \* bound: the values held at once

RingAssumption ==
  /\ NoValue \notin Values
  /\ Capacity \in Nat \ {0} /\ Start \in Nat \ {0} /\ MaxCount \in Nat

VARIABLES
  unbounded,                \* which channel it is
  slots, cap, head, count,  \* the ring
  heap,                     \* heap_ring: it outgrew the inline ring
  out                       \* what the last pop returned

vars == <<unbounded, slots, cap, head, count, heap, out>>

Blank(n) == [k \in 0..(n - 1) |-> NoValue]

Init ==
  /\ unbounded \in BOOLEAN
  /\ cap = IF unbounded THEN Start ELSE Capacity
  /\ slots = Blank(cap)
  /\ head = 0 /\ count = 0
  /\ heap = FALSE
  /\ out = NoValue

\* The slot of the k-th value from h.
At(h, k, n) == (h + k) % n

\* Mutant of Moved: the slots are copied as they lie.
Moved_Flat(s, h, n, m, l) == [k \in 0..(l - 1) |-> IF k < n THEN s[k] ELSE NoValue]

\* resize: the n values from h on, of a ring s of m slots, moved to index 0 of l slots.
Moved(s, h, n, m, l) == [k \in 0..(l - 1) |-> IF k < n THEN s[At(h, k, m)] ELSE NoValue]

PutAt(s, h, n, m, v) == [s EXCEPT ![At(h, n, m)] = v]

Push(v) ==
  /\ count < cap \/ unbounded
  /\ count < MaxCount
  /\ IF count = cap   \* grow
       THEN /\ slots' = PutAt(Moved(slots, head, count, cap, 2 * cap), 0, count, 2 * cap, v)
            /\ cap' = 2 * cap
            /\ head' = 0
            /\ heap' = TRUE
       ELSE /\ slots' = PutAt(slots, head, count, cap, v)
            /\ UNCHANGED <<cap, head, heap>>
  /\ count' = count + 1
  /\ UNCHANGED <<unbounded, out>>

\* Mutant of Shrinks: the ring is halved as soon as half of it is free.
Shrinks_Half(n, m, b) == b /\ m > 2 * Start /\ n <= m \div 2

\* Mutant of Shrinks: the ring keeps what a burst grew it to.
Shrinks_Never(n, m, b) == FALSE

\* Three quarters of a heap ring of m slots are free, and it is not the smallest one.
Shrinks(n, m, b) == b /\ m > 2 * Start /\ n < m \div 4

Pop ==
  /\ count > 0
  /\ out' = slots[head]
  /\ count' = count - 1
  /\ LET h == (head + 1) % cap
         s == [slots EXCEPT ![head] = NoValue]
     IN  IF Shrinks(count - 1, cap, heap)
           THEN /\ slots' = Moved(s, h, count - 1, cap, cap \div 2)
                /\ cap' = cap \div 2
                /\ head' = 0
           ELSE /\ slots' = s
                /\ head' = h
                /\ UNCHANGED cap
  /\ UNCHANGED <<unbounded, heap>>

Next == Pop \/ \E v \in Values : Push(v)

Spec == Init /\ [][Next]_vars

-----------------------------------------------------------------------------
(* Properties *)

\* The values held, oldest first.
Contents == [i \in 1..count |-> slots[At(head, i - 1, cap)]]

Queue == INSTANCE Fifo WITH queue <- Contents

\* Every variable keeps to its type; the ring is never empty of slots nor over-full.
TypeOK ==
  /\ unbounded \in BOOLEAN /\ heap \in BOOLEAN
  /\ cap \in Nat \ {0} /\ count \in 0..cap /\ head \in 0..(cap - 1)
  /\ slots \in [0..(cap - 1) -> Values \cup {NoValue}]
  /\ \A i \in 1..count : Contents[i] \in Values
  /\ out \in Values \cup {NoValue}
  /\ heap => unbounded

\* The ring hands values out as a queue does, across wrap-around, growth and shrinking.
IsFifo == Queue!Spec

\* A ring that was just resized takes a push and a pop without another resize: at the
\* boundary a channel does not copy its buffer on every operation.
NoThrashing ==
  [][cap' # cap => count' < cap' /\ ~Shrinks(count' - 1, cap', heap')]_vars

\* A ring that a burst grew is kept at least a quarter full, but for the smallest heap ring.
BurstGivenBack == heap /\ cap > 2 * Start => count >= cap \div 4
=============================================================================
