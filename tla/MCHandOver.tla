----------------------------- MODULE MCHandOver -----------------------------
(* What goes from one to another: values through a channel, and through the ring that is under
   it.  A run picks one, the other stays where it starts.  The channel is picked as one sender
   feeds two receivers, and as two senders feed one receiver at a time. *)
EXTENDS Channel, TLC

CONSTANTS Values, NoValue, RingCapacity, Start, MaxCount, MaxShare

VARIABLES
  which,
  grows, slots, cap, head, count, heap, out

Rng == INSTANCE Ring WITH unbounded <- grows, Capacity <- RingCapacity

ASSUME HandOverAssumption ==
  ChannelAssumption /\ Rng!RingAssumption /\ MaxShare \in 1..MaxMade

ringVars == <<grows, slots, cap, head, count, heap, out>>
allVars == <<which, vars, ringVars>>

Channels == {"spread", "gather"}

MCInit ==
  /\ which \in Channels \cup {"ring"}
  /\ Init /\ Rng!Init
  /\ IF which = "ring" THEN unbounded ELSE grows   \* the other one, of one kind

First == CHOOSE s \in Senders : TRUE

\* One sender, and everybody receives.
SpreadNext == Next /\ \A s \in Senders \ {First} : pc'[s] = "out"

\* Every sender has a few values, and one receiver at a time has a handle.
GatherNext ==
  /\ Next
  /\ \A s \in Senders : made'[s] <= MaxShare
  /\ Cardinality({r \in Receivers : pc'[r] # "out"}) <= 1

\* A channel that is gone may stand still.
Quiet == which \in Channels /\ freed

MCNext ==
  \/ which = "ring" /\ Rng!Next /\ UNCHANGED <<which, vars>>
  \/ which = "spread" /\ SpreadNext /\ UNCHANGED <<which, ringVars>>
  \/ which = "gather" /\ GatherNext /\ UNCHANGED <<which, ringVars>>
  \/ Quiet /\ UNCHANGED allVars

MCSpec == MCInit /\ [][MCNext]_allVars

\* The receivers are alike.
Symmetry == Permutations(Receivers)

-----------------------------------------------------------------------------
(* Properties of the ring, under the names of its module *)

\* A ring that a burst grew is kept at least a quarter full, but for the smallest heap ring.
BurstGivenBack == Rng!BurstGivenBack

\* The ring hands values out as a queue does, across wrap-around, growth and shrinking.
IsFifo == Rng!IsFifo

\* A ring that was just resized takes a push and a pop without another resize.
NoThrashing == Rng!NoThrashing
=============================================================================
