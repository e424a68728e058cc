-------------------------------- MODULE Fifo --------------------------------
(***************************************************************************)
(* What the buffer of a channel promises: values leave in the order they   *)
(* came in.                                                                *)
(***************************************************************************)
EXTENDS Sequences

CONSTANTS Values, NoValue

VARIABLES queue,  \* the values held, oldest first
          out     \* the value the last Take handed out

vars == <<queue, out>>

Init == queue = <<>> /\ out = NoValue

Put(v) == queue' = Append(queue, v) /\ UNCHANGED out

Take ==
  /\ queue # <<>>
  /\ out' = Head(queue)
  /\ queue' = Tail(queue)

Next == Take \/ \E v \in Values : Put(v)

Spec == Init /\ [][Next]_vars
=============================================================================
