----------------------------- MODULE MCSelector -----------------------------
(* Small instances of Selector for TLC. *)
EXTENDS Selector

\* Two channels in either order; one channel twice.
MCLists == {<<2, 1>>, <<1, 2>>}
MCTwice == {<<1, 1>>}
=============================================================================
