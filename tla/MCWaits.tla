------------------------------ MODULE MCWaits ------------------------------
(* The waits that must end under fair scheduling: on the parking-lot lock, on a wait group, on
   a reader-writer lock, and a park with a canceller, one at a time: a run picks one, the others
   stay where they start, where nothing is enabled that must happen. *)
EXTENDS RawMutex

CONSTANTS
  MaxAdd, RwProcs, RwTasks, Writers,
  Blocks, Workers, Queues, Lot, NoQueue, NoBlock, MaxGen, MaxLife, MaxLooks

VARIABLES
  which,
  count, owed, added, gate, wgQueue, wgWait, mode, wgPc,
  readers, writer, waiting, rwQueue, rwWait, rwPc, masked,
  gen, claimed, phase, coCan, cur, outer, coCancel, coMasked, handoff, life, coPc, runq, wpc,
  wtask, timers, nodes, coHeld, asker

Wg == INSTANCE WaitGroup WITH queue <- wgQueue, wait <- wgWait, pc <- wgPc

Rw == INSTANCE RwLock WITH
  Procs <- RwProcs, Tasks <- RwTasks, queue <- rwQueue, wait <- rwWait, pc <- rwPc

Co == INSTANCE Park WITH
  pc <- coPc, canPark <- coCan, cancel <- coCancel, masked <- coMasked, held <- coHeld

ASSUME WaitsAssumption == MaxAdd \in Nat /\ Rw!RwLockAssumption /\ Co!ParkAssumption

wgVars == <<count, owed, added, gate, wgQueue, wgWait, mode, wgPc>>
rwVars == <<readers, writer, waiting, rwQueue, rwWait, rwPc, masked>>
coVars == <<gen, claimed, phase, coCan, cur, outer, coCancel, coMasked, handoff, life, coPc, runq,
            wpc, wtask, timers, nodes, coHeld, asker>>
allVars == <<which, vars, wgVars, rwVars, coVars>>

MCInit ==
  /\ which \in {"mutex", "waitgroup", "rwlock", "park"}
  /\ Init /\ Wg!Init /\ Rw!Init /\ Co!Init

\* Everybody may wait for a group, or be out and done with it.
Quiet ==
  which = "waitgroup" /\ \A p \in Procs : wgPc[p] = "out" \/ wgWait[p] = "parked"

MCNext ==
  \/ which = "mutex" /\ Next /\ UNCHANGED <<which, wgVars, rwVars, coVars>>
  \/ which = "waitgroup" /\ Wg!Next /\ UNCHANGED <<which, vars, rwVars, coVars>>
  \/ which = "rwlock" /\ Rw!Next /\ UNCHANGED <<which, vars, wgVars, coVars>>
  \/ which = "park" /\ Co!Next /\ UNCHANGED <<which, vars, wgVars, rwVars>>
  \/ Quiet /\ UNCHANGED allVars

MCSpec ==
  /\ MCInit /\ [][MCNext]_allVars
  /\ Fairness /\ Wg!Fairness /\ Rw!Fairness /\ Co!Fairness

-----------------------------------------------------------------------------
(* Properties of the others, under the names of their modules *)

\* A group that stays at zero lets everybody go, and readers that come and go do not starve
\* the writers.
WaitsEnd == Wg!WaitersReleased /\ Rw!WriterNotStarved

\* A task parked in a cancellable wait with a request pending leaves the park, even if nobody
\* notifies it and its timer never fires.
RequestDelivered == Co!RequestDelivered
=============================================================================
