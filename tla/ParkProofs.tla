----------------------------- MODULE ParkProofs -----------------------------
(* For every number of blocks, workers and queues: a block has one owner, is runnable only with
   its context saved, leaves nothing of a wait behind, and no cancellation is lost or astray. *)
EXTENDS Park, FiniteSetTheorems, TLAPS

-----------------------------------------------------------------------------
(* The inductive invariant.  A generation that can still be claimed is one whose block is off its
   worker: everybody who may claim it, a tail, the canceller, the holder of a node or a timer,
   came to it after the context was saved.  The parts say so of each, and what keeps it so: whose
   lock a parking task holds, what a task's frames hold, and which tails are on a block. *)

TypeOfTasks ==
  [b : Blocks \cup {NoBlock}, tok : Gens, q : Queues \cup {NoQueue}, life : 0 .. MaxLife]
TypeOfRequests == [pc : AskerPCs, b : Blocks \cup {NoBlock}, life : 0 .. MaxLife,
                   tok : Gens, looks : 0 .. MaxLooks]

Types ==
  /\ gen \in [Blocks -> Gens]
  /\ claimed \in [Blocks -> Reasons]
  /\ phase \in [Blocks -> [tok : Gens, ph : Phases]]
  /\ canPark \in [Blocks -> BOOLEAN]
  /\ cur \in [Blocks -> Waits] /\ outer \in [Blocks -> Waits]
  /\ cancel \in [Blocks -> {"none", "requested", "accepted", "finished"}]
  /\ masked \in [Blocks -> BOOLEAN]
  /\ handoff \in [Blocks -> Nat]
  /\ life \in [Blocks -> 0 .. MaxLife]
  /\ pc \in [Blocks -> TaskPCs]
  /\ runq \in [Blocks -> 0 .. 1]
  /\ wpc \in [Workers -> WorkerPCs]
  /\ wtask \in [Workers -> TypeOfTasks]
  /\ \A w \in Workers : wpc[w] # "idle" => wtask[w].b \in Blocks
  /\ timers \subseteq [b : Blocks, tok : Gens]
  /\ nodes \in [Queues -> SUBSET [b : Blocks, tok : Gens]]
  /\ held \subseteq Queues
  /\ asker \in TypeOfRequests
  /\ asker.pc # "idle" => asker.b \in Blocks

\* A task from park_begin to its context switch: it holds the lock of the queue it waits on.
Opening == {"opened", "prepared", "switching"}

\* The waits in a task's frames: the one in progress, and the one a re-lock interrupted.
FrameOK(b) ==
  /\ pc[b] \in Opening \cup {"saved", "yielded", "resumed"} => cur[b].tok = gen[b]
  /\ pc[b] = "disarmed" => cur[b].tok <= gen[b]
  /\ pc[b] \in Opening \cup {"yielded"} => claimed[b] = "none"
  /\ pc[b] \in {"resumed", "disarmed"} => claimed[b] # "none" /\ cur[b].reason # "none"
  /\ cur[b].yields =>
       pc[b] \in {"opened", "prepared", "yielded"} /\ cur[b].q = NoQueue /\ outer[b] = NoWait
  /\ outer[b] # NoWait =>
       /\ pc[b] \in Opening \cup {"saved", "resumed", "disarmed"}
       /\ cur[b].q = Lot /\ ~cur[b].wants
       /\ outer[b].q \in Queues \ {Lot} /\ outer[b].tok < gen[b]
       /\ outer[b].reason # "none" /\ ~outer[b].yields

\* A phase says switching or parked of a task that is, in its own generation.
PhaseOK(b) ==
  /\ phase[b].tok <= gen[b]
  /\ phase[b].ph \in {"switching", "parked"} => phase[b].tok = gen[b]
  /\ phase[b].ph = "switching" => pc[b] \in {"switching", "saved"}
  /\ phase[b].ph = "parked" => pc[b] = "saved"
  /\ pc[b] = "switching" => phase[b].ph = "switching"

\* A block is queued once, when its context is saved and its wake is claimed.
QueuedOK(b) ==
  runq[b] = 1 => pc[b] \in {"ready", "yielded"} \/ (pc[b] = "saved" /\ claimed[b] # "none")

\* One worker executes a block whose code runs, or completes one whose code returned, and knows
\* which task of the block it is.
PlacedOK(b) ==
  \A w \in Workers : Executes(w, b) =>
    /\ wpc[w] = "run" => pc[b] \in Opening \cup {"run", "resumed", "disarmed"}
    /\ wpc[w] # "run" => pc[b] = "done"
    /\ wtask[w].life = life[b]
    /\ \A v \in Workers : Executes(v, b) => v = w

TailsOf(b) == {w \in Workers : wpc[w] \in TailPCs /\ wtask[w].b = b}

\* The tails on a block are counted; a block that is given back, or about to be, has none.
TailsCounted(b) ==
  /\ handoff[b] = Cardinality(TailsOf(b))
  /\ pc[b] = "free" => TailsOf(b) = {}
  /\ (\E w \in Workers : wpc[w] = "retire" /\ wtask[w].b = b) => TailsOf(b) = {}

\* What a tail knows of its block: while its generation can be claimed, the block is off its
\* worker and as far published as the tail is.
TailOK(w) ==
  LET b == wtask[w].b
      t == wtask[w].tok
      fresh == Claimable(b, t)
  IN
  /\ pc[b] # "free" /\ life[b] = wtask[w].life
  /\ t <= gen[b] /\ (pc[b] \in Opening => t < gen[b])
  /\ \A v \in TailsOf(b) : wtask[v].tok = t => v = w
  /\ wpc[w] = "arm" =>
       fresh /\ cur[b].timed /\ cur[b].q = wtask[w].q /\ \A e \in timers : e.b # b
  /\ fresh => pc[b] = "saved"
  /\ fresh /\ wpc[w] \in {"arm", "commit", "publish"} => phase[b].ph = "switching"
  /\ fresh /\ wpc[w] \in {"check", "can", "claim"} => phase[b].ph = "parked"
  /\ wpc[w] \in {"can", "claim"} => cancel[b] # "none"
  /\ fresh /\ wpc[w] = "claim" => canPark[b]

\* The lock of q is held for one parking task, by the task itself or by its tail.
TaskHolds(b, q) == pc[b] \in Opening /\ cur[b].q = q
TailHolds(w, q) == wpc[w] \in {"arm", "commit"} /\ wtask[w].q = q

LockOK(q) ==
  /\ \A b \in Blocks : TaskHolds(b, q) =>
       /\ q \in held
       /\ \A c \in Blocks : TaskHolds(c, q) => c = b
       /\ \A w \in Workers : ~TailHolds(w, q)
  /\ \A w \in Workers : TailHolds(w, q) =>
       /\ q \in held
       /\ \A v \in Workers : TailHolds(v, q) => v = w

\* Who asks: what it read is no newer than the block, and what it will claim is parked.
AskerOK ==
  LET b == asker.b
      t == asker.tok
  IN
  /\ asker.pc = "key" => asker.looks = 0
  /\ asker.pc \in {"look", "phase", "can", "force"} => cancel[b] # "none"
  /\ asker.pc \in {"phase", "can", "force"} => t <= gen[b]
  /\ asker.pc \in {"can", "force"} /\ Claimable(b, t) => pc[b] = "saved" /\ phase[b].ph = "parked"
  /\ asker.pc = "force" /\ Claimable(b, t) => canPark[b]

\* A cancellation may still be accepted where a wait is cancellable, and where it ended one.
Welcome(b, wait) == wait.wants /\ ~masked[b] /\ cancel[b] = "requested"

CancelOK(b) ==
  /\ cancel[b] = "finished" => pc[b] \in {"done", "free"}
  /\ pc[b] \in {"switching", "saved"} /\ canPark[b] => Cancellable(b)
  /\ pc[b] = "saved" /\ claimed[b] = "cancel" => Welcome(b, cur[b])
  /\ pc[b] \in {"resumed", "disarmed"} /\ cur[b].reason = "cancel" => Welcome(b, cur[b])
  /\ outer[b] # NoWait /\ outer[b].reason = "cancel" => Welcome(b, outer[b])

\* RequestNotLost, with the generation that whoever is on the way has in hand.
Unheard(b) ==
  /\ cancel[b] = "requested" /\ canPark[b] /\ claimed[b] = "none"
  /\ phase[b] = [tok |-> gen[b], ph |-> "parked"]

Hears(w, b) ==
  wpc[w] \in {"check", "can", "claim"} /\ wtask[w].b = b /\ wtask[w].tok = gen[b]

Asking(b) ==
  /\ asker.b = b
  /\ \/ asker.pc = "look" /\ asker.looks < MaxLooks
     \/ asker.pc \in {"phase", "can", "force"} /\ asker.tok = gen[b]

HeardOK(b) == Unheard(b) => (\E w \in Workers : Hears(w, b)) \/ Asking(b)

BlockOK(b) ==
  /\ FrameOK(b) /\ PhaseOK(b) /\ QueuedOK(b) /\ PlacedOK(b)
  /\ TailsCounted(b) /\ CancelOK(b) /\ HeardOK(b)

IInv ==
  /\ Types
  /\ \A b \in Blocks : BlockOK(b)
  /\ \A w \in Workers : wpc[w] \in TailPCs => TailOK(w)
  /\ \A q \in Queues : LockOK(q)
  /\ NodeInLiveFrame /\ TimerOfThisWait /\ AskerOK

-----------------------------------------------------------------------------
(* Lemmas *)

\* The records that stand for nothing are of the type of the others.
LEMMA Blanks ==
  /\ NoWait \in Waits
  /\ NoTask \in TypeOfTasks
  /\ NoRequest \in TypeOfRequests
  BY ParkAssumption DEF NoWait, Waits, NoTask, TypeOfTasks, NoRequest, TypeOfRequests, AskerPCs,
         Gens, Reasons

\* The tails on a block are workers, of which there are finitely many.
LEMMA TailsFinite == ASSUME NEW b \in Blocks PROVE IsFiniteSet(TailsOf(b))
  BY ParkAssumption, FS_Subset DEF TailsOf

\* A wait, a request with one field set is a wait, a request.
LEMMA FieldSet ==
  /\ \A wait \in Waits, g \in Gens : [wait EXCEPT !.tok = g] \in Waits
  /\ \A wait \in Waits, r \in Reasons : [wait EXCEPT !.reason = r] \in Waits
  /\ \A r \in TypeOfRequests, p \in AskerPCs : [r EXCEPT !.pc = p] \in TypeOfRequests
  BY DEF Waits, TypeOfRequests

\* The waits that the four kinds of park begin with.
LEMMA NewWaits ==
  /\ \A q \in Queues, t, c \in BOOLEAN : [NoWait EXCEPT !.q = q, !.timed = t, !.wants = c] \in Waits
  /\ [NoWait EXCEPT !.timed = TRUE, !.wants = TRUE] \in Waits
  /\ [NoWait EXCEPT !.yields = TRUE] \in Waits
  /\ [NoWait EXCEPT !.q = Lot] \in Waits
  BY Blanks, ParkAssumption DEF NoWait, Waits

-----------------------------------------------------------------------------
(* Every action keeps the invariant: spawning, running and completing a task *)

\* A pooled block starts a task with no wait, no tail and no node of an earlier one.
LEMMA SpawnKeeps == ASSUME IInv, NEW b \in Blocks, Spawn(b) PROVE IInv'
<1>1. Types'
  BY ParkAssumption, Blanks DEF IInv, BlockOK, Types, TaskPCs, Gens, Phases, QueuedOK, Spawn,
         SlotLocked
<1>2. ASSUME NEW c \in Blocks PROVE BlockOK(c)'
  <2>1. FrameOK(c)'
    BY DEF IInv, BlockOK, FrameOK, Opening, NoWait, Types, Gens, Spawn
  <2>2. PhaseOK(c)'
    BY DEF IInv, BlockOK, PhaseOK, Types, Gens, Spawn
  <2>3. QueuedOK(c)'
    BY DEF IInv, BlockOK, QueuedOK, Types, Spawn
  <2>4. PlacedOK(c)'
    BY DEF IInv, BlockOK, PlacedOK, Executes, Opening, Types, Spawn
  <2>5. TailsCounted(c)'
    <3>1. TailsOf(c)' = TailsOf(c)
      BY DEF IInv, BlockOK, TailsOf, Types, Spawn
    <3> QED BY <3>1, FS_EmptySet DEF IInv, BlockOK, TailsCounted, Types, Gens, Waits,
                   TypeOfTasks, TypeOfRequests, Spawn, SlotLocked
  <2>6. CancelOK(c)'
    BY DEF IInv, BlockOK, CancelOK, Welcome, Cancellable, FrameOK, Opening, Types, Spawn
  <2>7. HeardOK(c)'
    BY DEF IInv, BlockOK, HeardOK, Unheard, Hears, Asking, PhaseOK, Types, Spawn
  <2> QED BY <2>1, <2>2, <2>3, <2>4, <2>5, <2>6, <2>7 DEF BlockOK
<1>3. ASSUME NEW v \in Workers, wpc'[v] \in TailPCs PROVE TailOK(v)'
  BY <1>3 DEF IInv, BlockOK, TailOK, TailsOf, Opening, Claimable, TailsCounted, Types, Spawn
<1>4. ASSUME NEW l \in Queues PROVE LockOK(l)'
  BY DEF IInv, LockOK, TaskHolds, TailHolds, Opening, Types, Spawn
<1>5. NodeInLiveFrame'
  BY DEF IInv, NodeInLiveFrame, Types, Spawn
<1>6. TimerOfThisWait'
  BY DEF IInv, TimerOfThisWait, Types, Spawn
<1>7. AskerOK'
  BY DEF IInv, AskerOK, Claimable, SlotLocked, Types, Gens, TypeOfTasks, Spawn
<1> QED BY <1>1, <1>2, <1>3, <1>4, <1>5, <1>6, <1>7 DEF IInv

\* A worker that takes a task never run before is the only one to execute it.
LEMMA StartsKeeps ==
  ASSUME IInv, NEW w \in Workers, NEW b \in Blocks, Takes(w, b), Starts(b)
  PROVE  IInv'
<1>1. Types'
  <2>1. runq' \in [Blocks -> 0 .. 1]
    BY DEF IInv, Types, BlockOK, QueuedOK, Takes, Starts
  <2>2. pc' \in [Blocks -> TaskPCs]
    BY DEF IInv, Types, TaskPCs, Takes, Starts
  <2>3. wpc' \in [Workers -> WorkerPCs]
    BY DEF IInv, Types, WorkerPCs, TailPCs, Takes, Starts
  <2>4. wtask' \in [Workers -> TypeOfTasks]
    BY ParkAssumption, Blanks DEF IInv, Types, TypeOfTasks, Gens, Takes, Starts
  <2>5. \A v \in Workers : wpc'[v] # "idle" => wtask'[v].b \in Blocks
    BY Blanks DEF IInv, BlockOK, Types, TaskPCs, Gens, Phases, WorkerPCs, TailPCs, TypeOfTasks,
           NoTask, Reasons, NoWait, QueuedOK, Takes, Starts
  <2> QED BY <2>1, <2>2, <2>3, <2>4, <2>5 DEF IInv, Types, Takes, Starts
<1>2. ASSUME NEW c \in Blocks PROVE BlockOK(c)'
  <2>1. FrameOK(c)'
    BY DEF IInv, BlockOK, FrameOK, Opening, QueuedOK, Types, Takes, Starts
  <2>2. PhaseOK(c)'
    BY DEF IInv, BlockOK, PhaseOK, FrameOK, Opening, Types, Takes, Starts
  <2>3. QueuedOK(c)'
    BY DEF IInv, BlockOK, QueuedOK, Types, Takes, Starts
  <2>4. PlacedOK(c)'
    BY DEF IInv, BlockOK, PlacedOK, Executes, Opening, QueuedOK, Types, Takes, Starts
  <2>5. TailsCounted(c)'
    <3>1. TailsOf(c)' = TailsOf(c)
      BY DEF IInv, BlockOK, TailsOf, TailPCs, Types, Gens, Takes, Starts
    <3> QED BY <3>1 DEF IInv, BlockOK, TailsCounted, Types, Takes, Starts
  <2>6. CancelOK(c)'
    BY DEF IInv, BlockOK, CancelOK, Welcome, Cancellable, FrameOK, Opening, QueuedOK, Types,
           Takes, Starts
  <2>7. HeardOK(c)'
    <3>1. \A v \in Workers : Hears(v, c) /\ Unheard(c)' => Hears(v, c)'
      BY DEF IInv, BlockOK, Unheard, Hears, Types, Takes, Starts
    <3>2. Asking(c) /\ Unheard(c)' => Asking(c)'
      BY DEF IInv, BlockOK, Unheard, Asking, Types, Takes, Starts
    <3>3. Unheard(c)' => Unheard(c)
      BY DEF IInv, BlockOK, Unheard, Types, Takes, Starts
    <3> QED BY <3>1, <3>2, <3>3 DEF IInv, BlockOK, HeardOK
  <2> QED BY <2>1, <2>2, <2>3, <2>4, <2>5, <2>6, <2>7 DEF BlockOK
<1>3. ASSUME NEW v \in Workers, wpc'[v] \in TailPCs PROVE TailOK(v)'
  BY <1>3 DEF IInv, BlockOK, TailOK, TailsOf, Opening, Claimable, TailPCs, QueuedOK,
         TailsCounted, Types, Gens, Takes, Starts
<1>4. ASSUME NEW l \in Queues PROVE LockOK(l)'
  BY DEF IInv, LockOK, TaskHolds, TailHolds, Opening, Types, Takes, Starts
<1>5. NodeInLiveFrame'
  BY DEF IInv, NodeInLiveFrame, Types, Takes, Starts
<1>6. TimerOfThisWait'
  BY DEF IInv, TimerOfThisWait, Types, Takes, Starts
<1>7. AskerOK'
  BY DEF IInv, BlockOK, AskerOK, Claimable, QueuedOK, Types, Takes, Starts
<1> QED BY <1>1, <1>2, <1>3, <1>4, <1>5, <1>6, <1>7 DEF IInv

\* A worker that takes a task after a yield finds no wait of its own to end.
LEMMA ContinuesKeeps ==
  ASSUME IInv, NEW w \in Workers, NEW b \in Blocks, Takes(w, b), Continues(b)
  PROVE  IInv'
<1>1. Types'
  <2>1. runq' \in [Blocks -> 0 .. 1]
    BY DEF IInv, Types, BlockOK, QueuedOK, Takes, Continues, NoWait
  <2>2. pc' \in [Blocks -> TaskPCs]
    BY DEF IInv, Types, TaskPCs, Takes, Continues, NoWait
  <2>3. phase' \in [Blocks -> [tok : Gens, ph : Phases]]
    BY DEF IInv, Types, Phases, Gens, Waits, Takes, Continues, NoWait
  <2>4. cur' \in [Blocks -> Waits]
    BY Blanks, FieldSet DEF IInv, Types, Gens, Takes, Continues, NoWait
  <2>5. wpc' \in [Workers -> WorkerPCs]
    BY DEF IInv, Types, WorkerPCs, TailPCs, Takes, Continues, NoWait
  <2>6. wtask' \in [Workers -> TypeOfTasks]
    BY ParkAssumption, Blanks DEF IInv, Types, TypeOfTasks, Gens, Takes, Continues, NoWait
  <2>7. \A v \in Workers : wpc'[v] # "idle" => wtask'[v].b \in Blocks
    BY ParkAssumption, Blanks DEF IInv, BlockOK, Types, TaskPCs, Gens, Phases, WorkerPCs,
           TailPCs, TypeOfTasks, NoTask, Waits, Reasons, NoWait, QueuedOK, Takes, Continues
  <2> QED BY <2>1, <2>2, <2>3, <2>4, <2>5, <2>6, <2>7 DEF IInv, Types, Takes, Continues, NoWait
<1>2. ASSUME NEW c \in Blocks PROVE BlockOK(c)'
  <2>1. FrameOK(c)'
    BY DEF IInv, BlockOK, FrameOK, Opening, NoWait, QueuedOK, Types, Gens, Takes, Continues
  <2>2. PhaseOK(c)'
    BY DEF IInv, BlockOK, PhaseOK, FrameOK, Opening, NoWait, Types, Gens, Takes, Continues
  <2>3. QueuedOK(c)'
    BY DEF IInv, BlockOK, QueuedOK, Types, Takes, Continues
  <2>4. PlacedOK(c)'
    BY DEF IInv, BlockOK, PlacedOK, Executes, Opening, QueuedOK, Types, Takes, Continues
  <2>5. TailsCounted(c)'
    <3>1. TailsOf(c)' = TailsOf(c)
      BY DEF IInv, BlockOK, TailsOf, TailPCs, Types, Gens, Takes, Continues, NoWait
    <3> QED BY <3>1 DEF IInv, BlockOK, TailsCounted, Types, Takes, Continues
  <2>6. CancelOK(c)'
    BY DEF IInv, BlockOK, CancelOK, Welcome, Cancellable, FrameOK, Opening, QueuedOK, Types,
           Takes, Continues
  <2>7. HeardOK(c)'
    <3>1. \A v \in Workers : Hears(v, c) /\ Unheard(c)' => Hears(v, c)'
      BY DEF IInv, BlockOK, Unheard, Hears, Types, Takes, Continues
    <3>2. Asking(c) /\ Unheard(c)' => Asking(c)'
      BY DEF IInv, BlockOK, Unheard, Asking, Types, Takes, Continues
    <3>3. Unheard(c)' => Unheard(c)
      BY DEF IInv, BlockOK, Unheard, Types, Takes, Continues
    <3> QED BY <3>1, <3>2, <3>3 DEF IInv, BlockOK, HeardOK
  <2> QED BY <2>1, <2>2, <2>3, <2>4, <2>5, <2>6, <2>7 DEF BlockOK
<1>3. ASSUME NEW v \in Workers, wpc'[v] \in TailPCs PROVE TailOK(v)'
  BY <1>3 DEF IInv, BlockOK, TailOK, TailsOf, Opening, Claimable, TailPCs, QueuedOK,
         TailsCounted, Types, Gens, Takes, Continues, NoWait
<1>4. ASSUME NEW l \in Queues PROVE LockOK(l)'
  BY DEF IInv, LockOK, TaskHolds, TailHolds, Opening, Types, Takes, Continues
<1>5. NodeInLiveFrame'
  BY DEF IInv, NodeInLiveFrame, Types, Takes, Continues
<1>6. TimerOfThisWait'
  BY DEF IInv, TimerOfThisWait, Types, Takes, Continues
<1>7. AskerOK'
  BY DEF IInv, BlockOK, AskerOK, Claimable, QueuedOK, Types, Takes, Continues
<1> QED BY <1>1, <1>2, <1>3, <1>4, <1>5, <1>6, <1>7 DEF IInv

\* A worker that takes a woken task finds its context saved, and the reason of the one claim
\* that won.
LEMMA ResumesKeeps ==
  ASSUME IInv, NEW w \in Workers, NEW b \in Blocks, Takes(w, b), Resumes(b)
  PROVE  IInv'
<1>0. /\ pc[b] = "saved" /\ claimed[b] # "none" /\ ~cur[b].yields
      /\ pc'[b] = IF cur[b].timed THEN "resumed" ELSE "disarmed"
      /\ cur'[b] = [cur[b] EXCEPT !.reason = claimed[b]]
      /\ \A c \in Blocks : c # b => cur'[c] = cur[c] /\ pc'[c] = pc[c]
  <2>1. pc[b] = "saved" /\ BlockOK(b) /\ runq[b] = 1
    BY DEF IInv, Types, Takes, Resumes
  <2>2. claimed[b] # "none" /\ ~cur[b].yields
    BY <2>1 DEF BlockOK, QueuedOK, FrameOK
  <2>3. cur'[b] = [cur[b] EXCEPT !.reason = claimed[b]]
    BY DEF IInv, Types, Resumes
  <2>4. \A c \in Blocks : c # b => cur'[c] = cur[c] /\ pc'[c] = pc[c]
    BY DEF IInv, Types, Resumes
  <2>5. pc'[b] = IF cur[b].timed THEN "resumed" ELSE "disarmed"
    BY DEF IInv, Types, Resumes
  <2> QED BY <2>1, <2>2, <2>3, <2>4, <2>5
<1>a. /\ cur'[b].q = cur[b].q /\ cur'[b].tok = cur[b].tok /\ cur'[b].timed = cur[b].timed
      /\ cur'[b].wants = cur[b].wants /\ cur'[b].yields = cur[b].yields
      /\ cur'[b].reason = claimed[b]
  BY <1>0 DEF IInv, Types, Waits
<1>1. Types'
  <2>1. runq' \in [Blocks -> 0 .. 1]
    BY <1>0 DEF IInv, Types, BlockOK, QueuedOK, Takes, Resumes
  <2>2. pc' \in [Blocks -> TaskPCs]
    BY <1>0 DEF IInv, Types, TaskPCs, Takes, Resumes
  <2>3. phase' \in [Blocks -> [tok : Gens, ph : Phases]]
    BY <1>0 DEF IInv, Types, Phases, Gens, Waits, Takes, Resumes
  <2>4. canPark' \in [Blocks -> BOOLEAN]
    BY <1>0, ParkAssumption, Blanks DEF IInv, BlockOK, Types, TaskPCs, Gens, Phases, WorkerPCs,
           TailPCs, TypeOfTasks, NoTask, Waits, Reasons, NoWait, QueuedOK, Takes, Resumes
  <2>5. cur' \in [Blocks -> Waits]
    <3>1. [cur[b] EXCEPT !.reason = claimed[b]] \in Waits
      BY FieldSet DEF IInv, Types
    <3> QED BY <3>1 DEF IInv, Types, Resumes
  <2>6. wpc' \in [Workers -> WorkerPCs]
    BY <1>0 DEF IInv, Types, WorkerPCs, TailPCs, Takes, Resumes
  <2>7. wtask' \in [Workers -> TypeOfTasks]
    BY <1>0, ParkAssumption, Blanks DEF IInv, Types, TypeOfTasks, Gens, Takes, Resumes
  <2>8. \A v \in Workers : wpc'[v] # "idle" => wtask'[v].b \in Blocks
    BY <1>0, ParkAssumption, Blanks DEF IInv, BlockOK, Types, TaskPCs, Gens, Phases, WorkerPCs,
           TailPCs, TypeOfTasks, NoTask, Waits, Reasons, NoWait, QueuedOK, Takes, Resumes
  <2> QED BY <1>0, <2>1, <2>2, <2>3, <2>4, <2>5, <2>6, <2>7, <2>8 DEF IInv, Types, Takes, Resumes
<1>2. ASSUME NEW c \in Blocks PROVE BlockOK(c)'
  <2>1. FrameOK(c)'
    <3>1. CASE c = b
      <4>1. gen' = gen /\ claimed' = claimed /\ outer' = outer
        BY DEF Takes
      <4>2. cur[b].tok = gen[b] /\ gen[b] \in Nat
        BY <1>0, ParkAssumption DEF IInv, BlockOK, FrameOK, Types, Gens
      <4>3. outer[b] # NoWait =>
              /\ cur[b].q = Lot /\ ~cur[b].wants
              /\ outer[b].q \in Queues \ {Lot} /\ outer[b].tok < gen[b]
              /\ outer[b].reason # "none" /\ ~outer[b].yields
        BY DEF IInv, BlockOK, FrameOK
      <4>4. pc'[b] \in {"resumed", "disarmed"}
        BY <1>0
      <4>5. cur'[b].tok = gen'[b] /\ cur'[b].tok <= gen'[b]
        BY <1>a, <4>1, <4>2
      <4>6. claimed'[b] # "none" /\ cur'[b].reason # "none" /\ ~cur'[b].yields
        BY <1>0, <1>a, <4>1
      <4>7. outer'[b] # NoWait =>
              /\ cur'[b].q = Lot /\ ~cur'[b].wants
              /\ outer'[b].q \in Queues \ {Lot} /\ outer'[b].tok < gen'[b]
              /\ outer'[b].reason # "none" /\ ~outer'[b].yields
        BY <1>a, <4>1, <4>3
      <4> QED BY <3>1, <4>4, <4>5, <4>6, <4>7 DEF FrameOK, Opening
    <3>2. CASE c # b
      BY <1>0, <3>2 DEF IInv, BlockOK, FrameOK, Takes
    <3> QED BY <3>1, <3>2
  <2>2. PhaseOK(c)'
    BY <1>0 DEF IInv, BlockOK, PhaseOK, FrameOK, Opening, NoWait, Types, Gens, Takes, Resumes
  <2>3. QueuedOK(c)'
    BY <1>0 DEF IInv, BlockOK, QueuedOK, Types, Takes, Resumes
  <2>4. PlacedOK(c)'
    BY <1>0 DEF IInv, BlockOK, PlacedOK, Executes, Opening, QueuedOK, Types, Takes, Resumes
  <2>5. TailsCounted(c)'
    <3>1. TailsOf(c)' = TailsOf(c)
      BY <1>0 DEF IInv, BlockOK, TailsOf, TailPCs, Types, Gens, Takes, Resumes
    <3> QED BY ZenonT(30), <1>0, <3>1 DEF IInv, BlockOK, TailsCounted, Types, Takes, Resumes
  <2>6. CancelOK(c)'
    BY <1>0, <1>a DEF IInv, BlockOK, CancelOK, Welcome, Cancellable, FrameOK, Opening, QueuedOK,
           Types, Takes, Resumes
  <2>7. HeardOK(c)'
    <3>1. \A v \in Workers : Hears(v, c) /\ Unheard(c)' => Hears(v, c)'
      BY <1>0 DEF IInv, BlockOK, Unheard, Hears, Types, Takes, Resumes
    <3>2. Asking(c) /\ Unheard(c)' => Asking(c)'
      BY <1>0 DEF IInv, BlockOK, Unheard, Asking, Types, Takes, Resumes
    <3>3. Unheard(c)' => Unheard(c)
      BY <1>0 DEF IInv, BlockOK, Unheard, Types, Takes, Resumes
    <3> QED BY <3>1, <3>2, <3>3 DEF IInv, BlockOK, HeardOK
  <2> QED BY <2>1, <2>2, <2>3, <2>4, <2>5, <2>6, <2>7 DEF BlockOK
<1>3. ASSUME NEW v \in Workers, wpc'[v] \in TailPCs PROVE TailOK(v)'
  BY <1>3, <1>0, <1>a DEF IInv, BlockOK, TailOK, TailsOf, Opening, Claimable, TailPCs, QueuedOK,
         TailsCounted, Types, Gens, Takes, Resumes
<1>4. ASSUME NEW l \in Queues PROVE LockOK(l)'
  BY <1>0, <1>a DEF IInv, LockOK, TaskHolds, TailHolds, Opening, Types, Takes, Resumes
<1>5. NodeInLiveFrame'
  BY <1>0, <1>a DEF IInv, NodeInLiveFrame, Types, Takes, Resumes
<1>6. TimerOfThisWait'
  BY <1>0, <1>a DEF IInv, TimerOfThisWait, Types, Takes, Resumes
<1>7. AskerOK'
  BY <1>0, <1>a DEF IInv, BlockOK, AskerOK, Claimable, QueuedOK, Types, Takes, Resumes
<1> QED BY <1>1, <1>2, <1>3, <1>4, <1>5, <1>6, <1>7 DEF IInv

\* A task whose body returned is in none of its waits.
LEMMA ReturnKeeps == ASSUME IInv, NEW w \in Workers, NEW b \in Blocks, Return(w, b) PROVE IInv'
<1>1. Types'
  BY DEF IInv, Types, TaskPCs, Gens, WorkerPCs, TailPCs, NoTask, Return, On
<1>2. ASSUME NEW c \in Blocks PROVE BlockOK(c)'
  <2>1. FrameOK(c)'
    BY DEF IInv, BlockOK, FrameOK, Opening, Types, Return, On
  <2>2. PhaseOK(c)'
    BY DEF IInv, BlockOK, PhaseOK, Types, Return, On
  <2>3. QueuedOK(c)'
    BY DEF IInv, BlockOK, QueuedOK, Types, Return, On
  <2>4. PlacedOK(c)'
    BY DEF IInv, BlockOK, PlacedOK, Executes, Opening, Types, Return, On
  <2>5. TailsCounted(c)'
    <3>1. TailsOf(c)' = TailsOf(c)
      BY DEF IInv, BlockOK, TailsOf, TailPCs, Types, Gens, Return, On
    <3> QED BY <3>1 DEF IInv, BlockOK, TailsCounted, Types, Return
  <2>6. CancelOK(c)'
    BY DEF IInv, BlockOK, CancelOK, Welcome, Cancellable, Types, Return, On
  <2>7. HeardOK(c)'
    <3>1. \A v \in Workers : Hears(v, c) /\ Unheard(c)' => Hears(v, c)'
      BY DEF IInv, BlockOK, Unheard, Hears, Types, Return, On
    <3>2. Asking(c) /\ Unheard(c)' => Asking(c)'
      BY DEF IInv, BlockOK, Unheard, Asking, Types, Return, On
    <3>3. Unheard(c)' => Unheard(c)
      BY DEF IInv, BlockOK, Unheard, Types, Return, On
    <3> QED BY <3>1, <3>2, <3>3 DEF IInv, BlockOK, HeardOK
  <2> QED BY <2>1, <2>2, <2>3, <2>4, <2>5, <2>6, <2>7 DEF BlockOK
<1>3. ASSUME NEW v \in Workers, wpc'[v] \in TailPCs PROVE TailOK(v)'
  BY <1>3 DEF IInv, BlockOK, TailOK, TailsOf, Opening, Claimable, TailPCs, Types, Gens, Return, On
<1>4. ASSUME NEW l \in Queues PROVE LockOK(l)'
  BY DEF IInv, LockOK, TaskHolds, TailHolds, Opening, Types, Return, On
<1>5. NodeInLiveFrame'
  BY DEF IInv, NodeInLiveFrame, Types, Return, On
<1>6. TimerOfThisWait'
  BY DEF IInv, TimerOfThisWait, Types, Return, On
<1>7. AskerOK'
  BY DEF IInv, AskerOK, Claimable, Types, Return, On
<1> QED BY <1>1, <1>2, <1>3, <1>4, <1>5, <1>6, <1>7 DEF IInv

\* A completion that waits for the tails finds none left.
LEMMA SettleKeeps == ASSUME IInv, NEW w \in Workers, NEW b \in Blocks, Settle(w, b) PROVE IInv'
<1>1. Types'
  BY DEF IInv, Types, WorkerPCs, TailPCs, NoTask, Settle, TailsOver
<1>2. ASSUME NEW c \in Blocks PROVE BlockOK(c)'
  <2>1. FrameOK(c)' /\ PhaseOK(c)' /\ QueuedOK(c)'
    BY DEF IInv, BlockOK, FrameOK, PhaseOK, QueuedOK, Settle
  <2>2. PlacedOK(c)'
    BY DEF IInv, BlockOK, PlacedOK, Executes, Opening, Types, Settle, TailsOver
  <2>3. TailsCounted(c)'
    <3>1. TailsOf(c)' = TailsOf(c)
      BY ParkAssumption DEF IInv, Types, TailsOf, TailPCs, Settle
    <3>2. handoff[b] = 0 => TailsOf(b) = {}
      BY TailsFinite, FS_EmptySet DEF IInv, BlockOK, TailsCounted
    <3> QED BY <3>1, <3>2 DEF IInv, BlockOK, Types, TailsCounted, Settle, TailsOver
  <2>4. CancelOK(c)'
    BY DEF IInv, BlockOK, CancelOK, Welcome, Cancellable, FrameOK, Opening, PlacedOK, Executes,
           Types, Settle, TailsOver
  <2>5. HeardOK(c)'
    <3>1. \A v \in Workers : Hears(v, c) /\ Unheard(c)' => Hears(v, c)'
      BY DEF IInv, BlockOK, Unheard, Hears, Types, Settle, TailsOver
    <3>2. Asking(c) /\ Unheard(c)' => Asking(c)'
      BY DEF IInv, BlockOK, Unheard, Asking, Types, Settle, TailsOver
    <3>3. Unheard(c)' => Unheard(c)
      BY DEF IInv, BlockOK, Unheard, Types, Settle, TailsOver
    <3> QED BY <3>1, <3>2, <3>3 DEF IInv, BlockOK, HeardOK
  <2> QED BY <2>1, <2>2, <2>3, <2>4, <2>5 DEF BlockOK
<1>3. ASSUME NEW v \in Workers, wpc'[v] \in TailPCs PROVE TailOK(v)'
  BY <1>3 DEF IInv, BlockOK, TailOK, TailsOf, Opening, Claimable, TailPCs, Types, Gens, Settle,
         TailsOver
<1>4. ASSUME NEW l \in Queues PROVE LockOK(l)'
  BY DEF IInv, LockOK, TaskHolds, TailHolds, Opening, Types, Settle, TailsOver
<1>5. AskerOK'
  BY DEF IInv, AskerOK, Claimable, Types, Settle, TailsOver
<1>6. NodeInLiveFrame' /\ TimerOfThisWait'
  BY DEF IInv, NodeInLiveFrame, TimerOfThisWait, Settle
<1> QED BY <1>1, <1>2, <1>3, <1>4, <1>5, <1>6 DEF IInv

\* A block goes back to its pool when no tail is on it.
LEMMA RetireKeeps == ASSUME IInv, NEW w \in Workers, NEW b \in Blocks, Retire(w, b) PROVE IInv'
<1>0. pc[b] = "done" /\ TailsOf(b) = {}
  BY DEF IInv, BlockOK, PlacedOK, TailsCounted, Executes, Retire
<1>1. Types'
  BY <1>0, Blanks DEF IInv, Types, TaskPCs, Gens, WorkerPCs, TailPCs, TypeOfTasks, NoTask,
         Retire, GoIdle
<1>2. ASSUME NEW c \in Blocks PROVE BlockOK(c)'
  <2>1. FrameOK(c)'
    BY <1>0 DEF IInv, BlockOK, FrameOK, Opening, PlacedOK, Executes, Types, Retire, GoIdle
  <2>2. PhaseOK(c)'
    BY <1>0 DEF IInv, BlockOK, PhaseOK, PlacedOK, Executes, Opening, Types, Retire, GoIdle
  <2>3. QueuedOK(c)'
    BY <1>0 DEF IInv, BlockOK, QueuedOK, PlacedOK, Executes, Opening, Types, Retire, GoIdle
  <2>4. PlacedOK(c)'
    BY <1>0 DEF IInv, BlockOK, PlacedOK, Executes, Opening, Types, Retire, GoIdle
  <2>5. TailsCounted(c)'
    <3>1. TailsOf(c)' = TailsOf(c)
      BY <1>0 DEF IInv, BlockOK, TailsOf, TailPCs, Types, Gens, Retire, GoIdle
    <3> QED BY <1>0, <3>1 DEF IInv, BlockOK, TailsCounted, Types, Retire, GoIdle
  <2>6. CancelOK(c)'
    BY <1>0 DEF IInv, BlockOK, CancelOK, Welcome, Cancellable, PlacedOK, Executes, Opening,
           Types, Retire, GoIdle
  <2>7. HeardOK(c)'
    BY <1>0 DEF IInv, BlockOK, HeardOK, Unheard, Hears, Asking, PlacedOK, Executes, Opening,
           Types, Retire, GoIdle
  <2> QED BY <2>1, <2>2, <2>3, <2>4, <2>5, <2>6, <2>7 DEF BlockOK
<1>3. ASSUME NEW v \in Workers, wpc'[v] \in TailPCs PROVE TailOK(v)'
  BY <1>3, <1>0 DEF IInv, BlockOK, TailOK, TailsOf, Opening, Claimable, TailPCs, TailsCounted,
         Types, Gens, Retire, GoIdle
<1>4. ASSUME NEW l \in Queues PROVE LockOK(l)'
  BY <1>0 DEF IInv, LockOK, TaskHolds, TailHolds, Opening, Types, Retire, GoIdle
<1>5. NodeInLiveFrame'
  BY <1>0 DEF IInv, BlockOK, NodeInLiveFrame, PlacedOK, Executes, Opening, Types, Retire, GoIdle
<1>6. TimerOfThisWait'
  BY <1>0 DEF IInv, BlockOK, TimerOfThisWait, PlacedOK, Executes, Opening, Types, Retire, GoIdle
<1>7. AskerOK'
  BY <1>0 DEF IInv, BlockOK, AskerOK, Claimable, PlacedOK, Executes, Opening, Types, Retire,
         GoIdle
<1> QED BY <1>1, <1>2, <1>3, <1>4, <1>5, <1>6, <1>7 DEF IInv

-----------------------------------------------------------------------------
(* Parking: the task's side *)

\* A new wait opens a new generation, which nobody knows of yet, under the lock of its queue.
LEMMA BeginWaitKeeps ==
  ASSUME IInv, NEW w \in Workers, NEW b \in Blocks, NEW q \in Queues, NEW t \in BOOLEAN,
         NEW k \in BOOLEAN, On(w, b, "run"), UNCHANGED outer,
         OpenPark(w, b, [NoWait EXCEPT !.q = q, !.timed = t, !.wants = k])
  PROVE  IInv'
<1>1. Types'
  <2>1. gen' \in [Blocks -> Gens]
    BY ParkAssumption DEF IInv, Types, Gens, On, OpenPark, TakeLock
  <2>2. claimed' \in [Blocks -> Reasons]
    BY DEF IInv, Types, Reasons, On, OpenPark, TakeLock
  <2>3. cur' \in [Blocks -> Waits]
    <3>1. gen[b] + 1 \in Gens
      BY ParkAssumption DEF IInv, Types, Gens, OpenPark
    <3>2. [[NoWait EXCEPT !.q = q, !.timed = t, !.wants = k] EXCEPT !.tok = gen[b] + 1] \in Waits
      BY <3>1, NewWaits, FieldSet
    <3> QED BY <3>2 DEF IInv, Types, OpenPark
  <2>4. pc' \in [Blocks -> TaskPCs]
    BY DEF IInv, Types, TaskPCs, On, OpenPark, TakeLock
  <2>5. held' \subseteq Queues
    BY ParkAssumption, Blanks DEF IInv, Types, TaskPCs, Gens, Reasons, NoWait, On, OpenPark,
           TakeLock
  <2> QED BY <2>1, <2>2, <2>3, <2>4, <2>5 DEF IInv, Types, On, OpenPark, TakeLock
<1>2. ASSUME NEW c \in Blocks PROVE BlockOK(c)'
  <2>1. FrameOK(c)'
    BY DEF IInv, BlockOK, FrameOK, Opening, NoWait, Types, Gens, On, OpenPark, TakeLock
  <2>2. PhaseOK(c)'
    BY DEF IInv, BlockOK, PhaseOK, NoWait, Types, Gens, On, OpenPark, TakeLock
  <2>3. QueuedOK(c)'
    BY DEF IInv, BlockOK, QueuedOK, Types, On, OpenPark, TakeLock
  <2>4. PlacedOK(c)'
    BY DEF IInv, BlockOK, PlacedOK, Executes, Opening, Types, On, OpenPark, TakeLock
  <2>5. TailsCounted(c)'
    <3>1. TailsOf(c)' = TailsOf(c)
      BY DEF IInv, BlockOK, TailsOf, Types, On, OpenPark, TakeLock
    <3> QED BY <3>1 DEF IInv, BlockOK, TailsCounted, Types, OpenPark
  <2>6. CancelOK(c)'
    BY DEF IInv, BlockOK, CancelOK, Welcome, Cancellable, FrameOK, Opening, Types, On, OpenPark,
           TakeLock
  <2>7. HeardOK(c)'
    BY DEF IInv, BlockOK, HeardOK, Unheard, Hears, Asking, PhaseOK, Types, Gens, On, OpenPark,
           TakeLock
  <2> QED BY <2>1, <2>2, <2>3, <2>4, <2>5, <2>6, <2>7 DEF BlockOK
<1>3. ASSUME NEW v \in Workers, wpc'[v] \in TailPCs PROVE TailOK(v)'
  BY <1>3 DEF IInv, BlockOK, TailOK, TailsOf, Opening, Claimable, TailPCs, NoWait, Types, Gens,
         TypeOfTasks, On, OpenPark, TakeLock
<1>4. ASSUME NEW l \in Queues PROVE LockOK(l)'
  BY ParkAssumption DEF IInv, LockOK, TaskHolds, TailHolds, Opening, NoWait, Types, Gens, On,
         OpenPark, TakeLock
<1>5. NodeInLiveFrame'
  BY DEF IInv, BlockOK, NodeInLiveFrame, FrameOK, Opening, Types, On, OpenPark, TakeLock
<1>6. TimerOfThisWait'
  BY DEF IInv, TimerOfThisWait, Types, On, OpenPark, TakeLock
<1>7. AskerOK'
  BY ParkAssumption DEF IInv, BlockOK, AskerOK, Claimable, SlotLocked, PhaseOK, Types, Gens,
         Waits, TypeOfTasks, TypeOfRequests, On, OpenPark, TakeLock
<1> QED BY <1>1, <1>2, <1>3, <1>4, <1>5, <1>6, <1>7 DEF IInv

\* A sleep opens a generation on no queue.
LEMMA BeginSleepKeeps ==
  ASSUME IInv, NEW w \in Workers, NEW b \in Blocks, BeginSleep(w, b)
  PROVE  IInv'
<1>1. Types'
  <2>1. gen' \in [Blocks -> Gens]
    BY ParkAssumption DEF IInv, Types, Gens, BeginSleep, On, OpenPark, TakeLock
  <2>2. claimed' \in [Blocks -> Reasons]
    BY DEF IInv, Types, Reasons, BeginSleep, On, OpenPark, TakeLock
  <2>3. cur' \in [Blocks -> Waits]
    <3>1. gen[b] + 1 \in Gens
      BY ParkAssumption DEF IInv, Types, Gens, BeginSleep, OpenPark
    <3>2. [[NoWait EXCEPT !.timed = TRUE, !.wants = TRUE] EXCEPT !.tok = gen[b] + 1] \in Waits
      BY <3>1, NewWaits, FieldSet
    <3> QED BY <3>2 DEF IInv, Types, BeginSleep, OpenPark
  <2>4. pc' \in [Blocks -> TaskPCs]
    BY DEF IInv, Types, TaskPCs, BeginSleep, On, OpenPark, TakeLock
  <2>5. held' \subseteq Queues
    BY ParkAssumption, Blanks DEF IInv, Types, TaskPCs, Gens, Reasons, NoWait, BeginSleep, On,
           OpenPark, TakeLock
  <2> QED BY <2>1, <2>2, <2>3, <2>4, <2>5 DEF IInv, Types, BeginSleep, On, OpenPark, TakeLock
<1>2. ASSUME NEW c \in Blocks PROVE BlockOK(c)'
  <2>1. FrameOK(c)'
    BY DEF IInv, BlockOK, FrameOK, Opening, NoWait, Types, Gens, BeginSleep, On, OpenPark,
           TakeLock
  <2>2. PhaseOK(c)'
    BY DEF IInv, BlockOK, PhaseOK, NoWait, Types, Gens, BeginSleep, On, OpenPark, TakeLock
  <2>3. QueuedOK(c)'
    BY DEF IInv, BlockOK, QueuedOK, Types, BeginSleep, On, OpenPark, TakeLock
  <2>4. PlacedOK(c)'
    BY DEF IInv, BlockOK, PlacedOK, Executes, Opening, Types, BeginSleep, On, OpenPark, TakeLock
  <2>5. TailsCounted(c)'
    <3>1. TailsOf(c)' = TailsOf(c)
      BY DEF IInv, BlockOK, TailsOf, Types, BeginSleep, On, OpenPark, TakeLock
    <3> QED BY <3>1 DEF IInv, BlockOK, TailsCounted, Types, BeginSleep, OpenPark
  <2>6. CancelOK(c)'
    BY DEF IInv, BlockOK, CancelOK, Welcome, Cancellable, FrameOK, Opening, Types, BeginSleep,
           On, OpenPark, TakeLock
  <2>7. HeardOK(c)'
    BY DEF IInv, BlockOK, HeardOK, Unheard, Hears, Asking, PhaseOK, Types, BeginSleep, On,
           OpenPark, TakeLock
  <2> QED BY <2>1, <2>2, <2>3, <2>4, <2>5, <2>6, <2>7 DEF BlockOK
<1>3. ASSUME NEW v \in Workers, wpc'[v] \in TailPCs PROVE TailOK(v)'
  BY <1>3 DEF IInv, BlockOK, TailOK, TailsOf, Opening, Claimable, TailPCs, NoWait, Types, Gens,
         TypeOfTasks, BeginSleep, On, OpenPark, TakeLock
<1>4. ASSUME NEW l \in Queues PROVE LockOK(l)'
  BY ParkAssumption DEF IInv, LockOK, TaskHolds, TailHolds, Opening, NoWait, Types, Gens,
         BeginSleep, On, OpenPark, TakeLock
<1>5. NodeInLiveFrame'
  BY DEF IInv, BlockOK, NodeInLiveFrame, FrameOK, Opening, Types, BeginSleep, On, OpenPark,
         TakeLock
<1>6. TimerOfThisWait'
  BY DEF IInv, TimerOfThisWait, Types, BeginSleep, On, OpenPark, TakeLock
<1>7. AskerOK'
  BY ParkAssumption DEF IInv, BlockOK, AskerOK, Claimable, SlotLocked, PhaseOK, Types, Gens,
         Waits, TypeOfTasks, TypeOfRequests, BeginSleep, On, OpenPark, TakeLock
<1> QED BY <1>1, <1>2, <1>3, <1>4, <1>5, <1>6, <1>7 DEF IInv

\* A yield opens a generation that nobody will claim.
LEMMA BeginYieldKeeps ==
  ASSUME IInv, NEW w \in Workers, NEW b \in Blocks, BeginYield(w, b)
  PROVE  IInv'
<1>1. Types'
  <2>1. gen' \in [Blocks -> Gens]
    BY ParkAssumption DEF IInv, Types, Gens, BeginYield, On, OpenPark, TakeLock
  <2>2. claimed' \in [Blocks -> Reasons]
    BY DEF IInv, Types, Reasons, BeginYield, On, OpenPark, TakeLock
  <2>3. cur' \in [Blocks -> Waits]
    <3>1. gen[b] + 1 \in Gens
      BY ParkAssumption DEF IInv, Types, Gens, BeginYield, OpenPark
    <3>2. [[NoWait EXCEPT !.yields = TRUE] EXCEPT !.tok = gen[b] + 1] \in Waits
      BY <3>1, NewWaits, FieldSet
    <3> QED BY <3>2 DEF IInv, Types, BeginYield, OpenPark
  <2>4. pc' \in [Blocks -> TaskPCs]
    BY DEF IInv, Types, TaskPCs, BeginYield, On, OpenPark, TakeLock
  <2>5. held' \subseteq Queues
    BY ParkAssumption, Blanks DEF IInv, Types, TaskPCs, Gens, Reasons, NoWait, BeginYield, On,
           OpenPark, TakeLock
  <2> QED BY <2>1, <2>2, <2>3, <2>4, <2>5 DEF IInv, Types, BeginYield, On, OpenPark, TakeLock
<1>2. ASSUME NEW c \in Blocks PROVE BlockOK(c)'
  <2>1. FrameOK(c)'
    BY DEF IInv, BlockOK, FrameOK, Opening, NoWait, Types, Gens, BeginYield, On, OpenPark,
           TakeLock
  <2>2. PhaseOK(c)'
    BY DEF IInv, BlockOK, PhaseOK, NoWait, Types, Gens, BeginYield, On, OpenPark, TakeLock
  <2>3. QueuedOK(c)'
    BY DEF IInv, BlockOK, QueuedOK, Types, BeginYield, On, OpenPark, TakeLock
  <2>4. PlacedOK(c)'
    BY DEF IInv, BlockOK, PlacedOK, Executes, Opening, Types, BeginYield, On, OpenPark, TakeLock
  <2>5. TailsCounted(c)'
    <3>1. TailsOf(c)' = TailsOf(c)
      BY DEF IInv, BlockOK, TailsOf, Types, BeginYield, On, OpenPark, TakeLock
    <3> QED BY <3>1 DEF IInv, BlockOK, TailsCounted, Types, BeginYield, OpenPark
  <2>6. CancelOK(c)'
    BY DEF IInv, BlockOK, CancelOK, Welcome, Cancellable, FrameOK, Opening, Types, BeginYield,
           On, OpenPark, TakeLock
  <2>7. HeardOK(c)'
    BY DEF IInv, BlockOK, HeardOK, Unheard, Hears, Asking, PhaseOK, Types, BeginYield, On,
           OpenPark, TakeLock
  <2> QED BY <2>1, <2>2, <2>3, <2>4, <2>5, <2>6, <2>7 DEF BlockOK
<1>3. ASSUME NEW v \in Workers, wpc'[v] \in TailPCs PROVE TailOK(v)'
  BY <1>3 DEF IInv, BlockOK, TailOK, TailsOf, Opening, Claimable, TailPCs, NoWait, Types, Gens,
         TypeOfTasks, BeginYield, On, OpenPark, TakeLock
<1>4. ASSUME NEW l \in Queues PROVE LockOK(l)'
  BY ParkAssumption DEF IInv, LockOK, TaskHolds, TailHolds, Opening, NoWait, Types, Gens,
         BeginYield, On, OpenPark, TakeLock
<1>5. NodeInLiveFrame'
  BY DEF IInv, BlockOK, NodeInLiveFrame, FrameOK, Opening, Types, BeginYield, On, OpenPark,
         TakeLock
<1>6. TimerOfThisWait'
  BY DEF IInv, TimerOfThisWait, Types, BeginYield, On, OpenPark, TakeLock
<1>7. AskerOK'
  BY ParkAssumption DEF IInv, BlockOK, AskerOK, Claimable, SlotLocked, PhaseOK, Types, Gens,
         Waits, TypeOfTasks, TypeOfRequests, BeginYield, On, OpenPark, TakeLock
<1> QED BY <1>1, <1>2, <1>3, <1>4, <1>5, <1>6, <1>7 DEF IInv

\* A re-lock opens a generation above the wait it interrupts, whose frame stays as it is.
LEMMA BeginRelockKeeps ==
  ASSUME IInv, NEW w \in Workers, NEW b \in Blocks, BeginRelock(w, b)
  PROVE  IInv'
<1>0. /\ pc[b] = "disarmed" /\ outer[b] = NoWait /\ cur[b].q \in Queues \ {Lot}
      /\ cur'[b] = [q |-> Lot, tok |-> gen[b] + 1, timed |-> FALSE, wants |-> FALSE,
                    yields |-> FALSE, reason |-> "none"]
      /\ outer'[b] = cur[b] /\ gen'[b] = gen[b] + 1 /\ gen[b] \in Nat
      /\ \A c \in Blocks : c # b => cur'[c] = cur[c] /\ outer'[c] = outer[c] /\ gen'[c] = gen[c]
      /\ pc' = [pc EXCEPT ![b] = "opened"] /\ claimed' = [claimed EXCEPT ![b] = "none"]
      /\ UNCHANGED <<handoff, wpc, wtask>>
  <2>1. pc[b] = "disarmed" /\ outer[b] = NoWait /\ cur[b].q \in Queues \ {Lot}
    BY DEF BeginRelock, On
  <2>2. cur'[b] = [[NoWait EXCEPT !.q = Lot] EXCEPT !.tok = gen[b] + 1]
    BY DEF IInv, Types, BeginRelock, OpenPark
  <2>3. cur'[b] = [q |-> Lot, tok |-> gen[b] + 1, timed |-> FALSE, wants |-> FALSE,
                   yields |-> FALSE, reason |-> "none"]
    BY <2>2 DEF NoWait
  <2>4. outer'[b] = cur[b] /\ gen'[b] = gen[b] + 1 /\ gen[b] \in Nat
    BY ParkAssumption DEF IInv, Types, Gens, BeginRelock, OpenPark
  <2>5. \A c \in Blocks : c # b => cur'[c] = cur[c] /\ outer'[c] = outer[c] /\ gen'[c] = gen[c]
    BY DEF IInv, Types, BeginRelock, OpenPark
  <2>6. /\ pc' = [pc EXCEPT ![b] = "opened"] /\ claimed' = [claimed EXCEPT ![b] = "none"]
        /\ UNCHANGED <<handoff, wpc, wtask>>
    BY DEF BeginRelock, OpenPark
  <2> QED BY <2>1, <2>3, <2>4, <2>5, <2>6
<1>1. Types'
  <2>1. gen' \in [Blocks -> Gens]
    BY <1>0, ParkAssumption DEF IInv, Types, Gens, BeginRelock, On, OpenPark, TakeLock
  <2>2. claimed' \in [Blocks -> Reasons]
    BY <1>0 DEF IInv, Types, Reasons, BeginRelock, On, OpenPark, TakeLock
  <2>3. cur' \in [Blocks -> Waits]
    <3>1. gen[b] + 1 \in Gens
      BY <1>0, ParkAssumption DEF IInv, Types, Gens, BeginRelock, OpenPark
    <3>2. [[NoWait EXCEPT !.q = Lot] EXCEPT !.tok = gen[b] + 1] \in Waits
      BY <3>1, NewWaits, FieldSet
    <3> QED BY <3>2 DEF IInv, Types, BeginRelock, OpenPark
  <2>4. outer' \in [Blocks -> Waits]
    BY <1>0, Blanks DEF IInv, Types, BeginRelock, On, OpenPark, TakeLock
  <2>5. pc' \in [Blocks -> TaskPCs]
    BY <1>0 DEF IInv, Types, TaskPCs, BeginRelock, On, OpenPark, TakeLock
  <2>6. held' \subseteq Queues
    BY <1>0, ParkAssumption, Blanks DEF IInv, Types, TaskPCs, Gens, Reasons, NoWait, BeginRelock,
           On, OpenPark, TakeLock
  <2> QED BY <1>0, <2>1, <2>2, <2>3, <2>4, <2>5, <2>6 DEF IInv, Types, BeginRelock, On, OpenPark,
                 TakeLock
<1>2. ASSUME NEW c \in Blocks PROVE BlockOK(c)'
  <2>1. FrameOK(c)'
    <3>1. CASE c = b
      BY <1>0, <3>1 DEF IInv, BlockOK, FrameOK, Opening, NoWait, Types, Waits, Gens
    <3>2. CASE c # b
      BY <1>0, <3>2 DEF IInv, BlockOK, FrameOK, Types
    <3> QED BY <3>1, <3>2
  <2>2. PhaseOK(c)'
    BY <1>0 DEF IInv, BlockOK, PhaseOK, NoWait, Types, Gens, BeginRelock, On, OpenPark, TakeLock
  <2>3. QueuedOK(c)'
    BY <1>0 DEF IInv, BlockOK, QueuedOK, Types, BeginRelock, On, OpenPark, TakeLock
  <2>4. PlacedOK(c)'
    BY <1>0 DEF IInv, BlockOK, PlacedOK, Executes, Opening, Types, BeginRelock, On, OpenPark,
           TakeLock
  <2>5. TailsCounted(c)'
    <3>1. TailsOf(c)' = TailsOf(c)
      BY <1>0 DEF TailsOf
    <3>2. pc'[c] = "free" => pc[c] = "free"
      BY <1>0 DEF IInv, Types
    <3> QED BY <1>0, <3>1, <3>2 DEF IInv, BlockOK, TailsCounted
  <2>6. CancelOK(c)'
    BY <1>0 DEF IInv, BlockOK, CancelOK, Welcome, Cancellable, FrameOK, Opening, Types,
           BeginRelock, On, OpenPark, TakeLock
  <2>7. HeardOK(c)'
    BY SMTT(30), <1>0 DEF IInv, BlockOK, HeardOK, Unheard, Hears, Asking, PhaseOK, Types, BeginRelock, On,
           OpenPark, TakeLock
  <2> QED BY <2>1, <2>2, <2>3, <2>4, <2>5, <2>6, <2>7 DEF BlockOK
<1>3. ASSUME NEW v \in Workers, wpc'[v] \in TailPCs PROVE TailOK(v)'
  BY <1>3, <1>0 DEF IInv, BlockOK, TailOK, TailsOf, Opening, Claimable, TailPCs, NoWait, Types,
         Gens, TypeOfTasks, BeginRelock, On, OpenPark, TakeLock
<1>4. ASSUME NEW l \in Queues PROVE LockOK(l)'
  BY <1>0, ParkAssumption DEF IInv, LockOK, TaskHolds, TailHolds, Opening, NoWait, Types, Gens,
         BeginRelock, On, OpenPark, TakeLock
<1>5. NodeInLiveFrame'
  BY <1>0, ParkAssumption DEF IInv, BlockOK, NodeInLiveFrame, FrameOK, Opening, NoWait, Types,
         Gens, BeginRelock, On, OpenPark, TakeLock
<1>6. TimerOfThisWait'
  BY <1>0 DEF IInv, TimerOfThisWait, Types, BeginRelock, On, OpenPark, TakeLock
<1>7. AskerOK'
  BY <1>0, ParkAssumption DEF IInv, BlockOK, AskerOK, Claimable, SlotLocked, PhaseOK, Types,
         Gens, Waits, TypeOfTasks, TypeOfRequests, BeginRelock, On, OpenPark, TakeLock
<1> QED BY <1>1, <1>2, <1>3, <1>4, <1>5, <1>6, <1>7 DEF IInv

\* The node a task queues is of its wait in progress.
LEMMA PrepareParkKeeps ==
  ASSUME IInv, NEW w \in Workers, NEW b \in Blocks, PreparePark(w, b)
  PROVE  IInv'
<1>1. Types'
  BY DEF IInv, Types, TaskPCs, Gens, Phases, PreparePark, On, Entry
<1>2. ASSUME NEW c \in Blocks PROVE BlockOK(c)'
  <2>1. FrameOK(c)'
    BY DEF IInv, BlockOK, FrameOK, Opening, Types, PreparePark, On, Entry
  <2>2. PhaseOK(c)'
    BY DEF IInv, BlockOK, PhaseOK, Types, Gens, PreparePark, On, Entry
  <2>3. QueuedOK(c)'
    BY DEF IInv, BlockOK, QueuedOK, Types, PreparePark, On, Entry
  <2>4. PlacedOK(c)'
    BY DEF IInv, BlockOK, PlacedOK, Executes, Opening, Types, PreparePark, On, Entry
  <2>5. TailsCounted(c)'
    <3>1. TailsOf(c)' = TailsOf(c)
      BY DEF IInv, BlockOK, TailsOf, Types, PreparePark, On, Entry
    <3> QED BY <3>1 DEF IInv, BlockOK, TailsCounted, Types, PreparePark
  <2>6. CancelOK(c)'
    BY DEF IInv, BlockOK, CancelOK, Welcome, Cancellable, Types, PreparePark, On, Entry
  <2>7. HeardOK(c)'
    BY DEF IInv, BlockOK, HeardOK, Unheard, Hears, Asking, Types, PreparePark, On, Entry
  <2> QED BY <2>1, <2>2, <2>3, <2>4, <2>5, <2>6, <2>7 DEF BlockOK
<1>3. ASSUME NEW v \in Workers, wpc'[v] \in TailPCs PROVE TailOK(v)'
  BY <1>3 DEF IInv, BlockOK, TailOK, TailsOf, Opening, Claimable, Types, PreparePark, On, Entry
<1>4. ASSUME NEW l \in Queues PROVE LockOK(l)'
  BY DEF IInv, LockOK, TaskHolds, TailHolds, Opening, Types, PreparePark, On, Entry
<1>5. NodeInLiveFrame'
  BY DEF IInv, BlockOK, NodeInLiveFrame, FrameOK, Opening, Types, PreparePark, On, Entry
<1>6. TimerOfThisWait'
  BY DEF IInv, TimerOfThisWait, Types, PreparePark, On, Entry
<1>7. AskerOK'
  BY DEF IInv, AskerOK, Claimable, Types, PreparePark, On, Entry
<1> QED BY <1>1, <1>2, <1>3, <1>4, <1>5, <1>6, <1>7 DEF IInv

\* The cancellable flag and Switching go up for the generation in progress.
LEMMA SwitchParkKeeps ==
  ASSUME IInv, NEW w \in Workers, NEW b \in Blocks, SwitchPark(w, b)
  PROVE  IInv'
<1>1. Types'
  <2>1. canPark' \in [Blocks -> BOOLEAN]
    BY Blanks DEF IInv, Types, TaskPCs, Gens, Phases, Cancellable, Waits, SwitchPark, On
  <2>2. phase' \in [Blocks -> [tok : Gens, ph : Phases]]
    BY DEF IInv, Types, Phases, Gens, Waits, SwitchPark, On
  <2>3. pc' \in [Blocks -> TaskPCs]
    BY DEF IInv, Types, TaskPCs, SwitchPark, On
  <2> QED BY <2>1, <2>2, <2>3 DEF IInv, Types, SwitchPark, On
<1>2. ASSUME NEW c \in Blocks PROVE BlockOK(c)'
  <2>1. FrameOK(c)'
    BY DEF IInv, BlockOK, FrameOK, Opening, Types, SwitchPark, On
  <2>2. PhaseOK(c)'
    BY DEF IInv, BlockOK, PhaseOK, FrameOK, Opening, NoWait, Types, Gens, SwitchPark, On
  <2>3. QueuedOK(c)'
    BY DEF IInv, BlockOK, QueuedOK, Types, SwitchPark, On
  <2>4. PlacedOK(c)'
    BY DEF IInv, BlockOK, PlacedOK, Executes, Opening, Types, SwitchPark, On
  <2>5. TailsCounted(c)'
    <3>1. TailsOf(c)' = TailsOf(c)
      BY DEF IInv, BlockOK, TailsOf, Types, SwitchPark, On
    <3> QED BY <3>1 DEF IInv, BlockOK, TailsCounted, Types, SwitchPark
  <2>6. CancelOK(c)'
    BY ZenonT(30) DEF IInv, BlockOK, CancelOK, Welcome, Cancellable, FrameOK, Opening, Types, SwitchPark, On
  <2>7. HeardOK(c)'
    BY DEF IInv, BlockOK, HeardOK, Unheard, Hears, Asking, PhaseOK, Types, SwitchPark, On
  <2> QED BY <2>1, <2>2, <2>3, <2>4, <2>5, <2>6, <2>7 DEF BlockOK
<1>3. ASSUME NEW v \in Workers, wpc'[v] \in TailPCs PROVE TailOK(v)'
  BY <1>3 DEF IInv, BlockOK, TailOK, TailsOf, Opening, Claimable, Types, SwitchPark, On
<1>4. ASSUME NEW l \in Queues PROVE LockOK(l)'
  BY DEF IInv, LockOK, TaskHolds, TailHolds, Opening, Types, SwitchPark, On
<1>5. NodeInLiveFrame'
  BY DEF IInv, NodeInLiveFrame, Types, SwitchPark, On
<1>6. TimerOfThisWait'
  BY DEF IInv, TimerOfThisWait, Types, SwitchPark, On
<1>7. AskerOK'
  BY DEF IInv, AskerOK, Claimable, Types, SwitchPark, On
<1> QED BY <1>1, <1>2, <1>3, <1>4, <1>5, <1>6, <1>7 DEF IInv

\* With the context saved the tail on the worker takes over the lock.
LEMMA SwitchOutKeeps ==
  ASSUME IInv, NEW w \in Workers, NEW b \in Blocks, SwitchOut(w, b)
  PROVE  IInv'
<1>1. Types'
  <2>1. pc' \in [Blocks -> TaskPCs]
    BY DEF IInv, Types, TaskPCs, SwitchOut, On, Counted
  <2>2. handoff' \in [Blocks -> Nat]
    BY DEF IInv, Types, TaskPCs, Gens, WorkerPCs, TailPCs, NoTask, SwitchOut, On, Counted
  <2>3. wtask' \in [Workers -> TypeOfTasks]
    <3>1. [wtask[w] EXCEPT !.tok = cur[b].tok, !.q = cur[b].q] \in TypeOfTasks
      BY ZenonT(30) DEF IInv, Types, Waits, TypeOfTasks
    <3> QED BY <3>1 DEF IInv, Types, SwitchOut
  <2>4. wpc' \in [Workers -> WorkerPCs]
    BY DEF IInv, Types, WorkerPCs, TailPCs, SwitchOut, On, Counted
  <2>5. \A v \in Workers : wpc'[v] # "idle" => wtask'[v].b \in Blocks
    BY DEF IInv, Types, TaskPCs, Gens, WorkerPCs, TailPCs, NoTask, SwitchOut, On, Counted
  <2> QED BY <2>1, <2>2, <2>3, <2>4, <2>5 DEF IInv, Types, SwitchOut, On, Counted
<1>2. ASSUME NEW c \in Blocks PROVE BlockOK(c)'
  <2>1. FrameOK(c)'
    BY DEF IInv, BlockOK, FrameOK, Opening, Types, SwitchOut, On, Counted
  <2>2. PhaseOK(c)'
    BY DEF IInv, BlockOK, PhaseOK, Types, SwitchOut, On, Counted
  <2>3. QueuedOK(c)'
    BY DEF IInv, BlockOK, QueuedOK, Types, SwitchOut, On, Counted
  <2>4. PlacedOK(c)'
    BY DEF IInv, BlockOK, PlacedOK, Executes, Opening, Types, SwitchOut, On, Counted
  <2>5. TailsCounted(c)'
    <3>1. CASE c = b
      <4>1. TailsOf(b)' = TailsOf(b) \cup {w} /\ w \notin TailsOf(b)
        BY <3>1 DEF IInv, Types, TypeOfTasks, TailsOf, TailPCs, SwitchOut, On
      <4>2. Cardinality(TailsOf(b)') = Cardinality(TailsOf(b)) + 1
        BY <4>1, TailsFinite, FS_AddElement
      <4>3. \A v \in Workers : ~(wpc'[v] = "retire" /\ wtask'[v].b = b)
        BY DEF IInv, BlockOK, PlacedOK, Executes, Types, TypeOfTasks, SwitchOut, On
      <4> QED BY <3>1, <4>2, <4>3 DEF IInv, BlockOK, Types, TailsCounted, SwitchOut, On, Counted
    <3>2. CASE c # b
      <4>1. TailsOf(c)' = TailsOf(c)
        BY <3>2 DEF IInv, Types, TypeOfTasks, TailsOf, TailPCs, SwitchOut, On
      <4> QED BY <3>2, <4>1 DEF IInv, BlockOK, Types, TypeOfTasks, TailsCounted, SwitchOut, On
    <3> QED BY <3>1, <3>2
  <2>6. CancelOK(c)'
    BY DEF IInv, BlockOK, CancelOK, Welcome, Cancellable, FrameOK, Opening, Types, SwitchOut, On,
           Counted
  <2>7. HeardOK(c)'
    BY DEF IInv, BlockOK, HeardOK, Unheard, Hears, Asking, PhaseOK, FrameOK, Opening, Types,
           SwitchOut, On, Counted
  <2> QED BY <2>1, <2>2, <2>3, <2>4, <2>5, <2>6, <2>7 DEF BlockOK
<1>3. ASSUME NEW v \in Workers, wpc'[v] \in TailPCs PROVE TailOK(v)'
  <2>1. CASE v = w
    BY <1>3, <2>1 DEF IInv, BlockOK, TailOK, TailsOf, Opening, Claimable, FrameOK, PhaseOK, PlacedOK,
           Executes, TimerOfThisWait, Types, SwitchOut, On, Counted
  <2>2. CASE v # w
    BY <1>3, <2>2 DEF IInv, BlockOK, TailOK, TailsOf, Opening, Claimable, FrameOK, PhaseOK, PlacedOK,
           Executes, TimerOfThisWait, Types, SwitchOut, On, Counted
  <2> QED BY <2>1, <2>2
<1>4. ASSUME NEW l \in Queues PROVE LockOK(l)'
  BY DEF IInv, LockOK, TaskHolds, TailHolds, Opening, Types, SwitchOut, On, Counted
<1>5. NodeInLiveFrame'
  BY DEF IInv, NodeInLiveFrame, Types, SwitchOut, On, Counted
<1>6. TimerOfThisWait'
  BY DEF IInv, TimerOfThisWait, Types, SwitchOut, On, Counted
<1>7. AskerOK'
  BY DEF IInv, AskerOK, Claimable, Types, SwitchOut, On, Counted
<1> QED BY <1>1, <1>2, <1>3, <1>4, <1>5, <1>6, <1>7 DEF IInv

\* A yielded task is queued with its context saved.
LEMMA SwitchYieldKeeps ==
  ASSUME IInv, NEW w \in Workers, NEW b \in Blocks, SwitchYield(w, b)
  PROVE  IInv'
<1>0. cur[b].q = NoQueue /\ outer[b].q = NoQueue /\ runq[b] = 0
  BY DEF IInv, BlockOK, FrameOK, QueuedOK, Types, NoWait, SwitchYield, On
<1>1. Types'
  <2>1. pc' \in [Blocks -> TaskPCs]
    BY <1>0 DEF IInv, Types, TaskPCs, SwitchYield, On, GoIdle
  <2>2. runq' \in [Blocks -> 0 .. 1]
    BY <1>0 DEF IInv, Types, BlockOK, QueuedOK, SwitchYield, On, GoIdle
  <2>3. wpc' \in [Workers -> WorkerPCs]
    BY <1>0 DEF IInv, Types, WorkerPCs, TailPCs, SwitchYield, On, GoIdle
  <2>4. wtask' \in [Workers -> TypeOfTasks]
    BY <1>0, ParkAssumption, Blanks DEF IInv, Types, TypeOfTasks, Gens, SwitchYield, On, GoIdle
  <2>5. \A v \in Workers : wpc'[v] # "idle" => wtask'[v].b \in Blocks
    BY <1>0, Blanks DEF IInv, BlockOK, Types, TaskPCs, Gens, WorkerPCs, TailPCs, TypeOfTasks,
           NoTask, QueuedOK, SwitchYield, On, GoIdle
  <2> QED BY <1>0, <2>1, <2>2, <2>3, <2>4, <2>5 DEF IInv, Types, SwitchYield, On, GoIdle
<1>2. ASSUME NEW c \in Blocks PROVE BlockOK(c)'
  <2>1. FrameOK(c)'
    BY <1>0 DEF IInv, BlockOK, FrameOK, Opening, Types, SwitchYield, On, GoIdle
  <2>2. PhaseOK(c)'
    BY <1>0 DEF IInv, BlockOK, PhaseOK, Types, SwitchYield, On, GoIdle
  <2>3. QueuedOK(c)'
    BY <1>0 DEF IInv, BlockOK, QueuedOK, Types, SwitchYield, On, GoIdle
  <2>4. PlacedOK(c)'
    BY <1>0 DEF IInv, BlockOK, PlacedOK, Executes, Opening, Types, SwitchYield, On, GoIdle
  <2>5. TailsCounted(c)'
    <3>1. TailsOf(c)' = TailsOf(c)
      BY <1>0 DEF IInv, BlockOK, TailsOf, TailPCs, Types, Gens, SwitchYield, On, GoIdle
    <3> QED BY <1>0, <3>1 DEF IInv, BlockOK, TailsCounted, Types, SwitchYield, GoIdle
  <2>6. CancelOK(c)'
    BY <1>0 DEF IInv, BlockOK, CancelOK, Welcome, Cancellable, Types, SwitchYield, On, GoIdle
  <2>7. HeardOK(c)'
    BY <1>0 DEF IInv, BlockOK, HeardOK, Unheard, Hears, Asking, Types, SwitchYield, On, GoIdle
  <2> QED BY <2>1, <2>2, <2>3, <2>4, <2>5, <2>6, <2>7 DEF BlockOK
<1>3. ASSUME NEW v \in Workers, wpc'[v] \in TailPCs PROVE TailOK(v)'
  BY <1>3, <1>0 DEF IInv, BlockOK, TailOK, TailsOf, Opening, Claimable, TailPCs, Types, Gens,
         SwitchYield, On, GoIdle
<1>4. ASSUME NEW l \in Queues PROVE LockOK(l)'
  BY <1>0 DEF IInv, BlockOK, LockOK, TaskHolds, TailHolds, Opening, FrameOK, Types, SwitchYield,
         On, GoIdle
<1>5. NodeInLiveFrame'
  <2>1. \A l \in Queues : \A n \in nodes[l] : n.b # b
    BY <1>0, ParkAssumption DEF IInv, NodeInLiveFrame
  <2> QED BY <2>1 DEF IInv, Types, NodeInLiveFrame, SwitchYield
<1>6. TimerOfThisWait'
  BY <1>0 DEF IInv, TimerOfThisWait, Types, SwitchYield, On, GoIdle
<1>7. AskerOK'
  BY <1>0 DEF IInv, AskerOK, Claimable, Types, SwitchYield, On, GoIdle
<1> QED BY <1>1, <1>2, <1>3, <1>4, <1>5, <1>6, <1>7 DEF IInv

\* The timer of a wait is dropped before the task can park again.
LEMMA DisarmKeeps == ASSUME IInv, NEW w \in Workers, NEW b \in Blocks, Disarm(w, b) PROVE IInv'
<1>1. Types'
  BY DEF IInv, Types, TaskPCs, Gens, Disarm, On, Disarmed
<1>2. ASSUME NEW c \in Blocks PROVE BlockOK(c)'
  <2>1. HeardOK(c)'
    BY DEF IInv, BlockOK, HeardOK, Unheard, Hears, Asking, Disarm
  <2>2. FrameOK(c)'
    BY DEF IInv, BlockOK, FrameOK, Opening, NoWait, Types, Gens, Disarm, On, Disarmed
  <2>3. PhaseOK(c)'
    BY DEF IInv, BlockOK, PhaseOK, Types, Disarm, On, Disarmed
  <2>4. QueuedOK(c)'
    BY DEF IInv, BlockOK, QueuedOK, Types, Disarm, On, Disarmed
  <2>5. PlacedOK(c)'
    BY DEF IInv, BlockOK, PlacedOK, Executes, Opening, Types, Disarm, On, Disarmed
  <2>6. TailsCounted(c)'
    <3>1. TailsOf(c)' = TailsOf(c)
      BY DEF IInv, BlockOK, TailsOf, Types, Disarm, On, Disarmed
    <3> QED BY <3>1 DEF IInv, BlockOK, TailsCounted, Types, Disarm
  <2>7. CancelOK(c)'
    BY DEF IInv, BlockOK, CancelOK, Welcome, Cancellable, Types, Disarm, On, Disarmed
  <2> QED BY <2>1, <2>2, <2>3, <2>4, <2>5, <2>6, <2>7 DEF BlockOK
<1>3. ASSUME NEW v \in Workers, wpc'[v] \in TailPCs PROVE TailOK(v)'
  BY <1>3 DEF IInv, BlockOK, TailOK, TailsOf, Opening, Claimable, Types, Disarm, On, Disarmed
<1>4. ASSUME NEW l \in Queues PROVE LockOK(l)'
  BY DEF IInv, LockOK, TaskHolds, TailHolds, Opening, Types, Disarm, On, Disarmed
<1>5. NodeInLiveFrame'
  BY DEF IInv, NodeInLiveFrame, Types, Disarm, On, Disarmed
<1>6. TimerOfThisWait'
  BY DEF IInv, TimerOfThisWait, Types, Disarm, On, Disarmed
<1>7. AskerOK'
  BY DEF IInv, AskerOK, Claimable, Types, Disarm, On, Disarmed
<1> QED BY <1>1, <1>2, <1>3, <1>4, <1>5, <1>6, <1>7 DEF IInv

\* A finished wait takes its node along, whether it returns to the user or to an outer wait.
LEMMA FinishWaitKeeps ==
  ASSUME IInv, NEW w \in Workers, NEW b \in Blocks, FinishWait(w, b)
  PROVE  IInv'
<1>1. Types'
  BY Blanks DEF IInv, Types, TaskPCs, Gens, Phases, Reasons, NoWait, FinishWait, On, Unlinked,
         Entry, Accepts
<1>2. ASSUME NEW c \in Blocks PROVE BlockOK(c)'
  <2>1. FrameOK(c)'
    <3>1. CASE c # b
      BY <3>1 DEF IInv, BlockOK, FrameOK, Types, FinishWait
    <3>2. CASE c = b /\ outer[b] = NoWait
      BY <3>2 DEF IInv, BlockOK, FrameOK, Opening, NoWait, Types, FinishWait, On
    <3>3. CASE c = b /\ outer[b] # NoWait
      <4>1. /\ pc[b] = "disarmed" /\ pc'[b] = "disarmed" /\ cur'[b] = outer[b]
            /\ outer'[b] = NoWait
            /\ gen' = gen /\ claimed' = claimed
        BY <3>3 DEF IInv, Types, FinishWait, On
      <4> QED BY <3>3, <4>1, ParkAssumption DEF IInv, BlockOK, FrameOK, Opening, Types, Waits,
                     Gens
    <3> QED BY <3>1, <3>2, <3>3
  <2>2. PhaseOK(c)'
    BY DEF IInv, BlockOK, PhaseOK, Types, Gens, FinishWait, On, Unlinked, Entry, Accepts
  <2>3. QueuedOK(c)'
    BY DEF IInv, BlockOK, QueuedOK, Types, FinishWait, On, Unlinked, Entry, Accepts
  <2>4. PlacedOK(c)'
    BY DEF IInv, BlockOK, PlacedOK, Executes, Opening, Types, FinishWait, On, Unlinked, Entry,
           Accepts
  <2>5. TailsCounted(c)'
    <3>1. TailsOf(c)' = TailsOf(c)
      BY DEF IInv, BlockOK, TailsOf, Types, FinishWait, On, Unlinked, Entry, Accepts
    <3> QED BY <3>1 DEF IInv, BlockOK, TailsCounted, Types, FinishWait
  <2>6. CancelOK(c)'
    BY DEF IInv, BlockOK, CancelOK, Welcome, Cancellable, FrameOK, Opening, Types, FinishWait,
           On, Unlinked, Entry, Accepts
  <2>7. HeardOK(c)'
    BY DEF IInv, BlockOK, HeardOK, Unheard, Hears, Asking, PhaseOK, Types, FinishWait, On,
           Unlinked, Entry, Accepts
  <2> QED BY <2>1, <2>2, <2>3, <2>4, <2>5, <2>6, <2>7 DEF BlockOK
<1>3. ASSUME NEW v \in Workers, wpc'[v] \in TailPCs PROVE TailOK(v)'
  BY <1>3 DEF IInv, BlockOK, TailOK, TailsOf, Opening, Claimable, FrameOK, Types, FinishWait, On,
         Unlinked, Entry, Accepts
<1>4. ASSUME NEW l \in Queues PROVE LockOK(l)'
  BY DEF IInv, LockOK, TaskHolds, TailHolds, Opening, Types, FinishWait, On, Unlinked, Entry,
         Accepts
<1>5. NodeInLiveFrame'
  BY ParkAssumption DEF IInv, BlockOK, NodeInLiveFrame, FrameOK, Opening, NoWait, Types, Gens,
         FinishWait, On, Unlinked, Entry, Accepts
<1>6. TimerOfThisWait'
  BY DEF IInv, BlockOK, TimerOfThisWait, FrameOK, Opening, Types, FinishWait, On, Unlinked,
         Entry, Accepts
<1>7. AskerOK'
  BY DEF IInv, BlockOK, AskerOK, Claimable, FrameOK, Opening, Types, FinishWait, On, Unlinked,
         Entry, Accepts
<1> QED BY <1>1, <1>2, <1>3, <1>4, <1>5, <1>6, <1>7 DEF IInv

\* A running task has no wait whose cancellation its mask could change.
LEMMA ToggleMaskKeeps ==
  ASSUME IInv, NEW w \in Workers, NEW b \in Blocks, ToggleMask(w, b)
  PROVE  IInv'
<1>1. Types'
  BY DEF IInv, Types, ToggleMask, On
<1>2. ASSUME NEW c \in Blocks PROVE BlockOK(c)'
  <2>1. FrameOK(c)' /\ PhaseOK(c)' /\ QueuedOK(c)' /\ PlacedOK(c)' /\ HeardOK(c)'
    BY DEF IInv, BlockOK, FrameOK, PhaseOK, QueuedOK, PlacedOK, Executes, HeardOK, Unheard,
           Hears, Asking, ToggleMask
  <2>2. TailsCounted(c)'
    <3>1. TailsOf(c)' = TailsOf(c)
      BY DEF TailsOf, ToggleMask
    <3> QED BY <3>1 DEF IInv, BlockOK, TailsCounted, ToggleMask
  <2>3. CancelOK(c)'
    BY DEF IInv, BlockOK, CancelOK, Welcome, Cancellable, FrameOK, Opening, Types, ToggleMask, On
  <2> QED BY <2>1, <2>2, <2>3 DEF BlockOK
<1>3. (\A v \in Workers : wpc[v] \in TailPCs => TailOK(v))' /\ (\A l \in Queues : LockOK(l))'
      /\ NodeInLiveFrame' /\ TimerOfThisWait' /\ AskerOK'
  BY DEF IInv, TailOK, TailsOf, Claimable, LockOK, TaskHolds, TailHolds, NodeInLiveFrame,
         TimerOfThisWait, AskerOK, ToggleMask
<1> QED BY <1>1, <1>2, <1>3 DEF IInv

\* A running task that accepts a cancellation has no wait that was to accept it.
LEMMA CancelPointKeeps ==
  ASSUME IInv, NEW w \in Workers, NEW b \in Blocks, CancelPoint(w, b)
  PROVE  IInv'
<1>1. Types'
  BY DEF IInv, Types, CancelPoint, On
<1>2. ASSUME NEW c \in Blocks PROVE BlockOK(c)'
  <2>1. FrameOK(c)' /\ PhaseOK(c)' /\ QueuedOK(c)' /\ PlacedOK(c)'
    BY DEF IInv, BlockOK, FrameOK, PhaseOK, QueuedOK, PlacedOK, Executes, CancelPoint
  <2>2. TailsCounted(c)'
    <3>1. TailsOf(c)' = TailsOf(c)
      BY DEF TailsOf, CancelPoint
    <3> QED BY <3>1 DEF IInv, BlockOK, TailsCounted, CancelPoint
  <2>3. CancelOK(c)'
    BY DEF IInv, BlockOK, CancelOK, Welcome, Cancellable, FrameOK, Opening, Types, CancelPoint, On
  <2>4. HeardOK(c)'
    BY DEF IInv, BlockOK, HeardOK, Unheard, Hears, Asking, Types, CancelPoint, On
  <2> QED BY <2>1, <2>2, <2>3, <2>4 DEF BlockOK
<1>3. ASSUME NEW v \in Workers, wpc'[v] \in TailPCs PROVE TailOK(v)'
  BY <1>3 DEF IInv, BlockOK, TailOK, TailsOf, Opening, Claimable, Types, CancelPoint, On
<1>4. AskerOK'
  BY DEF IInv, AskerOK, Claimable, Types, CancelPoint, On
<1>5. (\A l \in Queues : LockOK(l))' /\ NodeInLiveFrame' /\ TimerOfThisWait'
  BY DEF IInv, LockOK, TaskHolds, TailHolds, NodeInLiveFrame, TimerOfThisWait, CancelPoint
<1> QED BY <1>1, <1>2, <1>3, <1>4, <1>5 DEF IInv

-----------------------------------------------------------------------------
(* Parking: the hand-off tail *)

\* The timer a tail arms is of the wait its task is in, since nobody could claim it before.
LEMMA TailArmKeeps == ASSUME IInv, NEW w \in Workers, NEW b \in Blocks, TailArm(w, b) PROVE IInv'
<1>1. Types'
  BY Blanks DEF IInv, Types, WorkerPCs, TailPCs, TypeOfTasks, NoTask, Gens, TailArm, InTail, Entry,
         taskVars
<1>2. ASSUME NEW c \in Blocks PROVE BlockOK(c)'
  <2>1. FrameOK(c)' /\ PhaseOK(c)' /\ QueuedOK(c)' /\ CancelOK(c)'
    BY DEF IInv, BlockOK, FrameOK, PhaseOK, QueuedOK, CancelOK, Welcome, Cancellable, TailArm,
           taskVars
  <2>2. PlacedOK(c)'
    BY DEF IInv, BlockOK, PlacedOK, Executes, Opening, Types, TailArm, InTail, Entry, taskVars
  <2>3. TailsCounted(c)'
    <3>1. TailsOf(c)' = TailsOf(c)
      BY DEF IInv, BlockOK, TailsOf, TailPCs, Types, Gens, TailArm, InTail, Entry, taskVars
    <3> QED BY <3>1 DEF IInv, BlockOK, TailsCounted, Types, TailArm, taskVars
  <2>4. HeardOK(c)'
    <3>1. \A v \in Workers : Hears(v, c) /\ Unheard(c)' => Hears(v, c)'
      BY DEF IInv, BlockOK, Unheard, Hears, Types, TailArm, InTail, Entry, taskVars
    <3>2. Asking(c) /\ Unheard(c)' => Asking(c)'
      BY DEF IInv, BlockOK, Unheard, Asking, Types, TailArm, InTail, Entry, taskVars
    <3>3. Unheard(c)' => Unheard(c)
      BY DEF IInv, BlockOK, Unheard, Types, TailArm, InTail, Entry, taskVars
    <3> QED BY <3>1, <3>2, <3>3 DEF IInv, BlockOK, HeardOK
  <2> QED BY <2>1, <2>2, <2>3, <2>4 DEF BlockOK
<1>3. ASSUME NEW v \in Workers, wpc'[v] \in TailPCs PROVE TailOK(v)'
  BY <1>3 DEF IInv, BlockOK, TailOK, TailsOf, Opening, Claimable, TailPCs, Types, Gens, TailArm,
         InTail, Entry, taskVars
<1>4. ASSUME NEW l \in Queues PROVE LockOK(l)'
  BY DEF IInv, LockOK, TaskHolds, TailHolds, Opening, Types, TailArm, InTail, Entry, taskVars
<1>5. TimerOfThisWait'
  BY DEF IInv, BlockOK, TimerOfThisWait, TailOK, TailsOf, Opening, Claimable, TailPCs, FrameOK,
         NoWait, Types, Gens, TailArm, InTail, Entry, taskVars
<1>6. NodeInLiveFrame' /\ AskerOK'
  BY DEF IInv, NodeInLiveFrame, AskerOK, Claimable, TailArm, taskVars
<1> QED BY <1>1, <1>2, <1>3, <1>4, <1>5, <1>6 DEF IInv

\* A tail that releases the lock is the one that had it.
LEMMA TailCommitKeeps ==
  ASSUME IInv, NEW w \in Workers, NEW b \in Blocks, TailCommit(w, b)
  PROVE  IInv'
<1>1. Types'
  BY DEF IInv, Types, WorkerPCs, TailPCs, NoTask, TailCommit, InTail, taskVars
<1>2. ASSUME NEW c \in Blocks PROVE BlockOK(c)'
  <2>1. FrameOK(c)' /\ PhaseOK(c)' /\ QueuedOK(c)' /\ CancelOK(c)'
    BY DEF IInv, BlockOK, FrameOK, PhaseOK, QueuedOK, CancelOK, Welcome, Cancellable, TailCommit,
           taskVars
  <2>2. PlacedOK(c)'
    BY DEF IInv, BlockOK, PlacedOK, Executes, Opening, Types, TailCommit, InTail, taskVars
  <2>3. TailsCounted(c)'
    <3>1. TailsOf(c)' = TailsOf(c)
      BY DEF IInv, BlockOK, TailsOf, TailPCs, Types, Gens, TailCommit, InTail, taskVars
    <3> QED BY <3>1 DEF IInv, BlockOK, TailsCounted, Types, TailCommit, taskVars
  <2>4. HeardOK(c)'
    <3>1. \A v \in Workers : Hears(v, c) /\ Unheard(c)' => Hears(v, c)'
      BY DEF IInv, BlockOK, Unheard, Hears, Types, TailCommit, InTail, taskVars
    <3>2. Asking(c) /\ Unheard(c)' => Asking(c)'
      BY DEF IInv, BlockOK, Unheard, Asking, Types, TailCommit, InTail, taskVars
    <3>3. Unheard(c)' => Unheard(c)
      BY DEF IInv, BlockOK, Unheard, Types, TailCommit, InTail, taskVars
    <3> QED BY <3>1, <3>2, <3>3 DEF IInv, BlockOK, HeardOK
  <2> QED BY <2>1, <2>2, <2>3, <2>4 DEF BlockOK
<1>3. ASSUME NEW v \in Workers, wpc'[v] \in TailPCs PROVE TailOK(v)'
  BY <1>3 DEF IInv, BlockOK, TailOK, TailsOf, Opening, Claimable, TailPCs, Types, Gens,
         TailCommit, InTail, taskVars
<1>4. ASSUME NEW l \in Queues PROVE LockOK(l)'
  BY DEF IInv, LockOK, TaskHolds, TailHolds, Opening, Types, TailCommit, InTail, taskVars
<1>5. NodeInLiveFrame' /\ TimerOfThisWait' /\ AskerOK'
  BY DEF IInv, NodeInLiveFrame, TimerOfThisWait, AskerOK, Claimable, TailCommit, taskVars
<1> QED BY <1>1, <1>2, <1>3, <1>4, <1>5 DEF IInv

\* A tail that publishes Parked does so for the generation it came with.
LEMMA PublishKeeps ==
  ASSUME IInv, NEW w \in Workers, NEW b \in Blocks, TailPublish(w, b),
         phase[b] = [tok |-> wtask[w].tok, ph |-> "switching"]
  PROVE  IInv'
<1>0. /\ wpc[w] = "publish" /\ wtask[w].b = b /\ TailOK(w)
     /\ wpc' = [wpc EXCEPT ![w] = "check"]
     /\ phase' = [phase EXCEPT ![b] = [tok |-> wtask[w].tok, ph |-> "parked"]]
     /\ UNCHANGED <<gen, claimed, canPark, cur, outer, cancel, masked, handoff, life, pc, runq,
                    wtask, timers, nodes, held, asker>>
  BY DEF IInv, TailPublish, InTail, TailPCs
<1>a. /\ wtask[w].tok = gen[b] /\ pc[b] = "saved"
      /\ phase[b].ph = "switching" /\ phase'[b].ph = "parked" /\ phase'[b].tok = gen[b]
      /\ \A c \in Blocks : c # b => phase'[c] = phase[c]
  <2>1. wtask[w].tok = gen[b] /\ phase[b].ph = "switching"
    BY <1>0 DEF IInv, BlockOK, PhaseOK
  <2>2. pc[b] \in {"switching", "saved"} /\ pc[b] \notin Opening
    BY <1>0, <2>1 DEF IInv, BlockOK, PhaseOK, TailOK, Types, Gens
  <2> QED BY <1>0, <2>1, <2>2 DEF IInv, Types, Opening
<1>1. Types'
  <2>1. phase' \in [Blocks -> [tok : Gens, ph : Phases]]
    BY <1>0 DEF IInv, Types, Phases, Gens, Waits, TailPublish
  <2>2. wpc' \in [Workers -> WorkerPCs]
    BY <1>0 DEF IInv, Types, WorkerPCs, TailPCs, TailPublish
  <2>3. \A v \in Workers : wpc'[v] # "idle" => wtask'[v].b \in Blocks
    BY <1>0 DEF IInv, Types, Phases, WorkerPCs, TailPCs, NoTask
  <2> QED BY <1>0, <2>1, <2>2, <2>3 DEF IInv, Types
<1>2. ASSUME NEW c \in Blocks PROVE BlockOK(c)'
  <2>1. FrameOK(c)' /\ QueuedOK(c)' /\ CancelOK(c)'
    BY DEF IInv, BlockOK, FrameOK, QueuedOK, CancelOK, Welcome, Cancellable, TailPublish
  <2>2. PhaseOK(c)'
    <3>1. CASE c = b
      BY <3>1, <1>0, <1>a DEF IInv, BlockOK, PhaseOK, TailOK, TailsOf, Opening, Claimable,
             TailsCounted, Types
    <3>2. CASE c # b
      BY <3>2, <1>0, <1>a DEF IInv, BlockOK, PhaseOK, TailOK, TailsOf, Opening, Claimable,
             TailsCounted, Types
    <3> QED BY <3>1, <3>2
  <2>3. PlacedOK(c)'
    BY <1>0, <1>a DEF IInv, BlockOK, PlacedOK, Executes, Opening, Types
  <2>4. TailsCounted(c)'
    <3>1. TailsOf(c)' = TailsOf(c)
      BY <1>0, <1>a DEF IInv, BlockOK, TailsOf, TailPCs, Types, Gens
    <3> QED BY <1>0, <3>1 DEF IInv, BlockOK, TailsCounted, Types, TailPublish
  <2>5. HeardOK(c)'
    <3>1. CASE c = b
      <4>1. Hears(w, b)'
        BY <1>0, <1>a DEF IInv, Types, Hears
      <4> QED BY <3>1, <4>1 DEF HeardOK
    <3>2. CASE c # b
      <4>1. \A v \in Workers : Hears(v, c) => Hears(v, c)'
        BY <1>0, <3>2 DEF IInv, Types, Hears
      <4>2. (Unheard(c)' => Unheard(c)) /\ (Asking(c) => Asking(c)')
        BY <1>0, <1>a, <3>2 DEF Unheard, Asking
      <4> QED BY <4>1, <4>2 DEF IInv, BlockOK, HeardOK
    <3> QED BY <3>1, <3>2
  <2> QED BY <2>1, <2>2, <2>3, <2>4, <2>5 DEF BlockOK
<1>3. ASSUME NEW v \in Workers, wpc'[v] \in TailPCs PROVE TailOK(v)'
  BY <1>3, <1>0, <1>a DEF IInv, BlockOK, TailOK, TailsOf, Opening, Claimable, TailsCounted, Types
<1>4. ASSUME NEW l \in Queues PROVE LockOK(l)'
  BY <1>0, <1>a DEF IInv, LockOK, TaskHolds, TailHolds, Opening, Types
<1>5. AskerOK'
  BY <1>0, <1>a DEF IInv, AskerOK, Claimable, Types
<1>6. NodeInLiveFrame' /\ TimerOfThisWait'
  BY DEF IInv, NodeInLiveFrame, TimerOfThisWait, TailPublish
<1> QED BY <1>1, <1>2, <1>3, <1>4, <1>5, <1>6 DEF IInv

\* A tail that finds another phase publishes nothing: its generation is over.
LEMMA PublishLateKeeps ==
  ASSUME IInv, NEW w \in Workers, NEW b \in Blocks, TailPublish(w, b),
         phase[b] # [tok |-> wtask[w].tok, ph |-> "switching"]
  PROVE  IInv'
<1>0. /\ wpc[w] = "publish" /\ wtask[w].b = b /\ TailOK(w)
     /\ wpc' = [wpc EXCEPT ![w] = "end"]
     /\ UNCHANGED <<gen, claimed, phase, canPark, cur, outer, cancel, masked, handoff, life, pc,
                    runq, wtask, timers, nodes, held, asker>>
  BY DEF IInv, TailPublish, InTail, TailPCs
<1>1. Types'
  <2>1. wpc' \in [Workers -> WorkerPCs]
    BY <1>0 DEF IInv, Types, WorkerPCs, TailPCs, TailPublish
  <2>2. \A v \in Workers : wpc'[v] # "idle" => wtask'[v].b \in Blocks
    BY <1>0 DEF IInv, Types, Phases, WorkerPCs, TailPCs, NoTask
  <2> QED BY <1>0, <2>1, <2>2 DEF IInv, Types
<1>2. ASSUME NEW c \in Blocks PROVE BlockOK(c)'
  <2>1. FrameOK(c)' /\ PhaseOK(c)' /\ QueuedOK(c)' /\ CancelOK(c)'
    BY DEF IInv, BlockOK, FrameOK, PhaseOK, QueuedOK, CancelOK, Welcome, Cancellable, TailPublish
  <2>2. PlacedOK(c)'
    BY <1>0 DEF IInv, BlockOK, PlacedOK, Executes, Opening, Types
  <2>3. TailsCounted(c)'
    <3>1. TailsOf(c)' = TailsOf(c)
      BY <1>0 DEF IInv, BlockOK, TailsOf, TailPCs, Types, Gens
    <3> QED BY <1>0, <3>1 DEF IInv, BlockOK, TailsCounted, Types, TailPublish
  <2>4. HeardOK(c)'
    <3>1. \A v \in Workers : Hears(v, c) /\ Unheard(c)' => Hears(v, c)'
      BY <1>0 DEF IInv, BlockOK, Unheard, Hears, Types
    <3>2. Asking(c) /\ Unheard(c)' => Asking(c)'
      BY <1>0 DEF IInv, BlockOK, Unheard, Asking, Types
    <3>3. Unheard(c)' => Unheard(c)
      BY <1>0 DEF IInv, BlockOK, Unheard, Types
    <3> QED BY <3>1, <3>2, <3>3 DEF IInv, BlockOK, HeardOK
  <2> QED BY <2>1, <2>2, <2>3, <2>4 DEF BlockOK
<1>3. ASSUME NEW v \in Workers, wpc'[v] \in TailPCs PROVE TailOK(v)'
  BY <1>3, <1>0 DEF IInv, BlockOK, TailOK, TailsOf, Opening, Claimable, TailsCounted, Types
<1>4. ASSUME NEW l \in Queues PROVE LockOK(l)'
  BY <1>0 DEF IInv, LockOK, TaskHolds, TailHolds, Opening, Types
<1>5. NodeInLiveFrame' /\ TimerOfThisWait' /\ AskerOK'
  BY DEF IInv, NodeInLiveFrame, TimerOfThisWait, AskerOK, Claimable, TailPublish
<1> QED BY <1>1, <1>2, <1>3, <1>4, <1>5 DEF IInv

\* A tail that finds no request leaves none behind that it published the park to.
LEMMA TailCheckKeeps ==
  ASSUME IInv, NEW w \in Workers, NEW b \in Blocks, TailCheck(w, b)
  PROVE  IInv'
<1>1. Types'
  BY DEF IInv, Types, WorkerPCs, TailPCs, NoTask, TailCheck, InTail, AfterPublish, taskVars
<1>2. ASSUME NEW c \in Blocks PROVE BlockOK(c)'
  <2>1. FrameOK(c)' /\ PhaseOK(c)' /\ QueuedOK(c)' /\ CancelOK(c)'
    BY DEF IInv, BlockOK, FrameOK, PhaseOK, QueuedOK, CancelOK, Welcome, Cancellable, TailCheck,
           taskVars
  <2>2. PlacedOK(c)'
    BY DEF IInv, BlockOK, PlacedOK, Executes, Opening, Types, TailCheck, InTail, AfterPublish,
           taskVars
  <2>3. TailsCounted(c)'
    <3>1. TailsOf(c)' = TailsOf(c)
      BY DEF IInv, BlockOK, TailsOf, TailPCs, Types, Gens, TailCheck, InTail, AfterPublish, taskVars
    <3> QED BY <3>1 DEF IInv, BlockOK, TailsCounted, Types, Gens, Waits, TypeOfTasks,
                   TypeOfRequests, TailCheck, InTail, AfterPublish, taskVars
  <2>4. HeardOK(c)'
    BY DEF IInv, BlockOK, HeardOK, Unheard, Hears, Asking, Types, TailCheck, InTail, AfterPublish,
           taskVars
  <2> QED BY <2>1, <2>2, <2>3, <2>4 DEF BlockOK
<1>3. ASSUME NEW v \in Workers, wpc'[v] \in TailPCs PROVE TailOK(v)'
  BY <1>3 DEF IInv, BlockOK, TailOK, TailsOf, Opening, Claimable, TailPCs, Types, Gens,
         TailCheck, InTail, AfterPublish, taskVars
<1>4. ASSUME NEW l \in Queues PROVE LockOK(l)'
  BY DEF IInv, LockOK, TaskHolds, TailHolds, Opening, Types, TailCheck, InTail, AfterPublish,
         taskVars
<1>5. NodeInLiveFrame' /\ TimerOfThisWait' /\ AskerOK'
  BY DEF IInv, NodeInLiveFrame, TimerOfThisWait, AskerOK, Claimable, TailCheck, taskVars
<1> QED BY <1>1, <1>2, <1>3, <1>4, <1>5 DEF IInv

\* A tail goes on to claim only a park that can be cancelled.
LEMMA TailCanKeeps == ASSUME IInv, NEW w \in Workers, NEW b \in Blocks, TailCan(w, b) PROVE IInv'
<1>1. Types'
  BY DEF IInv, Types, WorkerPCs, TailPCs, NoTask, TailCan, InTail, taskVars
<1>2. ASSUME NEW c \in Blocks PROVE BlockOK(c)'
  <2>1. FrameOK(c)' /\ PhaseOK(c)' /\ QueuedOK(c)' /\ CancelOK(c)'
    BY DEF IInv, BlockOK, FrameOK, PhaseOK, QueuedOK, CancelOK, Welcome, Cancellable, TailCan,
           taskVars
  <2>2. PlacedOK(c)'
    BY DEF IInv, BlockOK, PlacedOK, Executes, Opening, Types, TailCan, InTail, taskVars
  <2>3. TailsCounted(c)'
    <3>1. TailsOf(c)' = TailsOf(c)
      BY DEF IInv, BlockOK, TailsOf, TailPCs, Types, Gens, TailCan, InTail, taskVars
    <3> QED BY <3>1 DEF IInv, BlockOK, TailsCounted, Types, TailCan, taskVars
  <2>4. HeardOK(c)'
    BY DEF IInv, BlockOK, HeardOK, Unheard, Hears, Asking, Types, TailCan, InTail, taskVars
  <2> QED BY <2>1, <2>2, <2>3, <2>4 DEF BlockOK
<1>3. ASSUME NEW v \in Workers, wpc'[v] \in TailPCs PROVE TailOK(v)'
  BY <1>3 DEF IInv, BlockOK, TailOK, TailsOf, Opening, Claimable, TailPCs, Types, Gens, TailCan,
         InTail, taskVars
<1>4. ASSUME NEW l \in Queues PROVE LockOK(l)'
  BY DEF IInv, LockOK, TaskHolds, TailHolds, Opening, Types, TailCan, InTail, taskVars
<1>5. NodeInLiveFrame' /\ TimerOfThisWait' /\ AskerOK'
  BY DEF IInv, NodeInLiveFrame, TimerOfThisWait, AskerOK, Claimable, TailCan, taskVars
<1> QED BY <1>1, <1>2, <1>3, <1>4, <1>5 DEF IInv

\* A tail claims its own generation or none.
LEMMA TailClaimKeeps ==
  ASSUME IInv, NEW w \in Workers, NEW b \in Blocks, TailClaim(w, b)
  PROVE  IInv'
<1>0. Claimable(b, wtask[w].tok) =>
       pc[b] = "saved" /\ phase[b].ph = "parked" /\ Welcome(b, cur[b])
  BY DEF IInv, BlockOK, TailOK, CancelOK, Cancellable, Welcome, Types, TailPCs, TailClaim, InTail
<1>1. Types'
  <2>1. claimed' \in [Blocks -> Reasons]
    BY <1>0 DEF IInv, Types, Reasons, TailClaim, InTail, WakeAs
  <2>2. runq' \in [Blocks -> 0 .. 1]
    <3>1. Claimable(b, wtask[w].tok) => runq[b] = 0
      BY <1>0 DEF IInv, BlockOK, QueuedOK, Types, Claimable
    <3> QED BY <3>1 DEF IInv, Types, TailClaim, WakeAs
  <2>3. wpc' \in [Workers -> WorkerPCs]
    BY <1>0 DEF IInv, Types, WorkerPCs, TailPCs, TailClaim, InTail, WakeAs
  <2>4. \A v \in Workers : wpc'[v] # "idle" => wtask'[v].b \in Blocks
    BY <1>0 DEF IInv, BlockOK, Types, WorkerPCs, TailPCs, NoTask, Reasons, Claimable, QueuedOK,
           TailClaim, InTail, WakeAs
  <2> QED BY <1>0, <2>1, <2>2, <2>3, <2>4 DEF IInv, Types, TailClaim, InTail, WakeAs
<1>2. ASSUME NEW c \in Blocks PROVE BlockOK(c)'
  <2>1. PhaseOK(c)'
    BY DEF IInv, BlockOK, PhaseOK, TailClaim, WakeAs
  <2>2. FrameOK(c)'
    BY <1>0 DEF IInv, BlockOK, FrameOK, Opening, Claimable, Types, TailClaim, InTail, WakeAs
  <2>3. QueuedOK(c)'
    BY <1>0 DEF IInv, BlockOK, QueuedOK, Claimable, Types, TailClaim, InTail, WakeAs
  <2>4. PlacedOK(c)'
    BY <1>0 DEF IInv, BlockOK, PlacedOK, Executes, Opening, Types, TailClaim, InTail, WakeAs
  <2>5. TailsCounted(c)'
    <3>1. TailsOf(c)' = TailsOf(c)
      BY <1>0 DEF IInv, BlockOK, TailsOf, TailPCs, Types, Gens, TailClaim, InTail, WakeAs
    <3> QED BY <1>0, <3>1 DEF IInv, BlockOK, TailsCounted, Types, TailClaim, WakeAs
  <2>6. CancelOK(c)'
    BY <1>0 DEF IInv, BlockOK, CancelOK, Welcome, Cancellable, Claimable, FrameOK, Opening,
           Types, TailClaim, InTail, WakeAs
  <2>7. HeardOK(c)'
    <3>1. \A v \in Workers : Hears(v, c) /\ Unheard(c)' => Hears(v, c)'
      BY <1>0 DEF IInv, BlockOK, Unheard, Hears, Claimable, Types, TailClaim, InTail, WakeAs
    <3>2. Asking(c) /\ Unheard(c)' => Asking(c)'
      BY <1>0 DEF IInv, BlockOK, Unheard, Asking, Types, TailClaim, InTail, WakeAs
    <3>3. Unheard(c)' => Unheard(c)
      BY <1>0 DEF IInv, BlockOK, Unheard, Types, TailClaim, InTail, WakeAs
    <3> QED BY <3>1, <3>2, <3>3 DEF IInv, BlockOK, HeardOK
  <2> QED BY <2>1, <2>2, <2>3, <2>4, <2>5, <2>6, <2>7 DEF BlockOK
<1>3. ASSUME NEW v \in Workers, wpc'[v] \in TailPCs PROVE TailOK(v)'
  BY <1>3, <1>0 DEF IInv, BlockOK, TailOK, TailsOf, Opening, Claimable, TailPCs, Types, Gens,
         TailClaim, InTail, WakeAs
<1>4. ASSUME NEW l \in Queues PROVE LockOK(l)'
  BY <1>0 DEF IInv, LockOK, TaskHolds, TailHolds, Opening, Types, TailClaim, InTail, WakeAs
<1>5. AskerOK'
  BY <1>0 DEF IInv, AskerOK, Claimable, Types, TailClaim, InTail, WakeAs
<1>6. NodeInLiveFrame' /\ TimerOfThisWait'
  BY DEF IInv, NodeInLiveFrame, TimerOfThisWait, TailClaim, WakeAs
<1> QED BY <1>1, <1>2, <1>3, <1>4, <1>5, <1>6 DEF IInv

\* A tail that ends was counted.
LEMMA TailEndKeeps == ASSUME IInv, NEW w \in Workers, NEW b \in Blocks, TailEnd(w, b) PROVE IInv'
<1>0. handoff[b] > 0
  <2>1. w \in TailsOf(b)
    BY DEF TailsOf, TailEnd, InTail, TailPCs
  <2> QED BY <2>1, TailsFinite, FS_EmptySet DEF IInv, BlockOK, TailsCounted, Types
<1>1. Types'
  BY <1>0, Blanks DEF IInv, BlockOK, Types, WorkerPCs, TailPCs, TypeOfTasks, NoTask,
         TailsCounted, TailsOf, TailEnd, InTail, GoIdle
<1>2. ASSUME NEW c \in Blocks PROVE BlockOK(c)'
  <2>1. FrameOK(c)' /\ PhaseOK(c)' /\ QueuedOK(c)' /\ CancelOK(c)'
    BY DEF IInv, BlockOK, FrameOK, PhaseOK, QueuedOK, CancelOK, Welcome, Cancellable, TailEnd,
           GoIdle
  <2>2. PlacedOK(c)'
    BY <1>0 DEF IInv, BlockOK, PlacedOK, Executes, Opening, Types, TailEnd, InTail, GoIdle
  <2>3. TailsCounted(c)'
    <3>1. CASE c = b
      <4>1. TailsOf(b)' = TailsOf(b) \ {w} /\ w \in TailsOf(b)
        BY <3>1 DEF IInv, Types, TypeOfTasks, TailsOf, TailPCs, TailEnd, InTail, GoIdle, NoTask
      <4>2. Cardinality(TailsOf(b)') = Cardinality(TailsOf(b)) - 1
        BY <4>1, TailsFinite, FS_RemoveElement
      <4> QED BY <3>1, <4>1, <4>2 DEF IInv, BlockOK, Types, TailsCounted, TailEnd, InTail, GoIdle,
                     NoTask
    <3>2. CASE c # b
      <4>1. TailsOf(c)' = TailsOf(c)
        BY <3>2, ParkAssumption DEF IInv, Types, TypeOfTasks, TailsOf, TailPCs, TailEnd, InTail,
               GoIdle, NoTask
      <4> QED BY <3>2, <4>1, ParkAssumption DEF IInv, BlockOK, Types, TypeOfTasks, TailsCounted,
                     TailEnd, InTail, GoIdle, NoTask
    <3> QED BY <3>1, <3>2
  <2>4. HeardOK(c)'
    BY <1>0 DEF IInv, BlockOK, HeardOK, Unheard, Hears, Asking, Types, TailEnd, InTail, GoIdle
  <2> QED BY <2>1, <2>2, <2>3, <2>4 DEF BlockOK
<1>3. ASSUME NEW v \in Workers, wpc'[v] \in TailPCs PROVE TailOK(v)'
  BY <1>3, <1>0 DEF IInv, BlockOK, TailOK, TailsOf, Opening, Claimable, TailPCs, Types, Gens,
         TailEnd, InTail, GoIdle
<1>4. ASSUME NEW l \in Queues PROVE LockOK(l)'
  BY <1>0 DEF IInv, LockOK, TaskHolds, TailHolds, Opening, Types, TailEnd, InTail, GoIdle
<1>5. NodeInLiveFrame' /\ TimerOfThisWait' /\ AskerOK'
  BY DEF IInv, NodeInLiveFrame, TimerOfThisWait, AskerOK, Claimable, TailEnd, GoIdle
<1> QED BY <1>1, <1>2, <1>3, <1>4, <1>5 DEF IInv

-----------------------------------------------------------------------------
(* The wakers and the canceller *)

\* A notify claims the wait whose node it popped, which is off its worker, or none.
LEMMA NotifyKeeps ==
  ASSUME IInv, NEW q \in Queues, NEW n \in nodes[q], q \notin held,
         nodes' = [nodes EXCEPT ![q] = @ \ {n}], WakeAs(n.b, n.tok, "notify"),
         UNCHANGED <<gen, phase, canPark, cur, outer, cancel, masked, handoff, life, pc, wpc,
                     wtask, timers, held, asker>>
  PROVE  IInv'
<1>0. n.b \in Blocks /\ (Claimable(n.b, n.tok) => pc[n.b] = "saved" /\ cur[n.b].q = q)
  <2>1. n.b \in Blocks /\ nodes[q] \subseteq [b : Blocks, tok : Gens]
    BY DEF IInv, Types
  <2>2. LockOK(q) /\ BlockOK(n.b) /\ q # NoQueue
    BY <2>1, ParkAssumption DEF IInv
  <2>3. ~TaskHolds(n.b, q)
    BY <2>1, <2>2 DEF LockOK
  <2>4. \E wait \in {cur[n.b], outer[n.b]} : wait.q = q /\ wait.tok = n.tok
    BY DEF IInv, NodeInLiveFrame
  <2>5. Claimable(n.b, n.tok) => outer[n.b].tok # n.tok \/ outer[n.b].q # q
    BY <2>1, <2>2, <2>4 DEF IInv, BlockOK, FrameOK, Claimable, NoWait, Types, Waits, Gens
  <2> QED
    BY <2>1, <2>2, <2>3, <2>4, <2>5 DEF IInv, BlockOK, FrameOK, NodeInLiveFrame, TaskHolds,
           Opening, Claimable
<1>1. Types'
  <2>1. claimed' \in [Blocks -> Reasons]
    BY <1>0 DEF IInv, Types, Reasons, WakeAs
  <2>2. runq' \in [Blocks -> 0 .. 1]
    BY <1>0 DEF IInv, BlockOK, Types, Reasons, Claimable, QueuedOK, WakeAs
  <2>3. nodes' \in [Queues -> SUBSET [b : Blocks, tok : Gens]]
    BY <1>0 DEF IInv, BlockOK, Types, Reasons, Claimable, QueuedOK, WakeAs
  <2> QED BY <1>0, <2>1, <2>2, <2>3 DEF IInv, Types, WakeAs
<1>2. ASSUME NEW c \in Blocks PROVE BlockOK(c)'
  <2>1. PhaseOK(c)' /\ PlacedOK(c)'
    BY DEF IInv, BlockOK, PhaseOK, PlacedOK, Executes, WakeAs
  <2>2. TailsCounted(c)'
    <3>1. TailsOf(c)' = TailsOf(c)
      BY DEF TailsOf, WakeAs
    <3> QED BY <3>1 DEF IInv, BlockOK, TailsCounted, WakeAs
  <2>3. FrameOK(c)'
    BY <1>0 DEF IInv, BlockOK, FrameOK, Opening, Claimable, Types, WakeAs
  <2>4. QueuedOK(c)'
    BY <1>0 DEF IInv, BlockOK, QueuedOK, Claimable, Types, WakeAs
  <2>5. CancelOK(c)'
    BY <1>0 DEF IInv, BlockOK, CancelOK, Welcome, Cancellable, Claimable, FrameOK, Opening,
           Types, WakeAs
  <2>6. HeardOK(c)'
    <3>1. \A v \in Workers : Hears(v, c) /\ Unheard(c)' => Hears(v, c)'
      BY <1>0 DEF IInv, BlockOK, Unheard, Hears, Types, WakeAs
    <3>2. Asking(c) /\ Unheard(c)' => Asking(c)'
      BY <1>0 DEF IInv, BlockOK, Unheard, Asking, Types, WakeAs
    <3>3. Unheard(c)' => Unheard(c)
      BY <1>0 DEF IInv, BlockOK, Unheard, Types, WakeAs
    <3> QED BY <3>1, <3>2, <3>3 DEF IInv, BlockOK, HeardOK
  <2> QED BY <2>1, <2>2, <2>3, <2>4, <2>5, <2>6 DEF BlockOK
<1>3. ASSUME NEW v \in Workers, wpc'[v] \in TailPCs PROVE TailOK(v)'
  BY <1>3, <1>0 DEF IInv, BlockOK, TailOK, TailsOf, Opening, Claimable, TailPCs, LockOK,
         TaskHolds, TailHolds, Types, Gens, WakeAs
<1>4. NodeInLiveFrame'
  BY <1>0 DEF IInv, NodeInLiveFrame, Types, WakeAs
<1>5. AskerOK'
  BY <1>0 DEF IInv, AskerOK, Claimable, Types, WakeAs
<1>6. (\A l \in Queues : LockOK(l))' /\ TimerOfThisWait'
  BY DEF IInv, LockOK, TaskHolds, TailHolds, TimerOfThisWait, WakeAs
<1> QED BY <1>1, <1>2, <1>3, <1>4, <1>5, <1>6 DEF IInv

\* A timer claims the wait it was armed for, which is off its worker, or none.
LEMMA ExpireKeeps ==
  ASSUME IInv, NEW e \in timers,
         timers' = timers \ {e}, WakeAs(e.b, e.tok, "timeout"),
         UNCHANGED <<gen, phase, canPark, cur, outer, cancel, masked, handoff, life, pc, wpc,
                     wtask, nodes, held, asker>>
  PROVE  IInv'
<1>0. e.b \in Blocks /\ (Claimable(e.b, e.tok) => pc[e.b] = "saved")
  BY DEF IInv, BlockOK, FrameOK, TimerOfThisWait, Types, Claimable
<1>1. Types'
  <2>1. claimed' \in [Blocks -> Reasons]
    BY <1>0 DEF IInv, Types, Reasons, WakeAs
  <2>2. runq' \in [Blocks -> 0 .. 1]
    BY <1>0 DEF IInv, BlockOK, Types, Reasons, Claimable, QueuedOK, WakeAs
  <2>3. timers' \subseteq [b : Blocks, tok : Gens]
    BY <1>0 DEF IInv, BlockOK, Types, Reasons, Claimable, QueuedOK, WakeAs
  <2> QED BY <1>0, <2>1, <2>2, <2>3 DEF IInv, Types, WakeAs
<1>2. ASSUME NEW c \in Blocks PROVE BlockOK(c)'
  <2>1. PhaseOK(c)' /\ PlacedOK(c)'
    BY DEF IInv, BlockOK, PhaseOK, PlacedOK, Executes, WakeAs
  <2>2. TailsCounted(c)'
    <3>1. TailsOf(c)' = TailsOf(c)
      BY DEF TailsOf, WakeAs
    <3> QED BY <3>1 DEF IInv, BlockOK, TailsCounted, WakeAs
  <2>3. FrameOK(c)'
    BY <1>0 DEF IInv, BlockOK, FrameOK, Opening, Claimable, Types, WakeAs
  <2>4. QueuedOK(c)'
    BY <1>0 DEF IInv, BlockOK, QueuedOK, Claimable, Types, WakeAs
  <2>5. CancelOK(c)'
    BY <1>0 DEF IInv, BlockOK, CancelOK, Welcome, Cancellable, Claimable, FrameOK, Opening,
           Types, WakeAs
  <2>6. HeardOK(c)'
    <3>1. \A v \in Workers : Hears(v, c) /\ Unheard(c)' => Hears(v, c)'
      BY <1>0 DEF IInv, BlockOK, Unheard, Hears, Types, WakeAs
    <3>2. Asking(c) /\ Unheard(c)' => Asking(c)'
      BY <1>0 DEF IInv, BlockOK, Unheard, Asking, Types, WakeAs
    <3>3. Unheard(c)' => Unheard(c)
      BY <1>0 DEF IInv, BlockOK, Unheard, Types, WakeAs
    <3> QED BY <3>1, <3>2, <3>3 DEF IInv, BlockOK, HeardOK
  <2> QED BY <2>1, <2>2, <2>3, <2>4, <2>5, <2>6 DEF BlockOK
<1>3. ASSUME NEW v \in Workers, wpc'[v] \in TailPCs PROVE TailOK(v)'
  BY <1>3, <1>0 DEF IInv, BlockOK, TailOK, TailsOf, Opening, Claimable, TailPCs, Types, Gens,
         WakeAs
<1>4. TimerOfThisWait'
  BY <1>0 DEF IInv, TimerOfThisWait, Types, WakeAs
<1>5. AskerOK'
  BY <1>0 DEF IInv, AskerOK, Claimable, Types, WakeAs
<1>6. (\A l \in Queues : LockOK(l))' /\ NodeInLiveFrame'
  BY DEF IInv, LockOK, TaskHolds, TailHolds, NodeInLiveFrame, WakeAs
<1> QED BY <1>1, <1>2, <1>3, <1>4, <1>5, <1>6 DEF IInv

\* Taking a key reads.
LEMMA TakeKeyKeeps == ASSUME IInv, NEW b \in Blocks, TakeKey(b) PROVE IInv'
<1>1. Types'
  BY ParkAssumption, Blanks DEF IInv, Types, TypeOfRequests, AskerPCs, NoRequest, TakeKey,
         askerUnchanged
<1>2. ASSUME NEW c \in Blocks PROVE BlockOK(c)'
  <2>1. FrameOK(c)' /\ PhaseOK(c)' /\ QueuedOK(c)' /\ PlacedOK(c)' /\ CancelOK(c)'
    BY DEF IInv, BlockOK, FrameOK, PhaseOK, QueuedOK, PlacedOK, Executes, CancelOK, Welcome,
           Cancellable, TakeKey, askerUnchanged
  <2>2. TailsCounted(c)'
    <3>1. TailsOf(c)' = TailsOf(c)
      BY DEF TailsOf, TakeKey, askerUnchanged
    <3> QED BY <3>1 DEF IInv, BlockOK, TailsCounted, TakeKey, askerUnchanged
  <2>3. HeardOK(c)'
    BY DEF IInv, BlockOK, HeardOK, Unheard, Hears, Asking, Types, TakeKey, askerUnchanged
  <2> QED BY <2>1, <2>2, <2>3 DEF BlockOK
<1>3. AskerOK'
  BY DEF IInv, AskerOK, Claimable, Types, TakeKey, askerUnchanged
<1>4. (\A v \in Workers : wpc[v] \in TailPCs => TailOK(v))' /\ (\A l \in Queues : LockOK(l))'
      /\ NodeInLiveFrame' /\ TimerOfThisWait'
  BY DEF IInv, TailOK, TailsOf, Claimable, LockOK, TaskHolds, TailHolds, NodeInLiveFrame,
         TimerOfThisWait, TakeKey, askerUnchanged
<1> QED BY <1>1, <1>2, <1>3, <1>4 DEF IInv

\* A request that is raised is on its way to whatever park it meets.
LEMMA RequestCancelKeeps == ASSUME IInv, NEW b \in Blocks, RequestCancel(b) PROVE IInv'
<1>1. Types'
  <2>1. cancel' \in [Blocks -> {"none", "requested", "accepted", "finished"}]
    BY ParkAssumption, Blanks DEF IInv, Types, TypeOfRequests, AskerPCs, NoRequest,
           RequestCancel, askerUnchanged, KeyIsLive
  <2>2. asker' \in TypeOfRequests
    <3>1. "look" \in AskerPCs
      BY DEF AskerPCs
    <3> QED BY <3>1, Blanks, FieldSet DEF IInv, Types, RequestCancel
  <2>3. asker'.pc # "idle" => asker'.b \in Blocks
    BY ParkAssumption, Blanks DEF IInv, Types, TypeOfRequests, AskerPCs, NoRequest,
           RequestCancel, askerUnchanged, KeyIsLive
  <2> QED BY <2>1, <2>2, <2>3 DEF IInv, Types, RequestCancel, askerUnchanged, KeyIsLive, NoRequest
<1>2. ASSUME NEW c \in Blocks PROVE BlockOK(c)'
  <2>1. FrameOK(c)' /\ PhaseOK(c)' /\ QueuedOK(c)' /\ PlacedOK(c)'
    BY DEF IInv, BlockOK, FrameOK, PhaseOK, QueuedOK, PlacedOK, Executes, RequestCancel,
           askerUnchanged
  <2>2. TailsCounted(c)'
    <3>1. TailsOf(c)' = TailsOf(c)
      BY DEF TailsOf, RequestCancel, askerUnchanged
    <3> QED BY <3>1 DEF IInv, BlockOK, TailsCounted, RequestCancel, askerUnchanged
  <2>3. CancelOK(c)'
    BY DEF IInv, BlockOK, CancelOK, Welcome, Cancellable, Types, RequestCancel, askerUnchanged,
           KeyIsLive
  <2>4. HeardOK(c)'
    <3>1. CASE KeyIsLive(b) /\ cancel[b] = "none"
      <4>1. asker' = [asker EXCEPT !.pc = "look"] /\ cancel' = [cancel EXCEPT ![b] = "requested"]
        BY <3>1 DEF RequestCancel
      <4>2. asker'.b = b /\ asker'.pc = "look" /\ asker'.looks = 0 /\ MaxLooks > 0
        BY <4>1, ParkAssumption DEF IInv, Types, TypeOfRequests, AskerOK, RequestCancel
      <4>3. Asking(b)'
        BY <4>2 DEF Asking
      <4>4. c # b => (Unheard(c)' => Unheard(c)) /\ ~Asking(c)
        BY <4>1 DEF IInv, Types, Unheard, Asking, RequestCancel, askerUnchanged
      <4>5. \A v \in Workers : Hears(v, c) => Hears(v, c)'
        BY DEF Hears, RequestCancel, askerUnchanged
      <4> QED BY <4>3, <4>4, <4>5 DEF IInv, BlockOK, HeardOK
    <3>2. CASE ~(KeyIsLive(b) /\ cancel[b] = "none")
      <4>1. (Unheard(c)' => Unheard(c)) /\ ~Asking(c)
        BY <3>2 DEF Unheard, Asking, RequestCancel, askerUnchanged
      <4>2. \A v \in Workers : Hears(v, c) => Hears(v, c)'
        BY DEF Hears, RequestCancel, askerUnchanged
      <4> QED BY <4>1, <4>2 DEF IInv, BlockOK, HeardOK
    <3> QED BY <3>1, <3>2
  <2> QED BY <2>1, <2>2, <2>3, <2>4 DEF BlockOK
<1>3. ASSUME NEW v \in Workers, wpc'[v] \in TailPCs PROVE TailOK(v)'
  BY <1>3 DEF IInv, BlockOK, TailOK, TailsOf, Opening, Claimable, Types, RequestCancel,
         askerUnchanged, KeyIsLive
<1>4. AskerOK'
  <2>1. CASE KeyIsLive(b) /\ cancel[b] = "none"
    BY <2>1, ParkAssumption DEF IInv, AskerOK, Claimable, SlotLocked, TypeOfRequests, Types,
           Gens, Waits, TypeOfTasks, RequestCancel, askerUnchanged, KeyIsLive, NoRequest
  <2>2. CASE ~(KeyIsLive(b) /\ cancel[b] = "none")
    BY <2>2, ParkAssumption DEF IInv, AskerOK, Claimable, SlotLocked, TypeOfRequests, Types,
           Gens, Waits, TypeOfTasks, RequestCancel, askerUnchanged, KeyIsLive, NoRequest
  <2> QED BY <2>1, <2>2 DEF RequestCancel, askerUnchanged, KeyIsLive, NoRequest
<1>5. (\A l \in Queues : LockOK(l))' /\ NodeInLiveFrame' /\ TimerOfThisWait'
  BY DEF IInv, LockOK, TaskHolds, TailHolds, NodeInLiveFrame, TimerOfThisWait, RequestCancel,
         askerUnchanged
<1> QED BY <1>1, <1>2, <1>3, <1>4, <1>5 DEF IInv

\* A canceller that reads a generation won by somebody leaves a park that is over.
LEMMA NudgeStateKeeps == ASSUME IInv, NEW b \in Blocks, NudgeState(b) PROVE IInv'
<1>1. Types'
  <2>1. asker' \in TypeOfRequests
    <3>1. asker.looks < MaxLooks => asker.looks + 1 \in 0 .. MaxLooks
      BY ParkAssumption DEF IInv, Types, TypeOfRequests
    <3>2. "phase" \in AskerPCs /\ gen[b] \in Gens
      BY DEF IInv, Types, AskerPCs
    <3>3. asker.looks < MaxLooks =>
            [asker EXCEPT !.pc = "phase", !.tok = gen[b], !.looks = @ + 1] \in TypeOfRequests
      BY <3>1, <3>2 DEF IInv, Types, TypeOfRequests
    <3> QED BY <3>3, Blanks DEF IInv, Types, NudgeState
  <2>2. asker'.pc # "idle" => asker'.b \in Blocks
    BY DEF IInv, Types, NoRequest, NudgeState, askerUnchanged
  <2> QED BY <2>1, <2>2 DEF IInv, Types, NudgeState, askerUnchanged, NoRequest
<1>2. ASSUME NEW c \in Blocks PROVE BlockOK(c)'
  <2>1. FrameOK(c)' /\ PhaseOK(c)' /\ QueuedOK(c)' /\ PlacedOK(c)' /\ CancelOK(c)'
    BY DEF IInv, BlockOK, FrameOK, PhaseOK, QueuedOK, PlacedOK, Executes, CancelOK, Welcome,
           Cancellable, NudgeState, askerUnchanged
  <2>2. TailsCounted(c)'
    <3>1. TailsOf(c)' = TailsOf(c)
      BY DEF TailsOf, NudgeState, askerUnchanged
    <3> QED BY <3>1 DEF IInv, BlockOK, TailsCounted, NudgeState, askerUnchanged
  <2>3. HeardOK(c)'
    BY DEF IInv, BlockOK, HeardOK, Unheard, Hears, Asking, Types, NudgeState, askerUnchanged
  <2> QED BY <2>1, <2>2, <2>3 DEF BlockOK
<1>3. AskerOK'
  BY DEF IInv, BlockOK, AskerOK, Claimable, SlotLocked, PhaseOK, Types, Gens, TypeOfTasks,
         NudgeState, askerUnchanged, NoRequest
<1>4. (\A v \in Workers : wpc[v] \in TailPCs => TailOK(v))' /\ (\A l \in Queues : LockOK(l))'
      /\ NodeInLiveFrame' /\ TimerOfThisWait'
  BY DEF IInv, TailOK, TailsOf, Claimable, LockOK, TaskHolds, TailHolds, NodeInLiveFrame,
         TimerOfThisWait, NudgeState, askerUnchanged
<1> QED BY <1>1, <1>2, <1>3, <1>4 DEF IInv

\* A canceller that finds the task in transition looks again, and one that finds it running
\* leaves it to see the flag.
LEMMA NudgePhaseKeeps == ASSUME IInv, NEW b \in Blocks, NudgePhase(b) PROVE IInv'
<1>1. Types'
  BY ParkAssumption, Blanks DEF IInv, Types, TypeOfRequests, AskerPCs, NoRequest, NudgePhase,
         askerUnchanged
<1>2. ASSUME NEW c \in Blocks PROVE BlockOK(c)'
  <2>1. FrameOK(c)' /\ PhaseOK(c)' /\ QueuedOK(c)' /\ PlacedOK(c)' /\ CancelOK(c)'
    BY DEF IInv, BlockOK, FrameOK, PhaseOK, QueuedOK, PlacedOK, Executes, CancelOK, Welcome,
           Cancellable, NudgePhase, askerUnchanged
  <2>2. TailsCounted(c)'
    <3>1. TailsOf(c)' = TailsOf(c)
      BY DEF TailsOf, NudgePhase, askerUnchanged
    <3> QED BY <3>1 DEF IInv, BlockOK, TailsCounted, NudgePhase, askerUnchanged
  <2>3. HeardOK(c)'
    BY DEF IInv, BlockOK, HeardOK, Unheard, Hears, Asking, Types, NudgePhase, askerUnchanged
  <2> QED BY <2>1, <2>2, <2>3 DEF BlockOK
<1>3. AskerOK'
  BY DEF IInv, BlockOK, AskerOK, Claimable, SlotLocked, PhaseOK, Types, Gens, TypeOfTasks,
         NudgePhase, askerUnchanged, NoRequest
<1>4. (\A v \in Workers : wpc[v] \in TailPCs => TailOK(v))' /\ (\A l \in Queues : LockOK(l))'
      /\ NodeInLiveFrame' /\ TimerOfThisWait'
  BY DEF IInv, TailOK, TailsOf, Claimable, LockOK, TaskHolds, TailHolds, NodeInLiveFrame,
         TimerOfThisWait, NudgePhase, askerUnchanged
<1> QED BY <1>1, <1>2, <1>3, <1>4 DEF IInv

\* A canceller goes on to claim only a park that can be cancelled.
LEMMA NudgeCanKeeps == ASSUME IInv, NEW b \in Blocks, NudgeCan(b) PROVE IInv'
<1>1. Types'
  BY ParkAssumption, Blanks DEF IInv, Types, TypeOfRequests, AskerPCs, NoRequest, NudgeCan,
         askerUnchanged
<1>2. ASSUME NEW c \in Blocks PROVE BlockOK(c)'
  <2>1. FrameOK(c)' /\ PhaseOK(c)' /\ QueuedOK(c)' /\ PlacedOK(c)' /\ CancelOK(c)'
    BY DEF IInv, BlockOK, FrameOK, PhaseOK, QueuedOK, PlacedOK, Executes, CancelOK, Welcome,
           Cancellable, NudgeCan, askerUnchanged
  <2>2. TailsCounted(c)'
    <3>1. TailsOf(c)' = TailsOf(c)
      BY DEF TailsOf, NudgeCan, askerUnchanged
    <3> QED BY <3>1 DEF IInv, BlockOK, TailsCounted, NudgeCan, askerUnchanged
  <2>3. HeardOK(c)'
    BY DEF IInv, BlockOK, HeardOK, Unheard, Hears, Asking, Types, NudgeCan, askerUnchanged
  <2> QED BY <2>1, <2>2, <2>3 DEF BlockOK
<1>3. AskerOK'
  BY DEF IInv, AskerOK, Claimable, SlotLocked, Types, Gens, TypeOfTasks, NudgeCan,
         askerUnchanged, NoRequest
<1>4. (\A v \in Workers : wpc[v] \in TailPCs => TailOK(v))' /\ (\A l \in Queues : LockOK(l))'
      /\ NodeInLiveFrame' /\ TimerOfThisWait'
  BY DEF IInv, TailOK, TailsOf, Claimable, LockOK, TaskHolds, TailHolds, NodeInLiveFrame,
         TimerOfThisWait, NudgeCan, askerUnchanged
<1> QED BY <1>1, <1>2, <1>3, <1>4 DEF IInv

\* A canceller claims the generation it read or looks again.
LEMMA NudgeForceKeeps == ASSUME IInv, NEW b \in Blocks, NudgeForce(b) PROVE IInv'
<1>0. Claimable(b, asker.tok) =>
       pc[b] = "saved" /\ phase[b].ph = "parked" /\ Welcome(b, cur[b])
  BY DEF IInv, BlockOK, AskerOK, CancelOK, Cancellable, Welcome, Types, NudgeForce
<1>1. Types'
  <2>1. claimed' \in [Blocks -> Reasons]
    BY <1>0 DEF IInv, Types, Reasons, NudgeForce, askerUnchanged, NoRequest, WakeAs
  <2>2. runq' \in [Blocks -> 0 .. 1]
    <3>1. Claimable(b, asker.tok) => runq[b] = 0
      BY <1>0 DEF IInv, BlockOK, QueuedOK, Types, Claimable
    <3> QED BY <3>1 DEF IInv, Types, NudgeForce, WakeAs
  <2>3. asker' \in TypeOfRequests
    BY <1>0, ParkAssumption, Blanks DEF IInv, BlockOK, Types, TypeOfRequests, AskerPCs,
           NoRequest, Reasons, Claimable, QueuedOK, NudgeForce, askerUnchanged, WakeAs
  <2>4. asker'.pc # "idle" => asker'.b \in Blocks
    BY <1>0 DEF IInv, Types, NoRequest, NudgeForce, askerUnchanged, WakeAs
  <2> QED BY <1>0, <2>1, <2>2, <2>3, <2>4 DEF IInv, Types, NudgeForce, askerUnchanged, NoRequest,
                 WakeAs
<1>2. ASSUME NEW c \in Blocks PROVE BlockOK(c)'
  <2>1. PhaseOK(c)' /\ PlacedOK(c)'
    BY DEF IInv, BlockOK, PhaseOK, PlacedOK, Executes, NudgeForce, askerUnchanged, WakeAs
  <2>2. TailsCounted(c)'
    <3>1. TailsOf(c)' = TailsOf(c)
      BY DEF TailsOf, NudgeForce, askerUnchanged, WakeAs
    <3> QED BY <3>1 DEF IInv, BlockOK, TailsCounted, NudgeForce, askerUnchanged, WakeAs
  <2>3. FrameOK(c)'
    BY <1>0 DEF IInv, BlockOK, FrameOK, Opening, Claimable, Types, NudgeForce, askerUnchanged,
           WakeAs
  <2>4. QueuedOK(c)'
    BY <1>0 DEF IInv, BlockOK, QueuedOK, Claimable, Types, NudgeForce, askerUnchanged, WakeAs
  <2>5. CancelOK(c)'
    BY <1>0 DEF IInv, BlockOK, CancelOK, Welcome, Cancellable, Claimable, FrameOK, Opening,
           Types, NudgeForce, askerUnchanged, WakeAs
  <2>6. HeardOK(c)'
    <3>1. \A v \in Workers : Hears(v, c) /\ Unheard(c)' => Hears(v, c)'
      BY <1>0 DEF IInv, BlockOK, Unheard, Hears, Types, NudgeForce, askerUnchanged, WakeAs
    <3>2. Asking(c) /\ Unheard(c)' => Asking(c)'
      BY <1>0 DEF IInv, BlockOK, Unheard, Asking, Claimable, Types, NudgeForce, askerUnchanged,
             WakeAs
    <3>3. Unheard(c)' => Unheard(c)
      BY <1>0 DEF IInv, BlockOK, Unheard, Types, NudgeForce, askerUnchanged, WakeAs
    <3> QED BY <3>1, <3>2, <3>3 DEF IInv, BlockOK, HeardOK
  <2> QED BY <2>1, <2>2, <2>3, <2>4, <2>5, <2>6 DEF BlockOK
<1>3. ASSUME NEW v \in Workers, wpc'[v] \in TailPCs PROVE TailOK(v)'
  BY <1>3, <1>0 DEF IInv, BlockOK, TailOK, TailsOf, Opening, Claimable, TailPCs, Types, Gens,
         NudgeForce, askerUnchanged, WakeAs
<1>4. AskerOK'
  BY <1>0 DEF IInv, AskerOK, Claimable, SlotLocked, Types, Gens, TypeOfTasks, NudgeForce,
         askerUnchanged, NoRequest, WakeAs
<1>5. (\A l \in Queues : LockOK(l))' /\ NodeInLiveFrame' /\ TimerOfThisWait'
  BY DEF IInv, LockOK, TaskHolds, TailHolds, NodeInLiveFrame, TimerOfThisWait, NudgeForce,
         askerUnchanged, WakeAs
<1> QED BY <1>1, <1>2, <1>3, <1>4, <1>5 DEF IInv

-----------------------------------------------------------------------------
(* The invariant holds *)

\* At the start every block is in the pool and every worker idle.
LEMMA InitHolds == Init => IInv
<1> SUFFICES ASSUME Init PROVE IInv
  OBVIOUS
<1>1. Types
  <2>1. 0 \in Gens /\ 0 \in 0 .. MaxLife
    BY ParkAssumption DEF Gens
  <2>2. cur \in [Blocks -> Waits] /\ outer \in [Blocks -> Waits]
    BY Blanks DEF Init
  <2>3. wtask \in [Workers -> TypeOfTasks] /\ asker \in TypeOfRequests /\ asker.pc = "idle"
    BY Blanks DEF Init, NoRequest
  <2>4. wpc \in [Workers -> WorkerPCs] /\ \A w \in Workers : wpc[w] = "idle"
    BY DEF Init, WorkerPCs
  <2> QED BY <2>1, <2>2, <2>3, <2>4 DEF Init, Types, Reasons, Phases, TaskPCs
<1>2. ASSUME NEW b \in Blocks PROVE BlockOK(b)
  <2>1. pc[b] = "free" /\ claimed[b] = "none" /\ cancel[b] = "none" /\ runq[b] = 0
        /\ handoff[b] = 0
        /\ cur[b] = NoWait /\ outer[b] = NoWait /\ phase[b] = [tok |-> 0, ph |-> "not_parking"]
        /\ gen[b] = 0 /\ \A w \in Workers : wpc[w] = "idle"
    BY DEF Init
  <2>2. FrameOK(b) /\ PhaseOK(b) /\ QueuedOK(b) /\ CancelOK(b)
    BY <2>1 DEF FrameOK, PhaseOK, QueuedOK, CancelOK, Opening, NoWait
  <2>3. PlacedOK(b) /\ HeardOK(b)
    BY <2>1 DEF PlacedOK, Executes, HeardOK, Unheard
  <2>4. TailsCounted(b)
    <3>1. TailsOf(b) = {}
      BY <2>1 DEF TailsOf, TailPCs
    <3> QED BY <2>1, <3>1, FS_EmptySet DEF TailsCounted
  <2> QED BY <2>2, <2>3, <2>4 DEF BlockOK
<1>3. \A w \in Workers : wpc[w] \notin TailPCs
  BY DEF Init, TailPCs
<1>4. \A q \in Queues : LockOK(q)
  BY DEF Init, LockOK, TaskHolds, TailHolds, Opening
<1>5. NodeInLiveFrame /\ TimerOfThisWait
  BY DEF Init, NodeInLiveFrame, TimerOfThisWait
<1>6. AskerOK
  BY DEF Init, AskerOK, NoRequest
<1> QED BY <1>1, <1>2, <1>3, <1>4, <1>5, <1>6 DEF IInv

\* The invariant is one of the variables, and so stays as they do.
LEMMA StutterKeeps == IInv /\ UNCHANGED vars => IInv'
<1> SUFFICES ASSUME IInv, UNCHANGED vars PROVE IInv'
  OBVIOUS
<1>1. Types'
  BY DEF IInv, Types, vars
<1>2. ASSUME NEW b \in Blocks PROVE BlockOK(b)'
  <2>1. FrameOK(b)' /\ PhaseOK(b)' /\ QueuedOK(b)' /\ CancelOK(b)'
    BY DEF IInv, BlockOK, FrameOK, PhaseOK, QueuedOK, CancelOK, Welcome, Cancellable, vars
  <2>2. PlacedOK(b)'
    BY DEF IInv, BlockOK, PlacedOK, Executes, vars
  <2>3. TailsCounted(b)'
    <3>1. TailsOf(b)' = TailsOf(b)
      BY DEF TailsOf, vars
    <3> QED BY <3>1 DEF IInv, BlockOK, TailsCounted, vars
  <2>4. HeardOK(b)'
    BY DEF IInv, BlockOK, HeardOK, Unheard, Hears, Asking, vars
  <2> QED BY <2>1, <2>2, <2>3, <2>4 DEF BlockOK
<1>3. ASSUME NEW w \in Workers, wpc'[w] \in TailPCs PROVE TailOK(w)'
  BY <1>3 DEF IInv, TailOK, TailsOf, Claimable, vars
<1>4. \A q \in Queues : LockOK(q)'
  BY DEF IInv, LockOK, TaskHolds, TailHolds, vars
<1>5. NodeInLiveFrame' /\ TimerOfThisWait' /\ AskerOK'
  BY DEF IInv, NodeInLiveFrame, TimerOfThisWait, AskerOK, Claimable, vars
<1> QED BY <1>1, <1>2, <1>3, <1>4, <1>5 DEF IInv

\* Every step of a task, a worker, a waker or a canceller keeps the invariant.
LEMMA NextKeeps == IInv /\ [Next]_vars => IInv'
<1> SUFFICES ASSUME IInv, [Next]_vars PROVE IInv'
  OBVIOUS
<1>1. ASSUME NEW b \in Blocks, Spawn(b) \/ TakeKey(b) \/ CancelStep(b) PROVE IInv'
  BY <1>1, SpawnKeeps, TakeKeyKeeps, RequestCancelKeeps, NudgeStateKeeps, NudgePhaseKeeps,
     NudgeCanKeeps, NudgeForceKeeps DEF CancelStep
<1>2. ASSUME NEW w \in Workers, NEW b \in Blocks, TaskStep(w, b) PROVE IInv'
  <2>1. CASE BeginWait(w, b)
    BY <2>1, BeginWaitKeeps DEF BeginWait
  <2> QED BY <1>2, <2>1, BeginSleepKeeps, BeginYieldKeeps, BeginRelockKeeps, PrepareParkKeeps,
             SwitchParkKeeps, SwitchOutKeeps, SwitchYieldKeeps, DisarmKeeps, FinishWaitKeeps,
             ToggleMaskKeeps, CancelPointKeeps, ReturnKeeps DEF TaskStep
<1>3. ASSUME NEW w \in Workers, NEW b \in Blocks, WorkerStep(w, b) PROVE IInv'
  <2>1. CASE Run(w, b)
    BY <2>1, StartsKeeps, ContinuesKeeps, ResumesKeeps DEF Run
  <2>2. CASE TailPublish(w, b)
    BY <2>2, PublishKeeps, PublishLateKeeps
  <2> QED BY <1>3, <2>1, <2>2, SettleKeeps, RetireKeeps, TailArmKeeps, TailCommitKeeps,
             TailCheckKeeps, TailCanKeeps, TailClaimKeeps, TailEndKeeps DEF WorkerStep, TailStep
<1>4. ASSUME NEW q \in Queues, Notify(q) PROVE IInv'
  BY <1>4, NotifyKeeps DEF Notify
<1>5. CASE Expire
  BY <1>5, ExpireKeeps DEF Expire
<1>6. CASE Quiescent \/ UNCHANGED vars
  BY <1>6, StutterKeeps DEF Quiescent
<1> QED BY <1>1, <1>2, <1>3, <1>4, <1>5, <1>6 DEF Next

\* Every state of the protocol satisfies the invariant.
THEOREM Invariance == Spec => []IInv
BY InitHolds, NextKeeps, PTL DEF Spec

-----------------------------------------------------------------------------
(* What follows *)

\* The variables keep their types; no more hand-off tails are in flight on a block than there
\* are workers.
THEOREM TypeCorrect == Spec => []TypeOK
<1>1. IInv => TypeOK
  <2> SUFFICES ASSUME IInv PROVE TypeOK
    OBVIOUS
  <2>1. ASSUME NEW b \in Blocks PROVE handoff[b] \in 0 .. Cardinality(Workers)
    <3>1. handoff[b] = Cardinality(TailsOf(b))
      BY DEF IInv, BlockOK, TailsCounted
    <3>2. TailsOf(b) \subseteq Workers
      BY DEF TailsOf
    <3> QED BY <3>1, <3>2, ParkAssumption, FS_Subset, FS_CardinalityType
  <2>2. handoff \in [Blocks -> 0 .. Cardinality(Workers)]
    BY <2>1 DEF IInv, Types
  <2> QED BY <2>2 DEF IInv, Types, TypeOK, TypeOfTasks, TypeOfRequests
<1> QED BY Invariance, <1>1, PTL

\* Two claims of one park never both win: a block is never queued twice, executed by two
\* workers, or executed while it is queued (claim, enqueue_runnable, worker_main).
THEOREM OwnersUnique == Spec => []OneOwner
<1>1. IInv => OneOwner
  <2> SUFFICES ASSUME IInv, NEW b \in Blocks
               PROVE  LET owners == {w \in Workers : Executes(w, b)} IN
                        /\ runq[b] + Cardinality(owners) <= 1
                        /\ pc[b] = "free" => runq[b] = 0 /\ owners = {}
    BY DEF OneOwner
  <2> DEFINE owners == {w \in Workers : Executes(w, b)}
  <2>1. /\ runq[b] \in 0 .. 1 /\ pc[b] \in TaskPCs
        /\ runq[b] = 1 => pc[b] \in {"ready", "yielded", "saved"}
    BY DEF IInv, Types, BlockOK, QueuedOK
  <2>2. owners # {} => pc[b] \in Opening \cup {"run", "resumed", "disarmed", "done"}
    BY DEF IInv, BlockOK, PlacedOK, Executes
  <2>3. Cardinality(owners) = 0 \/ (owners # {} /\ Cardinality(owners) = 1)
    <3>1. CASE owners = {}
      BY <3>1, FS_EmptySet
    <3>2. ASSUME NEW w \in owners PROVE Cardinality(owners) = 1
      <4>1. owners = {w}
        BY <3>2 DEF IInv, BlockOK, PlacedOK
      <4> QED BY <4>1, FS_Singleton
    <3> QED BY <3>1, <3>2
  <2>4. runq[b] = 1 => owners = {}
    BY <2>1, <2>2 DEF Opening
  <2>5. runq[b] + Cardinality(owners) <= 1
    BY <2>1, <2>3, <2>4, FS_EmptySet
  <2>6. pc[b] = "free" => runq[b] = 0 /\ owners = {}
    BY <2>1, <2>2 DEF Opening
  <2> QED BY <2>5, <2>6
<1> QED BY Invariance, <1>1, PTL

\* However early its waker comes, a block is never runnable before its context is saved
\* (park_begin, park_timed, the hand-off tail).
THEOREM ContextSaved == Spec => []SavedBeforeRunnable
<1>1. IInv => SavedBeforeRunnable
  BY DEF IInv, Types, BlockOK, QueuedOK, SavedBeforeRunnable
<1> QED BY Invariance, <1>1, PTL

\* No hand-off tail outlives its task, no wait node its frame, no timer its wait, whoever
\* ended the wait and however often the task parked again on its way out (free_coroutine,
\* Condvar.wait_raw, cancel_timer).
THEOREM WaitsLeaveNothing == Spec => []NothingOutlivesItsWait
<1>1. IInv => NothingOutlivesItsWait
  BY DEF IInv, TailOK, NothingOutlivesItsWait, TailHoldsBlock
<1> QED BY Invariance, <1>1, PTL

\* A request raised while the park it should end is being handed off is not lost between the
\* two: the tail or the canceller still comes to it (request_cancel, cancel_nudge,
\* park_commit).
THEOREM RequestsHeard == Spec => []RequestNotLost
<1>1. IInv => RequestNotLost
  <2> SUFFICES ASSUME IInv, NEW b \in Blocks, Unheard(b)
               PROVE  \/ \E w \in Workers : Hears(w, b)
                      \/ SlotLocked(b) /\ (asker.pc = "look" => asker.looks < MaxLooks)
    BY DEF RequestNotLost, Unheard, Hears
  <2>1. (\E w \in Workers : Hears(w, b)) \/ Asking(b)
    BY DEF IInv, BlockOK, HeardOK
  <2>2. Asking(b) => SlotLocked(b) /\ (asker.pc = "look" => asker.looks < MaxLooks)
    BY DEF Asking, SlotLocked
  <2> QED BY <2>1, <2>2
<1> QED BY Invariance, <1>1, PTL

-----------------------------------------------------------------------------
(* Cancellation *)

\* What a step does to b that a cancellation could take wrong: it raises the request, or it
\* ends a wait.
Raises(b) == cancel[b] = "none" /\ cancel'[b] = "requested"
EndsWait(b) == pc[b] = "disarmed" /\ pc'[b] = "run"

\* Only a request raises one, and only FinishWait ends a wait.
LEMMA OthersQuiet ==
  ASSUME IInv, [Next]_vars, NEW b \in Blocks
  PROVE  /\ Raises(b) => RequestCancel(b)
         /\ EndsWait(b) => \E w \in Workers : FinishWait(w, b)
<1> USE DEF Raises, EndsWait
<1>1. pc \in [Blocks -> TaskPCs]
      /\ cancel \in [Blocks -> {"none", "requested", "accepted", "finished"}]
  BY DEF IInv, Types
<1>2. ASSUME NEW c \in Blocks, Spawn(c) \/ TakeKey(c) PROVE ~Raises(b) /\ ~EndsWait(b)
  BY <1>1, <1>2 DEF Spawn, TakeKey, askerUnchanged
<1>3. ASSUME NEW c \in Blocks, CancelStep(c)
      PROVE  ~EndsWait(b) /\ (Raises(b) => RequestCancel(b))
  BY <1>1, <1>3 DEF CancelStep, RequestCancel, NudgeState, NudgePhase, NudgeCan, NudgeForce,
         askerUnchanged
<1>4. ASSUME NEW w \in Workers, NEW c \in Blocks, TaskStep(w, c)
      PROVE  ~Raises(b) /\ (EndsWait(b) => FinishWait(w, b))
  <2>1. CASE BeginWait(w, c) \/ BeginSleep(w, c) \/ BeginYield(w, c) \/ BeginRelock(w, c)
    BY <1>1, <2>1 DEF BeginWait, BeginSleep, BeginYield, BeginRelock, OpenPark
  <2>2. CASE PreparePark(w, c) \/ SwitchPark(w, c) \/ SwitchOut(w, c) \/ SwitchYield(w, c)
    BY <1>1, <2>2 DEF PreparePark, SwitchPark, SwitchOut, SwitchYield
  <2>3. CASE Disarm(w, c) \/ ToggleMask(w, c) \/ CancelPoint(w, c) \/ Return(w, c)
    BY <1>1, <2>3 DEF Disarm, ToggleMask, CancelPoint, Return
  <2>4. CASE FinishWait(w, c)
    BY <1>1, <2>4 DEF FinishWait
  <2> QED BY <1>4, <2>1, <2>2, <2>3, <2>4 DEF TaskStep
<1>5. ASSUME NEW w \in Workers, NEW c \in Blocks, WorkerStep(w, c)
      PROVE  ~Raises(b) /\ ~EndsWait(b)
  <2>1. CASE Run(w, c)
    BY <1>1, <2>1 DEF Run, Takes, Starts, Continues, Resumes
  <2>2. CASE Settle(w, c) \/ Retire(w, c)
    BY <1>1, <2>2 DEF Settle, Retire
  <2>3. CASE TailStep(w, c)
    BY <1>1, <2>3 DEF TailStep, TailArm, TailCommit, TailPublish, TailCheck, TailCan, TailClaim,
                      TailEnd, taskVars
  <2> QED BY <1>5, <2>1, <2>2, <2>3 DEF WorkerStep
<1>6. ASSUME NEW q \in Queues, Notify(q) PROVE ~Raises(b) /\ ~EndsWait(b)
  BY <1>1, <1>6 DEF Notify
<1>7. CASE Expire \/ Quiescent \/ UNCHANGED vars
  BY <1>1, <1>7 DEF Expire, Quiescent, vars
<1> QED BY <1>2, <1>3, <1>4, <1>5, <1>6, <1>7 DEF Next

\* A cancellation ends the task its key names and no later task of the block, no wait that a
\* notify ended, and none that did not opt in (request_cancel, Condvar.wait,
\* cancel_after_wait).
THEOREM CancelsAimed == Spec => CancelAimed
<1>1. ASSUME IInv, [Next]_vars, NEW b \in Blocks, Raises(b)
      PROVE  asker.b = b /\ asker.life = life[b] /\ pc[b] # "free"
  <2>1. RequestCancel(b)
    BY <1>1, OthersQuiet
  <2> QED BY <1>1, <2>1 DEF RequestCancel, KeyIsLive, Raises
<1>2. ASSUME IInv, [Next]_vars, NEW b \in Blocks, EndsWait(b), cur[b].q # NoQueue
      PROVE  CASE cur[b].reason = "cancel" -> cancel'[b] = "accepted"
               [] cur[b].reason = "notify" -> cancel'[b] = cancel[b]
               [] OTHER -> TRUE
  <2>1. PICK w \in Workers : FinishWait(w, b)
    BY <1>2, OthersQuiet
  <2>2. cancel'[b] = IF Accepts(b, cur[b]) THEN "accepted" ELSE cancel[b]
    BY <1>2, <2>1 DEF FinishWait, IInv, Types
  <2>3. cur[b].reason = "cancel" => Accepts(b, cur[b])
    BY <1>2 DEF EndsWait, IInv, BlockOK, CancelOK, Welcome, Accepts
  <2>4. cur[b].reason = "notify" => ~Accepts(b, cur[b])
    BY <1>2 DEF Accepts
  <2> QED BY <2>2, <2>3, <2>4
<1>3. IInv => CancelWakeAllowed
  BY DEF IInv, BlockOK, CancelOK, FrameOK, Welcome, CancelWakeAllowed
<1>4. Spec => CancelHitsItsTask
  <2>1. IInv /\ [Next]_vars =>
          [\A b \in Blocks : (cancel[b] = "none" /\ cancel'[b] = "requested") =>
             asker.b = b /\ asker.life = life[b] /\ pc[b] # "free"]_vars
    BY <1>1 DEF Raises
  <2> QED BY Invariance, <2>1, PTL DEF Spec, CancelHitsItsTask
<1>5. Spec => ReasonDecidesAcceptance
  <2>1. IInv /\ [Next]_vars =>
          [\A b \in Blocks : (pc[b] = "disarmed" /\ cur[b].q # NoQueue /\ pc'[b] = "run") =>
             CASE cur[b].reason = "cancel" -> cancel'[b] = "accepted"
               [] cur[b].reason = "notify" -> cancel'[b] = cancel[b]
               [] OTHER -> TRUE]_vars
    BY <1>2 DEF EndsWait
  <2> QED BY Invariance, <2>1, PTL DEF Spec, ReasonDecidesAcceptance
<1> QED BY Invariance, <1>3, <1>4, <1>5, PTL DEF CancelAimed
=============================================================================
