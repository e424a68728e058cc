----------------------------- MODULE MCMonitors -----------------------------
(* The park of a task and what is built on it, one at a time: the semaphore, the barrier, the
   reader-writer lock, the wait group, a select over two channels and the calls to the blocking
   pool.  A run picks one, the others are absent, and the park stays where it starts. *)
EXTENDS Park, TLC

CONSTANTS
  Procs, Tasks, Threshold, MaxTurns, MaxResets, Permits, Writers, Members, MaxAdd,
  Channels, Selectors, First, Receivers, Lists, MaxItems,
  CallTasks, Ext, Threads, Jobs, MaxCalls, MaxBurst, None

ASSUME MonitorsAssumption ==
  /\ Tasks \subseteq Procs /\ First \in Selectors
  /\ Threshold \in Nat \ {0} /\ MaxTurns \in Nat /\ MaxResets \in Nat /\ Permits \in Nat
  /\ Writers \subseteq Procs /\ Members \subseteq Procs /\ MaxAdd \in Nat /\ IsFiniteSet(Procs) /\ None \notin Procs

VARIABLES
  which,
  arrived, generation, broken, barQueue, barWait, barGen, resets, completed, told,
  permits, semQueue, semWait, semMode, semHas,
  readers, writer, waiting, rwQueue, rwWait, rwPc, rwMasked,
  count, owed, added, gate, wgQueue, wgWait, wgMode, wgPc,
  items, closed, lock, queue, wait, selPc, arms, at, found, woken, tail, mode, late, asked, by, astray,
  state, pool, thread, run, helper, call, jobs, closer, called

Bar == INSTANCE Barrier WITH
  MaxGen <- MaxTurns, queue <- barQueue, wait <- barWait, gen <- barGen

Sem == INSTANCE Semaphore WITH
  queue <- semQueue, wait <- semWait, mode <- semMode, has <- semHas

Rw == INSTANCE RwLock WITH
  queue <- rwQueue, wait <- rwWait, pc <- rwPc, masked <- rwMasked

Wg == INSTANCE WaitGroup WITH
  queue <- wgQueue, wait <- wgWait, mode <- wgMode, pc <- wgPc, Procs <- Members, NoProc <- None

Sel == INSTANCE Selector WITH Tasks <- Selectors, pc <- selPc

\* The pool as it is closed and its calls cancelled; one that two calls fit into; one thread.
Pool == INSTANCE Blocking WITH
  Tasks <- CallTasks, made <- called, MaxThreads <- 2, MaxPending <- 1
Burst == INSTANCE Blocking WITH
  Tasks <- CallTasks, made <- called, MaxThreads <- 2, MaxPending <- 2, MaxCalls <- MaxBurst
Crowd == INSTANCE Blocking WITH
  Tasks <- CallTasks, made <- called, MaxThreads <- 1, MaxPending <- 1, MaxCalls <- 3

ASSUME InstanceAssumption ==
  Sel!SelectorAssumption /\ Pool!BlockingAssumption /\ Burst!BlockingAssumption

barVars == <<arrived, generation, broken, barQueue, barWait, barGen, resets, completed, told>>
semVars == <<permits, semQueue, semWait, semMode, semHas>>
rwVars == <<readers, writer, waiting, rwQueue, rwWait, rwPc, rwMasked>>
wgVars == <<count, owed, added, gate, wgQueue, wgWait, wgMode, wgPc>>
lockVars == <<barVars, semVars, rwVars, wgVars>>
selVars == <<items, closed, lock, queue, wait, selPc, arms, at, found, woken, tail, mode, late,
             asked, by, astray>>
poolVars == <<state, pool, thread, run, helper, call, jobs, closer, called>>
allVars == <<which, vars, lockVars, selVars, poolVars>>

\* A system that is not picked is absent.
NoBarrier ==
  /\ arrived = None /\ generation = None /\ broken = None /\ barQueue = None /\ barWait = None
  /\ barGen = None /\ resets = None /\ completed = None /\ told = None
NoSemaphore ==
  /\ permits = None /\ semQueue = None /\ semWait = None /\ semMode = None /\ semHas = None
NoRwLock ==
  /\ readers = None /\ writer = None /\ waiting = None /\ rwQueue = None /\ rwWait = None
  /\ rwPc = None /\ rwMasked = None
NoWaitGroup ==
  /\ count = None /\ owed = None /\ added = None /\ gate = None /\ wgQueue = None
  /\ wgWait = None /\ wgMode = None /\ wgPc = None
NoSelect ==
  /\ items = None /\ closed = None /\ lock = None /\ queue = None /\ wait = None /\ selPc = None
  /\ arms = None /\ at = None /\ found = None /\ woken = None /\ tail = None /\ mode = None
  /\ late = None /\ asked = None /\ by = None /\ astray = None
NoPool ==
  /\ state = None /\ pool = None /\ thread = None /\ run = None /\ helper = None /\ call = None
  /\ jobs = None /\ closer = None /\ called = None

Selects == {"select", "pair"}
Pools == {"calls", "burst", "crowd"}

MCInit ==
  /\ which \in {"park", "barrier", "semaphore", "rwlock", "waitgroup"} \cup Selects \cup Pools
  /\ Init
  /\ IF which = "barrier" THEN Bar!Init ELSE NoBarrier
  /\ IF which = "semaphore" THEN Sem!Init ELSE NoSemaphore
  /\ IF which = "rwlock" THEN Rw!Init ELSE NoRwLock
  /\ IF which = "waitgroup" THEN Wg!Init ELSE NoWaitGroup
  /\ IF which \in Selects THEN Sel!Init ELSE NoSelect
  /\ IF which \in Pools THEN Pool!Init ELSE NoPool

\* The first select alone beside a receiver; or both, in each other's way: they only wait, and
\* what is sent stays until one of them takes it.
SelNext ==
  /\ Sel!Next
  /\ IF which = "select" THEN \A s \in Selectors \ {First} : selPc'[s] = "out"
     ELSE /\ \A r \in Receivers : selPc'[r] = "out"
          /\ \A s \in Selectors : mode'[s] = "wait"
          /\ asked' = {} /\ \A c \in Channels : ~closed'[c]
          /\ ~\E c \in Channels : Sel!Steal(c)

\* The callers are alike: one of them calls first.
FirstCaller == CHOOSE c \in CallTasks : TRUE
Begins(c) == call[c].pc = "out" /\ call'[c].pc # "out"
InOrder == called = 0 => \A c \in CallTasks \ {FirstCaller} : call'[c] = Pool!NoCall

\* Any calls, the first of which may be cancelled.
CallsNext ==
  /\ Pool!Next /\ InOrder
  /\ \A c \in CallTasks \ {FirstCaller} : ~call'[c].asked

\* Calls that only run, until the threads are idle again and after.
BurstNext ==
  /\ Burst!Next /\ InOrder
  /\ closer'.pc = "out"
  /\ \A c \in CallTasks \cup Ext : ~call'[c].asked /\ call'[c].kind = "call"
  /\ \A e \in Ext : call'[e].pc = "out"

\* A plain thread's call, then one of each task: two wait for admission, one is cancelled.
CrowdNext ==
  /\ Crowd!Next /\ InOrder
  /\ closer'.pc = "out"
  /\ \A c \in CallTasks \ {FirstCaller} : ~call'[c].asked
  /\ \A c \in CallTasks \cup Ext : Begins(c) => ((c \in Ext) <=> called = 0) /\ (c = FirstCaller => called = 1)

\* A barrier that is out of generations, or broken for good, may stand still, and so may a pool
\* without calls to come; everybody may wait for a group, or be out and done with it.
Quiet ==
  \/ /\ which = "barrier" /\ (generation = MaxTurns \/ broken)
     /\ \A p \in Procs : barWait[p] \notin {"notify", "cancel"}
  \/ which = "waitgroup" /\ \A p \in Members : wgPc[p] = "out" \/ wgWait[p] = "parked"
  \/ which = "calls" /\ called = MaxCalls /\ state = "none"
  \/ which = "burst" /\ called = MaxBurst /\ \A c \in CallTasks : call[c].pc = "out"
  \/ which = "crowd" /\ called = 3 /\ \A c \in CallTasks \cup Ext : call[c].pc = "out"

MCNext ==
  \/ which = "park" /\ Next /\ UNCHANGED <<which, lockVars, selVars, poolVars>>
  \/ which = "barrier" /\ Bar!Next /\ UNCHANGED <<which, vars, semVars, rwVars, wgVars, selVars, poolVars>>
  \/ which = "semaphore" /\ Sem!Next /\ UNCHANGED <<which, vars, barVars, rwVars, wgVars, selVars, poolVars>>
  \/ which = "rwlock" /\ Rw!Next /\ UNCHANGED <<which, vars, barVars, semVars, wgVars, selVars, poolVars>>
  \/ which = "waitgroup" /\ Wg!Next /\ UNCHANGED <<which, vars, barVars, semVars, rwVars, selVars, poolVars>>
  \/ which \in Selects /\ SelNext /\ UNCHANGED <<which, vars, lockVars, poolVars>>
  \/ which = "calls" /\ CallsNext /\ UNCHANGED <<which, vars, lockVars, selVars>>
  \/ which = "burst" /\ BurstNext /\ UNCHANGED <<which, vars, lockVars, selVars>>
  \/ which = "crowd" /\ CrowdNext /\ UNCHANGED <<which, vars, lockVars, selVars>>
  \/ Quiet /\ UNCHANGED allVars

MCSpec == MCInit /\ [][MCNext]_allVars

\* The workers are alike.
Symmetry == Permutations(Workers)

MCLists == {<<2, 1>>, <<1, 2>>}

-----------------------------------------------------------------------------
(* Properties of the others, under the names of their modules *)

\* Nobody sleeps over what he waits for: a free permit, a generation that is over, a lock he
\* could have.  Every wake that a cancelled or late waiter swallowed went on to another.
NobodyStranded ==
  /\ which = "semaphore" => Sem!NobodyStranded
  /\ which = "barrier" => Bar!NobodyLeftBehind
  /\ which = "rwlock" => Rw!NobodyStranded

\* Nobody sleeps over a group at zero that nobody is about to announce: a notify, a deadline or
\* a cancellation may come at any of a waiter's steps.
NoSleepAtZero == which = "waitgroup" => Wg!NoSleepAtZero

\* A cancelled acquire consumes and creates no permit; a generation completes by its own
\* participants only, and true is said of no other.
NothingMiscounted ==
  /\ which = "semaphore" => Sem!PermitsConserved
  /\ which = "barrier" => Bar!CompletesWhole

\* One writer and no reader, or readers only, and the counts say who.
Exclusion == which = "rwlock" => Rw!Exclusion

\* A select neither sleeps beside a value nor leaves another to, keeps no node and no lock,
\* waits for no other select, and its hand-off is done before its frame is gone.
SelectKept ==
  which \in Selects =>
    Sel!NobodyForgotten /\ Sel!NothingQueued /\ Sel!NoLockCircle /\ Sel!HandOffInFrame

\* Nobody is left waiting by a call, an admission, a wake or a shutdown, and nobody is left with
\* a record, a pool or a thread that is gone.
BlockingKept ==
  /\ which = "calls" => Pool!BlockingKept
  /\ which = "burst" => Burst!BlockingKept
  /\ which = "crowd" => Crowd!BlockingKept
=============================================================================
