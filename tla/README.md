# Super-C in TLA+

Super-C is a self-hosted systems language. This project models two parts of its repository:

- the concurrency runtime, `std/parallel/`: stackful coroutines over a pool of worker threads, with
  task-aware locks, channels, timers and cooperative cancellation. Its correctness depends on the order
  of steps.
- the programs around the compiler (`scripts/`, `.github/actions/`): the generators whose output the
  compiler trusts without looking at it again, and the scripts that carry state from one CI run to the
  next. Their correctness is a matter of edge values, of what parallel and failing jobs leave behind,
  and of generalising from a few samples.

TLC checks the models and TLAPS proves part of it.

## The system

| Component | State it keeps | Operations | What makes it hard |
|---|---|---|---|
| Coroutine blocks (`runtime.spc`) | `park_state` (generation and winning wake reason), `park_phase`, `park_cancellable`, `cancel`, `cmask`, `handoff`; a stack; a registry slot | spawn, run, park, wake, cancel, complete, recycle | the task is visible to its wakers before the worker it left has finished parking it |
| Workers and queues (`runtime.spc`) | a work-stealing ring and a yield queue per worker, one injection queue, a spin flag, an idle mask, a parker per worker | push, pop, steal, inject, spin, sleep, signal | a submitter decides lock-free whether to wake anybody |
| Timers (`runtime.spc`) | a heap under the scheduler lock, `timer_waiter` | arm, disarm, promote | one sleep in the pool is timed; it has to be the right one |
| Registry (`runtime.spc`) | chunks of slots with a generation and a spinlock | assign, reuse, retire, snapshot, request cancel | keys outlive tasks, blocks are recycled |
| Locks (`sync.spc`) | one word per lock, static buckets of waiters | lock, cancellable lock, try_lock, unlock | barging, cancelled waiters, locks that share a bucket, a lock freed by its next owner |
| Condvar and its clients (`sync.spc`) | a queue of nodes in the waiters' frames | wait, notify, wait_until; RwLock, Once, WaitGroup, Barrier, Semaphore | a notify that a cancelled or timed-out waiter must not swallow |
| Channels, select (`channel.spc`, `selector.spc`) | a ring, handle counts, a closed flag, two condvars | send, recv, batches, close, drop, select | close against queued waiters, one park on several queues |
| Task groups (`task.spc`), threads (`thread.spc`) | membership lists, a join result | spawn, cancel, finish, join | members complete while they are counted |
| Arc, Weak (`arc.spc`) | two counts | clone, upgrade, drop | upgrade against the last drop |
| Blocking pool (`blocking.spc`) | a queue of jobs, idle and exited threads, counts, a record per cancellable call | call, admit, hand off, settle, abandon, retire, shut down | the result arrives after the waiter was cancelled, or after everybody was counted out |
| Reactor (`io.spc`) | registered waits | register, cancel, deliver | readiness against cancellation |
| Driver job scheduling, object cache (`src/driver`, `src/build_system`) | a job graph, files | claim, complete, publish | concurrent builds |
| Language server (`src/lsp`) | open documents, a request queue | edit, request, cancel | stale analyses |
| x86 vector backend generator (`scripts/x86gen/gen.py`) | none: it writes functions | one sequence of instructions per operation the instruction set lacks | overflow, signs, NaN, masks at the edge of a lane |
| C environment tables (`scripts/gen_ctarget.py`, `bindgen/ctarget.spc`) | layers of settings shared by targets | group layers, own layers; merge at run time | a later layer may only add |
| Intrinsic templates (`scripts/intrin/gen.py`), instruction rows (`scripts/intrin/x64rows.py`, `target/x64tab.spc`) | templates and table rows | derive from samples of clang's and llvm-mc's output; encode | a rule that holds for the samples only |
| CI: object cache deltas (`cache-save/delta.py`) | one cache per platform, a delta per role | restore, snapshot, pack, apply, merge | parallel jobs change one cache |
| CI: test times (`test-durations-save/merge.py`, `std/rt/test.spc`) | a file of times per lane | plan, split, record, merge | shards fail, runs are rerun |
| CI: transpile counts (`transpile-counts/counts.py`) | one artifact of every platform's files | count, check, approve, merge | a job stops halfway |
| Energy meter (`scripts/measure_energy_macos.py`) | readings per process | sample, sum | processes exec, exit and reuse pids between two calls |
| Profile and skill checkers, text helpers (`samply_top.py`, `validate_skills.py`, `emit.py`, `protos.py`) | none | one pass | not in the order of steps |
| Compiler phases, code generators, linkers, formatter | trees and byte buffers | pure passes | not in the order of steps |

How they interact: a primitive in `sync.spc` puts a node on its queue, calls `park_begin` and
`park_timed`, and switches out; the worker in `worker_main` finishes the park (timer, unlock,
publication) and looks for other work; a notify, the timer heap, or a canceller claims the park and
pushes the block on a run queue, which may wake a worker. The generators' output is compiled in:
`ctarget.spc` merges the layers of a target, `x64tab.spc` and the assembler encode from the rows, the
vector code generator calls the backend's functions. The CI scripts meet in artifacts and caches, each
read by the next run.

## Modules

| Module | Models | Composes |
|---|---|---|
| `Park` | the park / wake / cancel protocol of a coroutine block | wait queues as sets with their locks, the timer heap as a set, one canceller |
| `ParkProofs` | theorems about `Park` | |
| `RawMutex` | the parking-lot lock of `sync.spc` | refines `Lock`; the park of a waiter is one step here and `Park`'s subject there |
| `Lock` | what the locks promise: one owner, a waiter leaves with the lock or with its cancellation accepted, a free wanted lock is taken | |
| `RawMutexProofs` | theorems about `RawMutex` | |
| `QueueProofs` | lemmas for the proofs: queues of waiters, and what a notify of `Condvar` takes from its queue | |
| `IdleWake` | how workers look for work, sleep and are woken; deadlines; the end of the pool | deques and the injection queue as counts |
| `IdleWakeProofs` | theorems about `IdleWake` | |
| `Deque` | the ring of each worker with its slots and indices, claimed by owner and thieves alike; the yield queues; the injection queue | one atomic access a step |
| `TimerHeap` | the timer heap and the index each coroutine keeps into it | refines `Timers` |
| `Timers` | what the heap promises: a set of timers, the due ones in order | |
| `Condvar` | the waiter queue of a condvar, as operators | used by the next five; a wait ends by a notify, a deadline or a cancellation, and exactly one of them wins, which is `Park`'s `OneOwner` |
| `Semaphore`, `WaitGroup`, `Barrier`, `RwLock` | the primitives on a mutex and one condvar | `Condvar`; a critical section is one step, which is `RawMutex`'s `MutualExclusion` |
| `MonitorsProofs` | theorems about `Semaphore`, `Barrier`, `RwLock` and `WaitGroup`, as `MCMonitors` composes them | |
| `Channel` | senders and receivers on a mutex and two condvars; handles and the block they keep | `Condvar`; the buffer is a sequence |
| `Ring` | the ring that holds the buffer, with its resizes | refines `Fifo` |
| `Fifo` | what the buffer promises | |
| `HandOverProofs` | theorems about `Channel` and `Ring` | |
| `Selector` | one wait on several channels: the look, the locks in address order, the nodes, the hand-off, the wake | channels as counts of values; queues of nodes |
| `TaskGroup` | cancellation sources, their lists of tasks, and a task group's children, join and report | a wait group as its count |
| `Arc` | the two counts of `Arc` and `Weak` beside a value | one atomic access a step |
| `TasksProofs` | theorems about `Arc`, and about `Deque` and `TaskGroup` as `MCTasks` composes them | |
| `Blocking` | the blocking pool: its threads and their spinner, admission, calls that complete or are abandoned, its shutdown | a park is one step, which is `Park`'s subject |
| `Lanes` | vector lanes as numbers, and the instructions used on them | |
| `IntLanes`, `RegLanes`, `FloatLanes` | the instruction sequences of `x86gen/gen.py`: arithmetic and compares; overflow, shifts, counts, casts; masks, reductions, memory; floats | `Lanes` |
| `Backend` | a call of any of them, beside the operation it stands for | the four above |
| `CTarget` | `plan_layers` and the merge at run time | |
| `CTargetProofs` | theorems about `CTarget` | |
| `Templates` | an intrinsic's template derived from clang's code | clang as any of a set of behaviours |
| `X64Rows` | an instruction's row derived from llvm-mc's code, and the encoder | llvm-mc as a record of an instruction |
| `CacheDelta`, `Durations`, `Counts` | the CI scripts with their workflows | |
| `Energy` | the meter among processes | |
| `MC*` | values for TLC; `MCWaits`, `MCMonitors`, `MCHandOver`, `MCTasks` and `MCScripts` pick one of several systems in the initial state | the systems of one run share nothing: the others stay where they start, or are absent |

### Park

One action per atomic access that another thread can tell apart. The task's own side is
`OpenPark` (the first store of `park_begin`, under the queue's lock), `PreparePark` (the phase and
the node), `SwitchPark` (the cancellable flag and Switching, as in `park_timed`), `SwitchOut` (the
context switch); after a wake `Run` (a worker `Takes` the block, which `Starts`, `Continues` after a yield or `Resumes`
from its park), `Disarm`, `FinishWait`. The worker's hand-off tail is
`TailArm`, `TailCommit`, `TailPublish`, `TailCheck`, `TailCan`, `TailClaim`, `TailEnd`, one for each
of the reads and writes of `worker_main` at runtime.spc:2218-2266. `Notify`, `Expire` and the
`Nudge*` steps are the three wakers. `BeginRelock` is the re-acquisition of the paired lock by
`Condvar.wait_raw`, which parks a second time below the first wait, so that several tails of one
block can be in flight; the interrupted wait is `outer`.

`park_state` is the pair `gen`, `claimed`; `park_phase` keeps its tag. The park generation is not
reset when the block is recycled, exactly as `spawn_coroutine_env` leaves it. `WR_CANCEL` and
`WR_SHUTDOWN` are one reason, "cancel"; `WR_IO` and `WR_BLOCKING` are notifies of queues of other
modules. Locks of wait queues are held only by a parking task between `OpenPark` and
`TailCommit`; who else holds them for a moment is the atomicity of `Notify` and `FinishWait`.

### RawMutex

The word keeps its four values. `LockFast`, `TryLock`, `LockSlow`, `Acquire`, `Mark`, `Enqueue`,
`CommitPark` are the acquire path; `CancelWake`, `LotRemove` a cancelled wait; `Unlock`,
`PopAndRelease`, `Wake`, `PopAgain` the release path. A plain thread (a member of `Procs` outside
`Tasks`) waits like a coroutine but is never cancelled. The bucket is shared by all locks of
an instance, so that a pop has to skip the waiters of another lock: the run has one lock, the theorems
any number.

### IdleWake

A task is counted. `FindLocal`, `FindInjected`, `FindStolen`, `FindNothing` are the outcomes of
`find_work`; `DropSpin`, `LookLeft`, `LockLook`, `Park`, `Relook`, `WakeUp`, `Unwatch`,
`PassDeadline` walk through `dequeue_runnable` in the order of its source; `SigLook`, `SigClaim`,
`SigWake` are `signal_work`; `Arm`, `ArmClaim`, `TailDone` a task that sleeps; `Stop`, `StopWake`,
`JoinAll` are `destroy_pool`. The length of a spin is left open. A worker's yield queue, replay mode
and the batch limits (`PROMOTE_BATCH`, `BATCH_MAX`, ring capacities) are left out: in the
instances they are never reached; `Deque` and `TimerHeap` have the capacities.

### Deque and TimerHeap

`Pop`, `PopClaim` are `dq_pop` before and at its compare-and-swap, `PopYielded` the worker's own yield queue,
`TakeInjection`, `Share`, `Shared` the injection queue and the tasks a worker moves from it to its ring.
`Steal`, `StealTail`, `StealCopy` (a slot at a time), `StealClaim`, `StealPublish` are `dq_steal`. `Enqueue` and `Enqueued` store and publish a
task that becomes runnable, `Inject` puts it on the injection queue, `Parks` and `Yields` end a turn. Which victim a
worker tries, how often it tries, and the ticks that make it look at another queue first are left open.

`TimerHeap` has the array, the length, the capacity and the index (`theap`) in every coroutine; `Arm`,
`Disarm`, `Promote` run under the scheduler's lock and are one step each. `SiftUp` and `SiftDown` say which
entries change places. It implements `Timers` under `armed <- Entries`, the entries below the length.

### Condvar and what is built on it

`Condvar.wait_raw` queues a node, releases the mutex and parks; whoever ends the wait, the waiter
takes the mutex again before it unlinks the node. A wait is therefore "parked" while its wake is
open, then "notify", "timeout" or "cancel", and "none" once the waiter has the mutex. `Woken` and
`Left` are `notify_some`: nodes are popped from the front, and a node whose wait is already over does
not count. That the winner is unique is checked in `Park`; here it is what `Wins` and `Woken` assume.

A process of these modules is a coroutine or a plain thread; only coroutines are cancelled. Their
critical sections are single steps, because the mutex serialises them. `WaitGroup` is the exception:
its count is atomic and a `done` that is not the last never locks, so its `gate` is explicit and
`Look`, `Lock`, `Check`, `Park`, `Done`, `NotifyZero` are steps of their own.

- `Semaphore`: `Acquire` is the first look of all four acquire forms, `Resume` and `Cancelled` what a
  waiter does with the mutex again. `Release` is by a holder; the program lets anybody add a permit.
- `Barrier`: `gen` is the generation the frame of `wait` remembers, `told` the history of what wait
  reported.
- `RwLock`: `waiting` is `waiting_writers`; a writer that finds the lock free enters and leaves that
  count in one step.

### Channel and Ring

A call is `BeginSend` or `BeginRecv`, then `SendStep` and `RecvStep`, one for each time the caller
has the mutex: push or pop, park, or return. A batch that did not fit keeps the rest of its
(reversed) vector in `items` and steps again, as `send_batch` locks once per run. `Drop` and
`Release` are the two halves of a handle's destructor, `unwind` the way out of a cancelled task. The
buffer is bounded by `Capacity`, or unbounded: the initial state chooses.

`Ring` is `ChannelState`'s ring: `Push` with `grow`, `Pop` with the halving of a heap ring. It is shown to
implement `Fifo` under the refinement mapping `queue <- Contents`, the values from `head` on.

### Selector

`Call`, `Look`, `TakeArm` try the arms without waiting, the hinted one first; `LockNext` takes the locks in the
order of addresses, a lock of two arms once; `Unneeded` finds an arm ready under the locks, `Park` queues a node per arm;
`UnlockNext` is a turn of the loop that the hand-off runs to release the locks, while a notify may already
resume the select. `Resume`, `Unregister` are what it does after the wake, `Notify` what a sender does to it: `wake_waiter`
writes the arm and then claims the wake, in that order. A channel is the number of its values and whether
it is closed. Arms are receives; a wait without arms, which is a sleep, is left out.

### TaskGroup and Arc

`TaskGroup` has the group's source and others, whose handles other threads hold. `Cancel` raises the flag and takes
the first batch of keys off the list, `RequestNext` asks one of them outside the lock, `NextBatch` comes
back for more. A child is a block that goes from `Spawn` through `Bind`, `End`, `Count`, `Done`, its hook and
`Unlink` back to the pool, and may be the next child's block while a canceller still has its old key.
`Join`, `Reported`, `Free`, `Freed` are the owner's.

In `Arc` a handle is also who acts: each call is a few atomic accesses (`Clone`, `Cloned`; `Upgrade`,
`UpgradeSwap`), and a call that makes a handle fills one that is free. `Lock`, `Check`, `Unlock`, `Return` are
`get_mut` and the borrow it grants. `Forget` leaves a handle counted for ever, which is how a count can get
near its limit.

### Blocking

What is done under the pool's lock is one step, and what is done without it is another. A pool thread goes
through `Look`, `SpinEnds`, `Woken` or `TimedOut`, which each end in what `pool_main` does with the lock
(`Proceed`: take a job, retire, spin or sleep), and with a job through `BodyEnds` (the body and `release`), `Race` and
`Settle`, `Flush`, `Drop`. A caller is a task or a plain thread: `Call` notes the wait, `Ensure` reads the
state, `Try`, `AdmitTask`, `ResumeAdmit` are `admit`, `SubmitExt` is `submit_ext`. A task that is admitted
parks, and the worker that hosted it hands its job over (`Submit` is `commit_submit`); what this worker, or a plain
thread, then owes the pool is `helper`: a signal to a thread it popped (`WakeThread`) or a new thread
(`Create`, `Publish`, `CreateFails`). `Return`, `ReturnC`, `DropOwn` are what a caller does with the outcome, `Cancel`
and `CancelWake` a canceller. `try_shutdown` is `Close` to `GiveUp`; `Outstanding` is what it waits for under the
lock, `CloseExt` and `Release` the two counts it waits for afterwards, in the order it reads them.

A job's record is a member of `Jobs` with the references it has and the number of values in it, which is one
from the body's end until somebody takes or destroys the value. `call[c].host` is the worker whose hand-off parked
the task, which a cancellation must wait for. The stack of claimed wakes (`pool.wakes`) is a set.

### The vector backend

An operation of the generator's is an operator on lanes: `AbsMin(t, x)` is the sequence `fam_int_minmax`
writes for `Abs` where an instruction set has an unsigned minimum but no absolute value. A lane type is a record of its width and sign. `Lanes` scales
the byte: a model byte has `b` bits, a word two bytes, a dword four and a qword eight, so that every
width relation the sequences rely on is kept (a word's shift that crosses its bytes, a qword's compare
put together from dwords) while all values of a lane can be tried. The intrinsics are external, each modelled by what it does with
a lane. `Backend.Call` picks an operation and its lanes and stores what the sequence gives beside what
the operation should give. Floats are a small format with NaN, both infinities, both zeros and a
rounding step.

### Tables, templates and rows

`CTarget`: `finals` is what clang answered per target, `ShareGroup` a turn of the loop over groups,
`AddOwn` a turn of the loop over targets, with `plan_layers`'s `state`, `layers` and `plan`. `Rebuilt` is
`merge_layers` of `bindgen/ctarget.spc` over the half of each layer that a table holds.

`Templates`: `Wrap` chooses an intrinsic, that is, what clang does with its immediates, and compiles the
wrappers; `Bind` is `derive`, with the candidate values in the script's order, `verify`, the guess for
an immediate with one valid value and the overlay of several fits. Text is abstracted to a form and its
numbers. clang is any behaviour in which a number follows one immediate, linearly but for the bits it
has no room for, and some values may have code of their own.

`X64Rows`: `Tabulate` is `derive` for each form of an instruction, `Assemble` encodes one use of it with the
table and with llvm-mc. `Decode` undoes the prefix bytes (C5, C4, 62, or legacy), `Fields` finds the operand of
each field from two choices of registers, and `Derive` asks the further questions: a memory form, masks,
commutations. `Takes`, `Exchanges`, `Leaves`, `Encode` are `encode` of `x64tab.spc`, `Assembled` the search of
`x64asm.spc` for the first row that encodes.

### CI scripts and the energy meter

`CacheDelta`: jobs restore, write, sweep, and pack or fail in any order; `Merge` applies the parts in
the order of their names to the newest platform cache, which another run may have replaced
(`Elsewhere`). `Durations`: `Start` splits the suite by the times of the plan, shards record or fail, `Save`
is `merge.py`, `Rerun` another attempt with some of the shards. A shard that records has a time for each test
that ran: on Windows the pool goes on past a test whose process cannot be started (test.spc:1983-1989), and that
one has none (`PoolTimes`); elsewhere a failed fork ends the run before anything is written. The histories
`lost` and `full` remember such tests, and whether an attempt had times from every shard. `Counts`: a job writes its base, its own
counts and a verdict, or stops after any of them; what there is, is uploaded. `Energy`: `List`, `Look`,
`Rusage`, `Pidpath` are the system calls of a sample, with everything processes do between them.

## Runs

| Run | Shows | Bounds and why they are enough |
|---|---|---|
| `waits` | every wait that can end ends | one of them per behaviour. The lock, 2 coroutines and a thread: an owner, a waiter and a barger, the smallest contest in which a wake can be lost; both coroutines may be cancelled. A wait group of the same 3, with 2 additions: it reaches zero, is refilled, and reaches it again while others wait. A reader-writer lock with 2 writers and 2 readers: a writer waits behind readers while another is cancelled. One park of 1 life with 1 look of its canceller, which gives up at once, so that the hand-off has to deliver |
| `idle` | no lost wake-up; work taken, deadlines served, the pool ends | 2 workers, 2 tasks, 1 deadline: one runs, one spins or sleeps, one task more arrives |
| `idle_watch` | finding: a timed sleep to a stale deadline | violated; 2 deadlines |
| `monitors` | park, semaphore, barrier, reader-writer lock, wait group, select, blocking pool | one of them per behaviour. A block with 2 workers, 2 parks, 2 lives and 1 look, so that a canceller sent back finds its budget spent (the proofs about the park hold for every budget): a wait and its re-lock or a later one; a task and its successor; the tail of each on a different worker. 4 processes on 2 permits: 2 releases against 2 sleepers of which one gives up. 4 participants and a threshold of 3, 2 generations, 1 reset: a generation, its break or reset, and the next. 2 readers and 2 writers on a lock, of which one reader is a plain thread. A wait group of 3 with 2 additions. A select over 2 channels, in either order, beside a receiver, with deadlines, cancellation and close; and 2 selects over the same 2 channels, listed in opposite orders. A pool with 2 threads and 1 pending call (`calls`): 2 calls of 2 tasks and a plain thread, with cancellation, failed creations, retirements and a shutdown that may give up and come back. A pool with 2 pending calls (`burst`): 4 calls of 2 tasks, so that two jobs arrive while one thread spins and one is idle. A pool with 1 thread (`crowd`): a plain thread's call, then two tasks that both wait for admission, of which one may be cancelled |
| `handover` | channel and its ring | one of them per behaviour. A channel, bounded by 2 slots or unbounded, with batches of 2: one sender of 3 values and 2 receivers (`spread`), so that a batch wakes both or one and a half; or 2 senders of 2 values each and one receiver at a time (`gather`), so that what they send has an order to keep. A ring of 3 slots, or one that starts with 2 and takes up to 9 values: grown to 4, 8 and 16 slots, halved from 16 and 8, at every head |
| `tasks` | run queues, timer heap, Arc, task group | one of them per behaviour. 2 workers, 3 tasks, rings of 2 slots that are appended to 3 times: every ring comes round, a thief copies slots that its victim reuses. 5 timers on 2 deadlines, a first capacity of 1, batches of 2: four levels of growth and halving, entries that are equal, a removal that sifts either way. 3 handles, a count limit of 2, 3 forgotten: each of a clone, an upgrade and a downgrade against each drop, and the limit. 2 blocks, 2 children, another source, batches of 1: a child in its predecessor's block, a cancel that comes back for more |
| `barrier_agree` | finding: what a late waiter is told | violated; a threshold of 2 and 3 generations |
| `scripts` | the generators and CI scripts, and the vector backend's sequences | one of them per behaviour. 4 targets, 2 names, 2 lines: a group that agrees, disagrees, and overrules an earlier one. 2 files, 2 parts and a role, stamps up to 3: two jobs change, delete or rewrite one file. 3 tests, 2 shards: a shard with two, a test that appears and one that goes, one that cannot start; times of 0 or 1, a fallback that names 2 tests. 2 platforms, 3 runs: a good run, a half one, the next. 2 pids, 3 processes, of which the first stays the shell that starts the others: one pid used again. 1 or 2 immediates with and without values of their own, fields that end inside or past what is tried. Instruction forms of every prefix, one to four operands, register numbers that need REX bits and ones that do not. A vector byte of 2 bits: every value of every lane, where the lane's width allows it, and the edge values of the widest |
| `counts_kept` | finding: a failed job's last counts are dropped | violated; 2 platforms, 3 runs |
| `select_spent` | finding: a select that names the wrong arm | violated; a select over 2 channels and a receiver |
| `select_frame` | finding: the hand-off outlives a select's frame | violated; the same, one channel armed twice |
| `blocking_late` | finding: a record given back to a pool that is gone | violated; 1 task, 1 worker, 1 call |

Bounds are constants and guards: `MaxGen`, `MaxParks` (`Park`'s), `MaxLife` (`Spawn`, `OpenPark`), `MaxLooks` (the code's
own budget of 64 looks in `cancel_nudge`), `MaxTasks`, `MaxTime`, `MaxAdd`, `MaxResets`, `MaxMade`,
`MaxBatch`, `MaxCount`, `MaxTail`, `MaxSeq`, `MaxForgot`, `MaxSpawn`, `MaxItems`, `MaxStamp`, `MaxRuns`,
`MaxStart`, `MaxEnergy`, `MaxShare` (values of each of two senders), `MaxCalls` and `MaxBurst` (calls of the
blocking pool). Symmetry is used in runs that check invariants and action properties only: of a park's workers
(`monitors`), a channel's receivers (`handover`) and a cache's files (`scripts`). Other symmetric cases are left out by
hand where several systems share a run: `MCTasks` arms the lowest unarmed coroutine (`TimerNext`), enqueues the
lowest task that no slot or copy remembers (`DequeNext`), and fixes which handle is the first; `MCMonitors`
says which task calls the blocking pool first (`InOrder`).

Deadlock is checked except in `barrier_agree`, `counts_kept` and `blocking_late`. A barrier somebody does not come
to and a pool that nobody calls may stand still, and the counts end with the last run of the bound. In
`waits`, `monitors`, `handover`, `tasks` and `scripts` a system that has a reason to stand still says which (`Quiet`,
`Over`, `Finished`) and stutters there: a channel that is gone, a pool whose calls are over. Anywhere else TLC
reports it.

The properties:

- `OneOwner`, `SavedBeforeRunnable`: whoever wins a park queues the block once, and only when it can
  be switched into.
- `NothingOutlivesItsWait`: nothing of a wait outlives what it points into: the hand-off tail the block's
  task (`TailHoldsBlock`), the node the frame (`NodeInLiveFrame`), the timer its own park
  (`TimerOfThisWait`).
- `CancelAimed`, `RequestNotLost`, `RequestDelivered`: a cancellation ends only what opted in; it hits the task
  it was meant for and never swallows a notify; it is not lost in the hand-off window.
- `MutualExclusion`, `NoStrandedWaiter`, `RefinesLock`, `HandedOn`: the lock. Its `TypeOK` is the one type
  invariant that is checked: the proofs use it.
- `NoLostWakeup`, `WorkServed`, `StopEnds`: the pool never sleeps over work, over its end, or with
  deadlines and no timed sleep. `WorkServed` says that work is taken and deadlines are served in the end,
  not that work never waits for a running task.
- `EveryTaskOnce`: a task is in one place. A copy that a thief made is thrown away if anybody took its
  tasks meanwhile, whatever was put into their slots since.
- `IsTimerSet`: the timers. A disarm takes out its own timer and no other, due ones come out in order, through
  every sift, growth and halving; so every coroutine's index is that of its entry (`IndexKept`).
- `NobodyStranded` of the semaphore, the barrier, the wait group and the reader-writer lock: a sleeper has a
  reason. For the semaphore it counts: while somebody sleeps there are as many woken waiters as free permits,
  so a wake spent on a wait that is over shows at once. The barrier's part is `NobodyLeftBehind`, the wait
  group's `NoSleepAtZero`.
- `NothingMiscounted`: no permit is lost or made (`PermitsConserved`); a barrier counts the arrivals of those that
  are there, and reports completion to whoever was in a whole generation (`CompletesWhole`).
- `Exclusion`: the reader-writer lock. `WaitsEnd`: a wait group that stays at zero lets everybody go, and
  writers are not starved.
- `HandlesCounted`, `NobodyForgotten`, `ValuesKept`: channels. The block is freed once, after its last user.
  Nobody sleeps beside a value, a slot or a closed channel. No value is lost, doubled or overtaken by
  another of its sender, through batches, rejections, deadlines and cancellations.
- `IsFifo`, `BurstGivenBack`, `NoThrashing`: the ring.
- `BlockingKept`: the blocking pool. No job waits beside an idle thread (`IdleIsIdle`) or without anybody to take it
  (`JobsTaken`), nobody waits for admission beside a free place (`AdmissionServed`), a claimed task is made runnable
  (`WakesFlushed`) and a shutdown sleeps over nothing that is gone (`CloserTold`). The pool, a call's record and a
  thread's are there for whoever touches them next (`PoolKept`, `RecordsKept`, `ThreadsKept`), and a result is taken or destroyed once. What `PoolKept`
  leaves out is `RecordsGivenBack`, the sixth finding.
- `SelectKept`: a select does not sleep beside a value, nor leave a receiver sleeping beside one, but for the
  fourth finding below; it leaves no node and no lock; two of them never wait for each other's
  locks; with every channel armed once, the hand-off is done before the frame is left.
- `GroupKept`: a cancel reaches every member that was bound and nobody else's task, though members complete, bind
  and are replaced in their blocks; a source's shared state lives as long as whoever points at it; a
  report adds up; no child outlives its group.
- `ArcSound`: the value lives as long as a strong handle and the block as long as any, each is freed
  once, and who borrows the value mutably has the only handle.
- `LanesExact`: the sequences give the operation's result lane by lane: integer arithmetic and compares,
  casts that wrap, saturate or truncate as the language says, float compares, min and max at NaN and both zeros.
  `WholeExact`: masks, reductions and swizzles over a register, and that a masked or scattered access
  touches the memory of its lanes and no other.
- `LayersRebuild`: no layer removes anything, what is merged at run time from the layers is what was planned, in
  both tables, in the end it is what clang answered, and it fits the row.
- `CachesMerge`: a part's delta over its base is its cache; after a merge every file is as the last part
  that touched it left it; a role finds its own files again.
- `MeasuredKept`: after any saves and reruns a test has its newest time, measured in this run or before it; only
  after an attempt with times from every shard is a test dropped, one that is gone or, as `merge.py` cannot tell
  the two apart, one of the suite that could not start (it then weighs as the median test until it is measured
  again); no shard is ahead of another by more than a test; the planned loads are those of the next split.
- `CountsHold`: the files kept for a platform are of one run; a release without approval was measured on
  every platform, under the limit.
- `EnergyCharged`: each process counts once, with its highest reading, under a program it ran since.
- `TemplateExact`: a template that was fitted, not guessed, gives clang's code at every combination of
  immediates.
- `RowsEncode`: the table encodes every use as llvm-mc does and refuses what it refuses.

Every property of a passing run has a mutant in PROJECT.json: a dropped guard or a swapped value in
one definition of the model that makes TLC find the property violated.

## Findings

1. **The pool can sleep past its earliest deadline** (runtime.spc:1733). A worker reads the earliest
   deadline under the scheduler lock, drops the lock, joins the idle mask and claims
   `timer_waiter`. Between the unlock and the mask another worker arms an earlier deadline. It finds
   `timer_waiter` unset and the idle mask empty, so it wakes nobody. The first worker then sleeps
   until the deadline it read; the second one, which has read the earlier deadline, finds
   `timer_waiter` taken and sleeps untimed. The documentation
   (`skills/super-c-concurrency/references/cancellation.md:85`) says the timed sleep is to the earliest
   deadline. `WorkServed` still holds: the deadline is served when the later one is due, or when
   work arrives.
2. **A waiter of a completed barrier generation may be told that it broke** (sync.spc:1527). `wait`
   reports `!broken` as it is when the waiter has the mutex again. If the barrier breaks after the
   waiter's generation completed and before it runs, it is told false, though the last participant of
   the same generation was told true. The comment at sync.spc:1491 says false means that this generation
   can never complete.

   The converse, `TrueMeansCompleted`, a part of `CompletesWhole`, holds until the barrier is reset: a reset
   clears the break, and a waiter of the broken generation that has not run yet is then told true.
3. **A count job that fails halfway loses its platform's last counts** (counts.py:106). `merge` keeps the
   previous files of a platform that the run has no file of. A job that fails after it counted the base
   has written `<target>-base.tsv`, which is uploaded all the same (`if: always()`). The stored artifact then
   has the base's counts and nothing else, though counts.py:15-16 says that a platform whose job failed
   keeps its last counts. The approval does not depend on it: a platform without a verdict is held.
4. **A notify that a select consumed can be spent on the wrong arm** (sync.spc:1031). `wake_waiter` writes the arm
   of the node it popped before it claims the wake, so a notify that loses the claim names its arm too. With
   a receiver queued behind the select on channel A: a send on A wins the select's wake, a send on B pops
   its other node, loses, and writes B over A. The select tries B first, finds a value and returns. A's value
   lies beside a receiver that sleeps and was never notified. The comment at selector.spc:291 says that
   a consumed notify is never dropped, because other waiters may be parked behind it.
5. **The hand-off of a select can read a frame that is gone** (selector.spc:321). With one channel armed twice,
   `unlock_all` releases its lock at the first of the two arms and then reads the second from the `Selector`.
   By then a notify may have resumed the task on another worker, which may have left the frame the selector
   is in. The reference the runtime keeps is to the coroutine's block. The comment at runtime.spc:2226 says that
   the tail can never touch freed memory, and a test arms one channel twice (channel_test.spc:562). With
   all arms on different channels nothing is read after the last unlock.
6. **A record can be given back to a blocking pool that was released** (blocking.spc:1120). A cancellable call that is
   admitted before a shutdown and handed over after it runs on the worker that hands it over. There `run_ccall`
   wakes its task and then drops its reference to the record. If the task returns first, on another
   worker, it clears its wait note, and `try_shutdown` finds no job, no thread and nobody waiting: it frees the pool and sets
   `G_POOL` to null. The worker's reference is the last, so `crec_drop` calls `cache_free(G_POOL, ...)`. The comment at
   blocking.spc:1311 says that the counts cover whoever may still touch the pool. On a pool thread the same
   drop is safe: the thread is counted until it retires.

## Fairness

- `Park!Fairness`: a tail runs on, a runnable block is taken by some idle worker, a canceller
  finishes its nudge. These are loops without waits in the code. Nothing is assumed of user code, of
  notifies or of the clock.
- `RawMutex!Fairness`: a process inside a lock operation keeps taking steps, and an owner releases.
  Weak fairness of the contender's steps is what a running thread gives; that a woken contender is
  ever chosen over bargers is not claimed: `HandedOn` says somebody takes the lock.
- `IdleWake!Fairness`: each worker's search runs on (an answer "look again" is a stutter
  there, so a spin has to end, as its budget ends it), signals finish, the clock ticks. `TasksReturn`
  adds that a task returns or sleeps.

- `RwLock!Fairness`: a woken waiter runs on and guards are dropped in the end. `WaitGroup!Fairness`:
  everybody inside a call runs on, strongly fair, because the gate's lock hands itself on and the gate is free again
  and again. Nobody has to acquire, call `done`, or be cancelled, and no deadline has to pass.

The bucket of `RawMutex` is itself a spin lock without a queue, and weak fairness does not keep
two locks of one bucket from starving each other of it. `HandedOn` is therefore checked with one lock
per bucket; the theorems, safety only, are for any number.

`waits` assumes the fairness of its four systems together: one of them runs, and in the others nothing is
enabled. What runs in `monitors`, `handover`, `tasks` and `scripts` is checked for safety only, and those
runs assume no fairness.

What the models of the scripts assume of their surroundings: no other run saves the times of a lane
during a run; no release is made again of a commit whose caches are saved, since a cache key is written
once; a pid is not used again between the three calls a sample makes about it; the
repository's own `tests/durations.tsv` is there where a lane has no file.

## Proofs

`RawMutexProofs` proves, for any processes and locks, from `RawMutexAssumption` only (the
coroutines are processes, `NoProc` and `NoLock` are neither):

- `TypeCorrect`: `Spec => []TypeOK`;
- `Exclusive`: mutual exclusion and the agreement of word and owners;
- `WaitersCounted`: `PoppedIsAlive` (an unlock wakes only who still waits), and with it `QueuedIsCounted` and
  `WaitersAccounted`: where every waiter is, and that the word tells of it;
- `NoneStranded`: `NoStrandedWaiter`;
- `Refines`: `RawMutex` implements `Lock`, without its fairness.

The inductive invariant is the conjunction of these. `MutualExclusion` alone is not inductive: a
grab is safe only because a word without the held bit has no owner (`WordAgrees`).
`NoStrandedWaiter` needs to know where the waiters are: an unlock that pops nobody has really left
nobody (`WaitersAccounted`), a waiter parks only on a held lock, and whoever takes the fast path of
unlock left no waiter behind (`QueuedIsCounted`). The lemmas of `QueueProofs` say which
elements a queue has afterwards.

`HandOverProofs` proves from `HandOverAssumption` (there is a slot, a batch has room for a value, the stand-ins are
no values, senders and receivers are finitely many and apart). About the ring, for any capacity, any start and any set
of values:

- `RingTypeCorrect`: its `TypeOK`, with indices inside the slots and a value in every live one;
- `MemoryBounded`: `BurstGivenBack`. It is inductive only with the types, and needs that a pop frees
  one slot: a ring that was at least a quarter full is halved before it can be less;
- `RefinesFifo`: `Ring` implements `Fifo`. The lemmas `PutReads`, `MovedReads`, `PopReads` say what a
  push, a resize and a pop do to the values read from `head` on; they rest on `AtIs` (an index wraps
  at most once) and `AtDiffers` (two values are in two slots).

About the channel, for any senders and receivers, any capacity or none, batches of any size and any number of values:

- `CountsAreHandles`: `HandlesCounted`;
- `NobodyIsForgotten`: `NobodyForgotten`.

The inductive invariant is `HandlesCounted` with `Calm`: the types (`ChannelTyped`), who is in a call and with what in
hand (`InCalls`), that nobody sleeps on a closed channel, and for each side of the channel (`SidesKept`): whoever is
parked has a node on the side's queue (`Lined`), and there are as many woken waiters on their way as there are slots, or
values, that a sleeper could have (`Serves`). It is this last part that a cancelled waiter, a late one, or a batch that takes more than it
leaves could break. The lemmas about `Serves` say what a parked waiter, a notify and a waiter
that comes back do to it, for either side; the six about one step each (`SendStepCalm` and the like) only choose among them.
`HandlesCounted` counts the handles by where their owners are (`Live`): the two side counts those that
have not begun to go, the block's count those that have not dropped it, and the block goes with the last.

`NoThrashing` is not a theorem for every start: with a start of 1 the smallest ring that can shrink
is too small for it. The program starts with 8, and TLC checks it with 2.

`CTargetProofs` proves, for any number of targets, any groups, names, lines and answers, from
`CTargetAssumption` (the groups are a sequence of sets of targets, the blank line is no line):

- `LayersAlwaysRebuild`: `LayersRebuild`.

The inductive invariant adds to it what the generator itself never looks at again: what a target's state
holds it holds truthfully (`Truthful`: a set name has the target's final line), so that no name has ever
to be removed; a target is done once its own layer was added (`OwnDone`); a plan is no longer than the
groups passed (`Bounded`), which gives the row's length; and every plan lists layers that exist, in the
order they were made (`LastOnes`). `GroupLayerSound` and `OwnLayerSound` say what a layer may set,
`RebuildsOneMore` that merging one more layer is updating the state by it, in either table.

`MonitorsProofs` proves, for any finite set of processes of which any may be coroutines, writers or members, and any
bounds, from `MonitorsAssumption`, as theorems of the composed specification that `monitors` runs:

- `NobodyIsStranded`: `NobodyStranded`, of the semaphore, the barrier and the reader-writer lock;
- `NothingIsMiscounted`: `NothingMiscounted`, of the semaphore and the barrier;
- `WritersExclude`: `Exclusion`, of the reader-writer lock;
- `ZeroIsAnnounced`: `NoSleepAtZero`, of the wait group.

In a behaviour one system is picked and the others stand still, so the invariant is one for each (`MonitorsInv`), and a
step of one leaves the others alone.

- Semaphore (`SemInv`): whoever is parked has a node, and there are as many woken waiters as free permits while somebody
  sleeps (`Serves`, as for the channel), so a cancelled or late waiter that was popped has to pass its wake on. Permits
  are counted with those who hold one.
- Barrier (`BarInv`): a sleeper is of the current generation and the barrier is not broken; `arrived` is the number of
  those who wait in it (`BarCounted`), which is what completes a generation by its own participants; the generations that
  completed are past ones. What true is said of (`BarTold`) is kept until the first reset only, as `TrueMeansCompleted`
  says.
- Reader-writer lock (`RwInv`): who waits is known by both its states, who holds a guard asked for that kind, and who is
  parked has a node on the queue (`RwPlaced`). The last is what a wake to all needs: `WokenAllIs` says that it changes
  exactly the parked ones that have a node. A node may be there of someone who gave up, and the last node
  woken is the last of the queue only because there are never more waiters than nodes.
- Wait group (`WgInv`): while the count is zero and somebody sleeps, or is about to after a look at an earlier count, somebody
  is between the last `done` and its notify (`WgAnnounced`). The gate is held from that look to the park.

Nothing is assumed of the condvar's notifies: the lemmas of `QueueProofs` say what `Woken` and `Left` do to a queue in
which some nodes are of waits that are over.

`TasksProofs` proves about `Arc`, for any finite set of handles, any limit and any width of the counters that leaves room for each
handle to pass the limit once (`ArcAssumption`):

- `CountsAreSound`: `ArcSound`.

The inductive invariant counts the handles by where they are in their operations (`Number`): each count
is that of the handles of its kind, those in the making and those forgotten (`StrongTrue`, `WeakTrue`); it passes
its limit by one for each clone that is about to panic, and so it never comes round; the weak count
holds one reference for all strong handles, until the last of them has freed the value; while a handle
looks whether it is the only one, the weak count is locked and no weak handle is there. `LastTrue` and `Alive` tie value and
block to the counts, and `Alone` is what the look promises its caller for as long as it borrows.
`NumberMove` and `NumberMake` say what a handle's step does to every such number at once.

It proves about `Deque`, for any finite set of workers, at least one, any tasks, rings of any size and any limits
of a steal, a share and the yield queues (`DequeAssumption`), as a theorem of the composed specification that `tasks` runs:

- `TasksKeptOnce`: `EveryTaskOnce`, with the bound of each ring.

The property counts places and is not inductive: whether a thief's compare-and-swap takes tasks that are nowhere else
depends on what the thief copied long before. The invariant (`DequeInv`) has three parts.

- Types, and for each worker that its ring has room for what it put past its tail and has not published (`RingFits`,
  `Ahead`), that who moves a share has the queue's lock and the share is in the queue (`ShareThere`), and that a hand is
  full exactly while its worker runs (`HandFull`).
- What a claim in progress knows (`PopTrue`, `StealTrue`). The head that was read is never past the head
  that is there; while the two are the same, what was copied is what the victim's slots hold, and
  all of it was published. When they are not, the copy may be of anything and the compare-and-swap fails: head
  only grows, so it cannot come back to the value that was read. The room that the thief found
  stays, for only others than itself take from its ring meanwhile.
- Where the tasks are: no two slots, queue places or hands have the same one, and every task is of one kind
  (`TasksPlaced`, `OneKind`), which `OncePlaced` turns into the count of one.

A store is to a slot that no index in use shares: `IndicesDiffer` says that indices less than a ring apart are of
different slots, `StoreReads` what that leaves of the ring. `RingGains`, `RingLoses` and `RingMoves` say
where the tasks are after a push, a pop and a steal; `OthersSound` that what a worker knows stays true while another one steps,
which is where the interleavings are. The counters are unbounded in the model: 64 bits do not come round.

And it proves about `TaskGroup`, for any finite set of task blocks, any other sources and threads that cancel them, any
reasons, any batch of at least one key and any number of children (`GroupAssumption`), again of the composed
specification:

- `GroupsKept`: `GroupKept`, all five parts.

`MembersReached` is not inductive, for it speaks only of sources whose sweeps are over. The invariant (`GroupInv`)
says of every running member of a cancelled source how a request that was not made yet will be
(`Asked`, `Coming`): the task is about to ask itself, or a sweep of that source has the task's present key in its
batch, or the task is still listed and the sweep will come back for more. That the sweep does come back whenever
somebody is left is where the batch matters: a batch that was not full has emptied the list (`GatheredTo`). A record of a source that was
not cancelled is on its list (`RecordsTrue`), which is why the first cancel finds everybody; a list has exactly the
present keys of the linked records (`ListTrue`). The converse, that nobody else is asked, rests on
the generations: a key in a sweep is never newer than its block, and while it is the block's present one and the task runs,
the task is a member of the sweep's source (`SweepTrue`). The counts are those of the sets they stand for: the wait group's
of the children between their spawn and `Done`, a source's references of its handle, its records and the
children's tokens (`CountTrue`, `RefsTrue`); a step moves one task or one record, and `TaskMoves`, `RecordsMove` say what
that does to each. Nothing is assumed of the order in which a batch's keys are asked. That members end at all is the program's
affair.

`ParkProofs` proves, for any blocks and queues, any finite set of workers, and any bounds on parks, lives and
looks, from `ParkAssumption` (the stand-ins for no block and no queue are none, the parking lot is a
queue):

- `TypeCorrect`: `Spec => []TypeOK`, where a block's count of hand-off tails never passes the number of workers;
- `OwnersUnique`: `OneOwner`;
- `ContextSaved`: `SavedBeforeRunnable`;
- `WaitsLeaveNothing`: `NothingOutlivesItsWait`, its three parts;
- `RequestsHeard`: `RequestNotLost`;
- `CancelsAimed`: `Spec => CancelAimed`, an action property.

None of them is inductive. Whether a claim may queue a block depends on who can still claim its
generation, and where each of them got it from. The invariant says it of all of them: a generation that
is claimable is that of a block off its worker, in the tail that runs after the switch (`TailOK`), for the
canceller that has read a phase (`AskerOK`), for the holder of a node (`NodeInLiveFrame`) and of a timer
(`TimerOfThisWait`). A notify finds a node before the tail has armed the timer or published the
park; it cannot claim it because the parking task, and then its tail, hold the queue's lock
(`LockOK`), one of them at a time and one task a lock. A later park of the same task may begin while the tail of
an earlier one is still on the block, which is why a block's tails are a number and not a
flag: `TailsCounted` says that the count is the cardinality of the tails, so a block is given back without any, and
`TailOK` that two tails of a block are of different generations, so that only the newest finds
anything to claim. `FrameOK` and `PhaseOK` tie the waits in the frames to the generation, across
the re-lock that parks below a wait that is over; `PlacedOK` says which worker executes a
block, and which task of it. `CancelOK` carries the opt-in from where a wait is entered to where its
cancellation is accepted, and `HeardOK` is `RequestNotLost` with what it leaves unsaid: that
whoever is on the way to the request, tail or canceller, is so with the generation to be ended. The liveness of a
delivered request, `RequestDelivered`, is TLC's.

`IdleWakeProofs` proves, for any workers, at least one and finitely many, and any number of tasks, deadlines and
ticks, from `IdleWakeAssumption`:

- `WakeupsKept`: `NoLostWakeup`.

The inductive invariant follows its three parts. That the pool does not sleep over injected work
(`WorkFound`) rests on the spin flag being held by a worker that still looks (`SpinnerLooks`), for a submitter
that finds it set wakes nobody, and on a claim having somebody on the way to the claimed
(`WakesSomebody`). Both that and the pool's end (`EndWakesAll`) rest on the
look a worker takes once it is in the idle mask (`Relook`). That armed timers have a sleep timed for them is not
the watcher's doing alone, since it gives the role up when it wakes: while a timer is armed, some
worker sleeps timed or will not sleep before it has looked at the timers (`TimersHeeded`, `Heeds`), and a watcher's
sleep is timed (`WatcherTimed`). `SetMinLeast` says that the earliest deadline is one of those armed; `Shares` that a worker's share of the injected tasks is no more than there are. Which deadline the
timed sleep is for is not part of it: it can be a stale one, the first finding.

What is only model-checked: every liveness property and `NoThrashing`; `TimerHeap`, `Selector` and `Blocking`; the values of a channel (`ValuesKept`, an order of whole sequences, which is induction over data); and all of the
generators and scripts but the layers. The vector sequences are checked over
all values of small lanes: a proof for every width would be bit-vector reasoning that the provers do
not have.

## Plan

1. Proofs: `CacheDelta`'s `CachesMerge`, beside an existing module's theorems; an abstract park (one wake per wait) that `Park` refines.
2. `Reactor`: readiness against cancellation.
3. `Shutdown`, threads, data-parallel loops, `Once`; the registry's chunks.
4. Rotates and the bit-count instructions of the vector backend; legacy general-register rows.
5. The driver's job graph, the object cache, the language server's requests.

Order of importance: everything parks, so `Park` comes first; every other primitive rests on the
lock; every task rests on the workers waking up. The condvar's clients and the channel come next
because programs are written with them, then what the compiler trusts without a look.

## Not modelled

- Of the runtime: `Once` (a flag under one mutex), threads (a join is a wait group of one), the
  reactor, the data-parallel helpers; of a select the arms that send and the wait without arms; of task groups the
  boxed environments and the refusal of a spawn at shutdown; of the blocking pool the record cache (a record is free or
  it is not), the budget of a spin, counters, test hooks, a call made on a pool thread (it runs there), two
  shutdowns at once, the abort of `shutdown`, and a failed creation that ends the process; of the registry its chunks and the block cache.
  Freeing payloads that are still buffered, payloads without a size, and what
  happens to counts that overflow are left out of `Channel`, `Ring` and `Semaphore`. `IdleWake` counts tasks and
  `Deque` has the queues, but no run has both. Memory ordering below
  sequential consistency (each atomic access is one step; the fences and orderings of the code are taken
  to give that), the context switch itself, stacks, tracing, statistics, replay mode and diagnostics.
- Of the vector backend: operations that are one instruction, rotates, population and leading-zero count
  instructions, float arithmetic and rounding to integers, plain loads and stores, the text of the
  bindings and which instruction set takes which sequence.
- Of the table generator: the scan of headers and LLVM's definition files for names, and clang's answers.
- Of the intrinsic generators: the parsing of headers and assembly text, canonical forms of compares,
  constants in data sections, the one overridden template; general-register rows, base registers,
  symbols and disassembly of `x64tab.spc`.
- `samply_top.py`, `validate_skills.py`, `emit.py`, `protos.py`: one pass over text, without state.
- The compiler phases, code generators, linkers and the formatter: sequential functions of unbounded
  trees, left to the repository's own tests. The driver's job graph, the object cache's entries and the
  language server are later in the plan.
