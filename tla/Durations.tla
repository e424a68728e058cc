----------------------------- MODULE Durations -----------------------------
(***************************************************************************)
(* The test times of one CI lane: the runner splits the suite among the    *)
(* shards by the times of the lane's file (choose, std/rt/test.spc), each  *)
(* shard records the times of the tests it ran or nothing, and             *)
(* .github/actions/test-durations-save/merge.py writes the lane's next     *)
(* file.  A run may have several attempts: a rerun shard runs the tests it *)
(* ran first (test-durations-plan), and a save sees the parts of its own   *)
(* attempt only, because every save deletes them (keep-one-artifact).      *)
(*                                                                         *)
(* No other run saves times of this lane during a run.                     *)
(***************************************************************************)
EXTENDS Integers, FiniteSets, SequencesExt

CONSTANTS Tests,    \* 1 .. n, in the order of the test table
          Shards,   \* how many
          MaxTime,
          Fallback  \* tests/durations.tsv: [Tests -> Times with NoTime]

NoTime == -1
NoTimes == [t \in Tests |-> NoTime]

VARIABLES
  suite,   \* the tests the commit has
  file,    \* tests/durations/<lane>.tsv; no time at all: there is no file
  before,  \* history: the file as the run found it
  split,   \* each test's shard: the run's plan
  pc,      \* "idle", "run" and, after the save job, "saved"
  shard,   \* each shard of this attempt: "waiting", "recorded", "failed" or "out" of it
  parts,   \* the shards' files of this attempt
  fresh,   \* history: the last time each test was measured in this run
  lost,    \* history: the tests that could not start when they were last to run in this run
  full     \* history: an attempt of this run had a time from every shard

vars == <<suite, file, before, split, pc, shard, parts, fresh, lost, full>>

-----------------------------------------------------------------------------
(* choose *)

Known(f) == {t \in suite : f[t] # NoTime}

\* The middle of the known times; 1 without any.
Median(f) ==
  IF Known(f) = {} THEN 1
  ELSE LET sorted == SetToSortSeq(Known(f), LAMBDA a, b : f[a] < f[b] \/ (f[a] = f[b] /\ a < b))
       IN f[sorted[Cardinality(Known(f)) \div 2 + 1]]

Weights(f) == [t \in suite |-> IF f[t] = NoTime THEN Median(f) ELSE f[t]]

Idle == [s \in 1 .. Shards |-> 0]

\* The shard with the least time so far, the lowest of several.
LeastLoaded(load) ==
  CHOOSE s \in 1 .. Shards : \A o \in 1 .. Shards :
    load[s] < load[o] \/ (load[s] = load[o] /\ s <= o)

\* The longest first, equal ones in table order.
Order(w) == SetToSortSeq(DOMAIN w, LAMBDA a, b : w[a] > w[b] \/ (w[a] = w[b] /\ a < b))

\* The loads after the first k tests of the order.
LoadAfter(w, order) ==
  LET after[k \in 0 .. Len(order)] ==
        IF k = 0 THEN Idle
        ELSE [after[k - 1] EXCEPT ![LeastLoaded(after[k - 1])] = @ + w[order[k]]]
  IN after

\* With times: the longest first, each to the least loaded shard.
ByTime(w) ==
  LET order == Order(w)
      after == LoadAfter(w, order)
  IN [t \in DOMAIN w |->
        LeastLoaded(after[(CHOOSE k \in DOMAIN order : order[k] = t) - 1])]

\* The times a run splits by: the workflow falls back where the lane has no file.
Plan == IF file = NoTimes THEN Fallback ELSE file

LoadOf(w, sp, s) ==
  SumFunctionOnSet(w, {t \in suite : sp[t] = s})

-----------------------------------------------------------------------------
(* The run *)

Init ==
  /\ suite \in SUBSET Tests
  /\ file = NoTimes /\ before = NoTimes /\ fresh = NoTimes /\ parts = NoTimes
  /\ split = [t \in suite |-> 1]
  /\ pc = "idle"
  /\ shard = [s \in 1 .. Shards |-> "out"]
  /\ lost = {} /\ full = FALSE

\* A run of the next commit, which may have other tests.
Start ==
  /\ pc = "idle"
  /\ suite' \in SUBSET Tests
  /\ UNCHANGED file
  /\ before' = file
  /\ split' = LET w == Weights(Plan)' IN ByTime(w)
  /\ shard' = [s \in 1 .. Shards |-> "waiting"]
  /\ fresh' = NoTimes /\ parts' = NoTimes
  /\ lost' = {} /\ full' = FALSE
  /\ pc' = "run"

Mine(s) == {t \in suite : split[t] = s}

\* What the pool notes of some tests: each that ran has a time, also one that failed.  On Windows
\* a test whose process cannot be started fails without one and the pool goes on; elsewhere
\* a failed fork ends the run (FailFirst).
PoolTimes(tests) == UNION {[ran -> 0 .. MaxTime] : ran \in SUBSET tests}

\* A shard ran its tests and wrote the times there are.
Record(s) ==
  /\ pc = "run" /\ shard[s] = "waiting"
  /\ \E dur \in PoolTimes(Mine(s)) :
       /\ parts' = [t \in Tests |-> IF t \in DOMAIN dur THEN dur[t] ELSE parts[t]]
       /\ fresh' = [t \in Tests |-> IF t \in DOMAIN dur THEN dur[t] ELSE fresh[t]]
       /\ lost' = (lost \cup Mine(s)) \ DOMAIN dur
  /\ shard' = [shard EXCEPT ![s] = "recorded"]
  /\ UNCHANGED <<suite, file, before, split, pc, full>>

\* It did not build, or its runner died: it uploads nothing.
FailFirst(s) ==
  /\ pc = "run" /\ shard[s] = "waiting"
  /\ shard' = [shard EXCEPT ![s] = "failed"]
  /\ UNCHANGED <<suite, file, before, split, pc, parts, fresh, lost, full>>

\* The tests that ran in this attempt.
Ran == {t \in suite : shard[split[t]] = "recorded"} \ lost
EveryShardRan == \A s \in 1 .. Shards : Ran \cap Mine(s) # {}

\* merge.py's times and per: the tests and the shards that have a row.
Measured == {t \in Tests : parts[t] # NoTime}
Reporting == {split[t] : t \in Measured}

\* Mutant of Partial: a lane with any time is complete.
Partial_Never == FALSE

\* Some shard measured nothing.
Partial == Cardinality(Reporting) < Shards

\* A lane without any time keeps its file; a partial one keeps the times it did not measure.
MergeLane == [t \in Tests |->
  IF t \in Measured THEN parts[t]
  ELSE IF Measured = {} \/ Partial THEN file[t]
  ELSE NoTime]

\* The save job, once no shard runs; it deletes the parts.
Save ==
  /\ pc = "run" /\ \A s \in 1 .. Shards : shard[s] # "waiting"
  /\ file' = MergeLane
  /\ parts' = NoTimes
  /\ full' = (full \/ EveryShardRan)
  /\ pc' = "saved"
  /\ UNCHANGED <<suite, before, split, shard, fresh, lost>>

\* Another attempt of the same run, of some of its shards.
Rerun ==
  /\ pc = "saved"
  /\ \E some \in SUBSET (1 .. Shards) :
       /\ some # {}
       /\ shard' = [s \in 1 .. Shards |-> IF s \in some THEN "waiting" ELSE "out"]
  /\ pc' = "run"
  /\ UNCHANGED <<suite, file, before, split, parts, fresh, lost, full>>

Finish ==
  /\ pc = "saved"
  /\ pc' = "idle"
  /\ shard' = [s \in 1 .. Shards |-> "out"]
  /\ before' = NoTimes /\ fresh' = NoTimes
  /\ lost' = {} /\ full' = FALSE
  /\ UNCHANGED <<suite, file, split, parts>>

Next ==
  \/ Start \/ Save \/ Rerun \/ Finish
  \/ \E s \in 1 .. Shards : Record(s) \/ FailFirst(s)

Spec == Init /\ [][Next]_vars

-----------------------------------------------------------------------------
(* Properties *)

\* After a save, whatever failed or was rerun before, a test has the newest time this run measured
\* or else the one it had, unless an attempt had times from every shard and the test is not of
\* the suite or could not start: only such an attempt drops a test (merge.py:39-46).
NewestKept == pc = "saved" => \A t \in Tests :
  LET newest == IF fresh[t] # NoTime THEN fresh[t] ELSE before[t] IN
    \/ file[t] = newest
    \/ full /\ (t \notin suite \/ t \in lost) /\ file[t] = NoTime

\* An attempt with times from every shard leaves the tests that ran in it alone.
StaleDropped == pc = "saved" /\ EveryShardRan => {t \in Tests : file[t] # NoTime} = Ran

\* The shards of a run share out its suite, no shard above another by more than one test.
SplitBalanced == pc = "run" /\ before = file =>
  LET w == Weights(Plan) IN \A a, b \in 1 .. Shards :
    LoadOf(w, split, a) > LoadOf(w, split, b) =>
      \E t \in suite : split[t] = a /\ LoadOf(w, split, a) - LoadOf(w, split, b) <= w[t]

\* merge.py:50-54: the planned loads, over the times of the new file alone.
Planned == LoadAfter([t \in Known(file) |-> file[t]],
                     Order([t \in Known(file) |-> file[t]]))[Cardinality(Known(file))]

\* They are those of the next split when the file names the suite.
PlansNextSplit == pc = "saved" /\ suite # {} /\ {t \in Tests : file[t] # NoTime} = suite =>
  \A s \in 1 .. Shards : LoadOf(Weights(file), ByTime(Weights(file)), s) = Planned[s]

MeasuredKept == NewestKept /\ StaleDropped /\ SplitBalanced /\ PlansNextSplit
=============================================================================
