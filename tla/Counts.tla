------------------------------- MODULE Counts -------------------------------
(***************************************************************************)
(* The transpile work counts of the release workflow:                      *)
(* .github/actions/transpile-counts/counts.py with the steps of its action *)
(* and of transpile-counts-save.  On each platform a job counts the last   *)
(* release's compiler, then this commit's, then judges the growth; the     *)
(* save job decides whether the release waits for an approval and merges   *)
(* every platform's files into the one artifact that is kept.              *)
(***************************************************************************)
EXTENDS Naturals, FiniteSets, SequencesExt

CONSTANTS Platforms,
          Profiles,  \* profiles: sequences of <<module, counter>> records
          MaxRuns    \* bound: the runs of the workflow

\* The files of a platform, in the order its job writes them.
Kinds == <<"base", "head", "verdict">>
NoFiles == [k \in 1 .. 3 |-> 0]

VARIABLES
  run,      \* the number of the current run
  got,      \* how many of its files a platform's job has written
  over,     \* the jobs that ended
  total,    \* the two totals a job counted
  verdict,  \* what check wrote, or "missing"
  stored,   \* the artifact: the run each file of a platform is from, 0 without it
  whole     \* history: the last run that measured a platform to the end

vars == <<run, got, over, total, verdict, stored, whole>>

Init ==
  /\ run = 1
  /\ got = [p \in Platforms |-> 0]
  /\ over = {}
  /\ total = [p \in Platforms |-> <<0, 0>>]
  /\ verdict = [p \in Platforms |-> "missing"]
  /\ stored = [p \in Platforms |-> NoFiles]
  /\ whole = [p \in Platforms |-> 0]

-----------------------------------------------------------------------------
(* summarize, check *)

\* Every module's counters, summed.
Modules(profile) ==
  [m \in {profile[i][1] : i \in DOMAIN profile} |->
    FoldLeft(LAMBDA sum, r : IF r[1] = m THEN sum + r[2] ELSE sum, 0, profile)]

Total(profile) == SumFunction(Modules(profile))

\* A growth of a tenth of a percent is a warning, of one percent the limit.
Verdict(old, cur) ==
  IF cur >= old /\ 100 * (cur - old) >= old THEN "over"
  ELSE IF cur >= old /\ 1000 * (cur - old) >= old THEN "warn"
  ELSE "ok"

-----------------------------------------------------------------------------
(* A platform's job *)

\* count, of the base and then of this commit.
Count(p) ==
  /\ p \notin over /\ got[p] < 2
  /\ \E profile \in Profiles : total' = [total EXCEPT ![p][got[p] + 1] = Total(profile)]
  /\ got' = [got EXCEPT ![p] = @ + 1]
  /\ UNCHANGED <<run, over, verdict, stored, whole>>

\* check; it divides by the base's total.
Check(p) ==
  /\ p \notin over /\ got[p] = 2 /\ total[p][1] # 0
  /\ verdict' = [verdict EXCEPT ![p] = Verdict(total[p][1], total[p][2])]
  /\ got' = [got EXCEPT ![p] = 3]
  /\ over' = over \cup {p}
  /\ whole' = [whole EXCEPT ![p] = run]
  /\ UNCHANGED <<run, total, stored>>

\* A step of the job fails; what it wrote is uploaded all the same (if: always()).
FailJob(p) ==
  /\ p \notin over
  /\ over' = over \cup {p}
  /\ UNCHANGED <<run, got, total, verdict, stored, whole>>

-----------------------------------------------------------------------------
(* transpile-counts-save *)

\* The release waits for an approval.
Held == \E p \in Platforms : verdict[p] \in {"over", "missing"}

\* Mutant of Merged: each file by itself.
Merged_ByFile(p) == [k \in 1 .. 3 |-> IF k <= got[p] THEN run ELSE stored[p][k]]

\* merge: NEW's files, and PREV's of a platform NEW has no file of.
Merged(p) == IF got[p] = 0 THEN stored[p]
             ELSE [k \in 1 .. 3 |-> IF k <= got[p] THEN run ELSE 0]

\* The save job, once every count job ended.
Save ==
  /\ over = Platforms /\ run < MaxRuns
  /\ stored' = [p \in Platforms |-> Merged(p)]
  /\ run' = run + 1
  /\ over' = {}
  /\ got' = [p \in Platforms |-> 0]
  /\ total' = [p \in Platforms |-> <<0, 0>>]
  /\ verdict' = [p \in Platforms |-> "missing"]
  /\ UNCHANGED whole

Next ==
  \/ \E p \in Platforms : Count(p) \/ Check(p) \/ FailJob(p)
  \/ Save

Spec == Init /\ [][Next]_vars

-----------------------------------------------------------------------------
(* Properties *)

\* The files kept for a platform are of one run, whatever run stopped halfway.
OneRun == \A p \in Platforms :
  Cardinality({stored[p][k] : k \in 1 .. 3} \ {0}) <= 1

\* A release goes out unapproved only if this run measured every platform, against a base
\* that was counted too, under the limit.
HeldWhenUnmeasured == over = Platforms /\ ~Held =>
  \A p \in Platforms :
    whole[p] = run /\ total[p][1] > 0 /\ 100 * total[p][2] < 101 * total[p][1]

CountsHold == OneRun /\ HeldWhenUnmeasured

\* counts.py:15-16: "a platform whose job failed keeps its last counts".
LastCountsKept == \A p \in Platforms : whole[p] \in 1 .. (run - 1) => stored[p][2] >= whole[p]

\* An instance: totals of 1000 and of 1010.
SomeProfiles == { << <<"a", 400>>, <<"b", 300>>, <<"a", 300>> >>, << <<"b", 1000>>, <<"c", 10>> >> }
=============================================================================
