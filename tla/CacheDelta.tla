---------------------------- MODULE CacheDelta ----------------------------
(***************************************************************************)
(* The object cache of a release, across its jobs:                         *)
(* .github/actions/cache-save/delta.py and the workflow steps that call it.*)
(* The part jobs of a release restore the platform's cache, change it and  *)
(* pack what they changed; the caches job restores it once more and        *)
(* applies the parts in the order of their names.  A role job keeps a      *)
(* delta of its own, which its next run lays over the platform's cache     *)
(* without deleting anything.                                              *)
(*                                                                         *)
(* A cache key is written once.  Each release here is of a commit of its   *)
(* own; one of a commit whose caches are saved already is left out (it     *)
(* restores those and saves nothing).                                      *)
(*                                                                         *)
(* A cache maps its files to stamps: size and mtime, fresh with every      *)
(* write.  A stamp also stands for the contents written then.              *)
(***************************************************************************)
EXTENDS Naturals, FiniteSets

CONSTANTS Files,
          Parts,     \* the part jobs, 1 .. n in merge order
          Role,      \* a job outside the platform cache
          MaxStamp   \* bound: the writes of a run

Jobs == Parts \cup {Role}
Absent == 0
Cache == [Files -> 0 .. MaxStamp]
NoCache == [f \in Files |-> Absent]

VARIABLES
  platform,  \* objcache-<target>-<sha>, the newest
  kept,      \* objdelta-<target>-<role>-<sha>, the newest: a delta
  clock,     \* the last stamp given
  pc,        \* each job: "start", "work", "packed", "failed"
  base,      \* what a job restored: its snapshot
  now,       \* its cache
  delta      \* what it packed

vars == <<platform, kept, clock, pc, base, now, delta>>

NoDelta == [changed |-> NoCache, gone |-> {}]

Init ==
  /\ \E S \in SUBSET Files : platform = [f \in Files |-> IF f \in S THEN 1 ELSE Absent]
  /\ kept = NoDelta
  /\ clock = 1
  /\ pc = [j \in Jobs |-> "start"]
  /\ base = [j \in Jobs |-> NoCache]
  /\ now = [j \in Jobs |-> NoCache]
  /\ delta = [j \in Jobs |-> NoDelta]

-----------------------------------------------------------------------------
(* pack, apply *)

\* Mutant of Changed: only files the job added.
Changed_Added(before, after, f) == before[f] = Absent /\ after[f] # Absent

\* A file whose size or mtime is not the snapshot's, or that the snapshot does not list.
Changed(before, after, f) == after[f] # Absent /\ before[f] # after[f]

Pack(before, after) ==
  [changed |-> [f \in Files |-> IF Changed(before, after, f) THEN after[f] ELSE Absent],
   gone |-> {f \in Files : before[f] # Absent /\ after[f] = Absent}]

\* Extract over the cache, then delete what is listed, unless it is to be kept.
Apply(cache, d, keep) == [f \in Files |->
  IF f \in d.gone /\ ~keep THEN Absent
  ELSE IF d.changed[f] # Absent THEN d.changed[f]
  ELSE cache[f]]

-----------------------------------------------------------------------------
(* The jobs *)

\* The toolchain action: restore the platform's cache, take the snapshot, then lay the role's
\* own delta over it.
Restore(j) ==
  /\ pc[j] = "start"
  /\ base' = [base EXCEPT ![j] = platform]
  /\ now' = [now EXCEPT ![j] = IF j = Role THEN Apply(platform, kept, TRUE) ELSE platform]
  /\ pc' = [pc EXCEPT ![j] = "work"]
  /\ UNCHANGED <<platform, kept, clock, delta>>

\* The compiler writes a file or marks it used.
Write(j, f) ==
  /\ pc[j] = "work" /\ clock < MaxStamp
  /\ clock' = clock + 1
  /\ now' = [now EXCEPT ![j][f] = clock + 1]
  /\ UNCHANGED <<platform, kept, pc, base, delta>>

\* The cache's sweep deletes a file.
Sweep(j, f) ==
  /\ pc[j] = "work" /\ now[j][f] # Absent
  /\ now' = [now EXCEPT ![j][f] = Absent]
  /\ UNCHANGED <<platform, kept, clock, pc, base, delta>>

\* cache-save, the last step of a job that succeeds; a role's delta is saved at once.
Save(j) ==
  /\ pc[j] = "work"
  /\ delta' = [delta EXCEPT ![j] = Pack(base[j], now[j])]
  /\ kept' = IF j = Role THEN Pack(base[j], now[j]) ELSE kept
  /\ pc' = [pc EXCEPT ![j] = "packed"]
  /\ UNCHANGED <<platform, clock, base, now>>

\* A job fails and uploads nothing; its machine goes away.
Fail(j) ==
  /\ pc[j] = "work"
  /\ pc' = [pc EXCEPT ![j] = "failed"]
  /\ base' = [base EXCEPT ![j] = NoCache]
  /\ now' = [now EXCEPT ![j] = NoCache]
  /\ UNCHANGED <<platform, kept, clock, delta>>

\* The caches a merge goes through: the restored one, then after each part of the list.
Merged(cache) ==
  LET through[k \in 0 .. Cardinality(Parts)] ==
        IF k = 0 THEN cache
        ELSE IF pc[k] = "packed" THEN Apply(through[k - 1], delta[k], FALSE)
        ELSE through[k - 1]
  IN through[Cardinality(Parts)]

\* The caches job runs after the parts, when any of them uploaded a delta.  The jobs of the
\* next release start anew.
Merge ==
  /\ \A j \in Jobs : pc[j] \in {"packed", "failed"}
  /\ platform' = IF \E k \in Parts : pc[k] = "packed" THEN Merged(platform) ELSE platform
  /\ pc' = [j \in Jobs |-> "start"]
  /\ base' = [j \in Jobs |-> NoCache]
  /\ now' = [j \in Jobs |-> NoCache]
  /\ delta' = [j \in Jobs |-> NoDelta]
  /\ UNCHANGED <<kept, clock>>

\* A release under another tag saves its platform cache meanwhile.
Elsewhere(f) ==
  /\ clock < MaxStamp
  /\ clock' = clock + 1
  /\ platform' = [platform EXCEPT ![f] = clock + 1]
  /\ UNCHANGED <<kept, pc, base, now, delta>>

Next ==
  \/ \E j \in Jobs : Restore(j) \/ Save(j) \/ Fail(j)
  \/ \E j \in Jobs, f \in Files : Write(j, f) \/ Sweep(j, f)
  \/ \E f \in Files : Elsewhere(f)
  \/ Merge

Spec == Init /\ [][Next]_vars

-----------------------------------------------------------------------------
(* Properties *)

Touched(k, f) == pc[k] = "packed" /\ base[k][f] # now[k][f]

\* A delta over the cache it was measured against gives the job's cache back.
DeltaRebuilds == \A k \in Parts : pc[k] = "packed" => Apply(base[k], delta[k], FALSE) = now[k]

\* A merge keeps what no part touched, whoever saved it meanwhile, and takes what one part
\* left, its deletion included, whatever the others and the failed ones did to other files.
MergeTakesEach == \A f \in Files :
  LET by == {k \in Parts : Touched(k, f)} IN
    /\ by = {} => Merged(platform)[f] = platform[f]
    /\ \A k \in Parts : by = {k} => Merged(platform)[f] = now[k][f]

\* A role finds every file of the platform's cache and every file its last run added, and its
\* next delta still holds what its cache has beyond the platform's.
RoleKeeps ==
  /\ pc[Role] = "start" => \A f \in Files :
       (platform[f] # Absent \/ kept.changed[f] # Absent) =>
         Apply(platform, kept, TRUE)[f] # Absent
  /\ pc[Role] = "packed" => \A f \in Files :
       now[Role][f] # Absent => Apply(base[Role], delta[Role], TRUE)[f] = now[Role][f]

CachesMerge == DeltaRebuilds /\ MergeTakesEach /\ RoleKeeps
=============================================================================
