----------------------------- MODULE MCScripts -----------------------------
(* The generators of the C environment tables, of the vector backend and of the intrinsics, and
   the scripts of CI and of measurement, one at a time: a run picks one, the others are absent,
   and the tables stay where they start.  They share nothing. *)
EXTENDS CTarget, MCInputs, TLC

CONSTANTS Files, Parts, Role, MaxStamp,
          Tests, Shards, MaxTime,
          Platforms, MaxRuns,
          Pids, Leader, Images, Shell, MaxStart, MaxEnergy,
          Ints, Numbers,
          IntBits, Base, Unpicked

VARIABLES
  which,
  platform, kept, clock, cachePc, base, now, delta,
  suite, file, before, split, runPc, shard, parts, fresh, lost, full,
  run, got, over, total, verdict, stored, whole,
  proc, started, records, names, todo, cur, step, last, hit, read, since,
  clang, codes, template,
  inst, rows, code,
  op, type, in, out

\* Every target; two architectures; a family of three.
MCGroups == << 0 .. 3, {0, 1}, {2, 3}, {1, 2, 3} >>

\* The fallback knows two tests, one by a time no shard measures.
MCFallback == [t \in Tests |-> IF t = 1 THEN 3 ELSE IF t = 2 THEN 1 ELSE -1]

\* Totals of 1000; 1001, a tenth of a percent more; 1010, one percent more; and 0.
MCProfiles == { << <<"a", 400>>, <<"b", 300>>, <<"a", 300>> >>,
                << <<"a", 1001>> >>,
                << <<"b", 1000>>, <<"c", 10>> >>,
                << >> }

Cache == INSTANCE CacheDelta WITH pc <- cachePc
Times == INSTANCE Durations WITH pc <- runPc, Fallback <- MCFallback
Work == INSTANCE Counts WITH Profiles <- MCProfiles
Meter == INSTANCE Energy
Tmpl == INSTANCE Templates WITH Compilers <- MCCompilers
Row == INSTANCE X64Rows WITH Instructions <- MCInstructions
Back == INSTANCE Backend WITH
  IntTypes <- MCIntTypes, Samples <- MCSamples, RegTypes <- MCRegTypes, Registers <- MCRegisters,
  Float <- MCFloat, Wide <- MCWide, Rounding <- MCRounding, t <- type

cacheVars == <<platform, kept, clock, cachePc, base, now, delta>>
laneVars == <<suite, file, before, split, runPc, shard, parts, fresh, lost, full>>
workVars == <<run, got, over, total, verdict, stored, whole>>
meterVars == <<proc, started, records, names, todo, cur, step, last, hit, read, since>>
tmplVars == <<clang, codes, template>>
rowVars == <<inst, rows, code>>
backVars == <<op, type, in, out>>
allVars == <<which, vars, cacheVars, laneVars, workVars, meterVars, tmplVars, rowVars, backVars>>

\* A system that is not picked is absent.
NoCache ==
  /\ platform = Unpicked /\ kept = Unpicked /\ clock = Unpicked /\ cachePc = Unpicked /\ base = Unpicked
  /\ now = Unpicked /\ delta = Unpicked
NoLane ==
  /\ suite = Unpicked /\ file = Unpicked /\ before = Unpicked /\ split = Unpicked /\ runPc = Unpicked
  /\ shard = Unpicked /\ parts = Unpicked /\ fresh = Unpicked
  /\ lost = Unpicked /\ full = Unpicked
NoWork ==
  /\ run = Unpicked /\ got = Unpicked /\ over = Unpicked /\ total = Unpicked /\ verdict = Unpicked
  /\ stored = Unpicked /\ whole = Unpicked
NoMeter ==
  /\ proc = Unpicked /\ started = Unpicked /\ records = Unpicked /\ names = Unpicked /\ todo = Unpicked
  /\ cur = Unpicked /\ step = Unpicked /\ last = Unpicked /\ hit = Unpicked /\ read = Unpicked /\ since = Unpicked
NoTemplate == clang = Unpicked /\ codes = Unpicked /\ template = Unpicked
NoRow == inst = Unpicked /\ rows = Unpicked /\ code = Unpicked
NoBackend == op = Unpicked /\ type = Unpicked /\ in = Unpicked /\ out = Unpicked

MCInit ==
  /\ which \in {"ctarget", "cache", "lane", "work", "meter", "template", "row", "backend"}
  /\ Init /\ (which # "ctarget" => finals = state)
  /\ IF which = "cache" THEN Cache!Init ELSE NoCache
  /\ IF which = "lane" THEN Times!Init ELSE NoLane
  /\ IF which = "work" THEN Work!Init ELSE NoWork
  /\ IF which = "meter" THEN Meter!Init ELSE NoMeter
  /\ IF which = "template" THEN Tmpl!Init ELSE NoTemplate
  /\ IF which = "row" THEN Row!Init ELSE NoRow
  /\ IF which = "backend" THEN Back!Init ELSE NoBackend

\* The last run of the counts has nothing more to do.
Finished == which = "work" /\ run = MaxRuns /\ over = Platforms

\* The measured process itself stays the shell that starts the others.
MeterNext ==
  /\ Meter!Next
  /\ \A p \in Pids : proc'[p].start = 1 => proc'[p].image = Shell

MCNext ==
  \/ /\ which = "ctarget" /\ Next
     /\ UNCHANGED <<which, cacheVars, laneVars, workVars, meterVars, tmplVars, rowVars, backVars>>
  \/ /\ which = "cache" /\ Cache!Next
     /\ UNCHANGED <<which, vars, laneVars, workVars, meterVars, tmplVars, rowVars, backVars>>
  \/ /\ which = "lane" /\ Times!Next
     /\ UNCHANGED <<which, vars, cacheVars, workVars, meterVars, tmplVars, rowVars, backVars>>
  \/ /\ which = "work" /\ Work!Next
     /\ UNCHANGED <<which, vars, cacheVars, laneVars, meterVars, tmplVars, rowVars, backVars>>
  \/ /\ which = "meter" /\ MeterNext
     /\ UNCHANGED <<which, vars, cacheVars, laneVars, workVars, tmplVars, rowVars, backVars>>
  \/ /\ which = "template" /\ Tmpl!Next
     /\ UNCHANGED <<which, vars, cacheVars, laneVars, workVars, meterVars, rowVars, backVars>>
  \/ /\ which = "row" /\ Row!Next
     /\ UNCHANGED <<which, vars, cacheVars, laneVars, workVars, meterVars, tmplVars, backVars>>
  \/ /\ which = "backend" /\ Back!Next
     /\ UNCHANGED <<which, vars, cacheVars, laneVars, workVars, meterVars, tmplVars, rowVars>>
  \/ Finished /\ UNCHANGED allVars

MCSpec == MCInit /\ [][MCNext]_allVars

\* The files of a cache are alike.
Symmetry == Permutations(Files)

-----------------------------------------------------------------------------
(* Properties, under the names of their modules *)

\* delta.py: a delta rebuilds the cache it was packed from, a merge takes what each part did
\* and nothing else, and a role finds the files it had.
CachesMerge == which = "cache" => Cache!CachesMerge

\* merge.py and the runner: no failed shard or rerun loses a test's newest time, only a run of every
\* shard drops one; and the split is balanced and the one planned.
MeasuredKept == which = "lane" => Times!MeasuredKept

\* counts.py: a platform's files are of one run, and nothing unmeasured goes out unapproved.
CountsHold == which = "work" => Work!CountsHold

\* measure_energy_macos.py: every process counts once, and under an image that used the energy.
EnergyCharged == which = "meter" => Meter!EnergyCharged

\* intrin/gen.py: a template gives what clang gives, and not only at the values it was fitted to.
TemplateExact == which = "template" => Tmpl!TemplateExact

\* x86gen/gen.py: every sequence gives its operation's result in each lane: arithmetic, compares,
\* shifts and counts, conversions, and the floats' compares, min and max.
LanesExact ==
  which = "backend" => Back!LanesExact /\ Back!ConversionsExact /\ Back!FloatOrderExact

\* And over whole registers: masks, reductions, swizzles; a masked access touches the memory of
\* its lanes only.
WholeExact == which = "backend" => Back!WholeExact

\* x64rows.py: the table encodes what llvm-mc encodes, as it does, and refuses the rest.
RowsEncode == which = "row" => Row!RowsEncode
=============================================================================
