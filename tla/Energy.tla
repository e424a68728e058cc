------------------------------- MODULE Energy -------------------------------
(***************************************************************************)
(* scripts/measure_energy_macos.py: runs a command in a session of its own *)
(* and reads the energy of the processes of its group until the command    *)
(* exits, then once more.  The processes go on between any two of the      *)
(* sampler's calls: they fork, exec, use energy, leave the group, exit,    *)
(* and a pid is used again for another process.                            *)
(*                                                                         *)
(* A pid is not used again between the three calls a sample makes about it *)
(* (macOS hands out pids in order, tens of thousands later).               *)
(***************************************************************************)
EXTENDS Naturals, FiniteSets, Functions

CONSTANTS Pids, Leader,  \* Leader \in Pids: the command's
          Images, Shell, \* Shell \in Images: what a fork runs first
          MaxStart,      \* bound: the processes there ever are
          MaxEnergy      \* bound: what one process uses

NoProc == [start |-> 0, image |-> Shell, energy |-> 0, member |-> FALSE]
Starts == 1 .. MaxStart

VARIABLES
  proc,     \* the live process of each pid; start 0: none
  started,  \* proc_start_abstime given out so far, one per process
  records,  \* (pid, start) -> energy_nj
  names,    \* (pid, start) -> path
  todo,     \* the pids of this sample still to be looked at
  cur,      \* the pid it looks at, or 0
  step,     \* "sleep", "list", "rusage", "pidpath", "ended"
  last,     \* it is the sample after the command's exit
  hit,      \* the key a raise was stored under, until its path is read
  read,     \* history: the highest reading of each process
  since     \* history: the images of a process since that reading

sampler == <<records, names, todo, cur, step, last, hit>>
history == <<read, since>>
vars == <<proc, started, sampler, history>>

Keys == Pids \X Starts
NoKey == <<0, 0>>
Empty == [k \in {} |-> 0]

Init ==
  /\ proc = [[p \in Pids |-> NoProc] EXCEPT
       ![Leader] = [start |-> 1, image |-> Shell, energy |-> 0, member |-> TRUE]]
  /\ started = 1
  /\ records = Empty /\ names = Empty
  /\ todo = {} /\ cur = 0 /\ step = "sleep" /\ last = FALSE /\ hit = NoKey
  /\ read = Empty
  /\ since = [s \in Starts |-> {}]

Live(p) == proc[p].start # 0

-----------------------------------------------------------------------------
(* The processes *)

\* A member forks; another process may start outside the group too.
Fork(p, member) ==
  /\ ~Live(p) /\ p # cur /\ started < MaxStart
  /\ member => \E q \in Pids : Live(q) /\ proc[q].member
  /\ started' = started + 1
  /\ proc' = [proc EXCEPT
       ![p] = [start |-> started + 1, image |-> Shell, energy |-> 0, member |-> member]]
  /\ UNCHANGED <<sampler, history>>

Exec(p, image) ==
  /\ Live(p) /\ image # proc[p].image
  /\ proc' = [proc EXCEPT ![p].image = image]
  /\ since' = [since EXCEPT ![proc[p].start] = @ \cup {image}]
  /\ UNCHANGED <<started, sampler, read>>

Use(p) ==
  /\ Live(p) /\ proc[p].energy < MaxEnergy
  /\ proc' = [proc EXCEPT ![p].energy = @ + 1]
  /\ UNCHANGED <<started, sampler, history>>

Leave(p) ==
  /\ Live(p) /\ proc[p].member /\ p # Leader
  /\ proc' = [proc EXCEPT ![p].member = FALSE]
  /\ UNCHANGED <<started, sampler, history>>

Exit(p) ==
  /\ Live(p)
  /\ proc' = [proc EXCEPT ![p] = NoProc]
  /\ UNCHANGED <<started, sampler, history>>

-----------------------------------------------------------------------------
(* sample_process_group *)

\* Mutant of Key: the pid alone.
Key_Pid(p) == <<p, 1>>

Key(p) == <<p, proc[p].start>>

\* The loop: poll, then proc_listallpids; after the exit one sample more.  The command's own pid
\* stays its own until the loop's poll sees it gone.
List ==
  /\ step = "sleep"
  /\ last' = ~(Live(Leader) /\ proc[Leader].start = 1)
  /\ todo' = {p \in Pids : Live(p)}
  /\ step' = "list"
  /\ UNCHANGED <<proc, started, records, names, cur, hit, history>>

\* getpgid: a pid that is gone or of another group is passed over.
Look ==
  /\ step = "list" /\ todo # {}
  /\ \E p \in todo :
       /\ todo' = todo \ {p}
       /\ IF Live(p) /\ proc[p].member
            THEN cur' = p /\ step' = "rusage"
            ELSE UNCHANGED <<cur, step>>
  /\ UNCHANGED <<proc, started, records, names, last, hit, history>>

Raises(k, e) == k \notin DOMAIN records \/ e > records[k]

With(f, k, v) == [x \in DOMAIN f \cup {k} |-> IF x = k THEN v ELSE f[x]]

\* proc_pid_rusage fails when the process is gone; a reading that raises the record replaces it.
Rusage ==
  /\ step = "rusage"
  /\ IF ~Live(cur)
       THEN /\ cur' = 0 /\ step' = "list"
            /\ UNCHANGED <<records, hit, history>>
       ELSE LET p == proc[cur] IN
            /\ IF Raises(Key(cur), p.energy)
                 THEN /\ records' = With(records, Key(cur), p.energy)
                      /\ hit' = Key(cur)
                      /\ cur' = cur /\ step' = "pidpath"
                 ELSE /\ cur' = 0 /\ step' = "list"
                      /\ UNCHANGED <<records, hit>>
            /\ IF p.start \notin DOMAIN read \/ p.energy > read[p.start]
                 THEN /\ read' = With(read, p.start, p.energy)
                      /\ since' = [since EXCEPT ![p.start] = {p.image}]
                 ELSE UNCHANGED history
  /\ UNCHANGED <<proc, started, names, todo, last>>

\* A process that went away since leaves the name of an earlier sample, or none.
Pidpath ==
  /\ step = "pidpath"
  /\ names' = IF Live(cur) THEN With(names, hit, proc[cur].image) ELSE names
  /\ since' = IF Live(cur) THEN since
              ELSE [since EXCEPT ![hit[2]] = Images]
  /\ cur' = 0 /\ hit' = NoKey /\ step' = "list"
  /\ UNCHANGED <<proc, started, records, todo, last, read>>

EndSample ==
  /\ step = "list" /\ todo = {}
  /\ step' = IF last THEN "ended" ELSE "sleep"
  /\ UNCHANGED <<proc, started, records, names, todo, cur, last, hit, history>>

Ended == step = "ended" /\ UNCHANGED vars

Next ==
  \/ \E p \in Pids : Use(p) \/ Leave(p) \/ Exit(p)
  \/ \E p \in Pids, member \in BOOLEAN : Fork(p, member)
  \/ \E p \in Pids, image \in Images : Exec(p, image)
  \/ List \/ Look \/ Rusage \/ Pidpath \/ EndSample \/ Ended

Spec == Init /\ [][Next]_vars

-----------------------------------------------------------------------------
(* Properties *)

\* Each process counts once, with its highest reading, however often its pid was used again
\* and whatever it exec'd (measure_energy_macos.py:98-101).
CountedOnce == SumFunction(records) = SumFunction(read)

\* A name is of an image the process had when it used what was read last, or later; one that
\* went away before its path was read may keep an older name.
NamedAfterUse == \A k \in DOMAIN names : k # hit => names[k] \in since[k[2]]

EnergyCharged == CountedOnce /\ NamedAfterUse
=============================================================================
