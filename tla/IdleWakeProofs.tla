--------------------------- MODULE IdleWakeProofs ---------------------------
(* For every number of workers and tasks and every clock: the pool never falls asleep over
   injected work, armed timers or its own end. *)
EXTENDS IdleWake, FiniteSetTheorems, WellFoundedInduction, TLAPS

-----------------------------------------------------------------------------
(* The inductive invariant *)

Types ==
  /\ pc \in [Agents -> PCs]
  /\ sig \in [Agents -> {"none", "look", "claim", "wake"}]
  /\ idle \subseteq Workers /\ notified \subseteq Workers /\ unwoken \subseteq Workers
  /\ fresh \in [Workers -> BOOLEAN] /\ timed \in [Workers -> BOOLEAN]
  /\ dl \in [Workers -> Nat]
  /\ target \in [Agents -> Workers \cup {None}]
  /\ extra \in [Agents -> Nat]
  /\ timers \subseteq 1 .. MaxTime /\ now \in Nat /\ inj \in Nat /\ made \in 0 .. MaxTasks

\* The spin flag is held by a worker that looks on, so a submitter may rely on it.
SpinnerLooks == spinner # None => spinner \in Workers /\ pc[spinner] \in {"find", "got", "lock"}

\* The watcher's sleep is timed until it has given the role up, and so is no other moment of a
\* worker's.
WatcherTimed ==
  /\ watcher # None => watcher \in Workers /\ timed[watcher]
  /\ \A w \in Workers : timed[w] => pc[w] \in {"asleep", "woken", "expired"}

\* Who is about to wake a worker has one.
WakesSomebody == \A a \in Agents : sig[a] = "wake" => target[a] \in Workers

\* Nobody sleeps over the end of the pool but for a wake-up that is on its way.
EndWakesAll == stopping => \A w \in Workers : ~Sleeps(w)

\* The pool does not sleep over injected work.
WorkFound == AllAsleep => inj = 0

\* w will not sleep before it has seen the timers that are armed now.
Heeds(w) == pc[w] \notin {"asleep", "exit"} /\ (pc[w] \in {"park", "join"} => dl[w] # 0)

TimersHeeded == timers # {} => \E w \in Workers : timed[w] \/ Heeds(w)

IInv ==
  /\ Types /\ SpinnerLooks /\ WatcherTimed /\ WakesSomebody
  /\ EndWakesAll /\ WorkFound /\ TimersHeeded

-----------------------------------------------------------------------------
(* Lemmas *)

\* The earliest of some deadlines is one of them, and none is earlier.
LEMMA SetMinLeast ==
  ASSUME NEW S, S \subseteq Nat, S # {}
  PROVE  SetMin(S) \in S /\ \A u \in S : SetMin(S) <= u
<1>1. PICK t \in S : \A u \in S : ~(<<u, t>> \in OpToRel(<, Nat))
  BY NatLessThanWellFounded, WFMin, Zenon
<1>2. ASSUME NEW u \in S PROVE ~(u < t)
  <2> SUFFICES ASSUME u < t PROVE <<u, t>> \in OpToRel(<, Nat)
    BY <1>1
  <2>1. <<u, t>> \in Nat \X Nat /\ <<u, t>>[1] < <<u, t>>[2]
    OBVIOUS
  <2> QED BY <2>1, Zenon DEF OpToRel
<1>3. \A u \in S : t <= u
  BY <1>2
<1> QED BY <1>3 DEF SetMin

\* There is a worker, and a share of what is queued is no more than all of it.
LEMMA Shares ==
  ASSUME NEW n \in Nat
  PROVE  n \div Cardinality(Workers) \in Nat /\ n \div Cardinality(Workers) <= n
<1>1. Cardinality(Workers) \in Nat \ {0}
  BY IdleWakeAssumption, FS_EmptySet, FS_CardinalityType
<1>2. ASSUME NEW k \in Nat \ {0}
      PROVE  n \div k \in Nat /\ n \div k <= n
  OBVIOUS
<1> QED BY <1>1, <1>2

-----------------------------------------------------------------------------
(* Every action keeps the invariant *)

\* Whoever leaves the work to the spinner leaves it to a worker that looks.
LEMMA SigLookKeeps == ASSUME IInv, NEW a \in Agents, SigLook(a) PROVE IInv'
<1>1. Types'
  BY DEF IInv, Types, Agents, SigLook, poolVars, sleepVars, stopVars
<1>2. SpinnerLooks' /\ WatcherTimed' /\ EndWakesAll' /\ TimersHeeded'
  BY DEF IInv, SpinnerLooks, WatcherTimed, EndWakesAll, Sleeps, TimersHeeded, Heeds, SigLook,
         sleepVars, stopVars
<1>3. WakesSomebody'
  BY DEF IInv, WakesSomebody, SigLook
<1>4. WorkFound'
  BY DEF IInv, WorkFound, AllAsleep, Attended, Looking, Sleeps, SpinnerLooks, SigLook, poolVars,
         sleepVars, stopVars
<1> QED BY <1>1, <1>2, <1>3, <1>4 DEF IInv

\* A claimed worker has somebody on the way to it.
LEMMA SigClaimKeeps == ASSUME IInv, NEW a \in Agents, SigClaim(a) PROVE IInv'
<1>1. Types'
  BY DEF IInv, Types, Agents, SigClaim, poolVars, stopVars
<1>2. SpinnerLooks' /\ WatcherTimed' /\ TimersHeeded'
  BY DEF IInv, SpinnerLooks, WatcherTimed, TimersHeeded, Heeds, SigClaim
<1>3. WakesSomebody'
  BY DEF IInv, WakesSomebody, Types, Agents, SigClaim
<1>4. EndWakesAll'
  BY DEF IInv, EndWakesAll, Sleeps, SigClaim, stopVars
<1>5. WorkFound'
  BY IdleWakeAssumption DEF IInv, WorkFound, AllAsleep, Attended, Looking, Sleeps, Types, Agents,
         SigClaim, poolVars, stopVars
<1> QED BY <1>1, <1>2, <1>3, <1>4, <1>5 DEF IInv

\* A wake-up reaches the worker that was claimed.
LEMMA SigWakeKeeps == ASSUME IInv, NEW a \in Agents, SigWake(a) PROVE IInv'
<1>1. Types'
  BY IdleWakeAssumption DEF IInv, Types, WakesSomebody, Agents, SigWake, ParkerHeld, poolVars,
         stopVars
<1>2. SpinnerLooks' /\ WatcherTimed' /\ TimersHeeded'
  BY DEF IInv, SpinnerLooks, WatcherTimed, TimersHeeded, Heeds, SigWake
<1>3. WakesSomebody'
  BY DEF IInv, WakesSomebody, Types, Agents, SigWake
<1>4. EndWakesAll'
  BY DEF IInv, EndWakesAll, Sleeps, SigWake, stopVars
<1>5. WorkFound'
  BY DEF IInv, WorkFound, AllAsleep, Attended, Looking, Sleeps, WakesSomebody, SigWake, poolVars,
         stopVars
<1> QED BY <1>1, <1>2, <1>3, <1>4, <1>5 DEF IInv

\* A worker with a task of its own deque is awake.
LEMMA FindLocalKeeps == ASSUME IInv, NEW w \in Workers, FindLocal(w) PROVE IInv'
<1>1. Types'
  BY IdleWakeAssumption DEF IInv, Types, Agents, PCs, FindLocal, At, Goto, sleepVars, sigVars,
         stopVars
<1>2. WakesSomebody'
  BY DEF IInv, WakesSomebody, FindLocal, sigVars
<1>3. SpinnerLooks'
  BY DEF IInv, SpinnerLooks, FindLocal, At, Goto, sleepVars
<1>4. WatcherTimed'
  BY DEF IInv, WatcherTimed, FindLocal, At, Goto, sleepVars
<1>5. EndWakesAll'
  BY DEF IInv, EndWakesAll, Sleeps, FindLocal, At, Goto, sleepVars, stopVars
<1>6. WorkFound'
  BY DEF IInv, WorkFound, AllAsleep, Attended, Looking, Sleeps, FindLocal, At, Goto, sleepVars,
         sigVars, stopVars
<1>7. TimersHeeded'
  BY DEF IInv, TimersHeeded, Heeds, FindLocal, At, Goto, sleepVars
<1> QED BY <1>1, <1>2, <1>3, <1>4, <1>5, <1>6, <1>7 DEF IInv

\* A worker that takes injected tasks takes no more than there are.
LEMMA FindInjectedKeeps == ASSUME IInv, NEW w \in Workers, FindInjected(w) PROVE IInv'
<1>1. Types'
  <2>1. inj \in Nat /\ inj > 0 /\ inj - 1 \in Nat
    BY DEF IInv, Types, FindInjected
  <2>2. inj' \in Nat
    BY <2>1, Shares DEF FindInjected
  <2> QED BY <2>2 DEF IInv, Types, Agents, PCs, FindInjected, Goto, sleepVars, sigVars, stopVars
<1>2. WakesSomebody'
  BY DEF IInv, WakesSomebody, FindInjected, sigVars
<1>3. SpinnerLooks'
  BY DEF IInv, SpinnerLooks, FindInjected, At, Goto, sleepVars
<1>4. WatcherTimed'
  BY DEF IInv, WatcherTimed, FindInjected, At, Goto, sleepVars
<1>5. EndWakesAll'
  BY DEF IInv, EndWakesAll, Sleeps, FindInjected, At, Goto, sleepVars, stopVars
<1>6. WorkFound'
  BY DEF IInv, WorkFound, AllAsleep, Attended, Looking, Sleeps, FindInjected, At, Goto,
         sleepVars, sigVars, stopVars
<1>7. TimersHeeded'
  BY DEF IInv, TimersHeeded, Heeds, FindInjected, At, Goto, sleepVars
<1> QED BY <1>1, <1>2, <1>3, <1>4, <1>5, <1>6, <1>7 DEF IInv

\* A thief is awake.
LEMMA FindStolenKeeps == ASSUME IInv, NEW w \in Workers, FindStolen(w) PROVE IInv'
<1>1. Types'
  BY IdleWakeAssumption DEF IInv, Types, Agents, PCs, FindStolen, At, Goto, sleepVars, sigVars,
         stopVars
<1>2. WakesSomebody'
  BY DEF IInv, WakesSomebody, FindStolen, sigVars
<1>3. SpinnerLooks'
  BY DEF IInv, SpinnerLooks, FindStolen, At, Goto, sleepVars
<1>4. WatcherTimed'
  BY DEF IInv, WatcherTimed, FindStolen, At, Goto, sleepVars
<1>5. EndWakesAll'
  BY DEF IInv, EndWakesAll, Sleeps, FindStolen, At, Goto, sleepVars, stopVars
<1>6. WorkFound'
  BY DEF IInv, WorkFound, AllAsleep, Attended, Looking, Sleeps, FindStolen, At, Goto, sleepVars,
         sigVars, stopVars
<1>7. TimersHeeded'
  BY DEF IInv, TimersHeeded, Heeds, FindStolen, At, Goto, sleepVars
<1> QED BY <1>1, <1>2, <1>3, <1>4, <1>5, <1>6, <1>7 DEF IInv

\* A worker that becomes the spinner looks on.
LEMMA FindNothingKeeps == ASSUME IInv, NEW w \in Workers, FindNothing(w) PROVE IInv'
<1>1. Types'
  BY IdleWakeAssumption DEF IInv, Types, Agents, PCs, FindNothing, At, Goto, poolVars, sigVars,
         stopVars
<1>2. WakesSomebody'
  BY DEF IInv, WakesSomebody, FindNothing, sigVars
<1>3. SpinnerLooks'
  BY DEF IInv, SpinnerLooks, FindNothing, At, Goto
<1>4. WatcherTimed'
  BY DEF IInv, WatcherTimed, FindNothing, At, Goto
<1>5. EndWakesAll'
  BY DEF IInv, EndWakesAll, Sleeps, FindNothing, At, Goto, stopVars
<1>6. WorkFound'
  BY DEF IInv, WorkFound, AllAsleep, Attended, Looking, Sleeps, FindNothing, At, Goto, poolVars,
         sigVars, stopVars
<1>7. TimersHeeded'
  BY DEF IInv, TimersHeeded, Heeds, FindNothing, At, Goto
<1> QED BY <1>1, <1>2, <1>3, <1>4, <1>5, <1>6, <1>7 DEF IInv

\* The spinner that found work gives the flag up before it stops looking.
LEMMA DropSpinKeeps == ASSUME IInv, NEW w \in Workers, DropSpin(w) PROVE IInv'
<1>1. Types'
  BY IdleWakeAssumption DEF IInv, Types, Agents, PCs, DropSpin, At, Goto, poolVars, sigVars,
         stopVars
<1>2. WakesSomebody'
  BY DEF IInv, WakesSomebody, DropSpin, sigVars
<1>3. SpinnerLooks'
  BY DEF IInv, SpinnerLooks, DropSpin, At, Goto
<1>4. WatcherTimed'
  BY DEF IInv, WatcherTimed, DropSpin, At, Goto
<1>5. EndWakesAll'
  BY DEF IInv, EndWakesAll, Sleeps, DropSpin, At, Goto, stopVars
<1>6. WorkFound'
  BY DEF IInv, WorkFound, AllAsleep, Attended, Looking, Sleeps, DropSpin, At, Goto, poolVars,
         sigVars, stopVars
<1>7. TimersHeeded'
  BY DEF IInv, TimersHeeded, Heeds, DropSpin, At, Goto
<1> QED BY <1>1, <1>2, <1>3, <1>4, <1>5, <1>6, <1>7 DEF IInv

\* A former spinner hands the duty on while injected work is left.
LEMMA LookLeftKeeps == ASSUME IInv, NEW w \in Workers, LookLeft(w) PROVE IInv'
<1>1. Types'
  BY IdleWakeAssumption DEF IInv, Types, Agents, PCs, LookLeft, At, Goto, poolVars, sleepVars,
         stopVars
<1>2. SpinnerLooks'
  BY DEF IInv, SpinnerLooks, LookLeft, At, Goto, sleepVars
<1>3. WatcherTimed'
  BY DEF IInv, WatcherTimed, LookLeft, At, Goto, sleepVars
<1>4. WakesSomebody'
  BY DEF IInv, WakesSomebody, LookLeft, At, Goto
<1>5. EndWakesAll'
  BY DEF IInv, EndWakesAll, Sleeps, LookLeft, At, Goto, sleepVars, stopVars
<1>6. WorkFound'
  BY DEF IInv, WorkFound, AllAsleep, Attended, Looking, Sleeps, LookLeft, At, Goto, poolVars,
         sleepVars, stopVars
<1>7. TimersHeeded'
  BY DEF IInv, TimersHeeded, Heeds, LookLeft, At, Goto, sleepVars
<1> QED BY <1>1, <1>2, <1>3, <1>4, <1>5, <1>6, <1>7 DEF IInv

\* A worker that is to sleep has seen every timer that is armed, and promoted what is due.
LEMMA LockLookKeeps == ASSUME IInv, NEW w \in Workers, LockLook(w) PROVE IInv'
<1>0. timers # {} => SetMin(timers) \in timers /\ SetMin(timers) \in Nat \ {0}
  <2>1. timers \subseteq Nat /\ timers \subseteq Nat \ {0}
    BY IdleWakeAssumption DEF IInv, Types
  <2> QED BY <2>1, SetMinLeast
<1>1. Types'
  <2>7. Cardinality(Due) \in Nat
    <3>1. Due \subseteq 1 .. MaxTime
      BY DEF IInv, Types, Due
    <3>2. IsFiniteSet(1 .. MaxTime)
      BY IdleWakeAssumption, FS_Interval
    <3> QED BY <3>1, <3>2, FS_Subset, FS_CardinalityType
  <2>1. pc' \in [Agents -> PCs] /\ fresh' \in [Workers -> BOOLEAN]
    BY DEF IInv, Types, Agents, PCs, LockLook, Goto
  <2>2. sig' \in [Agents -> {"none", "look", "claim", "wake"}] /\ timers' \subseteq 1 .. MaxTime
    BY DEF IInv, Types, LockLook
  <2>3. dl' \in [Workers -> Nat]
    BY <1>0 DEF IInv, Types, LockLook
  <2>4. extra' \in [Agents -> Nat]
    <3>3. (IF Cardinality(Due) > 1 THEN Cardinality(Due) - 2 ELSE 0) \in Nat
      BY <2>7
    <3> HIDE DEF Due
    <3> QED BY <3>3 DEF IInv, Types, LockLook
  <2>6. inj' \in Nat /\ made' = made
    BY <2>7 DEF IInv, Types, LockLook
  <2>5. /\ idle' \subseteq Workers /\ notified' \subseteq Workers /\ unwoken' \subseteq Workers
        /\ timed' \in [Workers -> BOOLEAN] /\ target' \in [Agents -> Workers \cup {None}]
        /\ now' \in Nat
    BY DEF IInv, Types, LockLook, stopVars
  <2> QED BY <2>1, <2>2, <2>3, <2>4, <2>5, <2>6 DEF IInv, Types
<1>2. SpinnerLooks'
  BY <1>0 DEF IInv, SpinnerLooks, Types, Agents, LockLook, At, Goto
<1>3. WatcherTimed'
  BY <1>0 DEF IInv, WatcherTimed, Types, Agents, LockLook, At, Goto
<1>4. WakesSomebody'
  BY <1>0 DEF IInv, WakesSomebody, Types, Agents, LockLook, At, Goto
<1>5. EndWakesAll'
  BY <1>0 DEF IInv, EndWakesAll, Sleeps, Types, Agents, LockLook, At, Goto, stopVars
<1>6. WorkFound'
  BY <1>0 DEF IInv, WorkFound, AllAsleep, Attended, Looking, Sleeps, Types, Agents, LockLook, At,
         Goto, stopVars
<1>7. TimersHeeded'
  <2>1. CASE Due # {}
    BY <2>1, IdleWakeAssumption DEF IInv, TimersHeeded, Heeds, Types, Agents, LockLook, At, Goto
  <2>2. CASE Due = {} /\ timers' # {}
    <3>1. pc'[w] = "park" /\ dl'[w] # 0
      BY <1>0, <2>2, IdleWakeAssumption DEF IInv, Types, Agents, LockLook, At, Goto
    <3> QED BY <3>1 DEF TimersHeeded, Heeds
  <2> QED BY <2>1, <2>2 DEF TimersHeeded
<1> QED BY <1>1, <1>2, <1>3, <1>4, <1>5, <1>6, <1>7 DEF IInv

\* A worker that joins the idle mask has a look before it.
LEMMA ParkKeeps == ASSUME IInv, NEW w \in Workers, Park(w) PROVE IInv'
<1>1. Types'
  BY IdleWakeAssumption DEF IInv, Types, Agents, PCs, Park, At, Goto, poolVars, sigVars, stopVars
<1>2. WakesSomebody'
  BY DEF IInv, WakesSomebody, Park, sigVars
<1>3. SpinnerLooks'
  BY DEF IInv, SpinnerLooks, Park, At, Goto
<1>4. WatcherTimed'
  BY DEF IInv, WatcherTimed, Park, At, Goto
<1>5. EndWakesAll'
  BY DEF IInv, EndWakesAll, Sleeps, Park, At, Goto, stopVars
<1>6. WorkFound'
  BY DEF IInv, WorkFound, AllAsleep, Attended, Looking, Sleeps, Park, At, Goto, poolVars,
         sigVars, stopVars
<1>7. TimersHeeded'
  BY DEF IInv, TimersHeeded, Heeds, Park, At, Goto
<1> QED BY <1>1, <1>2, <1>3, <1>4, <1>5, <1>6, <1>7 DEF IInv

\* The look after joining the mask finds what was injected, armed or ended meanwhile; the sleep
\* of a worker with a deadline is timed, or another worker's is.
LEMMA RelookKeeps == ASSUME IInv, NEW w \in Workers, Relook(w) PROVE IInv'
<1>0. /\ pc[w] = "join" /\ w \in Agents /\ ~timed[w] /\ watcher # w /\ spinner' = spinner
      /\ inj' = inj /\ sig' = sig
      /\ made' = made /\ timers' = timers /\ dl' = dl /\ notified' = notified /\ unwoken' = unwoken
      /\ \/ /\ SeesWork(w) /\ pc' = [pc EXCEPT ![w] = "find"]
            /\ UNCHANGED <<watcher, timed>>
         \/ /\ ~SeesWork(w) /\ pc' = [pc EXCEPT ![w] = "asleep"]
            /\ timed' = [timed EXCEPT ![w] = TakesWatch(w)]
            /\ watcher' = IF TakesWatch(w) THEN w ELSE watcher
  <2>1. pc[w] = "join" /\ w \in Agents
    BY DEF Relook, At, Agents
  <2>2. ~timed[w]
    BY <2>1 DEF IInv, WatcherTimed
  <2>3. watcher # w
    BY <2>2, IdleWakeAssumption DEF IInv, WatcherTimed
  <2> QED BY <2>1, <2>2, <2>3 DEF Relook, Goto, poolVars, sigVars, stopVars
<1>1. Types'
  <2>1. SeesWork(w) => pc' = [pc EXCEPT ![w] = "find"]
    BY <1>0
  <2> QED BY <1>0, <2>1 DEF IInv, Types, PCs, Agents, Relook, At, Goto, TakesWatch, poolVars,
                 sigVars, stopVars
<1>2. WakesSomebody'
  BY DEF IInv, WakesSomebody, Relook, sigVars
<1>3. SpinnerLooks'
  BY <1>0 DEF IInv, SpinnerLooks, Types, Agents, Relook, At, Goto
<1>4. WatcherTimed'
  <2>2. CASE SeesWork(w)
    <3>1. pc' = [pc EXCEPT ![w] = "find"] /\ UNCHANGED <<watcher, timed>>
      BY <2>2 DEF Relook, Goto
    <3> QED BY <1>0, <3>1 DEF IInv, Types, WatcherTimed, Agents
  <2>3. CASE ~SeesWork(w)
    <3>1. /\ pc' = [pc EXCEPT ![w] = "asleep"] /\ timed' = [timed EXCEPT ![w] = TakesWatch(w)]
          /\ watcher' = IF TakesWatch(w) THEN w ELSE watcher
      BY <2>3 DEF Relook, Goto
    <3>2. timed'[w] = TakesWatch(w) /\ \A v \in Workers \ {w} : timed'[v] = timed[v]
          /\ pc'[v] = pc[v]
      BY <3>1 DEF IInv, Types, Agents
    <3>3. pc'[w] = "asleep"
      BY <1>0, <3>1 DEF IInv, Types
    <3> QED BY <1>0, <3>1, <3>2, <3>3 DEF IInv, WatcherTimed
  <2> QED BY <2>2, <2>3
<1>5. EndWakesAll'
  BY <1>0 DEF IInv, EndWakesAll, Sleeps, Types, Agents, Relook, At, Goto, SeesWork, TakesWatch,
         stopVars
<1>6. WorkFound'
  <2>1. CASE SeesWork(w)
    <3>1. pc'[w] = "find"
      BY <1>0, <2>1 DEF IInv, Types
    <3> QED BY <3>1 DEF WorkFound, AllAsleep, Sleeps
  <2>2. CASE ~SeesWork(w)
    <3>1. ~(inj > 0)
      BY <2>2 DEF SeesWork
    <3> QED BY <1>0, <3>1 DEF IInv, Types, WorkFound
  <2> QED BY <2>1, <2>2
<1>7. TimersHeeded'
  <2> SUFFICES ASSUME timers # {}
               PROVE  \E v \in Workers : timed'[v] \/ Heeds(v)'
    BY <1>0 DEF TimersHeeded
  <2>1. CASE SeesWork(w)
    <3>1. pc'[w] = "find"
      BY <1>0, <2>1 DEF IInv, Types
    <3> QED BY <3>1 DEF Heeds
  <2>2. CASE ~SeesWork(w) /\ dl[w] # 0
    <3>1. TakesWatch(w) => timed'[w]
      BY <1>0, <2>2 DEF IInv, Types
    <3>2. ~TakesWatch(w) => watcher \in Workers /\ timed'[watcher]
      BY <1>0, <2>2 DEF IInv, Types, WatcherTimed, TakesWatch
    <3> QED BY <3>1, <3>2
  <2>3. CASE ~SeesWork(w) /\ dl[w] = 0
    <3>1. PICK v \in Workers : timed[v] \/ Heeds(v)
      BY DEF IInv, TimersHeeded
    <3>2. v # w
      BY <1>0, <2>3, <3>1 DEF Heeds
    <3>3. timed'[v] = timed[v] /\ pc'[v] = pc[v] /\ dl' = dl
      BY <1>0, <2>3, <3>2 DEF IInv, Types, Agents
    <3> QED BY <3>1, <3>3 DEF Heeds
  <2> QED BY <2>1, <2>2, <2>3
<1> QED BY <1>1, <1>2, <1>3, <1>4, <1>5, <1>6, <1>7 DEF IInv

\* A woken worker looks again.
LEMMA WakeUpKeeps == ASSUME IInv, NEW w \in Workers, WakeUp(w) PROVE IInv'
<1>1. Types'
  BY IdleWakeAssumption DEF IInv, Types, Agents, PCs, WakeUp, At, Goto, poolVars, sigVars,
         stopVars
<1>2. WakesSomebody'
  BY DEF IInv, WakesSomebody, WakeUp, sigVars
<1>3. SpinnerLooks'
  BY DEF IInv, SpinnerLooks, WakeUp, At, Goto
<1>4. WatcherTimed'
  BY DEF IInv, WatcherTimed, WakeUp, At, Goto
<1>5. EndWakesAll'
  BY DEF IInv, EndWakesAll, Sleeps, WakeUp, At, Goto, stopVars
<1>6. WorkFound'
  BY DEF IInv, WorkFound, AllAsleep, Attended, Looking, Sleeps, WakeUp, poolVars, sigVars,
         stopVars
<1>7. TimersHeeded'
  BY DEF IInv, TimersHeeded, Heeds, WakeUp, At, Goto
<1> QED BY <1>1, <1>2, <1>3, <1>4, <1>5, <1>6, <1>7 DEF IInv

\* A worker that gives its timed sleep up looks at the timers again before it sleeps.
LEMMA UnwatchKeeps == ASSUME IInv, NEW w \in Workers, Unwatch(w) PROVE IInv'
<1>1. Types'
  BY IdleWakeAssumption DEF IInv, Types, Agents, PCs, Unwatch, At, Goto, NoWatcher, poolVars,
         sigVars, stopVars
<1>2. WakesSomebody'
  BY DEF IInv, WakesSomebody, Unwatch, sigVars
<1>3. SpinnerLooks'
  BY DEF IInv, SpinnerLooks, Unwatch, At, Goto, NoWatcher
<1>4. WatcherTimed'
  BY DEF IInv, WatcherTimed, Types, Agents, Unwatch, At, Goto, NoWatcher
<1>5. EndWakesAll'
  BY DEF IInv, EndWakesAll, Sleeps, Unwatch, At, Goto, NoWatcher, stopVars
<1>6. WorkFound'
  BY DEF IInv, WorkFound, AllAsleep, Attended, Looking, Sleeps, Unwatch, At, Goto, NoWatcher,
         poolVars, sigVars, stopVars
<1>7. TimersHeeded'
  BY DEF IInv, TimersHeeded, Heeds, Unwatch, At, Goto, NoWatcher
<1> QED BY <1>1, <1>2, <1>3, <1>4, <1>5, <1>6, <1>7 DEF IInv

\* A watcher woken for work may find nobody to pass the deadline to: it will see it itself.
LEMMA PassDeadlineKeeps == ASSUME IInv, NEW w \in Workers, PassDeadline(w) PROVE IInv'
<1>1. Types'
  BY IdleWakeAssumption DEF IInv, Types, Agents, PCs, PassDeadline, At, Goto, poolVars,
         sleepVars, stopVars
<1>2. SpinnerLooks'
  BY DEF IInv, SpinnerLooks, PassDeadline, At, Goto, sleepVars
<1>3. WatcherTimed'
  BY DEF IInv, WatcherTimed, PassDeadline, At, Goto, sleepVars
<1>4. WakesSomebody'
  BY DEF IInv, WakesSomebody, PassDeadline, At, Goto
<1>5. EndWakesAll'
  BY DEF IInv, EndWakesAll, Sleeps, PassDeadline, At, Goto, sleepVars, stopVars
<1>6. WorkFound'
  BY DEF IInv, WorkFound, AllAsleep, Attended, Looking, Sleeps, PassDeadline, At, Goto, poolVars,
         sleepVars, stopVars
<1>7. TimersHeeded'
  BY DEF IInv, TimersHeeded, Heeds, PassDeadline, At, Goto, sleepVars
<1> QED BY <1>1, <1>2, <1>3, <1>4, <1>5, <1>6, <1>7 DEF IInv

\* A task that makes another is run by a worker that is awake.
LEMMA PushKeeps == ASSUME IInv, NEW w \in Workers, Push(w) PROVE IInv'
<1>1. Types'
  BY IdleWakeAssumption DEF IInv, Types, Agents, Push, At, sleepVars, stopVars
<1>2. SpinnerLooks' /\ WatcherTimed' /\ EndWakesAll' /\ TimersHeeded'
  BY DEF IInv, SpinnerLooks, WatcherTimed, EndWakesAll, Sleeps, TimersHeeded, Heeds, Push,
         sleepVars, stopVars
<1>3. WakesSomebody'
  BY DEF IInv, WakesSomebody, Push, At
<1>4. WorkFound'
  BY DEF IInv, WorkFound, AllAsleep, Attended, Looking, Sleeps, Push, sleepVars, stopVars
<1> QED BY <1>1, <1>2, <1>3, <1>4 DEF IInv

\* A worker that finished a task looks again.
LEMMA FinishKeeps == ASSUME IInv, NEW w \in Workers, Finish(w) PROVE IInv'
<1>1. Types'
  BY IdleWakeAssumption DEF IInv, Types, Agents, PCs, Finish, At, Goto, poolVars, sigVars,
         stopVars
<1>2. WakesSomebody'
  BY DEF IInv, WakesSomebody, Finish, sigVars
<1>3. SpinnerLooks'
  BY DEF IInv, SpinnerLooks, Finish, At, Goto
<1>4. WatcherTimed'
  BY DEF IInv, WatcherTimed, Finish, At, Goto
<1>5. EndWakesAll'
  BY DEF IInv, EndWakesAll, Sleeps, Finish, At, Goto, stopVars
<1>6. WorkFound'
  BY DEF IInv, WorkFound, AllAsleep, Attended, Looking, Sleeps, Finish, At, Goto, poolVars,
         sigVars, stopVars
<1>7. TimersHeeded'
  BY DEF IInv, TimersHeeded, Heeds, Finish, At, Goto
<1> QED BY <1>1, <1>2, <1>3, <1>4, <1>5, <1>6, <1>7 DEF IInv

\* A worker that arms a timer is awake, and will see it.
LEMMA ArmKeeps == ASSUME IInv, NEW w \in Workers, Arm(w) PROVE IInv'
<1>1. Types'
  BY IdleWakeAssumption DEF IInv, Types, WatcherTimed, Agents, PCs, Arm, At, Goto, poolVars,
         sleepVars, stopVars
<1>2. SpinnerLooks'
  BY DEF IInv, SpinnerLooks, Arm, At, Goto, sleepVars
<1>3. WatcherTimed'
  BY DEF IInv, WatcherTimed, Arm, At, Goto, sleepVars
<1>4. WakesSomebody'
  BY DEF IInv, WakesSomebody, Arm, At, Goto
<1>5. EndWakesAll'
  BY DEF IInv, EndWakesAll, Sleeps, Arm, At, Goto, sleepVars, stopVars
<1>6. WorkFound'
  BY DEF IInv, WorkFound, AllAsleep, Attended, Looking, Sleeps, Arm, At, Goto, poolVars,
         sleepVars, stopVars
<1>7. TimersHeeded'
  BY DEF IInv, TimersHeeded, Heeds, Arm, At, Goto, sleepVars
<1> QED BY <1>1, <1>2, <1>3, <1>4, <1>5, <1>6, <1>7 DEF IInv

\* Whom a new earliest deadline wakes is idle.
LEMMA ArmClaimKeeps == ASSUME IInv, NEW w \in Workers, ArmClaim(w) PROVE IInv'
<1>1. Types'
  BY IdleWakeAssumption DEF IInv, Types, Agents, PCs, ArmClaim, At, Goto, poolVars, stopVars
<1>2. SpinnerLooks'
  BY DEF IInv, SpinnerLooks, ArmClaim, At, Goto
<1>3. WatcherTimed'
  BY DEF IInv, WatcherTimed, ArmClaim, At, Goto
<1>4. WakesSomebody'
  BY DEF IInv, WakesSomebody, Types, Agents, ArmClaim, At, Goto
<1>5. EndWakesAll'
  BY DEF IInv, EndWakesAll, Sleeps, ArmClaim, At, Goto, stopVars
<1>6. WorkFound'
  BY DEF IInv, WorkFound, AllAsleep, Attended, Looking, Sleeps, ArmClaim, At, Goto, poolVars,
         stopVars
<1>7. TimersHeeded'
  BY DEF IInv, TimersHeeded, Heeds, ArmClaim, At, Goto
<1> QED BY <1>1, <1>2, <1>3, <1>4, <1>5, <1>6, <1>7 DEF IInv

\* A worker that armed a timer looks again.
LEMMA TailDoneKeeps == ASSUME IInv, NEW w \in Workers, TailDone(w) PROVE IInv'
<1>1. Types'
  BY IdleWakeAssumption DEF IInv, Types, Agents, PCs, TailDone, At, Goto, poolVars, sigVars,
         stopVars
<1>2. WakesSomebody'
  BY DEF IInv, WakesSomebody, TailDone, sigVars
<1>3. SpinnerLooks'
  BY DEF IInv, SpinnerLooks, TailDone, At, Goto
<1>4. WatcherTimed'
  BY DEF IInv, WatcherTimed, TailDone, At, Goto
<1>5. EndWakesAll'
  BY DEF IInv, EndWakesAll, Sleeps, TailDone, At, Goto, stopVars
<1>6. WorkFound'
  BY DEF IInv, WorkFound, AllAsleep, Attended, Looking, Sleeps, TailDone, At, Goto, poolVars,
         sigVars, stopVars
<1>7. TimersHeeded'
  BY DEF IInv, TimersHeeded, Heeds, TailDone, At, Goto
<1> QED BY <1>1, <1>2, <1>3, <1>4, <1>5, <1>6, <1>7 DEF IInv

\* A submitter that injected goes on to signal.
LEMMA InjectKeeps == ASSUME IInv, Inject PROVE IInv'
<1>1. Types'
  BY IdleWakeAssumption DEF IInv, Types, Agents, Inject, At, sleepVars, stopVars
<1>2. SpinnerLooks' /\ WatcherTimed' /\ EndWakesAll' /\ TimersHeeded'
  BY DEF IInv, SpinnerLooks, WatcherTimed, EndWakesAll, Sleeps, TimersHeeded, Heeds, Inject,
         sleepVars, stopVars
<1>3. WakesSomebody'
  BY DEF IInv, WakesSomebody, Inject, At
<1>4. WorkFound'
  BY DEF IInv, WorkFound, AllAsleep, Attended, Looking, Sleeps, Types, Agents, Inject, At,
         sleepVars, stopVars
<1> QED BY <1>1, <1>2, <1>3, <1>4 DEF IInv

\* Nothing that was said depends on the clock.
LEMMA TickKeeps == ASSUME IInv, Tick PROVE IInv'
<1>1. Types'
  BY DEF IInv, Types, Agents, Tick, poolVars, sleepVars, sigVars, stopVars
<1>2. SpinnerLooks' /\ WatcherTimed' /\ WakesSomebody' /\ EndWakesAll' /\ WorkFound'
      /\ TimersHeeded'
  BY DEF IInv, SpinnerLooks, WatcherTimed, WakesSomebody, EndWakesAll, Sleeps, WorkFound,
         AllAsleep, Attended, Looking, TimersHeeded, Heeds, Tick, poolVars, sleepVars, sigVars,
         stopVars
<1> QED BY <1>1, <1>2 DEF IInv

\* The end of the pool owes every worker a wake-up.
LEMMA StopKeeps == ASSUME IInv, Stop PROVE IInv'
<1>1. Types'
  BY IdleWakeAssumption DEF IInv, Types, Agents, PCs, Stop, At, Goto, poolVars, sleepVars, sigVars
<1>2. WakesSomebody'
  BY DEF IInv, WakesSomebody, Stop, sigVars
<1>3. SpinnerLooks'
  BY DEF IInv, SpinnerLooks, Stop, At, Goto, sleepVars
<1>4. WatcherTimed'
  BY DEF IInv, WatcherTimed, Stop, At, Goto, sleepVars
<1>5. EndWakesAll'
  BY DEF IInv, EndWakesAll, Sleeps, Stop, sleepVars
<1>6. WorkFound'
  BY DEF IInv, WorkFound, AllAsleep, Attended, Looking, Sleeps, Stop, poolVars, sleepVars, sigVars
<1>7. TimersHeeded'
  BY DEF IInv, TimersHeeded, Heeds, Stop, At, Goto, sleepVars
<1> QED BY <1>1, <1>2, <1>3, <1>4, <1>5, <1>6, <1>7 DEF IInv

\* A worker that got its wake-up from the end of the pool does not sleep over it.
LEMMA StopWakeKeeps == ASSUME IInv, NEW w \in Workers, StopWake(w) PROVE IInv'
<1>1. Types'
  BY DEF IInv, Types, Agents, StopWake, At, poolVars, sigVars
<1>2. SpinnerLooks' /\ WatcherTimed' /\ WakesSomebody' /\ TimersHeeded'
  BY DEF IInv, SpinnerLooks, WatcherTimed, WakesSomebody, TimersHeeded, Heeds, StopWake, sigVars
<1>3. EndWakesAll'
  BY DEF IInv, EndWakesAll, Sleeps, StopWake
<1>4. WorkFound'
  BY DEF IInv, WorkFound, AllAsleep, Attended, Looking, Sleeps, StopWake, poolVars, sigVars
<1> QED BY <1>1, <1>2, <1>3, <1>4 DEF IInv

\* The end of the pool leaves the workers where they are.
LEMMA JoinAllKeeps == ASSUME IInv, JoinAll PROVE IInv'
<1>1. Types'
  BY IdleWakeAssumption DEF IInv, Types, Agents, PCs, JoinAll, At, Goto, poolVars, sleepVars,
         sigVars, stopVars
<1>2. WakesSomebody'
  BY DEF IInv, WakesSomebody, JoinAll, sigVars
<1>3. SpinnerLooks'
  BY DEF IInv, SpinnerLooks, JoinAll, At, Goto, sleepVars
<1>4. WatcherTimed'
  BY DEF IInv, WatcherTimed, JoinAll, sleepVars
<1>5. EndWakesAll'
  BY DEF IInv, EndWakesAll, Sleeps, JoinAll, At, Goto, sleepVars, stopVars
<1>6. WorkFound'
  BY DEF IInv, WorkFound, AllAsleep, Attended, Looking, Sleeps, JoinAll, At, Goto, poolVars,
         sleepVars, sigVars, stopVars
<1>7. TimersHeeded'
  BY DEF IInv, TimersHeeded, Heeds, JoinAll, sleepVars
<1> QED BY <1>1, <1>2, <1>3, <1>4, <1>5, <1>6, <1>7 DEF IInv

-----------------------------------------------------------------------------
(* The theorem *)

\* At the start nobody sleeps, and every worker is about to look.
LEMMA InitHolds == Init => IInv
<1> SUFFICES ASSUME Init PROVE IInv
  OBVIOUS
<1>1. Types
  BY IdleWakeAssumption DEF Init, Types, Agents, PCs
<1>2. \A w \in Workers : pc[w] = "find"
  BY IdleWakeAssumption DEF Init, Agents
<1>3. SpinnerLooks /\ WakesSomebody /\ EndWakesAll /\ TimersHeeded
  BY DEF Init, SpinnerLooks, WakesSomebody, EndWakesAll, TimersHeeded
<1>4. WatcherTimed
  BY DEF Init, WatcherTimed
<1>5. WorkFound
  BY DEF Init, WorkFound
<1> QED BY <1>1, <1>3, <1>4, <1>5 DEF IInv

\* A state function of the variables stays as it is when they do.
LEMMA StutterKeeps == IInv /\ UNCHANGED vars => IInv'
<1> SUFFICES ASSUME IInv, UNCHANGED vars PROVE IInv'
  OBVIOUS
<1>1. Types' /\ SpinnerLooks' /\ WatcherTimed' /\ WakesSomebody'
  BY DEF IInv, Types, SpinnerLooks, WatcherTimed, WakesSomebody, vars, poolVars, sleepVars,
         sigVars, stopVars
<1>2. EndWakesAll' /\ WorkFound' /\ TimersHeeded'
  BY DEF IInv, EndWakesAll, WorkFound, AllAsleep, Attended, Looking, Sleeps, TimersHeeded, Heeds,
         vars, poolVars, sleepVars, sigVars, stopVars
<1> QED BY <1>1, <1>2 DEF IInv

\* Every step of the pool, its tasks, its submitters and its end keeps the invariant.
LEMMA NextKeeps == IInv /\ [Next]_vars => IInv'
<1> SUFFICES ASSUME IInv, [Next]_vars PROVE IInv'
  OBVIOUS
<1>1. ASSUME NEW a \in Agents, Signal(a) PROVE IInv'
  BY <1>1, SigLookKeeps, SigClaimKeeps, SigWakeKeeps DEF Signal
<1>2. ASSUME NEW w \in Workers, Search(w) PROVE IInv'
  BY <1>2, FindLocalKeeps, FindInjectedKeeps, FindStolenKeeps, FindNothingKeeps, DropSpinKeeps,
     LookLeftKeeps, LockLookKeeps, ParkKeeps, RelookKeeps, WakeUpKeeps, UnwatchKeeps,
     PassDeadlineKeeps, ArmClaimKeeps, TailDoneKeeps DEF Search
<1>3. ASSUME NEW w \in Workers, Push(w) \/ Finish(w) \/ Arm(w) \/ StopWake(w) PROVE IInv'
  BY <1>3, PushKeeps, FinishKeeps, ArmKeeps, StopWakeKeeps
<1>4. CASE Inject \/ Tick \/ Stop \/ JoinAll
  BY <1>4, InjectKeeps, TickKeeps, StopKeeps, JoinAllKeeps
<1>5. CASE Done \/ UNCHANGED vars
  BY <1>5, StutterKeeps DEF Done
<1> QED BY <1>1, <1>2, <1>3, <1>4, <1>5 DEF Next

\* Every state of the pool satisfies the invariant.
THEOREM Invariance == Spec => []IInv
BY InitHolds, NextKeeps, PTL DEF Spec

\* No wake-up is lost: whatever the number of workers, and in whatever order pushes,
\* injections, deadlines, spins, claims and the end of the pool fall between a worker's last
\* look and its sleep, the pool never comes to sleep as a whole over injected work, over armed
\* timers with no sleep timed, or over its own end (dequeue_runnable, signal_work, arm_timer,
\* destroy_pool).
THEOREM WakeupsKept == Spec => []NoLostWakeup
<1>1. IInv => NoLostWakeup
  <2> SUFFICES ASSUME IInv, AllAsleep
               PROVE  inj = 0 /\ ~stopping /\ (timers = {} \/ \E w \in Workers : timed[w])
    BY DEF NoLostWakeup
  <2>1. inj = 0
    BY DEF IInv, WorkFound
  <2>2. ~stopping
    BY IdleWakeAssumption DEF IInv, EndWakesAll, AllAsleep
  <2>3. timers # {} => \E w \in Workers : timed[w]
    <3>1. \A w \in Workers : ~Heeds(w)
      BY DEF AllAsleep, Sleeps, Heeds
    <3> QED BY <3>1 DEF IInv, TimersHeeded
  <2> QED BY <2>1, <2>2, <2>3
<1> QED BY Invariance, <1>1, PTL
=============================================================================
