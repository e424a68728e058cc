--------------------------- MODULE MonitorsProofs ---------------------------
(***************************************************************************)
(* Theorems about the monitors MCMonitors composes, the semaphore, the     *)
(* barrier, the reader-writer lock and the wait group, for any number of   *)
(* processes and any parameters: each keeps its counts, and nobody sleeps  *)
(* over what he waits for.                                                 *)
(***************************************************************************)
EXTENDS MCMonitors, QueueProofs

-----------------------------------------------------------------------------
(* The condvar of the semaphore *)

\* Its sets are counted as any.
LEMMA SemCounts ==
  ASSUME NEW S PROVE Sem!IsFiniteSet(S) = IsFiniteSet(S) /\ Sem!Cardinality(S) = Cardinality(S)
BY DEF Sem!Cardinality, Cardinality, Sem!IsFiniteSet, IsFiniteSet

\* Its notify pops and wakes as that of any condvar.
LEMMA SemNotifies ==
  ASSUME NEW q, NEW w
  PROVE  Sem!Woken(q, w, 1) = Woken(q, w, 1) /\ Sem!Left(q, w, 1) = Left(q, w, 1)
<1> DEFINE m == 1
           c(k) == Sem!Cardinality(Sem!Awaiting(q, w, k))
           d(k) == Cardinality(Awaiting(q, w, k))
           E == {k \in 0 .. Len(q) : c(k) = m}
           F == {k \in 0 .. Len(q) : d(k) = m}
<1>1. Sem!Popped(q, w, m) = IF E = {} THEN Len(q) ELSE CHOOSE k \in E : \A j \in E : k <= j
  BY DEF Sem!Popped
<1>2. Popped(q, w, m) = IF F = {} THEN Len(q) ELSE CHOOSE k \in F : \A j \in F : k <= j
  BY DEF Popped
<1>3. \A k : Sem!Awaiting(q, w, k) = Awaiting(q, w, k)
  BY DEF Sem!Awaiting, Awaiting
<1> HIDE DEF m
<1>4. Sem!Popped(q, w, m) = Popped(q, w, m)
  <2>1. \A k : c(k) = d(k)
    BY <1>3, SemCounts
  <2> HIDE DEF c, d
  <2>2. E = F
    BY <2>1
  <2> HIDE DEF E, F
  <2> QED BY <1>1, <1>2, <2>2
<1>5. Sem!Woken(q, w, m) = Woken(q, w, m)
  BY <1>3, <1>4 DEF Sem!Woken, Woken
<1> USE DEF m
<1> QED BY <1>4, <1>5 DEF Sem!Left, Left

\* And so do its waiters come and go,
LEMMA SemQueues ==
  ASSUME NEW q, NEW p
  PROVE  Sem!Register(q, p) = Register(q, p) /\ Sem!Unlink(q, p) = Unlink(q, p)
BY DEF Sem!Register, Register, Sem!Unlink, Unlink, Sem!Contains, Contains, Sem!RemoveAt, RemoveAt

\* and their waits begin and end.
LEMMA SemWaits ==
  ASSUME NEW w, NEW p, NEW r, NEW S
  PROVE  /\ Sem!Over(w, p) = Over(w, p) /\ Sem!Parks(w, p) = Parks(w, p)
         /\ Sem!Wins(w, p, r) = Wins(w, p, r) /\ Sem!WithReason(w, S, r) = WithReason(w, S, r)
BY DEF Sem!Over, Over, Sem!Parks, Parks, Sem!Wins, Wins, Sem!WithReason, WithReason

-----------------------------------------------------------------------------
(* The semaphore *)

\* Whoever is in a call waits, without a permit and with his node queued while he is parked;
\* while anybody sleeps, a woken waiter is on his way for every free permit.
SemInv ==
  /\ permits \in Nat /\ semHas \in SUBSET Procs
  /\ semWait \in [Procs -> WaitStates]
  /\ semMode \in [Procs -> Sem!Modes]
  /\ Lined(semWait, semQueue, Procs)
  /\ \A p \in Range(semQueue) : semWait[p] # "none"
  /\ \A p \in Procs : semMode[p] = "none" <=> semWait[p] = "none"
  /\ \A p \in semHas : semWait[p] = "none"
  /\ permits + Cardinality(semHas) = Permits
  /\ Serves(semWait, Procs, permits)

\* Nobody is queued at first.
LEMMA SemStarts == Sem!Init => SemInv
<1> SUFFICES ASSUME Sem!Init PROVE SemInv
  OBVIOUS
<1>1. Cardinality({}) = 0
  BY FS_EmptySet
<1>2. WithReason(semWait, Procs, "parked") = {}
  BY DEF Sem!Init, WithReason
<1>3. Lined(semWait, semQueue, Procs) /\ Serves(semWait, Procs, permits)
  BY <1>2, NobodyLined DEF Sem!Init
<1>4. Range(semQueue) = {}
  BY DEF Sem!Init, Range
<1> QED BY <1>1, <1>3, <1>4, MonitorsAssumption DEF Sem!Init, SemInv, Sem!Modes, WaitStates

\* Fewer free permits need fewer woken waiters.
LEMMA ServesFewer ==
  ASSUME NEW w, NEW S, IsFiniteSet(S), NEW n \in Nat, Serves(w, S, n + 1) PROVE Serves(w, S, n)
<1>1. Cardinality(WithReason(w, S, "notify")) \in Nat
  BY FS_Subset, FS_CardinalityType DEF WithReason
<1> QED BY <1>1 DEF Serves

\* Who is not queued leaves no node behind.
LEMMA UnlinkNobody ==
  ASSUME NEW q, NEW p, p \notin Range(q), NEW S, q \in Seq(S) PROVE Unlink(q, p) = q
<1>1. ~Contains(q, p)
  BY LenProperties DEF Contains, Range
<1> QED BY <1>1 DEF Unlink

\* Whoever is queued is of the side.
LEMMA QueuedAre ==
  ASSUME NEW w, NEW q, NEW S, Lined(w, q, S) PROVE Range(q) \subseteq S
BY LenProperties, ElementOfSeq DEF Lined, Range

\* The first look: a permit is taken, or the caller parks.
LEMMA SemAcquire ==
  ASSUME SemInv, NEW p \in Procs, NEW m \in Sem!Modes \ {"none"}, Sem!Acquire(p, m)
  PROVE  SemInv'
<1> USE DEF SemInv
<1>1. semMode[p] = "none" /\ semWait[p] = "none" /\ p \notin semHas /\ IsFiniteSet(Procs)
  BY MonitorsAssumption DEF Sem!Acquire
<1>2. CASE permits > 0
  <2>1. /\ permits' = permits - 1 /\ semHas' = semHas \cup {p}
        /\ semQueue' = semQueue /\ semWait' = semWait /\ semMode' = semMode
    BY <1>2 DEF Sem!Acquire
  <2>2. permits' \in Nat /\ permits = permits' + 1
    BY <1>2, <2>1
  <2>3. Cardinality(semHas') = Cardinality(semHas) + 1 /\ Cardinality(semHas) \in Nat
    BY <1>1, <2>1, FS_Subset, FS_AddElement, FS_CardinalityType
  <2>4. Serves(semWait', Procs, permits')
    BY <1>1, <2>1, <2>2, ServesFewer
  <2>5. permits' + Cardinality(semHas') = Permits
    BY <2>1, <2>2, <2>3
  <2> QED BY <1>1, <2>1, <2>2, <2>4, <2>5
<1>3. CASE permits = 0
  <2>1. /\ semQueue' = Register(semQueue, p) /\ semWait' = Parks(semWait, p)
        /\ semMode' = [semMode EXCEPT ![p] = m]
        /\ permits' = permits /\ semHas' = semHas
    BY <1>3, SemQueues, SemWaits DEF Sem!Acquire
  <2>2. p \notin Range(semQueue)
    BY <1>1
  <2>3. semQueue' = Register(Unlink(semQueue, p), p)
    BY <2>1, <2>2, UnlinkNobody DEF Lined
  <2>4. /\ semWait' \in [Procs -> WaitStates]
        /\ Lined(semWait', semQueue', Procs) /\ Serves(semWait', Procs, permits')
    BY <1>1, <1>3, <2>1, <2>3, ParkedServes
  <2>5. semWait' = [x \in Procs |-> IF x = p THEN "parked" ELSE semWait[x]]
    BY <2>1 DEF Parks
  <2>6. Range(semQueue') = Range(semQueue) \cup {p}
    BY <2>1, AppendRange DEF Register, Lined
  <2>7. /\ \A x \in Range(semQueue') : semWait'[x] # "none"
        /\ \A x \in semHas' : semWait'[x] = "none"
    BY <1>1, <2>1, <2>5, <2>6, QueuedAre
  <2>8. /\ semMode' \in [Procs -> Sem!Modes]
        /\ \A x \in Procs : semMode'[x] = "none" <=> semWait'[x] = "none"
    BY <2>1, <2>5
  <2> QED BY <2>1, <2>4, <2>7, <2>8
<1> QED BY <1>2, <1>3 DEF Sem!Acquire

\* A waiter whose wait is over leaves, and takes a permit with it or none.
LEMMA SemLeaves ==
  ASSUME SemInv, NEW p \in Procs, semWait[p] \notin {"none", "parked"}, Sem!Leave(p),
         semQueue' = Unlink(semQueue, p),
         \/ permits > 0 /\ permits' = permits - 1 /\ semHas' = semHas \cup {p}
         \/ permits' = permits /\ semHas' = semHas /\ (permits = 0 \/ semWait[p] # "notify")
  PROVE  SemInv'
<1> USE DEF SemInv
<1>1. p \notin semHas /\ IsFiniteSet(Procs)
  BY MonitorsAssumption
<1>2. semWait' = Over(semWait, p) /\ semMode' = [semMode EXCEPT ![p] = "none"]
  BY SemWaits DEF Sem!Leave
<1>3. /\ semWait' \in [Procs -> WaitStates]
      /\ Lined(semWait', semQueue', Procs)
      /\ \A n \in Nat : Serves(semWait, Procs, n + 1) => Serves(semWait', Procs, n)
      /\ \A n \in Nat : Serves(semWait, Procs, n) /\ semWait[p] # "notify" => Serves(semWait', Procs, n)
      /\ Serves(semWait', Procs, 0)
  BY <1>1, <1>2, LeaverServes
<1>4. semWait' = [x \in Procs |-> IF x = p THEN "none" ELSE semWait[x]]
  BY <1>2 DEF Over
<1>5. Range(semQueue') = Range(semQueue) \ {p}
  BY UnlinkRange DEF Lined
<1>6. /\ \A x \in Range(semQueue') : semWait'[x] # "none"
      /\ \A x \in Procs : semMode'[x] = "none" <=> semWait'[x] = "none"
      /\ semMode' \in [Procs -> Sem!Modes]
  <2> QED BY <1>2, <1>4, <1>5, QueuedAre DEF Sem!Modes
<1>7. CASE permits > 0 /\ permits' = permits - 1 /\ semHas' = semHas \cup {p}
  <2>1. permits' \in Nat /\ permits = permits' + 1
    BY <1>7
  <2>2. Cardinality(semHas') = Cardinality(semHas) + 1 /\ Cardinality(semHas) \in Nat
    BY <1>1, <1>7, FS_Subset, FS_AddElement, FS_CardinalityType
  <2>3. Serves(semWait', Procs, permits')
    BY <1>3, <2>1
  <2>4. permits' + Cardinality(semHas') = Permits
    BY <2>1, <2>2
  <2>5. \A x \in semHas' : semWait'[x] = "none"
    BY <1>4, <1>7
  <2> QED BY <1>3, <1>6, <1>7, <2>1, <2>3, <2>4, <2>5
<1>8. CASE permits' = permits /\ semHas' = semHas /\ (permits = 0 \/ semWait[p] # "notify")
  <2>1. Serves(semWait', Procs, permits')
    BY <1>3, <1>8
  <2>2. \A x \in semHas' : semWait'[x] = "none"
    BY <1>4, <1>8
  <2> QED BY <1>3, <1>6, <1>8, <2>1, <2>2
<1> QED BY <1>7, <1>8

\* A waiter that has the mutex again takes, waits or gives up.
LEMMA SemResume ==
  ASSUME SemInv, NEW p \in Procs, Sem!Resume(p)
  PROVE  SemInv'
<1>1. semWait[p] \in {"notify", "timeout"}
  BY DEF Sem!Resume
<1>2. CASE Sem!Take(p) /\ semQueue' = Sem!Unlink(semQueue, p)
  BY <1>1, <1>2, SemQueues, SemLeaves DEF Sem!Take
<1>3. CASE /\ permits = 0 /\ semWait[p] = "notify"
           /\ semQueue' = Sem!Register(Sem!Unlink(semQueue, p), p)
           /\ semWait' = Sem!Parks(semWait, p)
           /\ UNCHANGED <<permits, semMode, semHas>>
  <2> USE DEF SemInv
  <2>1. semQueue' = Register(Unlink(semQueue, p), p) /\ semWait' = Parks(semWait, p)
    BY <1>3, SemQueues, SemWaits
  <2>2. /\ semWait' \in [Procs -> WaitStates]
        /\ Lined(semWait', semQueue', Procs) /\ Serves(semWait', Procs, permits')
    BY <1>3, <2>1, ParkedServes, MonitorsAssumption
  <2>3. semWait' = [x \in Procs |-> IF x = p THEN "parked" ELSE semWait[x]]
    BY <2>1 DEF Parks
  <2>4. Range(semQueue') = Range(semQueue) \cup {p}
    <3>1. Unlink(semQueue, p) \in Seq(Procs) /\ Range(Unlink(semQueue, p)) = Range(semQueue) \ {p}
      BY UnlinkKeeps, UnlinkRange DEF Lined
    <3> QED BY <2>1, <3>1, AppendRange DEF Register
  <2>5. Range(semQueue) \subseteq Procs
    BY QueuedAre
  <2> QED BY <1>3, <2>2, <2>3, <2>4, <2>5
<1>4. CASE /\ permits = 0 /\ semMode[p] = "timed"
           /\ semQueue' = Sem!Unlink(semQueue, p)
           /\ Sem!Leave(p)
           /\ UNCHANGED <<permits, semHas>>
  BY <1>1, <1>4, SemQueues, SemLeaves
<1> QED BY <1>2, <1>3, <1>4 DEF Sem!Resume

\* A release wakes one more.
LEMMA SemRelease ==
  ASSUME SemInv, NEW p \in Procs, Sem!Release(p)
  PROVE  SemInv'
<1> USE DEF SemInv
<1>1. /\ semWait' = Woken(semQueue, semWait, 1) /\ semQueue' = Left(semQueue, semWait, 1)
      /\ p \in semHas /\ permits' = permits + 1 /\ semHas' = semHas \ {p} /\ semMode' = semMode
  BY SemNotifies DEF Sem!Release
<1>2. IsFiniteSet(Procs)
  BY MonitorsAssumption
<1>3. /\ semWait' \in [Procs -> WaitStates]
      /\ Lined(semWait', semQueue', Procs) /\ Serves(semWait', Procs, permits')
      /\ \A x \in Procs : semWait'[x] = semWait[x] \/ (semWait[x] = "parked" /\ semWait'[x] = "notify")
  <2>1. 1 \in Nat
    OBVIOUS
  <2> QED BY <1>1, <1>2, <2>1, WokenServes
<1>4. Range(semQueue') \subseteq Range(semQueue) /\ Range(semQueue) \subseteq Procs
  <2>1. IsInjective(semQueue) /\ semQueue \in Seq(Procs) /\ 1 \in Nat
    BY DEF Lined
  <2>2. Range(Left(semQueue, semWait, 1)) \subseteq Range(semQueue)
    BY <2>1, NotifySome
  <2> QED BY <1>1, <2>2, QueuedAre
<1>5. Cardinality(semHas') = Cardinality(semHas) - 1 /\ Cardinality(semHas) \in Nat
  BY <1>1, <1>2, FS_Subset, FS_RemoveElement, FS_CardinalityType
<1>6. /\ \A x \in Range(semQueue') : semWait'[x] # "none"
      /\ \A x \in Procs : semMode'[x] = "none" <=> semWait'[x] = "none"
      /\ \A x \in semHas' : semWait'[x] = "none"
  BY <1>1, <1>3, <1>4
<1>7. permits' \in Nat /\ permits' + Cardinality(semHas') = Permits
  BY <1>1, <1>5
<1> QED BY <1>1, <1>3, <1>6, <1>7

\* A deadline or a cancellation wins a wait.
LEMMA SemWins ==
  ASSUME SemInv, NEW p \in Procs, NEW r \in {"cancel", "timeout"}, semWait[p] = "parked",
         semWait' = Sem!Wins(semWait, p, r), UNCHANGED <<permits, semQueue, semMode, semHas>>
  PROVE  SemInv'
<1> USE DEF SemInv
<1>1. semWait' = Wins(semWait, p, r)
  BY SemWaits
<1>2. /\ semWait' \in [Procs -> WaitStates]
      /\ Lined(semWait', semQueue', Procs) /\ Serves(semWait', Procs, permits')
  BY <1>1, WonServes
<1>3. semWait' = [x \in Procs |-> IF x = p THEN r ELSE semWait[x]]
  BY <1>1 DEF Wins
<1> QED BY <1>2, <1>3, QueuedAre

\* Every step of the semaphore keeps it.
LEMMA SemKept ==
  ASSUME SemInv, Sem!Next \/ UNCHANGED semVars
  PROVE  SemInv'
<1>1. ASSUME NEW p \in Procs, NEW m \in Sem!Modes \ {"none"}, Sem!Acquire(p, m) PROVE SemInv'
  BY <1>1, SemAcquire
<1>2. ASSUME NEW p \in Procs, Sem!Resume(p) PROVE SemInv'
  BY <1>2, SemResume
<1>3. ASSUME NEW p \in Procs, Sem!Cancelled(p) PROVE SemInv'
  BY <1>3, SemLeaves, SemQueues DEF Sem!Cancelled
<1>4. ASSUME NEW p \in Procs, Sem!Release(p) PROVE SemInv'
  BY <1>4, SemRelease
<1>5. ASSUME NEW p \in Procs, Sem!CancelWake(p) PROVE SemInv'
  BY <1>5, SemWins DEF Sem!CancelWake
<1>6. ASSUME NEW p \in Procs, Sem!Expire(p) PROVE SemInv'
  BY <1>6, SemWins DEF Sem!Expire
<1>7. CASE UNCHANGED semVars
  BY <1>7 DEF semVars, SemInv, Lined, Serves, WithReason
<1> QED BY <1>1, <1>2, <1>3, <1>4, <1>5, <1>6, <1>7 DEF Sem!Next

\* What it says of permits and of sleepers.
LEMMA SemShows ==
  ASSUME SemInv
  PROVE  Sem!PermitsConserved /\ Sem!NobodyStranded
BY SemCounts, SemWaits DEF SemInv, Serves, Sem!PermitsConserved, Sem!NobodyStranded

-----------------------------------------------------------------------------
(* The condvar of the barrier *)

\* Its sets are counted as any.
LEMMA BarCounts ==
  ASSUME NEW S PROVE Bar!IsFiniteSet(S) = IsFiniteSet(S) /\ Bar!Cardinality(S) = Cardinality(S)
BY DEF Bar!Cardinality, Cardinality, Bar!IsFiniteSet, IsFiniteSet

\* Its notify pops and wakes as that of any condvar.
LEMMA BarNotifies ==
  ASSUME NEW q, NEW w
  PROVE  Bar!WokenAll(q, w) = WokenAll(q, w)
<1> DEFINE m == Len(q) + 1
           c(k) == Bar!Cardinality(Bar!Awaiting(q, w, k))
           d(k) == Cardinality(Awaiting(q, w, k))
           E == {k \in 0 .. Len(q) : c(k) = m}
           F == {k \in 0 .. Len(q) : d(k) = m}
<1>1. Bar!Popped(q, w, m) = IF E = {} THEN Len(q) ELSE CHOOSE k \in E : \A j \in E : k <= j
  BY DEF Bar!Popped
<1>2. Popped(q, w, m) = IF F = {} THEN Len(q) ELSE CHOOSE k \in F : \A j \in F : k <= j
  BY DEF Popped
<1>3. \A k : Bar!Awaiting(q, w, k) = Awaiting(q, w, k)
  BY DEF Bar!Awaiting, Awaiting
<1> HIDE DEF m
<1>4. Bar!Popped(q, w, m) = Popped(q, w, m)
  <2>1. \A k : c(k) = d(k)
    BY <1>3, BarCounts
  <2> HIDE DEF c, d
  <2>2. E = F
    BY <2>1
  <2> HIDE DEF E, F
  <2> QED BY <1>1, <1>2, <2>2
<1>5. Bar!Woken(q, w, m) = Woken(q, w, m)
  BY <1>3, <1>4 DEF Bar!Woken, Woken
<1> USE DEF m
<1> QED BY <1>5 DEF Bar!WokenAll, WokenAll

\* And so do its waiters come and go,
LEMMA BarQueues ==
  ASSUME NEW q, NEW p
  PROVE  Bar!Register(q, p) = Register(q, p) /\ Bar!Unlink(q, p) = Unlink(q, p)
BY DEF Bar!Register, Register, Bar!Unlink, Unlink, Bar!Contains, Contains, Bar!RemoveAt, RemoveAt

\* and their waits begin and end.
LEMMA BarWaits ==
  ASSUME NEW w, NEW p, NEW r, NEW S
  PROVE  /\ Bar!Over(w, p) = Over(w, p) /\ Bar!Parks(w, p) = Parks(w, p)
         /\ Bar!Wins(w, p, r) = Wins(w, p, r) /\ Bar!WithReason(w, S, r) = WithReason(w, S, r)
BY DEF Bar!Over, Over, Bar!Parks, Parks, Bar!Wins, Wins, Bar!WithReason, WithReason

-----------------------------------------------------------------------------
(* The barrier *)

\* Who waits for the generation that is running.
Present == {p \in Procs : barGen[p] = generation}

\* Whoever waits remembers a generation that has begun, and is queued while he is parked; the
\* generations that are over completed, as long as nobody resets.
BarTyped ==
  /\ arrived \in Nat /\ generation \in 0 .. MaxTurns /\ resets \in Nat
  /\ barQueue \in Seq(Procs)
  /\ barWait \in [Procs -> WaitStates]
  /\ barGen \in [Procs -> 0 .. MaxTurns + 1]
  /\ WithReason(barWait, Procs, "parked") \subseteq Range(barQueue)

BarHistory ==
  /\ \A p \in Procs : barWait[p] = "none" <=> barGen[p] = MaxTurns + 1
  /\ \A p \in Procs : barGen[p] # MaxTurns + 1 => barGen[p] <= generation
  /\ resets = 0 => 0 .. generation - 1 \subseteq completed

BarAsleep == \A p \in Procs : barWait[p] = "parked" => barGen[p] = generation /\ ~broken

BarCounted == ~broken => arrived = Cardinality(Present)

BarTold == resets = 0 => \A t \in told : t.result => t.gen \in completed

BarInv == BarTyped /\ BarHistory /\ BarAsleep /\ BarCounted /\ BarTold

\* Nobody is there at first.
LEMMA BarStarts == Bar!Init => BarInv
<1> SUFFICES ASSUME Bar!Init PROVE BarInv
  OBVIOUS
<1> USE DEF Bar!Init, Bar!Outside
<1>1. MaxTurns \in Nat
  BY MonitorsAssumption
<1>2. BarTyped
  <2>1. <<>> \in Seq(Procs) /\ WithReason(barWait, Procs, "parked") = {}
    BY DEF WithReason
  <2>2. barWait \in [Procs -> WaitStates] /\ barGen \in [Procs -> 0 .. MaxTurns + 1]
    BY <1>1 DEF WaitStates
  <2> QED BY <1>1, <2>1, <2>2 DEF BarTyped
<1>3. BarHistory /\ BarAsleep /\ BarTold
  BY <1>1 DEF BarHistory, BarAsleep, BarTold
<1>4. Present = {}
  BY <1>1 DEF Present
<1>5. BarCounted
  BY <1>4, FS_EmptySet DEF BarCounted
<1> QED BY <1>2, <1>3, <1>5 DEF BarInv

\* A notify to everybody leaves nobody parked, and takes nobody out of his wait.
LEMMA BarNotified ==
  ASSUME NEW w \in [Procs -> WaitStates], NEW q \in Seq(Procs),
         WithReason(w, Procs, "parked") \subseteq Range(q),
         barWait' = WokenAll(q, w), barQueue' = <<>>
  PROVE  /\ barWait' \in [Procs -> WaitStates] /\ barQueue' \in Seq(Procs)
         /\ WithReason(barWait', Procs, "parked") = {}
         /\ \A x \in Procs : barWait'[x] # "parked" /\ (barWait'[x] = "none" <=> w[x] = "none")
<1>1. barWait' = [x \in Procs |-> IF x \in Range(q) /\ w[x] = "parked" THEN "notify" ELSE w[x]]
  BY WokenAllIs
<1>2. \A x \in Procs : w[x] = "parked" => x \in Range(q)
  BY DEF WithReason
<1> QED BY <1>1, <1>2 DEF WithReason, WaitStates

\* A generation that begins has nobody present yet.
LEMMA NobodyPresent ==
  ASSUME BarInv, generation < MaxTurns, generation' = generation + 1, barGen' = barGen
  PROVE  Present' = {} /\ Cardinality(Present') = 0
<1>1. \A p \in Procs : barGen[p] # generation + 1
  BY MonitorsAssumption DEF BarInv, BarTyped, BarHistory
<1> QED BY <1>1, FS_EmptySet DEF Present

\* The last arrival completes the generation.
LEMMA BarCompletes ==
  ASSUME BarInv, NEW p \in Procs, Bar!Arrive(p), generation' = generation + 1
  PROVE  BarInv'
<1> USE DEF BarInv, BarTyped
<1>1. /\ generation < MaxTurns /\ arrived' = 0 /\ completed' = completed \cup {generation}
      /\ told' = told \cup {[who |-> p, gen |-> generation, result |-> TRUE]}
      /\ barWait' = WokenAll(barQueue, barWait) /\ barQueue' = <<>>
      /\ barGen' = barGen /\ broken' = broken /\ resets' = resets /\ broken = FALSE
  BY BarNotifies DEF Bar!Arrive, Bar!NotifyAll, Bar!Tell
<1>2. /\ barWait' \in [Procs -> WaitStates] /\ barQueue' \in Seq(Procs)
      /\ WithReason(barWait', Procs, "parked") = {}
      /\ \A x \in Procs : barWait'[x] # "parked" /\ (barWait'[x] = "none" <=> barWait[x] = "none")
  BY <1>1, BarNotified
<1>3. BarTyped'
  <2>1. arrived' \in Nat /\ generation' \in 0 .. MaxTurns /\ resets' \in Nat
    BY <1>1, MonitorsAssumption
  <2> QED BY <1>1, <1>2, <2>1
<1>4. BarHistory' /\ BarAsleep'
  BY <1>1, <1>2, MonitorsAssumption DEF BarHistory, BarAsleep
<1>5. BarCounted'
  BY <1>1, NobodyPresent DEF BarCounted
<1>6. BarTold'
  BY <1>1 DEF BarTold
<1> QED BY <1>3, <1>4, <1>5, <1>6

\* Another arrival waits with those who are present.
LEMMA BarArrives ==
  ASSUME BarInv, NEW p \in Procs, Bar!Arrive(p), generation' = generation
  PROVE  BarInv'
<1> USE DEF BarInv, BarTyped
<1>1. /\ barGen[p] = MaxTurns + 1 /\ ~broken /\ arrived' = arrived + 1
      /\ barGen' = [barGen EXCEPT ![p] = generation]
      /\ barQueue' = Append(barQueue, p) /\ barWait' = [barWait EXCEPT ![p] = "parked"]
      /\ completed' = completed /\ told' = told /\ broken' = broken /\ resets' = resets
  <2>1. generation' # generation + 1
    OBVIOUS
  <2> QED BY <2>1 DEF Bar!Arrive, Bar!Outside, Bar!Register, Bar!Parks
<1>2. BarTyped'
  <2>1. barQueue' \in Seq(Procs) /\ Range(barQueue') = Range(barQueue) \cup {p}
    BY <1>1, AppendProperties, AppendRange
  <2>2. WithReason(barWait', Procs, "parked") \subseteq WithReason(barWait, Procs, "parked") \cup {p}
    BY <1>1 DEF WithReason
  <2>3. barGen' \in [Procs -> 0 .. MaxTurns + 1] /\ barWait' \in [Procs -> WaitStates]
    BY <1>1, MonitorsAssumption DEF WaitStates
  <2>4. WithReason(barWait', Procs, "parked") \subseteq Range(barQueue')
    BY <2>1, <2>2
  <2>5. arrived' \in Nat /\ generation' \in 0 .. MaxTurns /\ resets' \in Nat
    BY <1>1
  <2> QED BY <2>1, <2>3, <2>4, <2>5
<1>3. BarHistory' /\ BarAsleep' /\ BarTold'
  BY <1>1, MonitorsAssumption DEF BarHistory, BarAsleep, BarTold
<1>4. BarCounted'
  <2>1. p \notin Present /\ Present' = Present \cup {p}
    BY <1>1, MonitorsAssumption DEF Present
  <2>2. IsFiniteSet(Present)
    BY FS_Subset, MonitorsAssumption DEF Present
  <2>3. Cardinality(Present') = Cardinality(Present) + 1
    BY <2>1, <2>2, FS_AddElement
  <2> QED BY <1>1, <2>3 DEF BarCounted
<1> QED BY <1>2, <1>3, <1>4

\* A waiter that leaves a generation that is over, or broken, is not counted in this one.
LEMMA BarLeaves ==
  ASSUME BarInv, NEW p \in Procs, barGen' = [barGen EXCEPT ![p] = MaxTurns + 1],
         UNCHANGED <<arrived, generation>>, broken \/ barGen[p] # generation, broken' = broken
  PROVE  BarCounted'
<1>1. CASE broken
  BY <1>1 DEF BarCounted
<1>2. CASE ~broken
  <2>1. Present' = Present
    BY <1>2, MonitorsAssumption DEF Present, BarInv, BarTyped
  <2> QED BY <2>1 DEF BarInv, BarCounted
<1> QED BY <1>1, <1>2

\* A notified waiter looks at its generation, and waits on if it is neither over nor broken.
LEMMA BarResume ==
  ASSUME BarInv, NEW p \in Procs, Bar!Resume(p)
  PROVE  BarInv'
<1> USE DEF BarInv, BarTyped
<1>1. /\ barWait[p] = "notify" /\ barGen[p] # MaxTurns + 1
      /\ barGen[p] \in 0 .. MaxTurns /\ barGen[p] <= generation
      /\ UNCHANGED <<arrived, generation, broken, resets, completed>>
  BY MonitorsAssumption DEF Bar!Resume, BarHistory
<1>2. CASE Bar!Released(p)
  <2>1. /\ told' = told \cup {[who |-> p, gen |-> barGen[p], result |-> ~broken]}
        /\ barGen' = [barGen EXCEPT ![p] = MaxTurns + 1]
        /\ barWait' = [barWait EXCEPT ![p] = "none"]
        /\ barQueue' = Unlink(barQueue, p)
    BY <1>2, BarQueues DEF Bar!Resume, Bar!Tell, Bar!Verdict, Bar!Outside, Bar!Over
  <2>2. BarTyped'
    <3>1. /\ barQueue' \in Seq(Procs) /\ Range(barQueue) \ {p} \subseteq Range(barQueue')
      BY <2>1, UnlinkKeeps
    <3>2. WithReason(barWait', Procs, "parked") \subseteq WithReason(barWait, Procs, "parked") \ {p}
      BY <2>1 DEF WithReason
    <3>3. barGen' \in [Procs -> 0 .. MaxTurns + 1] /\ barWait' \in [Procs -> WaitStates]
      BY <2>1, MonitorsAssumption DEF WaitStates
    <3>4. WithReason(barWait', Procs, "parked") \subseteq Range(barQueue')
      BY <3>1, <3>2
    <3> QED BY <1>1, <3>1, <3>3, <3>4
  <2>3. BarHistory' /\ BarAsleep'
    BY <1>1, <2>1, MonitorsAssumption DEF BarHistory, BarAsleep
  <2>4. BarCounted'
    BY <1>1, <1>2, <2>1, BarLeaves DEF Bar!Released
  <2>5. BarTold'
    <3> SUFFICES ASSUME resets = 0, NEW t \in told', t.result PROVE t.gen \in completed
      BY <1>1 DEF BarTold
    <3>1. CASE t \in told
      BY <3>1 DEF BarTold
    <3>2. CASE t = [who |-> p, gen |-> barGen[p], result |-> ~broken]
      <4>1. t.gen = barGen[p] /\ ~broken
        BY <3>2
      <4>2. barGen[p] # generation
        BY <1>2, <4>1 DEF Bar!Released
      <4>3. barGen[p] \in 0 .. generation - 1
        BY <1>1, <4>2, MonitorsAssumption
      <4> QED BY <4>1, <4>3 DEF BarHistory
    <3> QED BY <2>1, <3>1, <3>2
  <2> QED BY <2>2, <2>3, <2>4, <2>5
<1>3. CASE ~Bar!Released(p)
  <2>1. /\ barQueue' = Append(barQueue, p) /\ barWait' = [barWait EXCEPT ![p] = "parked"]
        /\ barGen' = barGen /\ told' = told
    BY <1>3 DEF Bar!Resume, Bar!Register, Bar!Parks
  <2>2. BarTyped'
    <3>1. barQueue' \in Seq(Procs) /\ Range(barQueue') = Range(barQueue) \cup {p}
      BY <2>1, AppendProperties, AppendRange
    <3>2. WithReason(barWait', Procs, "parked") \subseteq WithReason(barWait, Procs, "parked") \cup {p}
      BY <2>1 DEF WithReason
    <3> QED BY <1>1, <2>1, <3>1, <3>2 DEF WaitStates
  <2>3. BarHistory' /\ BarAsleep' /\ BarTold'
    BY <1>1, <1>3, <2>1 DEF BarHistory, BarAsleep, BarTold, Bar!Released
  <2>4. BarCounted'
    BY <1>1, <2>1 DEF BarCounted, Present
  <2> QED BY <2>2, <2>3, <2>4
<1> QED BY <1>2, <1>3

\* A cancelled participant breaks the barrier and leaves nobody parked.
LEMMA BarCancelled ==
  ASSUME BarInv, NEW p \in Procs, Bar!Cancelled(p)
  PROVE  BarInv'
<1> USE DEF BarInv, BarTyped
<1> DEFINE w == [barWait EXCEPT ![p] = "none"]
           q == Unlink(barQueue, p)
<1>1. /\ barWait[p] = "cancel" /\ broken' = TRUE
      /\ barWait' = WokenAll(q, w) /\ barQueue' = <<>>
      /\ barGen' = [barGen EXCEPT ![p] = MaxTurns + 1]
      /\ UNCHANGED <<arrived, generation, resets, completed, told>>
  BY BarNotifies, BarQueues DEF Bar!Cancelled, Bar!Freed, Bar!Outside, Bar!Over
<1>2. w \in [Procs -> WaitStates] /\ w = [x \in Procs |-> IF x = p THEN "none" ELSE barWait[x]]
  BY DEF WaitStates
<1>3. q \in Seq(Procs) /\ Range(barQueue) \ {p} \subseteq Range(q)
  BY UnlinkKeeps
<1> HIDE DEF w, q
<1>4. WithReason(w, Procs, "parked") \subseteq Range(q)
  BY <1>2, <1>3 DEF WithReason
<1>5. /\ barWait' \in [Procs -> WaitStates] /\ barQueue' \in Seq(Procs)
      /\ WithReason(barWait', Procs, "parked") = {}
      /\ \A x \in Procs : barWait'[x] # "parked" /\ (barWait'[x] = "none" <=> w[x] = "none")
  BY <1>1, <1>2, <1>3, <1>4, BarNotified
<1>6. BarTyped'
  <2>1. barGen' \in [Procs -> 0 .. MaxTurns + 1]
    BY <1>1, MonitorsAssumption
  <2> QED BY <1>1, <1>5, <2>1
<1>7. BarHistory' /\ BarAsleep' /\ BarTold'
  BY <1>1, <1>2, <1>5, MonitorsAssumption DEF BarHistory, BarAsleep, BarTold
<1>8. BarCounted'
  BY <1>1 DEF BarCounted
<1> QED BY <1>6, <1>7, <1>8

\* A reset begins another generation, and leaves nobody parked.
LEMMA BarReset ==
  ASSUME BarInv, Bar!Reset
  PROVE  BarInv'
<1> USE DEF BarInv, BarTyped
<1>1. /\ generation < MaxTurns /\ resets' = resets + 1 /\ arrived' = 0
      /\ generation' = generation + 1 /\ broken' = FALSE
      /\ barWait' = WokenAll(barQueue, barWait) /\ barQueue' = <<>>
      /\ barGen' = barGen
  BY BarNotifies DEF Bar!Reset, Bar!NotifyAll, Bar!ResetArrived
<1>2. /\ barWait' \in [Procs -> WaitStates] /\ barQueue' \in Seq(Procs)
      /\ WithReason(barWait', Procs, "parked") = {}
      /\ \A x \in Procs : barWait'[x] # "parked" /\ (barWait'[x] = "none" <=> barWait[x] = "none")
  BY <1>1, BarNotified
<1>3. BarTyped'
  <2>1. arrived' \in Nat /\ generation' \in 0 .. MaxTurns /\ resets' \in Nat
    BY <1>1, MonitorsAssumption
  <2> QED BY <1>1, <1>2, <2>1
<1>4. BarHistory' /\ BarAsleep' /\ BarTold'
  BY <1>1, <1>2, MonitorsAssumption DEF BarHistory, BarAsleep, BarTold
<1>5. BarCounted'
  BY <1>1, NobodyPresent DEF BarCounted
<1> QED BY <1>3, <1>4, <1>5

\* A cancellation wins a wait.
LEMMA BarCancelWake ==
  ASSUME BarInv, NEW p \in Procs, Bar!CancelWake(p)
  PROVE  BarInv'
<1> USE DEF BarInv, BarTyped
<1>1. /\ barWait[p] = "parked" /\ barWait' = [barWait EXCEPT ![p] = "cancel"]
      /\ UNCHANGED <<arrived, generation, broken, barQueue, barGen, resets, completed, told>>
  BY DEF Bar!CancelWake, Bar!Wins, Bar!history
<1>2. BarTyped'
  <2>1. WithReason(barWait', Procs, "parked") \subseteq WithReason(barWait, Procs, "parked")
    BY <1>1 DEF WithReason
  <2> QED BY <1>1, <2>1 DEF WaitStates
<1>3. BarHistory' /\ BarAsleep' /\ BarTold'
  BY <1>1 DEF BarHistory, BarAsleep, BarTold
<1>4. BarCounted'
  BY <1>1 DEF BarCounted, Present
<1> QED BY <1>2, <1>3, <1>4

\* Every step of the barrier keeps it.
LEMMA BarKept ==
  ASSUME BarInv, Bar!Next \/ UNCHANGED barVars
  PROVE  BarInv'
<1>1. ASSUME NEW p \in Procs, Bar!Arrive(p) PROVE BarInv'
  BY <1>1, BarCompletes, BarArrives DEF Bar!Arrive
<1>2. ASSUME NEW p \in Procs, Bar!Resume(p) \/ Bar!Cancelled(p) \/ Bar!CancelWake(p) PROVE BarInv'
  BY <1>2, BarResume, BarCancelled, BarCancelWake
<1>3. CASE UNCHANGED barVars
  BY <1>3 DEF barVars, BarInv, BarTyped, BarHistory, BarAsleep, BarCounted, BarTold, Present, WithReason
<1> QED BY <1>1, <1>2, <1>3, BarReset DEF Bar!Next

\* What it says of generations and of sleepers.
LEMMA BarShows ==
  ASSUME BarInv
  PROVE  Bar!CompletesWhole /\ Bar!NobodyLeftBehind
BY BarCounts
   DEF BarInv, BarAsleep, BarCounted, BarTold, Present,
       Bar!CompletesWhole, Bar!ArrivedArePresent, Bar!TrueMeansCompleted, Bar!NobodyLeftBehind

-----------------------------------------------------------------------------
(* The condvar of the reader-writer lock *)

\* Its sets are counted as any.
LEMMA RwCounts ==
  ASSUME NEW S PROVE Rw!IsFiniteSet(S) = IsFiniteSet(S) /\ Rw!Cardinality(S) = Cardinality(S)
BY DEF Rw!Cardinality, Cardinality, Rw!IsFiniteSet, IsFiniteSet

\* Its notify pops and wakes as that of any condvar.
LEMMA RwNotifies ==
  ASSUME NEW q, NEW w
  PROVE  Rw!WokenAll(q, w) = WokenAll(q, w)
<1> DEFINE m == Len(q) + 1
           c(k) == Rw!Cardinality(Rw!Awaiting(q, w, k))
           d(k) == Cardinality(Awaiting(q, w, k))
           E == {k \in 0 .. Len(q) : c(k) = m}
           F == {k \in 0 .. Len(q) : d(k) = m}
<1>1. Rw!Popped(q, w, m) = IF E = {} THEN Len(q) ELSE CHOOSE k \in E : \A j \in E : k <= j
  BY DEF Rw!Popped
<1>2. Popped(q, w, m) = IF F = {} THEN Len(q) ELSE CHOOSE k \in F : \A j \in F : k <= j
  BY DEF Popped
<1>3. \A k : Rw!Awaiting(q, w, k) = Awaiting(q, w, k)
  BY DEF Rw!Awaiting, Awaiting
<1> HIDE DEF m
<1>4. Rw!Popped(q, w, m) = Popped(q, w, m)
  <2>1. \A k : c(k) = d(k)
    BY <1>3, RwCounts
  <2> HIDE DEF c, d
  <2>2. E = F
    BY <2>1
  <2> HIDE DEF E, F
  <2> QED BY <1>1, <1>2, <2>2
<1>5. Rw!Woken(q, w, m) = Woken(q, w, m)
  BY <1>3, <1>4 DEF Rw!Woken, Woken
<1> USE DEF m
<1> QED BY <1>5 DEF Rw!WokenAll, WokenAll

\* And so do its waiters come and go,
LEMMA RwQueues ==
  ASSUME NEW q, NEW p
  PROVE  Rw!Register(q, p) = Register(q, p) /\ Rw!Unlink(q, p) = Unlink(q, p)
BY DEF Rw!Register, Register, Rw!Unlink, Unlink, Rw!Contains, Contains, Rw!RemoveAt, RemoveAt

\* and their waits begin and end.
LEMMA RwWaits ==
  ASSUME NEW w, NEW p, NEW r, NEW S
  PROVE  /\ Rw!Over(w, p) = Over(w, p) /\ Rw!Parks(w, p) = Parks(w, p)
         /\ Rw!Wins(w, p, r) = Wins(w, p, r) /\ Rw!WithReason(w, S, r) = WithReason(w, S, r)
BY DEF Rw!Over, Over, Rw!Parks, Parks, Rw!Wins, Wins, Rw!WithReason, WithReason

-----------------------------------------------------------------------------
(* The reader-writer lock *)

RwTyped ==
  /\ readers \in Nat /\ writer \in BOOLEAN /\ waiting \in Nat
  /\ rwQueue \in Seq(Procs)
  /\ rwWait \in [Procs -> WaitStates] /\ rwPc \in [Procs -> Rw!PCs]

\* Who waits is known by both its states; who holds a guard asked for that kind; who is parked
\* has a node on the queue.
RwPlaced ==
  \A p \in Procs :
    /\ rwWait[p] # "none" <=> rwPc[p] = "wants"
    /\ rwPc[p] = "reading" => p \in Rw!Readers
    /\ rwPc[p] = "writing" => p \in Writers
    /\ rwWait[p] = "parked" => p \in Range(rwQueue)

RwWaiting == Rw!In("wants") \cap Writers

\* Who holds the lock excludes whom he must, and the counts say who holds it and who waits.
RwExclusion ==
  /\ readers = Cardinality(Rw!In("reading"))
  /\ writer <=> Rw!In("writing") # {}
  /\ Cardinality(Rw!In("writing")) <= 1
  /\ ~(Rw!In("writing") # {} /\ Rw!In("reading") # {})
  /\ waiting = Cardinality(RwWaiting)

RwInv == RwTyped /\ RwPlaced /\ RwExclusion /\ Rw!NobodyStranded

\* A process moves: one set gains it, the others lose it.
LEMMA RwMoves ==
  ASSUME RwTyped, NEW p \in Procs, NEW l \in Rw!PCs, Rw!Goto(p, l), NEW k \in Rw!PCs
  PROVE  Rw!In(k)' = IF k = l THEN Rw!In(k) \cup {p} ELSE Rw!In(k) \ {p}
BY DEF RwTyped, Rw!Goto, Rw!In

\* And their numbers change by one.
LEMMA RwNumbers ==
  ASSUME NEW S \in SUBSET Procs, NEW p
  PROVE  /\ Cardinality(S) \in Nat
         /\ p \in S => Cardinality(S) > 0
         /\ Cardinality(S \cup {p}) = IF p \in S THEN Cardinality(S) ELSE Cardinality(S) + 1
         /\ Cardinality(S \ {p}) = IF p \in S THEN Cardinality(S) - 1 ELSE Cardinality(S)
<1>1. IsFiniteSet(S)
  BY FS_Subset, MonitorsAssumption
<1>2. p \in S => Cardinality(S) # 0
  BY <1>1, FS_EmptySet
<1> QED BY <1>1, <1>2, FS_CardinalityType, FS_AddElement, FS_RemoveElement

\* A notify to everybody leaves nobody parked.
LEMMA RwNotified ==
  ASSUME RwTyped, RwPlaced
  PROVE  /\ Rw!WokenAll(rwQueue, rwWait) =
              [q \in Procs |-> IF rwWait[q] = "parked" THEN "notify" ELSE rwWait[q]]
         /\ \A p \in Procs : Rw!WokenAll(Rw!Unlink(rwQueue, p), Rw!Over(rwWait, p)) =
              [q \in Procs |-> IF q = p THEN "none"
                               ELSE IF rwWait[q] = "parked" THEN "notify" ELSE rwWait[q]]
<1> USE DEF RwTyped, RwPlaced
<1>1. Rw!WokenAll(rwQueue, rwWait) =
        [q \in Procs |-> IF rwWait[q] = "parked" THEN "notify" ELSE rwWait[q]]
  BY RwNotifies, WokenAllIs
<1>2. ASSUME NEW p \in Procs
      PROVE  Rw!WokenAll(Rw!Unlink(rwQueue, p), Rw!Over(rwWait, p)) =
              [q \in Procs |-> IF q = p THEN "none"
                               ELSE IF rwWait[q] = "parked" THEN "notify" ELSE rwWait[q]]
  <2> DEFINE w == Rw!Over(rwWait, p)
  <2>1. w = [q \in Procs |-> IF q = p THEN "none" ELSE rwWait[q]]
    BY DEF Rw!Over
  <2>2. Rw!Unlink(rwQueue, p) \in Seq(Procs) /\ Range(rwQueue) \ {p} \subseteq Range(Rw!Unlink(rwQueue, p))
    BY RwQueues, UnlinkKeeps
  <2>3. Rw!WokenAll(Rw!Unlink(rwQueue, p), w) =
          [q \in DOMAIN w |->
            IF q \in Range(Rw!Unlink(rwQueue, p)) /\ w[q] = "parked" THEN "notify" ELSE w[q]]
    BY <2>2, RwNotifies, WokenAllIs
  <2> HIDE DEF w
  <2> QED BY <2>1, <2>2, <2>3 DEF w
<1> QED BY <1>1, <1>2

-----------------------------------------------------------------------------
(* Types and places of the lock *)

\* Every step keeps the types, and everybody's place.
LEMMA RwPlaces ==
  ASSUME RwTyped, RwPlaced, RwExclusion, Rw!Next
  PROVE  RwTyped' /\ RwPlaced'
<1> PICK p \in Procs :
      \/ Rw!Read(p) \/ Rw!Write(p) \/ Rw!ResumeRead(p) \/ Rw!ResumeWrite(p)
      \/ Rw!CancelWake(p) \/ Rw!CancelledRead(p) \/ Rw!CancelledWrite(p)
      \/ Rw!UnlockRead(p) \/ Rw!UnlockWrite(p)
  BY DEF Rw!Next
<1> USE DEF RwTyped, RwPlaced, Rw!PCs, WaitStates, Rw!Goto, Rw!Readers
<1>1. /\ Rw!Register(rwQueue, p) \in Seq(Procs)
      /\ Range(Rw!Register(rwQueue, p)) = Range(rwQueue) \cup {p}
  BY AppendRange, AppendProperties DEF Rw!Register
<1>2. /\ Rw!Unlink(rwQueue, p) \in Seq(Procs)
      /\ Range(rwQueue) \ {p} \subseteq Range(Rw!Unlink(rwQueue, p))
  BY RwQueues, UnlinkKeeps
<1>3. <<>> \in Seq(Procs)
  OBVIOUS
<1>4. /\ rwPc[p] = "reading" => readers > 0
      /\ rwPc[p] = "wants" /\ p \in Writers => waiting > 0
  BY RwNumbers DEF Rw!In, RwWaiting, RwExclusion
<1>5. CASE Rw!Read(p)
  BY <1>1, <1>5 DEF Rw!Read, Rw!Parks
<1>6. CASE Rw!Write(p)
  <2>1. CASE Rw!Writable
    BY <1>6, <2>1 DEF Rw!Write
  <2>2. CASE ~Rw!Writable
    BY <1>1, <1>6, <2>2 DEF Rw!Write, Rw!Parks
  <2> QED BY <2>1, <2>2
<1>7. CASE Rw!ResumeRead(p)
  <2>1. CASE Rw!Readable
    BY <1>2, <1>7, <2>1 DEF Rw!ResumeRead, Rw!Over
  <2>2. CASE ~Rw!Readable
    BY <1>1, <1>7, <2>2 DEF Rw!ResumeRead, Rw!Parks
  <2> QED BY <2>1, <2>2
<1>8. CASE Rw!ResumeWrite(p)
  <2>1. CASE Rw!Writable
    BY <1>2, <1>4, <1>8, <2>1 DEF Rw!ResumeWrite, Rw!Over
  <2>2. CASE ~Rw!Writable
    BY <1>1, <1>8, <2>2 DEF Rw!ResumeWrite, Rw!Parks
  <2> QED BY <2>1, <2>2
<1>9. CASE Rw!CancelWake(p)
  BY <1>9 DEF Rw!CancelWake, Rw!Wins
<1>10. CASE Rw!CancelledRead(p)
  BY <1>2, <1>10 DEF Rw!CancelledRead, Rw!Over
<1>11. CASE Rw!CancelledWrite(p)
  <2>1. waiting' \in Nat
    BY <1>4, <1>11 DEF Rw!CancelledWrite, Rw!Uncounted
  <2>2. CASE Rw!GoneQuiet(waiting - 1)
    BY <1>2, <1>11, <2>1, <2>2 DEF Rw!CancelledWrite, Rw!Over
  <2>3. CASE ~Rw!GoneQuiet(waiting - 1)
    BY <1>3, <1>11, <2>1, <2>3, RwNotified DEF Rw!CancelledWrite
  <2> QED BY <2>2, <2>3
<1>12. CASE Rw!UnlockRead(p)
  <2>1. readers' \in Nat
    BY <1>4, <1>12 DEF Rw!UnlockRead
  <2>2. CASE readers = 1
    BY <1>3, <1>12, <2>1, <2>2, RwNotified DEF Rw!UnlockRead, Rw!NotifyAll
  <2>3. CASE readers # 1
    BY <1>12, <2>1, <2>3 DEF Rw!UnlockRead
  <2> QED BY <2>2, <2>3
<1>13. CASE Rw!UnlockWrite(p)
  BY ZenonT(30), <1>3, <1>13, RwNotified DEF Rw!UnlockWrite, Rw!NotifyAll
<1> QED BY <1>5, <1>6, <1>7, <1>8, <1>9, <1>10, <1>11, <1>12, <1>13

-----------------------------------------------------------------------------
(* Exclusion of the lock *)

\* A step that moves nobody, or only between the places that are not counted.
LEMMA RwUncounted ==
  ASSUME RwExclusion, UNCHANGED <<readers, writer, waiting>>,
         Rw!In("reading")' = Rw!In("reading"), Rw!In("writing")' = Rw!In("writing"), RwWaiting' = RwWaiting
  PROVE  RwExclusion'
BY DEF RwExclusion, RwWaiting

\* Every step counts who comes and goes.
LEMMA RwExcludes ==
  ASSUME RwTyped, RwPlaced, RwExclusion, Rw!Next
  PROVE  RwExclusion'
<1> PICK p \in Procs :
      \/ Rw!Read(p) \/ Rw!Write(p) \/ Rw!ResumeRead(p) \/ Rw!ResumeWrite(p)
      \/ Rw!CancelWake(p) \/ Rw!CancelledRead(p) \/ Rw!CancelledWrite(p)
      \/ Rw!UnlockRead(p) \/ Rw!UnlockWrite(p)
  BY DEF Rw!Next
<1> DEFINE reading == Rw!In("reading")  writing == Rw!In("writing")
<1>1. /\ readers = Cardinality(reading)
      /\ writer <=> writing # {}
      /\ Cardinality(writing) <= 1
      /\ ~(writing # {} /\ reading # {})
      /\ waiting = Cardinality(RwWaiting)
  BY DEF RwExclusion, RwWaiting
<1>2. reading \in SUBSET Procs /\ writing \in SUBSET Procs /\ RwWaiting \in SUBSET Procs
  BY DEF Rw!In, RwWaiting
<1>3. /\ p \in reading <=> rwPc[p] = "reading"
      /\ p \in writing <=> rwPc[p] = "writing"
      /\ p \in RwWaiting <=> rwPc[p] = "wants" /\ p \in Writers
      /\ rwWait[p] # "none" => rwPc[p] = "wants"
      /\ p \in Rw!Readers <=> p \notin Writers
  BY DEF Rw!In, RwWaiting, RwPlaced, Rw!Readers
<1>4. ASSUME NEW l \in Rw!PCs, Rw!Goto(p, l)
      PROVE  /\ reading' = IF l = "reading" THEN reading \cup {p} ELSE reading \ {p}
             /\ writing' = IF l = "writing" THEN writing \cup {p} ELSE writing \ {p}
             /\ RwWaiting' = IF l = "wants" /\ p \in Writers THEN RwWaiting \cup {p}
                             ELSE RwWaiting \ {p}
  BY <1>4, RwMoves DEF RwWaiting, Rw!PCs
<1>5. rwPc' = rwPc => reading' = reading /\ writing' = writing /\ RwWaiting' = RwWaiting
  BY DEF Rw!In, RwWaiting
<1> HIDE DEF reading, writing
<1>6. ASSUME Rw!Readable, readers' = readers + 1, Rw!Goto(p, "reading"), UNCHANGED <<writer, waiting>>,
             rwPc[p] \in {"out", "wants"}, p \in Rw!Readers
      PROVE  RwExclusion'
  <2>1. writing = {} /\ p \notin reading /\ p \notin RwWaiting
    BY <1>1, <1>3, <1>6 DEF Rw!Readable
  <2>2. reading' = reading \cup {p} /\ writing' = {} /\ RwWaiting' = RwWaiting
    BY <1>4, <1>6, <2>1 DEF Rw!PCs
  <2>3. Cardinality(reading') = readers + 1
    BY <1>1, <1>2, <2>1, <2>2, RwNumbers
  <2> QED BY <1>1, <1>6, <2>1, <2>2, <2>3 DEF RwExclusion, RwWaiting, reading, writing
<1>7. ASSUME Rw!Writable, writer' = TRUE, Rw!Goto(p, "writing"), UNCHANGED readers,
             rwPc[p] \in {"out", "wants"}, waiting' = Cardinality(RwWaiting \ {p})
      PROVE  RwExclusion'
  <2>1. writing = {} /\ reading = {}
    BY <1>1, <1>2, <1>7, FS_EmptySet, FS_Subset, MonitorsAssumption DEF Rw!Writable
  <2>2. reading' = {} /\ writing' = {p} /\ RwWaiting' = RwWaiting \ {p}
    BY <1>4, <1>7, <2>1 DEF Rw!PCs
  <2>3. Cardinality(writing') = 1
    BY <2>2, FS_Singleton
  <2> QED BY <1>1, <1>7, <2>1, <2>2, <2>3 DEF RwExclusion, RwWaiting, reading, writing
<1>8. CASE Rw!Read(p)
  <2>1. CASE Rw!Readable
    BY <1>6, <1>8, <2>1 DEF Rw!Read
  <2>2. CASE ~Rw!Readable
    <3>1. reading' = reading /\ writing' = writing /\ RwWaiting' = RwWaiting
      BY <1>3, <1>4, <1>8, <2>2 DEF Rw!Read, Rw!PCs
    <3> QED BY <1>8, <2>2, <3>1, RwUncounted DEF Rw!Read, reading, writing
  <2> QED BY <2>1, <2>2
<1>9. CASE Rw!Write(p)
  <2>1. CASE Rw!Writable
    <3>1. RwWaiting \ {p} = RwWaiting
      BY <1>3, <1>9 DEF Rw!Write
    <3> QED BY <1>1, <1>7, <1>9, <2>1, <3>1 DEF Rw!Write
  <2>2. CASE ~Rw!Writable
    <3>1. reading' = reading /\ writing' = writing /\ RwWaiting' = RwWaiting \cup {p}
      BY <1>3, <1>4, <1>9, <2>2 DEF Rw!Write, Rw!PCs
    <3>2. Cardinality(RwWaiting') = waiting + 1
      BY <1>1, <1>2, <1>3, <1>9, <3>1, RwNumbers DEF Rw!Write
    <3> QED BY <1>1, <1>9, <2>2, <3>1, <3>2 DEF Rw!Write, RwExclusion, RwWaiting, reading, writing
  <2> QED BY <2>1, <2>2
<1>10. CASE Rw!ResumeRead(p)
  <2>1. CASE Rw!Readable
    BY <1>3, <1>6, <1>10, <2>1 DEF Rw!ResumeRead
  <2>2. CASE ~Rw!Readable
    BY <1>5, <1>10, <2>2, RwUncounted DEF Rw!ResumeRead, reading, writing
  <2> QED BY <2>1, <2>2
<1>11. CASE Rw!ResumeWrite(p)
  <2>1. CASE Rw!Writable
    <3>1. Cardinality(RwWaiting \ {p}) = waiting - 1
      BY <1>1, <1>2, <1>3, <1>11, RwNumbers DEF Rw!ResumeWrite
    <3> QED BY <1>3, <1>7, <1>11, <2>1, <3>1 DEF Rw!ResumeWrite
  <2>2. CASE ~Rw!Writable
    BY <1>5, <1>11, <2>2, RwUncounted DEF Rw!ResumeWrite, reading, writing
  <2> QED BY <2>1, <2>2
<1>12. CASE Rw!CancelWake(p)
  BY <1>5, <1>12, RwUncounted DEF Rw!CancelWake, reading, writing
<1>13. CASE Rw!CancelledRead(p)
  <2>1. reading' = reading /\ writing' = writing /\ RwWaiting' = RwWaiting
    BY <1>3, <1>4, <1>13 DEF Rw!CancelledRead, Rw!PCs
  <2> QED BY <1>13, <2>1, RwUncounted DEF Rw!CancelledRead, reading, writing
<1>14. CASE Rw!CancelledWrite(p)
  <2>1. reading' = reading /\ writing' = writing /\ RwWaiting' = RwWaiting \ {p}
    BY <1>3, <1>4, <1>14 DEF Rw!CancelledWrite, Rw!PCs
  <2>2. Cardinality(RwWaiting') = waiting - 1
    BY <1>1, <1>2, <1>3, <1>14, <2>1, RwNumbers DEF Rw!CancelledWrite
  <2> QED BY <1>1, <1>14, <2>1, <2>2
          DEF Rw!CancelledWrite, Rw!Uncounted, RwExclusion, RwWaiting, reading, writing
<1>15. CASE Rw!UnlockRead(p)
  <2>1. reading' = reading \ {p} /\ writing' = writing /\ RwWaiting' = RwWaiting
    BY <1>3, <1>4, <1>15 DEF Rw!UnlockRead, Rw!PCs
  <2>2. Cardinality(reading') = readers - 1
    BY <1>1, <1>2, <1>3, <1>15, <2>1, RwNumbers DEF Rw!UnlockRead
  <2> QED BY <1>1, <1>15, <2>1, <2>2 DEF Rw!UnlockRead, RwExclusion, RwWaiting, reading, writing
<1>16. CASE Rw!UnlockWrite(p)
  <2>1. p \in writing /\ reading = {}
    BY <1>1, <1>3, <1>16 DEF Rw!UnlockWrite
  <2>2. writing = {p}
    <3>1. IsFiniteSet(writing)
      BY <1>2, FS_Subset, MonitorsAssumption
    <3>2. Cardinality(writing) = 1
      <4>1. Cardinality(writing) \in Nat /\ Cardinality(writing) > 0
        BY <1>2, <2>1, RwNumbers
      <4>2. Cardinality(writing) <= 1
        BY <1>1
      <4> QED BY <4>1, <4>2
    <3> QED BY <2>1, <3>1, <3>2, FS_Singleton
  <2>3. reading' = {} /\ writing' = {} /\ RwWaiting' = RwWaiting
    BY <1>3, <1>4, <1>16, <2>1, <2>2 DEF Rw!UnlockWrite, Rw!PCs
  <2> QED BY <1>1, <1>16, <2>1, <2>3, FS_EmptySet
          DEF Rw!UnlockWrite, RwExclusion, RwWaiting, reading, writing
<1> QED BY <1>8, <1>9, <1>10, <1>11, <1>12, <1>13, <1>14, <1>15, <1>16

-----------------------------------------------------------------------------
(* Nobody sleeps over the lock without a reason *)

\* Why p may sleep over the lock.
RwReason(p) == IF p \in Writers THEN writer \/ readers > 0 ELSE writer \/ waiting > 0

\* Whoever sleeps after a step slept before, with a reason that is still there, or has one now.
LEMMA RwReasons ==
  ASSUME \A q \in Procs : rwWait'[q] = "parked" => RwReason(q)'
  PROVE  Rw!NobodyStranded'
BY DEF Rw!NobodyStranded, Rw!WithReason, RwReason

\* A reason goes away only with a notify to everybody.
LEMMA RwStranded ==
  ASSUME RwTyped, RwPlaced, RwExclusion, Rw!NobodyStranded, Rw!Next
  PROVE  Rw!NobodyStranded'
<1> SUFFICES ASSUME NEW q \in Procs, rwWait'[q] = "parked" PROVE RwReason(q)'
  BY RwReasons
<1> PICK p \in Procs :
      \/ Rw!Read(p) \/ Rw!Write(p) \/ Rw!ResumeRead(p) \/ Rw!ResumeWrite(p)
      \/ Rw!CancelWake(p) \/ Rw!CancelledRead(p) \/ Rw!CancelledWrite(p)
      \/ Rw!UnlockRead(p) \/ Rw!UnlockWrite(p)
  BY DEF Rw!Next
<1> USE DEF RwTyped, RwReason, Rw!Readers
<1>1. rwWait[q] = "parked" => RwReason(q)
  BY DEF Rw!NobodyStranded, Rw!WithReason
<1>2. CASE Rw!Read(p)
  BY <1>1, <1>2 DEF Rw!Read, Rw!Readable, Rw!Parks
<1>3. CASE Rw!Write(p)
  <2>1. CASE Rw!Writable
    BY <2>1, <1>3 DEF Rw!Write
  <2>2. CASE ~Rw!Writable
    BY <1>1, <1>3, <2>2 DEF Rw!Write, Rw!Writable, Rw!Parks
  <2> QED BY <2>1, <2>2
<1>4. CASE Rw!ResumeRead(p)
  BY <1>1, <1>4 DEF Rw!ResumeRead, Rw!Readable, Rw!Parks, Rw!Over
<1>5. CASE Rw!ResumeWrite(p)
  <2>1. CASE Rw!Writable
    BY <2>1, <1>5 DEF Rw!ResumeWrite
  <2>2. CASE ~Rw!Writable
    BY <1>1, <1>5, <2>2 DEF Rw!ResumeWrite, Rw!Writable, Rw!Parks
  <2> QED BY <2>1, <2>2
<1>6. CASE Rw!CancelWake(p)
  BY <1>1, <1>6 DEF Rw!CancelWake, Rw!Wins
<1>7. CASE Rw!CancelledRead(p)
  BY <1>1, <1>7 DEF Rw!CancelledRead, Rw!Over
<1>8. CASE Rw!CancelledWrite(p)
  <2>1. CASE Rw!GoneQuiet(waiting - 1)
    BY <1>1, <1>8, <2>1 DEF Rw!CancelledWrite, Rw!GoneQuiet, Rw!Uncounted, Rw!Over
  <2>2. CASE ~Rw!GoneQuiet(waiting - 1)
    BY <1>8, <2>2, RwNotified DEF Rw!CancelledWrite
  <2> QED BY <2>1, <2>2
<1>9. CASE Rw!UnlockRead(p)
  <2>1. CASE readers = 1
    BY <1>9, <2>1, RwNotified DEF Rw!UnlockRead, Rw!NotifyAll
  <2>2. CASE readers # 1
    BY <1>1, <1>9, <2>2 DEF Rw!UnlockRead
  <2> QED BY <2>1, <2>2
<1>10. CASE Rw!UnlockWrite(p)
  BY <1>10, RwNotified DEF Rw!UnlockWrite, Rw!NotifyAll
<1> QED BY <1>2, <1>3, <1>4, <1>5, <1>6, <1>7, <1>8, <1>9, <1>10

\* A free lock, and everybody outside.
LEMMA RwStarts == Rw!Init => RwInv
<1> SUFFICES ASSUME Rw!Init PROVE RwInv
  OBVIOUS
<1>1. RwTyped /\ RwPlaced
  <2>1. <<>> \in Seq(Procs)
    OBVIOUS
  <2>2. RwTyped
    BY <2>1 DEF Rw!Init, RwTyped, Rw!PCs, WaitStates
  <2>3. RwPlaced
    BY DEF Rw!Init, RwPlaced
  <2> QED BY <2>2, <2>3
<1>2. Rw!In("reading") = {} /\ Rw!In("writing") = {} /\ Rw!In("wants") = {}
  BY DEF Rw!Init, Rw!In
<1>3. RwExclusion
  <2>1. Cardinality({}) = 0 /\ {} \cap Writers = {}
    BY FS_EmptySet
  <2>2. readers = 0 /\ writer = FALSE /\ waiting = 0
    BY DEF Rw!Init
  <2> QED BY <1>2, <2>1, <2>2 DEF RwExclusion, RwWaiting
<1>4. Rw!NobodyStranded
  BY DEF Rw!Init, Rw!NobodyStranded, Rw!WithReason
<1> QED BY <1>1, <1>3, <1>4 DEF RwInv

LEMMA RwKept == RwInv /\ (Rw!Next \/ UNCHANGED rwVars) => RwInv'
<1> SUFFICES ASSUME RwInv, (Rw!Next \/ UNCHANGED rwVars) PROVE RwInv'
  OBVIOUS
<1>1. CASE Rw!Next
  BY <1>1, RwPlaces, RwExcludes, RwStranded DEF RwInv
<1>2. CASE UNCHANGED rwVars
  <2>1. RwTyped' /\ RwPlaced'
    BY <1>2 DEF RwInv, rwVars, RwTyped, RwPlaced
  <2>2. RwExclusion' /\ Rw!NobodyStranded'
    BY <1>2 DEF RwInv, rwVars, RwExclusion, RwWaiting, Rw!NobodyStranded, Rw!In, Rw!WithReason
  <2> QED BY <2>1, <2>2 DEF RwInv
<1> QED BY <1>1, <1>2

\* What it says of holders and of sleepers.
LEMMA RwShows ==
  ASSUME RwInv
  PROVE  Rw!Exclusion /\ Rw!NobodyStranded
BY RwCounts DEF RwInv, RwExclusion, RwWaiting, Rw!Exclusion

-----------------------------------------------------------------------------
(* The condvar of the wait group *)

\* Its sets are counted as any.
LEMMA WgCounts ==
  ASSUME NEW S PROVE Wg!IsFiniteSet(S) = IsFiniteSet(S) /\ Wg!Cardinality(S) = Cardinality(S)
BY DEF Wg!Cardinality, Cardinality, Wg!IsFiniteSet, IsFiniteSet

\* Its notify pops and wakes as that of any condvar.
LEMMA WgNotifies ==
  ASSUME NEW q, NEW w
  PROVE  Wg!WokenAll(q, w) = WokenAll(q, w)
<1> DEFINE m == Len(q) + 1
           c(k) == Wg!Cardinality(Wg!Awaiting(q, w, k))
           d(k) == Cardinality(Awaiting(q, w, k))
           E == {k \in 0 .. Len(q) : c(k) = m}
           F == {k \in 0 .. Len(q) : d(k) = m}
<1>1. Wg!Popped(q, w, m) = IF E = {} THEN Len(q) ELSE CHOOSE k \in E : \A j \in E : k <= j
  BY DEF Wg!Popped
<1>2. Popped(q, w, m) = IF F = {} THEN Len(q) ELSE CHOOSE k \in F : \A j \in F : k <= j
  BY DEF Popped
<1>3. \A k : Wg!Awaiting(q, w, k) = Awaiting(q, w, k)
  BY DEF Wg!Awaiting, Awaiting
<1> HIDE DEF m
<1>4. Wg!Popped(q, w, m) = Popped(q, w, m)
  <2>1. \A k : c(k) = d(k)
    BY <1>3, WgCounts
  <2> HIDE DEF c, d
  <2>2. E = F
    BY <2>1
  <2> HIDE DEF E, F
  <2> QED BY <1>1, <1>2, <2>2
<1>5. Wg!Woken(q, w, m) = Woken(q, w, m)
  BY <1>3, <1>4 DEF Wg!Woken, Woken
<1> USE DEF m
<1> QED BY <1>5 DEF Wg!WokenAll, WokenAll

\* And so do its waiters come and go,
LEMMA WgQueues ==
  ASSUME NEW q, NEW p
  PROVE  Wg!Register(q, p) = Register(q, p) /\ Wg!Unlink(q, p) = Unlink(q, p)
BY DEF Wg!Register, Register, Wg!Unlink, Unlink, Wg!Contains, Contains, Wg!RemoveAt, RemoveAt

\* and their waits begin and end.
LEMMA WgWaits ==
  ASSUME NEW w, NEW p, NEW r, NEW S
  PROVE  /\ Wg!Over(w, p) = Over(w, p) /\ Wg!Parks(w, p) = Parks(w, p)
         /\ Wg!Wins(w, p, r) = Wins(w, p, r) /\ Wg!WithReason(w, S, r) = WithReason(w, S, r)
BY DEF Wg!Over, Over, Wg!Parks, Parks, Wg!Wins, Wins, Wg!WithReason, WithReason

-----------------------------------------------------------------------------
(* The wait group *)

\* The count is what the tasks owe; who is past the gate holds it; who is parked is queued.
WgTyped ==
  /\ count \in Nat /\ owed = count
  /\ wgQueue \in Seq(Members)
  /\ wgWait \in [Members -> WaitStates]
  /\ wgPc \in [Members -> Wg!PCs]
  /\ WithReason(wgWait, Members, "parked") \subseteq Range(wgQueue)
  /\ \A p \in Members : wgPc[p] \in {"check", "park"} => gate = p

\* Who sleeps at zero, or is about to after a look at an earlier count, is announced to.
WgAnnounced ==
  \A p \in Members :
    count = 0 /\ (wgWait[p] = "parked" \/ wgPc[p] = "park") => \E q \in Members : wgPc[q] = "zero"

WgInv == WgTyped /\ WgAnnounced

\* An empty group, and nobody inside.
LEMMA WgStarts == Wg!Init => WgInv
<1> SUFFICES ASSUME Wg!Init PROVE WgInv
  OBVIOUS
<1> USE DEF Wg!Init
<1>1. <<>> \in Seq(Members) /\ WithReason(wgWait, Members, "parked") = {}
  BY DEF WithReason
<1>2. wgWait \in [Members -> WaitStates] /\ wgPc \in [Members -> Wg!PCs]
  BY DEF WaitStates, Wg!PCs
<1>3. WgTyped
  BY <1>1, <1>2 DEF WgTyped
<1>4. WgAnnounced
  BY DEF WgAnnounced
<1> QED BY <1>3, <1>4 DEF WgInv

\* A step that parks nobody and leaves the done that has to notify where it is.
LEMMA WgQuiet ==
  ASSUME WgInv, NEW p \in Members, NEW l \in Wg!PCs \ {"park"}, Wg!Goto(p, l),
         wgPc[p] # "zero" \/ l = "zero",
         \A q \in Members : wgWait'[q] = "parked" => wgWait[q] = "parked",
         count' = count
  PROVE  WgAnnounced'
<1>1. wgPc' = [q \in Members |-> IF q = p THEN l ELSE wgPc[q]]
  BY DEF WgInv, WgTyped, Wg!Goto
<1>2. \A q \in Members : wgPc[q] = "zero" => wgPc'[q] = "zero"
  BY <1>1
<1>3. \A q \in Members : wgPc'[q] = "park" => wgPc[q] = "park"
  BY <1>1
<1> QED BY <1>2, <1>3 DEF WgInv, WgAnnounced

\* Tasks come and go; the one that brings the count to zero has to announce it.
LEMMA WgTasks ==
  ASSUME WgInv, NEW p \in Members, Wg!Add(p) \/ Wg!Done(p)
  PROVE  WgInv'
<1> USE DEF WgInv, WgTyped
<1>1. CASE Wg!Add(p)
  <2>1. count' = count + 1 /\ owed' = owed + 1 /\ UNCHANGED <<gate, wgQueue, wgWait, wgPc>>
    BY <1>1 DEF Wg!Add
  <2>2. WgTyped'
    BY <2>1
  <2>3. WgAnnounced'
    BY <2>1 DEF WgAnnounced
  <2> QED BY <2>2, <2>3
<1>2. CASE Wg!Done(p)
  <2>1. /\ wgPc[p] = "out" /\ owed > 0 /\ owed' = owed - 1 /\ count' = count - 1
        /\ wgPc' = [wgPc EXCEPT ![p] = IF count = 1 THEN "zero" ELSE "out"]
        /\ UNCHANGED <<gate, wgQueue, wgWait>>
    BY <1>2 DEF Wg!Done, Wg!Goto
  <2>2. wgPc'[p] = "zero" \/ count' # 0
    BY <2>1
  <2>3. WgTyped'
    <3>1. count' \in Nat /\ owed' = count'
      BY <2>1
    <3>2. /\ wgPc' \in [Members -> Wg!PCs]
          /\ \A q \in Members : wgPc'[q] \in {"check", "park"} => wgPc[q] \in {"check", "park"}
      BY <2>1 DEF Wg!PCs
    <3> QED BY <2>1, <3>1, <3>2
  <2>4. WgAnnounced'
    BY <2>2 DEF WgAnnounced
  <2> QED BY <2>3, <2>4
<1> QED BY <1>1, <1>2

\* The announcement leaves nobody parked, and finds nobody past the gate.
LEMMA WgNotify ==
  ASSUME WgInv, NEW p \in Members, Wg!NotifyZero(p)
  PROVE  WgInv'
<1> USE DEF WgInv, WgTyped
<1>1. /\ wgPc[p] = "zero" /\ gate = None
      /\ wgWait' = WokenAll(wgQueue, wgWait) /\ wgQueue' = <<>>
      /\ wgPc' = [wgPc EXCEPT ![p] = "out"] /\ UNCHANGED <<count, owed, gate>>
  BY WgNotifies DEF Wg!NotifyZero, Wg!GateOpen, Wg!Goto
<1>2. wgWait' = [x \in Members |->
        IF x \in Range(wgQueue) /\ wgWait[x] = "parked" THEN "notify" ELSE wgWait[x]]
  BY <1>1, WokenAllIs
<1>3. \A x \in Members : wgWait'[x] # "parked"
  BY <1>2 DEF WithReason
<1>4. \A x \in Members : wgPc[x] # "park"
  <2>1. None \notin Members
    BY MonitorsAssumption
  <2> QED BY <1>1, <2>1
<1>5. WgTyped'
  <2>1. wgQueue' \in Seq(Members) /\ WithReason(wgWait', Members, "parked") = {}
    BY <1>1, <1>3 DEF WithReason
  <2>2. wgWait' \in [Members -> WaitStates] /\ wgPc' \in [Members -> Wg!PCs]
    BY <1>1, <1>2 DEF WaitStates, Wg!PCs
  <2> QED BY <1>1, <2>1, <2>2
<1>6. WgAnnounced'
  BY <1>1, <1>3, <1>4 DEF WgAnnounced
<1> QED BY <1>5, <1>6

\* The ways into a wait.
LEMMA WgEnters ==
  ASSUME WgInv, NEW p \in Members, (\E m \in Wg!Modes : Wg!Look(p, m)) \/ Wg!Lock(p)
  PROVE  WgInv'
<1> USE DEF WgInv, WgTyped
<1>1. PICK l \in {"lock", "check"} :
        /\ wgPc' = [wgPc EXCEPT ![p] = l] /\ wgPc[p] # "zero"
        /\ IF l = "check" THEN gate = None /\ gate' = p ELSE gate' = gate
        /\ UNCHANGED <<count, owed, wgQueue, wgWait>>
  BY DEF Wg!Look, Wg!Lock, Wg!GateOpen, Wg!Goto
<1>2. None \notin Members
  BY MonitorsAssumption
<1>3. WgTyped'
  <2>1. wgPc' \in [Members -> Wg!PCs]
    BY <1>1 DEF Wg!PCs
  <2>2. \A q \in Members : wgPc'[q] \in {"check", "park"} => gate' = q
    BY <1>1, <1>2
  <2> QED BY <1>1, <2>1, <2>2
<1>4. WgAnnounced'
  BY <1>1, WgQuiet DEF Wg!PCs, Wg!Goto
<1> QED BY <1>3, <1>4

\* The look under the gate: only a count above zero is slept over.
LEMMA WgCheck ==
  ASSUME WgInv, NEW p \in Members, Wg!Check(p)
  PROVE  WgInv'
<1> USE DEF WgInv, WgTyped
<1>1. wgPc[p] = "check" /\ gate = p /\ UNCHANGED <<count, owed, wgQueue, wgWait>>
  BY DEF Wg!Check
<1>2. CASE count > 0 /\ wgPc' = [wgPc EXCEPT ![p] = "park"] /\ gate' = gate
  <2>1. WgTyped'
    BY <1>1, <1>2 DEF Wg!PCs
  <2>2. WgAnnounced'
    BY <1>1, <1>2 DEF WgAnnounced
  <2> QED BY <2>1, <2>2
<1>3. CASE wgPc' = [wgPc EXCEPT ![p] = "out"] /\ gate' = None
  <2>1. WgTyped'
    <3>1. wgPc' \in [Members -> Wg!PCs]
      BY <1>3 DEF Wg!PCs
    <3>2. \A q \in Members : ~(wgPc'[q] \in {"check", "park"})
      BY <1>1, <1>3
    <3> QED BY <1>1, <3>1, <3>2
  <2>2. WgAnnounced'
    BY <1>1, <1>3, WgQuiet DEF Wg!PCs, Wg!Goto
  <2> QED BY <2>1, <2>2
<1> QED BY <1>2, <1>3 DEF Wg!Check, Wg!Return, Wg!Goto

\* The park: whoever brought the count to zero since the look still has to announce it.
LEMMA WgPark ==
  ASSUME WgInv, NEW p \in Members, Wg!Park(p)
  PROVE  WgInv'
<1> USE DEF WgInv, WgTyped
<1>1. /\ wgPc[p] = "park" /\ gate = p /\ gate' = None
      /\ wgQueue' = Append(wgQueue, p) /\ wgWait' = [wgWait EXCEPT ![p] = "parked"]
      /\ wgPc' = [wgPc EXCEPT ![p] = "asleep"] /\ UNCHANGED <<count, owed>>
  BY DEF Wg!Park, Wg!Register, Wg!Parks, Wg!Goto
<1>2. WgTyped'
  <2>1. wgQueue' \in Seq(Members) /\ Range(wgQueue') = Range(wgQueue) \cup {p}
    BY <1>1, AppendProperties, AppendRange
  <2>2. WithReason(wgWait', Members, "parked") \subseteq WithReason(wgWait, Members, "parked") \cup {p}
    BY <1>1 DEF WithReason
  <2>3. wgWait' \in [Members -> WaitStates] /\ wgPc' \in [Members -> Wg!PCs]
    BY <1>1 DEF WaitStates, Wg!PCs
  <2>4. \A q \in Members : ~(wgPc'[q] \in {"check", "park"})
    BY <1>1
  <2> QED BY <1>1, <2>1, <2>2, <2>3, <2>4
<1>3. WgAnnounced'
  <2> SUFFICES ASSUME count = 0 PROVE \E q \in Members : wgPc'[q] = "zero"
    BY <1>1 DEF WgAnnounced
  <2>1. PICK q \in Members : wgPc[q] = "zero"
    BY <1>1 DEF WgAnnounced
  <2> QED BY <1>1, <2>1
<1> QED BY <1>2, <1>3

\* The end of a wait.
LEMMA WgResume ==
  ASSUME WgInv, NEW p \in Members, Wg!Resume(p)
  PROVE  WgInv'
<1> USE DEF WgInv, WgTyped
<1>1. /\ wgPc[p] = "asleep" /\ gate = None
      /\ wgQueue' = Unlink(wgQueue, p) /\ wgWait' = [wgWait EXCEPT ![p] = "none"]
      /\ UNCHANGED <<count, owed>>
  BY WgQueues DEF Wg!Resume, Wg!Over
<1>2. PICK l \in {"out", "check"} :
        /\ wgPc' = [wgPc EXCEPT ![p] = l]
        /\ IF l = "check" THEN gate' = p ELSE gate' = None
  BY DEF Wg!Resume, Wg!Return, Wg!Goto
<1>3. None \notin Members
  BY MonitorsAssumption
<1>4. WgTyped'
  <2>1. wgQueue' \in Seq(Members) /\ Range(wgQueue) \ {p} \subseteq Range(wgQueue')
    BY <1>1, UnlinkKeeps
  <2>2. WithReason(wgWait', Members, "parked") \subseteq WithReason(wgWait, Members, "parked") \ {p}
    BY <1>1 DEF WithReason
  <2>3. wgWait' \in [Members -> WaitStates] /\ wgPc' \in [Members -> Wg!PCs]
    BY <1>1, <1>2 DEF WaitStates, Wg!PCs
  <2>4. \A q \in Members : wgPc'[q] \in {"check", "park"} => gate' = q
    BY <1>1, <1>2, <1>3
  <2> QED BY <1>1, <2>1, <2>2, <2>3, <2>4
<1>5. WgAnnounced'
  BY <1>1, <1>2, WgQuiet DEF Wg!PCs, Wg!Goto
<1> QED BY <1>4, <1>5

\* A deadline or a cancellation wins a wait.
LEMMA WgWins ==
  ASSUME WgInv, NEW p \in Members, NEW r \in {"cancel", "timeout"},
         wgWait' = Wg!Wins(wgWait, p, r), UNCHANGED <<count, owed, gate, wgQueue, wgPc>>
  PROVE  WgInv'
<1> USE DEF WgInv, WgTyped
<1>1. wgWait' = [wgWait EXCEPT ![p] = r]
  BY DEF Wg!Wins
<1>2. WgTyped'
  <2>1. WithReason(wgWait', Members, "parked") \subseteq WithReason(wgWait, Members, "parked")
    BY <1>1 DEF WithReason
  <2> QED BY <1>1, <2>1 DEF WaitStates
<1>3. WgAnnounced'
  BY <1>1 DEF WgAnnounced
<1> QED BY <1>2, <1>3

\* Every step of the wait group keeps it.
LEMMA WgKept ==
  ASSUME WgInv, Wg!Next \/ UNCHANGED wgVars
  PROVE  WgInv'
<1>1. ASSUME NEW p \in Members, Wg!Add(p) \/ Wg!Done(p) \/ Wg!NotifyZero(p) PROVE WgInv'
  BY <1>1, WgTasks, WgNotify
<1>2. ASSUME NEW p \in Members, (\E m \in Wg!Modes : Wg!Look(p, m)) \/ Wg!Lock(p) PROVE WgInv'
  BY <1>2, WgEnters
<1>3. ASSUME NEW p \in Members, Wg!Check(p) \/ Wg!Park(p) \/ Wg!Resume(p) PROVE WgInv'
  BY <1>3, WgCheck, WgPark, WgResume
<1>4. ASSUME NEW p \in Members, Wg!CancelWake(p) \/ Wg!Expire(p) PROVE WgInv'
  BY <1>4, WgWins DEF Wg!CancelWake, Wg!Expire
<1>5. CASE UNCHANGED wgVars
  BY <1>5 DEF wgVars, WgInv, WgTyped, WgAnnounced, WithReason
<1> QED BY <1>1, <1>2, <1>3, <1>4, <1>5 DEF Wg!Next

\* What it says of sleepers.
LEMMA WgShows ==
  ASSUME WgInv
  PROVE  Wg!NoSleepAtZero
BY DEF WgInv, WgAnnounced, Wg!WithReason, Wg!NoSleepAtZero

-----------------------------------------------------------------------------
(* The system that is picked *)

\* What is known of it.
MonitorsInv ==
  /\ which = "semaphore" => SemInv
  /\ which = "barrier" => BarInv
  /\ which = "rwlock" => RwInv
  /\ which = "waitgroup" => WgInv

\* It holds at first.
LEMMA MonitorsStart == MCInit => MonitorsInv
BY SemStarts, BarStarts, RwStarts, WgStarts DEF MCInit, MonitorsInv

\* A step is one of the system that is picked, or none of it.
LEMMA PickedSteps ==
  ASSUME [MCNext]_allVars
  PROVE  /\ which' = which
         /\ which = "semaphore" => Sem!Next \/ UNCHANGED semVars
         /\ which = "barrier" => Bar!Next \/ UNCHANGED barVars
         /\ which = "rwlock" => Rw!Next \/ UNCHANGED rwVars
         /\ which = "waitgroup" => Wg!Next \/ UNCHANGED wgVars
BY DEF MCNext, allVars, lockVars, Selects

\* Every step keeps what is known of the system that is picked.
LEMMA MonitorsStep == MonitorsInv /\ [MCNext]_allVars => MonitorsInv'
BY PickedSteps, SemKept, BarKept, RwKept, WgKept DEF MonitorsInv

\* Nobody sleeps over a free permit, over a generation that is over or broken, or over a lock he
\* could have: what a release, a cancelled or late waiter or a stale notify leaves behind is a
\* reason to sleep or a wake on its way.
THEOREM NobodyIsStranded == MCSpec => []NobodyStranded
<1>1. MonitorsInv => NobodyStranded
  BY SemShows, BarShows, RwShows DEF MonitorsInv, NobodyStranded
<1> QED BY <1>1, MonitorsStart, MonitorsStep, PTL DEF MCSpec

\* A cancelled acquire makes and loses no permit; a generation completes by its own participants,
\* and true is said of no other.
THEOREM NothingIsMiscounted == MCSpec => []NothingMiscounted
<1>1. MonitorsInv => NothingMiscounted
  BY SemShows, BarShows DEF MonitorsInv, NothingMiscounted
<1> QED BY <1>1, MonitorsStart, MonitorsStep, PTL DEF MCSpec

\* Whoever writes is alone, whoever reads is with readers only, and the counts that decide who
\* may enter are those of who is in and of the writers who wait, cancelled ones taken off.
THEOREM WritersExclude == MCSpec => []Exclusion
<1>1. MonitorsInv => Exclusion
  BY RwShows DEF MonitorsInv, Exclusion
<1> QED BY <1>1, MonitorsStart, MonitorsStep, PTL DEF MCSpec

\* Nobody sleeps over a group at zero that nobody is about to announce, though the count changes
\* outside the gate at any moment between a waiter's look and its park.
THEOREM ZeroIsAnnounced == MCSpec => []NoSleepAtZero
<1>1. MonitorsInv => NoSleepAtZero
  BY WgShows DEF MonitorsInv, NoSleepAtZero
<1> QED BY <1>1, MonitorsStart, MonitorsStep, PTL DEF MCSpec
=============================================================================
