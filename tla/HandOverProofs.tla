--------------------------- MODULE HandOverProofs ---------------------------
(***************************************************************************)
(* Theorems about what MCHandOver composes: the ring, for every capacity   *)
(* and every start, and the channel, for every capacity, all processes and *)
(* all batches.                                                            *)
(***************************************************************************)
EXTENDS MCHandOver, QueueProofs

-----------------------------------------------------------------------------
(* The ring *)

\* What the ring is given.
LEMMA RingGiven == Rng!RingAssumption
BY HandOverAssumption

\* What a slot may hold.
Slot == Values \cup {NoValue}

\* The n values from h on, of a ring s of m slots: Contents with its arguments in sight.
ReadRing(s, h, n, m) == [i \in 1..n |-> s[Rng!At(h, i - 1, m)]]

-----------------------------------------------------------------------------
(* Indices *)

\* An index of at most one turn is wrapped by one subtraction, and is a slot.
LEMMA AtIs ==
  ASSUME NEW m \in Nat \ {0}, NEW h \in 0..(m - 1), NEW k \in 0..m
  PROVE  /\ Rng!At(h, k, m) = IF h + k < m THEN h + k ELSE h + k - m
         /\ Rng!At(h, k, m) \in 0..(m - 1)
<1>1. CASE h + k < m
  BY <1>1 DEF Rng!At
<1>2. CASE ~(h + k < m)
  BY <1>2 DEF Rng!At
<1> QED  BY <1>1, <1>2

\* Two values of one ring are in two slots.
LEMMA AtDiffers ==
  ASSUME NEW m \in Nat \ {0}, NEW h \in 0..(m - 1),
         NEW j \in 0..(m - 1), NEW k \in 0..(m - 1), j # k
  PROVE  Rng!At(h, j, m) # Rng!At(h, k, m)
<1>0. j \in 0..m /\ k \in 0..m
  OBVIOUS
<1>1. Rng!At(h, j, m) = IF h + j < m THEN h + j ELSE h + j - m
  BY <1>0, AtIs
<1>2. Rng!At(h, k, m) = IF h + k < m THEN h + k ELSE h + k - m
  BY <1>0, AtIs
<1> QED  BY <1>1, <1>2

-----------------------------------------------------------------------------
(* What the operations do to the values *)

\* A push puts the value behind the others.
LEMMA PutReads ==
  ASSUME NEW v \in Slot, NEW m \in Nat \ {0}, NEW s \in [0..(m - 1) -> Slot],
         NEW h \in 0..(m - 1), NEW n \in 0..(m - 1)
  PROVE  /\ Rng!PutAt(s, h, n, m, v) \in [0..(m - 1) -> Slot]
         /\ ReadRing(Rng!PutAt(s, h, n, m, v), h, n + 1, m) = Append(ReadRing(s, h, n, m), v)
<1> DEFINE t == Rng!PutAt(s, h, n, m, v)
<1>1. Rng!At(h, n, m) \in 0..(m - 1)
  BY AtIs
<1>2. t \in [0..(m - 1) -> Slot]
  BY <1>1 DEF Rng!PutAt
<1>3. t[Rng!At(h, n, m)] = v
  BY <1>1 DEF Rng!PutAt
<1>4. ASSUME NEW i \in 1..n
      PROVE  t[Rng!At(h, i - 1, m)] = s[Rng!At(h, i - 1, m)]
  <2>1. Rng!At(h, i - 1, m) # Rng!At(h, n, m)
    BY AtDiffers
  <2>2. Rng!At(h, i - 1, m) \in 0..(m - 1)
    <3>1. i - 1 \in 0..m
      OBVIOUS
    <3> QED  BY <3>1, AtIs
  <2> QED  BY <2>1, <2>2 DEF Rng!PutAt
<1> HIDE DEF t
<1>5. ReadRing(s, h, n, m) \in Seq(Slot)
  <2>1. ASSUME NEW i \in 1..n PROVE s[Rng!At(h, i - 1, m)] \in Slot
    <3>1. i - 1 \in 0..m
      OBVIOUS
    <3>2. Rng!At(h, i - 1, m) \in 0..(m - 1)
      BY <3>1, AtIs
    <3> QED  BY <3>2
  <2> QED  BY <2>1 DEF ReadRing
<1>6. Len(ReadRing(s, h, n, m)) = n
  BY DEF ReadRing
<1>7. Append(ReadRing(s, h, n, m), v) = [i \in 1..(n + 1) |-> IF i <= n THEN s[Rng!At(h, i - 1, m)] ELSE v]
  BY <1>5, <1>6 DEF ReadRing
<1>8. ASSUME NEW i \in 1..(n + 1)
      PROVE  t[Rng!At(h, i - 1, m)] = IF i <= n THEN s[Rng!At(h, i - 1, m)] ELSE v
  <2>1. CASE i <= n
    BY <2>1, <1>4
  <2>2. CASE ~(i <= n)
    <3>1. i - 1 = n
      BY <2>2
    <3> QED  BY <2>2, <3>1, <1>3
  <2> QED  BY <2>1, <2>2
<1>9. ReadRing(t, h, n + 1, m) = Append(ReadRing(s, h, n, m), v)
  BY <1>7, <1>8 DEF ReadRing
<1> QED  BY <1>2, <1>9 DEF t

\* A resize keeps the values and their order.
LEMMA MovedReads ==
  ASSUME NEW m \in Nat \ {0}, NEW l \in Nat \ {0},
         NEW s \in [0..(m - 1) -> Slot], NEW h \in 0..(m - 1),
         NEW n \in 0..m, n <= l
  PROVE  /\ Rng!Moved(s, h, n, m, l) \in [0..(l - 1) -> Slot]
         /\ ReadRing(Rng!Moved(s, h, n, m, l), 0, n, l) = ReadRing(s, h, n, m)
<1>1. ASSUME NEW k \in 0..(l - 1), k < n PROVE s[Rng!At(h, k, m)] \in Slot
  <2>1. Rng!At(h, k, m) \in 0..(m - 1)
    BY <1>1, AtIs
  <2> QED  BY <2>1
<1>2. Rng!Moved(s, h, n, m, l) \in [0..(l - 1) -> Slot]
  <2>1. NoValue \in Slot
    BY DEF Slot
  <2> QED  BY <1>1, <2>1 DEF Rng!Moved
<1>3. ASSUME NEW i \in 1..n
      PROVE  Rng!Moved(s, h, n, m, l)[Rng!At(0, i - 1, l)] = s[Rng!At(h, i - 1, m)]
  <2>1. Rng!At(0, i - 1, l) = i - 1
    BY AtIs
  <2>2. i - 1 \in 0..(l - 1) /\ i - 1 < n
    OBVIOUS
  <2> QED  BY <2>1, <2>2 DEF Rng!Moved
<1> QED  BY <1>2, <1>3 DEF ReadRing

\* The slots once the value at h was moved out.
Gone(s, h) == [s EXCEPT ![h] = NoValue]

\* A pop leaves the values behind the first.
LEMMA PopReads ==
  ASSUME NEW m \in Nat \ {0}, NEW s \in [0..(m - 1) -> Slot],
         NEW h \in 0..(m - 1), NEW n \in 1..m
  PROVE  /\ Gone(s, h) \in [0..(m - 1) -> Slot]
         /\ Rng!At(h, 1, m) \in 0..(m - 1)
         /\ ReadRing(s, h, n, m) # <<>>
         /\ Head(ReadRing(s, h, n, m)) = s[h]
         /\ ReadRing(Gone(s, h), Rng!At(h, 1, m), n - 1, m) = Tail(ReadRing(s, h, n, m))
<1> DEFINE g == Rng!At(h, 1, m)
           t == Gone(s, h)
<1>1. Rng!At(h, 1, m) = g
  OBVIOUS
<1>2. g = (IF h + 1 < m THEN h + 1 ELSE h + 1 - m) /\ g \in 0..(m - 1)
  <2>1. 1 \in 0..m
    OBVIOUS
  <2>2. /\ Rng!At(h, 1, m) = IF h + 1 < m THEN h + 1 ELSE h + 1 - m
        /\ Rng!At(h, 1, m) \in 0..(m - 1)
    BY <2>1, AtIs
  <2> QED  BY <2>2, <1>1
<1>3. t \in [0..(m - 1) -> Slot]
  BY DEF Gone, Slot
<1> HIDE DEF g
<1>4. ASSUME NEW i \in 1..n PROVE s[Rng!At(h, i - 1, m)] \in Slot
  <2>1. i - 1 \in 0..m
    OBVIOUS
  <2>2. Rng!At(h, i - 1, m) \in 0..(m - 1)
    BY <2>1, AtIs
  <2> QED  BY <2>2
<1>5. ReadRing(s, h, n, m) \in Seq(Slot) /\ Len(ReadRing(s, h, n, m)) = n
  BY <1>4 DEF ReadRing
<1>6. ReadRing(s, h, n, m)[1] = s[h]
  <2>1. Rng!At(h, 0, m) = h
    BY AtIs
  <2> QED  BY <2>1 DEF ReadRing
<1>7. Tail(ReadRing(s, h, n, m)) = [i \in 1..(n - 1) |-> s[Rng!At(h, i, m)]]
  BY <1>5 DEF ReadRing
<1>8. ASSUME NEW i \in 1..(n - 1)
      PROVE  t[Rng!At(g, i - 1, m)] = s[Rng!At(h, i, m)]
  <2>0. i \in 0..m
    OBVIOUS
  <2>1. Rng!At(g, i - 1, m) = Rng!At(h, i, m)
    <3>1. Rng!At(h, i, m) = IF h + i < m THEN h + i ELSE h + i - m
      BY <2>0, AtIs
    <3>2. Rng!At(g, i - 1, m) = IF g + (i - 1) < m THEN g + (i - 1) ELSE g + (i - 1) - m
      <4>1. i - 1 \in 0..m /\ g \in 0..(m - 1)
        BY <1>2
      <4> QED  BY <4>1, AtIs
    <3> QED  BY <3>1, <3>2, <1>2
  <2>2. Rng!At(h, i, m) # Rng!At(h, 0, m)
    BY AtDiffers
  <2>3. Rng!At(h, 0, m) = h
    BY AtIs
  <2>4. Rng!At(h, i, m) \in 0..(m - 1)
    BY <2>0, AtIs
  <2> QED  BY <2>1, <2>2, <2>3, <2>4 DEF Gone
<1> HIDE DEF t
<1>9. ReadRing(t, g, n - 1, m) = Tail(ReadRing(s, h, n, m))
  BY <1>7, <1>8 DEF ReadRing
<1>10. ReadRing(s, h, n, m) # <<>> /\ Head(ReadRing(s, h, n, m)) = s[h]
  BY <1>5, <1>6
<1> QED  BY <1>2, <1>3, <1>9, <1>10 DEF g, t

-----------------------------------------------------------------------------
(* Types, the bound on memory, and the steps of the queue *)

\* The values held are what ReadRing finds, and they are values.
LEMMA ContentsRead == Rng!Contents = ReadRing(slots, head, count, cap)
BY DEF Rng!Contents, ReadRing

\* A sequence that takes one more value, or gives one up, still holds values.
LEMMA SeqSteps ==
  ASSUME NEW S, NEW n \in Nat, NEW q \in Seq(Slot), Len(q) = n, \A i \in 1..n : q[i] \in S
  PROVE  /\ \A v \in Slot : v \in S => \A i \in 1..(n + 1) : Append(q, v)[i] \in S
         /\ n > 0 => \A i \in 1..(n - 1) : Tail(q)[i] \in S
OBVIOUS

\* Contents is a sequence of count elements.
LEMMA ContentsSeq ==
  ASSUME Rng!TypeOK
  PROVE  Rng!Contents \in Seq(Slot) /\ Len(Rng!Contents) = count
<1>1. \A i \in 1..count : Rng!Contents[i] \in Slot
  BY DEF Rng!TypeOK, Slot
<1> QED  BY <1>1 DEF Rng!Contents, Rng!TypeOK

RingInv == Rng!TypeOK /\ BurstGivenBack

\* What a push does.
LEMMA RingPush ==
  ASSUME RingInv, NEW v \in Values, Rng!Push(v)
  PROVE  RingInv' /\ Rng!Contents' = Append(Rng!Contents, v)
<1> USE RingGiven DEF RingInv, Rng!RingAssumption
<1>0. /\ slots \in [0..(cap - 1) -> Slot] /\ v \in Slot
      /\ cap \in Nat \ {0} /\ count \in 0..cap /\ head \in 0..(cap - 1)
  BY DEF Rng!TypeOK, Slot
<1>1. /\ cap' \in Nat \ {0} /\ head' \in 0..(cap' - 1)
      /\ slots' \in [0..(cap' - 1) -> Slot]
      /\ count' = count + 1 /\ count' \in 0..cap'
      /\ Rng!Contents' = Append(Rng!Contents, v)
  <2>1. CASE count = cap
    <3> DEFINE m == 2 * cap
               s == Rng!Moved(slots, head, count, cap, m)
    <3>1. m \in Nat \ {0} /\ count <= m /\ count \in 0..(m - 1) /\ 0 \in 0..(m - 1)
      BY <1>0, <2>1
    <3> HIDE DEF m
    <3>2. s \in [0..(m - 1) -> Slot] /\ ReadRing(s, 0, count, m) = Rng!Contents
      BY <1>0, <3>1, MovedReads, ContentsRead
    <3> HIDE DEF s
    <3>3. /\ Rng!PutAt(s, 0, count, m, v) \in [0..(m - 1) -> Slot]
          /\ ReadRing(Rng!PutAt(s, 0, count, m, v), 0, count + 1, m) = Append(Rng!Contents, v)
      BY <1>0, <3>1, <3>2, PutReads
    <3>4. /\ cap' = m /\ head' = 0 /\ count' = count + 1
          /\ slots' = Rng!PutAt(s, 0, count, m, v)
      BY <2>1 DEF Rng!Push, m, s
    <3>5. Rng!Contents' = ReadRing(slots', head', count', cap')
      BY ContentsRead DEF Rng!Contents, ReadRing
    <3> QED  BY <3>1, <3>3, <3>4, <3>5
  <2>2. CASE count # cap
    <3>1. count \in 0..(cap - 1)
      BY <1>0, <2>2
    <3>2. /\ Rng!PutAt(slots, head, count, cap, v) \in [0..(cap - 1) -> Slot]
          /\ ReadRing(Rng!PutAt(slots, head, count, cap, v), head, count + 1, cap) = Append(Rng!Contents, v)
      BY <1>0, <3>1, PutReads, ContentsRead
    <3>3. /\ cap' = cap /\ head' = head /\ count' = count + 1
          /\ slots' = Rng!PutAt(slots, head, count, cap, v)
      BY <2>2 DEF Rng!Push
    <3>4. Rng!Contents' = ReadRing(slots', head', count', cap')
      BY ContentsRead DEF Rng!Contents, ReadRing
    <3> QED  BY <1>0, <3>1, <3>2, <3>3, <3>4
  <2> QED  BY <2>1, <2>2
<1>2. \A i \in 1..count' : Rng!Contents'[i] \in Values
  <2>1. \A i \in 1..count : Rng!Contents[i] \in Values
    BY DEF Rng!TypeOK
  <2> QED  BY <1>0, <1>1, <2>1, ContentsSeq, SeqSteps
<1>3. (heap => grows)' /\ heap' \in BOOLEAN /\ UNCHANGED <<grows, out>>
  <2>1. CASE count = cap
    BY <2>1, <1>0 DEF Rng!Push, Rng!TypeOK
  <2>2. CASE count # cap
    BY <2>2 DEF Rng!Push, Rng!TypeOK
  <2> QED  BY <2>1, <2>2
<1>4. Rng!TypeOK'
  BY <1>1, <1>2, <1>3 DEF Rng!TypeOK, Slot
<1>5. BurstGivenBack'
  <2>1. CASE count = cap
    BY <2>1, <1>0 DEF Rng!Push, BurstGivenBack, Rng!BurstGivenBack
  <2>2. CASE count # cap
    <3>1. heap' = heap /\ cap' = cap /\ count' = count + 1
      BY <2>2 DEF Rng!Push
    <3>2. cap \div 4 \in Nat
      BY <1>0
    <3> QED  BY <1>0, <3>1, <3>2 DEF BurstGivenBack, Rng!BurstGivenBack
  <2> QED  BY <2>1, <2>2
<1> QED  BY <1>1, <1>4, <1>5

\* What a pop does.
LEMMA RingPop ==
  ASSUME RingInv, Rng!Pop
  PROVE  /\ RingInv'
         /\ Rng!Contents # <<>> /\ out' = Head(Rng!Contents) /\ Rng!Contents' = Tail(Rng!Contents)
<1> USE RingGiven DEF RingInv, Rng!RingAssumption
<1> DEFINE h == Rng!At(head, 1, cap)
           s == Gone(slots, head)
<1>0. /\ slots \in [0..(cap - 1) -> Slot]
      /\ cap \in Nat \ {0} /\ count \in 1..cap /\ head \in 0..(cap - 1)
  BY DEF Rng!TypeOK, Slot, Rng!Pop
<1>1. /\ s \in [0..(cap - 1) -> Slot] /\ h \in 0..(cap - 1)
      /\ Rng!Contents # <<>> /\ Head(Rng!Contents) = slots[head]
      /\ ReadRing(s, h, count - 1, cap) = Tail(Rng!Contents)
  <2> DEFINE held == ReadRing(slots, head, count, cap)
  <2>1. /\ Gone(slots, head) \in [0..(cap - 1) -> Slot]
        /\ Rng!At(head, 1, cap) \in 0..(cap - 1)
        /\ held # <<>> /\ Head(held) = slots[head]
        /\ ReadRing(Gone(slots, head), Rng!At(head, 1, cap), count - 1, cap) = Tail(held)
    BY ONLY <1>0, PopReads
  <2>2. Rng!Contents = held
    BY ContentsRead
  <2> HIDE DEF held
  <2> QED  BY <2>1, <2>2
<1>2. out' = slots[head] /\ count' = count - 1 /\ UNCHANGED <<grows, heap>>
  BY DEF Rng!Pop
<1>3. /\ cap' \in Nat \ {0} /\ head' \in 0..(cap' - 1)
      /\ slots' \in [0..(cap' - 1) -> Slot]
      /\ count' \in 0..cap'
      /\ Rng!Contents' = Tail(Rng!Contents)
      /\ BurstGivenBack'
  <2>1. CASE Rng!Shrinks(count - 1, cap, heap)
    <3> DEFINE m == cap \div 2
    <3>1. /\ m \in Nat \ {0} /\ count - 1 <= m /\ count - 1 \in 0..cap /\ 0 \in 0..(m - 1)
      BY <1>0, <2>1 DEF Rng!Shrinks
    <3>2. cap' = m /\ head' = 0 /\ slots' = Rng!Moved(s, h, count - 1, cap, m)
      BY <2>1 DEF Rng!Pop, Gone, Rng!At
    <3>3. m > 2 * Start => count - 1 >= m \div 4
      BY <1>0, <2>1 DEF Rng!Shrinks, BurstGivenBack, Rng!BurstGivenBack
    <3> HIDE DEF m, s, h
    <3>4. /\ Rng!Moved(s, h, count - 1, cap, m) \in [0..(m - 1) -> Slot]
          /\ ReadRing(Rng!Moved(s, h, count - 1, cap, m), 0, count - 1, m) = ReadRing(s, h, count - 1, cap)
      <4> DEFINE n == count - 1
      <4>1. n \in 0..cap /\ n <= m
        BY <3>1
      <4> HIDE DEF n
      <4>2. /\ Rng!Moved(s, h, n, cap, m) \in [0..(m - 1) -> Slot]
            /\ ReadRing(Rng!Moved(s, h, n, cap, m), 0, n, m) = ReadRing(s, h, n, cap)
        BY <1>0, <1>1, <3>1, <4>1, MovedReads
      <4> QED  BY <4>2 DEF n
    <3>5. Rng!Contents' = ReadRing(slots', head', count', cap')
      BY ContentsRead DEF Rng!Contents, ReadRing
    <3>6. BurstGivenBack'
      BY <1>2, <3>2, <3>3 DEF BurstGivenBack, Rng!BurstGivenBack
    <3> QED  BY <1>1, <1>2, <3>1, <3>2, <3>4, <3>5, <3>6
  <2>2. CASE ~Rng!Shrinks(count - 1, cap, heap)
    <3>1. cap' = cap /\ head' = h /\ slots' = s
      BY <2>2 DEF Rng!Pop, Gone, Rng!At
    <3>2. BurstGivenBack'
      BY <1>0, <1>2, <2>2, <3>1 DEF Rng!Shrinks, BurstGivenBack, Rng!BurstGivenBack
    <3> HIDE DEF s, h
    <3>3. Rng!Contents' = ReadRing(slots', head', count', cap')
      BY ContentsRead DEF Rng!Contents, ReadRing
    <3> QED  BY <1>0, <1>1, <1>2, <3>1, <3>2, <3>3
  <2> QED  BY <2>1, <2>2
<1>4. \A i \in 1..count' : Rng!Contents'[i] \in Values
  <2>1. \A i \in 1..count : Rng!Contents[i] \in Values
    BY DEF Rng!TypeOK
  <2> QED  BY <1>0, <1>2, <1>3, <2>1, ContentsSeq, SeqSteps
<1>5. out' \in Slot
  BY <1>0, <1>2
<1>6. Rng!TypeOK'
  BY <1>2, <1>3, <1>4, <1>5 DEF Rng!TypeOK, Slot
<1> QED  BY <1>1, <1>2, <1>3, <1>6

-----------------------------------------------------------------------------

\* The initial ring is empty, on its inline slots.
LEMMA RingStarts == Rng!Init => RingInv /\ Rng!Contents = <<>>
<1> SUFFICES ASSUME Rng!Init PROVE RingInv /\ Rng!Contents = <<>>
  OBVIOUS
<1>1. cap \in Nat \ {0} /\ 0 \in 0..(cap - 1) /\ slots \in [0..(cap - 1) -> {NoValue}]
  BY RingGiven DEF Rng!Init, Rng!Blank, Rng!RingAssumption
<1>2. Rng!Contents = <<>>
  BY DEF Rng!Init, Rng!Contents
<1>3. Rng!TypeOK
  <2>1. count = 0 /\ count \in 0..cap /\ head = 0 /\ heap = FALSE /\ grows \in BOOLEAN
    BY <1>1 DEF Rng!Init
  <2>2. \A i \in 1..count : Rng!Contents[i] \in Values
    BY <2>1
  <2> QED  BY <1>1, <2>1, <2>2 DEF Rng!Init, Rng!TypeOK
<1> QED  BY <1>2, <1>3 DEF Rng!Init, RingInv, BurstGivenBack, Rng!BurstGivenBack

\* Every step keeps the invariant.
LEMMA RingKept == RingInv /\ [Rng!Next]_(Rng!vars) => RingInv'
<1> SUFFICES ASSUME RingInv, [Rng!Next]_(Rng!vars) PROVE RingInv'
  OBVIOUS
<1>1. CASE Rng!Pop
  BY <1>1, RingPop
<1>2. ASSUME NEW v \in Values, Rng!Push(v) PROVE RingInv'
  BY <1>2, RingPush
<1>3. CASE UNCHANGED Rng!vars
  BY <1>3 DEF Rng!vars, RingInv, Rng!TypeOK, BurstGivenBack, Rng!BurstGivenBack, Rng!Contents, Rng!At
<1> QED  BY <1>1, <1>2, <1>3 DEF Rng!Next

\* The ring's types, for any capacity and start: an index never leaves its slots, and every
\* live slot holds a value (channel.spc, push, pop, grow, resize).
THEOREM RingTypeCorrect == Rng!Spec => []Rng!TypeOK
<1>1. RingInv => Rng!TypeOK
  BY DEF RingInv
<1> QED  BY <1>1, RingStarts, RingKept, PTL DEF Rng!Spec

\* What a burst grew is given back, for any start: pop halves the ring in time, once per pop.
THEOREM MemoryBounded == Rng!Spec => []BurstGivenBack
<1>1. RingInv => BurstGivenBack
  BY DEF RingInv
<1> QED  BY <1>1, RingStarts, RingKept, PTL DEF Rng!Spec

\* The ring is a queue, across wrap-around, growth and shrinking: what is popped is the
\* oldest value pushed, and nothing else leaves or enters.
THEOREM RefinesFifo == Rng!Spec => IsFifo
<1>1. Rng!Init => Rng!Queue!Init
  BY RingStarts DEF Rng!Init, Rng!Queue!Init
<1>2. RingInv /\ [Rng!Next]_(Rng!vars) => [Rng!Queue!Next]_(Rng!Queue!vars)
  <2> SUFFICES ASSUME RingInv, [Rng!Next]_(Rng!vars) PROVE Rng!Queue!Next \/ UNCHANGED Rng!Queue!vars
    OBVIOUS
  <2>1. CASE Rng!Pop
    <3>1. Rng!Queue!Take
      BY <2>1, RingPop DEF Rng!Queue!Take
    <3> QED  BY <3>1 DEF Rng!Queue!Next
  <2>2. ASSUME NEW v \in Values, Rng!Push(v) PROVE Rng!Queue!Next
    <3>1. UNCHANGED out
      BY <2>2 DEF Rng!Push
    <3>2. Rng!Queue!Put(v)
      BY <2>2, <3>1, RingPush DEF Rng!Queue!Put
    <3> QED  BY <3>2 DEF Rng!Queue!Next
  <2>3. CASE UNCHANGED Rng!vars
    BY <2>3 DEF Rng!vars, Rng!Queue!vars, Rng!Contents, Rng!At
  <2> QED  BY <2>1, <2>2, <2>3 DEF Rng!Next
<1> QED  BY <1>1, <1>2, RingStarts, RingKept, PTL DEF Rng!Spec, IsFifo, Rng!IsFifo, Rng!Queue!Spec

-----------------------------------------------------------------------------
(* The channel: its invariant *)

\* What the channel is given.
LEMMA ChannelGiven ==
  /\ IsFiniteSet(Senders) /\ IsFiniteSet(Receivers) /\ Senders \cap Receivers = {}
  /\ IsFiniteSet(Procs)
  /\ Capacity \in Nat \ {0} /\ MaxMade \in Nat /\ MaxBatch \in Nat \ {0}
BY HandOverAssumption, FS_Union DEF ChannelAssumption, Procs

\* What is sent: the sender and the number of the value.
Letters == Senders \X Nat

ChannelTyped ==
  /\ unbounded \in BOOLEAN /\ closed \in BOOLEAN /\ freed \in BOOLEAN /\ factory \in BOOLEAN
  /\ buf \in Seq(Letters)
  /\ wait \in [Procs -> WaitStates] /\ pc \in [Procs -> PCs]
  /\ items \in [Senders -> Seq(Letters)] /\ made \in [Senders -> Nat]
  /\ max \in [Receivers -> Nat]

\* Only who is in a call waits, and a call has values to send or room for some.
InCalls ==
  \A p \in Procs :
    /\ wait[p] # "none" => pc[p] \in {"send", "recv"}
    /\ pc[p] = "send" => p \in Senders /\ items[p] # <<>> /\ MaxMade > 0
    /\ pc[p] = "recv" => p \in Receivers /\ max[p] > 0

\* Both condvars hold whoever is parked on them, and have woken enough of them.
SidesKept ==
  /\ Lined(wait, notEmpty, Receivers) /\ Lined(wait, notFull, Senders)
  /\ Serves(wait, Receivers, Len(buf))
  /\ IF unbounded THEN WithReason(wait, Senders, "parked") = {}
     ELSE Len(buf) <= Capacity /\ Serves(wait, Senders, Capacity - Len(buf))

Calm == ChannelTyped /\ InCalls /\ SidesKept /\ NobodySleepsOnClosed

ChannelInv == Calm /\ HandlesCounted

-----------------------------------------------------------------------------
(* The channel: what a step does to the waiters of each side *)

\* Who serves many serves fewer.
LEMMA FewerServed ==
  ASSUME NEW w, NEW S, IsFiniteSet(S), NEW m \in Nat, NEW k \in Nat, k <= m, Serves(w, S, m)
  PROVE  Serves(w, S, k)
<1>1. Cardinality(WithReason(w, S, "notify")) \in Nat
  BY FS_Subset, FS_CardinalityType DEF WithReason
<1> QED BY <1>1 DEF Serves

\* A step that parks nobody keeps everybody awake who was, on the same channel.
LEMMA StillAwake ==
  ASSUME NobodySleepsOnClosed, UNCHANGED <<closed, senders, receivers>>,
         \A x \in Procs : wait'[x] = "parked" => wait[x] = "parked"
  PROVE  NobodySleepsOnClosed'
BY DEF NobodySleepsOnClosed, Rejecting, WithReason, Procs

\* A sender's wait ends and it sends nothing: its wake is not missed.
LEMMA SenderLeaves ==
  ASSUME ChannelTyped, SidesKept, NEW p \in Senders, wait[p] # "parked",
         \/ wait[p] # "notify" \/ WithReason(wait, Senders, "parked") = {}
         \/ Room = 0,
         wait' = Over(wait, p), notFull' = Unlink(notFull, p),
         UNCHANGED <<unbounded, buf, notEmpty>>
  PROVE  /\ SidesKept' /\ wait' \in [Procs -> WaitStates]
         /\ \A x \in Procs : wait'[x] = IF x = p THEN "none" ELSE wait[x]
<1>1. /\ IsFiniteSet(Senders) /\ Senders \in SUBSET Procs /\ p \in Procs
      /\ \A x \in Receivers : x # p /\ x \in Procs
      /\ Capacity \in Nat
  BY ChannelGiven DEF Procs
<1>2. wait \in [Procs -> WaitStates] /\ Len(buf) \in Nat
  BY LenProperties DEF ChannelTyped
<1>3. \A x \in Procs : wait'[x] = IF x = p THEN "none" ELSE wait[x]
  BY <1>2 DEF Over
<1>4. /\ wait' \in [Procs -> WaitStates]
      /\ Lined(wait', notFull', Senders)
      /\ WithReason(wait', Senders, "parked") = WithReason(wait, Senders, "parked")
      /\ \A n \in Nat : Serves(wait, Senders, n) /\ wait[p] # "notify" => Serves(wait', Senders, n)
      /\ Serves(wait', Senders, 0)
  BY <1>1, <1>2, LeaverServes DEF SidesKept
<1>5. Lined(wait', notEmpty, Receivers) /\ Serves(wait', Receivers, Len(buf))
  BY <1>1, <1>3, SameSide DEF SidesKept
<1>6. ~unbounded => Len(buf) <= Capacity /\ Serves(wait', Senders, Capacity - Len(buf))
  <2> SUFFICES ASSUME ~unbounded PROVE Serves(wait', Senders, Capacity - Len(buf))
    BY DEF SidesKept
  <2>1. Serves(wait, Senders, Capacity - Len(buf)) /\ Capacity - Len(buf) \in Nat
    BY <1>1, <1>2 DEF SidesKept
  <2>2. CASE wait[p] # "notify"
    BY <1>4, <2>1, <2>2
  <2>3. CASE WithReason(wait, Senders, "parked") = {}
    BY <1>4, <2>3 DEF Serves
  <2>4. CASE Room = 0
    BY <1>4, <2>4 DEF Room
  <2> QED BY <2>2, <2>3, <2>4
<1>7. unbounded => WithReason(wait', Senders, "parked") = {}
  BY <1>4 DEF SidesKept
<1>8. UNCHANGED <<unbounded, buf, notEmpty>>
  OBVIOUS
<1> QED BY <1>3, <1>4, <1>5, <1>6, <1>7, <1>8 DEF SidesKept

\* A sender parks on a full buffer.
LEMMA SenderParks ==
  ASSUME ChannelTyped, SidesKept, NEW p \in Senders, wait[p] # "parked", ~unbounded, Room = 0,
         wait' = Parks(wait, p), notFull' = Register(Unlink(notFull, p), p),
         UNCHANGED <<unbounded, buf, notEmpty>>
  PROVE  /\ SidesKept' /\ wait' \in [Procs -> WaitStates]
         /\ \A x \in Procs : wait'[x] = IF x = p THEN "parked" ELSE wait[x]
<1>1. /\ IsFiniteSet(Senders) /\ Senders \in SUBSET Procs /\ p \in Procs
      /\ \A x \in Receivers : x # p /\ x \in Procs
      /\ Capacity \in Nat
  BY ChannelGiven DEF Procs
<1>2. wait \in [Procs -> WaitStates] /\ Len(buf) \in Nat
  BY LenProperties DEF ChannelTyped
<1>3. \A x \in Procs : wait'[x] = IF x = p THEN "parked" ELSE wait[x]
  BY <1>2 DEF Parks
<1>4. /\ wait' \in [Procs -> WaitStates]
      /\ Lined(wait', notFull', Senders) /\ Serves(wait', Senders, 0)
  BY <1>1, <1>2, ParkedServes DEF SidesKept
<1>5. Lined(wait', notEmpty, Receivers) /\ Serves(wait', Receivers, Len(buf))
  BY <1>1, <1>3, SameSide DEF SidesKept
<1>6. Capacity - Len(buf) = 0 /\ Len(buf) <= Capacity
  BY DEF Room, SidesKept
<1>7. UNCHANGED <<unbounded, buf, notEmpty>>
  OBVIOUS
<1> QED BY <1>3, <1>4, <1>5, <1>6, <1>7 DEF SidesKept

\* A sender pushes n values and wakes n receivers; a wake it had itself is used up.
LEMMA SenderPushes ==
  ASSUME ChannelTyped, SidesKept, NEW p \in Senders, wait[p] # "parked",
         NEW n \in Nat \ {0}, n <= Room,
         wait' = Over(Woken(notEmpty, wait, n), p), notFull' = Unlink(notFull, p),
         notEmpty' = Left(notEmpty, wait, n),
         Len(buf') = Len(buf) + n, UNCHANGED unbounded
  PROVE  /\ SidesKept' /\ wait' \in [Procs -> WaitStates]
         /\ wait'[p] = "none"
         /\ \A x \in Procs : wait'[x] # "none" => wait[x] # "none"
         /\ \A x \in Procs : wait'[x] = "parked" => wait[x] = "parked"
<1>1. /\ IsFiniteSet(Senders) /\ Senders \in SUBSET Procs /\ p \in Procs
      /\ IsFiniteSet(Receivers) /\ Receivers \in SUBSET Procs
      /\ \A x \in Receivers : x \notin Senders
      /\ Capacity \in Nat
  BY ChannelGiven DEF Procs
<1>2. /\ wait \in [Procs -> WaitStates] /\ Len(buf) \in Nat /\ n \in Nat
  BY LenProperties DEF ChannelTyped
<1> DEFINE w == Woken(notEmpty, wait, n)
<1>3. /\ w \in [Procs -> WaitStates]
      /\ Lined(w, notEmpty', Receivers) /\ Serves(w, Receivers, Len(buf) + n)
      /\ \A x \in Procs : \/ w[x] = wait[x]
                          \/ x \in Receivers /\ wait[x] = "parked" /\ w[x] = "notify"
  BY <1>1, <1>2, WokenServes DEF SidesKept
<1>4. wait' = Over(w, p)
  OBVIOUS
<1> HIDE DEF w
<1>5. \A x \in Senders : w[x] = wait[x]
  BY <1>1, <1>3
<1>6. /\ Lined(w, notFull, Senders) /\ w[p] # "parked"
      /\ \A k : Serves(wait, Senders, k) => Serves(w, Senders, k)
  BY <1>5, SameSide DEF SidesKept
<1>7. /\ wait' \in [Procs -> WaitStates]
      /\ Lined(wait', notFull', Senders)
      /\ WithReason(wait', Senders, "parked") = WithReason(w, Senders, "parked")
      /\ \A k \in Nat : Serves(w, Senders, k + 1) => Serves(wait', Senders, k)
  BY <1>1, <1>3, <1>4, <1>6, LeaverServes
<1>8. \A x \in Procs : wait'[x] = IF x = p THEN "none" ELSE w[x]
  BY <1>3, <1>4 DEF Over
<1>9. Lined(wait', notEmpty', Receivers) /\ Serves(wait', Receivers, Len(buf) + n)
  BY <1>1, <1>3, <1>8, SameSide
<1>10. ASSUME ~unbounded
       PROVE  Len(buf) + n <= Capacity /\ Serves(wait', Senders, Capacity - (Len(buf) + n))
  <2>1. n <= Capacity - Len(buf) /\ Serves(w, Senders, Capacity - Len(buf))
    BY <1>6, <1>10 DEF SidesKept, Room
  <2> DEFINE k == Capacity - (Len(buf) + n)
  <2>2. k \in Nat /\ k + 1 \in Nat /\ Capacity - Len(buf) \in Nat /\ k + 1 <= Capacity - Len(buf)
    BY <1>1, <1>2, <2>1
  <2>3. Len(buf) + n <= Capacity
    BY <1>1, <1>2, <2>1
  <2> HIDE DEF k
  <2>4. Serves(w, Senders, k + 1)
    BY <1>1, <2>1, <2>2, FewerServed
  <2>5. Serves(wait', Senders, k)
    BY <1>7, <2>2, <2>4
  <2> QED BY <2>3, <2>5 DEF k
<1>11. ASSUME unbounded PROVE WithReason(wait', Senders, "parked") = {}
  <2>1. WithReason(w, Senders, "parked") = WithReason(wait, Senders, "parked")
    BY <1>5 DEF WithReason
  <2> QED BY <1>7, <1>11, <2>1 DEF SidesKept
<1>12. SidesKept'
  BY <1>7, <1>9, <1>10, <1>11 DEF SidesKept
<1> QED BY <1>1, <1>3, <1>7, <1>8, <1>12

\* try_send pushes one value and wakes a receiver.
LEMMA OnePushed ==
  ASSUME ChannelTyped, SidesKept, Room > 0,
         wait' = Woken(notEmpty, wait, 1), notEmpty' = Left(notEmpty, wait, 1),
         Len(buf') = Len(buf) + 1, UNCHANGED <<unbounded, notFull>>
  PROVE  /\ SidesKept' /\ wait' \in [Procs -> WaitStates]
         /\ \A x \in Procs : wait'[x] # "none" => wait[x] # "none"
         /\ \A x \in Procs : wait'[x] = "parked" => wait[x] = "parked"
<1>1. /\ IsFiniteSet(Senders) /\ Senders \in SUBSET Procs
      /\ IsFiniteSet(Receivers) /\ Receivers \in SUBSET Procs
      /\ \A x \in Receivers : x \notin Senders
      /\ Capacity \in Nat
  BY ChannelGiven DEF Procs
<1>2. wait \in [Procs -> WaitStates] /\ Len(buf) \in Nat
  BY LenProperties DEF ChannelTyped
<1>3. /\ wait' \in [Procs -> WaitStates]
      /\ Lined(wait', notEmpty', Receivers) /\ Serves(wait', Receivers, Len(buf) + 1)
      /\ \A x \in Procs : \/ wait'[x] = wait[x]
                          \/ x \in Receivers /\ wait[x] = "parked" /\ wait'[x] = "notify"
  BY <1>1, <1>2, WokenServes DEF SidesKept
<1>4. \A x \in Senders : wait'[x] = wait[x]
  BY <1>1, <1>3
<1>5. /\ Lined(wait', notFull, Senders)
      /\ \A k : Serves(wait, Senders, k) => Serves(wait', Senders, k)
      /\ WithReason(wait', Senders, "parked") = WithReason(wait, Senders, "parked")
  BY <1>4, SameSide DEF SidesKept, WithReason
<1>6. ASSUME ~unbounded
      PROVE  Len(buf) + 1 <= Capacity /\ Serves(wait', Senders, Capacity - (Len(buf) + 1))
  <2>1. Capacity - Len(buf) > 0 /\ Serves(wait', Senders, Capacity - Len(buf))
    BY <1>5, <1>6 DEF SidesKept, Room
  <2>2. /\ Capacity - Len(buf) \in Nat /\ Capacity - (Len(buf) + 1) \in Nat
        /\ Capacity - (Len(buf) + 1) <= Capacity - Len(buf)
        /\ Len(buf) + 1 <= Capacity
    BY <1>1, <1>2, <2>1
  <2> QED BY <1>1, <2>1, <2>2, FewerServed
<1>7. unbounded => WithReason(wait', Senders, "parked") = {}
  BY <1>5 DEF SidesKept
<1>8. SidesKept'
  BY <1>3, <1>5, <1>6, <1>7 DEF SidesKept
<1> QED BY <1>3, <1>8

\* A receiver's wait ends and it takes nothing: its wake is not missed.
LEMMA ReceiverLeaves ==
  ASSUME ChannelTyped, SidesKept, NEW p \in Receivers, wait[p] # "parked",
         wait[p] # "notify" \/ Len(buf) = 0,
         wait' = Over(wait, p), notEmpty' = Unlink(notEmpty, p),
         UNCHANGED <<unbounded, buf, notFull>>
  PROVE  /\ SidesKept' /\ wait' \in [Procs -> WaitStates]
         /\ \A x \in Procs : wait'[x] = IF x = p THEN "none" ELSE wait[x]
<1>1. /\ IsFiniteSet(Receivers) /\ Receivers \in SUBSET Procs /\ p \in Procs
      /\ \A x \in Senders : x # p /\ x \in Procs
  BY ChannelGiven DEF Procs
<1>2. wait \in [Procs -> WaitStates] /\ Len(buf) \in Nat
  BY LenProperties DEF ChannelTyped
<1>3. \A x \in Procs : wait'[x] = IF x = p THEN "none" ELSE wait[x]
  BY <1>2 DEF Over
<1>4. /\ wait' \in [Procs -> WaitStates]
      /\ Lined(wait', notEmpty', Receivers)
      /\ \A n \in Nat : Serves(wait, Receivers, n) /\ wait[p] # "notify"
                          => Serves(wait', Receivers, n)
      /\ Serves(wait', Receivers, 0)
  BY <1>1, <1>2, LeaverServes DEF SidesKept
<1>5. Serves(wait', Receivers, Len(buf))
  BY <1>2, <1>4 DEF SidesKept
<1>6. /\ Lined(wait', notFull, Senders)
      /\ \A n : Serves(wait, Senders, n) => Serves(wait', Senders, n)
      /\ WithReason(wait', Senders, "parked") = WithReason(wait, Senders, "parked")
  BY <1>1, <1>3, SameSide DEF SidesKept, WithReason
<1>7. UNCHANGED <<unbounded, buf, notFull>>
  OBVIOUS
<1> QED BY <1>3, <1>4, <1>5, <1>6, <1>7 DEF SidesKept

\* A receiver parks on an empty buffer.
LEMMA ReceiverParks ==
  ASSUME ChannelTyped, SidesKept, NEW p \in Receivers, wait[p] # "parked", Len(buf) = 0,
         wait' = Parks(wait, p), notEmpty' = Register(Unlink(notEmpty, p), p),
         UNCHANGED <<unbounded, buf, notFull>>
  PROVE  /\ SidesKept' /\ wait' \in [Procs -> WaitStates]
         /\ \A x \in Procs : wait'[x] = IF x = p THEN "parked" ELSE wait[x]
<1>1. /\ IsFiniteSet(Receivers) /\ Receivers \in SUBSET Procs /\ p \in Procs
      /\ \A x \in Senders : x # p /\ x \in Procs
  BY ChannelGiven DEF Procs
<1>2. wait \in [Procs -> WaitStates]
  BY DEF ChannelTyped
<1>3. \A x \in Procs : wait'[x] = IF x = p THEN "parked" ELSE wait[x]
  BY <1>2 DEF Parks
<1>4. /\ wait' \in [Procs -> WaitStates]
      /\ Lined(wait', notEmpty', Receivers) /\ Serves(wait', Receivers, 0)
  BY <1>1, <1>2, ParkedServes DEF SidesKept
<1>5. /\ Lined(wait', notFull, Senders)
      /\ \A n : Serves(wait, Senders, n) => Serves(wait', Senders, n)
      /\ WithReason(wait', Senders, "parked") = WithReason(wait, Senders, "parked")
  BY <1>1, <1>3, SameSide DEF SidesKept, WithReason
<1>6. UNCHANGED <<unbounded, buf, notFull>>
  OBVIOUS
<1> QED BY <1>3, <1>4, <1>5, <1>6 DEF SidesKept

\* n values popped wake n senders.
LEMMA SendersWoken ==
  ASSUME ChannelTyped, SidesKept, NEW n \in Nat, n <= Len(buf)
  PROVE  /\ Woken(notFull, wait, n) \in [Procs -> WaitStates]
         /\ Lined(Woken(notFull, wait, n), Left(notFull, wait, n), Senders)
         /\ unbounded => WithReason(Woken(notFull, wait, n), Senders, "parked") = {}
         /\ ~unbounded => /\ Len(buf) - n <= Capacity
                          /\ Serves(Woken(notFull, wait, n), Senders, Capacity - (Len(buf) - n))
         /\ \A x \in Procs :
              \/ Woken(notFull, wait, n)[x] = wait[x]
              \/ /\ x \in Senders /\ wait[x] = "parked"
                 /\ Woken(notFull, wait, n)[x] = "notify"
<1>1. /\ IsFiniteSet(Senders) /\ Senders \in SUBSET Procs /\ Capacity \in Nat
  BY ChannelGiven DEF Procs
<1>2. wait \in [Procs -> WaitStates] /\ Len(buf) \in Nat
  BY LenProperties DEF ChannelTyped
<1> DEFINE w == Woken(notFull, wait, n)
           m == IF unbounded THEN 0 ELSE Capacity - Len(buf)
<1>3. m \in Nat /\ Serves(wait, Senders, m)
  BY <1>1, <1>2 DEF SidesKept, Serves
<1> HIDE DEF m
<1>4. /\ w \in [Procs -> WaitStates]
      /\ Lined(w, Left(notFull, wait, n), Senders)
      /\ Serves(w, Senders, m + n)
      /\ \A x \in Procs : \/ w[x] = wait[x]
                          \/ x \in Senders /\ wait[x] = "parked" /\ w[x] = "notify"
  BY <1>1, <1>2, <1>3, WokenServes DEF SidesKept
<1> HIDE DEF w
<1>5. unbounded => WithReason(w, Senders, "parked") = {}
  BY <1>1, <1>4 DEF SidesKept, WithReason
<1>6. ASSUME ~unbounded
      PROVE  Len(buf) - n <= Capacity /\ Serves(w, Senders, Capacity - (Len(buf) - n))
  <2>1. m + n = Capacity - (Len(buf) - n) /\ Len(buf) - n <= Capacity
    BY <1>1, <1>2, <1>6 DEF m, SidesKept
  <2> QED BY <1>4, <2>1
<1> QED BY <1>4, <1>5, <1>6 DEF w

\* A receiver pops n values and wakes n senders; a wake it had itself is used up.
LEMMA ReceiverPops ==
  ASSUME ChannelTyped, SidesKept, NEW p \in Receivers, wait[p] # "parked",
         NEW n \in Nat \ {0}, n <= Len(buf),
         wait' = Over(Woken(notFull, wait, n), p), notEmpty' = Unlink(notEmpty, p),
         notFull' = Left(notFull, wait, n),
         Len(buf') = Len(buf) - n, UNCHANGED unbounded
  PROVE  /\ SidesKept' /\ wait' \in [Procs -> WaitStates]
         /\ wait'[p] = "none"
         /\ \A x \in Procs : wait'[x] # "none" => wait[x] # "none"
         /\ \A x \in Procs : wait'[x] = "parked" => wait[x] = "parked"
<1>1. /\ IsFiniteSet(Senders) /\ Senders \in SUBSET Procs /\ p \in Procs
      /\ IsFiniteSet(Receivers) /\ Receivers \in SUBSET Procs
      /\ \A x \in Receivers : x \notin Senders
  BY ChannelGiven DEF Procs
<1>2. /\ Len(buf) \in Nat /\ n \in Nat
  BY LenProperties DEF ChannelTyped
<1> DEFINE w == Woken(notFull, wait, n)
<1>3. /\ w \in [Procs -> WaitStates]
      /\ Lined(w, notFull', Senders)
      /\ unbounded => WithReason(w, Senders, "parked") = {}
      /\ ~unbounded => /\ Len(buf) - n <= Capacity
                       /\ Serves(w, Senders, Capacity - (Len(buf) - n))
      /\ \A x \in Procs : \/ w[x] = wait[x]
                          \/ x \in Senders /\ wait[x] = "parked" /\ w[x] = "notify"
  BY <1>2, SendersWoken
<1>4. wait' = Over(w, p)
  OBVIOUS
<1> HIDE DEF w
<1>5. \A x \in Receivers : w[x] = wait[x]
  BY <1>1, <1>3
<1>6. /\ Lined(w, notEmpty, Receivers) /\ w[p] # "parked"
      /\ Serves(w, Receivers, Len(buf))
  BY <1>5, SameSide DEF SidesKept
<1>7. /\ wait' \in [Procs -> WaitStates]
      /\ Lined(wait', notEmpty', Receivers)
      /\ \A k \in Nat : Serves(w, Receivers, k + 1) => Serves(wait', Receivers, k)
  BY <1>1, <1>3, <1>4, <1>6, LeaverServes
<1>8. \A x \in Procs : wait'[x] = IF x = p THEN "none" ELSE w[x]
  BY <1>3, <1>4 DEF Over
<1>9. Serves(wait', Receivers, Len(buf) - n)
  <2> DEFINE k == Len(buf) - n
  <2>1. k \in Nat /\ k + 1 \in Nat /\ k + 1 <= Len(buf)
    BY <1>2
  <2> HIDE DEF k
  <2>2. Serves(w, Receivers, k + 1)
    BY <1>1, <1>2, <1>6, <2>1, FewerServed
  <2>3. Serves(wait', Receivers, k)
    BY <1>7, <2>1, <2>2
  <2> QED BY <2>3 DEF k
<1>10. /\ Lined(wait', notFull', Senders)
       /\ \A k : Serves(w, Senders, k) => Serves(wait', Senders, k)
       /\ WithReason(wait', Senders, "parked") = WithReason(w, Senders, "parked")
  BY <1>1, <1>3, <1>8, SameSide DEF WithReason
<1>11. SidesKept'
  BY <1>3, <1>7, <1>9, <1>10 DEF SidesKept
<1> QED BY <1>1, <1>3, <1>7, <1>8, <1>11

\* try_recv pops one value and wakes a sender.
LEMMA OnePopped ==
  ASSUME ChannelTyped, SidesKept, Len(buf) > 0,
         wait' = Woken(notFull, wait, 1), notFull' = Left(notFull, wait, 1),
         Len(buf') = Len(buf) - 1, UNCHANGED <<unbounded, notEmpty>>
  PROVE  /\ SidesKept' /\ wait' \in [Procs -> WaitStates]
         /\ \A x \in Procs : wait'[x] # "none" => wait[x] # "none"
         /\ \A x \in Procs : wait'[x] = "parked" => wait[x] = "parked"
<1>1. /\ IsFiniteSet(Receivers) /\ Receivers \in SUBSET Procs
      /\ \A x \in Receivers : x \notin Senders
  BY ChannelGiven DEF Procs
<1>2. Len(buf) \in Nat /\ 1 <= Len(buf)
  BY LenProperties DEF ChannelTyped
<1>3. /\ wait' \in [Procs -> WaitStates]
      /\ Lined(wait', notFull', Senders)
      /\ unbounded => WithReason(wait', Senders, "parked") = {}
      /\ ~unbounded => /\ Len(buf) - 1 <= Capacity
                       /\ Serves(wait', Senders, Capacity - (Len(buf) - 1))
      /\ \A x \in Procs : \/ wait'[x] = wait[x]
                          \/ x \in Senders /\ wait[x] = "parked" /\ wait'[x] = "notify"
  BY <1>2, SendersWoken
<1>4. \A x \in Receivers : wait'[x] = wait[x]
  BY <1>1, <1>3
<1>5. Lined(wait', notEmpty, Receivers) /\ Serves(wait', Receivers, Len(buf))
  BY <1>4, SameSide DEF SidesKept
<1>6. Serves(wait', Receivers, Len(buf) - 1)
  <2>1. Len(buf) - 1 \in Nat /\ Len(buf) - 1 <= Len(buf)
    BY <1>2
  <2> QED BY <1>1, <1>2, <1>5, <2>1, FewerServed
<1>7. SidesKept'
  BY <1>3, <1>5, <1>6 DEF SidesKept
<1> QED BY <1>3, <1>7

\* The last of one side leaves, or the channel is closed: nobody stays parked on the other.
LEMMA ReceiversFreed ==
  ASSUME ChannelTyped, SidesKept,
         wait' = WokenAll(notEmpty, wait), notEmpty' = <<>>, UNCHANGED <<unbounded, buf, notFull>>
  PROVE  /\ SidesKept' /\ wait' \in [Procs -> WaitStates]
         /\ WithReason(wait', Receivers, "parked") = {}
         /\ \A x \in Procs : \/ wait'[x] = wait[x]
                             \/ x \in Receivers /\ wait[x] = "parked" /\ wait'[x] = "notify"
<1>1. /\ Receivers \in SUBSET Procs /\ Senders \in SUBSET Procs
      /\ \A x \in Receivers : x \notin Senders
  BY ChannelGiven DEF Procs
<1>2. /\ wait' \in [Procs -> WaitStates]
      /\ WithReason(wait', Receivers, "parked") = {}
      /\ \A x \in Procs : \/ wait'[x] = wait[x]
                          \/ x \in Receivers /\ wait[x] = "parked" /\ wait'[x] = "notify"
  <2>1. wait \in [Procs -> WaitStates] /\ Lined(wait, notEmpty, Receivers)
    BY DEF SidesKept, ChannelTyped
  <2> DEFINE w == WokenAll(notEmpty, wait)
  <2>2. /\ w \in [Procs -> WaitStates]
        /\ WithReason(w, Receivers, "parked") = {}
        /\ \A x \in Procs : \/ w[x] = wait[x]
                            \/ x \in Receivers /\ wait[x] = "parked" /\ w[x] = "notify"
    BY ONLY <1>1, <2>1, WokenAllServes
  <2>3. wait' = w
    OBVIOUS
  <2> HIDE DEF w
  <2> QED BY <2>2, <2>3
<1>3. Lined(wait', notEmpty', Receivers) /\ Serves(wait', Receivers, Len(buf'))
  BY <1>2, NobodyLined
<1>4. \A x \in Senders : wait'[x] = wait[x]
  BY <1>1, <1>2
<1>5. /\ Lined(wait', notFull, Senders)
      /\ \A k : Serves(wait, Senders, k) => Serves(wait', Senders, k)
      /\ WithReason(wait', Senders, "parked") = WithReason(wait, Senders, "parked")
  BY <1>4, SameSide DEF SidesKept, WithReason
<1> QED BY <1>2, <1>3, <1>5 DEF SidesKept

\* And the other way round: a side that is freed leaves the other as it was.
LEMMA SendersFreed ==
  ASSUME ChannelTyped, SidesKept,
         wait' = WokenAll(notFull, wait), notFull' = <<>>, UNCHANGED <<unbounded, buf, notEmpty>>
  PROVE  /\ SidesKept' /\ wait' \in [Procs -> WaitStates]
         /\ WithReason(wait', Senders, "parked") = {}
         /\ \A x \in Procs : \/ wait'[x] = wait[x]
                             \/ x \in Senders /\ wait[x] = "parked" /\ wait'[x] = "notify"
<1>1. /\ Receivers \in SUBSET Procs /\ Senders \in SUBSET Procs
      /\ \A x \in Receivers : x \notin Senders
  BY ChannelGiven DEF Procs
<1>2. /\ wait' \in [Procs -> WaitStates]
      /\ WithReason(wait', Senders, "parked") = {}
      /\ \A x \in Procs : \/ wait'[x] = wait[x]
                          \/ x \in Senders /\ wait[x] = "parked" /\ wait'[x] = "notify"
  <2>1. wait \in [Procs -> WaitStates] /\ Lined(wait, notFull, Senders)
    BY DEF SidesKept, ChannelTyped
  <2> DEFINE w == WokenAll(notFull, wait)
  <2>2. /\ w \in [Procs -> WaitStates]
        /\ WithReason(w, Senders, "parked") = {}
        /\ \A x \in Procs : \/ w[x] = wait[x]
                            \/ x \in Senders /\ wait[x] = "parked" /\ w[x] = "notify"
    BY ONLY <1>1, <2>1, WokenAllServes
  <2>3. wait' = w
    OBVIOUS
  <2> HIDE DEF w
  <2> QED BY <2>2, <2>3
<1>3. Lined(wait', notFull', Senders) /\ \A n : Serves(wait', Senders, n)
  BY <1>2, NobodyLined
<1>4. \A x \in Receivers : wait'[x] = wait[x]
  BY <1>1, <1>2
<1>5. Lined(wait', notEmpty, Receivers) /\ Serves(wait', Receivers, Len(buf))
  BY <1>4, SameSide DEF SidesKept
<1> QED BY <1>2, <1>3, <1>5 DEF SidesKept

-----------------------------------------------------------------------------
(* The channel: the steps *)

\* A batch is reversed and cut into runs that keep its values.
LEMMA Batches ==
  ASSUME NEW S, NEW s \in Seq(S)
  PROVE  /\ Reverse(s) \in Seq(S) /\ Len(Reverse(s)) = Len(s)
         /\ \A n \in 1 .. Len(s) :
              /\ SubSeq(s, 1, Len(s) - n) \in Seq(S)
              /\ SubSeq(s, Len(s) - n + 1, Len(s)) \in Seq(S)
              /\ Len(SubSeq(s, Len(s) - n + 1, Len(s))) = n
         /\ \A n \in 0 .. Len(s) :
              /\ SubSeq(s, n + 1, Len(s)) \in Seq(S)
              /\ Len(SubSeq(s, n + 1, Len(s))) = Len(s) - n
<1>1. Len(s) \in Nat /\ \A i \in 1 .. Len(s) : s[i] \in S
  BY LenProperties, ElementOfSeq
<1>2. Reverse(s) \in Seq(S) /\ Len(Reverse(s)) = Len(s)
  <2>1. Reverse(s) = [i \in 1 .. Len(s) |-> s[(Len(s) - i) + 1]]
    BY DEF Reverse
  <2>2. \A i \in 1 .. Len(s) : (Len(s) - i) + 1 \in 1 .. Len(s)
    BY <1>1
  <2> QED BY <1>1, <2>1, <2>2
<1>3. ASSUME NEW n \in 1 .. Len(s)
      PROVE  /\ SubSeq(s, 1, Len(s) - n) \in Seq(S)
             /\ SubSeq(s, Len(s) - n + 1, Len(s)) \in Seq(S)
             /\ Len(SubSeq(s, Len(s) - n + 1, Len(s))) = n
  <2>1. /\ Len(s) - n \in Int /\ Len(s) - n + 1 \in Int /\ Len(s) \in Int
        /\ \A i \in 1 .. Len(s) - n : s[i] \in S
        /\ \A i \in Len(s) - n + 1 .. Len(s) : s[i] \in S
    BY <1>1
  <2>2. /\ Len(s) - n + 1 <= Len(s)
        /\ Len(s) - (Len(s) - n + 1) + 1 = n
    BY <1>1
  <2>3. SubSeq(s, 1, Len(s) - n) \in Seq(S)
    BY <2>1, SubSeqProperties
  <2>4. /\ SubSeq(s, Len(s) - n + 1, Len(s)) \in Seq(S)
        /\ Len(SubSeq(s, Len(s) - n + 1, Len(s))) =
             IF Len(s) - n + 1 <= Len(s) THEN Len(s) - (Len(s) - n + 1) + 1 ELSE 0
    BY <2>1, SubSeqProperties
  <2> QED BY <2>2, <2>3, <2>4, Zenon
<1>4. ASSUME NEW n \in 0 .. Len(s)
      PROVE  /\ SubSeq(s, n + 1, Len(s)) \in Seq(S)
             /\ Len(SubSeq(s, n + 1, Len(s))) = Len(s) - n
  <2>1. /\ SubSeq(s, n + 1, Len(s)) \in Seq(S)
        /\ DOMAIN SubSeq(s, n + 1, Len(s)) = 1 .. (Len(s) - n)
    BY BehindElements
  <2>2. Len(s) - n \in Nat
    BY <1>1
  <2> QED BY <2>1, <2>2, LenProperties
<1> QED BY <1>2, <1>3, <1>4

\* The room a sender finds.
LEMMA RoomIs ==
  ASSUME ChannelTyped, SidesKept
  PROVE  /\ Room \in Nat
         /\ unbounded /\ MaxMade > 0 /\ Senders # {} => Room > 0
<1>1. Cardinality(Senders) \in Nat /\ (Senders # {} => Cardinality(Senders) > 0)
  BY ChannelGiven, FS_CardinalityType, FS_EmptySet
<1>2. \A m, n \in Nat : m * n \in Nat /\ (m > 0 /\ n > 0 => m * n > 0)
  OBVIOUS
<1>3. CASE unbounded
  BY <1>1, <1>2, <1>3, ChannelGiven DEF Room
<1>4. CASE ~unbounded
  <2>1. Len(buf) \in Nat
    BY LenProperties DEF ChannelTyped
  <2> QED BY <1>4, <2>1, ChannelGiven DEF Room, SidesKept
<1> QED BY <1>3, <1>4

\* Steps that leave the buffer, the queues and the waits alone.
LEMMA SameSides ==
  ASSUME SidesKept, UNCHANGED <<unbounded, buf, wait, notFull, notEmpty>>
  PROVE  SidesKept'
BY DEF SidesKept, Lined, Serves, WithReason

\* A sender has the mutex: it pushes, parks or returns.
LEMMA SendStepCalm ==
  ASSUME Calm, NEW p \in Procs, SendStep(p)
  PROVE  Calm'
<1> DEFINE s == items[p]
           n == Least(Len(s), Room)
           rest == SubSeq(s, 1, Len(s) - n)
           run == Reverse(SubSeq(s, Len(s) - n + 1, Len(s)))
<1>1. /\ p \in Senders /\ pc[p] = "send" /\ wait[p] # "parked" /\ wait[p] # "cancel"
      /\ s \in Seq(Letters) /\ Len(s) \in Nat \ {0} /\ MaxMade > 0
      /\ ChannelTyped /\ SidesKept /\ InCalls
  <2>1. pc[p] = "send" /\ wait[p] # "parked" /\ wait[p] # "cancel"
    BY DEF SendStep
  <2>2. p \in Senders /\ s # <<>> /\ MaxMade > 0 /\ s \in Seq(Letters)
    BY <2>1 DEF Calm, InCalls, ChannelTyped
  <2>3. Len(s) \in Nat /\ Len(s) # 0
    BY <2>2, LenProperties, EmptySeq
  <2> QED BY <2>1, <2>2, <2>3 DEF Calm
<1>2. /\ Room \in Nat /\ (unbounded => Room > 0)
      /\ n \in Nat /\ n <= Len(s) /\ n <= Room /\ (n = 0 => Room = 0)
  <2>1. Room \in Nat /\ (unbounded => Room > 0)
    BY <1>1, RoomIs
  <2> HIDE DEF s
  <2> QED BY <1>1, <2>1 DEF Least
<1>3. UNCHANGED <<unbounded, senders, receivers, closed, strong, freed, factory, max, made, taken>>
  BY DEF SendStep, block
<1>4. ASSUME NEW r \in Seq(Letters), NEW l \in {"idle", "send"}, wait' \in [Procs -> WaitStates],
             items' = [items EXCEPT ![p] = r], pc' = [pc EXCEPT ![p] = l], buf' \in Seq(Letters)
      PROVE  ChannelTyped'
  BY <1>1, <1>3, <1>4 DEF ChannelTyped, PCs
<1>5. ASSUME \A x \in Procs : wait'[x] # "none" => wait[x] # "none",
             NEW r, r # <<>>, pc' = pc, items' = [items EXCEPT ![p] = r]
      PROVE  InCalls'
  <2>1. \A x \in Senders : x # p => items'[x] = items[x]
    BY <1>1, <1>5 DEF ChannelTyped
  <2>2. items'[p] = r
    BY <1>1, <1>5 DEF ChannelTyped
  <2> QED BY <1>1, <1>3, <1>5, <2>1, <2>2 DEF InCalls
<1>6. ASSUME \A x \in Procs : wait'[x] # "none" => wait[x] # "none", wait'[p] = "none",
             NEW r, pc' = [pc EXCEPT ![p] = "idle"], items' = [items EXCEPT ![p] = r]
      PROVE  InCalls'
  <2>1. \A x \in Senders : x # p => items'[x] = items[x]
    BY <1>1, <1>6 DEF ChannelTyped
  <2>2. \A x \in Procs : pc'[x] = IF x = p THEN "idle" ELSE pc[x]
    BY <1>1, <1>6 DEF ChannelTyped
  <2> QED BY <1>1, <1>3, <1>6, <2>1, <2>2 DEF InCalls
<1>7. <<>> \in Seq(Letters)
  OBVIOUS
<1>8. ASSUME SendReturns(p, s, "idle"), notFull' = Unlink(notFull, p), wait' = Over(wait, p),
             UNCHANGED <<buf, notEmpty>>,
             WithReason(wait, Senders, "parked") = {} \/ Room = 0
      PROVE  Calm'
  <2>1. /\ items' = [items EXCEPT ![p] = <<>>] /\ pc' = [pc EXCEPT ![p] = "idle"]
    BY <1>8 DEF SendReturns, Goto
  <2>2. /\ SidesKept' /\ wait' \in [Procs -> WaitStates]
        /\ \A x \in Procs : wait'[x] = IF x = p THEN "none" ELSE wait[x]
    BY <1>1, <1>3, <1>8, SenderLeaves
  <2>3. NobodySleepsOnClosed'
    BY <1>3, <2>2, StillAwake DEF Calm
  <2>4. ChannelTyped'
    BY <1>1, <1>4, <1>7, <1>8, <2>1, <2>2 DEF ChannelTyped
  <2>5. InCalls'
    BY <1>6, <2>1, <2>2
  <2> QED BY <2>2, <2>3, <2>4, <2>5 DEF Calm
<1>9. CASE Rejecting /\ SendReturns(p, s, "idle") /\ notFull' = Unlink(notFull, p)
            /\ wait' = Over(wait, p) /\ UNCHANGED <<buf, notEmpty>>
  BY <1>8, <1>9 DEF Calm, NobodySleepsOnClosed
<1>10. CASE /\ n > 0 /\ Push(run)
            /\ wait' = Over(Woken(notEmpty, wait, n), p)
            /\ notFull' = Unlink(notFull, p)
            /\ IF rest = <<>> THEN SendReturns(p, <<>>, "idle")
               ELSE items' = [items EXCEPT ![p] = rest] /\ UNCHANGED <<pc, timed, back>>
  <2>1. n \in 1 .. Len(s)
    BY <1>1, <1>2, <1>10
  <2> HIDE DEF n, s
  <2>2. rest \in Seq(Letters) /\ run \in Seq(Letters) /\ Len(run) = n
    <3> DEFINE last == SubSeq(s, Len(s) - n + 1, Len(s))
    <3>1. rest \in Seq(Letters) /\ last \in Seq(Letters) /\ Len(last) = n
      BY <1>1, <2>1, Batches
    <3> HIDE DEF last
    <3>2. Reverse(last) \in Seq(Letters) /\ Len(Reverse(last)) = n
      BY <3>1, Batches
    <3> QED BY <3>1, <3>2 DEF last
  <2> HIDE DEF rest, run
  <2>3. /\ buf' = buf \o run /\ notEmpty' = Left(notEmpty, wait, n)
    BY <1>10, <2>2 DEF Push
  <2>4. buf' \in Seq(Letters) /\ Len(buf') = Len(buf) + n
    BY <1>1, <2>2, <2>3, ConcatProperties DEF ChannelTyped
  <2>5. /\ SidesKept' /\ wait' \in [Procs -> WaitStates]
        /\ wait'[p] = "none"
        /\ \A x \in Procs : wait'[x] # "none" => wait[x] # "none"
        /\ \A x \in Procs : wait'[x] = "parked" => wait[x] = "parked"
    BY <1>1, <1>2, <1>3, <1>10, <2>1, <2>3, <2>4, SenderPushes
  <2>6. NobodySleepsOnClosed'
    BY <1>3, <2>5, StillAwake DEF Calm
  <2>7. CASE rest = <<>>
    <3>1. items' = [items EXCEPT ![p] = <<>>] /\ pc' = [pc EXCEPT ![p] = "idle"]
      BY <1>10, <2>7 DEF SendReturns, Goto
    <3> QED BY <1>4, <1>6, <1>7, <2>4, <2>5, <2>6, <3>1 DEF Calm
  <2>8. CASE rest # <<>>
    <3>1. items' = [items EXCEPT ![p] = rest] /\ pc' = pc /\ pc' = [pc EXCEPT ![p] = "send"]
      BY <1>1, <1>10, <2>8 DEF ChannelTyped
    <3> QED BY <1>4, <1>5, <2>2, <2>4, <2>5, <2>6, <2>8, <3>1 DEF Calm
  <2> QED BY <2>7, <2>8
<1>11. CASE /\ ~Rejecting /\ n = 0
            /\ notFull' = Register(Unlink(notFull, p), p)
            /\ wait' = Parks(wait, p)
            /\ UNCHANGED <<buf, notEmpty, pc, items, timed, back>>
  <2>1. Room = 0 /\ ~unbounded
    BY <1>2, <1>11
  <2>2. /\ SidesKept' /\ wait' \in [Procs -> WaitStates]
        /\ \A x \in Procs : wait'[x] = IF x = p THEN "parked" ELSE wait[x]
    BY <1>1, <1>3, <1>11, <2>1, SenderParks
  <2>3. NobodySleepsOnClosed'
    <3>1. Rejecting' = Rejecting
      BY <1>3 DEF Rejecting
    <3>2. p \notin Receivers /\ Receivers \subseteq Procs
      BY <1>1, ChannelGiven DEF Procs
    <3> QED BY <1>3, <1>11, <2>2, <3>1, <3>2 DEF Calm, NobodySleepsOnClosed, WithReason
  <2>4. ChannelTyped'
    BY <1>1, <1>3, <1>11, <2>2 DEF ChannelTyped
  <2>5. InCalls'
    BY <1>1, <1>3, <1>11, <2>2 DEF InCalls
  <2> QED BY <2>2, <2>3, <2>4, <2>5 DEF Calm
<1>12. CASE /\ ~Rejecting /\ n = 0 /\ SendReturns(p, s, "idle")
            /\ notFull' = Unlink(notFull, p) /\ wait' = Over(wait, p)
            /\ UNCHANGED <<buf, notEmpty>>
  BY <1>2, <1>8, <1>12
<1> HIDE DEF s, n
<1> QED BY <1>9, <1>10, <1>11, <1>12 DEF SendStep, s, n

\* The counts are natural, and count who holds a handle.
LEMMA HandlesAre ==
  ASSUME HandlesCounted
  PROVE  /\ senders \in Nat /\ receivers \in Nat
         /\ \A x \in Procs : pc[x] \notin {"out", "release"} =>
              (x \in Senders => senders > 0) /\ (x \in Receivers => receivers > 0)
<1>1. /\ Holding(Senders) \in SUBSET Senders /\ Holding(Receivers) \in SUBSET Receivers
      /\ \A x \in Procs : pc[x] \notin {"out", "release"} =>
           /\ x \in Senders => Holding(Senders) # {}
           /\ x \in Receivers => Holding(Receivers) # {}
  BY DEF Holding
<1>2. IsFiniteSet(Holding(Senders)) /\ IsFiniteSet(Holding(Receivers))
  BY <1>1, ChannelGiven, FS_Subset
<1>3. /\ Cardinality(Holding(Senders)) \in Nat /\ Cardinality(Holding(Receivers)) \in Nat
      /\ Holding(Senders) # {} => Cardinality(Holding(Senders)) > 0
      /\ Holding(Receivers) # {} => Cardinality(Holding(Receivers)) > 0
  BY <1>2, FS_CardinalityType, FS_EmptySet
<1> QED BY <1>1, <1>3 DEF HandlesCounted

\* A receiver has the mutex: it pops, parks or returns.
LEMMA RecvStepCalm ==
  ASSUME Calm, HandlesCounted, NEW p \in Procs, RecvStep(p)
  PROVE  Calm'
<1> DEFINE n == Least(max[p], Len(buf))
<1>1. /\ p \in Receivers /\ pc[p] = "recv" /\ wait[p] # "parked" /\ wait[p] # "cancel"
      /\ max[p] \in Nat \ {0} /\ buf \in Seq(Letters) /\ Len(buf) \in Nat
      /\ ChannelTyped /\ SidesKept /\ InCalls
  <2>1. pc[p] = "recv" /\ wait[p] # "parked" /\ wait[p] # "cancel"
    BY DEF RecvStep
  <2>2. p \in Receivers /\ max[p] > 0 /\ max[p] \in Nat
    BY <2>1 DEF Calm, InCalls, ChannelTyped
  <2>3. buf \in Seq(Letters) /\ Len(buf) \in Nat
    BY LenProperties DEF Calm, ChannelTyped
  <2> QED BY <2>1, <2>2, <2>3 DEF Calm
<1>2. n \in Nat /\ n <= Len(buf) /\ (n = 0 => Len(buf) = 0)
  BY <1>1 DEF Least
<1>3. UNCHANGED <<unbounded, senders, receivers, closed, strong, freed, factory, items, made, back>>
  BY DEF RecvStep, block
<1>4. ASSUME RecvReturns(p, "idle"), wait' \in [Procs -> WaitStates], buf' \in Seq(Letters),
             \A x \in Procs : wait'[x] # "none" => wait[x] # "none", wait'[p] = "none"
      PROVE  ChannelTyped' /\ InCalls'
  <2>1. max' = [max EXCEPT ![p] = 0] /\ pc' = [pc EXCEPT ![p] = "idle"]
    BY <1>4 DEF RecvReturns, Goto
  <2>2. ChannelTyped'
    BY <1>1, <1>3, <1>4, <2>1 DEF ChannelTyped, PCs
  <2>3. /\ \A x \in Procs : pc'[x] = IF x = p THEN "idle" ELSE pc[x]
        /\ \A x \in Receivers : x # p => max'[x] = max[x]
    BY <1>1, <2>1 DEF ChannelTyped
  <2>4. InCalls'
    BY <1>1, <1>3, <1>4, <2>3 DEF InCalls
  <2> QED BY <2>2, <2>4
<1> HIDE DEF n
<1>5. ASSUME RecvReturns(p, "idle"), notEmpty' = Unlink(notEmpty, p), wait' = Over(wait, p),
             UNCHANGED <<buf, notFull, taken>>, Len(buf) = 0
      PROVE  Calm'
  <2>1. /\ SidesKept' /\ wait' \in [Procs -> WaitStates]
        /\ \A x \in Procs : wait'[x] = IF x = p THEN "none" ELSE wait[x]
    BY <1>1, <1>3, <1>5, ReceiverLeaves
  <2>2. NobodySleepsOnClosed'
    BY <1>3, <2>1, StillAwake DEF Calm
  <2> QED BY <1>1, <1>4, <1>5, <2>1, <2>2 DEF Calm
<1>6. CASE /\ n > 0 /\ Pop(n)
           /\ wait' = Over(Woken(notFull, wait, Freed(n)), p)
           /\ notEmpty' = Unlink(notEmpty, p)
           /\ RecvReturns(p, "idle")
  <2>1. /\ buf' = SubSeq(buf, n + 1, Len(buf)) /\ notFull' = Left(notFull, wait, n)
        /\ wait' = Over(Woken(notFull, wait, n), p)
    BY <1>6 DEF Pop, Freed
  <2>2. n \in 0 .. Len(buf) /\ n \in Nat \ {0}
    BY <1>1, <1>2, <1>6
  <2>3. buf' \in Seq(Letters) /\ Len(buf') = Len(buf) - n
    BY <1>1, <2>1, <2>2, Batches
  <2>4. /\ SidesKept' /\ wait' \in [Procs -> WaitStates]
        /\ wait'[p] = "none"
        /\ \A x \in Procs : wait'[x] # "none" => wait[x] # "none"
        /\ \A x \in Procs : wait'[x] = "parked" => wait[x] = "parked"
    BY <1>1, <1>2, <1>3, <1>6, <2>1, <2>2, <2>3, ReceiverPops
  <2>5. NobodySleepsOnClosed'
    BY <1>3, <2>4, StillAwake DEF Calm
  <2> QED BY <1>4, <1>6, <2>3, <2>4, <2>5 DEF Calm
<1>7. CASE Drained /\ RecvReturns(p, "idle") /\ notEmpty' = Unlink(notEmpty, p)
           /\ wait' = Over(wait, p) /\ UNCHANGED <<buf, notFull, taken>>
  <2>1. Len(buf) = 0
    BY <1>7, EmptySeq DEF Drained
  <2> QED BY <1>5, <1>7, <2>1
<1>8. CASE /\ n = 0 /\ ~Drained
           /\ notEmpty' = Register(Unlink(notEmpty, p), p)
           /\ wait' = Parks(wait, p)
           /\ UNCHANGED <<buf, notFull, taken, max, timed, pc>>
  <2>1. Len(buf) = 0 /\ ~closed /\ senders # 0
    <3>1. Len(buf) = 0 /\ buf = <<>>
      BY <1>1, <1>2, <1>8, EmptySeq
    <3> QED BY <1>8, <3>1 DEF Drained
  <2>2. /\ SidesKept' /\ wait' \in [Procs -> WaitStates]
        /\ \A x \in Procs : wait'[x] = IF x = p THEN "parked" ELSE wait[x]
    BY <1>1, <1>3, <1>8, <2>1, ReceiverParks
  <2>3. NobodySleepsOnClosed'
    <3>1. Rejecting' = Rejecting
      BY <1>3 DEF Rejecting
    <3>2. p \notin Senders /\ Senders \subseteq Procs
      BY <1>1, ChannelGiven DEF Procs
    <3>3. senders > 0
      BY <2>1, HandlesAre
    <3> QED BY <1>3, <2>1, <2>2, <3>1, <3>2, <3>3 DEF Calm, NobodySleepsOnClosed, WithReason
  <2>4. ChannelTyped'
    BY <1>1, <1>3, <1>8, <2>2 DEF ChannelTyped
  <2>5. InCalls'
    BY <1>1, <1>3, <1>8, <2>2 DEF InCalls
  <2> QED BY <2>1, <2>2, <2>3, <2>4, <2>5 DEF Calm
<1>9. CASE /\ n = 0 /\ ~Drained /\ RecvReturns(p, "idle")
           /\ notEmpty' = Unlink(notEmpty, p) /\ wait' = Over(wait, p)
           /\ UNCHANGED <<buf, notFull, taken>>
  BY <1>2, <1>5, <1>9
<1> QED BY <1>6, <1>7, <1>8, <1>9 DEF RecvStep, n

\* A cancelled call hands back what it has, and nobody's wake.
LEMMA CancelledCalm ==
  ASSUME Calm, NEW p \in Procs, SendCancelled(p) \/ RecvCancelled(p)
  PROVE  Calm'
<1>1. ChannelTyped /\ SidesKept /\ InCalls /\ NobodySleepsOnClosed
  BY DEF Calm
<1>2. CASE SendCancelled(p)
  <2>1. /\ p \in Senders /\ wait[p] = "cancel" /\ notFull' = Unlink(notFull, p)
        /\ wait' = Over(wait, p)
        /\ UNCHANGED <<unbounded, senders, receivers, closed, strong, freed, factory,
                       buf, notEmpty, max, made>>
        /\ items' = [items EXCEPT ![p] = <<>>] /\ pc' = [pc EXCEPT ![p] = "unwind"]
    BY <1>1, <1>2 DEF SendCancelled, SendReturns, Goto, InCalls, block
  <2>2. /\ SidesKept' /\ wait' \in [Procs -> WaitStates]
        /\ \A x \in Procs : wait'[x] = IF x = p THEN "none" ELSE wait[x]
    BY <1>1, <2>1, SenderLeaves
  <2>3. NobodySleepsOnClosed'
    BY <1>1, <2>1, <2>2, StillAwake
  <2>4. <<>> \in Seq(Letters)
    OBVIOUS
  <2>5. ChannelTyped'
    BY <1>1, <2>1, <2>2, <2>4 DEF ChannelTyped, PCs
  <2>6. /\ \A x \in Procs : pc'[x] = IF x = p THEN "unwind" ELSE pc[x]
        /\ \A x \in Senders : x # p => items'[x] = items[x]
    BY <1>1, <2>1 DEF ChannelTyped
  <2>7. InCalls'
    BY <1>1, <2>1, <2>2, <2>6 DEF InCalls
  <2> QED BY <2>2, <2>3, <2>5, <2>7 DEF Calm
<1>3. CASE RecvCancelled(p)
  <2>1. /\ p \in Receivers /\ wait[p] = "cancel" /\ notEmpty' = Unlink(notEmpty, p)
        /\ wait' = Over(wait, p)
        /\ UNCHANGED <<unbounded, senders, receivers, closed, strong, freed, factory,
                       buf, notFull, items, made>>
        /\ max' = [max EXCEPT ![p] = 0] /\ pc' = [pc EXCEPT ![p] = "unwind"]
    BY <1>1, <1>3 DEF RecvCancelled, RecvReturns, Goto, InCalls, block
  <2>2. /\ SidesKept' /\ wait' \in [Procs -> WaitStates]
        /\ \A x \in Procs : wait'[x] = IF x = p THEN "none" ELSE wait[x]
    BY <1>1, <2>1, ReceiverLeaves
  <2>3. NobodySleepsOnClosed'
    BY <1>1, <2>1, <2>2, StillAwake
  <2>4. ChannelTyped'
    BY <1>1, <2>1, <2>2 DEF ChannelTyped, PCs
  <2>5. /\ \A x \in Procs : pc'[x] = IF x = p THEN "unwind" ELSE pc[x]
        /\ \A x \in Receivers : x # p => max'[x] = max[x]
    BY <1>1, <2>1 DEF ChannelTyped
  <2>6. InCalls'
    BY <1>1, <2>1, <2>2, <2>5 DEF InCalls
  <2> QED BY <2>2, <2>3, <2>4, <2>6 DEF Calm
<1> QED BY <1>2, <1>3

\* A call begins; a try goes one way or the other.
LEMMA CallsCalm ==
  ASSUME Calm, NEW p \in Procs,
         \/ \E n \in 1 .. MaxBatch, t \in BOOLEAN : BeginSend(p, n, t) \/ BeginRecv(p, n, t)
         \/ TrySend(p) \/ TryRecv(p)
  PROVE  Calm'
<1>1. ChannelTyped /\ SidesKept /\ InCalls /\ NobodySleepsOnClosed
  BY DEF Calm
<1>2. ASSUME NEW n \in 1 .. MaxBatch, NEW t \in BOOLEAN, BeginSend(p, n, t) PROVE Calm'
  <2>1. /\ pc[p] = "idle" /\ p \in Senders /\ made[p] + n <= MaxMade
        /\ made' = [made EXCEPT ![p] = @ + n]
        /\ items' = [items EXCEPT ![p] = Reverse(Fresh(p, n))]
        /\ pc' = [pc EXCEPT ![p] = "send"]
        /\ UNCHANGED <<unbounded, buf, senders, receivers, closed, strong, freed, factory,
                       notFull, notEmpty, wait, max>>
    BY <1>2 DEF BeginSend, Goto, block
  <2>2. made[p] \in Nat /\ n \in Nat \ {0}
    BY <1>1, <2>1, ChannelGiven DEF ChannelTyped
  <2>3. Fresh(p, n) \in Seq(Letters) /\ Len(Fresh(p, n)) = n
    BY <2>1, <2>2 DEF Fresh, Letters
  <2>4. Reverse(Fresh(p, n)) \in Seq(Letters) /\ Reverse(Fresh(p, n)) # <<>>
    <3> DEFINE fresh == Fresh(p, n)
    <3>1. fresh \in Seq(Letters) /\ Len(fresh) = n
      BY <2>3
    <3> HIDE DEF fresh
    <3>2. Reverse(fresh) \in Seq(Letters) /\ Len(Reverse(fresh)) = n
      BY <3>1, Batches
    <3>3. Reverse(fresh) # <<>>
      BY <2>2, <3>2, EmptySeq
    <3> QED BY <3>2, <3>3 DEF fresh
  <2>5. ChannelTyped'
    BY <1>1, <2>1, <2>2, <2>4 DEF ChannelTyped, PCs
  <2>6. MaxMade > 0
    BY <2>1, <2>2, ChannelGiven
  <2>7. /\ \A x \in Procs : pc'[x] = IF x = p THEN "send" ELSE pc[x]
        /\ \A x \in Senders : items'[x] = IF x = p THEN Reverse(Fresh(p, n)) ELSE items[x]
    BY <1>1, <2>1 DEF ChannelTyped
  <2>8. InCalls'
    BY <1>1, <2>1, <2>4, <2>6, <2>7 DEF InCalls
  <2>9. NobodySleepsOnClosed'
    BY <1>1, <2>1, StillAwake
  <2> QED BY <1>1, <2>1, <2>5, <2>8, <2>9, SameSides DEF Calm
<1>3. ASSUME NEW n \in 1 .. MaxBatch, NEW t \in BOOLEAN, BeginRecv(p, n, t) PROVE Calm'
  <2>1. /\ pc[p] = "idle" /\ p \in Receivers
        /\ max' = [max EXCEPT ![p] = n]
        /\ pc' = [pc EXCEPT ![p] = "recv"]
        /\ UNCHANGED <<unbounded, buf, senders, receivers, closed, strong, freed, factory,
                       notFull, notEmpty, wait, items, made>>
    BY <1>3 DEF BeginRecv, Goto, block
  <2>2. n \in Nat /\ n > 0
    BY ChannelGiven
  <2>3. ChannelTyped'
    BY <1>1, <2>1, <2>2 DEF ChannelTyped, PCs
  <2>4. /\ \A x \in Procs : pc'[x] = IF x = p THEN "recv" ELSE pc[x]
        /\ \A x \in Receivers : max'[x] = IF x = p THEN n ELSE max[x]
    BY <1>1, <2>1 DEF ChannelTyped
  <2>5. InCalls'
    BY <1>1, <2>1, <2>2, <2>4 DEF InCalls
  <2>6. NobodySleepsOnClosed'
    BY <1>1, <2>1, StillAwake
  <2> QED BY <1>1, <2>1, <2>3, <2>5, <2>6, SameSides DEF Calm
<1>4. CASE TrySend(p)
  <2>1. /\ pc[p] = "idle" /\ p \in Senders
        /\ made' = [made EXCEPT ![p] = @ + 1]
        /\ UNCHANGED <<unbounded, senders, receivers, closed, strong, freed, factory,
                       notFull, pc, items, max>>
    BY <1>4 DEF TrySend, block
  <2>2. Room \in Nat /\ made[p] \in Nat
    BY <1>1, <2>1, RoomIs DEF ChannelTyped
  <2>3. CASE Rejecting \/ Room = 0
    <3>1. UNCHANGED <<buf, notEmpty, wait>>
      BY <1>4, <2>3 DEF TrySend
    <3>2. ChannelTyped' /\ InCalls'
      BY <1>1, <2>1, <2>2, <3>1 DEF ChannelTyped, InCalls
    <3>3. NobodySleepsOnClosed'
      BY <1>1, <2>1, <3>1, StillAwake
    <3> QED BY <1>1, <2>1, <3>1, <3>2, <3>3, SameSides DEF Calm
  <2>4. CASE ~(Rejecting \/ Room = 0)
    <3>1. Fresh(p, 1) \in Seq(Letters) /\ Len(Fresh(p, 1)) = 1
      BY <2>1, <2>2 DEF Fresh, Letters
    <3>2. /\ buf' = buf \o Fresh(p, 1) /\ notEmpty' = Left(notEmpty, wait, Len(Fresh(p, 1)))
          /\ wait' = Woken(notEmpty, wait, 1)
      BY <1>4, <2>4 DEF TrySend, Push
    <3>3. notEmpty' = Left(notEmpty, wait, 1)
      BY <3>1, <3>2
    <3>4. buf' \in Seq(Letters) /\ Len(buf') = Len(buf) + 1
      <4> DEFINE fresh == Fresh(p, 1)
      <4>1. fresh \in Seq(Letters) /\ Len(fresh) = 1 /\ buf' = buf \o fresh /\ buf \in Seq(Letters)
        BY <1>1, <3>1, <3>2 DEF ChannelTyped
      <4> HIDE DEF fresh
      <4>2. buf \o fresh \in Seq(Letters) /\ Len(buf \o fresh) = Len(buf) + Len(fresh)
        BY <4>1, ConcatProperties
      <4> QED BY <4>1, <4>2
    <3>5. /\ SidesKept' /\ wait' \in [Procs -> WaitStates]
          /\ \A x \in Procs : wait'[x] # "none" => wait[x] # "none"
          /\ \A x \in Procs : wait'[x] = "parked" => wait[x] = "parked"
      BY <1>1, <2>1, <2>2, <2>4, <3>2, <3>3, <3>4, OnePushed
    <3>6. ChannelTyped' /\ InCalls'
      BY <1>1, <2>1, <2>2, <3>4, <3>5 DEF ChannelTyped, InCalls
    <3>7. NobodySleepsOnClosed'
      BY <1>1, <2>1, <3>5, StillAwake
    <3> QED BY <3>5, <3>6, <3>7 DEF Calm
  <2> QED BY <2>3, <2>4
<1>5. CASE TryRecv(p)
  <2>1. /\ buf # <<>> /\ buf' = SubSeq(buf, 1 + 1, Len(buf))
        /\ notFull' = Left(notFull, wait, 1) /\ wait' = Woken(notFull, wait, 1)
        /\ UNCHANGED <<unbounded, senders, receivers, closed, strong, freed, factory,
                       notEmpty, pc, items, max, made>>
    BY <1>5 DEF TryRecv, Pop, Freed, block, calls
  <2>2. buf \in Seq(Letters) /\ Len(buf) \in Nat /\ Len(buf) # 0
    BY <1>1, <2>1, LenProperties, EmptySeq DEF ChannelTyped
  <2>3. 1 \in 0 .. Len(buf) /\ Len(buf) > 0
    BY <2>2
  <2>4. buf' \in Seq(Letters) /\ Len(buf') = Len(buf) - 1
    BY <2>1, <2>2, <2>3, Batches
  <2>5. /\ SidesKept' /\ wait' \in [Procs -> WaitStates]
        /\ \A x \in Procs : wait'[x] # "none" => wait[x] # "none"
        /\ \A x \in Procs : wait'[x] = "parked" => wait[x] = "parked"
    BY <1>1, <2>1, <2>3, <2>4, OnePopped
  <2>6. ChannelTyped' /\ InCalls'
    BY <1>1, <2>1, <2>4, <2>5 DEF ChannelTyped, InCalls
  <2>7. NobodySleepsOnClosed'
    BY <1>1, <2>1, <2>5, StillAwake
  <2> QED BY <2>5, <2>6, <2>7 DEF Calm
<1> QED BY <1>2, <1>3, <1>4, <1>5

\* A deadline or a cancellation wins a wait.
LEMMA WinsCalm ==
  ASSUME Calm, NEW p \in Procs, CancelWake(p) \/ Expire(p)
  PROVE  Calm'
<1>1. ChannelTyped /\ SidesKept /\ InCalls /\ NobodySleepsOnClosed
  BY DEF Calm
<1>2. PICK r \in {"cancel", "timeout"} : wait' = Wins(wait, p, r)
  BY DEF CancelWake, Expire
<1>3. /\ wait[p] = "parked"
      /\ UNCHANGED <<unbounded, buf, senders, receivers, closed, strong, freed, factory,
                     notFull, notEmpty, pc, items, max, made>>
  BY DEF CancelWake, Expire, block, calls
<1>4. wait \in [Procs -> WaitStates] /\ Senders \in SUBSET Procs /\ Receivers \in SUBSET Procs
  BY <1>1 DEF ChannelTyped, Procs
<1>5. /\ wait' \in [Procs -> WaitStates]
      /\ Lined(wait', notFull, Senders)
      /\ \A n : Serves(wait, Senders, n) => Serves(wait', Senders, n)
  BY <1>1, <1>2, <1>3, <1>4, WonServes DEF SidesKept
<1>6. /\ Lined(wait', notEmpty, Receivers)
      /\ \A n : Serves(wait, Receivers, n) => Serves(wait', Receivers, n)
  BY <1>1, <1>2, <1>3, <1>4, WonServes DEF SidesKept
<1>7. \A x \in Procs : wait'[x] = IF x = p THEN r ELSE wait[x]
  BY <1>2, <1>4 DEF Wins
<1>8. WithReason(wait', Senders, "parked") \subseteq WithReason(wait, Senders, "parked")
  BY <1>4, <1>7 DEF WithReason
<1>9. SidesKept'
  BY <1>1, <1>3, <1>5, <1>6, <1>8 DEF SidesKept
<1>10. ChannelTyped' /\ InCalls'
  BY <1>1, <1>3, <1>5, <1>7 DEF ChannelTyped, InCalls
<1>11. NobodySleepsOnClosed'
  BY <1>1, <1>3, <1>7, StillAwake
<1> QED BY <1>9, <1>10, <1>11 DEF Calm

\* Handles come and go. The last one out, and close, leave nobody parked who waits for it.
LEMMA HandlesCalm ==
  ASSUME Calm, HandlesCounted, NEW p \in Procs,
         \/ GetHandle(p) \/ Drop(p) \/ Release(p) \/ Close(p) \/ DropFactory
  PROVE  Calm'
<1>1. ChannelTyped /\ SidesKept /\ InCalls /\ NobodySleepsOnClosed
  BY DEF Calm
<1>2. wait \in [Procs -> WaitStates] /\ Senders \subseteq Procs /\ Receivers \subseteq Procs
  BY <1>1 DEF ChannelTyped, Procs
<1>3. /\ senders \in Nat /\ receivers \in Nat
      /\ p \in Senders /\ pc[p] \in {"idle", "unwind"} => senders > 0
      /\ p \in Receivers /\ pc[p] \in {"idle", "unwind"} => receivers > 0
  BY HandlesAre
<1>4. UNCHANGED <<unbounded, buf, items, max, made>>
  BY DEF GetHandle, Drop, Release, Close, DropFactory, calls
<1>5. ASSUME NEW l \in PCs \ {"send", "recv"}, pc[p] \notin {"send", "recv"},
             pc' = [pc EXCEPT ![p] = l], wait' \in [Procs -> WaitStates],
             \A x \in Procs : wait'[x] # "none" => wait[x] # "none"
      PROVE  InCalls' /\ pc' \in [Procs -> PCs]
  <2>1. \A x \in Procs : pc'[x] = IF x = p THEN l ELSE pc[x]
    BY <1>1, <1>5 DEF ChannelTyped
  <2>2. InCalls'
    BY <1>1, <1>4, <1>5, <2>1 DEF InCalls
  <2> QED BY <1>1, <1>5, <2>2 DEF ChannelTyped
<1>6. CASE GetHandle(p)
  <2>1. /\ UNCHANGED <<closed, freed, factory, notFull, notEmpty, wait>>
        /\ pc[p] = "out" /\ pc' = [pc EXCEPT ![p] = "idle"]
        /\ \/ senders' = senders + 1 /\ UNCHANGED receivers
           \/ receivers' = receivers + 1 /\ UNCHANGED senders
    BY <1>6 DEF GetHandle, Goto
  <2>2. InCalls' /\ pc' \in [Procs -> PCs]
    BY <1>2, <1>5, <2>1 DEF PCs
  <2>3. ChannelTyped'
    BY <1>1, <1>4, <2>1, <2>2 DEF ChannelTyped
  <2>4. NobodySleepsOnClosed'
    BY <1>1, <1>3, <2>1 DEF NobodySleepsOnClosed, Rejecting, WithReason
  <2> QED BY <1>1, <1>4, <2>1, <2>2, <2>3, <2>4, SameSides DEF Calm
<1>7. CASE Release(p) \/ DropFactory
  <2>1. /\ UNCHANGED <<closed, senders, receivers, notFull, notEmpty, wait>>
        /\ freed' \in BOOLEAN /\ factory' \in BOOLEAN
        /\ (pc[p] = "release" /\ pc' = [pc EXCEPT ![p] = "out"]) \/ UNCHANGED pc
    BY <1>1, <1>7 DEF Release, DropFactory, ReleaseBlock, Goto, ChannelTyped
  <2>2. InCalls' /\ pc' \in [Procs -> PCs]
    <3>1. CASE UNCHANGED pc
      BY <1>1, <1>4, <2>1, <3>1 DEF InCalls, ChannelTyped
    <3>2. CASE pc[p] = "release" /\ pc' = [pc EXCEPT ![p] = "out"]
      BY <1>2, <1>5, <2>1, <3>2 DEF PCs
    <3> QED BY <2>1, <3>1, <3>2
  <2>3. ChannelTyped'
    BY <1>1, <1>4, <2>1, <2>2 DEF ChannelTyped
  <2>4. NobodySleepsOnClosed'
    BY <1>1, <2>1, StillAwake
  <2> QED BY <1>1, <1>4, <2>1, <2>2, <2>3, <2>4, SameSides DEF Calm
<1>8. CASE Drop(p)
  <2>1. /\ UNCHANGED <<closed, freed, factory>>
        /\ pc[p] \in {"idle", "unwind"} /\ pc' = [pc EXCEPT ![p] = "release"]
    BY <1>8 DEF Drop, Goto
  <2>2. ASSUME wait' \in [Procs -> WaitStates], SidesKept',
               \A x \in Procs : wait'[x] # "none" => wait[x] # "none"
        PROVE  ChannelTyped' /\ InCalls'
    <3>1. InCalls' /\ pc' \in [Procs -> PCs]
      BY <1>5, <2>1, <2>2 DEF PCs
    <3> QED BY <1>1, <1>4, <2>1, <2>2, <3>1 DEF ChannelTyped
  <2>3. CASE p \in Senders
    <3>1. senders' = senders - 1 /\ UNCHANGED <<receivers, notFull>>
      BY <1>8, <2>3 DEF Drop
    <3>2. CASE senders = 1
      <4>1. wait' = WokenAll(notEmpty, wait) /\ notEmpty' = <<>>
        BY <1>8, <2>3, <3>2 DEF Drop, LastOut
      <4>2. /\ SidesKept' /\ wait' \in [Procs -> WaitStates]
            /\ WithReason(wait', Receivers, "parked") = {}
            /\ \A x \in Procs : \/ wait'[x] = wait[x]
                                \/ x \in Receivers /\ wait[x] = "parked" /\ wait'[x] = "notify"
        BY <1>1, <1>4, <3>1, <4>1, ReceiversFreed
      <4>3. NobodySleepsOnClosed'
        BY <1>1, <1>2, <2>1, <3>1, <4>2 DEF NobodySleepsOnClosed, Rejecting, WithReason
      <4>4. \A x \in Procs : wait'[x] # "none" => wait[x] # "none"
        BY <4>2
      <4> QED BY <2>2, <4>2, <4>3, <4>4 DEF Calm
    <3>3. CASE senders # 1
      <4>1. UNCHANGED <<wait, notEmpty>>
        BY <1>8, <2>3, <3>3 DEF Drop, LastOut
      <4>2. senders' > 0
        BY <1>3, <2>1, <2>3, <3>1, <3>3
      <4>3. NobodySleepsOnClosed'
        BY <1>1, <2>1, <3>1, <4>1, <4>2 DEF NobodySleepsOnClosed, Rejecting, WithReason
      <4>4. SidesKept'
        BY <1>1, <1>4, <3>1, <4>1, SameSides
      <4> QED BY <1>2, <2>2, <4>1, <4>3, <4>4 DEF Calm
    <3> QED BY <3>2, <3>3
  <2>4. CASE p \notin Senders
    <3>1. receivers' = receivers - 1 /\ UNCHANGED <<senders, notEmpty>> /\ p \in Receivers
      BY <1>8, <2>4 DEF Drop, Procs
    <3>2. CASE receivers = 1
      <4>1. wait' = WokenAll(notFull, wait) /\ notFull' = <<>>
        BY <1>8, <2>4, <3>2 DEF Drop, LastOut
      <4>2. /\ SidesKept' /\ wait' \in [Procs -> WaitStates]
            /\ WithReason(wait', Senders, "parked") = {}
            /\ \A x \in Procs : \/ wait'[x] = wait[x]
                                \/ x \in Senders /\ wait[x] = "parked" /\ wait'[x] = "notify"
        BY <1>1, <1>4, <3>1, <4>1, SendersFreed
      <4>3. NobodySleepsOnClosed'
        BY <1>1, <1>2, <2>1, <3>1, <4>2 DEF NobodySleepsOnClosed, Rejecting, WithReason
      <4>4. \A x \in Procs : wait'[x] # "none" => wait[x] # "none"
        BY <4>2
      <4> QED BY <2>2, <4>2, <4>3, <4>4 DEF Calm
    <3>3. CASE receivers # 1
      <4>1. UNCHANGED <<wait, notFull>>
        BY <1>8, <2>4, <3>3 DEF Drop, LastOut
      <4>2. receivers' # 0
        BY <1>3, <2>1, <3>1, <3>3
      <4>3. NobodySleepsOnClosed'
        BY <1>1, <2>1, <3>1, <4>1, <4>2 DEF NobodySleepsOnClosed, Rejecting, WithReason
      <4>4. SidesKept'
        BY <1>1, <1>4, <3>1, <4>1, SameSides
      <4> QED BY <1>2, <2>2, <4>1, <4>3, <4>4 DEF Calm
    <3> QED BY <3>2, <3>3
  <2> QED BY <2>3, <2>4
<1>9. CASE Close(p)
  <2> DEFINE w == WokenAll(notEmpty, wait)
             v == WokenAll(notFull, w)
  <2>1. /\ wait' = v /\ notFull' = <<>> /\ notEmpty' = <<>> /\ closed' = TRUE
        /\ UNCHANGED <<senders, receivers, freed, factory, pc>>
    BY <1>9 DEF Close, CloseWakes
  <2>2. /\ Lined(wait, notEmpty, Receivers) /\ Lined(wait, notFull, Senders)
        /\ Senders \in SUBSET Procs /\ Receivers \in SUBSET Procs
        /\ \A x \in Receivers : x \notin Senders
    BY <1>1, ChannelGiven DEF SidesKept, Procs
  <2>3. /\ w \in [Procs -> WaitStates]
        /\ WithReason(w, Receivers, "parked") = {}
        /\ \A x \in Procs : \/ w[x] = wait[x]
                            \/ x \in Receivers /\ wait[x] = "parked" /\ w[x] = "notify"
    BY ONLY <1>2, <2>2, WokenAllServes
  <2> HIDE DEF w
  <2>4. Lined(w, notFull, Senders)
    BY <1>2, <2>2, <2>3, SameSide
  <2>5. /\ v \in [Procs -> WaitStates]
        /\ WithReason(v, Senders, "parked") = {}
        /\ \A x \in Procs : \/ v[x] = w[x]
                            \/ x \in Senders /\ w[x] = "parked" /\ v[x] = "notify"
    BY ONLY <2>2, <2>3, <2>4, WokenAllServes
  <2> HIDE DEF v
  <2>6. WithReason(v, Receivers, "parked") = {}
    BY <1>2, <2>2, <2>3, <2>5 DEF WithReason
  <2>7. SidesKept'
    <3>1. /\ Lined(v, <<>>, Receivers) /\ Lined(v, <<>>, Senders)
          /\ \A n : Serves(v, Receivers, n) /\ Serves(v, Senders, n)
      BY <2>5, <2>6, NobodyLined
    <3> QED BY <1>1, <1>4, <2>1, <2>5, <3>1 DEF SidesKept
  <2>8. NobodySleepsOnClosed'
    BY <2>1, <2>5, <2>6 DEF NobodySleepsOnClosed
  <2>9. \A x \in Procs : v[x] # "none" => wait[x] # "none"
    BY <2>3, <2>5
  <2>10. ChannelTyped' /\ InCalls'
    BY <1>1, <1>4, <2>1, <2>5, <2>9 DEF ChannelTyped, InCalls
  <2> QED BY <2>7, <2>8, <2>10 DEF Calm
<1> QED BY <1>6, <1>7, <1>8, <1>9

-----------------------------------------------------------------------------
(* The channel: the handles *)

Live == {x \in Procs : pc[x] # "out"}

\* A set that one joins or leaves.
LEMMA Joined ==
  ASSUME NEW S, IsFiniteSet(S), NEW T \in SUBSET S, NEW p
  PROVE  /\ Cardinality(T) \in Nat /\ (p \in T => Cardinality(T) > 0)
         /\ p \notin T => Cardinality(T \cup {p}) = Cardinality(T) + 1
         /\ p \in T => Cardinality(T \ {p}) = Cardinality(T) - 1
<1>1. IsFiniteSet(T)
  BY FS_Subset
<1> QED BY <1>1, FS_CardinalityType, FS_EmptySet, FS_AddElement, FS_RemoveElement

\* A step within a call or between calls changes no count.
LEMMA SameHandles ==
  ASSUME HandlesCounted, UNCHANGED <<senders, receivers, strong, freed, factory>>,
         \A x \in Procs : /\ pc'[x] = "out" <=> pc[x] = "out"
                          /\ pc'[x] = "release" <=> pc[x] = "release"
  PROVE  HandlesCounted'
<1>1. /\ Holding(Senders)' = Holding(Senders) /\ Holding(Receivers)' = Holding(Receivers)
      /\ Live' = Live
  BY DEF Holding, Live, Procs
<1> QED BY <1>1 DEF HandlesCounted, Live

\* Every step counts the handles that come and go.
LEMMA HandlesStep ==
  ASSUME ChannelTyped, HandlesCounted, Next
  PROVE  HandlesCounted'
<1>1. /\ IsFiniteSet(Senders) /\ IsFiniteSet(Receivers) /\ IsFiniteSet(Procs)
      /\ Senders \cap Receivers = {} /\ Senders \subseteq Procs /\ Receivers \subseteq Procs
  BY ChannelGiven DEF Procs
<1> DEFINE hs == Holding(Senders)  hr == Holding(Receivers)  live == Live
<1>2. /\ hs \in SUBSET Senders /\ hr \in SUBSET Receivers /\ live \in SUBSET Procs
  BY DEF Holding, Live
<1>3. /\ senders = Cardinality(hs) /\ receivers = Cardinality(hr)
      /\ strong = Cardinality(live) + (IF factory THEN 1 ELSE 0)
      /\ freed <=> strong = 0
  BY DEF HandlesCounted, Live
<1>4. /\ factory \in BOOLEAN /\ freed \in BOOLEAN /\ Cardinality(live) \in Nat /\ strong \in Nat
      /\ \A x \in Procs : pc[x] # "out" => Cardinality(live) > 0
  <2>1. Cardinality(live) \in Nat
    BY <1>1, <1>2, FS_Subset, FS_CardinalityType
  <2>2. \A x \in Procs : pc[x] # "out" => x \in live
    BY DEF Live
  <2> HIDE DEF live
  <2>3. \A x \in live : Cardinality(live) > 0
    BY <1>1, <1>2, Joined
  <2>4. factory \in BOOLEAN /\ freed \in BOOLEAN
    BY DEF ChannelTyped
  <2>5. strong \in Nat
    BY <1>3, <2>1
  <2> QED BY <2>1, <2>2, <2>3, <2>4, <2>5
<1>5. ASSUME NEW p \in Procs, NEW l \in PCs, pc' = [pc EXCEPT ![p] = l]
      PROVE  /\ hs' = IF p \notin Senders THEN hs
                      ELSE IF l \in {"out", "release"} THEN hs \ {p} ELSE hs \cup {p}
             /\ hr' = IF p \notin Receivers THEN hr
                      ELSE IF l \in {"out", "release"} THEN hr \ {p} ELSE hr \cup {p}
             /\ live' = IF l = "out" THEN live \ {p} ELSE live \cup {p}
             /\ p \in hs <=> p \in Senders /\ pc[p] \notin {"out", "release"}
             /\ p \in hr <=> p \in Receivers /\ pc[p] \notin {"out", "release"}
             /\ p \in live <=> pc[p] # "out"
  <2>1. \A x \in Procs : pc'[x] = IF x = p THEN l ELSE pc[x]
    BY <1>5 DEF ChannelTyped
  <2> QED BY <1>1, <2>1 DEF Holding, Live
<1> HIDE DEF hs, hr, live
<1>6. ASSUME NEW p \in Procs, GetHandle(p) PROVE HandlesCounted'
  <2>1. /\ pc[p] = "out" /\ pc' = [pc EXCEPT ![p] = "idle"]
        /\ strong' = strong + 1 /\ UNCHANGED <<freed, factory>>
        /\ factory \/ \E x \in Procs : pc[x] = "idle"
    BY <1>6 DEF GetHandle, Goto, Retained
  <2>2. freed = FALSE
    BY <1>3, <1>4, <2>1
  <2>3. live' = live \cup {p} /\ p \notin live /\ "idle" \in PCs
    BY <1>5, <2>1 DEF PCs
  <2>4. Cardinality(live') = Cardinality(live) + 1
    BY <1>1, <1>2, <2>3, Joined
  <2>5. senders' = Cardinality(hs') /\ receivers' = Cardinality(hr')
    <3>1. CASE p \in Senders
      <4>1. hs' = hs \cup {p} /\ p \notin hs /\ hr' = hr
        BY <1>1, <1>5, <2>1, <2>3, <3>1
      <4>2. senders' = senders + 1 /\ receivers' = receivers
        BY <1>6, <3>1 DEF GetHandle
      <4> QED BY <1>1, <1>2, <1>3, <4>1, <4>2, Joined
    <3>2. CASE p \notin Senders
      <4>1. hr' = hr \cup {p} /\ p \notin hr /\ hs' = hs
        BY <1>1, <1>5, <2>1, <2>3, <3>2 DEF Procs
      <4>2. receivers' = receivers + 1 /\ senders' = senders
        BY <1>6, <3>2 DEF GetHandle
      <4> QED BY <1>1, <1>2, <1>3, <4>1, <4>2, Joined
    <3> QED BY <3>1, <3>2
  <2> QED BY <1>3, <1>4, <2>1, <2>2, <2>4, <2>5 DEF HandlesCounted, hs, hr, live, Live
<1>7. ASSUME NEW p \in Procs, Drop(p) PROVE HandlesCounted'
  <2>1. /\ pc[p] \in {"idle", "unwind"} /\ pc' = [pc EXCEPT ![p] = "release"]
        /\ UNCHANGED <<strong, freed, factory>>
    BY <1>7 DEF Drop, Goto
  <2>2. live' = live /\ "release" \in PCs
    <3>1. "release" \in PCs
      BY DEF PCs
    <3>2. live' = live \cup {p} /\ p \in live
      BY <1>5, <2>1, <3>1
    <3> QED BY <3>1, <3>2
  <2>3. senders' = Cardinality(hs') /\ receivers' = Cardinality(hr')
    <3>1. CASE p \in Senders
      <4>1. hs' = hs \ {p} /\ p \in hs /\ hr' = hr
        BY <1>1, <1>5, <2>1, <2>2, <3>1
      <4>2. senders' = senders - 1 /\ receivers' = receivers
        BY <1>7, <3>1 DEF Drop
      <4> QED BY <1>1, <1>2, <1>3, <4>1, <4>2, Joined
    <3>2. CASE p \notin Senders
      <4>1. hr' = hr \ {p} /\ p \in hr /\ hs' = hs
        BY <1>1, <1>5, <2>1, <2>2, <3>2 DEF Procs
      <4>2. receivers' = receivers - 1 /\ senders' = senders
        BY <1>7, <3>2 DEF Drop
      <4> QED BY <1>1, <1>2, <1>3, <4>1, <4>2, Joined
    <3> QED BY <3>1, <3>2
  <2> QED BY <1>3, <2>1, <2>2, <2>3 DEF HandlesCounted, hs, hr, live, Live
<1>8. ASSUME NEW p \in Procs, Release(p) PROVE HandlesCounted'
  <2>1. /\ pc[p] = "release" /\ pc' = [pc EXCEPT ![p] = "out"]
        /\ strong' = strong - 1 /\ freed' = (strong = 1)
        /\ UNCHANGED <<senders, receivers, factory>>
    BY <1>8 DEF Release, ReleaseBlock, Goto
  <2>2. /\ live' = live \ {p} /\ p \in live /\ "out" \in PCs
        /\ hs' = hs /\ hr' = hr
    <3>1. "out" \in PCs
      BY DEF PCs
    <3>2. /\ live' = live \ {p} /\ p \in live
          /\ hs' = hs \/ hs' = hs \ {p}
          /\ hr' = hr \/ hr' = hr \ {p}
          /\ p \notin hs /\ p \notin hr
      BY <1>5, <2>1, <3>1
    <3> QED BY <3>1, <3>2
  <2>3. Cardinality(live') = Cardinality(live) - 1 /\ Cardinality(live) > 0
    BY <1>1, <1>2, <2>2, Joined
  <2>4. freed' <=> strong = 1
    BY <2>1
  <2>5. /\ strong' = Cardinality(live') + (IF factory' THEN 1 ELSE 0)
        /\ freed' <=> strong' = 0
    BY <1>3, <1>4, <2>1, <2>3, <2>4
  <2> QED BY <1>3, <2>1, <2>2, <2>5 DEF HandlesCounted, hs, hr, live, Live
<1>9. CASE DropFactory
  <2>1. /\ factory = TRUE /\ factory' = FALSE /\ strong' = strong - 1 /\ freed' = (strong = 1)
        /\ UNCHANGED <<senders, receivers, pc>>
    BY <1>4, <1>9 DEF DropFactory, ReleaseBlock
  <2>2. hs' = hs /\ hr' = hr /\ live' = live
    BY <2>1 DEF hs, hr, live, Holding, Live
  <2>3. freed' <=> strong = 1
    BY <2>1
  <2>4. /\ strong' = Cardinality(live') + (IF factory' THEN 1 ELSE 0)
        /\ freed' <=> strong' = 0
    BY <1>3, <1>4, <2>1, <2>2, <2>3
  <2> QED BY <1>3, <2>1, <2>2, <2>4 DEF HandlesCounted, hs, hr, live, Live
<1>10. ASSUME NEW p \in Procs, NEW l \in PCs \ {"out", "release"},
              pc[p] \notin {"out", "release"}, pc' = [pc EXCEPT ![p] = l],
              UNCHANGED <<senders, receivers, strong, freed, factory>>
       PROVE  HandlesCounted'
  <2>1. \A x \in Procs : pc'[x] = IF x = p THEN l ELSE pc[x]
    BY <1>10 DEF ChannelTyped
  <2> QED BY <1>10, <2>1, SameHandles
<1>11. ASSUME UNCHANGED <<pc, senders, receivers, strong, freed, factory>> PROVE HandlesCounted'
  BY <1>11, SameHandles
<1>12. ASSUME NEW p \in Procs, Close(p) \/ TrySend(p) \/ TryRecv(p) \/ CancelWake(p) \/ Expire(p)
       PROVE  HandlesCounted'
  BY <1>11, <1>12 DEF Close, TrySend, TryRecv, CancelWake, Expire, block
<1>13. ASSUME NEW p \in Procs, NEW n \in 1 .. MaxBatch, NEW t \in BOOLEAN,
              BeginSend(p, n, t) \/ BeginRecv(p, n, t)
       PROVE  HandlesCounted'
  <2>1. PICK l \in {"send", "recv"} : pc' = [pc EXCEPT ![p] = l]
    BY <1>13 DEF BeginSend, BeginRecv, Goto
  <2>2. pc[p] = "idle" /\ UNCHANGED <<senders, receivers, strong, freed, factory>>
    BY <1>13 DEF BeginSend, BeginRecv, block
  <2> QED BY <1>10, <2>1, <2>2 DEF PCs
<1>14. ASSUME NEW p \in Procs, SendCancelled(p) \/ RecvCancelled(p) PROVE HandlesCounted'
  <2>1. /\ pc[p] \in {"send", "recv"} /\ pc' = [pc EXCEPT ![p] = "unwind"]
        /\ UNCHANGED <<senders, receivers, strong, freed, factory>>
    BY <1>14 DEF SendCancelled, RecvCancelled, SendReturns, RecvReturns, Goto, block
  <2> QED BY <1>10, <2>1 DEF PCs
<1>15. ASSUME NEW p \in Procs, SendStep(p) \/ RecvStep(p) PROVE HandlesCounted'
  <2>1. /\ pc[p] \in {"send", "recv"}
        /\ UNCHANGED <<senders, receivers, strong, freed, factory>>
    BY <1>15 DEF SendStep, RecvStep, block
  <2>2. pc' = [pc EXCEPT ![p] = "idle"] \/ UNCHANGED pc
    BY <1>15 DEF SendStep, RecvStep, SendReturns, RecvReturns, Goto
  <2> QED BY <1>10, <1>11, <2>1, <2>2 DEF PCs
<1> QED BY <1>6, <1>7, <1>8, <1>9, <1>12, <1>13, <1>14, <1>15 DEF Next

-----------------------------------------------------------------------------
(* The channel: the theorems *)

\* A new channel: its factory, and nobody near it.
LEMMA ChannelStarts == Init => ChannelInv
<1> SUFFICES ASSUME Init PROVE ChannelInv
  OBVIOUS
<1>1. <<>> \in Seq(Letters)
  OBVIOUS
<1>2. ChannelTyped
  BY <1>1 DEF Init, ChannelTyped, PCs, WaitStates
<1>3. InCalls
  BY DEF Init, InCalls
<1>4. WithReason(wait, Senders, "parked") = {} /\ WithReason(wait, Receivers, "parked") = {}
  BY DEF Init, WithReason, Procs
<1>5. SidesKept
  <2>1. /\ Lined(wait, <<>>, Receivers) /\ Lined(wait, <<>>, Senders)
        /\ \A n : Serves(wait, Receivers, n) /\ Serves(wait, Senders, n)
    BY <1>4, NobodyLined
  <2>2. buf = <<>> /\ notFull = <<>> /\ notEmpty = <<>> /\ Len(buf) <= Capacity
    BY ChannelGiven DEF Init
  <2> QED BY <1>4, <2>1, <2>2 DEF SidesKept
<1>6. NobodySleepsOnClosed
  BY <1>4 DEF NobodySleepsOnClosed
<1>7. HandlesCounted
  <2>1. Holding(Senders) = {} /\ Holding(Receivers) = {} /\ {x \in Procs : pc[x] # "out"} = {}
    BY DEF Init, Holding, Procs
  <2>2. senders = 0 /\ receivers = 0 /\ strong = 1 /\ factory = TRUE /\ freed = FALSE
    BY DEF Init
  <2> QED BY <2>1, <2>2, FS_EmptySet DEF HandlesCounted
<1> QED BY <1>2, <1>3, <1>5, <1>6, <1>7 DEF ChannelInv, Calm

\* Every step keeps the invariant.
LEMMA ChannelKept == ChannelInv /\ [Next]_vars => ChannelInv'
<1> SUFFICES ASSUME ChannelInv, [Next]_vars PROVE ChannelInv'
  OBVIOUS
<1>1. Calm /\ ChannelTyped /\ HandlesCounted
  BY DEF ChannelInv, Calm
<1>2. CASE Next
  <2>1. HandlesCounted'
    BY <1>1, <1>2, HandlesStep
  <2>2. CASE DropFactory /\ Procs # {}
    <3>1. PICK p \in Procs : TRUE
      BY <2>2
    <3>2. Calm'
      BY <1>1, <2>2, <3>1, HandlesCalm
    <3> QED BY <2>1, <3>2 DEF ChannelInv
  <2>3. CASE DropFactory /\ Procs = {}
    <3>1. /\ UNCHANGED <<unbounded, buf, closed, senders, receivers, notFull, notEmpty, wait, pc,
                         items, max, made>>
          /\ factory' \in BOOLEAN /\ freed' \in BOOLEAN
      BY <2>3 DEF DropFactory, ReleaseBlock, calls
    <3>2. ChannelTyped' /\ InCalls'
      BY <1>1, <3>1 DEF ChannelTyped, InCalls, Calm
    <3>3. SidesKept' /\ NobodySleepsOnClosed'
      BY <1>1, <3>1, SameSides, StillAwake DEF Calm
    <3> QED BY <3>2, <3>3, <2>1 DEF ChannelInv, Calm
  <2>4. ASSUME NEW p \in Procs,
               \/ GetHandle(p) \/ Drop(p) \/ Release(p) \/ Close(p)
               \/ \E n \in 1..MaxBatch, t \in BOOLEAN : BeginSend(p, n, t) \/ BeginRecv(p, n, t)
               \/ SendStep(p) \/ SendCancelled(p) \/ TrySend(p)
               \/ RecvStep(p) \/ RecvCancelled(p) \/ TryRecv(p)
               \/ CancelWake(p) \/ Expire(p)
        PROVE  Calm'
    BY <1>1, <2>4, HandlesCalm, CallsCalm, SendStepCalm, RecvStepCalm, CancelledCalm, WinsCalm
  <2> QED BY <1>2, <2>1, <2>2, <2>3, <2>4 DEF Next, ChannelInv
<1>3. CASE UNCHANGED vars
  <2>1. UNCHANGED <<unbounded, buf, senders, receivers, closed, strong, freed, factory,
                    notFull, notEmpty, wait, pc, items, max, made>>
    BY <1>3 DEF vars, block, calls
  <2>2. ChannelTyped' /\ InCalls'
    BY <1>1, <2>1 DEF ChannelTyped, InCalls, Calm
  <2>3. SidesKept' /\ NobodySleepsOnClosed'
    BY <1>1, <2>1, SameSides, StillAwake DEF Calm
  <2>4. HandlesCounted'
    BY <1>1, <2>1, SameHandles
  <2> QED BY <2>2, <2>3, <2>4 DEF ChannelInv, Calm
<1> QED BY <1>2, <1>3

\* The counts are the live handles and the block lives as long as anybody can touch it, for any
\* number of senders and receivers: clone, free, release and the factory (channel.spc).
THEOREM CountsAreHandles == Spec => []HandlesCounted
<1>1. ChannelInv => HandlesCounted
  BY DEF ChannelInv
<1> QED BY <1>1, ChannelStarts, ChannelKept, PTL DEF Spec

\* Whoever sleeps in a channel has nothing to take or no room to send into that nobody else is
\* on his way to, and a live peer on an open channel: for every capacity and batch length, and
\* whatever waits time out or are cancelled in between.
THEOREM NobodyIsForgotten == Spec => []NobodyForgotten
<1>1. ChannelInv => NobodyForgotten
  <2> SUFFICES ASSUME ChannelInv PROVE NobodyForgotten
    OBVIOUS
  <2>1. SidesKept /\ NobodySleepsOnClosed
    BY DEF ChannelInv, Calm
  <2>2. Served(Receivers, Len(buf))
    BY <2>1 DEF SidesKept, Serves, Served
  <2>3. Served(Senders, Room)
    BY <2>1 DEF SidesKept, Serves, Served, Room
  <2> QED BY <2>1, <2>2, <2>3 DEF NobodyForgotten, SidesServed
<1> QED BY <1>1, ChannelStarts, ChannelKept, PTL DEF Spec
=============================================================================
