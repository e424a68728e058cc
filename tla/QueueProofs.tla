---------------------------- MODULE QueueProofs ----------------------------
(***************************************************************************)
(* What becomes of the elements of a queue of waiters when one is put      *)
(* behind them or taken out from among them, and whom the notifies of a    *)
(* condvar wake and whom they leave.                                       *)
(***************************************************************************)
EXTENDS Integers, Condvar, SequenceTheorems, FunctionTheorems, FiniteSetTheorems, WellFoundedInduction, TLAPS

-----------------------------------------------------------------------------
(* Removing one element of a sequence *)

\* RemoveAt drops position i and moves what is behind it up by one.
LEMMA RemoveAtElements ==
  ASSUME NEW S, NEW s \in Seq(S), NEW i \in DOMAIN s
  PROVE  /\ RemoveAt(s, i) \in Seq(S)
         /\ DOMAIN RemoveAt(s, i) = 1 .. Len(s) - 1
         /\ \A k \in 1 .. Len(s) - 1 : RemoveAt(s, i)[k] = IF k < i THEN s[k] ELSE s[k + 1]
<1> DEFINE front == SubSeq(s, 1, i - 1)
           back  == SubSeq(s, i + 1, Len(s))
<1>1. i \in 1 .. Len(s) /\ Len(s) \in Nat /\ \A k \in 1 .. Len(s) : s[k] \in S
  BY LenProperties, ElementOfSeq
<1>2. /\ front \in Seq(S) /\ Len(front) = i - 1
      /\ \A k \in 1 .. i - 1 : front[k] = s[k]
  BY <1>1, SubSeqProperties
<1>3. /\ back \in Seq(S) /\ Len(back) = Len(s) - i
      /\ \A k \in 1 .. Len(s) - i : back[k] = s[i + k]
  BY <1>1, SubSeqProperties
<1>4. /\ front \o back \in Seq(S)
      /\ Len(front \o back) = Len(s) - 1
      /\ \A k \in 1 .. Len(s) - 1 :
           (front \o back)[k] = IF k <= i - 1 THEN front[k] ELSE back[k - (i - 1)]
  <2> HIDE DEF front, back
  <2>1. /\ front \o back \in Seq(S)
        /\ Len(front \o back) = Len(front) + Len(back)
        /\ \A k \in 1 .. Len(front) + Len(back) :
             (front \o back)[k] = IF k <= Len(front) THEN front[k] ELSE back[k - Len(front)]
    BY <1>2, <1>3, ConcatProperties
  <2>2. Len(front) + Len(back) = Len(s) - 1
    BY <1>1, <1>2, <1>3
  <2> QED BY <2>1, <2>2, <1>2
<1>5. RemoveAt(s, i) = front \o back
  BY DEF RemoveAt
<1> HIDE DEF front, back
<1>6. ASSUME NEW k \in 1 .. Len(s) - 1
      PROVE  (front \o back)[k] = IF k < i THEN s[k] ELSE s[k + 1]
  <2>1. CASE k < i
    <3>1. k <= i - 1 /\ k \in 1 .. i - 1
      BY <2>1, <1>1
    <3> QED BY <2>1, <3>1, <1>2, <1>4
  <2>2. CASE ~(k < i)
    <3>1. ~(k <= i - 1) /\ k - (i - 1) \in 1 .. Len(s) - i /\ i + (k - (i - 1)) = k + 1
      BY <2>2, <1>1
    <3> QED BY <2>2, <3>1, <1>3, <1>4
  <2> QED BY <2>1, <2>2
<1> QED BY <1>1, <1>4, <1>5, <1>6, LenProperties

\* Of a sequence without duplicates it removes exactly the element at i.
LEMMA RemoveAtRange ==
  ASSUME NEW S, NEW s \in Seq(S), NEW i \in DOMAIN s, IsInjective(s)
  PROVE  /\ Range(RemoveAt(s, i)) = Range(s) \ {s[i]}
         /\ IsInjective(RemoveAt(s, i))
<1> DEFINE t == RemoveAt(s, i)
           at(k) == IF k < i THEN k ELSE k + 1
<1>1. /\ i \in 1 .. Len(s) /\ Len(s) \in Nat
      /\ DOMAIN s = 1 .. Len(s) /\ DOMAIN t = 1 .. Len(s) - 1
  BY LenProperties, RemoveAtElements
<1>2. ASSUME NEW k \in DOMAIN t
      PROVE  t[k] = s[at(k)] /\ at(k) \in DOMAIN s /\ at(k) # i
  BY <1>1, RemoveAtElements
<1>3. \A j, k \in DOMAIN t : at(j) = at(k) => j = k
  BY <1>1
<1>4. \A j \in DOMAIN s : j # i => \E k \in DOMAIN t : at(k) = j
  <2>1. ASSUME NEW j \in DOMAIN s, j < i
        PROVE  j \in DOMAIN t /\ at(j) = j
    BY <2>1, <1>1
  <2>2. ASSUME NEW j \in DOMAIN s, i < j
        PROVE  j - 1 \in DOMAIN t /\ at(j - 1) = j
    BY <2>2, <1>1
  <2> QED BY <2>1, <2>2, <1>1
<1> HIDE DEF t, at
<1>5. IsInjective(t)
  BY <1>2, <1>3 DEF IsInjective
<1>6. Range(t) = Range(s) \ {s[i]}
  <2>1. ASSUME NEW x \in Range(t) PROVE x \in Range(s) \ {s[i]}
    BY <1>1, <1>2 DEF Range, IsInjective
  <2>2. ASSUME NEW x \in Range(s) \ {s[i]} PROVE x \in Range(t)
    BY <1>2, <1>4 DEF Range
  <2> QED BY <2>1, <2>2
<1> QED BY <1>5, <1>6 DEF t

\* Of any sequence it removes nothing else.
LEMMA RemoveAtKeeps ==
  ASSUME NEW S, NEW s \in Seq(S), NEW i \in DOMAIN s
  PROVE  Range(s) \ {s[i]} \subseteq Range(RemoveAt(s, i))
<1> DEFINE t == RemoveAt(s, i)
<1>1. /\ i \in 1 .. Len(s) /\ Len(s) \in Nat
      /\ DOMAIN s = 1 .. Len(s) /\ DOMAIN t = 1 .. Len(s) - 1
      /\ \A k \in DOMAIN t : t[k] = IF k < i THEN s[k] ELSE s[k + 1]
  BY LenProperties, RemoveAtElements
<1> HIDE DEF t
<1>2. ASSUME NEW j \in DOMAIN s, j # i PROVE \E k \in DOMAIN t : t[k] = s[j]
  <2>1. CASE j < i
    BY <2>1, <1>1
  <2>2. CASE i < j
    <3>1. j - 1 \in DOMAIN t /\ ~(j - 1 < i) /\ (j - 1) + 1 = j
      BY <2>2, <1>1
    <3> QED BY <3>1, <1>1
  <2> QED BY <1>2, <2>1, <2>2, <1>1
<1> QED BY <1>2 DEF Range, t

\* Appending a new element.
LEMMA AppendRange ==
  ASSUME NEW S, NEW s \in Seq(S), NEW e \in S
  PROVE  /\ Range(Append(s, e)) = Range(s) \cup {e}
         /\ IsInjective(s) /\ e \notin Range(s) => IsInjective(Append(s, e))
<1> DEFINE t == Append(s, e)
<1>1. /\ DOMAIN s = 1 .. Len(s) /\ DOMAIN t = 1 .. Len(s) + 1 /\ Len(s) \in Nat
      /\ \A k \in DOMAIN s : t[k] = s[k]
      /\ t[Len(s) + 1] = e
  BY AppendProperties, LenProperties
<1> HIDE DEF t
<1>2. DOMAIN t = DOMAIN s \cup {Len(s) + 1} /\ Len(s) + 1 \notin DOMAIN s
  BY <1>1
<1>3. Range(t) = Range(s) \cup {e}
  BY <1>1, <1>2 DEF Range
<1>4. IsInjective(s) /\ e \notin Range(s) => IsInjective(t)
  BY <1>1, <1>2 DEF Range, IsInjective
<1> QED BY <1>3, <1>4 DEF t
-----------------------------------------------------------------------------
(* A notify to all, and a waiter that leaves *)

\* notify_all pops every node: there are never more waiters than nodes.
LEMMA PoppedAll ==
  ASSUME NEW S, NEW q \in Seq(S), NEW w
  PROVE  Popped(q, w, Len(q) + 1) = Len(q)
<1>1. Len(q) \in Nat
  BY LenProperties
<1>2. ASSUME NEW k \in 0 .. Len(q) PROVE Cardinality(Awaiting(q, w, k)) # Len(q) + 1
  <2>1. IsFiniteSet(1 .. k) /\ Cardinality(1 .. k) = k
    BY <1>1, FS_Interval
  <2>2. Awaiting(q, w, k) \in SUBSET (1 .. k)
    BY DEF Awaiting
  <2>3. Cardinality(Awaiting(q, w, k)) <= k /\ Cardinality(Awaiting(q, w, k)) \in Nat
    BY <2>1, <2>2, FS_Subset, FS_CardinalityType
  <2> QED BY <2>3, <1>1
<1> QED BY <1>2 DEF Popped

\* So it wakes who is parked on the queue, and nobody else.
LEMMA WokenAllIs ==
  ASSUME NEW S, NEW q \in Seq(S), NEW w
  PROVE  WokenAll(q, w) =
           [p \in DOMAIN w |-> IF p \in Range(q) /\ w[p] = "parked" THEN "notify" ELSE w[p]]
<1> DEFINE won == {q[i] : i \in Awaiting(q, w, Len(q))}
<1>1. DOMAIN q = 1 .. Len(q) /\ Len(q) \in Nat
  BY LenProperties
<1>2. WokenAll(q, w) = [p \in DOMAIN w |-> IF p \in won THEN "notify" ELSE w[p]]
  BY PoppedAll DEF WokenAll, Woken
<1>3. \A p : p \in won <=> p \in Range(q) /\ w[p] = "parked"
  BY <1>1 DEF Awaiting, Range
<1> QED BY <1>2, <1>3

\* A waiter that unlinks its node leaves the others queued.
LEMMA UnlinkKeeps ==
  ASSUME NEW S, NEW q \in Seq(S), NEW p
  PROVE  Unlink(q, p) \in Seq(S) /\ Range(q) \ {p} \subseteq Range(Unlink(q, p))
<1>1. CASE Contains(q, p)
  <2> DEFINE i == CHOOSE j \in DOMAIN q : q[j] = p
  <2>1. \E j \in DOMAIN q : q[j] = p
    BY <1>1, LenProperties DEF Contains
  <2>2. i \in DOMAIN q /\ q[i] = p
    BY <2>1
  <2>3. Unlink(q, p) = RemoveAt(q, i)
    BY <1>1 DEF Unlink
  <2> HIDE DEF i
  <2> QED BY <2>2, <2>3, RemoveAtElements, RemoveAtKeeps
<1>2. CASE ~Contains(q, p)
  BY <1>2 DEF Unlink
<1> QED BY <1>1, <1>2

\* A queue that holds nobody twice still does not, and does not hold who left.
LEMMA UnlinkRange ==
  ASSUME NEW S, NEW q \in Seq(S), NEW p, IsInjective(q)
  PROVE  IsInjective(Unlink(q, p)) /\ Range(Unlink(q, p)) = Range(q) \ {p}
<1>1. CASE Contains(q, p)
  <2> DEFINE i == CHOOSE j \in DOMAIN q : q[j] = p
  <2>1. \E j \in DOMAIN q : q[j] = p
    BY <1>1, LenProperties DEF Contains
  <2>2. i \in DOMAIN q /\ q[i] = p
    BY <2>1
  <2>3. Unlink(q, p) = RemoveAt(q, i)
    BY <1>1 DEF Unlink
  <2> HIDE DEF i
  <2> QED BY <2>2, <2>3, RemoveAtRange
<1>2. CASE ~Contains(q, p)
  <2>1. p \notin Range(q)
    BY <1>2, LenProperties DEF Contains, Range
  <2> QED BY <1>2, <2>1 DEF Unlink
<1> QED BY <1>1, <1>2

-----------------------------------------------------------------------------
(* A notify to some *)

\* A set of naturals has a least element.
LEMMA LeastNatural ==
  ASSUME NEW S, S \subseteq Nat, S # {}
  PROVE  \E t \in S : \A u \in S : t <= u
<1>1. PICK t \in S : \A u \in S : ~(<<u, t>> \in OpToRel(<, Nat))
  BY NatLessThanWellFounded, WFMin, Zenon
<1>2. ASSUME NEW u \in S PROVE ~(u < t)
  <2> SUFFICES ASSUME u < t PROVE <<u, t>> \in OpToRel(<, Nat)
    BY <1>1
  <2>1. <<u, t>> \in Nat \X Nat /\ <<u, t>>[1] < <<u, t>>[2]
    OBVIOUS
  <2> QED BY <2>1, Zenon DEF OpToRel
<1> QED BY <1>2

\* One node more makes at most one waiter more.
LEMMA AwaitingGrows ==
  ASSUME NEW q, NEW w, NEW k \in Nat
  PROVE  /\ IsFiniteSet(Awaiting(q, w, k)) /\ Cardinality(Awaiting(q, w, k)) \in Nat
         /\ Cardinality(Awaiting(q, w, 0)) = 0
         /\ Cardinality(Awaiting(q, w, k + 1)) \in Nat
         /\ Cardinality(Awaiting(q, w, k + 1)) <= Cardinality(Awaiting(q, w, k)) + 1
<1>1. IsFiniteSet(1 .. k)
  BY FS_Interval
<1>2. Awaiting(q, w, k) \in SUBSET (1 .. k)
  BY DEF Awaiting
<1>3. IsFiniteSet(Awaiting(q, w, k)) /\ Cardinality(Awaiting(q, w, k)) \in Nat
  BY <1>1, <1>2, FS_Subset, FS_CardinalityType
<1>4. Awaiting(q, w, 0) = {}
  BY DEF Awaiting
<1>5. Awaiting(q, w, k + 1) =
        IF w[q[k + 1]] = "parked" THEN Awaiting(q, w, k) \cup {k + 1} ELSE Awaiting(q, w, k)
  <2>1. 1 .. (k + 1) = (1 .. k) \cup {k + 1}
    OBVIOUS
  <2> QED BY <2>1 DEF Awaiting
<1>6. k + 1 \notin Awaiting(q, w, k)
  BY DEF Awaiting
<1> DEFINE A == Awaiting(q, w, k)
           B == Awaiting(q, w, k + 1)
<1>7. /\ IsFiniteSet(A) /\ Cardinality(A) \in Nat
      /\ k + 1 \notin A
      /\ B = A \cup {k + 1} \/ B = A
  BY <1>3, <1>5, <1>6
<1>8. Cardinality(Awaiting(q, w, 0)) = 0
  BY <1>4, FS_EmptySet
<1> HIDE DEF A, B
<1>9. Cardinality(A \cup {k + 1}) = Cardinality(A) + 1
  BY <1>7, FS_AddElement
<1>10. Cardinality(B) \in Nat /\ Cardinality(B) <= Cardinality(A) + 1
  <2>1. CASE B = A
    BY <2>1, <1>7
  <2>2. CASE B = A \cup {k + 1}
    BY <2>2, <1>7, <1>9
  <2> QED BY <1>7, <2>1, <2>2
<1> QED BY <1>3, <1>8, <1>10 DEF A, B

\* notify_some(n) stops at the node that makes n waiters, or pops them all.
LEMMA PoppedSome ==
  ASSUME NEW S, NEW q \in Seq(S), NEW w, NEW n \in Nat
  PROVE  /\ Popped(q, w, n) \in 0 .. Len(q)
         /\ \/ Cardinality(Awaiting(q, w, Popped(q, w, n))) = n
            \/ Popped(q, w, n) = Len(q) /\ Cardinality(Awaiting(q, w, Len(q))) <= n
<1> DEFINE c(k) == Cardinality(Awaiting(q, w, k))
           enough == {k \in 0 .. Len(q) : c(k) = n}
<1>1. Len(q) \in Nat /\ 0 .. Len(q) \subseteq Nat
  BY LenProperties
<1>2. CASE enough = {}
  <2>1. Popped(q, w, n) = Len(q)
    BY <1>2 DEF Popped
  <2>2. c(Len(q)) <= n
    <3> DEFINE more == {k \in 0 .. Len(q) : c(k) > n}
    <3> SUFFICES ASSUME ~(c(Len(q)) <= n) PROVE FALSE
      OBVIOUS
    <3>1. c(Len(q)) \in Nat
      BY <1>1, AwaitingGrows
    <3>2. Len(q) \in more
      BY <1>1, <3>1
    <3>3. more \subseteq Nat /\ more # {}
      BY <1>1, <3>2
    <3> HIDE DEF more
    <3>4. PICK t \in more : \A u \in more : t <= u
      BY <3>3, LeastNatural
    <3>5. t \in 0 .. Len(q) /\ c(t) > n
      BY <3>4 DEF more
    <3>6. t # 0
      BY <3>5, AwaitingGrows
    <3>7. t - 1 \in 0 .. Len(q) /\ (t - 1) + 1 = t /\ t - 1 \in Nat
      BY <1>1, <3>5, <3>6
    <3>8. /\ c(t - 1) \in Nat /\ c(t) \in Nat
          /\ c(t) <= c(t - 1) + 1
      BY <3>7, AwaitingGrows
    <3>9. ~(c(t - 1) > n)
      BY <3>4, <3>7 DEF more
    <3>10. c(t - 1) = n
      BY <3>5, <3>8, <3>9
    <3> QED BY <1>2, <3>7, <3>10
  <2> QED BY <1>1, <2>1, <2>2
<1>3. CASE enough # {}
  <2>1. enough \subseteq Nat
    BY <1>1
  <2>2. \E k \in enough : \A j \in enough : k <= j
    BY <1>3, <2>1, LeastNatural
  <2>3. Popped(q, w, n) = CHOOSE k \in enough : \A j \in enough : k <= j
    BY <1>3 DEF Popped
  <2>4. Popped(q, w, n) \in enough
    BY <2>2, <2>3
  <2> QED BY <2>4
<1> QED BY <1>2, <1>3

\* The places of a queue of n nodes, from the k-th on.
LEMMA BehindPlaces ==
  ASSUME NEW n \in Nat, NEW k \in 0 .. n
  PROVE  /\ k + 1 \in Int /\ n \in Int
         /\ 1 .. k \subseteq 1 .. n /\ k + 1 .. n \subseteq 1 .. n
         /\ n - (k + 1) + 1 = n - k
         /\ (IF k + 1 <= n THEN n - (k + 1) + 1 ELSE 0) = n - k
         /\ \A i \in 1 .. (n - k) : (k + 1) + i - 1 = k + i
OBVIOUS

\* The nodes behind the k-th.
LEMMA BehindElements ==
  ASSUME NEW S, NEW q \in Seq(S), NEW k \in 0 .. Len(q)
  PROVE  /\ SubSeq(q, k + 1, Len(q)) \in Seq(S)
         /\ DOMAIN SubSeq(q, k + 1, Len(q)) = 1 .. (Len(q) - k)
         /\ \A i \in 1 .. (Len(q) - k) :
              k + i \in DOMAIN q /\ SubSeq(q, k + 1, Len(q))[i] = q[k + i]
<1>1. Len(q) \in Nat /\ DOMAIN q = 1 .. Len(q) /\ \A i \in 1 .. Len(q) : q[i] \in S
  BY LenProperties, ElementOfSeq
<1> DEFINE b == SubSeq(q, k + 1, Len(q))
<1>2. /\ b \in Seq(S) /\ Len(b) = Len(q) - k
      /\ \A i \in 1 .. Len(q) - k : b[i] = q[k + i]
  <2>1. /\ k + 1 \in Int /\ Len(q) \in Int
        /\ \A i \in k + 1 .. Len(q) : q[i] \in S
    BY <1>1, BehindPlaces
  <2>2. /\ b \in Seq(S)
        /\ Len(b) = IF k + 1 <= Len(q) THEN Len(q) - (k + 1) + 1 ELSE 0
        /\ \A i \in 1 .. Len(q) - (k + 1) + 1 : b[i] = q[(k + 1) + i - 1]
    BY <2>1, SubSeqProperties
  <2> HIDE DEF b
  <2>3. /\ Len(q) - (k + 1) + 1 = Len(q) - k
        /\ (IF k + 1 <= Len(q) THEN Len(q) - (k + 1) + 1 ELSE 0) = Len(q) - k
    BY <1>1, BehindPlaces
  <2>4. \A i \in 1 .. Len(q) - k : (k + 1) + i - 1 = k + i
    BY <1>1, BehindPlaces
  <2>5. \A i \in 1 .. Len(q) - k : b[i] = q[(k + 1) + i - 1]
    BY <2>2, <2>3, Zenon
  <2>6. \A i \in 1 .. Len(q) - k : b[i] = q[k + i]
    BY <2>4, <2>5, Zenon
  <2>7. Len(b) = Len(q) - k
    BY <2>2, <2>3, Zenon
  <2> QED BY <2>2, <2>6, <2>7, Zenon
<1> HIDE DEF b
<1>3. \A i \in 1 .. (Len(q) - k) : k + i \in DOMAIN q
  BY <1>1
<1>4. DOMAIN b = 1 .. (Len(q) - k)
  BY <1>2, LenProperties
<1> QED BY <1>2, <1>3, <1>4 DEF b

\* They hold nobody twice if the queue does not, and everybody who is not among the first k.
LEMMA BehindRange ==
  ASSUME NEW S, NEW q \in Seq(S), IsInjective(q), NEW k \in 0 .. Len(q)
  PROVE  /\ IsInjective(SubSeq(q, k + 1, Len(q)))
         /\ Range(SubSeq(q, k + 1, Len(q))) \subseteq Range(q)
         /\ Range(q) \ {q[i] : i \in 1 .. k} \subseteq Range(SubSeq(q, k + 1, Len(q)))
<1> DEFINE b == SubSeq(q, k + 1, Len(q))
<1>1. /\ Len(q) \in Nat /\ DOMAIN q = 1 .. Len(q) /\ DOMAIN b = 1 .. (Len(q) - k)
      /\ \A i \in 1 .. (Len(q) - k) : k + i \in DOMAIN q /\ b[i] = q[k + i]
  BY LenProperties, BehindElements
<1> HIDE DEF b
<1>2. IsInjective(b)
  <2> SUFFICES ASSUME NEW i \in DOMAIN b, NEW j \in DOMAIN b, b[i] = b[j] PROVE i = j
    BY DEF IsInjective
  <2>1. k + i = k + j
    BY <1>1 DEF IsInjective
  <2> QED BY <1>1, <2>1
<1>3. ASSUME NEW x \in Range(b) PROVE x \in Range(q)
  BY <1>1 DEF Range
<1>4. ASSUME NEW x \in Range(q) \ {q[i] : i \in 1 .. k} PROVE x \in Range(b)
  <2>1. PICK i \in DOMAIN q : q[i] = x
    BY DEF Range
  <2>2. i - k \in DOMAIN b /\ k + (i - k) = i
    BY <1>1, <2>1
  <2> QED BY <1>1, <2>1, <2>2 DEF Range
<1> QED BY <1>2, <1>3, <1>4 DEF b

\* Distinct places of a sequence without duplicates hold as many elements.
LEMMA AsMany ==
  ASSUME NEW q, IsInjective(q), NEW A \in SUBSET DOMAIN q, IsFiniteSet(A)
  PROVE  /\ IsFiniteSet({q[i] : i \in A})
         /\ Cardinality({q[i] : i \in A}) = Cardinality(A)
<1> DEFINE f == [i \in A |-> q[i]]
           B == {q[i] : i \in A}
<1>1. f \in [A -> B] /\ \A y \in B : \E i \in A : f[i] = y
  OBVIOUS
<1>2. \A i, j \in A : f[i] = f[j] => i = j
  BY DEF IsInjective
<1> HIDE DEF f, B
<1>3. f \in Bijection(A, B)
  BY <1>1, <1>2, Fun_IsBij
<1>4. ExistsBijection(A, B)
  BY <1>3 DEF ExistsBijection
<1> QED BY <1>4, FS_Bijection DEF B

\* A notify to n of a queue that holds nobody twice: n of those who are parked there are woken,
\* or all of them; the others stay queued.
LEMMA NotifySome ==
  ASSUME NEW S, NEW q \in Seq(S), IsInjective(q), NEW w, NEW n \in Nat
  PROVE  \E won \in SUBSET {x \in Range(q) : w[x] = "parked"} :
           /\ Woken(q, w, n) = [x \in DOMAIN w |-> IF x \in won THEN "notify" ELSE w[x]]
           /\ IsFiniteSet(won)
           /\ Cardinality(won) = n \/ won = {x \in Range(q) : w[x] = "parked"}
           /\ Left(q, w, n) \in Seq(S) /\ IsInjective(Left(q, w, n))
           /\ Range(Left(q, w, n)) \subseteq Range(q)
           /\ {x \in Range(q) : w[x] = "parked"} \ won \subseteq Range(Left(q, w, n))
<1> DEFINE k == Popped(q, w, n)
           A == Awaiting(q, w, k)
           won == {q[i] : i \in A}
           l == Left(q, w, n)
           P == {x \in Range(q) : w[x] = "parked"}
<1>1. /\ Len(q) \in Nat /\ DOMAIN q = 1 .. Len(q)
      /\ k \in 0 .. Len(q)
      /\ Cardinality(A) = n \/ k = Len(q)
  BY LenProperties, PoppedSome
<1>2. k \in Nat
  BY <1>1
<1>3. A = {i \in 1 .. k : w[q[i]] = "parked"}
  BY DEF Awaiting
<1>4. IsFiniteSet(A)
  BY <1>2, AwaitingGrows
<1>5. Woken(q, w, n) = [x \in DOMAIN w |-> IF x \in won THEN "notify" ELSE w[x]]
  BY DEF Woken
<1>6. l = SubSeq(q, k + 1, Len(q))
  BY DEF Left
<1> HIDE DEF k, l, A
<1>7. l \in Seq(S)
  BY <1>1, <1>6, BehindElements
<1>8. /\ IsInjective(l) /\ Range(l) \subseteq Range(q)
      /\ Range(q) \ {q[i] : i \in 1 .. k} \subseteq Range(l)
  BY <1>1, <1>6, BehindRange
<1>9. A \in SUBSET DOMAIN q
  <2>1. 1 .. k \subseteq DOMAIN q
    BY <1>1, BehindPlaces, Zenon
  <2> QED BY <1>3, <2>1
<1>10. won \in SUBSET P
  BY <1>3, <1>9 DEF Range
<1>11. IsFiniteSet(won) /\ Cardinality(won) = Cardinality(A)
  BY <1>4, <1>9, AsMany
<1>12. k = Len(q) => won = P
  BY <1>1, <1>3 DEF Range
<1>13. P \ won \subseteq Range(l)
  <2> SUFFICES ASSUME NEW x \in P, x \notin won PROVE x \notin {q[i] : i \in 1 .. k}
    BY <1>8
  <2> QED BY <1>3
<1>14. Cardinality(won) = n \/ won = P
  BY <1>1, <1>11, <1>12
<1> QED BY <1>5, <1>7, <1>8, <1>10, <1>11, <1>13, <1>14 DEF l
-----------------------------------------------------------------------------
(* The waiters of one side *)

\* Whoever of S is parked is queued, and nobody is queued twice.
Lined(w, q, S) ==
  /\ q \in Seq(S) /\ IsInjective(q)
  /\ WithReason(w, S, "parked") \subseteq Range(q)

\* While anybody of S is parked, n of S are on their way.
Serves(w, S, n) ==
  WithReason(w, S, "parked") # {} => n <= Cardinality(WithReason(w, S, "notify"))

\* A notify to n serves n more, and leaves everybody else as it was.
LEMMA WokenServes ==
  ASSUME NEW D, NEW w \in [D -> WaitStates], NEW S \in SUBSET D, IsFiniteSet(S),
         NEW q, Lined(w, q, S), NEW n \in Nat, NEW m \in Nat, Serves(w, S, m)
  PROVE  /\ Woken(q, w, n) \in [D -> WaitStates]
         /\ Lined(Woken(q, w, n), Left(q, w, n), S)
         /\ Serves(Woken(q, w, n), S, m + n)
         /\ \A x \in D : \/ Woken(q, w, n)[x] = w[x]
                         \/ x \in S /\ w[x] = "parked" /\ Woken(q, w, n)[x] = "notify"
<1> DEFINE v == Woken(q, w, n)
           l == Left(q, w, n)
           parked == {x \in Range(q) : w[x] = "parked"}
           told == WithReason(w, S, "notify")
<1>1. PICK won \in SUBSET parked :
        /\ v = [x \in DOMAIN w |-> IF x \in won THEN "notify" ELSE w[x]]
        /\ IsFiniteSet(won)
        /\ Cardinality(won) = n \/ won = parked
        /\ l \in Seq(S) /\ IsInjective(l)
        /\ parked \ won \subseteq Range(l)
  BY NotifySome DEF Lined
<1>2. Range(q) \subseteq S
  BY LenProperties, ElementOfSeq DEF Lined, Range
<1> HIDE DEF v, l
<1>3. won \subseteq S /\ \A x \in won : w[x] = "parked"
  BY <1>1, <1>2
<1>4. v = [x \in D |-> IF x \in won THEN "notify" ELSE w[x]]
  BY <1>1
<1>5. /\ v \in [D -> WaitStates]
      /\ \A x \in D : v[x] = w[x] \/ (x \in S /\ w[x] = "parked" /\ v[x] = "notify")
  <2>1. "notify" \in WaitStates
    BY DEF WaitStates
  <2>2. \A x \in D : v[x] = IF x \in won THEN "notify" ELSE w[x]
    BY <1>4
  <2>3. v \in [D -> WaitStates]
    BY <1>4, <2>1
  <2>4. ASSUME NEW x \in D
        PROVE  v[x] = w[x] \/ (x \in S /\ w[x] = "parked" /\ v[x] = "notify")
    BY <1>3, <2>2
  <2> QED BY <2>3, <2>4
<1>6. WithReason(w, S, "parked") = parked
  BY <1>2 DEF Lined, WithReason
<1>7. WithReason(v, S, "parked") = parked \ won
  BY <1>3, <1>4, <1>6 DEF WithReason
<1>8. Lined(v, l, S)
  BY <1>1, <1>7 DEF Lined
<1>9. Serves(v, S, m + n)
  <2> SUFFICES ASSUME parked \ won # {}
               PROVE  m + n <= Cardinality(WithReason(v, S, "notify"))
    BY <1>7 DEF Serves
  <2>1. Cardinality(won) = n /\ m <= Cardinality(told)
    BY <1>1, <1>6 DEF Serves
  <2>2. WithReason(v, S, "notify") = told \cup won /\ told \cap won = {}
    BY <1>3, <1>4 DEF WithReason
  <2>3. IsFiniteSet(told) /\ Cardinality(told) \in Nat
    BY FS_Subset, FS_CardinalityType DEF WithReason
  <2>4. Cardinality(told \cup won) = Cardinality(told) + Cardinality(won) - Cardinality({})
    BY <1>1, <2>2, <2>3, FS_Union
  <2>5. Cardinality({}) = 0
    BY FS_EmptySet
  <2> HIDE DEF told
  <2>6. Cardinality(told \cup won) = Cardinality(told) + n
    BY <2>1, <2>3, <2>4, <2>5
  <2>7. m + n <= Cardinality(told) + n
    BY <2>1, <2>3
  <2> QED BY <2>2, <2>6, <2>7
<1> QED BY <1>5, <1>8, <1>9 DEF v, l

\* A notify to all leaves nobody parked.
LEMMA WokenAllServes ==
  ASSUME NEW D, NEW w \in [D -> WaitStates], NEW S \in SUBSET D, NEW q, Lined(w, q, S)
  PROVE  /\ WokenAll(q, w) \in [D -> WaitStates]
         /\ WithReason(WokenAll(q, w), S, "parked") = {}
         /\ \A x \in D : \/ WokenAll(q, w)[x] = w[x]
                         \/ x \in S /\ w[x] = "parked" /\ WokenAll(q, w)[x] = "notify"
<1>1. WokenAll(q, w) =
        [x \in D |-> IF x \in Range(q) /\ w[x] = "parked" THEN "notify" ELSE w[x]]
  BY WokenAllIs DEF Lined
<1>2. Range(q) \subseteq S
  BY LenProperties, ElementOfSeq DEF Lined, Range
<1> QED BY <1>1, <1>2 DEF Lined, WithReason, WaitStates

\* An empty queue has nobody to hold who is not parked.
LEMMA NobodyLined ==
  ASSUME NEW S, NEW w, WithReason(w, S, "parked") = {}
  PROVE  Lined(w, <<>>, S) /\ \A n : Serves(w, S, n)
<1>1. <<>> \in Seq(S) /\ IsInjective(<<>>)
  BY DEF IsInjective
<1> QED BY <1>1 DEF Lined, Serves

\* A side is what its own waiters do.
LEMMA SameSide ==
  ASSUME NEW S, NEW w, NEW v, \A x \in S : v[x] = w[x]
  PROVE  /\ \A q : Lined(w, q, S) => Lined(v, q, S)
         /\ \A n : Serves(w, S, n) => Serves(v, S, n)
<1>1. \A r : WithReason(v, S, r) = WithReason(w, S, r)
  BY DEF WithReason
<1> QED BY <1>1 DEF Lined, Serves

\* A waiter whose wait is over leaves the queue; it serves one less if it was notified.
LEMMA LeaverServes ==
  ASSUME NEW D, NEW w \in [D -> WaitStates], NEW S \in SUBSET D, IsFiniteSet(S),
         NEW q, Lined(w, q, S), NEW p \in S, w[p] # "parked"
  PROVE  /\ Over(w, p) \in [D -> WaitStates]
         /\ Lined(Over(w, p), Unlink(q, p), S)
         /\ WithReason(Over(w, p), S, "parked") = WithReason(w, S, "parked")
         /\ \A n \in Nat : Serves(w, S, n + 1) => Serves(Over(w, p), S, n)
         /\ \A n \in Nat : Serves(w, S, n) /\ w[p] # "notify" => Serves(Over(w, p), S, n)
         /\ Serves(Over(w, p), S, 0)
<1> DEFINE v == Over(w, p)
           told == WithReason(w, S, "notify")
<1>1. v = [x \in D |-> IF x = p THEN "none" ELSE w[x]]
  BY DEF Over
<1> HIDE DEF v
<1>2. v \in [D -> WaitStates] /\ WithReason(v, S, "parked") = WithReason(w, S, "parked")
  BY <1>1 DEF WaitStates, WithReason
<1>3. Lined(v, Unlink(q, p), S)
  <2>1. /\ Unlink(q, p) \in Seq(S) /\ IsInjective(Unlink(q, p))
        /\ Range(Unlink(q, p)) = Range(q) \ {p}
    BY UnlinkKeeps, UnlinkRange DEF Lined
  <2>2. p \notin WithReason(w, S, "parked")
    BY DEF WithReason
  <2> QED BY <1>2, <2>1, <2>2 DEF Lined
<1>4. WithReason(v, S, "notify") = told \ {p}
  BY <1>1 DEF WithReason
<1>5. p \in told <=> w[p] = "notify"
  BY DEF WithReason
<1>6. IsFiniteSet(told) /\ Cardinality(told) \in Nat
  BY FS_Subset, FS_CardinalityType DEF WithReason
<1> HIDE DEF told
<1>7. Cardinality(told \ {p}) = IF p \in told THEN Cardinality(told) - 1 ELSE Cardinality(told)
  BY <1>6, FS_RemoveElement
<1>8. IsFiniteSet(told \ {p}) /\ Cardinality(told \ {p}) \in Nat
  BY <1>6, FS_Subset, FS_CardinalityType
<1>9. ASSUME NEW n \in Nat, Serves(w, S, n + 1) PROVE Serves(v, S, n)
  BY <1>2, <1>4, <1>6, <1>7, <1>8, <1>9 DEF Serves, told
<1>10. ASSUME NEW n \in Nat, Serves(w, S, n), w[p] # "notify" PROVE Serves(v, S, n)
  BY <1>2, <1>4, <1>5, <1>7, <1>10 DEF Serves, told
<1>11. Serves(v, S, 0)
  BY <1>4, <1>8 DEF Serves
<1> QED BY <1>2, <1>3, <1>9, <1>10, <1>11 DEF v

\* A waiter that parks, again or for the first time, is queued behind the others.
LEMMA ParkedServes ==
  ASSUME NEW D, NEW w \in [D -> WaitStates], NEW S \in SUBSET D, IsFiniteSet(S),
         NEW q, Lined(w, q, S), NEW p \in S, w[p] # "parked"
  PROVE  /\ Parks(w, p) \in [D -> WaitStates]
         /\ Lined(Parks(w, p), Register(Unlink(q, p), p), S)
         /\ Serves(Parks(w, p), S, 0)
<1> DEFINE v == Parks(w, p)
<1>1. v = [x \in D |-> IF x = p THEN "parked" ELSE w[x]]
  BY DEF Parks
<1> HIDE DEF v
<1>2. v \in [D -> WaitStates] /\ WithReason(v, S, "parked") = WithReason(w, S, "parked") \cup {p}
  BY <1>1 DEF WaitStates, WithReason
<1>3. /\ Unlink(q, p) \in Seq(S) /\ IsInjective(Unlink(q, p))
      /\ Range(Unlink(q, p)) = Range(q) \ {p}
  BY UnlinkKeeps, UnlinkRange DEF Lined
<1>4. /\ Append(Unlink(q, p), p) \in Seq(S)
      /\ Range(Append(Unlink(q, p), p)) = Range(q) \cup {p}
      /\ IsInjective(Append(Unlink(q, p), p))
  BY <1>3, AppendRange, AppendProperties
<1>5. Lined(v, Register(Unlink(q, p), p), S)
  BY <1>2, <1>4 DEF Lined, Register
<1>6. Cardinality(WithReason(v, S, "notify")) \in Nat
  BY FS_Subset, FS_CardinalityType DEF WithReason
<1> QED BY <1>2, <1>5, <1>6 DEF v, Serves

\* A wait that another waker wins serves nobody, and takes nobody's wake.
LEMMA WonServes ==
  ASSUME NEW D, NEW w \in [D -> WaitStates], NEW S \in SUBSET D,
         NEW q, Lined(w, q, S), NEW p \in D, w[p] = "parked", NEW r \in {"cancel", "timeout"}
  PROVE  /\ Wins(w, p, r) \in [D -> WaitStates]
         /\ Lined(Wins(w, p, r), q, S)
         /\ \A n : Serves(w, S, n) => Serves(Wins(w, p, r), S, n)
<1> DEFINE v == Wins(w, p, r)
<1>1. v = [x \in D |-> IF x = p THEN r ELSE w[x]]
  BY DEF Wins
<1> HIDE DEF v
<1>2. /\ v \in [D -> WaitStates]
      /\ WithReason(v, S, "parked") \subseteq WithReason(w, S, "parked")
      /\ WithReason(v, S, "notify") = WithReason(w, S, "notify")
  BY <1>1 DEF WaitStates, WithReason
<1> QED BY <1>2 DEF v, Lined, Serves
=============================================================================
