--------------------------- MODULE CommandsProofs ---------------------------
(***************************************************************************)
(* Proofs about the client commands and their parts, for all arguments,    *)
(* all answers of the backend and any depth of the walk.                   *)
(***************************************************************************)
EXTENDS Commands, SequenceTheorems, FiniteSetTheorems, WellFoundedInduction, TLAPS

------------------------------------------------------------------------------
\* Induction over the natural numbers, for sets: it needs no operator as a parameter.

Below == OpToRel(<, Nat)

\* A nonempty set of naturals has a least element.
LEMMA LeastNatural ==
  ASSUME NEW S, S \subseteq Nat, S # {}
  PROVE  \E n \in S : \A m \in S : n <= m
<1>1. IsWellFoundedOn(Below, Nat)
  BY NatLessThanWellFounded DEF Below
<1>2. \A m, n \in Nat : m < n => <<m, n>> \in Below
  BY DEF OpToRel, Below
<1>3. PICK n \in S : \A m \in S : ~(<<m, n>> \in Below)
  BY <1>1, WFMin
<1>4. ASSUME NEW m \in S PROVE n <= m
  <2>1. m \in Nat /\ n \in Nat /\ ~(m < n)
    BY <1>2, <1>3
  <2>2. QED
    BY <2>1
<1>5. QED
  BY <1>4

\* A set that has 0 and the successor of each natural in it has all of them.
LEMMA NaturalInduction ==
  ASSUME NEW S, 0 \in S, \A n \in S : n \in Nat => n + 1 \in S
  PROVE  Nat \subseteq S
<1>1. SUFFICES ASSUME Nat \ S # {} PROVE FALSE
  OBVIOUS
<1>2. PICK n \in Nat \ S : \A m \in Nat \ S : n <= m
  BY LeastNatural, <1>1
<1>3. n # 0 /\ n - 1 \in Nat /\ n - 1 \in S
  BY <1>2
<1>4. (n - 1) + 1 \in S
  BY <1>3
<1>5. QED
  BY <1>3, <1>4

\* The empty sequence has no position.
LEMMA NoPosition == DOMAIN <<>> = {}
<1>1. <<>> \in Seq({}) /\ Len(<<>>) = 0
  BY EmptySeq
<1>2. DOMAIN <<>> = 1..0
  BY <1>1, LenProperties
<1>3. QED
  BY <1>2

------------------------------------------------------------------------------
\* Folds. FoldLeft takes the largest position off a set of positions.

\* A nonempty set of positions has a largest one, and Max finds it.
LEMMA LargestPosition ==
  ASSUME NEW n \in Nat, NEW s, s \subseteq 1..n, s # {}
  PROVE  Max(s) \in s /\ \A i \in s : i <= Max(s)
<1> DEFINE gaps == {n - i : i \in s}
<1>1. gaps \subseteq Nat /\ gaps # {}
  <2>1. \A i \in s : n - i \in Nat
    OBVIOUS
  <2>2. QED
    BY <2>1
<1>2. PICK d \in gaps : \A e \in gaps : d <= e
  BY <1>1, LeastNatural
<1>3. PICK m \in s : d = n - m
  BY <1>2
<1>4. \A i \in s : i <= m
  <2>1. TAKE i \in s
  <2>2. n - m <= n - i
    BY <1>2, <1>3
  <2>3. QED
    BY <1>3, <2>2
<1>5. \E x \in s : \A y \in s : x >= y
  BY <1>3, <1>4
<1>6. Max(s) \in s /\ \A y \in s : Max(s) >= y
  BY <1>5 DEF Max
<1>7. QED
  BY <1>6

\* The folds of the community modules take the greatest index away first.
LEMMA MaxOfInitialSegment ==
  ASSUME NEW k \in Nat, k # 0
  PROVE  Max(1..k) = k /\ (1..k) \ {k} = 1..(k - 1)
<1>1. 1..k \subseteq 1..k /\ 1..k # {}
  OBVIOUS
<1>2. Max(1..k) \in 1..k /\ \A i \in 1..k : i <= Max(1..k)
  BY <1>1, LargestPosition
<1>3. QED
  BY <1>2

\* What a fold computes with, over the first n elements: a value per set of positions.
FoldsTo(g, step, base, list, n) ==
  g = [s \in SUBSET (1..n) |-> IF s = {} THEN base ELSE step[<<g[s \ {Max(s)}], list[Max(s)]>>]]

HasFold(T, step, base, list, n) ==
  n <= Len(list) => \E g \in [SUBSET (1..n) -> T] : FoldsTo(g, step, base, list, n)

\* The recursive function that FoldLeft is defined by exists.
LEMMA FoldExists ==
  ASSUME NEW T, NEW E, NEW base \in T, NEW list \in Seq(E), NEW step \in [T \X E -> T]
  PROVE  \E g \in [SUBSET (1..Len(list)) -> T] : FoldsTo(g, step, base, list, Len(list))
<1>1. HasFold(T, step, base, list, 0)
  <2> DEFINE g == [s \in SUBSET (1..0) |-> base]
  <2>1. SUBSET (1..0) = {{}}
    OBVIOUS
  <2>2. g \in [SUBSET (1..0) -> T] /\ FoldsTo(g, step, base, list, 0)
    BY <2>1 DEF FoldsTo
  <2>3. QED
    BY <2>2 DEF HasFold
<1>2. ASSUME NEW n \in Nat, HasFold(T, step, base, list, n)
      PROVE  HasFold(T, step, base, list, n + 1)
  <2> SUFFICES ASSUME n + 1 <= Len(list)
               PROVE  \E g \in [SUBSET (1..(n + 1)) -> T] : FoldsTo(g, step, base, list, n + 1)
    BY <1>2 DEF HasFold
  <2>1. n <= Len(list)
    OBVIOUS
  <2>2. PICK g \in [SUBSET (1..n) -> T] : FoldsTo(g, step, base, list, n)
    BY <1>2, <2>1, Zenon DEF HasFold
  <2> DEFINE h == [s \in SUBSET (1..(n + 1)) |->
                     IF n + 1 \in s THEN step[<<g[s \ {n + 1}], list[n + 1]>>] ELSE g[s]]
  <2>3. \A s \in SUBSET (1..(n + 1)) : s \ {n + 1} \in SUBSET (1..n)
    OBVIOUS
  <2>4. list[n + 1] \in E
    OBVIOUS
  <2>5. h \in [SUBSET (1..(n + 1)) -> T]
    <3>1. ASSUME NEW s \in SUBSET (1..(n + 1))
          PROVE  (IF n + 1 \in s THEN step[<<g[s \ {n + 1}], list[n + 1]>>] ELSE g[s]) \in T
      <4>1. CASE n + 1 \in s
        <5>1. g[s \ {n + 1}] \in T
          BY <2>3
        <5>2. QED
          BY <5>1, <2>4, <4>1
      <4>2. CASE n + 1 \notin s
        <5>1. s \in SUBSET (1..n)
          BY <4>2
        <5>2. QED
          BY <5>1, <4>2
      <4>3. QED
        BY <4>1, <4>2
    <3>2. QED
      BY <3>1
  <2>6. ASSUME NEW s \in SUBSET (1..(n + 1))
        PROVE  h[s] = IF s = {} THEN base ELSE step[<<h[s \ {Max(s)}], list[Max(s)]>>]
    <3>1. CASE n + 1 \in s
      <4>1. Max(s) = n + 1
        <5>1. Max(s) \in s /\ \A i \in s : i <= Max(s)
          <6>1. s # {} /\ n + 1 \in Nat
            BY <3>1
          <6>2. QED
            BY <6>1, LargestPosition
        <5>2. Max(s) \in 1..(n + 1) /\ n + 1 <= Max(s)
          BY <5>1, <3>1
        <5>3. QED
          BY <5>2
      <4>2. h[s \ {n + 1}] = g[s \ {n + 1}]
        BY <2>3
      <4>3. QED
        BY <4>1, <4>2, <3>1
    <3>2. CASE n + 1 \notin s
      <4>1. s \in SUBSET (1..n)
        BY <3>2
      <4>2. h[s] = g[s]
        BY <3>2
      <4>3. CASE s = {}
        BY <4>1, <4>2, <4>3, <2>2 DEF FoldsTo
      <4>4. CASE s # {}
        <5>1. g[s] = step[<<g[s \ {Max(s)}], list[Max(s)]>>]
          BY <4>1, <4>4, <2>2 DEF FoldsTo
        <5>2. s \ {Max(s)} \in SUBSET (1..(n + 1)) /\ n + 1 \notin s \ {Max(s)}
          BY <3>2
        <5>3. h[s \ {Max(s)}] = g[s \ {Max(s)}]
          BY <5>2
        <5>4. QED
          BY <5>1, <5>3, <4>2, <4>4
      <4>5. QED
        BY <4>3, <4>4
    <3>3. QED
      BY <3>1, <3>2
  <2>7. FoldsTo(h, step, base, list, n + 1)
    <3> HIDE DEF h
    <3>1. h = [s \in SUBSET (1..(n + 1)) |-> h[s]]
      BY <2>5
    <3>2. QED
      BY <3>1, <2>6 DEF FoldsTo
  <2>8. QED
    BY <2>5, <2>7
<1>3. Nat \subseteq {n \in Nat : HasFold(T, step, base, list, n)}
  <2> DEFINE reached == {n \in Nat : HasFold(T, step, base, list, n)}
  <2>1. 0 \in reached /\ \A n \in reached : n \in Nat => n + 1 \in reached
    BY <1>1, <1>2
  <2> HIDE DEF reached
  <2>2. Nat \subseteq reached
    BY <2>1, NaturalInduction
  <2>3. QED
    BY <2>2 DEF reached
<1>4. Len(list) \in Nat /\ Len(list) <= Len(list)
  OBVIOUS
<1>5. HasFold(T, step, base, list, Len(list))
  BY <1>3, <1>4
<1>6. QED
  BY <1>5, <1>4, Zenon DEF HasFold

KeepStep(kept, x, set) == IF x \in set THEN Append(kept, x) ELSE kept

\* Those, element by element.
LEMMA ThoseTrace ==
  ASSUME NEW E, NEW list \in Seq(E), NEW set
  PROVE  \E tr : /\ tr[0] = <<>>
                 /\ \A k \in 1..Len(list) : tr[k] = KeepStep(tr[k - 1], list[k], set)
                 /\ Those(list, set) = tr[Len(list)]
<1> DEFINE step == [p \in Seq(E) \X E |-> KeepStep(p[1], p[2], set)]
<1> DEFINE IsFold(h) == h = [s \in SUBSET DOMAIN list |->
                               IF s = {} THEN <<>> ELSE KeepStep(h[s \ {Max(s)}], list[Max(s)], set)]
<1>1. step \in [Seq(E) \X E -> Seq(E)] /\ <<>> \in Seq(E) /\ Len(list) \in Nat /\ DOMAIN list = 1..Len(list)
  BY DEF KeepStep
<1>2. PICK g \in [SUBSET (1..Len(list)) -> Seq(E)] : FoldsTo(g, step, <<>>, list, Len(list))
  BY <1>1, FoldExists
<1>3. IsFold(g)
  <2>1. ASSUME NEW s \in SUBSET (1..Len(list)), s # {}
        PROVE  step[<<g[s \ {Max(s)}], list[Max(s)]>>] = KeepStep(g[s \ {Max(s)}], list[Max(s)], set)
    <3>1. Max(s) \in 1..Len(list)
      BY <1>1, <2>1, LargestPosition
    <3>2. list[Max(s)] \in E
      BY <3>1, ElementOfSeq
    <3>3. g[s \ {Max(s)}] \in Seq(E)
      OBVIOUS
    <3>4. QED
      BY <3>2, <3>3
  <2> HIDE DEF step
  <2>2. g = [s \in SUBSET (1..Len(list)) |-> IF s = {} THEN <<>> ELSE step[<<g[s \ {Max(s)}], list[Max(s)]>>]]
    BY <1>2 DEF FoldsTo
  <2>3. QED
    BY <1>1, <2>1, <2>2
<1> HIDE DEF step
<1> DEFINE iter == CHOOSE h : IsFold(h)
<1>4. IsFold(iter)
  BY <1>3
<1>5. Those(list, set) = iter[DOMAIN list]
  BY DEF Those, FoldLeft, MapThenFoldSet, KeepStep
<1> HIDE DEF iter
<1> DEFINE tr == [k \in 0..Len(list) |-> iter[1..k]]
<1>6. tr[0] = <<>>
  <2>1. 1..0 = {} /\ {} \in SUBSET DOMAIN list
    OBVIOUS
  <2>2. QED
    BY <1>1, <1>4, <2>1
<1>7. ASSUME NEW k \in 1..Len(list) PROVE tr[k] = KeepStep(tr[k - 1], list[k], set)
  <2>1. 1..k \in SUBSET DOMAIN list /\ 1..k # {} /\ k \in Nat /\ k # 0 /\ k - 1 \in 0..Len(list)
    <3>1. k \in Nat /\ k # 0 /\ k - 1 \in 0..Len(list) /\ k <= Len(list) /\ k \in 1..k
      BY <1>1
    <3>2. 1..k \subseteq 1..Len(list)
      BY <1>1, <3>1
    <3>3. QED
      BY <1>1, <3>1, <3>2
  <2>2. Max(1..k) = k /\ (1..k) \ {k} = 1..(k - 1)
    BY <2>1, MaxOfInitialSegment
  <2>3. iter[1..k] = KeepStep(iter[1..(k - 1)], list[k], set)
    BY <1>4, <2>1, <2>2
  <2>4. QED
    BY <1>1, <2>1, <2>3
<1>8. Those(list, set) = tr[Len(list)]
  BY <1>1, <1>5
<1> HIDE DEF tr
<1>9. QED
  BY <1>6, <1>7, <1>8

\* Induction up to a bound.
LEMMA BoundedInduction ==
  ASSUME NEW n \in Nat, NEW S, 0 \in S, \A k \in 1..n : k - 1 \in S => k \in S
  PROVE  0..n \subseteq S
<1> DEFINE R == {k \in Nat : k <= n => k \in S}
<1>1. 0 \in R
  OBVIOUS
<1>2. ASSUME NEW k \in R, k \in Nat PROVE k + 1 \in R
  <2>1. CASE k + 1 <= n
    <3>1. k \in S /\ k + 1 \in 1..n /\ (k + 1) - 1 = k
      BY <1>2, <2>1
    <3>2. k + 1 \in S
      BY <3>1
    <3>3. QED
      BY <1>2, <3>2
  <2>2. CASE ~(k + 1 <= n)
    BY <1>2, <2>2
  <2>3. QED
    BY <2>1, <2>2
<1> HIDE DEF R
<1>3. Nat \subseteq R
  BY <1>1, <1>2, NaturalInduction
<1>4. QED
  BY <1>3 DEF R

\* r has the elements of the first n of list that are in set, where `position` says, in order.
Picks(position, r, list, n, set) ==
  /\ position \in [1..Len(r) -> 1..n]
  /\ \A i, j \in 1..Len(r) : i < j => position[i] < position[j]
  /\ \A i \in 1..Len(r) : r[i] = list[position[i]] /\ r[i] \in set
  /\ \A k \in 1..n : list[k] \in set => \E i \in 1..Len(r) : position[i] = k

HasPicked(E, r, list, n, set) == r \in Seq(E) /\ \E position : Picks(position, r, list, n, set)

\* Those are the elements of a list that are in a set: no others, all of them, in order.
LEMMA ThoseArePicked ==
  ASSUME NEW E, NEW list \in Seq(E), NEW set
  PROVE  HasPicked(E, Those(list, set), list, Len(list), set)
<1>1. PICK tr : /\ tr[0] = <<>>
                /\ \A k \in 1..Len(list) : tr[k] = KeepStep(tr[k - 1], list[k], set)
                /\ Those(list, set) = tr[Len(list)]
  BY ThoseTrace
<1>2. HasPicked(E, tr[0], list, 0, set)
  <2> DEFINE position == [i \in 1..0 |-> 0]
  <2>1. <<>> \in Seq(E) /\ Len(<<>>) = 0 /\ 1..0 = {}
    BY EmptySeq
  <2>2. position \in [1..0 -> 1..0]
    BY <2>1
  <2>3. Picks(position, <<>>, list, 0, set)
    BY <2>1, <2>2 DEF Picks
  <2>4. QED
    BY <1>1, <2>1, <2>3 DEF HasPicked
<1>3. ASSUME NEW k \in 1..Len(list), HasPicked(E, tr[k - 1], list, k - 1, set)
      PROVE  HasPicked(E, tr[k], list, k, set)
  <2>1. PICK r : r = tr[k - 1]
    OBVIOUS
  <2>2. PICK position : Picks(position, r, list, k - 1, set)
    BY <1>3, <2>1 DEF HasPicked
  <2>3. /\ r \in Seq(E) /\ Len(r) \in Nat /\ k \in Nat /\ k # 0 /\ list[k] \in E
        /\ tr[k] = KeepStep(r, list[k], set)
    BY <1>1, <1>3, <2>1, ElementOfSeq DEF HasPicked
  <2>4. /\ position \in [1..Len(r) -> 1..(k - 1)]
        /\ \A i, j \in 1..Len(r) : i < j => position[i] < position[j]
        /\ \A i \in 1..Len(r) : r[i] = list[position[i]] /\ r[i] \in set
        /\ \A m \in 1..(k - 1) : list[m] \in set => \E i \in 1..Len(r) : position[i] = m
    BY <2>2 DEF Picks
  <2>5. CASE list[k] \notin set
    <3>1. tr[k] = r
      BY <2>3, <2>5 DEF KeepStep
    <3>2. position \in [1..Len(r) -> 1..k]
      BY <2>3, <2>4
    <3>3. \A m \in 1..k : list[m] \in set => \E i \in 1..Len(r) : position[i] = m
      BY <2>3, <2>4, <2>5
    <3>4. Picks(position, r, list, k, set)
      BY <2>4, <3>2, <3>3 DEF Picks
    <3>5. QED
      BY <2>3, <3>1, <3>4 DEF HasPicked
  <2>6. CASE list[k] \in set
    <3> DEFINE position2 == [i \in 1..(Len(r) + 1) |-> IF i = Len(r) + 1 THEN k ELSE position[i]]
    <3>1. PICK q : q = Append(r, list[k])
      OBVIOUS
    <3>2. tr[k] = q
      BY <2>3, <2>6, <3>1 DEF KeepStep
    <3>3. /\ q \in Seq(E) /\ Len(q) = Len(r) + 1
          /\ \A i \in 1..Len(r) : q[i] = r[i]
          /\ q[Len(r) + 1] = list[k]
      BY <2>3, <3>1, AppendProperties
    <3>4. \A i \in 1..Len(r) : position2[i] = position[i] /\ position[i] \in 1..(k - 1)
      <4>1. TAKE i \in 1..Len(r)
      <4>2. i \in 1..(Len(r) + 1) /\ i # Len(r) + 1
        BY <2>3
      <4>3. QED
        BY <2>4, <4>2
    <3>5. position2[Len(r) + 1] = k
      BY <2>3
    <3>6. position2 \in [1..(Len(r) + 1) -> 1..k]
      BY <2>3, <2>4
    <3> HIDE DEF position2
    <3>7. \A i, j \in 1..(Len(r) + 1) : i < j => position2[i] < position2[j]
      <4>1. TAKE i, j \in 1..(Len(r) + 1)
      <4>2. HAVE i < j
      <4>3. i \in 1..Len(r) /\ position2[i] = position[i] /\ position[i] \in 1..(k - 1)
        BY <2>3, <3>4, <4>2
      <4>4. CASE j = Len(r) + 1
        BY <2>3, <3>5, <4>3, <4>4
      <4>5. CASE j # Len(r) + 1
        <5>1. j \in 1..Len(r)
          BY <2>3, <4>5
        <5>2. QED
          BY <2>4, <3>4, <4>2, <4>3, <5>1
      <4>6. QED
        BY <4>4, <4>5
    <3>8. \A i \in 1..(Len(r) + 1) : q[i] = list[position2[i]] /\ q[i] \in set
      <4>1. TAKE i \in 1..(Len(r) + 1)
      <4>2. CASE i = Len(r) + 1
        BY <2>6, <3>3, <3>5, <4>2
      <4>3. CASE i # Len(r) + 1
        <5>1. i \in 1..Len(r)
          BY <2>3, <4>3
        <5>2. q[i] = r[i] /\ position2[i] = position[i] /\ r[i] = list[position[i]] /\ r[i] \in set
          BY <2>4, <3>3, <3>4, <5>1
        <5>3. QED
          BY <5>2
      <4>4. QED
        BY <4>2, <4>3
    <3>9. \A m \in 1..k : list[m] \in set => \E i \in 1..(Len(r) + 1) : position2[i] = m
      <4>1. TAKE m \in 1..k
      <4>2. HAVE list[m] \in set
      <4>3. CASE m = k
        BY <2>3, <3>5, <4>3
      <4>4. CASE m # k
        <5>1. m \in 1..(k - 1)
          BY <2>3, <4>4
        <5>2. PICK i \in 1..Len(r) : position[i] = m
          BY <2>4, <4>2, <5>1
        <5>3. i \in 1..(Len(r) + 1) /\ position2[i] = m
          BY <2>3, <3>4, <5>2
        <5>4. QED
          BY <5>3
      <4>5. QED
        BY <4>3, <4>4
    <3>10. Picks(position2, q, list, k, set)
      BY <3>3, <3>6, <3>7, <3>8, <3>9 DEF Picks
    <3>11. QED
      BY <3>2, <3>3, <3>10 DEF HasPicked
  <2>7. QED
    BY <2>5, <2>6
<1> DEFINE S == {k \in 0..Len(list) : HasPicked(E, tr[k], list, k, set)}
<1>4. 0 \in S /\ \A k \in 1..Len(list) : k - 1 \in S => k \in S
  BY <1>2, <1>3
<1>5. 0..Len(list) \subseteq S
  <2> HIDE DEF S
  <2>1. Len(list) \in Nat
    OBVIOUS
  <2>2. QED
    BY <1>4, <2>1, BoundedInduction
<1>6. QED
  BY <1>1, <1>5

\* What the proofs below use of it.
LEMMA ThoseProperties ==
  ASSUME NEW E, NEW list \in Seq(E), NEW set
  PROVE  /\ Those(list, set) \in Seq(E)
         /\ ToSet(Those(list, set)) = ToSet(list) \cap set
         /\ Those(list, set) = <<>> <=> \A k \in DOMAIN list : list[k] \notin set
<1>1. PICK r : r = Those(list, set)
  OBVIOUS
<1>2. PICK position : Picks(position, r, list, Len(list), set)
  BY <1>1, ThoseArePicked DEF HasPicked
<1>3. r \in Seq(E) /\ Len(r) \in Nat /\ DOMAIN r = 1..Len(r) /\ DOMAIN list = 1..Len(list)
  BY <1>1, ThoseArePicked DEF HasPicked
<1>4. /\ position \in [1..Len(r) -> 1..Len(list)]
      /\ \A i \in 1..Len(r) : r[i] = list[position[i]] /\ r[i] \in set
      /\ \A k \in 1..Len(list) : list[k] \in set => \E i \in 1..Len(r) : position[i] = k
  BY <1>2 DEF Picks
<1>5. ToSet(r) = ToSet(list) \cap set
  <2>1. ASSUME NEW x \in ToSet(r) PROVE x \in ToSet(list) \cap set
    <3>1. PICK i \in 1..Len(r) : x = r[i]
      BY <1>3 DEF ToSet
    <3>2. position[i] \in DOMAIN list /\ x = list[position[i]] /\ x \in set
      BY <1>3, <1>4, <3>1
    <3>3. QED
      BY <3>2 DEF ToSet
  <2>2. ASSUME NEW x \in ToSet(list) \cap set PROVE x \in ToSet(r)
    <3>1. PICK k \in 1..Len(list) : x = list[k]
      BY <1>3 DEF ToSet
    <3>2. PICK i \in 1..Len(r) : position[i] = k
      BY <1>4, <3>1
    <3>3. x = r[i] /\ i \in DOMAIN r
      BY <1>3, <1>4, <3>1, <3>2
    <3>4. QED
      BY <3>3 DEF ToSet
  <2>3. QED
    BY <2>1, <2>2
<1>6. r = <<>> <=> \A k \in DOMAIN list : list[k] \notin set
  <2>1. r = <<>> => Len(r) = 0
    BY EmptySeq
  <2>2. r # <<>> => Len(r) # 0
    BY <1>3, EmptySeq
  <2>3. Len(r) = 0 <=> \A k \in 1..Len(list) : list[k] \notin set
    <3>1. CASE Len(r) = 0
      BY <1>4, <3>1
    <3>2. CASE Len(r) # 0
      <4>1. 1 \in 1..Len(r)
        BY <1>3, <3>2
      <4>2. position[1] \in 1..Len(list) /\ list[position[1]] \in set
        BY <1>4, <4>1
      <4>3. QED
        BY <3>2, <4>2
    <3>3. QED
      BY <3>1, <3>2
  <2>4. QED
    BY <1>3, <2>1, <2>2, <2>3
<1>7. QED
  BY <1>1, <1>3, <1>5, <1>6

\* The positions before and including one of a list's.
LEMMA InitialSegment ==
  ASSUME NEW n \in Nat, NEW k \in 1..n
  PROVE  1..k \in SUBSET (1..n) /\ 1..k # {} /\ k \in Nat /\ k # 0 /\ k - 1 \in 0..n
<1>1. k \in Nat /\ k # 0 /\ k - 1 \in 0..n /\ k <= n /\ k \in 1..k
  OBVIOUS
<1>2. 1..k \subseteq 1..n
  BY <1>1
<1>3. QED
  BY <1>1, <1>2

------------------------------------------------------------------------------
\* Symbol resolution: what its folds compute.

UniqueStep(unique, s) ==
  IF PlaceOf[s] = None \/ \E i \in DOMAIN unique : PlaceOf[unique[i]] = PlaceOf[s]
  THEN unique ELSE Append(unique, s)

\* all_symbols, element by element.
LEMMA AllSymbolsTrace ==
  ASSUME NEW list \in Seq(Symbols)
  PROVE  \E tr : /\ tr[0] = <<>>
                 /\ \A k \in 1..Len(list) : tr[k] = UniqueStep(tr[k - 1], list[k])
                 /\ AllSymbols(list) = tr[Len(list)]
<1> DEFINE step == [p \in Seq(Symbols) \X Symbols |-> UniqueStep(p[1], p[2])]
<1> DEFINE IsFold(h) == h = [s \in SUBSET DOMAIN list |->
                               IF s = {} THEN <<>> ELSE UniqueStep(h[s \ {Max(s)}], list[Max(s)])]
<1>1. step \in [Seq(Symbols) \X Symbols -> Seq(Symbols)] /\ <<>> \in Seq(Symbols) /\ Len(list) \in Nat /\ DOMAIN list = 1..Len(list)
  BY DEF UniqueStep
<1>2. PICK g \in [SUBSET (1..Len(list)) -> Seq(Symbols)] : FoldsTo(g, step, <<>>, list, Len(list))
  BY <1>1, FoldExists
<1>3. IsFold(g)
  <2>1. ASSUME NEW s \in SUBSET (1..Len(list)), s # {}
        PROVE  step[<<g[s \ {Max(s)}], list[Max(s)]>>] = UniqueStep(g[s \ {Max(s)}], list[Max(s)])
    <3>1. Max(s) \in 1..Len(list)
      BY <1>1, <2>1, LargestPosition
    <3>2. list[Max(s)] \in Symbols
      BY <3>1, ElementOfSeq
    <3>3. g[s \ {Max(s)}] \in Seq(Symbols)
      OBVIOUS
    <3>4. QED
      BY <3>2, <3>3
  <2> HIDE DEF step
  <2>2. g = [s \in SUBSET (1..Len(list)) |-> IF s = {} THEN <<>> ELSE step[<<g[s \ {Max(s)}], list[Max(s)]>>]]
    BY <1>2 DEF FoldsTo
  <2>3. QED
    BY <1>1, <2>1, <2>2
<1> HIDE DEF step
<1> DEFINE iter == CHOOSE h : IsFold(h)
<1>4. IsFold(iter)
  BY <1>3
<1>5. AllSymbols(list) = iter[DOMAIN list]
  BY DEF AllSymbols, UniqueStep, FoldLeft, MapThenFoldSet
<1> HIDE DEF iter
<1> DEFINE tr == [k \in 0..Len(list) |-> iter[1..k]]
<1>6. tr[0] = <<>>
  <2>1. 1..0 = {} /\ {} \in SUBSET DOMAIN list
    OBVIOUS
  <2>2. QED
    BY <1>1, <1>4, <2>1
<1>7. ASSUME NEW k \in 1..Len(list) PROVE tr[k] = UniqueStep(tr[k - 1], list[k])
  <2>1. 1..k \in SUBSET DOMAIN list /\ 1..k # {} /\ k \in Nat /\ k # 0 /\ k - 1 \in 0..Len(list)
    BY <1>1, InitialSegment
  <2>2. Max(1..k) = k /\ (1..k) \ {k} = 1..(k - 1)
    BY <2>1, MaxOfInitialSegment
  <2>3. iter[1..k] = UniqueStep(iter[1..(k - 1)], list[k])
    BY <1>4, <2>1, <2>2
  <2>4. QED
    BY <1>1, <2>1, <2>3
<1>8. AllSymbols(list) = tr[Len(list)]
  BY <1>1, <1>5
<1> HIDE DEF tr
<1>9. QED
  BY <1>6, <1>7, <1>8

\* The symbols whose entries have a range.
Located == {s \in Symbols : PlaceOf[s] # None}

\* all_symbols leaves entries with a range only.
LEMMA AllSymbolsAreLocated ==
  ASSUME NEW list \in Seq(Symbols)
  PROVE  AllSymbols(list) \in Seq(Located)
<1>1. PICK tr : /\ tr[0] = <<>>
                /\ \A k \in 1..Len(list) : tr[k] = UniqueStep(tr[k - 1], list[k])
                /\ AllSymbols(list) = tr[Len(list)]
  BY AllSymbolsTrace
<1> DEFINE S == {k \in 0..Len(list) : tr[k] \in Seq(Located)}
<1>2. 0 \in S
  <2>1. <<>> \in Seq(Located) /\ Len(list) \in Nat
    OBVIOUS
  <2>2. 0 \in 0..Len(list) /\ tr[0] \in Seq(Located)
    BY <1>1, <2>1
  <2>3. QED
    BY <2>2
<1>3. ASSUME NEW k \in 1..Len(list), k - 1 \in S PROVE k \in S
  <2>1. list[k] \in Symbols /\ tr[k - 1] \in Seq(Located)
    BY <1>3, ElementOfSeq
  <2>2. tr[k] = tr[k - 1] \/ (PlaceOf[list[k]] # None /\ tr[k] = Append(tr[k - 1], list[k]))
    <3>1. tr[k] = UniqueStep(tr[k - 1], list[k])
      BY <1>1, <1>3
    <3>2. CASE PlaceOf[list[k]] = None \/ \E i \in DOMAIN tr[k - 1] : PlaceOf[tr[k - 1][i]] = PlaceOf[list[k]]
      BY <3>1, <3>2, Zenon DEF UniqueStep
    <3>3. CASE ~(PlaceOf[list[k]] = None \/ \E i \in DOMAIN tr[k - 1] : PlaceOf[tr[k - 1][i]] = PlaceOf[list[k]])
      <4>1. tr[k] = Append(tr[k - 1], list[k])
        BY <3>1, <3>3, Zenon DEF UniqueStep
      <4>2. QED
        BY <3>3, <4>1
    <3>4. QED
      BY <3>2, <3>3
  <2>3. tr[k] \in Seq(Located)
    <3>1. CASE tr[k] = tr[k - 1]
      BY <2>1, <3>1
    <3>2. CASE PlaceOf[list[k]] # None /\ tr[k] = Append(tr[k - 1], list[k])
      <4>1. list[k] \in Located
        BY <2>1, <3>2 DEF Located
      <4>2. Append(tr[k - 1], list[k]) \in Seq(Located)
        BY <2>1, <4>1, AppendProperties
      <4>3. QED
        BY <3>2, <4>2
    <3>3. QED
      BY <2>2, <3>1, <3>2
  <2>4. QED
    BY <2>3
<1>4. 0..Len(list) \subseteq S
  <2> HIDE DEF S
  <2>1. Len(list) \in Nat
    OBVIOUS
  <2>2. QED
    BY <1>2, <1>3, <2>1, BoundedInduction
<1>5. QED
  BY <1>1, <1>4

\* A located symbol's place is one of Places.
LEMMA LocatedPlaces == \A s \in Located : s \in Symbols /\ PlaceOf[s] \in Places
  BY DEF Located, Places

------------------------------------------------------------------------------
\* The lookup's invariant.

Target == [label : Symbols \cup {None}, place : Places \cup {None}]
What == {"truncated", "not local", "filtered", "unknown", "no file", "no symbol"}
AnyNote == [spec : Nat, truncated : BOOLEAN, what : What]

LookupTypes ==
  /\ given \in Given \cup {Nothing}
  /\ specs \in {<<>>, SpecsOf(given)}
  /\ Len(specs) \in Nat /\ DOMAIN specs = 1..Len(specs)
  /\ \A i \in DOMAIN specs : specs[i].kind \in {"name", "position"}
  /\ at \in 0..(Len(specs) + 1)
  /\ lookup \in Awaited \cup {"off", "classify", "file", "found", "taken", "rejected", "failed"}
  /\ scope \in {"workspace", "all"}
  /\ cut \in BOOLEAN /\ anyCut \in BOOLEAN /\ hidden \in BOOLEAN
  /\ pointed \in [place : Places \cup {None}, name : Names \cup {None}]
  /\ targets \in Seq(Target)
  /\ seen \subseteq Places
  /\ notes \in Seq(AnyNote)
  /\ wasCut \subseteq 1..Len(specs)

OfNames == {"search", "leaf"}
OfPositions == {"file", "definition", "outline", "label"}
Idle == {"off", "classify", "rejected", "taken"}

\* Where the lookup stands.
Stages ==
  /\ lookup \in Idle =>
       at = 0 /\ specs = <<>> /\ targets = <<>> /\ seen = {} /\ notes = <<>> /\ wasCut = {}
  /\ lookup \notin Idle => specs = SpecsOf(given) /\ ~ClassifyRejects(given)
  /\ lookup \in OfNames => at \in DOMAIN specs /\ specs[at].kind = "name"
  /\ lookup \in OfPositions => at \in DOMAIN specs /\ specs[at].kind = "position"
  /\ lookup = "failed" => at \in DOMAIN specs
  /\ lookup \in OfPositions \ {"file"} => Grouped
  /\ lookup \in {"outline", "label"} => pointed.place \in LocalPlaces
  /\ lookup = "found" => at = Len(specs) + 1

\* The searches that were cut: those of the name looked up, and those the notes tell of.
Cuts ==
  /\ lookup \in OfNames => (at \in wasCut <=> anyCut \/ cut)
  /\ lookup = "search" => ~cut
  /\ \A i \in wasCut : i <= at

\* The notes are of the names and positions looked up before, and tell of their cuts.
NotesOf(list, n, cuts) ==
  \A i \in DOMAIN list :
    /\ list[i].spec \in 1..n
    /\ list[i].what \in {"filtered", "unknown"} => list[i].truncated = (list[i].spec \in cuts)

\* A place that was found has a target or is reported.
SeenIsRun(places, list, told) ==
  \A p \in places : IF p \in LocalPlaces THEN \E i \in DOMAIN list : list[i].place = p
                                         ELSE told # <<>>

\* The targets are at places that were found, one at each.
RunOnce(places, list) ==
  /\ \A i \in DOMAIN list : list[i].place \in places
  /\ \A i, j \in DOMAIN list : list[i].place = list[j].place => i = j

Resolved(i) ==
  \/ Noted(i)
  \/ specs[i].kind = "name" /\ \E s \in Symbols : NameOf[s] = specs[i].leaf /\ PlaceOf[s] \in seen
  \/ specs[i].kind = "position" /\ targets # <<>>

LookupInv ==
  /\ LookupTypes
  /\ Stages
  /\ Cuts
  /\ NotesOf(notes, at - 1, wasCut)
  /\ SeenIsRun(seen, targets, notes)
  /\ Grouped => RunOnce(seen, targets)
  /\ \A i \in DOMAIN specs : i < at => Resolved(i)

------------------------------------------------------------------------------
\* What one definition of a name changes.

Founds == [seen : SUBSET Places, targets : Seq(Target), notes : Seq(AnyNote)]

Sound(found) ==
  /\ SeenIsRun(found.seen, found.targets, found.notes)
  /\ RunOnce(found.seen, found.targets)

\* What is found is added to what was.
Grows(before, after) ==
  /\ before.seen \subseteq after.seen
  /\ before.targets # <<>> => after.targets # <<>>
  /\ Len(before.notes) <= Len(after.notes)
  /\ \A i \in 1..Len(before.notes) : after.notes[i] = before.notes[i]

\* A list is empty if it has no positions.
LEMMA NoElements ==
  ASSUME NEW E, NEW list \in Seq(E)
  PROVE  list = <<>> <=> DOMAIN list = {}
<1>1. Len(list) \in Nat /\ DOMAIN list = 1..Len(list)
  OBVIOUS
<1>2. list = <<>> <=> Len(list) = 0
  BY EmptySeq
<1>3. CASE Len(list) = 0
  BY <1>1, <1>2, <1>3
<1>4. CASE Len(list) # 0
  <2>1. 1 \in 1..Len(list)
    BY <1>1, <1>4
  <2>2. QED
    BY <1>1, <1>2, <1>4, <2>1
<1>5. QED
  BY <1>3, <1>4

\* What appending does to a list and its positions.
LEMMA AppendedList ==
  ASSUME NEW E, NEW list \in Seq(E), NEW e \in E
  PROVE  /\ Append(list, e) \in Seq(E) /\ Append(list, e) # <<>>
         /\ Len(list) \in Nat /\ Len(Append(list, e)) = Len(list) + 1
         /\ DOMAIN list = 1..Len(list) /\ DOMAIN Append(list, e) = 1..(Len(list) + 1)
         /\ \A i \in 1..Len(list) : Append(list, e)[i] = list[i]
         /\ Append(list, e)[Len(list) + 1] = e
<1>1. Append(list, e) \in Seq(E) /\ Len(list) \in Nat /\ Len(Append(list, e)) = Len(list) + 1
  BY AppendProperties
<1>2. Append(list, e) # <<>>
  BY <1>1, EmptySeq
<1>3. QED
  BY <1>1, <1>2, AppendProperties

\* A definition is skipped, or its place is seen and is reported or run.
LEMMA AddMatchCases ==
  ASSUME at \in Nat, NEW found \in Founds, NEW s \in Located
  PROVE  \/ PlaceOf[s] \in found.seen /\ AddMatch(found, s) = found
         \/ /\ PlaceOf[s] \notin found.seen /\ PlaceOf[s] \notin LocalPlaces
            /\ AddMatch(found, s) = [seen |-> found.seen \cup {PlaceOf[s]}, targets |-> found.targets,
                                     notes |-> Append(found.notes, Note("not local", FALSE))]
         \/ /\ PlaceOf[s] \notin found.seen /\ PlaceOf[s] \in LocalPlaces
            /\ AddMatch(found, s) = [seen |-> found.seen \cup {PlaceOf[s]},
                                     targets |-> Append(found.targets, [label |-> s, place |-> PlaceOf[s]]),
                                     notes |-> found.notes]
<1>1. CASE PlaceOf[s] \in found.seen
  BY <1>1 DEF AddMatch
<1>2. CASE PlaceOf[s] \notin found.seen /\ PlaceOf[s] \notin LocalPlaces
  <2>1. AddMatch(found, s) = [found EXCEPT !.seen = @ \cup {PlaceOf[s]},
                                          !.notes = Append(@, Note("not local", FALSE))]
    BY <1>2 DEF AddMatch
  <2>2. QED
    BY <1>2, <2>1 DEF Founds
<1>3. CASE PlaceOf[s] \notin found.seen /\ PlaceOf[s] \in LocalPlaces
  <2>1. AddMatch(found, s) = [found EXCEPT !.seen = @ \cup {PlaceOf[s]},
                                          !.targets = Append(@, [label |-> s, place |-> PlaceOf[s]])]
    BY <1>3 DEF AddMatch
  <2>2. QED
    BY <1>3, <2>1 DEF Founds
<1>4. QED
  BY <1>1, <1>2, <1>3

\* Note makes notes.
LEMMA NoteIsNote ==
  ASSUME at \in Nat, NEW what \in What, NEW truncates \in BOOLEAN
  PROVE  Note(what, truncates) \in AnyNote
BY DEF Note, AnyNote

\* A match that is added leaves places, targets and notes of their types.
LEMMA AddMatchType ==
  ASSUME at \in Nat, NEW found \in Founds, NEW s \in Located
  PROVE  AddMatch(found, s) \in Founds
<1>1. /\ found.seen \in SUBSET Places /\ found.targets \in Seq(Target) /\ found.notes \in Seq(AnyNote)
      /\ PlaceOf[s] \in Places /\ s \in Symbols
  BY LocatedPlaces DEF Founds
<1>2. found.seen \cup {PlaceOf[s]} \in SUBSET Places
  BY <1>1
<1>3. Append(found.notes, Note("not local", FALSE)) \in Seq(AnyNote)
  <2>1. Note("not local", FALSE) \in AnyNote
    BY NoteIsNote DEF What
  <2>2. QED
    BY <1>1, <2>1, AppendedList
<1>4. Append(found.targets, [label |-> s, place |-> PlaceOf[s]]) \in Seq(Target)
  <2>1. [label |-> s, place |-> PlaceOf[s]] \in Target
    BY <1>1 DEF Target
  <2>2. QED
    BY <1>1, <2>1, AppendedList
<1>5. CASE AddMatch(found, s) = found
  BY <1>5
<1>6. CASE AddMatch(found, s) = [seen |-> found.seen \cup {PlaceOf[s]}, targets |-> found.targets,
                                 notes |-> Append(found.notes, Note("not local", FALSE))]
  <2>1. PICK told : told = Append(found.notes, Note("not local", FALSE))
    OBVIOUS
  <2>2. PICK places : places = found.seen \cup {PlaceOf[s]}
    OBVIOUS
  <2>3. AddMatch(found, s) = [seen |-> places, targets |-> found.targets, notes |-> told]
    BY <1>6, <2>1, <2>2
  <2>4. places \in SUBSET Places /\ told \in Seq(AnyNote)
    BY <1>2, <1>3, <2>1, <2>2
  <2>5. QED
    BY <1>1, <2>3, <2>4 DEF Founds
<1>7. CASE AddMatch(found, s) = [seen |-> found.seen \cup {PlaceOf[s]},
                                 targets |-> Append(found.targets, [label |-> s, place |-> PlaceOf[s]]),
                                 notes |-> found.notes]
  BY <1>1, <1>2, <1>4, <1>7 DEF Founds
<1>8. QED
  BY <1>5, <1>6, <1>7, AddMatchCases


\* What the fold keeps while it adds the definitions of a name, given what was found before.
Adding(before, found, list, k, cuts) ==
  /\ found \in Founds
  /\ Sound(found)
  /\ NotesOf(found.notes, at, cuts)
  /\ Grows(before, found)
  /\ \A i \in 1..k : PlaceOf[list[i]] \in found.seen

\* A match that is added has a target at its place or a note, and keeps what was found.
LEMMA AddMatchKeeps ==
  ASSUME at \in Nat, at # 0, NEW before \in Founds, NEW found, NEW s \in Located,
         NEW cuts, NEW list, NEW k \in Nat, k # 0, list[k] = s,
         Adding(before, found, list, k - 1, cuts)
  PROVE  Adding(before, AddMatch(found, s), list, k, cuts)
<1>1. PICK after : after = AddMatch(found, s)
  OBVIOUS
<1>2. /\ found \in Founds /\ after \in Founds
      /\ found.seen \in SUBSET Places /\ found.targets \in Seq(Target) /\ found.notes \in Seq(AnyNote)
      /\ PlaceOf[s] \in Places
      /\ before.notes \in Seq(AnyNote)
  BY <1>1, AddMatchType, LocatedPlaces DEF Adding, Founds
<1>3. /\ SeenIsRun(found.seen, found.targets, found.notes)
      /\ RunOnce(found.seen, found.targets)
      /\ NotesOf(found.notes, at, cuts)
      /\ Grows(before, found)
      /\ \A i \in 1..(k - 1) : PlaceOf[list[i]] \in found.seen
  BY DEF Adding, Sound
<1>4. (\A i \in 1..k : PlaceOf[list[i]] \in found.seen \cup {PlaceOf[s]})
  <2>1. \A i \in 1..k : i \in 1..(k - 1) \/ i = k
    OBVIOUS
  <2>2. QED
    BY <1>3, <2>1
<1>5. CASE PlaceOf[s] \in found.seen /\ after = found
  <2>1. \A i \in 1..k : PlaceOf[list[i]] \in found.seen
    BY <1>4, <1>5
  <2>2. QED
    BY <1>1, <1>2, <1>3, <1>5, <2>1 DEF Adding, Sound
<1>6. ASSUME PlaceOf[s] \notin LocalPlaces,
             after = [seen |-> found.seen \cup {PlaceOf[s]}, targets |-> found.targets,
                      notes |-> Append(found.notes, Note("not local", FALSE))]
      PROVE  Adding(before, after, list, k, cuts)
  <2>1. PICK n : n = Note("not local", FALSE)
    OBVIOUS
  <2>2. n \in AnyNote /\ n.spec = at /\ n.what = "not local"
    <3>1. n \in AnyNote
      BY <2>1, NoteIsNote DEF What
    <3>2. QED
      BY <2>1, <3>1 DEF Note
  <2>3. PICK told : told = Append(found.notes, n)
    OBVIOUS
  <2>4. /\ told \in Seq(AnyNote) /\ told # <<>>
        /\ Len(found.notes) \in Nat /\ Len(told) = Len(found.notes) + 1
        /\ DOMAIN found.notes = 1..Len(found.notes) /\ DOMAIN told = 1..(Len(found.notes) + 1)
        /\ \A i \in 1..Len(found.notes) : told[i] = found.notes[i]
        /\ told[Len(found.notes) + 1] = n
    <3>1. found.notes \in Seq(AnyNote) /\ n \in AnyNote
      BY <1>2, <2>2
    <3>2. QED
      BY <2>3, <3>1, AppendedList
  <2>5. after.seen = found.seen \cup {PlaceOf[s]} /\ after.targets = found.targets /\ after.notes = told
    BY <1>6, <2>1, <2>3
  <2>6. SeenIsRun(after.seen, after.targets, told)
    BY <1>3, <1>6, <2>4, <2>5, Zenon DEF SeenIsRun
  <2>7. RunOnce(after.seen, after.targets)
    BY <1>3, <2>5 DEF RunOnce
  <2>8. NotesOf(told, at, cuts)
    <3>1. ASSUME NEW i \in DOMAIN told
          PROVE  /\ told[i].spec \in 1..at
                 /\ told[i].what \in {"filtered", "unknown"} => told[i].truncated = (told[i].spec \in cuts)
      <4>1. CASE i = Len(found.notes) + 1
        <5>1. told[i].spec = at /\ told[i].what = "not local"
          BY <2>2, <2>4, <4>1
        <5>2. at \in 1..at
          OBVIOUS
        <5>3. QED
          BY <5>1, <5>2
      <4>2. CASE i # Len(found.notes) + 1
        <5>1. i \in DOMAIN found.notes /\ told[i] = found.notes[i]
          BY <2>4, <4>2
        <5>2. QED
          BY <1>3, <5>1 DEF NotesOf
      <4>3. QED
        BY <4>1, <4>2
    <3>2. QED
      BY <3>1, Zenon DEF NotesOf
  <2>9. Grows(before, after)
    <3>1. Len(before.notes) \in Nat /\ Len(before.notes) <= Len(told)
      <4>1. Len(before.notes) \in Nat
        BY <1>2
      <4>2. Len(before.notes) <= Len(found.notes)
        BY <1>3 DEF Grows
      <4>3. QED
        BY <2>4, <4>1, <4>2
    <3>2. \A i \in 1..Len(before.notes) : told[i] = before.notes[i]
      <4>1. TAKE i \in 1..Len(before.notes)
      <4>2. Len(before.notes) <= Len(found.notes) /\ found.notes[i] = before.notes[i]
        BY <1>3 DEF Grows
      <4>3. i \in 1..Len(found.notes)
        BY <2>4, <3>1, <4>2
      <4>4. QED
        BY <2>4, <4>2, <4>3
    <3>3. QED
      BY <1>3, <2>5, <3>1, <3>2 DEF Grows
  <2>10. QED
    BY <1>2, <1>4, <2>5, <2>6, <2>7, <2>8, <2>9 DEF Adding, Sound
<1>7. ASSUME PlaceOf[s] \in LocalPlaces, PlaceOf[s] \notin found.seen,
             after = [seen |-> found.seen \cup {PlaceOf[s]},
                      targets |-> Append(found.targets, [label |-> s, place |-> PlaceOf[s]]),
                      notes |-> found.notes]
      PROVE  Adding(before, after, list, k, cuts)
  <2>1. PICK t : t = [label |-> s, place |-> PlaceOf[s]]
    OBVIOUS
  <2>2. t \in Target /\ t.place = PlaceOf[s]
    BY <1>2, <2>1 DEF Target, Located
  <2>3. PICK run : run = Append(found.targets, t)
    OBVIOUS
  <2>4. /\ run \in Seq(Target) /\ run # <<>>
        /\ Len(found.targets) \in Nat /\ Len(run) = Len(found.targets) + 1
        /\ DOMAIN found.targets = 1..Len(found.targets) /\ DOMAIN run = 1..(Len(found.targets) + 1)
        /\ \A i \in 1..Len(found.targets) : run[i] = found.targets[i]
        /\ run[Len(found.targets) + 1] = t
    BY <1>2, <2>2, <2>3, AppendedList
  <2>5. after.seen = found.seen \cup {PlaceOf[s]} /\ after.targets = run /\ after.notes = found.notes
    BY <1>7, <2>1, <2>3
  <2>6. Len(found.targets) + 1 \in DOMAIN run
    BY <2>4
  <2>7. \A i \in DOMAIN found.targets : i \in DOMAIN run /\ run[i] = found.targets[i]
    BY <2>4
  <2>8. \A i \in DOMAIN run : i \in DOMAIN found.targets \/ i = Len(found.targets) + 1
    BY <2>4
  <2>9. SeenIsRun(after.seen, run, after.notes)
    <3>1. ASSUME NEW p \in found.seen
          PROVE  IF p \in LocalPlaces THEN \E i \in DOMAIN run : run[i].place = p ELSE after.notes # <<>>
      <4>1. CASE p \in LocalPlaces
        <5>1. PICK i \in DOMAIN found.targets : found.targets[i].place = p
          BY <1>3, <4>1 DEF SeenIsRun
        <5>2. i \in DOMAIN run /\ run[i].place = p
          BY <2>7, <5>1
        <5>3. QED
          BY <4>1, <5>2
      <4>2. CASE p \notin LocalPlaces
        BY <1>3, <2>5, <4>2 DEF SeenIsRun
      <4>3. QED
        BY <4>1, <4>2
    <3>2. run[Len(found.targets) + 1].place = PlaceOf[s]
      BY <2>2, <2>4
    <3>3. IF PlaceOf[s] \in LocalPlaces THEN \E i \in DOMAIN run : run[i].place = PlaceOf[s]
          ELSE after.notes # <<>>
      BY <1>7, <2>6, <3>2
    <3>4. \A p \in after.seen : p \in found.seen \/ p = PlaceOf[s]
      BY <2>5
    <3>5. QED
      BY <3>1, <3>3, <3>4, Zenon DEF SeenIsRun
  <2>10. RunOnce(after.seen, run)
    <3>1. \A i \in DOMAIN run : run[i].place \in after.seen
      BY <1>3, <2>2, <2>4, <2>5, <2>7, <2>8 DEF RunOnce
    <3>2. \A i \in DOMAIN found.targets : run[i].place # run[Len(found.targets) + 1].place
      BY <1>3, <1>7, <2>2, <2>4, <2>7 DEF RunOnce
    <3>3. \A i, j \in DOMAIN run : run[i].place = run[j].place => i = j
      <4>1. TAKE i, j \in DOMAIN run
      <4>2. CASE i \in DOMAIN found.targets /\ j \in DOMAIN found.targets
        BY <1>3, <2>7, <4>2 DEF RunOnce
      <4>3. CASE i \in DOMAIN found.targets /\ j = Len(found.targets) + 1
        BY <3>2, <4>3
      <4>4. CASE i = Len(found.targets) + 1 /\ j \in DOMAIN found.targets
        BY <3>2, <4>4
      <4>5. QED
        BY <2>8, <4>2, <4>3, <4>4
    <3>4. QED
      BY <3>1, <3>3, Zenon DEF RunOnce
  <2>11. Grows(before, after)
    BY <1>3, <2>4, <2>5 DEF Grows
  <2>12. QED
    BY <1>2, <1>3, <1>4, <2>5, <2>9, <2>10, <2>11 DEF Adding, Sound
<1>8. QED
  BY <1>1, <1>2, <1>5, <1>6, <1>7, AddMatchCases

\* The definitions of a name, one by one.
LEMMA MatchesTrace ==
  ASSUME at \in Nat, NEW before \in Founds, NEW list \in Seq(Located)
  PROVE  \E tr : /\ tr[0] = before
                 /\ \A k \in 1..Len(list) : tr[k] = AddMatch(tr[k - 1], list[k])
                 /\ FoldLeft(AddMatch, before, list) = tr[Len(list)]
<1> DEFINE step == [p \in Founds \X Located |-> AddMatch(p[1], p[2])]
<1> DEFINE IsFold(h) == h = [s \in SUBSET DOMAIN list |->
                               IF s = {} THEN before ELSE AddMatch(h[s \ {Max(s)}], list[Max(s)])]
<1>1. step \in [Founds \X Located -> Founds] /\ before \in Founds /\ Len(list) \in Nat /\ DOMAIN list = 1..Len(list)
  BY AddMatchType
<1>2. PICK g \in [SUBSET (1..Len(list)) -> Founds] : FoldsTo(g, step, before, list, Len(list))
  BY <1>1, FoldExists
<1>3. IsFold(g)
  <2>1. ASSUME NEW s \in SUBSET (1..Len(list)), s # {}
        PROVE  step[<<g[s \ {Max(s)}], list[Max(s)]>>] = AddMatch(g[s \ {Max(s)}], list[Max(s)])
    <3>1. Max(s) \in 1..Len(list)
      BY <1>1, <2>1, LargestPosition
    <3>2. list[Max(s)] \in Located
      BY <3>1, ElementOfSeq
    <3>3. g[s \ {Max(s)}] \in Founds
      OBVIOUS
    <3>4. QED
      BY <3>2, <3>3
  <2> HIDE DEF step
  <2>2. g = [s \in SUBSET (1..Len(list)) |-> IF s = {} THEN before ELSE step[<<g[s \ {Max(s)}], list[Max(s)]>>]]
    BY <1>2 DEF FoldsTo
  <2>3. QED
    BY <1>1, <2>1, <2>2
<1> HIDE DEF step
<1> DEFINE iter == CHOOSE h : IsFold(h)
<1>4. IsFold(iter)
  BY <1>3
<1>5. FoldLeft(AddMatch, before, list) = iter[DOMAIN list]
  BY DEF AddMatch, FoldLeft, MapThenFoldSet
<1> HIDE DEF iter
<1> DEFINE tr == [k \in 0..Len(list) |-> iter[1..k]]
<1>6. tr[0] = before
  <2>1. 1..0 = {} /\ {} \in SUBSET DOMAIN list
    OBVIOUS
  <2>2. QED
    BY <1>1, <1>4, <2>1
<1>7. ASSUME NEW k \in 1..Len(list) PROVE tr[k] = AddMatch(tr[k - 1], list[k])
  <2>1. 1..k \in SUBSET DOMAIN list /\ 1..k # {} /\ k \in Nat /\ k # 0 /\ k - 1 \in 0..Len(list)
    BY <1>1, InitialSegment
  <2>2. Max(1..k) = k /\ (1..k) \ {k} = 1..(k - 1)
    BY <2>1, MaxOfInitialSegment
  <2>3. iter[1..k] = AddMatch(iter[1..(k - 1)], list[k])
    BY <1>4, <2>1, <2>2
  <2>4. QED
    BY <1>1, <2>1, <2>3
<1>8. FoldLeft(AddMatch, before, list) = tr[Len(list)]
  BY <1>1, <1>5
<1> HIDE DEF tr
<1>9. QED
  BY <1>6, <1>7, <1>8


\* All of them.
LEMMA MatchesAdded ==
  ASSUME at \in Nat, at # 0, NEW before \in Founds, NEW list \in Seq(Located), NEW cuts,
         Sound(before), NotesOf(before.notes, at, cuts)
  PROVE  Adding(before, FoldLeft(AddMatch, before, list), list, Len(list), cuts)
<1>1. PICK tr : /\ tr[0] = before
                /\ \A k \in 1..Len(list) : tr[k] = AddMatch(tr[k - 1], list[k])
                /\ FoldLeft(AddMatch, before, list) = tr[Len(list)]
  BY MatchesTrace
<1>2. Len(list) \in Nat
  OBVIOUS
<1> DEFINE S == {k \in 0..Len(list) : Adding(before, tr[k], list, k, cuts)}
<1>3. 0 \in S
  <2>1. Grows(before, before)
    BY DEF Grows, Founds
  <2>2. Adding(before, before, list, 0, cuts)
    BY <2>1 DEF Adding
  <2>3. QED
    BY <1>1, <1>2, <2>2
<1>4. ASSUME NEW k \in 1..Len(list), k - 1 \in S PROVE k \in S
  <2>1. k \in Nat /\ k # 0 /\ k \in 0..Len(list)
    BY <1>2
  <2>2. list[k] \in Located
    BY <1>2, ElementOfSeq
  <2>3. Adding(before, tr[k - 1], list, k - 1, cuts)
    BY <1>4
  <2>4. Adding(before, AddMatch(tr[k - 1], list[k]), list, k, cuts)
    BY <2>1, <2>2, <2>3, AddMatchKeeps
  <2>5. QED
    BY <1>1, <2>1, <2>4
<1>5. 0..Len(list) \subseteq S
  <2> HIDE DEF S
  <2>1. QED
    BY <1>2, <1>3, <1>4, BoundedInduction
<1>6. QED
  BY <1>1, <1>2, <1>5

------------------------------------------------------------------------------
\* What a search finds.

\* A list's elements and the set of them.
LEMMA ToSetElements ==
  ASSUME NEW E, NEW list \in Seq(E)
  PROVE  /\ \A i \in DOMAIN list : list[i] \in ToSet(list) /\ list[i] \in E
         /\ \A x \in ToSet(list) : \E i \in DOMAIN list : x = list[i]
         /\ DOMAIN list = 1..Len(list) /\ Len(list) \in Nat
         /\ list # <<>> => 1 \in DOMAIN list /\ Head(list) = list[1]
<1>1. DOMAIN list = 1..Len(list) /\ Len(list) \in Nat
  OBVIOUS
<1>2. \A i \in DOMAIN list : list[i] \in E
  BY <1>1, ElementOfSeq
<1>3. (\A i \in DOMAIN list : list[i] \in ToSet(list)) /\ (\A x \in ToSet(list) : \E i \in DOMAIN list : x = list[i])
  BY DEF ToSet
<1>4. list # <<>> => 1 \in DOMAIN list /\ Head(list) = list[1]
  <2>1. list # <<>> => Len(list) # 0
    BY EmptySeq
  <2>2. list # <<>> => Head(list) = list[1]
    OBVIOUS
  <2>3. QED
    BY <1>1, <2>1, <2>2
<1>5. QED
  BY <1>1, <1>2, <1>3, <1>4

\* exact_matches keeps symbols of the name, all with a range.
LEMMA SearchFinds ==
  ASSUME NEW list \in Seq(Symbols), NEW name
  PROVE  /\ ExactMatches(list, name) \in Seq(Located)
         /\ \A s \in ToSet(ExactMatches(list, name)) : NameOf[s] = name
<1> DEFINE named == {s \in Symbols : NameOf[s] = name}
<1>1. AllSymbols(list) \in Seq(Located)
  BY AllSymbolsAreLocated
<1>2. PICK all : all = AllSymbols(list)
  OBVIOUS
<1>3. /\ Those(all, named) \in Seq(Located)
      /\ ToSet(Those(all, named)) = ToSet(all) \cap named
  BY <1>1, <1>2, ThoseProperties
<1>4. ExactMatches(list, name) = Those(all, named)
  BY <1>2 DEF ExactMatches
<1>5. \A s \in named : NameOf[s] = name
  OBVIOUS
<1> HIDE DEF named
<1>6. QED
  BY <1>3, <1>4, <1>5

\* A filter keeps elements of the list.
LEMMA FilterFinds ==
  ASSUME NEW list \in Seq(Located), NEW set
  PROVE  /\ Those(list, set) \in Seq(Located)
         /\ ToSet(Those(list, set)) \subseteq ToSet(list)
BY ThoseProperties

\* A search answers with symbols.
LEMMA AnsweredLists ==
  ASSUME NEW list \in Answerable
  PROVE  list \in Seq(Symbols)
BY SymbolAssumption DEF Answerable

------------------------------------------------------------------------------
\* The names and the position.

\* The parts of the arguments.
LEMMA GivenFields ==
  ASSUME NEW a \in Given \cup {Nothing}
  PROVE  /\ a.names \in Seq({a.names[i] : i \in DOMAIN a.names})
         /\ \A i \in DOMAIN a.names : a.names[i].kind \in {"name", "invalid"}
         /\ a.path \in BOOLEAN
         /\ a.line \in Nat \cup {None} /\ a.character \in Nat \cup {None}
<1>1. CASE a \in Given
  BY <1>1, GivenAssumption
<1>2. CASE a = Nothing
  <2>1. a.names = <<>> /\ a.path = FALSE /\ a.line = None /\ a.character = None
    BY <1>2 DEF Nothing
  <2>2. <<>> \in Seq({a.names[i] : i \in DOMAIN a.names})
    OBVIOUS
  <2>3. DOMAIN <<>> = {}
    BY NoPosition
  <2>4. QED
    BY <2>1, <2>2, <2>3
<1>3. QED
  BY <1>1, <1>2

\* What classify makes of arguments that it takes.
LEMMA ClassifiedSpecs ==
  ASSUME NEW a \in Given \cup {Nothing}
  PROVE  /\ Len(SpecsOf(a)) \in Nat /\ DOMAIN SpecsOf(a) = 1..Len(SpecsOf(a))
         /\ \A i \in DOMAIN SpecsOf(a) :
              \/ i \in DOMAIN a.names /\ SpecsOf(a)[i] = a.names[i]
              \/ /\ HasPosition(a)
                 /\ SpecsOf(a)[i] = [kind |-> "position", line |-> a.line - 1, character |-> a.character - 1]
         /\ a.names # <<>> \/ HasPosition(a) => SpecsOf(a) # <<>>
<1> DEFINE pos == [kind |-> "position", line |-> a.line - 1, character |-> a.character - 1]
<1> DEFINE E == {a.names[i] : i \in DOMAIN a.names} \cup {pos}
<1>1. PICK p : p = pos
  OBVIOUS
<1>2. PICK names : names = a.names
  OBVIOUS
<1>3. names \in Seq(E) /\ p \in E
  <2>1. names \in Seq({a.names[i] : i \in DOMAIN a.names})
    BY <1>2, GivenFields
  <2>2. {a.names[i] : i \in DOMAIN a.names} \subseteq E
    OBVIOUS
  <2>3. QED
    BY <1>1, <2>1, <2>2, SeqMonotonic
<1>4. Len(names) \in Nat /\ DOMAIN names = 1..Len(names)
  BY <1>3
<1>5. CASE HasPosition(a)
  <2>1. SpecsOf(a) = names \o <<p>>
    BY <1>1, <1>2, <1>5 DEF SpecsOf
  <2>2. PICK list : list = names \o <<p>>
    OBVIOUS
  <2>3. /\ Len(<<p>>) = 1 /\ <<p>> \in Seq(E) /\ <<p>>[1] = p
    BY <1>3
  <2>4. /\ list \in Seq(E) /\ Len(list) = Len(names) + 1
        /\ \A i \in 1..(Len(names) + 1) : list[i] = IF i <= Len(names) THEN names[i] ELSE <<p>>[i - Len(names)]
    BY <1>3, <2>2, <2>3, ConcatProperties
  <2>5. DOMAIN list = 1..Len(list) /\ Len(list) \in Nat /\ list # <<>>
    BY <1>4, <2>4, EmptySeq
  <2>6. ASSUME NEW i \in DOMAIN list
        PROVE  (i \in DOMAIN names /\ list[i] = names[i]) \/ list[i] = p
    <3>1. CASE i <= Len(names)
      BY <1>4, <2>4, <2>5, <3>1
    <3>2. CASE ~(i <= Len(names))
      <4>1. i - Len(names) = 1
        BY <1>4, <2>4, <2>5, <3>2
      <4>2. QED
        BY <2>3, <2>4, <2>5, <3>2, <4>1
    <3>3. QED
      BY <3>1, <3>2
  <2>7. QED
    BY <1>1, <1>2, <1>5, <2>1, <2>2, <2>5, <2>6
<1>6. CASE ~HasPosition(a)
  <2>1. SpecsOf(a) = names \o <<>>
    BY <1>2, <1>6 DEF SpecsOf
  <2>2. names \o <<>> = names
    BY <1>3, ConcatEmptySeq
  <2>3. QED
    BY <1>2, <1>4, <1>6, <2>1, <2>2
<1>7. QED
  BY <1>5, <1>6

\* What passes classify's checks is a list of names and positions.
LEMMA SpecKinds ==
  ASSUME NEW a \in Given \cup {Nothing}, ~ClassifyRejects(a)
  PROVE  \A i \in DOMAIN SpecsOf(a) : SpecsOf(a)[i].kind \in {"name", "position"}
<1>1. \A i \in DOMAIN a.names : a.names[i].kind = "name"
  BY GivenFields DEF ClassifyRejects, HasInvalidName
<1>2. QED
  BY <1>1, ClassifiedSpecs

\* Arguments that name something have a first spec.
LEMMA SpecsNonempty ==
  ASSUME NEW a \in Given \cup {Nothing}, SpecsOf(a) # <<>>
  PROVE  Len(SpecsOf(a)) # 0
<1> DEFINE pos == [kind |-> "position", line |-> a.line - 1, character |-> a.character - 1]
<1> DEFINE E == {a.names[i] : i \in DOMAIN a.names} \cup {pos}
<1>1. a.names \in Seq({a.names[i] : i \in DOMAIN a.names})
  BY GivenFields
<1>2. {a.names[i] : i \in DOMAIN a.names} \subseteq E /\ pos \in E
  OBVIOUS
<1>3. a.names \in Seq(E)
  BY <1>1, <1>2, SeqMonotonic
<1>4. PICK p : p = pos
  OBVIOUS
<1>5. PICK more : more = IF HasPosition(a) THEN <<p>> ELSE <<>>
  OBVIOUS
<1>6. more \in Seq(E) /\ SpecsOf(a) = a.names \o more
  <2>1. p \in E
    BY <1>2, <1>4
  <2>2. <<p>> \in Seq(E) /\ <<>> \in Seq(E)
    BY <2>1
  <2>3. QED
    BY <1>4, <1>5, <2>2 DEF SpecsOf
<1>7. SpecsOf(a) \in Seq(E)
  BY <1>3, <1>6, ConcatProperties
<1>8. QED
  BY <1>7, EmptySeq


------------------------------------------------------------------------------
\* Each step of the lookup keeps its invariant.

AtWork == OfNames \cup OfPositions

\* Notes of earlier names tell of their cuts whatever is cut now.
LEMMA EarlierNotes ==
  ASSUME NEW list, NEW n \in Nat, NEW cuts, NotesOf(list, n - 1, cuts)
  PROVE  NotesOf(list, n - 1, cuts \cup {n})
<1>1. ASSUME NEW i \in DOMAIN list
      PROVE  /\ list[i].spec \in 1..(n - 1)
             /\ list[i].what \in {"filtered", "unknown"} => list[i].truncated = (list[i].spec \in cuts \cup {n})
  <2>1. list[i].spec \in 1..(n - 1)
    BY DEF NotesOf
  <2>2. list[i].spec # n
    BY <2>1
  <2>3. list[i].spec \in cuts \cup {n} <=> list[i].spec \in cuts
    BY <2>2
  <2>4. list[i].what \in {"filtered", "unknown"} => list[i].truncated = (list[i].spec \in cuts)
    BY Zenon DEF NotesOf
  <2>5. QED
    BY <2>1, <2>3, <2>4
<1>2. QED
  BY <1>1, Zenon DEF NotesOf

\* Notes of earlier specs are notes up to a later one.
LEMMA LaterNotes ==
  ASSUME NEW list, NEW n \in Nat, NEW cuts, NotesOf(list, n - 1, cuts)
  PROVE  NotesOf(list, n, cuts)
<1>1. ASSUME NEW i \in DOMAIN list, list[i].spec \in 1..(n - 1) PROVE list[i].spec \in 1..n
  BY <1>1
<1>2. QED
  BY <1>1, Zenon DEF NotesOf

\* With a note of the current one added.
LEMMA NoteAdded ==
  ASSUME at \in Nat, at # 0, NEW list \in Seq(AnyNote), NEW cuts, NotesOf(list, at - 1, cuts),
         NEW what \in What, NEW truncates \in BOOLEAN,
         what \in {"filtered", "unknown"} => (truncates <=> at \in cuts)
  PROVE  /\ Append(list, Note(what, truncates)) \in Seq(AnyNote)
         /\ Append(list, Note(what, truncates)) # <<>>
         /\ NotesOf(Append(list, Note(what, truncates)), at, cuts)
         /\ \A i \in DOMAIN list : /\ i \in DOMAIN Append(list, Note(what, truncates))
                                   /\ Append(list, Note(what, truncates))[i] = list[i]
         /\ Len(list) + 1 \in DOMAIN Append(list, Note(what, truncates))
         /\ Append(list, Note(what, truncates))[Len(list) + 1].spec = at
         /\ Len(list) <= Len(Append(list, Note(what, truncates)))
<1>1. PICK n : n = Note(what, truncates)
  OBVIOUS
<1>2. n \in AnyNote /\ n.spec = at /\ n.what = what /\ n.truncated = truncates
  <2>1. n \in AnyNote
    BY <1>1, NoteIsNote
  <2>2. QED
    BY <1>1, <2>1 DEF Note
<1>3. PICK more : more = Append(list, n)
  OBVIOUS
<1>4. /\ more \in Seq(AnyNote) /\ more # <<>>
      /\ Len(list) \in Nat /\ Len(more) = Len(list) + 1
      /\ DOMAIN list = 1..Len(list) /\ DOMAIN more = 1..(Len(list) + 1)
      /\ \A i \in 1..Len(list) : more[i] = list[i]
      /\ more[Len(list) + 1] = n
  BY <1>2, <1>3, AppendedList
<1>5. \A i \in DOMAIN list : i \in DOMAIN more /\ more[i] = list[i]
  BY <1>4
<1>6. Len(list) + 1 \in DOMAIN more
  BY <1>4
<1>7. \A i \in DOMAIN more : i \in DOMAIN list \/ i = Len(list) + 1
  BY <1>4
<1>8. NotesOf(list, at, cuts)
  BY LaterNotes
<1>9. at \in 1..at
  OBVIOUS
<1>10. NotesOf(more, at, cuts)
  <2>1. ASSUME NEW i \in DOMAIN more
        PROVE  /\ more[i].spec \in 1..at
               /\ more[i].what \in {"filtered", "unknown"} => more[i].truncated = (more[i].spec \in cuts)
    <3>1. CASE i \in DOMAIN list
      BY <1>5, <1>8, <3>1, Zenon DEF NotesOf
    <3>2. CASE i = Len(list) + 1
      BY <1>2, <1>4, <1>9, <3>2
    <3>3. QED
      BY <1>7, <3>1, <3>2
  <2>2. QED
    BY <2>1, Zenon DEF NotesOf
<1>11. QED
  BY <1>1, <1>2, <1>3, <1>4, <1>5, <1>6, <1>10

\* What was resolved stays resolved while the specs stand and what is found grows.
Accrues ==
  /\ seen \subseteq seen'
  /\ targets # <<>> => targets' # <<>>
  /\ \A i \in DOMAIN notes : i \in DOMAIN notes' /\ notes'[i] = notes[i]

\* What is resolved stays so while places, targets and notes only grow.
LEMMA StaysResolved ==
  ASSUME NEW i, Resolved(i), specs' = specs, Accrues
  PROVE  Resolved(i)'
<1>1. CASE Noted(i)
  BY <1>1 DEF Accrues, Resolved, Noted
<1>2. CASE specs[i].kind = "name" /\ \E s \in Symbols : NameOf[s] = specs[i].leaf /\ PlaceOf[s] \in seen
  BY <1>2 DEF Accrues, Resolved
<1>3. CASE specs[i].kind = "position" /\ targets # <<>>
  BY <1>3 DEF Accrues, Resolved
<1>4. QED
  BY <1>1, <1>2, <1>3 DEF Resolved

\* A name or position is done with, and the next one's turn comes.
LEMMA ProceedKeeps ==
  ASSUME LookupInv, lookup \in AtWork, Proceed, wasCut' \in {wasCut, wasCut \cup {at}},
         targets' \in Seq(Target), seen' \subseteq Places, notes' \in Seq(AnyNote),
         NotesOf(notes', at, wasCut'), SeenIsRun(seen', targets', notes'),
         Grouped => RunOnce(seen', targets'),
         Accrues, NEW now, now = at, Resolved(now)'
  PROVE  LookupInv'
<1>1. /\ at \in Nat /\ at # 0 /\ at \in DOMAIN specs /\ at <= Len(specs)
      /\ Len(specs) \in Nat /\ DOMAIN specs = 1..Len(specs)
      /\ wasCut \subseteq 1..Len(specs) /\ \A i \in wasCut : i <= at
      /\ specs = SpecsOf(given) /\ ~ClassifyRejects(given)
      /\ \A i \in DOMAIN specs : specs[i].kind \in {"name", "position"}
      /\ \A i \in DOMAIN specs : i < at => Resolved(i)
  BY DEF LookupInv, LookupTypes, Stages, AtWork, OfNames, OfPositions, Idle, Cuts
<1>2. /\ specs' = specs /\ given' = given /\ at' = at + 1 /\ scope' = "workspace"
      /\ cut' = FALSE /\ anyCut' = FALSE /\ hidden' = FALSE /\ pointed' = NoPoint
      /\ lookup' = IF at = Len(specs) THEN "found"
                   ELSE IF specs[at + 1].kind = "name" THEN "search" ELSE "file"
  BY DEF Proceed, ProceedIn
<1>3. wasCut' \subseteq 1..Len(specs) /\ \A i \in wasCut' : i <= at /\ i \in Nat
  BY <1>1
<1>4. at' = at + 1
  BY <1>2
<1>5. at \in Nat /\ Len(specs) \in Nat /\ at <= Len(specs)
  BY <1>1
<1>6. at' \in 0..(Len(specs) + 1) /\ at' - 1 = at /\ at' \notin wasCut'
  <2>1. at' \in 0..(Len(specs) + 1) /\ at' - 1 = at /\ at' = at + 1
    BY <1>4, <1>5
  <2>2. ~(at + 1 <= at)
    BY <1>1
  <2>3. QED
    BY <1>3, <2>1, <2>2
<1>7. lookup' = "found" => at' = Len(specs) + 1
  <2>1. CASE at = Len(specs)
    BY <1>2, <2>1
  <2>2. CASE at # Len(specs)
    BY <1>2, <2>2
  <2>3. QED
    BY <2>1, <2>2
<1>8. /\ lookup' = "search" => at' \in DOMAIN specs /\ specs[at'].kind = "name"
      /\ lookup' = "file" => at' \in DOMAIN specs /\ specs[at'].kind = "position"
      /\ lookup' \in {"found", "search", "file"}
  <2>1. CASE at = Len(specs)
    BY <1>2, <2>1
  <2>2. CASE at # Len(specs)
    <3>1. at + 1 \in DOMAIN specs
      BY <1>1, <2>2
    <3>2. CASE specs[at + 1].kind = "name"
      BY <1>2, <2>2, <3>1, <3>2
    <3>3. CASE specs[at + 1].kind # "name"
      <4>1. specs[at + 1].kind = "position"
        BY <1>1, <3>1, <3>3
      <4>2. QED
        BY <1>2, <2>2, <3>1, <3>3, <4>1
    <3>4. QED
      BY <3>2, <3>3
  <2>3. QED
    BY <2>1, <2>2
<1>9. LookupTypes'
  <2>1. NoPoint \in [place : Places \cup {None}, name : Names \cup {None}]
    BY DEF NoPoint
  <2>2. QED
    BY <1>1, <1>2, <1>3, <1>6, <1>8, <2>1 DEF LookupInv, LookupTypes, Awaited
<1>10. Stages'
  BY <1>1, <1>2, <1>7, <1>8 DEF Stages, OfNames, OfPositions, Idle
<1>11. Cuts'
  <2>1. \A i \in wasCut' : i <= at'
    <3>1. TAKE i \in wasCut'
    <3>2. i <= at /\ i \in Nat
      BY <1>3
    <3>3. QED
      BY <1>4, <1>5, <3>2
  <2>2. QED
    BY <1>2, <1>6, <1>8, <2>1 DEF Cuts, OfNames
<1>12. NotesOf(notes, at - 1, wasCut)'
  BY <1>6
<1>13. (Grouped => RunOnce(seen, targets))'
  BY <1>2 DEF Grouped
<1>14. \A i \in DOMAIN specs' : i < at' => Resolved(i)'
  <2>1. TAKE i \in DOMAIN specs'
  <2>2. HAVE i < at'
  <2>3. i \in Nat /\ at' = at + 1
    <3>1. specs' = specs
      BY <1>2
    <3>2. i \in 1..Len(specs)
      BY <1>1, <3>1
    <3>3. QED
      BY <1>4, <1>5, <3>2
  <2>4. CASE i = now
    BY <2>4
  <2>5. CASE i # now
    <3>1. i < at
      BY <1>1, <2>3, <2>2, <2>5
    <3>2. i \in DOMAIN specs
      BY <1>2
    <3>3. QED
      BY <1>1, <1>2, <3>1, <3>2, StaysResolved
  <2>6. QED
    BY <2>4, <2>5
<1>15. QED
  BY <1>9, <1>10, <1>11, <1>12, <1>13, <1>14 DEF LookupInv

\* A call for the current name or position is followed by another one.
LEMMA StayKeeps ==
  ASSUME LookupInv, lookup \in AtWork, UNCHANGED <<given, specs, at, targets, seen, notes>>,
         wasCut' \in {wasCut, wasCut \cup {at}},
         lookup' \in AtWork \cup {"failed"}, scope' \in {"workspace", "all"},
         cut' \in BOOLEAN, anyCut' \in BOOLEAN, hidden' \in BOOLEAN,
         pointed' \in [place : Places \cup {None}, name : Names \cup {None}],
         lookup' \in OfNames => lookup \in OfNames,
         lookup' \in OfPositions => lookup \in OfPositions,
         lookup' \in OfPositions \ {"file"} => Grouped,
         lookup' \in {"outline", "label"} => pointed'.place \in LocalPlaces,
         lookup' \in OfNames => (at \in wasCut' <=> anyCut' \/ cut'),
         lookup' = "search" => ~cut'
  PROVE  LookupInv'
<1>1. /\ at \in Nat /\ at # 0 /\ at \in DOMAIN specs /\ at <= Len(specs)
      /\ Len(specs) \in Nat /\ DOMAIN specs = 1..Len(specs)
      /\ wasCut \subseteq 1..Len(specs) /\ \A i \in wasCut : i <= at
      /\ specs = SpecsOf(given) /\ ~ClassifyRejects(given)
  BY DEF LookupInv, LookupTypes, Stages, AtWork, OfNames, OfPositions, Idle, Cuts
<1>2. specs' = specs /\ given' = given /\ at' = at /\ targets' = targets /\ seen' = seen /\ notes' = notes
  OBVIOUS
<1>3. wasCut' \subseteq 1..Len(specs) /\ \A i \in wasCut' : i <= at
  BY <1>1
<1>4. LookupTypes'
  BY <1>2, <1>3 DEF LookupInv, LookupTypes, Awaited, AtWork, OfNames, OfPositions
<1>5. Stages'
  BY <1>1, <1>2 DEF LookupInv, Stages, Grouped, AtWork, OfNames, OfPositions, Idle
<1>6. Cuts'
  BY <1>2, <1>3 DEF Cuts
<1>7. NotesOf(notes, at - 1, wasCut)'
  <2>1. NotesOf(notes, at - 1, wasCut)
    BY DEF LookupInv
  <2>2. NotesOf(notes, at - 1, wasCut \cup {at})
    BY <1>1, <2>1, EarlierNotes
  <2>3. QED
    BY <1>2, <2>1, <2>2
<1>8. SeenIsRun(seen, targets, notes)' /\ (Grouped => RunOnce(seen, targets))'
  BY <1>2 DEF LookupInv, Grouped
<1>9. \A i \in DOMAIN specs' : i < at' => Resolved(i)'
  <2>1. Accrues
    BY <1>2 DEF Accrues
  <2>2. QED
    BY <1>2, <2>1, StaysResolved DEF LookupInv
<1>10. QED
  BY <1>4, <1>5, <1>6, <1>7, <1>8, <1>9 DEF LookupInv

\* What the invariant says of a lookup at work.
LEMMA AtWorkFacts ==
  ASSUME LookupInv, lookup \in AtWork
  PROVE  /\ at \in Nat /\ at # 0 /\ at \in DOMAIN specs
         /\ targets \in Seq(Target) /\ seen \subseteq Places /\ notes \in Seq(AnyNote)
         /\ NotesOf(notes, at - 1, wasCut) /\ SeenIsRun(seen, targets, notes)
         /\ Grouped => RunOnce(seen, targets)
         /\ lookup \in OfNames => Grouped
BY DEF LookupInv, LookupTypes, Stages, AtWork, OfNames, OfPositions, Idle, Grouped

\* The end of a scope.
LEMMA ConcludeKeeps ==
  ASSUME LookupInv, lookup \in OfNames, NEW truncates \in BOOLEAN, NEW found \in Seq(Located),
         \A s \in ToSet(found) : NameOf[s] = Current.leaf,
         wasCut' \in {wasCut, wasCut \cup {at}}, at \in wasCut' <=> anyCut \/ truncates,
         Conclude(found, truncates)
  PROVE  LookupInv'
<1>1. /\ lookup \in AtWork /\ Grouped /\ RunOnce(seen, targets)
      /\ at \in Nat /\ at # 0 /\ at \in DOMAIN specs
      /\ targets \in Seq(Target) /\ seen \subseteq Places /\ notes \in Seq(AnyNote)
      /\ NotesOf(notes, at - 1, wasCut) /\ SeenIsRun(seen, targets, notes)
  BY AtWorkFacts DEF AtWork
<1>2. PICK now : now = at
  OBVIOUS
<1>3. specs[now].kind = "name" /\ Current = specs[now]
  BY <1>2 DEF LookupInv, Stages, Current
<1>4. PICK cuts : cuts = wasCut'
  OBVIOUS
<1>5. NotesOf(notes, at - 1, cuts)
  <2>1. NotesOf(notes, at - 1, wasCut \cup {at})
    BY <1>1, EarlierNotes
  <2>2. QED
    BY <1>1, <1>4, <2>1
<1>6. PICK kept : kept = Those(found, Passing)
  OBVIOUS
<1>7. kept \in Seq(Located) /\ ToSet(kept) \subseteq ToSet(found)
  BY <1>6, FilterFinds
<1>8. ASSUME kept # <<>>, AddMatches(kept, truncates), Proceed PROVE LookupInv'
  <2>1. PICK told : told = IF truncates THEN Append(notes, Note("truncated", TRUE)) ELSE notes
    OBVIOUS
  <2>2. /\ told \in Seq(AnyNote) /\ NotesOf(told, at, cuts)
        /\ notes # <<>> => told # <<>>
        /\ Len(notes) <= Len(told)
        /\ \A i \in DOMAIN notes : i \in DOMAIN told /\ told[i] = notes[i]
    <3>1. CASE truncates
      <4>1. "truncated" \in What /\ TRUE \in BOOLEAN
        BY DEF What
      <4>2. PICK more : more = Append(notes, Note("truncated", TRUE))
        OBVIOUS
      <4>3. /\ more \in Seq(AnyNote) /\ more # <<>> /\ NotesOf(more, at, cuts) /\ Len(notes) <= Len(more)
            /\ \A i \in DOMAIN notes : i \in DOMAIN more /\ more[i] = notes[i]
        BY <1>1, <1>5, <4>1, <4>2, NoteAdded
      <4>4. told = more
        BY <2>1, <3>1, <4>2
      <4>5. QED
        BY <4>3, <4>4
    <3>2. CASE ~truncates
      <4>1. told = notes
        BY <2>1, <3>2
      <4>2. NotesOf(notes, at, cuts)
        BY <1>1, <1>5, LaterNotes
      <4>3. Len(notes) \in Nat
        BY <1>1
      <4>4. QED
        BY <1>1, <4>1, <4>2, <4>3
    <3>3. QED
      BY <3>1, <3>2
  <2>3. PICK before : before = [seen |-> seen, targets |-> targets, notes |-> told]
    OBVIOUS
  <2>4. before.seen = seen /\ before.targets = targets /\ before.notes = told
    BY <2>3
  <2>5. before \in Founds
    BY <1>1, <2>2, <2>3 DEF Founds
  <2>6. Sound(before)
    <3>1. SeenIsRun(seen, targets, told)
      BY <1>1, <2>2, Zenon DEF SeenIsRun
    <3>2. QED
      BY <1>1, <2>4, <3>1 DEF Sound
  <2>7. PICK after : after = FoldLeft(AddMatch, before, kept)
    OBVIOUS
  <2>8. Adding(before, after, kept, Len(kept), cuts)
    BY <1>1, <1>7, <2>2, <2>4, <2>5, <2>6, <2>7, MatchesAdded
  <2>9. seen' = after.seen /\ targets' = after.targets /\ notes' = after.notes
    BY <1>6, <1>8, <2>1, <2>3, <2>7 DEF AddMatches
  <2>10. /\ after \in Founds /\ SeenIsRun(seen', targets', notes') /\ RunOnce(seen', targets')
         /\ NotesOf(notes', at, wasCut') /\ Grows(before, after)
         /\ \A i \in 1..Len(kept) : PlaceOf[kept[i]] \in seen'
    BY <1>4, <2>8, <2>9 DEF Adding, Sound
  <2>11. targets' \in Seq(Target) /\ seen' \subseteq Places /\ notes' \in Seq(AnyNote)
    BY <2>9, <2>10 DEF Founds
  <2>12. Accrues
    <3>1. /\ seen \subseteq after.seen
          /\ targets # <<>> => after.targets # <<>>
          /\ Len(told) <= Len(after.notes)
          /\ \A i \in 1..Len(told) : after.notes[i] = told[i]
      BY <2>4, <2>10 DEF Grows
    <3>2. \A i \in DOMAIN told : i \in DOMAIN after.notes /\ after.notes[i] = told[i]
      <4>1. Len(told) \in Nat /\ DOMAIN told = 1..Len(told)
        BY <2>2
      <4>2. Len(after.notes) \in Nat /\ DOMAIN after.notes = 1..Len(after.notes)
        BY <2>9, <2>11
      <4>3. QED
        BY <3>1, <4>1, <4>2
    <3>3. seen \subseteq seen' /\ (targets # <<>> => targets' # <<>>)
      BY <2>9, <3>1
    <3>4. \A i \in DOMAIN notes : i \in DOMAIN notes' /\ notes'[i] = notes[i]
      BY <2>2, <2>9, <3>2
    <3>5. QED
      BY <3>3, <3>4, Zenon DEF Accrues
  <2>13. Resolved(now)'
    <3>1. 1 \in 1..Len(kept) /\ kept[1] \in ToSet(kept) /\ kept[1] \in Located
      BY <1>7, <1>8, ToSetElements
    <3>2. kept[1] \in Symbols /\ NameOf[kept[1]] = specs[now].leaf /\ PlaceOf[kept[1]] \in seen'
      BY <1>3, <1>7, <2>10, <3>1 DEF Located
    <3>3. specs' = specs
      BY <1>8 DEF Proceed
    <3>4. QED
      BY <1>3, <3>2, <3>3 DEF Resolved
  <2>14. QED
    BY <1>1, <1>2, <1>8, <2>10, <2>11, <2>12, <2>13, ProceedKeeps
<1>9. ASSUME scope' = "all", lookup' = "search", cut' = FALSE, anyCut' = (anyCut \/ truncates),
             hidden' = (hidden \/ found # <<>>), UNCHANGED <<given, specs, at, pointed, targets, seen, notes>>
      PROVE  LookupInv'
  <2>1. anyCut \in BOOLEAN /\ hidden \in BOOLEAN /\ pointed \in [place : Places \cup {None}, name : Names \cup {None}]
    BY DEF LookupInv, LookupTypes
  <2>2. anyCut' \in BOOLEAN /\ hidden' \in BOOLEAN /\ pointed' \in [place : Places \cup {None}, name : Names \cup {None}]
    BY <1>9, <2>1
  <2>3. lookup' \in OfNames /\ lookup' \notin OfPositions /\ lookup' \notin {"outline", "label"}
        /\ lookup' \in AtWork \cup {"failed"}
    BY <1>9 DEF OfNames, OfPositions, AtWork
  <2>4. UNCHANGED <<given, specs, at, targets, seen, notes>>
    BY <1>9
  <2>5. at \in wasCut' <=> anyCut' \/ cut'
    BY <1>9
  <2>6. scope' \in {"workspace", "all"} /\ cut' \in BOOLEAN /\ ~cut'
    BY <1>9
  <2>7. QED
    BY <1>1, <2>2, <2>3, <2>4, <2>5, <2>6, StayKeeps
<1>10. ASSUME NEW what \in {"filtered", "unknown"},
              notes' = Append(notes, Note(what, anyCut \/ truncates)), Proceed,
              UNCHANGED <<targets, seen>>
       PROVE  LookupInv'
  <2>1. PICK some : some = (anyCut \/ truncates)
    OBVIOUS
  <2>2. some \in BOOLEAN /\ what \in What /\ (some <=> at \in cuts)
    <3>1. some <=> anyCut \/ truncates
      BY <2>1
    <3>2. some \in BOOLEAN
      BY <2>1
    <3>3. QED
      BY <1>4, <3>1, <3>2 DEF What
  <2>3. PICK told : told = Append(notes, Note(what, some))
    OBVIOUS
  <2>4. /\ told \in Seq(AnyNote) /\ told # <<>> /\ NotesOf(told, at, cuts)
        /\ \A i \in DOMAIN notes : i \in DOMAIN told /\ told[i] = notes[i]
        /\ \E i \in DOMAIN told : told[i].spec = at
    <3>1. what \in {"filtered", "unknown"} => (some <=> at \in cuts)
      BY <2>2
    <3>2. /\ told \in Seq(AnyNote) /\ told # <<>> /\ NotesOf(told, at, cuts)
          /\ \A i \in DOMAIN notes : i \in DOMAIN told /\ told[i] = notes[i]
      BY <1>1, <1>5, <2>2, <2>3, <3>1, NoteAdded
    <3>3. \E i \in DOMAIN told : told[i].spec = at
      <4>1. Len(notes) + 1 \in DOMAIN told /\ told[Len(notes) + 1].spec = at
        BY <1>1, <1>5, <2>2, <2>3, <3>1, NoteAdded
      <4>2. QED
        BY <4>1
    <3>4. QED
      BY <3>2, <3>3
  <2>5. notes' = told /\ targets' = targets /\ seen' = seen
    BY <1>10, <2>1, <2>3
  <2>6. SeenIsRun(seen', targets', notes')
    BY <1>1, <2>4, <2>5, Zenon DEF SeenIsRun
  <2>7. Accrues
    BY <2>4, <2>5 DEF Accrues
  <2>8. Resolved(now)'
    BY <1>2, <2>4, <2>5 DEF Resolved, Noted
  <2>9. /\ targets' \in Seq(Target) /\ seen' \subseteq Places /\ notes' \in Seq(AnyNote)
        /\ NotesOf(notes', at, wasCut') /\ RunOnce(seen', targets')
    BY <1>1, <1>4, <2>4, <2>5
  <2>10. QED
    BY <1>1, <1>2, <1>10, <2>6, <2>7, <2>8, <2>9, ProceedKeeps
<1>11. QED
  <2>1. CASE kept # <<>>
    BY <1>6, <1>8, <2>1 DEF Conclude
  <2>2. CASE kept = <<>> /\ scope = "workspace"
    BY <1>6, <1>9, <2>2 DEF Conclude
  <2>3. CASE kept = <<>> /\ scope # "workspace"
    <3>1. /\ notes' = Append(notes, Note(IF hidden \/ found # <<>> THEN "filtered" ELSE "unknown",
                                         anyCut \/ truncates))
          /\ Proceed /\ UNCHANGED <<targets, seen>>
      BY <1>6, <2>3 DEF Conclude
    <3>2. PICK what \in {"filtered", "unknown"} :
            what = IF hidden \/ found # <<>> THEN "filtered" ELSE "unknown"
      OBVIOUS
    <3>3. QED
      BY <1>10, <3>1, <3>2
  <2>4. QED
    BY <2>1, <2>2, <2>3

\* The search for a name keeps the invariant, whatever it lists.
LEMMA SearchedKeeps ==
  ASSUME LookupInv, NEW list \in Answerable, NEW truncates \in BOOLEAN, Searched(list, truncates)
  PROVE  LookupInv'
<1>1. lookup = "search" /\ lookup \in OfNames /\ lookup \in AtWork
  BY DEF Searched, OfNames, AtWork
<1>2. PICK found : found = ExactMatches(list, Current.leaf)
  OBVIOUS
<1>3. found \in Seq(Located) /\ \A s \in ToSet(found) : NameOf[s] = Current.leaf
  BY <1>2, AnsweredLists, SearchFinds
<1>4. wasCut' = IF truncates THEN wasCut \cup {at} ELSE wasCut
  BY DEF Searched
<1>5. at \in wasCut <=> anyCut
  BY <1>1 DEF LookupInv, Cuts
<1>6. /\ wasCut' \in {wasCut, wasCut \cup {at}}
      /\ at \in wasCut' <=> anyCut \/ truncates
  BY <1>4, <1>5
<1>7. CASE found = <<>> /\ Current.container # None
  <2>1. /\ lookup' = "leaf" /\ cut' = truncates
        /\ UNCHANGED <<given, specs, at, scope, anyCut, hidden, pointed, targets, seen, notes>>
    BY <1>2, <1>7 DEF Searched
  <2>2. /\ anyCut \in BOOLEAN /\ hidden \in BOOLEAN /\ scope \in {"workspace", "all"}
        /\ pointed \in [place : Places \cup {None}, name : Names \cup {None}]
    BY DEF LookupInv, LookupTypes
  <2>3. /\ anyCut' \in BOOLEAN /\ hidden' \in BOOLEAN /\ scope' \in {"workspace", "all"} /\ cut' \in BOOLEAN
        /\ pointed' \in [place : Places \cup {None}, name : Names \cup {None}]
    BY <2>1, <2>2
  <2>4. /\ lookup' \in OfNames /\ lookup' \notin OfPositions /\ lookup' \notin {"outline", "label"}
        /\ lookup' # "search" /\ lookup' \in AtWork \cup {"failed"}
    BY <2>1 DEF OfNames, OfPositions, AtWork
  <2>5. at \in wasCut' <=> anyCut' \/ cut'
    BY <1>6, <2>1
  <2>6. UNCHANGED <<given, specs, at, targets, seen, notes>>
    BY <2>1
  <2>7. QED
    BY <1>1, <1>6, <2>3, <2>4, <2>5, <2>6, StayKeeps
<1>8. CASE ~(found = <<>> /\ Current.container # None)
  <2>1. Conclude(found, truncates)
    BY <1>2, <1>8 DEF Searched
  <2>2. QED
    BY <1>1, <1>3, <1>6, <2>1, ConcludeKeeps
<1>9. QED
  BY <1>7, <1>8

\* So does the search for the last part of a path ...
LEMMA LeafSearchedKeeps ==
  ASSUME LookupInv, NEW list \in Answerable, NEW truncates \in BOOLEAN, LeafSearched(list, truncates)
  PROVE  LookupInv'
<1>1. lookup = "leaf" /\ lookup \in OfNames
  BY DEF LeafSearched, OfNames
<1>2. PICK all : all = ExactMatches(list, Current.leaf)
  OBVIOUS
<1>3. all \in Seq(Located) /\ \A s \in ToSet(all) : NameOf[s] = Current.leaf
  BY <1>2, AnsweredLists, SearchFinds
<1>4. PICK found : found = InContainer(all)
  OBVIOUS
<1>5. found \in Seq(Located) /\ ToSet(found) \subseteq ToSet(all)
  BY <1>3, <1>4, FilterFinds DEF InContainer
<1>6. \A s \in ToSet(found) : NameOf[s] = Current.leaf
  BY <1>3, <1>5
<1>7. PICK some \in BOOLEAN : some <=> cut \/ truncates
  OBVIOUS
<1>8. some = (cut \/ truncates)
  <2>1. cut \in BOOLEAN
    BY DEF LookupInv, LookupTypes
  <2>2. QED
    BY <1>7, <2>1
<1>9. wasCut' = IF truncates THEN wasCut \cup {at} ELSE wasCut
  BY DEF LeafSearched
<1>10. at \in wasCut <=> anyCut \/ cut
  BY <1>1 DEF LookupInv, Cuts
<1>11. /\ wasCut' \in {wasCut, wasCut \cup {at}}
       /\ at \in wasCut' <=> anyCut \/ some
  BY <1>7, <1>9, <1>10
<1>12. Conclude(found, some)
  <2>1. Conclude(InContainer(ExactMatches(list, Current.leaf)), cut \/ truncates)
    BY DEF LeafSearched
  <2>2. QED
    BY <1>2, <1>4, <1>8, <2>1
<1>13. QED
  BY <1>1, <1>5, <1>6, <1>11, <1>12, ConcludeKeeps

\* The position is reported.
LEMMA ReportKeeps ==
  ASSUME LookupInv, lookup \in OfPositions, NEW what \in {"no file", "no symbol"}, Report(what),
         wasCut' = wasCut
  PROVE  LookupInv'
<1>1. lookup \in AtWork
  BY DEF AtWork
<1>2. /\ at \in Nat /\ at # 0 /\ at \in DOMAIN specs
      /\ targets \in Seq(Target) /\ seen \subseteq Places /\ notes \in Seq(AnyNote)
      /\ NotesOf(notes, at - 1, wasCut) /\ SeenIsRun(seen, targets, notes)
      /\ Grouped => RunOnce(seen, targets)
  BY <1>1, AtWorkFacts
<1>3. PICK told : told = Append(notes, Note(what, FALSE))
  OBVIOUS
<1>4. what \in What /\ what \notin {"filtered", "unknown"}
  BY DEF What
<1>5. PICK cuts : cuts = wasCut
  OBVIOUS
<1>6. /\ told \in Seq(AnyNote) /\ told # <<>> /\ NotesOf(told, at, cuts)
      /\ \A i \in DOMAIN notes : i \in DOMAIN told /\ told[i] = notes[i]
      /\ Len(notes) + 1 \in DOMAIN told /\ told[Len(notes) + 1].spec = at
  <2>1. NotesOf(notes, at - 1, cuts)
    BY <1>2, <1>5
  <2>2. FALSE \in BOOLEAN
    OBVIOUS
  <2>3. QED
    BY <1>2, <1>3, <1>4, <2>1, <2>2, NoteAdded
<1>7. notes' = told /\ targets' = targets /\ seen' = seen /\ Proceed
  BY <1>3 DEF Report
<1>8. PICK now : now = at
  OBVIOUS
<1>9. SeenIsRun(seen', targets', notes')
  BY <1>2, <1>6, <1>7, Zenon DEF SeenIsRun
<1>10. Accrues
  BY <1>6, <1>7 DEF Accrues
<1>11. Resolved(now)'
  BY <1>6, <1>7, <1>8 DEF Resolved, Noted
<1>12. /\ targets' \in Seq(Target) /\ seen' \subseteq Places /\ notes' \in Seq(AnyNote)
       /\ NotesOf(notes', at, wasCut') /\ (Grouped => RunOnce(seen', targets'))
  BY <1>2, <1>5, <1>6, <1>7
<1>13. wasCut' \in {wasCut, wasCut \cup {at}}
  OBVIOUS
<1>14. QED
  BY <1>1, <1>7, <1>8, <1>9, <1>10, <1>11, <1>12, <1>13, ProceedKeeps

\* A target is added, or a place that has one.
LEMMA TargetKeeps ==
  ASSUME LookupInv, lookup \in OfPositions, Proceed, wasCut' = wasCut, notes' = notes,
         targets' \in Seq(Target), targets' # <<>>, seen \subseteq seen', seen' \subseteq Places,
         SeenIsRun(seen', targets', notes'), Grouped => RunOnce(seen', targets')
  PROVE  LookupInv'
<1>1. lookup \in AtWork
  BY DEF AtWork
<1>2. /\ at \in Nat /\ at # 0 /\ at \in DOMAIN specs
      /\ targets \in Seq(Target) /\ seen \subseteq Places /\ notes \in Seq(AnyNote)
      /\ NotesOf(notes, at - 1, wasCut)
  BY <1>1, AtWorkFacts
<1>3. PICK now : now = at
  OBVIOUS
<1>4. NotesOf(notes, at, wasCut)
  <2>1. PICK cuts : cuts = wasCut
    OBVIOUS
  <2>2. PICK list : list = notes
    OBVIOUS
  <2>3. NotesOf(list, at, cuts)
    BY <1>2, <2>1, <2>2, LaterNotes
  <2>4. QED
    BY <2>1, <2>2, <2>3
<1>5. Accrues
  BY DEF Accrues
<1>6. Resolved(now)'
  <2>1. specs[now].kind = "position"
    BY <1>3 DEF LookupInv, Stages
  <2>2. specs' = specs
    BY DEF Proceed
  <2>3. QED
    BY <2>1, <2>2 DEF Resolved
<1>7. notes' \in Seq(AnyNote) /\ NotesOf(notes', at, wasCut') /\ wasCut' \in {wasCut, wasCut \cup {at}}
  BY <1>2, <1>4
<1>8. QED
  BY <1>1, <1>3, <1>5, <1>6, <1>7, ProceedKeeps

\* The lookup waits for the next call about the position, or has failed.
LEMMA PositionWaits ==
  ASSUME LookupInv, lookup \in AtWork, UNCHANGED <<given, specs, at, cut, anyCut, hidden, targets, seen, notes, wasCut>>,
         scope' \in {"workspace", "all"},
         pointed' \in [place : Places \cup {None}, name : Names \cup {None}],
         lookup' = "failed" \/ (lookup \in OfPositions /\ Grouped /\ lookup' \in OfPositions),
         lookup' \in {"outline", "label"} => pointed'.place \in LocalPlaces
  PROVE  LookupInv'
<1>1. lookup' \notin OfNames /\ lookup' # "search" /\ lookup' \in AtWork \cup {"failed"}
      /\ (lookup' \in OfPositions => lookup \in OfPositions /\ Grouped)
  BY DEF OfNames, OfPositions, AtWork
<1>2. cut \in BOOLEAN /\ anyCut \in BOOLEAN /\ hidden \in BOOLEAN
  BY DEF LookupInv, LookupTypes
<1>3. cut' \in BOOLEAN /\ anyCut' \in BOOLEAN /\ hidden' \in BOOLEAN
      /\ UNCHANGED <<given, specs, at, targets, seen, notes>>
      /\ wasCut' \in {wasCut, wasCut \cup {at}}
  BY <1>2
<1>4. QED
  BY <1>1, <1>3, StayKeeps

\* ... the look at a position's file ...
LEMMA FileResolvedKeeps ==
  ASSUME LookupInv, NEW exists \in BOOLEAN, FileResolved(exists)
  PROVE  LookupInv'
<1>1. lookup = "file" /\ lookup \in OfPositions /\ lookup \in AtWork /\ wasCut' = wasCut
  BY DEF FileResolved, OfPositions, AtWork
<1>2. CASE ~exists
  <2>1. Report("no file")
    BY <1>2 DEF FileResolved
  <2>2. QED
    BY <1>1, <2>1, ReportKeeps
<1>3. CASE exists /\ Grouped
  <2>1. /\ lookup' = "definition"
        /\ UNCHANGED <<given, specs, at, scope, cut, anyCut, hidden, pointed, targets, seen, notes>>
    BY <1>3 DEF FileResolved
  <2>2. scope' \in {"workspace", "all"} /\ pointed' \in [place : Places \cup {None}, name : Names \cup {None}]
    BY <2>1 DEF LookupInv, LookupTypes
  <2>3. lookup' \in OfPositions /\ lookup' \notin {"outline", "label"}
    BY <2>1 DEF OfPositions
  <2>4. UNCHANGED <<given, specs, at, cut, anyCut, hidden, targets, seen, notes, wasCut>>
    BY <1>1, <2>1
  <2>5. QED
    BY <1>1, <1>3, <2>2, <2>3, <2>4, PositionWaits
<1>4. CASE exists /\ ~Grouped
  <2>1. targets' = Append(targets, [label |-> None, place |-> None]) /\ Proceed /\ UNCHANGED <<seen, notes>>
    BY <1>4 DEF FileResolved
  <2>2. /\ targets \in Seq(Target) /\ seen \subseteq Places /\ SeenIsRun(seen, targets, notes)
    BY <1>1, AtWorkFacts
  <2>3. PICK t : t = [label |-> None, place |-> None]
    OBVIOUS
  <2>4. t \in Target
    BY <2>3 DEF Target
  <2>5. /\ targets' \in Seq(Target) /\ targets' # <<>>
        /\ \A i \in DOMAIN targets : i \in DOMAIN targets' /\ targets'[i] = targets[i]
    <3>1. PICK more : more = Append(targets, t)
      OBVIOUS
    <3>2. /\ more \in Seq(Target) /\ more # <<>> /\ Len(targets) \in Nat
          /\ DOMAIN targets = 1..Len(targets) /\ DOMAIN more = 1..(Len(targets) + 1)
          /\ \A i \in 1..Len(targets) : more[i] = targets[i]
      BY <2>2, <2>4, <3>1, AppendedList
    <3>3. \A i \in DOMAIN targets : i \in DOMAIN more /\ more[i] = targets[i]
      BY <3>2
    <3>4. targets' = more
      BY <2>1, <2>3, <3>1
    <3>5. QED
      BY <3>2, <3>3, <3>4
  <2>6. seen' = seen /\ notes' = notes
    BY <2>1
  <2>7. SeenIsRun(seen', targets', notes')
    <3>1. ASSUME NEW p \in seen
          PROVE  IF p \in LocalPlaces THEN \E i \in DOMAIN targets' : targets'[i].place = p ELSE notes # <<>>
      BY <2>2, <2>5, Zenon DEF SeenIsRun
    <3>2. QED
      BY <2>6, <3>1, Zenon DEF SeenIsRun
  <2>8. seen \subseteq seen' /\ seen' \subseteq Places
    BY <2>2, <2>6
  <2>9. QED
    BY <1>1, <1>4, <2>1, <2>5, <2>6, <2>7, <2>8, TargetKeeps
<1>5. QED
  BY <1>2, <1>3, <1>4

\* ... the definition of a position ...
LEMMA DefinitionFoundKeeps ==
  ASSUME LookupInv, NEW place \in Places \cup {None}, DefinitionFound(place)
  PROVE  LookupInv'
<1>1. lookup = "definition" /\ lookup \in OfPositions /\ lookup \in AtWork /\ wasCut' = wasCut
  BY DEF DefinitionFound, OfPositions, AtWork
<1>2. CASE place \notin LocalPlaces
  <2>1. Report("no symbol")
    BY <1>2 DEF DefinitionFound
  <2>2. QED
    BY <1>1, <2>1, ReportKeeps
<1>3. CASE place \in LocalPlaces
  <2>1. /\ lookup' = "outline" /\ pointed' = [place |-> place, name |-> None]
        /\ UNCHANGED <<given, specs, at, scope, cut, anyCut, hidden, targets, seen, notes>>
    BY <1>3 DEF DefinitionFound
  <2>2. /\ pointed' \in [place : Places \cup {None}, name : Names \cup {None}]
        /\ pointed'.place \in LocalPlaces
    BY <1>3, <2>1
  <2>3. lookup' \in OfPositions /\ Grouped
    BY <1>1, <2>1 DEF OfPositions, LookupInv, Stages
  <2>4. UNCHANGED <<given, specs, at, cut, anyCut, hidden, targets, seen, notes, wasCut>>
    BY <1>1, <2>1
  <2>5. scope' \in {"workspace", "all"}
    BY <2>1 DEF LookupInv, LookupTypes
  <2>6. QED
    BY <1>1, <2>2, <2>3, <2>4, <2>5, PositionWaits
<1>4. QED
  BY <1>2, <1>3

\* ... the outline of its file ...
LEMMA OutlineFoundKeeps ==
  ASSUME LookupInv, NEW name \in Names \cup {None}, OutlineFound(name)
  PROVE  LookupInv'
<1>1. lookup = "outline" /\ lookup \in OfPositions /\ lookup \in AtWork /\ wasCut' = wasCut
  BY DEF OutlineFound, OfPositions, AtWork
<1>2. CASE name = None
  <2>1. Report("no symbol")
    BY <1>2 DEF OutlineFound
  <2>2. QED
    BY <1>1, <2>1, ReportKeeps
<1>3. CASE name # None
  <2>1. /\ lookup' = "label" /\ pointed' = [pointed EXCEPT !.name = name]
        /\ UNCHANGED <<given, specs, at, scope, cut, anyCut, hidden, targets, seen, notes>>
    BY <1>3 DEF OutlineFound
  <2>2. pointed \in [place : Places \cup {None}, name : Names \cup {None}] /\ pointed.place \in LocalPlaces
    BY <1>1 DEF LookupInv, LookupTypes, Stages
  <2>3. /\ pointed' \in [place : Places \cup {None}, name : Names \cup {None}]
        /\ pointed'.place \in LocalPlaces
    BY <2>1, <2>2
  <2>4. lookup' \in OfPositions /\ Grouped
    BY <1>1, <2>1 DEF OfPositions, LookupInv, Stages
  <2>5. UNCHANGED <<given, specs, at, cut, anyCut, hidden, targets, seen, notes, wasCut>>
    BY <1>1, <2>1
  <2>6. scope' \in {"workspace", "all"}
    BY <2>1 DEF LookupInv, LookupTypes
  <2>7. QED
    BY <1>1, <2>3, <2>4, <2>5, <2>6, PositionWaits
<1>4. QED
  BY <1>2, <1>3

\* ... a position's target, with its label or without ...
LEMMA AddPointedKeeps ==
  ASSUME LookupInv, lookup = "label", wasCut' = wasCut, NEW label \in Symbols \cup {None}, AddPointed(label)
  PROVE  LookupInv'
<1>1. lookup \in OfPositions /\ lookup \in AtWork
  BY DEF OfPositions, AtWork
<1>2. PICK p : p = pointed.place
  OBVIOUS
<1>3. p \in LocalPlaces /\ p \in Places /\ Grouped
  <2>1. p \in LocalPlaces /\ Grouped /\ p \in Places \cup {None}
    BY <1>2 DEF LookupInv, LookupTypes, Stages, OfPositions
  <2>2. QED
    BY <2>1, SymbolAssumption
<1>4. /\ targets \in Seq(Target) /\ seen \subseteq Places /\ SeenIsRun(seen, targets, notes)
      /\ RunOnce(seen, targets)
  BY <1>1, <1>3, AtWorkFacts
<1>5. /\ targets' = IF p \in seen THEN targets ELSE Append(targets, [label |-> label, place |-> p])
      /\ seen' = seen \cup {p} /\ Proceed /\ notes' = notes
  BY <1>2 DEF AddPointed
<1>6. seen \subseteq seen' /\ seen' \subseteq Places
  BY <1>3, <1>4, <1>5
<1>7. CASE p \in seen
  <2>1. targets' = targets /\ seen' = seen
    BY <1>5, <1>7
  <2>2. \E i \in DOMAIN targets : targets[i].place = p
    BY <1>3, <1>4, <1>7, Zenon DEF SeenIsRun
  <2>3. DOMAIN targets # {}
    BY <2>2
  <2>4. targets # <<>>
    BY <2>3, NoPosition
  <2>5. QED
    BY <1>1, <1>4, <1>5, <1>6, <2>1, <2>4, TargetKeeps
<1>8. CASE p \notin seen
  <2>1. PICK t : t = [label |-> label, place |-> p]
    OBVIOUS
  <2>2. t \in Target /\ t.place = p
    BY <1>3, <2>1 DEF Target
  <2>3. PICK more : more = Append(targets, t)
    OBVIOUS
  <2>4. /\ more \in Seq(Target) /\ more # <<>> /\ Len(targets) \in Nat
        /\ DOMAIN targets = 1..Len(targets) /\ DOMAIN more = 1..(Len(targets) + 1)
        /\ \A i \in 1..Len(targets) : more[i] = targets[i]
        /\ more[Len(targets) + 1] = t
    BY <1>4, <2>2, <2>3, AppendedList
  <2>5. \A i \in DOMAIN targets : i \in DOMAIN more /\ more[i] = targets[i]
    BY <2>4
  <2>6. PICK last : last = Len(targets) + 1
    OBVIOUS
  <2>7. last \in DOMAIN more /\ more[last].place = p /\ \A i \in DOMAIN more : i \in DOMAIN targets \/ i = last
    BY <2>2, <2>4, <2>6
  <2>8. targets' = more
    BY <1>5, <1>8, <2>1, <2>3
  <2>9. SeenIsRun(seen', more, notes')
    <3>1. ASSUME NEW q \in seen
          PROVE  IF q \in LocalPlaces THEN \E i \in DOMAIN more : more[i].place = q ELSE notes # <<>>
      BY <1>4, <2>5, Zenon DEF SeenIsRun
    <3>2. IF p \in LocalPlaces THEN \E i \in DOMAIN more : more[i].place = p ELSE notes # <<>>
      BY <1>3, <2>7
    <3>3. \A q \in seen' : q \in seen \/ q = p
      BY <1>5
    <3>4. notes' = notes
      BY <1>5
    <3>5. QED
      BY <3>1, <3>2, <3>3, <3>4, Zenon DEF SeenIsRun
  <2>10. RunOnce(seen', more)
    <3>1. \A i \in DOMAIN more : more[i].place \in seen'
      BY <1>4, <1>5, <2>5, <2>7 DEF RunOnce
    <3>2. \A i \in DOMAIN targets : more[i].place # p
      BY <1>4, <1>8, <2>5 DEF RunOnce
    <3>3. \A i, j \in DOMAIN more : more[i].place = more[j].place => i = j
      BY <1>4, <2>5, <2>7, <3>2, Zenon DEF RunOnce
    <3>4. QED
      BY <3>1, <3>3, Zenon DEF RunOnce
  <2>11. QED
    BY <1>1, <1>5, <1>6, <2>4, <2>8, <2>9, <2>10, TargetKeeps
<1>9. QED
  BY <1>7, <1>8

\* ... the search for the label ...
LEMMA LabelledKeeps ==
  ASSUME LookupInv, NEW list \in Answerable, Labelled(list)
  PROVE  LookupInv'
<1>1. lookup = "label" /\ lookup \in OfPositions /\ lookup \in AtWork /\ wasCut' = wasCut
  BY DEF Labelled, OfPositions, AtWork
<1>2. PICK all : all = ExactMatches(list, pointed.name)
  OBVIOUS
<1>3. all \in Seq(Located)
  BY <1>2, AnsweredLists, SearchFinds
<1>4. PICK found : found = Those(all, {s \in Symbols : PlaceOf[s] = pointed.place})
  OBVIOUS
<1>5. found \in Seq(Located)
  BY <1>3, <1>4, FilterFinds
<1>6. CASE found # <<>>
  <2>1. AddPointed(Head(found))
    BY <1>2, <1>4, <1>6 DEF Labelled
  <2>2. Head(found) \in Symbols
    BY <1>5, <1>6, ToSetElements DEF Located
  <2>3. PICK s : s = Head(found)
    OBVIOUS
  <2>4. s \in Symbols \cup {None} /\ AddPointed(s)
    BY <2>1, <2>2, <2>3
  <2>5. QED
    BY <1>1, <2>4, AddPointedKeeps
<1>7. CASE found = <<>> /\ scope = "workspace"
  <2>1. /\ scope' = "all"
        /\ UNCHANGED <<given, specs, at, lookup, cut, anyCut, hidden, pointed, targets, seen, notes>>
    BY <1>2, <1>4, <1>7 DEF Labelled
  <2>2. pointed \in [place : Places \cup {None}, name : Names \cup {None}] /\ pointed.place \in LocalPlaces /\ Grouped
    BY <1>1 DEF LookupInv, LookupTypes, Stages, OfPositions
  <2>3. UNCHANGED <<given, specs, at, cut, anyCut, hidden, targets, seen, notes, wasCut>>
    BY <1>1, <2>1
  <2>4. /\ scope' \in {"workspace", "all"} /\ pointed' \in [place : Places \cup {None}, name : Names \cup {None}]
        /\ pointed'.place \in LocalPlaces /\ lookup' \in OfPositions
    BY <1>1, <2>1, <2>2
  <2>5. QED
    BY <1>1, <2>2, <2>3, <2>4, PositionWaits
<1>8. CASE found = <<>> /\ scope # "workspace"
  <2>1. AddPointed(None)
    BY <1>2, <1>4, <1>8 DEF Labelled
  <2>2. QED
    BY <1>1, <2>1, AddPointedKeeps
<1>9. QED
  BY <1>6, <1>7, <1>8

\* ... and a call that fails.
LEMMA LookupFailsKeeps == LookupInv /\ LookupFails => LookupInv'
<1> SUFFICES ASSUME LookupInv, LookupFails PROVE LookupInv'
  OBVIOUS
<1>1. /\ lookup \in AtWork /\ lookup' = "failed"
      /\ UNCHANGED <<given, specs, at, scope, cut, anyCut, hidden, pointed, targets, seen, notes, wasCut>>
  BY DEF LookupFails, Awaited, AtWork, OfNames, OfPositions
<1>2. scope' \in {"workspace", "all"} /\ pointed' \in [place : Places \cup {None}, name : Names \cup {None}]
  BY <1>1 DEF LookupInv, LookupTypes
<1>3. lookup' \notin {"outline", "label"}
  BY <1>1
<1>4. UNCHANGED <<given, specs, at, cut, anyCut, hidden, targets, seen, notes, wasCut>>
  BY <1>1
<1>5. QED
  BY <1>1, <1>2, <1>3, <1>4, PositionWaits

\* Before the lookup, or after the command has taken what it found.
IdleState ==
  /\ lookup \in Idle
  /\ given \in Given \cup {Nothing}
  /\ specs = <<>> /\ at = 0 /\ targets = <<>> /\ seen = {} /\ notes = <<>> /\ wasCut = {}
  /\ scope \in {"workspace", "all"}
  /\ cut \in BOOLEAN /\ anyCut \in BOOLEAN /\ hidden \in BOOLEAN
  /\ pointed \in [place : Places \cup {None}, name : Names \cup {None}]

\* A lookup that has not begun, or has ended, has nothing.
LEMMA IdleHasInv == IdleState => LookupInv
<1> SUFFICES ASSUME IdleState PROVE LookupInv
  OBVIOUS
<1> USE DEF IdleState
<1>1. <<>> \in Seq(Target) /\ <<>> \in Seq(AnyNote) /\ Len(<<>>) = 0 /\ DOMAIN <<>> = {} /\ 1..0 = {}
  BY EmptySeq, NoPosition
<1>2. /\ lookup \notin OfNames /\ lookup \notin OfPositions /\ lookup # "failed" /\ lookup # "found"
      /\ lookup # "search" /\ lookup \notin {"outline", "label"}
      /\ lookup \in Awaited \cup {"off", "classify", "file", "found", "taken", "rejected", "failed"}
  BY DEF Idle, OfNames, OfPositions
<1>3. LookupTypes
  BY <1>1, <1>2 DEF LookupTypes
<1>4. Stages
  BY <1>2 DEF Stages
<1>5. Cuts
  BY <1>2 DEF Cuts
<1>6. NotesOf(notes, at - 1, wasCut)
  BY <1>1 DEF NotesOf
<1>7. SeenIsRun(seen, targets, notes) /\ RunOnce(seen, targets)
  BY <1>1 DEF SeenIsRun, RunOnce
<1>8. QED
  BY <1>1, <1>3, <1>4, <1>5, <1>6, <1>7 DEF LookupInv

\* No position is in work.
LEMMA NoPointType == NoPoint \in [place : Places \cup {None}, name : Names \cup {None}]
BY DEF NoPoint

\* What the invariant says of such a lookup.
LEMMA IdleFacts ==
  ASSUME LookupInv, lookup \in Idle
  PROVE  IdleState
BY DEF IdleState, LookupInv, LookupTypes, Stages

\* The steps at the lookup's start and end keep the invariant.
LEMMA BeginKeepsLookup == LookupInv /\ BeginLookup => LookupInv'
<1> SUFFICES ASSUME LookupInv, BeginLookup PROVE LookupInv'
  OBVIOUS
<1>1. /\ lookup \in Idle /\ lookup' \in Idle
      /\ UNCHANGED <<given, specs, at, scope, cut, anyCut, hidden, pointed, targets, seen, notes, wasCut>>
  BY DEF BeginLookup, Idle
<1>2. IdleState'
  BY <1>1, IdleFacts DEF IdleState
<1>3. QED
  BY <1>2, IdleHasInv, PTL

LEMMA GiveKeepsLookup == LookupInv /\ Give => LookupInv'
<1> SUFFICES ASSUME LookupInv, Give PROVE LookupInv'
  OBVIOUS
<1>1. /\ lookup' \in Idle /\ given' \in Given \cup {Nothing}
      /\ specs' = <<>> /\ at' = 0 /\ targets' = <<>> /\ seen' = {} /\ notes' = <<>> /\ wasCut' = {}
      /\ UNCHANGED <<scope, cut, anyCut, hidden, pointed>>
  BY DEF Give, Idle
<1>2. /\ scope' \in {"workspace", "all"} /\ cut' \in BOOLEAN /\ anyCut' \in BOOLEAN /\ hidden' \in BOOLEAN
      /\ pointed' \in [place : Places \cup {None}, name : Names \cup {None}]
  BY <1>1 DEF LookupInv, LookupTypes
<1>3. IdleState'
  BY <1>1, <1>2 DEF IdleState
<1>4. QED
  BY <1>3, IdleHasInv, PTL

LEMMA ClassifyKeeps == LookupInv /\ Classify => LookupInv'
<1> SUFFICES ASSUME LookupInv, Classify PROVE LookupInv'
  OBVIOUS
<1>1. lookup = "classify" /\ lookup \in Idle /\ UNCHANGED <<targets, seen, notes, wasCut>>
  BY DEF Classify, Idle
<1>2. /\ specs = <<>> /\ at = 0 /\ targets = <<>> /\ seen = {} /\ notes = <<>> /\ wasCut = {}
      /\ given \in Given \cup {Nothing} /\ scope \in {"workspace", "all"}
      /\ cut \in BOOLEAN /\ anyCut \in BOOLEAN /\ hidden \in BOOLEAN
      /\ pointed \in [place : Places \cup {None}, name : Names \cup {None}]
  BY <1>1, IdleFacts DEF IdleState
<1>3. CASE ClassifyRejects(given)
  <2>1. lookup' = "rejected" /\ UNCHANGED <<given, specs, at, scope, cut, anyCut, hidden, pointed>>
    BY <1>3 DEF Classify
  <2>2. lookup' \in Idle
    BY <2>1 DEF Idle
  <2>3. IdleState'
    BY <1>1, <1>2, <2>1, <2>2 DEF IdleState
  <2>4. QED
    BY <2>3, IdleHasInv, PTL
<1>4. CASE ~ClassifyRejects(given)
  <2>1. PICK list : list = SpecsOf(given)
    OBVIOUS
  <2>2. /\ Len(list) \in Nat /\ DOMAIN list = 1..Len(list)
        /\ \A i \in DOMAIN list : list[i].kind \in {"name", "position"}
    BY <1>2, <1>4, <2>1, ClassifiedSpecs, SpecKinds
  <2>3. /\ specs' = list /\ given' = given /\ at' = 1 /\ scope' = "workspace"
        /\ cut' = FALSE /\ anyCut' = FALSE /\ hidden' = FALSE /\ pointed' = NoPoint
        /\ lookup' = IF 0 = Len(list) THEN "found"
                     ELSE IF list[1].kind = "name" THEN "search" ELSE "file"
    <3>1. specs' = SpecsOf(given) /\ ProceedIn(SpecsOf(given))
      BY <1>4 DEF Classify
    <3>2. at + 1 = 1
      BY <1>2
    <3>3. QED
      BY <1>2, <2>1, <3>1, <3>2 DEF ProceedIn
  <2>4. /\ lookup' = "search" => 1 \in DOMAIN list /\ list[1].kind = "name"
        /\ lookup' = "file" => 1 \in DOMAIN list /\ list[1].kind = "position"
        /\ lookup' = "found" => 1 = Len(list) + 1
        /\ lookup' \in {"found", "search", "file"}
    <3>1. CASE 0 = Len(list)
      BY <2>3, <3>1
    <3>2. CASE 0 # Len(list)
      <4>1. 1 \in DOMAIN list
        BY <2>2, <3>2
      <4>2. CASE list[1].kind = "name"
        BY <2>3, <3>2, <4>1, <4>2
      <4>3. CASE list[1].kind # "name"
        <5>1. list[1].kind = "position"
          BY <2>2, <4>1, <4>3
        <5>2. QED
          BY <2>3, <3>2, <4>1, <4>3, <5>1
      <4>4. QED
        BY <4>2, <4>3
    <3>3. QED
      BY <3>1, <3>2
  <2>5. DOMAIN <<>> = {} /\ <<>> \in Seq(Target) /\ <<>> \in Seq(AnyNote)
    BY NoPosition
  <2>6. targets' = <<>> /\ seen' = {} /\ notes' = <<>> /\ wasCut' = {}
    BY <1>1, <1>2
  <2>7. LookupTypes'
    <3>1. at' \in 0..(Len(list) + 1)
      BY <2>2, <2>3
    <3>2. specs' \in {<<>>, SpecsOf(given')}
      BY <2>1, <2>3
    <3>3. pointed' \in [place : Places \cup {None}, name : Names \cup {None}]
      BY <2>3, NoPointType
    <3>4. Len(specs') \in Nat /\ DOMAIN specs' = 1..Len(specs') /\ \A i \in DOMAIN specs' : specs'[i].kind \in {"name", "position"}
      BY <2>2, <2>3
    <3>5. lookup' \in Awaited \cup {"off", "classify", "file", "found", "taken", "rejected", "failed"}
      BY <2>4 DEF Awaited
    <3>6. given' \in Given \cup {Nothing} /\ scope' \in {"workspace", "all"}
          /\ cut' \in BOOLEAN /\ anyCut' \in BOOLEAN /\ hidden' \in BOOLEAN
      BY <1>2, <2>3
    <3>7. targets' \in Seq(Target) /\ seen' \subseteq Places /\ notes' \in Seq(AnyNote) /\ wasCut' \subseteq 1..Len(specs')
      BY <2>5, <2>6
    <3>8. at' \in 0..(Len(specs') + 1)
      BY <2>3, <3>1
    <3>9. QED
      BY <3>2, <3>3, <3>4, <3>5, <3>6, <3>7, <3>8 DEF LookupTypes
  <2>8. Stages'
    BY <1>4, <2>1, <2>3, <2>4 DEF Stages, OfNames, OfPositions, Idle
  <2>9. Cuts'
    BY <2>3, <2>4, <2>6 DEF Cuts, OfNames
  <2>10. NotesOf(notes, at - 1, wasCut)'
    BY <2>5, <2>6 DEF NotesOf
  <2>11. SeenIsRun(seen, targets, notes)' /\ RunOnce(seen, targets)'
    BY <2>5, <2>6 DEF SeenIsRun, RunOnce
  <2>12. \A i \in DOMAIN specs' : ~(i < at')
    BY <2>2, <2>3
  <2>13. QED
    BY <2>7, <2>8, <2>9, <2>10, <2>11, <2>12 DEF LookupInv
<1>5. QED
  BY <1>3, <1>4

\* The lookup's steps together.
LEMMA LookupStepKeeps == LookupInv /\ LookupNext => LookupInv'
<1> SUFFICES ASSUME LookupInv, LookupNext PROVE LookupInv'
  OBVIOUS
<1>1. CASE Classify
  BY <1>1, ClassifyKeeps
<1>2. CASE \E list \in Answerable, truncates \in BOOLEAN :
             Searched(list, truncates) \/ LeafSearched(list, truncates)
  BY <1>2, SearchedKeeps, LeafSearchedKeeps
<1>3. CASE \E exists \in BOOLEAN : FileResolved(exists)
  BY <1>3, FileResolvedKeeps
<1>4. CASE \E place \in Places \cup {None} : DefinitionFound(place)
  BY <1>4, DefinitionFoundKeeps
<1>5. CASE \E name \in Names \cup {None} : OutlineFound(name)
  BY <1>5, OutlineFoundKeeps
<1>6. CASE \E list \in Answerable : Labelled(list)
  BY <1>6, LabelledKeeps
<1>7. CASE LookupFails
  BY <1>7, LookupFailsKeeps
<1>8. QED
  BY <1>1, <1>2, <1>3, <1>4, <1>5, <1>6, <1>7 DEF LookupNext

\* Steps of the other parts leave it alone.
LEMMA LookupStands == LookupInv /\ UNCHANGED lookupVars => LookupInv'
<1> SUFFICES ASSUME LookupInv, UNCHANGED lookupVars PROVE LookupInv'
  OBVIOUS
<1>1. UNCHANGED <<given, specs, at, lookup, scope, cut, anyCut, hidden, pointed, targets, seen, notes, wasCut>>
  BY DEF lookupVars
<1>2. LookupTypes' /\ Stages' /\ Cuts'
  BY <1>1 DEF LookupInv, LookupTypes, Stages, Cuts, Grouped
<1>3. NotesOf(notes, at - 1, wasCut)' /\ SeenIsRun(seen, targets, notes)' /\ (Grouped => RunOnce(seen, targets))'
  BY <1>1 DEF LookupInv, Grouped
<1>4. \A i \in DOMAIN specs' : i < at' => Resolved(i)'
  BY <1>1 DEF LookupInv, Resolved, Noted
<1>5. QED
  BY <1>2, <1>3, <1>4 DEF LookupInv

\* A command moves its lookup by the lookup's own steps, or lets it stand.
LEMMA CommandMovesLookup ==
  ASSUME [Next]_vars
  PROVE  BeginLookup \/ LookupNext \/ Give \/ UNCHANGED lookupVars
<1>1. CASE Parse \/ LookupStep \/ TakeTargets \/ LookupEnds
  BY <1>1 DEF Parse, LookupStep, TakeTargets, LookupEnds
<1>2. CASE TargetFails \/ WalkStep \/ (\E hasNotes \in BOOLEAN : WalkEnds(hasNotes)) \/ NoItemThere
  BY <1>2 DEF TargetFails, WalkStep, WalkEnds, NoItemThere
<1>3. CASE SearchStep \/ SearchEnds \/ (\E exists \in BOOLEAN : OutlineFile(exists)) \/ OutlineFails
  BY <1>3 DEF SearchStep, SearchEnds, OutlineFile, OutlineFails
<1>4. CASE AnswerReferences \/ RenameRefused \/ (\E answer \in WorkspaceEdits : AnswerRename(answer))
  BY <1>4 DEF AnswerReferences, RenameRefused, AnswerRename
<1>5. CASE (\E calls \in 0..MaxDetails : AnswerDefinition(calls)) \/ (\E fails \in BOOLEAN : AnswerDetail(fails))
  BY <1>5 DEF AnswerDefinition, AnswerDetail
<1>6. CASE Finish \/ Over \/ UNCHANGED vars
  BY <1>6 DEF Finish, Over, vars
<1>7. QED
  BY <1>1, <1>2, <1>3, <1>4, <1>5, <1>6 DEF Next

\* The invariant holds at the start and after each step.
LEMMA InitLookup == Init => LookupInv
<1> SUFFICES ASSUME Init PROVE LookupInv
  OBVIOUS
<1>1. given \in Given \cup {Nothing}
  BY CommandAssumption DEF Init, LookupInit
<1>2. /\ lookup \in Idle /\ specs = <<>> /\ at = 0 /\ targets = <<>> /\ seen = {} /\ notes = <<>> /\ wasCut = {}
      /\ scope \in {"workspace", "all"} /\ cut \in BOOLEAN /\ anyCut \in BOOLEAN /\ hidden \in BOOLEAN
      /\ pointed = NoPoint
  BY DEF Init, LookupInit, Idle
<1>3. QED
  BY <1>1, <1>2, NoPointType, IdleHasInv DEF IdleState

LEMMA StepLookup == LookupInv /\ [Next]_vars => LookupInv'
BY CommandMovesLookup, BeginKeepsLookup, LookupStepKeeps, GiveKeepsLookup, LookupStands

\* What is found is accounted for.
LEMMA InvIsTargetsAccounted == LookupInv => TargetsAccounted
<1> SUFFICES ASSUME LookupInv PROVE TargetsAccounted
  OBVIOUS
<1>1. \A i \in DOMAIN specs : i < at => Resolved(i)
  BY DEF LookupInv
<1>2. \A n \in DOMAIN notes : notes[n].what \in {"filtered", "unknown"} =>
        notes[n].truncated = (notes[n].spec \in wasCut)
  BY DEF LookupInv, NotesOf
<1>3. \A p \in seen : p \notin LocalPlaces \/ \E i \in DOMAIN targets : targets[i].place = p
  BY Zenon DEF LookupInv, SeenIsRun
<1>4. Grouped => \A i, j \in DOMAIN targets : targets[i].place = targets[j].place => i = j
  BY DEF LookupInv, RunOnce
<1>5. QED
  BY <1>1, <1>2, <1>3, <1>4, Zenon DEF TargetsAccounted, Resolved

\* No name and no position given to a command vanishes, and no definition is run twice, for
\* all arguments and whatever the searches, the definition and the outline answer
\* (resolve_targets, src/symbol.rs).
THEOREM LookupAccountsForAll == Spec => []TargetsAccounted
<1>1. Init => LookupInv
  BY InitLookup
<1>2. LookupInv /\ [Next]_vars => LookupInv'
  BY StepLookup
<1>3. LookupInv => TargetsAccounted
  BY InvIsTargetsAccounted
<1>4. QED
  BY <1>1, <1>2, <1>3, PTL DEF Spec

------------------------------------------------------------------------------
\* A tool is its command.

\* The arguments of a command under way have passed its checks, and a tool's those of its
\* command line too.
ArgumentsPassed == command \in PositionKinds =>
  /\ lookup \notin {"off", "taken"} => ~ClapRejects(given) /\ (front = "mcp" => ~ToolRejects(given))
  /\ front = "mcp" => lookup # "rejected" /\ (lookup = "off" /\ outcome = "usage" => ToolRejects(given))

Counted ==
  /\ results \in Nat
  /\ answered \in BOOLEAN /\ noted \in BOOLEAN /\ printed \in BOOLEAN
  /\ answered <=> results > 0

Said == results > 0 \/ printed \/ noted

OneSearch ==
  /\ truncated \in BOOLEAN
  /\ search # "off" => command = "search"
  /\ search = "written" => results = 1

CommandInv ==
  /\ LookupInv
  /\ ArgumentsPassed
  /\ Counted
  /\ command \in PositionKinds /\ lookup = "taken" => todo # <<>> \/ Said
  /\ OneSearch
  /\ NothingIsSwallowed

\* What passes a tool's checks passes clap's and classify's, and the other way around.
LEMMA ToolChecksSuffice ==
  ASSUME NEW a \in Given \cup {Nothing}
  PROVE  ToolRejects(a) <=> ClapRejects(a) \/ ClassifyRejects(a)
<1>1. HasPosition(a) => HasPart(a)
  BY DEF HasPosition, HasPart
<1>2. ASSUME ToolRejects(a) PROVE ClapRejects(a) \/ ClassifyRejects(a)
  <2>1. CASE a.names = <<>> /\ ~HasPosition(a)
    BY <2>1 DEF ClapRejects, HasPosition
  <2>2. QED
    BY <1>2, <2>1 DEF ToolRejects, ClapRejects, ClassifyRejects
<1>3. ASSUME ClapRejects(a) PROVE ToolRejects(a)
  <2>1. CASE a.names = <<>> /\ ~a.path
    BY <2>1 DEF ToolRejects, HasPosition
  <2>2. CASE a.path /\ None \in {a.line, a.character}
    BY <2>2 DEF ToolRejects, HasPosition, HasPart
  <2>3. QED
    BY <1>3, <2>1, <2>2 DEF ToolRejects, ClapRejects
<1>4. ASSUME ClassifyRejects(a) PROVE ToolRejects(a)
  BY <1>4 DEF ToolRejects, ClassifyRejects
<1>5. QED
  BY <1>2, <1>3, <1>4

\* They leave something to look up, and a position's line and character are at least 1.
LEMMA PassedArguments ==
  ASSUME NEW a \in Given \cup {Nothing}, ~ClapRejects(a)
  PROVE  /\ SpecsOf(a) # <<>>
         /\ HasPosition(a) => a.line - 1 \in Nat /\ a.character - 1 \in Nat
<1>1. a.names # <<>> \/ HasPosition(a)
  BY DEF ClapRejects, HasPosition
<1>2. SpecsOf(a) # <<>>
  BY <1>1, ClassifiedSpecs
<1>3. ASSUME HasPosition(a) PROVE a.line - 1 \in Nat /\ a.character - 1 \in Nat
  <2>1. a.line \in Nat /\ a.character \in Nat /\ a.line # 0 /\ a.character # 0
    BY <1>3, GivenFields DEF HasPosition, ClapRejects
  <2>2. QED
    BY <2>1
<1>4. QED
  BY <1>2, <1>3

\* A lookup's own steps leave the arguments alone, and end as the checks say.
LEMMA LookupStepFacts ==
  ASSUME LookupNext
  PROVE  /\ given' = given /\ lookup \notin {"off", "taken"} /\ lookup' \notin {"off", "taken"}
         /\ lookup' = "rejected" => ClassifyRejects(given)
<1>1. ASSUME NEW list, ProceedIn(list)
      PROVE  given' = given /\ lookup' \in {"found", "search", "file"}
  BY <1>1 DEF ProceedIn
<1>2. ASSUME Proceed PROVE given' = given /\ lookup' \in {"found", "search", "file"}
  BY <1>1, <1>2 DEF Proceed
<1>3. ASSUME NEW found, NEW truncates, Conclude(found, truncates)
      PROVE  given' = given /\ lookup' \in {"found", "search", "file"}
  <2>1. CASE Proceed
    BY <1>2, <2>1
  <2>2. CASE lookup' = "search" /\ given' = given
    BY <2>2
  <2>3. QED
    BY <1>3, <2>1, <2>2, Zenon DEF Conclude
<1>4. CASE Classify
  <2>1. CASE ClassifyRejects(given)
    BY <1>4, <2>1 DEF Classify
  <2>2. CASE ~ClassifyRejects(given)
    BY <1>1, <1>4, <2>2 DEF Classify
  <2>3. QED
    BY <2>1, <2>2
<1>5. CASE \E list \in Answerable, truncates \in BOOLEAN :
             Searched(list, truncates) \/ LeafSearched(list, truncates)
  <2>1. ASSUME NEW list, NEW truncates, Searched(list, truncates)
        PROVE  lookup = "search" /\ given' = given /\ lookup' \in {"found", "search", "file", "leaf"}
    <3>1. PICK found : found = ExactMatches(list, Current.leaf)
      OBVIOUS
    <3>2. lookup = "search"
      BY <2>1 DEF Searched
    <3>3. CASE found = <<>> /\ Current.container # None
      BY <2>1, <3>1, <3>2, <3>3 DEF Searched
    <3>4. CASE ~(found = <<>> /\ Current.container # None)
      <4>1. Conclude(found, truncates)
        BY <2>1, <3>1, <3>4 DEF Searched
      <4>2. QED
        BY <1>3, <3>2, <4>1
    <3>5. QED
      BY <3>3, <3>4
  <2>2. ASSUME NEW list, NEW truncates, LeafSearched(list, truncates)
        PROVE  lookup = "leaf" /\ given' = given /\ lookup' \in {"found", "search", "file", "leaf"}
    <3>1. PICK found, some : Conclude(found, some)
      BY <2>2, Zenon DEF LeafSearched
    <3>2. lookup = "leaf"
      BY <2>2 DEF LeafSearched
    <3>3. QED
      BY <1>3, <3>1, <3>2
  <2>3. QED
    BY <1>5, <2>1, <2>2
<1>6. ASSUME NEW what, Report(what) PROVE given' = given /\ lookup' \in {"found", "search", "file"}
  BY <1>2, <1>6 DEF Report
<1>7. CASE \E exists \in BOOLEAN : FileResolved(exists)
  BY <1>2, <1>6, <1>7 DEF FileResolved
<1>8. CASE \E place \in Places \cup {None} : DefinitionFound(place)
  BY <1>6, <1>8 DEF DefinitionFound
<1>9. CASE \E name \in Names \cup {None} : OutlineFound(name)
  BY <1>6, <1>9 DEF OutlineFound
<1>10. CASE \E list \in Answerable : Labelled(list)
  <2>1. PICK list \in Answerable : Labelled(list)
    BY <1>10
  <2>2. lookup = "label"
    BY <2>1 DEF Labelled
  <2>3. (\E label : AddPointed(label)) \/ (given' = given /\ lookup' = lookup)
    BY <2>1 DEF Labelled
  <2>4. QED
    BY <1>2, <2>2, <2>3 DEF AddPointed
<1>11. CASE LookupFails
  BY <1>11 DEF LookupFails, Awaited
<1>12. QED
  BY <1>4, <1>5, <1>7, <1>8, <1>9, <1>10, <1>11 DEF LookupNext

\* The targets found, or the notes, tell of something given.
LEMMA SomethingFound ==
  ASSUME LookupInv, lookup = "found", SpecsOf(given) # <<>>
  PROVE  targets # <<>> \/ notes # <<>>
<1>1. /\ specs # <<>> /\ Len(specs) \in Nat /\ DOMAIN specs = 1..Len(specs) /\ at = Len(specs) + 1
      /\ specs \in {<<>>, SpecsOf(given)}
      /\ SeenIsRun(seen, targets, notes) /\ seen \subseteq Places
      /\ \A i \in DOMAIN specs : i < at => Resolved(i)
  BY DEF LookupInv, LookupTypes, Stages, Idle
<1>2. 1 \in DOMAIN specs /\ 1 < at
  <2>1. Len(specs) # 0
    <3>1. PICK a : a = given
      OBVIOUS
    <3>2. PICK list : list = specs
      OBVIOUS
    <3>3. list = SpecsOf(a) /\ list # <<>> /\ a \in Given \cup {Nothing}
      BY <1>1, <3>1, <3>2 DEF LookupInv, LookupTypes
    <3>4. Len(list) # 0
      BY <3>3, SpecsNonempty
    <3>5. QED
      BY <3>2, <3>4
  <2>2. QED
    BY <1>1, <2>1
<1>3. Resolved(1)
  BY <1>1, <1>2
<1>4. CASE Noted(1)
  BY <1>4, NoPosition DEF Noted
<1>5. CASE \E s \in Symbols : PlaceOf[s] \in seen
  <2>1. PICK p \in seen : TRUE
    BY <1>5
  <2>2. notes # <<>> \/ \E i \in DOMAIN targets : targets[i].place = p
    BY <1>1, <2>1, Zenon DEF SeenIsRun
  <2>3. QED
    BY <2>2, NoPosition
<1>6. QED
  BY <1>3, <1>4, <1>5 DEF Resolved

\* What two lists have together.
LEMMA ElementsOfBoth ==
  ASSUME NEW E, NEW s \in Seq(E), NEW t \in Seq(E)
  PROVE  s \o t \in Seq(E) /\ ToSet(s \o t) = ToSet(s) \cup ToSet(t)
<1>1. PICK both : both = s \o t
  OBVIOUS
<1>2. /\ both \in Seq(E) /\ Len(both) = Len(s) + Len(t)
      /\ \A i \in 1..(Len(s) + Len(t)) : both[i] = IF i <= Len(s) THEN s[i] ELSE t[i - Len(s)]
  BY <1>1, ConcatProperties
<1>3. /\ Len(s) \in Nat /\ Len(t) \in Nat /\ DOMAIN s = 1..Len(s) /\ DOMAIN t = 1..Len(t)
      /\ DOMAIN both = 1..(Len(s) + Len(t))
  BY <1>2
<1>4. ASSUME NEW x \in ToSet(both) PROVE x \in ToSet(s) \cup ToSet(t)
  <2>1. PICK i \in 1..(Len(s) + Len(t)) : x = both[i]
    BY <1>3 DEF ToSet
  <2>2. CASE i <= Len(s)
    <3>1. i \in DOMAIN s /\ x = s[i]
      BY <1>2, <1>3, <2>1, <2>2
    <3>2. QED
      BY <3>1 DEF ToSet
  <2>3. CASE ~(i <= Len(s))
    <3>1. i - Len(s) \in DOMAIN t
      BY <1>3, <2>3
    <3>2. x = t[i - Len(s)]
      BY <1>2, <2>1, <2>3
    <3>3. QED
      BY <3>1, <3>2 DEF ToSet
  <2>4. QED
    BY <2>2, <2>3
<1>5. ASSUME NEW x \in ToSet(s) PROVE x \in ToSet(both)
  <2>1. PICK i \in DOMAIN s : x = s[i]
    BY DEF ToSet
  <2>2. i \in DOMAIN both /\ x = both[i]
    BY <1>2, <1>3, <2>1
  <2>3. QED
    BY <2>2 DEF ToSet
<1>6. ASSUME NEW x \in ToSet(t) PROVE x \in ToSet(both)
  <2>1. PICK i \in DOMAIN t : x = t[i]
    BY DEF ToSet
  <2>2. PICK j : j = Len(s) + i
    OBVIOUS
  <2>3. j \in 1..(Len(s) + Len(t)) /\ ~(j <= Len(s)) /\ j - Len(s) = i
    BY <1>3, <2>1, <2>2
  <2>4. j \in DOMAIN both /\ x = both[j]
    BY <1>2, <1>3, <2>1, <2>3
  <2>5. QED
    BY <2>4 DEF ToSet
<1>7. QED
  BY <1>1, <1>2, <1>4, <1>5, <1>6

\* A list of one element.
LEMMA ElementOfOne ==
  ASSUME NEW E, NEW x \in E
  PROVE  <<x>> \in Seq(E) /\ ToSet(<<x>>) = {x}
<1>1. <<x>> \in Seq(E) /\ DOMAIN <<x>> = 1..1 /\ <<x>>[1] = x
  OBVIOUS
<1>2. QED
  BY <1>1 DEF ToSet

\* The result of a command that ran has a block of notes if it made any.
LEMMA ResultCarriesNotes ==
  ASSUME NEW there \in BOOLEAN, NEW status \in {"ready", "indexing", "error"}
  PROVE  LET blocks == <<"stdout">> \o Block("stderr", there) \o Warning(status)
         IN there = (\E i \in DOMAIN blocks : blocks[i] = "stderr")
<1>1. PICK Words : Words = {"stdout", "stderr", "warning"}
  OBVIOUS
<1>2. \A x \in Words : <<x>> \in Seq(Words) /\ ToSet(<<x>>) = {x}
  BY ElementOfOne
<1>3. PICK stdout : stdout = <<"stdout">>
  OBVIOUS
<1>4. /\ stdout \in Seq(Words) /\ ToSet(stdout) = {"stdout"}
      /\ <<"stderr">> \in Seq(Words) /\ ToSet(<<"stderr">>) = {"stderr"}
      /\ <<"warning">> \in Seq(Words) /\ ToSet(<<"warning">>) = {"warning"}
  <2>1. "stdout" \in Words /\ "stderr" \in Words /\ "warning" \in Words
    BY <1>1
  <2>2. QED
    BY <1>2, <1>3, <2>1
<1>5. <<>> \in Seq(Words) /\ ToSet(<<>>) = {}
  BY NoPosition DEF ToSet
<1>6. PICK notice : notice = Block("stderr", there)
  OBVIOUS
<1>7. PICK warning : warning = Warning(status)
  OBVIOUS
<1>8. notice \in Seq(Words) /\ ToSet(notice) = IF there THEN {"stderr"} ELSE {}
  BY <1>4, <1>5, <1>6 DEF Block
<1>9. warning \in Seq(Words) /\ ToSet(warning) \subseteq {"warning"}
  BY <1>4, <1>5, <1>7 DEF Warning
<1>10. PICK start : start = stdout \o notice
  OBVIOUS
<1>11. start \in Seq(Words) /\ ToSet(start) = {"stdout"} \cup ToSet(notice)
  BY <1>4, <1>8, <1>10, ElementsOfBoth
<1>12. PICK blocks : blocks = start \o warning
  OBVIOUS
<1>13. ToSet(blocks) = {"stdout"} \cup ToSet(notice) \cup ToSet(warning)
  BY <1>9, <1>11, <1>12, ElementsOfBoth
<1>14. "stderr" \in ToSet(blocks) <=> there
  BY <1>8, <1>9, <1>13
<1>15. "stderr" \in ToSet(blocks) <=> \E i \in DOMAIN blocks : blocks[i] = "stderr"
  BY Zenon DEF ToSet
<1>16. there = (\E i \in DOMAIN blocks : blocks[i] = "stderr")
  BY <1>14, <1>15
<1>17. blocks = <<"stdout">> \o Block("stderr", there) \o Warning(status)
  BY <1>6, <1>7, <1>10, <1>12, <1>3
<1>18. QED
  BY <1>16, <1>17

\* The end of a command.
LEMMA EndKeeps ==
  ASSUME CommandInv, NEW how, End(how), UNCHANGED lookupVars, UNCHANGED searchVars,
         how = "usage" => (front = "mcp" /\ command \in PositionKinds /\ lookup = "off" => ToolRejects(given)),
         how = "ok" => Said
  PROVE  CommandInv'
<1>1. /\ outcome' = how
      /\ UNCHANGED <<front, command, todo, results, details, printed, noted, answered>>
      /\ \E status \in {"ready", "indexing", "error"} :
           result' = IF front = "mcp" THEN ToolResult(how, status) ELSE NoResult
  BY DEF End
<1>2. given' = given /\ lookup' = lookup
  BY DEF lookupVars
<1>3. search' = search /\ truncated' = truncated
  BY DEF searchVars
<1>4. LookupInv'
  BY LookupStands DEF CommandInv
<1>5. ArgumentsPassed'
  BY <1>1, <1>2 DEF CommandInv, ArgumentsPassed
<1>6. Counted' /\ (Said <=> Said')
  BY <1>1 DEF CommandInv, Counted, Said
<1>7. (command \in PositionKinds /\ lookup = "taken" => todo # <<>> \/ Said)'
  BY <1>1, <1>2, <1>6 DEF CommandInv
<1>8. OneSearch'
  BY <1>1, <1>3 DEF CommandInv, OneSearch
<1>9. NothingIsSwallowed'
  <2> SUFFICES ASSUME how = "ok"
               PROVE  /\ results' > 0 \/ printed' \/ noted'
                      /\ front' = "mcp" =>
                           /\ result'.error = (results' = 0)
                           /\ noted' = (\E i \in DOMAIN result'.blocks : result'.blocks[i] = "stderr")
    BY <1>1 DEF NothingIsSwallowed
  <2>1. results' > 0 \/ printed' \/ noted'
    BY <1>6 DEF Said
  <2>2. ASSUME front = "mcp"
        PROVE  /\ result'.error = (results' = 0)
               /\ noted' = (\E i \in DOMAIN result'.blocks : result'.blocks[i] = "stderr")
    <3>1. PICK status \in {"ready", "indexing", "error"} : result' = ToolResult("ok", status)
      BY <1>1, <2>2
    <3>2. PICK blocks : blocks = <<"stdout">> \o Block("stderr", noted) \o Warning(status)
      OBVIOUS
    <3>3. result' = [error |-> ~answered, blocks |-> blocks]
      BY <3>1, <3>2 DEF ToolResult
    <3>4. result'.error = ~answered /\ result'.blocks = blocks
      BY <3>3
    <3>5. noted \in BOOLEAN /\ answered \in BOOLEAN /\ results \in Nat /\ (answered <=> results > 0)
      BY DEF CommandInv, Counted
    <3>6. noted = (\E i \in DOMAIN blocks : blocks[i] = "stderr")
      BY <3>2, <3>5, ResultCarriesNotes
    <3>7. (~answered) = (results = 0)
      BY <3>5
    <3>8. result'.error = (results' = 0)
      BY <1>1, <3>4, <3>7
    <3>9. noted' = (\E i \in DOMAIN result'.blocks : result'.blocks[i] = "stderr")
      BY <1>1, <3>4, <3>6
    <3>10. QED
      BY <3>8, <3>9
  <2>3. QED
    BY <1>1, <2>1, <2>2
<1>10. QED
  BY <1>4, <1>5, <1>6, <1>7, <1>8, <1>9 DEF CommandInv

\* A step of a command under way which leaves its arguments, lookup and search alone.
LEMMA RunKeeps ==
  ASSUME CommandInv, Running, UNCHANGED <<front, command, outcome>>, UNCHANGED lookupVars, UNCHANGED searchVars,
         results' \in Nat, answered' \in BOOLEAN, noted' \in BOOLEAN, printed' \in BOOLEAN,
         answered' <=> results' > 0, search = "written" => results' = 1,
         command \in PositionKinds /\ lookup = "taken" => todo' # <<>> \/ Said'
  PROVE  CommandInv'
<1>1. given' = given /\ lookup' = lookup
  BY DEF lookupVars
<1>2. search' = search /\ truncated' = truncated
  BY DEF searchVars
<1>3. LookupInv'
  BY LookupStands DEF CommandInv
<1>4. ArgumentsPassed'
  BY <1>1 DEF CommandInv, ArgumentsPassed
<1>5. Counted'
  BY DEF Counted
<1>6. OneSearch'
  BY <1>2 DEF CommandInv, OneSearch
<1>7. NothingIsSwallowed'
  BY DEF Running, NothingIsSwallowed
<1>8. (command \in PositionKinds /\ lookup = "taken" => todo # <<>> \/ Said)'
  BY <1>1
<1>9. QED
  BY <1>3, <1>4, <1>5, <1>6, <1>7, <1>8 DEF CommandInv

\* A target has a result.
LEMMA AnsweredKeeps ==
  ASSUME CommandInv, Position, UNCHANGED <<front, command, outcome, printed>>,
         UNCHANGED lookupVars, UNCHANGED searchVars,
         results' = results + 1, answered' = TRUE, noted' \in BOOLEAN
  PROVE  CommandInv'
<1>1. results \in Nat /\ printed \in BOOLEAN
  BY DEF CommandInv, Counted
<1>2. results' \in Nat /\ results' > 0 /\ printed' \in BOOLEAN /\ answered' \in BOOLEAN
  BY <1>1
<1>3. Running /\ search # "written"
  BY DEF Position, PositionKinds, CommandInv, OneSearch
<1>4. Said'
  BY <1>2 DEF Said
<1>5. QED
  BY <1>2, <1>3, <1>4, RunKeeps

\* A search reports a cut or none, and is written once.
LEMMA SearchStepFacts ==
  ASSUME truncated \in BOOLEAN, BeginSearch \/ SearchNext
  PROVE  truncated' \in BOOLEAN /\ search # "written" /\ search' # "off"
<1>1. CASE BeginSearch
  BY <1>1 DEF BeginSearch
<1>2. CASE SplitQuery
  BY <1>2 DEF SplitQuery
<1>3. CASE SearchFails
  BY <1>3 DEF SearchFails
<1>4. CASE WriteSearch
  BY <1>4 DEF WriteSearch
<1>5. ASSUME NEW reply, SingleAnswered(reply) PROVE truncated' \in BOOLEAN /\ search # "written" /\ search' # "off"
  BY <1>5 DEF SingleAnswered, IsCut
<1>6. ASSUME NEW reply, SegmentAnswered(reply) PROVE truncated' \in BOOLEAN /\ search # "written" /\ search' # "off"
  <2>1. search = "searching" /\ truncated' = (truncated \/ IsCut(reply))
    BY <1>6 DEF SegmentAnswered
  <2>2. search' \in {"merged", "searching", "mixed"}
    BY <1>6, Zenon DEF SegmentAnswered
  <2>3. QED
    BY <2>1, <2>2
<1>7. QED
  BY <1>1, <1>2, <1>3, <1>4, <1>5, <1>6 DEF SearchNext

\* Each step of a command keeps CommandInv: those of a search ...
LEMMA SearchStepKeeps == CommandInv /\ SearchStep => CommandInv'
<1> SUFFICES ASSUME CommandInv, SearchStep PROVE CommandInv'
  OBVIOUS
<1>1. /\ Running /\ command = "search" /\ (BeginSearch \/ SearchNext) /\ UNCHANGED lookupVars
      /\ UNCHANGED <<front, command, outcome, result>>
      /\ search' # "written" => UNCHANGED commandVars
      /\ search' = "written" =>
           answered' = TRUE /\ results' = 1 /\ printed' = TRUE /\ noted' = truncated /\ UNCHANGED todo
  BY DEF SearchStep, commandVars
<1>2. truncated \in BOOLEAN
  BY DEF CommandInv, OneSearch
<1>3. truncated' \in BOOLEAN /\ search # "written"
  BY <1>1, <1>2, SearchStepFacts
<1>4. command' = "search" /\ command' \notin PositionKinds
  BY <1>1 DEF PositionKinds
<1>5. LookupInv'
  BY <1>1, LookupStands DEF CommandInv
<1>6. ArgumentsPassed'
  BY <1>4 DEF ArgumentsPassed
<1>7. Counted' /\ OneSearch'
  <2>1. CASE search' = "written"
    BY <1>1, <1>2, <1>3, <1>4, <2>1 DEF Counted, OneSearch
  <2>2. CASE search' # "written"
    BY <1>1, <1>3, <1>4, <2>2 DEF CommandInv, Counted, OneSearch, commandVars
  <2>3. QED
    BY <2>1, <2>2
<1>8. NothingIsSwallowed'
  BY <1>1 DEF Running, NothingIsSwallowed
<1>9. QED
  BY <1>4, <1>5, <1>6, <1>7, <1>8 DEF CommandInv

\* ... the look at document-symbols' file ...
LEMMA OutlineFileKeeps ==
  ASSUME CommandInv, NEW exists \in BOOLEAN, OutlineFile(exists)
  PROVE  CommandInv'
<1>1. /\ Running /\ command \notin PositionKinds /\ command # "search"
      /\ UNCHANGED <<front, command, outcome, printed>> /\ UNCHANGED lookupVars /\ UNCHANGED searchVars
      /\ answered' = exists /\ noted' = ~exists /\ results' = IF exists THEN 1 ELSE 0
  BY DEF OutlineFile, PositionKinds
<1>2. search # "written" /\ printed \in BOOLEAN
  BY <1>1 DEF CommandInv, OneSearch, Counted
<1>3. /\ results' \in Nat /\ answered' \in BOOLEAN /\ noted' \in BOOLEAN /\ printed' \in BOOLEAN
      /\ answered' <=> results' > 0
  BY <1>1, <1>2
<1>4. QED
  BY <1>1, <1>2, <1>3, RunKeeps

\* ... the checks of the arguments ...
LEMMA ParseKeeps == CommandInv /\ Parse => CommandInv'
<1> SUFFICES ASSUME CommandInv, Parse PROVE CommandInv'
  OBVIOUS
<1>1. Position /\ lookup = "off" /\ UNCHANGED searchVars /\ command \in PositionKinds /\ Running
  BY DEF Parse, Position
<1>2. given \in Given \cup {Nothing}
  BY DEF CommandInv, LookupInv, LookupTypes
<1>3. CASE Rejects(given)
  <2>1. End("usage") /\ UNCHANGED lookupVars
    BY <1>3 DEF Parse
  <2>2. front = "mcp" => ToolRejects(given)
    BY <1>3 DEF Rejects
  <2>3. QED
    BY <1>1, <2>1, <2>2, EndKeeps
<1>4. CASE ~Rejects(given)
  <2>1. BeginLookup /\ UNCHANGED commandVars
    BY <1>4 DEF Parse
  <2>2. lookup' = "classify" /\ given' = given
    BY <2>1 DEF BeginLookup
  <2>3. UNCHANGED <<front, command, outcome, todo, results, printed, noted, answered, result>>
    BY <2>1 DEF commandVars
  <2>4. search' = search /\ truncated' = truncated
    BY <1>1 DEF searchVars
  <2>5. LookupInv'
    BY <2>1, BeginKeepsLookup DEF CommandInv
  <2>6. ~ClapRejects(given) /\ (front = "mcp" => ~ToolRejects(given))
    BY <1>2, <1>4, ToolChecksSuffice DEF Rejects
  <2>7. ArgumentsPassed'
    BY <2>2, <2>3, <2>6 DEF ArgumentsPassed
  <2>8. Counted' /\ OneSearch' /\ NothingIsSwallowed'
    BY <1>1, <2>3, <2>4 DEF CommandInv, Counted, OneSearch, NothingIsSwallowed, Running
  <2>9. QED
    BY <2>2, <2>5, <2>7, <2>8 DEF CommandInv
<1>5. QED
  BY <1>3, <1>4

\* ... the lookup's steps ...
LEMMA LookupStepKeepsCommand == CommandInv /\ LookupStep => CommandInv'
<1> SUFFICES ASSUME CommandInv, LookupStep PROVE CommandInv'
  OBVIOUS
<1>1. /\ Running /\ command \in PositionKinds /\ LookupNext
      /\ UNCHANGED <<front, command, outcome, todo, results, printed, noted, answered, result>>
      /\ search' = search /\ truncated' = truncated
  BY DEF LookupStep, Position, commandVars, searchVars
<1>2. /\ given' = given /\ lookup \notin {"off", "taken"} /\ lookup' \notin {"off", "taken"}
      /\ lookup' = "rejected" => ClassifyRejects(given)
  BY <1>1, LookupStepFacts
<1>3. LookupInv'
  BY <1>1, LookupStepKeeps DEF CommandInv
<1>4. given \in Given \cup {Nothing}
  BY DEF CommandInv, LookupInv, LookupTypes
<1>5. ~ClapRejects(given) /\ (front = "mcp" => ~ToolRejects(given))
  BY <1>1, <1>2 DEF CommandInv, ArgumentsPassed
<1>6. front = "mcp" => ~ClassifyRejects(given)
  BY <1>4, <1>5, ToolChecksSuffice
<1>7. ArgumentsPassed'
  BY <1>1, <1>2, <1>5, <1>6 DEF ArgumentsPassed
<1>8. Counted' /\ OneSearch' /\ NothingIsSwallowed'
  BY <1>1 DEF CommandInv, Counted, OneSearch, NothingIsSwallowed, Running
<1>9. QED
  BY <1>2, <1>3, <1>7, <1>8 DEF CommandInv

\* ... and taking over what the lookup has found.
LEMMA TakeTargetsKeeps == CommandInv /\ TakeTargets => CommandInv'
<1> SUFFICES ASSUME CommandInv, TakeTargets PROVE CommandInv'
  OBVIOUS
<1>1. /\ Running /\ command \in PositionKinds /\ Give /\ todo' = targets /\ noted' = (notes # <<>>)
      /\ UNCHANGED <<front, command, outcome, results, printed, answered, result>>
      /\ search' = search /\ truncated' = truncated
  BY DEF TakeTargets, Position, searchVars
<1>2. lookup = "found" /\ lookup' = "taken"
  BY <1>1 DEF Give
<1>3. LookupInv'
  BY <1>1, GiveKeepsLookup DEF CommandInv
<1>4. given \in Given \cup {Nothing} /\ ~ClapRejects(given)
  BY <1>1, <1>2 DEF CommandInv, ArgumentsPassed, LookupInv, LookupTypes
<1>5. SpecsOf(given) # <<>>
  <2>1. PICK a : a = given
    OBVIOUS
  <2>2. SpecsOf(a) # <<>>
    BY <1>4, <2>1, PassedArguments
  <2>3. QED
    BY <2>1, <2>2
<1>6. targets # <<>> \/ notes # <<>>
  BY <1>2, <1>5, SomethingFound DEF CommandInv
<1>7. todo' # <<>> \/ Said'
  BY <1>1, <1>6 DEF Said
<1>8. ArgumentsPassed'
  BY <1>2 DEF ArgumentsPassed
<1>9. Counted' /\ OneSearch' /\ NothingIsSwallowed'
  BY <1>1 DEF CommandInv, Counted, OneSearch, NothingIsSwallowed, Running
<1>10. QED
  BY <1>3, <1>7, <1>8, <1>9 DEF CommandInv

\* The steps that run the targets.
LEMMA TargetStepKeeps ==
  ASSUME CommandInv,
         \/ AnswerReferences \/ RenameRefused
         \/ \E answer \in WorkspaceEdits : AnswerRename(answer)
         \/ \E calls \in 0..MaxDetails : AnswerDefinition(calls)
         \/ \E fails \in BOOLEAN : AnswerDetail(fails)
         \/ TargetFails \/ WalkStep
         \/ \E hasNotes \in BOOLEAN : WalkEnds(hasNotes)
         \/ NoItemThere
  PROVE  CommandInv'
<1>1. results \in Nat /\ answered \in BOOLEAN /\ noted \in BOOLEAN /\ printed \in BOOLEAN /\ (answered <=> results > 0)
  BY DEF CommandInv, Counted
<1>2. Position => Running /\ search # "written"
  BY DEF Position, PositionKinds, CommandInv, OneSearch
<1>3. command \in PositionKinds /\ lookup = "taken" => todo # <<>> \/ Said
  BY DEF CommandInv
<1>4. HasTarget => Position /\ lookup = "taken"
  BY DEF HasTarget, Ready
<1>5. CASE AnswerReferences
  <2>1. /\ Position /\ UNCHANGED <<front, command, outcome, printed, noted>> /\ UNCHANGED lookupVars
        /\ UNCHANGED searchVars /\ results' = results + 1 /\ answered' = TRUE
    BY <1>4, <1>5 DEF AnswerReferences, Answer
  <2>2. QED
    BY <1>1, <2>1, AnsweredKeeps
<1>6. CASE RenameRefused
  <2>1. lookup = "taken" /\ UNCHANGED lookupVars /\ UNCHANGED searchVars
    BY <1>6 DEF RenameRefused, Ready
  <2>2. PICK how \in {"failed", "usage"} : End(how)
    BY <1>6 DEF RenameRefused
  <2>3. QED
    BY <2>1, <2>2, EndKeeps
<1>7. ASSUME NEW answer \in WorkspaceEdits, AnswerRename(answer) PROVE CommandInv'
  <2>1. Position /\ lookup = "taken" /\ UNCHANGED lookupVars /\ UNCHANGED searchVars
    BY <1>4, <1>7 DEF AnswerRename
  <2>2. CASE HasFileOperation(answer)
    <3>1. End("failed")
      BY <1>7, <2>2 DEF AnswerRename
    <3>2. QED
      BY <2>1, <3>1, EndKeeps
  <2>3. CASE ~HasFileOperation(answer)
    <3>1. UNCHANGED <<front, command, outcome, printed, noted>> /\ results' = results + 1 /\ answered' = TRUE
      BY <1>7, <2>3 DEF AnswerRename, Answer
    <3>2. QED
      BY <1>1, <2>1, <3>1, AnsweredKeeps
  <2>4. QED
    BY <2>2, <2>3
<1>8. ASSUME NEW calls, AnswerDefinition(calls) PROVE CommandInv'
  <2>1. /\ Position /\ UNCHANGED <<front, command, outcome, printed, noted>> /\ UNCHANGED lookupVars
        /\ UNCHANGED searchVars /\ results' = results + 1 /\ answered' = TRUE
    BY <1>4, <1>8 DEF AnswerDefinition, Answer
  <2>2. QED
    BY <1>1, <2>1, AnsweredKeeps
<1>9. ASSUME NEW fails \in BOOLEAN, AnswerDetail(fails) PROVE CommandInv'
  <2>1. /\ Running /\ noted' = (noted \/ fails)
        /\ UNCHANGED <<front, command, outcome, todo, results, printed, answered, result>>
        /\ UNCHANGED lookupVars /\ UNCHANGED searchVars
    BY <1>9 DEF AnswerDetail
  <2>2. Said => Said'
    BY <2>1 DEF Said
  <2>3. search = "written" => results' = 1
    BY <2>1 DEF CommandInv, OneSearch
  <2>4. /\ results' \in Nat /\ answered' \in BOOLEAN /\ noted' \in BOOLEAN /\ printed' \in BOOLEAN
        /\ answered' <=> results' > 0
        /\ command \in PositionKinds /\ lookup = "taken" => todo' # <<>> \/ Said'
    BY <1>1, <1>3, <2>1, <2>2
  <2>5. QED
    BY <2>1, <2>3, <2>4, RunKeeps
<1>10. CASE TargetFails
  <2>1. End("failed") /\ UNCHANGED lookupVars /\ UNCHANGED searchVars
    BY <1>10 DEF TargetFails
  <2>2. QED
    BY <2>1, EndKeeps
<1>11. CASE WalkStep
  <2>1. /\ Position /\ UNCHANGED lookupVars /\ UNCHANGED searchVars
        /\ UNCHANGED <<front, command, outcome, todo, results, printed, noted, answered, result>>
    BY <1>4, <1>11 DEF WalkStep, commandVars
  <2>2. Said => Said'
    BY <2>1 DEF Said
  <2>3. /\ results' \in Nat /\ answered' \in BOOLEAN /\ noted' \in BOOLEAN /\ printed' \in BOOLEAN
        /\ answered' <=> results' > 0
        /\ command \in PositionKinds /\ lookup = "taken" => todo' # <<>> \/ Said'
    BY <1>1, <1>3, <2>1, <2>2
  <2>4. QED
    BY <1>2, <2>1, <2>3, RunKeeps
<1>12. ASSUME NEW hasNotes \in BOOLEAN, WalkEnds(hasNotes) PROVE CommandInv'
  <2>1. /\ Position /\ UNCHANGED <<front, command, outcome, printed>> /\ UNCHANGED lookupVars
        /\ UNCHANGED searchVars /\ results' = results + 1 /\ answered' = TRUE
        /\ noted' = (noted \/ hasNotes)
    BY <1>4, <1>12 DEF WalkEnds
  <2>2. QED
    BY <1>1, <2>1, AnsweredKeeps
<1>13. CASE NoItemThere
  <2>1. /\ Position /\ UNCHANGED <<front, command, outcome, results, answered>> /\ UNCHANGED lookupVars
        /\ UNCHANGED searchVars
        /\ (printed' = TRUE /\ noted' = noted) \/ (noted' = TRUE /\ printed' = printed)
    BY <1>4, <1>13 DEF NoItemThere
  <2>2. Said'
    BY <2>1 DEF Said
  <2>3. /\ results' \in Nat /\ answered' \in BOOLEAN /\ noted' \in BOOLEAN /\ printed' \in BOOLEAN
        /\ answered' <=> results' > 0
    BY <1>1, <2>1
  <2>4. QED
    BY <1>2, <2>1, <2>2, <2>3, RunKeeps
<1>14. QED
  BY <1>5, <1>6, <1>7, <1>8, <1>9, <1>10, <1>11, <1>12, <1>13

\* The steps that end a command.
LEMMA EndingKeeps ==
  ASSUME CommandInv, SearchEnds \/ OutlineFails \/ LookupEnds \/ Finish
  PROVE  CommandInv'
<1>1. CASE SearchEnds \/ OutlineFails
  <2>1. End("failed") /\ UNCHANGED lookupVars /\ UNCHANGED searchVars
    BY <1>1 DEF SearchEnds, OutlineFails
  <2>2. QED
    BY <2>1, EndKeeps
<1>2. CASE LookupEnds
  <2>1. lookup \in {"rejected", "failed"} /\ UNCHANGED lookupVars /\ UNCHANGED searchVars
    BY <1>2 DEF LookupEnds
  <2>2. PICK how \in {"usage", "failed"} : End(how)
    BY <1>2 DEF LookupEnds
  <2>3. QED
    BY <2>1, <2>2, EndKeeps
<1>3. CASE Finish
  <2>1. End("ok") /\ UNCHANGED lookupVars /\ UNCHANGED searchVars /\ Complete
    BY <1>3 DEF Finish
  <2>2. Said
    <3>1. CASE Ready /\ todo = <<>>
      BY <3>1 DEF Ready, Position, CommandInv
    <3>2. CASE search = "written"
      BY <3>2 DEF CommandInv, OneSearch, Said
    <3>3. CASE answered \/ noted
      BY <3>3 DEF CommandInv, Counted, Said
    <3>4. QED
      BY <2>1, <3>1, <3>2, <3>3 DEF Complete
  <2>3. QED
    BY <2>1, <2>2, EndKeeps
<1>4. QED
  BY <1>1, <1>2, <1>3

\* Stuttering changes nothing.
LEMMA CommandStands == CommandInv /\ UNCHANGED vars => CommandInv'
<1> SUFFICES ASSUME CommandInv, UNCHANGED vars PROVE CommandInv'
  OBVIOUS
<1>1. /\ UNCHANGED <<front, command, outcome, todo, results, printed, noted, answered, result>>
      /\ UNCHANGED lookupVars /\ given' = given /\ lookup' = lookup
      /\ search' = search /\ truncated' = truncated
  BY DEF vars, commandVars, lookupVars, searchVars
<1>2. LookupInv'
  BY <1>1, LookupStands DEF CommandInv
<1>3. ArgumentsPassed' /\ Counted' /\ OneSearch' /\ (Said => Said')
  BY <1>1 DEF CommandInv, ArgumentsPassed, Counted, OneSearch, Said
<1>4. NothingIsSwallowed'
  BY <1>1 DEF CommandInv, NothingIsSwallowed
<1>5. QED
  BY <1>1, <1>2, <1>3, <1>4 DEF CommandInv

\* The invariant of a command, at each step and at the start.
LEMMA StepCommand == CommandInv /\ [Next]_vars => CommandInv'
<1> SUFFICES ASSUME CommandInv, [Next]_vars PROVE CommandInv'
  OBVIOUS
<1>1. CASE SearchStep \/ SearchEnds
  BY <1>1, SearchStepKeeps, EndingKeeps
<1>2. CASE (\E exists \in BOOLEAN : OutlineFile(exists)) \/ OutlineFails
  BY <1>2, OutlineFileKeeps, EndingKeeps
<1>3. CASE Parse \/ LookupStep \/ TakeTargets \/ LookupEnds
  BY <1>3, ParseKeeps, LookupStepKeepsCommand, TakeTargetsKeeps, EndingKeeps
<1>4. CASE \/ AnswerReferences \/ RenameRefused
           \/ \E answer \in WorkspaceEdits : AnswerRename(answer)
           \/ \E calls \in 0..MaxDetails : AnswerDefinition(calls)
           \/ \E fails \in BOOLEAN : AnswerDetail(fails)
           \/ TargetFails \/ WalkStep
           \/ \E hasNotes \in BOOLEAN : WalkEnds(hasNotes)
           \/ NoItemThere
  BY <1>4, TargetStepKeeps
<1>5. CASE Finish
  BY <1>5, EndingKeeps
<1>6. CASE Over \/ UNCHANGED vars
  BY <1>6, CommandStands DEF Over
<1>7. QED
  BY <1>1, <1>2, <1>3, <1>4, <1>5, <1>6, Zenon DEF Next

LEMMA InitCommand == Init => CommandInv
<1> SUFFICES ASSUME Init PROVE CommandInv
  OBVIOUS
<1>1. /\ outcome = "running" /\ results = 0 /\ printed = FALSE /\ noted = FALSE /\ answered = FALSE
      /\ lookup = "off" /\ search = "off" /\ truncated = FALSE
  BY DEF Init, LookupInit, SearchInit
<1>2. LookupInv
  BY InitLookup
<1>3. ArgumentsPassed /\ Counted /\ OneSearch /\ NothingIsSwallowed
  <2>1. ArgumentsPassed /\ OneSearch /\ NothingIsSwallowed
    BY <1>1 DEF ArgumentsPassed, OneSearch, NothingIsSwallowed
  <2>2. Counted
    <3>1. results \in Nat /\ ~(results > 0)
      BY <1>1
    <3>2. answered \in BOOLEAN /\ noted \in BOOLEAN /\ printed \in BOOLEAN /\ ~answered
      BY <1>1
    <3>3. QED
      BY <3>1, <3>2, Zenon DEF Counted
  <2>3. QED
    BY <2>1, <2>2
<1>4. QED
  BY <1>1, <1>2, <1>3 DEF CommandInv

\* A tool takes what its command line takes.
LEMMA InvIsToolTakes == CommandInv => ToolTakesWhatCommandTakes
<1> SUFFICES ASSUME CommandInv, front = "mcp", command \in PositionKinds
             PROVE  /\ lookup \notin {"off", "taken"} =>
                         /\ ~ClapRejects(given) /\ lookup # "rejected"
                         /\ \A i \in DOMAIN specs : specs[i].kind = "position" => specs[i].line \in Nat /\ specs[i].character \in Nat
                    /\ lookup = "off" /\ outcome = "usage" => ClapRejects(given) \/ ClassifyRejects(given)
  BY DEF ToolTakesWhatCommandTakes
<1>1. PICK a : a = given
  OBVIOUS
<1>2. a \in Given \cup {Nothing} /\ specs \in {<<>>, SpecsOf(a)} /\ (lookup \notin Idle => ~ClassifyRejects(a))
  BY <1>1 DEF CommandInv, LookupInv, LookupTypes, Stages
<1>3. lookup # "rejected" /\ (lookup = "off" /\ outcome = "usage" => ToolRejects(a))
  BY <1>1 DEF CommandInv, ArgumentsPassed
<1>4. ASSUME lookup \notin {"off", "taken"}
      PROVE  /\ ~ClapRejects(a)
             /\ \A i \in DOMAIN specs : specs[i].kind = "position" => specs[i].line \in Nat /\ specs[i].character \in Nat
  <2>1. ~ClapRejects(a) /\ ~ToolRejects(a)
    BY <1>1, <1>4 DEF CommandInv, ArgumentsPassed
  <2>2. HasPosition(a) => a.line - 1 \in Nat /\ a.character - 1 \in Nat
    BY <1>2, <2>1, PassedArguments
  <2>3. \A i \in DOMAIN a.names : a.names[i].kind # "position"
    BY <1>2, GivenFields
  <2>4. PICK list : list = specs
    OBVIOUS
  <2>5. ASSUME NEW i \in DOMAIN list, list[i].kind = "position"
        PROVE  list[i].line \in Nat /\ list[i].character \in Nat
    <3>1. list # <<>>
      BY <2>5, NoPosition
    <3>2. list = SpecsOf(a)
      BY <1>2, <2>4, <3>1
    <3>3. /\ HasPosition(a)
          /\ list[i] = [kind |-> "position", line |-> a.line - 1, character |-> a.character - 1]
      BY <1>2, <2>3, <2>5, <3>2, ClassifiedSpecs
    <3>4. QED
      BY <2>2, <3>3
  <2>6. QED
    BY <2>1, <2>4, <2>5
<1>5. ToolRejects(a) => ClapRejects(a) \/ ClassifyRejects(a)
  BY <1>2, ToolChecksSuffice
<1>6. QED
  BY <1>1, <1>3, <1>4, <1>5

\* A tool of `racli mcp` takes the arguments its command line takes, and no command, run
\* either way, ends without saying what became of what it was given (ADR 006), for all
\* arguments and answers.
THEOREM ToolDoesWhatItsCommandDoes == Spec => []ToolIsItsCommand
<1>1. Init => CommandInv
  BY InitCommand
<1>2. CommandInv /\ [Next]_vars => CommandInv'
  BY StepCommand
<1>3. CommandInv => ToolIsItsCommand
  BY InvIsToolTakes DEF CommandInv, ToolIsItsCommand
<1>4. QED
  BY <1>1, <1>2, <1>3, PTL DEF Spec

------------------------------------------------------------------------------
\* Call hierarchy.

\* What a walk is like before it starts on a side.
NoSide ==
  /\ asking = NotAsking
  /\ stack = <<>>
  /\ visited = {}
  /\ asked = <<>>
  /\ first = [i \in Items |-> 0]

\* An item that was met is followed, unless it was met first at the depth limit.
MetIsFollowed(i) ==
  \/ i \in Asked
  \/ i # root /\ first[i] = depth /\ depth # 0
  \/ i = root /\ depth = 0

\* The call that is awaited is for an item met and not yet asked for, with a level left.
AskingInv ==
  asking.item # NoItem =>
    /\ asking.item \in visited
    /\ asking.item \notin ToSet(asked)
    /\ asking.remaining \in 1..depth

FramesInv == \A k \in DOMAIN stack : stack[k].remaining \in 1..depth

WalkingInv ==
  walk = "walking" =>
    /\ root \in visited /\ first[root] = 0
    /\ ToSet(asked) \subseteq visited
    /\ \A i \in visited : MetIsFollowed(i)
    /\ \A i \in Items : first[i] # 0 => i \in visited

IdleInv == walk \in {"off", "preparing", "no item"} => NoSide

WalkInv ==
  /\ WalkTypeOK
  /\ IdleInv
  /\ asking.item = NoItem => asking = NotAsking
  /\ IsInjective(asked)
  /\ AskingInv
  /\ FramesInv
  /\ WalkingInv

\* What the messages of the walk's types are made of.
LEMMA WalkTypes ==
  ASSUME WalkTypeOK
  PROVE  /\ asking.item \in Items \cup {NoItem} /\ asking.remaining \in 0..MaxDepth
         /\ stack \in Seq(Frames) /\ asked \in Seq(Items) /\ visited \subseteq Items
         /\ depth \in 0..MaxDepth /\ MaxDepth \in Nat /\ NoItem \notin Items
         /\ Len(direction) \in Nat /\ DOMAIN direction = 1..Len(direction)
<1>1. direction \in Seq({"incoming", "outgoing"})
  <2>1. \A s \in Directions : s \in Seq({"incoming", "outgoing"})
    <3>1. <<"incoming">> \in Seq({"incoming", "outgoing"})
      OBVIOUS
    <3>2. <<"outgoing">> \in Seq({"incoming", "outgoing"})
      OBVIOUS
    <3>3. <<"incoming", "outgoing">> \in Seq({"incoming", "outgoing"})
      OBVIOUS
    <3>4. QED
      BY <3>1, <3>2, <3>3, Zenon DEF Directions
  <2>2. QED
    BY <2>1 DEF WalkTypeOK
<1>2. Len(direction) \in Nat /\ DOMAIN direction = 1..Len(direction)
  BY <1>1, LenProperties
<1>3. QED
  BY <1>2, WalkAssumption DEF WalkTypeOK

\* Nothing has been asked for yet.
LEMMA NothingAsked ==
  /\ ToSet(<<>>) = {}
  /\ IsInjective(<<>>)
  /\ NotAsking.item = NoItem
  /\ NotAsking \in [item : Items \cup {NoItem}, remaining : 0..MaxDepth]
  BY WalkAssumption DEF NotAsking, ToSet, IsInjective

\* Asking for one more item adds it to those asked for.
LEMMA AskedGrows ==
  ASSUME NEW S, NEW s \in Seq(S), NEW x \in S
  PROVE  /\ ToSet(Append(s, x)) = ToSet(s) \cup {x}
         /\ x \notin ToSet(s) /\ IsInjective(s) => IsInjective(Append(s, x))
<1>1. /\ Append(s, x) \in Seq(S) /\ Len(Append(s, x)) = Len(s) + 1
      /\ \A i \in 1..Len(s) : Append(s, x)[i] = s[i]
      /\ Append(s, x)[Len(s) + 1] = x
      /\ Len(s) \in Nat
  BY AppendProperties
<1>2. DOMAIN s = 1..Len(s) /\ DOMAIN Append(s, x) = 1..(Len(s) + 1)
  BY <1>1
<1>3. ToSet(Append(s, x)) = ToSet(s) \cup {x}
  BY <1>1, <1>2 DEF ToSet
<1>4. x \notin ToSet(s) /\ IsInjective(s) => IsInjective(Append(s, x))
  BY <1>1, <1>2 DEF ToSet, IsInjective
<1>5. QED
  BY <1>3, <1>4

\* Starting a side makes what a walk in progress must be.
LEMMA SideStarts ==
  ASSUME WalkTypeOK, NEW item \in Items, StartSide(item), walk' = "walking", root' = item,
         direction' = direction, depth' = depth, side' \in DOMAIN direction
  PROVE  WalkInv'
<1>1. MaxDepth \in Nat /\ NoItem \notin Items /\ depth \in 0..MaxDepth
  BY WalkTypes
<1>2. /\ visited' = {item} /\ asked' = <<>> /\ stack' = <<>>
      /\ first' = [i \in Items |-> 0] /\ shallow' = [i \in Items |-> 0]
  BY DEF StartSide
<1>3. /\ depth = 0 => asking' = NotAsking
      /\ depth # 0 => asking'.item = item /\ asking'.remaining = depth
                      /\ asking' \in [item : Items \cup {NoItem}, remaining : 0..MaxDepth]
  BY <1>1 DEF StartSide
<1>4. visited' \subseteq Items /\ asked' \in Seq(Items) /\ stack' \in Seq(Frames)
      /\ first' \in [Items -> 0..MaxDepth] /\ shallow' \in [Items -> 0..MaxDepth]
      /\ asking' \in [item : Items \cup {NoItem}, remaining : 0..MaxDepth]
  BY <1>1, <1>2, <1>3, NothingAsked
<1>5. direction' \in Directions /\ side' \in DOMAIN direction'
  BY DEF WalkTypeOK
<1>6. WalkTypeOK'
  BY <1>1, <1>4, <1>5 DEF WalkTypeOK
<1>7. IdleInv' /\ (asking.item = NoItem => asking = NotAsking)' /\ AskingInv' /\ FramesInv' /\ IsInjective(asked)'
  BY <1>1, <1>2, <1>3, NothingAsked DEF IdleInv, AskingInv, FramesInv
<1>8. MetIsFollowed(item)'
  BY <1>2, <1>3 DEF MetIsFollowed, Asked
<1>9. WalkingInv'
  BY <1>2, <1>8, NothingAsked DEF WalkingInv
<1>10. QED
  BY <1>6, <1>7, <1>9 DEF WalkInv

\* An idle walk has nothing that the invariant restricts.
LEMMA IdleWalk ==
  ASSUME WalkTypeOK', IdleInv', walk' \in {"off", "preparing", "no item"}
  PROVE  WalkInv'
<1>1. /\ (asking = NotAsking)' /\ (stack = <<>>)' /\ (asked = <<>>)' /\ (visited = {})'
  BY DEF IdleInv, NoSide
<1>2. (asking.item = NoItem)' /\ (asking = NotAsking)'
  BY <1>1, NothingAsked DEF NotAsking
<1>3. IsInjective(asked)' /\ FramesInv'
  <2>1. IsInjective(asked)'
    BY <1>1, NothingAsked, Zenon
  <2>2. stack' = <<>>
    BY <1>1
  <2>3. \A k \in DOMAIN stack' : FALSE
    BY <2>2, NoPosition, Zenon
  <2>4. FramesInv'
    BY <2>3, Zenon DEF FramesInv
  <2>5. QED
    BY <2>1, <2>4
<1>4. AskingInv' /\ WalkingInv'
  BY <1>2 DEF AskingInv, WalkingInv
<1>5. QED
  BY <1>2, <1>3, <1>4 DEF WalkInv

\* The walk's invariant holds before a walk.
LEMMA InitWalk == Init => WalkInv
<1> SUFFICES ASSUME Init PROVE WalkInv
  OBVIOUS
<1>1. \E depths \in SUBSET (0..MaxDepth), directions \in SUBSET Directions : WalkInit(depths, directions)
  BY WalkAssumption DEF Init, Directions
<1>2. /\ walk = "off" /\ depth \in 0..MaxDepth /\ direction \in Directions /\ side = 1
      /\ root = NoItem /\ asking = NotAsking /\ stack = <<>> /\ visited = {} /\ asked = <<>>
      /\ first = [i \in Items |-> 0] /\ shallow = [i \in Items |-> 0]
  BY <1>1 DEF WalkInit
<1>3. MaxDepth \in Nat /\ side \in DOMAIN direction
  BY <1>2, WalkAssumption DEF Directions
<1>4. WalkTypeOK
  BY <1>2, <1>3, NothingAsked DEF WalkTypeOK
<1>5. QED
  BY <1>2, <1>4, NothingAsked DEF WalkInv, IdleInv, NoSide, AskingInv, FramesInv, WalkingInv

\* prepareCallHierarchy starts the first side.
LEMMA PreparedKeepsWalk ==
  ASSUME WalkInv, NEW item \in Items \cup {NoItem}, Prepared(item)
  PROVE  WalkInv'
<1>1. CASE item = NoItem
  <2>1. WalkTypeOK' /\ IdleInv' /\ walk' = "no item"
    BY <1>1 DEF Prepared, WalkInv, WalkTypeOK, IdleInv, NoSide, sideVars
  <2>2. QED
    BY <2>1, IdleWalk
<1>2. CASE item # NoItem
  <2>1. WalkTypeOK /\ StartSide(item) /\ walk' = "walking" /\ root' = item
        /\ direction' = direction /\ depth' = depth /\ side' \in DOMAIN direction
    BY <1>2 DEF Prepared, WalkInv, WalkTypeOK
  <2>2. QED
    BY <1>2, <2>1, SideStarts
<1>3. QED
  BY <1>1, <1>2

\* An answer opens a level below the item that was asked for.
LEMMA CallsAnsweredKeepsWalk ==
  ASSUME WalkInv, NEW steps \in Answers, CallsAnswered(steps)
  PROVE  WalkInv'
<1>1. /\ asking.item \in Items /\ asking.item \notin ToSet(asked) /\ asking.item \in visited
      /\ asking.remaining \in 1..depth /\ asking.remaining \in 1..MaxDepth
  BY WalkTypes DEF CallsAnswered, WalkInv, AskingInv
<1>2. /\ asked' = Append(asked, asking.item) /\ asking' = NotAsking
      /\ stack' = Append(stack, [steps |-> steps, remaining |-> asking.remaining])
      /\ walk = "walking"
      /\ UNCHANGED <<walk, depth, direction, side, root, visited, first, shallow>>
  BY DEF CallsAnswered
<1>3. [steps |-> steps, remaining |-> asking.remaining] \in Frames
  BY <1>1, WalkAssumption DEF Frames
<1>4. asked' \in Seq(Items) /\ ToSet(asked') = ToSet(asked) \cup {asking.item} /\ IsInjective(asked')
  BY <1>1, <1>2, AskedGrows, WalkTypes DEF WalkInv
<1>5. stack' \in Seq(Frames) /\ Len(stack') = Len(stack) + 1
      /\ (\A k \in 1..Len(stack) : stack'[k] = stack[k])
      /\ stack'[Len(stack) + 1] = [steps |-> steps, remaining |-> asking.remaining]
      /\ Len(stack) \in Nat
  BY <1>2, <1>3, AppendProperties, WalkTypes DEF WalkInv
<1>6. WalkTypeOK'
  <2>1. asking' \in [item : Items \cup {NoItem}, remaining : 0..MaxDepth]
    BY <1>2, NothingAsked
  <2>2. QED
    BY <1>2, <1>4, <1>5, <2>1 DEF WalkInv, WalkTypeOK
<1>7. IdleInv' /\ (asking.item = NoItem => asking = NotAsking)' /\ AskingInv'
  BY <1>2, NothingAsked DEF IdleInv, AskingInv
<1>8. FramesInv'
  <2>1. DOMAIN stack' = 1..(Len(stack) + 1) /\ DOMAIN stack = 1..Len(stack)
    BY <1>5, WalkTypes DEF WalkInv
  <2>2. ASSUME NEW k \in DOMAIN stack' PROVE stack'[k].remaining \in 1..depth
    <3>1. CASE k \in 1..Len(stack)
      BY <1>5, <2>1, <3>1 DEF WalkInv, FramesInv
    <3>2. CASE k = Len(stack) + 1
      BY <1>1, <1>5, <3>2
    <3>3. QED
      BY <2>1, <3>1, <3>2, <1>5
  <2>3. QED
    BY <1>2, <2>2 DEF FramesInv
<1>9. WalkingInv'
  <2>1. Asked \subseteq Asked'
    BY <1>1, <1>2, <1>4 DEF Asked
  <2>2. \A i \in visited : MetIsFollowed(i)'
    BY <1>2, <2>1 DEF WalkInv, WalkingInv, MetIsFollowed
  <2>3. ToSet(asked') \subseteq visited'
    BY <1>1, <1>2, <1>4 DEF WalkInv, WalkingInv
  <2>4. QED
    BY <1>2, <2>2, <2>3 DEF WalkInv, WalkingInv
<1>10. QED
  BY <1>4, <1>6, <1>7, <1>8, <1>9 DEF WalkInv

\* The frame of the innermost walk.
LEMMA TopFrame ==
  ASSUME WalkInv, stack # <<>>
  PROVE  /\ Len(stack) \in Nat \ {0} /\ DOMAIN stack = 1..Len(stack)
         /\ Top = stack[Len(stack)] /\ Top \in Frames
         /\ Top.steps \in Seq(Items) /\ Top.remaining \in 1..depth
<1>1. stack \in Seq(Frames)
  BY DEF WalkInv, WalkTypeOK
<1>2. Len(stack) \in Nat \ {0} /\ DOMAIN stack = 1..Len(stack)
  BY <1>1, EmptySeq, LenProperties
<1>3. Top = stack[Len(stack)] /\ Top \in Frames
  BY <1>1, <1>2, ElementOfSeq DEF Top, Last
<1>4. Top.remaining \in 1..depth
  BY <1>2, <1>3 DEF WalkInv, FramesInv
<1>5. QED
  BY <1>2, <1>3, <1>4 DEF Frames

\* A step of the innermost walk: it is met, and expanded if it is new and a level remains.
LEMMA VisitKeepsWalk ==
  ASSUME WalkInv, Visit
  PROVE  WalkInv'
<1>1. PICK item, level : item = Head(Top.steps) /\ level = Level(Top.remaining)
  OBVIOUS
<1>2. /\ walk = "walking" /\ asking = NotAsking /\ stack # <<>> /\ Top.steps # <<>>
      /\ visited' = visited \cup {item}
      /\ Meet(item)
      /\ asking' = IF item \notin visited /\ Top.remaining > 1
                     THEN [item |-> item, remaining |-> Top.remaining - 1] ELSE NotAsking
      /\ stack' = [stack EXCEPT ![Len(stack)].steps = Tail(@)]
      /\ UNCHANGED <<walk, depth, direction, side, root, asked>>
  BY <1>1 DEF Visit
<1>3. /\ Len(stack) \in Nat \ {0} /\ DOMAIN stack = 1..Len(stack) /\ Top = stack[Len(stack)]
      /\ Top \in Frames /\ Top.steps \in Seq(Items) /\ Top.remaining \in 1..depth
  BY <1>2, TopFrame
<1>4. item \in Items /\ Tail(Top.steps) \in Seq(Items)
  BY <1>1, <1>2, <1>3, HeadTailProperties
<1>5. /\ MaxDepth \in Nat /\ NoItem \notin Items /\ depth \in 0..MaxDepth
      /\ stack \in Seq(Frames) /\ asked \in Seq(Items) /\ visited \subseteq Items
  BY WalkTypes DEF WalkInv
<1>6. level \in 1..MaxDepth /\ (Top.remaining = 1 <=> level = depth)
  <2>1. level = depth - Top.remaining + 1
    BY <1>1 DEF Level
  <2>2. Top.remaining \in 1..depth /\ depth \in 0..MaxDepth /\ MaxDepth \in Nat
    BY <1>3, <1>5
  <2>3. QED
    BY <2>1, <2>2
<1>7. /\ first' = [first EXCEPT ![item] = IF @ # 0 \/ item = root THEN @ ELSE level]
      /\ shallow' = [shallow EXCEPT ![item] = IF @ = 0 \/ level < @ THEN level ELSE @]
  BY <1>1, <1>2 DEF Meet
<1>8. /\ stack' \in Seq(Frames) /\ Len(stack') = Len(stack)
      /\ \A k \in DOMAIN stack : stack'[k].remaining = stack[k].remaining
  <2>1. \A k \in DOMAIN stack : stack[k] \in Frames
    BY <1>3, <1>5, ElementOfSeq
  <2>2. [Top EXCEPT !.steps = Tail(@)] \in Frames /\ [Top EXCEPT !.steps = Tail(@)].remaining = Top.remaining
    BY <1>3, <1>4 DEF Frames
  <2>3. stack' = [stack EXCEPT ![Len(stack)] = [Top EXCEPT !.steps = Tail(@)]]
    BY <1>2, <1>3
  <2>4. QED
    BY <1>3, <1>5, <2>1, <2>2, <2>3, ExceptSeq
<1>9. DOMAIN stack' = DOMAIN stack
  BY <1>3, <1>8, LenProperties
<1>10. /\ asking' \in [item : Items \cup {NoItem}, remaining : 0..MaxDepth]
       /\ item \notin visited /\ Top.remaining > 1 => asking'.item = item /\ asking'.remaining = Top.remaining - 1
       /\ ~(item \notin visited /\ Top.remaining > 1) => asking' = NotAsking
  <2>1. CASE item \notin visited /\ Top.remaining > 1
    BY <1>2, <1>3, <1>4, <1>5, <2>1
  <2>2. CASE ~(item \notin visited /\ Top.remaining > 1)
    BY <1>2, <2>2, NothingAsked
  <2>3. QED
    BY <2>1, <2>2
<1>11. item \notin visited /\ Top.remaining > 1 => asking'.item = item /\ asking'.remaining = Top.remaining - 1
  BY <1>10
<1>12. ~(item \notin visited /\ Top.remaining > 1) => asking' = NotAsking
  BY <1>10
<1>13. asking' \in [item : Items \cup {NoItem}, remaining : 0..MaxDepth]
  BY <1>10
<1>14. WalkTypeOK'
  <2>1. first' \in [Items -> 0..MaxDepth] /\ shallow' \in [Items -> 0..MaxDepth]
    <3>1. first \in [Items -> 0..MaxDepth] /\ shallow \in [Items -> 0..MaxDepth] /\ level \in 0..MaxDepth
      <4>1. first \in [Items -> 0..MaxDepth] /\ shallow \in [Items -> 0..MaxDepth]
        BY Zenon DEF WalkInv, WalkTypeOK
      <4>2. QED
        BY <1>5, <1>6, <4>1
    <3>2. /\ \A i \in Items : first'[i] \in {first[i], level} /\ shallow'[i] \in {shallow[i], level}
          /\ first' = [i \in Items |-> first'[i]] /\ shallow' = [i \in Items |-> shallow'[i]]
      BY <1>7, <3>1
    <3>3. QED
      BY <3>1, <3>2
  <2>2. visited' \subseteq Items
    BY <1>2, <1>4, <1>5
  <2>3. QED
    <3>1. stack' \in Seq(Frames) /\ asked' \in Seq(Items)
      BY <1>2, <1>8 DEF WalkInv, WalkTypeOK
    <3>2. QED
      BY <1>2, <1>13, <2>1, <2>2, <3>1, Zenon DEF WalkInv, WalkTypeOK
<1>15. IdleInv' /\ (asking.item = NoItem => asking = NotAsking)' /\ IsInjective(asked)'
  <2>1. IdleInv'
    BY <1>2 DEF IdleInv
  <2>2. (asking.item = NoItem => asking = NotAsking)'
    <3>1. CASE item \notin visited /\ Top.remaining > 1
      BY <1>4, <1>5, <1>11, <3>1
    <3>2. CASE ~(item \notin visited /\ Top.remaining > 1)
      BY <1>12, <3>2
    <3>3. QED
      BY <3>1, <3>2
  <2>3. QED
    BY <1>2, <2>1, <2>2 DEF WalkInv
<1>16. AskingInv'
  <2>1. ToSet(asked) \subseteq visited
    BY <1>2 DEF WalkInv, WalkingInv
  <2>2. CASE item \notin visited /\ Top.remaining > 1
    <3>1. asking'.item = item /\ asking'.remaining \in 1..depth
      <4>1. Top.remaining \in 1..depth /\ depth \in Nat
        BY <1>3, <1>5
      <4>2. asking'.item = item /\ asking'.remaining = Top.remaining - 1 /\ Top.remaining > 1
        BY <1>11, <2>2
      <4>3. QED
        BY <4>1, <4>2
    <3>2. QED
      BY <1>2, <2>1, <2>2, <3>1 DEF AskingInv
  <2>3. CASE ~(item \notin visited /\ Top.remaining > 1)
    BY <1>12, <2>3, NothingAsked DEF AskingInv
  <2>4. QED
    BY <2>2, <2>3
<1>17. FramesInv'
  BY <1>2, <1>8, <1>9 DEF WalkInv, FramesInv
<1>18. WalkingInv'
  <2>1. /\ root \in visited /\ ToSet(asked) \subseteq visited /\ (\A i \in visited : MetIsFollowed(i))
        /\ \A i \in Items : first[i] # 0 => i \in visited
    BY <1>2 DEF WalkInv, WalkingInv
  <2>2. first \in [Items -> 0..MaxDepth]
    BY DEF WalkInv, WalkTypeOK
  <2>3. Asked = ToSet(asked) \cup {NoItem} /\ Asked' = ToSet(asked) \cup {asking'.item} /\ depth # 0
    BY <1>2, <1>3, <1>5, NothingAsked DEF Asked
  <2>4. ASSUME NEW i \in visited, MetIsFollowed(i) PROVE MetIsFollowed(i)'
    <3>1. i \in Items
      BY <1>5
    <3>2. CASE i \in Asked
      BY <1>2, <1>5, <2>3, <3>1, <3>2 DEF MetIsFollowed
    <3>3. CASE i # root /\ first[i] = depth
      <4>1. first'[i] = first[i]
        BY <1>4, <1>7, <2>2, <2>3, <3>1, <3>3
      <4>2. QED
        BY <1>2, <2>3, <3>3, <4>1 DEF MetIsFollowed
    <3>4. QED
      BY <2>3, <2>4, <3>2, <3>3 DEF MetIsFollowed
  <2>5. ASSUME item \notin visited PROVE MetIsFollowed(item)'
    <3>1. item # root /\ first[item] = 0
      BY <1>4, <2>1, <2>5
    <3>2. first'[item] = level
      BY <1>4, <1>7, <2>2, <3>1
    <3>3. CASE Top.remaining > 1
      <4>1. item \in Asked'
        BY <1>11, <2>3, <2>5, <3>3
      <4>2. QED
        BY <4>1 DEF MetIsFollowed
    <3>4. CASE Top.remaining = 1
      BY <1>2, <1>6, <2>3, <3>1, <3>2, <3>4 DEF MetIsFollowed
    <3>5. QED
      BY <1>3, <3>3, <3>4
  <2>6. \A i \in visited' : MetIsFollowed(i)'
    BY <1>2, <2>1, <2>4, <2>5
  <2>7. \A i \in Items : first'[i] # 0 => i \in visited'
    BY <1>2, <1>4, <1>7, <2>1, <2>2
  <2>8. first'[root] = 0
    BY <1>2, <1>5, <1>7, <2>2 DEF WalkInv, WalkingInv
  <2>9. QED
    BY <1>2, <2>1, <2>6, <2>7, <2>8 DEF WalkingInv
<1>19. QED
  BY <1>14, <1>15, <1>16, <1>17, <1>18 DEF WalkInv

\* The innermost walk returns.
LEMMA UnwindKeepsWalk ==
  ASSUME WalkInv, Unwind
  PROVE  WalkInv'
<1>1. stack # <<>> /\ stack' = Front(stack)
      /\ UNCHANGED <<walk, depth, direction, side, root, asking, visited, asked, first, shallow>>
  BY DEF Unwind
<1>2. Len(stack) \in Nat \ {0} /\ DOMAIN stack = 1..Len(stack) /\ stack \in Seq(Frames)
  BY <1>1, TopFrame DEF WalkInv, WalkTypeOK
<1>3. /\ stack' \in Seq(Frames) /\ Len(stack') = Len(stack) - 1
      /\ \A k \in 1..(Len(stack) - 1) : stack'[k] = stack[k]
  <2>1. stack' = SubSeq(stack, 1, Len(stack) - 1)
    BY <1>1 DEF Front
  <2>2. \A k \in 1..(Len(stack) - 1) : stack[k] \in Frames
    BY <1>2, ElementOfSeq
  <2>3. QED
    BY <1>2, <2>1, <2>2, SubSeqProperties
<1>4. DOMAIN stack' = 1..(Len(stack) - 1)
  BY <1>3, LenProperties
<1>5. WalkTypeOK' /\ IdleInv' /\ AskingInv'
  BY <1>1, <1>3 DEF WalkInv, WalkTypeOK, IdleInv, NoSide, AskingInv
<1>6. FramesInv'
  BY <1>1, <1>2, <1>3, <1>4 DEF WalkInv, FramesInv
<1>7. WalkingInv'
  BY <1>1 DEF WalkInv, WalkingInv, MetIsFollowed, Asked
<1>8. QED
  BY <1>1, <1>5, <1>6, <1>7 DEF WalkInv

\* A direction is done: the next one starts, or the walk is complete.
LEMMA NextSideKeepsWalk ==
  ASSUME WalkInv, NextSide
  PROVE  WalkInv'
<1>1. walk = "walking" /\ asking = NotAsking /\ stack = <<>> /\ UNCHANGED <<depth, direction, root>>
  BY DEF NextSide, SideDone
<1>2. WalkTypeOK /\ side \in 1..Len(direction) /\ Len(direction) \in Nat /\ DOMAIN direction = 1..Len(direction)
  BY WalkTypes DEF WalkInv, WalkTypeOK
<1>3. CASE side < Len(direction)
  <2>1. StartSide(root) /\ walk' = "walking" /\ side' \in DOMAIN direction
    BY <1>1, <1>2, <1>3 DEF NextSide
  <2>2. root \in Items
    BY <1>1, <1>2 DEF WalkInv, WalkingInv, WalkTypeOK
  <2>3. QED
    BY <1>1, <1>2, <2>1, <2>2, SideStarts
<1>4. CASE ~(side < Len(direction))
  <2>1. walk' = "done" /\ UNCHANGED <<side, sideVars>>
    BY <1>4 DEF NextSide
  <2>2. WalkTypeOK' /\ IdleInv' /\ AskingInv' /\ FramesInv' /\ WalkingInv'
    BY <1>1, <2>1 DEF WalkInv, WalkTypeOK, IdleInv, AskingInv, FramesInv, WalkingInv, sideVars
  <2>3. QED
    BY <2>1, <2>2 DEF WalkInv, sideVars
<1>5. QED
  BY <1>3, <1>4

\* Leaving a walk clears it.
LEMMA LeaveWalkKeepsWalk ==
  ASSUME WalkInv, LeaveWalk
  PROVE  WalkInv'
<1>1. side' \in DOMAIN direction'
  <2>1. side' = 1 /\ direction' = direction /\ side \in DOMAIN direction
    BY DEF WalkInv, WalkTypeOK, LeaveWalk
  <2>2. Len(direction) \in Nat /\ DOMAIN direction = 1..Len(direction)
    BY WalkTypes DEF WalkInv
  <2>3. QED
    BY <2>1, <2>2
<1>2. MaxDepth \in Nat
  BY WalkTypes DEF WalkInv
<1>3. /\ walk' = "off" /\ root' = NoItem /\ asking' = NotAsking /\ stack' = <<>> /\ visited' = {} /\ asked' = <<>>
      /\ first' = [i \in Items |-> 0] /\ shallow' = [i \in Items |-> 0] /\ UNCHANGED <<depth, direction>>
  BY DEF LeaveWalk
<1>4. /\ asking' \in [item : Items \cup {NoItem}, remaining : 0..MaxDepth] /\ stack' \in Seq(Frames)
      /\ asked' \in Seq(Items) /\ first' \in [Items -> 0..MaxDepth] /\ shallow' \in [Items -> 0..MaxDepth]
      /\ visited' \subseteq Items
  BY <1>2, <1>3, NothingAsked
<1>5. WalkTypeOK' /\ IdleInv'
  BY <1>1, <1>3, <1>4 DEF WalkInv, WalkTypeOK, IdleInv, NoSide
<1>6. QED
  BY <1>3, <1>5, IdleWalk

\* Beginning a walk keeps its invariant.
LEMMA BeginWalkKeepsWalk ==
  ASSUME WalkInv, BeginWalk
  PROVE  WalkInv'
<1>1. WalkTypeOK' /\ IdleInv' /\ walk' = "preparing"
  BY DEF BeginWalk, WalkInv, WalkTypeOK, IdleInv, NoSide, sideVars
<1>2. QED
  BY <1>1, IdleWalk

LEMMA WalkStands ==
  ASSUME WalkInv, UNCHANGED walkVars
  PROVE  WalkInv'
<1>1. UNCHANGED <<walk, depth, direction, side, root, asking, stack, visited, asked, first, shallow>>
  BY DEF walkVars, sideVars
<1>2. WalkTypeOK' /\ IdleInv' /\ AskingInv' /\ FramesInv'
  BY <1>1 DEF WalkInv, WalkTypeOK, IdleInv, NoSide, AskingInv, FramesInv
<1>3. WalkingInv'
  BY <1>1 DEF WalkInv, WalkingInv, MetIsFollowed, Asked
<1>4. QED
  BY <1>1, <1>2, <1>3 DEF WalkInv

\* A command moves its walk by the walk's own steps, leaves it, or lets it stand.
LEMMA CommandMovesWalk ==
  ASSUME [Next]_vars
  PROVE  BeginWalk \/ WalkNext \/ LeaveWalk \/ UNCHANGED walkVars
<1>1. CASE WalkStep
  BY <1>1 DEF WalkStep
<1>2. CASE TargetFails \/ (\E hasNotes \in BOOLEAN : WalkEnds(hasNotes)) \/ NoItemThere
  BY <1>2 DEF TargetFails, WalkEnds, NoItemThere
<1>3. CASE SearchStep \/ SearchEnds \/ (\E exists \in BOOLEAN : OutlineFile(exists)) \/ OutlineFails
  BY <1>3 DEF SearchStep, SearchEnds, OutlineFile, OutlineFails
<1>4. CASE Parse \/ LookupStep \/ TakeTargets \/ LookupEnds
  BY <1>4 DEF Parse, LookupStep, TakeTargets, LookupEnds
<1>5. CASE AnswerReferences \/ RenameRefused \/ (\E answer \in WorkspaceEdits : AnswerRename(answer))
  BY <1>5 DEF AnswerReferences, RenameRefused, AnswerRename
<1>6. CASE (\E calls \in 0..MaxDetails : AnswerDefinition(calls)) \/ (\E fails \in BOOLEAN : AnswerDetail(fails))
  BY <1>6 DEF AnswerDefinition, AnswerDetail
<1>7. CASE Finish \/ Over \/ UNCHANGED vars
  BY <1>7 DEF Finish, Over, vars
<1>8. QED
  BY <1>1, <1>2, <1>3, <1>4, <1>5, <1>6, <1>7 DEF Next

\* Every step keeps the walk's invariant.
LEMMA StepWalk == WalkInv /\ [Next]_vars => WalkInv'
<1> SUFFICES ASSUME WalkInv, [Next]_vars PROVE WalkInv'
  OBVIOUS
<1>1. CASE WalkNext
  <2>1. ASSUME NEW item \in Items \cup {NoItem}, Prepared(item) PROVE WalkInv'
    BY <2>1, PreparedKeepsWalk
  <2>2. ASSUME NEW steps \in Answers, CallsAnswered(steps) PROVE WalkInv'
    BY <2>2, CallsAnsweredKeepsWalk
  <2>3. QED
    BY <1>1, <2>1, <2>2, VisitKeepsWalk, UnwindKeepsWalk, NextSideKeepsWalk DEF WalkNext
<1>2. QED
  BY <1>1, CommandMovesWalk, BeginWalkKeepsWalk, LeaveWalkKeepsWalk, WalkStands

\* Whatever cycles and diamonds the answers have, an item is asked for once per direction,
\* and only the depth limit keeps the walk from following an item.
THEOREM WalkIsComplete == Spec => []OnlyDepthLimits
<1>1. WalkInv => OnlyDepthLimits
  <2> SUFFICES ASSUME WalkInv PROVE OnlyDepthLimits
    OBVIOUS
  <2>1. ASSUME SideDone, NEW i \in Items, first[i] # 0, i \notin Asked
        PROVE  first[i] = depth
    <3>1. i \in visited /\ MetIsFollowed(i)
      BY <2>1 DEF WalkInv, WalkingInv, SideDone
    <3>2. ~(i = root /\ depth = 0)
      BY <2>1 DEF WalkInv, WalkingInv, SideDone
    <3>3. QED
      BY <2>1, <3>1, <3>2 DEF MetIsFollowed
  <2>2. QED
    BY <2>1 DEF OnlyDepthLimits, WalkInv
<1>2. QED
  BY <1>1, InitWalk, StepWalk, PTL DEF Spec

------------------------------------------------------------------------------
\* A search is split where it should be.

Increasing(s) == \A i, j \in 1..Len(s) : i < j => s[i] < s[j]

\* Of two increasing lists of the same numbers neither goes its own way.
LEMMA IncreasingListsAgree ==
  ASSUME NEW a \in Seq(Nat), NEW b \in Seq(Nat), Increasing(a), Increasing(b), ToSet(a) = ToSet(b)
  PROVE  \A k \in 1..Len(a) : k \in 1..Len(b) /\ a[k] = b[k]
<1> DEFINE bad == {k \in 1..Len(a) : ~(k \in 1..Len(b) /\ a[k] = b[k])}
<1>1. /\ Len(a) \in Nat /\ Len(b) \in Nat
      /\ \A k \in 1..Len(a) : a[k] \in Nat
      /\ \A k \in 1..Len(b) : b[k] \in Nat
  OBVIOUS
<1>2. /\ \A k \in 1..Len(a) : \E l \in 1..Len(b) : b[l] = a[k]
      /\ \A k \in 1..Len(b) : \E l \in 1..Len(a) : a[l] = b[k]
  <2>1. DOMAIN a = 1..Len(a) /\ DOMAIN b = 1..Len(b)
    OBVIOUS
  <2>2. \A x : (x \in ToSet(a) <=> \E k \in 1..Len(a) : a[k] = x)
    BY <2>1 DEF ToSet
  <2>3. \A x : (x \in ToSet(b) <=> \E k \in 1..Len(b) : b[k] = x)
    BY <2>1 DEF ToSet
  <2>4. QED
    BY <2>2, <2>3
<1>3. SUFFICES ASSUME bad # {} PROVE FALSE
  OBVIOUS
<1>4. PICK m \in bad : \A k \in bad : m <= k
  <2>1. bad \subseteq Nat
    BY <1>1
  <2>2. QED
    BY <1>3, <2>1, LeastNatural
<1>5. m \in 1..Len(a) /\ ~(m \in 1..Len(b) /\ a[m] = b[m])
  OBVIOUS
<1>6. ASSUME NEW k \in 1..Len(a), k < m PROVE k \in 1..Len(b) /\ a[k] = b[k]
  <2>1. k \notin bad
    BY <1>1, <1>4, <1>6
  <2>2. QED
    BY <2>1
<1> HIDE DEF bad
<1>7. PICK l \in 1..Len(b) : b[l] = a[m]
  BY <1>2, <1>5
<1>8. l > m
  <2>1. CASE l < m
    <3>1. l \in 1..Len(a) /\ a[l] = b[l] /\ a[l] < a[m]
      BY <1>1, <1>5, <1>6, <2>1 DEF Increasing
    <3>2. QED
      BY <1>1, <1>5, <1>7, <3>1
  <2>2. CASE l = m
    BY <1>5, <1>7, <2>2
  <2>3. QED
    BY <1>1, <1>5, <2>1, <2>2
<1>9. m \in 1..Len(b) /\ b[m] < a[m]
  BY <1>1, <1>5, <1>7, <1>8 DEF Increasing
<1>10. PICK r \in 1..Len(a) : a[r] = b[m]
  BY <1>2, <1>9
<1>11. CASE r < m
  <2>1. r \in 1..Len(b) /\ a[r] = b[r] /\ b[r] < b[m]
    BY <1>1, <1>6, <1>9, <1>11 DEF Increasing
  <2>2. QED
    BY <1>1, <1>9, <1>10, <2>1
<1>12. CASE r = m
  BY <1>5, <1>9, <1>10, <1>12
<1>13. CASE r > m
  <2>1. a[m] < a[r]
    BY <1>1, <1>5, <1>13 DEF Increasing
  <2>2. a[m] \in Nat /\ a[r] \in Nat /\ b[m] < a[m] /\ a[r] = b[m]
    BY <1>1, <1>5, <1>9, <1>10
  <2>3. QED
    BY <2>1, <2>2
<1>14. QED
  BY <1>1, <1>5, <1>11, <1>12, <1>13

\* Initial segments are equal if their ends are.
LEMMA SameBound ==
  ASSUME NEW m \in Nat, NEW n \in Nat, 1..m = 1..n
  PROVE  m = n
<1>1. m # 0 => m \in 1..n
  OBVIOUS
<1>2. n # 0 => n \in 1..m
  OBVIOUS
<1>3. QED
  BY <1>1, <1>2

\* An increasing list is determined by its numbers.
LEMMA IncreasingIsUnique ==
  ASSUME NEW a \in Seq(Nat), NEW b \in Seq(Nat), Increasing(a), Increasing(b), ToSet(a) = ToSet(b)
  PROVE  a = b
<1>1. \A k \in 1..Len(a) : k \in 1..Len(b) /\ a[k] = b[k]
  BY IncreasingListsAgree
<1>2. \A k \in 1..Len(b) : k \in 1..Len(a) /\ b[k] = a[k]
  BY IncreasingListsAgree
<1>3. Len(a) = Len(b)
  <2>1. Len(a) \in Nat /\ Len(b) \in Nat
    OBVIOUS
  <2>2. 1..Len(a) = 1..Len(b)
    BY <1>1, <1>2
  <2>3. QED
    BY <2>1, <2>2, SameBound
<1>4. QED
  BY <1>1, <1>3, SeqEqual

\* InOrder lists the elements of a set of positions in their order.
LEMMA InOrderProperties ==
  ASSUME NEW n \in Nat, NEW S, S \subseteq 0..(n + 1)
  PROVE  /\ InOrder(S, n) \in Seq(Nat)
         /\ Increasing(InOrder(S, n))
         /\ ToSet(InOrder(S, n)) = S
<1> DEFINE all == [i \in 1..(n + 2) |-> i - 1]
<1>1. n + 2 \in Nat /\ \A i \in 1..(n + 2) : i - 1 \in Nat
  OBVIOUS
<1>2. all \in [1..(n + 2) -> Nat]
  BY <1>1
<1>3. all \in Seq(Nat) /\ Len(all) = n + 2 /\ DOMAIN all = 1..(n + 2)
  BY <1>1, <1>2
<1>4. PICK r : r = Those(all, S)
  OBVIOUS
<1>5. InOrder(S, n) = r
  BY <1>4 DEF InOrder
<1>6. \A i \in 1..(n + 2) : all[i] = i - 1
  OBVIOUS
<1>7. ToSet(all) = 0..(n + 1)
  <2>1. ASSUME NEW x \in 0..(n + 1) PROVE x \in ToSet(all)
    <3>1. x + 1 \in DOMAIN all /\ all[x + 1] = x
      BY <1>3, <1>6
    <3>2. QED
      BY <3>1 DEF ToSet
  <2>2. ASSUME NEW x \in ToSet(all) PROVE x \in 0..(n + 1)
    <3>1. PICK i \in DOMAIN all : x = all[i]
      BY <2>2 DEF ToSet
    <3>2. QED
      BY <1>3, <1>6, <3>1
  <2>3. QED
    BY <2>1, <2>2
<1> HIDE DEF all
<1>8. PICK position : Picks(position, r, all, n + 2, S)
  BY <1>3, <1>4, ThoseArePicked DEF HasPicked
<1>9. r \in Seq(Nat) /\ ToSet(r) = S
  <2>1. r \in Seq(Nat) /\ ToSet(r) = ToSet(all) \cap S
    BY <1>3, <1>4, ThoseProperties
  <2>2. QED
    BY <1>7, <2>1
<1>10. Increasing(r)
  <2>1. ASSUME NEW i \in 1..Len(r), NEW j \in 1..Len(r), i < j PROVE r[i] < r[j]
    <3>1. /\ position[i] \in 1..(n + 2) /\ position[j] \in 1..(n + 2) /\ position[i] < position[j]
          /\ r[i] = all[position[i]] /\ r[j] = all[position[j]]
      BY <1>8, <2>1 DEF Picks
    <3>2. r[i] = position[i] - 1 /\ r[j] = position[j] - 1
      BY <1>6, <3>1
    <3>3. QED
      BY <3>1, <3>2
  <2>2. QED
    BY <2>1 DEF Increasing
<1>11. QED
  BY <1>5, <1>9, <1>10

\* A greater position comes last.
LEMMA InOrderAdd ==
  ASSUME NEW n \in Nat, NEW S, S \subseteq 0..(n + 1), NEW t \in 0..(n + 1), \A i \in S : i < t
  PROVE  InOrder(S \cup {t}, n) = Append(InOrder(S, n), t)
<1>1. PICK s : s = InOrder(S, n)
  OBVIOUS
<1>2. s \in Seq(Nat) /\ Increasing(s) /\ ToSet(s) = S
  BY <1>1, InOrderProperties
<1>3. S \cup {t} \subseteq 0..(n + 1) /\ t \in Nat
  OBVIOUS
<1>4. PICK u : u = InOrder(S \cup {t}, n)
  OBVIOUS
<1>5. u \in Seq(Nat) /\ Increasing(u) /\ ToSet(u) = S \cup {t}
  BY <1>3, <1>4, InOrderProperties
<1>6. PICK v : v = Append(s, t)
  OBVIOUS
<1>7. /\ v \in Seq(Nat) /\ Len(s) \in Nat /\ Len(v) = Len(s) + 1 /\ DOMAIN v = 1..(Len(s) + 1)
      /\ DOMAIN s = 1..Len(s)
      /\ \A i \in 1..Len(s) : v[i] = s[i]
      /\ v[Len(s) + 1] = t
  BY <1>2, <1>3, <1>6, AppendedList
<1>8. \A i \in 1..Len(s) : s[i] \in S /\ s[i] \in Nat /\ s[i] < t
  <2>1. TAKE i \in 1..Len(s)
  <2>2. s[i] \in S
    BY <1>2, <1>7 DEF ToSet
  <2>3. QED
    BY <1>2, <2>2
<1>9. Increasing(v)
  <2>1. ASSUME NEW i \in 1..Len(v), NEW j \in 1..Len(v), i < j PROVE v[i] < v[j]
    <3>1. i \in 1..Len(s) /\ v[i] = s[i]
      BY <1>7, <2>1
    <3>2. CASE j = Len(s) + 1
      BY <1>7, <1>8, <3>1, <3>2
    <3>3. CASE j # Len(s) + 1
      <4>1. j \in 1..Len(s) /\ v[j] = s[j]
        BY <1>7, <3>3
      <4>2. QED
        BY <1>2, <2>1, <3>1, <4>1 DEF Increasing
    <3>4. QED
      BY <3>2, <3>3
  <2>2. QED
    BY <2>1 DEF Increasing
<1>10. ToSet(v) = S \cup {t}
  <2>1. ASSUME NEW x \in ToSet(v) PROVE x \in S \cup {t}
    <3>1. PICK i \in 1..(Len(s) + 1) : x = v[i]
      BY <1>7, <2>1 DEF ToSet
    <3>2. i = Len(s) + 1 \/ i \in 1..Len(s)
      BY <1>7
    <3>3. QED
      BY <1>7, <1>8, <3>1, <3>2
  <2>2. ASSUME NEW x \in S PROVE x \in ToSet(v)
    <3>1. PICK i \in 1..Len(s) : x = s[i]
      BY <1>2, <1>7, <2>2 DEF ToSet
    <3>2. i \in DOMAIN v /\ x = v[i]
      BY <1>7, <3>1
    <3>3. QED
      BY <3>2 DEF ToSet
  <2>3. t \in ToSet(v)
    <3>1. Len(s) + 1 \in DOMAIN v
      BY <1>7
    <3>2. QED
      BY <1>7, <3>1 DEF ToSet
  <2>4. QED
    BY <2>1, <2>2, <2>3
<1>11. u = v
  BY <1>5, <1>7, <1>9, <1>10, IncreasingIsUnique
<1>12. QED
  BY <1>1, <1>4, <1>6, <1>11

\* The characters at some positions of a query are a query.
LEMMA CharsType ==
  ASSUME NEW q \in Seq(Characters), NEW S, S \subseteq 1..Len(q)
  PROVE  Chars(q, S) \in Seq(Characters)
<1>1. PICK order : order = InOrder(S, Len(q))
  OBVIOUS
<1>2. Len(q) \in Nat /\ S \subseteq 0..(Len(q) + 1)
  OBVIOUS
<1>3. order \in Seq(Nat) /\ ToSet(order) = S
  BY <1>1, <1>2, InOrderProperties
<1>4. DOMAIN order = 1..Len(order) /\ Len(order) \in Nat
  BY <1>3
<1>5. \A n \in 1..Len(order) : q[order[n]] \in Characters
  <2>1. TAKE n \in 1..Len(order)
  <2>2. order[n] \in S
    BY <1>3, <1>4 DEF ToSet
  <2>3. order[n] \in 1..Len(q)
    BY <2>2
  <2>4. QED
    BY <2>3, ElementOfSeq
<1>6. Chars(q, S) = [n \in 1..Len(order) |-> q[order[n]]]
  BY <1>1, <1>4 DEF Chars
<1>7. [n \in 1..Len(order) |-> q[order[n]]] \in [1..Len(order) -> Characters]
  BY <1>5
<1>8. QED
  BY <1>4, <1>6, <1>7

\* No positions, no characters.
LEMMA NoChars ==
  ASSUME NEW q \in Seq(Characters)
  PROVE  Chars(q, {}) = <<>>
<1>1. PICK order : order = InOrder({}, Len(q))
  OBVIOUS
<1>2. Len(q) \in Nat
  OBVIOUS
<1>3. order \in Seq(Nat) /\ ToSet(order) = {}
  BY <1>1, <1>2, InOrderProperties
<1>4. DOMAIN order = {}
  BY <1>3 DEF ToSet
<1>5. PICK s : s = Chars(q, {})
  OBVIOUS
<1>6. s \in Seq(Characters)
  BY <1>5, CharsType
<1>7. DOMAIN s = {}
  BY <1>1, <1>4, <1>5 DEF Chars
<1>8. QED
  BY <1>5, <1>6, <1>7, NoElements

\* A greater position's character comes last.
LEMMA CharsAdd ==
  ASSUME NEW q \in Seq(Characters), NEW S, S \subseteq 1..Len(q), NEW t \in 1..Len(q),
         \A i \in S : i < t
  PROVE  Chars(q, S \cup {t}) = Append(Chars(q, S), q[t])
<1>1. PICK order : order = InOrder(S, Len(q))
  OBVIOUS
<1>2. PICK longer : longer = InOrder(S \cup {t}, Len(q))
  OBVIOUS
<1>3. Len(q) \in Nat /\ S \subseteq 0..(Len(q) + 1) /\ t \in 0..(Len(q) + 1) /\ t \in Nat
  OBVIOUS
<1>4. longer = Append(order, t) /\ order \in Seq(Nat)
  BY <1>1, <1>2, <1>3, InOrderAdd, InOrderProperties
<1>5. /\ DOMAIN order = 1..Len(order) /\ Len(order) \in Nat /\ DOMAIN longer = 1..(Len(order) + 1)
      /\ \A i \in 1..Len(order) : longer[i] = order[i]
      /\ longer[Len(order) + 1] = t
  BY <1>3, <1>4, AppendedList
<1>6. PICK s : s = Chars(q, S)
  OBVIOUS
<1>7. s = [n \in 1..Len(order) |-> q[order[n]]] /\ s \in Seq(Characters)
  BY <1>1, <1>5, <1>6, CharsType DEF Chars
<1>8. PICK u : u = Chars(q, S \cup {t})
  OBVIOUS
<1>9. u = [n \in 1..(Len(order) + 1) |-> q[longer[n]]] /\ u \in Seq(Characters)
  <2>1. S \cup {t} \subseteq 1..Len(q)
    OBVIOUS
  <2>2. QED
    BY <1>2, <1>5, <1>8, <2>1, CharsType DEF Chars
<1>10. Len(s) = Len(order) /\ Len(u) = Len(order) + 1
  <2>1. DOMAIN s = 1..Len(s) /\ DOMAIN u = 1..Len(u) /\ Len(s) \in Nat /\ Len(u) \in Nat
    BY <1>7, <1>9
  <2>2. 1..Len(s) = 1..Len(order) /\ 1..Len(u) = 1..(Len(order) + 1)
    BY <1>7, <1>9, <2>1
  <2>3. Len(s) = Len(order)
    BY <1>5, <2>1, <2>2, SameBound
  <2>4. Len(order) + 1 \in Nat
    BY <1>5
  <2>5. Len(u) = Len(order) + 1
    BY <2>1, <2>2, <2>4, SameBound
  <2>6. QED
    BY <2>3, <2>5
<1>11. q[t] \in Characters
  BY ElementOfSeq
<1>12. PICK v : v = Append(s, q[t])
  OBVIOUS
<1>13. /\ v \in Seq(Characters) /\ Len(v) = Len(s) + 1
       /\ \A i \in 1..Len(s) : v[i] = s[i]
       /\ v[Len(s) + 1] = q[t]
  BY <1>7, <1>11, <1>12, AppendedList
<1>14. ASSUME NEW i \in 1..Len(u) PROVE u[i] = v[i]
  <2>1. CASE i = Len(order) + 1
    BY <1>5, <1>9, <1>10, <1>13, <2>1
  <2>2. CASE i # Len(order) + 1
    <3>1. i \in 1..Len(order)
      BY <1>5, <1>10, <2>2
    <3>2. u[i] = q[longer[i]] /\ v[i] = s[i] /\ s[i] = q[order[i]] /\ longer[i] = order[i]
      BY <1>5, <1>7, <1>9, <1>10, <1>13, <3>1
    <3>3. QED
      BY <3>2
  <2>3. QED
    BY <2>1, <2>2
<1>15. u = v
  BY <1>9, <1>10, <1>13, <1>14, SeqEqual
<1>16. QED
  BY <1>6, <1>8, <1>12, <1>15

\* What is left of a piece are characters.
LEMMA TrimmedType ==
  ASSUME NEW s \in Seq(Characters)
  PROVE  Trimmed(s) \in Seq(Characters)
<1> DEFINE dense == {i \in DOMAIN s : s[i] # "blank"}
<1>1. Len(s) \in Nat /\ DOMAIN s = 1..Len(s)
  OBVIOUS
<1>2. CASE dense = {}
  <2>1. Trimmed(s) = <<>>
    BY <1>2 DEF Trimmed
  <2>2. QED
    BY <2>1, EmptySeq
<1>3. CASE dense # {}
  <2>1. dense \subseteq 1..Len(s) /\ dense \subseteq Nat
    BY <1>1
  <2>2. PICK l \in dense : \A j \in dense : l <= j
    BY <1>3, <2>1, LeastNatural
  <2>3. Max(dense) \in dense /\ \A j \in dense : j <= Max(dense)
    BY <1>1, <1>3, <2>1, LargestPosition
  <2>4. PICK low : low = CHOOSE i \in dense : \A j \in dense : i <= j
    OBVIOUS
  <2>5. PICK high : high = CHOOSE i \in dense : \A j \in dense : j <= i
    OBVIOUS
  <2>6. Trimmed(s) = SubSeq(s, low, high)
    BY <1>3, <2>4, <2>5 DEF Trimmed
  <2> HIDE DEF dense
  <2>7. low \in dense /\ \A j \in dense : low <= j
    BY <2>2, <2>4
  <2>8. high \in dense /\ \A j \in dense : j <= high
    BY <2>3, <2>5
  <2>9. low \in 1..Len(s) /\ high \in 1..Len(s) /\ low <= high
    BY <2>1, <2>7, <2>8
  <2>10. SubSeq(s, low, high) \in Seq(Characters)
    BY <1>1, <2>9
  <2>11. QED
    BY <2>6, <2>10
<1>4. QED
  BY <1>2, <1>3

------------------------------------------------------------------------------
SplitStates == [done : Seq(Seq(Characters)), current : Seq(Characters), escape : BOOLEAN]
SplitStart == [done |-> <<>>, current |-> <<>>, escape |-> FALSE]
SplitFold(q) == FoldLeft(Step, SplitStart, q)

\* What one character does.
LEMMA StepCases ==
  ASSUME NEW s \in SplitStates, NEW c \in Characters
  PROVE  LET waited == IF s.escape /\ c # "pipe" THEN Append(s.current, "backslash") ELSE s.current
             u == Step(s, c) IN
         /\ u \in SplitStates
         /\ c = "backslash" => u.done = s.done /\ u.current = waited /\ u.escape
         /\ c = "pipe" /\ ~s.escape =>
              u.done = Append(s.done, s.current) /\ u.current = <<>> /\ ~u.escape
         /\ c # "backslash" /\ (c = "pipe" => s.escape) =>
              u.done = s.done /\ u.current = Append(waited, c) /\ ~u.escape
<1>1. PICK u : u = Step(s, c)
  OBVIOUS
<1> DEFINE waited == IF s.escape /\ c # "pipe" THEN Append(s.current, "backslash") ELSE s.current
<1>2. s.done \in Seq(Seq(Characters)) /\ s.current \in Seq(Characters) /\ s.escape \in BOOLEAN
  BY DEF SplitStates
<1>3. waited \in Seq(Characters)
  <2>1. "backslash" \in Characters
    BY DEF Characters
  <2>2. QED
    BY <1>2, <2>1, AppendProperties
<1>4. Append(waited, c) \in Seq(Characters) /\ Append(s.done, s.current) \in Seq(Seq(Characters))
  BY <1>2, <1>3, AppendProperties
<1>5. <<>> \in Seq(Characters)
  BY EmptySeq
<1>6. s = [done |-> s.done, current |-> s.current, escape |-> s.escape]
  BY DEF SplitStates
<1>7. CASE c = "backslash"
  <2>1. Step(s, c) = [s EXCEPT !.current = waited, !.escape = TRUE]
    BY <1>7 DEF Step
  <2> HIDE DEF waited
  <2>2. Step(s, c) = [done |-> s.done, current |-> waited, escape |-> TRUE]
    BY <1>6, <2>1
  <2>3. u \in SplitStates
    BY <1>1, <1>2, <1>3, <2>2 DEF SplitStates
  <2>4. u.done = s.done /\ u.current = waited /\ u.escape = TRUE
    BY <1>1, <2>2
  <2>5. QED
    BY <1>1, <2>3, <2>4, <1>7 DEF waited
<1>8. CASE c = "pipe" /\ ~s.escape
  <2>1. Step(s, c) = [s EXCEPT !.done = Append(@, s.current), !.current = <<>>]
    BY <1>8 DEF Step
  <2> HIDE DEF waited
  <2>2. Step(s, c) = [done |-> Append(s.done, s.current), current |-> <<>>, escape |-> FALSE]
    BY <1>2, <1>6, <1>8, <2>1
  <2>3. u \in SplitStates
    BY <1>1, <1>2, <1>4, <1>5, <2>2 DEF SplitStates
  <2>4. u.done = Append(s.done, s.current) /\ u.current = <<>> /\ u.escape = FALSE
    BY <1>1, <2>2
  <2>5. QED
    BY <1>1, <2>3, <2>4, <1>8 DEF waited
<1>9. CASE c # "backslash" /\ (c = "pipe" => s.escape)
  <2>1. Step(s, c) = [s EXCEPT !.current = Append(waited, c), !.escape = FALSE]
    BY <1>9 DEF Step
  <2> HIDE DEF waited
  <2>2. Step(s, c) = [done |-> s.done, current |-> Append(waited, c), escape |-> FALSE]
    BY <1>6, <2>1
  <2>3. u \in SplitStates
    BY <1>1, <1>2, <1>4, <2>2 DEF SplitStates
  <2>4. u.done = s.done /\ u.current = Append(waited, c) /\ u.escape = FALSE
    BY <1>1, <2>2
  <2>5. QED
    BY <1>1, <2>3, <2>4, <1>9 DEF waited
<1>10. QED
  BY <1>7, <1>8, <1>9

\* The split's state keeps its type.
LEMMA StepType == \A s \in SplitStates, c \in Characters : Step(s, c) \in SplitStates
  BY StepCases

\* split_search_query_into_segments, character by character.
LEMMA SplitTrace ==
  ASSUME NEW list \in Seq(Characters)
  PROVE  \E tr : /\ tr[0] = SplitStart
                 /\ \A k \in 1..Len(list) : tr[k] = Step(tr[k - 1], list[k])
                 /\ SplitFold(list) = tr[Len(list)]
<1> DEFINE step == [p \in SplitStates \X Characters |-> Step(p[1], p[2])]
<1> DEFINE IsFold(h) == h = [s \in SUBSET DOMAIN list |->
                               IF s = {} THEN SplitStart ELSE Step(h[s \ {Max(s)}], list[Max(s)])]
<1>1. step \in [SplitStates \X Characters -> SplitStates] /\ SplitStart \in SplitStates /\ Len(list) \in Nat /\ DOMAIN list = 1..Len(list)
  <2>1. SplitStart \in SplitStates
    BY EmptySeq DEF SplitStart, SplitStates
  <2>2. \A s \in SplitStates, c \in Characters : Step(s, c) \in SplitStates
    BY StepType
  <2>3. QED
    BY <2>1, <2>2
<1>2. PICK g \in [SUBSET (1..Len(list)) -> SplitStates] : FoldsTo(g, step, SplitStart, list, Len(list))
  BY <1>1, FoldExists
<1>3. IsFold(g)
  <2>1. ASSUME NEW s \in SUBSET (1..Len(list)), s # {}
        PROVE  step[<<g[s \ {Max(s)}], list[Max(s)]>>] = Step(g[s \ {Max(s)}], list[Max(s)])
    <3>1. Max(s) \in 1..Len(list)
      BY <1>1, <2>1, LargestPosition
    <3>2. list[Max(s)] \in Characters
      BY <3>1, ElementOfSeq
    <3>3. g[s \ {Max(s)}] \in SplitStates
      OBVIOUS
    <3>4. QED
      BY <3>2, <3>3
  <2> HIDE DEF step
  <2>2. g = [s \in SUBSET (1..Len(list)) |-> IF s = {} THEN SplitStart ELSE step[<<g[s \ {Max(s)}], list[Max(s)]>>]]
    BY <1>2 DEF FoldsTo
  <2>3. QED
    BY <1>1, <2>1, <2>2
<1> HIDE DEF step
<1> DEFINE iter == CHOOSE h : IsFold(h)
<1>4. IsFold(iter)
  BY <1>3
<1>5. SplitFold(list) = iter[DOMAIN list]
  BY DEF SplitFold, FoldLeft, MapThenFoldSet
<1> HIDE DEF iter
<1> DEFINE tr == [k \in 0..Len(list) |-> iter[1..k]]
<1>6. tr[0] = SplitStart
  <2>1. 1..0 = {} /\ {} \in SUBSET DOMAIN list
    OBVIOUS
  <2>2. QED
    BY <1>1, <1>4, <2>1
<1>7. ASSUME NEW k \in 1..Len(list) PROVE tr[k] = Step(tr[k - 1], list[k])
  <2>1. 1..k \in SUBSET DOMAIN list /\ 1..k # {} /\ k \in Nat /\ k # 0 /\ k - 1 \in 0..Len(list)
    BY <1>1, InitialSegment
  <2>2. Max(1..k) = k /\ (1..k) \ {k} = 1..(k - 1)
    BY <2>1, MaxOfInitialSegment
  <2>3. iter[1..k] = Step(iter[1..(k - 1)], list[k])
    BY <1>4, <2>1, <2>2
  <2>4. QED
    BY <1>1, <2>1, <2>3
<1>8. SplitFold(list) = tr[Len(list)]
  BY <1>1, <1>5
<1> HIDE DEF tr
<1>9. QED
  BY <1>6, <1>7, <1>8


\* Where a query is split, with its two ends.
BarsOf(q) == InOrder(Bars(q) \cup {0, Len(q) + 1}, Len(q))

\* The cutting points are increasing and begin before and end behind the query.
LEMMA BarsAreInOrder ==
  ASSUME NEW q \in Seq(Characters), NEW bars, bars = BarsOf(q)
  PROVE  /\ bars \in Seq(Nat) /\ Len(bars) \in Nat /\ Len(bars) >= 2
         /\ Increasing(bars)
         /\ bars[1] = 0 /\ bars[Len(bars)] = Len(q) + 1
         /\ \A m \in 1..Len(bars) : bars[m] \in 0..(Len(q) + 1) /\ bars[m] \in Bars(q) \cup {0, Len(q) + 1}
         /\ \A i \in Bars(q) : \E m \in 1..Len(bars) : bars[m] = i
<1> DEFINE all == Bars(q) \cup {0, Len(q) + 1}
<1>1. Len(q) \in Nat /\ DOMAIN q = 1..Len(q)
  OBVIOUS
<1>2. all \subseteq 0..(Len(q) + 1)
  BY <1>1 DEF Bars
<1>3. bars \in Seq(Nat) /\ Increasing(bars) /\ ToSet(bars) = all
  BY <1>1, <1>2, InOrderProperties DEF BarsOf
<1>4. Len(bars) \in Nat /\ DOMAIN bars = 1..Len(bars)
  BY <1>3
<1>5. \A m \in 1..Len(bars) : bars[m] \in all
  BY <1>3, <1>4 DEF ToSet
<1>6. \A x \in all : \E m \in 1..Len(bars) : bars[m] = x
  BY <1>3, <1>4 DEF ToSet
<1>7. PICK f \in 1..Len(bars) : bars[f] = 0
  BY <1>6
<1>8. PICK l \in 1..Len(bars) : bars[l] = Len(q) + 1
  BY <1>6
<1>9. \A m \in 1..Len(bars) : bars[m] \in 0..(Len(q) + 1) /\ bars[m] \in Nat
  BY <1>1, <1>2, <1>5
<1>10. f = 1
  <2>1. SUFFICES ASSUME f # 1 PROVE FALSE
    OBVIOUS
  <2>2. 1 \in 1..Len(bars) /\ 1 < f
    BY <1>4, <2>1
  <2>3. bars[1] < bars[f]
    BY <1>3, <2>2 DEF Increasing
  <2>4. QED
    BY <1>7, <1>9, <2>2, <2>3
<1>11. l = Len(bars)
  <2>1. l \in 1..Len(bars) /\ Len(bars) \in 1..Len(bars) /\ (l = Len(bars) \/ l < Len(bars))
    <3>1. PICK size \in Nat : size = Len(bars)
      BY <1>4
    <3>2. l \in 1..size
      BY <3>1
    <3>3. size \in 1..size /\ (l = size \/ l < size)
      BY <3>2
    <3>4. QED
      BY <3>1, <3>2, <3>3
  <2>2. l < Len(bars) => bars[l] < bars[Len(bars)]
    BY <1>3, <2>1 DEF Increasing
  <2>3. bars[Len(bars)] \in 0..(Len(q) + 1)
    BY <1>9, <2>1
  <2>4. QED
    BY <1>1, <1>8, <2>1, <2>2, <2>3
<1>12. Len(bars) >= 2
  <2>1. f # l
    BY <1>1, <1>7, <1>8
  <2>2. QED
    BY <1>4, <1>10, <1>11, <2>1
<1>13. QED
  BY <1>3, <1>4, <1>5, <1>6, <1>7, <1>8, <1>9, <1>10, <1>11, <1>12

\* What a piece keeps, and what the code has collected of it after k characters, when
\* a backslash at the end is still waiting.
Keeping(q, from, to) == {i \in from..to : ~(q[i] = "backslash" /\ i < to /\ q[i + 1] = "pipe")}
Solid(q, from, k) == {i \in from..k : ~(q[i] = "backslash" /\ (i = k \/ q[i + 1] = "pipe"))}

Waiting(q, k) == k > 0 /\ q[k] = "backslash"
WaitedFor(q, from, k) ==
  IF Waiting(q, k) /\ q[k + 1] # "pipe" THEN Solid(q, from, k) \cup {k} ELSE Solid(q, from, k)

\* How one more character changes the positions that a segment keeps.
LEMMA SolidGrows ==
  ASSUME NEW q \in Seq(Characters), NEW k \in 0..(Len(q) - 1), NEW from \in 1..(k + 1),
         Waiting(q, k) => from <= k
  PROVE  /\ q[k + 1] = "backslash" => Solid(q, from, k + 1) = WaitedFor(q, from, k)
         /\ q[k + 1] # "backslash" /\ (q[k + 1] = "pipe" => Waiting(q, k)) =>
              Solid(q, from, k + 1) = WaitedFor(q, from, k) \cup {k + 1}
<1>1. Len(q) \in Nat /\ k \in Nat /\ from \in Nat /\ from # 0
  OBVIOUS
<1>2. \A i : i \in from..(k + 1) <=> i \in from..k \/ i = k + 1
  BY <1>1
<1>3. k + 1 \notin from..k
  BY <1>1
<1>4. ASSUME NEW i \in from..k
      PROVE  i \in Solid(q, from, k + 1) <=> i \in WaitedFor(q, from, k)
  <2>1. i # k + 1 /\ i \in from..(k + 1)
    BY <1>1
  <2>2. i \in Solid(q, from, k + 1) <=> ~(q[i] = "backslash" /\ q[i + 1] = "pipe")
    BY <2>1 DEF Solid
  <2>3. i \in Solid(q, from, k) <=> ~(q[i] = "backslash" /\ (i = k \/ q[i + 1] = "pipe"))
    BY DEF Solid
  <2>4. CASE i = k
    <3>1. k > 0
      BY <1>1, <2>4
    <3>2. CASE Waiting(q, k)
      BY <2>2, <2>3, <2>4, <3>1, <3>2 DEF Waiting, WaitedFor
    <3>3. CASE ~Waiting(q, k)
      BY <2>2, <2>3, <2>4, <3>1, <3>3 DEF Waiting, WaitedFor
    <3>4. QED
      BY <3>2, <3>3
  <2>5. CASE i # k
    <3>1. i \in WaitedFor(q, from, k) <=> i \in Solid(q, from, k)
      BY <2>5 DEF WaitedFor
    <3>2. QED
      BY <2>2, <2>3, <2>5, <3>1
  <2>6. QED
    BY <2>4, <2>5
<1>5. WaitedFor(q, from, k) \subseteq from..k
  <2>1. Solid(q, from, k) \subseteq from..k
    BY DEF Solid
  <2>2. Waiting(q, k) => k \in from..k
    BY <1>1
  <2>3. QED
    BY <2>1, <2>2 DEF WaitedFor
<1>6. Solid(q, from, k + 1) \subseteq from..(k + 1)
  BY DEF Solid
<1>7. k + 1 \in Solid(q, from, k + 1) <=> q[k + 1] # "backslash"
  <2>1. k + 1 \in from..(k + 1)
    BY <1>1
  <2>2. QED
    BY <2>1 DEF Solid
<1>8. QED
  BY <1>2, <1>3, <1>4, <1>5, <1>6, <1>7

\* The characters of what was waited for.
LEMMA WaitedChars ==
  ASSUME NEW q \in Seq(Characters), NEW k \in 0..(Len(q) - 1), NEW from \in 1..(k + 1),
         Waiting(q, k) => from <= k
  PROVE  /\ WaitedFor(q, from, k) \subseteq 1..k
         /\ Chars(q, WaitedFor(q, from, k)) =
              IF Waiting(q, k) /\ q[k + 1] # "pipe" THEN Append(Chars(q, Solid(q, from, k)), "backslash")
              ELSE Chars(q, Solid(q, from, k))
<1>1. Len(q) \in Nat /\ k \in Nat /\ from \in Nat /\ from # 0
  OBVIOUS
<1>2. Solid(q, from, k) \subseteq 1..k
  BY <1>1 DEF Solid
<1>3. CASE Waiting(q, k) /\ q[k + 1] # "pipe"
  <2>1. WaitedFor(q, from, k) = Solid(q, from, k) \cup {k}
    BY <1>3 DEF WaitedFor
  <2>2. k \in 1..k /\ k \in 1..Len(q) /\ q[k] = "backslash"
    BY <1>1, <1>3 DEF Waiting
  <2>3. k \notin Solid(q, from, k)
    BY <2>2 DEF Solid
  <2>4. \A i \in Solid(q, from, k) : i < k
    BY <1>1, <1>2, <2>3
  <2>5. Solid(q, from, k) \subseteq 1..Len(q)
    BY <1>1, <1>2
  <2>6. Chars(q, Solid(q, from, k) \cup {k}) = Append(Chars(q, Solid(q, from, k)), q[k])
    BY <2>2, <2>4, <2>5, CharsAdd
  <2>7. QED
    BY <1>2, <1>3, <2>1, <2>2, <2>6
<1>4. CASE ~(Waiting(q, k) /\ q[k + 1] # "pipe")
  <2>1. WaitedFor(q, from, k) = Solid(q, from, k)
    BY <1>4 DEF WaitedFor
  <2>2. QED
    BY <1>2, <1>4, <2>1
<1>5. QED
  BY <1>3, <1>4

\* After k characters: the pieces up to the last bar are done, and the current one has
\* what is solid of it.
SplitUpTo(q, bars, st, k, c) ==
  /\ bars[c] <= k /\ k < bars[c + 1]
  /\ Len(st.done) = c - 1
  /\ \A m \in 1..(c - 1) : st.done[m] = Piece(q, bars[m] + 1, bars[m + 1] - 1)
  /\ st.current = Chars(q, Solid(q, bars[c] + 1, k))
  /\ st.escape <=> Waiting(q, k)

SplitRight(q, bars, st, k) ==
  st \in SplitStates /\ \E c \in 1..(Len(bars) - 1) : SplitUpTo(q, bars, st, k, c)

\* The split is right at its start, at each character and at the end.
LEMMA SplitStartsRight ==
  ASSUME NEW q \in Seq(Characters), NEW bars, bars = BarsOf(q)
  PROVE  SplitRight(q, bars, SplitStart, 0)
<1>1. /\ bars \in Seq(Nat) /\ Len(bars) \in Nat /\ Len(bars) >= 2
      /\ Increasing(bars) /\ bars[1] = 0
  BY BarsAreInOrder
<1>2. 1 \in 1..Len(bars) /\ 2 \in 1..Len(bars) /\ 1 \in 1..(Len(bars) - 1)
  BY <1>1
<1>3. bars[1] < bars[2]
  BY <1>1, <1>2 DEF Increasing
<1>4. Solid(q, 1, 0) = {}
  BY DEF Solid
<1>5. SplitStart \in SplitStates
  BY EmptySeq DEF SplitStart, SplitStates
<1>6. Len(SplitStart.done) = 0 /\ SplitStart.current = <<>> /\ ~SplitStart.escape
  BY EmptySeq DEF SplitStart
<1>7. ~Waiting(q, 0)
  BY DEF Waiting
<1>8. Chars(q, Solid(q, bars[1] + 1, 0)) = <<>>
  <2>1. bars[1] + 1 = 1
    BY <1>1
  <2>2. QED
    BY <1>4, <2>1, NoChars
<1>9. SplitUpTo(q, bars, SplitStart, 0, 1)
  <2>1. 1 - 1 = 0 /\ 1 + 1 = 2 /\ 1..0 = {}
    OBVIOUS
  <2>2. bars[1] <= 0 /\ 0 < bars[2]
    BY <1>1, <1>3
  <2>3. QED
    BY <1>6, <1>7, <1>8, <2>1, <2>2 DEF SplitUpTo
<1>10. QED
  BY <1>2, <1>5, <1>9 DEF SplitRight

\* A bar ends the current piece.
LEMMA BarEndsPiece ==
  ASSUME NEW q \in Seq(Characters), NEW bars, bars = BarsOf(q), NEW st, NEW k \in 0..(Len(q) - 1),
         NEW c \in 1..(Len(bars) - 1), st \in SplitStates, SplitUpTo(q, bars, st, k, c),
         k + 1 \in Bars(q)
  PROVE  /\ c + 1 \in 1..(Len(bars) - 1)
         /\ SplitUpTo(q, bars, Step(st, q[k + 1]), k + 1, c + 1)
<1>1. /\ bars \in Seq(Nat) /\ Len(bars) \in Nat /\ Len(bars) >= 2
      /\ Increasing(bars) /\ bars[Len(bars)] = Len(q) + 1
      /\ \A m \in 1..Len(bars) : bars[m] \in 0..(Len(q) + 1)
  BY BarsAreInOrder
<1>2. PICK l \in 1..Len(bars) : bars[l] = k + 1
  BY BarsAreInOrder
<1>3. Len(q) \in Nat /\ k \in Nat /\ k + 1 \in 1..Len(q) /\ c \in Nat /\ c \in 1..Len(bars) /\ c + 1 \in 1..Len(bars)
  <2>1. Len(q) \in Nat
    OBVIOUS
  <2>2. k \in Nat /\ k + 1 \in 1..Len(q)
    BY <2>1
  <2>3. Len(bars) \in Nat
    BY <1>1
  <2>4. c \in Nat /\ c \in 1..Len(bars) /\ c + 1 \in 1..Len(bars)
    BY <2>3
  <2>5. QED
    BY <2>1, <2>2, <2>4
<1>4. bars[c] <= k /\ k < bars[c + 1] /\ bars[c] \in Nat /\ bars[c + 1] \in Nat
  <2>1. bars[c] \in 0..(Len(q) + 1) /\ bars[c + 1] \in 0..(Len(q) + 1)
    BY <1>1, <1>3
  <2>2. bars[c] <= k /\ k < bars[c + 1]
    BY DEF SplitUpTo
  <2>3. QED
    BY <1>3, <2>1, <2>2
<1>5. bars[c + 1] = k + 1
  <2>1. CASE l < c + 1
    <3>1. l <= c
      BY <1>3, <2>1
    <3>2. l # c
      BY <1>2, <1>3, <1>4
    <3>3. l < c
      BY <1>3, <3>1, <3>2
    <3>4. bars[l] < bars[c]
      BY <1>1, <1>3, <3>3 DEF Increasing
    <3>5. QED
      BY <1>2, <1>3, <1>4, <3>4
  <2>2. CASE l > c + 1
    <3>1. bars[c + 1] < bars[l]
      BY <1>1, <1>3, <2>2 DEF Increasing
    <3>2. QED
      BY <1>2, <1>3, <1>4, <3>1
  <2>3. QED
    BY <1>2, <1>3, <2>1, <2>2
<1>6. c + 1 \in 1..(Len(bars) - 1) /\ k + 1 < bars[c + 2]
  <2>1. c + 1 # Len(bars)
    BY <1>1, <1>3, <1>5
  <2>2. c + 2 \in 1..Len(bars) /\ c + 1 < c + 2
    BY <1>1, <1>3, <2>1
  <2>3. bars[c + 1] < bars[c + 2]
    BY <1>1, <1>3, <2>2 DEF Increasing
  <2>4. QED
    BY <1>1, <1>3, <1>5, <2>1, <2>3
<1>7. q[k + 1] = "pipe" /\ ~Waiting(q, k)
  <2>1. q[k + 1] = "pipe" /\ (k + 1 = 1 \/ q[(k + 1) - 1] # "backslash")
    BY DEF Bars
  <2>2. (k + 1) - 1 = k /\ (k + 1 = 1 => ~(k > 0))
    BY <1>3
  <2>3. QED
    BY <2>1, <2>2 DEF Waiting
<1>8. PICK u : u = Step(st, q[k + 1])
  OBVIOUS
<1>9. ~st.escape
  BY <1>7 DEF SplitUpTo
<1>10. u.done = Append(st.done, st.current) /\ u.current = <<>> /\ ~u.escape
  <2>1. q[k + 1] \in Characters
    BY <1>3, ElementOfSeq
  <2>2. QED
    BY <1>7, <1>8, <1>9, <2>1, StepCases
<1>11. st.current = Piece(q, bars[c] + 1, bars[c + 1] - 1)
  <2>1. bars[c + 1] - 1 = k
    BY <1>3, <1>5
  <2>2. ASSUME NEW i \in (bars[c] + 1)..k
        PROVE  i \in Solid(q, bars[c] + 1, k) <=> i \in Keeping(q, bars[c] + 1, k)
    <3>1. CASE i = k
      <4>1. q[i] # "backslash"
        BY <1>3, <1>4, <1>7, <3>1 DEF Waiting
      <4>2. QED
        BY <4>1 DEF Solid, Keeping
    <3>2. CASE i # k
      <4>1. i < k
        BY <1>3, <1>4, <3>2
      <4>2. QED
        BY <3>2, <4>1 DEF Solid, Keeping
    <3>3. QED
      BY <3>1, <3>2
  <2>3. Solid(q, bars[c] + 1, k) = Keeping(q, bars[c] + 1, k)
    <3>1. Solid(q, bars[c] + 1, k) \subseteq (bars[c] + 1)..k /\ Keeping(q, bars[c] + 1, k) \subseteq (bars[c] + 1)..k
      BY DEF Solid, Keeping
    <3>2. QED
      BY <2>2, <3>1
  <2>4. QED
    BY <2>1, <2>3 DEF SplitUpTo, Piece, Keeping
<1>12. st.done \in Seq(Seq(Characters)) /\ st.current \in Seq(Characters) /\ Len(st.done) = c - 1
  BY DEF SplitStates, SplitUpTo
<1>13. PICK done : done = st.done
  OBVIOUS
<1>14. PICK current : current = st.current
  OBVIOUS
<1>15. PICK longer : longer = u.done
  OBVIOUS
<1>16. /\ Len(longer) = (c + 1) - 1
       /\ \A m \in 1..((c + 1) - 1) : longer[m] = Piece(q, bars[m] + 1, bars[m + 1] - 1)
  <2>1. /\ Len(longer) = Len(done) + 1 /\ Len(done) = c - 1
        /\ \A i \in 1..Len(done) : longer[i] = done[i]
        /\ longer[Len(done) + 1] = current
    BY <1>10, <1>12, <1>13, <1>14, <1>15, AppendedList
  <2>2. ASSUME NEW m \in 1..c PROVE longer[m] = Piece(q, bars[m] + 1, bars[m + 1] - 1)
    <3>1. CASE m = c
      <4>1. longer[m] = current
        BY <1>3, <2>1, <3>1
      <4>2. QED
        BY <1>11, <1>14, <3>1, <4>1
    <3>2. CASE m # c
      <4>1. m \in 1..(c - 1)
        BY <1>3, <3>2
      <4>2. m \in 1..Len(done)
        BY <2>1, <4>1
      <4>3. longer[m] = done[m]
        BY <2>1, <4>2
      <4>4. QED
        BY <1>13, <4>1, <4>3 DEF SplitUpTo
    <3>3. QED
      BY <3>1, <3>2
  <2>3. (c + 1) - 1 = c /\ Len(done) + 1 = c
    BY <1>3, <2>1
  <2>4. QED
    BY <2>1, <2>2, <2>3
<1>17. u.current = Chars(q, Solid(q, bars[c + 1] + 1, k + 1))
  <2>1. (k + 2)..(k + 1) = {} /\ bars[c + 1] + 1 = k + 2
    BY <1>3, <1>5
  <2>2. Solid(q, bars[c + 1] + 1, k + 1) = {}
    BY <2>1 DEF Solid
  <2>3. QED
    BY <1>10, <2>2, NoChars
<1>18. ~Waiting(q, k + 1)
  BY <1>7 DEF Waiting
<1>19. SplitUpTo(q, bars, u, k + 1, c + 1)
  <2>1. bars[c + 1] <= k + 1 /\ k + 1 < bars[(c + 1) + 1]
    BY <1>3, <1>5, <1>6
  <2>2. QED
    BY <1>10, <1>15, <1>16, <1>17, <1>18, <2>1 DEF SplitUpTo
<1>20. QED
  BY <1>6, <1>8, <1>19

\* Any other character belongs to the current piece, or waits.
LEMMA PieceGrows ==
  ASSUME NEW q \in Seq(Characters), NEW bars, bars = BarsOf(q), NEW st, NEW k \in 0..(Len(q) - 1),
         NEW c \in 1..(Len(bars) - 1), st \in SplitStates, SplitUpTo(q, bars, st, k, c),
         k + 1 \notin Bars(q)
  PROVE  SplitUpTo(q, bars, Step(st, q[k + 1]), k + 1, c)
<1>1. /\ bars \in Seq(Nat) /\ Len(bars) \in Nat /\ Len(bars) >= 2
      /\ \A m \in 1..Len(bars) : bars[m] \in 0..(Len(q) + 1) /\ bars[m] \in Bars(q) \cup {0, Len(q) + 1}
  BY BarsAreInOrder
<1>2. Len(q) \in Nat /\ k \in Nat /\ k + 1 \in 1..Len(q) /\ c \in Nat /\ c \in 1..Len(bars) /\ c + 1 \in 1..Len(bars)
  <2>1. Len(q) \in Nat
    OBVIOUS
  <2>2. k \in Nat /\ k + 1 \in 1..Len(q)
    BY <2>1
  <2>3. Len(bars) \in Nat
    BY <1>1
  <2>4. c \in Nat /\ c \in 1..Len(bars) /\ c + 1 \in 1..Len(bars)
    BY <2>3
  <2>5. QED
    BY <2>1, <2>2, <2>4
<1>3. bars[c] <= k /\ k < bars[c + 1] /\ bars[c] \in Nat /\ bars[c + 1] \in Nat
  <2>1. bars[c] \in 0..(Len(q) + 1) /\ bars[c + 1] \in 0..(Len(q) + 1)
    BY <1>1, <1>2
  <2>2. bars[c] <= k /\ k < bars[c + 1]
    BY DEF SplitUpTo
  <2>3. QED
    BY <1>2, <2>1, <2>2
<1>4. k + 1 < bars[c + 1]
  <2>1. bars[c + 1] # k + 1
    <3>1. bars[c + 1] \in Bars(q) \cup {0, Len(q) + 1}
      BY <1>1, <1>2
    <3>2. k + 1 # 0 /\ k + 1 # Len(q) + 1
      BY <1>2
    <3>3. QED
      BY <3>1, <3>2
  <2>2. QED
    BY <1>2, <1>3, <2>1
<1>5. PICK from : from = bars[c] + 1
  OBVIOUS
<1>6. from \in 1..(k + 1)
  BY <1>2, <1>3, <1>5
<1>7. Waiting(q, k) => from <= k
  <2>1. SUFFICES ASSUME Waiting(q, k), bars[c] = k PROVE FALSE
    BY <1>2, <1>3, <1>5
  <2>2. k > 0 /\ k # Len(q) + 1 /\ k \in Bars(q)
    BY <1>1, <1>2, <2>1 DEF Waiting
  <2>3. QED
    BY <2>1, <2>2 DEF Waiting, Bars
<1>8. PICK u : u = Step(st, q[k + 1])
  OBVIOUS
<1>9. PICK next : next = q[k + 1]
  OBVIOUS
<1>10. next \in Characters
  BY <1>2, <1>9, ElementOfSeq
<1>11. next = "pipe" => Waiting(q, k)
  <2>1. SUFFICES ASSUME next = "pipe", ~Waiting(q, k) PROVE FALSE
    OBVIOUS
  <2>2. k + 1 \in DOMAIN q /\ (k + 1) - 1 = k /\ (k = 0 => k + 1 = 1) /\ (k # 0 => k > 0)
    BY <1>2
  <2>3. k + 1 \in Bars(q)
    BY <1>9, <2>1, <2>2 DEF Waiting, Bars
  <2>4. QED
    BY <2>3
<1>12. st.escape <=> Waiting(q, k)
  BY DEF SplitUpTo
<1>13. PICK waited : waited = IF Waiting(q, k) /\ next # "pipe" THEN Append(st.current, "backslash") ELSE st.current
  OBVIOUS
<1>14. WaitedFor(q, from, k) \subseteq 1..k /\ waited = Chars(q, WaitedFor(q, from, k))
  <2>1. st.current = Chars(q, Solid(q, from, k))
    BY <1>5 DEF SplitUpTo
  <2>2. QED
    BY <1>6, <1>7, <1>9, <1>13, <2>1, WaitedChars
<1>15. /\ next = "backslash" => u.done = st.done /\ u.current = waited /\ u.escape
       /\ next # "backslash" => u.done = st.done /\ u.current = Append(waited, next) /\ ~u.escape
  <2>1. waited = IF st.escape /\ next # "pipe" THEN Append(st.current, "backslash") ELSE st.current
    BY <1>12, <1>13
  <2>2. next = "pipe" => st.escape
    BY <1>11, <1>12
  <2>3. CASE next = "backslash"
    BY <1>8, <1>9, <1>10, <2>1, <2>3, StepCases
  <2>4. CASE next # "backslash"
    <3>1. next # "backslash" /\ (next = "pipe" => st.escape)
      BY <2>2, <2>4
    <3>2. /\ u.done = st.done /\ ~u.escape
          /\ u.current = Append(IF st.escape /\ next # "pipe" THEN Append(st.current, "backslash")
                                ELSE st.current, next)
      BY <1>8, <1>9, <1>10, <3>1, StepCases
    <3>3. u.current = Append(waited, next)
      BY <2>1, <3>2
    <3>4. QED
      BY <2>4, <3>2, <3>3
  <2>5. QED
    BY <2>3, <2>4
<1>16. u.current = Chars(q, Solid(q, from, k + 1))
  <2>1. CASE next = "backslash"
    <3>1. Solid(q, from, k + 1) = WaitedFor(q, from, k)
      BY <1>6, <1>7, <1>9, <2>1, SolidGrows
    <3>2. QED
      BY <1>14, <1>15, <2>1, <3>1
  <2>2. CASE next # "backslash"
    <3>1. Solid(q, from, k + 1) = WaitedFor(q, from, k) \cup {k + 1}
      BY <1>6, <1>7, <1>9, <1>11, <2>2, SolidGrows
    <3>2. PICK W : W = WaitedFor(q, from, k)
      OBVIOUS
    <3>3. W \subseteq 1..Len(q) /\ \A i \in W : i < k + 1
      <4>1. W \subseteq 1..k
        BY <1>14, <3>2
      <4>2. QED
        BY <1>2, <4>1
    <3>4. Chars(q, W \cup {k + 1}) = Append(Chars(q, W), q[k + 1])
      BY <1>2, <3>3, CharsAdd
    <3>5. QED
      BY <1>9, <1>14, <1>15, <2>2, <3>1, <3>2, <3>4
  <2>3. QED
    BY <2>1, <2>2
<1>17. u.escape <=> Waiting(q, k + 1)
  <2>1. k + 1 > 0
    BY <1>2
  <2>2. Waiting(q, k + 1) <=> next = "backslash"
    BY <1>9, <2>1 DEF Waiting
  <2>3. QED
    BY <1>15, <2>2
<1>18. u.done = st.done
  BY <1>15
<1>19. bars[c] <= k + 1
  BY <1>2, <1>3
<1>20. SplitUpTo(q, bars, u, k + 1, c)
  BY <1>4, <1>5, <1>16, <1>17, <1>18, <1>19 DEF SplitUpTo
<1>21. QED
  BY <1>8, <1>20

LEMMA SplitStaysRight ==
  ASSUME NEW q \in Seq(Characters), NEW bars, bars = BarsOf(q), NEW st, NEW k \in 0..(Len(q) - 1),
         SplitRight(q, bars, st, k)
  PROVE  SplitRight(q, bars, Step(st, q[k + 1]), k + 1)
<1>1. PICK c \in 1..(Len(bars) - 1) : SplitUpTo(q, bars, st, k, c)
  BY DEF SplitRight
<1>2. st \in SplitStates
  BY DEF SplitRight
<1>3. Step(st, q[k + 1]) \in SplitStates
  <2>1. k + 1 \in 1..Len(q)
    OBVIOUS
  <2>2. q[k + 1] \in Characters
    BY <2>1, ElementOfSeq
  <2>3. QED
    BY <1>2, <2>2, StepType
<1>4. CASE k + 1 \in Bars(q)
  BY <1>1, <1>2, <1>3, <1>4, BarEndsPiece DEF SplitRight
<1>5. CASE k + 1 \notin Bars(q)
  <2>1. SplitUpTo(q, bars, Step(st, q[k + 1]), k + 1, c)
    BY <1>1, <1>2, <1>5, PieceGrows
  <2>2. QED
    BY <1>3, <2>1 DEF SplitRight
<1>6. QED
  BY <1>4, <1>5

LEMMA SplitEndsRight ==
  ASSUME NEW q \in Seq(Characters), NEW bars, bars = BarsOf(q)
  PROVE  SplitRight(q, bars, SplitFold(q), Len(q))
<1>1. PICK tr : /\ tr[0] = SplitStart
                /\ \A k \in 1..Len(q) : tr[k] = Step(tr[k - 1], q[k])
                /\ SplitFold(q) = tr[Len(q)]
  BY SplitTrace
<1> DEFINE right == {k \in 0..Len(q) : SplitRight(q, bars, tr[k], k)}
<1>2. Len(q) \in Nat
  OBVIOUS
<1>3. 0 \in right
  BY <1>1, <1>2, SplitStartsRight
<1>4. ASSUME NEW k \in 1..Len(q), k - 1 \in right PROVE k \in right
  <2>1. k - 1 \in 0..(Len(q) - 1) /\ SplitRight(q, bars, tr[k - 1], k - 1) /\ (k - 1) + 1 = k /\ k \in 0..Len(q)
    BY <1>2, <1>4
  <2>2. SplitRight(q, bars, Step(tr[k - 1], q[(k - 1) + 1]), (k - 1) + 1)
    BY <2>1, SplitStaysRight
  <2>3. tr[k] = Step(tr[k - 1], q[k])
    BY <1>1
  <2>4. QED
    BY <2>1, <2>2, <2>3
<1>5. 0..Len(q) \subseteq right
  <2> HIDE DEF right
  <2>1. QED
    BY <1>2, <1>3, <1>4, BoundedInduction
<1>6. Len(q) \in right
  BY <1>2, <1>5
<1>7. QED
  BY <1>1, <1>6

\* What was collected in the end, a waiting backslash included.
CollectedBy(end) == Append(end.done, IF end.escape THEN Append(end.current, "backslash") ELSE end.current)

\* The pieces that the code has collected at the end are those between the bars.
LEMMA CollectedPieces ==
  ASSUME NEW q \in Seq(Characters), NEW bars, bars = BarsOf(q), NEW all, all = CollectedBy(SplitFold(q))
  PROVE  /\ all \in Seq(Seq(Characters))
         /\ DOMAIN all = 1..(Len(bars) - 1)
         /\ \A m \in 1..(Len(bars) - 1) : all[m] = Piece(q, bars[m] + 1, bars[m + 1] - 1)
<1>1. /\ bars \in Seq(Nat) /\ Len(bars) \in Nat /\ Len(bars) >= 2
      /\ Increasing(bars) /\ bars[Len(bars)] = Len(q) + 1
      /\ \A m \in 1..Len(bars) : bars[m] \in 0..(Len(q) + 1)
      /\ \A m \in 1..Len(bars) : bars[m] \in Bars(q) \cup {0, Len(q) + 1}
  BY BarsAreInOrder
<1> DEFINE end == SplitFold(q)
<1>2. SplitRight(q, bars, end, Len(q))
  BY SplitEndsRight
<1> HIDE DEF end
<1>3. PICK c \in 1..(Len(bars) - 1) : SplitUpTo(q, bars, end, Len(q), c)
  BY <1>2 DEF SplitRight
<1>4. end.done \in Seq(Seq(Characters)) /\ end.current \in Seq(Characters)
  BY <1>2 DEF SplitRight, SplitStates
<1>5. Len(q) \in Nat /\ c \in Nat /\ c \in 1..Len(bars) /\ c + 1 \in 1..Len(bars)
  BY <1>1
<1>6. bars[c] <= Len(q) /\ Len(q) < bars[c + 1] /\ bars[c] \in Nat /\ bars[c + 1] \in Nat
  <2>1. bars[c] \in 0..(Len(q) + 1) /\ bars[c + 1] \in 0..(Len(q) + 1)
    BY <1>1, <1>5
  <2>2. bars[c] <= Len(q) /\ Len(q) < bars[c + 1]
    BY <1>3 DEF SplitUpTo
  <2>3. QED
    BY <1>5, <2>1, <2>2
<1>7. c + 1 = Len(bars) /\ bars[c + 1] = Len(q) + 1
  <2>1. c + 1 < Len(bars) => bars[c + 1] < bars[Len(bars)]
    <3>1. Len(bars) \in 1..Len(bars)
      BY <1>1
    <3>2. QED
      BY <1>1, <1>5, <3>1 DEF Increasing
  <2>2. c + 1 = Len(bars) \/ c + 1 < Len(bars)
    BY <1>1, <1>5
  <2>3. QED
    BY <1>1, <1>5, <1>6, <2>1, <2>2
<1>8. PICK from : from = bars[c] + 1
  OBVIOUS
<1>9. from \in 1..(Len(q) + 1) /\ from \in Nat
  BY <1>5, <1>6, <1>8
<1>10. PICK last : last = IF end.escape THEN Append(end.current, "backslash") ELSE end.current
  OBVIOUS
<1>11. end.current = Chars(q, Solid(q, from, Len(q))) /\ (end.escape <=> Waiting(q, Len(q)))
  BY <1>3, <1>8 DEF SplitUpTo
<1>12. last = Chars(q, Keeping(q, from, Len(q)))
  <2>1. ASSUME NEW i \in from..Len(q)
        PROVE  i \in Keeping(q, from, Len(q)) <=> i \in Solid(q, from, Len(q)) \/ (i = Len(q) /\ Waiting(q, Len(q)))
    <3>1. i \in Nat /\ i # 0 /\ (i = Len(q) \/ i < Len(q))
      BY <1>5, <1>9
    <3>2. i = Len(q) => Len(q) > 0 /\ ~(i < Len(q))
      BY <1>5, <3>1
    <3>3. QED
      BY <3>1, <3>2 DEF Keeping, Solid, Waiting
  <2>2. Keeping(q, from, Len(q)) \subseteq from..Len(q) /\ Solid(q, from, Len(q)) \subseteq from..Len(q)
    BY DEF Keeping, Solid
  <2>3. CASE Waiting(q, Len(q))
    <3>1. from <= Len(q)
      <4>1. SUFFICES ASSUME bars[c] = Len(q) PROVE FALSE
        BY <1>5, <1>6, <1>8
      <4>2. bars[c] \in Bars(q)
        <5>1. bars[c] \in Bars(q) \cup {0, Len(q) + 1}
          BY <1>1, <1>5
        <5>2. Len(q) # 0 /\ Len(q) # Len(q) + 1
          BY <1>5, <2>3 DEF Waiting
        <5>3. QED
          BY <4>1, <5>1, <5>2
      <4>3. QED
        BY <2>3, <4>1, <4>2 DEF Waiting, Bars
    <3>2. Len(q) \in from..Len(q) /\ Len(q) \in 1..Len(q)
      BY <1>5, <1>9, <3>1
    <3>3. Keeping(q, from, Len(q)) = Solid(q, from, Len(q)) \cup {Len(q)}
      BY <2>1, <2>2, <2>3, <3>2
    <3>4. q[Len(q)] = "backslash"
      BY <2>3 DEF Waiting
    <3>5. Len(q) \notin Solid(q, from, Len(q))
      BY <3>4 DEF Solid
    <3>6. Solid(q, from, Len(q)) \subseteq 1..Len(q) /\ \A i \in Solid(q, from, Len(q)) : i < Len(q)
      <4>1. ASSUME NEW i \in Solid(q, from, Len(q)) PROVE i \in 1..Len(q) /\ i < Len(q)
        <5>1. i \in from..Len(q) /\ i # Len(q)
          BY <2>2, <3>5
        <5>2. QED
          BY <1>5, <1>9, <5>1
      <4>2. QED
        BY <4>1
    <3>7. PICK S : S = Solid(q, from, Len(q))
      OBVIOUS
    <3>8. Chars(q, S \cup {Len(q)}) = Append(Chars(q, S), q[Len(q)])
      BY <3>2, <3>6, <3>7, CharsAdd
    <3>9. QED
      BY <1>10, <1>11, <2>3, <3>3, <3>4, <3>7, <3>8
  <2>4. CASE ~Waiting(q, Len(q))
    <3>1. Keeping(q, from, Len(q)) = Solid(q, from, Len(q))
      BY <2>1, <2>2, <2>4
    <3>2. QED
      BY <1>10, <1>11, <2>4, <3>1
  <2>5. QED
    BY <2>3, <2>4
<1>13. last = Piece(q, bars[c] + 1, bars[c + 1] - 1)
  <2>1. bars[c + 1] - 1 = Len(q)
    BY <1>5, <1>7
  <2>2. QED
    BY <1>8, <1>12, <2>1 DEF Piece, Keeping
<1>14. last \in Seq(Characters)
  <2>1. "backslash" \in Characters
    BY DEF Characters
  <2>2. QED
    BY <1>4, <1>10, <2>1, AppendProperties
<1>15. PICK done : done = end.done
  OBVIOUS
<1>16. /\ all \in Seq(Seq(Characters)) /\ DOMAIN all = 1..(Len(done) + 1)
       /\ \A i \in 1..Len(done) : all[i] = done[i]
       /\ all[Len(done) + 1] = last
  <2>1. all = Append(done, last) /\ done \in Seq(Seq(Characters))
    BY <1>4, <1>10, <1>15 DEF end, CollectedBy
  <2>2. PICK longer : longer = Append(done, last)
    OBVIOUS
  <2>3. /\ longer \in Seq(Seq(Characters)) /\ DOMAIN longer = 1..(Len(done) + 1)
        /\ \A i \in 1..Len(done) : longer[i] = done[i]
        /\ longer[Len(done) + 1] = last
    BY <1>14, <2>1, <2>2, AppendedList
  <2>4. QED
    BY <2>1, <2>2, <2>3
<1>17. Len(done) = c - 1 /\ \A m \in 1..(c - 1) : done[m] = Piece(q, bars[m] + 1, bars[m + 1] - 1)
  BY <1>3, <1>15 DEF SplitUpTo
<1>18. Len(done) + 1 = c /\ Len(bars) - 1 = c
  BY <1>1, <1>5, <1>7, <1>17
<1>19. ASSUME NEW m \in 1..c PROVE all[m] = Piece(q, bars[m] + 1, bars[m + 1] - 1)
  <2>1. CASE m = c
    BY <1>13, <1>16, <1>18, <2>1
  <2>2. CASE m # c
    <3>1. m \in 1..(c - 1)
      BY <1>5, <2>2
    <3>2. QED
      BY <1>16, <1>17, <3>1
  <2>3. QED
    BY <2>1, <2>2
<1>20. QED
  BY <1>16, <1>18, <1>19

\* A query is split as the reference says, and its patterns are of characters.
LEMMA SplitIsRight ==
  ASSUME NEW q \in Seq(Characters)
  PROVE  Split(q) = ReferenceSegments(q) /\ ToSet(Split(q)) \subseteq Seq(Characters)
<1>1. PICK bars : bars = BarsOf(q)
  OBVIOUS
<1>2. PICK all : all = CollectedBy(SplitFold(q))
  OBVIOUS
<1>3. /\ all \in Seq(Seq(Characters))
      /\ DOMAIN all = 1..(Len(bars) - 1)
      /\ \A m \in 1..(Len(bars) - 1) : all[m] = Piece(q, bars[m] + 1, bars[m + 1] - 1)
  BY <1>1, <1>2, CollectedPieces
<1>4. PICK pieces : pieces = [i \in DOMAIN all |-> Trimmed(all[i])]
  OBVIOUS
<1>5. pieces = [n \in 1..(Len(bars) - 1) |-> Trimmed(Piece(q, bars[n] + 1, bars[n + 1] - 1))]
  BY <1>3, <1>4
<1>6. PICK kept : kept = Those(pieces, ToSet(pieces) \ {<<>>})
  OBVIOUS
<1>7. Split(q) = IF kept = <<>> THEN <<<<>>>> ELSE kept
  BY <1>2, <1>4, <1>6 DEF Split, SplitFold, SplitStart, CollectedBy
<1>8. ReferenceSegments(q) = IF kept = <<>> THEN <<<<>>>> ELSE kept
  BY <1>1, <1>5, <1>6 DEF ReferenceSegments, BarsOf
<1>9. pieces \in Seq(Seq(Characters))
  <2>1. \A i \in DOMAIN all : Trimmed(all[i]) \in Seq(Characters)
    <3>1. TAKE i \in DOMAIN all
    <3>2. all[i] \in Seq(Characters)
      <4>1. DOMAIN all = 1..Len(all)
        BY <1>3
      <4>2. QED
        BY <1>3, <4>1, ElementOfSeq
    <3>3. QED
      BY <3>2, TrimmedType
  <2>2. DOMAIN all = 1..Len(all) /\ Len(all) \in Nat
    BY <1>3
  <2>3. pieces \in [1..Len(all) -> Seq(Characters)]
    BY <1>4, <2>1, <2>2
  <2>4. QED
    BY <2>2, <2>3
<1>10. ToSet(Split(q)) \subseteq Seq(Characters)
  <2>1. CASE kept = <<>>
    <3>1. Split(q) = <<<<>>>>
      BY <1>7, <2>1
    <3>2. ToSet(<<<<>>>>) = {<<>>}
      BY DEF ToSet
    <3>3. QED
      BY <3>1, <3>2, EmptySeq
  <2>2. CASE kept # <<>>
    <3>1. kept \in Seq(Seq(Characters))
      BY <1>6, <1>9, ThoseProperties
    <3>2. DOMAIN kept = 1..Len(kept)
      BY <3>1
    <3>3. ASSUME NEW i \in DOMAIN kept PROVE kept[i] \in Seq(Characters)
      BY <3>1, <3>2, <3>3, ElementOfSeq
    <3>4. Split(q) = kept
      BY <1>7, <2>2
    <3>5. QED
      BY <3>3, <3>4 DEF ToSet
  <2>3. QED
    BY <2>1, <2>2
<1>11. QED
  BY <1>7, <1>8, <1>10

\* A name is a pattern's last segment.
Named(name, p) ==
  /\ Len(name) <= Len(p)
  /\ \A i \in DOMAIN name : name[i] = p[Len(p) - Len(name) + i] /\ name[i] # "colons"
  /\ Len(name) < Len(p) => p[Len(p) - Len(name)] = "colons"

\* LastSegment, which looks from the right, gives the name that Named asks for.
LEMMA LastSegmentIsNamed ==
  ASSUME NEW p \in Seq(Characters), NEW name \in Seq(Characters)
  PROVE  name = LastSegment(p) <=> Named(name, p)
<1> DEFINE colons == {0} \cup {i \in DOMAIN p : p[i] = "colons"}
<1>1. /\ Len(p) \in Nat /\ DOMAIN p = 1..Len(p) /\ Len(name) \in Nat /\ DOMAIN name = 1..Len(name)
  OBVIOUS
<1>2. PICK b : b = CHOOSE i \in colons : \A j \in colons : j <= i
  OBVIOUS
<1>3. PICK last : last = LastSegment(p)
  OBVIOUS
<1>4. last = SubSeq(p, 1 + b, Len(p))
  BY <1>2, <1>3 DEF LastSegment
<1>5. b \in colons /\ \A j \in colons : j <= b
  <2>1. CASE colons = {0}
    <3>1. 0 \in colons /\ \A j \in colons : j <= 0
      BY <2>1
    <3>2. QED
      BY <1>2, <3>1
  <2>2. CASE colons # {0}
    <3>1. PICK s : s = colons \ {0}
      OBVIOUS
    <3>2. s \subseteq 1..Len(p) /\ s # {} /\ s \subseteq Nat
      BY <1>1, <2>2, <3>1
    <3>3. Max(s) \in s /\ \A j \in s : j <= Max(s)
      BY <1>1, <3>2, LargestPosition
    <3>4. PICK m \in s : m = Max(s)
      BY <3>3
    <3>5. m \in colons /\ m \in Nat
      BY <3>1, <3>2
    <3>6. ASSUME NEW j \in colons PROVE j <= m
      <4>1. j = 0 \/ j \in s
        BY <3>1
      <4>2. QED
        BY <3>3, <3>4, <3>5, <4>1
    <3> HIDE DEF colons
    <3>7. QED
      BY <1>2, <3>5, <3>6
  <2>3. QED
    BY <2>1, <2>2
<1>6. b \in 0..Len(p)
  BY <1>1, <1>5
<1>7. \A i \in (b + 1)..Len(p) : p[i] # "colons" /\ p[i] \in Characters
  <2>1. TAKE i \in (b + 1)..Len(p)
  <2>2. i \in 1..Len(p) /\ ~(i <= b)
    BY <1>1, <1>6
  <2>3. i \notin colons
    BY <1>5, <2>2
  <2>4. QED
    BY <1>1, <2>2, <2>3, ElementOfSeq
<1>8. b > 0 => p[b] = "colons"
  BY <1>1, <1>5
<1> HIDE DEF colons
<1>9. /\ last \in Seq(Characters) /\ Len(last) = Len(p) - b
      /\ \A i \in 1..(Len(p) - b) : last[i] = p[b + i]
  <2>1. 1 + b \in Int /\ Len(p) \in Int
    BY <1>1, <1>6
  <2>2. \A i \in (1 + b)..Len(p) : p[i] \in Characters
    BY <1>6, <1>7
  <2>3. /\ last \in Seq(Characters)
        /\ Len(last) = IF 1 + b <= Len(p) THEN Len(p) - (1 + b) + 1 ELSE 0
        /\ \A i \in 1..(Len(p) - (1 + b) + 1) : last[i] = p[(1 + b) + i - 1]
    BY <1>4, <2>1, <2>2, SubSeqProperties
  <2>4. Len(last) = Len(p) - b /\ Len(p) - (1 + b) + 1 = Len(p) - b
    <3>1. Len(last) = IF 1 + b <= Len(p) THEN Len(p) - (1 + b) + 1 ELSE 0
      BY <2>3
    <3>2. PICK size \in Nat : size = Len(p)
      BY <1>1
    <3>3. b \in 0..size
      BY <1>6, <3>2
    <3>4. size - (1 + b) + 1 = size - b /\ (~(1 + b <= size) => size - b = 0)
      BY <3>3
    <3>5. QED
      BY <3>1, <3>2, <3>4
  <2>5. ASSUME NEW i \in 1..(Len(p) - b) PROVE last[i] = p[b + i]
    <3>1. (1 + b) + i - 1 = b + i
      BY <1>1, <1>6
    <3>2. QED
      BY <2>3, <2>4, <3>1
  <2>6. QED
    BY <2>3, <2>4, <2>5
<1>10. ASSUME name = last PROVE Named(name, p)
  <2>1. Len(name) = Len(p) - b
    BY <1>9, <1>10
  <2>2. Len(name) <= Len(p) /\ Len(p) - Len(name) = b
    BY <1>1, <1>6, <2>1
  <2>3. ASSUME NEW i \in DOMAIN name PROVE name[i] = p[b + i] /\ name[i] # "colons"
    <3>1. i \in 1..(Len(p) - b) /\ b + i \in (b + 1)..Len(p)
      BY <1>1, <1>6, <2>1
    <3>2. QED
      BY <1>7, <1>9, <1>10, <3>1
  <2>4. Len(name) < Len(p) => b > 0
    BY <1>1, <1>6, <2>1
  <2>5. QED
    BY <1>8, <2>2, <2>3, <2>4 DEF Named
<1>11. ASSUME Named(name, p) PROVE name = last
  <2>1. /\ Len(name) <= Len(p)
        /\ \A i \in DOMAIN name : name[i] = p[Len(p) - Len(name) + i] /\ name[i] # "colons"
        /\ Len(name) < Len(p) => p[Len(p) - Len(name)] = "colons"
    BY <1>11 DEF Named
  <2>2. PICK d : d = Len(p) - Len(name)
    OBVIOUS
  <2>3. /\ d \in 0..Len(p) /\ Len(name) = Len(p) - d
        /\ \A i \in 1..Len(name) : name[i] = p[d + i] /\ name[i] # "colons"
        /\ d > 0 => p[d] = "colons"
    <3>1. d \in 0..Len(p) /\ Len(name) = Len(p) - d /\ (d > 0 => Len(name) < Len(p))
      BY <1>1, <2>1, <2>2
    <3>2. QED
      BY <1>1, <2>1, <2>2, <3>1
  <2>4. d <= b
    <3>1. CASE d > 0
      <4>1. d \in DOMAIN p /\ p[d] = "colons"
        BY <1>1, <2>3, <3>1
      <4>2. d \in colons
        BY <4>1 DEF colons
      <4>3. QED
        BY <1>5, <4>2
    <3>2. CASE ~(d > 0)
      BY <1>6, <2>3, <3>2
    <3>3. QED
      BY <3>1, <3>2
  <2>5. ~(b > d)
    <3>1. SUFFICES ASSUME b > d PROVE FALSE
      OBVIOUS
    <3>2. b - d \in 1..Len(name) /\ d + (b - d) = b /\ b > 0
      BY <1>1, <1>6, <2>3, <3>1
    <3>3. name[b - d] = p[b] /\ name[b - d] # "colons"
      BY <2>3, <3>2
    <3>4. QED
      BY <1>8, <3>2, <3>3
  <2>6. d = b
    BY <1>6, <2>3, <2>4, <2>5
  <2>7. Len(name) = Len(p) - b
    BY <2>3, <2>6
  <2>8. \A i \in 1..Len(name) : name[i] = last[i]
    BY <1>9, <2>3, <2>6, <2>7
  <2>9. QED
    BY <1>9, <2>7, <2>8, SeqEqual
<1>12. QED
  BY <1>3, <1>10, <1>11

------------------------------------------------------------------------------
\* Answers are short and merged.

\* A reply that is cut is its own beginning.
LEMMA CutFacts ==
  ASSUME NEW reply \in Replies, reply # Null
  PROVE  /\ Cut(reply) \in Seq(Entries) /\ Len(Cut(reply)) \in 0..Limit
         /\ DOMAIN Cut(reply) = 1..Len(Cut(reply))
         /\ \A j \in 1..Len(Cut(reply)) : Cut(reply)[j] = reply[j]
<1>1. reply \in Seq(Entries) /\ Limit \in Nat /\ Limit # 0
  BY MergeAssumption
<1>2. PICK r \in Seq(Entries) : r = reply
  BY <1>1
<1>3. Len(r) \in Nat /\ DOMAIN r = 1..Len(r) /\ \A i \in 1..Len(r) : r[i] \in Entries
  BY <1>2
<1>4. CASE Len(r) > Limit
  <2>1. PICK short : short = SubSeq(r, 1, Limit)
    OBVIOUS
  <2>2. Cut(reply) = short
    BY <1>2, <1>4, <2>1 DEF Cut
  <2>3. \A i \in 1..Limit : r[i] \in Entries
    BY <1>1, <1>3, <1>4
  <2>4. /\ short \in Seq(Entries) /\ Len(short) = IF 1 <= Limit THEN Limit - 1 + 1 ELSE 0
        /\ \A i \in 1..(Limit - 1 + 1) : short[i] = r[1 + i - 1]
    BY <1>1, <2>1, <2>3, SubSeqProperties
  <2>5. Len(short) = Limit /\ Limit - 1 + 1 = Limit /\ \A i \in 1..Limit : 1 + i - 1 = i
    BY <1>1, <2>4
  <2>6. DOMAIN short = 1..Len(short)
    BY <2>4
  <2>7. \A j \in 1..Len(short) : short[j] = r[j]
    BY <2>4, <2>5
  <2>8. QED
    BY <1>1, <1>2, <2>2, <2>4, <2>5, <2>6, <2>7
<1>5. CASE ~(Len(r) > Limit)
  <2>1. Cut(reply) = r
    BY <1>2, <1>5 DEF Cut
  <2>2. QED
    BY <1>1, <1>2, <1>3, <1>5, <2>1
<1>6. QED
  BY <1>4, <1>5

MergeEntry(acc, e) ==
  IF \E i \in DOMAIN acc : KeyOf[acc[i]] = KeyOf[e] THEN acc ELSE Append(acc, e)

\* extend_deduped, entry by entry.
LEMMA DedupTrace ==
  ASSUME NEW start \in Seq(Entries), NEW list \in Seq(Entries)
  PROVE  \E tr : /\ tr[0] = start
                 /\ \A k \in 1..Len(list) : tr[k] = MergeEntry(tr[k - 1], list[k])
                 /\ Deduped(start, list) = tr[Len(list)]
<1> DEFINE step == [p \in Seq(Entries) \X Entries |-> MergeEntry(p[1], p[2])]
<1> DEFINE IsFold(h) == h = [s \in SUBSET DOMAIN list |->
                               IF s = {} THEN start ELSE MergeEntry(h[s \ {Max(s)}], list[Max(s)])]
<1>1. step \in [Seq(Entries) \X Entries -> Seq(Entries)] /\ start \in Seq(Entries) /\ Len(list) \in Nat /\ DOMAIN list = 1..Len(list)
  <2>1. \A s \in Seq(Entries), e \in Entries : MergeEntry(s, e) \in Seq(Entries)
    BY AppendProperties DEF MergeEntry
  <2>2. QED
    BY <2>1
<1>2. PICK g \in [SUBSET (1..Len(list)) -> Seq(Entries)] : FoldsTo(g, step, start, list, Len(list))
  BY <1>1, FoldExists
<1>3. IsFold(g)
  <2>1. ASSUME NEW s \in SUBSET (1..Len(list)), s # {}
        PROVE  step[<<g[s \ {Max(s)}], list[Max(s)]>>] = MergeEntry(g[s \ {Max(s)}], list[Max(s)])
    <3>1. Max(s) \in 1..Len(list)
      BY <1>1, <2>1, LargestPosition
    <3>2. list[Max(s)] \in Entries
      BY <3>1, ElementOfSeq
    <3>3. g[s \ {Max(s)}] \in Seq(Entries)
      OBVIOUS
    <3>4. QED
      BY <3>2, <3>3
  <2> HIDE DEF step
  <2>2. g = [s \in SUBSET (1..Len(list)) |-> IF s = {} THEN start ELSE step[<<g[s \ {Max(s)}], list[Max(s)]>>]]
    BY <1>2 DEF FoldsTo
  <2>3. QED
    BY <1>1, <2>1, <2>2
<1> HIDE DEF step
<1> DEFINE iter == CHOOSE h : IsFold(h)
<1>4. IsFold(iter)
  BY <1>3
<1>5. Deduped(start, list) = iter[DOMAIN list]
  BY DEF Deduped, MergeEntry, FoldLeft, MapThenFoldSet
<1> HIDE DEF iter
<1> DEFINE tr == [k \in 0..Len(list) |-> iter[1..k]]
<1>6. tr[0] = start
  <2>1. 1..0 = {} /\ {} \in SUBSET DOMAIN list
    OBVIOUS
  <2>2. QED
    BY <1>1, <1>4, <2>1
<1>7. ASSUME NEW k \in 1..Len(list) PROVE tr[k] = MergeEntry(tr[k - 1], list[k])
  <2>1. 1..k \in SUBSET DOMAIN list /\ 1..k # {} /\ k \in Nat /\ k # 0 /\ k - 1 \in 0..Len(list)
    BY <1>1, InitialSegment
  <2>2. Max(1..k) = k /\ (1..k) \ {k} = 1..(k - 1)
    BY <2>1, MaxOfInitialSegment
  <2>3. iter[1..k] = MergeEntry(iter[1..(k - 1)], list[k])
    BY <1>4, <2>1, <2>2
  <2>4. QED
    BY <1>1, <2>1, <2>3
<1>8. Deduped(start, list) = tr[Len(list)]
  BY <1>1, <1>5
<1> HIDE DEF tr
<1>9. QED
  BY <1>6, <1>7, <1>8


\* The symbols listed at some places, in what key[p] is for a place p.
SameKeys(list, places, key) == {KeyOf[list[i]] : i \in DOMAIN list} = {key[p] : p \in places}
ListedFirst(list, places, key) ==
  \A i, j \in DOMAIN list : i < j =>
    \E p \in places : /\ key[p] = KeyOf[list[i]]
                      /\ \A r \in places : key[r] = KeyOf[list[j]] => Before(p, r)

\* An entry after all others is merged.
LEMMA MergeOne ==
  ASSUME NEW acc \in Seq(Entries), NEW e \in Entries, NEW places, NEW key, NEW last,
         SameKeys(acc, places, key), ListedFirst(acc, places, key),
         key[last] = KeyOf[e], \A p \in places : Before(p, last)
  PROVE  /\ MergeEntry(acc, e) \in Seq(Entries)
         /\ SameKeys(MergeEntry(acc, e), places \cup {last}, key)
         /\ ListedFirst(MergeEntry(acc, e), places \cup {last}, key)
<1>1. Len(acc) \in Nat /\ DOMAIN acc = 1..Len(acc)
  OBVIOUS
<1>2. /\ \A i \in DOMAIN acc : \E p \in places : key[p] = KeyOf[acc[i]]
      /\ \A p \in places : \E i \in DOMAIN acc : key[p] = KeyOf[acc[i]]
  BY DEF SameKeys
<1>3. CASE \E i \in DOMAIN acc : KeyOf[acc[i]] = KeyOf[e]
  <2>1. MergeEntry(acc, e) = acc
    BY <1>3 DEF MergeEntry
  <2>2. SameKeys(acc, places \cup {last}, key)
    BY <1>2, <1>3 DEF SameKeys
  <2>3. ASSUME NEW i \in DOMAIN acc, NEW j \in DOMAIN acc, i < j
        PROVE  \E p \in places \cup {last} :
                 /\ key[p] = KeyOf[acc[i]]
                 /\ \A r \in places \cup {last} : key[r] = KeyOf[acc[j]] => Before(p, r)
    <3>1. PICK p \in places : key[p] = KeyOf[acc[i]] /\ \A r \in places : key[r] = KeyOf[acc[j]] => Before(p, r)
      BY <2>3 DEF ListedFirst
    <3>2. QED
      BY <3>1
  <2>4. QED
    BY <2>1, <2>2, <2>3 DEF ListedFirst
<1>4. CASE ~(\E i \in DOMAIN acc : KeyOf[acc[i]] = KeyOf[e])
  <2>1. PICK u : u = Append(acc, e)
    OBVIOUS
  <2>2. MergeEntry(acc, e) = u
    BY <1>4, <2>1 DEF MergeEntry
  <2>3. /\ u \in Seq(Entries) /\ DOMAIN u = 1..(Len(acc) + 1)
        /\ \A i \in 1..Len(acc) : u[i] = acc[i]
        /\ u[Len(acc) + 1] = e
    BY <2>1, AppendedList
  <2>4. \A i \in DOMAIN u : (i \in DOMAIN acc /\ u[i] = acc[i]) \/ (i = Len(acc) + 1 /\ u[i] = e)
    <3>1. TAKE i \in DOMAIN u
    <3>2. i \in 1..Len(acc) \/ i = Len(acc) + 1
      BY <1>1, <2>3
    <3>3. QED
      BY <1>1, <2>3, <3>2
  <2>5. \A i \in DOMAIN acc : i \in DOMAIN u /\ u[i] = acc[i]
    BY <1>1, <2>3
  <2>6. Len(acc) + 1 \in DOMAIN u /\ u[Len(acc) + 1] = e
    BY <1>1, <2>3
  <2>7. SameKeys(u, places \cup {last}, key)
    <3>1. \A i \in DOMAIN u : \E p \in places \cup {last} : key[p] = KeyOf[u[i]]
      BY <1>2, <2>4
    <3>2. \A p \in places \cup {last} : \E i \in DOMAIN u : key[p] = KeyOf[u[i]]
      BY <1>2, <2>5, <2>6
    <3>3. QED
      BY <3>1, <3>2 DEF SameKeys
  <2>8. ASSUME NEW i \in DOMAIN u, NEW j \in DOMAIN u, i < j
        PROVE  \E p \in places \cup {last} :
                 /\ key[p] = KeyOf[u[i]]
                 /\ \A r \in places \cup {last} : key[r] = KeyOf[u[j]] => Before(p, r)
    <3>1. i \in DOMAIN acc /\ u[i] = acc[i]
      BY <1>1, <2>3, <2>8
    <3>2. CASE j \in DOMAIN acc
      <4>1. u[j] = acc[j]
        BY <2>5, <3>2
      <4>2. PICK p \in places : key[p] = KeyOf[acc[i]] /\ \A r \in places : key[r] = KeyOf[acc[j]] => Before(p, r)
        BY <2>8, <3>1, <3>2 DEF ListedFirst
      <4>3. QED
        BY <3>1, <4>1, <4>2
    <3>3. CASE j \notin DOMAIN acc
      <4>1. u[j] = e
        BY <2>4, <3>3
      <4>2. PICK p \in places : key[p] = KeyOf[acc[i]]
        BY <1>2, <3>1
      <4>3. ASSUME NEW r \in places \cup {last}, key[r] = KeyOf[u[j]] PROVE Before(p, r)
        <5>1. r \notin places
          BY <1>2, <1>4, <4>1, <4>3
        <5>2. QED
          BY <5>1
      <4>4. QED
        BY <3>1, <4>2, <4>3
    <3>4. QED
      BY <3>2, <3>3
  <2>9. QED
    BY <2>2, <2>3, <2>7, <2>8 DEF ListedFirst
<1>5. QED
  BY <1>3, <1>4

\* A list after all others is merged: its place j is at[j].
LEMMA MergeAll ==
  ASSUME NEW start \in Seq(Entries), NEW list \in Seq(Entries), NEW places, NEW key, NEW n \in Nat,
         SameKeys(start, places, key), ListedFirst(start, places, key),
         \A j \in 1..Len(list) : key[<<n, j>>] = KeyOf[list[j]],
         \A p \in places, j \in 1..Len(list) : Before(p, <<n, j>>)
  PROVE  /\ Deduped(start, list) \in Seq(Entries)
         /\ SameKeys(Deduped(start, list), places \cup {<<n, j>> : j \in 1..Len(list)}, key)
         /\ ListedFirst(Deduped(start, list), places \cup {<<n, j>> : j \in 1..Len(list)}, key)
<1>1. PICK tr : /\ tr[0] = start
                /\ \A k \in 1..Len(list) : tr[k] = MergeEntry(tr[k - 1], list[k])
                /\ Deduped(start, list) = tr[Len(list)]
  BY DedupTrace
<1> DEFINE upTo(k) == places \cup {<<n, j>> : j \in 1..k}
<1> DEFINE right == {k \in 0..Len(list) : /\ tr[k] \in Seq(Entries)
                                          /\ SameKeys(tr[k], upTo(k), key)
                                          /\ ListedFirst(tr[k], upTo(k), key)}
<1>2. Len(list) \in Nat
  OBVIOUS
<1>3. 0 \in right
  <2>1. upTo(0) = places /\ 0 \in 0..Len(list)
    BY <1>2
  <2> HIDE DEF upTo
  <2>2. QED
    BY <1>1, <2>1
<1>4. ASSUME NEW k \in 1..Len(list), k - 1 \in right PROVE k \in right
  <2>1. /\ tr[k - 1] \in Seq(Entries)
        /\ SameKeys(tr[k - 1], upTo(k - 1), key) /\ ListedFirst(tr[k - 1], upTo(k - 1), key)
    BY <1>4
  <2>2. upTo(k - 1) \cup {<<n, k>>} = upTo(k)
    <3>1. 1..k = (1..(k - 1)) \cup {k}
      BY <1>2
    <3>2. QED
      BY <3>1
  <2>3. \A p \in upTo(k - 1) : Before(p, <<n, k>>)
    <3>1. ASSUME NEW p \in upTo(k - 1) PROVE Before(p, <<n, k>>)
      <4>1. CASE p \in places
        BY <4>1
      <4>2. CASE \E j \in 1..(k - 1) : p = <<n, j>>
        <5>1. PICK j \in 1..(k - 1) : p = <<n, j>>
          BY <4>2
        <5>2. j < k
          BY <1>2
        <5>3. QED
          BY <5>1, <5>2 DEF Before
      <4>3. QED
        BY <4>1, <4>2
    <3>2. QED
      BY <3>1
  <2>4. list[k] \in Entries /\ key[<<n, k>>] = KeyOf[list[k]] /\ k \in 0..Len(list)
    BY ElementOfSeq
  <2>5. PICK before : before = upTo(k - 1)
    OBVIOUS
  <2> HIDE DEF upTo
  <2>6. /\ MergeEntry(tr[k - 1], list[k]) \in Seq(Entries)
        /\ SameKeys(MergeEntry(tr[k - 1], list[k]), before \cup {<<n, k>>}, key)
        /\ ListedFirst(MergeEntry(tr[k - 1], list[k]), before \cup {<<n, k>>}, key)
    BY <2>1, <2>3, <2>4, <2>5, MergeOne
  <2>7. tr[k] = MergeEntry(tr[k - 1], list[k])
    BY <1>1
  <2>8. QED
    BY <2>2, <2>4, <2>5, <2>6, <2>7
<1>5. 0..Len(list) \subseteq right
  <2> HIDE DEF right
  <2>1. QED
    BY <1>2, <1>3, <1>4, BoundedInduction
<1>6. Len(list) \in right
  <2>1. Len(list) \in 0..Len(list)
    BY <1>2
  <2> HIDE DEF right
  <2>2. QED
    BY <1>5, <2>1
<1>7. QED
  BY <1>1, <1>6

\* Where the answers so far list a symbol, and its key.
ListedIn(answers) ==
  {p \in (DOMAIN answers) \X (1..Limit) : answers[p[1]] # Null /\ p[2] \in DOMAIN Cut(answers[p[1]])}
KeysIn(answers) == [p \in ListedIn(answers) |-> KeyOf[answers[p[1]][p[2]]]]

\* How many symbols an answer lists.
Size(reply) == IF reply = Null THEN 0 ELSE Len(Cut(reply))

AddsTo(answers, reply, n, more) ==
  /\ more \in Seq(Replies) /\ n \in Nat /\ Size(reply) \in 0..Limit
  /\ ListedIn(more) = ListedIn(answers) \cup {<<n, j>> : j \in 1..Size(reply)}
  /\ \A p \in ListedIn(answers) : KeysIn(more)[p] = KeysIn(answers)[p]
  /\ \A j \in 1..Size(reply) : KeysIn(more)[<<n, j>>] = KeyOf[reply[j]]
  /\ \A p \in ListedIn(answers), j \in 1..Size(reply) : Before(p, <<n, j>>)

\* Another answer lists its symbols after all others.
LEMMA ListedGrows ==
  ASSUME NEW answers \in Seq(Replies), NEW reply \in Replies
  PROVE  AddsTo(answers, reply, Len(answers) + 1, Append(answers, reply))
<1>1. PICK n : n = Len(answers) + 1
  OBVIOUS
<1>2. PICK more : more = Append(answers, reply)
  OBVIOUS
<1>3. /\ more \in Seq(Replies) /\ Len(answers) \in Nat /\ DOMAIN answers = 1..Len(answers)
      /\ DOMAIN more = 1..n /\ n \in Nat
      /\ \A i \in 1..Len(answers) : more[i] = answers[i]
      /\ more[n] = reply
  BY <1>1, <1>2, AppendedList
<1>4. Limit \in Nat /\ Limit # 0
  BY MergeAssumption
<1>5. Size(reply) \in 0..Limit
  BY <1>4, CutFacts DEF Size
<1>6. reply # Null => DOMAIN Cut(reply) = 1..Size(reply)
  BY CutFacts DEF Size
<1>7. ASSUME NEW p \in ListedIn(more) PROVE p \in ListedIn(answers) \cup {<<n, j>> : j \in 1..Size(reply)}
  <2>1. p \in (DOMAIN more) \X (1..Limit) /\ more[p[1]] # Null /\ p[2] \in DOMAIN Cut(more[p[1]])
    BY DEF ListedIn
  <2>2. PICK i \in 1..n, j \in 1..Limit : p = <<i, j>>
    BY <1>3, <2>1
  <2>3. p[1] = i /\ p[2] = j
    BY <2>2
  <2>4. CASE i = n
    <3>1. reply # Null /\ j \in DOMAIN Cut(reply)
      BY <1>3, <2>1, <2>3, <2>4
    <3>2. QED
      BY <1>6, <2>2, <2>4, <3>1
  <2>5. CASE i # n
    <3>1. i \in 1..Len(answers)
      BY <1>3, <1>1, <2>5
    <3>2. more[i] = answers[i] /\ p \in (DOMAIN answers) \X (1..Limit)
      BY <1>3, <2>2, <3>1
    <3>3. QED
      BY <2>1, <2>3, <3>2 DEF ListedIn
  <2>6. QED
    BY <2>4, <2>5
<1>8. ASSUME NEW p \in ListedIn(answers)
      PROVE  /\ p \in ListedIn(more) /\ KeysIn(more)[p] = KeysIn(answers)[p]
             /\ \A j \in 1..Size(reply) : Before(p, <<n, j>>)
  <2>1. p \in (DOMAIN answers) \X (1..Limit) /\ answers[p[1]] # Null /\ p[2] \in DOMAIN Cut(answers[p[1]])
    BY DEF ListedIn
  <2>2. p[1] \in 1..Len(answers) /\ p[2] \in 1..Limit /\ p = <<p[1], p[2]>>
    BY <1>3, <2>1
  <2>3. more[p[1]] = answers[p[1]] /\ p[1] \in DOMAIN more /\ p[1] < n
    BY <1>3, <1>1, <2>2
  <2>4. p \in (DOMAIN more) \X (1..Limit)
    BY <2>2, <2>3
  <2>5. p \in ListedIn(more)
    BY <2>1, <2>3, <2>4 DEF ListedIn
  <2>6. KeysIn(more)[p] = KeyOf[more[p[1]][p[2]]] /\ KeysIn(answers)[p] = KeyOf[answers[p[1]][p[2]]]
    BY <2>5 DEF KeysIn
  <2>7. QED
    BY <2>3, <2>5, <2>6 DEF Before
<1>9. ASSUME NEW j \in 1..Size(reply)
      PROVE  <<n, j>> \in ListedIn(more) /\ KeysIn(more)[<<n, j>>] = KeyOf[reply[j]]
  <2>1. reply # Null
    BY DEF Size
  <2>2. j \in DOMAIN Cut(reply) /\ j \in 1..Limit /\ n \in DOMAIN more
    BY <1>3, <1>4, <1>5, <1>6, <1>1, <2>1
  <2>3. <<n, j>> \in ListedIn(more)
    BY <1>3, <2>1, <2>2 DEF ListedIn
  <2>4. QED
    BY <1>3, <2>3 DEF KeysIn
<1>10. ListedIn(more) = ListedIn(answers) \cup {<<n, j>> : j \in 1..Size(reply)}
  BY <1>7, <1>8, <1>9
<1>11. AddsTo(answers, reply, n, more)
  BY <1>3, <1>5, <1>8, <1>9, <1>10 DEF AddsTo
<1>12. QED
  BY <1>1, <1>2, <1>11

------------------------------------------------------------------------------
\* The search.

SomeCut(answers) == \E n \in DOMAIN answers : answers[n] # Null /\ Len(answers[n]) > Limit

\* What is wanted of what the answers list.
Keeps == {p \in ListedIn(got) : exact => Wanted(NamedAs[got[p[1]][p[2]]])}

Merged(list, answers) == SameKeys(list, ListedIn(answers), KeysIn(answers))
InTheirOrder(list, answers) == ListedFirst(list, ListedIn(answers), KeysIn(answers))

SearchTypes ==
  /\ query \in Seq(Characters)
  /\ exact \in BOOLEAN
  /\ got \in Seq(Replies)
  /\ items \in Seq(Entries)
  /\ truncated \in BOOLEAN
  /\ search \in {"off", "split", "searching", "merged", "mixed", "failed", "written"}

\* The merge is right after every answer, which is more than what the reference says of
\* its end; the one answer of a search for one pattern keeps its own order.
SearchInv ==
  /\ SearchTypes
  /\ search \in {"off", "split"} => got = <<>> /\ items = <<>> /\ ~truncated
  /\ SplitIsReference
  /\ search \in {"searching", "merged", "written"} => (truncated <=> SomeCut(got))
  /\ search \in {"searching", "merged"} => Merged(items, got)
  /\ search = "written" => SameKeys(items, Keeps, KeysIn(got))
  /\ search = "searching" => InTheirOrder(items, got)
  /\ search \in {"merged", "written"} /\ Len(got) > 1 => InTheirOrder(items, got)

\* Before the first answer.
LEMMA NothingListed == ListedIn(<<>>) = {} /\ ~SomeCut(<<>>) /\ Merged(<<>>, <<>>) /\ InTheirOrder(<<>>, <<>>)
<1>1. DOMAIN <<>> = {}
  BY NoPosition
<1>2. ListedIn(<<>>) = {}
  BY <1>1 DEF ListedIn
<1>3. ~SomeCut(<<>>)
  BY <1>1 DEF SomeCut
<1>4. Merged(<<>>, <<>>) /\ InTheirOrder(<<>>, <<>>)
  BY <1>1, <1>2 DEF Merged, InTheirOrder, SameKeys, ListedFirst
<1>5. QED
  BY <1>2, <1>3, <1>4

\* Some answer was cut, with one answer more.
LEMMA OneMoreCut ==
  ASSUME NEW answers \in Seq(Replies), NEW reply \in Replies
  PROVE  SomeCut(Append(answers, reply)) <=> SomeCut(answers) \/ IsCut(reply)
<1>1. PICK more : more = Append(answers, reply)
  OBVIOUS
<1>2. /\ Len(answers) \in Nat /\ DOMAIN answers = 1..Len(answers)
      /\ DOMAIN more = 1..(Len(answers) + 1)
      /\ \A i \in 1..Len(answers) : more[i] = answers[i]
      /\ more[Len(answers) + 1] = reply
  BY <1>1, AppendedList
<1>3. \A i \in DOMAIN more : i \in DOMAIN answers \/ i = Len(answers) + 1
  BY <1>2
<1>4. DOMAIN answers \subseteq DOMAIN more /\ Len(answers) + 1 \in DOMAIN more
  BY <1>2
<1>5. \A i \in DOMAIN answers : more[i] = answers[i]
  BY <1>2
<1>6. QED
  BY <1>1, <1>2, <1>3, <1>4, <1>5 DEF SomeCut, IsCut

\* Only the keys of the places that are listed matter.
LEMMA SameKeysAgree ==
  ASSUME NEW list, NEW places, NEW key, NEW other, \A p \in places : key[p] = other[p]
  PROVE  /\ SameKeys(list, places, key) => SameKeys(list, places, other)
         /\ ListedFirst(list, places, key) => ListedFirst(list, places, other)
<1>1. {key[p] : p \in places} = {other[p] : p \in places}
  OBVIOUS
<1>2. SameKeys(list, places, key) => SameKeys(list, places, other)
  BY <1>1 DEF SameKeys
<1>3. ASSUME ListedFirst(list, places, key), NEW i \in DOMAIN list, NEW j \in DOMAIN list, i < j
      PROVE  \E p \in places : /\ other[p] = KeyOf[list[i]]
                               /\ \A r \in places : other[r] = KeyOf[list[j]] => Before(p, r)
  <2>1. PICK p \in places : key[p] = KeyOf[list[i]] /\ \A r \in places : key[r] = KeyOf[list[j]] => Before(p, r)
    BY <1>3 DEF ListedFirst
  <2>2. QED
    BY <2>1
<1>4. QED
  BY <1>2, <1>3 DEF ListedFirst

\* A cut reply is a list.
LEMMA NullIsNoList == \A reply \in Replies : reply # Null => Cut(reply) # Null
  BY MergeAssumption, CutFacts

\* An answer merged into what its predecessors listed.
LEMMA AnswerMerges ==
  ASSUME NEW answers \in Seq(Replies), NEW reply \in Replies, NEW list \in Seq(Entries),
         Merged(list, answers), InTheirOrder(list, answers),
         NEW longer, longer = IF reply = Null THEN list ELSE Deduped(list, Cut(reply))
  PROVE  /\ longer \in Seq(Entries)
         /\ Merged(longer, Append(answers, reply)) /\ InTheirOrder(longer, Append(answers, reply))
<1>1. PICK n : n = Len(answers) + 1
  OBVIOUS
<1>2. PICK more : more = Append(answers, reply)
  OBVIOUS
<1>3. /\ more \in Seq(Replies) /\ n \in Nat /\ Size(reply) \in 0..Limit
      /\ ListedIn(more) = ListedIn(answers) \cup {<<n, j>> : j \in 1..Size(reply)}
      /\ \A p \in ListedIn(answers) : KeysIn(more)[p] = KeysIn(answers)[p]
      /\ \A j \in 1..Size(reply) : KeysIn(more)[<<n, j>>] = KeyOf[reply[j]]
      /\ \A p \in ListedIn(answers), j \in 1..Size(reply) : Before(p, <<n, j>>)
  BY <1>1, <1>2, ListedGrows DEF AddsTo
<1>4. PICK key : key = KeysIn(more)
  OBVIOUS
<1>5. SameKeys(list, ListedIn(answers), key) /\ ListedFirst(list, ListedIn(answers), key)
  <2>1. PICK old : old = KeysIn(answers)
    OBVIOUS
  <2>2. SameKeys(list, ListedIn(answers), old) /\ ListedFirst(list, ListedIn(answers), old)
    BY <2>1 DEF Merged, InTheirOrder
  <2>3. \A p \in ListedIn(answers) : old[p] = key[p]
    BY <1>3, <1>4, <2>1
  <2>4. QED
    BY <2>2, <2>3, SameKeysAgree
<1>6. CASE reply = Null
  <2>1. 1..Size(reply) = {}
    BY <1>6 DEF Size
  <2>2. ListedIn(more) = ListedIn(answers)
    BY <1>3, <2>1
  <2>3. QED
    BY <1>2, <1>4, <1>5, <1>6, <2>2 DEF Merged, InTheirOrder
<1>7. CASE reply # Null
  <2>1. PICK short : short = Cut(reply)
    OBVIOUS
  <2>2. /\ short \in Seq(Entries) /\ Len(short) = Size(reply)
        /\ \A j \in 1..Len(short) : short[j] = reply[j]
    BY <1>7, <2>1, CutFacts DEF Size
  <2>3. \A j \in 1..Len(short) : key[<<n, j>>] = KeyOf[short[j]]
    BY <1>3, <1>4, <2>2
  <2>4. \A p \in ListedIn(answers), j \in 1..Len(short) : Before(p, <<n, j>>)
    BY <1>3, <2>2
  <2>5. PICK places : places = ListedIn(answers)
    OBVIOUS
  <2>6. /\ Deduped(list, short) \in Seq(Entries)
        /\ SameKeys(Deduped(list, short), places \cup {<<n, j>> : j \in 1..Len(short)}, key)
        /\ ListedFirst(Deduped(list, short), places \cup {<<n, j>> : j \in 1..Len(short)}, key)
    BY <1>3, <1>5, <2>2, <2>3, <2>4, <2>5, MergeAll
  <2>7. longer = Deduped(list, short) /\ ListedIn(more) = places \cup {<<n, j>> : j \in 1..Len(short)}
    BY <1>3, <1>7, <2>1, <2>2, <2>5
  <2>8. QED
    BY <1>2, <1>4, <2>6, <2>7 DEF Merged, InTheirOrder
<1>8. QED
  BY <1>6, <1>7

\* Each step of a search keeps its invariant: the split ...
LEMMA SplitQueryKeepsSearch == SearchInv /\ SplitQuery => SearchInv'
<1> SUFFICES ASSUME SearchInv, SplitQuery PROVE SearchInv'
  OBVIOUS
<1>1. /\ search = "split" /\ search' = "searching" /\ segments' = Split(query)
      /\ UNCHANGED <<query, exact, shape, items, truncated, got>>
  BY DEF SplitQuery
<1>2. got = <<>> /\ items = <<>> /\ ~truncated
  BY <1>1 DEF SearchInv
<1>3. SearchTypes'
  BY <1>1 DEF SearchInv, SearchTypes
<1>4. SplitIsReference'
  <2>1. query \in Seq(Characters)
    BY DEF SearchInv, SearchTypes
  <2>2. segments' = ReferenceSegments(query')
    BY <1>1, <2>1, SplitIsRight
  <2>3. QED
    BY <2>2 DEF SplitIsReference
<1>5. got' = <<>> /\ items' = <<>> /\ ~truncated'
  BY <1>1, <1>2
<1>6. ~SomeCut(got') /\ Merged(items', got') /\ InTheirOrder(items', got')
  BY <1>5, NothingListed
<1>7. QED
  BY <1>1, <1>3, <1>4, <1>5, <1>6 DEF SearchInv

\* ... the answer of a query with one pattern ...
LEMMA SingleAnsweredKeepsSearch ==
  ASSUME SearchInv, NEW reply \in Replies, SingleAnswered(reply)
  PROVE  SearchInv'
<1>1. /\ search = "searching" /\ got = <<>> /\ got' = <<reply>> /\ truncated' = IsCut(reply)
      /\ items' = IF reply = Null THEN <<>> ELSE Cut(reply)
      /\ search' = "merged"
      /\ UNCHANGED <<query, exact, shape>>
  BY DEF SingleAnswered
<1>2. <<>> \in Seq(Replies) /\ <<reply>> = Append(<<>>, reply) /\ Len(<<>>) = 0
  BY EmptySeq
<1>3. PICK short : short = IF reply = Null THEN <<>> ELSE Cut(reply)
  OBVIOUS
<1>4. /\ short \in Seq(Entries) /\ DOMAIN short = 1..Size(reply)
      /\ \A j \in 1..Size(reply) : short[j] = reply[j]
  <2>1. CASE reply = Null
    <3>1. short = <<>> /\ 1..Size(reply) = {}
      BY <1>3, <2>1 DEF Size
    <3>2. QED
      BY <3>1, EmptySeq, NoPosition
  <2>2. CASE reply # Null
    BY <1>3, <2>2, CutFacts DEF Size
  <2>3. QED
    BY <2>1, <2>2
<1>5. PICK more : more = Append(<<>>, reply)
  OBVIOUS
<1>6. /\ more \in Seq(Replies)
      /\ ListedIn(more) = ListedIn(<<>>) \cup {<<1, j>> : j \in 1..Size(reply)}
      /\ \A j \in 1..Size(reply) : KeysIn(more)[<<1, j>>] = KeyOf[reply[j]]
  <2>1. 1 = Len(<<>>) + 1
    BY <1>2
  <2>2. QED
    <3>1. AddsTo(<<>>, reply, Len(<<>>) + 1, Append(<<>>, reply))
      BY <1>2, ListedGrows
    <3>2. AddsTo(<<>>, reply, 1, more)
      BY <1>5, <2>1, <3>1
    <3>3. QED
      BY <3>2 DEF AddsTo
<1>7. got' = more /\ Len(more) = 1
  BY <1>1, <1>2, <1>5
<1>8. Merged(items', got')
  <2>1. PICK key : key = KeysIn(more)
    OBVIOUS
  <2>2. ListedIn(more) = {<<1, j>> : j \in 1..Size(reply)}
    BY <1>6, NothingListed
  <2>3. \A i \in DOMAIN short : \E p \in ListedIn(more) : KeyOf[short[i]] = key[p]
    BY <1>4, <1>6, <2>1, <2>2
  <2>4. \A p \in ListedIn(more) : \E i \in DOMAIN short : KeyOf[short[i]] = key[p]
    <3>1. TAKE p \in ListedIn(more)
    <3>2. PICK j \in 1..Size(reply) : p = <<1, j>>
      BY <2>2
    <3>3. QED
      BY <1>4, <1>6, <2>1, <3>2
  <2>5. SameKeys(short, ListedIn(more), key)
    BY <2>3, <2>4 DEF SameKeys
  <2>6. QED
    BY <1>1, <1>3, <1>7, <2>1, <2>5 DEF Merged
<1>9. SearchTypes'
  <2>1. IsCut(reply) \in BOOLEAN
    BY DEF IsCut
  <2>2. QED
    BY <1>1, <1>3, <1>4, <1>6, <1>7, <2>1 DEF SearchInv, SearchTypes
<1>10. truncated' <=> SomeCut(got')
  <2>1. SomeCut(more) <=> SomeCut(<<>>) \/ IsCut(reply)
    BY <1>2, <1>5, OneMoreCut
  <2>2. QED
    BY <1>1, <1>7, <2>1, NothingListed
<1>11. SplitIsReference'
  BY <1>1 DEF SplitIsReference
<1>12. ~(Len(got') > 1)
  BY <1>7
<1>13. QED
  BY <1>1, <1>8, <1>9, <1>10, <1>11, <1>12 DEF SearchInv

\* ... the answer for one of several ...
LEMMA SegmentAnsweredKeepsSearch ==
  ASSUME SearchInv, NEW reply \in Replies, SegmentAnswered(reply)
  PROVE  SearchInv'
<1>1. /\ search = "searching" /\ got' = Append(got, reply)
      /\ truncated' = (truncated \/ IsCut(reply))
      /\ UNCHANGED <<query, exact>>
  BY DEF SegmentAnswered
<1>2. CASE search' = "mixed"
  <2>1. UNCHANGED items
    BY <1>2 DEF SegmentAnswered
  <2>2. QED
    BY <1>1, <1>2, <2>1, AppendProperties DEF SearchInv, SearchTypes, SplitIsReference, IsCut
<1>3. CASE search' # "mixed"
  <2>1. /\ search' \in {"searching", "merged"}
        /\ items' = IF reply = Null THEN items ELSE Deduped(items, Cut(reply))
    <3>1. CASE Cut(reply) = Null
      <4>1. reply = Null
        BY <3>1, NullIsNoList
      <4>2. QED
        BY <3>1, <4>1 DEF SegmentAnswered
    <3>2. CASE Cut(reply) # Null
      <4>1. reply # Null
        BY <3>2 DEF Cut
      <4>2. QED
        BY <1>3, <3>2, <4>1 DEF SegmentAnswered
    <3>3. QED
      BY <3>1, <3>2
  <2>2. got \in Seq(Replies) /\ items \in Seq(Entries) /\ Merged(items, got) /\ InTheirOrder(items, got)
    BY <1>1 DEF SearchInv, SearchTypes
  <2>3. PICK answers \in Seq(Replies) : answers = got
    BY <2>2
  <2>4. PICK list \in Seq(Entries) : list = items
    BY <2>2
  <2>5. PICK longer : longer = items'
    OBVIOUS
  <2>6. longer = IF reply = Null THEN list ELSE Deduped(list, Cut(reply))
    BY <2>1, <2>4, <2>5
  <2>7. /\ longer \in Seq(Entries)
        /\ Merged(longer, Append(answers, reply)) /\ InTheirOrder(longer, Append(answers, reply))
    BY <2>2, <2>3, <2>4, <2>6, AnswerMerges
  <2>8. items' \in Seq(Entries) /\ Merged(items', got') /\ InTheirOrder(items', got')
    BY <1>1, <2>3, <2>5, <2>7
  <2>9. /\ got' \in Seq(Replies) /\ got' # <<>>
        /\ SomeCut(got') <=> SomeCut(got) \/ IsCut(reply)
    BY <1>1, <2>2, AppendedList, OneMoreCut
  <2>10. truncated' <=> SomeCut(got')
    BY <1>1, <2>9 DEF SearchInv
  <2>11. SearchTypes'
    BY <1>1, <2>1, <2>8, <2>9 DEF SearchInv, SearchTypes, IsCut
  <2>12. SplitIsReference'
    BY <2>9 DEF SplitIsReference
  <2>13. QED
    BY <2>1, <2>8, <2>10, <2>11, <2>12 DEF SearchInv
<1>4. QED
  BY <1>2, <1>3

\* A name is wanted if it is the last segment of a pattern.
LEMMA WantedNames ==
  ASSUME query \in Seq(Characters), NEW e \in Entries
  PROVE  Wanted(NamedAs[e]) <=> NamedAs[e] \in {LastSegment(p) : p \in ToSet(Split(query))}
<1>1. NamedAs[e] \in Seq(Characters)
  BY MergeAssumption
<1>2. PICK patterns : patterns = ToSet(Split(query))
  OBVIOUS
<1>3. patterns = ToSet(ReferenceSegments(query)) /\ patterns \subseteq Seq(Characters)
  BY <1>2, SplitIsRight
<1>4. PICK name \in Seq(Characters) : name = NamedAs[e]
  BY <1>1
<1>5. Wanted(name) <=> \E p \in patterns : Named(name, p)
  BY <1>3 DEF Wanted, Named
<1>6. \A p \in patterns : Named(name, p) <=> name = LastSegment(p)
  BY <1>3, LastSegmentIsNamed
<1>7. QED
  BY <1>2, <1>4, <1>5, <1>6

\* An entry and the place that lists its key agree on their name.
LEMMA ListedEntry ==
  ASSUME SearchTypes, NEW p \in ListedIn(got)
  PROVE  /\ got[p[1]][p[2]] \in Entries
         /\ KeysIn(got)[p] = KeyOf[got[p[1]][p[2]]]
<1>1. p \in (DOMAIN got) \X (1..Limit) /\ got[p[1]] # Null /\ p[2] \in DOMAIN Cut(got[p[1]])
  BY DEF ListedIn
<1>2. got \in Seq(Replies) /\ DOMAIN got = 1..Len(got)
  BY DEF SearchTypes
<1>3. PICK reply \in Replies : reply = got[p[1]]
  <2>1. p[1] \in 1..Len(got)
    BY <1>1, <1>2
  <2>2. QED
    BY <1>2, <2>1, ElementOfSeq
<1>4. PICK short : short = Cut(reply)
  OBVIOUS
<1>5. /\ short \in Seq(Entries) /\ DOMAIN short = 1..Len(short)
      /\ \A j \in 1..Len(short) : short[j] = reply[j]
  BY <1>1, <1>3, <1>4, CutFacts
<1>6. p[2] \in 1..Len(short)
  BY <1>1, <1>3, <1>4, <1>5
<1>7. short[p[2]] \in Entries
  BY <1>5, <1>6, ElementOfSeq
<1>8. QED
  BY <1>3, <1>5, <1>6, <1>7 DEF KeysIn

\* --exact leaves the entries with a wanted name, in the order they had.
LEMMA ExactKeeps ==
  ASSUME SearchInv, search = "merged", exact
  PROVE  /\ Exact(items) \in Seq(Entries)
         /\ SameKeys(Exact(items), Keeps, KeysIn(got))
         /\ Len(got) > 1 => InTheirOrder(Exact(items), got)
<1>1. SearchTypes /\ Merged(items, got) /\ (Len(got) > 1 => InTheirOrder(items, got))
  BY DEF SearchInv
<1>2. PICK names : names = {LastSegment(p) : p \in ToSet(Split(query))}
  OBVIOUS
<1>3. PICK wanted : wanted = {e \in Entries : NamedAs[e] \in names}
  OBVIOUS
<1>4. PICK list \in Seq(Entries) : list = items
  BY <1>1 DEF SearchTypes
<1>5. PICK r : r = Those(list, wanted)
  OBVIOUS
<1>6. Exact(items) = r
  BY <1>2, <1>3, <1>4, <1>5 DEF Exact
<1>7. r \in Seq(Entries) /\ DOMAIN r = 1..Len(r) /\ DOMAIN list = 1..Len(list) /\ Len(list) \in Nat
  BY <1>5, ThoseArePicked DEF HasPicked
<1>8. PICK position : Picks(position, r, list, Len(list), wanted)
  BY <1>5, ThoseArePicked DEF HasPicked
<1>9. /\ \A i \in DOMAIN r : position[i] \in DOMAIN list /\ r[i] = list[position[i]] /\ r[i] \in wanted
      /\ \A i, j \in DOMAIN r : i < j => position[i] < position[j]
      /\ \A k \in DOMAIN list : list[k] \in wanted => \E i \in DOMAIN r : position[i] = k
  BY <1>7, <1>8 DEF Picks
<1>10. \A e \in Entries : e \in wanted <=> Wanted(NamedAs[e])
  <2>1. TAKE e \in Entries
  <2>2. Wanted(NamedAs[e]) <=> NamedAs[e] \in names
    BY <1>1, <1>2, WantedNames DEF SearchTypes
  <2>3. QED
    BY <1>3, <2>2
<1>11. \A d, e \in Entries : KeyOf[d] = KeyOf[e] => NamedAs[d] = NamedAs[e]
  BY MergeAssumption
<1>12. PICK key : key = KeysIn(got)
  OBVIOUS
<1>13. /\ \A i \in DOMAIN list : \E p \in ListedIn(got) : key[p] = KeyOf[list[i]]
       /\ \A p \in ListedIn(got) : \E i \in DOMAIN list : key[p] = KeyOf[list[i]]
  <2>1. SameKeys(list, ListedIn(got), key)
    BY <1>1, <1>4, <1>12 DEF Merged
  <2>2. QED
    BY <2>1 DEF SameKeys
<1>14. \A i \in DOMAIN list : list[i] \in Entries
  BY <1>7, ElementOfSeq
<1>15. \A p \in ListedIn(got) : got[p[1]][p[2]] \in Entries /\ key[p] = KeyOf[got[p[1]][p[2]]]
  BY <1>1, <1>12, ListedEntry
<1>16. ASSUME NEW i \in DOMAIN r PROVE \E p \in Keeps : key[p] = KeyOf[r[i]]
  <2>1. position[i] \in DOMAIN list /\ r[i] = list[position[i]] /\ r[i] \in wanted /\ r[i] \in Entries
    BY <1>9, <1>14
  <2>2. PICK p \in ListedIn(got) : key[p] = KeyOf[r[i]]
    BY <1>13, <2>1
  <2>3. NamedAs[got[p[1]][p[2]]] = NamedAs[r[i]]
    BY <1>11, <1>15, <2>1, <2>2
  <2>4. p \in Keeps
    BY <1>10, <2>1, <2>3 DEF Keeps
  <2>5. QED
    BY <2>2, <2>4
<1>17. ASSUME NEW p \in Keeps PROVE \E i \in DOMAIN r : key[p] = KeyOf[r[i]]
  <2>1. p \in ListedIn(got) /\ Wanted(NamedAs[got[p[1]][p[2]]])
    BY DEF Keeps
  <2>2. PICK k \in DOMAIN list : key[p] = KeyOf[list[k]]
    BY <1>13, <2>1
  <2>3. NamedAs[got[p[1]][p[2]]] = NamedAs[list[k]]
    BY <1>11, <1>14, <1>15, <2>1, <2>2
  <2>4. list[k] \in wanted
    BY <1>10, <1>14, <2>1, <2>3
  <2>5. PICK i \in DOMAIN r : position[i] = k
    BY <1>9, <2>4
  <2>6. QED
    BY <1>9, <2>2, <2>5
<1>18. SameKeys(r, Keeps, key)
  BY <1>16, <1>17 DEF SameKeys
<1>19. ASSUME Len(got) > 1, NEW i \in DOMAIN r, NEW j \in DOMAIN r, i < j
       PROVE  \E p \in ListedIn(got) : /\ key[p] = KeyOf[r[i]]
                                       /\ \A q \in ListedIn(got) : key[q] = KeyOf[r[j]] => Before(p, q)
  <2>1. /\ position[i] \in DOMAIN list /\ position[j] \in DOMAIN list /\ position[i] < position[j]
        /\ r[i] = list[position[i]] /\ r[j] = list[position[j]]
    BY <1>9, <1>19
  <2>2. ListedFirst(list, ListedIn(got), key)
    BY <1>1, <1>4, <1>12, <1>19 DEF InTheirOrder
  <2>3. QED
    BY <2>1, <2>2 DEF ListedFirst
<1>20. Len(got) > 1 => ListedFirst(r, ListedIn(got), key)
  BY <1>19 DEF ListedFirst
<1>21. QED
  BY <1>6, <1>7, <1>12, <1>18, <1>20 DEF InTheirOrder

\* ... --exact and the output ...
LEMMA WriteSearchKeepsSearch == SearchInv /\ WriteSearch => SearchInv'
<1> SUFFICES ASSUME SearchInv, WriteSearch PROVE SearchInv'
  OBVIOUS
<1>1. /\ search = "merged" /\ search' = "written"
      /\ items' = IF exact THEN Exact(items) ELSE items
      /\ UNCHANGED <<query, exact, segments, shape, truncated, got>>
  BY DEF WriteSearch
<1>2. /\ SearchTypes /\ (truncated <=> SomeCut(got)) /\ Merged(items, got)
      /\ Len(got) > 1 => InTheirOrder(items, got)
  BY <1>1 DEF SearchInv
<1>3. Keeps' = Keeps
  <2>1. \A name : Wanted(name)' <=> Wanted(name)
    BY <1>1 DEF Wanted
  <2>2. QED
    BY <1>1, <2>1 DEF Keeps
<1>4. /\ items' \in Seq(Entries)
      /\ SameKeys(items', Keeps, KeysIn(got))
      /\ Len(got) > 1 => InTheirOrder(items', got)
  <2>1. CASE exact
    BY <1>1, <2>1, ExactKeeps
  <2>2. CASE ~exact
    <3>1. Keeps = ListedIn(got)
      BY <2>2 DEF Keeps
    <3>2. QED
      BY <1>1, <1>2, <2>2, <3>1 DEF Merged, SearchTypes
  <2>3. QED
    BY <2>1, <2>2
<1>5. SearchTypes'
  BY <1>1, <1>2, <1>4 DEF SearchTypes
<1>6. SplitIsReference'
  BY <1>1 DEF SplitIsReference
<1>7. SameKeys(items', Keeps', KeysIn(got')) /\ (Len(got') > 1 => InTheirOrder(items', got'))
  BY <1>1, <1>3, <1>4
<1>8. truncated' <=> SomeCut(got')
  BY <1>1, <1>2
<1>9. QED
  BY <1>1, <1>5, <1>6, <1>7, <1>8 DEF SearchInv

\* ... the start and a failure.
LEMMA OtherStepsKeepSearch ==
  ASSUME SearchInv, BeginSearch \/ SearchFails
  PROVE  SearchInv'
<1>1. /\ search' = "split" \/ search' = "failed"
      /\ search' = "split" => search = "off"
      /\ UNCHANGED <<query, exact, items, truncated, got>>
  BY DEF BeginSearch, SearchFails
<1>2. SearchTypes'
  BY <1>1 DEF SearchInv, SearchTypes
<1>3. search' = "split" => got' = <<>> /\ items' = <<>> /\ ~truncated'
  BY <1>1 DEF SearchInv
<1>4. SplitIsReference'
  BY <1>1 DEF SplitIsReference
<1>5. QED
  BY <1>1, <1>2, <1>3, <1>4 DEF SearchInv

\* Steps of the other parts leave it alone.
LEMMA SearchStands ==
  ASSUME SearchInv, UNCHANGED searchVars
  PROVE  SearchInv'
<1>1. UNCHANGED <<query, exact, segments, search, shape, items, truncated, got>>
  BY DEF searchVars
<1>2. SearchTypes' /\ (SplitIsReference' <=> SplitIsReference)
  BY <1>1 DEF SearchInv, SearchTypes, SplitIsReference
<1>3. Keeps' = Keeps
  <2>1. \A name : Wanted(name)' <=> Wanted(name)
    BY <1>1 DEF Wanted
  <2>2. QED
    BY <1>1, <2>1 DEF Keeps
<1>4. QED
  BY <1>1, <1>2, <1>3 DEF SearchInv

\* The invariant holds at the start and after each step, and has the reference in it.
LEMMA InitSearch == Init => SearchInv
<1> SUFFICES ASSUME Init PROVE SearchInv
  OBVIOUS
<1>1. SearchInit(Queries, BOOLEAN) \/ SearchInit({<<>>}, {FALSE})
  BY DEF Init
<1>2. /\ query \in Queries \cup {<<>>} /\ exact \in BOOLEAN
      /\ search = "off" /\ items = <<>> /\ truncated = FALSE /\ got = <<>>
  BY <1>1 DEF SearchInit
<1>3. query \in Seq(Characters)
  BY <1>2, MergeAssumption, EmptySeq
<1>4. SearchTypes
  BY <1>2, <1>3, EmptySeq DEF SearchTypes
<1>5. QED
  BY <1>2, <1>4 DEF SearchInv, SplitIsReference

\* A command moves its search by the search's own steps or lets it stand.
LEMMA CommandMovesSearch ==
  ASSUME [Next]_vars
  PROVE  BeginSearch \/ SearchNext \/ UNCHANGED searchVars
<1>1. CASE SearchStep
  BY <1>1 DEF SearchStep
<1>2. CASE SearchEnds \/ (\E exists \in BOOLEAN : OutlineFile(exists)) \/ OutlineFails
  BY <1>2 DEF SearchEnds, OutlineFile, OutlineFails
<1>3. CASE Parse \/ LookupStep \/ TakeTargets \/ LookupEnds
  BY <1>3 DEF Parse, LookupStep, TakeTargets, LookupEnds
<1>4. CASE TargetFails \/ WalkStep \/ (\E hasNotes \in BOOLEAN : WalkEnds(hasNotes)) \/ NoItemThere
  BY <1>4 DEF TargetFails, WalkStep, WalkEnds, NoItemThere
<1>5. CASE AnswerReferences \/ RenameRefused \/ (\E answer \in WorkspaceEdits : AnswerRename(answer))
  BY <1>5 DEF AnswerReferences, RenameRefused, AnswerRename
<1>6. CASE (\E calls \in 0..MaxDetails : AnswerDefinition(calls)) \/ (\E fails \in BOOLEAN : AnswerDetail(fails))
  BY <1>6 DEF AnswerDefinition, AnswerDetail
<1>7. CASE Finish \/ Over \/ UNCHANGED vars
  BY <1>7 DEF Finish, Over, vars
<1>8. QED
  BY <1>1, <1>2, <1>3, <1>4, <1>5, <1>6, <1>7 DEF Next

LEMMA StepSearch == SearchInv /\ [Next]_vars => SearchInv'
<1> SUFFICES ASSUME SearchInv, [Next]_vars PROVE SearchInv'
  OBVIOUS
<1>1. CASE SearchNext
  <2>1. ASSUME NEW reply \in Replies, SingleAnswered(reply) PROVE SearchInv'
    BY <2>1, SingleAnsweredKeepsSearch
  <2>2. ASSUME NEW reply \in Replies, SegmentAnswered(reply) PROVE SearchInv'
    BY <2>2, SegmentAnsweredKeepsSearch
  <2>3. QED
    BY <1>1, <2>1, <2>2, SplitQueryKeepsSearch, WriteSearchKeepsSearch, OtherStepsKeepSearch DEF SearchNext
<1>2. QED
  BY <1>1, CommandMovesSearch, OtherStepsKeepSearch, SearchStands

LEMMA InvIsReference == SearchInv => SearchIsReference
<1> SUFFICES ASSUME SearchInv PROVE SearchIsReference
  OBVIOUS
<1> DEFINE kept == {p \in Listed : search = "written" /\ exact => Wanted(NamedAs[EntryAt(p)])}
<1>1. SearchTypes /\ SplitIsReference
  BY DEF SearchInv
<1>2. Listed = ListedIn(got)
  BY DEF Listed, ListedIn
<1>3. PICK key : key = KeysIn(got)
  OBVIOUS
<1>4. \A p \in Listed : key[p] = KeyOf[EntryAt(p)]
  BY <1>1, <1>2, <1>3, ListedEntry DEF EntryAt
<1>5. ASSUME search \in {"merged", "written"}
      PROVE  {KeyOf[items[i]] : i \in DOMAIN items} = {KeyOf[EntryAt(p)] : p \in kept}
  <2>1. SameKeys(items, kept, key)
    <3>1. CASE search = "merged"
      <4>1. kept = ListedIn(got)
        BY <1>2, <3>1
      <4>2. QED
        BY <1>3, <3>1, <4>1 DEF SearchInv, Merged
    <3>2. CASE search = "written"
      <4>1. kept = Keeps
        BY <1>2, <3>2 DEF Keeps, EntryAt
      <4>2. QED
        BY <1>3, <3>2, <4>1 DEF SearchInv
    <3>3. QED
      BY <1>5, <3>1, <3>2
  <2>2. {key[p] : p \in kept} = {KeyOf[EntryAt(p)] : p \in kept}
    BY <1>4
  <2> HIDE DEF kept
  <2>3. QED
    BY <2>1, <2>2 DEF SameKeys
<1>6. ASSUME search \in {"merged", "written"}, Len(got) > 1,
             NEW i \in DOMAIN items, NEW j \in DOMAIN items, i < j
      PROVE  \E p \in Listed : /\ KeyOf[EntryAt(p)] = KeyOf[items[i]]
                               /\ \A r \in Listed : KeyOf[EntryAt(r)] = KeyOf[items[j]] => Before(p, r)
  <2>1. ListedFirst(items, Listed, key)
    BY <1>2, <1>3, <1>6 DEF SearchInv, InTheirOrder
  <2>2. PICK p \in Listed : key[p] = KeyOf[items[i]] /\ \A r \in Listed : key[r] = KeyOf[items[j]] => Before(p, r)
    BY <1>6, <2>1 DEF ListedFirst
  <2>3. QED
    BY <1>4, <2>2
<1>7. search \in {"merged", "written"} =>
        truncated = \E n \in DOMAIN got : got[n] # Null /\ Len(got[n]) > Limit
  <2>1. SUFFICES ASSUME search \in {"merged", "written"}
                 PROVE  truncated <=> SomeCut(got)
    BY <1>1 DEF SearchTypes, SomeCut
  <2>2. QED
    BY <2>1 DEF SearchInv
<1> HIDE DEF kept
<1>8. QED
  BY <1>1, <1>5, <1>6, <1>7 DEF SearchIsReference, kept

\* A query is split where an unescaped pipe is, its patterns together give every symbol
\* once, in the order in which they list it first, and --exact leaves those that have a
\* pattern's name, whatever rust-analyzer answers.
THEOREM SearchMergesRight == Spec => []SearchIsReference
  BY InvIsReference, InitSearch, StepSearch, PTL DEF Spec

------------------------------------------------------------------------------
\* The edits of a rename. Sorting them is stable and loses none.

Precedes(edits, i, j) == \/ StartsBefore(edits[i], edits[j])
                         \/ ~StartsBefore(edits[j], edits[i]) /\ i < j
Ahead(edits, j) == {i \in DOMAIN edits : Precedes(edits, i, j)}

\* The order of the edits by start and place is total.
LEMMA EditsAreOrdered ==
  ASSUME NEW edits \in Seq(Ranges), NEW i \in DOMAIN edits, NEW j \in DOMAIN edits, NEW k \in DOMAIN edits
  PROVE  /\ ~Precedes(edits, i, i)
         /\ i # j => Precedes(edits, i, j) \/ Precedes(edits, j, i)
         /\ Precedes(edits, i, j) /\ Precedes(edits, j, k) => Precedes(edits, i, k)
<1>1. DOMAIN edits = 1..Len(edits) /\ Len(edits) \in Nat
  BY LenProperties
<1>2. i \in Nat /\ j \in Nat /\ k \in Nat
  BY <1>1
<1>3. edits[i] \in Ranges /\ edits[j] \in Ranges /\ edits[k] \in Ranges
  BY <1>1, ElementOfSeq
<1>4. edits[i].start \in Nat \X Nat /\ edits[j].start \in Nat \X Nat /\ edits[k].start \in Nat \X Nat
  BY <1>3 DEF Ranges
<1>5. /\ edits[i].start[1] \in Nat /\ edits[i].start[2] \in Nat
      /\ edits[j].start[1] \in Nat /\ edits[j].start[2] \in Nat
      /\ edits[k].start[1] \in Nat /\ edits[k].start[2] \in Nat
  BY <1>4
<1>6. PICK line \in [{i, j, k} -> Nat] : \A x \in {i, j, k} : line[x] = edits[x].start[1]
  <2>1. [x \in {i, j, k} |-> edits[x].start[1]] \in [{i, j, k} -> Nat]
    BY <1>5
  <2>2. QED
    BY <2>1
<1>7. PICK column \in [{i, j, k} -> Nat] : \A x \in {i, j, k} : column[x] = edits[x].start[2]
  <2>1. [x \in {i, j, k} |-> edits[x].start[2]] \in [{i, j, k} -> Nat]
    BY <1>5
  <2>2. QED
    BY <2>1
<1>8. \A x, y \in {i, j, k} :
        Precedes(edits, x, y) <=>
          \/ line[x] < line[y] \/ (line[x] = line[y] /\ column[x] < column[y])
          \/ ~(line[y] < line[x] \/ (line[x] = line[y] /\ column[y] < column[x])) /\ x < y
  BY <1>6, <1>7 DEF Precedes, StartsBefore
<1>9. line[i] \in Nat /\ line[j] \in Nat /\ line[k] \in Nat /\ column[i] \in Nat /\ column[j] \in Nat /\ column[k] \in Nat
  BY <1>6, <1>7
<1>10. ~Precedes(edits, i, i)
  BY <1>2, <1>8, <1>9
<1>11. i # j => Precedes(edits, i, j) \/ Precedes(edits, j, i)
  BY <1>2, <1>8, <1>9
<1>12. Precedes(edits, i, j) /\ Precedes(edits, j, k) => Precedes(edits, i, k)
  BY <1>2, <1>8, <1>9
<1>13. QED
  BY <1>10, <1>11, <1>12

\* Each edit has its own number of edits ahead of it, smaller than their count.
LEMMA AheadCounts ==
  ASSUME NEW edits \in Seq(Ranges)
  PROVE  /\ \A j \in DOMAIN edits : Cardinality(Ahead(edits, j)) \in 0..(Len(edits) - 1)
         /\ \A i, j \in DOMAIN edits :
              Precedes(edits, i, j) => Cardinality(Ahead(edits, i)) < Cardinality(Ahead(edits, j))
<1>1. DOMAIN edits = 1..Len(edits) /\ Len(edits) \in Nat
  BY LenProperties
<1>2. IsFiniteSet(DOMAIN edits) /\ Cardinality(DOMAIN edits) = Len(edits)
  <2>1. PICK n \in Nat : n = Len(edits)
    BY <1>1
  <2>2. 1 \in Int /\ n \in Int /\ IsFiniteSet(1..n) /\ Cardinality(1..n) = IF 1 > n THEN 0 ELSE n - 1 + 1
    BY FS_Interval
  <2>3. QED
    BY <1>1, <2>1, <2>2
<1>3. ASSUME NEW j \in DOMAIN edits
      PROVE  IsFiniteSet(Ahead(edits, j)) /\ Cardinality(Ahead(edits, j)) \in 0..(Len(edits) - 1)
  <2>1. Ahead(edits, j) \in SUBSET DOMAIN edits /\ j \notin Ahead(edits, j)
    BY EditsAreOrdered DEF Ahead
  <2>2. Ahead(edits, j) # DOMAIN edits
    BY <2>1
  <2>3. /\ IsFiniteSet(Ahead(edits, j))
        /\ Cardinality(Ahead(edits, j)) <= Len(edits) /\ Cardinality(Ahead(edits, j)) # Len(edits)
    BY <1>2, <2>1, <2>2, FS_Subset
  <2>4. Cardinality(Ahead(edits, j)) \in Nat
    BY <2>3, FS_CardinalityType
  <2>5. QED
    BY <1>1, <2>3, <2>4
<1>4. ASSUME NEW i \in DOMAIN edits, NEW j \in DOMAIN edits, Precedes(edits, i, j)
      PROVE  Cardinality(Ahead(edits, i)) < Cardinality(Ahead(edits, j))
  <2>1. i \in Ahead(edits, j) /\ i \notin Ahead(edits, i)
    BY <1>4, EditsAreOrdered DEF Ahead
  <2>2. ASSUME NEW k \in Ahead(edits, i) PROVE k \in Ahead(edits, j)
    <3>1. k \in DOMAIN edits /\ Precedes(edits, k, i)
      BY DEF Ahead
    <3>2. Precedes(edits, k, j)
      BY <1>4, <3>1, EditsAreOrdered
    <3>3. QED
      BY <3>1, <3>2 DEF Ahead
  <2>3. Ahead(edits, i) \in SUBSET Ahead(edits, j) /\ Ahead(edits, i) # Ahead(edits, j)
    BY <2>1, <2>2
  <2>4. /\ Cardinality(Ahead(edits, i)) <= Cardinality(Ahead(edits, j))
        /\ Cardinality(Ahead(edits, i)) # Cardinality(Ahead(edits, j))
    BY <1>3, <2>3, FS_Subset
  <2>5. Cardinality(Ahead(edits, i)) \in Nat /\ Cardinality(Ahead(edits, j)) \in Nat
    BY <1>1, <1>3
  <2>6. QED
    BY <2>4, <2>5
<1>5. QED
  BY <1>3, <1>4

\* place says which edit stands at each position of the sorted ones.
SortsBy(place, edits) ==
  /\ place \in Bijection(1..Len(edits), 1..Len(edits))
  /\ \A m, n \in 1..Len(edits) : m < n => Precedes(edits, place[m], place[n])
  /\ Sorted(edits) = [n \in 1..Len(edits) |-> edits[place[n]]]

\* Each edit has a place of its own among the sorted ones.
LEMMA SortedByPlace ==
  ASSUME NEW edits \in Seq(Ranges)
  PROVE  \E place : SortsBy(place, edits)
<1>1. PICK size \in Nat : size = Len(edits) /\ DOMAIN edits = 1..size
  BY LenProperties
<1>2. \A j \in 1..size : Cardinality(Ahead(edits, j)) \in 0..(size - 1)
  BY <1>1, AheadCounts
<1>3. \A i, j \in 1..size : Precedes(edits, i, j) => Cardinality(Ahead(edits, i)) < Cardinality(Ahead(edits, j))
  BY <1>1, AheadCounts
<1>4. PICK rank : rank = [j \in 1..size |-> Cardinality(Ahead(edits, j)) + 1]
  OBVIOUS
<1>5. rank \in [1..size -> 1..size]
  <2>1. \A j \in 1..size : Cardinality(Ahead(edits, j)) + 1 \in 1..size
    BY <1>2
  <2>2. QED
    BY <1>4, <2>1
<1>6. ASSUME NEW i \in 1..size, NEW j \in 1..size, i # j PROVE rank[i] # rank[j]
  <2>1. Precedes(edits, i, j) \/ Precedes(edits, j, i)
    BY <1>1, <1>6, EditsAreOrdered
  <2>2. Cardinality(Ahead(edits, i)) # Cardinality(Ahead(edits, j))
    BY <1>2, <1>3, <2>1
  <2>3. Cardinality(Ahead(edits, i)) \in Int /\ Cardinality(Ahead(edits, j)) \in Int
    BY <1>2
  <2>4. QED
    BY <1>4, <2>2, <2>3
<1>7. rank \in Injection(1..size, 1..size)
  BY <1>5, <1>6 DEF Injection, IsInjective
<1>8. rank \in Surjection(1..size, 1..size)
  <2>1. IsFiniteSet(1..size)
    BY FS_Interval
  <2>2. QED
    BY <1>7, <2>1, FS_Injection
<1>9. \A n \in 1..size : \E j \in 1..size : rank[j] = n
  BY <1>8 DEF Surjection
<1>10. PICK place : place = [n \in 1..size |-> CHOOSE j \in 1..size : Cardinality(Ahead(edits, j)) = n - 1]
  OBVIOUS
<1>11. ASSUME NEW n \in 1..size PROVE place[n] \in 1..size /\ Cardinality(Ahead(edits, place[n])) = n - 1
  <2>1. PICK j \in 1..size : rank[j] = n
    BY <1>9
  <2>2. Cardinality(Ahead(edits, j)) + 1 = n /\ Cardinality(Ahead(edits, j)) \in Int
    BY <1>2, <1>4, <2>1
  <2>3. Cardinality(Ahead(edits, j)) = n - 1
    BY <2>2
  <2>4. QED
    BY <1>10, <2>3
<1>12. place \in [1..size -> 1..size]
  BY <1>10, <1>11
<1>13. ASSUME NEW m \in 1..size, NEW n \in 1..size, m # n PROVE place[m] # place[n]
  <2>1. m - 1 # n - 1
    BY <1>13
  <2>2. QED
    BY <1>11, <2>1
<1>14. place \in Injection(1..size, 1..size)
  BY <1>12, <1>13 DEF Injection, IsInjective
<1>15. place \in Surjection(1..size, 1..size)
  <2>1. IsFiniteSet(1..size)
    BY FS_Interval
  <2>2. QED
    BY <1>14, <2>1, FS_Injection
<1>16. ASSUME NEW m \in 1..size, NEW n \in 1..size, m < n PROVE Precedes(edits, place[m], place[n])
  <2>1. place[m] # place[n] /\ place[m] \in DOMAIN edits /\ place[n] \in DOMAIN edits
    BY <1>1, <1>11, <1>13, <1>16
  <2>2. ~Precedes(edits, place[n], place[m])
    <3>1. ~(n - 1 < m - 1)
      BY <1>16
    <3>2. QED
      BY <1>3, <1>11, <3>1
  <2>3. QED
    BY <2>1, <2>2, EditsAreOrdered
<1>17. Sorted(edits) = [n \in 1..size |-> edits[place[n]]]
  <2>1. Sorted(edits) = [n \in 1..size |-> edits[CHOOSE j \in 1..size : Cardinality(Ahead(edits, j)) = n - 1]]
    BY <1>1 DEF Sorted, Ahead, Precedes
  <2>2. QED
    BY <1>10, <2>1
<1>18. QED
  BY <1>1, <1>14, <1>15, <1>16, <1>17 DEF SortsBy, Bijection

\* How many elements of a list are in a set.
Count(list, set) == Cardinality({i \in DOMAIN list : list[i] \in set})

\* Occurrences is a count.
LEMMA OccurrencesAreCounted ==
  ASSUME NEW e, NEW edits
  PROVE  Occurrences(e, edits) = Count(edits, {e})
<1>1. {i \in DOMAIN edits : edits[i] = e} = {i \in DOMAIN edits : edits[i] \in {e}}
  OBVIOUS
<1>2. QED
  BY <1>1 DEF Occurrences, Count

\* A count is a number.
LEMMA CountType ==
  ASSUME NEW E, NEW list \in Seq(E), NEW set
  PROVE  IsFiniteSet({i \in DOMAIN list : list[i] \in set}) /\ Count(list, set) \in Nat
<1>1. PICK n \in Nat : DOMAIN list = 1..n
  BY LenProperties
<1>2. IsFiniteSet(1..n)
  BY FS_Interval
<1>3. {i \in DOMAIN list : list[i] \in set} \in SUBSET (1..n)
  BY <1>1
<1>4. QED
  BY <1>2, <1>3, FS_Subset, FS_CardinalityType DEF Count

\* Of two lists one after the other, the counts add up.
LEMMA CountsAddUp ==
  ASSUME NEW E, NEW s \in Seq(E), NEW t \in Seq(E), NEW set
  PROVE  Count(s \o t, set) = Count(s, set) + Count(t, set)
<1>1. PICK m \in Nat : m = Len(s)
  BY LenProperties
<1>2. PICK n \in Nat : n = Len(t)
  BY LenProperties
<1>3. PICK u : u = s \o t
  OBVIOUS
<1>4. u \in Seq(E) /\ DOMAIN s = 1..m /\ DOMAIN t = 1..n /\ DOMAIN u = 1..(m + n)
  <2>1. u \in Seq(E) /\ Len(u) = Len(s) + Len(t)
    BY <1>3, ConcatProperties
  <2>2. Len(u) = m + n
    BY <1>1, <1>2, <2>1
  <2>3. QED
    BY <1>1, <1>2, <2>1, <2>2, LenProperties
<1>5. \A i \in 1..(m + n) : u[i] = IF i <= m THEN s[i] ELSE t[i - m]
  BY <1>1, <1>2, <1>3, ConcatProperties
<1> DEFINE Left == {i \in 1..m : s[i] \in set}
<1> DEFINE Right == {i \in 1..n : t[i] \in set}
<1> DEFINE Shifted == {i \in 1..(m + n) : i > m /\ u[i] \in set}
<1>6. IsFiniteSet(Left) /\ Cardinality(Left) = Count(s, set) /\ IsFiniteSet(Right) /\ Cardinality(Right) = Count(t, set)
  BY <1>4, CountType DEF Count
<1>7. Count(s, set) \in Nat /\ Count(t, set) \in Nat
  BY CountType
<1>8. IsFiniteSet(Shifted) /\ Cardinality(Shifted) = Count(t, set)
  <2> DEFINE shift == [i \in Right |-> i + m]
  <2>1. ASSUME NEW i \in Right PROVE i + m \in Shifted
    <3>1. i \in 1..n /\ t[i] \in set
      OBVIOUS
    <3>2. i + m \in 1..(m + n) /\ i + m > m /\ (i + m) - m = i /\ ~(i + m <= m)
      BY <3>1
    <3>3. u[i + m] = t[i]
      BY <1>5, <3>2
    <3>4. QED
      BY <3>1, <3>2, <3>3
  <2>2. ASSUME NEW k \in Shifted PROVE \E i \in Right : shift[i] = k
    <3>1. k \in 1..(m + n) /\ k > m /\ u[k] \in set
      OBVIOUS
    <3>2. k - m \in 1..n /\ (k - m) + m = k /\ ~(k <= m)
      BY <3>1
    <3>3. t[k - m] \in set
      BY <1>5, <3>1, <3>2
    <3>4. k - m \in Right
      BY <3>2, <3>3
    <3>5. shift[k - m] = k
      BY <3>2, <3>4
    <3>6. QED
      BY <3>4, <3>5
  <2>3. ASSUME NEW i \in Right, NEW j \in Right, i # j PROVE shift[i] # shift[j]
    <3>1. i \in Int /\ j \in Int
      OBVIOUS
    <3>2. i + m # j + m
      BY <2>3, <3>1
    <3>3. QED
      BY <3>2
  <2>4. shift \in Bijection(Right, Shifted)
    <3>1. shift \in [Right -> Shifted]
      BY <2>1
    <3> HIDE DEF Right, Shifted, shift
    <3>2. QED
      BY <2>2, <2>3, <3>1 DEF Bijection, Injection, Surjection, IsInjective
  <2> HIDE DEF Right, Shifted, shift
  <2>5. ExistsBijection(Right, Shifted)
    BY <2>4 DEF ExistsBijection
  <2>6. QED
    BY <1>6, <2>5, FS_Bijection
<1>9. {i \in DOMAIN u : u[i] \in set} = Left \cup Shifted
  <2>1. ASSUME NEW i \in 1..(m + n), u[i] \in set PROVE i \in Left \cup Shifted
    <3>1. CASE i <= m
      <4>1. i \in 1..m /\ u[i] = s[i]
        BY <1>5, <3>1
      <4>2. QED
        BY <2>1, <4>1
    <3>2. CASE ~(i <= m)
      <4>1. i > m
        BY <3>2
      <4>2. QED
        BY <2>1, <4>1
    <3>3. QED
      BY <3>1, <3>2
  <2>2. ASSUME NEW i \in Left PROVE i \in 1..(m + n) /\ u[i] \in set
    <3>1. i \in 1..m /\ s[i] \in set
      OBVIOUS
    <3>2. i \in 1..(m + n) /\ i <= m
      BY <3>1
    <3>3. QED
      BY <1>5, <3>1, <3>2
  <2>3. Shifted \subseteq 1..(m + n) /\ \A i \in Shifted : u[i] \in set
    OBVIOUS
  <2> HIDE DEF Left, Shifted
  <2>4. QED
    BY <1>4, <2>1, <2>2, <2>3
<1>10. Left \cap Shifted = {}
  <2>1. ASSUME NEW i \in Left, i \in Shifted PROVE FALSE
    <3>1. i \in 1..m /\ i > m
      BY <2>1
    <3>2. QED
      BY <3>1
  <2>2. QED
    BY <2>1
<1> HIDE DEF Left, Right, Shifted
<1>11. Cardinality(Left \cup Shifted) = Cardinality(Left) + Cardinality(Shifted) - 0
  <2>1. Cardinality(Left \cup Shifted) = Cardinality(Left) + Cardinality(Shifted) - Cardinality(Left \cap Shifted)
    BY <1>6, <1>8, FS_Union
  <2>2. QED
    BY <1>10, <2>1, FS_EmptySet
<1>12. Count(u, set) = Count(s, set) + Count(t, set)
  <2>1. Count(u, set) = Cardinality(Left \cup Shifted)
    BY <1>9 DEF Count
  <2>2. Cardinality(Left \cup Shifted) = Count(s, set) + Count(t, set) - 0
    BY <1>6, <1>8, <1>11
  <2>3. QED
    BY <1>7, <2>1, <2>2
<1>13. QED
  BY <1>3, <1>12

\* The edits in their order: all of them, and each as often as before.
LEMMA SortedEdits ==
  ASSUME NEW edits \in Seq(Ranges)
  PROVE  /\ Sorted(edits) \in Seq(Ranges)
         /\ \A m, n \in DOMAIN Sorted(edits) : m < n => ~StartsBefore(Sorted(edits)[n], Sorted(edits)[m])
         /\ ToSet(Sorted(edits)) \subseteq ToSet(edits)
         /\ \A e : Occurrences(e, Sorted(edits)) = Occurrences(e, edits)
<1>1. PICK size \in Nat : size = Len(edits) /\ DOMAIN edits = 1..size
  BY LenProperties
<1>2. PICK place : SortsBy(place, edits)
  BY SortedByPlace
<1>3. PICK r : r = Sorted(edits)
  OBVIOUS
<1>4. /\ place \in Bijection(1..size, 1..size)
      /\ \A m, n \in 1..size : m < n => Precedes(edits, place[m], place[n])
      /\ r = [n \in 1..size |-> edits[place[n]]]
  BY <1>1, <1>2, <1>3 DEF SortsBy
<1>5. /\ place \in [1..size -> 1..size]
      /\ \A m, n \in 1..size : place[m] = place[n] => m = n
      /\ \A i \in 1..size : \E n \in 1..size : place[n] = i
  BY <1>4 DEF Bijection, Injection, Surjection, IsInjective
<1>6. \A n \in 1..size : place[n] \in 1..size /\ r[n] = edits[place[n]]
  BY <1>4, <1>5
<1>7. r \in Seq(Ranges) /\ DOMAIN r = 1..size
  <2>1. \A i \in 1..size : edits[i] \in Ranges
    BY <1>1, ElementOfSeq
  <2>2. r \in [1..size -> Ranges]
    BY <1>4, <1>6, <2>1
  <2>3. QED
    BY <2>2
<1>8. ASSUME NEW m \in 1..size, NEW n \in 1..size, m < n PROVE ~StartsBefore(r[n], r[m])
  <2>1. Precedes(edits, place[m], place[n]) /\ place[m] \in DOMAIN edits /\ place[n] \in DOMAIN edits
    BY <1>1, <1>4, <1>6, <1>8
  <2>2. ~Precedes(edits, place[n], place[m])
    BY <2>1, EditsAreOrdered
  <2>3. ~StartsBefore(edits[place[n]], edits[place[m]])
    BY <2>2 DEF Precedes
  <2>4. QED
    BY <1>6, <2>3
<1>9. ToSet(r) \subseteq ToSet(edits)
  BY <1>1, <1>6, <1>7 DEF ToSet
<1>10. ASSUME NEW e PROVE Occurrences(e, r) = Occurrences(e, edits)
  <2> DEFINE S == {n \in 1..size : r[n] = e}
  <2> DEFINE T == {i \in 1..size : edits[i] = e}
  <2> DEFINE f == [n \in S |-> place[n]]
  <2>1. f \in [S -> T]
    BY <1>6
  <2>2. \A m, n \in S : f[m] = f[n] => m = n
    BY <1>5
  <2>3. ASSUME NEW i \in T PROVE \E n \in S : f[n] = i
    <3>1. PICK n \in 1..size : place[n] = i
      BY <1>5
    <3>2. n \in S
      BY <1>6, <3>1
    <3>3. QED
      BY <3>1, <3>2
  <2>4. IsFiniteSet(S)
    <3>1. IsFiniteSet(1..size)
      BY FS_Interval
    <3>2. QED
      BY <3>1, FS_Subset
  <2>5. S = {n \in DOMAIN r : r[n] = e} /\ T = {i \in DOMAIN edits : edits[i] = e}
    BY <1>1, <1>7
  <2> HIDE DEF S, T, f
  <2>6. f \in Bijection(S, T)
    BY <2>1, <2>2, <2>3 DEF Bijection, Injection, Surjection, IsInjective
  <2>7. Cardinality(T) = Cardinality(S)
    BY <2>4, <2>6, FS_Bijection DEF ExistsBijection
  <2>8. QED
    BY <2>5, <2>7 DEF Occurrences
<1>11. QED
  BY <1>3, <1>7, <1>8, <1>9, <1>10

Documents == [uri : Uris, edits : Seq(Ranges)]

GatherStep(edits, d, uri) == IF d.uri = uri THEN edits \o d.edits ELSE edits
Gathered(base, list, uri) ==
  FoldLeft(LAMBDA edits, d : IF d.uri = uri THEN edits \o d.edits ELSE edits, base, list)

\* EditsOf, document by document.
LEMMA GatheredTrace ==
  ASSUME NEW base \in Seq(Ranges), NEW list \in Seq(Documents), NEW uri
  PROVE  \E tr : /\ tr[0] = base
                 /\ \A k \in 1..Len(list) : tr[k] = GatherStep(tr[k - 1], list[k], uri)
                 /\ Gathered(base, list, uri) = tr[Len(list)]
<1> DEFINE step == [p \in Seq(Ranges) \X Documents |-> GatherStep(p[1], p[2], uri)]
<1> DEFINE IsFold(h) == h = [s \in SUBSET DOMAIN list |->
                               IF s = {} THEN base ELSE GatherStep(h[s \ {Max(s)}], list[Max(s)], uri)]
<1>1. step \in [Seq(Ranges) \X Documents -> Seq(Ranges)] /\ base \in Seq(Ranges) /\ Len(list) \in Nat /\ DOMAIN list = 1..Len(list)
  BY ConcatProperties DEF GatherStep, Documents
<1>2. PICK g \in [SUBSET (1..Len(list)) -> Seq(Ranges)] : FoldsTo(g, step, base, list, Len(list))
  BY <1>1, FoldExists
<1>3. IsFold(g)
  <2>1. ASSUME NEW s \in SUBSET (1..Len(list)), s # {}
        PROVE  step[<<g[s \ {Max(s)}], list[Max(s)]>>] = GatherStep(g[s \ {Max(s)}], list[Max(s)], uri)
    <3>1. Max(s) \in 1..Len(list)
      BY <1>1, <2>1, LargestPosition
    <3>2. list[Max(s)] \in Documents
      BY <3>1, ElementOfSeq
    <3>3. g[s \ {Max(s)}] \in Seq(Ranges)
      OBVIOUS
    <3>4. QED
      BY <3>2, <3>3
  <2> HIDE DEF step
  <2>2. g = [s \in SUBSET (1..Len(list)) |-> IF s = {} THEN base ELSE step[<<g[s \ {Max(s)}], list[Max(s)]>>]]
    BY <1>2 DEF FoldsTo
  <2>3. QED
    BY <1>1, <2>1, <2>2
<1> HIDE DEF step
<1> DEFINE iter == CHOOSE h : IsFold(h)
<1>4. IsFold(iter)
  BY <1>3
<1>5. Gathered(base, list, uri) = iter[DOMAIN list]
  BY DEF Gathered, GatherStep, FoldLeft, MapThenFoldSet
<1> HIDE DEF iter
<1> DEFINE tr == [k \in 0..Len(list) |-> iter[1..k]]
<1>6. tr[0] = base
  <2>1. 1..0 = {} /\ {} \in SUBSET DOMAIN list
    OBVIOUS
  <2>2. QED
    BY <1>1, <1>4, <2>1
<1>7. ASSUME NEW k \in 1..Len(list) PROVE tr[k] = GatherStep(tr[k - 1], list[k], uri)
  <2>1. 1..k \in SUBSET DOMAIN list /\ 1..k # {} /\ k \in Nat /\ k # 0 /\ k - 1 \in 0..Len(list)
    BY <1>1, InitialSegment
  <2>2. Max(1..k) = k /\ (1..k) \ {k} = 1..(k - 1)
    BY <2>1, MaxOfInitialSegment
  <2>3. iter[1..k] = GatherStep(iter[1..(k - 1)], list[k], uri)
    BY <1>4, <2>1, <2>2
  <2>4. QED
    BY <1>1, <2>1, <2>3
<1>8. Gathered(base, list, uri) = tr[Len(list)]
  BY <1>1, <1>5
<1> HIDE DEF tr
<1>9. QED
  BY <1>6, <1>7, <1>8

TimesStep(n, d, uri, e) == IF d.uri = uri THEN n + Occurrences(e, d.edits) ELSE n
CountedIn(base, list, uri, e) ==
  FoldLeft(LAMBDA n, d : IF d.uri = uri THEN n + Occurrences(e, d.edits) ELSE n, base, list)

CountsTo(tr, base, list, uri, e) ==
  /\ tr[0] = base
  /\ \A k \in 1..Len(list) : tr[k] = TimesStep(tr[k - 1], list[k], uri, e)
  /\ CountedIn(base, list, uri, e) = tr[Len(list)]

\* So is the sum of counts.
LEMMA TimesStepType ==
  ASSUME NEW uri, NEW e
  PROVE  \A n \in Nat, d \in Documents : TimesStep(n, d, uri, e) \in Nat
<1>1. TAKE n \in Nat, d \in Documents
<1>2. Occurrences(e, d.edits) \in Nat
  <2>1. d.edits \in Seq(Ranges)
    BY DEF Documents
  <2>2. QED
    BY <2>1, OccurrencesAreCounted, CountType
<1>3. QED
  BY <1>2 DEF TimesStep

\* Times, document by document.
LEMMA TimesTrace ==
  ASSUME NEW base \in Nat, NEW list \in Seq(Documents), NEW uri, NEW e
  PROVE  \E tr : CountsTo(tr, base, list, uri, e)
<1> DEFINE step == [p \in Nat \X Documents |-> TimesStep(p[1], p[2], uri, e)]
<1> DEFINE IsFold(h) == h = [s \in SUBSET DOMAIN list |->
                               IF s = {} THEN base ELSE TimesStep(h[s \ {Max(s)}], list[Max(s)], uri, e)]
<1>1. step \in [Nat \X Documents -> Nat] /\ base \in Nat /\ Len(list) \in Nat /\ DOMAIN list = 1..Len(list)
  BY TimesStepType
<1>2. PICK g \in [SUBSET (1..Len(list)) -> Nat] : FoldsTo(g, step, base, list, Len(list))
  BY <1>1, FoldExists
<1>3. IsFold(g)
  <2>1. ASSUME NEW s \in SUBSET (1..Len(list)), s # {}
        PROVE  step[<<g[s \ {Max(s)}], list[Max(s)]>>] = TimesStep(g[s \ {Max(s)}], list[Max(s)], uri, e)
    <3>1. Max(s) \in 1..Len(list)
      BY <1>1, <2>1, LargestPosition
    <3>2. list[Max(s)] \in Documents
      BY <3>1, ElementOfSeq
    <3>3. g[s \ {Max(s)}] \in Nat
      OBVIOUS
    <3>4. QED
      BY <3>2, <3>3
  <2> HIDE DEF step
  <2>2. g = [s \in SUBSET (1..Len(list)) |-> IF s = {} THEN base ELSE step[<<g[s \ {Max(s)}], list[Max(s)]>>]]
    BY <1>2 DEF FoldsTo
  <2>3. QED
    BY <1>1, <2>1, <2>2
<1> HIDE DEF step
<1> DEFINE iter == CHOOSE h : IsFold(h)
<1>4. IsFold(iter)
  BY <1>3
<1>5. CountedIn(base, list, uri, e) = iter[DOMAIN list]
  BY DEF CountedIn, TimesStep, FoldLeft, MapThenFoldSet
<1> HIDE DEF iter
<1> DEFINE tr == [k \in 0..Len(list) |-> iter[1..k]]
<1>6. tr[0] = base
  <2>1. 1..0 = {} /\ {} \in SUBSET DOMAIN list
    OBVIOUS
  <2>2. QED
    BY <1>1, <1>4, <2>1
<1>7. ASSUME NEW k \in 1..Len(list) PROVE tr[k] = TimesStep(tr[k - 1], list[k], uri, e)
  <2>1. 1..k \in SUBSET DOMAIN list /\ 1..k # {} /\ k \in Nat /\ k # 0 /\ k - 1 \in 0..Len(list)
    BY <1>1, InitialSegment
  <2>2. Max(1..k) = k /\ (1..k) \ {k} = 1..(k - 1)
    BY <2>1, MaxOfInitialSegment
  <2>3. iter[1..k] = TimesStep(iter[1..(k - 1)], list[k], uri, e)
    BY <1>4, <2>1, <2>2
  <2>4. QED
    BY <1>1, <2>1, <2>3
<1>8. CountedIn(base, list, uri, e) = tr[Len(list)]
  BY <1>1, <1>5
<1> HIDE DEF tr
<1>9. QED
  BY <1>6, <1>7, <1>8 DEF CountsTo


\* The documents an answer without file operations names, and what it has for them.
NamedIn(answer) == DOMAIN answer.changes \cup {d.uri : d \in ToSet(answer.documents)}

\* The parts of an answer without file operations.
LEMMA AnswerShape ==
  ASSUME NEW answer \in WorkspaceEdits, ~HasFileOperation(answer)
  PROVE  /\ answer.documents \in Seq(Documents)
         /\ DOMAIN answer.changes \subseteq Uris
         /\ \A uri \in DOMAIN answer.changes : answer.changes[uri] \in Seq(Ranges)
<1>1. answer.documents \in Seq(Documents \cup {FileOperation})
  BY RenameAssumption DEF RenameAssumption, Documents
<1>2. PICK n \in Nat : n = Len(answer.documents) /\ DOMAIN answer.documents = 1..n
  BY <1>1, LenProperties
<1>3. \A i \in 1..n : answer.documents[i] \in Documents
  <2>1. ASSUME NEW i \in 1..n PROVE answer.documents[i] \in Documents
    <3>1. answer.documents[i] \in Documents \cup {FileOperation}
      BY <1>1, <1>2, ElementOfSeq
    <3>2. answer.documents[i] # FileOperation
      BY <1>2 DEF HasFileOperation
    <3>3. QED
      BY <3>1, <3>2
  <2>2. QED
    BY <2>1
<1>4. answer.documents \in [1..n -> Documents]
  <2>1. answer.documents \in [1..n -> Documents \cup {FileOperation}]
    BY <1>1, <1>2, LenProperties
  <2>2. QED
    BY <1>3, <2>1
<1>5. answer.documents \in Seq(Documents)
  BY <1>4
<1>6. QED
  BY <1>5, RenameAssumption DEF RenameAssumption

\* What is gathered for a document of the answer: its edits as often as they are there.
LEMMA GatheredEdits ==
  ASSUME NEW answer \in WorkspaceEdits, ~HasFileOperation(answer), NEW uri, NEW edits,
         edits = Gathered(IF uri \in DOMAIN answer.changes THEN answer.changes[uri] ELSE <<>>,
                          answer.documents, uri)
  PROVE  /\ edits \in Seq(Ranges)
         /\ ToSet(edits) \subseteq EditsIn(answer)
         /\ \A e : Times(answer, uri, e) = Occurrences(e, edits)
         /\ uri \notin NamedIn(answer) => edits = <<>>
<1>1. PICK base : base = IF uri \in DOMAIN answer.changes THEN answer.changes[uri] ELSE <<>>
  OBVIOUS
<1>2. PICK list : list = answer.documents
  OBVIOUS
<1>3. list \in Seq(Documents) /\ base \in Seq(Ranges)
  BY <1>1, <1>2, AnswerShape, EmptySeq
<1>4. PICK n \in Nat : n = Len(list) /\ DOMAIN list = 1..n
  BY <1>3, LenProperties
<1>5. PICK tr : /\ tr[0] = base
                /\ \A k \in 1..n : tr[k] = GatherStep(tr[k - 1], list[k], uri)
                /\ edits = tr[n]
  <2>1. edits = Gathered(base, list, uri)
    BY <1>1, <1>2
  <2>2. \E tr : /\ tr[0] = base
                /\ \A k \in 1..Len(list) : tr[k] = GatherStep(tr[k - 1], list[k], uri)
                /\ Gathered(base, list, uri) = tr[Len(list)]
    BY <1>3, GatheredTrace
  <2>3. QED
    BY <1>4, <2>1, <2>2
<1>6. \A k \in 1..n : list[k] \in Documents /\ list[k].edits \in Seq(Ranges)
  <2>1. \A k \in 1..n : list[k] \in Documents
    BY <1>3, <1>4, ElementOfSeq
  <2>2. \A d \in Documents : d.edits \in Seq(Ranges)
    BY DEF Documents
  <2>3. QED
    BY <2>1, <2>2
<1>7. ToSet(base) \subseteq EditsIn(answer)
  <2>1. CASE uri \in DOMAIN answer.changes
    BY <1>1, <2>1 DEF EditsIn
  <2>2. CASE uri \notin DOMAIN answer.changes
    BY <1>1, <2>2, NoPosition DEF ToSet
  <2>3. QED
    BY <2>1, <2>2
<1>8. \A k \in 1..n : ToSet(list[k].edits) \subseteq EditsIn(answer)
  <2>1. ASSUME NEW k \in 1..n PROVE ToSet(list[k].edits) \subseteq EditsIn(answer)
    <3>1. list[k] \in ToSet(answer.documents)
      BY <1>2, <1>4 DEF ToSet
    <3>2. ToSet(list[k].edits) \in {ToSet(d.edits) : d \in ToSet(answer.documents)}
      BY <3>1
    <3>3. QED
      BY <3>2 DEF EditsIn
  <2>2. QED
    BY <2>1
<1> DEFINE S == {k \in 0..n : tr[k] \in Seq(Ranges) /\ ToSet(tr[k]) \subseteq EditsIn(answer)}
<1>9. 0 \in S
  BY <1>3, <1>5, <1>7
<1>10. ASSUME NEW k \in 1..n, k - 1 \in S PROVE k \in S
  <2>1. tr[k - 1] \in Seq(Ranges) /\ ToSet(tr[k - 1]) \subseteq EditsIn(answer)
    BY <1>10
  <2>2. CASE list[k].uri = uri
    <3>1. tr[k] = tr[k - 1] \o list[k].edits
      BY <1>5, <2>2 DEF GatherStep
    <3>2. tr[k] \in Seq(Ranges)
      BY <1>6, <2>1, <3>1, ConcatProperties
    <3>3. ToSet(tr[k]) \subseteq ToSet(tr[k - 1]) \cup ToSet(list[k].edits)
      BY <1>6, <2>1, <3>1, ElementsOfBoth
    <3>4. QED
      BY <1>8, <2>1, <3>2, <3>3
  <2>3. CASE list[k].uri # uri
    BY <1>5, <2>1, <2>3 DEF GatherStep
  <2>4. QED
    BY <2>2, <2>3
<1>11. 0..n \subseteq S
  <2> HIDE DEF S
  <2>1. QED
    BY <1>9, <1>10, BoundedInduction
<1>12. \A k \in 0..n : tr[k] \in Seq(Ranges) /\ ToSet(tr[k]) \subseteq EditsIn(answer)
  BY <1>11
<1>13. ASSUME NEW e PROVE Times(answer, uri, e) = Occurrences(e, edits)
  <2>1. \A s \in Seq(Ranges) : Occurrences(e, s) \in Nat
    BY OccurrencesAreCounted, CountType
  <2>2. Times(answer, uri, e) = CountedIn(Occurrences(e, base), list, uri, e)
    <3>1. CASE uri \in DOMAIN answer.changes
      BY <1>1, <1>2, <3>1 DEF Times, CountedIn
    <3>2. CASE uri \notin DOMAIN answer.changes
      <4>1. Occurrences(e, base) = 0
        <5>1. {i \in DOMAIN base : base[i] = e} = {}
          BY <1>1, <3>2, NoPosition
        <5>2. QED
          BY <5>1, FS_EmptySet DEF Occurrences
      <4>2. QED
        BY <1>1, <1>2, <3>2, <4>1 DEF Times, CountedIn
    <3>3. QED
      BY <3>1, <3>2
  <2>3. PICK sum : /\ sum[0] = Occurrences(e, base)
                   /\ \A k \in 1..n : sum[k] = TimesStep(sum[k - 1], list[k], uri, e)
                   /\ CountedIn(Occurrences(e, base), list, uri, e) = sum[n]
    <3>1. Occurrences(e, base) \in Nat
      BY <1>3, <2>1
    <3>2. PICK start \in Nat : start = Occurrences(e, base)
      BY <3>1
    <3>3. PICK sum : CountsTo(sum, start, list, uri, e)
      BY <1>3, TimesTrace
    <3>4. QED
      BY <1>4, <3>2, <3>3 DEF CountsTo
  <2> DEFINE R == {k \in 0..n : sum[k] = Occurrences(e, tr[k])}
  <2>4. 0 \in R
    BY <1>5, <2>3
  <2>5. ASSUME NEW k \in 1..n, k - 1 \in R PROVE k \in R
    <3>1. tr[k - 1] \in Seq(Ranges) /\ k - 1 \in 0..n /\ k \in 0..n
      <4>1. k - 1 \in 0..n /\ k \in 0..n
        BY <1>4
      <4>2. QED
        BY <1>12, <4>1
    <3>2. sum[k - 1] = Occurrences(e, tr[k - 1])
      BY <2>5
    <3>3. CASE list[k].uri = uri
      <4>1. tr[k] = tr[k - 1] \o list[k].edits
        BY <1>5, <3>3 DEF GatherStep
      <4>2. Occurrences(e, tr[k]) = Occurrences(e, tr[k - 1]) + Occurrences(e, list[k].edits)
        <5>1. Count(tr[k - 1] \o list[k].edits, {e}) = Count(tr[k - 1], {e}) + Count(list[k].edits, {e})
          BY <1>6, <3>1, CountsAddUp
        <5>2. QED
          BY <4>1, <5>1, OccurrencesAreCounted
      <4>3. QED
        BY <2>3, <3>1, <3>2, <3>3, <4>2 DEF TimesStep
    <3>4. CASE list[k].uri # uri
      BY <1>5, <2>3, <3>1, <3>2, <3>4 DEF TimesStep, GatherStep
    <3>5. QED
      BY <3>3, <3>4
  <2>6. 0..n \subseteq R
    <3> HIDE DEF R
    <3>1. QED
      BY <2>4, <2>5, BoundedInduction
  <2>7. n \in 0..n
    OBVIOUS
  <2>8. sum[n] = Occurrences(e, tr[n])
    BY <2>6, <2>7
  <2>9. QED
    BY <1>5, <2>2, <2>3, <2>8
<1>14. ASSUME uri \notin NamedIn(answer) PROVE edits = <<>>
  <2>1. base = <<>>
    BY <1>1, <1>14 DEF NamedIn
  <2>2. \A k \in 1..n : list[k].uri # uri
    BY <1>2, <1>4, <1>14 DEF NamedIn, ToSet
  <2> DEFINE R == {k \in 0..n : tr[k] = <<>>}
  <2>3. 0 \in R
    BY <1>5, <2>1
  <2>4. ASSUME NEW k \in 1..n, k - 1 \in R PROVE k \in R
    BY <1>5, <2>2, <2>4 DEF GatherStep
  <2>5. 0..n \subseteq R
    <3> HIDE DEF R
    <3>1. QED
      BY <2>3, <2>4, BoundedInduction
  <2>6. n \in 0..n
    OBVIOUS
  <2>7. QED
    BY <1>5, <2>5, <2>6
<1>15. tr[n] \in Seq(Ranges) /\ ToSet(tr[n]) \subseteq EditsIn(answer)
  <2>1. n \in 0..n
    OBVIOUS
  <2>2. QED
    BY <1>12, <2>1
<1>16. QED
  BY <1>5, <1>13, <1>14, <1>15

\* A document's edits are those of the answer, sorted.
LEMMA EditsOfAnswer ==
  ASSUME NEW answer \in WorkspaceEdits, ~HasFileOperation(answer), NEW uri
  PROVE  /\ EditsOf(answer, uri) \in Seq(Ranges)
         /\ ToSet(EditsOf(answer, uri)) \subseteq EditsIn(answer)
         /\ \A e : Times(answer, uri, e) = Occurrences(e, EditsOf(answer, uri))
         /\ \A m, n \in DOMAIN EditsOf(answer, uri) :
              m < n => ~StartsBefore(EditsOf(answer, uri)[n], EditsOf(answer, uri)[m])
         /\ uri \notin NamedIn(answer) => \A e : Times(answer, uri, e) = 0
<1>1. PICK edits : edits = Gathered(IF uri \in DOMAIN answer.changes THEN answer.changes[uri] ELSE <<>>,
                                    answer.documents, uri)
  OBVIOUS
<1>2. /\ edits \in Seq(Ranges)
      /\ ToSet(edits) \subseteq EditsIn(answer)
      /\ \A e : Times(answer, uri, e) = Occurrences(e, edits)
      /\ uri \notin NamedIn(answer) => edits = <<>>
  BY <1>1, GatheredEdits
<1>3. EditsOf(answer, uri) = Sorted(edits)
  BY <1>1 DEF EditsOf, Gathered
<1>4. ASSUME uri \notin NamedIn(answer), NEW e PROVE Occurrences(e, edits) = 0
  <2>1. {i \in DOMAIN edits : edits[i] = e} = {}
    BY <1>2, <1>4, NoPosition
  <2>2. QED
    BY <2>1, FS_EmptySet DEF Occurrences
<1>5. QED
  BY <1>2, <1>3, <1>4, SortedEdits

Row(uri, e) == [uri |-> uri, edit |-> e, old |-> Replaced(uri, e)]
Rows == {Row(uri, e) : uri \in Uris, e \in Ranges}

\* The parts of a row.
LEMMA RowFields ==
  /\ \A uri, e : Row(uri, e).uri = uri /\ Row(uri, e).edit = e /\ Row(uri, e).old = Replaced(uri, e)
  /\ \A row \in Rows : row.uri \in Uris /\ row.edit \in Ranges /\ row = Row(row.uri, row.edit)
<1>1. \A uri, e : Row(uri, e).uri = uri /\ Row(uri, e).edit = e /\ Row(uri, e).old = Replaced(uri, e)
  BY DEF Row
<1>2. ASSUME NEW row \in Rows PROVE row.uri \in Uris /\ row.edit \in Ranges /\ row = Row(row.uri, row.edit)
  <2>1. PICK uri \in Uris, e \in Ranges : row = Row(uri, e)
    BY DEF Rows
  <2>2. QED
    BY <1>1, <2>1
<1>3. QED
  BY <1>1, <1>2

\* A file's rows, one for each edit.
LEMMA RowsOfFile ==
  ASSUME NEW file \in Documents
  PROVE  /\ RowsOf(file) \in Seq(Rows)
         /\ DOMAIN RowsOf(file) = DOMAIN file.edits
         /\ \A m \in DOMAIN file.edits : RowsOf(file)[m] = Row(file.uri, file.edits[m])
<1>1. file.uri \in Uris /\ file.edits \in Seq(Ranges)
  BY DEF Documents
<1>2. PICK n \in Nat : n = Len(file.edits) /\ DOMAIN file.edits = 1..n
  BY <1>1, LenProperties
<1>3. \A m \in 1..n : file.edits[m] \in Ranges
  BY <1>1, <1>2, ElementOfSeq
<1>4. RowsOf(file) = [m \in 1..n |-> Row(file.uri, file.edits[m])]
  BY <1>2 DEF RowsOf, Row
<1>5. \A m \in 1..n : Row(file.uri, file.edits[m]) \in Rows
  BY <1>1, <1>3 DEF Rows
<1>6. RowsOf(file) \in [1..n -> Rows]
  BY <1>4, <1>5
<1>7. RowsOf(file) \in Seq(Rows)
  BY <1>6
<1>8. QED
  BY <1>2, <1>4, <1>7

ReportStep(rows, file) == rows \o RowsOf(file)

ReportsTo(tr, list) ==
  /\ tr[0] = <<>>
  /\ \A k \in 1..Len(list) : tr[k] = ReportStep(tr[k - 1], list[k])
  /\ ReportOf(list) = tr[Len(list)]

\* The report, file by file.
LEMMA ReportTrace ==
  ASSUME NEW list \in Seq(Documents)
  PROVE  \E tr : ReportsTo(tr, list)
<1> DEFINE step == [p \in Seq(Rows) \X Documents |-> ReportStep(p[1], p[2])]
<1> DEFINE IsFold(h) == h = [s \in SUBSET DOMAIN list |->
                               IF s = {} THEN <<>> ELSE ReportStep(h[s \ {Max(s)}], list[Max(s)])]
<1>1. step \in [Seq(Rows) \X Documents -> Seq(Rows)] /\ <<>> \in Seq(Rows) /\ Len(list) \in Nat /\ DOMAIN list = 1..Len(list)
  BY RowsOfFile, ConcatProperties, EmptySeq DEF ReportStep
<1>2. PICK g \in [SUBSET (1..Len(list)) -> Seq(Rows)] : FoldsTo(g, step, <<>>, list, Len(list))
  BY <1>1, FoldExists
<1>3. IsFold(g)
  <2>1. ASSUME NEW s \in SUBSET (1..Len(list)), s # {}
        PROVE  step[<<g[s \ {Max(s)}], list[Max(s)]>>] = ReportStep(g[s \ {Max(s)}], list[Max(s)])
    <3>1. Max(s) \in 1..Len(list)
      BY <1>1, <2>1, LargestPosition
    <3>2. list[Max(s)] \in Documents
      BY <3>1, ElementOfSeq
    <3>3. g[s \ {Max(s)}] \in Seq(Rows)
      OBVIOUS
    <3>4. QED
      BY <3>2, <3>3
  <2> HIDE DEF step
  <2>2. g = [s \in SUBSET (1..Len(list)) |-> IF s = {} THEN <<>> ELSE step[<<g[s \ {Max(s)}], list[Max(s)]>>]]
    BY <1>2 DEF FoldsTo
  <2>3. QED
    BY <1>1, <2>1, <2>2
<1> HIDE DEF step
<1> DEFINE iter == CHOOSE h : IsFold(h)
<1>4. IsFold(iter)
  BY <1>3
<1>5. ReportOf(list) = iter[DOMAIN list]
  BY DEF ReportOf, ReportStep, FoldLeft, MapThenFoldSet
<1> HIDE DEF iter
<1> DEFINE tr == [k \in 0..Len(list) |-> iter[1..k]]
<1>6. tr[0] = <<>>
  <2>1. 1..0 = {} /\ {} \in SUBSET DOMAIN list
    OBVIOUS
  <2>2. QED
    BY <1>1, <1>4, <2>1
<1>7. ASSUME NEW k \in 1..Len(list) PROVE tr[k] = ReportStep(tr[k - 1], list[k])
  <2>1. 1..k \in SUBSET DOMAIN list /\ 1..k # {} /\ k \in Nat /\ k # 0 /\ k - 1 \in 0..Len(list)
    BY <1>1, InitialSegment
  <2>2. Max(1..k) = k /\ (1..k) \ {k} = 1..(k - 1)
    BY <2>1, MaxOfInitialSegment
  <2>3. iter[1..k] = ReportStep(iter[1..(k - 1)], list[k])
    BY <1>4, <2>1, <2>2
  <2>4. QED
    BY <1>1, <2>1, <2>3
<1>8. ReportOf(list) = tr[Len(list)]
  BY <1>1, <1>5
<1> HIDE DEF tr
<1>9. QED
  BY <1>6, <1>7, <1>8 DEF ReportsTo


\* The files of an answer: the documents it names, in their order.
LEMMA FilesOfAnswer ==
  ASSUME NEW answer \in WorkspaceEdits, ~HasFileOperation(answer)
  PROVE  /\ Files(answer) \in Seq(Documents)
         /\ \A i, j \in DOMAIN Files(answer) : i < j => Files(answer)[i].uri < Files(answer)[j].uri
         /\ \A uri : uri \in NamedIn(answer) <=> \E i \in DOMAIN Files(answer) : Files(answer)[i].uri = uri
         /\ \A i \in DOMAIN Files(answer) : Files(answer)[i].edits = EditsOf(answer, Files(answer)[i].uri)
<1>1. PICK size \in Nat : DOMAIN Disk = 1..size
  BY RenameAssumption, LenProperties DEF RenameAssumption
<1>2. PICK all : all = [n \in DOMAIN Disk |-> n]
  OBVIOUS
<1>3. all \in Seq(Uris) /\ Len(all) = size /\ DOMAIN all = 1..size /\ \A n \in 1..size : all[n] = n
  <2>1. all \in [1..size -> Uris]
    BY <1>1, <1>2 DEF Uris
  <2>2. QED
    BY <1>1, <1>2, <2>1
<1>4. PICK uris : uris = Those(all, NamedIn(answer))
  OBVIOUS
<1>5. PICK position : Picks(position, uris, all, size, NamedIn(answer))
  BY <1>3, <1>4, ThoseArePicked DEF HasPicked
<1>6. uris \in Seq(Uris)
  BY <1>3, <1>4, ThoseProperties
<1>7. PICK n \in Nat : n = Len(uris) /\ DOMAIN uris = 1..n
  BY <1>6, LenProperties
<1>8. \A i \in 1..n : uris[i] = position[i] /\ uris[i] \in NamedIn(answer) /\ uris[i] \in Uris /\ uris[i] \in 1..size
  <2>1. \A i \in 1..n : position[i] \in 1..size /\ uris[i] = all[position[i]] /\ uris[i] \in NamedIn(answer)
    BY <1>5, <1>7 DEF Picks
  <2>2. \A i \in 1..n : uris[i] \in Uris
    BY <1>6, <1>7, ElementOfSeq
  <2>3. QED
    BY <1>3, <2>1, <2>2
<1>9. \A i, j \in 1..n : i < j => uris[i] < uris[j]
  <2>1. \A i, j \in 1..n : i < j => position[i] < position[j]
    BY <1>5, <1>7 DEF Picks
  <2>2. QED
    BY <1>8, <2>1
<1>10. \A uri \in NamedIn(answer) : \E i \in 1..n : uris[i] = uri
  <2>1. ASSUME NEW uri \in NamedIn(answer) PROVE uri \in 1..size
    <3>1. CASE uri \in DOMAIN answer.changes
      BY <1>1, <3>1, AnswerShape DEF Uris
    <3>2. CASE uri \in {d.uri : d \in ToSet(answer.documents)}
      <4>1. PICK d \in ToSet(answer.documents) : d.uri = uri
        BY <3>2
      <4>2. answer.documents \in Seq(Documents)
        BY AnswerShape
      <4>3. PICK i \in 1..Len(answer.documents) : d = answer.documents[i]
        BY <4>2, LenProperties DEF ToSet
      <4>4. d \in Documents
        BY <4>2, <4>3, ElementOfSeq
      <4>5. QED
        BY <1>1, <4>1, <4>4 DEF Documents, Uris
    <3>3. QED
      BY <3>1, <3>2 DEF NamedIn
  <2>2. \A k \in 1..size : all[k] \in NamedIn(answer) => \E i \in 1..n : position[i] = k
    BY <1>5, <1>7 DEF Picks
  <2>3. ASSUME NEW uri \in NamedIn(answer) PROVE \E i \in 1..n : uris[i] = uri
    <3>1. uri \in 1..size /\ all[uri] = uri
      BY <1>3, <2>1
    <3>2. PICK i \in 1..n : position[i] = uri
      BY <2>2, <3>1
    <3>3. QED
      BY <1>8, <3>2
  <2>4. QED
    BY <2>3
<1>11. Files(answer) = [i \in 1..n |-> [uri |-> uris[i], edits |-> EditsOf(answer, uris[i])]]
  BY <1>2, <1>4, <1>7 DEF Files, NamedIn
<1>12. ASSUME NEW i \in 1..n PROVE [uri |-> uris[i], edits |-> EditsOf(answer, uris[i])] \in Documents
  BY <1>8, EditsOfAnswer DEF Documents
<1>13. PICK files : files = Files(answer)
  OBVIOUS
<1>14. files \in [1..n -> Documents] /\ \A i \in 1..n : files[i].uri = uris[i] /\ files[i].edits = EditsOf(answer, uris[i])
  BY <1>11, <1>12, <1>13
<1>15. files \in Seq(Documents) /\ DOMAIN files = 1..n
  BY <1>14
<1>16. \A i, j \in 1..n : i < j => files[i].uri < files[j].uri
  BY <1>9, <1>14
<1>17. \A uri : uri \in NamedIn(answer) <=> \E i \in 1..n : files[i].uri = uri
  BY <1>8, <1>10, <1>14
<1>18. \A i \in 1..n : files[i].edits = EditsOf(answer, files[i].uri)
  BY <1>14
<1>19. QED
  BY <1>13, <1>15, <1>16, <1>17, <1>18

\* A report's rows are in the order of their documents, and of the edits in each.
RowsInOrder(rows) ==
  \A m, n \in DOMAIN rows : m < n =>
    \/ rows[m].uri < rows[n].uri
    \/ rows[m].uri = rows[n].uri /\ ~StartsBefore(rows[n].edit, rows[m].edit)

\* The rows of a later file follow those of the earlier ones.
LEMMA RowsFollow ==
  ASSUME NEW rows \in Seq(Rows), NEW file \in Documents, RowsInOrder(rows),
         \A m \in DOMAIN rows : rows[m].uri < file.uri,
         \A m, n \in DOMAIN file.edits : m < n => ~StartsBefore(file.edits[n], file.edits[m])
  PROVE  RowsInOrder(rows \o RowsOf(file))
<1>1. PICK more : more = RowsOf(file)
  OBVIOUS
<1>2. more \in Seq(Rows) /\ DOMAIN more = DOMAIN file.edits /\ \A m \in DOMAIN more : more[m] = Row(file.uri, file.edits[m])
  BY <1>1, RowsOfFile
<1>3. PICK a \in Nat : a = Len(rows) /\ DOMAIN rows = 1..a
  BY LenProperties
<1>4. PICK b \in Nat : b = Len(more) /\ DOMAIN more = 1..b
  BY <1>2, LenProperties
<1>5. PICK all : all = rows \o more
  OBVIOUS
<1>6. DOMAIN all = 1..(a + b) /\ \A i \in 1..(a + b) : all[i] = IF i <= a THEN rows[i] ELSE more[i - a]
  <2>1. all \in Seq(Rows) /\ Len(all) = Len(rows) + Len(more)
    BY <1>2, <1>5, ConcatProperties
  <2>2. Len(all) = a + b
    BY <1>3, <1>4, <2>1
  <2>3. \A i \in 1..(a + b) : all[i] = IF i <= a THEN rows[i] ELSE more[i - a]
    BY <1>2, <1>3, <1>4, <1>5, ConcatProperties
  <2>4. QED
    BY <2>1, <2>2, <2>3, LenProperties
<1>7. ASSUME NEW m \in 1..(a + b), NEW n \in 1..(a + b), m < n
      PROVE  \/ all[m].uri < all[n].uri
             \/ all[m].uri = all[n].uri /\ ~StartsBefore(all[n].edit, all[m].edit)
  <2>1. CASE n <= a
    <3>1. m \in DOMAIN rows /\ n \in DOMAIN rows /\ all[m] = rows[m] /\ all[n] = rows[n]
      <4>1. m <= a /\ m \in 1..a /\ n \in 1..a
        BY <1>7, <2>1
      <4>2. QED
        BY <1>3, <1>6, <2>1, <4>1
    <3>2. QED
      BY <1>7, <3>1 DEF RowsInOrder
  <2>2. CASE m <= a /\ ~(n <= a)
    <3>1. m \in DOMAIN rows /\ n - a \in 1..b
      BY <1>3, <2>2
    <3>2. all[m] = rows[m] /\ all[n] = more[n - a]
      BY <1>6, <2>2
    <3>3. all[n].uri = file.uri
      BY <1>2, <1>4, <3>1, <3>2, RowFields
    <3>4. QED
      BY <3>1, <3>2, <3>3
  <2>3. CASE ~(m <= a)
    <3>1. m - a \in 1..b /\ n - a \in 1..b /\ m - a < n - a /\ ~(n <= a)
      BY <1>7, <2>3
    <3>2. all[m] = more[m - a] /\ all[n] = more[n - a]
      BY <1>6, <2>3, <3>1
    <3>3. all[m] = Row(file.uri, file.edits[m - a]) /\ all[n] = Row(file.uri, file.edits[n - a])
      BY <1>2, <1>4, <3>1, <3>2
    <3>4. ~StartsBefore(file.edits[n - a], file.edits[m - a])
      BY <1>2, <1>4, <3>1
    <3>5. QED
      BY <3>3, <3>4, RowFields
  <2>4. QED
    BY <2>1, <2>2, <2>3
<1>8. QED
  BY <1>1, <1>5, <1>6, <1>7 DEF RowsInOrder

\* The report has its rows in order, each for an edit of the answer in a document it names.
LEMMA ReportedRows ==
  ASSUME NEW answer \in WorkspaceEdits, ~HasFileOperation(answer), NEW rows, rows = ReportOf(Files(answer))
  PROVE  /\ rows \in Seq(Rows)
         /\ RowsInOrder(rows)
         /\ \A i \in DOMAIN rows : rows[i].edit \in EditsIn(answer)
<1>1. PICK files \in Seq(Documents) : files = Files(answer)
  BY FilesOfAnswer
<1>2. PICK n \in Nat : n = Len(files) /\ DOMAIN files = 1..n
  BY LenProperties
<1>3. PICK tr : ReportsTo(tr, files)
  BY ReportTrace
<1>4. /\ tr[0] = <<>>
      /\ \A k \in 1..n : tr[k] = tr[k - 1] \o RowsOf(files[k])
      /\ rows = tr[n]
  BY <1>1, <1>2, <1>3 DEF ReportsTo, ReportStep
<1>5. /\ \A i, j \in 1..n : i < j => files[i].uri < files[j].uri
      /\ \A i \in 1..n : files[i].edits = EditsOf(answer, files[i].uri)
  BY <1>1, <1>2, FilesOfAnswer
<1>6. \A k \in 1..n : files[k] \in Documents
  BY <1>2, ElementOfSeq
<1> DEFINE Of(r, k) == \A i \in DOMAIN r : r[i].edit \in EditsIn(answer) /\ \E j \in 1..k : r[i].uri = files[j].uri
<1> DEFINE S == {k \in 0..n : tr[k] \in Seq(Rows) /\ RowsInOrder(tr[k]) /\ Of(tr[k], k)}
<1>7. 0 \in S
  <2>1. tr[0] \in Seq(Rows) /\ DOMAIN tr[0] = {}
    BY <1>4, NoPosition, EmptySeq
  <2>2. RowsInOrder(tr[0]) /\ Of(tr[0], 0)
    BY <2>1 DEF RowsInOrder
  <2> HIDE DEF Of
  <2>3. 0 \in 0..n
    OBVIOUS
  <2>4. QED
    BY <2>1, <2>2, <2>3
<1>8. ASSUME NEW k \in 1..n, k - 1 \in S PROVE k \in S
  <2>1. tr[k - 1] \in Seq(Rows) /\ RowsInOrder(tr[k - 1]) /\ Of(tr[k - 1], k - 1)
    BY <1>8
  <2>2. PICK file \in Documents : file = files[k]
    BY <1>6
  <2>3. PICK more : more = RowsOf(file)
    OBVIOUS
  <2>4. more \in Seq(Rows) /\ DOMAIN more = DOMAIN file.edits /\ \A m \in DOMAIN more : more[m] = Row(file.uri, file.edits[m])
    BY <2>3, RowsOfFile
  <2>5. tr[k] = tr[k - 1] \o more /\ tr[k] \in Seq(Rows)
    <3>1. tr[k] = tr[k - 1] \o more
      BY <1>4, <2>2, <2>3
    <3>2. tr[k - 1] \o more \in Seq(Rows)
      BY <2>1, <2>4, ConcatProperties
    <3>3. QED
      BY <3>1, <3>2
  <2>6. file.edits = EditsOf(answer, file.uri)
    BY <1>5, <2>2
  <2>7. RowsInOrder(tr[k])
    <3>1. \A m \in DOMAIN tr[k - 1] : tr[k - 1][m].uri < file.uri
      <4>1. ASSUME NEW m \in DOMAIN tr[k - 1] PROVE tr[k - 1][m].uri < file.uri
        <5>1. PICK j \in 1..(k - 1) : tr[k - 1][m].uri = files[j].uri
          BY <2>1
        <5>2. j \in 1..n /\ j < k
          BY <5>1
        <5>3. QED
          BY <1>5, <2>2, <5>1, <5>2
      <4>2. QED
        BY <4>1
    <3>2. \A m, l \in DOMAIN file.edits : m < l => ~StartsBefore(file.edits[l], file.edits[m])
      BY <2>6, EditsOfAnswer
    <3>3. QED
      BY <2>1, <2>3, <2>5, <3>1, <3>2, RowsFollow
  <2>8. Of(tr[k], k)
    <3>1. ASSUME NEW i \in DOMAIN tr[k]
          PROVE  tr[k][i].edit \in EditsIn(answer) /\ \E j \in 1..k : tr[k][i].uri = files[j].uri
      <4>1. tr[k][i] \in ToSet(tr[k - 1]) \cup ToSet(more)
        <5>1. tr[k][i] \in ToSet(tr[k])
          BY DEF ToSet
        <5>2. QED
          BY <2>1, <2>4, <2>5, <5>1, ElementsOfBoth
      <4>2. CASE tr[k][i] \in ToSet(tr[k - 1])
        <5>1. PICK m \in DOMAIN tr[k - 1] : tr[k][i] = tr[k - 1][m]
          BY <4>2 DEF ToSet
        <5>2. tr[k][i].edit \in EditsIn(answer) /\ \E j \in 1..(k - 1) : tr[k][i].uri = files[j].uri
          BY <2>1, <5>1
        <5>3. QED
          BY <5>2
      <4>3. CASE tr[k][i] \in ToSet(more)
        <5>1. PICK m \in DOMAIN file.edits : tr[k][i] = Row(file.uri, file.edits[m])
          BY <2>4, <4>3 DEF ToSet
        <5>2. tr[k][i].edit = file.edits[m] /\ tr[k][i].uri = files[k].uri
          BY <2>2, <5>1, RowFields
        <5>3. file.edits[m] \in EditsIn(answer)
          BY <2>6, EditsOfAnswer DEF ToSet
        <5>4. k \in 1..k
          OBVIOUS
        <5>5. QED
          BY <5>2, <5>3, <5>4
      <4>4. QED
        BY <4>1, <4>2, <4>3
    <3>2. QED
      BY <3>1
  <2> HIDE DEF Of
  <2>9. k \in 0..n
    OBVIOUS
  <2>10. QED
    BY <2>5, <2>7, <2>8, <2>9
<1>9. 0..n \subseteq S
  <2> HIDE DEF S
  <2>1. QED
    BY <1>7, <1>8, BoundedInduction
<1>10. n \in 0..n
  OBVIOUS
<1>11. tr[n] \in Seq(Rows) /\ RowsInOrder(tr[n]) /\ Of(tr[n], n)
  BY <1>9, <1>10
<1>12. QED
  BY <1>4, <1>11

\* A file's rows have an edit of a document as often as the file has it, if it is the
\* document's.
LEMMA RowsOfFileCounted ==
  ASSUME NEW file \in Documents, NEW uri, NEW e
  PROVE  Count(RowsOf(file), {Row(uri, e)}) = IF file.uri = uri THEN Occurrences(e, file.edits) ELSE 0
<1>1. PICK more : more = RowsOf(file)
  OBVIOUS
<1>2. DOMAIN more = DOMAIN file.edits /\ \A m \in DOMAIN file.edits : more[m] = Row(file.uri, file.edits[m])
  BY <1>1, RowsOfFile
<1>3. \A m \in DOMAIN file.edits : more[m] \in {Row(uri, e)} <=> file.uri = uri /\ file.edits[m] = e
  <2>1. ASSUME NEW m \in DOMAIN file.edits PROVE more[m] \in {Row(uri, e)} <=> file.uri = uri /\ file.edits[m] = e
    <3>1. more[m].uri = file.uri /\ more[m].edit = file.edits[m]
      BY <1>2, RowFields
    <3>2. Row(uri, e).uri = uri /\ Row(uri, e).edit = e
      BY RowFields
    <3>3. QED
      BY <1>2, <3>1, <3>2
  <2>2. QED
    BY <2>1
<1>4. CASE file.uri = uri
  <2>1. {m \in DOMAIN more : more[m] \in {Row(uri, e)}} = {m \in DOMAIN file.edits : file.edits[m] = e}
    BY <1>2, <1>3, <1>4
  <2>2. QED
    BY <1>1, <1>4, <2>1 DEF Count, Occurrences
<1>5. CASE file.uri # uri
  <2>1. {m \in DOMAIN more : more[m] \in {Row(uri, e)}} = {}
    BY <1>2, <1>3, <1>5
  <2>2. QED
    BY <1>1, <1>5, <2>1, FS_EmptySet DEF Count
<1>6. QED
  BY <1>4, <1>5

\* The report has each edit of each document as often as the answer has it.
LEMMA ReportedCounts ==
  ASSUME NEW answer \in WorkspaceEdits, ~HasFileOperation(answer), NEW rows, rows = ReportOf(Files(answer)),
         NEW uri, NEW e
  PROVE  Times(answer, uri, e) = Cardinality({i \in DOMAIN rows : rows[i].uri = uri /\ rows[i].edit = e})
<1>1. PICK files \in Seq(Documents) : files = Files(answer)
  BY FilesOfAnswer
<1>2. PICK n \in Nat : n = Len(files) /\ DOMAIN files = 1..n
  BY LenProperties
<1>3. PICK tr : ReportsTo(tr, files)
  BY ReportTrace
<1>4. /\ tr[0] = <<>>
      /\ \A k \in 1..n : tr[k] = tr[k - 1] \o RowsOf(files[k])
      /\ rows = tr[n]
  BY <1>1, <1>2, <1>3 DEF ReportsTo, ReportStep
<1>5. /\ \A i, j \in 1..n : i < j => files[i].uri < files[j].uri
      /\ \A i \in 1..n : files[i].edits = EditsOf(answer, files[i].uri)
      /\ \A u : u \in NamedIn(answer) <=> \E i \in 1..n : files[i].uri = u
  BY <1>1, <1>2, FilesOfAnswer
<1>6. \A k \in 1..n : files[k] \in Documents
  BY <1>2, ElementOfSeq
<1>7. PICK times \in Nat : times = Times(answer, uri, e)
  <2>1. Occurrences(e, EditsOf(answer, uri)) \in Nat
    BY EditsOfAnswer, OccurrencesAreCounted, CountType
  <2>2. QED
    BY <2>1, EditsOfAnswer
<1> DEFINE set == {Row(uri, e)}
<1> DEFINE Met(k) == \E j \in 1..k : files[j].uri = uri
<1> DEFINE S == {k \in 0..n : tr[k] \in Seq(Rows) /\ Count(tr[k], set) = IF Met(k) THEN times ELSE 0}
<1>8. 0 \in S
  <2>1. tr[0] \in Seq(Rows) /\ {i \in DOMAIN tr[0] : tr[0][i] \in set} = {}
    BY <1>4, NoPosition, EmptySeq
  <2>2. Count(tr[0], set) = 0
    BY <2>1, FS_EmptySet DEF Count
  <2>3. ~Met(0) /\ 0 \in 0..n
    OBVIOUS
  <2> HIDE DEF Met, set
  <2>4. QED
    BY <2>1, <2>2, <2>3
<1>9. ASSUME NEW k \in 1..n, k - 1 \in S PROVE k \in S
  <2>1. tr[k - 1] \in Seq(Rows) /\ Count(tr[k - 1], set) = IF Met(k - 1) THEN times ELSE 0
    BY <1>9
  <2>2. PICK file \in Documents : file = files[k]
    BY <1>6
  <2>3. PICK more \in Seq(Rows) : more = RowsOf(file)
    BY RowsOfFile
  <2>4. tr[k] = tr[k - 1] \o more
    BY <1>4, <2>2, <2>3
  <2>5. tr[k] \in Seq(Rows) /\ Count(tr[k], set) = Count(tr[k - 1], set) + Count(more, set)
    BY <2>1, <2>4, ConcatProperties, CountsAddUp
  <2>6. k \in 0..n /\ k \in 1..k /\ \A j \in 1..k : j = k \/ j \in 1..(k - 1)
    OBVIOUS
  <2>7. 1..(k - 1) \subseteq 1..k
    OBVIOUS
  <2>8. CASE file.uri = uri
    <3>1. ~Met(k - 1)
      <4>1. ASSUME NEW j \in 1..(k - 1), files[j].uri = uri PROVE FALSE
        <5>1. j \in 1..n /\ j < k
          OBVIOUS
        <5>2. uri < uri
          BY <1>5, <2>2, <2>8, <4>1, <5>1
        <5>3. uri \in Nat
          <6>1. uri \in Uris
            BY <2>8 DEF Documents
          <6>2. QED
            BY <6>1, RenameAssumption, LenProperties DEF RenameAssumption, Uris
        <5>4. QED
          BY <5>2, <5>3
      <4>2. QED
        BY <4>1
    <3>2. Count(more, set) = times
      <4>1. Count(more, set) = Occurrences(e, file.edits)
        BY <2>3, <2>8, RowsOfFileCounted
      <4>2. file.edits = EditsOf(answer, uri)
        BY <1>5, <2>2, <2>8
      <4>3. QED
        BY <1>7, <4>1, <4>2, EditsOfAnswer
    <3>3. Met(k)
      BY <2>2, <2>6, <2>8
    <3> HIDE DEF Met, set
    <3>4. Count(tr[k], set) = times
      BY <2>1, <2>5, <3>1, <3>2
    <3>5. QED
      BY <2>5, <2>6, <3>3, <3>4
  <2>9. CASE file.uri # uri
    <3>1. Count(more, set) = 0
      BY <2>3, <2>9, RowsOfFileCounted
    <3>2. Met(k) <=> Met(k - 1)
      BY <2>2, <2>6, <2>7, <2>9
    <3> HIDE DEF Met, set
    <3>3. Count(tr[k], set) = IF Met(k) THEN times ELSE 0
      BY <2>1, <2>5, <3>1, <3>2
    <3>4. QED
      BY <2>5, <2>6, <3>3
  <2>10. QED
    BY <2>8, <2>9
<1>10. 0..n \subseteq S
  <2> HIDE DEF S
  <2>1. QED
    BY <1>8, <1>9, BoundedInduction
<1>11. n \in 0..n
  OBVIOUS
<1>12. rows \in Seq(Rows) /\ Count(rows, set) = IF Met(n) THEN times ELSE 0
  BY <1>4, <1>10, <1>11
<1>13. Count(rows, set) = times
  <2>1. CASE Met(n)
    BY <1>12, <2>1
  <2>2. CASE ~Met(n)
    <3>1. uri \notin NamedIn(answer)
      BY <1>5, <2>2
    <3>2. times = 0
      BY <1>7, <3>1, EditsOfAnswer
    <3>3. QED
      BY <1>12, <2>2, <3>2
  <2>3. QED
    BY <2>1, <2>2
<1>14. {i \in DOMAIN rows : rows[i].uri = uri /\ rows[i].edit = e} = {i \in DOMAIN rows : rows[i] \in set}
  <2>1. ASSUME NEW i \in DOMAIN rows PROVE rows[i].uri = uri /\ rows[i].edit = e <=> rows[i] \in set
    <3>1. rows[i] \in Rows
      BY <1>12, LenProperties, ElementOfSeq
    <3>2. rows[i] = Row(rows[i].uri, rows[i].edit)
      BY <3>1, RowFields
    <3>3. Row(uri, e).uri = uri /\ Row(uri, e).edit = e
      BY RowFields
    <3>4. QED
      BY <3>2, <3>3
  <2>2. QED
    BY <2>1
<1>15. QED
  BY <1>7, <1>13, <1>14 DEF Count

------------------------------------------------------------------------------
\* The text a row shows. A character's offset in its line.

WidthStep(n, c) == n + Units[c]
WidthOf(list) == FoldLeft(LAMBDA n, c : n + Units[c], 0, list)

WidthsTo(tr, list) ==
  /\ tr[0] = 0
  /\ \A k \in 1..Len(list) : tr[k] = WidthStep(tr[k - 1], list[k])
  /\ WidthOf(list) = tr[Len(list)]

\* No character is zero units wide.
LEMMA UnitsArePositive == \A c \in DOMAIN Units : Units[c] \in Nat /\ Units[c] > 0
<1>1. Units \in [DOMAIN Units -> Nat \ {0}]
  BY RenameAssumption DEF RenameAssumption
<1>2. \A c \in DOMAIN Units : Units[c] \in Nat \ {0}
  BY <1>1
<1>3. QED
  BY <1>2

LEMMA WidthStepType ==
  ASSUME NEW n \in Nat, NEW c \in DOMAIN Units
  PROVE  WidthStep(n, c) \in Nat
BY UnitsArePositive DEF WidthStep

\* The width of a text, character by character.
LEMMA WidthTrace ==
  ASSUME NEW list \in Lines
  PROVE  \E tr : WidthsTo(tr, list)
<1> DEFINE step == [p \in Nat \X DOMAIN Units |-> WidthStep(p[1], p[2])]
<1> DEFINE IsFold(h) == h = [s \in SUBSET DOMAIN list |->
                               IF s = {} THEN 0 ELSE WidthStep(h[s \ {Max(s)}], list[Max(s)])]
<1>1. list \in Seq(DOMAIN Units)
  BY DEF Lines
<1>2. step \in [Nat \X DOMAIN Units -> Nat] /\ 0 \in Nat /\ Len(list) \in Nat /\ DOMAIN list = 1..Len(list)
  BY WidthStepType DEF Lines
<1>3. PICK g \in [SUBSET (1..Len(list)) -> Nat] : FoldsTo(g, step, 0, list, Len(list))
  BY <1>1, <1>2, FoldExists
<1>4. IsFold(g)
  <2>1. ASSUME NEW s \in SUBSET (1..Len(list)), s # {}
        PROVE  step[<<g[s \ {Max(s)}], list[Max(s)]>>] = WidthStep(g[s \ {Max(s)}], list[Max(s)])
    <3>1. Max(s) \in 1..Len(list)
      BY <1>2, <2>1, LargestPosition
    <3>2. list[Max(s)] \in DOMAIN Units
      BY <1>1, <3>1, ElementOfSeq
    <3>3. g[s \ {Max(s)}] \in Nat
      OBVIOUS
    <3>4. QED
      BY <3>2, <3>3
  <2> HIDE DEF step
  <2>2. g = [s \in SUBSET (1..Len(list)) |-> IF s = {} THEN 0 ELSE step[<<g[s \ {Max(s)}], list[Max(s)]>>]]
    BY <1>3 DEF FoldsTo
  <2>3. QED
    BY <1>2, <2>1, <2>2
<1> HIDE DEF step
<1> DEFINE iter == CHOOSE h : IsFold(h)
<1>5. IsFold(iter)
  BY <1>4
<1>6. WidthOf(list) = iter[DOMAIN list]
  BY DEF WidthOf, WidthStep, FoldLeft, MapThenFoldSet
<1> HIDE DEF iter
<1> DEFINE tr == [k \in 0..Len(list) |-> iter[1..k]]
<1>7. tr[0] = 0
  <2>1. 1..0 = {} /\ {} \in SUBSET DOMAIN list
    OBVIOUS
  <2>2. QED
    BY <1>2, <1>5, <2>1
<1>8. ASSUME NEW k \in 1..Len(list) PROVE tr[k] = WidthStep(tr[k - 1], list[k])
  <2>1. 1..k \in SUBSET DOMAIN list /\ 1..k # {} /\ k \in Nat /\ k # 0 /\ k - 1 \in 0..Len(list)
    BY <1>2, InitialSegment
  <2>2. Max(1..k) = k /\ (1..k) \ {k} = 1..(k - 1)
    BY <2>1, MaxOfInitialSegment
  <2>3. iter[1..k] = WidthStep(iter[1..(k - 1)], list[k])
    BY <1>5, <2>1, <2>2
  <2>4. QED
    BY <1>2, <2>1, <2>3
<1>9. WidthOf(list) = tr[Len(list)]
  BY <1>2, <1>6
<1> HIDE DEF tr
<1>10. QED
  BY <1>7, <1>8, <1>9 DEF WidthsTo

\* One more character makes a text wider by its units.
LEMMA WidthAppend ==
  ASSUME NEW text \in Lines, NEW c \in DOMAIN Units
  PROVE  WidthOf(text) \in Nat /\ WidthOf(Append(text, c)) = WidthOf(text) + Units[c]
<1>1. PICK longer : longer = Append(text, c)
  OBVIOUS
<1>2. PICK n \in Nat : n = Len(text)
  BY LenProperties DEF Lines
<1>3. /\ longer \in Lines /\ Len(longer) = n + 1
      /\ \A k \in 1..n : longer[k] = text[k]
      /\ longer[n + 1] = c
  BY <1>1, <1>2, AppendProperties DEF Lines
<1>4. PICK s : WidthsTo(s, text)
  BY WidthTrace
<1>5. PICK t : WidthsTo(t, longer)
  BY <1>3, WidthTrace
<1>6. s[0] = 0 /\ (\A k \in 1..n : s[k] = WidthStep(s[k - 1], text[k])) /\ WidthOf(text) = s[n]
  BY <1>2, <1>4 DEF WidthsTo
<1>7. t[0] = 0 /\ (\A k \in 1..(n + 1) : t[k] = WidthStep(t[k - 1], longer[k])) /\ WidthOf(longer) = t[n + 1]
  BY <1>3, <1>5 DEF WidthsTo
<1> DEFINE S == {k \in 0..n : s[k] = t[k] /\ s[k] \in Nat}
<1>8. 0 \in S
  BY <1>6, <1>7
<1>9. ASSUME NEW k \in 1..n, k - 1 \in S PROVE k \in S
  <2>1. s[k - 1] = t[k - 1] /\ s[k - 1] \in Nat
    BY <1>9
  <2>2. text[k] \in DOMAIN Units
    BY <1>2, ElementOfSeq DEF Lines
  <2>3. k \in 1..(n + 1) /\ k \in 0..n
    OBVIOUS
  <2>4. s[k] = WidthStep(s[k - 1], text[k]) /\ t[k] = WidthStep(s[k - 1], text[k])
    BY <1>3, <1>6, <1>7, <2>1, <2>3
  <2>5. QED
    BY <2>1, <2>2, <2>3, <2>4, WidthStepType
<1>10. 0..n \subseteq S
  <2> HIDE DEF S
  <2>1. QED
    BY <1>8, <1>9, BoundedInduction
<1>11. n \in 0..n /\ n + 1 \in 1..(n + 1) /\ (n + 1) - 1 = n
  OBVIOUS
<1>12. s[n] = t[n] /\ s[n] \in Nat
  BY <1>10, <1>11
<1>13. t[n + 1] = WidthStep(t[n], c)
  BY <1>3, <1>7, <1>11
<1>14. QED
  BY <1>1, <1>6, <1>7, <1>12, <1>13 DEF WidthStep

\* A part of a list with one element more.
LEMMA SubSeqGrows ==
  ASSUME NEW E, NEW s \in Seq(E), NEW i \in 1..(Len(s) + 1), NEW k \in (i - 1)..(Len(s) - 1)
  PROVE  /\ SubSeq(s, i, k) \in Seq(E)
         /\ SubSeq(s, i, k + 1) = Append(SubSeq(s, i, k), s[k + 1])
<1>1. PICK n \in Nat : n = Len(s)
  BY LenProperties
<1>2. i \in 1..(n + 1) /\ k \in (i - 1)..n /\ k \in Int /\ i \in Int /\ k + 1 \in k..n /\ k + 1 \in 1..n /\ k + 1 \in Int
  BY <1>1
<1>3. SubSeq(s, i, k) \o SubSeq(s, k + 1, k + 1) = SubSeq(s, i, k + 1)
  BY <1>1, <1>2, ConcatAdjacentSubSeq
<1>4. s[k + 1] \in E
  BY <1>1, <1>2, ElementOfSeq
<1>5. SubSeq(s, k + 1, k + 1) = <<s[k + 1]>>
  <2>1. PICK m \in Int : m = k + 1
    BY <1>2
  <2>2. \A j \in m..m : s[j] \in E
    BY <1>4, <2>1
  <2>3. /\ SubSeq(s, m, m) \in Seq(E) /\ Len(SubSeq(s, m, m)) = IF m <= m THEN m - m + 1 ELSE 0
        /\ \A j \in 1..(m - m + 1) : SubSeq(s, m, m)[j] = s[m + j - 1]
    BY <2>2, SubSeqProperties
  <2>4. Len(SubSeq(s, m, m)) = 1 /\ SubSeq(s, m, m)[1] = s[m]
    BY <2>3
  <2>5. PICK u \in Seq(E) : u = SubSeq(s, m, m)
    BY <2>3
  <2>6. PICK x \in E : x = s[m]
    BY <1>4, <2>1
  <2>7. <<x>> \in Seq(E) /\ Len(<<x>>) = 1 /\ <<x>>[1] = x
    OBVIOUS
  <2>8. Len(u) = 1 /\ u[1] = x
    BY <2>4, <2>5, <2>6
  <2>9. u = <<x>>
    BY <2>7, <2>8, SeqEqual
  <2>10. QED
    BY <2>1, <2>5, <2>6, <2>9
<1>6. SubSeq(s, i, k) \in Seq(E)
  <2>1. \A j \in i..k : s[j] \in E
    <3>1. \A j \in i..k : j \in 1..n
      BY <1>2
    <3>2. QED
      BY <1>1, <3>1, ElementOfSeq
  <2>2. QED
    BY <1>2, <2>1, SubSeqProperties
<1>7. QED
  BY <1>3, <1>4, <1>5, <1>6, AppendIsConcat

\* Each character starts where the one before it ends.
LEMMA OffsetsGrow ==
  ASSUME NEW line \in Lines
  PROVE  /\ OffsetOf(line, 1) = 0
         /\ \A i \in 1..Len(line) : OffsetOf(line, i + 1) = OffsetOf(line, i) + Units[line[i]]
         /\ \A i \in 1..(Len(line) + 1) : OffsetOf(line, i) \in Nat
         /\ \A i, j \in 1..(Len(line) + 1) : i < j => OffsetOf(line, i) < OffsetOf(line, j)
<1>1. PICK n \in Nat : n = Len(line)
  BY LenProperties DEF Lines
<1>2. \A i \in 1..n : line[i] \in DOMAIN Units
  BY <1>1, ElementOfSeq DEF Lines
<1>3. PICK off : off = [i \in 1..(n + 1) |-> OffsetOf(line, i)]
  OBVIOUS
<1>4. \A i \in 1..(n + 1) : off[i] = WidthOf(SubSeq(line, 1, i - 1))
  BY <1>3 DEF OffsetOf, WidthOf
<1>5. ASSUME NEW i \in 1..n PROVE off[i + 1] = off[i] + Units[line[i]] /\ off[i] \in Nat
  <2>1. 1 \in 1..(Len(line) + 1) /\ i - 1 \in (1 - 1)..(Len(line) - 1) /\ (i - 1) + 1 = i /\ (i + 1) - 1 = i
        /\ i + 1 \in 1..(n + 1) /\ i \in 1..(n + 1)
    BY <1>1
  <2>2. SubSeq(line, 1, i - 1) \in Lines /\ SubSeq(line, 1, i) = Append(SubSeq(line, 1, i - 1), line[i])
    BY <2>1, SubSeqGrows DEF Lines
  <2>3. /\ WidthOf(SubSeq(line, 1, i - 1)) \in Nat
        /\ WidthOf(SubSeq(line, 1, i)) = WidthOf(SubSeq(line, 1, i - 1)) + Units[line[i]]
    BY <1>2, <2>2, WidthAppend
  <2>4. QED
    BY <1>4, <2>1, <2>3
<1>6. off[1] = 0
  <2>1. PICK s : WidthsTo(s, <<>>)
    <3>1. <<>> \in Lines
      BY EmptySeq DEF Lines
    <3>2. QED
      BY <3>1, WidthTrace
  <2>2. WidthOf(<<>>) = 0
    BY <2>1, EmptySeq DEF WidthsTo
  <2>3. SubSeq(line, 1, 0) = <<>>
    BY SubSeqEmpty
  <2>4. 1 \in 1..(n + 1) /\ 1 - 1 = 0
    OBVIOUS
  <2>5. QED
    BY <1>4, <2>2, <2>3, <2>4
<1>7. ASSUME NEW i \in 1..(n + 1) PROVE off[i] \in Nat
  <2>1. CASE i \in 1..n
    BY <1>5, <2>1
  <2>2. CASE i = 1
    BY <1>6, <2>2
  <2>3. CASE i \notin 1..n /\ i # 1
    <3>1. i - 1 \in 1..n /\ (i - 1) + 1 = i
      BY <2>3
    <3>2. off[i] = off[i - 1] + Units[line[i - 1]] /\ off[i - 1] \in Nat
      BY <1>5, <3>1
    <3>3. Units[line[i - 1]] \in Nat
      BY <1>2, <3>1, UnitsArePositive
    <3>4. QED
      BY <3>2, <3>3
  <2>4. QED
    BY <2>1, <2>2, <2>3
<1>8. ASSUME NEW i \in 1..(n + 1) PROVE \A j \in 1..(n + 1) : i < j => off[i] < off[j]
  <2> DEFINE S == {k \in 0..n : i < k + 1 => off[i] < off[k + 1]}
  <2>1. 0 \in S
    OBVIOUS
  <2>2. ASSUME NEW k \in 1..n, k - 1 \in S PROVE k \in S
    <3>1. (k - 1) + 1 = k /\ k \in 0..n /\ k \in 1..(n + 1) /\ k + 1 \in 1..(n + 1)
      OBVIOUS
    <3>2. i < k => off[i] < off[k]
      BY <2>2, <3>1
    <3>3. off[k + 1] = off[k] + Units[line[k]] /\ Units[line[k]] \in Nat /\ Units[line[k]] > 0
      BY <1>2, <1>5, UnitsArePositive
    <3>4. off[i] \in Nat /\ off[k] \in Nat
      BY <1>7, <3>1
    <3>5. off[k] < off[k + 1]
      BY <3>3, <3>4
    <3>6. i < k + 1 => i = k \/ i < k
      OBVIOUS
    <3>7. off[k + 1] \in Nat
      BY <1>7, <3>1
    <3>8. i < k + 1 => off[i] < off[k + 1]
      BY <3>2, <3>4, <3>5, <3>6, <3>7
    <3>9. QED
      BY <3>1, <3>8
  <2>3. 0..n \subseteq S
    <3> HIDE DEF S
    <3>1. QED
      BY <2>1, <2>2, BoundedInduction
  <2>4. ASSUME NEW j \in 1..(n + 1), i < j PROVE off[i] < off[j]
    <3>1. j - 1 \in 0..n /\ (j - 1) + 1 = j
      OBVIOUS
    <3>2. j - 1 \in S
      BY <2>3, <3>1
    <3>3. QED
      BY <2>4, <3>1, <3>2
  <2>5. QED
    BY <2>4
<1>9. \A i \in 1..n : i \in 1..(n + 1) /\ i + 1 \in 1..(n + 1)
  OBVIOUS
<1>10. 1 \in 1..(n + 1)
  OBVIOUS
<1>11. \A i \in 1..(n + 1) : OffsetOf(line, i) = off[i]
  BY <1>3
<1>12. QED
  BY <1>1, <1>5, <1>6, <1>7, <1>8, <1>9, <1>10, <1>11

Slices == [units : Nat, text : Lines]
NoSlice == [units |-> 0, text |-> <<>>]
SliceStep(acc, c, from, to) ==
  IF acc.units >= to THEN acc
  ELSE [units |-> acc.units + Units[c],
        text |-> IF acc.units >= from THEN Append(acc.text, c) ELSE acc.text]
SliceEnd(list, from, to) ==
  FoldLeft(LAMBDA acc, c : IF acc.units >= to THEN acc
                           ELSE [units |-> acc.units + Units[c],
                                 text |-> IF acc.units >= from THEN Append(acc.text, c) ELSE acc.text],
           [units |-> 0, text |-> <<>>], list)

SlicesTo(tr, list, from, to) ==
  /\ tr[0] = NoSlice
  /\ \A k \in 1..Len(list) : tr[k] = SliceStep(tr[k - 1], list[k], from, to)
  /\ SliceEnd(list, from, to) = tr[Len(list)]

\* The walk over a line keeps its type.
LEMMA SliceStepType ==
  ASSUME NEW acc \in Slices, NEW c \in DOMAIN Units, NEW from, NEW to
  PROVE  SliceStep(acc, c, from, to) \in Slices
<1>1. acc.units \in Nat /\ acc.text \in Lines
  BY DEF Slices
<1>2. acc.units + Units[c] \in Nat
  BY <1>1, UnitsArePositive
<1>3. Append(acc.text, c) \in Lines
  BY <1>1, AppendProperties DEF Lines
<1>4. QED
  BY <1>1, <1>2, <1>3 DEF SliceStep, Slices

\* A slice, character by character.
LEMMA SliceTrace ==
  ASSUME NEW list \in Lines, NEW from \in Nat, NEW to \in Nat
  PROVE  \E tr : SlicesTo(tr, list, from, to)
<1> DEFINE step == [p \in Slices \X DOMAIN Units |-> SliceStep(p[1], p[2], from, to)]
<1> DEFINE IsFold(h) == h = [s \in SUBSET DOMAIN list |->
                               IF s = {} THEN NoSlice ELSE SliceStep(h[s \ {Max(s)}], list[Max(s)], from, to)]
<1>1. list \in Seq(DOMAIN Units)
  BY DEF Lines
<1>2. step \in [Slices \X DOMAIN Units -> Slices] /\ NoSlice \in Slices /\ Len(list) \in Nat /\ DOMAIN list = 1..Len(list)
  BY SliceStepType, EmptySeq, LenProperties DEF Lines, NoSlice, Slices
<1>3. PICK g \in [SUBSET (1..Len(list)) -> Slices] : FoldsTo(g, step, NoSlice, list, Len(list))
  BY <1>1, <1>2, FoldExists
<1>4. IsFold(g)
  <2>1. ASSUME NEW s \in SUBSET (1..Len(list)), s # {}
        PROVE  step[<<g[s \ {Max(s)}], list[Max(s)]>>] = SliceStep(g[s \ {Max(s)}], list[Max(s)], from, to)
    <3>1. Max(s) \in 1..Len(list)
      BY <1>2, <2>1, LargestPosition
    <3>2. list[Max(s)] \in DOMAIN Units
      BY <1>1, <3>1, ElementOfSeq
    <3>3. g[s \ {Max(s)}] \in Slices
      OBVIOUS
    <3>4. QED
      BY <3>2, <3>3
  <2> HIDE DEF step
  <2>2. g = [s \in SUBSET (1..Len(list)) |-> IF s = {} THEN NoSlice ELSE step[<<g[s \ {Max(s)}], list[Max(s)]>>]]
    BY <1>3 DEF FoldsTo
  <2>3. QED
    BY <1>2, <2>1, <2>2
<1> HIDE DEF step
<1> DEFINE iter == CHOOSE h : IsFold(h)
<1>5. IsFold(iter)
  BY <1>4
<1>6. SliceEnd(list, from, to) = iter[DOMAIN list]
  BY DEF SliceEnd, SliceStep, NoSlice, FoldLeft, MapThenFoldSet
<1> HIDE DEF iter
<1> DEFINE tr == [k \in 0..Len(list) |-> iter[1..k]]
<1>7. tr[0] = NoSlice
  <2>1. 1..0 = {} /\ {} \in SUBSET DOMAIN list
    OBVIOUS
  <2>2. QED
    BY <1>2, <1>5, <2>1
<1>8. ASSUME NEW k \in 1..Len(list) PROVE tr[k] = SliceStep(tr[k - 1], list[k], from, to)
  <2>1. 1..k \in SUBSET DOMAIN list /\ 1..k # {} /\ k \in Nat /\ k # 0 /\ k - 1 \in 0..Len(list)
    BY <1>2, InitialSegment
  <2>2. Max(1..k) = k /\ (1..k) \ {k} = 1..(k - 1)
    BY <2>1, MaxOfInitialSegment
  <2>3. iter[1..k] = SliceStep(iter[1..(k - 1)], list[k], from, to)
    BY <1>5, <2>1, <2>2
  <2>4. QED
    BY <1>2, <2>1, <2>3
<1>9. SliceEnd(list, from, to) = tr[Len(list)]
  BY <1>2, <1>6
<1> HIDE DEF tr
<1>10. QED
  BY <1>7, <1>8, <1>9 DEF SlicesTo


\* utf16_slice is what the walk ends with, if the line is long enough.
LEMMA SliceIsEnd ==
  ASSUME NEW line, NEW from, NEW to, NEW walked, walked = SliceEnd(line, from, to)
  PROVE  Slice(line, from, to) = IF walked.units >= to \/ from = to THEN walked.text ELSE Ellipsis
BY DEF Slice, SliceEnd

\* Between two offsets at which a character starts, or the line ends, the slice is the text
\* between them.
LEMMA SliceIsBetween ==
  ASSUME NEW line \in Lines, NEW i \in 1..(Len(line) + 1), NEW j \in 1..(Len(line) + 1), i <= j
  PROVE  Slice(line, OffsetOf(line, i), OffsetOf(line, j)) = SubSeq(line, i, j - 1)
<1>1. PICK n \in Nat : n = Len(line)
  BY LenProperties DEF Lines
<1>2. i \in 1..(n + 1) /\ j \in 1..(n + 1)
  BY <1>1
<1>3. PICK off : off = [k \in 1..(n + 1) |-> OffsetOf(line, k)]
  OBVIOUS
<1>4. /\ off[1] = 0
      /\ \A k \in 1..(n + 1) : off[k] \in Nat
      /\ \A k \in 1..n : off[k + 1] = off[k] + Units[line[k]]
      /\ \A k, l \in 1..(n + 1) : k < l => off[k] < off[l]
  <2>1. 1 \in 1..(n + 1) /\ \A k \in 1..n : k \in 1..(n + 1) /\ k + 1 \in 1..(n + 1)
    OBVIOUS
  <2>2. \A k \in 1..(n + 1) : off[k] = OffsetOf(line, k)
    BY <1>3
  <2>3. QED
    BY <1>1, <2>1, <2>2, OffsetsGrow
<1>5. PICK from \in Nat : from = off[i] /\ from = OffsetOf(line, i)
  BY <1>2, <1>3, <1>4
<1>6. PICK to \in Nat : to = off[j] /\ to = OffsetOf(line, j)
  BY <1>2, <1>3, <1>4
<1>7. PICK tr : SlicesTo(tr, line, from, to)
  BY SliceTrace
<1>8. /\ tr[0] = NoSlice
      /\ \A k \in 1..n : tr[k] = SliceStep(tr[k - 1], line[k], from, to)
      /\ SliceEnd(line, from, to) = tr[n]
  BY <1>1, <1>7 DEF SlicesTo
<1> DEFINE Early(k) == k < j => tr[k].units = off[k + 1] /\ tr[k].text = SubSeq(line, i, k)
<1> DEFINE Late(k) == k >= j - 1 => tr[k].units = to /\ tr[k].text = SubSeq(line, i, j - 1)
<1> DEFINE S == {k \in 0..n : Early(k) /\ Late(k)}
<1>9. 0 \in S
  <2>1. tr[0].units = 0 /\ tr[0].text = <<>>
    BY <1>8 DEF NoSlice
  <2>2. i \in Int /\ 0 < i /\ 0 \in Int /\ 0 + 1 = 1
    BY <1>2
  <2>3. SubSeq(line, i, 0) = <<>>
    BY <2>2, SubSeqEmpty
  <2>4. Early(0)
    BY <1>4, <2>1, <2>2, <2>3
  <2>5. Late(0)
    <3>1. ASSUME 0 >= j - 1 PROVE j = 1 /\ j - 1 = 0
      BY <1>2, <3>1
    <3>2. QED
      BY <1>4, <1>6, <2>1, <2>3, <3>1
  <2>6. 0 \in 0..n
    OBVIOUS
  <2> HIDE DEF Early, Late
  <2>7. QED
    BY <2>4, <2>5, <2>6
<1>10. ASSUME NEW k \in 1..n, k - 1 \in S PROVE k \in S
  <2>1. Early(k - 1) /\ Late(k - 1)
    BY <1>10
  <2>2. k \in 0..n /\ k \in 1..(n + 1) /\ k + 1 \in 1..(n + 1) /\ (k - 1) + 1 = k /\ k \in Int /\ k - 1 \in Int
    OBVIOUS
  <2>3. tr[k] = SliceStep(tr[k - 1], line[k], from, to)
    BY <1>8
  <2>4. CASE k < j
    <3>1. k - 1 < j
      BY <1>2, <2>4
    <3>2. tr[k - 1].units = off[k] /\ tr[k - 1].text = SubSeq(line, i, k - 1)
      BY <2>1, <2>2, <3>1
    <3>3. off[k] < to /\ off[k] \in Nat
      BY <1>2, <1>4, <1>6, <2>2, <2>4
    <3>4. ~(tr[k - 1].units >= to)
      BY <3>2, <3>3
    <3>5. tr[k] = [units |-> tr[k - 1].units + Units[line[k]],
                   text |-> IF tr[k - 1].units >= from THEN Append(tr[k - 1].text, line[k]) ELSE tr[k - 1].text]
      BY <2>3, <3>4 DEF SliceStep
    <3>6. tr[k].units = off[k + 1]
      <4>1. tr[k].units = off[k] + Units[line[k]]
        BY <3>2, <3>5
      <4>2. QED
        BY <1>4, <4>1
    <3>7. tr[k].text = SubSeq(line, i, k)
      <4>1. CASE i <= k
        <5>1. off[k] >= from
          <6>1. i = k \/ i < k
            BY <1>2, <4>1
          <6>2. i < k => off[i] < off[k]
            BY <1>2, <1>4, <2>2
          <6>3. off[i] = from
            BY <1>5
          <6>4. QED
            BY <3>3, <6>1, <6>2, <6>3
        <5>2. tr[k].text = Append(SubSeq(line, i, k - 1), line[k])
          BY <3>2, <3>5, <5>1
        <5>3. k - 1 \in (i - 1)..(Len(line) - 1)
          BY <1>1, <1>2, <4>1
        <5>4. SubSeq(line, i, k) = Append(SubSeq(line, i, k - 1), line[k])
          BY <2>2, <5>3, SubSeqGrows DEF Lines
        <5>5. QED
          BY <5>2, <5>4
      <4>2. CASE ~(i <= k)
        <5>1. off[k] < from
          <6>1. k < i /\ k \in 1..(n + 1) /\ i \in 1..(n + 1)
            BY <1>2, <2>2, <4>2
          <6>2. off[k] < off[i]
            BY <1>4, <6>1
          <6>3. QED
            BY <1>5, <6>2
        <5>2. tr[k].text = SubSeq(line, i, k - 1)
          BY <3>2, <3>3, <3>5, <5>1
        <5>3. i \in Int /\ k < i /\ k - 1 < i
          BY <1>2, <4>2
        <5>4. SubSeq(line, i, k - 1) = <<>> /\ SubSeq(line, i, k) = <<>>
          BY <2>2, <5>3, SubSeqEmpty
        <5>5. QED
          BY <5>2, <5>4
      <4>3. QED
        BY <4>1, <4>2
    <3>8. Early(k)
      BY <3>6, <3>7
    <3>9. Late(k)
      <4>1. ASSUME k >= j - 1 PROVE k + 1 = j /\ k = j - 1
        BY <1>2, <2>4, <4>1
      <4>2. QED
        BY <1>6, <3>6, <3>7, <4>1
    <3> HIDE DEF Early, Late
    <3>10. QED
      BY <2>2, <3>8, <3>9
  <2>5. CASE ~(k < j)
    <3>1. k - 1 >= j - 1 /\ k >= j - 1
      BY <1>2, <2>5
    <3>2. tr[k - 1].units = to /\ tr[k - 1].text = SubSeq(line, i, j - 1)
      BY <2>1, <3>1
    <3>3. tr[k] = tr[k - 1]
      BY <2>3, <3>2 DEF SliceStep
    <3>4. Early(k) /\ Late(k)
      BY <2>5, <3>2, <3>3
    <3> HIDE DEF Early, Late
    <3>5. QED
      BY <2>2, <3>4
  <2>6. QED
    BY <2>4, <2>5
<1>11. 0..n \subseteq S
  <2> HIDE DEF S
  <2>1. QED
    BY <1>9, <1>10, BoundedInduction
<1>12. n \in 0..n /\ n >= j - 1
  BY <1>2
<1>13. tr[n].units = to /\ tr[n].text = SubSeq(line, i, j - 1)
  BY <1>11, <1>12
<1>14. Slice(line, from, to) = tr[n].text
  <2>1. tr[n].units >= to
    BY <1>13
  <2>2. QED
    BY <1>8, <2>1, SliceIsEnd
<1>15. QED
  BY <1>5, <1>6, <1>13, <1>14

\* Beyond the end of the line there is no text.
LEMMA SliceBeyond ==
  ASSUME NEW line \in Lines, NEW from \in Nat, NEW to \in Nat, OffsetOf(line, Len(line) + 1) < to, from < to
  PROVE  Slice(line, from, to) = Ellipsis
<1>1. PICK n \in Nat : n = Len(line)
  BY LenProperties DEF Lines
<1>2. PICK off : off = [k \in 1..(n + 1) |-> OffsetOf(line, k)]
  OBVIOUS
<1>3. /\ off[1] = 0
      /\ \A k \in 1..(n + 1) : off[k] \in Nat
      /\ \A k \in 1..n : off[k + 1] = off[k] + Units[line[k]]
      /\ \A k, l \in 1..(n + 1) : k < l => off[k] < off[l]
      /\ off[n + 1] < to
  <2>1. 1 \in 1..(n + 1) /\ n + 1 \in 1..(n + 1) /\ \A k \in 1..n : k \in 1..(n + 1) /\ k + 1 \in 1..(n + 1)
    OBVIOUS
  <2>2. \A k \in 1..(n + 1) : off[k] = OffsetOf(line, k)
    BY <1>2
  <2>3. QED
    BY <1>1, <2>1, <2>2, OffsetsGrow
<1>4. PICK tr : SlicesTo(tr, line, from, to)
  BY SliceTrace
<1>5. /\ tr[0] = NoSlice
      /\ \A k \in 1..n : tr[k] = SliceStep(tr[k - 1], line[k], from, to)
      /\ SliceEnd(line, from, to) = tr[n]
  BY <1>1, <1>4 DEF SlicesTo
<1> DEFINE S == {k \in 0..n : tr[k].units = off[k + 1]}
<1>6. 0 \in S
  <2>1. tr[0].units = 0 /\ 0 + 1 = 1 /\ 0 \in 0..n
    BY <1>5 DEF NoSlice
  <2>2. QED
    BY <1>3, <2>1
<1>7. ASSUME NEW k \in 1..n, k - 1 \in S PROVE k \in S
  <2>1. k \in 0..n /\ k \in 1..(n + 1) /\ (k - 1) + 1 = k /\ k < n + 1 /\ n + 1 \in 1..(n + 1)
    OBVIOUS
  <2>2. tr[k - 1].units = off[k]
    BY <1>7, <2>1
  <2>3. off[k] < off[n + 1] /\ off[k] \in Nat /\ off[n + 1] \in Nat
    BY <1>3, <2>1
  <2>4. ~(tr[k - 1].units >= to)
    BY <1>3, <2>2, <2>3
  <2>5. tr[k].units = tr[k - 1].units + Units[line[k]]
    <3>1. tr[k] = SliceStep(tr[k - 1], line[k], from, to)
      BY <1>5
    <3>2. tr[k] = [units |-> tr[k - 1].units + Units[line[k]],
                   text |-> IF tr[k - 1].units >= from THEN Append(tr[k - 1].text, line[k]) ELSE tr[k - 1].text]
      BY <2>4, <3>1 DEF SliceStep
    <3>3. QED
      BY <3>2
  <2>6. tr[k].units = off[k] + Units[line[k]]
    BY <2>2, <2>5
  <2>7. tr[k].units = off[k + 1]
    BY <1>3, <2>6
  <2>8. QED
    BY <2>1, <2>7
<1>8. 0..n \subseteq S
  <2> HIDE DEF S
  <2>1. QED
    BY <1>6, <1>7, BoundedInduction
<1>9. n \in 0..n /\ n + 1 \in 1..(n + 1)
  OBVIOUS
<1>10. tr[n].units = off[n + 1]
  BY <1>8, <1>9
<1>11. ~(tr[n].units >= to) /\ from # to
  BY <1>3, <1>9, <1>10
<1>12. QED
  BY <1>5, <1>11, SliceIsEnd

\* A row shows the text its edit replaces.
LEMMA RowShows ==
  ASSUME NEW uri \in Uris, NEW e \in Ranges
  PROVE  Shows(uri, e, Replaced(uri, e))
<1>1. CASE e.start[1] # e.end[1] \/ Disk[uri] = Unreadable \/ e.start[1] >= Len(Disk[uri])
  BY <1>1 DEF Shows, Replaced
<1>2. CASE ~(e.start[1] # e.end[1] \/ Disk[uri] = Unreadable \/ e.start[1] >= Len(Disk[uri]))
  <2>1. PICK file \in Seq(Lines) : file = Disk[uri]
    <3>1. uri \in 1..Len(Disk)
      BY RenameAssumption, LenProperties DEF RenameAssumption, Uris
    <3>2. Disk[uri] \in Seq(Lines) \cup {Unreadable}
      BY <3>1, RenameAssumption, ElementOfSeq DEF RenameAssumption
    <3>3. QED
      BY <1>2, <3>2
  <2>2. e.start \in Nat \X Nat /\ e.end \in Nat \X Nat
    BY DEF Ranges
  <2>3. PICK from \in Nat : from = e.start[2]
    BY <2>2
  <2>4. PICK to \in Nat : to = e.end[2]
    BY <2>2
  <2>5. PICK row \in Nat : row = e.start[1]
    BY <2>2
  <2>6. PICK line \in Lines : line = Disk[uri][e.start[1] + 1]
    <3>1. row + 1 \in 1..Len(file)
      <4>1. Len(file) \in Nat /\ ~(row >= Len(file))
        BY <1>2, <2>1, <2>5, LenProperties
      <4>2. QED
        BY <4>1
    <3>2. file[row + 1] \in Lines
      BY <3>1, ElementOfSeq
    <3>3. QED
      BY <2>1, <2>5, <3>2
  <2>7. Replaced(uri, e) = Slice(line, from, to)
    BY <1>2, <2>3, <2>4, <2>6 DEF Replaced
  <2>8. \A i, j \in 1..(Len(line) + 1) :
          i <= j /\ OffsetOf(line, i) = from /\ OffsetOf(line, j) = to => Slice(line, from, to) = SubSeq(line, i, j - 1)
    BY SliceIsBetween
  <2>9. to > OffsetOf(line, Len(line) + 1) /\ from < to => Slice(line, from, to) = Ellipsis
    <3>1. PICK width \in Nat : width = OffsetOf(line, Len(line) + 1)
      <4>1. PICK n \in Nat : n = Len(line)
        BY LenProperties DEF Lines
      <4>2. n + 1 \in 1..(n + 1)
        OBVIOUS
      <4>3. QED
        BY <4>1, <4>2, OffsetsGrow
    <3>2. to > width => width < to
      OBVIOUS
    <3>3. QED
      BY <3>1, <3>2, SliceBeyond
  <2>10. QED
    BY <1>2, <2>3, <2>4, <2>6, <2>7, <2>8, <2>9 DEF Shows
<1>3. QED
  BY <1>1, <1>2

\* What a rename has written is the report of rust-analyzer's answer.
RenameInv ==
  /\ edit \in WorkspaceEdits \cup {Unreadable}
  /\ report \in Seq(Rows)
  /\ edit # Unreadable /\ ~HasFileOperation(edit) => report = ReportOf(Files(edit))

\* The invariant holds at the start.
LEMMA InitRename == Init => RenameInv
<1>1. <<>> \in Seq(Rows)
  BY EmptySeq
<1>2. QED
  BY <1>1 DEF Init, RenameInit, RenameInv

\* Only an answer to a rename changes the report.
LEMMA CommandMovesRename ==
  ASSUME [Next]_vars
  PROVE  UNCHANGED renameVars \/ \E answer \in WorkspaceEdits : Reported(answer)
<1>1. CASE WalkStep
  BY <1>1 DEF WalkStep
<1>2. CASE TargetFails \/ (\E hasNotes \in BOOLEAN : WalkEnds(hasNotes)) \/ NoItemThere
  BY <1>2 DEF TargetFails, WalkEnds, NoItemThere
<1>3. CASE SearchStep \/ SearchEnds \/ (\E exists \in BOOLEAN : OutlineFile(exists)) \/ OutlineFails
  BY <1>3 DEF SearchStep, SearchEnds, OutlineFile, OutlineFails
<1>4. CASE Parse \/ LookupStep \/ TakeTargets \/ LookupEnds
  BY <1>4 DEF Parse, LookupStep, TakeTargets, LookupEnds
<1>5. CASE AnswerReferences \/ RenameRefused \/ (\E answer \in WorkspaceEdits : AnswerRename(answer))
  BY <1>5 DEF AnswerReferences, RenameRefused, AnswerRename
<1>6. CASE (\E calls \in 0..MaxDetails : AnswerDefinition(calls)) \/ (\E fails \in BOOLEAN : AnswerDetail(fails))
  BY <1>6 DEF AnswerDefinition, AnswerDetail
<1>7. CASE Finish \/ Over \/ UNCHANGED vars
  BY <1>7 DEF Finish, Over, vars
<1>8. QED
  BY <1>1, <1>2, <1>3, <1>4, <1>5, <1>6, <1>7 DEF Next

\* Every step keeps it, and it has the property in it.
LEMMA StepRename == RenameInv /\ [Next]_vars => RenameInv'
<1> SUFFICES ASSUME RenameInv, [Next]_vars PROVE RenameInv'
  OBVIOUS
<1>1. ASSUME NEW answer \in WorkspaceEdits, Reported(answer) PROVE RenameInv'
  <2>1. CASE HasFileOperation(answer)
    <3>1. edit' = answer /\ report' = <<>>
      BY <1>1, <2>1 DEF Reported
    <3>2. QED
      BY <2>1, <3>1, EmptySeq DEF RenameInv
  <2>2. CASE ~HasFileOperation(answer)
    <3>1. edit' = answer /\ report' = ReportOf(Files(answer))
      BY <1>1, <2>2 DEF Reported
    <3>2. report' \in Seq(Rows)
      BY <2>2, <3>1, ReportedRows
    <3>3. QED
      BY <3>1, <3>2 DEF RenameInv
  <2>3. QED
    BY <2>1, <2>2
<1>2. ASSUME UNCHANGED renameVars PROVE RenameInv'
  BY <1>2 DEF RenameInv, renameVars
<1>3. QED
  BY <1>1, <1>2, CommandMovesRename

LEMMA InvIsRenameReport == RenameInv => RenameReport
<1> SUFFICES ASSUME RenameInv, edit # Unreadable, ~HasFileOperation(edit)
             PROVE  /\ \A uri \in Uris, e \in EditsIn(edit) :
                         Times(edit, uri, e) = Cardinality({n \in DOMAIN report : report[n].uri = uri /\ report[n].edit = e})
                    /\ \A n \in DOMAIN report :
                         report[n].edit \in EditsIn(edit) /\ Shows(report[n].uri, report[n].edit, report[n].old)
                    /\ \A m, n \in DOMAIN report : m < n =>
                         \/ report[m].uri < report[n].uri
                         \/ report[m].uri = report[n].uri /\ ~StartsBefore(report[n].edit, report[m].edit)
  BY DEF RenameReport
<1>1. PICK answer \in WorkspaceEdits : answer = edit
  BY DEF RenameInv
<1>2. PICK rows : rows = ReportOf(Files(answer)) /\ rows = report
  BY <1>1 DEF RenameInv
<1>3. ~HasFileOperation(answer)
  BY <1>1
<1>4. /\ rows \in Seq(Rows)
      /\ RowsInOrder(rows)
      /\ \A i \in DOMAIN rows : rows[i].edit \in EditsIn(answer)
  BY <1>2, <1>3, ReportedRows
<1>5. \A uri, e : Times(answer, uri, e) = Cardinality({i \in DOMAIN rows : rows[i].uri = uri /\ rows[i].edit = e})
  BY <1>2, <1>3, ReportedCounts
<1>6. ASSUME NEW n \in DOMAIN rows PROVE Shows(rows[n].uri, rows[n].edit, rows[n].old)
  <2>1. rows[n] \in Rows
    BY <1>4, LenProperties, ElementOfSeq
  <2>2. /\ rows[n].uri \in Uris /\ rows[n].edit \in Ranges
        /\ rows[n].old = Replaced(rows[n].uri, rows[n].edit)
    BY <2>1, RowFields
  <2>3. QED
    BY <2>2, RowShows
<1>7. QED
  BY <1>1, <1>2, <1>4, <1>5, <1>6 DEF RowsInOrder

\* A rename's report has every edit of the answer as often as the answer has it, in the
\* order of documents and positions, each with the text it replaces, whatever the edits and
\* the widths of the characters.
THEOREM RenameIsReportedWhole == Spec => []RenameReport
  BY InvIsRenameReport, InitRename, StepRename, PTL DEF Spec


------------------------------------------------------------------------------
\* Type correctness.

BlockNames == {"stdout", "stderr", "warning", "reason", "internal error"}
Results == [error : BOOLEAN, blocks : Seq(BlockNames)]

CommandTypes ==
  /\ front \in {"cli", "mcp"}
  /\ command \in Kinds
  /\ outcome \in {"running", "ok", "usage", "failed"}
  /\ todo \in Seq(Target)
  /\ details \in 0..MaxDetails
  /\ result \in Results
  /\ query \in Queries \cup {<<>>}
  /\ shape \in {"empty", "flat", "nested"}

\* All that is known of the parts.
TypeInv == CommandInv /\ WalkInv /\ SearchInv /\ RenameInv /\ CommandTypes

\* A tool's result is a list of blocks.
LEMMA ResultTypes ==
  ASSUME NEW how \in {"ok", "usage", "failed"}, NEW status \in {"ready", "indexing", "error"},
         noted \in BOOLEAN, answered \in BOOLEAN
  PROVE  ToolResult(how, status) \in Results /\ NoResult \in Results
<1>1. <<>> \in Seq(BlockNames)
  BY EmptySeq
<1>2. NoResult \in Results
  BY <1>1 DEF NoResult, Results
<1>3. /\ <<"stdout">> \in Seq(BlockNames) /\ <<"stderr">> \in Seq(BlockNames) /\ <<"warning">> \in Seq(BlockNames)
      /\ <<"reason">> \in Seq(BlockNames) /\ <<"internal error">> \in Seq(BlockNames)
  BY DEF BlockNames
<1>4. Block("stderr", noted) \in Seq(BlockNames) /\ Warning(status) \in Seq(BlockNames)
  BY <1>1, <1>3 DEF Block, Warning
<1>5. <<"stdout">> \o Block("stderr", noted) \in Seq(BlockNames)
  BY <1>3, <1>4, ConcatProperties
<1>6. PICK blocks : blocks = <<"stdout">> \o Block("stderr", noted) \o Warning(status)
  OBVIOUS
<1>7. blocks \in Seq(BlockNames)
  BY <1>4, <1>5, <1>6, ConcatProperties
<1>8. CASE how = "usage"
  BY <1>2, <1>3, <1>8 DEF ToolResult, Results
<1>9. CASE how = "failed"
  BY <1>2, <1>3, <1>9 DEF ToolResult, Results
<1>10. CASE how = "ok"
  <2>1. ToolResult(how, status) = [error |-> ~answered, blocks |-> blocks]
    BY <1>6, <1>10 DEF ToolResult
  <2>2. QED
    BY <1>2, <1>7, <2>1 DEF Results
<1>11. QED
  BY <1>8, <1>9, <1>10

\* A command's end keeps its types.
LEMMA EndTypes ==
  ASSUME NEW how \in {"ok", "usage", "failed"}, End(how), CommandTypes, noted \in BOOLEAN, answered \in BOOLEAN,
         UNCHANGED <<query, shape>>
  PROVE  CommandTypes'
<1>1. UNCHANGED <<front, command, todo, details, query, shape>> /\ outcome' = how
  BY DEF End
<1>2. result' \in Results
  BY ResultTypes DEF End
<1>3. QED
  BY <1>1, <1>2 DEF CommandTypes

\* A step that leaves everything but its targets and counts.
LEMMA RunTypes ==
  ASSUME CommandTypes, UNCHANGED <<front, command, outcome, result, query, shape>>,
         todo' \in Seq(Target), details' \in 0..MaxDetails
  PROVE  CommandTypes'
BY DEF CommandTypes

\* Types are kept by every step and hold at the start.
LEMMA StepTypes == TypeInv /\ [Next]_vars => CommandTypes'
<1> SUFFICES ASSUME TypeInv, [Next]_vars PROVE CommandTypes'
  OBVIOUS
<1>1. /\ CommandTypes /\ noted \in BOOLEAN /\ answered \in BOOLEAN
      /\ todo \in Seq(Target) /\ details \in 0..MaxDetails /\ targets \in Seq(Target)
  BY DEF TypeInv, CommandTypes, CommandInv, Counted, LookupInv, LookupTypes
<1>2. todo # <<>> => Tail(todo) \in Seq(Target)
  BY <1>1, HeadTailProperties
<1>3. MaxDetails \in Nat
  BY CommandAssumption DEF CommandAssumption
<1>4. ASSUME SearchStep PROVE CommandTypes'
  <2>1. UNCHANGED <<front, command, outcome, todo, details, result>>
    BY <1>4 DEF SearchStep, commandVars
  <2>2. query' = query /\ shape' \in {"empty", "flat", "nested"}
    <3>1. CASE BeginSearch
      BY <1>1, <3>1 DEF BeginSearch, CommandTypes
    <3>2. CASE SplitQuery \/ SearchFails \/ WriteSearch
      BY <1>1, <3>2 DEF SplitQuery, SearchFails, WriteSearch, CommandTypes
    <3>3. ASSUME NEW reply \in Replies, SingleAnswered(reply) PROVE query' = query /\ shape' \in {"empty", "flat", "nested"}
      BY <1>1, <3>3 DEF SingleAnswered, CommandTypes
    <3>4. ASSUME NEW reply \in Replies, SegmentAnswered(reply) PROVE query' = query /\ shape' \in {"empty", "flat", "nested"}
      <4>1. query' = query /\ shape' \in {shape, ShapeOf(Cut(reply))}
        BY <3>4 DEF SegmentAnswered
      <4>2. QED
        BY <1>1, <4>1 DEF ShapeOf, CommandTypes
    <3>5. BeginSearch \/ SearchNext
      BY <1>4 DEF SearchStep
    <3>6. QED
      BY <3>1, <3>2, <3>3, <3>4, <3>5 DEF SearchNext
  <2>3. QED
    BY <1>1, <2>1, <2>2 DEF CommandTypes
<1>5. ASSUME SearchEnds \/ OutlineFails \/ LookupEnds \/ RenameRefused \/ TargetFails \/ Finish PROVE CommandTypes'
  <2>1. UNCHANGED <<query, shape>>
    BY <1>5 DEF SearchEnds, OutlineFails, LookupEnds, RenameRefused, TargetFails, Finish, searchVars
  <2>2. End("failed") \/ End("usage") \/ End("ok")
    BY <1>5 DEF SearchEnds, OutlineFails, LookupEnds, RenameRefused, TargetFails, Finish
  <2>3. QED
    BY <1>1, <2>1, <2>2, EndTypes
<1>6. ASSUME Parse PROVE CommandTypes'
  <2>1. UNCHANGED <<query, shape>>
    BY <1>6 DEF Parse, searchVars
  <2>2. CASE End("usage")
    BY <1>1, <2>1, <2>2, EndTypes
  <2>3. CASE UNCHANGED commandVars
    BY <1>1, <2>1, <2>3 DEF CommandTypes, commandVars
  <2>4. QED
    BY <1>6, <2>2, <2>3 DEF Parse
<1>7. ASSUME LookupStep \/ WalkStep \/ Over \/ UNCHANGED vars PROVE CommandTypes'
  <2>1. UNCHANGED <<commandVars, searchVars>>
    BY <1>7 DEF LookupStep, WalkStep, Over, vars
  <2>2. QED
    BY <1>1, <2>1 DEF CommandTypes, commandVars, searchVars
<1>8. ASSUME NEW answer \in WorkspaceEdits, AnswerRename(answer) PROVE CommandTypes'
  <2>1. UNCHANGED <<query, shape>> /\ todo # <<>>
    BY <1>8 DEF AnswerRename, HasTarget, searchVars
  <2>2. CASE End("failed")
    BY <1>1, <2>1, <2>2, EndTypes
  <2>3. CASE Answer /\ UNCHANGED details
    BY <1>1, <1>2, <2>1, <2>3, RunTypes DEF Answer
  <2>4. QED
    BY <1>8, <2>2, <2>3 DEF AnswerRename
<1>9. ASSUME TakeTargets \/ \E exists \in BOOLEAN : OutlineFile(exists) PROVE CommandTypes'
  <2>1. UNCHANGED <<front, command, outcome, result, query, shape, details>> /\ todo' \in {todo, targets}
    BY <1>9 DEF TakeTargets, OutlineFile, searchVars
  <2>2. QED
    BY <1>1, <2>1, RunTypes
<1>10. ASSUME NEW calls \in 0..MaxDetails, AnswerDefinition(calls) PROVE CommandTypes'
  <2>1. UNCHANGED <<front, command, outcome, result, query, shape>> /\ todo' = Tail(todo) /\ todo # <<>> /\ details' = calls
    BY <1>10 DEF AnswerDefinition, Answer, HasTarget, searchVars
  <2>2. QED
    BY <1>1, <1>2, <2>1, RunTypes
<1>11. ASSUME NEW fails \in BOOLEAN, AnswerDetail(fails) PROVE CommandTypes'
  <2>1. UNCHANGED <<front, command, outcome, result, query, shape, todo>> /\ details > 0 /\ details' = details - 1
    BY <1>11 DEF AnswerDetail, searchVars
  <2>2. details' \in 0..MaxDetails
    BY <1>1, <1>3, <2>1
  <2>3. QED
    BY <1>1, <2>1, <2>2, RunTypes
<1>12. ASSUME AnswerReferences \/ NoItemThere \/ \E hasNotes \in BOOLEAN : WalkEnds(hasNotes) PROVE CommandTypes'
  <2>1. UNCHANGED <<front, command, outcome, result, query, shape, details>> /\ todo' = Tail(todo) /\ todo # <<>>
    BY <1>12 DEF AnswerReferences, NoItemThere, WalkEnds, Answer, HasTarget, searchVars
  <2>2. QED
    BY <1>1, <1>2, <2>1, RunTypes
<1>13. QED
  BY <1>4, <1>5, <1>6, <1>7, <1>8, <1>9, <1>10, <1>11, <1>12, Zenon DEF Next

LEMMA InitTypes == Init => CommandTypes
<1> SUFFICES ASSUME Init PROVE CommandTypes
  OBVIOUS
<1>1. SearchInit(Queries, BOOLEAN) \/ SearchInit({<<>>}, {FALSE})
  BY DEF Init
<1>2. query \in Queries \cup {<<>>} /\ shape = "empty"
  BY <1>1 DEF SearchInit
<1>3. <<>> \in Seq(BlockNames) /\ <<>> \in Seq(Target)
  BY EmptySeq
<1>4. NoResult \in Results
  BY <1>3 DEF NoResult, Results
<1>5. MaxDetails \in Nat
  BY CommandAssumption DEF CommandAssumption
<1>6. /\ front \in {"cli", "mcp"} /\ command \in Kinds /\ outcome = "running" /\ todo = <<>> /\ details = 0
      /\ result = NoResult
  BY DEF Init
<1>7. details \in 0..MaxDetails
  BY <1>5, <1>6
<1>8. QED
  BY <1>2, <1>3, <1>4, <1>6, <1>7 DEF CommandTypes

\* A note is of a name or a position of the command's.
LEMMA LookupIsTyped == LookupInv => LookupTypeOK
<1> SUFFICES ASSUME LookupInv PROVE LookupTypeOK
  OBVIOUS
<1>1. LookupTypes /\ Stages /\ NotesOf(notes, at - 1, wasCut)
  BY DEF LookupInv
<1>2. specs \in {<<>>} \cup {SpecsOf(a) : a \in Given}
  <2>1. CASE given \in Given
    BY <1>1, <2>1 DEF LookupTypes
  <2>2. CASE given = Nothing
    <3>1. SpecsOf(Nothing) = <<>>
      BY ConcatEmptySeq, EmptySeq DEF SpecsOf, Nothing, HasPosition
    <3>2. QED
      BY <1>1, <2>2, <3>1 DEF LookupTypes
  <2>3. QED
    BY <1>1, <2>1, <2>2 DEF LookupTypes
<1>3. notes \in Seq([spec : DOMAIN specs, truncated : BOOLEAN, what : What])
  <2>1. PICK n \in Nat : n = Len(notes) /\ DOMAIN notes = 1..n
    BY <1>1, LenProperties DEF LookupTypes
  <2>2. PICK size \in Nat : size = Len(specs) /\ DOMAIN specs = 1..size
    BY <1>1 DEF LookupTypes
  <2>3. at \in 0..(size + 1)
    BY <1>1, <2>2 DEF LookupTypes
  <2>4. ASSUME NEW i \in 1..n PROVE notes[i] \in [spec : DOMAIN specs, truncated : BOOLEAN, what : What]
    <3>1. notes[i] \in AnyNote
      BY <1>1, <2>1, ElementOfSeq DEF LookupTypes
    <3>2. notes[i].spec \in 1..(at - 1)
      BY <1>1, <2>1 DEF NotesOf
    <3>3. notes[i].spec \in 1..size
      BY <2>3, <3>2
    <3>4. QED
      BY <2>2, <3>1, <3>3 DEF AnyNote
  <2>5. PICK Told : Told = [spec : DOMAIN specs, truncated : BOOLEAN, what : What]
    OBVIOUS
  <2>6. notes \in [1..n -> Told]
    <3>1. notes \in [1..n -> AnyNote]
      BY <1>1, <2>1, LenProperties DEF LookupTypes
    <3>2. \A i \in 1..n : notes[i] \in Told
      BY <2>4, <2>5
    <3>3. QED
      BY <3>1, <3>2
  <2>7. notes \in Seq(Told)
    BY <2>6
  <2>8. QED
    BY <2>5, <2>7
<1>4. QED
  BY <1>1, <1>2, <1>3 DEF LookupTypes, LookupTypeOK, Target, What

LEMMA InvIsTyped == TypeInv => TypeOK
<1> SUFFICES ASSUME TypeInv PROVE TypeOK
  OBVIOUS
<1>1. LookupTypeOK /\ WalkTypeOK
  BY LookupIsTyped DEF TypeInv, CommandInv, WalkInv
<1>2. SearchTypeOK
  <2>1. SearchTypes /\ CommandTypes
    BY DEF TypeInv, SearchInv
  <2>2. \A n \in DOMAIN got : got[n] \in Replies
    <3>1. DOMAIN got = 1..Len(got)
      BY <2>1, LenProperties DEF SearchTypes
    <3>2. QED
      BY <2>1, <3>1, ElementOfSeq DEF SearchTypes
  <2>3. QED
    BY <2>1, <2>2 DEF SearchTypes, CommandTypes, SearchTypeOK
<1>3. RenameTypeOK
  <2>1. edit \in WorkspaceEdits \cup {Unreadable} /\ report \in Seq(Rows)
    BY DEF TypeInv, RenameInv
  <2>2. \A n \in DOMAIN report : report[n] \in Rows
    BY <2>1, LenProperties, ElementOfSeq
  <2>3. QED
    BY <2>1, <2>2, RowFields DEF RenameTypeOK
<1>4. result.error \in BOOLEAN /\ ToSet(result.blocks) \subseteq BlockNames
  <2>1. result.error \in BOOLEAN /\ result.blocks \in Seq(BlockNames)
    BY DEF TypeInv, CommandTypes, Results
  <2>2. ASSUME NEW x \in ToSet(result.blocks) PROVE x \in BlockNames
    <3>1. PICK i \in DOMAIN result.blocks : x = result.blocks[i]
      BY DEF ToSet
    <3>2. i \in 1..Len(result.blocks)
      BY <2>1, LenProperties
    <3>3. QED
      BY <2>1, <3>1, <3>2, ElementOfSeq
  <2>3. QED
    BY <2>1, <2>2
<1>5. results \in Nat /\ {printed, noted, answered} \subseteq BOOLEAN
  BY DEF TypeInv, CommandInv, Counted
<1>6. QED
  BY <1>1, <1>2, <1>3, <1>4, <1>5 DEF TypeInv, CommandTypes, TypeOK, Target, BlockNames

\* Every variable of a command and of its parts keeps its type.
THEOREM TypeCorrect == Spec => []TypeOK
<1>1. Init => TypeInv
  BY InitCommand, InitWalk, InitSearch, InitRename, InitTypes DEF TypeInv
<1>2. TypeInv /\ [Next]_vars => TypeInv'
  <2>1. SUFFICES ASSUME TypeInv, [Next]_vars PROVE TypeInv'
    OBVIOUS
  <2>2. CommandInv /\ WalkInv /\ SearchInv /\ RenameInv
    BY <2>1 DEF TypeInv
  <2>3. CommandTypes'
    BY <2>1, StepTypes
  <2>4. QED
    BY <2>1, <2>2, <2>3, StepCommand, StepWalk, StepSearch, StepRename DEF TypeInv
<1>3. QED
  BY <1>1, <1>2, InvIsTyped, PTL DEF Spec

==============================================================================
