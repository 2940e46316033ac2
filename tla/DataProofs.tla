----------------------------- MODULE DataProofs -----------------------------
(* What the operators on data return: the files of entries, vectors, and numbers that *)
(* are compared as strings.                                                          *)
EXTENDS EntryFiles, Vectors, Decimals, FiniteSetTheorems, WellFoundedInduction, TLAPS

USE CounterAssumption

-----------------------------------------------------------------------------
(* The files of entries. *)

\* The fields of a file.
LEMMA FieldsOfFile ==
  ASSUME NEW f \in File
  PROVE  /\ f.name \in Name
         /\ f.left \in Counter \cup {None} /\ f.done \in Counter \cup {None}
         /\ f.left = None => f.done = None
  BY DEF File

\* Counting a boot keeps the name and gives a file that parses again; a counted
\* entry that has tries left loses exactly one.
LEMMA CountedFileType ==
  ASSUME NEW f \in File, f.left # None
  PROVE  /\ CountedFile(f) \in File
         /\ CountedFile(f).name = f.name
         /\ CountedFile(f).left # None
         /\ f.left # 0 => CountedFile(f).left = f.left - 1
<1> DEFINE l == IF f.left > 0 THEN f.left - 1 ELSE f.left
           d == IF f.done # None /\ f.done # CounterMax THEN f.done + 1 ELSE f.done
<1>1. f.left \in Counter /\ f.done \in Counter \cup {None}
  BY FieldsOfFile
<1>2. l \in Counter /\ l # None /\ (f.left # 0 => l = f.left - 1)
  BY <1>1 DEF Counter
<1>3. d \in Counter \cup {None}
  BY <1>1 DEF Counter
<1>4. CountedFile(f) = [f EXCEPT !.left = l, !.done = d]
  BY DEF CountedFile
<1> HIDE DEF l, d
<1>5. CountedFile(f).name = f.name /\ CountedFile(f).left = l /\ CountedFile(f).done = d
  BY <1>4 DEF File
<1>6. CountedFile(f) \in [name : Name, left : Counter \cup {None}, done : Counter \cup {None}]
  BY <1>2, <1>3, <1>4 DEF File
<1> QED
  BY <1>2, <1>5, <1>6 DEF File

\* A verdict keeps the name.
LEMMA VerdictType ==
  ASSUME NEW f \in File
  PROVE  /\ GoodFile(f) \in File /\ GoodFile(f).name = f.name /\ GoodFile(f).left = None
         /\ BadFile(f) \in File /\ BadFile(f).name = f.name /\ BadFile(f).left = 0
<1>1. /\ GoodFile(f).name = f.name /\ GoodFile(f).left = None /\ GoodFile(f).done = None
      /\ GoodFile(f) \in [name : Name, left : Counter \cup {None}, done : Counter \cup {None}]
  BY DEF GoodFile, File
<1>2. 0 \in Counter /\ 0 # None
  BY DEF Counter
<1>3. BadFile(f) \in File /\ BadFile(f).name = f.name /\ BadFile(f).left = 0
  BY <1>2 DEF BadFile, File
<1> QED
  BY <1>1, <1>3 DEF File

\* A rename brings in at most its target.
LEMMA RenamedBound ==
  ASSUME NEW S, NEW f, NEW g
  PROVE  /\ Renamed(S, f, g) \subseteq S \cup {g}
         /\ f \notin S => Renamed(S, f, g) = S
         /\ f \in S => Renamed(S, f, g) = (S \ {f}) \cup {g}
  BY DEF Renamed

-----------------------------------------------------------------------------
(* Vectors. *)

\* A set of numbers that is not empty has a least one.
LEMMA LeastNumber ==
  ASSUME NEW S \in SUBSET Nat, S # {}
  PROVE  \E i \in S : \A j \in S : i <= j
<1>1. PICK i \in S : \A j \in S : ~(<<j, i>> \in OpToRel(<, Nat))
  BY NatLessThanWellFounded, WFMin, Zenon
<1>2. \A j \in S : <<j, i>> \in OpToRel(<, Nat) <=> j < i
  BY DEF OpToRel
<1>3. \A j \in S : ~(j < i)
  BY <1>1, <1>2, Zenon
<1>4. i \in Nat /\ \A j \in S : j \in Nat
  OBVIOUS
<1> QED
  BY <1>3, <1>4

\* How many of the places in I come before i, i included.
Standing(I, i) == Cardinality({j \in I : j <= i})

\* Of the places in a finite set each has its own standing.
LEMMA StandingBijective ==
  ASSUME NEW I \in SUBSET Nat, IsFiniteSet(I)
  PROVE  /\ \A i \in I : Standing(I, i) \in 1 .. Cardinality(I)
         /\ \A i, j \in I : i < j => Standing(I, i) < Standing(I, j)
         /\ \A k \in 1 .. Cardinality(I) : \E i \in I : Standing(I, i) = k
<1> DEFINE upto(i) == {j \in I : j <= i}
           n == Cardinality(I)
<1>1. n \in Nat
  BY FS_CardinalityType
<1>2. ASSUME NEW i \in I
      PROVE  IsFiniteSet(upto(i)) /\ Standing(I, i) \in 1 .. n /\ Standing(I, i) \in Nat
  <2>1. IsFiniteSet(upto(i)) /\ Cardinality(upto(i)) <= n
    BY FS_Subset
  <2>2. Cardinality(upto(i)) \in Nat /\ Cardinality(upto(i)) # 0
    <3>1. i \in upto(i)
      OBVIOUS
    <3> QED
      BY <2>1, <3>1, FS_CardinalityType, FS_EmptySet
  <2> QED
    BY <1>1, <2>1, <2>2 DEF Standing
<1>3. ASSUME NEW i \in I, NEW j \in I, i < j
      PROVE  Standing(I, i) < Standing(I, j)
  <2>1. upto(i) \in SUBSET upto(j) /\ upto(i) # upto(j)
    <3>1. i \in Nat /\ j \in Nat /\ j \in upto(j) /\ j \notin upto(i)
      BY <1>3
    <3>2. ASSUME NEW l \in upto(i) PROVE l \in upto(j)
      BY <1>3
    <3> QED
      BY <3>1, <3>2
  <2>2. Cardinality(upto(i)) <= Cardinality(upto(j)) /\ Cardinality(upto(i)) # Cardinality(upto(j))
    BY <1>2, <2>1, FS_Subset
  <2>3. Standing(I, i) \in Nat /\ Standing(I, j) \in Nat
    BY <1>2
  <2> QED
    BY <2>2, <2>3 DEF Standing
<1> DEFINE standing == [i \in I |-> Standing(I, i)]
<1>4. standing \in Injection(I, 1 .. n)
  <2>1. standing \in [I -> 1 .. n]
    BY <1>2
  <2>2. \A i, j \in I : standing[i] = standing[j] => i = j
    <3> SUFFICES ASSUME NEW i \in I, NEW j \in I, i # j PROVE standing[i] # standing[j]
      OBVIOUS
    <3>1. i < j \/ j < i
      OBVIOUS
    <3>2. Standing(I, i) \in Nat /\ Standing(I, j) \in Nat
      BY <1>2
    <3> QED
      BY <1>3, <3>1, <3>2
  <2> QED
    BY <2>1, <2>2 DEF Injection, IsInjective
<1>5. standing \in Surjection(I, 1 .. n)
  <2>1. IsFiniteSet(1 .. n) /\ Cardinality(1 .. n) = n
    BY <1>1, FS_Interval
  <2> QED
    BY <1>4, <2>1, FS_Injection
<1>6. \A k \in 1 .. n : \E i \in I : Standing(I, i) = k
  BY <1>5 DEF Surjection
<1> QED
  BY <1>2, <1>3, <1>6

\* Filtered keeps the elements at the places in I, each once, in their order.
LEMMA FilteredPlaces ==
  ASSUME NEW I \in SUBSET Nat, IsFiniteSet(I)
  PROVE  /\ Cardinality(I) \in Nat
         /\ \A k \in 1 .. Cardinality(I) : Place(I, k) \in I
         /\ \A j, k \in 1 .. Cardinality(I) : j < k => Place(I, j) < Place(I, k)
         /\ \A i \in I : \E k \in 1 .. Cardinality(I) : Place(I, k) = i
<1> DEFINE n == Cardinality(I)
<1>1. n \in Nat
  BY FS_CardinalityType
<1>2. \A k \in 1 .. n : Place(I, k) \in I /\ Standing(I, Place(I, k)) = k
  BY StandingBijective DEF Place, Standing
<1>3. \A j, k \in 1 .. n : j < k => Place(I, j) < Place(I, k)
  <2> SUFFICES ASSUME NEW j \in 1 .. n, NEW k \in 1 .. n, j < k PROVE Place(I, j) < Place(I, k)
    OBVIOUS
  <2>1. Place(I, j) \in I /\ Place(I, k) \in I /\ Standing(I, Place(I, j)) = j /\ Standing(I, Place(I, k)) = k
    BY <1>2
  <2>2. Place(I, j) \in Nat /\ Place(I, k) \in Nat
    BY <2>1
  <2>3. ~(Place(I, k) < Place(I, j)) /\ Place(I, k) # Place(I, j)
    <3>1. \A a, b \in I : a < b => Standing(I, a) < Standing(I, b)
      BY StandingBijective
    <3>2. Place(I, k) < Place(I, j) => k < j
      BY <2>1, <3>1
    <3> QED
      BY <2>1, <3>2
  <2> QED
    BY <2>2, <2>3
<1>4. \A i \in I : \E k \in 1 .. n : Place(I, k) = i
  <2> SUFFICES ASSUME NEW i \in I PROVE Place(I, Standing(I, i)) = i
    BY StandingBijective
  <2> DEFINE p == Place(I, Standing(I, i))
  <2>1. p \in I /\ Standing(I, p) = Standing(I, i) /\ Standing(I, i) \in 1 .. n
    BY <1>2, StandingBijective
  <2>2. ~(p < i) /\ ~(i < p)
    <3>1. \A a, b \in I : a < b => Standing(I, a) < Standing(I, b)
      BY StandingBijective
    <3>2. (p < i => Standing(I, p) < Standing(I, i)) /\ (i < p => Standing(I, i) < Standing(I, p))
      BY <2>1, <3>1
    <3> HIDE DEF p
    <3> QED
      BY <1>1, <2>1, <3>2
  <2>3. p \in Nat /\ i \in Nat
    BY <2>1
  <2> HIDE DEF p
  <2> QED
    BY <2>2, <2>3 DEF p
<1> QED
  BY <1>1, <1>2, <1>3, <1>4

\* A permutation of 1 .. n that keeps the order leaves every place where it is.
LEMMA MonotoneFixed ==
  ASSUME NEW n \in Nat, NEW p \in Bijection(1 .. n, 1 .. n),
         \A i, j \in 1 .. n : i < j => p[i] < p[j]
  PROVE  \A i \in 1 .. n : p[i] = i
<1>1. /\ p \in [1 .. n -> 1 .. n]
      /\ \A i, j \in 1 .. n : p[i] = p[j] => i = j
      /\ \A j \in 1 .. n : \E i \in 1 .. n : p[i] = j
  BY DEF Bijection, Injection, Surjection, IsInjective
<1> DEFINE moved == {i \in 1 .. n : p[i] # i}
<1> SUFFICES ASSUME moved # {} PROVE FALSE
  OBVIOUS
<1>2. PICK i \in moved : \A j \in moved : i <= j
  <2>1. moved \in SUBSET Nat
    OBVIOUS
  <2> HIDE DEF moved
  <2> QED
    BY <2>1, LeastNumber
<1>3. i \in 1 .. n /\ p[i] \in 1 .. n /\ p[i] # i
  BY <1>1, <1>2
<1>4. \A j \in 1 .. n : j < i => p[j] = j
  BY <1>2, <1>3
<1>5. ~(p[i] < i)
  BY <1>1, <1>3, <1>4
<1>6. PICK k \in 1 .. n : p[k] = i
  BY <1>1, <1>3
<1>7. i < k
  BY <1>3, <1>4, <1>6
<1>8. p[i] < p[k]
  BY <1>3, <1>7
<1> QED
  BY <1>3, <1>5, <1>6, <1>8

\* Of a strict order on finitely many places, in which any two are ordered, there is one
\* way to stand in line.
LEMMA OneWayToStand ==
  ASSUME NEW n \in Nat, NEW R,
         \A i \in 1 .. n : <<i, i>> \notin R,
         \A i, j \in 1 .. n : i # j => <<i, j>> \in R \/ <<j, i>> \in R,
         \A i, j, k \in 1 .. n : <<i, j>> \in R /\ <<j, k>> \in R => <<i, k>> \in R
  PROVE  \E p \in Bijection(1 .. n, 1 .. n) :
           /\ \A i, j \in 1 .. n : i < j => <<p[i], p[j]>> \in R
           /\ \A q \in Bijection(1 .. n, 1 .. n) :
                (\A i, j \in 1 .. n : i < j => <<q[i], q[j]>> \in R) => q = p
<1> DEFINE S == 1 .. n
           upto(i) == {j \in S : j = i \/ <<j, i>> \in R}
           rank == [i \in S |-> Cardinality(upto(i))]
<1>1. IsFiniteSet(S) /\ Cardinality(S) = n
  BY FS_Interval
<1>2. ASSUME NEW i \in S
      PROVE  IsFiniteSet(upto(i)) /\ Cardinality(upto(i)) \in S
  <2>1. IsFiniteSet(upto(i)) /\ Cardinality(upto(i)) <= n
    <3>1. upto(i) \in SUBSET S
      OBVIOUS
    <3> HIDE DEF upto, S
    <3> QED
      BY <1>1, <3>1, FS_Subset
  <2>2. Cardinality(upto(i)) \in Nat /\ Cardinality(upto(i)) # 0
    <3>1. i \in upto(i)
      OBVIOUS
    <3> HIDE DEF upto
    <3> QED
      BY <2>1, <3>1, FS_CardinalityType, FS_EmptySet
  <2> HIDE DEF upto
  <2> QED
    BY <2>1, <2>2
<1>3. ASSUME NEW i \in S, NEW j \in S, <<i, j>> \in R
      PROVE  rank[i] < rank[j]
  <2>1. i # j /\ <<j, i>> \notin R
    BY <1>3
  <2>2. upto(i) \in SUBSET upto(j) /\ upto(i) # upto(j)
    <3>1. j \in upto(j) /\ j \notin upto(i)
      BY <2>1
    <3>2. ASSUME NEW l \in upto(i) PROVE l \in upto(j)
      BY <1>3
    <3> QED
      BY <3>1, <3>2
  <2>3. Cardinality(upto(i)) <= Cardinality(upto(j)) /\ Cardinality(upto(i)) # Cardinality(upto(j))
    <3> HIDE DEF upto
    <3> QED
      BY <1>2, <2>2, FS_Subset
  <2>4. Cardinality(upto(i)) \in Nat /\ Cardinality(upto(j)) \in Nat
    <3>1. Cardinality(upto(i)) \in 1 .. n /\ Cardinality(upto(j)) \in 1 .. n
      BY <1>2
    <3> HIDE DEF upto
    <3> QED
      BY <3>1
  <2>5. rank[i] = Cardinality(upto(i)) /\ rank[j] = Cardinality(upto(j))
    OBVIOUS
  <2> HIDE DEF rank, upto
  <2> QED
    BY <2>3, <2>4, <2>5
<1>4. /\ rank \in [S -> S]
      /\ \A i, j \in S : rank[i] = rank[j] => i = j
      /\ \A k \in S : \E i \in S : rank[i] = k
  <2>1. rank \in [S -> S]
    BY <1>2
  <2>2. \A i, j \in S : rank[i] = rank[j] => i = j
    <3> SUFFICES ASSUME NEW i \in S, NEW j \in S, i # j PROVE rank[i] # rank[j]
      OBVIOUS
    <3>1. rank[i] \in Nat /\ rank[j] \in Nat
      BY <2>1
    <3>2. rank[i] < rank[j] \/ rank[j] < rank[i]
      BY <1>3
    <3> HIDE DEF rank
    <3> QED
      BY <3>1, <3>2
  <2>3. rank \in Injection(S, S)
    BY <2>1, <2>2 DEF Injection, IsInjective
  <2> HIDE DEF rank, S
  <2>4. rank \in Surjection(S, S)
    BY <1>1, <2>3, FS_Injection
  <2> QED
    BY <2>1, <2>2, <2>4 DEF Surjection
<1> HIDE DEF rank
<1> DEFINE p == [k \in S |-> CHOOSE i \in S : rank[i] = k]
<1>5. p \in [S -> S] /\ \A k \in S : rank[p[k]] = k
  BY <1>4
<1> HIDE DEF p
<1>6. p \in Bijection(S, S)
  <2>1. \A i, j \in S : p[i] = p[j] => i = j
    BY <1>5
  <2>2. \A i \in S : \E k \in S : p[k] = i
    <3> SUFFICES ASSUME NEW i \in S PROVE p[rank[i]] = i
      BY <1>4
    <3>1. rank[i] \in S /\ rank[p[rank[i]]] = rank[i] /\ p[rank[i]] \in S
      BY <1>4, <1>5
    <3> QED
      BY <1>4, <3>1
  <2> HIDE DEF S
  <2> QED
    BY <1>5, <2>1, <2>2 DEF Bijection, Injection, Surjection, IsInjective
<1>7. \A i, j \in S : i < j => <<p[i], p[j]>> \in R
  <2> SUFFICES ASSUME NEW i \in S, NEW j \in S, i < j PROVE <<p[i], p[j]>> \in R
    OBVIOUS
  <2>1. p[i] \in S /\ p[j] \in S /\ rank[p[i]] = i /\ rank[p[j]] = j
    BY <1>5
  <2>2. p[i] # p[j]
    BY <2>1
  <2>3. <<p[j], p[i]>> \notin R
    <3>1. <<p[j], p[i]>> \in R => rank[p[j]] < rank[p[i]]
      BY <1>3, <2>1
    <3> QED
      BY <2>1, <3>1
  <2> QED
    BY <2>1, <2>2, <2>3
<1>8. ASSUME NEW q \in Bijection(S, S), \A i, j \in S : i < j => <<q[i], q[j]>> \in R
      PROVE  q = p
  <2>1. /\ q \in [S -> S] /\ \A i, j \in S : q[i] = q[j] => i = j
        /\ \A j \in S : \E i \in S : q[i] = j
    <3> HIDE DEF S
    <3> QED
      BY DEF Bijection, Injection, Surjection, IsInjective
  <2> DEFINE r == [i \in S |-> rank[q[i]]]
  <2>2. \A i, j \in S : i < j => r[i] < r[j]
    BY <1>3, <1>8, <2>1
  <2>3. r \in Bijection(S, S)
    <3>1. r \in [S -> S] /\ \A i, j \in S : r[i] = r[j] => i = j
      <4>1. \A i \in S : r[i] = rank[q[i]] /\ q[i] \in S /\ rank[q[i]] \in S
        BY <1>4, <2>1
      <4>2. r \in [S -> S]
        BY <4>1
      <4> HIDE DEF r, S
      <4>3. \A i, j \in S : r[i] = r[j] => i = j
        BY <1>4, <2>1, <4>1
      <4> QED
        BY <4>2, <4>3
    <3>2. \A k \in S : \E i \in S : r[i] = k
      <4> TAKE k \in S
      <4>1. PICK j \in S : rank[j] = k
        BY <1>4
      <4>2. PICK i \in S : q[i] = j
        BY <2>1
      <4> QED
        BY <4>1, <4>2
    <3> HIDE DEF S, r
    <3> QED
      BY <3>1, <3>2 DEF Bijection, Injection, Surjection, IsInjective
  <2>4. \A i \in S : r[i] = i
    <3> HIDE DEF r
    <3> QED
      BY <2>2, <2>3, MonotoneFixed
  <2>5. \A i \in S : rank[q[i]] = rank[p[i]] /\ q[i] \in S /\ p[i] \in S
    BY <1>5, <2>1, <2>4
  <2>6. \A i \in S : q[i] = p[i]
    BY <1>4, <2>5
  <2> HIDE DEF S
  <2> QED
    BY <1>5, <2>1, <2>6
<1> QED
  BY <1>6, <1>7, <1>8

-----------------------------------------------------------------------------
(* Numbers as strings. *)

\* The powers of ten that a version has places for.
Tens == <<1, 10, 100, 1000, 10000, 100000, 1000000, 10000000, 100000000, 1000000000, 10000000000>>

LEMMA PowersOfTen == \A i \in 0 .. 10 : TenTo(i) = Tens[i + 1]
<1> SUFFICES ASSUME NEW i \in 0 .. 10 PROVE TenTo(i) = Tens[i + 1]
  OBVIOUS
<1>1. i = 0 => TenTo(i) = Tens[i + 1]
  BY SMT DEF Tens, TenTo
<1>2. i = 1 => TenTo(i) = Tens[i + 1]
  BY SMT DEF Tens, TenTo
<1>3. i = 2 => TenTo(i) = Tens[i + 1]
  BY SMT DEF Tens, TenTo
<1>4. i = 3 => TenTo(i) = Tens[i + 1]
  BY SMT DEF Tens, TenTo
<1>5. i = 4 => TenTo(i) = Tens[i + 1]
  BY SMT DEF Tens, TenTo
<1>6. i = 5 => TenTo(i) = Tens[i + 1]
  BY SMT DEF Tens, TenTo
<1>7. i = 6 => TenTo(i) = Tens[i + 1]
  BY SMT DEF Tens, TenTo
<1>8. i = 7 => TenTo(i) = Tens[i + 1]
  BY SMT DEF Tens, TenTo
<1>9. i = 8 => TenTo(i) = Tens[i + 1]
  BY SMT DEF Tens, TenTo
<1>10. i = 9 => TenTo(i) = Tens[i + 1]
  BY SMT DEF Tens, TenTo
<1>11. i = 10 => TenTo(i) = Tens[i + 1]
  BY SMT DEF Tens, TenTo
<1> QED
  BY <1>1, <1>2, <1>3, <1>4, <1>5, <1>6, <1>7, <1>8, <1>9, <1>10, <1>11

LEMMA PowersGrow ==
  /\ \A i \in 0 .. 10 : TenTo(i) \in Nat \ {0}
  /\ \A i \in 0 .. 9 : TenTo(i + 1) = 10 * TenTo(i)
  /\ \A i, j \in 0 .. 10 : i < j => TenTo(i) < TenTo(j)
<1>1. \A i \in 0 .. 10 : Tens[i + 1] \in Nat \ {0}
  BY SMT DEF Tens
<1>2. \A i \in 0 .. 9 : Tens[i + 2] = 10 * Tens[i + 1]
  BY SMT DEF Tens
<1>3. \A i, j \in 0 .. 10 : i < j => Tens[i + 1] < Tens[j + 1]
  BY SMT DEF Tens
<1>4. \A i \in 0 .. 9 : i \in 0 .. 10 /\ i + 1 \in 0 .. 10 /\ (i + 1) + 1 = i + 2
  OBVIOUS
<1>5. \A i \in 0 .. 9 : TenTo(i) = Tens[i + 1] /\ TenTo(i + 1) = Tens[i + 2]
  BY <1>4, PowersOfTen
<1> HIDE DEF Tens
<1>6. \A i \in 0 .. 9 : TenTo(i + 1) = 10 * TenTo(i)
  BY <1>2, <1>5
<1> QED
  BY <1>1, <1>3, <1>6, PowersOfTen

\* A number of at most ten digits has Width(n) of them.
LEMMA WidthBound ==
  ASSUME NEW n \in Nat, n \div TenTo(9) <= 9
  PROVE  Width(n) \in 1 .. 10 /\ n < TenTo(Width(n))
<1> DEFINE above == {k \in 0 .. 9 : n < TenTo(k + 1)}
           reached == {k \in 1 .. 9 : TenTo(k) <= n}
<1>1. above # {}
  <2>1. TenTo(9) \in Nat \ {0} /\ TenTo(9 + 1) = 10 * TenTo(9) /\ 9 \in 0 .. 9
    BY PowersGrow
  <2> DEFINE d == TenTo(9)
  <2>2. d \in Nat \ {0} /\ n \div d <= 9
    BY <2>1
  <2> HIDE DEF d
  <2>3. n < 10 * d
    BY <2>2
  <2> QED
    BY <2>1, <2>3 DEF d
<1>2. PICK m \in above : \A k \in above : m <= k
  <2>1. above \in SUBSET Nat
    OBVIOUS
  <2> HIDE DEF above
  <2> QED
    BY <1>1, <2>1, LeastNumber
<1>3. \A k \in 1 .. 9 : TenTo(k) <= n <=> k <= m
  <2> TAKE k \in 1 .. 9
  <2>1. k \in 0 .. 10 /\ k - 1 \in 0 .. 9 /\ (k - 1) + 1 = k /\ m \in 0 .. 9 /\ m + 1 \in 0 .. 10
    BY <1>2
  <2>2. TenTo(k) \in Nat /\ TenTo(m + 1) \in Nat
    BY <2>1, PowersGrow
  <2>3. CASE k <= m
    <3>1. k - 1 \notin above
      <4>1. ~(m <= k - 1)
        BY <2>1, <2>3
      <4> QED
        BY <1>2, <4>1, Zenon
    <3>2. ~(n < TenTo(k))
      BY <2>1, <3>1
    <3> QED
      BY <2>2, <2>3, <3>2
  <2>4. CASE m < k
    <3>1. m + 1 = k \/ m + 1 < k
      BY <2>1, <2>4
    <3>2. TenTo(m + 1) = TenTo(k) \/ TenTo(m + 1) < TenTo(k)
      BY <2>1, <3>1, PowersGrow
    <3>3. n < TenTo(m + 1)
      BY <1>2
    <3> QED
      BY <2>1, <2>2, <2>4, <3>2, <3>3
  <2> QED
    BY <2>1, <2>3, <2>4
<1>4. m \in 0 .. 9 /\ n < TenTo(m + 1)
  BY <1>2
<1>5. reached = 1 .. m
  BY <1>3, <1>4
<1>6. Cardinality(reached) = m
  <2>1. Cardinality(1 .. m) = m
    <3>1. 1 \in Int /\ m \in Int /\ ~(1 > m) => (m - 1) + 1 = m
      BY <1>4
    <3>2. m \in Nat /\ (1 > m => m = 0)
      BY <1>4
    <3> QED
      BY <3>2, FS_Interval
  <2> QED
    BY <1>5, <2>1, Zenon
<1>7. Width(n) = 1 + m /\ 1 + m = m + 1
  BY <1>4, <1>6 DEF Width
<1> QED
  BY <1>4, <1>7

\* Of two numbers of as many digits, the strings compare like the numbers.
LEMMA NewerDigits ==
  ASSUME NEW a \in Nat, NEW b \in Nat, a \div TenTo(9) <= 9, b \div TenTo(9) <= 9,
         Width(a) = Width(b), a < b
  PROVE  StringLess(a, b)
<1> DEFINE W == Width(a)
           upto(n, k) == n \div (TenTo(W - k))
           differ == {k \in 0 .. W : upto(a, k) # upto(b, k)}
<1>1. W \in 1 .. 10 /\ a < TenTo(W) /\ b < TenTo(W)
  BY WidthBound
<1>2. \A k \in 0 .. W : W - k \in 0 .. 10 /\ TenTo(W - k) \in Nat \ {0}
  <2> HIDE DEF W
  <2>1. \A k \in 0 .. W : W - k \in 0 .. 10
    BY <1>1
  <2> QED
    BY <2>1, PowersGrow
<1> HIDE DEF W
<1>3. \A n \in {a, b} : \A k \in 0 .. W : upto(n, k) \in Nat
  BY <1>2
<1>4. upto(a, 0) = 0 /\ upto(b, 0) = 0
  <2>1. W - 0 = W /\ TenTo(W) \in Nat \ {0}
    BY <1>1, <1>2
  <2>2. \A n, d \in Nat : n < d => n \div d = 0
    OBVIOUS
  <2> QED
    BY <1>1, <2>1, <2>2
<1>5. upto(a, W) = a /\ upto(b, W) = b
  <2>1. W - W = 0 /\ TenTo(0) = 1
    BY <1>1 DEF TenTo
  <2> QED
    BY <2>1
<1>6. \A n \in {a, b} : \A k \in 1 .. W :
         upto(n, k) = (10 * upto(n, k - 1)) + (upto(n, k) % 10)
  <2> TAKE n \in {a, b}
  <2> TAKE k \in 1 .. W
  <2> DEFINE d == TenTo(W - k)
  <2>1. W - k \in 0 .. 9 /\ W - (k - 1) = (W - k) + 1 /\ k \in 0 .. W
    BY <1>1
  <2>2. d \in Nat \ {0} /\ TenTo(W - (k - 1)) = 10 * d
    BY <2>1, PowersGrow
  <2> HIDE DEF d
  <2>3. n \div (10 * d) = (n \div d) \div 10
    BY <2>2
  <2>4. upto(n, k) \in Nat
    BY <1>3, <2>1
  <2>5. upto(n, k - 1) = upto(n, k) \div 10
    BY <2>2, <2>3 DEF d
  <2> HIDE DEF upto
  <2> QED
    BY <2>4, <2>5
<1>7. \A k \in 0 .. W : upto(a, k) <= upto(b, k)
  <2> TAKE k \in 0 .. W
  <2> DEFINE d == TenTo(W - k)
  <2>1. d \in Nat \ {0}
    BY <1>2
  <2> HIDE DEF d
  <2>2. a \div d <= b \div d
    BY <2>1
  <2> QED
    BY <2>2 DEF d
<1> HIDE DEF upto
<1>8. W \in differ
  BY <1>1, <1>5
<1>9. PICK K \in differ : \A k \in differ : K <= k
  <2>1. differ \in SUBSET Nat /\ differ # {}
    BY <1>1, <1>8
  <2> HIDE DEF differ
  <2> QED
    BY <2>1, LeastNumber
<1>10. K \in 1 .. W /\ upto(a, K) < upto(b, K)
  <2>1. K # 0
    BY <1>4, <1>9
  <2> QED
    BY <1>3, <1>7, <1>9, <2>1
<1>11. \A k \in 0 .. K - 1 : upto(a, k) = upto(b, k)
  BY <1>1, <1>9, <1>10
<1>12. \A k \in 1 .. W : Digit(a, k) = upto(a, k) % 10 /\ Digit(b, k) = upto(b, k) % 10
  BY DEF Digit, upto, W
<1>13. Digit(a, K) < Digit(b, K)
  <2>1. upto(a, K - 1) = upto(b, K - 1)
    BY <1>10, <1>11
  <2>2. K - 1 \in 0 .. W /\ K \in 0 .. W
    BY <1>10, <1>1
  <2>3. upto(a, K) \in Nat /\ upto(b, K) \in Nat /\ upto(a, K - 1) \in Nat
    BY <1>3, <2>2
  <2>4. upto(a, K) = (10 * upto(a, K - 1)) + (upto(a, K) % 10)
    BY <1>6, <1>10
  <2>5. upto(b, K) = (10 * upto(b, K - 1)) + (upto(b, K) % 10)
    BY <1>6, <1>10
  <2> QED
    BY <1>10, <1>12, <2>1, <2>3, <2>4, <2>5
<1>14. \A j \in 1 .. K - 1 : j <= Width(a) /\ Digit(a, j) = Digit(b, j)
  <2> TAKE j \in 1 .. K - 1
  <2>1. j \in 0 .. K - 1 /\ j \in 1 .. W /\ j <= W
    BY <1>1, <1>10
  <2> QED
    BY <1>11, <1>12, <2>1 DEF W
<1>15. K \in 1 .. Width(b)
  BY <1>10 DEF W
<1> QED
  BY <1>13, <1>14, <1>15 DEF StringLess

\* A digit is a number.
LEMMA DigitType ==
  ASSUME NEW n \in Nat, n \div TenTo(9) <= 9, NEW k \in 1 .. Width(n)
  PROVE  Digit(n, k) \in Int
<1> DEFINE d == TenTo(Width(n) - k)
<1>1. Width(n) - k \in 0 .. 10
  BY WidthBound
<1>2. d \in Nat \ {0}
  BY <1>1, PowersGrow
<1> HIDE DEF d
<1>3. (n \div d) % 10 \in Int
  BY <1>2
<1> QED
  BY <1>3 DEF Digit, d

\* No two strings come before each other.
LEMMA StringsAsymmetric ==
  ASSUME NEW a \in Nat, NEW b \in Nat, a \div TenTo(9) <= 9, b \div TenTo(9) <= 9,
         StringLess(a, b)
  PROVE  ~StringLess(b, a)
<1>1. Width(a) \in 1 .. 10 /\ Width(b) \in 1 .. 10
  BY WidthBound
<1>2. \A n \in {a, b} : \A k \in 1 .. Width(n) : Digit(n, k) \in Int
  BY DigitType
<1>3. PICK i \in 1 .. Width(b) :
        /\ \A k \in 1 .. i - 1 : k <= Width(a) /\ Digit(a, k) = Digit(b, k)
        /\ i > Width(a) \/ Digit(a, i) < Digit(b, i)
  BY DEF StringLess
<1> SUFFICES ASSUME StringLess(b, a) PROVE FALSE
  OBVIOUS
<1>4. PICK j \in 1 .. Width(a) :
        /\ \A k \in 1 .. j - 1 : k <= Width(b) /\ Digit(b, k) = Digit(a, k)
        /\ j > Width(b) \/ Digit(b, j) < Digit(a, j)
  BY DEF StringLess
<1>5. CASE i < j
  <2>1. i \in 1 .. j - 1 /\ i \in 1 .. Width(a) /\ ~(i > Width(a))
    BY <1>1, <1>5
  <2>2. Digit(a, i) \in Int /\ Digit(b, i) \in Int
    BY <1>2, <2>1
  <2> QED
    BY <1>3, <1>4, <2>1, <2>2
<1>6. CASE j < i
  <2>1. j \in 1 .. i - 1 /\ j \in 1 .. Width(b) /\ ~(j > Width(b))
    BY <1>1, <1>6
  <2>2. Digit(a, j) \in Int /\ Digit(b, j) \in Int
    BY <1>2, <2>1
  <2> QED
    BY <1>3, <1>4, <2>1, <2>2
<1>7. CASE i = j
  <2>1. ~(i > Width(a)) /\ ~(j > Width(b))
    BY <1>1, <1>7
  <2>2. Digit(a, i) \in Int /\ Digit(b, i) \in Int
    BY <1>2, <1>7
  <2> QED
    BY <1>3, <1>4, <1>7, <2>1, <2>2
<1> QED
  BY <1>1, <1>5, <1>6, <1>7

\* Nor are there three in a circle.
LEMMA StringsTransitive ==
  ASSUME NEW a \in Nat, NEW b \in Nat, NEW c \in Nat,
         a \div TenTo(9) <= 9, b \div TenTo(9) <= 9, c \div TenTo(9) <= 9,
         StringLess(a, b), StringLess(b, c)
  PROVE  StringLess(a, c)
<1>1. Width(a) \in 1 .. 10 /\ Width(b) \in 1 .. 10 /\ Width(c) \in 1 .. 10
  BY WidthBound
<1>2. PICK i \in 1 .. Width(b) :
        /\ \A k \in 1 .. i - 1 : k <= Width(a) /\ Digit(a, k) = Digit(b, k)
        /\ i > Width(a) \/ Digit(a, i) < Digit(b, i)
  BY DEF StringLess
<1>3. PICK j \in 1 .. Width(c) :
        /\ \A k \in 1 .. j - 1 : k <= Width(b) /\ Digit(b, k) = Digit(c, k)
        /\ j > Width(b) \/ Digit(b, j) < Digit(c, j)
  BY DEF StringLess
<1> DEFINE First(m) == /\ m \in 1 .. Width(c)
                       /\ \A k \in 1 .. m - 1 : k <= Width(a) /\ Digit(a, k) = Digit(c, k)
                       /\ m > Width(a) \/ Digit(a, m) < Digit(c, m)
<1>4. CASE i < j
  <2>1. i \in 1 .. j - 1 /\ i \in 1 .. Width(c)
    BY <1>1, <1>4
  <2>2. Digit(b, i) = Digit(c, i)
    BY <1>3, <2>1
  <2>3. \A k \in 1 .. i - 1 : k \in 1 .. j - 1
    BY <1>1, <1>4
  <2>4. First(i)
    BY <1>2, <1>3, <2>1, <2>2, <2>3
  <2> QED
    BY <2>4 DEF StringLess
<1>5. CASE j < i
  <2>1. j \in 1 .. i - 1 /\ j \in 1 .. Width(b) /\ ~(j > Width(b))
    BY <1>1, <1>5
  <2>2. Digit(a, j) = Digit(b, j)
    BY <1>2, <2>1
  <2>3. \A k \in 1 .. j - 1 : k \in 1 .. i - 1
    BY <1>1, <1>5
  <2>4. First(j)
    BY <1>2, <1>3, <2>1, <2>2, <2>3
  <2> QED
    BY <2>4 DEF StringLess
<1>6. CASE i = j
  <2>1. ~(i > Width(b)) /\ i \in 1 .. Width(b) /\ i \in 1 .. Width(c)
    BY <1>1, <1>6
  <2>2. Digit(b, i) < Digit(c, i)
    BY <1>3, <1>6, <2>1
  <2>3. Digit(b, i) \in Int /\ Digit(c, i) \in Int
    BY <1>1, <2>1, DigitType
  <2>4. i > Width(a) \/ Digit(a, i) < Digit(c, i)
    <3>1. i \in 1 .. Width(a) => Digit(a, i) \in Int
      BY DigitType
    <3>2. i > Width(a) \/ i \in 1 .. Width(a)
      BY <1>1
    <3> QED
      BY <1>2, <2>2, <2>3, <3>1, <3>2
  <2>5. First(i)
    BY <1>2, <1>3, <1>6, <2>1, <2>4
  <2> QED
    BY <2>5 DEF StringLess
<1> QED
  BY <1>1, <1>4, <1>5, <1>6

\* Of two strings of different lengths, one comes first.
LEMMA ShorterCompares ==
  ASSUME NEW a \in Nat, NEW b \in Nat, a \div TenTo(9) <= 9, b \div TenTo(9) <= 9,
         Width(a) < Width(b)
  PROVE  StringLess(a, b) \/ StringLess(b, a)
<1>1. Width(a) \in 1 .. 10 /\ Width(b) \in 1 .. 10
  BY WidthBound
<1> DEFINE differ == {k \in 1 .. Width(a) : Digit(a, k) # Digit(b, k)}
<1>2. CASE differ = {}
  <2>1. \A k \in 1 .. Width(a) : Digit(a, k) = Digit(b, k)
    BY <1>2
  <2>2. Width(a) + 1 \in 1 .. Width(b) /\ Width(a) + 1 > Width(a)
    BY <1>1
  <2>3. \A k \in 1 .. (Width(a) + 1) - 1 : k \in 1 .. Width(a) /\ k <= Width(a)
    BY <1>1
  <2> QED
    BY <2>1, <2>2, <2>3 DEF StringLess
<1>3. CASE differ # {}
  <2>1. PICK k \in differ : \A j \in differ : k <= j
    <3>1. differ \in SUBSET Nat
      BY <1>1
    <3> HIDE DEF differ
    <3> QED
      BY <1>3, <3>1, LeastNumber
  <2>2. k \in 1 .. Width(a) /\ k \in 1 .. Width(b) /\ Digit(a, k) # Digit(b, k)
    BY <1>1, <2>1
  <2>3. \A j \in 1 .. k - 1 : j <= Width(a) /\ j <= Width(b) /\ Digit(a, j) = Digit(b, j)
    <3> TAKE j \in 1 .. k - 1
    <3>1. j \in 1 .. Width(a) /\ j <= Width(b) /\ ~(k <= j)
      BY <1>1, <2>2
    <3>2. j \notin differ
      BY <2>1, <3>1, Zenon
    <3> QED
      BY <1>1, <3>1, <3>2
  <2>4. Digit(a, k) \in Int /\ Digit(b, k) \in Int
    BY <2>2, DigitType
  <2>5. Digit(a, k) < Digit(b, k) \/ Digit(b, k) < Digit(a, k)
    BY <2>2, <2>4
  <2> HIDE DEF differ
  <2> QED
    BY <2>2, <2>3, <2>5 DEF StringLess
<1> QED
  BY <1>2, <1>3

\* Two numbers are different strings, one of which comes first.
LEMMA StringsTotal ==
  ASSUME NEW a \in Nat, NEW b \in Nat, a \div TenTo(9) <= 9, b \div TenTo(9) <= 9, a # b
  PROVE  StringLess(a, b) \/ StringLess(b, a)
<1>1. Width(a) \in 1 .. 10 /\ Width(b) \in 1 .. 10
  BY WidthBound
<1>2. CASE Width(a) = Width(b)
  <2>1. a < b \/ b < a
    OBVIOUS
  <2> QED
    BY <1>2, <2>1, NewerDigits
<1>3. CASE Width(a) < Width(b) \/ Width(b) < Width(a)
  BY <1>3, ShorterCompares
<1> QED
  BY <1>1, <1>2, <1>3

=============================================================================
