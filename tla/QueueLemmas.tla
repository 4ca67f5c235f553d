---------------------------- MODULE QueueLemmas ----------------------------
(* Facts about numbers and remainders, images, Append and sums that the    *)
(* proofs about the queues and their threads share.                        *)
EXTENDS Sums, Integers, Sequences, FiniteSetTheorems, SequenceTheorems, WellFoundedInduction, TLAPS

\* Among some numbers one is the least.
LEMMA Least == ASSUME NEW A, A \subseteq Nat, A # {} PROVE \E k \in A : \A j \in A : k <= j
<1> DEFINE R == OpToRel(<, Nat)
<1>1. IsWellFoundedOn(R, Nat)
  BY NatLessThanWellFounded
<1>2. \A k, j \in Nat : k < j => <<k, j>> \in R
  BY DEF OpToRel
<1> HIDE DEF R
<1>3. PICK k \in A : \A j \in A : ~ (<<j, k>> \in R)
  BY <1>1, WFMin
<1>4. \A j \in A : ~ (j < k)
  BY <1>2, <1>3
<1> QED
  BY <1>3, <1>4

\* A remainder is below its divisor.
LEMMA Remainder ==
  ASSUME NEW a \in Nat, NEW b \in Nat \ {0}
  PROVE  a % b \in 0 .. b - 1
  OBVIOUS

\* The image of a set and one more element.
LEMMA ImageAdd ==
  ASSUME NEW f, NEW D, NEW d
  PROVE  {f[u] : u \in D \cup {d}} = {f[u] : u \in D} \cup {f[d]}
  OBVIOUS

\* What is in a sequence after an Append.
LEMMA AppendRange ==
  ASSUME NEW S, NEW q \in Seq(S), NEW x \in S
  PROVE  {Append(q, x)[k] : k \in DOMAIN Append(q, x)}
           = {q[k] : k \in DOMAIN q} \cup {x}
<1> DEFINE r == Append(q, x)
<1>1. DOMAIN r = 1 .. Len(q) + 1 /\ DOMAIN q = 1 .. Len(q) /\ Len(q) \in Nat
  OBVIOUS
<1>2. r[Len(q) + 1] = x /\ \A k \in 1 .. Len(q) : r[k] = q[k]
  OBVIOUS
<1> QED
  BY <1>1, <1>2

\* A sequence without repetition stays so when something new is appended.
LEMMA AppendDistinct ==
  ASSUME NEW S, NEW q \in Seq(S), NEW x \in S,
         x \notin {q[k] : k \in DOMAIN q},
         \A j, k \in DOMAIN q : q[j] = q[k] => j = k
  PROVE  \A j, k \in DOMAIN Append(q, x) :
           Append(q, x)[j] = Append(q, x)[k] => j = k
<1> DEFINE r == Append(q, x)
<1>1. DOMAIN r = 1 .. Len(q) + 1 /\ DOMAIN q = 1 .. Len(q) /\ Len(q) \in Nat
  OBVIOUS
<1>2. r[Len(q) + 1] = x /\ \A k \in 1 .. Len(q) : r[k] = q[k]
  OBVIOUS
<1> QED
  BY <1>1, <1>2

\* n units of one t.
LEMMA Column == ASSUME NEW t, NEW n \in Nat
                PROVE  IsFiniteSet({t} \X (1 .. n)) /\ Cardinality({t} \X (1 .. n)) = n
<1> DEFINE C == {t} \X (1 .. n)
           h == [i \in 1 .. n |-> <<t, i>>]
<1>1. h \in [1 .. n -> C] /\ \A i \in 1 .. n : h[i] = <<t, i>>
  OBVIOUS
<1>2. \A x \in C : x = <<t, x[2]>> /\ x[2] \in 1 .. n
  OBVIOUS
<1> HIDE DEF h, C
<1>3. h \in Injection(1 .. n, C) /\ h \in Surjection(1 .. n, C)
  BY <1>1, <1>2 DEF Injection, Surjection, IsInjective
<1>4. ExistsBijection(1 .. n, C)
  BY <1>3 DEF ExistsBijection, Bijection
<1>5. IsFiniteSet(1 .. n) /\ Cardinality(1 .. n) = n
  BY FS_Interval
<1> QED
  BY <1>4, <1>5, FS_Bijection DEF C

\* The sum of a function that is zero.
LEMMA TotalZero == ASSUME NEW f, \A u \in DOMAIN f : f[u] = 0
                   PROVE  IsFiniteSet(Units(f)) /\ Total(f) = 0
<1>1. Units(f) = {}
  BY DEF Units
<1> QED
  BY <1>1, FS_EmptySet DEF Total

\* A function that changes at one place changes its sum by as much.
LEMMA TotalChange ==
  ASSUME NEW S, NEW f \in [S -> Nat], NEW g \in [S -> Nat], NEW t \in S,
         \A u \in S : u # t => g[u] = f[u], IsFiniteSet(Units(f))
  PROVE  IsFiniteSet(Units(g)) /\ Total(f) \in Nat /\ Total(g) = Total(f) + g[t] - f[t]
<1> DEFINE Rest == {x \in Units(f) : x[1] # t}
           F == {t} \X (1 .. f[t])
           G == {t} \X (1 .. g[t])
<1>1. Units(f) = Rest \cup F /\ Units(g) = Rest \cup G
  BY DEF Units
<1>2. Rest \cap F = {} /\ Rest \cap G = {}
  OBVIOUS
<1>3. IsFiniteSet(Rest)
  BY FS_Subset
<1>4. IsFiniteSet(F) /\ IsFiniteSet(G) /\ Cardinality(F) = f[t] /\ Cardinality(G) = g[t]
  BY Column
<1> HIDE DEF Rest, F, G
<1>5. Cardinality(Rest) \in Nat /\ Cardinality(Rest \cap F) = 0 /\ Cardinality(Rest \cap G) = 0
  BY <1>2, <1>3, FS_EmptySet, FS_CardinalityType
<1>6. Cardinality(Rest \cup F) = Cardinality(Rest) + Cardinality(F) - Cardinality(Rest \cap F)
  BY <1>3, <1>4, FS_Union
<1>7. /\ Cardinality(Rest \cup G) = Cardinality(Rest) + Cardinality(G) - Cardinality(Rest \cap G)
      /\ IsFiniteSet(Rest \cup G)
  BY <1>3, <1>4, FS_Union
<1>8. Total(f) = Cardinality(Rest) + f[t] /\ f[t] \in Nat
  BY <1>1, <1>4, <1>5, <1>6 DEF Total
<1>9. Total(g) = Cardinality(Rest) + g[t] /\ g[t] \in Nat
  BY <1>1, <1>4, <1>5, <1>7 DEF Total
<1> QED
  BY <1>1, <1>5, <1>7, <1>8, <1>9

\* A sum of as many values as threads, none above b.
LEMMA TotalBound ==
  ASSUME NEW S, IsFiniteSet(S), NEW b \in Nat, NEW f \in [S -> 0 .. b]
  PROVE  IsFiniteSet(Units(f)) /\ Total(f) \in Nat /\ Total(f) <= Cardinality(S) * b
<1>1. Units(f) \subseteq S \X (1 .. b)
  BY DEF Units
<1>2. IsFiniteSet(1 .. b) /\ Cardinality(1 .. b) = b
  BY FS_Interval
<1>3. IsFiniteSet(S \X (1 .. b)) /\ Cardinality(S \X (1 .. b)) = Cardinality(S) * b
  BY <1>2, FS_Product
<1>4. IsFiniteSet(Units(f)) /\ Cardinality(Units(f)) <= Cardinality(S \X (1 .. b))
  BY <1>1, <1>3, FS_Subset
<1> QED
  BY <1>3, <1>4, FS_CardinalityType DEF Total

\* The next of b numbers, round and round.
LEMMA NextRemainder ==
  ASSUME NEW b \in Nat \ {0}, NEW k \in 0 .. b - 1
  PROVE  (k + 1) % b = IF k + 1 = b THEN 0 ELSE k + 1
<1>1. CASE k + 1 = b
  BY <1>1
<1>2. CASE k + 1 < b
  BY <1>2
<1> QED
  BY <1>1, <1>2

\* Remainders that differ by a multiple.
LEMMA SameRemainder ==
  ASSUME NEW n \in Nat \ {0}, NEW x \in Int, NEW y \in Int, NEW k \in Int, x - y = n * k
  PROVE  x % n = y % n
<1>1. PICK q \in Int : q = x \div n /\ x = n * q + (x % n)
  <2>1. x \div n \in Int /\ x = n * (x \div n) + (x % n)
    OBVIOUS
  <2> QED
    BY <2>1
<1>2. PICK r \in Int : r = y \div n /\ y = n * r + (y % n)
  <2>1. y \div n \in Int /\ y = n * (y \div n) + (y % n)
    OBVIOUS
  <2> QED
    BY <2>1
<1>3. x % n \in 0 .. n - 1 /\ y % n \in 0 .. n - 1
  OBVIOUS
<1>4. PICK a \in Int, b \in Int : a = x % n /\ b = y % n
  BY <1>3
<1>5. n * (q - r - k) = b - a
  BY <1>1, <1>2, <1>4
<1>6. q - r - k = 0
  BY <1>3, <1>4, <1>5
<1> QED
  BY <1>4, <1>5, <1>6

\* Steps on from where steps have led to.
LEMMA StepsOn ==
  ASSUME NEW n \in Nat \ {0}, NEW x \in Int, NEW y \in Int
  PROVE  ((x % n) - (y % n)) % n = (x - y) % n
<1>1. PICK q \in Int : x = n * q + (x % n)
  <2>1. x \div n \in Int /\ x = n * (x \div n) + (x % n)
    OBVIOUS
  <2> QED
    BY <2>1
<1>2. PICK r \in Int : y = n * r + (y % n)
  <2>1. y \div n \in Int /\ y = n * (y \div n) + (y % n)
    OBVIOUS
  <2> QED
    BY <2>1
<1>3. PICK a \in Int, b \in Int : a = x % n /\ b = y % n
  OBVIOUS
<1>4. PICK u \in Int, v \in Int, k \in Int : u = a - b /\ v = x - y /\ k = r - q
  OBVIOUS
<1>5. u - v = n * k
  <2>1. x = n * q + a /\ y = n * r + b
    BY <1>1, <1>2, <1>3
  <2>2. u - v = n * r - n * q
    BY <1>4, <2>1
  <2>3. n * k = n * r - n * q
    BY <1>4
  <2> QED
    BY <2>2, <2>3
<1>6. u % n = v % n
  BY <1>5, SameRemainder
<1> QED
  BY <1>3, <1>4, <1>6

\* Equal remainders are those of numbers that differ by a multiple.
LEMMA SamePlace ==
  ASSUME NEW n \in Nat \ {0}, NEW x \in Int, NEW y \in Int
  PROVE  x % n = y % n <=> (x - y) % n = 0
<1>1. ((x % n) - (y % n)) % n = (x - y) % n
  BY StepsOn
<1>2. PICK a \in 0 .. n - 1, b \in 0 .. n - 1 : a = x % n /\ b = y % n
  OBVIOUS
<1>3. (a - b) % n = 0 <=> a = b
  <2>1. a = b => (a - b) % n = 0
    OBVIOUS
  <2>2. ASSUME (a - b) % n = 0 PROVE a = b
    <3>1. PICK q \in Int : a - b = n * q
      <4>1. (a - b) \div n \in Int /\ a - b = n * ((a - b) \div n) + ((a - b) % n)
        OBVIOUS
      <4> QED
        BY <2>2, <4>1
    <3>2. q = 0
      BY <3>1
    <3> QED
      BY <3>1, <3>2
  <2> QED
    BY <2>1, <2>2
<1> QED
  BY <1>1, <1>2, <1>3

\* Steps on from a remainder.
LEMMA RoundOn ==
  ASSUME NEW n \in Nat \ {0}, NEW x \in Int, NEW y \in Int
  PROVE  ((x % n) + y) % n = (x + y) % n
<1>1. PICK a \in Int, q \in Int : a = x % n /\ x = (n * q) + a
  <2>1. x \div n \in Int /\ x = n * (x \div n) + (x % n) /\ x % n \in Int
    OBVIOUS
  <2> QED
    BY <2>1
<1>2. PICK u \in Int, v \in Int, k \in Int : u = a + y /\ v = x + y /\ k = 0 - q
  OBVIOUS
<1>3. u - v = n * k
  <2>1. PICK p \in Int : p = n * q /\ x = p + a
    BY <1>1
  <2>2. n * k = 0 - p
    BY <1>2, <2>1
  <2> QED
    BY <1>2, <2>1, <2>2
<1>4. u % n = v % n
  BY <1>3, SameRemainder
<1> QED
  BY <1>1, <1>2, <1>4

\* A remainder by a multiple has the same remainder.
LEMMA RemainderTwice ==
  ASSUME NEW n \in Nat \ {0}, NEW m \in Nat \ {0}, m % n = 0, NEW x \in Int
  PROVE  (x % m) % n = x % n
<1>1. PICK a \in Int, q \in Int : a = x % m /\ x = (m * q) + a
  <2>1. x \div m \in Int /\ x = m * (x \div m) + (x % m) /\ x % m \in Int
    OBVIOUS
  <2> QED
    BY <2>1
<1>2. PICK r \in Int : m = n * r
  <2>1. m \div n \in Int /\ m = n * (m \div n) + (m % n)
    OBVIOUS
  <2> QED
    BY <2>1
<1>3. PICK k \in Int : k = r * q
  OBVIOUS
<1>4. x - a = n * k
  BY <1>1, <1>2, <1>3
<1>5. x % n = a % n
  BY ONLY <1>4, n \in Nat \ {0}, x \in Int, a \in Int, k \in Int, SameRemainder
<1> QED
  BY <1>1, <1>5

\* Steps on from a remainder by a multiple.
LEMMA RoundWithin ==
  ASSUME NEW n \in Nat \ {0}, NEW m \in Nat \ {0}, m % n = 0, NEW x \in Int, NEW y \in Int
  PROVE  ((x % m) + y) % n = (x + y) % n
<1>1. PICK a \in Int : a = x % m
  OBVIOUS
<1>2. a % n = x % n
  BY <1>1, RemainderTwice
<1>3. ((a % n) + y) % n = (a + y) % n /\ ((x % n) + y) % n = (x + y) % n
  BY RoundOn
<1> QED
  BY <1>1, <1>2, <1>3

\* Numbers that are near each other have different remainders.
LEMMA NearAndSame ==
  ASSUME NEW n \in Nat \ {0}, NEW x \in Int, NEW y \in Int, x % n = y % n,
         x - y < n, y - x < n
  PROVE  x = y
<1>1. (x - y) % n = 0
  BY SamePlace
<1>2. PICK d \in Int : d = x - y /\ d % n = 0
  BY <1>1
<1>3. PICK q \in Int : d = n * q
  <2>1. PICK r \in Int, q \in Int : r = d % n /\ d = (n * q) + r
    <3>1. d \div n \in Int /\ d = n * (d \div n) + (d % n) /\ d % n \in Int
      OBVIOUS
    <3> QED
      BY <3>1
  <2>2. PICK p \in Int : p = n * q
    OBVIOUS
  <2>3. d = p
    BY <1>2, <2>1, <2>2
  <2>4. d = n * q
    BY <2>2, <2>3
  <2> QED
    BY <2>4, Zenon
<1>4. q = 0
  BY <1>2, <1>3
<1> QED
  BY <1>2, <1>3, <1>4

\* How far a remainder lies ahead of another.
LEMMA HowFarAhead ==
  ASSUME NEW n \in Nat \ {0}, NEW a \in 0 .. n - 1, NEW b \in 0 .. n - 1
  PROVE  /\ (b + n - a) % n \in 0 .. n - 1
         /\ b = (a + ((b + n - a) % n)) % n
<1>1. PICK d \in Int : d = b + n - a
  OBVIOUS
<1>2. d % n \in 0 .. n - 1
  OBVIOUS
<1>3. PICK r \in Int : r = d % n
  BY <1>2
<1>4. PICK q \in Int : d = (n * q) + r
  <2>1. d \div n \in Int /\ d = n * (d \div n) + (d % n)
    OBVIOUS
  <2> QED
    BY <1>3, <2>1
<1>5. PICK u \in Int : u = a + r
  BY <1>3
<1>6. PICK k \in Int : k = 1 - q /\ u - b = n * k
  <2>1. n * (1 - q) = n - (n * q)
    OBVIOUS
  <2>2. u - b = n - (n * q)
    BY <1>1, <1>4, <1>5
  <2>3. u - b = n * (1 - q) /\ 1 - q \in Int
    BY <2>1, <2>2
  <2> QED
    BY <2>3
<1>7. u % n = b % n
  <2>1. b \in Int /\ u - b = n * k
    BY <1>6
  <2> QED
    BY ONLY <2>1, n \in Nat \ {0}, u \in Int, k \in Int, SameRemainder, Zenon
<1>8. b % n = b
  OBVIOUS
<1> QED
  BY <1>1, <1>2, <1>3, <1>5, <1>7, <1>8

\* A remainder that far ahead, and no other.
LEMMA AheadBy ==
  ASSUME NEW n \in Nat \ {0}, NEW a \in 0 .. n - 1, NEW b \in 0 .. n - 1, NEW k \in 0 .. n - 1,
         b = (a + k) % n
  PROVE  (b + n - a) % n = k
<1>1. PICK r \in 0 .. n - 1 : r = (b + n - a) % n /\ b = (a + r) % n
  BY HowFarAhead
<1>2. PICK u \in Int, v \in Int : u = a + r /\ v = a + k
  OBVIOUS
<1>3. u % n = v % n
  BY <1>1, <1>2
<1>4. v - u < n /\ u - v < n
  BY <1>2
<1>5. u = v
  BY <1>3, <1>4, NearAndSame
<1> QED
  BY <1>1, <1>2, <1>5

\* A list with one more at its end.
LEMMA OneAtTheEnd ==
  ASSUME NEW S, NEW m \in Nat, NEW f \in [1 .. m -> S], NEW x \in S, NEW g,
         g = [k \in 1 .. m + 1 |-> IF k = m + 1 THEN x ELSE f[k]]
  PROVE  f \in Seq(S) /\ g = Append(f, x) /\ g \in [1 .. m + 1 -> S]
<1>1. f \in Seq(S) /\ Len(f) = m
  OBVIOUS
<1>2. g \in Seq(S) /\ Len(g) = m + 1
  OBVIOUS
<1>3. /\ Append(f, x) \in Seq(S) /\ Len(Append(f, x)) = m + 1
      /\ \A k \in 1 .. m + 1 : Append(f, x)[k] = g[k]
  BY <1>1, AppendProperties
<1>4. g = Append(f, x)
  BY <1>2, <1>3, SeqEqual
<1>5. g \in [1 .. m + 1 -> S]
  OBVIOUS
<1> QED
  BY <1>1, <1>4, <1>5

\* A list without its first.
LEMMA WithoutFirst ==
  ASSUME NEW S, NEW m \in Nat, NEW f \in [1 .. m + 1 -> S], NEW g,
         g = [k \in 1 .. m |-> f[k + 1]]
  PROVE  f # <<>> /\ Head(f) = f[1] /\ g = Tail(f)
<1>1. f \in Seq(S) /\ Len(f) = m + 1
  OBVIOUS
<1>2. g \in Seq(S) /\ Len(g) = m
  OBVIOUS
<1>3. f # <<>> /\ Head(f) = f[1]
  BY <1>1
<1>4. Tail(f) \in Seq(S) /\ Len(Tail(f)) = m /\ \A k \in 1 .. m : Tail(f)[k] = f[k + 1]
  BY <1>1, <1>3, HeadTailProperties
<1>5. g = Tail(f)
  BY <1>2, <1>4, SeqEqual
<1> QED
  BY <1>3, <1>5
=============================================================================
