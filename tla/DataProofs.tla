--------------------------- MODULE DataProofs ------------------------------
(* Facts about numbers, rings and sequences that the proofs of several        *)
(* components share, and what the compaction of a queue keeps.                *)
EXTENDS Compaction, FiniteSets, SequencesExt, FiniteSetTheorems, FunctionTheorems,
        SequenceTheorems, WellFoundedInduction, TLAPS

-----------------------------------------------------------------------------
(* Numbers *)

LEMMA LeastNatural ==
    ASSUME NEW T \in SUBSET Nat, T # {}
    PROVE  \E n \in T : \A m \in T : n <= m
<1> DEFINE R == OpToRel(<, Nat)
<1>1. IsWellFoundedOn(R, Nat)
  BY NatLessThanWellFounded
<1>2. ASSUME NEW m \in T, NEW n \in T, m < n
      PROVE  <<m, n>> \in R
  BY <1>2 DEF OpToRel
<1> HIDE DEF R
<1>3. PICK n \in T : \A m \in T : ~ (<<m, n>> \in R)
  BY <1>1, WFMin
<1>4. ASSUME NEW m \in T PROVE n <= m
  <2>1. ~ (m < n)
    BY <1>2, <1>3
  <2> QED
    BY <2>1
<1> QED
  BY <1>4

\* The sizes of two sets without a common element add up.
LEMMA DisjointCardinality ==
    ASSUME NEW S, NEW T, IsFiniteSet(S), IsFiniteSet(T), S \cap T = {}
    PROVE  /\ IsFiniteSet(S \cup T)
           /\ Cardinality(S \cup T) = Cardinality(S) + Cardinality(T)
<1>1. Cardinality(S) \in Nat /\ Cardinality(T) \in Nat /\ Cardinality(S \cap T) = 0
  BY FS_CardinalityType, FS_EmptySet
<1>2. /\ IsFiniteSet(S \cup T)
      /\ Cardinality(S \cup T) = Cardinality(S) + Cardinality(T) - Cardinality(S \cap T)
  BY FS_Union, Zenon
<1> QED
  BY <1>1, <1>2

\* Induction over 0..n, for a set instead of an operator.
LEMMA IntervalInduction ==
    ASSUME NEW n \in Nat, NEW P \in SUBSET (0..n), 0 \in P,
           \A i \in 1..n : i - 1 \in P => i \in P
    PROVE  P = 0..n
<1> DEFINE T == (0..n) \ P
<1>1. CASE T = {}
  BY <1>1
<1>2. CASE T # {}
  <2>1. T \in SUBSET Nat
    OBVIOUS
  <2>2. PICK m \in T : \A k \in T : m <= k
    BY <1>2, <2>1, LeastNatural
  <2>3. m \in 1..n /\ m - 1 \in 0..n
    BY <2>2
  <2>4. m - 1 \in P
    BY <2>2, <2>3
  <2> QED
    BY <2>2, <2>3, <2>4
<1> QED
  BY <1>1, <1>2

\* Where s + k is in a ring of n slots.
LEMMA RingAt ==
    ASSUME NEW n \in Nat \ {0}, NEW s \in 0..(n - 1), NEW k \in 0..n
    PROVE  /\ (s + k) % n = IF s + k < n THEN s + k ELSE s + k - n
           /\ (s + k) % n \in 0..(n - 1)
<1>1. CASE s + k < n
  BY <1>1
<1>2. CASE s + k >= n
  <2>1. (s + k) % n = s + k - n
    BY <1>2
  <2> QED
    BY <1>2, <2>1
<1> QED
  BY <1>1, <1>2

LEMMA RingMoves ==
    ASSUME NEW size \in Nat \ {0}, NEW out \in 0..(size - 1), NEW n \in 0..size
    PROVE  /\ n < size => (((out + n) % size) + 1) % size = (out + (n + 1)) % size
           /\ n > 0 => (out + n) % size = (((out + 1) % size) + (n - 1)) % size
<1>1. 1 \in 0..size
  OBVIOUS
<1>2. ASSUME n < size
      PROVE  (((out + n) % size) + 1) % size = (out + (n + 1)) % size
  <2>1. n + 1 \in 0..size
    BY <1>2
  <2> DEFINE s == (out + n) % size
  <2>2. s = (IF out + n < size THEN out + n ELSE out + n - size) /\ s \in 0..(size - 1)
    BY RingAt
  <2>3. (out + (n + 1)) % size =
           IF out + (n + 1) < size THEN out + (n + 1) ELSE out + (n + 1) - size
    BY <2>1, RingAt
  <2> HIDE DEF s
  <2>4. (s + 1) % size = IF s + 1 < size THEN s + 1 ELSE s + 1 - size
    BY <1>1, <2>2, RingAt
  <2> QED
    BY <1>2, <2>2, <2>3, <2>4 DEF s
<1>3. ASSUME n > 0
      PROVE  (out + n) % size = (((out + 1) % size) + (n - 1)) % size
  <2>1. n - 1 \in 0..size
    BY <1>3
  <2> DEFINE s == (out + 1) % size
  <2>2. s = (IF out + 1 < size THEN out + 1 ELSE out + 1 - size) /\ s \in 0..(size - 1)
    BY <1>1, RingAt
  <2>3. (out + n) % size = IF out + n < size THEN out + n ELSE out + n - size
    BY RingAt
  <2> HIDE DEF s
  <2>4. (s + (n - 1)) % size = IF s + (n - 1) < size THEN s + (n - 1) ELSE s + (n - 1) - size
    BY <2>1, <2>2, RingAt
  <2> QED
    BY <1>3, <2>2, <2>3, <2>4 DEF s
<1> QED
  BY <1>2, <1>3

\* No two elements of a ring share a slot.
LEMMA RingInjective ==
    ASSUME NEW n \in Nat \ {0}, NEW s \in 0..(n - 1), NEW i \in 0..(n - 1), NEW j \in 0..(n - 1),
           (s + i) % n = (s + j) % n
    PROVE  i = j
<1>1. i \in 0..n /\ j \in 0..n
  OBVIOUS
<1>2. (s + i) % n = IF s + i < n THEN s + i ELSE s + i - n
  BY <1>1, RingAt
<1>3. (s + j) % n = IF s + j < n THEN s + j ELSE s + j - n
  BY <1>1, RingAt
<1> QED
  BY <1>2, <1>3

\* How far a slot lies past s.
LEMMA RingPlace ==
    ASSUME NEW n \in Nat \ {0}, NEW s \in 0..(n - 1), NEW i \in 0..(n - 1)
    PROVE  (((s + i) % n) - s) % n = i
<1>1. (s + i) % n = IF s + i < n THEN s + i ELSE s + i - n
  <2>1. i \in 0..n
    OBVIOUS
  <2> QED
    BY <2>1, RingAt
<1>2. CASE s + i < n
  <2>1. ((s + i) % n) - s = i
    BY <1>1, <1>2
  <2>2. i % n = i
    OBVIOUS
  <2> QED
    BY <2>1, <2>2
<1>3. CASE s + i >= n
  <2>1. ((s + i) % n) - s = i - n
    BY <1>1, <1>3
  <2>2. (i - n) % n = i
    OBVIOUS
  <2> QED
    BY <2>1, <2>2
<1> QED
  BY <1>2, <1>3

-----------------------------------------------------------------------------
(* Sequences *)

NoRepetition(s) == \A i, j \in 1..Len(s) : s[i] = s[j] => i = j

LEMMA InjectiveQueue ==
    ASSUME NEW S, NEW s \in Seq(S)
    PROVE  IsInjective(s) <=> NoRepetition(s)
BY LenProperties DEF IsInjective, NoRepetition

\* A sequence without repetitions is no longer than its set is large.
LEMMA InjectiveLength ==
    ASSUME NEW S, IsFiniteSet(S), NEW w \in Seq(S), IsInjective(w)
    PROVE  /\ Cardinality(S) \in Nat /\ Len(w) <= Cardinality(S)
           /\ \A x \in S : ~ Contains(w, x) => Len(w) < Cardinality(S)
<1>1. Len(w) \in Nat /\ Cardinality(S) \in Nat /\ NoRepetition(w)
  BY FS_CardinalityType, InjectiveQueue
<1>2. Cardinality(1..Len(w)) = Len(w)
  <2>1. 1 \in Int /\ Len(w) \in Int
    BY <1>1
  <2>2. Cardinality(1..Len(w)) = IF 1 > Len(w) THEN 0 ELSE Len(w) - 1 + 1
    BY <2>1, FS_Interval, Zenon
  <2> QED
    BY <1>1, <2>2
<1>3. ASSUME NEW T \in SUBSET S, \A i \in 1..Len(w) : w[i] \in T
      PROVE  Len(w) <= Cardinality(T)
  <2>1. IsFiniteSet(T)
    BY FS_Subset
  <2>2. [i \in 1..Len(w) |-> w[i]] \in Injection(1..Len(w), T)
    BY <1>1, <1>3, Fun_IsInj DEF NoRepetition
  <2> QED
    BY <1>2, <2>1, <2>2, FS_Injection
<1>4. Len(w) <= Cardinality(S)
  BY <1>3
<1>5. ASSUME NEW x \in S, ~ Contains(w, x)
      PROVE  Len(w) < Cardinality(S)
  <2>1. Cardinality(S \ {x}) = Cardinality(S) - 1
    BY FS_RemoveElement
  <2>2. Len(w) <= Cardinality(S \ {x})
    BY <1>3, <1>5 DEF Contains
  <2> QED
    BY <1>1, <2>1, <2>2
<1> QED
  BY <1>1, <1>4, <1>5

LEMMA QueueAppend ==
    ASSUME NEW S, NEW w \in Seq(S), IsInjective(w), NEW p \in S, ~ Contains(w, p)
    PROVE  /\ Append(w, p) \in Seq(S) /\ IsInjective(Append(w, p))
           /\ \A x : Contains(Append(w, p), x) <=> Contains(w, x) \/ x = p
<1>0. PICK t : t = Append(w, p)
  OBVIOUS
<1>1. /\ t \in Seq(S) /\ Len(t) = Len(w) + 1 /\ t[Len(w) + 1] = p
      /\ Len(w) \in Nat /\ \A i \in 1..Len(w) : t[i] = w[i]
  BY <1>0
<1>2. NoRepetition(t)
  BY <1>1, InjectiveQueue DEF NoRepetition, Contains
<1>3. \A x : Contains(t, x) <=> Contains(w, x) \/ x = p
  BY <1>1 DEF Contains
<1>4. IsInjective(t)
  BY <1>1, <1>2, InjectiveQueue
<1> QED
  BY <1>0, <1>1, <1>3, <1>4

LEMMA QueueTail ==
    ASSUME NEW S, NEW w \in Seq(S), w # << >>
    PROVE  /\ Head(w) \in S /\ Tail(w) \in Seq(S)
           /\ IsInjective(w) => IsInjective(Tail(w))
           /\ \A x : Contains(w, x) <=> x = Head(w) \/ Contains(Tail(w), x)
<1>1. Head(w) \in S /\ Tail(w) \in Seq(S)
  OBVIOUS
<1>2. /\ Len(w) \in Nat /\ Len(w) > 0 /\ Len(Tail(w)) = Len(w) - 1 /\ Head(w) = w[1]
      /\ \A i \in 1..Len(Tail(w)) : Tail(w)[i] = w[i + 1]
  OBVIOUS
<1>3. NoRepetition(w) => NoRepetition(Tail(w))
  BY <1>2 DEF NoRepetition
<1>4. ASSUME NEW x, Contains(w, x)
      PROVE  x = Head(w) \/ Contains(Tail(w), x)
  <2>1. PICK i \in 1..Len(w) : w[i] = x
    BY <1>4 DEF Contains
  <2>2. CASE i = 1
    BY <1>2, <2>1, <2>2
  <2>3. CASE i # 1
    <3>1. i - 1 \in 1..Len(Tail(w)) /\ Tail(w)[i - 1] = x
      BY <1>2, <2>1, <2>3
    <3> QED
      BY <3>1 DEF Contains
  <2> QED
    BY <2>2, <2>3
<1>5. ASSUME NEW x, x = Head(w) \/ Contains(Tail(w), x)
      PROVE  Contains(w, x)
  BY <1>2, <1>5 DEF Contains
<1> QED
  BY <1>1, <1>3, <1>4, <1>5, InjectiveQueue

LEMMA RemoveAtElements ==
    ASSUME NEW S, NEW s \in Seq(S), NEW i \in 1..Len(s)
    PROVE  /\ RemoveAt(s, i) = [j \in 1..(Len(s) - 1) |-> IF j < i THEN s[j] ELSE s[j + 1]]
           /\ NoRepetition(s) => NoRepetition(RemoveAt(s, i))
<1> DEFINE front == SubSeq(s, 1, i - 1)
           back == SubSeq(s, i + 1, Len(s))
           rest == [j \in 1..(Len(s) - 1) |-> IF j < i THEN s[j] ELSE s[j + 1]]
<1>1. Len(s) \in Nat /\ i \in 1..Len(s) /\ \A j \in 1..Len(s) : s[j] \in S
  OBVIOUS
<1>2. /\ front \in Seq(S) /\ Len(front) = i - 1
      /\ \A j \in 1..(i - 1) : front[j] = s[j]
  BY <1>1
<1>3. /\ back \in Seq(S) /\ Len(back) = Len(s) - i
      /\ \A j \in 1..(Len(s) - i) : back[j] = s[i + j]
  BY <1>1
<1>4. RemoveAt(s, i) = front \o back
  BY DEF RemoveAt
<1> HIDE DEF front, back
<1>5. /\ front \o back \in Seq(S) /\ Len(front \o back) = Len(s) - 1
      /\ \A j \in 1..(Len(s) - 1) :
            (front \o back)[j] = IF j <= i - 1 THEN front[j] ELSE back[j - (i - 1)]
  BY <1>1, <1>2, <1>3
<1>6. ASSUME NEW j \in 1..(Len(s) - 1)
      PROVE  (front \o back)[j] = rest[j]
  <2>1. CASE j < i
    BY <1>1, <1>2, <1>5, <2>1
  <2>2. CASE j >= i
    <3>1. j - (i - 1) \in 1..(Len(s) - i) /\ i + (j - (i - 1)) = j + 1
      BY <1>1, <2>2
    <3> QED
      BY <1>1, <1>3, <1>5, <2>2, <3>1
  <2>3. j < i \/ j >= i
    BY <1>1
  <2> QED
    BY <2>1, <2>2, <2>3, Zenon
<1>7. rest \in Seq(S) /\ Len(rest) = Len(s) - 1
  BY <1>1
<1>8. front \o back = rest
  BY <1>1, <1>5, <1>6, <1>7, SeqEqual
<1>9. NoRepetition(s) => NoRepetition(rest)
  BY <1>1, <1>7 DEF NoRepetition
<1> QED
  BY <1>4, <1>8, <1>9

\* How often x is in s.
Count(s, x) == Cardinality({i \in DOMAIN s : s[i] = x})

LEMMA CountEmpty == \A x : Count(<< >>, x) = 0
<1>1. \A x : {i \in DOMAIN << >> : << >>[i] = x} = {}
  OBVIOUS
<1> QED
  BY <1>1, FS_EmptySet DEF Count

LEMMA CountFinite ==
    ASSUME NEW S, NEW s \in Seq(S), NEW x
    PROVE  /\ IsFiniteSet({i \in DOMAIN s : s[i] = x})
           /\ Count(s, x) \in Nat
<1> DEFINE at == {i \in DOMAIN s : s[i] = x}
<1>1. at \in SUBSET (1..Len(s)) /\ 1 \in Int /\ Len(s) \in Int
  OBVIOUS
<1>2. IsFiniteSet(1..Len(s))
  BY <1>1, FS_Interval
<1> HIDE DEF at
<1>3. IsFiniteSet(at) /\ Cardinality(at) \in Nat
  BY <1>1, <1>2, FS_Subset, FS_CardinalityType
<1> QED
  BY <1>3 DEF at, Count

LEMMA CountAppend ==
    ASSUME NEW S, NEW s \in Seq(S), NEW y \in S, NEW x
    PROVE  Count(Append(s, y), x) = Count(s, x) + IF y = x THEN 1 ELSE 0
<1> DEFINE at(r) == {i \in DOMAIN r : r[i] = x}
<1>1. PICK t : t = Append(s, y)
  OBVIOUS
<1>2. /\ Len(s) \in Nat /\ DOMAIN s = 1..Len(s) /\ DOMAIN t = 1..(Len(s) + 1)
      /\ t[Len(s) + 1] = y /\ \A i \in 1..Len(s) : t[i] = s[i]
  BY <1>1
<1>3. IsFiniteSet(at(s)) /\ Cardinality(at(s)) \in Nat
  BY CountFinite DEF Count
<1>4. CASE y = x
  <2>1. at(t) = at(s) \cup {Len(s) + 1} /\ Len(s) + 1 \notin at(s)
    BY <1>2, <1>4
  <2>2. Cardinality(at(t)) = Cardinality(at(s)) + 1
    BY <1>3, <2>1, FS_AddElement
  <2> HIDE DEF at
  <2> QED
    BY <1>1, <1>4, <2>2 DEF Count, at
<1>5. CASE y # x
  <2>1. at(t) = at(s)
    BY <1>2, <1>5
  <2>2. Count(t, x) = Count(s, x)
    BY <2>1 DEF Count
  <2>3. Count(s, x) \in Nat
    BY <1>3 DEF Count
  <2> QED
    BY <1>1, <1>5, <2>2, <2>3
<1> QED
  BY <1>4, <1>5

LEMMA CountTail ==
    ASSUME NEW S, NEW s \in Seq(S), s # << >>, NEW x
    PROVE  Count(s, x) = Count(Tail(s), x) + IF Head(s) = x THEN 1 ELSE 0
<1> DEFINE at(r) == {i \in DOMAIN r : r[i] = x}
<1>1. PICK t : t = Tail(s)
  OBVIOUS
<1>2. /\ Len(s) \in Nat /\ DOMAIN s = 1..Len(s) /\ DOMAIN t = 1..(Len(s) - 1)
      /\ Len(s) > 0 /\ t \in Seq(S) /\ Head(s) = s[1]
      /\ \A i \in 1..(Len(s) - 1) : t[i] = s[i + 1]
  BY <1>1
<1>3. IsFiniteSet(at(t)) /\ Cardinality(at(t)) \in Nat
  BY <1>2, CountFinite DEF Count
<1> DEFINE later == {i \in 2..Len(s) : s[i] = x}
           f == [i \in at(t) |-> i + 1]
<1>4. f \in Bijection(at(t), later)
  <2>1. \A i \in at(t) : i \in Nat /\ f[i] = i + 1 /\ f[i] \in later
    BY <1>2
  <2>2. f \in [at(t) -> later]
    BY <2>1
  <2>3. \A i, j \in at(t) : f[i] = f[j] => i = j
    BY <2>1
  <2>4. ASSUME NEW j \in later
        PROVE  \E i \in at(t) : f[i] = j
    <3>1. j - 1 \in at(t) /\ (j - 1) + 1 = j
      BY <1>2
    <3> QED
      BY <2>1, <3>1
  <2> QED
    BY <2>2, <2>3, <2>4, Fun_IsBij
<1>5. IsFiniteSet(later) /\ Cardinality(later) = Cardinality(at(t))
  <2>1. ExistsBijection(at(t), later)
    BY <1>4 DEF ExistsBijection
  <2> HIDE DEF at, later
  <2> QED
    BY <1>3, <2>1, FS_Bijection
<1>6. CASE Head(s) = x
  <2>1. at(s) = later \cup {1} /\ 1 \notin later
    BY <1>2, <1>6
  <2>2. Cardinality(at(s)) = Cardinality(later) + 1
    BY <1>5, <2>1, FS_AddElement
  <2> HIDE DEF at, later
  <2> QED
    BY <1>1, <1>5, <1>6, <2>2 DEF Count, at
<1>7. CASE Head(s) # x
  <2>1. at(s) = later
    BY <1>2, <1>7
  <2>2. Count(s, x) = Count(t, x) /\ Count(t, x) \in Nat
    BY <1>3, <1>5, <2>1 DEF Count
  <2> QED
    BY <1>1, <1>7, <2>2
<1> QED
  BY <1>6, <1>7

LEMMA ToSetConcat ==
    ASSUME NEW S, NEW s \in Seq(S), NEW t \in Seq(S)
    PROVE  s \o t \in Seq(S) /\ ToSet(s \o t) = ToSet(s) \cup ToSet(t)
<1>1. /\ s \o t \in Seq(S) /\ Len(s \o t) = Len(s) + Len(t)
      /\ \A i \in 1..(Len(s) + Len(t)) :
            (s \o t)[i] = IF i <= Len(s) THEN s[i] ELSE t[i - Len(s)]
      /\ Len(s) \in Nat /\ Len(t) \in Nat
      /\ DOMAIN s = 1..Len(s) /\ DOMAIN t = 1..Len(t) /\ DOMAIN (s \o t) = 1..Len(s \o t)
  BY ConcatProperties, LenProperties
<1>2. ASSUME NEW x \in ToSet(s \o t)
      PROVE  x \in ToSet(s) \cup ToSet(t)
  <2>1. PICK i \in 1..(Len(s) + Len(t)) : x = (s \o t)[i]
    BY <1>1 DEF ToSet
  <2>2. CASE i <= Len(s)
    BY <1>1, <2>1, <2>2 DEF ToSet
  <2>3. CASE i > Len(s)
    <3>1. i - Len(s) \in DOMAIN t /\ x = t[i - Len(s)]
      BY <1>1, <2>1, <2>3
    <3> QED
      BY <3>1 DEF ToSet
  <2> QED
    BY <1>1, <2>2, <2>3
<1>3. ASSUME NEW x \in ToSet(s)
      PROVE  x \in ToSet(s \o t)
  <2>1. PICK i \in 1..Len(s) : x = s[i]
    BY <1>1 DEF ToSet
  <2>2. i \in DOMAIN (s \o t) /\ (s \o t)[i] = x
    BY <1>1, <2>1
  <2> QED
    BY <2>2 DEF ToSet
<1>4. ASSUME NEW x \in ToSet(t)
      PROVE  x \in ToSet(s \o t)
  <2>1. PICK i \in 1..Len(t) : x = t[i]
    BY <1>1 DEF ToSet
  <2>2. Len(s) + i \in DOMAIN (s \o t) /\ (s \o t)[Len(s) + i] = x
    BY <1>1, <2>1
  <2> QED
    BY <2>2 DEF ToSet
<1> QED
  BY <1>1, <1>2, <1>3, <1>4

-----------------------------------------------------------------------------
(* Sequences of sequences *)

\* f is the loop of FlattenSeq over the first n members of ss.
Flattens(f, ss, n) ==
    f = [i \in 1..n |-> IF i = 1 THEN ss[i] ELSE f[i - 1] \o ss[i]]

LEMMA FlattensAt ==
    ASSUME NEW f, NEW ss, NEW n \in Nat \ {0}, Flattens(f, ss, n)
    PROVE  f[1] = ss[1] /\ \A i \in 2..n : f[i] = f[i - 1] \o ss[i]
<1> DEFINE step(i) == IF i = 1 THEN ss[i] ELSE f[i - 1] \o ss[i]
<1>1. f = [i \in 1..n |-> step(i)]
  BY DEF Flattens
<1> HIDE DEF step
<1>2. \A i \in 1..n : f[i] = step(i)
  BY <1>1
<1>3. f[1] = ss[1]
  BY <1>2 DEF step
<1>4. ASSUME NEW i \in 2..n
      PROVE  f[i] = f[i - 1] \o ss[i]
  <2>1. i \in 1..n /\ i # 1
    OBVIOUS
  <2>2. f[i] = step(i)
    BY <1>2, <2>1
  <2> QED
    BY <2>1, <2>2 DEF step
<1> QED
  BY <1>3, <1>4

LEMMA FlatteningExists ==
    ASSUME NEW S, NEW ss \in Seq(Seq(S)), Len(ss) # 0
    PROVE  \E f : Flattens(f, ss, Len(ss))
<1> DEFINE P == {n \in 0..Len(ss) : n = 0 \/ \E f : Flattens(f, ss, n)}
<1>1. Len(ss) \in Nat
  OBVIOUS
<1>2. 0 \in P
  BY <1>1
<1>3. ASSUME NEW n \in 1..Len(ss), n - 1 \in P
      PROVE  n \in P
  <2>1. CASE n = 1
    <3>1. Flattens([i \in 1..1 |-> ss[1]], ss, 1)
      BY DEF Flattens
    <3> QED
      BY <1>1, <2>1, <3>1
  <2>2. CASE n # 1
    <3>1. n - 1 \in Nat \ {0} /\ n \in Nat /\ n - 1 # 0
      BY <1>1, <2>2
    <3>2. PICK f : Flattens(f, ss, n - 1)
      BY <1>3, <3>1
    <3>3. f[1] = ss[1] /\ \A i \in 2..(n - 1) : f[i] = f[i - 1] \o ss[i]
      BY <3>1, <3>2, FlattensAt
    <3> DEFINE last == f[n - 1] \o ss[n]
               g == [i \in 1..n |-> IF i < n THEN f[i] ELSE last]
    <3> HIDE DEF last
    <3>4. ASSUME NEW i \in 1..n
          PROVE  g[i] = IF i = 1 THEN ss[i] ELSE g[i - 1] \o ss[i]
      <4>1. CASE i = 1
        BY <3>1, <3>3, <4>1
      <4>2. CASE i \in 2..(n - 1)
        <5>1. g[i] = f[i] /\ g[i - 1] = f[i - 1]
          BY <3>1, <4>2
        <5> QED
          BY <3>3, <4>2, <5>1
      <4>3. CASE i = n
        <5>1. g[i - 1] = f[n - 1] /\ i # 1
          BY <3>1, <4>3
        <5>2. g[i] = last
          BY <3>1, <4>3
        <5> HIDE DEF g
        <5> QED
          BY <4>3, <5>1, <5>2 DEF last
      <4> QED
        BY <3>1, <4>1, <4>2, <4>3
    <3>5. Flattens(g, ss, n)
      BY <3>4 DEF Flattens
    <3> QED
      BY <3>5
  <2> QED
    BY <2>1, <2>2
<1>4. P = 0..Len(ss)
  BY <1>1, <1>2, <1>3, IntervalInduction
<1> QED
  BY <1>1, <1>4

\* What is in a flattened sequence is in one of its members.
THEOREM FlattenMembers ==
    ASSUME NEW S, NEW ss \in Seq(Seq(S))
    PROVE  /\ FlattenSeq(ss) \in Seq(S)
           /\ \A x : x \in ToSet(FlattenSeq(ss)) <=> \E i \in 1..Len(ss) : x \in ToSet(ss[i])
<1>1. Len(ss) \in Nat /\ \A i \in 1..Len(ss) : ss[i] \in Seq(S)
  OBVIOUS
<1>2. CASE Len(ss) = 0
  <2>1. ss = << >>
    BY <1>2
  <2>2. FlattenSeq(ss) = ss
    BY <1>2 DEF FlattenSeq
  <2>3. ToSet(ss) = {}
    BY <2>1 DEF ToSet
  <2>4. FlattenSeq(ss) \in Seq(S) /\ ToSet(FlattenSeq(ss)) = {} /\ 1..Len(ss) = {}
    <3>1. << >> \in Seq(S)
      OBVIOUS
    <3>2. 1..Len(ss) = {}
      BY <1>2
    <3> QED
      BY <2>1, <2>2, <2>3, <3>1, <3>2, Zenon
  <2> QED
    BY <2>4
<1>3. CASE Len(ss) # 0
  <2> DEFINE flat == CHOOSE f : Flattens(f, ss, Len(ss))
  <2>1. Flattens(flat, ss, Len(ss))
    BY <1>3, FlatteningExists
  <2>2. FlattenSeq(ss) = flat[Len(ss)]
    BY <1>3 DEF FlattenSeq, Flattens
  <2> HIDE DEF flat
  <2>3. flat[1] = ss[1] /\ \A i \in 2..Len(ss) : flat[i] = flat[i - 1] \o ss[i]
    BY <1>1, <1>3, <2>1, FlattensAt
  <2> DEFINE Good(n) == /\ flat[n] \in Seq(S)
                        /\ \A x : x \in ToSet(flat[n]) <=> \E i \in 1..n : x \in ToSet(ss[i])
             P == {n \in 0..Len(ss) : n = 0 \/ Good(n)}
  <2>4. 0 \in P
    BY <1>1
  <2>5. ASSUME NEW n \in 1..Len(ss), n - 1 \in P
        PROVE  n \in P
    <3>1. CASE n = 1
      <4>1. flat[1] \in Seq(S) /\ flat[1] = ss[1]
        BY <1>1, <1>3, <2>3
      <4>2. Good(1)
        BY <4>1
      <4> QED
        BY <1>1, <3>1, <4>2
    <3>2. CASE n # 1
      <4>1. n \in 2..Len(ss) /\ n - 1 # 0
        BY <1>1, <3>2
      <4>2. Good(n - 1) /\ flat[n] = flat[n - 1] \o ss[n] /\ ss[n] \in Seq(S)
        BY <1>1, <2>3, <2>5, <4>1
      <4>3. flat[n] \in Seq(S) /\ ToSet(flat[n]) = ToSet(flat[n - 1]) \cup ToSet(ss[n])
        BY <4>2, ToSetConcat
      <4>4. ASSUME NEW x
            PROVE  (\E i \in 1..n : x \in ToSet(ss[i]))
                      <=> x \in ToSet(ss[n]) \/ \E i \in 1..(n - 1) : x \in ToSet(ss[i])
        BY <1>1, <4>1
      <4>5. Good(n)
        BY <4>2, <4>3, <4>4
      <4> QED
        BY <4>5
    <3> QED
      BY <3>1, <3>2
  <2>6. P = 0..Len(ss)
    BY <1>1, <2>4, <2>5, IntervalInduction
  <2> QED
    BY <1>1, <1>3, <2>2, <2>6
<1> QED
  BY <1>2, <1>3

-----------------------------------------------------------------------------
(* Compaction *)

\* f is the loop of Keep over s.
Compacts(f, s, n, A) ==
    f = [i \in 0..n |-> IF i = 0 THEN << >>
                        ELSE IF s[i] \in A THEN Append(f[i - 1], s[i]) ELSE f[i - 1]]

LEMMA CompactsAt ==
    ASSUME NEW f, NEW s, NEW n \in Nat, NEW A, Compacts(f, s, n, A)
    PROVE  /\ DOMAIN f = 0..n /\ f[0] = << >>
           /\ \A i \in 1..n :
                 f[i] = IF s[i] \in A THEN Append(f[i - 1], s[i]) ELSE f[i - 1]
<1> DEFINE step(i) == IF i = 0 THEN << >>
                      ELSE IF s[i] \in A THEN Append(f[i - 1], s[i]) ELSE f[i - 1]
<1>1. f = [i \in 0..n |-> step(i)]
  BY DEF Compacts
<1> HIDE DEF step
<1>2. DOMAIN f = 0..n /\ \A i \in 0..n : f[i] = step(i)
  BY <1>1
<1> USE DEF step
<1>3. f[0] = << >>
  BY <1>2
<1>4. ASSUME NEW i \in 1..n
      PROVE  f[i] = IF s[i] \in A THEN Append(f[i - 1], s[i]) ELSE f[i - 1]
  <2>1. i \in 0..n /\ i # 0
    OBVIOUS
  <2>2. f[i] = step(i)
    BY <1>2, <2>1
  <2> QED
    BY <2>1, <2>2
<1> QED
  BY <1>2, <1>3, <1>4

LEMMA CompactionExists ==
    ASSUME NEW S, NEW s \in Seq(S), NEW A
    PROVE  \E f : Compacts(f, s, Len(s), A)
<1> DEFINE P == {n \in 0..Len(s) : \E f : Compacts(f, s, n, A)}
<1>1. Len(s) \in Nat
  OBVIOUS
<1>2. 0 \in P
  <2>1. Compacts([i \in 0..0 |-> << >>], s, 0, A)
    BY DEF Compacts
  <2> QED
    BY <1>1, <2>1
<1>3. ASSUME NEW n \in 1..Len(s), n - 1 \in P
      PROVE  n \in P
  <2>1. PICK f : Compacts(f, s, n - 1, A)
    BY <1>3
  <2> DEFINE g == [i \in 0..n |->
                     IF i < n THEN f[i]
                     ELSE IF s[n] \in A THEN Append(f[n - 1], s[n]) ELSE f[n - 1]]
  <2>2. ASSUME NEW i \in 0..n
        PROVE  g[i] = IF i = 0 THEN << >>
                      ELSE IF s[i] \in A THEN Append(g[i - 1], s[i]) ELSE g[i - 1]
    <3>1. n - 1 \in Nat /\ n - 1 \in 0..n /\ n \in Nat
      BY <1>1
    <3>2. /\ f[0] = << >>
          /\ \A j \in 1..(n - 1) :
                f[j] = IF s[j] \in A THEN Append(f[j - 1], s[j]) ELSE f[j - 1]
      BY <2>1, <3>1, CompactsAt
    <3>3. CASE i = 0
      BY <3>1, <3>2, <3>3
    <3>4. CASE i \in 1..(n - 1)
      <4>1. g[i] = f[i] /\ g[i - 1] = f[i - 1]
        BY <3>1, <3>4
      <4> QED
        BY <3>2, <3>4, <4>1
    <3>5. CASE i = n
      <4>1. g[i - 1] = f[n - 1]
        BY <3>1, <3>5
      <4> QED
        BY <3>1, <3>5, <4>1
    <3> QED
      BY <3>1, <3>3, <3>4, <3>5
  <2>3. Compacts(g, s, n, A)
    BY <2>2 DEF Compacts
  <2> QED
    BY <2>3
<1>4. P = 0..Len(s)
  BY <1>1, <1>2, <1>3, IntervalInduction
<1> QED
  BY <1>1, <1>4

LEMMA KeepCompacts ==
    ASSUME NEW S, NEW s \in Seq(S), NEW A
    PROVE  \E f : Compacts(f, s, Len(s), A) /\ Keep(s, A) = f[Len(s)]
<1> DEFINE kept == CHOOSE f : Compacts(f, s, Len(s), A)
<1>1. Compacts(kept, s, Len(s), A)
  BY CompactionExists
<1>2. Keep(s, A) = kept[Len(s)]
  BY DEF Keep, Compacts
<1> QED
  BY <1>1, <1>2

\* The first n elements of s have been looked at and r is left of them.
KeptOf(r, s, n, S, A) ==
    /\ r \in Seq(S) /\ Len(r) <= n
    /\ \A x \in S : Contains(r, x) <=> x \in A /\ \E i \in 1..n : s[i] = x
    /\ NoRepetition(s) => NoRepetition(r)

LEMMA KeptOfStep ==
    ASSUME NEW S, NEW s \in Seq(S), NEW A, NEW n \in 1..Len(s),
           NEW r, KeptOf(r, s, n - 1, S, A)
    PROVE  KeptOf(IF s[n] \in A THEN Append(r, s[n]) ELSE r, s, n, S, A)
<1>1. r \in Seq(S) /\ Len(r) \in Nat /\ Len(r) <= n - 1 /\ s[n] \in S /\ Len(s) \in Nat
  BY DEF KeptOf
<1>2. ASSUME NEW x \in S
      PROVE  (\E i \in 1..n : s[i] = x) <=> s[n] = x \/ \E i \in 1..(n - 1) : s[i] = x
  BY <1>1
<1>3. CASE s[n] \notin A
  BY <1>1, <1>2, <1>3 DEF KeptOf
<1>4. CASE s[n] \in A
  <2> DEFINE t == Append(r, s[n])
  <2>1. /\ t \in Seq(S) /\ Len(t) = Len(r) + 1 /\ t[Len(r) + 1] = s[n]
        /\ \A i \in 1..Len(r) : t[i] = r[i]
    BY <1>1
  <2> HIDE DEF t
  <2>2. ASSUME NEW x \in S
        PROVE  Contains(t, x) <=> x \in A /\ \E i \in 1..n : s[i] = x
    <3>1. Contains(t, x) <=> s[n] = x \/ Contains(r, x)
      BY <1>1, <2>1 DEF Contains
    <3>2. Contains(r, x) <=> x \in A /\ \E i \in 1..(n - 1) : s[i] = x
      BY DEF KeptOf
    <3> QED
      BY <1>2, <1>4, <3>1, <3>2
  <2>3. ASSUME NoRepetition(s)
        PROVE  NoRepetition(t)
    <3>1. ASSUME NEW i \in 1..Len(r)
          PROVE  r[i] # s[n]
      <4>1. r[i] \in S /\ Contains(r, r[i])
        BY <1>1 DEF Contains
      <4>2. PICK j \in 1..(n - 1) : s[j] = r[i]
        BY <4>1 DEF KeptOf
      <4> QED
        BY <1>1, <2>3, <4>2 DEF NoRepetition
    <3> QED
      BY <1>1, <2>1, <2>3, <3>1 DEF NoRepetition, KeptOf
  <2>4. KeptOf(t, s, n, S, A)
    BY <1>1, <2>1, <2>2, <2>3 DEF KeptOf
  <2> QED
    BY <1>4, <2>4 DEF t
<1> QED
  BY <1>3, <1>4

\* Compaction drops the members that are not in A and nothing else, it never
\* lengthens a queue, and it brings no thread into a queue twice.
THEOREM KeepProperties ==
    ASSUME NEW S, NEW s \in Seq(S), NEW A
    PROVE  /\ Keep(s, A) \in Seq(S) /\ Len(Keep(s, A)) <= Len(s)
           /\ \A x \in S : Contains(Keep(s, A), x) <=> x \in A /\ Contains(s, x)
           /\ IsInjective(s) => IsInjective(Keep(s, A))
<1>1. PICK f : Compacts(f, s, Len(s), A) /\ Keep(s, A) = f[Len(s)]
  BY KeepCompacts
<1>2. Len(s) \in Nat
  OBVIOUS
<1>3. /\ f[0] = << >>
      /\ \A i \in 1..Len(s) :
            f[i] = IF s[i] \in A THEN Append(f[i - 1], s[i]) ELSE f[i - 1]
  BY <1>1, <1>2, CompactsAt
<1> DEFINE P == {n \in 0..Len(s) : KeptOf(f[n], s, n, S, A)}
<1>4. 0 \in P
  <2>1. << >> \in Seq(S) /\ Len(<< >>) = 0
    OBVIOUS
  <2>2. KeptOf(<< >>, s, 0, S, A)
    BY <2>1 DEF KeptOf, Contains, NoRepetition
  <2>3. f[0] = << >> /\ 0 \in 0..Len(s)
    BY <1>2, <1>3
  <2> QED
    BY <2>2, <2>3
<1>5. ASSUME NEW n \in 1..Len(s), n - 1 \in P
      PROVE  n \in P
  BY <1>2, <1>3, <1>5, KeptOfStep
<1>6. P = 0..Len(s)
  BY <1>2, <1>4, <1>5, IntervalInduction
<1>7. KeptOf(Keep(s, A), s, Len(s), S, A)
  BY <1>1, <1>2, <1>6
<1>8. Keep(s, A) \in Seq(S)
  BY <1>7 DEF KeptOf
<1>9. IsInjective(s) <=> NoRepetition(s)
  BY InjectiveQueue
<1>10. IsInjective(Keep(s, A)) <=> NoRepetition(Keep(s, A))
  BY <1>8, InjectiveQueue
<1> QED
  BY <1>7, <1>9, <1>10 DEF KeptOf, Contains
=============================================================================
