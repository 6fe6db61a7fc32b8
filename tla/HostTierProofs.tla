--------------------------- MODULE HostTierProofs ---------------------------
(***************************************************************************)
(* Proofs about HostTier.                                                  *)
(***************************************************************************)
EXTENDS HostTier, Integers, FiniteSetsExt, SequencesExt, FiniteSetTheorems,
        WellFoundedInduction, TLAPS

-----------------------------------------------------------------------------
(* Facts about naturals, lists and folds.                                  *)

\* A nonempty set of naturals has a least element.
LEMMA LeastElement ==
  ASSUME NEW T, T \subseteq Nat, T # {}
  PROVE  \E x \in T : \A y \in T : x <= y
<1> DEFINE R == OpToRel(<, Nat)
<1>1. IsWellFoundedOn(R, Nat)
  BY NatLessThanWellFounded
<1>2. \E x \in T : \A y \in T : ~ (<<y, x>> \in R)
  <2> HIDE DEF R
  <2> QED BY <1>1, WFMin
<1>3. PICK x \in T : \A y \in T : ~ (<<y, x>> \in R)
  BY <1>2
<1>4. \A y \in T : ~ (y < x)
  <2> SUFFICES ASSUME NEW y \in T, y < x PROVE FALSE
    OBVIOUS
  <2>1. <<y, x>> \notin OpToRel(<, Nat)
    BY <1>3
  <2>2. ~ (<<y, x>> \in Nat \X Nat /\ <<y, x>>[1] < <<y, x>>[2])
    BY <2>1 DEF OpToRel
  <2> HIDE DEF R
  <2>3. x \in Nat /\ y \in Nat
    OBVIOUS
  <2>4. <<y, x>> \in Nat \X Nat /\ <<y, x>>[1] = y /\ <<y, x>>[2] = x
    BY <2>3
  <2> QED BY <2>2, <2>4
<1> HIDE DEF R
<1> QED BY <1>4

\* A set with 0 and the successor of each of its members holds every natural.
LEMMA SetInduction ==
  ASSUME NEW T, 0 \in T, \A n \in Nat : n \in T => n + 1 \in T
  PROVE  Nat \subseteq T
<1> SUFFICES ASSUME Nat \ T # {} PROVE FALSE
  OBVIOUS
<1>1. PICK x \in Nat \ T : \A y \in Nat \ T : x <= y
  BY LeastElement
<1>2. x # 0 
  BY <1>1
<1>3. x - 1 \in Nat /\ x - 1 \notin Nat \ T
  BY <1>1, <1>2
<1> QED BY <1>1, <1>3

\* A sequence without repetitions is as long as its range is large.
LEMMA InjectiveLen ==
    ASSUME NEW T, NEW s \in Seq(T), IsInjective(s)
    PROVE  IsFiniteSet(Range(s)) /\ Len(s) = Cardinality(Range(s))
<1>1. s \in Bijection(1..Len(s), Range(s))
    <2>1. s \in [1..Len(s) -> Range(s)]
        BY DEF Range
    <2>2. s \in Injection(1..Len(s), Range(s))
        BY <2>1 DEF IsInjective, Injection
    <2>3. s \in Surjection(1..Len(s), Range(s))
        BY <2>1 DEF Range, Surjection
    <2> QED BY <2>2, <2>3 DEF Bijection
<1>2. IsFiniteSet(1..Len(s)) /\ Cardinality(1..Len(s)) = Len(s)
    <2>1. Len(s) \in Nat
        OBVIOUS
    <2>2. \A n \in Nat : IsFiniteSet(1..n) /\ Cardinality(1..n) = n
        BY FS_Interval
    <2> QED BY <2>1, <2>2
<1>3. ExistsBijection(1..Len(s), Range(s))
    BY <1>1 DEF ExistsBijection
<1> QED BY <1>2, <1>3, FS_Bijection

\* Append, concatenation and cuts of sequences without repetitions.
LEMMA InjectiveAppend ==
    ASSUME NEW T, NEW s \in Seq(T), NEW x \in T
    PROVE  /\ Append(s, x) \in Seq(T) /\ Range(Append(s, x)) = Range(s) \cup {x}
           /\ IsInjective(s) /\ x \notin Range(s) => IsInjective(Append(s, x))
<1>1. /\ Append(s, x) \in Seq(T) /\ Len(Append(s, x)) = Len(s) + 1
      /\ Append(s, x)[Len(s) + 1] = x
      /\ \A i \in 1..Len(s) : Append(s, x)[i] = s[i]
    OBVIOUS
<1> DEFINE t == Append(s, x)
<1>2. DOMAIN t = 1..(Len(s) + 1) /\ DOMAIN s = 1..Len(s) /\ Len(s) \in Nat
    BY <1>1
<1> HIDE DEF t
<1>3. \A i \in DOMAIN t : i = Len(s) + 1 \/ i \in DOMAIN s
    BY <1>2
<1>4. \A i \in DOMAIN s : i \in DOMAIN t /\ t[i] = s[i]
    BY <1>1, <1>2 DEF t
<1>5. Len(s) + 1 \in DOMAIN t /\ t[Len(s) + 1] = x
    BY <1>1, <1>2 DEF t
<1>6. Range(t) = Range(s) \cup {x}
    BY <1>3, <1>4, <1>5 DEF Range
<1>7. IsInjective(s) /\ x \notin Range(s) => IsInjective(t)
    BY <1>3, <1>4, <1>5 DEF IsInjective, Range
<1> QED BY <1>1, <1>6, <1>7 DEF t

LEMMA InjectiveConcat ==
    ASSUME NEW T, NEW s \in Seq(T), NEW t \in Seq(T)
    PROVE  /\ s \o t \in Seq(T) /\ Range(s \o t) = Range(s) \cup Range(t)
           /\ IsInjective(s) /\ IsInjective(t) /\ Range(s) \cap Range(t) = {}
                => IsInjective(s \o t)
<1> DEFINE u == s \o t
<1>1. /\ u \in Seq(T) /\ DOMAIN u = 1..(Len(s) + Len(t)) /\ Len(s) \in Nat /\ Len(t) \in Nat
      /\ DOMAIN s = 1..Len(s) /\ DOMAIN t = 1..Len(t)
    OBVIOUS
<1>2. \A i \in DOMAIN u : \/ i \in DOMAIN s /\ u[i] = s[i]
                          \/ i - Len(s) \in DOMAIN t /\ u[i] = t[i - Len(s)]
    OBVIOUS
<1>3. \A i \in DOMAIN s : i \in DOMAIN u /\ u[i] = s[i]
    OBVIOUS
<1>4. \A i \in DOMAIN t : i + Len(s) \in DOMAIN u /\ u[i + Len(s)] = t[i]
    OBVIOUS
<1> HIDE DEF u
<1>5. Range(u) = Range(s) \cup Range(t)
    <2>1. Range(u) \subseteq Range(s) \cup Range(t)
        BY <1>2 DEF Range
    <2>2. Range(s) \subseteq Range(u) /\ Range(t) \subseteq Range(u)
        BY <1>3, <1>4 DEF Range
    <2> QED BY <2>1, <2>2
<1>6. ASSUME IsInjective(s), IsInjective(t), Range(s) \cap Range(t) = {},
             NEW i \in DOMAIN u, NEW j \in DOMAIN u, u[i] = u[j]
      PROVE  i = j
    <2>1. CASE i \in DOMAIN s /\ u[i] = s[i] /\ j \in DOMAIN s /\ u[j] = s[j]
        BY <1>6, <2>1 DEF IsInjective
    <2>2. CASE i - Len(s) \in DOMAIN t /\ u[i] = t[i - Len(s)]
               /\ j - Len(s) \in DOMAIN t /\ u[j] = t[j - Len(s)]
        <3>1. i - Len(s) = j - Len(s)
            BY <1>6, <2>2 DEF IsInjective
        <3>2. i \in Int /\ j \in Int /\ Len(s) \in Int
            BY <1>1
        <3> QED BY <3>1, <3>2
    <2>3. \A x \in DOMAIN s, y \in DOMAIN t : s[x] # t[y]
        BY <1>6 DEF Range
    <2> QED BY <1>2, <1>6, <2>1, <2>2, <2>3
<1> QED BY <1>1, <1>5, <1>6 DEF u, IsInjective

LEMMA InjectiveCut ==
    ASSUME NEW T, NEW s \in Seq(T), NEW n \in 0..Len(s)
    PROVE  LET first == SubSeq(s, 1, n)
               rest == SubSeq(s, n + 1, Len(s))
           IN  /\ first \in Seq(T) /\ rest \in Seq(T)
               /\ Len(first) = n /\ Len(rest) = Len(s) - n
               /\ \A i \in 1..n : first[i] = s[i]
               /\ \A i \in 1..(Len(s) - n) : rest[i] = s[n + i]
               /\ Range(first) \cup Range(rest) = Range(s)
               /\ IsInjective(s) => /\ IsInjective(first) /\ IsInjective(rest)
                                    /\ Range(first) \cap Range(rest) = {}
<1> DEFINE first == SubSeq(s, 1, n)
           rest == SubSeq(s, n + 1, Len(s))
<1>1. /\ first \in Seq(T) /\ DOMAIN first = 1..n /\ Len(first) = n
      /\ \A i \in 1..n : first[i] = s[i]
    OBVIOUS
<1>2. /\ rest \in Seq(T) /\ DOMAIN rest = 1..(Len(s) - n) /\ Len(rest) = Len(s) - n
      /\ \A i \in 1..(Len(s) - n) : rest[i] = s[n + i]
    OBVIOUS
<1>3. DOMAIN s = 1..Len(s) /\ Len(s) \in Nat /\ n \in Nat /\ n <= Len(s)
    OBVIOUS
<1> HIDE DEF first, rest
<1>4. \A i \in DOMAIN first : i \in DOMAIN s /\ first[i] = s[i] /\ i <= n
    BY <1>1, <1>3
<1>5. \A i \in DOMAIN rest : i \in Nat /\ n + i \in DOMAIN s /\ rest[i] = s[n + i] /\ n + i > n
    BY <1>2, <1>3
<1>6. \A i \in DOMAIN s : \/ i \in DOMAIN first
                          \/ i - n \in DOMAIN rest /\ n + (i - n) = i
    BY <1>1, <1>2, <1>3
<1>7. Range(first) \cup Range(rest) = Range(s)
    <2>1. Range(first) \subseteq Range(s) /\ Range(rest) \subseteq Range(s)
        BY <1>4, <1>5 DEF Range
    <2>2. ASSUME NEW i \in DOMAIN s PROVE s[i] \in Range(first) \cup Range(rest)
        BY <1>4, <1>5, <1>6 DEF Range
    <2> QED BY <2>1, <2>2 DEF Range
<1>8. ASSUME IsInjective(s)
      PROVE  IsInjective(first) /\ IsInjective(rest) /\ Range(first) \cap Range(rest) = {}
    <2>1. IsInjective(first)
        BY <1>4, <1>8 DEF IsInjective
    <2>2. ASSUME NEW i \in DOMAIN rest, NEW j \in DOMAIN rest, rest[i] = rest[j]
          PROVE  i = j
        <3>1. n + i = n + j
            BY <1>5, <1>8, <2>2 DEF IsInjective
        <3> QED BY <1>3, <1>5, <3>1
    <2>3. ASSUME NEW i \in DOMAIN first, NEW j \in DOMAIN rest, first[i] = rest[j]
          PROVE  FALSE
        <3>1. i = n + j
            BY <1>4, <1>5, <1>8, <2>3 DEF IsInjective
        <3>2. i <= n /\ n + j > n /\ i \in Int
            BY <1>3, <1>4, <1>5
        <3> QED BY <1>3, <3>1, <3>2
    <2> QED BY <2>1, <2>2, <2>3 DEF IsInjective, Range
<1> QED BY <1>1, <1>2, <1>7, <1>8 DEF first, rest

LEMMA RangeIsToSet == ASSUME NEW s PROVE ToSet(s) = Range(s)
BY DEF ToSet, Range

LEMMA ToSetIn == ASSUME NEW T, NEW s \in Seq(T) PROVE ToSet(s) \subseteq T
BY DEF ToSet

\* SetToSeq lists a finite set, each member once.
LEMMA SetToSeqFacts ==
    ASSUME NEW S, IsFiniteSet(S)
    PROVE  /\ SetToSeq(S) \in Seq(S) /\ IsInjective(SetToSeq(S))
           /\ ToSet(SetToSeq(S)) = S
<1> DEFINE n == Cardinality(S)
<1>1. n \in Nat /\ IsFiniteSet(S) /\ ExistsBijection(1..n, S)
    BY FS_CardinalityType
<1>2. PICK f \in [1..n -> S] : f \in Bijection(1..n, S)
    BY <1>1 DEF ExistsBijection, Bijection, Injection
<1>3. IsInjective(f)
    BY <1>2 DEF Bijection, Injection, IsInjective
<1> DEFINE g == SetToSeq(S)
<1>4. g \in [1..n -> S] /\ IsInjective(g)
    BY <1>2, <1>3 DEF SetToSeq
<1> HIDE DEF g
<1>5. g \in Seq(S)
    BY <1>1, <1>4
<1>6. Range(g) \subseteq S
    BY <1>4 DEF Range
<1>7. IsFiniteSet(Range(g)) /\ Cardinality(Range(g)) = n
    <2>1. Len(g) = n
        BY <1>1, <1>4
    <2> QED BY <1>4, <1>5, <2>1, InjectiveLen
<1>8. Range(g) = S
    BY <1>1, <1>6, <1>7, FS_Subset
<1> QED BY <1>4, <1>5, <1>8, RangeIsToSet DEF g

\* The last member of a list without repetitions, and the rest.
LEMMA FrontFacts ==
    ASSUME NEW T, NEW s \in Seq(T), IsInjective(s), s # <<>>
    PROVE  /\ Front(s) \in Seq(T) /\ IsInjective(Front(s))
           /\ Last(s) \in ToSet(s) /\ ToSet(Front(s)) = ToSet(s) \ {Last(s)}
<1> DEFINE n == Len(s)
<1>1. n \in Nat /\ n > 0 /\ DOMAIN s = 1..n /\ n \in DOMAIN s
    OBVIOUS
<1>2. /\ Front(s) \in Seq(T) /\ DOMAIN Front(s) = 1..(n - 1)
      /\ \A i \in 1..(n - 1) : Front(s)[i] = s[i]
    BY <1>1 DEF Front
<1>3. Last(s) = s[n]
    BY DEF Last
<1> DEFINE f == Front(s)
<1> HIDE DEF f
<1>4. \A i \in DOMAIN s : i = n \/ (i \in DOMAIN f /\ f[i] = s[i] /\ i # n)
    BY <1>1, <1>2 DEF f
<1>5. \A i \in DOMAIN f : i \in DOMAIN s /\ f[i] = s[i] /\ i # n
    BY <1>1, <1>2 DEF f
<1>6. IsInjective(f)
    BY <1>5 DEF IsInjective
<1>7. ToSet(f) = ToSet(s) \ {s[n]}
    BY <1>1, <1>4, <1>5 DEF ToSet, IsInjective
<1> QED BY <1>1, <1>2, <1>3, <1>6, <1>7 DEF f, ToSet

\* A list without repetitions loses one member.
LEMMA RemoveFirstFacts ==
    ASSUME NEW T, NEW s \in Seq(T), IsInjective(s), NEW e
    PROVE  /\ RemoveFirst(s, e) \in Seq(T) /\ IsInjective(RemoveFirst(s, e))
           /\ ToSet(RemoveFirst(s, e)) = ToSet(s) \ {e}
<1>1. CASE ~\E i \in 1..Len(s) : s[i] = e
    <2>1. RemoveFirst(s, e) = s
        BY <1>1 DEF RemoveFirst
    <2>2. e \notin ToSet(s)
        BY <1>1 DEF ToSet
    <2> QED BY <2>1, <2>2
<1>2. CASE \E i \in 1..Len(s) : s[i] = e
    <2> DEFINE I == {i \in 1..Len(s) : s[i] = e}
               k == Min(I)
    <2>1. I # {} /\ I \subseteq Nat /\ I \subseteq 1..Len(s)
        BY <1>2
    <2>2. k \in I
        <3>1. \E x \in I : \A y \in I : x <= y
            <4> HIDE DEF I
            <4> QED BY <2>1, LeastElement
        <3> HIDE DEF I
        <3> QED BY <3>1 DEF Min
    <2>3. RemoveFirst(s, e) = SubSeq(s, 1, k - 1) \o SubSeq(s, k + 1, Len(s))
        BY <1>2, <2>1 DEF RemoveFirst, RemoveAt, SelectInSeq
    <2> HIDE DEF k, I
    <2>4. k \in 1..Len(s) /\ s[k] = e
        BY <2>2 DEF I
    <2> DEFINE a == SubSeq(s, 1, k - 1)
               b == SubSeq(s, k + 1, Len(s))
    <2>5. /\ a \in Seq(T) /\ IsInjective(a)
          /\ ToSet(a) = {s[i] : i \in 1..(k - 1)}
        <3>1. k - 1 \in 0..Len(s)
            BY <2>4
        <3>2. a \in Seq(T) /\ Len(a) = k - 1 /\ \A i \in 1..(k - 1) : a[i] = s[i]
            BY <3>1, InjectiveCut
        <3>3. IsInjective(a)
            BY <3>1, InjectiveCut
        <3>4. DOMAIN a = 1..(k - 1)
            BY <3>1, <3>2
        <3> QED BY <3>2, <3>3, <3>4 DEF ToSet
    <2>6. /\ b \in Seq(T) /\ IsInjective(b)
          /\ ToSet(b) = {s[i] : i \in (k + 1)..Len(s)}
        <3>1. k \in 0..Len(s)
            BY <2>4
        <3>2. b \in Seq(T) /\ Len(b) = Len(s) - k /\ \A i \in 1..(Len(s) - k) : b[i] = s[k + i]
            BY <3>1, InjectiveCut
        <3>3. IsInjective(b)
            BY <3>1, InjectiveCut
        <3>4. DOMAIN b = 1..(Len(s) - k)
            BY <2>4, <3>2
        <3>5. ASSUME NEW i \in (k + 1)..Len(s)
              PROVE  i - k \in DOMAIN b /\ b[i - k] = s[i]
            BY <2>4, <3>2, <3>4
        <3>6. ASSUME NEW i \in DOMAIN b
              PROVE  k + i \in (k + 1)..Len(s) /\ b[i] = s[k + i]
            BY <2>4, <3>2, <3>4
        <3> HIDE DEF b
        <3>7. \A v \in ToSet(b) : v \in {s[i] : i \in (k + 1)..Len(s)}
            BY <3>6 DEF ToSet
        <3>8. \A v \in {s[i] : i \in (k + 1)..Len(s)} : v \in ToSet(b)
            BY <3>5 DEF ToSet
        <3> QED BY <3>2, <3>3, <3>7, <3>8
    <2>7. DOMAIN s = 1..Len(s) /\ Len(s) \in Nat
        OBVIOUS
    <2>8. Range(a) \cap Range(b) = {}
        <3>1. ASSUME NEW i \in 1..(k - 1), NEW j \in (k + 1)..Len(s), s[i] = s[j] PROVE FALSE
            <4>1. i \in DOMAIN s /\ j \in DOMAIN s /\ i # j
                BY <2>4, <2>7
            <4> QED BY <3>1, <4>1 DEF IsInjective
        <3> QED BY <2>5, <2>6, <3>1, RangeIsToSet
    <2>9. ToSet(s) \ {e} = ToSet(a) \cup ToSet(b)
        <3>1. ASSUME NEW i \in DOMAIN s PROVE i = k \/ i \in 1..(k - 1) \/ i \in (k + 1)..Len(s)
            BY <2>4, <2>7
        <3>2. \A i \in DOMAIN s : i # k => s[i] # e
            BY <2>4, <2>7 DEF IsInjective
        <3>3. \A i \in 1..(k - 1) : i \in DOMAIN s /\ i # k
            BY <2>4, <2>7
        <3>4. \A i \in (k + 1)..Len(s) : i \in DOMAIN s /\ i # k
            BY <2>4, <2>7
        <3> QED BY <2>4, <2>5, <2>6, <3>1, <3>2, <3>3, <3>4 DEF ToSet
    <2> HIDE DEF a, b
    <2>10. /\ a \o b \in Seq(T) /\ Range(a \o b) = Range(a) \cup Range(b)
           /\ IsInjective(a \o b)
        BY <2>5, <2>6, <2>8, InjectiveConcat
    <2>11. RemoveFirst(s, e) = a \o b
        BY <2>3 DEF a, b
    <2> QED BY <2>9, <2>10, <2>11, RangeIsToSet
<1> QED BY <1>1, <1>2

LEMMA Upto ==
    ASSUME NEW m \in Nat
    PROVE  /\ 1..(m + 1) # {} /\ m + 1 \in 1..(m + 1) /\ (1..(m + 1)) \ {m + 1} = 1..m
           /\ \A t \in SUBSET (1..m) : t \in SUBSET (1..(m + 1))
<1>1. m + 1 \in 1..(m + 1)
    OBVIOUS
<1>2. \A y : y \in (1..(m + 1)) \ {m + 1} <=> y \in 1..m
    OBVIOUS
<1>3. 1..m \subseteq 1..(m + 1)
    OBVIOUS
<1> QED BY <1>1, <1>2, <1>3

\* A nonempty set of numbers up to a bound has a maximum.
LEMMA MaxFacts ==
    ASSUME NEW m \in Nat
    PROVE  /\ \A t \in SUBSET (1..(m + 1)) : t # {} =>
                 /\ Max(t) \in t /\ t \ {Max(t)} \in SUBSET (1..m)
                 /\ \A y \in t : y <= Max(t)
           /\ Max(1..(m + 1)) = m + 1
<1>1. ASSUME NEW t \in SUBSET (1..(m + 1)), t # {}
      PROVE  \E x \in t : \A y \in t : x >= y
    <2> DEFINE d == {m + 1 - y : y \in t}
    <2>1. d \subseteq Nat /\ d # {}
        <3>1. ASSUME NEW y \in t PROVE m + 1 - y \in Nat
            <4>1. y \in 1..(m + 1)
                BY <1>1
            <4> QED BY <4>1
        <3> QED BY <1>1, <3>1
    <2>2. PICK z \in d : \A y \in d : z <= y
        <3> HIDE DEF d
        <3> QED BY <2>1, LeastElement
    <2>3. PICK x \in t : z = m + 1 - x
        BY <2>2
    <2>4. ASSUME NEW y \in t PROVE x >= y
        <3>1. z <= m + 1 - y
            BY <2>2, <2>4
        <3>2. x \in 1..(m + 1) /\ y \in 1..(m + 1)
            BY <1>1, <2>3, <2>4
        <3> QED BY <2>3, <3>1, <3>2
    <2> QED BY <2>4
<1>2. ASSUME NEW t \in SUBSET (1..(m + 1)), t # {}
      PROVE  Max(t) \in t /\ \A y \in t : Max(t) >= y
    BY <1>1, <1>2 DEF Max
<1>3. ASSUME NEW t \in SUBSET (1..(m + 1)), t # {}
      PROVE  t \ {Max(t)} \in SUBSET (1..m)
    <2>1. ASSUME NEW y \in t, y # Max(t) PROVE y \in 1..m
        <3>1. y \in 1..(m + 1) /\ Max(t) \in 1..(m + 1) /\ Max(t) >= y
            BY <1>2, <1>3, <2>1
        <3> QED BY <2>1, <3>1
    <2> QED BY <2>1
<1>4. Max(1..(m + 1)) = m + 1
    <2>1. 1..(m + 1) \in SUBSET (1..(m + 1)) /\ 1..(m + 1) # {} /\ m + 1 \in 1..(m + 1)
        BY Upto
    <2>2. Max(1..(m + 1)) \in 1..(m + 1) /\ Max(1..(m + 1)) >= m + 1
        BY <1>2, <2>1
    <2> QED BY <2>2
<1>5. ASSUME NEW t \in SUBSET (1..(m + 1)), t # {}, NEW y \in t PROVE y <= Max(t)
    <2>1. Max(t) >= y /\ y \in 1..(m + 1) /\ Max(t) \in 1..(m + 1)
        BY <1>2, <1>5
    <2> QED BY <2>1
<1> QED BY <1>2, <1>3, <1>4, <1>5

LEMMA PrefixSets ==
    ASSUME NEW n \in Nat, NEW i \in 1..n
    PROVE  /\ Max(1..i) = i /\ 1..i # {} /\ 1..i \in SUBSET (1..n)
           /\ (1..i) \ {i} = 1..(i - 1) /\ i - 1 \in 0..n
<1>1. i - 1 \in Nat /\ (i - 1) + 1 = i /\ i - 1 \in 0..n
    OBVIOUS
<1>2. \A y \in 1..i : y \in 1..n
    OBVIOUS
<1> QED BY <1>1, <1>2, Upto, MaxFacts

-----------------------------------------------------------------------------
(* The invariant of the index.                                             *)

IndexFields ==
    {"numSlots", "numDiskSlots", "free", "diskFree", "order", "traj",
     "pendingWrite", "orphanedPending", "orphanedBusy", "orphanedDisk",
     "diskPending", "diskOfHost", "hostBusy", "promotions"}
TrajectoryFields ==
    {"hashes", "attn", "diskAttn", "tail", "boundary", "tailHash",
     "tailPending", "diskTail", "diskBoundary"}

\* The lists of a tier without repetitions, the trajectories in order.
ListsOK(x) ==
    /\ DOMAIN x = IndexFields
    /\ x.numSlots \in Nat /\ x.numDiskSlots \in Nat
    /\ x.free \in Seq(1 .. x.numSlots) /\ IsInjective(x.free)
    /\ x.diskFree \in Seq(1 .. x.numDiskSlots) /\ IsInjective(x.diskFree)
    /\ x.order \in Seq(DOMAIN x.traj) /\ IsInjective(x.order)

\* A slot has one position of a lineage, or is its tail.
Once(list, tail) ==
    /\ \A i \in DOMAIN list : \A j \in DOMAIN list : list[i] # None /\ list[i] = list[j] => i = j
    /\ \A i \in DOMAIN list : list[i] = tail => tail = None

TrajectoryOK(t, hosts, disks) ==
    /\ DOMAIN t = TrajectoryFields
    /\ Len(t.hashes) \in Nat /\ DOMAIN t.hashes = 1 .. Len(t.hashes)
    /\ t.attn \in [1 .. Len(t.hashes) -> 0 .. hosts] /\ t.tail \in 0 .. hosts
    /\ t.diskAttn \in [1 .. Len(t.hashes) -> 0 .. disks] /\ t.diskTail \in 0 .. disks
    /\ t.tailPending \in BOOLEAN /\ t.boundary \in Nat
    /\ Once(t.attn, t.tail) /\ Once(t.diskAttn, t.diskTail)

TrajectoriesOK(x) ==
    \A o \in DOMAIN x.traj : TrajectoryOK(x.traj[o], x.numSlots, x.numDiskSlots)

\* The free slots, the orphans, the slots in limbo and the trajectories share all.
Parted(all, F, O, L, held) ==
    /\ F \cap O = {} /\ F \cap L = {} /\ O \cap L = {}
    /\ \A o \in DOMAIN held : held[o] \cap (F \cup O \cup L) = {}
    /\ \A o \in DOMAIN held : \A p \in DOMAIN held : o # p => held[o] \cap held[p] = {}
    /\ \A s : s \in all <=> s \in F \cup O \cup L \/ \E o \in DOMAIN held : s \in held[o]

HostHeld(x) == [o \in DOMAIN x.traj |-> HostSlots(x.traj[o])]
DiskHeld(x) == [o \in DOMAIN x.traj |-> DiskSlots(x.traj[o])]
HostParted(x, L) ==
    Parted(1 .. x.numSlots, ToSet(x.free), x.orphanedPending \cup x.orphanedBusy, L, HostHeld(x))
DiskParted(x, M) ==
    Parted(1 .. x.numDiskSlots, ToSet(x.diskFree), x.orphanedDisk, M, DiskHeld(x))

\* What is being written is not free.
PendingOK(x, L, M) ==
    /\ x.pendingWrite \subseteq 1 .. x.numSlots
    /\ x.orphanedPending \cup L \subseteq x.pendingWrite
    /\ x.pendingWrite \cap ToSet(x.free) = {}
    /\ x.orphanedBusy \subseteq DOMAIN x.hostBusy
    /\ DOMAIN x.hostBusy \cap (ToSet(x.free) \cup x.pendingWrite) = {}
    /\ x.diskPending \subseteq 1 .. x.numDiskSlots
    /\ x.diskPending \cap ToSet(x.diskFree) = {}
    /\ x.orphanedDisk \cup M \subseteq x.diskPending

\* Host slot s and disk slot d are copies of one block of the trajectory.
Paired(t, s, d) ==
    \/ \E i \in DOMAIN t.attn : t.attn[i] = s /\ t.diskAttn[i] = d
    \/ t.tail = s /\ t.diskTail = d

\* The disk writes in flight and the ones to come.
WritesOK(x) ==
    /\ \A s \in DOMAIN x.hostBusy : \A r \in DOMAIN x.hostBusy :
          x.hostBusy[s] = x.hostBusy[r] => s = r
    /\ \A s \in DOMAIN x.hostBusy :
          /\ s # None /\ x.hostBusy[s] \in x.diskPending
          /\ \/ s \in x.orphanedBusy /\ x.hostBusy[s] \in x.orphanedDisk
             \/ \E o \in DOMAIN x.traj : Paired(x.traj[o], s, x.hostBusy[s])
    /\ \A s \in DOMAIN x.diskOfHost :
          /\ s # None /\ s \notin DOMAIN x.hostBusy
          /\ x.diskOfHost[s] \in x.diskPending
          /\ \E o \in DOMAIN x.traj : Paired(x.traj[o], s, x.diskOfHost[s])

Core(x, L, M) ==
    /\ ListsOK(x) /\ TrajectoriesOK(x)
    /\ HostParted(x, L) /\ DiskParted(x, M)
    /\ PendingOK(x, L, M) /\ WritesOK(x)

\* A tail that is still pending has a writer.
TailOK(x, o) ==
    LET t == x.traj[o]
    IN  t.tail # None /\ t.tailPending =>
            /\ t.tail \in x.pendingWrite
            /\ \/ t.diskTail = None
               \/ t.diskTail \in x.diskPending
               \/ o \in DOMAIN x.promotions /\ t.tail \in x.promotions[o]

IndexOK(x, L, M) == Core(x, L, M) /\ \A o \in DOMAIN x.traj : TailOK(x, o)

-----------------------------------------------------------------------------
(* Slots, trajectories and lists.                                          *)

\* The slots of a trajectory are those of its positions and of its tail.
LEMMA HeldSlots ==
    ASSUME NEW t
    PROVE  /\ \A s : s \in HostSlots(t) <=>
                     s # None /\ (s = t.tail \/ \E i \in DOMAIN t.attn : t.attn[i] = s)
           /\ \A d : d \in DiskSlots(t) <=>
                     d # None /\ (d = t.diskTail \/ \E i \in DOMAIN t.diskAttn : t.diskAttn[i] = d)
BY DEF HostSlots, AttnSlots, DiskSlots, Present, ToSet

\* They are slots of the tiers, of which there are finitely many.
LEMMA HeldInTier ==
    ASSUME NEW t, NEW h \in Nat, NEW d \in Nat, TrajectoryOK(t, h, d)
    PROVE  /\ HostSlots(t) \subseteq 1 .. h /\ DiskSlots(t) \subseteq 1 .. d
           /\ IsFiniteSet(HostSlots(t)) /\ IsFiniteSet(DiskSlots(t))
<1>1. HostSlots(t) \subseteq 1 .. h /\ DiskSlots(t) \subseteq 1 .. d
    <2>1. ASSUME NEW s \in HostSlots(t) PROVE s \in 1 .. h
        BY <2>1, HeldSlots DEF TrajectoryOK, None
    <2>2. ASSUME NEW s \in DiskSlots(t) PROVE s \in 1 .. d
        BY <2>2, HeldSlots DEF TrajectoryOK, None
    <2> QED BY <2>1, <2>2
<1>2. \A n \in Nat : IsFiniteSet(1 .. n)
    BY FS_Interval
<1> QED BY <1>1, <1>2, FS_Subset

LEMMA PairedHeld ==
    ASSUME NEW t, NEW h, NEW d, TrajectoryOK(t, h, d), NEW s, NEW e, Paired(t, s, e)
    PROVE  /\ s # None => s \in HostSlots(t)
           /\ e # None => e \in DiskSlots(t)
           /\ \A r : Paired(t, r, e) /\ e # None => r = s
           /\ \A f : Paired(t, s, f) /\ s # None => f = e
<1>1. DOMAIN t.attn = DOMAIN t.diskAttn
    BY DEF TrajectoryOK
<1>2. (s # None => s \in HostSlots(t)) /\ (e # None => e \in DiskSlots(t))
    BY <1>1, HeldSlots DEF Paired
<1>3. \A r : Paired(t, r, e) /\ e # None => r = s
    BY <1>1 DEF Paired, TrajectoryOK, Once
<1>4. \A f : Paired(t, s, f) /\ s # None => f = e
    BY <1>1 DEF Paired, TrajectoryOK, Once
<1> QED BY <1>2, <1>3, <1>4

\* Slots move between free list, orphans, limbo and one holder: none is lost.
SlotsMoved(F, O, L, H, F2, O2, L2, H2) ==
    /\ F2 \cap O2 = {} /\ F2 \cap L2 = {} /\ O2 \cap L2 = {}
    /\ H2 \cap (F2 \cup O2 \cup L2) = {}
    /\ F2 \cup O2 \cup L2 \cup H2 = F \cup O \cup L \cup H

\* What o holds changes from H to H2, and what the others hold does not.
HeldMoved(held, held2, o, H, H2) ==
    /\ IF o \in DOMAIN held THEN held[o] = H ELSE H = {}
    /\ IF o \in DOMAIN held2 THEN held2[o] = H2 ELSE H2 = {}
    /\ \A p : p # o => (p \in DOMAIN held2 <=> p \in DOMAIN held)
    /\ \A p \in DOMAIN held : p # o => held2[p] = held[p]

LEMMA PartedMove ==
    ASSUME NEW all, NEW F, NEW O, NEW L, NEW held, Parted(all, F, O, L, held),
           NEW F2, NEW O2, NEW L2, NEW held2, NEW o, NEW H, NEW H2,
           HeldMoved(held, held2, o, H, H2), SlotsMoved(F, O, L, H, F2, O2, L2, H2)
    PROVE  Parted(all, F2, O2, L2, held2)
<1> USE DEF HeldMoved, SlotsMoved
<1> DEFINE rest == F \cup O \cup L \cup H
<1>1. \A p \in DOMAIN held : p # o => held[p] \cap rest = {}
    BY DEF Parted
<1>2. \A p \in DOMAIN held2 : p # o => p \in DOMAIN held /\ held2[p] = held[p]
    OBVIOUS
<1>3. \A p \in DOMAIN held2 : held2[p] \cap (F2 \cup O2 \cup L2) = {}
    BY <1>1, <1>2
<1>4. \A p \in DOMAIN held2 : \A q \in DOMAIN held2 : p # q => held2[p] \cap held2[q] = {}
    <2> SUFFICES ASSUME NEW p \in DOMAIN held2, NEW q \in DOMAIN held2, p # q,
                        NEW s \in held2[p], s \in held2[q]
                 PROVE  FALSE
        OBVIOUS
    <2>1. CASE p # o /\ q # o
        BY <1>2, <2>1 DEF Parted
    <2>2. CASE p = o
        BY <1>1, <1>2, <2>2
    <2>3. CASE q = o
        BY <1>1, <1>2, <2>3
    <2> QED BY <2>1, <2>2, <2>3
<1>5. \A s : (s \in F2 \cup O2 \cup L2 \/ \E p \in DOMAIN held2 : s \in held2[p])
           <=> (s \in F \cup O \cup L \/ \E p \in DOMAIN held : s \in held[p])
    <2> TAKE s
    <2>1. ASSUME NEW p \in DOMAIN held2, s \in held2[p]
          PROVE  s \in F \cup O \cup L \/ \E q \in DOMAIN held : s \in held[q]
        BY <1>2, <2>1
    <2>2. ASSUME NEW p \in DOMAIN held, s \in held[p]
          PROVE  s \in F2 \cup O2 \cup L2 \/ \E q \in DOMAIN held2 : s \in held2[q]
        BY <2>2
    <2>3. s \in F2 \cup O2 \cup L2 => s \in F \cup O \cup L \/ \E q \in DOMAIN held : s \in held[q]
        OBVIOUS
    <2>4. s \in F \cup O \cup L => s \in F2 \cup O2 \cup L2 \/ \E q \in DOMAIN held2 : s \in held2[q]
        OBVIOUS
    <2> QED BY <2>1, <2>2, <2>3, <2>4
<1> QED BY <1>3, <1>4, <1>5 DEF Parted

\* A free list to which other slots are pushed.
LEMMA PushFacts ==
    ASSUME NEW n \in Nat, NEW list \in Seq(1 .. n), IsInjective(list),
           NEW S, S \subseteq 1 .. n, S \cap ToSet(list) = {}
    PROVE  /\ Push(list, S) \in Seq(1 .. n) /\ IsInjective(Push(list, S))
           /\ ToSet(Push(list, S)) = ToSet(list) \cup S
<1> DEFINE T == 1 .. n
           q == SetToSeq(S)
<1>1. IsFiniteSet(S)
    <2>1. IsFiniteSet(1 .. n) /\ S \in SUBSET (1 .. n)
        BY FS_Interval
    <2> QED BY <2>1, FS_Subset
<1>2. q \in Seq(S) /\ IsInjective(q) /\ ToSet(q) = S
    BY <1>1, SetToSeqFacts
<1> HIDE DEF q, T
<1>3. q \in Seq(T) /\ list \in Seq(T)
    <2>1. S \subseteq T /\ list \in Seq(T)
        BY DEF T
    <2>2. q \in [1 .. Len(q) -> S] /\ Len(q) \in Nat
        BY <1>2
    <2>3. q \in [1 .. Len(q) -> T]
        BY <2>1, <2>2
    <2> QED BY <2>1, <2>2, <2>3
<1>4. Range(list) \cap Range(q) = {}
    BY <1>2, RangeIsToSet
<1>5. /\ list \o q \in Seq(T) /\ IsInjective(list \o q)
      /\ Range(list \o q) = Range(list) \cup Range(q)
    BY <1>2, <1>3, <1>4, InjectiveConcat
<1> QED BY <1>2, <1>5, RangeIsToSet DEF Push, q, T

\* Nothing is pushed.
LEMMA PushNone ==
    ASSUME NEW S, NEW list \in Seq(S)
    PROVE  Push(list, {}) = list
<1> DEFINE q == SetToSeq({})
<1>1. q \in Seq({}) /\ ToSet(q) = {}
    BY FS_EmptySet, SetToSeqFacts
<1> HIDE DEF q
<1>2. Len(q) = 0
    BY <1>1
<1>3. list \o q = list
    BY <1>1, <1>2
<1> QED BY <1>3 DEF Push, q

-----------------------------------------------------------------------------
(* What an operation of the index leaves alone.                            *)

\* The sizes of the tiers, the disk writes in flight and the promotions.
SameUse(x, y) ==
    /\ y.numSlots = x.numSlots /\ y.numDiskSlots = x.numDiskSlots
    /\ y.hostBusy = x.hostBusy /\ y.promotions = x.promotions

\* Everything but the trajectories and their order.
SameRest(x, y) ==
    /\ SameUse(x, y) /\ DOMAIN y = DOMAIN x
    /\ y.free = x.free /\ y.diskFree = x.diskFree
    /\ y.pendingWrite = x.pendingWrite /\ y.diskPending = x.diskPending
    /\ y.orphanedPending = x.orphanedPending /\ y.orphanedBusy = x.orphanedBusy
    /\ y.orphanedDisk = x.orphanedDisk /\ y.diskOfHost = x.diskOfHost

\* touch orders the trajectories anew and changes nothing else.
LEMMA TouchKept ==
    ASSUME NEW x, NEW L, NEW M, IndexOK(x, L, M), NEW o \in DOMAIN x.traj
    PROVE  /\ IndexOK(Touch(x, o), L, M)
           /\ SameRest(x, Touch(x, o)) /\ Touch(x, o).traj = x.traj
<1> DEFINE y == Touch(x, o)
           rest == RemoveFirst(x.order, o)
           T == DOMAIN x.traj
<1>1. x.order \in Seq(T) /\ IsInjective(x.order) /\ DOMAIN x = IndexFields
    BY DEF IndexOK, Core, ListsOK
<1>2. SameRest(x, y) /\ y.traj = x.traj /\ y.order = Append(rest, o)
    BY <1>1 DEF Touch, IndexFields, SameRest, SameUse
<1>3. y.order \in Seq(DOMAIN x.traj) /\ IsInjective(y.order)
    <2> HIDE DEF y, T
    <2>1. rest \in Seq(T) /\ IsInjective(rest) /\ ToSet(rest) = ToSet(x.order) \ {o}
        BY <1>1, RemoveFirstFacts
    <2>2. o \in T /\ o \notin Range(rest)
        BY <2>1, RangeIsToSet DEF T
    <2> HIDE DEF rest
    <2>3. Append(rest, o) \in Seq(T) /\ IsInjective(Append(rest, o))
        BY <2>1, <2>2, InjectiveAppend
    <2> QED BY <1>2, <2>3 DEF rest, T
<1> HIDE DEF y
<1> QED BY <1>2, <1>3 DEF SameRest, SameUse, IndexOK, Core, ListsOK, TrajectoriesOK,
             HostParted, HostHeld, DiskParted, DiskHeld, PendingOK, WritesOK, TailOK, y

\* setdefault gives an owner an empty trajectory, if it has none.
LEMMA OpenKept ==
    ASSUME NEW x, IndexOK(x, {}, {}), NEW o
    PROVE  /\ IndexOK(Open(x, o), {}, {}) /\ SameRest(x, Open(x, o))
           /\ DOMAIN Open(x, o).traj = DOMAIN x.traj \cup {o}
           /\ \A p \in DOMAIN x.traj : Open(x, o).traj[p] = x.traj[p]
           /\ o \notin DOMAIN x.traj => Open(x, o).traj[o] = NewTrajectory
<1> DEFINE z == [x EXCEPT !.traj = IF o \in DOMAIN @ THEN @ ELSE Put(@, o, NewTrajectory)]
           t == NewTrajectory
<1>1. DOMAIN x = IndexFields
    BY DEF IndexOK, Core, ListsOK
<1>2. /\ SameRest(x, z) /\ z.order = x.order
      /\ DOMAIN z.traj = DOMAIN x.traj \cup {o}
      /\ \A p \in DOMAIN x.traj : z.traj[p] = x.traj[p]
      /\ o \notin DOMAIN x.traj => z.traj[o] = t
    BY <1>1 DEF IndexFields, SameRest, SameUse, Put
<1>3. IndexOK(z, {}, {})
    <2>1. CASE o \in DOMAIN x.traj
        <3>1. z.traj = x.traj
            BY <1>1, <2>1 DEF IndexFields
        <3> HIDE DEF z
        <3> QED BY <1>2, <3>1 DEF SameRest, SameUse, IndexOK, Core, ListsOK, TrajectoriesOK,
             HostParted, HostHeld, DiskParted, DiskHeld, PendingOK, WritesOK, TailOK
    <2>2. CASE o \notin DOMAIN x.traj
        <3>1. /\ HostSlots(t) = {} /\ DiskSlots(t) = {} /\ t.tail = None
              /\ \A h \in Nat, d \in Nat : TrajectoryOK(t, h, d)
            <4>1. /\ DOMAIN t = TrajectoryFields /\ t.hashes = <<>> /\ t.attn = <<>>
                  /\ t.diskAttn = <<>> /\ t.tail = None /\ t.diskTail = None
                  /\ t.tailPending = FALSE /\ t.boundary = 0
                BY DEF NewTrajectory, TrajectoryFields
            <4> HIDE DEF t
            <4>2. Len(<<>>) = 0 /\ DOMAIN <<>> = {} /\ 1 .. 0 = {}
                OBVIOUS
            <4>3. HostSlots(t) = {} /\ DiskSlots(t) = {}
                BY <4>1, <4>2, HeldSlots
            <4>4. ASSUME NEW h \in Nat, NEW d \in Nat PROVE TrajectoryOK(t, h, d)
                <5>1. t.attn \in [1 .. 0 -> 0 .. h] /\ t.diskAttn \in [1 .. 0 -> 0 .. d]
                    BY <4>1, <4>2
                <5>2. Once(t.attn, t.tail) /\ Once(t.diskAttn, t.diskTail)
                    BY <4>1, <4>2 DEF Once
                <5>3. Len(t.hashes) = 0 /\ DOMAIN t.hashes = 1 .. 0
                    BY <4>1, <4>2
                <5>4. t.tail \in 0 .. h /\ t.diskTail \in 0 .. d
                    BY <4>1 DEF None
                <5>5. 0 \in Nat /\ t.boundary \in Nat
                    BY <4>1
                <5>6. t.tailPending \in BOOLEAN
                    BY Zenon, <4>1
                <5> QED BY Zenon, <4>1, <5>1, <5>2, <5>3, <5>4, <5>5, <5>6 DEF TrajectoryOK
            <4> QED BY <4>1, <4>3, <4>4
        <3> HIDE DEF z, t
        <3>2. ListsOK(z)
            <4>1. z.order \in Seq(DOMAIN z.traj)
                <5>1. x.order \in Seq(DOMAIN x.traj) /\ DOMAIN x.traj \subseteq DOMAIN z.traj
                    BY <1>2 DEF IndexOK, Core, ListsOK
                <5>2. /\ x.order \in [1 .. Len(x.order) -> DOMAIN x.traj]
                      /\ Len(x.order) \in Nat
                    BY <5>1
                <5>3. x.order \in [1 .. Len(x.order) -> DOMAIN z.traj]
                    BY <5>1, <5>2
                <5> QED BY <1>2, <5>2, <5>3
            <4> QED BY <1>2, <4>1 DEF SameRest, SameUse, IndexOK, Core, ListsOK
        <3>3. TrajectoriesOK(z)
            BY <1>2, <2>2, <3>1 DEF SameRest, SameUse, IndexOK, Core, ListsOK, TrajectoriesOK
        <3>4. HostParted(z, {})
            <4>1. /\ \A p \in DOMAIN HostHeld(x) : HostHeld(z)[p] = HostHeld(x)[p]
                  /\ DOMAIN HostHeld(x) = DOMAIN x.traj /\ HostHeld(z)[o] = {}
                  /\ DOMAIN HostHeld(z) = DOMAIN x.traj \cup {o}
                BY <1>2, <2>2, <3>1 DEF HostHeld
            <4> QED BY <1>2, <2>2, <4>1 DEF HostParted, Parted, IndexOK, Core, SameRest, SameUse
        <3>5. DiskParted(z, {})
            <4>1. /\ \A p \in DOMAIN DiskHeld(x) : DiskHeld(z)[p] = DiskHeld(x)[p]
                  /\ DOMAIN DiskHeld(x) = DOMAIN x.traj /\ DiskHeld(z)[o] = {}
                  /\ DOMAIN DiskHeld(z) = DOMAIN x.traj \cup {o}
                BY <1>2, <2>2, <3>1 DEF DiskHeld
            <4> QED BY <1>2, <2>2, <4>1 DEF DiskParted, Parted, IndexOK, Core, SameRest, SameUse
        <3>6. PendingOK(z, {}, {}) /\ WritesOK(z)
            BY <1>2 DEF PendingOK, WritesOK, IndexOK, Core, SameRest, SameUse
        <3>7. \A p \in DOMAIN z.traj : TailOK(z, p)
            BY <1>2, <2>2, <3>1 DEF TailOK, IndexOK, SameRest, SameUse
        <3> QED BY <3>2, <3>3, <3>4, <3>5, <3>6, <3>7 DEF IndexOK, Core
    <2> QED BY <2>1, <2>2
<1>4. Open(x, o) = Touch(z, o) /\ o \in DOMAIN z.traj
    BY <1>2 DEF Open
<1> HIDE DEF z, t
<1>5. IndexOK(Touch(z, o), {}, {}) /\ SameRest(z, Touch(z, o)) /\ Touch(z, o).traj = z.traj
    BY <1>3, <1>4, TouchKept
<1> QED BY <1>2, <1>4, <1>5 DEF SameRest, SameUse, t

-----------------------------------------------------------------------------
(* Slots that move between one trajectory, the free lists and the orphans. *)

HostOf(x, o) == IF o \in DOMAIN x.traj THEN HostSlots(x.traj[o]) ELSE {}
DiskOf(x, o) == IF o \in DOMAIN x.traj THEN DiskSlots(x.traj[o]) ELSE {}
PairedIn(x, o, s, d) == o \in DOMAIN x.traj /\ Paired(x.traj[o], s, d)

\* All trajectories but o's are as before.
OthersSame(x, y, o) ==
    /\ \A p : p # o => (p \in DOMAIN y.traj <=> p \in DOMAIN x.traj)
    /\ \A p \in DOMAIN x.traj : p # o => y.traj[p] = x.traj[p]

HostMoved(x, L, y, L2, o) ==
    LET F == ToSet(x.free)
        F2 == ToSet(y.free)
        O == x.orphanedPending \cup x.orphanedBusy
        O2 == y.orphanedPending \cup y.orphanedBusy
        H == HostOf(x, o)
        H2 == HostOf(y, o)
    IN  /\ SlotsMoved(F, O, L, H, F2, O2, L2, H2)
        /\ \A s \in x.pendingWrite \ y.pendingWrite : s \in F \cup O \cup L \cup H

DiskMoved(x, M, y, M2, o) ==
    LET F == ToSet(x.diskFree)
        F2 == ToSet(y.diskFree)
        H == DiskOf(x, o)
        H2 == DiskOf(y, o)
    IN  /\ SlotsMoved(F, x.orphanedDisk, M, H, F2, y.orphanedDisk, M2, H2)
        /\ \A d \in x.diskPending \ y.diskPending : d \in F \cup x.orphanedDisk \cup M \cup H

\* The disk writes of o's blocks stay with the blocks, or with the orphans.
WritesMoved(x, y, o) ==
    /\ x.orphanedBusy \subseteq y.orphanedBusy
    /\ x.orphanedDisk \subseteq y.orphanedDisk /\ x.orphanedDisk \subseteq y.diskPending
    /\ \A s \in DOMAIN x.hostBusy :
          PairedIn(x, o, s, x.hostBusy[s]) =>
             /\ x.hostBusy[s] \in y.diskPending
             /\ \/ PairedIn(y, o, s, x.hostBusy[s])
                \/ s \in y.orphanedBusy /\ x.hostBusy[s] \in y.orphanedDisk
    /\ \A s \in DOMAIN y.diskOfHost :
          \/ /\ s \in DOMAIN x.diskOfHost /\ y.diskOfHost[s] = x.diskOfHost[s]
             /\ PairedIn(x, o, s, x.diskOfHost[s]) =>
                   PairedIn(y, o, s, x.diskOfHost[s]) /\ x.diskOfHost[s] \in y.diskPending
          \/ /\ s # None /\ s \notin DOMAIN x.hostBusy
             /\ y.diskOfHost[s] \in y.diskPending /\ PairedIn(y, o, s, y.diskOfHost[s])

\* A trajectory's own slots are nowhere else.
LEMMA HeldApart ==
    ASSUME NEW x, NEW L, NEW M, Core(x, L, M), NEW p \in DOMAIN x.traj, NEW o, o # p
    PROVE  /\ HostSlots(x.traj[p]) \cap (ToSet(x.free) \cup x.orphanedPending
                                         \cup x.orphanedBusy \cup L \cup HostOf(x, o)) = {}
           /\ DiskSlots(x.traj[p]) \cap (ToSet(x.diskFree) \cup x.orphanedDisk
                                         \cup M \cup DiskOf(x, o)) = {}
<1>1. HostHeld(x)[p] = HostSlots(x.traj[p]) /\ DiskHeld(x)[p] = DiskSlots(x.traj[p])
    BY DEF HostHeld, DiskHeld
<1>2. o \in DOMAIN x.traj => HostHeld(x)[o] = HostOf(x, o) /\ DiskHeld(x)[o] = DiskOf(x, o)
    BY DEF HostHeld, DiskHeld, HostOf, DiskOf
<1>3. DOMAIN HostHeld(x) = DOMAIN x.traj /\ DOMAIN DiskHeld(x) = DOMAIN x.traj
    BY DEF HostHeld, DiskHeld
<1>4. o \notin DOMAIN x.traj => HostOf(x, o) = {} /\ DiskOf(x, o) = {}
    BY DEF HostOf, DiskOf
<1>5. HostParted(x, L) /\ DiskParted(x, M)
    BY DEF Core
<1>6. HostSlots(x.traj[p]) \cap (ToSet(x.free) \cup x.orphanedPending
                                 \cup x.orphanedBusy \cup L) = {}
    BY <1>1, <1>3, <1>5 DEF HostParted, Parted
<1>7. DiskSlots(x.traj[p]) \cap (ToSet(x.diskFree) \cup x.orphanedDisk \cup M) = {}
    BY <1>1, <1>3, <1>5 DEF DiskParted, Parted
<1>8. HostSlots(x.traj[p]) \cap HostOf(x, o) = {}
    BY <1>1, <1>2, <1>3, <1>4, <1>5 DEF HostParted, Parted
<1>9. DiskSlots(x.traj[p]) \cap DiskOf(x, o) = {}
    BY <1>1, <1>2, <1>3, <1>4, <1>5 DEF DiskParted, Parted
<1> QED BY <1>6, <1>7, <1>8, <1>9

\* If o's own slots add up and its writes are taken care of, the index is kept.
LEMMA MoveKept ==
    ASSUME NEW x, NEW L, NEW M, Core(x, L, M), NEW y, NEW L2, NEW M2, NEW o,
           SameUse(x, y), OthersSame(x, y, o),
           ListsOK(y), PendingOK(y, L2, M2),
           o \in DOMAIN y.traj => TrajectoryOK(y.traj[o], y.numSlots, y.numDiskSlots),
           HostMoved(x, L, y, L2, o), DiskMoved(x, M, y, M2, o), WritesMoved(x, y, o)
    PROVE  /\ Core(y, L2, M2)
           /\ \A p \in DOMAIN x.traj : p # o /\ TailOK(x, p) => TailOK(y, p)
<1>1. TrajectoriesOK(y)
    BY DEF Core, TrajectoriesOK, OthersSame, SameUse
<1>2. HostParted(y, L2)
    <2>1. HostParted(x, L)
        BY DEF Core
    <2>2. HeldMoved(HostHeld(x), HostHeld(y), o, HostOf(x, o), HostOf(y, o))
        BY DEF HostHeld, HostOf, OthersSame, HeldMoved
    <2>3. 1 .. y.numSlots = 1 .. x.numSlots
        BY DEF SameUse
    <2> QED BY <2>1, <2>2, <2>3, PartedMove DEF HostMoved, HostParted
<1>3. DiskParted(y, M2)
    <2>1. DiskParted(x, M)
        BY DEF Core
    <2>2. HeldMoved(DiskHeld(x), DiskHeld(y), o, DiskOf(x, o), DiskOf(y, o))
        BY DEF DiskHeld, DiskOf, OthersSame, HeldMoved
    <2>3. 1 .. y.numDiskSlots = 1 .. x.numDiskSlots
        BY DEF SameUse
    <2> QED BY <2>1, <2>2, <2>3, PartedMove DEF DiskMoved, DiskParted
<1>4. ASSUME NEW p \in DOMAIN x.traj, p # o, NEW s, NEW d, Paired(x.traj[p], s, d),
             d \in x.diskPending
      PROVE  d \in y.diskPending /\ PairedIn(y, p, s, d)
    <2>1. PairedIn(y, p, s, d)
        BY <1>4 DEF OthersSame, PairedIn
    <2>2. TrajectoryOK(x.traj[p], x.numSlots, x.numDiskSlots) /\ d # None
        BY <1>4 DEF Core, TrajectoriesOK, PendingOK, None, ListsOK
    <2>3. d \in DiskSlots(x.traj[p])
        BY <1>4, <2>2, PairedHeld
    <2>4. d \notin ToSet(x.diskFree) \cup x.orphanedDisk \cup M \cup DiskOf(x, o)
        BY <1>4, <2>3, HeldApart
    <2> QED BY <2>1, <2>4, <1>4 DEF DiskMoved
<1>5. WritesOK(y)
    <2>1. ASSUME NEW s \in DOMAIN y.hostBusy
          PROVE  /\ s # None /\ y.hostBusy[s] \in y.diskPending
                 /\ \/ s \in y.orphanedBusy /\ y.hostBusy[s] \in y.orphanedDisk
                    \/ \E p \in DOMAIN y.traj : Paired(y.traj[p], s, y.hostBusy[s])
        <3>1. s \in DOMAIN x.hostBusy /\ y.hostBusy[s] = x.hostBusy[s]
            BY <2>1 DEF SameUse
        <3>2. /\ s # None /\ x.hostBusy[s] \in x.diskPending
              /\ \/ s \in x.orphanedBusy /\ x.hostBusy[s] \in x.orphanedDisk
                 \/ \E p \in DOMAIN x.traj : Paired(x.traj[p], s, x.hostBusy[s])
            BY <3>1 DEF Core, WritesOK
        <3>3. CASE s \in x.orphanedBusy /\ x.hostBusy[s] \in x.orphanedDisk
            BY <3>1, <3>2, <3>3 DEF WritesMoved
        <3>4. ASSUME NEW p \in DOMAIN x.traj, Paired(x.traj[p], s, x.hostBusy[s])
              PROVE  /\ x.hostBusy[s] \in y.diskPending
                     /\ \/ s \in y.orphanedBusy /\ x.hostBusy[s] \in y.orphanedDisk
                        \/ \E q \in DOMAIN y.traj : Paired(y.traj[q], s, x.hostBusy[s])
            <4>1. CASE p = o
                BY <3>1, <3>4, <4>1 DEF WritesMoved, PairedIn
            <4>2. CASE p # o
                BY <1>4, <3>2, <3>4, <4>2 DEF PairedIn
            <4> QED BY <4>1, <4>2
        <3> QED BY <3>1, <3>2, <3>3, <3>4
    <2>2. ASSUME NEW s \in DOMAIN y.diskOfHost
          PROVE  /\ s # None /\ s \notin DOMAIN y.hostBusy
                 /\ y.diskOfHost[s] \in y.diskPending
                 /\ \E p \in DOMAIN y.traj : Paired(y.traj[p], s, y.diskOfHost[s])
        <3>1. CASE /\ s # None /\ s \notin DOMAIN x.hostBusy
                   /\ y.diskOfHost[s] \in y.diskPending /\ PairedIn(y, o, s, y.diskOfHost[s])
            BY <3>1 DEF PairedIn, SameUse
        <3>2. CASE /\ s \in DOMAIN x.diskOfHost /\ y.diskOfHost[s] = x.diskOfHost[s]
                   /\ PairedIn(x, o, s, x.diskOfHost[s]) =>
                         PairedIn(y, o, s, x.diskOfHost[s]) /\ x.diskOfHost[s] \in y.diskPending
            <4>1. /\ s # None /\ s \notin DOMAIN y.hostBusy
                  /\ x.diskOfHost[s] \in x.diskPending
                BY <3>2 DEF Core, WritesOK, SameUse
            <4>2. PICK p \in DOMAIN x.traj : Paired(x.traj[p], s, x.diskOfHost[s])
                BY <3>2 DEF Core, WritesOK
            <4>3. CASE p = o
                BY <3>2, <4>1, <4>2, <4>3 DEF PairedIn
            <4>4. CASE p # o
                BY <1>4, <3>2, <4>1, <4>2, <4>4 DEF PairedIn
            <4> QED BY <4>3, <4>4
        <3> QED BY <2>2, <3>1, <3>2 DEF WritesMoved
    <2> QED BY <2>1, <2>2 DEF WritesOK, Core, SameUse
<1>6. ASSUME NEW p \in DOMAIN x.traj, p # o, TailOK(x, p) PROVE TailOK(y, p)
    <2> DEFINE t == x.traj[p]
    <2>1. y.traj[p] = t
        BY <1>6 DEF OthersSame
    <2>2. /\ t.tail # None => t.tail \in HostSlots(t)
          /\ t.diskTail # None => t.diskTail \in DiskSlots(t)
        BY HeldSlots
    <2>3. /\ HostSlots(t) \cap (ToSet(x.free) \cup x.orphanedPending
                                \cup x.orphanedBusy \cup L \cup HostOf(x, o)) = {}
          /\ DiskSlots(t) \cap (ToSet(x.diskFree) \cup x.orphanedDisk
                                \cup M \cup DiskOf(x, o)) = {}
        BY <1>6, HeldApart
    <2> HIDE DEF t
    <2>4. t.tail # None /\ t.tail \in x.pendingWrite => t.tail \in y.pendingWrite
        BY <2>2, <2>3 DEF HostMoved
    <2>5. t.diskTail # None /\ t.diskTail \in x.diskPending => t.diskTail \in y.diskPending
        BY <2>2, <2>3 DEF DiskMoved
    <2> QED BY <1>6, <2>1, <2>4, <2>5 DEF TailOK, SameUse, t
<1> QED BY <1>1, <1>2, <1>3, <1>5, <1>6 DEF Core

\* The same, the conditions as one.
Move(x, L, M, y, L2, M2, o) ==
    /\ SameUse(x, y) /\ OthersSame(x, y, o)
    /\ ListsOK(y) /\ PendingOK(y, L2, M2)
    /\ o \in DOMAIN y.traj => TrajectoryOK(y.traj[o], y.numSlots, y.numDiskSlots)
    /\ HostMoved(x, L, y, L2, o) /\ DiskMoved(x, M, y, M2, o) /\ WritesMoved(x, y, o)

LEMMA MovedKept ==
    ASSUME NEW x, NEW L, NEW M, Core(x, L, M), NEW y, NEW L2, NEW M2, NEW o,
           Move(x, L, M, y, L2, M2, o)
    PROVE  /\ Core(y, L2, M2)
           /\ \A p \in DOMAIN x.traj : p # o /\ TailOK(x, p) => TailOK(y, p)
BY MoveKept DEF Move

\* Nor are o's own.
LEMMA OwnApart ==
    ASSUME NEW x, NEW L, NEW M, Core(x, L, M), NEW o \in DOMAIN x.traj
    PROVE  /\ HostSlots(x.traj[o]) \cap (ToSet(x.free) \cup x.orphanedPending
                                         \cup x.orphanedBusy \cup L) = {}
           /\ DiskSlots(x.traj[o]) \cap (ToSet(x.diskFree) \cup x.orphanedDisk \cup M) = {}
<1>1. o # <<o>> \/ o # <<>>
    OBVIOUS
<1>2. \E p : p # o
    BY <1>1
<1> QED BY <1>2, HeldApart

\* An order without one of its members.
LEMMA RemovedOrder ==
    ASSUME NEW S, NEW s \in Seq(S), IsInjective(s), NEW o
    PROVE  RemoveFirst(s, o) \in Seq(S \ {o}) /\ IsInjective(RemoveFirst(s, o))
<1> DEFINE q == RemoveFirst(s, o)
<1>1. q \in Seq(S) /\ IsInjective(q) /\ ToSet(q) = ToSet(s) \ {o}
    BY RemoveFirstFacts
<1> HIDE DEF q
<1>2. q \in [1 .. Len(q) -> S] /\ Len(q) \in Nat
    BY <1>1
<1>3. \A i \in 1 .. Len(q) : q[i] # o
    BY <1>1, <1>2 DEF ToSet
<1>4. q \in [1 .. Len(q) -> S \ {o}]
    BY <1>2, <1>3
<1> QED BY <1>1, <1>2, <1>4 DEF q

-----------------------------------------------------------------------------
(* Reclamation.                                                            *)

LEMMA PushedHost ==
    ASSUME NEW x, ListsOK(x), NEW S, S \subseteq 1 .. x.numSlots, ToSet(x.free) \cap S = {}
    PROVE  /\ Push(x.free, S) \in Seq(1 .. x.numSlots) /\ IsInjective(Push(x.free, S))
           /\ ToSet(Push(x.free, S)) = ToSet(x.free) \cup S
<1>1. x.numSlots \in Nat /\ x.free \in Seq(1 .. x.numSlots) /\ IsInjective(x.free)
    BY DEF ListsOK
<1>2. S \cap ToSet(x.free) = {}
    OBVIOUS
<1> QED BY Zenon, <1>1, <1>2, PushFacts

LEMMA PushedDisk ==
    ASSUME NEW x, ListsOK(x), NEW S, S \subseteq 1 .. x.numDiskSlots,
           ToSet(x.diskFree) \cap S = {}
    PROVE  /\ Push(x.diskFree, S) \in Seq(1 .. x.numDiskSlots) /\ IsInjective(Push(x.diskFree, S))
           /\ ToSet(Push(x.diskFree, S)) = ToSet(x.diskFree) \cup S
<1>1. x.numDiskSlots \in Nat /\ x.diskFree \in Seq(1 .. x.numDiskSlots) /\ IsInjective(x.diskFree)
    BY DEF ListsOK
<1>2. S \cap ToSet(x.diskFree) = {}
    OBVIOUS
<1> QED BY Zenon, <1>1, <1>2, PushFacts

\* What giving up a trajectory leaves alone.
Reclaimed(x, y, o) ==
    /\ IndexOK(y, {}, {}) /\ SameUse(x, y) /\ OthersSame(x, y, o)
    /\ y.pendingWrite = x.pendingWrite
    /\ DOMAIN y.diskOfHost \subseteq DOMAIN x.diskOfHost

\* _delete of a trajectory whose host slots nobody writes or reads.
LEMMA DeleteKept ==
    ASSUME NEW x, IndexOK(x, {}, {}), NEW o \in DOMAIN x.traj,
           HostSlots(x.traj[o]) \cap (x.pendingWrite \cup DOMAIN x.hostBusy) = {}
    PROVE  Reclaimed(x, Delete(x, o), o)
<1> DEFINE y == Delete(x, o)
           t == x.traj[o]
           H == HostSlots(t)
           D == DiskSlots(t)
<1>1. /\ Core(x, {}, {}) /\ ListsOK(x) /\ DOMAIN x = IndexFields
      /\ x.numSlots \in Nat /\ x.numDiskSlots \in Nat
      /\ TrajectoryOK(t, x.numSlots, x.numDiskSlots) /\ PendingOK(x, {}, {}) /\ WritesOK(x)
    BY DEF IndexOK, Core, ListsOK, TrajectoriesOK
<1>2. /\ SameUse(x, y) /\ DOMAIN y = IndexFields
      /\ y.free = Push(x.free, H) /\ y.diskFree = Push(x.diskFree, D)
      /\ y.order = RemoveFirst(x.order, o) /\ y.traj = Drop(x.traj, {o})
      /\ y.pendingWrite = x.pendingWrite \ H /\ y.diskPending = x.diskPending \ D
      /\ y.diskOfHost = Drop(x.diskOfHost, H)
      /\ y.orphanedPending = x.orphanedPending /\ y.orphanedBusy = x.orphanedBusy
      /\ y.orphanedDisk = x.orphanedDisk
    BY <1>1 DEF Delete, FreeDisk, IndexFields, SameUse
<1>3. OthersSame(x, y, o) /\ o \notin DOMAIN y.traj
    BY <1>2 DEF OthersSame, Drop
<1>4. y.pendingWrite = x.pendingWrite /\ DOMAIN y.diskOfHost \subseteq DOMAIN x.diskOfHost
    BY <1>2 DEF Drop
<1>5. /\ H \cap (ToSet(x.free) \cup x.orphanedPending \cup x.orphanedBusy) = {}
      /\ D \cap (ToSet(x.diskFree) \cup x.orphanedDisk) = {}
      /\ H \subseteq 1 .. x.numSlots /\ D \subseteq 1 .. x.numDiskSlots
    BY <1>1, OwnApart, HeldInTier
<1>6. /\ y.free \in Seq(1 .. y.numSlots) /\ IsInjective(y.free)
      /\ ToSet(y.free) = ToSet(x.free) \cup H
      /\ y.diskFree \in Seq(1 .. y.numDiskSlots) /\ IsInjective(y.diskFree)
      /\ ToSet(y.diskFree) = ToSet(x.diskFree) \cup D
    <2> HIDE DEF y, H, D
    <2>1. ToSet(x.free) \cap H = {} /\ ToSet(x.diskFree) \cap D = {}
        BY <1>5
    <2>2. /\ Push(x.free, H) \in Seq(1 .. x.numSlots) /\ IsInjective(Push(x.free, H))
          /\ ToSet(Push(x.free, H)) = ToSet(x.free) \cup H
        BY <1>1, <1>5, <2>1, PushedHost
    <2>3. /\ Push(x.diskFree, D) \in Seq(1 .. x.numDiskSlots) /\ IsInjective(Push(x.diskFree, D))
          /\ ToSet(Push(x.diskFree, D)) = ToSet(x.diskFree) \cup D
        BY <1>1, <1>5, <2>1, PushedDisk
    <2> QED BY <1>2, <2>2, <2>3 DEF SameUse
<1> HIDE DEF y
<1>7. ListsOK(y)
    <2>1. y.order \in Seq(DOMAIN y.traj) /\ IsInjective(y.order)
        <3>1. DOMAIN y.traj = DOMAIN x.traj \ {o}
            BY <1>2 DEF Drop
        <3>2. x.order \in Seq(DOMAIN x.traj) /\ IsInjective(x.order)
            BY <1>1 DEF ListsOK
        <3>3. /\ RemoveFirst(x.order, o) \in Seq(DOMAIN x.traj \ {o})
              /\ IsInjective(RemoveFirst(x.order, o))
            BY Zenon, <3>2, RemovedOrder
        <3> QED BY Zenon, <1>2, <3>1, <3>3
    <2> QED BY <1>1, <1>2, <1>6, <2>1 DEF ListsOK, SameUse
<1>8. PendingOK(y, {}, {})
    BY <1>1, <1>2, <1>4, <1>5, <1>6 DEF PendingOK, SameUse
<1>9. HostMoved(x, {}, y, {}, o) /\ DiskMoved(x, {}, y, {}, o)
    <2>1. HostOf(x, o) = H /\ HostOf(y, o) = {} /\ DiskOf(x, o) = D /\ DiskOf(y, o) = {}
        BY <1>3 DEF HostOf, DiskOf
    <2> HIDE DEF H, D
    <2>2. HostMoved(x, {}, y, {}, o)
        BY <1>1, <1>2, <1>4, <1>5, <1>6, <2>1 DEF HostMoved, SlotsMoved, PendingOK
    <2>3. DiskMoved(x, {}, y, {}, o)
        BY <1>1, <1>2, <1>5, <1>6, <2>1 DEF DiskMoved, SlotsMoved, PendingOK
    <2> QED BY <2>2, <2>3
<1>10. WritesMoved(x, y, o)
    <2>1. ASSUME NEW s, NEW d, Paired(t, s, d), s # None
          PROVE  s \in H
        BY <1>1, <2>1, PairedHeld
    <2>2. ASSUME NEW s \in DOMAIN x.hostBusy PROVE ~PairedIn(x, o, s, x.hostBusy[s])
        <3>1. s # None /\ s \notin H
            BY <1>1, <2>2 DEF WritesOK
        <3> QED BY <2>1, <3>1 DEF PairedIn
    <2>3. ASSUME NEW s \in DOMAIN y.diskOfHost
          PROVE  /\ s \in DOMAIN x.diskOfHost /\ y.diskOfHost[s] = x.diskOfHost[s]
                 /\ ~PairedIn(x, o, s, x.diskOfHost[s])
        <3>1. s \in DOMAIN x.diskOfHost /\ y.diskOfHost[s] = x.diskOfHost[s] /\ s \notin H
            BY <1>2, <2>3 DEF Drop
        <3>2. s # None
            BY <1>1, <3>1 DEF WritesOK
        <3> QED BY <2>1, <3>1, <3>2 DEF PairedIn
    <2>4. x.orphanedDisk \subseteq y.diskPending
        BY <1>1, <1>2, <1>5 DEF PendingOK
    <2> QED BY <1>2, <2>2, <2>3, <2>4 DEF WritesMoved
<1>11. Core(y, {}, {}) /\ \A p \in DOMAIN x.traj : p # o /\ TailOK(x, p) => TailOK(y, p)
    BY <1>1, <1>2, <1>3, <1>7, <1>8, <1>9, <1>10, MoveKept
<1>12. \A p \in DOMAIN y.traj : TailOK(y, p)
    BY <1>3, <1>11 DEF IndexOK, OthersSame
<1> QED BY <1>2, <1>3, <1>4, <1>11, <1>12 DEF Reclaimed, IndexOK, y

\* Disk writes of blocks that o does not hold are none of its own.
LEMMA NotPaired ==
    ASSUME NEW x, NEW o, o \in DOMAIN x.traj => TrajectoryOK(x.traj[o], x.numSlots, x.numDiskSlots),
           NEW s, NEW d, s # None, s \notin HostOf(x, o)
    PROVE  ~PairedIn(x, o, s, d)
BY PairedHeld DEF HostOf, PairedIn

\* The same, by the disk slot.
LEMMA NotPairedDisk ==
    ASSUME NEW x, NEW o, o \in DOMAIN x.traj => TrajectoryOK(x.traj[o], x.numSlots, x.numDiskSlots),
           NEW s, NEW d, d # None, d \notin DiskOf(x, o)
    PROVE  ~PairedIn(x, o, s, d)
BY PairedHeld DEF DiskOf, PairedIn

\* demote: the host slots of a trajectory that nobody writes or reads.
LEMMA DemoteKept ==
    ASSUME NEW x, IndexOK(x, {}, {}), NEW o \in DOMAIN x.traj,
           HostSlots(x.traj[o]) \cap (x.pendingWrite \cup DOMAIN x.hostBusy) = {}
    PROVE  Reclaimed(x, Demote(x, o), o)
<1> DEFINE y == Demote(x, o)
           t == x.traj[o]
           u == y.traj[o]
           H == HostSlots(t)
<1>1. /\ Core(x, {}, {}) /\ ListsOK(x) /\ DOMAIN x = IndexFields
      /\ x.numSlots \in Nat /\ x.numDiskSlots \in Nat
      /\ TrajectoryOK(t, x.numSlots, x.numDiskSlots) /\ PendingOK(x, {}, {}) /\ WritesOK(x)
    BY DEF IndexOK, Core, ListsOK, TrajectoriesOK
<1>2. /\ SameUse(x, y) /\ DOMAIN y = IndexFields
      /\ y.free = Push(x.free, H) /\ y.diskFree = x.diskFree
      /\ y.order = x.order /\ DOMAIN y.traj = DOMAIN x.traj
      /\ y.pendingWrite = x.pendingWrite /\ y.diskPending = x.diskPending
      /\ y.diskOfHost = Drop(x.diskOfHost, H)
      /\ y.orphanedPending = x.orphanedPending /\ y.orphanedBusy = x.orphanedBusy
      /\ y.orphanedDisk = x.orphanedDisk
      /\ \A p \in DOMAIN x.traj : p # o => y.traj[p] = x.traj[p]
    BY <1>1 DEF Demote, IndexFields, SameUse
<1>3. /\ DOMAIN u = TrajectoryFields /\ u.hashes = t.hashes
      /\ u.attn = [i \in 1 .. Len(t.attn) |-> None] /\ u.tail = None
      /\ u.diskAttn = t.diskAttn /\ u.diskTail = t.diskTail
      /\ u.tailPending = FALSE /\ u.boundary = t.boundary
    BY SMTT(30), <1>1 DEF Demote, IndexFields, TrajectoryOK, TrajectoryFields
<1> HIDE DEF y, t, u, H
<1>4. OthersSame(x, y, o) /\ DOMAIN y.diskOfHost \subseteq DOMAIN x.diskOfHost
    BY <1>2 DEF OthersSame, Drop
<1>5. H \cap (ToSet(x.free) \cup x.orphanedPending \cup x.orphanedBusy) = {}
      /\ H \subseteq 1 .. x.numSlots
    BY <1>1, OwnApart, HeldInTier DEF H, t
<1>6. TrajectoryOK(u, x.numSlots, x.numDiskSlots)
    <2>1. Len(t.attn) = Len(t.hashes)
        BY <1>1 DEF TrajectoryOK
    <2>2. u.attn \in [1 .. Len(u.hashes) -> 0 .. x.numSlots] /\ u.tail \in 0 .. x.numSlots
        BY <1>1, <1>3, <2>1 DEF None
    <2>3. Once(u.attn, u.tail)
        BY <1>3 DEF Once
    <2>4. u.tailPending \in BOOLEAN
        BY Zenon, <1>3
    <2> QED BY <1>1, <1>3, <2>2, <2>3, <2>4 DEF TrajectoryOK
<1>7. /\ HostOf(x, o) = H /\ HostOf(y, o) = {} /\ DiskOf(y, o) = DiskOf(x, o)
    <2>1. \A s : s \notin HostSlots(u)
        BY <1>3, HeldSlots
    <2>2. DiskSlots(u) = DiskSlots(t)
        BY <1>3 DEF DiskSlots
    <2> QED BY <1>2, <2>1, <2>2 DEF HostOf, DiskOf, u, t, H
<1>8. /\ y.free \in Seq(1 .. y.numSlots) /\ IsInjective(y.free)
      /\ ToSet(y.free) = ToSet(x.free) \cup H
    <2>1. ToSet(x.free) \cap H = {}
        BY <1>5
    <2>2. /\ Push(x.free, H) \in Seq(1 .. x.numSlots) /\ IsInjective(Push(x.free, H))
          /\ ToSet(Push(x.free, H)) = ToSet(x.free) \cup H
        BY <1>1, <1>5, <2>1, PushedHost
    <2> QED BY <1>2, <2>2 DEF SameUse
<1>9. ListsOK(y)
    BY <1>1, <1>2, <1>8 DEF ListsOK, SameUse
<1>10. PendingOK(y, {}, {})
    BY <1>1, <1>2, <1>5, <1>8 DEF PendingOK, SameUse, H, t
<1>11. HostMoved(x, {}, y, {}, o)
    BY <1>1, <1>2, <1>5, <1>7, <1>8 DEF HostMoved, SlotsMoved, PendingOK
<1>12. DiskMoved(x, {}, y, {}, o)
    <2>1. DiskOf(x, o) \cap (ToSet(x.diskFree) \cup x.orphanedDisk) = {}
        BY <1>1, OwnApart DEF DiskOf
    <2> QED BY <1>1, <1>2, <1>7, <2>1 DEF DiskMoved, SlotsMoved, PendingOK
<1>13. WritesMoved(x, y, o)
    <2>1. ASSUME NEW s \in DOMAIN x.hostBusy PROVE ~PairedIn(x, o, s, x.hostBusy[s])
        <3>1. s # None /\ s \notin H
            BY <1>1, <2>1 DEF WritesOK, H, t
        <3> QED BY <1>1, <1>7, <3>1, NotPaired DEF t
    <2>2. ASSUME NEW s \in DOMAIN y.diskOfHost
          PROVE  /\ s \in DOMAIN x.diskOfHost /\ y.diskOfHost[s] = x.diskOfHost[s]
                 /\ ~PairedIn(x, o, s, x.diskOfHost[s])
        <3>1. s \in DOMAIN x.diskOfHost /\ y.diskOfHost[s] = x.diskOfHost[s] /\ s \notin H
            BY <1>2, <2>2 DEF Drop
        <3>2. s # None
            BY <1>1, <3>1 DEF WritesOK
        <3> QED BY <1>1, <1>7, <3>1, <3>2, NotPaired DEF t
    <2>3. x.orphanedDisk \subseteq y.diskPending
        BY <1>1, <1>2 DEF PendingOK
    <2> QED BY <1>2, <2>1, <2>2, <2>3 DEF WritesMoved
<1>14. Core(y, {}, {}) /\ \A p \in DOMAIN x.traj : p # o /\ TailOK(x, p) => TailOK(y, p)
    BY <1>1, <1>2, <1>4, <1>6, <1>9, <1>10, <1>11, <1>12, <1>13, MoveKept DEF SameUse, u
<1>15. \A p \in DOMAIN y.traj : TailOK(y, p)
    <2>1. TailOK(y, o)
        BY <1>3 DEF TailOK, u
    <2> QED BY <1>2, <1>14, <2>1 DEF IndexOK
<1> QED BY <1>2, <1>4, <1>14, <1>15 DEF Reclaimed, IndexOK, y

\* _reclaim_disk: the disk slots of a trajectory that nobody writes.
LEMMA DropDiskCopiesKept ==
    ASSUME NEW x, IndexOK(x, {}, {}), NEW o \in DOMAIN x.traj,
           DiskSlots(x.traj[o]) \cap (x.diskPending \cup Range(x.hostBusy)) = {}
    PROVE  Reclaimed(x, DropDiskCopies(x, o), o)
<1> DEFINE y == DropDiskCopies(x, o)
           t == x.traj[o]
           u == y.traj[o]
           D == DiskSlots(t)
           z == FreeDisk(x, D)
           v == [t EXCEPT !.diskAttn = [i \in 1 .. Len(t.diskAttn) |-> None],
                          !.diskTail = None, !.diskBoundary = 0]
<1>1. /\ Core(x, {}, {}) /\ ListsOK(x) /\ DOMAIN x = IndexFields
      /\ x.numSlots \in Nat /\ x.numDiskSlots \in Nat
      /\ TrajectoryOK(t, x.numSlots, x.numDiskSlots) /\ PendingOK(x, {}, {}) /\ WritesOK(x)
    BY DEF IndexOK, Core, ListsOK, TrajectoriesOK
<1>a. /\ SameUse(x, z) /\ DOMAIN z = IndexFields
      /\ z.free = x.free /\ z.diskFree = Push(x.diskFree, D)
      /\ z.order = x.order /\ z.traj = x.traj
      /\ z.pendingWrite = x.pendingWrite /\ z.diskPending = x.diskPending \ D
      /\ z.diskOfHost = x.diskOfHost /\ z.orphanedPending = x.orphanedPending
      /\ z.orphanedBusy = x.orphanedBusy /\ z.orphanedDisk = x.orphanedDisk
    BY <1>1 DEF FreeDisk, IndexFields, SameUse
<1>b. y = [z EXCEPT !.diskOfHost = Drop(@, {s \in DOMAIN @ : @[s] \in D}),
                    !.traj[o] = v]
    BY DEF DropDiskCopies
<1> HIDE DEF v, z
<1>2. /\ SameUse(x, y) /\ DOMAIN y = IndexFields
      /\ y.free = x.free /\ y.diskFree = Push(x.diskFree, D)
      /\ y.order = x.order /\ DOMAIN y.traj = DOMAIN x.traj
      /\ y.pendingWrite = x.pendingWrite /\ y.diskPending = x.diskPending \ D
      /\ y.diskOfHost = Drop(x.diskOfHost, {s \in DOMAIN x.diskOfHost : x.diskOfHost[s] \in D})
      /\ y.orphanedPending = x.orphanedPending /\ y.orphanedBusy = x.orphanedBusy
      /\ y.orphanedDisk = x.orphanedDisk
      /\ \A p \in DOMAIN x.traj : p # o => y.traj[p] = x.traj[p]
    BY <1>a, <1>b DEF IndexFields, SameUse
<1>3. /\ DOMAIN u = TrajectoryFields /\ u.hashes = t.hashes
      /\ u.attn = t.attn /\ u.tail = t.tail
      /\ u.diskAttn = [i \in 1 .. Len(t.diskAttn) |-> None] /\ u.diskTail = None
      /\ u.tailPending = t.tailPending /\ u.boundary = t.boundary
    BY <1>1, <1>a, <1>b DEF IndexFields, v, TrajectoryOK, TrajectoryFields
<1> HIDE DEF y, t, u, D
<1>4. OthersSame(x, y, o) /\ DOMAIN y.diskOfHost \subseteq DOMAIN x.diskOfHost
    BY <1>2 DEF OthersSame, Drop
<1>5. D \cap (ToSet(x.diskFree) \cup x.orphanedDisk) = {} /\ D \subseteq 1 .. x.numDiskSlots
      /\ D \cap x.diskPending = {} /\ y.diskPending = x.diskPending
    BY <1>1, <1>2, OwnApart, HeldInTier DEF D, t
<1>6. TrajectoryOK(u, x.numSlots, x.numDiskSlots)
    <2>1. Len(t.diskAttn) = Len(t.hashes)
        BY <1>1 DEF TrajectoryOK
    <2>2. /\ u.diskAttn \in [1 .. Len(u.hashes) -> 0 .. x.numDiskSlots]
          /\ u.diskTail \in 0 .. x.numDiskSlots
        BY <1>1, <1>3, <2>1 DEF None
    <2>3. Once(u.diskAttn, u.diskTail)
        BY <1>3 DEF Once
    <2> QED BY <1>1, <1>3, <2>2, <2>3 DEF TrajectoryOK
<1>7. /\ DiskOf(x, o) = D /\ DiskOf(y, o) = {} /\ HostOf(y, o) = HostOf(x, o)
    <2>1. \A d : d \notin DiskSlots(u)
        BY <1>3, HeldSlots
    <2>2. HostSlots(u) = HostSlots(t)
        BY <1>3 DEF HostSlots, AttnSlots
    <2> QED BY <1>2, <2>1, <2>2 DEF HostOf, DiskOf, u, t, D
<1>8. /\ y.diskFree \in Seq(1 .. y.numDiskSlots) /\ IsInjective(y.diskFree)
      /\ ToSet(y.diskFree) = ToSet(x.diskFree) \cup D
    <2>1. ToSet(x.diskFree) \cap D = {}
        BY <1>5
    <2>2. /\ Push(x.diskFree, D) \in Seq(1 .. x.numDiskSlots) /\ IsInjective(Push(x.diskFree, D))
          /\ ToSet(Push(x.diskFree, D)) = ToSet(x.diskFree) \cup D
        BY <1>1, <1>5, <2>1, PushedDisk
    <2> QED BY <1>2, <2>2 DEF SameUse
<1>9. ListsOK(y)
    BY <1>1, <1>2, <1>8 DEF ListsOK, SameUse
<1>10. PendingOK(y, {}, {})
    BY <1>1, <1>2, <1>5, <1>8 DEF PendingOK, SameUse
<1>11. DiskMoved(x, {}, y, {}, o)
    BY <1>1, <1>2, <1>5, <1>7, <1>8 DEF DiskMoved, SlotsMoved, PendingOK
<1>12. HostMoved(x, {}, y, {}, o)
    <2>1. HostOf(x, o) \cap (ToSet(x.free) \cup x.orphanedPending \cup x.orphanedBusy) = {}
        BY <1>1, OwnApart DEF HostOf
    <2>2. (x.orphanedPending \cup x.orphanedBusy) \cap ToSet(x.free) = {}
        BY <1>1 DEF PendingOK
    <2> QED BY <1>1, <1>2, <1>7, <2>1, <2>2 DEF HostMoved, SlotsMoved
<1>13. WritesMoved(x, y, o)
    <2>1. ASSUME NEW s, NEW d \in x.diskPending PROVE ~PairedIn(x, o, s, d)
        <3>1. d # None /\ d \notin D
            BY <1>1, <1>5, <2>1 DEF PendingOK, None
        <3> QED BY <1>1, <1>7, <3>1, NotPairedDisk DEF t
    <2>2. ASSUME NEW s \in DOMAIN x.hostBusy PROVE ~PairedIn(x, o, s, x.hostBusy[s])
        BY <1>1, <2>1 DEF WritesOK
    <2>3. ASSUME NEW s \in DOMAIN y.diskOfHost
          PROVE  /\ s \in DOMAIN x.diskOfHost /\ y.diskOfHost[s] = x.diskOfHost[s]
                 /\ ~PairedIn(x, o, s, x.diskOfHost[s])
        <3>1. s \in DOMAIN x.diskOfHost /\ y.diskOfHost[s] = x.diskOfHost[s]
            BY <1>2, <2>3 DEF Drop
        <3>2. x.diskOfHost[s] \in x.diskPending
            BY <1>1, <3>1 DEF WritesOK
        <3> QED BY <2>1, <3>1, <3>2
    <2>4. x.orphanedDisk \subseteq y.diskPending
        BY <1>1, <1>5 DEF PendingOK
    <2> QED BY <1>2, <2>2, <2>3, <2>4 DEF WritesMoved
<1>14. Core(y, {}, {}) /\ \A p \in DOMAIN x.traj : p # o /\ TailOK(x, p) => TailOK(y, p)
    BY <1>1, <1>2, <1>4, <1>6, <1>9, <1>10, <1>11, <1>12, <1>13, MoveKept DEF SameUse, u
<1>15. \A p \in DOMAIN y.traj : TailOK(y, p)
    <2>1. TailOK(y, o)
        BY <1>2, <1>3 DEF TailOK, IndexOK, u, t
    <2> QED BY <1>2, <1>14, <2>1 DEF IndexOK
<1> QED BY <1>2, <1>4, <1>14, <1>15 DEF Reclaimed, IndexOK, y

\* The least of a set of positions is one of them.
LEMMA MinIn ==
    ASSUME NEW n \in Nat, NEW I, I \subseteq 1 .. n, I # {}
    PROVE  Min(I) \in I
<1>1. I \subseteq Nat
    OBVIOUS
<1>2. \E k \in I : \A j \in I : k <= j
    BY <1>1, LeastElement
<1> QED BY <1>2 DEF Min

\* What reclaiming leaves alone: the trajectory that is protected, above all.
Room(x, y, protect) ==
    /\ IndexOK(y, {}, {}) /\ SameUse(x, y)
    /\ y.pendingWrite = x.pendingWrite
    /\ DOMAIN y.diskOfHost \subseteq DOMAIN x.diskOfHost
    /\ protect \in DOMAIN x.traj =>
          protect \in DOMAIN y.traj /\ y.traj[protect] = x.traj[protect]

\* _reclaim.
LEMMA ReclaimKept ==
    ASSUME NEW x, IndexOK(x, {}, {}), NEW protect
    PROVE  Room(x, Reclaim(x, protect), protect)
<1> DEFINE may(p) == /\ p # protect
                     /\ p \notin DOMAIN x.promotions
                     /\ HostSlots(x.traj[p]) # {}
                     /\ ~Busy(x, x.traj[p])
           I == {i \in 1 .. Len(x.order) : may(x.order[i])}
           k == Coldest(x, may)
           o == x.order[k]
<1>1. k = IF I # {} THEN Min(I) ELSE 0
    BY DEF Coldest, SelectInSeq
<1>2. Reclaim(x, protect) = IF k = 0 THEN x ELSE GiveUpHost(x, o)
    BY DEF Reclaim
<1>3. x.order \in Seq(DOMAIN x.traj)
    BY DEF IndexOK, Core, ListsOK
<1>4. CASE k = 0
    BY <1>2, <1>4 DEF Room, SameUse
<1>5. CASE k # 0
    <2>1. k \in I
        <3>1. Len(x.order) \in Nat /\ I \subseteq 1 .. Len(x.order)
            BY <1>3
        <3>2. I # {} /\ k = Min(I)
            BY <1>1, <1>5
        <3> HIDE DEF I, k
        <3> QED BY <3>1, <3>2, MinIn
    <2>2. k \in 1 .. Len(x.order) /\ may(o)
        BY <2>1
    <2> HIDE DEF k, I
    <2>3. o \in DOMAIN x.traj
        BY <1>3, <2>2
    <2>4. o # protect /\ HostSlots(x.traj[o]) \cap (x.pendingWrite \cup DOMAIN x.hostBusy) = {}
        BY <2>2 DEF Busy
    <2> HIDE DEF o, may
    <2>5. Reclaimed(x, GiveUpHost(x, o), o)
        BY <2>3, <2>4, DeleteKept, DemoteKept DEF GiveUpHost
    <2> QED BY <1>2, <1>5, <2>4, <2>5 DEF Room, Reclaimed, OthersSame
<1> QED BY <1>4, <1>5

\* _reclaim_disk.
LEMMA ReclaimDiskKept ==
    ASSUME NEW x, IndexOK(x, {}, {}), NEW protect
    PROVE  Room(x, ReclaimDisk(x, protect), protect)
<1> DEFINE may(p) ==
               LET used == DiskSlots(x.traj[p])
               IN  /\ p # protect
                   /\ p \notin DOMAIN x.promotions
                   /\ used # {}
                   /\ used \intersect (x.diskPending \union Range(x.hostBusy)) = {}
           I == {i \in 1 .. Len(x.order) : may(x.order[i])}
           k == Coldest(x, may)
           o == x.order[k]
<1>1. k = IF I # {} THEN Min(I) ELSE 0
    BY DEF Coldest, SelectInSeq
<1>2. ReclaimDisk(x, protect) = IF k = 0 THEN x ELSE GiveUpDisk(x, o)
    BY DEF ReclaimDisk
<1>3. x.order \in Seq(DOMAIN x.traj)
    BY DEF IndexOK, Core, ListsOK
<1>4. CASE k = 0
    BY <1>2, <1>4 DEF Room, SameUse
<1>5. CASE k # 0
    <2>1. k \in I
        <3>1. Len(x.order) \in Nat /\ I \subseteq 1 .. Len(x.order)
            BY <1>3
        <3>2. I # {} /\ k = Min(I)
            BY <1>1, <1>5
        <3> HIDE DEF I, k
        <3> QED BY <3>1, <3>2, MinIn
    <2>2. k \in 1 .. Len(x.order) /\ may(o)
        BY <2>1
    <2> HIDE DEF k, I
    <2>3. o \in DOMAIN x.traj
        BY <1>3, <2>2
    <2>4. o # protect /\ DiskSlots(x.traj[o]) \cap (x.diskPending \cup Range(x.hostBusy)) = {}
        BY <2>2
    <2> HIDE DEF o, may
    <2>5. Reclaimed(x, GiveUpDisk(x, o), o)
        <3>1. CASE HostSlots(x.traj[o]) = {}
            BY <2>3, <3>1, DeleteKept DEF GiveUpDisk
        <3>2. CASE HostSlots(x.traj[o]) # {}
            BY <2>3, <2>4, <3>2, DropDiskCopiesKept DEF GiveUpDisk
        <3> QED BY <3>1, <3>2
    <2> QED BY <1>2, <1>5, <2>4, <2>5 DEF Room, Reclaimed, OthersSame
<1> QED BY <1>4, <1>5

-----------------------------------------------------------------------------
(* Allocation.                                                             *)

\* If the trajectories and the disk writes stay, they are taken care of.
LEMMA WritesStay ==
    ASSUME NEW x, NEW L, NEW M, Core(x, L, M), NEW y, NEW o,
           y.traj = x.traj, y.diskOfHost = x.diskOfHost,
           x.orphanedBusy = y.orphanedBusy, x.orphanedDisk = y.orphanedDisk,
           x.diskPending \subseteq y.diskPending
    PROVE  WritesMoved(x, y, o)
<1>1. /\ x.orphanedDisk \subseteq x.diskPending
      /\ \A s \in DOMAIN x.hostBusy : x.hostBusy[s] \in x.diskPending
      /\ \A s \in DOMAIN x.diskOfHost : x.diskOfHost[s] \in x.diskPending
    BY DEF Core, PendingOK, WritesOK
<1>2. \A s, d : PairedIn(x, o, s, d) <=> PairedIn(y, o, s, d)
    BY DEF PairedIn
<1> QED BY <1>1, <1>2 DEF WritesMoved

\* What _alloc_slot grants: a slot that is to be written, or None.
HostGranted(x, got, o) ==
    /\ IndexOK(got.ix, {got.slot} \ {None}, {}) /\ SameUse(x, got.ix)
    /\ got.slot \in 0 .. x.numSlots
    /\ got.ix.pendingWrite = x.pendingWrite \cup ({got.slot} \ {None})
    /\ DOMAIN got.ix.diskOfHost \subseteq DOMAIN x.diskOfHost
    /\ o \in DOMAIN x.traj => o \in DOMAIN got.ix.traj /\ got.ix.traj[o] = x.traj[o]

LEMMA TakeSlotKept ==
    ASSUME NEW x, IndexOK(x, {}, {}), NEW o
    PROVE  HostGranted(x, TakeSlot(x), o)
<1>1. /\ Core(x, {}, {}) /\ ListsOK(x) /\ DOMAIN x = IndexFields
      /\ x.numSlots \in Nat /\ PendingOK(x, {}, {})
    BY DEF IndexOK, Core, ListsOK
<1>2. CASE x.free = <<>>
    <2>1. TakeSlot(x) = [ix |-> x, slot |-> None]
        BY <1>2 DEF TakeSlot
    <2>2. {None} \ {None} = {} /\ None \in 0 .. x.numSlots
        BY <1>1 DEF None
    <2> QED BY <2>1, <2>2 DEF HostGranted, SameUse
<1>3. CASE x.free # <<>>
    <2> DEFINE got == TakeSlot(x)
               y == got.ix
               s == got.slot
    <2>1. /\ SameUse(x, y) /\ DOMAIN y = IndexFields
          /\ y.free = Front(x.free) /\ s = Last(x.free)
          /\ y.pendingWrite = x.pendingWrite \cup {s}
          /\ y.diskFree = x.diskFree /\ y.order = x.order /\ y.traj = x.traj
          /\ y.orphanedPending = x.orphanedPending /\ y.orphanedBusy = x.orphanedBusy
          /\ y.orphanedDisk = x.orphanedDisk /\ y.diskPending = x.diskPending
          /\ y.diskOfHost = x.diskOfHost
        BY <1>1, <1>3 DEF TakeSlot, IndexFields, SameUse
    <2> HIDE DEF got, y, s
    <2>2. /\ x.free \in Seq(1 .. x.numSlots) /\ IsInjective(x.free)
        BY <1>1 DEF ListsOK
    <2>3. /\ y.free \in Seq(1 .. x.numSlots) /\ IsInjective(y.free)
          /\ s \in ToSet(x.free) /\ ToSet(y.free) = ToSet(x.free) \ {s}
        BY <1>3, <2>1, <2>2, FrontFacts
    <2>4. s \in 1 .. x.numSlots
        BY <2>2, <2>3, ToSetIn
    <2>5. ListsOK(y)
        BY <1>1, <2>1, <2>3 DEF ListsOK, SameUse
    <2>6. PendingOK(y, {s}, {})
        BY <1>1, <2>1, <2>3, <2>4 DEF PendingOK, SameUse
    <2>7. HostOf(y, o) = HostOf(x, o) /\ DiskOf(y, o) = DiskOf(x, o) /\ OthersSame(x, y, o)
        BY <2>1 DEF HostOf, DiskOf, OthersSame
    <2>8. /\ HostOf(x, o) \cap (ToSet(x.free) \cup x.orphanedPending \cup x.orphanedBusy) = {}
          /\ DiskOf(x, o) \cap (ToSet(x.diskFree) \cup x.orphanedDisk) = {}
        BY <1>1, OwnApart DEF HostOf, DiskOf
    <2>9. HostMoved(x, {}, y, {s}, o)
        BY <1>1, <2>1, <2>3, <2>7, <2>8 DEF HostMoved, SlotsMoved, PendingOK
    <2>10. DiskMoved(x, {}, y, {}, o)
        BY <1>1, <2>1, <2>7, <2>8 DEF DiskMoved, SlotsMoved, PendingOK
    <2>11. WritesMoved(x, y, o)
        BY <1>1, <2>1, WritesStay
    <2>12. o \in DOMAIN y.traj => TrajectoryOK(y.traj[o], y.numSlots, y.numDiskSlots)
        BY <1>1, <2>1 DEF Core, TrajectoriesOK, SameUse
    <2>13. Core(y, {s}, {})
        BY <1>1, <2>1, <2>5, <2>6, <2>7, <2>9, <2>10, <2>11, <2>12, MoveKept
    <2>14. \A p \in DOMAIN y.traj : TailOK(y, p)
        BY <2>1 DEF IndexOK, TailOK, SameUse
    <2>15. {s} \ {None} = {s} /\ s \in 0 .. x.numSlots
        BY <2>4 DEF None
    <2> QED BY <2>1, <2>13, <2>14, <2>15 DEF HostGranted, IndexOK, got, y, s
<1> QED BY <1>2, <1>3

\* _alloc_slot.
LEMMA AllocSlotKept ==
    ASSUME NEW x, IndexOK(x, {}, {}), NEW o
    PROVE  HostGranted(x, AllocSlot(x, o), o)
<1>1. PICK z \in {x, Reclaim(x, o)} : AllocSlot(x, o) = TakeSlot(z)
    BY DEF AllocSlot
<1>2. Room(x, z, o)
    BY <1>1, ReclaimKept DEF Room, SameUse
<1>3. HostGranted(z, TakeSlot(z), o)
    BY <1>2, TakeSlotKept DEF Room
<1> QED BY <1>1, <1>2, <1>3 DEF HostGranted, Room, SameUse

\* What _alloc_disk_slot grants: a slot that is to be written, or None.
DiskGranted(x, got, o) ==
    /\ IndexOK(got.ix, {}, {got.slot} \ {None}) /\ SameUse(x, got.ix)
    /\ got.slot \in 0 .. x.numDiskSlots
    /\ got.slot # None => got.slot \in got.ix.diskPending
    /\ got.ix.pendingWrite = x.pendingWrite
    /\ DOMAIN got.ix.diskOfHost \subseteq DOMAIN x.diskOfHost
    /\ o \in DOMAIN x.traj => o \in DOMAIN got.ix.traj /\ got.ix.traj[o] = x.traj[o]

LEMMA TakeDiskSlotKept ==
    ASSUME NEW x, IndexOK(x, {}, {}), NEW o
    PROVE  DiskGranted(x, TakeDiskSlot(x), o)
<1>1. /\ Core(x, {}, {}) /\ ListsOK(x) /\ DOMAIN x = IndexFields
      /\ x.numDiskSlots \in Nat /\ PendingOK(x, {}, {})
    BY DEF IndexOK, Core, ListsOK
<1>2. CASE x.diskFree = <<>>
    <2>1. TakeDiskSlot(x) = [ix |-> x, slot |-> None]
        BY <1>2 DEF TakeDiskSlot
    <2>2. {None} \ {None} = {} /\ None \in 0 .. x.numDiskSlots
        BY <1>1 DEF None
    <2> QED BY <2>1, <2>2 DEF DiskGranted, SameUse
<1>3. CASE x.diskFree # <<>>
    <2> DEFINE got == TakeDiskSlot(x)
               y == got.ix
               d == got.slot
    <2>1. /\ SameUse(x, y) /\ DOMAIN y = IndexFields
          /\ y.diskFree = Front(x.diskFree) /\ d = Last(x.diskFree)
          /\ y.diskPending = x.diskPending \cup {d}
          /\ y.free = x.free /\ y.order = x.order /\ y.traj = x.traj
          /\ y.orphanedPending = x.orphanedPending /\ y.orphanedBusy = x.orphanedBusy
          /\ y.orphanedDisk = x.orphanedDisk /\ y.pendingWrite = x.pendingWrite
          /\ y.diskOfHost = x.diskOfHost
        BY <1>1, <1>3 DEF TakeDiskSlot, IndexFields, SameUse
    <2> HIDE DEF got, y, d
    <2>2. /\ x.diskFree \in Seq(1 .. x.numDiskSlots) /\ IsInjective(x.diskFree)
        BY <1>1 DEF ListsOK
    <2>3. /\ y.diskFree \in Seq(1 .. x.numDiskSlots) /\ IsInjective(y.diskFree)
          /\ d \in ToSet(x.diskFree) /\ ToSet(y.diskFree) = ToSet(x.diskFree) \ {d}
        BY <1>3, <2>1, <2>2, FrontFacts
    <2>4. d \in 1 .. x.numDiskSlots
        BY <2>2, <2>3, ToSetIn
    <2>5. ListsOK(y)
        BY <1>1, <2>1, <2>3 DEF ListsOK, SameUse
    <2>6. PendingOK(y, {}, {d})
        BY <1>1, <2>1, <2>3, <2>4 DEF PendingOK, SameUse
    <2>7. HostOf(y, o) = HostOf(x, o) /\ DiskOf(y, o) = DiskOf(x, o) /\ OthersSame(x, y, o)
        BY <2>1 DEF HostOf, DiskOf, OthersSame
    <2>8. /\ HostOf(x, o) \cap (ToSet(x.free) \cup x.orphanedPending \cup x.orphanedBusy) = {}
          /\ DiskOf(x, o) \cap (ToSet(x.diskFree) \cup x.orphanedDisk) = {}
        BY <1>1, OwnApart DEF HostOf, DiskOf
    <2>9. HostMoved(x, {}, y, {}, o)
        BY <1>1, <2>1, <2>3, <2>7, <2>8 DEF HostMoved, SlotsMoved, PendingOK
    <2>10. DiskMoved(x, {}, y, {d}, o)
        BY <1>1, <2>1, <2>3, <2>7, <2>8 DEF DiskMoved, SlotsMoved, PendingOK
    <2>11. WritesMoved(x, y, o)
        BY <1>1, <2>1, WritesStay
    <2>12. o \in DOMAIN y.traj => TrajectoryOK(y.traj[o], y.numSlots, y.numDiskSlots)
        BY <1>1, <2>1 DEF Core, TrajectoriesOK, SameUse
    <2>13. Core(y, {}, {d})
        BY <1>1, <2>1, <2>5, <2>6, <2>7, <2>9, <2>10, <2>11, <2>12, MoveKept
    <2>14. \A p \in DOMAIN y.traj : TailOK(y, p)
        BY <2>1 DEF IndexOK, TailOK, SameUse
    <2>15. {d} \ {None} = {d} /\ d \in 0 .. x.numDiskSlots
        BY <2>4 DEF None
    <2> QED BY <2>1, <2>13, <2>14, <2>15 DEF DiskGranted, IndexOK, got, y, d
<1> QED BY <1>2, <1>3

\* _alloc_disk_slot.
LEMMA AllocDiskSlotKept ==
    ASSUME NEW x, IndexOK(x, {}, {}), NEW o
    PROVE  DiskGranted(x, AllocDiskSlot(x, o), o)
<1>1. PICK z \in {x, ReclaimDisk(x, o)} : AllocDiskSlot(x, o) = TakeDiskSlot(z)
    BY DEF AllocDiskSlot
<1>2. Room(x, z, o)
    BY <1>1, ReclaimDiskKept DEF Room, SameUse
<1>3. DiskGranted(z, TakeDiskSlot(z), o)
    BY <1>2, TakeDiskSlotKept DEF Room
<1> QED BY <1>1, <1>2, <1>3 DEF DiskGranted, Room, SameUse

-----------------------------------------------------------------------------
(* Staging a block.                                                        *)

\* A slot written to a position of a list of slots.
LEMMA ExceptIn ==
    ASSUME NEW n, NEW m, NEW f \in [1 .. n -> 0 .. m], NEW i, NEW e \in 0 .. m
    PROVE  [f EXCEPT ![i] = e] \in [1 .. n -> 0 .. m]
<1> DEFINE P == 1 .. n
           Q == 0 .. m
<1>1. f \in [P -> Q] /\ e \in Q
    OBVIOUS
<1> HIDE DEF P, Q
<1>2. [f EXCEPT ![i] = e] \in [P -> Q]
    BY <1>1
<1> QED BY <1>2 DEF P, Q

WithHost(x, o, i, s) == [x EXCEPT !.traj[o].attn[i] = s]
HostAttached(x, y, o, i, s) ==
    /\ IndexOK(y, {}, {}) /\ SameRest(x, y) /\ DOMAIN y.traj = DOMAIN x.traj
    /\ y.traj[o] = [x.traj[o] EXCEPT !.attn[i] = s]
    /\ OthersSame(x, y, o)
WithDisk(x, o, i, s, d) ==
    [x EXCEPT !.traj[o].diskAttn[i] = d, !.diskOfHost = Put(@, s, d)]

\* A granted slot becomes the host copy of a position that has none.
LEMMA AttachHost ==
    ASSUME NEW x, NEW s, IndexOK(x, {s}, {}), NEW o \in DOMAIN x.traj,
           NEW i \in DOMAIN x.traj[o].attn, x.traj[o].attn[i] = None, s # None
    PROVE  HostAttached(x, WithHost(x, o, i, s), o, i, s)
<1> DEFINE y == WithHost(x, o, i, s)
           t == x.traj[o]
           u == y.traj[o]
<1>1. /\ Core(x, {s}, {}) /\ ListsOK(x) /\ DOMAIN x = IndexFields
      /\ x.numSlots \in Nat /\ x.numDiskSlots \in Nat
      /\ TrajectoryOK(t, x.numSlots, x.numDiskSlots) /\ PendingOK(x, {s}, {}) /\ WritesOK(x)
    BY DEF IndexOK, Core, ListsOK, TrajectoriesOK
<1>2. /\ SameRest(x, y) /\ SameUse(x, y) /\ y.order = x.order /\ DOMAIN y.traj = DOMAIN x.traj
      /\ \A p \in DOMAIN x.traj : p # o => y.traj[p] = x.traj[p]
      /\ u = [t EXCEPT !.attn[i] = s]
    BY <1>1 DEF IndexFields, SameUse, SameRest, WithHost
<1>3. /\ DOMAIN u = TrajectoryFields /\ u.hashes = t.hashes
      /\ u.attn = [t.attn EXCEPT ![i] = s] /\ u.tail = t.tail
      /\ u.diskAttn = t.diskAttn /\ u.diskTail = t.diskTail
      /\ u.tailPending = t.tailPending /\ u.boundary = t.boundary
    BY <1>1, <1>2 DEF TrajectoryOK, TrajectoryFields
<1> HIDE DEF y, t, u
<1>4. OthersSame(x, y, o)
    BY <1>2 DEF OthersSame
<1>5. /\ i \in DOMAIN t.attn /\ t.attn[i] = None
      /\ DOMAIN u.attn = DOMAIN t.attn /\ u.attn[i] = s
      /\ \A j \in DOMAIN t.attn : j # i => u.attn[j] = t.attn[j]
    BY <1>3 DEF t
<1>6. s \in 1 .. x.numSlots /\ s \in x.pendingWrite /\ s \notin DOMAIN x.hostBusy
    BY <1>1 DEF PendingOK
<1>7. /\ HostSlots(t) \cap (ToSet(x.free) \cup x.orphanedPending \cup x.orphanedBusy \cup {s}) = {}
      /\ DiskSlots(t) \cap (ToSet(x.diskFree) \cup x.orphanedDisk) = {}
      /\ s \notin x.orphanedBusy
    BY <1>1, <1>6, OwnApart DEF t, PendingOK
<1>8. HostSlots(u) = HostSlots(t) \cup {s} /\ DiskSlots(u) = DiskSlots(t)
    <2>1. DiskSlots(u) = DiskSlots(t)
        BY <1>3 DEF DiskSlots
    <2>2. \A r : r \in HostSlots(u) <=> r \in HostSlots(t) \cup {s}
        BY <1>3, <1>5, HeldSlots
    <2> QED BY <2>1, <2>2
<1>9. TrajectoryOK(u, x.numSlots, x.numDiskSlots)
    <2>1. u.attn \in [1 .. Len(u.hashes) -> 0 .. x.numSlots]
        <3>1. t.attn \in [1 .. Len(t.hashes) -> 0 .. x.numSlots] /\ s \in 0 .. x.numSlots
            BY <1>1, <1>6 DEF TrajectoryOK
        <3>2. [t.attn EXCEPT ![i] = s] \in [1 .. Len(t.hashes) -> 0 .. x.numSlots]
            BY Zenon, <3>1, ExceptIn
        <3> QED BY Zenon, <1>3, <3>2
    <2>2. Once(u.attn, u.tail)
        <3>1. \A j \in DOMAIN t.attn : t.attn[j] # s
            BY <1>7, HeldSlots
        <3>2. t.tail # s
            BY <1>7, HeldSlots
        <3> QED BY <1>1, <1>3, <1>5, <3>1, <3>2 DEF Once, TrajectoryOK
    <2> QED BY <1>1, <1>3, <2>1, <2>2 DEF TrajectoryOK
<1>10. /\ HostOf(x, o) = HostSlots(t) /\ HostOf(y, o) = HostSlots(t) \cup {s}
       /\ DiskOf(x, o) = DiskSlots(t) /\ DiskOf(y, o) = DiskSlots(t)
    BY <1>2, <1>8 DEF HostOf, DiskOf, t, u
<1>11. ListsOK(y) /\ PendingOK(y, {}, {})
    BY <1>1, <1>2 DEF ListsOK, PendingOK, SameRest, SameUse
<1>12. HostMoved(x, {s}, y, {}, o)
    <2>1. s \notin ToSet(x.free) \cup x.orphanedPending \cup x.orphanedBusy
        BY <1>1 DEF Core, HostParted, Parted
    <2> QED BY <1>1, <1>2, <1>6, <1>7, <1>10, <2>1 DEF HostMoved, SlotsMoved, PendingOK, SameRest
<1>13. DiskMoved(x, {}, y, {}, o)
    BY <1>1, <1>2, <1>7, <1>10 DEF DiskMoved, SlotsMoved, PendingOK, SameRest
<1>14. WritesMoved(x, y, o)
    <2>1. ASSUME NEW r, NEW d, r # None, PairedIn(x, o, r, d) PROVE PairedIn(y, o, r, d)
        <3>1. Paired(t, r, d)
            BY <2>1 DEF PairedIn, t
        <3>2. Paired(u, r, d)
            BY <1>3, <1>5, <2>1, <3>1 DEF Paired
        <3> QED BY <1>2, <3>2 DEF PairedIn, u
    <2>2. /\ \A r \in DOMAIN x.hostBusy : r # None /\ x.hostBusy[r] \in x.diskPending
          /\ \A r \in DOMAIN x.diskOfHost : r # None /\ x.diskOfHost[r] \in x.diskPending
          /\ x.orphanedDisk \subseteq x.diskPending
        BY <1>1 DEF WritesOK, PendingOK
    <2> QED BY <1>2, <2>1, <2>2 DEF WritesMoved, SameRest
<1>15. Core(y, {}, {}) /\ \A p \in DOMAIN x.traj : p # o /\ TailOK(x, p) => TailOK(y, p)
    <2>1. o \in DOMAIN y.traj => TrajectoryOK(y.traj[o], y.numSlots, y.numDiskSlots)
        BY <1>2, <1>9 DEF SameUse, u
    <2>2. Move(x, {s}, {}, y, {}, {}, o)
        BY Zenon, <1>2, <1>4, <1>11, <1>12, <1>13, <1>14, <2>1 DEF Move
    <2> QED BY Zenon, <1>1, <2>2, MovedKept
<1>16. \A p \in DOMAIN y.traj : TailOK(y, p)
    <2>1. TailOK(y, o)
        BY <1>2, <1>3 DEF TailOK, IndexOK, u, t, SameRest, SameUse
    <2> QED BY <1>2, <1>15, <2>1 DEF IndexOK
<1> QED BY <1>2, <1>4, <1>15, <1>16 DEF HostAttached, IndexOK, y, u, t

\* A granted disk slot becomes the disk copy of a position staged on the host.
LEMMA AttachDisk ==
    ASSUME NEW x, NEW d, IndexOK(x, {}, {d}), NEW o \in DOMAIN x.traj,
           NEW i \in DOMAIN x.traj[o].attn, x.traj[o].diskAttn[i] = None,
           NEW s, x.traj[o].attn[i] = s, s \in x.pendingWrite, d # None
    PROVE  IndexOK(WithDisk(x, o, i, s, d), {}, {}) /\ SameUse(x, WithDisk(x, o, i, s, d))
<1> DEFINE y == WithDisk(x, o, i, s, d)
           t == x.traj[o]
           u == y.traj[o]
<1>1. /\ Core(x, {}, {d}) /\ ListsOK(x) /\ DOMAIN x = IndexFields
      /\ x.numSlots \in Nat /\ x.numDiskSlots \in Nat
      /\ TrajectoryOK(t, x.numSlots, x.numDiskSlots) /\ PendingOK(x, {}, {d}) /\ WritesOK(x)
    BY DEF IndexOK, Core, ListsOK, TrajectoriesOK
<1>2. /\ SameUse(x, y) /\ DOMAIN y = IndexFields
      /\ y.free = x.free /\ y.diskFree = x.diskFree
      /\ y.pendingWrite = x.pendingWrite /\ y.diskPending = x.diskPending
      /\ y.orphanedPending = x.orphanedPending /\ y.orphanedBusy = x.orphanedBusy
      /\ y.orphanedDisk = x.orphanedDisk /\ y.diskOfHost = Put(x.diskOfHost, s, d)
      /\ y.order = x.order /\ DOMAIN y.traj = DOMAIN x.traj
      /\ \A p \in DOMAIN x.traj : p # o => y.traj[p] = x.traj[p]
      /\ u = [t EXCEPT !.diskAttn[i] = d]
    BY <1>1 DEF IndexFields, SameUse, WithDisk
<1>3. /\ DOMAIN u = TrajectoryFields /\ u.hashes = t.hashes
      /\ u.diskAttn = [t.diskAttn EXCEPT ![i] = d] /\ u.tail = t.tail
      /\ u.attn = t.attn /\ u.diskTail = t.diskTail
      /\ u.tailPending = t.tailPending /\ u.boundary = t.boundary
    BY <1>1, <1>2 DEF TrajectoryOK, TrajectoryFields
<1>4. DOMAIN t.attn = DOMAIN t.diskAttn
    BY <1>1 DEF TrajectoryOK
<1> HIDE DEF y, t, u
<1>5. /\ i \in DOMAIN t.diskAttn /\ t.diskAttn[i] = None /\ t.attn[i] = s
      /\ DOMAIN u.diskAttn = DOMAIN t.diskAttn /\ u.diskAttn[i] = d
      /\ \A j \in DOMAIN t.diskAttn : j # i => u.diskAttn[j] = t.diskAttn[j]
    BY <1>3, <1>4 DEF t
<1>6. d \in 1 .. x.numDiskSlots /\ d \in x.diskPending /\ s \notin DOMAIN x.hostBusy /\ s # None
    BY <1>1 DEF PendingOK, None
<1>7. /\ HostSlots(t) \cap (ToSet(x.free) \cup x.orphanedPending \cup x.orphanedBusy) = {}
      /\ DiskSlots(t) \cap (ToSet(x.diskFree) \cup x.orphanedDisk \cup {d}) = {}
    BY <1>1, OwnApart DEF t
<1>8. HostSlots(u) = HostSlots(t) /\ DiskSlots(u) = DiskSlots(t) \cup {d}
    <2>1. HostSlots(u) = HostSlots(t)
        BY <1>3 DEF HostSlots, AttnSlots
    <2>2. \A e : e \in DiskSlots(u) <=> e \in DiskSlots(t) \cup {d}
        BY <1>3, <1>5, <1>6, HeldSlots
    <2> QED BY <2>1, <2>2
<1>9. TrajectoryOK(u, x.numSlots, x.numDiskSlots)
    <2>1. u.diskAttn \in [1 .. Len(u.hashes) -> 0 .. x.numDiskSlots]
        <3>1. t.diskAttn \in [1 .. Len(t.hashes) -> 0 .. x.numDiskSlots] /\ d \in 0 .. x.numDiskSlots
            BY <1>1, <1>6 DEF TrajectoryOK
        <3>2. [t.diskAttn EXCEPT ![i] = d] \in [1 .. Len(t.hashes) -> 0 .. x.numDiskSlots]
            BY Zenon, <3>1, ExceptIn
        <3> QED BY Zenon, <1>3, <3>2
    <2>2. Once(u.diskAttn, u.diskTail)
        <3>1. \A j \in DOMAIN t.diskAttn : t.diskAttn[j] # d
            BY <1>6, <1>7, HeldSlots
        <3>2. t.diskTail # d
            BY <1>6, <1>7, HeldSlots
        <3> QED BY <1>1, <1>3, <1>5, <3>1, <3>2 DEF Once, TrajectoryOK
    <2> QED BY <1>1, <1>3, <2>1, <2>2 DEF TrajectoryOK
<1>10. /\ HostOf(x, o) = HostSlots(t) /\ HostOf(y, o) = HostSlots(t)
       /\ DiskOf(x, o) = DiskSlots(t) /\ DiskOf(y, o) = DiskSlots(t) \cup {d}
    BY <1>2, <1>8 DEF HostOf, DiskOf, t, u
<1>11. ListsOK(y) /\ PendingOK(y, {}, {}) /\ OthersSame(x, y, o)
    BY <1>1, <1>2 DEF ListsOK, PendingOK, SameUse, OthersSame
<1>12. HostMoved(x, {}, y, {}, o)
    BY <1>1, <1>2, <1>7, <1>10 DEF HostMoved, SlotsMoved, PendingOK
<1>13. DiskMoved(x, {d}, y, {}, o)
    <2>1. d \notin x.orphanedDisk /\ d \notin ToSet(x.diskFree)
        BY <1>1 DEF Core, DiskParted, Parted
    <2> QED BY <1>1, <1>2, <1>7, <1>10, <2>1 DEF DiskMoved, SlotsMoved, PendingOK
<1>14. WritesMoved(x, y, o)
    <2>1. ASSUME NEW r, NEW e, e # None, PairedIn(x, o, r, e) PROVE PairedIn(y, o, r, e)
        <3>1. Paired(t, r, e)
            BY <2>1 DEF PairedIn, t
        <3>2. Paired(u, r, e)
            BY <1>3, <1>4, <1>5, <2>1, <3>1 DEF Paired
        <3> QED BY <1>2, <3>2 DEF PairedIn, u
    <2>2. /\ \A r \in DOMAIN x.hostBusy : x.hostBusy[r] # None /\ x.hostBusy[r] \in x.diskPending
          /\ \A r \in DOMAIN x.diskOfHost : x.diskOfHost[r] # None /\ x.diskOfHost[r] \in x.diskPending
          /\ x.orphanedDisk \subseteq x.diskPending
        BY <1>1 DEF WritesOK, PendingOK, None
    <2>3. PairedIn(y, o, s, d)
        BY <1>2, <1>3, <1>4, <1>5 DEF PairedIn, Paired, u
    <2>4. ASSUME NEW r \in DOMAIN y.diskOfHost
          PROVE  \/ r \in DOMAIN x.diskOfHost /\ y.diskOfHost[r] = x.diskOfHost[r]
                 \/ r = s /\ y.diskOfHost[r] = d
        BY <1>2, <2>4 DEF Put
    <2> QED BY <1>2, <1>6, <2>1, <2>2, <2>3, <2>4 DEF WritesMoved
<1>15. Core(y, {}, {}) /\ \A p \in DOMAIN x.traj : p # o /\ TailOK(x, p) => TailOK(y, p)
    <2>1. o \in DOMAIN y.traj => TrajectoryOK(y.traj[o], y.numSlots, y.numDiskSlots)
        BY <1>2, <1>9 DEF SameUse, u
    <2>2. Move(x, {}, {d}, y, {}, {}, o)
        BY Zenon, <1>2, <1>11, <1>12, <1>13, <1>14, <2>1 DEF Move
    <2> QED BY Zenon, <1>1, <2>2, MovedKept
<1>16. \A p \in DOMAIN y.traj : TailOK(y, p)
    <2>1. TailOK(y, o)
        BY <1>2, <1>3 DEF TailOK, IndexOK, u, t, SameUse
    <2> QED BY <1>2, <1>15, <2>1 DEF IndexOK
<1> QED BY <1>2, <1>15, <1>16 DEF IndexOK, y

\* stage_attention's slots: a position without a host copy gets one, and a disk
\* copy if it has none and there is room.
LEMMA PlaceAttentionKept ==
    ASSUME NEW x, IndexOK(x, {}, {}), NEW o \in DOMAIN x.traj,
           NEW i \in DOMAIN x.traj[o].attn, x.traj[o].attn[i] = None
    PROVE  LET r == PlaceAttention(AllocSlot(x, o), o, i)
           IN  IndexOK(r.ix, {}, {}) /\ SameUse(x, r.ix)
<1> DEFINE got == AllocSlot(x, o)
           g == got.ix
           s == got.slot
           r == PlaceAttention(got, o, i)
<1>1. HostGranted(x, got, o)
    BY AllocSlotKept
<1> HIDE DEF got
<1>2. /\ IndexOK(g, {s} \ {None}, {}) /\ SameUse(x, g)
      /\ g.pendingWrite = x.pendingWrite \cup ({s} \ {None})
      /\ o \in DOMAIN g.traj /\ g.traj[o] = x.traj[o]
    BY <1>1 DEF HostGranted
<1>3. CASE s = None
    <2>1. r.ix = g /\ {s} \ {None} = {}
        BY <1>3 DEF PlaceAttention
    <2> QED BY <1>2, <2>1 DEF got
<1>4. CASE s # None
    <2> DEFINE h == WithHost(g, o, i, s)
               granted == AllocDiskSlot(h, o)
               d == granted.slot
    <2>1. /\ {s} \ {None} = {s} /\ IndexOK(g, {s}, {})
          /\ i \in DOMAIN g.traj[o].attn /\ g.traj[o].attn[i] = None
        <3>1. {s} \ {None} = {s}
            BY <1>4
        <3> QED BY <1>2, <3>1
    <2>2. /\ IndexOK(h, {}, {}) /\ SameRest(g, h) /\ DOMAIN h.traj = DOMAIN g.traj
          /\ h.traj[o] = [g.traj[o] EXCEPT !.attn[i] = s]
        <3>1. HostAttached(g, h, o, i, s)
            BY Zenon, <1>2, <1>4, <2>1, AttachHost
        <3> QED BY <3>1 DEF HostAttached
    <2>3. s \in h.pendingWrite /\ o \in DOMAIN h.traj /\ SameUse(x, h)
        BY <1>2, <2>1, <2>2 DEF SameRest, SameUse
    <2>4. /\ i \in DOMAIN h.traj[o].attn /\ h.traj[o].attn[i] = s
          /\ h.traj[o].diskAttn = g.traj[o].diskAttn
        <3>1. TrajectoryOK(g.traj[o], g.numSlots, g.numDiskSlots)
            BY <1>2 DEF IndexOK, Core, TrajectoriesOK
        <3> QED BY <2>1, <2>2, <3>1 DEF TrajectoryOK, TrajectoryFields
    <2>5. r = IF g.traj[o].diskAttn[i] # None THEN [ix |-> h, slot |-> s]
              ELSE PairAttention(granted, o, i, s)
        BY <1>4 DEF PlaceAttention, WithHost
    <2> HIDE DEF h, r
    <2>6. CASE g.traj[o].diskAttn[i] # None
        BY <2>2, <2>3, <2>5, <2>6 DEF r, got
    <2>7. CASE g.traj[o].diskAttn[i] = None
        <3>1. DiskGranted(h, granted, o)
            BY <2>2, AllocDiskSlotKept
        <3> HIDE DEF granted
        <3>2. /\ IndexOK(granted.ix, {}, {d} \ {None}) /\ SameUse(x, granted.ix)
              /\ s \in granted.ix.pendingWrite
              /\ o \in DOMAIN granted.ix.traj /\ granted.ix.traj[o] = h.traj[o]
            BY <2>3, <3>1 DEF DiskGranted, SameUse
        <3>3. r.ix = IF d = None THEN granted.ix ELSE WithDisk(granted.ix, o, i, s, d)
            BY <2>5, <2>7 DEF PairAttention, WithDisk
        <3> HIDE DEF d
        <3>4. CASE d = None
            <4>1. {d} \ {None} = {}
                BY <3>4
            <4> QED BY <3>2, <3>3, <3>4, <4>1 DEF r, got
        <3>5. CASE d # None
            <4>1. {d} \ {None} = {d}
                BY <3>5
            <4>2. IndexOK(granted.ix, {}, {d})
                BY <3>2, <4>1
            <4>3. /\ i \in DOMAIN granted.ix.traj[o].attn /\ granted.ix.traj[o].attn[i] = s
                  /\ granted.ix.traj[o].diskAttn[i] = None
                BY <2>4, <2>7, <3>2
            <4>4. /\ IndexOK(WithDisk(granted.ix, o, i, s, d), {}, {})
                  /\ SameUse(granted.ix, WithDisk(granted.ix, o, i, s, d))
                BY <3>2, <3>5, <4>2, <4>3, AttachDisk
            <4> QED BY <3>2, <3>3, <3>5, <4>4 DEF r, got, SameUse
        <3> QED BY <3>4, <3>5
    <2> QED BY <2>6, <2>7
<1> QED BY <1>3, <1>4

\* stage_attention.
LEMMA StageAtKept ==
    ASSUME NEW at, IndexOK(at.ix, {}, {}),
           NEW o \in DOMAIN at.ix.traj, NEW i \in DOMAIN at.ix.traj[o].attn
    PROVE  /\ IndexOK(StageAt(at, o, i).ix, {}, {})
           /\ SameUse(at.ix, StageAt(at, o, i).ix)
<1>1. CASE ~at.ok \/ at.ix.traj[o].attn[i] # None
    BY <1>1 DEF StageAt, SameUse
<1>2. CASE ~(~at.ok \/ at.ix.traj[o].attn[i] # None)
    BY <1>2, PlaceAttentionKept DEF StageAt
<1> QED BY <1>1, <1>2

-----------------------------------------------------------------------------
(* Finding and making a position.                                          *)

\* A trajectory with the same slots, paired as before, and the same tail.
Reshaped(t, u, hosts, disks) ==
    /\ TrajectoryOK(u, hosts, disks)
    /\ HostSlots(u) = HostSlots(t) /\ DiskSlots(u) = DiskSlots(t)
    /\ \A s, d : s # None /\ Paired(t, s, d) => Paired(u, s, d)
    /\ u.tail = t.tail /\ u.tailPending = t.tailPending /\ u.diskTail = t.diskTail

LEMMA ReshapedKept ==
    ASSUME NEW x, IndexOK(x, {}, {}), NEW o \in DOMAIN x.traj,
           NEW y, SameRest(x, y), y.order = x.order, DOMAIN y.traj = DOMAIN x.traj,
           OthersSame(x, y, o), Reshaped(x.traj[o], y.traj[o], x.numSlots, x.numDiskSlots)
    PROVE  IndexOK(y, {}, {})
<1>1. /\ Core(x, {}, {}) /\ ListsOK(x) /\ PendingOK(x, {}, {}) /\ WritesOK(x)
    BY DEF IndexOK, Core
<1>2. HostOf(y, o) = HostOf(x, o) /\ DiskOf(y, o) = DiskOf(x, o)
    BY DEF HostOf, DiskOf, Reshaped
<1>3. /\ HostOf(x, o) \cap (ToSet(x.free) \cup x.orphanedPending \cup x.orphanedBusy) = {}
      /\ DiskOf(x, o) \cap (ToSet(x.diskFree) \cup x.orphanedDisk) = {}
    BY <1>1, OwnApart DEF HostOf, DiskOf
<1>4. ListsOK(y) /\ PendingOK(y, {}, {}) /\ SameUse(x, y)
    BY <1>1 DEF ListsOK, PendingOK, SameRest, SameUse
<1>5. HostMoved(x, {}, y, {}, o) /\ DiskMoved(x, {}, y, {}, o)
    BY <1>1, <1>2, <1>3 DEF HostMoved, DiskMoved, SlotsMoved, PendingOK, SameRest
<1>6. WritesMoved(x, y, o)
    <2>1. ASSUME NEW s, NEW d, s # None, PairedIn(x, o, s, d) PROVE PairedIn(y, o, s, d)
        BY <2>1 DEF PairedIn, Reshaped
    <2>2. /\ \A r \in DOMAIN x.hostBusy : r # None /\ x.hostBusy[r] \in x.diskPending
          /\ \A r \in DOMAIN x.diskOfHost : r # None /\ x.diskOfHost[r] \in x.diskPending
          /\ x.orphanedDisk \subseteq x.diskPending
        BY <1>1 DEF WritesOK, PendingOK
    <2> QED BY <2>1, <2>2 DEF WritesMoved, SameRest
<1>7. o \in DOMAIN y.traj => TrajectoryOK(y.traj[o], y.numSlots, y.numDiskSlots)
    BY DEF Reshaped, SameRest, SameUse
<1>8. Core(y, {}, {}) /\ \A p \in DOMAIN x.traj : p # o /\ TailOK(x, p) => TailOK(y, p)
    <2>1. Move(x, {}, {}, y, {}, {}, o)
        BY <1>4, <1>5, <1>6, <1>7 DEF Move
    <2> QED BY <1>1, <2>1, MovedKept
<1>9. TailOK(x, o) /\ \A p \in DOMAIN x.traj : TailOK(x, p)
    BY DEF IndexOK
<1>10. TailOK(y, o)
    BY <1>9 DEF TailOK, Reshaped, SameRest, SameUse
<1> QED BY <1>8, <1>9, <1>10 DEF IndexOK

\* The lists of a lineage are made long enough for position i.
LEMMA LongKept ==
    ASSUME NEW x, IndexOK(x, {}, {}), NEW o \in DOMAIN x.traj, NEW i \in Nat \ {0}
    PROVE  /\ IndexOK(Long(x, o, i), {}, {}) /\ SameRest(x, Long(x, o, i))
           /\ DOMAIN Long(x, o, i).traj = DOMAIN x.traj
           /\ i \in DOMAIN Long(x, o, i).traj[o].attn
<1> DEFINE y == Long(x, o, i)
           t == x.traj[o]
           u == y.traj[o]
           n == IF Len(t.hashes) > i THEN Len(t.hashes) ELSE i
<1>1. /\ DOMAIN x = IndexFields /\ x.numSlots \in Nat /\ x.numDiskSlots \in Nat
      /\ TrajectoryOK(t, x.numSlots, x.numDiskSlots)
    BY DEF IndexOK, Core, ListsOK, TrajectoriesOK
<1>2. /\ SameRest(x, y) /\ y.order = x.order /\ DOMAIN y.traj = DOMAIN x.traj
      /\ \A p \in DOMAIN x.traj : p # o => y.traj[p] = x.traj[p]
    BY <1>1 DEF Long, IndexFields, SameRest, SameUse
<1>3. /\ DOMAIN u = TrajectoryFields /\ u.hashes = Grown(t.hashes, i, NoHash)
      /\ u.attn = Grown(t.attn, i, None) /\ u.tail = t.tail
      /\ u.diskAttn = Grown(t.diskAttn, i, None) /\ u.diskTail = t.diskTail
      /\ u.tailPending = t.tailPending /\ u.boundary = t.boundary
    BY <1>1 DEF Long, IndexFields, TrajectoryOK, TrajectoryFields
<1> HIDE DEF y, t, u
<1>4. /\ Len(t.hashes) \in Nat /\ Len(t.attn) = Len(t.hashes) /\ Len(t.diskAttn) = Len(t.hashes)
      /\ DOMAIN t.attn = 1 .. Len(t.hashes) /\ DOMAIN t.diskAttn = 1 .. Len(t.hashes)
      /\ n \in Nat /\ n >= Len(t.hashes) /\ i \in 1 .. n
    BY <1>1 DEF TrajectoryOK
<1>5. /\ u.attn = [j \in 1 .. n |-> IF j <= Len(t.hashes) THEN t.attn[j] ELSE None]
      /\ u.diskAttn = [j \in 1 .. n |-> IF j <= Len(t.hashes) THEN t.diskAttn[j] ELSE None]
      /\ u.hashes = [j \in 1 .. n |-> IF j <= Len(t.hashes) THEN t.hashes[j] ELSE NoHash]
    BY <1>3, <1>4 DEF Grown
<1>6. DOMAIN u.hashes = 1 .. n /\ Len(u.hashes) = n
    BY <1>4, <1>5
<1> HIDE DEF n
<1>7. /\ DOMAIN u.attn = 1 .. n /\ DOMAIN u.diskAttn = 1 .. n
      /\ \A j \in 1 .. Len(t.hashes) : j \in 1 .. n /\ u.attn[j] = t.attn[j]
                                       /\ u.diskAttn[j] = t.diskAttn[j]
      /\ \A j \in 1 .. n : j \notin 1 .. Len(t.hashes) =>
             u.attn[j] = None /\ u.diskAttn[j] = None
    BY <1>4, <1>5
<1>8. Reshaped(t, u, x.numSlots, x.numDiskSlots)
    <2>1. TrajectoryOK(u, x.numSlots, x.numDiskSlots)
        <3>1. /\ t.attn \in [1 .. Len(t.hashes) -> 0 .. x.numSlots]
              /\ t.diskAttn \in [1 .. Len(t.hashes) -> 0 .. x.numDiskSlots]
            BY <1>1 DEF TrajectoryOK
        <3>2. ASSUME NEW j \in 1 .. n
              PROVE  u.attn[j] \in 0 .. x.numSlots /\ u.diskAttn[j] \in 0 .. x.numDiskSlots
            <4>1. CASE j \in 1 .. Len(t.hashes)
                <5>1. t.attn[j] \in 0 .. x.numSlots /\ t.diskAttn[j] \in 0 .. x.numDiskSlots
                    BY <3>1, <4>1
                <5> QED BY <1>7, <4>1, <5>1
            <4>2. CASE j \notin 1 .. Len(t.hashes)
                <5>1. u.attn[j] = None /\ u.diskAttn[j] = None
                    BY <1>7, <4>2
                <5> QED BY <1>1, <5>1 DEF None
            <4> QED BY <4>1, <4>2
        <3>3. /\ u.attn \in [1 .. n -> 0 .. x.numSlots]
              /\ u.diskAttn \in [1 .. n -> 0 .. x.numDiskSlots]
            BY <1>5, <3>2
        <3>4. Once(u.attn, u.tail)
            <4>1. Once(t.attn, t.tail)
                BY <1>1 DEF TrajectoryOK
            <4>2. \A j \in DOMAIN u.attn : u.attn[j] # None =>
                      j \in DOMAIN t.attn /\ u.attn[j] = t.attn[j]
                BY <1>4, <1>7
            <4> QED BY <1>3, <4>1, <4>2 DEF Once
        <3>5. Once(u.diskAttn, u.diskTail)
            <4>1. Once(t.diskAttn, t.diskTail)
                BY <1>1 DEF TrajectoryOK
            <4>2. \A j \in DOMAIN u.diskAttn : u.diskAttn[j] # None =>
                      j \in DOMAIN t.diskAttn /\ u.diskAttn[j] = t.diskAttn[j]
                BY <1>4, <1>7
            <4> QED BY <1>3, <4>1, <4>2 DEF Once
        <3> QED BY <1>1, <1>3, <1>4, <1>6, <3>3, <3>4, <3>5 DEF TrajectoryOK
    <2>2. HostSlots(u) = HostSlots(t)
        <3>1. \A s : s \in HostSlots(u) <=> s \in HostSlots(t)
            BY SMTT(30), <1>3, <1>4, <1>7, HeldSlots
        <3> QED BY <3>1
    <2>3. DiskSlots(u) = DiskSlots(t)
        <3>1. \A s : s \in DiskSlots(u) <=> s \in DiskSlots(t)
            BY SMTT(30), <1>3, <1>4, <1>7, HeldSlots
        <3> QED BY <3>1
    <2>4. \A s, d : s # None /\ Paired(t, s, d) => Paired(u, s, d)
        BY <1>3, <1>4, <1>7 DEF Paired
    <2> QED BY <1>3, <2>1, <2>2, <2>3, <2>4 DEF Reshaped
<1>9. IndexOK(y, {}, {})
    BY <1>2, <1>8, ReshapedKept DEF OthersSame, t, u
<1> QED BY <1>2, <1>4, <1>7, <1>9 DEF y, u

\* The hash of a position.
WithHash(x, o, i, h) == [x EXCEPT !.traj[o].hashes[i] = h]

LEMMA WithHashKept ==
    ASSUME NEW x, IndexOK(x, {}, {}), NEW o \in DOMAIN x.traj, NEW i, NEW h
    PROVE  /\ IndexOK(WithHash(x, o, i, h), {}, {}) /\ SameRest(x, WithHash(x, o, i, h))
           /\ DOMAIN WithHash(x, o, i, h).traj = DOMAIN x.traj
           /\ WithHash(x, o, i, h).traj[o].attn = x.traj[o].attn
<1> DEFINE y == WithHash(x, o, i, h)
           t == x.traj[o]
           u == y.traj[o]
<1>1. /\ DOMAIN x = IndexFields /\ x.numSlots \in Nat /\ x.numDiskSlots \in Nat
      /\ TrajectoryOK(t, x.numSlots, x.numDiskSlots)
    BY DEF IndexOK, Core, ListsOK, TrajectoriesOK
<1>2. /\ SameRest(x, y) /\ y.order = x.order /\ DOMAIN y.traj = DOMAIN x.traj
      /\ \A p \in DOMAIN x.traj : p # o => y.traj[p] = x.traj[p]
    BY <1>1 DEF WithHash, IndexFields, SameRest, SameUse
<1>3. /\ DOMAIN u = TrajectoryFields /\ u.hashes = [t.hashes EXCEPT ![i] = h]
      /\ u.attn = t.attn /\ u.tail = t.tail
      /\ u.diskAttn = t.diskAttn /\ u.diskTail = t.diskTail
      /\ u.tailPending = t.tailPending /\ u.boundary = t.boundary
    BY <1>1 DEF WithHash, IndexFields, TrajectoryOK, TrajectoryFields
<1> HIDE DEF y, t, u
<1>4. Len(u.hashes) = Len(t.hashes) /\ DOMAIN u.hashes = DOMAIN t.hashes
    <2>1. Len(t.hashes) \in Nat /\ DOMAIN t.hashes = 1 .. Len(t.hashes)
        BY <1>1 DEF TrajectoryOK
    <2>2. DOMAIN u.hashes = 1 .. Len(t.hashes)
        BY <1>3, <2>1
    <2> QED BY <2>1, <2>2
<1>5. Reshaped(t, u, x.numSlots, x.numDiskSlots)
    BY <1>1, <1>3, <1>4 DEF Reshaped, TrajectoryOK, HostSlots, AttnSlots, DiskSlots, Paired
<1>6. IndexOK(y, {}, {})
    BY <1>2, <1>5, ReshapedKept DEF OthersSame, t, u
<1> QED BY <1>2, <1>3, <1>6 DEF y, u, t

\* Without a disk tier, a divergent suffix is released: what is being written
\* is orphaned and the rest is free.
LEMMA SupersedeKept ==
    ASSUME NEW x, IndexOK(x, {}, {}), x.numDiskSlots = 0, NEW o \in DOMAIN x.traj,
           NEW i \in Nat \ {0}
    PROVE  /\ IndexOK(Supersede(x, o, i), {}, {}) /\ SameUse(x, Supersede(x, o, i))
           /\ DOMAIN Supersede(x, o, i).traj = DOMAIN x.traj
           /\ DOMAIN Supersede(x, o, i).traj[o].attn = DOMAIN x.traj[o].attn
<1> DEFINE y == Supersede(x, o, i)
           t == x.traj[o]
           u == y.traj[o]
           suffix == i .. Len(t.attn)
           S == {t.attn[j] : j \in suffix} \ {None}
           E == {t.diskAttn[j] : j \in suffix} \ {None}
           r == ReleaseHost(x, S)
           f == FreeDisk(r, E)
           W == S \cap x.pendingWrite
           tied == {x.diskOfHost[s] : s \in S \cap DOMAIN x.diskOfHost}
<1>1. /\ Core(x, {}, {}) /\ ListsOK(x) /\ DOMAIN x = IndexFields
      /\ x.numSlots \in Nat /\ x.numDiskSlots \in Nat
      /\ TrajectoryOK(t, x.numSlots, x.numDiskSlots) /\ PendingOK(x, {}, {}) /\ WritesOK(x)
    BY DEF IndexOK, Core, ListsOK, TrajectoriesOK
<1>2. /\ SameUse(x, f) /\ DOMAIN f = IndexFields
      /\ f.free = Push(x.free, S \ W)
      /\ f.diskFree = Push(Push(x.diskFree, tied), E)
      /\ f.order = x.order /\ f.traj = x.traj
      /\ f.pendingWrite = x.pendingWrite /\ f.diskPending = (x.diskPending \ tied) \ E
      /\ f.diskOfHost = Drop(x.diskOfHost, S)
      /\ f.orphanedPending = x.orphanedPending \cup W /\ f.orphanedBusy = x.orphanedBusy
      /\ f.orphanedDisk = x.orphanedDisk
    <2> HIDE DEF S, E
    <2>1. /\ SameUse(x, r) /\ DOMAIN r = IndexFields
          /\ r.free = Push(x.free, S \ W)
          /\ r.diskFree = Push(x.diskFree, tied)
          /\ r.order = x.order /\ r.traj = x.traj
          /\ r.pendingWrite = x.pendingWrite /\ r.diskPending = x.diskPending \ tied
          /\ r.diskOfHost = Drop(x.diskOfHost, S)
          /\ r.orphanedPending = x.orphanedPending \cup W /\ r.orphanedBusy = x.orphanedBusy
          /\ r.orphanedDisk = x.orphanedDisk
        BY <1>1 DEF ReleaseHost, FreeDisk, IndexFields, SameUse
    <2> HIDE DEF r, W, tied
    <2> QED BY <2>1 DEF FreeDisk, IndexFields, SameUse
<1>3. y = [f EXCEPT !.traj[o].attn = Cleared(@, i, None),
                    !.traj[o].diskAttn = Cleared(@, i, None),
                    !.traj[o].hashes = Cleared(@, i, NoHash)]
    BY DEF Supersede
<1> HIDE DEF f, r, y, S, E, W, tied
<1>4. /\ SameUse(f, y) /\ DOMAIN y = IndexFields
      /\ y.free = f.free /\ y.diskFree = f.diskFree
      /\ y.order = f.order /\ DOMAIN y.traj = DOMAIN f.traj
      /\ y.pendingWrite = f.pendingWrite /\ y.diskPending = f.diskPending
      /\ y.diskOfHost = f.diskOfHost
      /\ y.orphanedPending = f.orphanedPending /\ y.orphanedBusy = f.orphanedBusy
      /\ y.orphanedDisk = f.orphanedDisk
      /\ \A p \in DOMAIN f.traj : p # o => y.traj[p] = f.traj[p]
    BY <1>2, <1>3 DEF IndexFields, SameUse
<1>5. /\ DOMAIN u = TrajectoryFields
      /\ u.attn = Cleared(t.attn, i, None) /\ u.diskAttn = Cleared(t.diskAttn, i, None)
      /\ u.hashes = Cleared(t.hashes, i, NoHash)
      /\ u.tail = t.tail /\ u.diskTail = t.diskTail
      /\ u.tailPending = t.tailPending /\ u.boundary = t.boundary
    BY <1>1, <1>2, <1>3 DEF IndexFields, TrajectoryOK, TrajectoryFields
<1> HIDE DEF t, u
<1>6. /\ DOMAIN t.attn = 1 .. Len(t.hashes) /\ DOMAIN t.diskAttn = 1 .. Len(t.hashes)
      /\ Len(t.attn) = Len(t.hashes) /\ Len(t.diskAttn) = Len(t.hashes) /\ Len(t.hashes) \in Nat
      /\ suffix = {j \in DOMAIN t.attn : j >= i}
    BY <1>1 DEF TrajectoryOK
<1> HIDE DEF suffix
<1>7. /\ x.diskPending = {} /\ DOMAIN x.hostBusy = {} /\ DOMAIN x.diskOfHost = {}
      /\ x.orphanedDisk = {} /\ x.orphanedBusy = {}
    <2>1. 1 .. 0 = {}
        OBVIOUS
    <2> QED BY <1>1, <2>1 DEF PendingOK, WritesOK
<1>8. /\ DiskSlots(t) = {} /\ E = {} /\ tied = {}
      /\ t.diskTail = None /\ \A j \in DOMAIN t.diskAttn : t.diskAttn[j] = None
    <2>1. DiskSlots(t) \subseteq 1 .. 0 /\ 1 .. 0 = {}
        BY <1>1, HeldInTier
    <2>2. t.diskTail = None /\ \A j \in DOMAIN t.diskAttn : t.diskAttn[j] = None
        BY <2>1, HeldSlots
    <2> QED BY <1>6, <1>7, <2>1, <2>2 DEF E, tied
<1>9. /\ DOMAIN u.attn = DOMAIN t.attn /\ DOMAIN u.diskAttn = DOMAIN t.diskAttn
      /\ \A j \in DOMAIN t.attn : u.attn[j] = IF j >= i THEN None ELSE t.attn[j]
      /\ \A j \in DOMAIN t.diskAttn : u.diskAttn[j] = None
      /\ u.tail = t.tail /\ u.diskTail = t.diskTail
    BY <1>5, <1>6, <1>8 DEF Cleared
<1>10. /\ \A s : s \in S <=> s # None /\ \E j \in DOMAIN t.attn : j >= i /\ t.attn[j] = s
       /\ W \subseteq S
    BY <1>6 DEF S, W
<1>11. HostSlots(u) = HostSlots(t) \ S /\ DiskSlots(u) = {}
    <2>1. \A s : s \in HostSlots(u) <=> s \in HostSlots(t) /\ s \notin S
        <3>1. /\ \A j \in DOMAIN t.attn : \A k \in DOMAIN t.attn :
                    t.attn[j] # None /\ t.attn[j] = t.attn[k] => j = k
              /\ \A j \in DOMAIN t.attn : t.attn[j] = t.tail => t.tail = None
            BY <1>1 DEF TrajectoryOK, Once
        <3> TAKE s
        <3>2. s \in HostSlots(u) => s \in HostSlots(t) /\ s \notin S
            BY <1>9, <1>10, <3>1, HeldSlots
        <3>3. s \in HostSlots(t) /\ s \notin S => s \in HostSlots(u)
            BY <1>9, <1>10, HeldSlots
        <3> QED BY <3>2, <3>3
    <2>2. \A d : d \notin DiskSlots(u)
        BY <1>8, <1>9, HeldSlots
    <2> QED BY <2>1, <2>2
<1>12. TrajectoryOK(u, x.numSlots, x.numDiskSlots)
    <2>1. u.attn \in [1 .. Len(t.hashes) -> 0 .. x.numSlots]
        <3>1. /\ t.attn \in [1 .. Len(t.hashes) -> 0 .. x.numSlots] /\ None \in 0 .. x.numSlots
            BY <1>1 DEF TrajectoryOK, None
        <3>2. \A j \in 1 .. Len(t.hashes) : u.attn[j] \in 0 .. x.numSlots
            BY <1>6, <1>9, <3>1
        <3> QED BY <1>5, <1>6, <3>2 DEF Cleared
    <2>2. u.diskAttn \in [1 .. Len(t.hashes) -> 0 .. x.numDiskSlots]
        <3>1. \A j \in 1 .. Len(t.hashes) : u.diskAttn[j] \in 0 .. x.numDiskSlots
            BY <1>1, <1>6, <1>9 DEF None
        <3> QED BY <1>5, <1>6, <3>1 DEF Cleared
    <2>3. DOMAIN u.hashes = 1 .. Len(t.hashes) /\ Len(u.hashes) = Len(t.hashes)
        BY <1>5, <1>6 DEF Cleared
    <2>4. Once(u.attn, u.tail) /\ Once(u.diskAttn, u.diskTail)
        BY <1>1, <1>9 DEF TrajectoryOK, Once
    <2>5. u.tailPending = t.tailPending /\ u.boundary = t.boundary /\ DOMAIN u = TrajectoryFields
        BY <1>5
    <2> QED BY <1>1, <1>6, <1>9, <2>1, <2>2, <2>3, <2>4, <2>5 DEF TrajectoryOK
<1>13. /\ HostSlots(t) \cap (ToSet(x.free) \cup x.orphanedPending) = {}
       /\ HostSlots(t) \subseteq 1 .. x.numSlots /\ S \subseteq HostSlots(t)
    <2>1. S \subseteq HostSlots(t)
        BY <1>10, HeldSlots
    <2> QED BY <1>1, <2>1, OwnApart, HeldInTier DEF t
<1>14. /\ y.free \in Seq(1 .. y.numSlots) /\ IsInjective(y.free)
       /\ ToSet(y.free) = ToSet(x.free) \cup (S \ W)
    <2>1. ToSet(x.free) \cap (S \ W) = {} /\ S \ W \subseteq 1 .. x.numSlots
        BY <1>13
    <2>2. /\ Push(x.free, S \ W) \in Seq(1 .. x.numSlots) /\ IsInjective(Push(x.free, S \ W))
          /\ ToSet(Push(x.free, S \ W)) = ToSet(x.free) \cup (S \ W)
        BY Zenon, <1>1, <2>1, PushedHost
    <2> QED BY <1>2, <1>4, <2>2 DEF SameUse
<1>15. y.diskFree = x.diskFree
    <2>1. x.diskFree \in Seq(1 .. x.numDiskSlots)
        BY <1>1 DEF ListsOK
    <2>2. Push(x.diskFree, {}) = x.diskFree
        BY Zenon, <2>1, PushNone
    <2> QED BY <1>2, <1>4, <1>8, <2>2
<1>16. ListsOK(y)
    BY <1>1, <1>2, <1>4, <1>14, <1>15 DEF ListsOK, SameUse
<1>17. PendingOK(y, {}, {})
    <2>1. W \subseteq x.pendingWrite /\ (S \ W) \cap x.pendingWrite = {}
        BY DEF W
    <2>2. /\ y.pendingWrite = x.pendingWrite /\ y.hostBusy = x.hostBusy
          /\ y.numSlots = x.numSlots /\ y.numDiskSlots = x.numDiskSlots
          /\ y.diskPending = {} /\ y.orphanedBusy = {} /\ y.orphanedDisk = {}
          /\ y.orphanedPending = x.orphanedPending \cup W
        BY <1>2, <1>4, <1>7 DEF SameUse
    <2>3. /\ x.pendingWrite \subseteq 1 .. x.numSlots /\ x.orphanedPending \subseteq x.pendingWrite
          /\ x.pendingWrite \cap ToSet(x.free) = {}
        BY <1>1 DEF PendingOK
    <2>4. y.pendingWrite \cap ToSet(y.free) = {}
        BY <1>14, <2>1, <2>2, <2>3
    <2> QED BY <1>7, <2>1, <2>2, <2>3, <2>4 DEF PendingOK
<1>18. /\ HostOf(x, o) = HostSlots(t) /\ HostOf(y, o) = HostSlots(t) \ S
       /\ DiskOf(x, o) = {} /\ DiskOf(y, o) = {}
    BY <1>2, <1>4, <1>8, <1>11 DEF HostOf, DiskOf, t, u
<1>19. HostMoved(x, {}, y, {}, o)
    <2>1. (x.orphanedPending \cup x.orphanedBusy) \cap ToSet(x.free) = {}
        BY <1>1 DEF Core, HostParted, Parted
    <2>2. /\ y.orphanedPending \cup y.orphanedBusy = x.orphanedPending \cup W
          /\ x.orphanedPending \cup x.orphanedBusy = x.orphanedPending
          /\ y.pendingWrite = x.pendingWrite
        BY <1>2, <1>4, <1>7
    <2> QED BY <1>10, <1>13, <1>14, <1>18, <2>1, <2>2 DEF HostMoved, SlotsMoved
<1>20. DiskMoved(x, {}, y, {}, o)
    BY <1>2, <1>4, <1>7, <1>8, <1>15, <1>18 DEF DiskMoved, SlotsMoved
<1>21. WritesMoved(x, y, o)
    BY <1>2, <1>4, <1>7 DEF WritesMoved, Drop
<1>22. Core(y, {}, {}) /\ \A p \in DOMAIN x.traj : p # o /\ TailOK(x, p) => TailOK(y, p)
    <2>1. o \in DOMAIN y.traj => TrajectoryOK(y.traj[o], y.numSlots, y.numDiskSlots)
        BY <1>2, <1>4, <1>12 DEF SameUse, u
    <2>2. OthersSame(x, y, o) /\ SameUse(x, y)
        BY <1>2, <1>4 DEF OthersSame, SameUse
    <2>3. Move(x, {}, {}, y, {}, {}, o)
        BY <1>16, <1>17, <1>19, <1>20, <1>21, <2>1, <2>2 DEF Move
    <2> QED BY <1>1, <2>3, MovedKept
<1>23. TailOK(y, o)
    <2>1. TailOK(x, o) /\ x.traj[o] = t /\ y.traj[o] = u
        BY DEF IndexOK, u, t
    <2>2. /\ y.pendingWrite = x.pendingWrite /\ u.tail = t.tail
          /\ u.tailPending = t.tailPending /\ u.diskTail = None
        BY <1>2, <1>4, <1>5, <1>8
    <2> QED BY <2>1, <2>2 DEF TailOK
<1>24. \A p \in DOMAIN y.traj : TailOK(y, p)
    BY <1>2, <1>4, <1>22, <1>23 DEF IndexOK
<1>25. SameUse(x, y) /\ DOMAIN y.traj = DOMAIN x.traj
    BY <1>2, <1>4 DEF SameUse
<1>26. u.attn = y.traj[o].attn /\ t.attn = x.traj[o].attn
    BY DEF u, t
<1> QED BY <1>9, <1>22, <1>24, <1>25, <1>26 DEF IndexOK, y

\* _ensure_position.
LEMMA EnsurePositionKept ==
    ASSUME NEW x, IndexOK(x, {}, {}), NEW o, NEW i \in Nat \ {0}, NEW h,
           NEW supersede, supersede => x.numDiskSlots = 0
    PROVE  LET at == EnsurePosition(x, o, i, h, supersede)
           IN  /\ IndexOK(at.ix, {}, {}) /\ SameUse(x, at.ix)
               /\ o \in DOMAIN at.ix.traj /\ i \in DOMAIN at.ix.traj[o].attn
<1> DEFINE long == Long(Open(x, o), o, i)
           fit == Supersede(long, o, i)
           at == EnsurePosition(x, o, i, h, supersede)
<1>1. /\ IndexOK(Open(x, o), {}, {}) /\ SameUse(x, Open(x, o)) /\ o \in DOMAIN Open(x, o).traj
    BY OpenKept DEF SameRest
<1>2. /\ IndexOK(long, {}, {}) /\ SameUse(x, long)
      /\ o \in DOMAIN long.traj /\ i \in DOMAIN long.traj[o].attn
    BY <1>1, LongKept DEF SameRest, SameUse
<1>3. \/ at.ix \in {long, WithHash(long, o, i, h)}
      \/ supersede /\ at.ix = WithHash(fit, o, i, h)
    <2> DEFINE clash == long.traj[o].hashes[i] \notin {NoHash, h}
               z == IF clash /\ supersede THEN fit ELSE long
    <2>1. at = IF clash /\ ~supersede THEN [ix |-> long, ok |-> FALSE]
               ELSE [ix |-> WithHash(z, o, i, h), ok |-> TRUE]
        BY DEF EnsurePosition, WithHash
    <2> HIDE DEF long, fit, clash, at
    <2> QED BY <2>1
<1> HIDE DEF long, at
<1>4. CASE at.ix = long
    BY <1>2, <1>4 DEF at
<1>5. CASE at.ix = WithHash(long, o, i, h)
    BY <1>2, <1>5, WithHashKept DEF at, SameRest, SameUse
<1>6. CASE supersede /\ at.ix = WithHash(fit, o, i, h)
    <2>1. long.numDiskSlots = 0
        BY <1>2, <1>6 DEF SameUse
    <2>2. /\ IndexOK(fit, {}, {}) /\ SameUse(x, fit)
          /\ o \in DOMAIN fit.traj /\ i \in DOMAIN fit.traj[o].attn
        BY <1>2, <2>1, SupersedeKept DEF SameUse
    <2> HIDE DEF fit
    <2>3. /\ IndexOK(WithHash(fit, o, i, h), {}, {}) /\ SameRest(fit, WithHash(fit, o, i, h))
          /\ DOMAIN WithHash(fit, o, i, h).traj = DOMAIN fit.traj
          /\ WithHash(fit, o, i, h).traj[o].attn = fit.traj[o].attn
        BY <2>2, WithHashKept
    <2>4. SameUse(x, WithHash(fit, o, i, h))
        BY <2>2, <2>3 DEF SameRest, SameUse
    <2> QED BY <1>6, <2>2, <2>3, <2>4 DEF at
<1> QED BY <1>3, <1>4, <1>5, <1>6

\* stage_attention: however it ends, every slot is where it was or moved on.
LEMMA StageAttentionKept ==
    ASSUME NEW x, IndexOK(x, {}, {}), NEW o, NEW i \in Nat \ {0}, NEW h,
           NEW supersede, supersede => x.numDiskSlots = 0
    PROVE  LET got == StageAttention(x, o, i, h, supersede)
           IN  IndexOK(got.ix, {}, {}) /\ SameUse(x, got.ix)
<1> DEFINE at == EnsurePosition(x, o, i, h, supersede)
<1>1. /\ IndexOK(at.ix, {}, {}) /\ SameUse(x, at.ix)
      /\ o \in DOMAIN at.ix.traj /\ i \in DOMAIN at.ix.traj[o].attn
    BY EnsurePositionKept
<1>2. StageAttention(x, o, i, h, supersede) = StageAt(at, o, i)
    BY DEF StageAttention
<1> HIDE DEF at
<1>3. IndexOK(StageAt(at, o, i).ix, {}, {}) /\ SameUse(at.ix, StageAt(at, o, i).ix)
    BY <1>1, StageAtKept
<1> QED BY <1>1, <1>2, <1>3 DEF SameUse

-----------------------------------------------------------------------------
(* Staging a tail.                                                         *)

\* The disk write of a trajectory's own tail goes to its own tail on disk.
LEMMA TailWrites ==
    ASSUME NEW x, NEW L, NEW M, Core(x, L, M), NEW o \in DOMAIN x.traj,
           NEW t, t = x.traj[o], t.tail # None
    PROVE  /\ t.tail \in DOMAIN x.hostBusy => x.hostBusy[t.tail] = t.diskTail
           /\ t.tail \in DOMAIN x.diskOfHost => x.diskOfHost[t.tail] = t.diskTail
           /\ t.tail \notin x.orphanedBusy
<1>1. TrajectoryOK(t, x.numSlots, x.numDiskSlots) /\ WritesOK(x) /\ TrajectoriesOK(x)
    BY DEF Core, TrajectoriesOK
<1>2. t.tail \in HostSlots(t) /\ Paired(t, t.tail, t.diskTail)
    BY HeldSlots DEF Paired
<1>3. t.tail \notin x.orphanedBusy
    BY <1>2, OwnApart
<1>4. ASSUME NEW p \in DOMAIN x.traj, NEW d, Paired(x.traj[p], t.tail, d)
      PROVE  d = t.diskTail
    <2>1. t.tail \in HostSlots(x.traj[p])
        <3>1. TrajectoryOK(x.traj[p], x.numSlots, x.numDiskSlots)
            BY <1>1 DEF TrajectoriesOK
        <3> QED BY <1>4, <3>1, PairedHeld
    <2>2. p = o
        <3> SUFFICES ASSUME p # o PROVE FALSE
            OBVIOUS
        <3>1. HostSlots(x.traj[p]) \cap HostOf(x, o) = {}
            BY HeldApart
        <3> QED BY <1>2, <2>1, <3>1 DEF HostOf
    <2> QED BY <1>1, <1>2, <1>4, <2>2, PairedHeld
<1>5. t.tail \in DOMAIN x.hostBusy => x.hostBusy[t.tail] = t.diskTail
    BY <1>1, <1>3, <1>4 DEF WritesOK
<1>6. t.tail \in DOMAIN x.diskOfHost => x.diskOfHost[t.tail] = t.diskTail
    BY <1>1, <1>4 DEF WritesOK
<1> QED BY <1>3, <1>5, <1>6

TailPlaced(x, y, o, s) ==
    /\ IndexOK(y, {}, {}) /\ SameUse(x, y) /\ s \in y.pendingWrite
    /\ o \in DOMAIN y.traj /\ y.traj[o].tail = s /\ y.traj[o].diskTail = None

\* The new tail takes the granted slot; the old one's slots are freed, or
\* orphaned while they are being written or read.
LEMMA NewTailKept ==
    ASSUME NEW x, NEW s, IndexOK(x, {s}, {}), s # None, NEW o \in DOMAIN x.traj,
           NEW boundary \in Nat, NEW h
    PROVE  TailPlaced(x, NewTail(x, o, boundary, h, s), o, s)
<1> DEFINE y == NewTail(x, o, boundary, h, s)
           r == RetireTail(x, o)
           t == x.traj[o]
           u == y.traj[o]
           v == [t EXCEPT !.diskTail = None, !.diskBoundary = 0, !.tail = s,
                          !.boundary = boundary, !.tailHash = h, !.tailPending = TRUE]
           old == {t.tail} \ {None}
           tied == {x.diskOfHost[q] : q \in old \cap DOMAIN x.diskOfHost}
           oldDisk == tied \cup ({t.diskTail} \ {None})
           busy == old \cap DOMAIN x.hostBusy
           filling == (old \ busy) \cap x.pendingWrite
           unconfirmed == oldDisk \cap x.diskPending
           A == old \ (busy \cup filling)
           B == oldDisk \ unconfirmed
<1>1. /\ Core(x, {s}, {}) /\ ListsOK(x) /\ DOMAIN x = IndexFields
      /\ x.numSlots \in Nat /\ x.numDiskSlots \in Nat
      /\ TrajectoryOK(t, x.numSlots, x.numDiskSlots) /\ PendingOK(x, {s}, {}) /\ WritesOK(x)
    BY DEF IndexOK, Core, ListsOK, TrajectoriesOK
<1>2. /\ SameUse(x, r) /\ DOMAIN r = IndexFields
      /\ r.free = Push(x.free, A) /\ r.diskFree = Push(x.diskFree, B)
      /\ r.order = x.order /\ r.traj = x.traj
      /\ r.pendingWrite = x.pendingWrite /\ r.diskPending = x.diskPending \ B
      /\ r.diskOfHost = Drop(x.diskOfHost, old)
      /\ r.orphanedPending = x.orphanedPending \cup filling
      /\ r.orphanedBusy = x.orphanedBusy \cup busy
      /\ r.orphanedDisk = x.orphanedDisk \cup unconfirmed
    BY <1>1 DEF RetireTail, FreeDisk, IndexFields, SameUse
<1>3. y = [r EXCEPT !.traj[o] = v]
    BY <1>2 DEF NewTail
<1> HIDE DEF r, y, v, old, tied, oldDisk, busy, filling, unconfirmed, A, B
<1>4. /\ SameUse(r, y) /\ DOMAIN y = IndexFields
      /\ y.free = r.free /\ y.diskFree = r.diskFree
      /\ y.order = r.order /\ DOMAIN y.traj = DOMAIN r.traj
      /\ y.pendingWrite = r.pendingWrite /\ y.diskPending = r.diskPending
      /\ y.diskOfHost = r.diskOfHost
      /\ y.orphanedPending = r.orphanedPending /\ y.orphanedBusy = r.orphanedBusy
      /\ y.orphanedDisk = r.orphanedDisk
      /\ \A p \in DOMAIN r.traj : p # o => y.traj[p] = r.traj[p]
    BY <1>2, <1>3 DEF IndexFields, SameUse
<1>5. /\ DOMAIN u = TrajectoryFields
      /\ u.attn = t.attn /\ u.diskAttn = t.diskAttn /\ u.hashes = t.hashes
      /\ u.tail = s /\ u.diskTail = None /\ u.boundary = boundary /\ u.tailPending = TRUE
    <2>1. u = v
        BY <1>2, <1>3 DEF IndexFields
    <2>2. /\ DOMAIN v = TrajectoryFields
          /\ v.attn = t.attn /\ v.diskAttn = t.diskAttn /\ v.hashes = t.hashes
          /\ v.tail = s /\ v.diskTail = None /\ v.boundary = boundary /\ v.tailPending = TRUE
        <3> HIDE DEF t
        <3> QED BY <1>1 DEF v, TrajectoryOK, TrajectoryFields
    <2> QED BY <2>1, <2>2
<1> HIDE DEF t, u
<1>6. /\ old = {t.tail} \ {None} /\ oldDisk = {t.diskTail} \ {None}
      /\ busy # {} => t.diskTail # None /\ x.hostBusy[t.tail] = t.diskTail /\ t.diskTail \in unconfirmed
    <2>1. \A q \in old : /\ q \in DOMAIN x.hostBusy => x.hostBusy[q] = t.diskTail
                         /\ q \in DOMAIN x.diskOfHost => x.diskOfHost[q] = t.diskTail
        BY <1>1, TailWrites DEF old, t
    <2>2. tied \subseteq {t.diskTail} \ {None}
        <3>1. \A q \in DOMAIN x.diskOfHost : x.diskOfHost[q] # None
            BY <1>1 DEF WritesOK, PendingOK, None
        <3> QED BY <2>1, <3>1 DEF tied
    <2>3. oldDisk = {t.diskTail} \ {None}
        BY <2>2 DEF oldDisk
    <2>4. ASSUME NEW q \in busy
          PROVE  t.diskTail # None /\ x.hostBusy[t.tail] = t.diskTail /\ t.diskTail \in unconfirmed
        <3>1. q = t.tail /\ q \in DOMAIN x.hostBusy /\ q \in old
            BY DEF busy, old
        <3>2. x.hostBusy[q] \in x.diskPending /\ x.hostBusy[q] # None
            BY <1>1, <3>1 DEF WritesOK, PendingOK, None
        <3> QED BY <2>1, <2>3, <3>1, <3>2 DEF unconfirmed
    <2> QED BY <2>3, <2>4 DEF old
<1>7. /\ A \cap x.pendingWrite = {} /\ A \cap DOMAIN x.hostBusy = {}
      /\ busy \subseteq DOMAIN x.hostBusy /\ filling \subseteq x.pendingWrite
      /\ busy \cap filling = {} /\ A \cup busy \cup filling = old
      /\ A \cap (busy \cup filling) = {}
      /\ B \cap x.diskPending = {} /\ unconfirmed \subseteq x.diskPending
      /\ B \cap unconfirmed = {} /\ B \cup unconfirmed = oldDisk
    BY DEF A, B, busy, filling, unconfirmed
<1>8. /\ s \in 1 .. x.numSlots /\ s \in x.pendingWrite /\ s \notin DOMAIN x.hostBusy
      /\ s \notin ToSet(x.free) \cup x.orphanedPending \cup x.orphanedBusy
    <2>1. s \notin ToSet(x.free) \cup x.orphanedPending \cup x.orphanedBusy
        BY <1>1 DEF Core, HostParted, Parted
    <2> QED BY <1>1, <2>1 DEF PendingOK
<1>9. /\ old \subseteq HostSlots(t) /\ oldDisk \subseteq DiskSlots(t)
      /\ HostSlots(t) \cap (ToSet(x.free) \cup x.orphanedPending \cup x.orphanedBusy \cup {s}) = {}
      /\ DiskSlots(t) \cap (ToSet(x.diskFree) \cup x.orphanedDisk) = {}
      /\ HostSlots(t) \subseteq 1 .. x.numSlots /\ DiskSlots(t) \subseteq 1 .. x.numDiskSlots
    <2>1. old \subseteq HostSlots(t) /\ oldDisk \subseteq DiskSlots(t)
        BY <1>6, HeldSlots
    <2>2. /\ HostSlots(t) \cap (ToSet(x.free) \cup x.orphanedPending \cup x.orphanedBusy \cup {s}) = {}
          /\ DiskSlots(t) \cap (ToSet(x.diskFree) \cup x.orphanedDisk) = {}
        BY <1>1, OwnApart DEF t
    <2>3. HostSlots(t) \subseteq 1 .. x.numSlots /\ DiskSlots(t) \subseteq 1 .. x.numDiskSlots
        BY <1>1, HeldInTier
    <2> QED BY <2>1, <2>2, <2>3
<1>10. HostSlots(u) = (HostSlots(t) \ old) \cup {s} /\ DiskSlots(u) = DiskSlots(t) \ oldDisk
    <2>1. /\ \A j \in DOMAIN t.attn : t.attn[j] = t.tail => t.tail = None
          /\ \A j \in DOMAIN t.diskAttn : t.diskAttn[j] = t.diskTail => t.diskTail = None
        BY <1>1 DEF TrajectoryOK, Once
    <2>2. \A q : q \in HostSlots(u) <=> q \in (HostSlots(t) \ old) \cup {s}
        BY <1>5, <1>6, <2>1, HeldSlots
    <2>3. \A q : q \in DiskSlots(u) <=> q \in DiskSlots(t) \ oldDisk
        BY <1>5, <1>6, <2>1, HeldSlots
    <2> QED BY <2>2, <2>3
<1>11. TrajectoryOK(u, x.numSlots, x.numDiskSlots)
    <2>1. s \in 0 .. x.numSlots /\ None \in 0 .. x.numDiskSlots
        BY <1>1, <1>8 DEF None
    <2>4. u.tailPending \in BOOLEAN
        BY Zenon, <1>5
    <2>2. Once(t.attn, s)
        <3>1. \A j \in DOMAIN t.attn : t.attn[j] # s
            BY <1>9, HeldSlots
        <3> QED BY <1>1, <3>1 DEF TrajectoryOK, Once
    <2>3. Once(t.diskAttn, None)
        BY <1>1 DEF TrajectoryOK, Once
    <2> QED BY <1>1, <1>5, <2>1, <2>2, <2>3, <2>4 DEF TrajectoryOK
<1>12. /\ y.free \in Seq(1 .. y.numSlots) /\ IsInjective(y.free)
       /\ ToSet(y.free) = ToSet(x.free) \cup A
       /\ y.diskFree \in Seq(1 .. y.numDiskSlots) /\ IsInjective(y.diskFree)
       /\ ToSet(y.diskFree) = ToSet(x.diskFree) \cup B
    <2>1. /\ ToSet(x.free) \cap A = {} /\ A \subseteq 1 .. x.numSlots
          /\ ToSet(x.diskFree) \cap B = {} /\ B \subseteq 1 .. x.numDiskSlots
        BY <1>7, <1>9
    <2>2. /\ Push(x.free, A) \in Seq(1 .. x.numSlots) /\ IsInjective(Push(x.free, A))
          /\ ToSet(Push(x.free, A)) = ToSet(x.free) \cup A
        BY <1>1, <2>1, PushedHost
    <2>3. /\ Push(x.diskFree, B) \in Seq(1 .. x.numDiskSlots) /\ IsInjective(Push(x.diskFree, B))
          /\ ToSet(Push(x.diskFree, B)) = ToSet(x.diskFree) \cup B
        BY <1>1, <2>1, PushedDisk
    <2> QED BY <1>2, <1>4, <2>2, <2>3 DEF SameUse
<1>13. /\ SameUse(x, y) /\ OthersSame(x, y, o) /\ DOMAIN y.traj = DOMAIN x.traj
       /\ y.pendingWrite = x.pendingWrite /\ y.diskPending = x.diskPending
       /\ y.orphanedPending = x.orphanedPending \cup filling
       /\ y.orphanedBusy = x.orphanedBusy \cup busy
       /\ y.orphanedDisk = x.orphanedDisk \cup unconfirmed
       /\ y.diskOfHost = Drop(x.diskOfHost, old)
    BY <1>2, <1>4, <1>7 DEF SameUse, OthersSame
<1>14. ListsOK(y)
    BY <1>1, <1>2, <1>4, <1>12 DEF ListsOK, SameUse
<1>15. PendingOK(y, {}, {})
    <2>1. y.numSlots = x.numSlots /\ y.numDiskSlots = x.numDiskSlots /\ y.hostBusy = x.hostBusy
        BY <1>13 DEF SameUse
    <2> QED BY <1>1, <1>7, <1>9, <1>12, <1>13, <2>1 DEF PendingOK
<1>16. /\ HostOf(x, o) = HostSlots(t) /\ HostOf(y, o) = (HostSlots(t) \ old) \cup {s}
       /\ DiskOf(x, o) = DiskSlots(t) /\ DiskOf(y, o) = DiskSlots(t) \ oldDisk
    BY <1>10, <1>13 DEF HostOf, DiskOf, t, u
<1>17. HostMoved(x, {s}, y, {}, o)
    <2>1. (x.orphanedPending \cup x.orphanedBusy) \cap ToSet(x.free) = {}
        BY <1>1 DEF Core, HostParted, Parted
    <2>2. y.orphanedPending \cup y.orphanedBusy
              = (x.orphanedPending \cup x.orphanedBusy) \cup (filling \cup busy)
        BY <1>13
    <2> HIDE DEF t
    <2> QED BY <1>7, <1>8, <1>9, <1>12, <1>13, <1>16, <2>1, <2>2 DEF HostMoved, SlotsMoved
<1>18. DiskMoved(x, {}, y, {}, o)
    <2>1. x.orphanedDisk \cap ToSet(x.diskFree) = {}
        BY <1>1 DEF Core, DiskParted, Parted
    <2> QED BY <1>7, <1>9, <1>12, <1>13, <1>16, <2>1 DEF DiskMoved, SlotsMoved
<1>19. WritesMoved(x, y, o)
    <2>1. ASSUME NEW q, NEW d, PairedIn(x, o, q, d), q # None
          PROVE  PairedIn(y, o, q, d) \/ (q \in old /\ q = t.tail /\ d = t.diskTail)
        <3>1. Paired(t, q, d)
            BY <2>1 DEF PairedIn, t
        <3>2. Paired(u, q, d) \/ (q = t.tail /\ d = t.diskTail)
            BY <1>5, <3>1 DEF Paired
        <3> QED BY <1>6, <1>13, <2>1, <3>2 DEF PairedIn, u
    <2>2. ASSUME NEW q \in DOMAIN x.hostBusy, PairedIn(x, o, q, x.hostBusy[q])
          PROVE  /\ x.hostBusy[q] \in y.diskPending
                 /\ \/ PairedIn(y, o, q, x.hostBusy[q])
                    \/ q \in y.orphanedBusy /\ x.hostBusy[q] \in y.orphanedDisk
        <3>1. q # None /\ x.hostBusy[q] \in x.diskPending
            BY <1>1 DEF WritesOK
        <3>2. CASE q \in old /\ q = t.tail /\ x.hostBusy[q] = t.diskTail
            <4>1. q \in busy
                BY <3>2 DEF busy
            <4> QED BY <1>6, <1>13, <3>1, <3>2, <4>1
        <3> QED BY <1>13, <2>1, <2>2, <3>1, <3>2
    <2>3. ASSUME NEW q \in DOMAIN y.diskOfHost
          PROVE  /\ q \in DOMAIN x.diskOfHost /\ y.diskOfHost[q] = x.diskOfHost[q]
                 /\ PairedIn(x, o, q, x.diskOfHost[q]) =>
                       PairedIn(y, o, q, x.diskOfHost[q]) /\ x.diskOfHost[q] \in y.diskPending
        <3>1. q \in DOMAIN x.diskOfHost /\ q \notin old /\ y.diskOfHost[q] = x.diskOfHost[q]
            BY <1>13 DEF Drop
        <3>2. q # None /\ x.diskOfHost[q] \in x.diskPending
            BY <1>1, <3>1 DEF WritesOK
        <3> QED BY <1>13, <2>1, <3>1, <3>2
    <2>4. x.orphanedDisk \subseteq y.diskPending
        BY <1>1, <1>13 DEF PendingOK
    <2> QED BY <1>13, <2>2, <2>3, <2>4 DEF WritesMoved
<1>20. Core(y, {}, {}) /\ \A p \in DOMAIN x.traj : p # o /\ TailOK(x, p) => TailOK(y, p)
    <2>1. o \in DOMAIN y.traj => TrajectoryOK(y.traj[o], y.numSlots, y.numDiskSlots)
        BY <1>11, <1>13 DEF SameUse, u
    <2>2. Move(x, {s}, {}, y, {}, {}, o)
        BY <1>13, <1>14, <1>15, <1>17, <1>18, <1>19, <2>1 DEF Move
    <2> QED BY <1>1, <2>2, MovedKept
<1>21. \A p \in DOMAIN y.traj : TailOK(y, p)
    <2>1. TailOK(y, o)
        BY <1>5, <1>8, <1>13 DEF TailOK, u
    <2> QED BY <1>13, <1>20, <2>1 DEF IndexOK
<1> QED BY <1>5, <1>8, <1>13, <1>20, <1>21 DEF TailPlaced, IndexOK, y, u

\* A granted disk slot becomes the disk copy of a tail staged on the host.
WithDiskTail(x, o, boundary, s, d) ==
    [x EXCEPT !.traj[o].diskTail = d, !.traj[o].diskBoundary = boundary,
              !.diskOfHost = Put(@, s, d)]

LEMMA AttachDiskTail ==
    ASSUME NEW x, NEW d, IndexOK(x, {}, {d}), NEW o \in DOMAIN x.traj,
           NEW s, x.traj[o].tail = s, s # None, s \in x.pendingWrite,
           x.traj[o].diskTail = None, d # None, NEW boundary
    PROVE  LET y == WithDiskTail(x, o, boundary, s, d)
           IN  IndexOK(y, {}, {}) /\ SameUse(x, y)
<1> DEFINE y == WithDiskTail(x, o, boundary, s, d)
           t == x.traj[o]
           u == y.traj[o]
<1>1. /\ Core(x, {}, {d}) /\ ListsOK(x) /\ DOMAIN x = IndexFields
      /\ x.numSlots \in Nat /\ x.numDiskSlots \in Nat
      /\ TrajectoryOK(t, x.numSlots, x.numDiskSlots) /\ PendingOK(x, {}, {d}) /\ WritesOK(x)
    BY DEF IndexOK, Core, ListsOK, TrajectoriesOK
<1>2. /\ SameUse(x, y) /\ DOMAIN y = IndexFields
      /\ y.free = x.free /\ y.diskFree = x.diskFree
      /\ y.pendingWrite = x.pendingWrite /\ y.diskPending = x.diskPending
      /\ y.orphanedPending = x.orphanedPending /\ y.orphanedBusy = x.orphanedBusy
      /\ y.orphanedDisk = x.orphanedDisk /\ y.diskOfHost = Put(x.diskOfHost, s, d)
      /\ y.order = x.order /\ DOMAIN y.traj = DOMAIN x.traj
      /\ \A p \in DOMAIN x.traj : p # o => y.traj[p] = x.traj[p]
    BY <1>1 DEF IndexFields, SameUse, WithDiskTail
<1>3. /\ DOMAIN u = TrajectoryFields /\ u.hashes = t.hashes
      /\ u.diskAttn = t.diskAttn /\ u.tail = t.tail
      /\ u.attn = t.attn /\ u.diskTail = d
      /\ u.tailPending = t.tailPending /\ u.boundary = t.boundary
    BY <1>1 DEF IndexFields, WithDiskTail, TrajectoryOK, TrajectoryFields
<1>4. t.tail = s /\ t.diskTail = None
    OBVIOUS
<1> HIDE DEF y, t, u
<1>5. d \in 1 .. x.numDiskSlots /\ d \in x.diskPending /\ s \notin DOMAIN x.hostBusy
    BY <1>1 DEF PendingOK
<1>6. /\ HostSlots(t) \cap (ToSet(x.free) \cup x.orphanedPending \cup x.orphanedBusy) = {}
      /\ DiskSlots(t) \cap (ToSet(x.diskFree) \cup x.orphanedDisk \cup {d}) = {}
    BY <1>1, OwnApart DEF t
<1>7. HostSlots(u) = HostSlots(t) /\ DiskSlots(u) = DiskSlots(t) \cup {d}
    <2>1. HostSlots(u) = HostSlots(t)
        BY <1>3 DEF HostSlots, AttnSlots
    <2>2. \A e : e \in DiskSlots(u) <=> e \in DiskSlots(t) \cup {d}
        BY <1>3, <1>4, HeldSlots
    <2> QED BY <2>1, <2>2
<1>8. TrajectoryOK(u, x.numSlots, x.numDiskSlots)
    <2>1. Once(u.diskAttn, u.diskTail)
        <3>1. \A j \in DOMAIN t.diskAttn : t.diskAttn[j] # d
            BY <1>6, HeldSlots
        <3> QED BY <1>1, <1>3, <3>1 DEF Once, TrajectoryOK
    <2>2. d \in 0 .. x.numDiskSlots
        BY <1>5
    <2> QED BY <1>1, <1>3, <2>1, <2>2 DEF TrajectoryOK
<1>9. /\ HostOf(x, o) = HostSlots(t) /\ HostOf(y, o) = HostSlots(t)
      /\ DiskOf(x, o) = DiskSlots(t) /\ DiskOf(y, o) = DiskSlots(t) \cup {d}
    BY <1>2, <1>7 DEF HostOf, DiskOf, t, u
<1>10. ListsOK(y) /\ PendingOK(y, {}, {}) /\ OthersSame(x, y, o)
    BY <1>1, <1>2 DEF ListsOK, PendingOK, SameUse, OthersSame
<1>11. HostMoved(x, {}, y, {}, o)
    BY <1>1, <1>2, <1>6, <1>9 DEF HostMoved, SlotsMoved, PendingOK
<1>12. DiskMoved(x, {d}, y, {}, o)
    <2>1. d \notin x.orphanedDisk /\ d \notin ToSet(x.diskFree)
        BY <1>1 DEF Core, DiskParted, Parted
    <2> QED BY <1>1, <1>2, <1>6, <1>9, <2>1 DEF DiskMoved, SlotsMoved, PendingOK
<1>13. WritesMoved(x, y, o)
    <2>1. ASSUME NEW r, NEW e, e # None, PairedIn(x, o, r, e) PROVE PairedIn(y, o, r, e)
        <3>1. Paired(t, r, e)
            BY <2>1 DEF PairedIn, t
        <3>2. Paired(u, r, e)
            BY <1>3, <1>4, <2>1, <3>1 DEF Paired
        <3> QED BY <1>2, <3>2 DEF PairedIn, u
    <2>2. /\ \A r \in DOMAIN x.hostBusy : x.hostBusy[r] # None /\ x.hostBusy[r] \in x.diskPending
          /\ \A r \in DOMAIN x.diskOfHost : x.diskOfHost[r] # None /\ x.diskOfHost[r] \in x.diskPending
          /\ x.orphanedDisk \subseteq x.diskPending
        BY <1>1 DEF WritesOK, PendingOK, None
    <2>3. PairedIn(y, o, s, d)
        BY <1>2, <1>3, <1>4 DEF PairedIn, Paired, u
    <2>4. ASSUME NEW r \in DOMAIN y.diskOfHost
          PROVE  \/ r \in DOMAIN x.diskOfHost /\ y.diskOfHost[r] = x.diskOfHost[r]
                 \/ r = s /\ y.diskOfHost[r] = d
        BY <1>2, <2>4 DEF Put
    <2> QED BY <1>2, <1>5, <2>1, <2>2, <2>3, <2>4 DEF WritesMoved
<1>14. Core(y, {}, {}) /\ \A p \in DOMAIN x.traj : p # o /\ TailOK(x, p) => TailOK(y, p)
    <2>1. o \in DOMAIN y.traj => TrajectoryOK(y.traj[o], y.numSlots, y.numDiskSlots)
        BY <1>2, <1>8 DEF SameUse, u
    <2>2. Move(x, {}, {d}, y, {}, {}, o)
        BY <1>2, <1>10, <1>11, <1>12, <1>13, <2>1 DEF Move
    <2> QED BY <1>1, <2>2, MovedKept
<1>15. \A p \in DOMAIN y.traj : TailOK(y, p)
    <2>1. TailOK(y, o)
        BY <1>2, <1>3, <1>4, <1>5 DEF TailOK, u
    <2> QED BY <1>2, <1>14, <2>1 DEF IndexOK
<1> QED BY <1>2, <1>14, <1>15 DEF IndexOK, y

\* stage_tail_states.
LEMMA StageTailKept ==
    ASSUME NEW x, IndexOK(x, {}, {}), NEW o, NEW boundary \in Nat, NEW h
    PROVE  LET got == StageTail(x, o, boundary, h)
           IN  IndexOK(got.ix, {}, {}) /\ SameUse(x, got.ix)
<1> DEFINE z == Open(x, o)
           got == AllocSlot(z, o)
           g == got.ix
           s == got.slot
           y == NewTail(g, o, boundary, h, s)
           granted == AllocDiskSlot(y, o)
           d == granted.slot
           r == StageTail(x, o, boundary, h)
<1>1. IndexOK(z, {}, {}) /\ SameUse(x, z) /\ o \in DOMAIN z.traj
    BY OpenKept DEF SameRest
<1>2. HostGranted(z, got, o)
    BY <1>1, AllocSlotKept
<1>3. r = IF s = None THEN got ELSE PairTail(granted, o, boundary, s)
    BY DEF StageTail, PlaceTail
<1> HIDE DEF z, got, r
<1>4. IndexOK(g, {s} \ {None}, {}) /\ SameUse(x, g) /\ o \in DOMAIN g.traj
    BY <1>1, <1>2 DEF HostGranted, SameUse
<1>5. CASE s = None
    <2>1. {s} \ {None} = {}
        BY <1>5
    <2> QED BY <1>3, <1>4, <1>5, <2>1 DEF r
<1>6. CASE s # None
    <2>1. {s} \ {None} = {s}
        BY <1>6
    <2>2. IndexOK(g, {s}, {})
        BY <1>4, <2>1
    <2>3. /\ IndexOK(y, {}, {}) /\ SameUse(g, y) /\ s \in y.pendingWrite
          /\ o \in DOMAIN y.traj /\ y.traj[o].tail = s /\ y.traj[o].diskTail = None
        <3>1. TailPlaced(g, y, o, s)
            BY Zenon, <1>4, <1>6, <2>2, NewTailKept
        <3> QED BY <3>1 DEF TailPlaced
    <2> HIDE DEF y
    <2>4. DiskGranted(y, granted, o)
        BY <2>3, AllocDiskSlotKept
    <2>5. r.ix = IF d = None THEN granted.ix ELSE WithDiskTail(granted.ix, o, boundary, s, d)
        BY <1>3, <1>6 DEF PairTail, WithDiskTail
    <2> HIDE DEF granted
    <2>6. /\ IndexOK(granted.ix, {}, {d} \ {None}) /\ SameUse(x, granted.ix) /\ s \in granted.ix.pendingWrite
          /\ o \in DOMAIN granted.ix.traj /\ granted.ix.traj[o].tail = s
          /\ granted.ix.traj[o].diskTail = None
        BY <1>4, <2>3, <2>4 DEF DiskGranted, SameUse
    <2>7. CASE d = None
        <3>1. {d} \ {None} = {}
            BY <2>7
        <3> QED BY <2>5, <2>6, <2>7, <3>1 DEF r
    <2>8. CASE d # None
        <3>1. {d} \ {None} = {d}
            BY <2>8
        <3>2. IndexOK(granted.ix, {}, {d})
            BY <2>6, <3>1
        <3>3. /\ IndexOK(WithDiskTail(granted.ix, o, boundary, s, d), {}, {})
              /\ SameUse(granted.ix, WithDiskTail(granted.ix, o, boundary, s, d))
            BY Zenon, <1>6, <2>6, <2>8, <3>2, AttachDiskTail
        <3> QED BY <2>5, <2>6, <2>8, <3>3 DEF r, SameUse
    <2> QED BY <2>7, <2>8
<1> QED BY <1>5, <1>6

-----------------------------------------------------------------------------
(* Writes that are confirmed.                                              *)

\* The sizes of the tiers and the disk writes in flight.
SameBusy(x, y) ==
    y.numSlots = x.numSlots /\ y.numDiskSlots = x.numDiskSlots /\ y.hostBusy = x.hostBusy

\* The trajectories' slots do not depend on whether a tail is pending.
SameSlots(x, y) ==
    /\ DOMAIN y.traj = DOMAIN x.traj
    /\ \A o \in DOMAIN x.traj :
          /\ HostSlots(y.traj[o]) = HostSlots(x.traj[o])
          /\ DiskSlots(y.traj[o]) = DiskSlots(x.traj[o])
          /\ \A s, d : Paired(y.traj[o], s, d) <=> Paired(x.traj[o], s, d)

\* A write that confirms clears its slot: a superseded one becomes free.
LEMMA ConfirmWritesKept ==
    ASSUME NEW x, Core(x, {}, {}), NEW slots,
           \A o \in DOMAIN x.traj : TailOK(x, o) \/ x.traj[o].tail \in slots
    PROVE  LET y == ConfirmWrites(x, slots)
           IN  /\ IndexOK(y, {}, {}) /\ SameUse(x, y)
               /\ y.pendingWrite \cap slots = {} /\ y.diskOfHost = x.diskOfHost
<1> DEFINE y == ConfirmWrites(x, slots)
           X == slots \cap x.orphanedPending
<1>1. /\ ListsOK(x) /\ DOMAIN x = IndexFields /\ x.numSlots \in Nat /\ x.numDiskSlots \in Nat
      /\ TrajectoriesOK(x) /\ HostParted(x, {}) /\ DiskParted(x, {})
      /\ PendingOK(x, {}, {}) /\ WritesOK(x)
    BY DEF Core, ListsOK
<1>2. /\ SameUse(x, y) /\ DOMAIN y = IndexFields
      /\ y.free = Push(x.free, X) /\ y.diskFree = x.diskFree
      /\ y.order = x.order /\ y.diskOfHost = x.diskOfHost
      /\ y.pendingWrite = x.pendingWrite \ slots /\ y.diskPending = x.diskPending
      /\ y.orphanedPending = x.orphanedPending \ slots /\ y.orphanedBusy = x.orphanedBusy
      /\ y.orphanedDisk = x.orphanedDisk
      /\ y.traj = [o \in DOMAIN x.traj |-> TailSettled(x.traj[o], x.pendingWrite \ slots)]
    BY <1>1 DEF ConfirmWrites, IndexFields, SameUse
<1> HIDE DEF y
<1>3. ASSUME NEW o \in DOMAIN x.traj
      PROVE  /\ DOMAIN y.traj[o] = TrajectoryFields
             /\ y.traj[o].hashes = x.traj[o].hashes /\ y.traj[o].attn = x.traj[o].attn
             /\ y.traj[o].diskAttn = x.traj[o].diskAttn /\ y.traj[o].tail = x.traj[o].tail
             /\ y.traj[o].diskTail = x.traj[o].diskTail /\ y.traj[o].boundary = x.traj[o].boundary
             /\ y.traj[o].tailPending =
                   (x.traj[o].tailPending /\ x.traj[o].tail \in x.pendingWrite \ slots)
    <2>1. DOMAIN x.traj[o] = TrajectoryFields /\ x.traj[o].tailPending \in BOOLEAN
        BY <1>1 DEF TrajectoriesOK, TrajectoryOK
    <2>2. y.traj[o] = TailSettled(x.traj[o], x.pendingWrite \ slots)
        BY <1>2
    <2> QED BY <2>1, <2>2 DEF TrajectoryFields, TailSettled
<1>4. DOMAIN y.traj = DOMAIN x.traj
    BY <1>2
<1>5. SameSlots(x, y)
    BY <1>3, <1>4 DEF SameSlots, HostSlots, AttnSlots, DiskSlots, Paired
<1>6. TrajectoriesOK(y)
    <2> SUFFICES ASSUME NEW o \in DOMAIN x.traj
                 PROVE  TrajectoryOK(y.traj[o], x.numSlots, x.numDiskSlots)
        BY <1>2, <1>4 DEF TrajectoriesOK, SameUse
    <2>1. TrajectoryOK(x.traj[o], x.numSlots, x.numDiskSlots)
        BY <1>1 DEF TrajectoriesOK
    <2>2. y.traj[o].tailPending \in BOOLEAN
        <3>1. y.traj[o].tailPending =
                 (x.traj[o].tailPending /\ x.traj[o].tail \in x.pendingWrite \ slots)
            BY <1>3
        <3> QED BY Zenon, <3>1
    <2> QED BY <1>3, <2>1, <2>2 DEF TrajectoryOK
<1>7. /\ X \cap ToSet(x.free) = {} /\ X \subseteq 1 .. x.numSlots
      /\ X \cap DOMAIN x.hostBusy = {} /\ X \cap x.orphanedBusy = {}
      /\ x.orphanedPending \ slots = x.orphanedPending \ X
    BY <1>1 DEF PendingOK
<1> HIDE DEF X
<1>8. /\ y.free \in Seq(1 .. y.numSlots) /\ IsInjective(y.free)
      /\ ToSet(y.free) = ToSet(x.free) \cup X
    <2>1. ToSet(x.free) \cap X = {}
        BY <1>7
    <2>2. /\ Push(x.free, X) \in Seq(1 .. x.numSlots) /\ IsInjective(Push(x.free, X))
          /\ ToSet(Push(x.free, X)) = ToSet(x.free) \cup X
        BY <1>1, <1>7, <2>1, PushedHost
    <2> QED BY <1>2, <2>2 DEF SameUse
<1>9. ListsOK(y)
    BY <1>1, <1>2, <1>4, <1>8 DEF ListsOK, SameUse
<1>10. PendingOK(y, {}, {})
    <2>1. y.numSlots = x.numSlots /\ y.numDiskSlots = x.numDiskSlots /\ y.hostBusy = x.hostBusy
        BY <1>2 DEF SameUse
    <2>2. X \subseteq slots
        BY DEF X
    <2> QED BY <1>1, <1>2, <1>7, <1>8, <2>1, <2>2 DEF PendingOK
<1>11. HostParted(y, {})
    <2>1. HostHeld(y) = HostHeld(x) /\ DOMAIN HostHeld(x) = DOMAIN x.traj
        BY <1>5 DEF HostHeld, SameSlots
    <2>2. y.orphanedPending \cup y.orphanedBusy = (x.orphanedPending \cup x.orphanedBusy) \ X
        BY <1>2, <1>7
    <2>3. X \subseteq x.orphanedPending
        BY DEF X
    <2>4. y.numSlots = x.numSlots
        BY <1>2 DEF SameUse
    <2> HIDE DEF HostHeld
    <2> QED BY <1>1, <1>7, <1>8, <2>1, <2>2, <2>3, <2>4 DEF HostParted, Parted
<1>12. DiskParted(y, {})
    <2>1. DiskHeld(y) = DiskHeld(x)
        BY <1>5 DEF DiskHeld, SameSlots
    <2> QED BY <1>1, <1>2, <2>1 DEF DiskParted, SameUse
<1>13. WritesOK(y)
    BY <1>1, <1>2, <1>5 DEF WritesOK, SameUse, SameSlots
<1>14. ASSUME NEW o \in DOMAIN x.traj PROVE TailOK(y, o)
    <2>1. TailOK(x, o) \/ x.traj[o].tail \in slots
        OBVIOUS
    <2>2. CASE x.traj[o].tail \in slots
        BY <1>3, <2>2 DEF TailOK
    <2>3. CASE TailOK(x, o)
        BY <1>2, <1>3, <2>3 DEF TailOK, SameUse
    <2> QED BY <2>1, <2>2, <2>3
<1>15. y.pendingWrite \cap slots = {}
    BY <1>2
<1> QED BY <1>2, <1>4, <1>6, <1>9, <1>10, <1>11, <1>12, <1>13, <1>14, <1>15 DEF IndexOK, Core, y

\* A disk slot is written from one host slot only.
LEMMA OneWrite ==
    ASSUME NEW x, NEW L, NEW M, Core(x, L, M), NEW p \in DOMAIN x.traj, NEW s, NEW d,
           Paired(x.traj[p], s, d), d # None, NEW r
    PROVE  /\ r \in DOMAIN x.hostBusy /\ x.hostBusy[r] = d => r = s
           /\ r \in DOMAIN x.diskOfHost /\ x.diskOfHost[r] = d => r = s
<1>1. TrajectoryOK(x.traj[p], x.numSlots, x.numDiskSlots) /\ WritesOK(x) /\ TrajectoriesOK(x)
    BY DEF Core, TrajectoriesOK
<1>2. d \in DiskSlots(x.traj[p])
    BY <1>1, PairedHeld
<1>3. d \notin x.orphanedDisk
    BY <1>2, OwnApart
<1>4. ASSUME NEW q \in DOMAIN x.traj, Paired(x.traj[q], r, d)
      PROVE  r = s
    <2>1. d \in DiskSlots(x.traj[q])
        <3>1. TrajectoryOK(x.traj[q], x.numSlots, x.numDiskSlots)
            BY <1>1 DEF TrajectoriesOK
        <3> QED BY <1>4, <3>1, PairedHeld
    <2>2. q = p
        <3> SUFFICES ASSUME q # p PROVE FALSE
            OBVIOUS
        <3>1. DiskSlots(x.traj[q]) \cap DiskOf(x, p) = {}
            BY HeldApart
        <3> QED BY <1>2, <2>1, <3>1 DEF DiskOf
    <2> QED BY <1>1, <1>4, <2>2, PairedHeld
<1>5. r \in DOMAIN x.hostBusy /\ x.hostBusy[r] = d => r = s
    BY <1>1, <1>3, <1>4 DEF WritesOK
<1>6. r \in DOMAIN x.diskOfHost /\ x.diskOfHost[r] = d => r = s
    BY <1>1, <1>4 DEF WritesOK
<1> QED BY <1>5, <1>6

\* The disk writes in flight, as pairs.
InFlight(x) == {<<s, x.hostBusy[s]>> : s \in DOMAIN x.hostBusy}

\* Confirmed rows go on to the disk: busy from now on, and nothing else moves.
LEMMA TakeDiskWritesKept ==
    ASSUME NEW x, IndexOK(x, {}, {}), NEW confirmed, confirmed \cap x.pendingWrite = {}
    PROVE  LET taken == TakeDiskWrites(x, confirmed)
           IN  /\ IndexOK(taken.ix, {}, {})
               /\ taken.ix.numSlots = x.numSlots /\ taken.ix.numDiskSlots = x.numDiskSlots
               /\ taken.ix.promotions = x.promotions
               /\ InFlight(taken.ix) = InFlight(x) \cup taken.writes
               /\ InFlight(x) \cap taken.writes = {}
<1> DEFINE y == TakeDiskWrites(x, confirmed).ix
           W == TakeDiskWrites(x, confirmed).writes
           due == confirmed \cap DOMAIN x.diskOfHost
<1>1. /\ Core(x, {}, {}) /\ ListsOK(x) /\ DOMAIN x = IndexFields
      /\ x.numSlots \in Nat /\ x.numDiskSlots \in Nat
      /\ TrajectoriesOK(x) /\ HostParted(x, {}) /\ DiskParted(x, {})
      /\ PendingOK(x, {}, {}) /\ WritesOK(x)
    BY DEF IndexOK, Core, ListsOK
<1>2. /\ y.numSlots = x.numSlots /\ y.numDiskSlots = x.numDiskSlots
      /\ y.promotions = x.promotions /\ DOMAIN y = IndexFields
      /\ y.free = x.free /\ y.diskFree = x.diskFree
      /\ y.order = x.order /\ y.traj = x.traj
      /\ y.pendingWrite = x.pendingWrite /\ y.diskPending = x.diskPending
      /\ y.orphanedPending = x.orphanedPending /\ y.orphanedBusy = x.orphanedBusy
      /\ y.orphanedDisk = x.orphanedDisk /\ y.diskOfHost = Drop(x.diskOfHost, due)
      /\ y.hostBusy = [s \in DOMAIN x.hostBusy \cup due |->
                          IF s \in due THEN x.diskOfHost[s] ELSE x.hostBusy[s]]
      /\ W = {<<s, x.diskOfHost[s]>> : s \in due}
    BY <1>1 DEF TakeDiskWrites, IndexFields
<1> HIDE DEF y, W
<1>3. ASSUME NEW s \in due
      PROVE  /\ s # None /\ s \notin DOMAIN x.hostBusy /\ s \notin x.pendingWrite
             /\ s \notin ToSet(x.free) /\ x.diskOfHost[s] \in x.diskPending
             /\ \E o \in DOMAIN x.traj : Paired(x.traj[o], s, x.diskOfHost[s])
    <2>1. s \in DOMAIN x.diskOfHost /\ s \in confirmed
        OBVIOUS
    <2>2. PICK o \in DOMAIN x.traj : Paired(x.traj[o], s, x.diskOfHost[s])
        BY <1>1, <2>1 DEF WritesOK
    <2>3. s # None /\ s \notin DOMAIN x.hostBusy /\ x.diskOfHost[s] \in x.diskPending
        BY <1>1, <2>1 DEF WritesOK
    <2>4. TrajectoryOK(x.traj[o], x.numSlots, x.numDiskSlots)
        BY <1>1 DEF TrajectoriesOK
    <2>5. s \in HostSlots(x.traj[o])
        BY <2>2, <2>3, <2>4, PairedHeld
    <2>6. s \notin ToSet(x.free)
        BY <1>1, <2>5, OwnApart
    <2> QED BY <2>1, <2>2, <2>3, <2>6
<1>4. ASSUME NEW s \in due, NEW r \in DOMAIN y.hostBusy, y.hostBusy[r] = x.diskOfHost[s]
      PROVE  r = s
    <2>1. PICK o \in DOMAIN x.traj : Paired(x.traj[o], s, x.diskOfHost[s])
        BY <1>3
    <2>2. x.diskOfHost[s] # None
        BY <1>1, <1>3 DEF PendingOK, None
    <2>3. r \in DOMAIN x.hostBusy /\ x.hostBusy[r] = x.diskOfHost[s] => r = s
        BY <1>1, <2>1, <2>2, OneWrite
    <2>4. r \in DOMAIN x.diskOfHost /\ x.diskOfHost[r] = x.diskOfHost[s] => r = s
        BY <1>1, <2>1, <2>2, OneWrite
    <2> QED BY <1>2, <1>4, <2>3, <2>4
<1>5. ListsOK(y) /\ TrajectoriesOK(y) /\ HostParted(y, {}) /\ DiskParted(y, {})
    BY <1>1, <1>2 DEF ListsOK, TrajectoriesOK, HostParted, HostHeld, DiskParted, DiskHeld
<1>6. PendingOK(y, {}, {})
    <2>1. DOMAIN y.hostBusy = DOMAIN x.hostBusy \cup due
        BY <1>2
    <2> QED BY <1>1, <1>2, <1>3, <2>1 DEF PendingOK
<1>7. WritesOK(y)
    <2>1. ASSUME NEW s \in DOMAIN y.hostBusy, NEW r \in DOMAIN y.hostBusy,
                 y.hostBusy[s] = y.hostBusy[r]
          PROVE  s = r
        <3>1. CASE s \in due
            BY <1>2, <1>4, <2>1, <3>1
        <3>2. CASE r \in due
            BY <1>2, <1>4, <2>1, <3>2
        <3>3. CASE s \notin due /\ r \notin due
            BY <1>1, <1>2, <2>1, <3>3 DEF WritesOK
        <3> QED BY <3>1, <3>2, <3>3
    <2>2. ASSUME NEW s \in DOMAIN y.hostBusy
          PROVE  /\ s # None /\ y.hostBusy[s] \in y.diskPending
                 /\ \/ s \in y.orphanedBusy /\ y.hostBusy[s] \in y.orphanedDisk
                    \/ \E o \in DOMAIN y.traj : Paired(y.traj[o], s, y.hostBusy[s])
        <3>1. CASE s \in due
            BY <1>2, <1>3, <3>1
        <3>2. CASE s \notin due
            BY <1>1, <1>2, <3>2 DEF WritesOK
        <3> QED BY <3>1, <3>2
    <2>3. ASSUME NEW s \in DOMAIN y.diskOfHost
          PROVE  /\ s # None /\ s \notin DOMAIN y.hostBusy
                 /\ y.diskOfHost[s] \in y.diskPending
                 /\ \E o \in DOMAIN y.traj : Paired(y.traj[o], s, y.diskOfHost[s])
        <3>1. s \in DOMAIN x.diskOfHost /\ s \notin due /\ y.diskOfHost[s] = x.diskOfHost[s]
            BY <1>2 DEF Drop
        <3> QED BY <1>1, <1>2, <3>1 DEF WritesOK
    <2> QED BY <2>1, <2>2, <2>3 DEF WritesOK
<1>8. \A o \in DOMAIN y.traj : TailOK(y, o)
    BY <1>2 DEF IndexOK, TailOK
<1>9. InFlight(y) = InFlight(x) \cup W /\ InFlight(x) \cap W = {}
    <2>1. \A s \in DOMAIN x.hostBusy : s \notin due /\ y.hostBusy[s] = x.hostBusy[s]
        BY <1>2, <1>3
    <2>2. \A s \in due : y.hostBusy[s] = x.diskOfHost[s]
        BY <1>2
    <2>3. DOMAIN y.hostBusy = DOMAIN x.hostBusy \cup due
        BY <1>2
    <2>4. InFlight(x) \cap W = {}
        BY <1>2, <2>1 DEF InFlight
    <2>5. W = {<<s, x.diskOfHost[s]>> : s \in due}
        BY <1>2
    <2> HIDE DEF due
    <2>6. \A w : w \in InFlight(y) => w \in InFlight(x) \cup W
        BY <2>1, <2>2, <2>3, <2>5 DEF InFlight
    <2>7. \A w : w \in InFlight(x) => w \in InFlight(y)
        BY <2>1, <2>3 DEF InFlight
    <2>8. \A w : w \in W => w \in InFlight(y)
        BY <2>2, <2>3, <2>5 DEF InFlight
    <2> QED BY <2>4, <2>6, <2>7, <2>8
<1> QED BY <1>2, <1>5, <1>6, <1>7, <1>8, <1>9 DEF IndexOK, Core, y, W

\* A disk write in flight from an orphaned row goes to an orphaned disk slot.
LEMMA OrphansTogether ==
    ASSUME NEW x, NEW L, NEW M, Core(x, L, M), NEW s \in DOMAIN x.hostBusy
    PROVE  s \in x.orphanedBusy <=> x.hostBusy[s] \in x.orphanedDisk
<1>1. WritesOK(x) /\ PendingOK(x, L, M) /\ TrajectoriesOK(x)
    BY DEF Core
<1>2. /\ s # None /\ x.hostBusy[s] # None
      /\ \/ s \in x.orphanedBusy /\ x.hostBusy[s] \in x.orphanedDisk
         \/ \E o \in DOMAIN x.traj : Paired(x.traj[o], s, x.hostBusy[s])
    BY <1>1 DEF WritesOK, PendingOK, None
<1>3. ASSUME NEW o \in DOMAIN x.traj, Paired(x.traj[o], s, x.hostBusy[s])
      PROVE  s \notin x.orphanedBusy /\ x.hostBusy[s] \notin x.orphanedDisk
    <2>1. TrajectoryOK(x.traj[o], x.numSlots, x.numDiskSlots)
        BY <1>1 DEF TrajectoriesOK
    <2>2. s \in HostSlots(x.traj[o]) /\ x.hostBusy[s] \in DiskSlots(x.traj[o])
        BY <1>2, <1>3, <2>1, PairedHeld
    <2> QED BY <2>2, OwnApart
<1> QED BY <1>2, <1>3

\* Confirmed disk writes are settled: rows and disk slots that were superseded
\* meanwhile become free.
LEMMA ConfirmDiskWritesKept ==
    ASSUME NEW x, IndexOK(x, {}, {}), NEW writes, writes \subseteq InFlight(x)
    PROVE  LET y == ConfirmDiskWrites(x, writes)
           IN  /\ IndexOK(y, {}, {})
               /\ y.numSlots = x.numSlots /\ y.numDiskSlots = x.numDiskSlots
               /\ InFlight(y) = InFlight(x) \ writes
<1> DEFINE y == ConfirmDiskWrites(x, writes)
           host == {w[1] : w \in writes}
           disks == {w[2] : w \in writes}
           done == {w[1] : w \in {v \in writes : v[1] \in DOMAIN x.hostBusy
                                                /\ x.hostBusy[v[1]] = v[2]}}
           freeHost == host \cap x.orphanedBusy
           freed == {w[2] : w \in {v \in writes : v[1] \in x.orphanedBusy
                                                  \/ v[2] \in x.orphanedDisk}}
           freeDisk == disks \cap x.orphanedDisk
<1>1. /\ Core(x, {}, {}) /\ ListsOK(x) /\ DOMAIN x = IndexFields
      /\ x.numSlots \in Nat /\ x.numDiskSlots \in Nat
      /\ TrajectoriesOK(x) /\ HostParted(x, {}) /\ DiskParted(x, {})
      /\ PendingOK(x, {}, {}) /\ WritesOK(x)
    BY DEF IndexOK, Core, ListsOK
<1>2. \A w \in writes : w = <<w[1], x.hostBusy[w[1]]>> /\ w[1] \in DOMAIN x.hostBusy
                        /\ w[2] = x.hostBusy[w[1]]
    BY DEF InFlight
<1>3. /\ host \subseteq DOMAIN x.hostBusy
      /\ \A s \in host : x.hostBusy[s] \in disks /\ <<s, x.hostBusy[s]>> \in writes
      /\ \A d \in disks : \E s \in host : d = x.hostBusy[s]
    BY <1>2
<1>4. done = host
    BY <1>2
<1>5. freed = freeDisk
    <2>1. \A s \in DOMAIN x.hostBusy : s \in x.orphanedBusy <=> x.hostBusy[s] \in x.orphanedDisk
        BY <1>1, OrphansTogether
    <2>2. \A w \in writes : w[1] \in x.orphanedBusy \/ w[2] \in x.orphanedDisk
                            <=> w[2] \in x.orphanedDisk
        BY <1>2, <2>1
    <2>3. freed = {w[2] : w \in {v \in writes : v[2] \in x.orphanedDisk}}
        BY <2>2
    <2> QED BY <2>3
<1>6. /\ y.numSlots = x.numSlots /\ y.numDiskSlots = x.numDiskSlots
      /\ y.promotions = x.promotions /\ DOMAIN y = IndexFields
      /\ y.free = Push(x.free, freeHost) /\ y.diskFree = Push(x.diskFree, freed)
      /\ y.order = x.order /\ y.traj = x.traj
      /\ y.pendingWrite = x.pendingWrite /\ y.diskPending = (x.diskPending \ disks) \ freed
      /\ y.orphanedPending = x.orphanedPending /\ y.orphanedBusy = x.orphanedBusy \ freeHost
      /\ y.orphanedDisk = x.orphanedDisk \ disks /\ y.diskOfHost = x.diskOfHost
      /\ y.hostBusy = Drop(x.hostBusy, done)
    BY <1>1 DEF ConfirmDiskWrites, FreeDisk, IndexFields
<1>7. \A d : d \in disks <=> \E s \in host : d = x.hostBusy[s]
    BY <1>3
<1> HIDE DEF y, host, disks, done, freed
<1>8. /\ y.hostBusy = Drop(x.hostBusy, host) /\ y.diskFree = Push(x.diskFree, freeDisk)
      /\ y.diskPending = x.diskPending \ disks
    BY <1>4, <1>5, <1>6
<1>9. /\ freeHost \subseteq x.orphanedBusy /\ freeHost \subseteq host
      /\ freeHost \cap ToSet(x.free) = {} /\ freeHost \subseteq DOMAIN x.hostBusy
      /\ freeDisk \cap ToSet(x.diskFree) = {} /\ freeDisk \subseteq x.diskPending
      /\ freeHost \subseteq 1 .. x.numSlots /\ freeDisk \subseteq 1 .. x.numDiskSlots
      /\ x.orphanedBusy \ freeHost = x.orphanedBusy \ host
      /\ x.orphanedDisk \ disks = x.orphanedDisk \ freeDisk
      /\ freeDisk \subseteq disks /\ freeDisk \subseteq x.orphanedDisk
    BY <1>1 DEF PendingOK, HostParted, Parted
<1> HIDE DEF freeHost, freeDisk
<1>10. /\ y.free \in Seq(1 .. y.numSlots) /\ IsInjective(y.free)
       /\ ToSet(y.free) = ToSet(x.free) \cup freeHost
    <2>1. ToSet(x.free) \cap freeHost = {}
        BY <1>9
    <2> QED BY <1>1, <1>6, <1>9, <2>1, PushedHost
<1>11. /\ y.diskFree \in Seq(1 .. y.numDiskSlots) /\ IsInjective(y.diskFree)
       /\ ToSet(y.diskFree) = ToSet(x.diskFree) \cup freeDisk
    <2>1. ToSet(x.diskFree) \cap freeDisk = {}
        BY <1>9
    <2>2. /\ Push(x.diskFree, freeDisk) \in Seq(1 .. x.numDiskSlots)
          /\ IsInjective(Push(x.diskFree, freeDisk))
          /\ ToSet(Push(x.diskFree, freeDisk)) = ToSet(x.diskFree) \cup freeDisk
        BY <1>1, <1>9, <2>1, PushedDisk
    <2> QED BY <1>6, <1>8, <2>2
<1>12. ListsOK(y) /\ TrajectoriesOK(y)
    BY <1>1, <1>6, <1>10, <1>11 DEF ListsOK, TrajectoriesOK
<1>13. DOMAIN y.hostBusy = DOMAIN x.hostBusy \ host
       /\ \A s \in DOMAIN y.hostBusy : y.hostBusy[s] = x.hostBusy[s] /\ x.hostBusy[s] \notin disks
    <2>1. DOMAIN y.hostBusy = DOMAIN x.hostBusy \ host
          /\ \A s \in DOMAIN y.hostBusy : y.hostBusy[s] = x.hostBusy[s]
        BY <1>8 DEF Drop
    <2>2. ASSUME NEW s \in DOMAIN y.hostBusy PROVE x.hostBusy[s] \notin disks
        BY <1>1, <1>3, <1>7, <2>1 DEF WritesOK
    <2> QED BY <2>1, <2>2
<1>14. PendingOK(y, {}, {})
    BY <1>1, <1>3, <1>6, <1>8, <1>9, <1>10, <1>11, <1>13 DEF PendingOK
<1>15. HostParted(y, {})
    <2>1. HostHeld(y) = HostHeld(x)
        BY <1>6 DEF HostHeld
    <2>2. x.orphanedPending \cap freeHost = {}
        BY <1>1, <1>9 DEF PendingOK
    <2>3. y.orphanedPending \cup y.orphanedBusy = (x.orphanedPending \cup x.orphanedBusy) \ freeHost
        BY <1>6, <2>2
    <2> QED BY <1>1, <1>6, <1>9, <1>10, <2>1, <2>3 DEF HostParted, Parted
<1>16. DiskParted(y, {})
    <2>1. DiskHeld(y) = DiskHeld(x)
        BY <1>6 DEF DiskHeld
    <2> QED BY <1>1, <1>6, <1>9, <1>11, <2>1 DEF DiskParted, Parted
<1>17. ASSUME NEW p \in DOMAIN x.traj, NEW s, NEW d, Paired(x.traj[p], s, d),
              d \in x.diskPending, s \notin DOMAIN x.hostBusy
       PROVE  d \notin disks
    <2>1. d # None
        BY <1>1, <1>17 DEF PendingOK, None
    <2>2. ASSUME NEW r \in host, d = x.hostBusy[r] PROVE FALSE
        <3>1. r \in DOMAIN x.hostBusy
            BY <1>3, <2>2
        <3>2. r \in DOMAIN x.hostBusy /\ x.hostBusy[r] = d => r = s
            BY <1>1, <1>17, <2>1, OneWrite
        <3> QED BY <1>17, <2>2, <3>1, <3>2
    <2> QED BY <1>7, <2>2
<1>18. WritesOK(y)
    <2>1. ASSUME NEW s \in DOMAIN y.hostBusy
          PROVE  /\ s # None /\ y.hostBusy[s] \in y.diskPending
                 /\ \/ s \in y.orphanedBusy /\ y.hostBusy[s] \in y.orphanedDisk
                    \/ \E o \in DOMAIN y.traj : Paired(y.traj[o], s, y.hostBusy[s])
        BY <1>1, <1>6, <1>8, <1>9, <1>13 DEF WritesOK
    <2>2. ASSUME NEW s \in DOMAIN y.diskOfHost
          PROVE  /\ s # None /\ s \notin DOMAIN y.hostBusy
                 /\ y.diskOfHost[s] \in y.diskPending
                 /\ \E o \in DOMAIN y.traj : Paired(y.traj[o], s, y.diskOfHost[s])
        BY <1>1, <1>6, <1>8, <1>13, <1>17 DEF WritesOK
    <2>3. \A s \in DOMAIN y.hostBusy : \A r \in DOMAIN y.hostBusy :
             y.hostBusy[s] = y.hostBusy[r] => s = r
        BY <1>1, <1>13 DEF WritesOK
    <2> QED BY <2>1, <2>2, <2>3 DEF WritesOK
<1>19. ASSUME NEW o \in DOMAIN y.traj PROVE TailOK(y, o)
    <2>1. o \in DOMAIN x.traj /\ TailOK(x, o) /\ y.traj[o] = x.traj[o]
        BY <1>6 DEF IndexOK
    <2>2. Paired(x.traj[o], x.traj[o].tail, x.traj[o].diskTail)
        BY DEF Paired
    <2>3. x.traj[o].tail \in x.pendingWrite => x.traj[o].tail \notin DOMAIN x.hostBusy
        BY <1>1 DEF PendingOK
    <2> QED BY <1>6, <1>8, <1>17, <2>1, <2>2, <2>3 DEF TailOK
<1>20. InFlight(y) = InFlight(x) \ writes
    <2>1. \A s \in DOMAIN y.hostBusy : <<s, x.hostBusy[s]>> \notin writes
        BY <1>1, <1>13 DEF host
    <2>2. \A w : w \in InFlight(y) => w \in InFlight(x) /\ w \notin writes
        BY <1>13, <2>1 DEF InFlight
    <2>3. \A w : w \in InFlight(x) /\ w \notin writes => w \in InFlight(y)
        BY <1>3, <1>13 DEF InFlight
    <2> QED BY <2>2, <2>3
<1> QED BY <1>6, <1>12, <1>14, <1>15, <1>16, <1>18, <1>19, <1>20 DEF IndexOK, Core, y

-----------------------------------------------------------------------------
(* Promotion.                                                              *)

WithTail(x, o, s) == [x EXCEPT !.traj[o].tail = s, !.traj[o].tailPending = TRUE]
TailAttached(x, y, o, s) ==
    /\ Core(y, {}, {}) /\ SameRest(x, y) /\ DOMAIN y.traj = DOMAIN x.traj
    /\ \A p \in DOMAIN y.traj : p # o => TailOK(y, p)
    /\ y.traj[o] = [x.traj[o] EXCEPT !.tail = s, !.tailPending = TRUE]

\* A granted slot becomes the host copy of a tail that has none.
LEMMA AttachTail ==
    ASSUME NEW x, NEW s, IndexOK(x, {s}, {}), NEW o \in DOMAIN x.traj,
           x.traj[o].tail = None, s # None
    PROVE  TailAttached(x, WithTail(x, o, s), o, s)
<1> DEFINE y == WithTail(x, o, s)
           t == x.traj[o]
           u == y.traj[o]
<1>1. /\ Core(x, {s}, {}) /\ ListsOK(x) /\ DOMAIN x = IndexFields
      /\ x.numSlots \in Nat /\ x.numDiskSlots \in Nat
      /\ TrajectoryOK(t, x.numSlots, x.numDiskSlots) /\ PendingOK(x, {s}, {}) /\ WritesOK(x)
    BY DEF IndexOK, Core, ListsOK, TrajectoriesOK
<1>2. /\ SameRest(x, y) /\ SameUse(x, y) /\ y.order = x.order /\ DOMAIN y.traj = DOMAIN x.traj
      /\ \A p \in DOMAIN x.traj : p # o => y.traj[p] = x.traj[p]
      /\ u = [t EXCEPT !.tail = s, !.tailPending = TRUE]
    BY <1>1 DEF IndexFields, SameUse, SameRest, WithTail
<1>3. /\ DOMAIN u = TrajectoryFields /\ u.hashes = t.hashes
      /\ u.attn = t.attn /\ u.tail = s
      /\ u.diskAttn = t.diskAttn /\ u.diskTail = t.diskTail
      /\ u.tailPending = TRUE /\ u.boundary = t.boundary
    BY <1>1, <1>2 DEF TrajectoryOK, TrajectoryFields
<1>4. t.tail = None
    OBVIOUS
<1> HIDE DEF y, t, u
<1>5. OthersSame(x, y, o)
    BY <1>2 DEF OthersSame
<1>6. s \in 1 .. x.numSlots /\ s \in x.pendingWrite /\ s \notin DOMAIN x.hostBusy
    BY <1>1 DEF PendingOK
<1>7. /\ HostSlots(t) \cap (ToSet(x.free) \cup x.orphanedPending \cup x.orphanedBusy \cup {s}) = {}
      /\ DiskSlots(t) \cap (ToSet(x.diskFree) \cup x.orphanedDisk) = {}
      /\ s \notin x.orphanedBusy
    BY <1>1, <1>6, OwnApart DEF t, PendingOK
<1>8. HostSlots(u) = HostSlots(t) \cup {s} /\ DiskSlots(u) = DiskSlots(t)
    <2>1. DiskSlots(u) = DiskSlots(t)
        BY <1>3 DEF DiskSlots
    <2>2. \A r : r \in HostSlots(u) <=> r \in HostSlots(t) \cup {s}
        BY <1>3, <1>4, HeldSlots
    <2> QED BY <2>1, <2>2
<1>9. TrajectoryOK(u, x.numSlots, x.numDiskSlots)
    <2>1. Once(u.attn, u.tail)
        <3>1. \A j \in DOMAIN t.attn : t.attn[j] # s
            BY <1>7, HeldSlots
        <3> QED BY <1>1, <1>3, <3>1 DEF Once, TrajectoryOK
    <2>2. u.tailPending \in BOOLEAN
        BY Zenon, <1>3
    <2>3. u.tail \in 0 .. x.numSlots
        BY <1>1, <1>3, <1>6
    <2> QED BY <1>1, <1>3, <2>1, <2>2, <2>3 DEF TrajectoryOK
<1>10. /\ HostOf(x, o) = HostSlots(t) /\ HostOf(y, o) = HostSlots(t) \cup {s}
       /\ DiskOf(x, o) = DiskSlots(t) /\ DiskOf(y, o) = DiskSlots(t)
    BY <1>2, <1>8 DEF HostOf, DiskOf, t, u
<1>11. ListsOK(y) /\ PendingOK(y, {}, {})
    BY <1>1, <1>2 DEF ListsOK, PendingOK, SameRest, SameUse
<1>12. HostMoved(x, {s}, y, {}, o)
    <2>1. s \notin ToSet(x.free) \cup x.orphanedPending \cup x.orphanedBusy
        BY <1>1 DEF Core, HostParted, Parted
    <2> QED BY <1>1, <1>2, <1>6, <1>7, <1>10, <2>1 DEF HostMoved, SlotsMoved, PendingOK, SameRest
<1>13. DiskMoved(x, {}, y, {}, o)
    BY <1>1, <1>2, <1>7, <1>10 DEF DiskMoved, SlotsMoved, PendingOK, SameRest
<1>14. WritesMoved(x, y, o)
    <2>1. ASSUME NEW r, NEW d, r # None, PairedIn(x, o, r, d) PROVE PairedIn(y, o, r, d)
        <3>1. Paired(t, r, d)
            BY <2>1 DEF PairedIn, t
        <3>2. Paired(u, r, d)
            BY <1>3, <1>4, <2>1, <3>1 DEF Paired
        <3> QED BY <1>2, <3>2 DEF PairedIn, u
    <2>2. /\ \A r \in DOMAIN x.hostBusy : r # None /\ x.hostBusy[r] \in x.diskPending
          /\ \A r \in DOMAIN x.diskOfHost : r # None /\ x.diskOfHost[r] \in x.diskPending
          /\ x.orphanedDisk \subseteq x.diskPending
        BY <1>1 DEF WritesOK, PendingOK
    <2> QED BY <1>2, <2>1, <2>2 DEF WritesMoved, SameRest
<1>15. Core(y, {}, {}) /\ \A p \in DOMAIN x.traj : p # o /\ TailOK(x, p) => TailOK(y, p)
    <2>1. o \in DOMAIN y.traj => TrajectoryOK(y.traj[o], y.numSlots, y.numDiskSlots)
        BY <1>2, <1>9 DEF SameUse, u
    <2>2. Move(x, {s}, {}, y, {}, {}, o)
        BY Zenon, <1>2, <1>5, <1>11, <1>12, <1>13, <1>14, <2>1 DEF Move
    <2> QED BY Zenon, <1>1, <2>2, MovedKept
<1>16. \A p \in DOMAIN y.traj : p # o => TailOK(y, p)
    BY <1>2, <1>15 DEF IndexOK
<1> QED BY <1>2, <1>15, <1>16 DEF TailAttached, y, u, t

\* A slot in limbo is not due for the disk.
LEMMA LimboNotDue ==
    ASSUME NEW x, NEW s, NEW M, Core(x, {s}, M)
    PROVE  s \notin DOMAIN x.diskOfHost
<1> SUFFICES ASSUME s \in DOMAIN x.diskOfHost PROVE FALSE
    OBVIOUS
<1>1. WritesOK(x) /\ TrajectoriesOK(x)
    BY DEF Core
<1>2. PICK o \in DOMAIN x.traj : s # None /\ Paired(x.traj[o], s, x.diskOfHost[s])
    BY <1>1 DEF WritesOK
<1>3. TrajectoryOK(x.traj[o], x.numSlots, x.numDiskSlots)
    BY <1>1 DEF TrajectoriesOK
<1>4. s \in HostSlots(x.traj[o])
    BY <1>2, <1>3, PairedHeld
<1> QED BY <1>4, OwnApart

\* The slots that a promotion has been granted.
Granted(acc) == {r[2] : r \in acc.reads}

Added(acc, acc2, s) == \E d : acc2.reads = acc.reads \cup {<<d, s>>}
LEMMA GrantedMore ==
    ASSUME NEW acc, NEW acc2, NEW s, Added(acc, acc2, s)
    PROVE  Granted(acc2) = Granted(acc) \cup {s}
<1> PICK d : acc2.reads = acc.reads \cup {<<d, s>>}
    BY DEF Added
<1>1. ASSUME NEW r \in acc2.reads PROVE r[2] \in Granted(acc) \cup {s}
    <2>1. CASE r \in acc.reads
        BY <2>1 DEF Granted
    <2>2. CASE r = <<d, s>>
        BY <2>2
    <2> QED BY <2>1, <2>2
<1>2. ASSUME NEW r \in acc.reads PROVE r[2] \in Granted(acc2)
    BY DEF Granted
<1>3. s \in Granted(acc2)
    <2>1. <<d, s>> \in acc2.reads /\ <<d, s>>[2] = s
        OBVIOUS
    <2> QED BY Zenon, <2>1 DEF Granted
<1>4. Granted(acc2) \subseteq Granted(acc) \cup {s}
    BY <1>1 DEF Granted
<1>5. Granted(acc) \subseteq Granted(acc2)
    BY <1>2 DEF Granted
<1> QED BY <1>3, <1>4, <1>5

\* They are o's, and to be written, and not due for the disk.
Filled(x, o, acc) ==
    /\ Core(acc.ix, {}, {}) /\ SameUse(x, acc.ix) /\ o \in DOMAIN acc.ix.traj
    /\ DOMAIN acc = {"ix", "reads", "ok"}
    /\ \A p \in DOMAIN acc.ix.traj :
          TailOK(acc.ix, p) \/ (p = o /\ acc.ix.traj[o].tail \in Granted(acc))
    /\ Granted(acc) \subseteq HostSlots(acc.ix.traj[o]) \cap acc.ix.pendingWrite
    /\ Granted(acc) \cap DOMAIN acc.ix.diskOfHost = {}

\* While the positions are filled nothing else of the trajectory changes.
Filling(x, o, acc) ==
    /\ IndexOK(acc.ix, {}, {}) /\ SameUse(x, acc.ix) /\ o \in DOMAIN acc.ix.traj
    /\ DOMAIN acc = {"ix", "reads", "ok"}
    /\ LET t == x.traj[o]
           u == acc.ix.traj[o]
       IN  /\ u.hashes = t.hashes /\ u.tail = t.tail /\ u.tailPending = t.tailPending
           /\ u.diskTail = t.diskTail
    /\ Granted(acc) \subseteq HostSlots(acc.ix.traj[o]) \cap acc.ix.pendingWrite
    /\ Granted(acc) \cap DOMAIN acc.ix.diskOfHost = {}

\* One position of a promotion: a granted slot more, or the room has run out.
LEMMA PromotePositionKept ==
    ASSUME NEW x, NEW o, NEW acc, Filling(x, o, acc), NEW i,
           Len(x.traj[o].hashes) \in Nat, i \in 1 .. Len(x.traj[o].hashes)
    PROVE  Filling(x, o, PromotePosition(acc, o, i))
<1> DEFINE got == AllocSlot(acc.ix, o)
           z == got.ix
           s == got.slot
           u == acc.ix.traj[o]
<1>1. /\ IndexOK(acc.ix, {}, {}) /\ o \in DOMAIN acc.ix.traj /\ SameUse(x, acc.ix)
      /\ DOMAIN acc = {"ix", "reads", "ok"}
      /\ u.hashes = x.traj[o].hashes /\ u.tail = x.traj[o].tail
      /\ u.tailPending = x.traj[o].tailPending /\ u.diskTail = x.traj[o].diskTail
      /\ Granted(acc) \subseteq HostSlots(u) \cap acc.ix.pendingWrite
      /\ Granted(acc) \cap DOMAIN acc.ix.diskOfHost = {}
    BY DEF Filling
<1>2. HostGranted(acc.ix, got, o)
    BY <1>1, AllocSlotKept
<1>3. CASE ~acc.ok \/ u.attn[i] # None
    BY <1>3 DEF PromotePosition
<1>4. ASSUME acc.ok, u.attn[i] = None, s = None
      PROVE  Filling(x, o, FillPosition(acc, got, o, i))
    <2> DEFINE acc2 == FillPosition(acc, got, o, i)
    <2>1. /\ acc2.ix = z /\ acc2.reads = acc.reads /\ DOMAIN acc2 = {"ix", "reads", "ok"}
        BY <1>1, <1>4 DEF FillPosition
    <2>2. Granted(acc2) = Granted(acc)
        BY <2>1 DEF Granted
    <2>3. {s} \ {None} = {}
        BY <1>4
    <2> HIDE DEF acc2, got, s, z
    <2>4. IndexOK(z, {}, {}) /\ SameUse(acc.ix, z) /\ o \in DOMAIN z.traj /\ z.traj[o] = u
          /\ z.pendingWrite = acc.ix.pendingWrite
          /\ DOMAIN z.diskOfHost \subseteq DOMAIN acc.ix.diskOfHost
        BY <1>1, <1>2, <2>3 DEF HostGranted, s, z
    <2>5. SameUse(x, z)
        BY <1>1, <2>4 DEF SameUse
    <2>6. Filling(x, o, acc2)
        BY <1>1, <2>1, <2>2, <2>4, <2>5 DEF Filling
    <2> QED BY <2>6 DEF acc2
<1>5. ASSUME acc.ok, u.attn[i] = None, s # None
      PROVE  Filling(x, o, FillPosition(acc, got, o, i))
    <2> DEFINE acc2 == FillPosition(acc, got, o, i)
               y == WithHost(z, o, i, s)
    <2>1. /\ acc2.ix = y /\ acc2.reads = acc.reads \cup {<<u.diskAttn[i], s>>}
          /\ DOMAIN acc2 = {"ix", "reads", "ok"}
        BY <1>1, <1>5 DEF FillPosition, WithHost
    <2>2. Granted(acc2) = Granted(acc) \cup {s}
        <3> HIDE DEF acc2, s, y
        <3>1. Added(acc, acc2, s)
            BY <2>1 DEF Added
        <3> QED BY Zenon, <3>1, GrantedMore
    <2>3. {s} \ {None} = {s}
        BY <1>5
    <2> HIDE DEF acc2, got, s, z
    <2>4. IndexOK(z, {s}, {}) /\ SameUse(acc.ix, z) /\ o \in DOMAIN z.traj /\ z.traj[o] = u
          /\ z.pendingWrite = acc.ix.pendingWrite \cup {s}
          /\ DOMAIN z.diskOfHost \subseteq DOMAIN acc.ix.diskOfHost
        BY <1>1, <1>2, <2>3 DEF HostGranted, s, z
    <2>5. TrajectoryOK(u, z.numSlots, z.numDiskSlots)
        BY <2>4 DEF IndexOK, Core, TrajectoriesOK
    <2>6. i \in DOMAIN u.attn /\ DOMAIN u.attn = 1 .. Len(u.hashes)
        BY <1>1, <2>5 DEF TrajectoryOK
    <2>7. HostAttached(z, y, o, i, s)
        <3>1. i \in DOMAIN z.traj[o].attn /\ z.traj[o].attn[i] = None
            BY <1>5, <2>4, <2>6
        <3> QED BY Zenon, <1>5, <2>4, <3>1, AttachHost
    <2>8. IndexOK(y, {}, {}) /\ SameRest(z, y) /\ o \in DOMAIN y.traj
          /\ y.traj[o] = [u EXCEPT !.attn[i] = s]
        BY <2>4, <2>7 DEF HostAttached
    <2> HIDE DEF y
    <2>9. /\ y.traj[o].hashes = u.hashes /\ y.traj[o].tail = u.tail
          /\ y.traj[o].tailPending = u.tailPending /\ y.traj[o].diskTail = u.diskTail
          /\ y.traj[o].attn = [u.attn EXCEPT ![i] = s]
        BY <2>5, <2>8 DEF TrajectoryOK, TrajectoryFields
    <2> DEFINE v == y.traj[o]
    <2> HIDE DEF v
    <2>10. HostSlots(u) \cup {s} \subseteq HostSlots(v)
        <3>1. /\ v.tail = u.tail /\ DOMAIN v.attn = DOMAIN u.attn /\ v.attn[i] = s
              /\ \A j \in DOMAIN u.attn : j # i => v.attn[j] = u.attn[j]
            BY <2>6, <2>9 DEF v
        <3>2. /\ HostSlots(u) \subseteq HostSlots(v)
              /\ s \in HostSlots(v)
            <4> HIDE DEF u
            <4>1. \A j \in DOMAIN u.attn : u.attn[j] # None => v.attn[j] = u.attn[j]
                BY <1>5, <3>1
            <4> QED BY <1>5, <2>6, <3>1, <4>1, HeldSlots
        <3> QED BY <3>2
    <2>11. s \notin DOMAIN z.diskOfHost
        BY <2>4, LimboNotDue DEF IndexOK
    <2>12. /\ SameUse(x, y) /\ y.pendingWrite = z.pendingWrite /\ y.diskOfHost = z.diskOfHost
        BY <1>1, <2>4, <2>8 DEF SameUse, SameRest
    <2>13. /\ Granted(acc2) \subseteq HostSlots(v) \cap y.pendingWrite
           /\ Granted(acc2) \cap DOMAIN y.diskOfHost = {}
        BY <1>1, <2>2, <2>4, <2>10, <2>11, <2>12
    <2>14. Filling(x, o, acc2)
        BY <1>1, <2>1, <2>8, <2>9, <2>12, <2>13 DEF Filling, v
    <2> QED BY <2>14 DEF acc2
<1> QED BY <1>3, <1>4, <1>5 DEF PromotePosition

\* The tail: a granted slot more, or the room has run out.
LEMMA PromoteTailKept ==
    ASSUME NEW x, NEW o, NEW acc, Filling(x, o, acc),
           x.traj[o].tail = None \/ ~x.traj[o].tailPending
    PROVE  Filled(x, o, PromoteTail(acc, o))
<1> DEFINE got == AllocSlot(acc.ix, o)
           z == got.ix
           s == got.slot
           u == acc.ix.traj[o]
<1>1. /\ IndexOK(acc.ix, {}, {}) /\ o \in DOMAIN acc.ix.traj /\ SameUse(x, acc.ix)
      /\ DOMAIN acc = {"ix", "reads", "ok"}
      /\ u.hashes = x.traj[o].hashes /\ u.tail = x.traj[o].tail
      /\ u.tailPending = x.traj[o].tailPending /\ u.diskTail = x.traj[o].diskTail
      /\ Granted(acc) \subseteq HostSlots(u) \cap acc.ix.pendingWrite
      /\ Granted(acc) \cap DOMAIN acc.ix.diskOfHost = {}
    BY DEF Filling
<1>2. HostGranted(acc.ix, got, o)
    BY <1>1, AllocSlotKept
<1>3. CASE ~acc.ok \/ (u.tail # None /\ ~u.tailPending) \/ u.diskTail = None
    <2>1. PromoteTail(acc, o) = acc
        BY <1>3 DEF PromoteTail
    <2> QED BY <1>1, <2>1 DEF Filled, IndexOK
<1>4. ASSUME u.tail = None, s = None
      PROVE  Filled(x, o, FillTail(acc, got, o))
    <2> DEFINE acc2 == FillTail(acc, got, o)
    <2>1. /\ acc2.ix = z /\ acc2.reads = acc.reads /\ DOMAIN acc2 = {"ix", "reads", "ok"}
        BY <1>1, <1>4 DEF FillTail
    <2>2. Granted(acc2) = Granted(acc)
        BY <2>1 DEF Granted
    <2>3. {s} \ {None} = {}
        BY <1>4
    <2> HIDE DEF acc2, got, s, z
    <2>4. IndexOK(z, {}, {}) /\ SameUse(acc.ix, z) /\ o \in DOMAIN z.traj /\ z.traj[o] = u
          /\ z.pendingWrite = acc.ix.pendingWrite
          /\ DOMAIN z.diskOfHost \subseteq DOMAIN acc.ix.diskOfHost
        BY <1>1, <1>2, <2>3 DEF HostGranted, s, z
    <2>5. SameUse(x, z)
        BY <1>1, <2>4 DEF SameUse
    <2>6. Filled(x, o, acc2)
        BY <1>1, <2>1, <2>2, <2>4, <2>5 DEF Filled, IndexOK
    <2> QED BY <2>6 DEF acc2
<1>5. ASSUME u.tail = None, s # None
      PROVE  Filled(x, o, FillTail(acc, got, o))
    <2> DEFINE acc2 == FillTail(acc, got, o)
               y == WithTail(z, o, s)
    <2>1. /\ acc2.ix = y /\ acc2.reads = acc.reads \cup {<<u.diskTail, s>>}
          /\ DOMAIN acc2 = {"ix", "reads", "ok"}
        BY <1>1, <1>5 DEF FillTail, WithTail
    <2>2. Granted(acc2) = Granted(acc) \cup {s}
        <3> HIDE DEF acc2, s, y
        <3>1. Added(acc, acc2, s)
            BY <2>1 DEF Added
        <3> QED BY Zenon, <3>1, GrantedMore
    <2>3. {s} \ {None} = {s}
        BY <1>5
    <2> HIDE DEF acc2, got, s, z
    <2>4. IndexOK(z, {s}, {}) /\ SameUse(acc.ix, z) /\ o \in DOMAIN z.traj /\ z.traj[o] = u
          /\ z.pendingWrite = acc.ix.pendingWrite \cup {s}
          /\ DOMAIN z.diskOfHost \subseteq DOMAIN acc.ix.diskOfHost
        BY <1>1, <1>2, <2>3 DEF HostGranted, s, z
    <2>5. TrajectoryOK(u, z.numSlots, z.numDiskSlots)
        BY <2>4 DEF IndexOK, Core, TrajectoriesOK
    <2>6. TailAttached(z, y, o, s)
        <3>1. z.traj[o].tail = None
            BY <1>4, <1>5, <2>4
        <3> QED BY Zenon, <1>5, <2>4, <3>1, AttachTail
    <2>7. /\ Core(y, {}, {}) /\ SameRest(z, y) /\ o \in DOMAIN y.traj
          /\ \A p \in DOMAIN y.traj : p # o => TailOK(y, p)
          /\ y.traj[o] = [u EXCEPT !.tail = s, !.tailPending = TRUE]
        BY <2>4, <2>6 DEF TailAttached
    <2> HIDE DEF y
    <2>8. y.traj[o].tail = s /\ y.traj[o].attn = u.attn
        BY <2>5, <2>7 DEF TrajectoryOK, TrajectoryFields
    <2> DEFINE v == y.traj[o]
    <2> HIDE DEF v
    <2>9. HostSlots(u) \cup {s} \subseteq HostSlots(v)
        <3>1. v.tail = s /\ v.attn = u.attn
            BY <2>8 DEF v
        <3> QED BY <1>5, <3>1, HeldSlots
    <2>10. s \notin DOMAIN z.diskOfHost
        BY <2>4, LimboNotDue DEF IndexOK
    <2>11. /\ SameUse(x, y) /\ y.pendingWrite = z.pendingWrite /\ y.diskOfHost = z.diskOfHost
        BY <1>1, <2>4, <2>7 DEF SameUse, SameRest
    <2>12. /\ Granted(acc2) \subseteq HostSlots(v) \cap y.pendingWrite
           /\ Granted(acc2) \cap DOMAIN y.diskOfHost = {} /\ s \in Granted(acc2)
        BY <1>1, <2>2, <2>4, <2>9, <2>10, <2>11
    <2>13. Filled(x, o, acc2)
        BY <2>1, <2>7, <2>8, <2>11, <2>12 DEF Filled, v
    <2> QED BY <2>13 DEF acc2
<1> QED BY <1>1, <1>3, <1>4, <1>5 DEF PromoteTail

\* A promotion without room for it all is undone: its slots are free again.
LEMMA RollbackKept ==
    ASSUME NEW x, Core(x, {}, {}), NEW o \in DOMAIN x.traj, NEW S,
           \A p \in DOMAIN x.traj : TailOK(x, p) \/ (p = o /\ x.traj[o].tail \in S),
           S \subseteq HostSlots(x.traj[o]) \cap x.pendingWrite,
           S \cap DOMAIN x.diskOfHost = {}
    PROVE  /\ IndexOK(RollbackPromotion(x, o, S), {}, {})
           /\ SameUse(x, RollbackPromotion(x, o, S))
<1> DEFINE y == RollbackPromotion(x, o, S)
           t == x.traj[o]
           u == y.traj[o]
<1>1. /\ ListsOK(x) /\ DOMAIN x = IndexFields
      /\ x.numSlots \in Nat /\ x.numDiskSlots \in Nat
      /\ TrajectoryOK(t, x.numSlots, x.numDiskSlots) /\ PendingOK(x, {}, {}) /\ WritesOK(x)
    BY DEF Core, ListsOK, TrajectoriesOK
<1>2. Len(t.attn) = Len(t.hashes) /\ DOMAIN t.attn = 1 .. Len(t.hashes)
    BY <1>1 DEF TrajectoryOK
<1>3. /\ SameUse(x, y) /\ DOMAIN y = IndexFields
      /\ y.free = Push(x.free, S) /\ y.diskFree = x.diskFree
      /\ y.order = x.order /\ y.diskOfHost = x.diskOfHost
      /\ y.pendingWrite = x.pendingWrite \ S /\ y.diskPending = x.diskPending
      /\ y.orphanedPending = x.orphanedPending /\ y.orphanedBusy = x.orphanedBusy
      /\ y.orphanedDisk = x.orphanedDisk /\ DOMAIN y.traj = DOMAIN x.traj
      /\ \A p \in DOMAIN x.traj : p # o => y.traj[p] = x.traj[p]
    BY <1>1 DEF RollbackPromotion, IndexFields, SameUse
<1>4. u = [t EXCEPT !.attn = [i \in 1 .. Len(t.attn) |->
                                 IF t.attn[i] \in S THEN None ELSE t.attn[i]],
                    !.tail = IF t.tail \in S THEN None ELSE t.tail]
    BY <1>1 DEF RollbackPromotion, IndexFields, TrajectoryOK, TrajectoryFields
<1>5. /\ DOMAIN u = TrajectoryFields /\ u.hashes = t.hashes
      /\ u.attn = [i \in 1 .. Len(t.hashes) |-> IF t.attn[i] \in S THEN None ELSE t.attn[i]]
      /\ u.tail = IF t.tail \in S THEN None ELSE t.tail
      /\ u.diskAttn = t.diskAttn /\ u.diskTail = t.diskTail
      /\ u.tailPending = t.tailPending /\ u.boundary = t.boundary
    BY <1>1, <1>2, <1>4 DEF TrajectoryOK, TrajectoryFields
<1> HIDE DEF y, t, u
<1>6. OthersSame(x, y, o)
    BY <1>3 DEF OthersSame
<1>7. /\ HostSlots(t) \cap (ToSet(x.free) \cup x.orphanedPending \cup x.orphanedBusy) = {}
      /\ DiskSlots(t) \cap (ToSet(x.diskFree) \cup x.orphanedDisk) = {}
    BY OwnApart DEF t
<1>8. /\ S \subseteq HostSlots(t) /\ S \subseteq x.pendingWrite /\ S \subseteq 1 .. x.numSlots
      /\ S \cap ToSet(x.free) = {} /\ S \cap DOMAIN x.hostBusy = {} /\ None \notin S
    BY <1>1, HeldSlots DEF t, PendingOK
<1>9. /\ y.free \in Seq(1 .. y.numSlots) /\ IsInjective(y.free)
      /\ ToSet(y.free) = ToSet(x.free) \cup S
    <2>1. ToSet(x.free) \cap S = {}
        BY <1>8
    <2>2. /\ Push(x.free, S) \in Seq(1 .. x.numSlots) /\ IsInjective(Push(x.free, S))
          /\ ToSet(Push(x.free, S)) = ToSet(x.free) \cup S
        BY <1>1, <1>8, <2>1, PushedHost
    <2> QED BY <1>3, <2>2 DEF SameUse
<1>10. HostSlots(u) = HostSlots(t) \ S /\ DiskSlots(u) = DiskSlots(t)
    <2>1. DiskSlots(u) = DiskSlots(t)
        BY <1>5 DEF DiskSlots
    <2>2. ASSUME NEW r, r \in HostSlots(u) PROVE r \in HostSlots(t) \ S
        BY <1>2, <1>5, <2>2, HeldSlots
    <2>3. ASSUME NEW r, r \in HostSlots(t) \ S PROVE r \in HostSlots(u)
        BY <1>2, <1>5, <2>3, HeldSlots
    <2> QED BY <2>1, <2>2, <2>3
<1>11. TrajectoryOK(u, x.numSlots, x.numDiskSlots)
    <2>1. u.attn \in [1 .. Len(u.hashes) -> 0 .. x.numSlots] /\ u.tail \in 0 .. x.numSlots
        BY <1>1, <1>5 DEF TrajectoryOK, None
    <2>2. Once(u.attn, u.tail)
        BY SMTT(30), <1>1, <1>2, <1>5 DEF Once, TrajectoryOK
    <2> QED BY <1>1, <1>5, <2>1, <2>2 DEF TrajectoryOK
<1>12. /\ HostOf(x, o) = HostSlots(t) /\ HostOf(y, o) = HostSlots(t) \ S
       /\ DiskOf(x, o) = DiskSlots(t) /\ DiskOf(y, o) = DiskSlots(t)
    BY <1>3, <1>10 DEF HostOf, DiskOf, t, u
<1>13. ListsOK(y)
    BY <1>1, <1>3, <1>9 DEF ListsOK, SameUse
<1>14. x.orphanedPending \cap S = {} /\ x.orphanedBusy \cap S = {}
    BY <1>7, <1>8
<1>15. PendingOK(y, {}, {})
    <2>1. y.numSlots = x.numSlots /\ y.numDiskSlots = x.numDiskSlots /\ y.hostBusy = x.hostBusy
        BY <1>3 DEF SameUse
    <2> QED BY <1>1, <1>3, <1>8, <1>9, <1>14, <2>1 DEF PendingOK
<1>16. HostMoved(x, {}, y, {}, o)
    <2> DEFINE F == ToSet(x.free)
               O == x.orphanedPending \cup x.orphanedBusy
               H == HostSlots(t)
    <2>1. /\ F \cap O = {} /\ H \cap (F \cup O) = {} /\ S \subseteq H
        BY <1>1, <1>7, <1>8 DEF PendingOK
    <2>2. /\ ToSet(y.free) = F \cup S /\ y.orphanedPending \cup y.orphanedBusy = O
          /\ x.pendingWrite \ y.pendingWrite \subseteq H
        BY <1>3, <1>8, <1>9
    <2> HIDE DEF F, O, H
    <2>3. SlotsMoved(F, O, {}, H, F \cup S, O, {}, H \ S)
        BY <2>1 DEF SlotsMoved
    <2> QED BY <1>12, <2>2, <2>3 DEF HostMoved, F, O, H
<1>17. DiskMoved(x, {}, y, {}, o)
    BY <1>1, <1>3, <1>7, <1>12 DEF DiskMoved, SlotsMoved, PendingOK
<1>18. WritesMoved(x, y, o)
    <2>1. ASSUME NEW r, NEW d, r \notin S, PairedIn(x, o, r, d) PROVE PairedIn(y, o, r, d)
        <3>1. Paired(t, r, d)
            BY <2>1 DEF PairedIn, t
        <3>2. Paired(u, r, d)
            BY <1>2, <1>5, <2>1, <3>1 DEF Paired
        <3> QED BY <1>3, <3>2 DEF PairedIn, u
    <2>2. /\ \A r \in DOMAIN x.hostBusy : r \notin S /\ x.hostBusy[r] \in x.diskPending
          /\ \A r \in DOMAIN x.diskOfHost : r \notin S /\ x.diskOfHost[r] \in x.diskPending
          /\ x.orphanedDisk \subseteq x.diskPending
        BY <1>1, <1>8 DEF WritesOK, PendingOK
    <2> QED BY <1>3, <2>1, <2>2 DEF WritesMoved
<1>19. Core(y, {}, {}) /\ \A p \in DOMAIN x.traj : p # o /\ TailOK(x, p) => TailOK(y, p)
    <2>1. o \in DOMAIN y.traj => TrajectoryOK(y.traj[o], y.numSlots, y.numDiskSlots)
        BY <1>3, <1>11 DEF SameUse, u
    <2>2. Move(x, {}, {}, y, {}, {}, o)
        BY Zenon, <1>3, <1>6, <1>13, <1>15, <1>16, <1>17, <1>18, <2>1 DEF Move
    <2> QED BY Zenon, <2>2, MovedKept
<1>20. TailOK(y, o)
    <2>1. CASE t.tail \in S
        BY <1>5, <2>1 DEF TailOK, u
    <2>2. CASE t.tail \notin S
        <3>1. TailOK(x, o)
            BY <2>2 DEF t
        <3> QED BY <1>3, <1>5, <2>2, <3>1 DEF TailOK, u, t, SameUse
    <2> QED BY <2>1, <2>2
<1>21. \A p \in DOMAIN y.traj : TailOK(y, p)
    BY <1>3, <1>19, <1>20
<1> QED BY <1>3, <1>19, <1>21 DEF IndexOK, y

\* The end of a promotion: recorded, or undone.
LEMMA SettlePromotionKept ==
    ASSUME NEW x, NEW o, NEW acc, Filled(x, o, acc), o \notin DOMAIN x.promotions
    PROVE  /\ IndexOK(SettlePromotion(acc, o).ix, {}, {})
           /\ SameBusy(x, SettlePromotion(acc, o).ix)
<1> DEFINE w == acc.ix
           S == Granted(acc)
           got == SettlePromotion(acc, o)
<1>1. /\ Core(w, {}, {}) /\ SameUse(x, w) /\ o \in DOMAIN w.traj
      /\ \A p \in DOMAIN w.traj : TailOK(w, p) \/ (p = o /\ w.traj[o].tail \in S)
      /\ S \subseteq HostSlots(w.traj[o]) \cap w.pendingWrite
      /\ S \cap DOMAIN w.diskOfHost = {} /\ DOMAIN acc = {"ix", "reads", "ok"}
    BY DEF Filled
<1>2. CASE ~acc.ok
    <2>1. got.ix = RollbackPromotion(w, o, S)
        BY <1>2 DEF SettlePromotion, Granted
    <2> HIDE DEF got, S, w
    <2>2. IndexOK(RollbackPromotion(w, o, S), {}, {}) /\ SameUse(w, RollbackPromotion(w, o, S))
        BY Zenon, <1>1, RollbackKept
    <2> QED BY <1>1, <2>1, <2>2 DEF SameUse, SameBusy, got
<1>3. CASE acc.ok /\ S = {}
    <2>1. got.ix = w
        BY <1>1, <1>3 DEF SettlePromotion, Granted, Promoting
    <2> QED BY <1>1, <1>3, <2>1 DEF IndexOK, SameUse, SameBusy
<1>4. CASE acc.ok /\ S # {}
    <2> DEFINE y == got.ix
    <2>1. got.ix = [w EXCEPT !.promotions = Put(w.promotions, o, S)]
        BY <1>1, <1>4 DEF SettlePromotion, Granted, Promoting
    <2>2. DOMAIN w = IndexFields
        BY <1>1 DEF Core, ListsOK
    <2> HIDE DEF got, S, w
    <2>3. /\ y.numSlots = w.numSlots /\ y.numDiskSlots = w.numDiskSlots
          /\ y.hostBusy = w.hostBusy /\ DOMAIN y = IndexFields
          /\ y.promotions = Put(w.promotions, o, S)
          /\ y.free = w.free /\ y.diskFree = w.diskFree
          /\ y.order = w.order /\ y.traj = w.traj
          /\ y.pendingWrite = w.pendingWrite /\ y.diskPending = w.diskPending
          /\ y.orphanedPending = w.orphanedPending /\ y.orphanedBusy = w.orphanedBusy
          /\ y.orphanedDisk = w.orphanedDisk /\ y.diskOfHost = w.diskOfHost
        BY <2>1, <2>2 DEF IndexFields
    <2> HIDE DEF y
    <2>4. Core(y, {}, {})
        BY <1>1, <2>2, <2>3 DEF Core, ListsOK, TrajectoriesOK, HostParted, HostHeld,
                          DiskParted, DiskHeld, PendingOK, WritesOK
    <2>5. /\ o \in DOMAIN y.promotions /\ y.promotions[o] = S
          /\ \A p \in DOMAIN w.promotions : p # o =>
                p \in DOMAIN y.promotions /\ y.promotions[p] = w.promotions[p]
        BY <2>3 DEF Put
    <2>6. ASSUME NEW p \in DOMAIN y.traj PROVE TailOK(y, p)
        <3>1. CASE p = o /\ w.traj[o].tail \in S
            BY <1>1, <2>3, <2>5, <3>1 DEF TailOK
        <3>2. CASE TailOK(w, p) /\ p # o
            BY <2>3, <2>5, <3>2 DEF TailOK
        <3>3. CASE TailOK(w, o) /\ p = o /\ w.traj[o].tail \notin S
            BY <1>1, <2>3, <2>5, <3>3 DEF TailOK, SameUse
        <3> QED BY <1>1, <2>3, <3>1, <3>2, <3>3
    <2>7. IndexOK(y, {}, {}) /\ SameBusy(x, y)
        BY <1>1, <2>3, <2>4, <2>6 DEF IndexOK, SameUse, SameBusy
    <2> QED BY <2>7 DEF y, got
<1> QED BY <1>2, <1>3, <1>4

\* The positions of a promotion, one after the other.
FillAll(x, o) ==
    FoldLeft(LAMBDA acc, i : PromotePosition(acc, o, i), [ix |-> x, reads |-> {}, ok |-> TRUE],
             [i \in 1 .. x.traj[o].boundary |-> i])

\* The steps of that fold.
LEMMA FillSteps ==
    ASSUME NEW x, NEW o, x.traj[o].boundary \in Nat
    PROVE  LET n == x.traj[o].boundary
           IN  \E P : /\ P[0] = [ix |-> x, reads |-> {}, ok |-> TRUE] /\ P[n] = FillAll(x, o)
                      /\ \A i \in 1 .. n : P[i] = PromotePosition(P[i - 1], o, i)
<1> DEFINE n == x.traj[o].boundary
           base == [ix |-> x, reads |-> {}, ok |-> TRUE]
           s == [i \in 1 .. n |-> i]
           G(g, m) == g = [t \in SUBSET (1..m) |->
                             IF t = {} THEN base
                             ELSE PromotePosition(g[t \ {Max(t)}], o, s[Max(t)])]
           Y == {m \in Nat : \E g : G(g, m)}
<1>1. Nat \subseteq Y
    <2> HIDE DEF base, s
    <2>1. 0 \in Y
        <3>1. G([t \in SUBSET (1..0) |-> base], 0)
            OBVIOUS
        <3> QED BY <3>1
    <2>2. ASSUME NEW m \in Nat, m \in Y PROVE m + 1 \in Y
        <3>1. PICK g : G(g, m)
            BY <2>2
        <3> DEFINE h == [t \in SUBSET (1..(m + 1)) |->
                           IF t = {} THEN base
                           ELSE PromotePosition(g[t \ {Max(t)}], o, s[Max(t)])]
        <3>2. \A t \in SUBSET (1..m) : h[t] = g[t]
            BY <3>1, Upto
        <3>3. \A t \in SUBSET (1..(m + 1)) : t # {} => t \ {Max(t)} \in SUBSET (1..m)
            BY MaxFacts
        <3>4. G(h, m + 1)
            BY <3>2, <3>3
        <3> HIDE DEF G, h
        <3> QED BY <3>4
    <2> HIDE DEF Y
    <2> QED BY <2>1, <2>2, SetInduction
<1> DEFINE iter == CHOOSE g : G(g, n)
<1>2. n \in Nat /\ DOMAIN s = 1..n /\ \A i \in 1 .. n : s[i] = i
    OBVIOUS
<1> HIDE DEF n
<1>3. G(iter, n)
    <2> HIDE DEF base, s
    <2> QED BY <1>1, <1>2
<1>4. FillAll(x, o) = iter[1..n]
    <2>1. FillAll(x, o) = FoldLeft(LAMBDA acc, i : PromotePosition(acc, o, i), base, s)
        BY DEF FillAll, n
    <2> HIDE DEF base, s
    <2> QED BY <1>2, <2>1 DEF FoldLeft, MapThenFoldSet
<1> HIDE DEF iter, base, s
<1> DEFINE P == [k \in 0..n |-> iter[1..k]]
<1>5. P[0] = base
    BY <1>2, <1>3
<1>6. ASSUME NEW i \in 1..n PROVE P[i] = PromotePosition(P[i - 1], o, i)
    <2>1. iter[1..i] = PromotePosition(iter[1..(i - 1)], o, s[i])
        <3>1. /\ Max(1..i) = i /\ 1..i # {} /\ 1..i \in SUBSET (1..n)
              /\ (1..i) \ {i} = 1..(i - 1)
            BY <1>2, PrefixSets
        <3> QED BY <1>3, <3>1
    <2> QED BY <1>2, <2>1
<1>7. P[n] = FillAll(x, o)
    BY <1>2, <1>4
<1> HIDE DEF P
<1> QED BY <1>5, <1>6, <1>7 DEF base, n

\* promote: a trajectory that is resumable and not being promoted.
Promotable(x, o) ==
    /\ o \in DOMAIN x.traj /\ o \notin DOMAIN x.promotions
    /\ x.traj[o].boundary <= Len(x.traj[o].hashes)
    /\ x.traj[o].tail = None \/ ~x.traj[o].tailPending

LEMMA PromoteKept ==
    ASSUME NEW x, IndexOK(x, {}, {}), NEW o, Promotable(x, o)
    PROVE  IndexOK(Promote(x, o).ix, {}, {}) /\ SameBusy(x, Promote(x, o).ix)
<1> DEFINE n == x.traj[o].boundary
           base == [ix |-> x, reads |-> {}, ok |-> TRUE]
<1>1. TrajectoryOK(x.traj[o], x.numSlots, x.numDiskSlots) /\ o \in DOMAIN x.traj
    BY DEF IndexOK, Core, TrajectoriesOK, Promotable
<1>2. n \in Nat /\ Len(x.traj[o].hashes) \in Nat /\ n <= Len(x.traj[o].hashes)
    BY <1>1 DEF TrajectoryOK, Promotable
<1>3. PICK P : /\ P[0] = base /\ P[n] = FillAll(x, o)
               /\ \A i \in 1 .. n : P[i] = PromotePosition(P[i - 1], o, i)
    BY <1>2, FillSteps
<1>4. Filling(x, o, base)
    <2>1. base.ix = x /\ DOMAIN base = {"ix", "reads", "ok"} /\ Granted(base) = {}
        BY DEF Granted
    <2> HIDE DEF base
    <2> QED BY <1>1, <2>1 DEF Filling, SameUse
<1> DEFINE Y == {m \in Nat : m <= n => Filling(x, o, P[m])}
<1> HIDE DEF base, n
<1>5. 0 \in Y
    BY <1>3, <1>4
<1>6. ASSUME NEW m \in Nat, m \in Y PROVE m + 1 \in Y
    <2> SUFFICES ASSUME m + 1 <= n PROVE Filling(x, o, P[m + 1])
        OBVIOUS
    <2>1. m + 1 \in 1 .. n /\ m <= n /\ (m + 1) - 1 = m /\ m + 1 \in 1 .. Len(x.traj[o].hashes)
        BY <1>2
    <2>2. Filling(x, o, P[m]) /\ P[m + 1] = PromotePosition(P[m], o, m + 1)
        BY <1>3, <1>6, <2>1
    <2>3. Filling(x, o, PromotePosition(P[m], o, m + 1))
        BY <1>2, <2>1, <2>2, PromotePositionKept
    <2> QED BY <2>2, <2>3
<1>7. n \in Y
    <2> HIDE DEF Y
    <2> QED BY <1>2, <1>5, <1>6, SetInduction
<1>8. Filling(x, o, FillAll(x, o))
    BY <1>2, <1>3, <1>7
<1>9. Filled(x, o, PromoteTail(FillAll(x, o), o))
    BY <1>8, PromoteTailKept DEF Promotable
<1>10. Promote(x, o) = SettlePromotion(PromoteTail(FillAll(x, o), o), o)
    BY DEF Promote, FillAll
<1> QED BY <1>9, <1>10, SettlePromotionKept DEF Promotable

\* confirm_promotion: the promoted copies are host copies like any other.
LEMMA ConfirmPromotionKept ==
    ASSUME NEW x, IndexOK(x, {}, {}), NEW o
    PROVE  IndexOK(ConfirmPromotion(x, o), {}, {}) /\ SameBusy(x, ConfirmPromotion(x, o))
<1>1. CASE o \notin DOMAIN x.promotions
    BY <1>1 DEF ConfirmPromotion, SameBusy
<1>2. CASE o \in DOMAIN x.promotions
    <2> DEFINE w == [x EXCEPT !.promotions = Drop(@, {o})]
               slots == x.promotions[o]
    <2>1. DOMAIN x = IndexFields /\ Core(x, {}, {})
        BY DEF IndexOK, Core, ListsOK
    <2>2. /\ w.numSlots = x.numSlots /\ w.numDiskSlots = x.numDiskSlots
          /\ w.hostBusy = x.hostBusy /\ DOMAIN w = IndexFields
          /\ w.promotions = Drop(x.promotions, {o})
          /\ w.free = x.free /\ w.diskFree = x.diskFree
          /\ w.order = x.order /\ w.traj = x.traj
          /\ w.pendingWrite = x.pendingWrite /\ w.diskPending = x.diskPending
          /\ w.orphanedPending = x.orphanedPending /\ w.orphanedBusy = x.orphanedBusy
          /\ w.orphanedDisk = x.orphanedDisk /\ w.diskOfHost = x.diskOfHost
        BY <2>1 DEF IndexFields
    <2>3. ConfirmPromotion(x, o) = ConfirmWrites(w, slots)
        BY <1>2 DEF ConfirmPromotion
    <2> HIDE DEF w, slots
    <2>4. Core(w, {}, {})
        BY <2>1, <2>2 DEF Core, ListsOK, TrajectoriesOK, HostParted, HostHeld,
                          DiskParted, DiskHeld, PendingOK, WritesOK
    <2>5. \A p : p \in DOMAIN x.promotions /\ p # o =>
                    p \in DOMAIN w.promotions /\ w.promotions[p] = x.promotions[p]
        BY <2>2 DEF Drop
    <2>6. ASSUME NEW p \in DOMAIN w.traj PROVE TailOK(w, p) \/ w.traj[p].tail \in slots
        <3>1. TailOK(x, p)
            BY <2>2 DEF IndexOK
        <3>2. CASE p = o
            BY <2>2, <3>1, <3>2 DEF TailOK, slots
        <3>3. CASE p # o
            BY <2>2, <2>5, <3>1, <3>3 DEF TailOK
        <3> QED BY <3>2, <3>3
    <2>7. IndexOK(ConfirmWrites(w, slots), {}, {}) /\ SameUse(w, ConfirmWrites(w, slots))
        BY <2>4, <2>6, ConfirmWritesKept
    <2> QED BY <2>2, <2>3, <2>7 DEF SameUse, SameBusy
<1> QED BY <1>1, <1>2

-----------------------------------------------------------------------------
(* Lookup.                                                                 *)

\* Among finitely deep hits there is a deepest one, and of those a first.
LEMMA DeepestHit ==
    ASSUME NEW hits, hits \subseteq Nat, hits # {}, NEW b \in Nat,
           NEW depth, \A k \in hits : depth[k] \in 0 .. b
    PROVE  \E k \in hits : \A j \in hits :
              depth[j] < depth[k] \/ (depth[j] = depth[k] /\ k <= j)
<1> DEFINE short == {b - depth[k] : k \in hits}
<1>1. short \subseteq Nat /\ short # {}
    <2>1. \A k \in hits : b - depth[k] \in Nat
        OBVIOUS
    <2> QED BY <2>1
<1>2. PICK m \in short : \A e \in short : m <= e
    <2> HIDE DEF short
    <2> QED BY <1>1, LeastElement
<1>3. PICK top \in hits : m = b - depth[top]
    BY <1>2
<1>4. \A j \in hits : depth[j] <= depth[top]
    <2> TAKE j \in hits
    <2>1. m <= b - depth[j]
        BY <1>2
    <2> QED BY <1>3, <2>1
<1> DEFINE deep == {k \in hits : depth[k] = depth[top]}
<1>5. PICK k \in deep : \A j \in deep : k <= j
    <2>1. deep \subseteq Nat /\ deep # {}
        OBVIOUS
    <2> HIDE DEF deep
    <2> QED BY <2>1, LeastElement
<1>6. ASSUME NEW j \in hits PROVE depth[j] < depth[k] \/ (depth[j] = depth[k] /\ k <= j)
    <2>1. CASE j \in deep
        BY <1>5, <2>1
    <2>2. CASE j \notin deep
        BY <1>4, <1>5, <2>2
    <2> QED BY <2>1, <2>2
<1> QED BY <1>5, <1>6

\* A lookup touches the trajectory it finds, or changes nothing.
Found(x, got) ==
    /\ IndexOK(got.ix, {}, {}) /\ SameRest(x, got.ix) /\ got.ix.traj = x.traj
    /\ got.hit => got.owner \in DOMAIN x.traj

LEMMA LookupKept ==
    ASSUME NEW x, IndexOK(x, {}, {}), NEW chain, Len(chain) \in Nat
    PROVE  LET got == Lookup(x, chain)
           IN  Found(x, got) /\ (got.hit => Matches(x, got.owner, chain))
<1> DEFINE hits == {k \in 1 .. Len(x.order) : Matches(x, x.order[k], chain)}
           depth(k) == x.traj[x.order[k]].boundary
           Best(k) == k \in hits /\ \A j \in hits :
                         depth(j) < depth(k) \/ (depth(j) = depth(k) /\ k <= j)
           best == CHOOSE k \in hits : \A j \in hits :
                      depth(j) < depth(k) \/ (depth(j) = depth(k) /\ k <= j)
<1>1. x.order \in Seq(DOMAIN x.traj) /\ TrajectoriesOK(x)
    BY DEF IndexOK, Core, ListsOK
<1>2. CASE hits = {}
    BY <1>2 DEF Lookup, Found, SameRest, SameUse
<1>3. CASE hits # {}
    <2>1. hits \subseteq Nat
        BY <1>1
    <2> DEFINE d == [k \in hits |-> depth(k)]
    <2>2. \A k \in hits : d[k] \in 0 .. Len(chain)
        <3>1. ASSUME NEW k \in hits PROVE depth(k) \in 0 .. Len(chain)
            <4>1. x.order[k] \in DOMAIN x.traj /\ Matches(x, x.order[k], chain)
                BY <1>1
            <4>2. 0 < depth(k) /\ depth(k) <= Len(chain)
                BY <4>1 DEF Matches
            <4>3. depth(k) \in Nat
                BY <1>1, <4>1 DEF TrajectoriesOK, TrajectoryOK
            <4> QED BY <4>2, <4>3
        <3> QED BY <3>1
    <2>3. \E k \in hits : \A j \in hits : d[j] < d[k] \/ (d[j] = d[k] /\ k <= j)
        <3> HIDE DEF hits, d
        <3> QED BY <1>3, <2>1, <2>2, DeepestHit
    <2>4. best \in hits
        <3>1. \E k \in hits : \A j \in hits :
                 depth(j) < depth(k) \/ (depth(j) = depth(k) /\ k <= j)
            <4> HIDE DEF hits, depth
            <4> QED BY <2>3
        <3> HIDE DEF hits, depth
        <3> QED BY <3>1
    <2>5. x.order[best] \in DOMAIN x.traj /\ Matches(x, x.order[best], chain)
        <3>1. \A k \in hits : x.order[k] \in DOMAIN x.traj /\ Matches(x, x.order[k], chain)
            BY <1>1
        <3> HIDE DEF best, hits
        <3> QED BY <2>4, <3>1
    <2>6. Lookup(x, chain) = [ix |-> Touch(x, x.order[best]), hit |-> TRUE,
                              owner |-> x.order[best]]
        BY <1>3 DEF Lookup
    <2> HIDE DEF best, hits
    <2>7. /\ IndexOK(Touch(x, x.order[best]), {}, {})
          /\ SameRest(x, Touch(x, x.order[best])) /\ Touch(x, x.order[best]).traj = x.traj
        BY <2>5, TouchKept
    <2> QED BY <2>5, <2>6, <2>7 DEF Found
<1> QED BY <1>2, <1>3

\* The common prefix is a number of blocks.
LEMMA PartialDepthIn ==
    ASSUME NEW x, NEW o, NEW chain, Len(chain) \in Nat
    PROVE  PartialDepth(x, o, chain) \in 0 .. Len(chain)
<1> DEFINE fits(i) == /\ i <= Len(x.traj[o].attn) /\ i <= Len(chain)
                      /\ x.traj[o].attn[i] # None
                      /\ x.traj[o].hashes[i] = chain[i]
                      /\ x.traj[o].attn[i] \notin x.pendingWrite
           S == {i \in 1 .. Len(chain) : \A j \in 1 .. i : fits(j)}
<1>1. PartialDepth(x, o, chain) = Cardinality(S)
    BY DEF PartialDepth
<1>2. S \subseteq 1 .. Len(chain)
    OBVIOUS
<1> HIDE DEF S
<1>3. IsFiniteSet(1 .. Len(chain)) /\ Cardinality(1 .. Len(chain)) = Len(chain)
    <2>1. \A n \in Nat : IsFiniteSet(1 .. n) /\ Cardinality(1 .. n) = n
        BY FS_Interval
    <2> QED BY <2>1
<1>4. IsFiniteSet(S) /\ Cardinality(S) <= Cardinality(1 .. Len(chain))
    BY <1>2, <1>3, FS_Subset
<1>5. Cardinality(S) \in Nat
    BY <1>4, FS_CardinalityType
<1> QED BY <1>1, <1>3, <1>4, <1>5

LEMMA LookupPartialKept ==
    ASSUME NEW x, IndexOK(x, {}, {}), NEW chain, Len(chain) \in Nat
    PROVE  LET got == LookupPartial(x, chain)
           IN  Found(x, got) /\ (got.hit => got.n \in Nat)
<1> DEFINE depth(k) == IF x.order[k] \in DOMAIN x.promotions THEN 0
                       ELSE PartialDepth(x, x.order[k], chain)
           hits == {k \in 1 .. Len(x.order) : depth(k) > 0}
           best == CHOOSE k \in hits : \A j \in hits :
                      depth(j) < depth(k) \/ (depth(j) = depth(k) /\ k <= j)
<1>1. x.order \in Seq(DOMAIN x.traj)
    BY DEF IndexOK, Core, ListsOK
<1>2. \A k : depth(k) \in 0 .. Len(chain)
    BY PartialDepthIn
<1>3. LookupPartial(x, chain) =
         IF hits = {} THEN [ix |-> x, hit |-> FALSE]
         ELSE [ix |-> Touch(x, x.order[best]), hit |-> TRUE,
               owner |-> x.order[best], n |-> depth(best)]
    BY DEF LookupPartial
<1> HIDE DEF depth
<1>4. CASE hits = {}
    BY <1>3, <1>4 DEF Found, SameRest, SameUse
<1>5. CASE hits # {}
    <2>1. hits \subseteq Nat
        BY <1>1
    <2> DEFINE d == [k \in hits |-> depth(k)]
    <2>2. \A k \in hits : d[k] \in 0 .. Len(chain)
        BY <1>2
    <2>3. \E k \in hits : \A j \in hits : d[j] < d[k] \/ (d[j] = d[k] /\ k <= j)
        <3> HIDE DEF hits, d
        <3> QED BY <1>5, <2>1, <2>2, DeepestHit
    <2>4. best \in hits
        <3>1. \E k \in hits : \A j \in hits :
                 depth(j) < depth(k) \/ (depth(j) = depth(k) /\ k <= j)
            <4> HIDE DEF hits
            <4> QED BY <2>3
        <3> HIDE DEF hits
        <3> QED BY <3>1
    <2>5. x.order[best] \in DOMAIN x.traj /\ depth(best) \in Nat
        <3>1. \A k \in hits : x.order[k] \in DOMAIN x.traj /\ depth(k) \in Nat
            BY <1>1, <1>2
        <3> HIDE DEF best, hits
        <3> QED BY <2>4, <3>1
    <2>6. LookupPartial(x, chain) = [ix |-> Touch(x, x.order[best]), hit |-> TRUE,
                                     owner |-> x.order[best], n |-> depth(best)]
        BY <1>3, <1>5
    <2> HIDE DEF best, hits
    <2>7. /\ IndexOK(Touch(x, x.order[best]), {}, {})
          /\ SameRest(x, Touch(x, x.order[best])) /\ Touch(x, x.order[best]).traj = x.traj
        BY <2>5, TouchKept
    <2> QED BY <2>5, <2>6, <2>7 DEF Found
<1> QED BY <1>4, <1>5

-----------------------------------------------------------------------------
(* Staging what the requests have filled.                                  *)

\* Attention-only models supersede diverged blocks, which takes a tier of its
\* own: with a disk behind it the rows on their way there would be freed.
HostOnlyIfPartial == AttentionOnly => config.numDisk = 0

StageAll(acc, r, todo) == FoldLeft(LAMBDA a, i : StageBlock(a, r, i), acc, todo)

\* The steps of that fold.
LEMMA StageSteps ==
    ASSUME NEW base, NEW r, NEW S, NEW s \in Seq(S)
    PROVE  \E P : /\ P[0] = base /\ P[Len(s)] = StageAll(base, r, s)
                  /\ \A i \in 1..Len(s) : P[i] = StageBlock(P[i - 1], r, s[i])
<1> DEFINE n == Len(s)
           G(g, m) == g = [t \in SUBSET (1..m) |->
                             IF t = {} THEN base ELSE StageBlock(g[t \ {Max(t)}], r, s[Max(t)])]
           Y == {m \in Nat : \E g : G(g, m)}
<1>1. Nat \subseteq Y
    <2>1. 0 \in Y
        <3>1. G([t \in SUBSET (1..0) |-> base], 0)
            OBVIOUS
        <3> QED BY <3>1
    <2>2. ASSUME NEW m \in Nat, m \in Y PROVE m + 1 \in Y
        <3>1. PICK g : G(g, m)
            BY <2>2
        <3> DEFINE h == [t \in SUBSET (1..(m + 1)) |->
                           IF t = {} THEN base ELSE StageBlock(g[t \ {Max(t)}], r, s[Max(t)])]
        <3>2. \A t \in SUBSET (1..m) : h[t] = g[t]
            BY <3>1, Upto
        <3>3. \A t \in SUBSET (1..(m + 1)) : t # {} => t \ {Max(t)} \in SUBSET (1..m)
            BY MaxFacts
        <3>4. G(h, m + 1)
            BY <3>2, <3>3
        <3> HIDE DEF G, h
        <3> QED BY <3>4
    <2> HIDE DEF Y
    <2> QED BY <2>1, <2>2, SetInduction
<1> DEFINE iter == CHOOSE g : G(g, n)
<1>2. n \in Nat /\ DOMAIN s = 1..n
    OBVIOUS
<1>3. G(iter, n)
    BY <1>1, <1>2
<1>4. StageAll(base, r, s) = iter[1..n]
    BY <1>2 DEF StageAll, FoldLeft, MapThenFoldSet
<1> HIDE DEF iter
<1> DEFINE P == [k \in 0..n |-> iter[1..k]]
<1>5. P[0] = base
    BY <1>2, <1>3
<1>6. ASSUME NEW i \in 1..n PROVE P[i] = StageBlock(P[i - 1], r, s[i])
    <2>1. iter[1..i] = StageBlock(iter[1..(i - 1)], r, s[i])
        <3>1. /\ Max(1..i) = i /\ 1..i # {} /\ 1..i \in SUBSET (1..n)
              /\ (1..i) \ {i} = 1..(i - 1)
            BY <1>2, PrefixSets
        <3> QED BY <1>3, <3>1
    <2> QED BY <1>2, <2>1
<1>7. P[n] = StageAll(base, r, s)
    BY <1>2, <1>4
<1> HIDE DEF P
<1> QED BY <1>5, <1>6, <1>7

\* The steps of the fold over the requests of a step.
LEMMA RequestSteps ==
    ASSUME NEW x, NEW S, NEW s \in Seq(S)
    PROVE  LET base == [ix |-> x, ops |-> <<>>]
           IN  \E P : /\ P[0] = base /\ P[Len(s)] = StageFilled(x, s)
                      /\ \A i \in 1..Len(s) : P[i] = StageRequest(P[i - 1], s[i])
<1> DEFINE n == Len(s)
           base == [ix |-> x, ops |-> <<>>]
           G(g, m) == g = [t \in SUBSET (1..m) |->
                             IF t = {} THEN base ELSE StageRequest(g[t \ {Max(t)}], s[Max(t)])]
           Y == {m \in Nat : \E g : G(g, m)}
<1>1. Nat \subseteq Y
    <2> HIDE DEF base
    <2>1. 0 \in Y
        <3>1. G([t \in SUBSET (1..0) |-> base], 0)
            OBVIOUS
        <3> QED BY <3>1
    <2>2. ASSUME NEW m \in Nat, m \in Y PROVE m + 1 \in Y
        <3>1. PICK g : G(g, m)
            BY <2>2
        <3> DEFINE h == [t \in SUBSET (1..(m + 1)) |->
                           IF t = {} THEN base ELSE StageRequest(g[t \ {Max(t)}], s[Max(t)])]
        <3>2. \A t \in SUBSET (1..m) : h[t] = g[t]
            BY <3>1, Upto
        <3>3. \A t \in SUBSET (1..(m + 1)) : t # {} => t \ {Max(t)} \in SUBSET (1..m)
            BY MaxFacts
        <3>4. G(h, m + 1)
            BY <3>2, <3>3
        <3> HIDE DEF G, h
        <3> QED BY <3>4
    <2> HIDE DEF Y
    <2> QED BY <2>1, <2>2, SetInduction
<1> DEFINE iter == CHOOSE g : G(g, n)
<1>2. n \in Nat /\ DOMAIN s = 1..n
    OBVIOUS
<1>3. G(iter, n)
    <2> HIDE DEF base
    <2> QED BY <1>1, <1>2
<1>4. StageFilled(x, s) = iter[1..n]
    <2>1. StageFilled(x, s) = FoldLeft(StageRequest, base, s)
        BY DEF StageFilled
    <2> HIDE DEF base
    <2> QED BY <1>2, <2>1 DEF FoldLeft, MapThenFoldSet
<1> HIDE DEF iter, base
<1> DEFINE P == [k \in 0..n |-> iter[1..k]]
<1>5. P[0] = base
    BY <1>2, <1>3
<1>6. ASSUME NEW i \in 1..n PROVE P[i] = StageRequest(P[i - 1], s[i])
    <2>1. iter[1..i] = StageRequest(iter[1..(i - 1)], s[i])
        <3>1. /\ Max(1..i) = i /\ 1..i # {} /\ 1..i \in SUBSET (1..n)
              /\ (1..i) \ {i} = 1..(i - 1)
            BY <1>2, PrefixSets
        <3> QED BY <1>3, <3>1
    <2> QED BY <1>2, <2>1
<1>7. P[n] = StageFilled(x, s)
    BY <1>2, <1>4
<1> HIDE DEF P
<1> QED BY <1>5, <1>6, <1>7 DEF base

\* An index that staging leaves in order, and its use as it was.
Staged(x, acc) == IndexOK(acc.ix, {}, {}) /\ SameUse(x, acc.ix)

LEMMA StageRequestKept ==
    ASSUME HostOnlyIfPartial, NEW x, x.numDiskSlots = config.numDisk, NEW acc, Staged(x, acc), NEW r,
           req[r].staged \in Nat, req[r].computed \in Nat
    PROVE  Staged(x, StageRequest(acc, r))
<1> DEFINE m == req[r].computed - req[r].staged
           todo == [k \in 1 .. m |-> req[r].staged + k]
<1>1. todo \in Seq(Nat \ {0})
    <2> DEFINE D == 1 .. m
    <2>1. \A k \in 1 .. m : req[r].staged + k \in Nat \ {0}
        OBVIOUS
    <2>2. CASE m \in Nat
        BY <2>1, <2>2
    <2>3. CASE m \notin Nat
        <3>1. 1 .. m = 1 .. 0
            BY <2>3
        <3>2. todo \in [1 .. 0 -> Nat \ {0}]
            BY <2>1, <3>1
        <3> HIDE DEF todo
        <3> QED BY <3>2
    <2> QED BY <2>2, <2>3
<1>2. StageRequest(acc, r) = StageAll(acc, r, todo)
    BY DEF StageRequest, StageAll
<1> HIDE DEF todo, m
<1> DEFINE n == Len(todo)
<1>3. PICK P : /\ P[0] = acc /\ P[n] = StageAll(acc, r, todo)
               /\ \A i \in 1 .. n : P[i] = StageBlock(P[i - 1], r, todo[i])
    BY <1>1, StageSteps
<1>4. n \in Nat /\ \A i \in 1 .. n : todo[i] \in Nat \ {0}
    BY <1>1
<1> HIDE DEF n
<1> DEFINE Y == {k \in Nat : k <= n => Staged(x, P[k])}
<1>5. 0 \in Y
    BY <1>3
<1>6. ASSUME NEW k \in Nat, k \in Y PROVE k + 1 \in Y
    <2> SUFFICES ASSUME k + 1 <= n PROVE Staged(x, P[k + 1])
        OBVIOUS
    <2>1. k + 1 \in 1 .. n /\ k <= n /\ (k + 1) - 1 = k
        BY <1>4
    <2>2. Staged(x, P[k]) /\ P[k + 1] = StageBlock(P[k], r, todo[k + 1])
        BY <1>3, <1>6, <2>1
    <2> DEFINE y == P[k].ix
               h == Chain[r][todo[k + 1]]
               got == StageAttention(y, req[r].owner, todo[k + 1], h, AttentionOnly)
    <2>3. IndexOK(y, {}, {}) /\ SameUse(x, y) /\ (AttentionOnly => y.numDiskSlots = 0)
        BY <2>2 DEF Staged, SameUse, HostOnlyIfPartial
    <2>4. IndexOK(got.ix, {}, {}) /\ SameUse(y, got.ix)
        <3>1. todo[k + 1] \in Nat \ {0}
            BY <1>4, <2>1
        <3> HIDE DEF y, h
        <3> QED BY <2>2, <2>3, <3>1, StageAttentionKept
    <2>5. P[k + 1].ix = got.ix
        BY <2>2 DEF StageBlock, Offload
    <2> HIDE DEF got, y
    <2> QED BY <2>3, <2>4, <2>5 DEF Staged, SameUse
<1>7. n \in Y
    <2> HIDE DEF Y
    <2> QED BY <1>4, <1>5, <1>6, SetInduction
<1> QED BY <1>2, <1>3, <1>4, <1>7

LEMMA StageFilledKept ==
    ASSUME HostOnlyIfPartial, NEW x, IndexOK(x, {}, {}), x.numDiskSlots = config.numDisk,
           NEW run \in Seq(Req),
           \A r \in Req : req[r].staged \in Nat /\ req[r].computed \in Nat
    PROVE  Staged(x, StageFilled(x, run))
<1> DEFINE n == Len(run)
           base == [ix |-> x, ops |-> <<>>]
<1>1. PICK P : /\ P[0] = base /\ P[n] = StageFilled(x, run)
               /\ \A i \in 1 .. n : P[i] = StageRequest(P[i - 1], run[i])
    BY RequestSteps
<1>2. n \in Nat /\ \A i \in 1 .. n : run[i] \in Req
    OBVIOUS
<1>3. Staged(x, base)
    BY DEF Staged, SameUse
<1> HIDE DEF n, base
<1> DEFINE Y == {k \in Nat : k <= n => Staged(x, P[k])}
<1>4. 0 \in Y
    BY <1>1, <1>3
<1>5. ASSUME NEW k \in Nat, k \in Y PROVE k + 1 \in Y
    <2> SUFFICES ASSUME k + 1 <= n PROVE Staged(x, P[k + 1])
        OBVIOUS
    <2>1. k + 1 \in 1 .. n /\ k <= n /\ (k + 1) - 1 = k
        BY <1>2
    <2>2. Staged(x, P[k]) /\ P[k + 1] = StageRequest(P[k], run[k + 1])
        BY <1>1, <1>5, <2>1
    <2>3. req[run[k + 1]].staged \in Nat /\ req[run[k + 1]].computed \in Nat
        BY <1>2, <2>1
    <2> QED BY <2>2, <2>3, StageRequestKept
<1>6. n \in Y
    <2> HIDE DEF Y
    <2> QED BY <1>2, <1>4, <1>5, SetInduction
<1> QED BY <1>1, <1>2, <1>6

-----------------------------------------------------------------------------
(* A waiting request is looked up.                                         *)

TrackFields == {"status", "computed", "staged", "owner", "plan", "failed", "preempted",
                "doubled"}
TrackOK(t) ==
    /\ DOMAIN t = TrackFields
    /\ t.computed \in Nat /\ t.staged \in Nat /\ t.plan.n \in Nat
Requests == DOMAIN req = Req /\ \A r \in Req : TrackOK(req[r])

MatchedOK(got) ==
    IndexOK(got.ix, {}, {}) /\ SameBusy(ix, got.ix) /\ TrackOK(got.track)

LEMMA PlannedOK ==
    ASSUME NEW x, IndexOK(x, {}, {}), SameBusy(ix, x), NEW r, TrackOK(req[r]),
           NEW owner, NEW n \in Nat, NEW reads
    PROVE  MatchedOK(Planned(x, r, owner, n, reads)) /\ MatchedOK(NotPlanned(x, r))
<1>1. MatchedOK(NotPlanned(x, r))
    BY DEF MatchedOK, NotPlanned
<1> DEFINE got == Planned(x, r, owner, n, reads)
           plan == [n |-> n, ops |-> RestoreOps(x.traj[owner], r, n), reads |-> reads]
<1>2. got.ix = x /\ got.track = [req[r] EXCEPT !.owner = owner, !.plan = plan] /\ plan.n = n
    BY DEF Planned
<1> HIDE DEF got, plan
<1>3. TrackOK(got.track)
    BY <1>2 DEF TrackOK, TrackFields
<1> QED BY <1>1, <1>2, <1>3 DEF MatchedOK, got

LEMMA GetMatchedKept ==
    ASSUME IndexOK(ix, {}, {}), NEW r, TrackOK(req[r]), Len(Chain[r]) \in Nat
    PROVE  MatchedOK(GetMatched(r))
<1>1. CASE req[r].plan.n > 0
    <2>1. SameBusy(ix, ix) /\ 0 \in Nat
        BY DEF SameBusy
    <2>2. MatchedOK(NotPlanned(ix, r))
        BY <2>1, PlannedOK
    <2> QED BY <1>1, <2>2 DEF GetMatched
<1>2. CASE ~(req[r].plan.n > 0) /\ AttentionOnly
    <2> DEFINE found == LookupPartial(ix, Chain[r])
    <2>1. Found(ix, found) /\ (found.hit => found.n \in Nat)
        BY LookupPartialKept
    <2>2. GetMatched(r) = IF found.hit THEN Planned(found.ix, r, found.owner, found.n, {})
                          ELSE NotPlanned(found.ix, r)
        BY <1>2 DEF GetMatched, Match, PlanPrefix
    <2> HIDE DEF found
    <2>3. IndexOK(found.ix, {}, {}) /\ SameBusy(ix, found.ix) /\ 0 \in Nat
        BY <2>1 DEF Found, SameRest, SameUse, SameBusy
    <2>4. MatchedOK(NotPlanned(found.ix, r))
        BY <2>3, PlannedOK
    <2>5. found.hit => MatchedOK(Planned(found.ix, r, found.owner, found.n, {}))
        BY <2>1, <2>3, PlannedOK
    <2> QED BY <2>2, <2>4, <2>5
<1>3. CASE ~(req[r].plan.n > 0) /\ ~AttentionOnly
    <2> DEFINE found == Lookup(ix, Chain[r])
               x == found.ix
               o == found.owner
               n == x.traj[o].boundary
               moved == Promote(x, o)
    <2>1. Found(ix, found) /\ (found.hit => Matches(ix, o, Chain[r]))
        BY LookupKept
    <2>2. GetMatched(r) = PlanWhole(found, r)
        BY <1>3 DEF GetMatched, Match
    <2> HIDE DEF found
    <2>3. IndexOK(x, {}, {}) /\ SameBusy(ix, x) /\ 0 \in Nat
        BY <2>1 DEF Found, SameRest, SameUse, SameBusy
    <2>4. MatchedOK(NotPlanned(x, r))
        BY <2>3, PlannedOK
    <2>5. CASE ~found.hit
        <3>1. PlanWhole(found, r) = NotPlanned(x, r)
            BY <2>5 DEF PlanWhole
        <3> QED BY <2>2, <2>4, <3>1
    <2>6. CASE found.hit
        <3>1. /\ o \in DOMAIN x.traj /\ x.traj = ix.traj /\ x.promotions = ix.promotions
              /\ Matches(ix, o, Chain[r])
            BY <2>1, <2>6 DEF Found, SameRest, SameUse
        <3>2. n \in Nat
            BY <2>3, <3>1 DEF IndexOK, Core, TrajectoriesOK, TrajectoryOK
        <3>3. Promotable(x, o)
            <4> DEFINE t == ix.traj[o]
            <4>1. /\ o \notin DOMAIN ix.promotions /\ t.boundary <= Len(t.hashes)
                  /\ TailAvailable(ix, t)
                BY <3>1 DEF Matches, Resumable
            <4>2. TailOK(ix, o)
                BY <3>1 DEF IndexOK
            <4>3. t.tail = None \/ ~t.tailPending
                BY <4>1, <4>2 DEF TailOK, TailAvailable
            <4> HIDE DEF x, o
            <4> QED BY <3>1, <4>1, <4>3 DEF Promotable
        <3>4. PlanWhole(found, r) = Planned(x, r, o, n, {})
              \/ PlanWhole(found, r) = PlanPromoted(moved, r, o, n)
            BY <2>6 DEF PlanWhole
        <3>5. IndexOK(moved.ix, {}, {}) /\ SameBusy(x, moved.ix)
            BY <2>3, <3>3, PromoteKept
        <3> HIDE DEF moved, x, o, n
        <3>6. SameBusy(ix, moved.ix)
            BY <2>3, <3>5 DEF SameBusy
        <3>7. MatchedOK(Planned(x, r, o, n, {}))
            BY <2>3, <3>2, PlannedOK
        <3>8. MatchedOK(Planned(moved.ix, r, o, n, moved.reads)) /\ MatchedOK(NotPlanned(moved.ix, r))
            BY <3>2, <3>5, <3>6, PlannedOK
        <3> QED BY <2>2, <3>4, <3>7, <3>8 DEF PlanPromoted
    <2> QED BY <2>5, <2>6
<1> QED BY <1>1, <1>2, <1>3

-----------------------------------------------------------------------------
(* The batches of disk writes and the operations that are left of them.    *)

\* Unconfirmed batches hold disk writes in flight, each write in one batch.
Batched(x, bs) ==
    /\ \A b \in DOMAIN bs : bs[b] \subseteq InFlight(x)
    /\ \A b \in DOMAIN bs : \A c \in DOMAIN bs : b # c => bs[b] \cap bs[c] = {}

\* The host rows that operations of batch b still read.
Rows(ops, b) == {op.host : op \in {p \in ops : p.write /\ p.key = b}}

OpFields == {"write", "host", "disk", "key", "wait"}
OpsOK(ops, wr) ==
    /\ \A op \in ops : DOMAIN op = OpFields /\ op.write \in BOOLEAN
    /\ \A op \in ops : op.write => op.key \in DOMAIN wr
    /\ \A op \in ops : \A p \in ops :
          op.write /\ p.write /\ op.key = p.key /\ op.host = p.host => op = p

\* An unfinished batch counts the operations that are left of it.
LeftOK(ops, wr) ==
    \A b \in DOMAIN wr :
       /\ DOMAIN wr[b] = {"left", "failed"}
       /\ IsFiniteSet(Rows(ops, b)) /\ wr[b].left = Cardinality(Rows(ops, b))

Counted(bs, ops, wr, done) ==
    /\ IsFiniteSet(DOMAIN bs)
    /\ DOMAIN wr \subseteq DOMAIN bs /\ done \subseteq DOMAIN bs /\ DOMAIN wr \cap done = {}
    /\ OpsOK(ops, wr) /\ LeftOK(ops, wr)

\* A busy row is a slot of the host tier.
LEMMA BusyInTier ==
    ASSUME NEW x, IndexOK(x, {}, {})
    PROVE  DOMAIN x.hostBusy \subseteq 1 .. x.numSlots /\ IsFiniteSet(DOMAIN x.hostBusy)
<1>1. /\ x.numSlots \in Nat /\ WritesOK(x) /\ TrajectoriesOK(x)
      /\ HostParted(x, {})
    BY DEF IndexOK, Core, ListsOK
<1>2. ASSUME NEW s \in DOMAIN x.hostBusy PROVE s \in 1 .. x.numSlots
    <2>1. /\ s # None
          /\ s \in x.orphanedBusy \/ \E o \in DOMAIN x.traj : Paired(x.traj[o], s, x.hostBusy[s])
        BY <1>1 DEF WritesOK
    <2>2. CASE s \in x.orphanedBusy
        BY <1>1, <2>2 DEF HostParted, Parted
    <2>3. ASSUME NEW o \in DOMAIN x.traj, Paired(x.traj[o], s, x.hostBusy[s])
          PROVE  s \in 1 .. x.numSlots
        <3>1. TrajectoryOK(x.traj[o], x.numSlots, x.numDiskSlots)
            BY <1>1 DEF TrajectoriesOK
        <3>2. s \in HostSlots(x.traj[o])
            BY <2>1, <2>3, <3>1, PairedHeld
        <3>3. x.numDiskSlots \in Nat
            BY DEF IndexOK, Core, ListsOK
        <3> QED BY <1>1, <3>1, <3>2, <3>3, HeldInTier
    <2> QED BY <2>1, <2>2, <2>3
<1>3. \A n \in Nat : IsFiniteSet(1 .. n)
    BY FS_Interval
<1>4. DOMAIN x.hostBusy \subseteq 1 .. x.numSlots
    BY <1>2
<1> QED BY <1>1, <1>3, <1>4, FS_Subset

\* A set of pairs with distinct, finitely many first components.
LEMMA PairsCounted ==
    ASSUME NEW W, NEW S, IsFiniteSet(S), \A w \in W : w[1] \in S, \A s \in S : \E w \in W : w[1] = s,
           \A v \in W : \A w \in W : v[1] = w[1] => v = w
    PROVE  IsFiniteSet(W) /\ Cardinality(W) = Cardinality(S)
<1> DEFINE f == [s \in S |-> CHOOSE w \in W : w[1] = s]
<1>1. \A s \in S : f[s] \in W /\ f[s][1] = s
    OBVIOUS
<1>2. f \in [S -> W] /\ DOMAIN f = S
    BY <1>1
<1> HIDE DEF f
<1>3. f \in Injection(S, W)
    BY <1>1, <1>2 DEF Injection, IsInjective
<1>4. \A w \in W : \E s \in S : f[s] = w
    BY <1>1
<1>5. f \in Bijection(S, W)
    BY <1>2, <1>3, <1>4 DEF Bijection, Surjection
<1> QED BY <1>5, FS_Bijection DEF ExistsBijection

\* The writes that are taken have distinct, finitely many host rows.
LEMMA TakenCounted ==
    ASSUME NEW x, NEW confirmed, IndexOK(TakeDiskWrites(x, confirmed).ix, {}, {})
    PROVE  LET W == TakeDiskWrites(x, confirmed).writes
           IN  /\ IsFiniteSet(W)
               /\ \A v \in W : \A w \in W : v[1] = w[1] => v = w
               /\ IsFiniteSet({w[1] : w \in W}) /\ Cardinality({w[1] : w \in W}) = Cardinality(W)
<1> DEFINE y == TakeDiskWrites(x, confirmed).ix
           W == TakeDiskWrites(x, confirmed).writes
           due == confirmed \cap DOMAIN x.diskOfHost
<1>1. W = {<<s, x.diskOfHost[s]>> : s \in due}
    BY DEF TakeDiskWrites
<1>2. DOMAIN y = IndexFields
    BY DEF IndexOK, Core, ListsOK
<1>3. due \subseteq DOMAIN y.hostBusy
    BY <1>2 DEF TakeDiskWrites, IndexFields
<1>4. IsFiniteSet(due)
    BY <1>3, BusyInTier, FS_Subset
<1>5. (\A w \in W : w[1] \in due) /\ \A s \in due : \E w \in W : w[1] = s
    <2> HIDE DEF W, due
    <2>1. \A w \in W : w[1] \in due
        BY <1>1
    <2>2. ASSUME NEW s \in due PROVE \E w \in W : w[1] = s
        <3>1. <<s, x.diskOfHost[s]>> \in W /\ <<s, x.diskOfHost[s]>>[1] = s
            BY <1>1
        <3> QED BY <3>1
    <2> QED BY <2>1, <2>2
<1>6. \A v \in W : \A w \in W : v[1] = w[1] => v = w
    BY <1>1
<1>7. {w[1] : w \in W} = due
    BY <1>5
<1> HIDE DEF W, due
<1>8. IsFiniteSet(W) /\ Cardinality(W) = Cardinality(due)
    BY <1>4, <1>5, <1>6, PairsCounted
<1> QED BY <1>4, <1>6, <1>7, <1>8 DEF W

\* A batch gets an id that no unconfirmed batch has.
LEMMA FreshIsNew ==
    ASSUME IsFiniteSet(DOMAIN batches)
    PROVE  FreshBatch \notin DOMAIN batches
<1> DEFINE n == Cardinality(DOMAIN batches)
<1>1. n \in Nat
    BY FS_CardinalityType
<1>2. \A m \in Nat : IsFiniteSet(1 .. m) /\ Cardinality(1 .. m) = m
    BY FS_Interval
<1>3. \E b \in 1 .. n + 1 : b \notin DOMAIN batches
    <2> SUFFICES ASSUME 1 .. n + 1 \subseteq DOMAIN batches PROVE FALSE
        OBVIOUS
    <2>1. Cardinality(1 .. n + 1) <= n
        BY FS_Subset
    <2> QED BY <1>1, <1>2, <2>1
<1> QED BY <1>3 DEF FreshBatch

\* Operations of batch b, one for each host row of H.
WriteOps(N, b, H) ==
    /\ \A op \in N : DOMAIN op = OpFields /\ op.write = TRUE /\ op.key = b /\ op.host \in H
    /\ \A op \in N : \A p \in N : op.host = p.host => op = p
    /\ \A h \in H : \E op \in N : op.host = h
ReadOps(R) == \A op \in R : DOMAIN op = OpFields /\ op.write = FALSE

Distinct(W) == \A v \in W : \A w \in W : v[1] = w[1] => v = w
HostRows(W) == {w[1] : w \in W}
Submitted(queue, W, b) == {DiskWrite(queue, w, b) : w \in W}

LEMMA WritesSubmitted ==
    ASSUME NEW W, Distinct(W), NEW queue, NEW b
    PROVE  WriteOps(Submitted(queue, W, b), b, HostRows(W))
<1> DEFINE N == Submitted(queue, W, b)
           H == HostRows(W)
<1> USE DEF Submitted, HostRows, Distinct
<1>1. \A w : /\ DOMAIN DiskWrite(queue, w, b) = OpFields /\ DiskWrite(queue, w, b).write = TRUE
             /\ DiskWrite(queue, w, b).key = b /\ DiskWrite(queue, w, b).host = w[1]
    BY DEF DiskWrite, OpFields
<1>2. \A op \in N : DOMAIN op = OpFields /\ op.write = TRUE /\ op.key = b /\ op.host \in H
    BY <1>1
<1>3. \A op \in N : \A p \in N : op.host = p.host => op = p
    BY <1>1
<1>4. \A h \in H : \E op \in N : op.host = h
    BY <1>1
<1> QED BY <1>2, <1>3, <1>4 DEF WriteOps

LEMMA ReadsSubmitted ==
    ASSUME NEW reads, NEW r
    PROVE  ReadOps({DiskRead(rd, r) : rd \in reads})
<1>1. \A rd : DOMAIN DiskRead(rd, r) = OpFields /\ DiskRead(rd, r).write = FALSE
    BY DEF DiskRead, OpFields
<1> QED BY <1>1 DEF ReadOps

\* Rows of the operations, by their members.
Reads(ops, b, h) == \E op \in ops : op.write /\ op.key = b /\ op.host = h
LEMMA RowsAre ==
    ASSUME NEW ops, NEW b, NEW H, \A h : h \in H <=> Reads(ops, b, h)
    PROVE  Rows(ops, b) = H
BY DEF Rows, Reads

LEMMA RowsSame ==
    ASSUME NEW ops, NEW ops2, NEW b, \A h : Reads(ops2, b, h) <=> Reads(ops, b, h)
    PROVE  Rows(ops2, b) = Rows(ops, b)
<1>1. \A h : h \in Rows(ops, b) <=> Reads(ops, b, h)
    BY DEF Rows, Reads
<1> QED BY <1>1, RowsAre

\* Reads do not belong to a batch.
LEMMA ReadsIssued ==
    ASSUME NEW bs, NEW ops, NEW wr, NEW done, Counted(bs, ops, wr, done), NEW R, ReadOps(R)
    PROVE  Counted(bs, ops \cup R, wr, done)
<1>1. OpsOK(ops, wr) /\ LeftOK(ops, wr)
    BY DEF Counted
<1>2. OpsOK(ops \cup R, wr)
    BY <1>1 DEF OpsOK, ReadOps
<1>3. ASSUME NEW b PROVE Rows(ops \cup R, b) = Rows(ops, b)
    <2>1. \A h : Reads(ops \cup R, b, h) <=> Reads(ops, b, h)
        BY DEF ReadOps, Reads
    <2> QED BY <2>1, RowsSame
<1>4. LeftOK(ops \cup R, wr)
    BY <1>1, <1>3 DEF LeftOK
<1> QED BY <1>2, <1>4 DEF Counted

\* A new batch starts with one operation for each of its writes.
LEMMA BatchIssued ==
    ASSUME NEW bs, NEW ops, NEW wr, NEW done, Counted(bs, ops, wr, done),
           NEW b, b \notin DOMAIN bs, NEW W, NEW N, NEW H, WriteOps(N, b, H),
           IsFiniteSet(H), NEW n, n = Cardinality(H)
    PROVE  Counted(Put(bs, b, W), ops \cup N, Put(wr, b, [left |-> n, failed |-> FALSE]), done)
<1> DEFINE bs2 == Put(bs, b, W)
           ops2 == ops \cup N
           fresh == [left |-> n, failed |-> FALSE]
           wr2 == Put(wr, b, fresh)
<1>1. /\ IsFiniteSet(DOMAIN bs) /\ DOMAIN wr \subseteq DOMAIN bs /\ done \subseteq DOMAIN bs
      /\ DOMAIN wr \cap done = {} /\ OpsOK(ops, wr) /\ LeftOK(ops, wr)
    BY DEF Counted
<1>2. DOMAIN bs2 = DOMAIN bs \cup {b} /\ DOMAIN wr2 = DOMAIN wr \cup {b}
    BY DEF Put
<1>3. wr2[b] = fresh /\ \A c \in DOMAIN wr : wr2[c] = wr[c]
    BY <1>1 DEF Put
<1>4. DOMAIN fresh = {"left", "failed"} /\ fresh.left = n
    OBVIOUS
<1> HIDE DEF bs2, wr2, fresh
<1>5. IsFiniteSet(DOMAIN bs2)
    BY <1>1, <1>2, FS_AddElement
<1>6. \A op \in ops : op.write => op.key # b
    BY <1>1 DEF OpsOK
<1>7. OpsOK(ops2, wr2)
    <2>1. \A op \in ops2 : DOMAIN op = OpFields /\ op.write \in BOOLEAN
        BY <1>1 DEF OpsOK, WriteOps
    <2>2. \A op \in ops2 : op.write => op.key \in DOMAIN wr2
        BY <1>1, <1>2 DEF OpsOK, WriteOps
    <2>3. ASSUME NEW op \in ops2, NEW p \in ops2, op.write, p.write, op.key = p.key, op.host = p.host
          PROVE  op = p
        <3>1. CASE op \in ops /\ p \in ops
            BY <1>1, <2>3, <3>1 DEF OpsOK
        <3>2. CASE op \in N /\ p \in N
            BY <2>3, <3>2 DEF WriteOps
        <3>3. CASE (op \in ops /\ p \in N) \/ (op \in N /\ p \in ops)
            BY <1>6, <2>3, <3>3 DEF WriteOps
        <3> QED BY <3>1, <3>2, <3>3
    <2> QED BY <2>1, <2>2, <2>3 DEF OpsOK
<1>8. LeftOK(ops2, wr2)
    <2>1. ASSUME NEW c \in DOMAIN wr PROVE Rows(ops2, c) = Rows(ops, c)
        <3>1. c # b
            BY <1>1
        <3>2. \A h : Reads(ops2, c, h) <=> Reads(ops, c, h)
            BY <3>1 DEF WriteOps, Reads
        <3> QED BY <3>2, RowsSame
    <2>2. Rows(ops2, b) = H
        <3>1. \A h : h \in H <=> Reads(ops2, b, h)
            BY <1>6 DEF WriteOps, Reads
        <3> QED BY <3>1, RowsAre
    <2> QED BY <1>1, <1>2, <1>3, <1>4, <2>1, <2>2 DEF LeftOK
<1>9. Counted(bs2, ops2, wr2, done)
    BY <1>1, <1>2, <1>5, <1>7, <1>8 DEF Counted
<1> QED BY <1>9 DEF bs2, wr2, fresh

\* A copy that has run shortens the waits and changes no operation otherwise.
LEMMA CopyCounted ==
    ASSUME NEW bs, NEW ops, NEW wr, NEW done, Counted(bs, ops, wr, done)
    PROVE  Counted(bs, {[op EXCEPT !.wait = IF @ > 0 THEN @ - 1 ELSE 0] : op \in ops}, wr, done)
<1> DEFINE ops2 == {[op EXCEPT !.wait = IF @ > 0 THEN @ - 1 ELSE 0] : op \in ops}
           Same(op, p) == DOMAIN p = OpFields /\ p.write = op.write /\ p.key = op.key /\ p.host = op.host
<1>1. OpsOK(ops, wr) /\ LeftOK(ops, wr)
    BY DEF Counted
<1>2. \A p \in ops2 : \E op \in ops : p = [op EXCEPT !.wait = IF @ > 0 THEN @ - 1 ELSE 0]
    OBVIOUS
<1>3. \A op \in ops : [op EXCEPT !.wait = IF @ > 0 THEN @ - 1 ELSE 0] \in ops2
    OBVIOUS
<1> HIDE DEF ops2
<1>4. ASSUME NEW op \in ops
      PROVE  Same(op, [op EXCEPT !.wait = IF @ > 0 THEN @ - 1 ELSE 0])
    <2>1. DOMAIN op = OpFields
        BY <1>1 DEF OpsOK
    <2> QED BY <2>1 DEF OpFields
<1>5. \A p \in ops2 : \E op \in ops :
         Same(op, p) /\ p = [op EXCEPT !.wait = IF @ > 0 THEN @ - 1 ELSE 0]
    BY <1>2, <1>4
<1>6. \A op \in ops : \E p \in ops2 : Same(op, p)
    BY <1>3, <1>4
<1>7. OpsOK(ops2, wr)
    <2>1. \A p \in ops2 : DOMAIN p = OpFields /\ p.write \in BOOLEAN /\ (p.write => p.key \in DOMAIN wr)
        BY <1>1, <1>5 DEF OpsOK
    <2>2. ASSUME NEW p \in ops2, NEW q \in ops2, p.write, q.write, p.key = q.key, p.host = q.host
          PROVE  p = q
        <3>1. PICK op \in ops : Same(op, p) /\ p = [op EXCEPT !.wait = IF @ > 0 THEN @ - 1 ELSE 0]
            BY <1>5
        <3>2. PICK oq \in ops : Same(oq, q) /\ q = [oq EXCEPT !.wait = IF @ > 0 THEN @ - 1 ELSE 0]
            BY <1>5
        <3>3. op = oq
            BY <1>1, <2>2, <3>1, <3>2 DEF OpsOK
        <3> QED BY <3>1, <3>2, <3>3
    <2> QED BY <2>1, <2>2 DEF OpsOK
<1>8. ASSUME NEW b PROVE Rows(ops2, b) = Rows(ops, b)
    <2>1. \A h : Reads(ops2, b, h) <=> Reads(ops, b, h)
        BY <1>5, <1>6 DEF Reads
    <2> QED BY <2>1, RowsSame
<1>9. LeftOK(ops2, wr)
    BY <1>1, <1>8 DEF LeftOK
<1>10. Counted(bs, ops2, wr, done)
    BY <1>7, <1>9 DEF Counted
<1> QED BY <1>10 DEF ops2

\* A read that has finished leaves the batches alone.
LEMMA ReadCounted ==
    ASSUME NEW bs, NEW ops, NEW wr, NEW done, Counted(bs, ops, wr, done),
           NEW op \in ops, ~op.write
    PROVE  Counted(bs, ops \ {op}, wr, done)
<1>1. OpsOK(ops, wr) /\ LeftOK(ops, wr)
    BY DEF Counted
<1>2. OpsOK(ops \ {op}, wr)
    BY <1>1 DEF OpsOK
<1>3. ASSUME NEW b PROVE Rows(ops \ {op}, b) = Rows(ops, b)
    <2>1. \A h : Reads(ops \ {op}, b, h) <=> Reads(ops, b, h)
        BY DEF Reads
    <2> QED BY <2>1, RowsSame
<1>4. LeftOK(ops \ {op}, wr)
    BY <1>1, <1>3 DEF LeftOK
<1> QED BY <1>2, <1>4 DEF Counted

\* A write that has finished is one less of its batch; the last one ends it.
LEMMA WriteCounted ==
    ASSUME NEW bs, NEW ops, NEW wr, NEW done, Counted(bs, ops, wr, done),
           NEW op \in ops, op.write, NEW failed,
           NEW now, now = [left |-> wr[op.key].left - 1, failed |-> failed]
    PROVE  /\ now.left = 0 =>
                /\ Counted(bs, ops \ {op}, Drop(wr, {op.key}), done)
                /\ Counted(bs, ops \ {op}, Drop(wr, {op.key}), done \cup {op.key})
           /\ now.left # 0 => Counted(bs, ops \ {op}, [wr EXCEPT ![op.key] = now], done)
<1> DEFINE b == op.key
           ops2 == ops \ {op}
<1>1. OpsOK(ops, wr) /\ LeftOK(ops, wr)
    BY DEF Counted
<1>2. b \in DOMAIN wr
    BY <1>1 DEF OpsOK
<1>3. /\ IsFiniteSet(Rows(ops, b)) /\ wr[b].left = Cardinality(Rows(ops, b))
      /\ \A c \in DOMAIN wr : DOMAIN wr[c] = {"left", "failed"}
    BY <1>1, <1>2 DEF LeftOK
<1>4. op.host \in Rows(ops, b)
    BY DEF Rows
<1>5. Rows(ops2, b) = Rows(ops, b) \ {op.host}
    <2>1. \A h : h \in Rows(ops, b) \ {op.host} <=> Reads(ops2, b, h)
        BY <1>1 DEF OpsOK, Rows, Reads
    <2> QED BY <2>1, RowsAre
<1>6. /\ IsFiniteSet(Rows(ops2, b)) /\ Cardinality(Rows(ops, b)) \in Nat
      /\ Cardinality(Rows(ops2, b)) = Cardinality(Rows(ops, b)) - 1
    <2> DEFINE R == Rows(ops, b)
    <2>1. IsFiniteSet(R) /\ op.host \in R
        BY <1>3, <1>4
    <2> HIDE DEF R
    <2>2. /\ IsFiniteSet(R \ {op.host}) /\ Cardinality(R) \in Nat
          /\ Cardinality(R \ {op.host}) = Cardinality(R) - 1
        BY <2>1, FS_RemoveElement, FS_CardinalityType
    <2>3. Rows(ops2, b) = R \ {op.host}
        BY <1>5 DEF R
    <2> QED BY <2>2, <2>3 DEF R
<1>7. now.left = Cardinality(Rows(ops2, b)) /\ DOMAIN now = {"left", "failed"}
    BY <1>3, <1>6
<1>8. ASSUME NEW c \in DOMAIN wr, c # b PROVE Rows(ops2, c) = Rows(ops, c)
    <2>1. \A h : Reads(ops2, c, h) <=> Reads(ops, c, h)
        BY <1>8 DEF Reads
    <2> QED BY <2>1, RowsSame
<1> HIDE DEF b
<1>9. CASE now.left # 0
    <2> DEFINE wr2 == [wr EXCEPT ![b] = now]
    <2>1. DOMAIN wr2 = DOMAIN wr /\ wr2[b] = now /\ \A c \in DOMAIN wr : c # b => wr2[c] = wr[c]
        BY <1>2
    <2> HIDE DEF wr2
    <2>2. OpsOK(ops2, wr2)
        BY <1>1, <2>1 DEF OpsOK
    <2>3. LeftOK(ops2, wr2)
        BY <1>1, <1>6, <1>7, <1>8, <2>1 DEF LeftOK
    <2>4. Counted(bs, ops2, wr2, done)
        BY <2>1, <2>2, <2>3 DEF Counted
    <2> QED BY <1>9, <2>4 DEF wr2, b
<1>10. CASE now.left = 0
    <2> DEFINE wr2 == Drop(wr, {b})
    <2>1. DOMAIN wr2 = DOMAIN wr \ {b} /\ \A c \in DOMAIN wr2 : wr2[c] = wr[c]
        BY DEF Drop
    <2> HIDE DEF wr2
    <2>2. Rows(ops2, b) = {}
        BY <1>6, <1>7, <1>10, FS_EmptySet
    <2>3. \A p \in ops2 : p.write => p.key # b
        BY <2>2 DEF Rows
    <2>4. OpsOK(ops2, wr2)
        BY <1>1, <2>1, <2>3 DEF OpsOK
    <2>5. LeftOK(ops2, wr2)
        BY <1>1, <1>8, <2>1 DEF LeftOK
    <2>6. Counted(bs, ops2, wr2, done) /\ Counted(bs, ops2, wr2, done \cup {b})
        BY <1>2, <2>1, <2>4, <2>5 DEF Counted
    <2> QED BY <1>10, <2>6 DEF wr2, b
<1> QED BY <1>9, <1>10

\* A batch that is reported is gone.
LEMMA ReportCounted ==
    ASSUME NEW bs, NEW ops, NEW wr, NEW done, Counted(bs, ops, wr, done), NEW b \in done
    PROVE  Counted(Drop(bs, {b}), ops, wr, done \ {b})
<1>1. DOMAIN Drop(bs, {b}) = DOMAIN bs \ {b}
    BY DEF Drop
<1>2. IsFiniteSet(DOMAIN Drop(bs, {b}))
    BY <1>1, FS_RemoveElement DEF Counted
<1> QED BY <1>1, <1>2 DEF Counted

\* Batches stay in flight while writes are added to the ones in flight.
LEMMA BatchedMore ==
    ASSUME NEW x, NEW y, NEW bs, Batched(x, bs), InFlight(x) \subseteq InFlight(y)
    PROVE  Batched(y, bs)
BY DEF Batched

LEMMA BatchedPut ==
    ASSUME NEW x, NEW y, NEW bs, Batched(x, bs), NEW b, b \notin DOMAIN bs, NEW W,
           InFlight(y) = InFlight(x) \cup W, InFlight(x) \cap W = {}
    PROVE  Batched(y, Put(bs, b, W))
<1>1. /\ DOMAIN Put(bs, b, W) = DOMAIN bs \cup {b} /\ Put(bs, b, W)[b] = W
      /\ \A c \in DOMAIN bs : Put(bs, b, W)[c] = bs[c]
    BY DEF Put
<1>2. \A c \in DOMAIN bs : bs[c] \cap W = {}
    BY DEF Batched
<1> QED BY <1>1, <1>2 DEF Batched

LEMMA BatchedDrop ==
    ASSUME NEW x, NEW y, NEW bs, Batched(x, bs), NEW b \in DOMAIN bs,
           InFlight(y) = InFlight(x) \ bs[b]
    PROVE  Batched(y, Drop(bs, {b}))
<1>1. /\ DOMAIN Drop(bs, {b}) = DOMAIN bs \ {b}
      /\ \A c \in DOMAIN Drop(bs, {b}) : Drop(bs, {b})[c] = bs[c]
    BY DEF Drop
<1> QED BY <1>1 DEF Batched

-----------------------------------------------------------------------------
(* The invariant of the tier.                                              *)

Sized(x) == x.numSlots = config.numHost /\ x.numDiskSlots = config.numDisk
Started ==
    /\ config.numHost \in Nat /\ config.numDisk \in Nat
    /\ \A r \in Req : Len(Chain[r]) \in Nat

\* Under what is known of the configuration: the index, the requests, and the
\* batches of disk writes with the operations that are left of them.
TierOK ==
    /\ IndexOK(ix, {}, {}) /\ Sized(ix) /\ Requests
    /\ Batched(ix, batches) /\ Counted(batches, diskOps, writing, written)

LEMMA StartedOK ==
    ASSUME config \in Configs
    PROVE  Started
<1>1. config.numHost \in Nat /\ config.numDisk \in Nat
    BY TierCapacity
<1>2. \A r \in DOMAIN config.chain : Len(config.chain[r]) \in Nat
    BY FiniteChains
<1> QED BY <1>1, <1>2 DEF Started, Req, Chain

LEMMA RunsOK ==
    ASSUME NEW run \in Schedulable
    PROVE  run \in Seq(Req)
<1>1. PICK m \in 0 .. MaxBatch : run \in [1 .. m -> WithStatus({"running"})]
    BY DEF Schedulable, BoundedSeq, SeqOf
<1>2. m \in Nat
    BY <1>1
<1>3. WithStatus({"running"}) \subseteq Req
    BY DEF WithStatus
<1> QED BY <1>1, <1>2, <1>3

\* The requests of a step move on.
LEMMA RanOK ==
    ASSUME Requests, Started, NEW run
    PROVE  DOMAIN Ran(run) = Req /\ \A r \in Req : TrackOK(Ran(run)[r])
<1>1. DOMAIN Ran(run) = Req
    BY DEF Ran
<1>2. ASSUME NEW r \in Req PROVE TrackOK(Ran(run)[r])
    <2> DEFINE t == [req[r] EXCEPT !.staged = req[r].computed,
                                   !.computed = IF @ < Len(Chain[r]) THEN @ + 1 ELSE @]
    <2>1. Ran(run)[r] = IF r \in ToSet(run) THEN t ELSE req[r]
        BY DEF Ran
    <2>2. TrackOK(req[r])
        BY DEF Requests
    <2>3. /\ DOMAIN t = TrackFields /\ t.staged = req[r].computed /\ t.plan = req[r].plan
          /\ t.computed = req[r].computed + 1 \/ t.computed = req[r].computed
        BY <2>2 DEF TrackOK, TrackFields
    <2>4. TrackOK(t)
        BY <2>2, <2>3 DEF TrackOK
    <2> QED BY <2>1, <2>2, <2>4
<1> QED BY <1>1, <1>2

\* A step confirms the host writes, takes their rows for the disk, and stages
\* what has been filled: the index and the batches stay right.
LEMMA BuildKept ==
    ASSUME HostOnlyIfPartial, Started, TierOK, NEW x, IndexOK(x, {}, {}), SameBusy(ix, x),
           NEW run \in Seq(Req), NEW r, NEW plan, Build(x, run, r, plan)
    PROVE  /\ IndexOK(ix', {}, {}) /\ Sized(ix')
           /\ Batched(ix', batches') /\ Counted(batches', diskOps', writing', written')
<1> DEFINE y == ConfirmWrites(x, lastWrites)
           taken == TakeDiskWrites(y, lastWrites)
           z == taken.ix
           W == taken.writes
           filled == StageFilled(z, run)
           b == FreshBatch
           H == {w[1] : w \in W}
<1>0. PICK given \in Overwritten(run, r, plan) : Dispatch(AfterPass(given), filled, W, r, plan)
    BY DEF Build
<1> DEFINE queue == AfterPass(given)
           queued == queue \o [k \in 1 .. Len(saves \o filled.ops) |-> Save((saves \o filled.ops)[k])]
           N == {DiskWrite(queued, w, b) : w \in W}
           R == IF r # NoReq /\ plan.n > 0 THEN {DiskRead(rd, r) : rd \in plan.reads} ELSE {}
<1>1. /\ ix' = filled.ix
      /\ batches' = IF W = {} THEN batches ELSE Put(batches, b, W)
      /\ diskOps' = diskOps \cup N \cup R
      /\ writing' = IF W = {} THEN writing
                    ELSE Put(writing, b, [left |-> Cardinality(W), failed |-> FALSE])
      /\ written' = written
    <2> HIDE DEF queue, filled, W
    <2> QED BY <1>0 DEF Dispatch, Issue, queue
<1>2. /\ IndexOK(y, {}, {}) /\ SameUse(x, y) /\ y.pendingWrite \cap lastWrites = {}
    <2>1. Core(x, {}, {}) /\ \A o \in DOMAIN x.traj : TailOK(x, o)
        BY DEF IndexOK
    <2> QED BY <2>1, ConfirmWritesKept
<1> HIDE DEF y
<1>3. /\ IndexOK(z, {}, {}) /\ z.numSlots = y.numSlots /\ z.numDiskSlots = y.numDiskSlots
      /\ InFlight(z) = InFlight(y) \cup W /\ InFlight(y) \cap W = {}
    BY <1>2, TakeDiskWritesKept
<1>4. /\ IsFiniteSet(W) /\ IsFiniteSet(H) /\ Cardinality(H) = Cardinality(W)
      /\ \A v \in W : \A w \in W : v[1] = w[1] => v = w
    BY <1>3, TakenCounted
<1>5. WriteOps(N, b, H)
    <2> HIDE DEF W, queued, b
    <2>1. Distinct(W)
        BY <1>4 DEF Distinct
    <2>2. WriteOps(Submitted(queued, W, b), b, HostRows(W))
        BY <2>1, WritesSubmitted
    <2>3. Submitted(queued, W, b) = N /\ HostRows(W) = H
        BY DEF Submitted, HostRows
    <2> QED BY <2>2, <2>3
<1>6. ReadOps(R)
    <2>1. ReadOps({DiskRead(rd, r) : rd \in plan.reads})
        BY ReadsSubmitted
    <2>2. ReadOps({})
        BY DEF ReadOps
    <2> QED BY <2>1, <2>2
<1>7. W = {} => N = {}
    OBVIOUS
<1> HIDE DEF taken, H, N, R, queue, queued, b
<1>8. InFlight(y) = InFlight(ix)
    BY <1>2 DEF SameUse, SameBusy, InFlight
<1>9. y.numSlots = config.numHost /\ y.numDiskSlots = config.numDisk
    BY <1>2 DEF SameUse, SameBusy, TierOK, Sized
<1>10. Staged(z, filled)
    BY <1>3, <1>9, StageFilledKept DEF TierOK, Requests, TrackOK
<1> HIDE DEF filled
<1>11. /\ IndexOK(ix', {}, {}) /\ Sized(ix') /\ InFlight(ix') = InFlight(z)
    BY <1>1, <1>3, <1>9, <1>10 DEF Staged, SameUse, Sized, InFlight
<1>12. IsFiniteSet(DOMAIN batches) /\ Batched(ix, batches)
       /\ Counted(batches, diskOps, writing, written)
    BY DEF TierOK, Counted
<1>13. b \notin DOMAIN batches
    BY <1>12, FreshIsNew DEF b
<1>14. Batched(ix', batches')
    <2>1. CASE W = {}
        <3>1. InFlight(ix) \subseteq InFlight(ix')
            BY <1>3, <1>8, <1>11
        <3>2. Batched(ix', batches)
            BY <1>12, <3>1, BatchedMore
        <3> QED BY <1>1, <2>1, <3>2
    <2>2. CASE W # {}
        <3>1. InFlight(ix') = InFlight(ix) \cup W /\ InFlight(ix) \cap W = {}
            BY <1>3, <1>8, <1>11
        <3>2. Batched(ix', Put(batches, b, W))
            BY <1>12, <1>13, <3>1, BatchedPut
        <3> QED BY <1>1, <2>2, <3>2
    <2> QED BY <2>1, <2>2
<1>15. Counted(batches', diskOps', writing', written')
    <2>1. CASE W = {}
        <3>1. Counted(batches, diskOps \cup R, writing, written)
            BY <1>6, <1>12, ReadsIssued
        <3>2. diskOps' = diskOps \cup R
            BY <1>1, <1>7, <2>1
        <3> QED BY <1>1, <2>1, <3>1, <3>2
    <2>2. CASE W # {}
        <3> DEFINE fresh == [left |-> Cardinality(W), failed |-> FALSE]
        <3>1. Counted(Put(batches, b, W), diskOps \cup N, Put(writing, b, fresh), written)
            BY <1>4, <1>5, <1>12, <1>13, BatchIssued
        <3>2. Counted(Put(batches, b, W), diskOps \cup N \cup R, Put(writing, b, fresh), written)
            BY <1>6, <3>1, ReadsIssued
        <3> QED BY <1>1, <2>2, <3>2
    <2> QED BY <2>1, <2>2
<1> QED BY <1>11, <1>14, <1>15

\* A step of the engine that tries no waiting request, and one that does.
LEMMA RunKept ==
    ASSUME HostOnlyIfPartial, Started, TierOK, NEW run \in Schedulable, StepRun(run)
    PROVE  TierOK'
<1>1. IndexOK(ix, {}, {}) /\ SameBusy(ix, ix) /\ Requests
    BY DEF TierOK, SameBusy
<1>2. Build(ix, run, NoReq, NoPlan) /\ req' = Ran(run) /\ config' = config
    BY DEF StepRun
<1>3. run \in Seq(Req)
    BY RunsOK
<1>4. /\ IndexOK(ix', {}, {}) /\ Sized(ix')
      /\ Batched(ix', batches') /\ Counted(batches', diskOps', writing', written')
    BY <1>1, <1>2, <1>3, BuildKept
<1>5. DOMAIN req' = Req /\ \A q \in Req : TrackOK(req'[q])
    BY <1>1, <1>2, RanOK
<1>6. Requests'
    BY <1>2, <1>5 DEF Requests, Req, Chain
<1> QED BY <1>2, <1>4, <1>6 DEF TierOK, Sized, IndexOK, Core

LEMMA StepsKept ==
    ASSUME HostOnlyIfPartial, Started, TierOK, NEW run \in Schedulable, NEW r \in Req,
           \/ StepNoRoom(run, r, GetMatched(r))
           \/ StepAdmit(run, r, GetMatched(r))
           \/ StepFailRestore(run, r, GetMatched(r))
    PROVE  TierOK'
<1> DEFINE got == GetMatched(r)
           n == got.track.plan.n
<1>1. /\ IndexOK(ix, {}, {}) /\ SameBusy(ix, ix) /\ Requests
      /\ TrackOK(req[r]) /\ Len(Chain[r]) \in Nat
    BY DEF TierOK, SameBusy, Requests, Started
<1>2. IndexOK(got.ix, {}, {}) /\ SameBusy(ix, got.ix) /\ TrackOK(got.track)
    BY <1>1, GetMatchedKept DEF MatchedOK
<1> HIDE DEF got
<1>3. run \in Seq(Req)
    BY RunsOK
<1>4. config' = config
    BY DEF StepNoRoom, StepAdmit, StepFailRestore
<1>5. /\ IndexOK(ix', {}, {}) /\ Sized(ix')
      /\ Batched(ix', batches') /\ Counted(batches', diskOps', writing', written')
    <2>2. CASE StepNoRoom(run, r, got)
        <3>1. Build(got.ix, run, NoReq, NoPlan)
            BY <2>2 DEF StepNoRoom
        <3> QED BY <1>2, <1>3, <3>1, BuildKept
    <2>3. CASE StepAdmit(run, r, got)
        <3>1. Build(got.ix, run, r, got.track.plan)
            BY <2>3 DEF StepAdmit
        <3> QED BY <1>2, <1>3, <3>1, BuildKept
    <2>4. CASE StepFailRestore(run, r, got)
        <3>1. Build(got.ix, run, NoReq, NoPlan)
            BY <2>4 DEF StepFailRestore
        <3> QED BY <1>2, <1>3, <3>1, BuildKept
    <2> QED BY <2>2, <2>3, <2>4 DEF got
<1>6. DOMAIN Ran(run) = Req /\ \A q \in Req : TrackOK(Ran(run)[q])
    BY <1>1, RanOK
<1>7. DOMAIN req' = Req /\ \A q \in Req : TrackOK(req'[q])
    <2>1. ASSUME NEW t, TrackOK(t), req' = [Ran(run) EXCEPT ![r] = t]
          PROVE  DOMAIN req' = Req /\ \A q \in Req : TrackOK(req'[q])
        BY <1>6, <2>1
    <2>3. CASE StepNoRoom(run, r, got)
        BY <1>2, <2>1, <2>3 DEF StepNoRoom
    <2>4. CASE StepAdmit(run, r, got)
        <3> DEFINE t == [got.track EXCEPT !.status = IF n > 0 THEN "remote" ELSE "running",
                                          !.computed = n,
                                          !.doubled = IF n > 0 THEN 0
                                                      ELSE Doubled(got.track, 0)]
        <3>1. TrackOK(t)
            BY <1>2 DEF TrackOK, TrackFields
        <3>2. req' = [Ran(run) EXCEPT ![r] = t]
            BY <2>4 DEF StepAdmit
        <3> QED BY <2>1, <3>1, <3>2
    <2>5. CASE StepFailRestore(run, r, got)
        <3> DEFINE t == [got.track EXCEPT !.status = "remote", !.plan = NoPlan, !.computed = n]
        <3>1. TrackOK(t)
            <4>1. NoPlan.n \in Nat
                BY DEF NoPlan
            <4> HIDE DEF NoPlan
            <4> QED BY <1>2, <4>1 DEF TrackOK, TrackFields
        <3>2. req' = [Ran(run) EXCEPT ![r] = t]
            BY <2>5 DEF StepFailRestore
        <3> QED BY <2>1, <3>1, <3>2
    <2> QED BY <2>3, <2>4, <2>5 DEF got
<1>8. Requests'
    BY <1>4, <1>7 DEF Requests, Req, Chain
<1> QED BY <1>4, <1>5, <1>8 DEF TierOK, Sized, IndexOK, Core

\* A closed request, and one whose fields change.
LEMMA ClosedOK ==
    ASSUME NEW r, NEW status
    PROVE  TrackOK(Closed(r, status))
BY DEF Closed, NewTrack, NoPlan, TrackOK, TrackFields

LEMMA RequestsSet ==
    ASSUME Requests, NEW r \in Req, NEW t, TrackOK(t), req' = [req EXCEPT ![r] = t],
           config' = config
    PROVE  Requests'
<1>1. DOMAIN req' = Req /\ \A q \in Req : TrackOK(req'[q])
    BY DEF Requests
<1> QED BY <1>1 DEF Requests, Req, Chain

\* The requests may change while the index and the batches stay.
LEMMA TierSame ==
    ASSUME TierOK, Requests', UNCHANGED <<config, ix, batches, diskOps, writing, written>>
    PROVE  TierOK'
<1>1. IndexOK(ix', {}, {}) /\ Sized(ix')
    BY DEF TierOK, Sized
<1>2. Batched(ix', batches') /\ Counted(batches', diskOps', writing', written')
    BY DEF TierOK
<1> QED BY <1>1, <1>2 DEF TierOK, Sized, IndexOK, Core

\* The ends of requests.
LEMMA EndsKept ==
    ASSUME TierOK, NEW r \in Req, FinishPlain(r) \/ AbortRemote(r) \/ Preempt(r)
    PROVE  TierOK'
<1>1. Requests /\ TrackOK(req[r])
    BY DEF TierOK, Requests
<1>2. UNCHANGED <<config, ix, batches, diskOps, writing, written>>
    BY DEF FinishPlain, AbortRemote, Preempt, workerVars
<1>3. Requests'
    <2>1. CASE FinishPlain(r)
        <3>1. req' = [req EXCEPT ![r] = Closed(r, "done")]
            BY <2>1 DEF FinishPlain
        <3> QED BY <1>1, <1>2, <3>1, ClosedOK, RequestsSet
    <2>2. CASE AbortRemote(r)
        <3>1. req' = [req EXCEPT ![r] = Closed(r, "aborted")]
            BY <2>2 DEF AbortRemote
        <3> QED BY <1>1, <1>2, <3>1, ClosedOK, RequestsSet
    <2>3. CASE Preempt(r)
        <3> DEFINE t == [req[r] EXCEPT !.status = "waiting", !.computed = 0, !.preempted = @ + 1]
        <3>1. req' = [req EXCEPT ![r] = t]
            BY <1>1, <2>3 DEF Preempt, Requests
        <3>2. TrackOK(t)
            BY <1>1 DEF TrackOK, TrackFields
        <3> HIDE DEF t
        <3> QED BY <1>1, <1>2, <3>1, <3>2, RequestsSet
    <2> QED BY <2>1, <2>2, <2>3
<1> QED BY <1>2, <1>3, TierSame

LEMMA TailSaveKept ==
    ASSUME TierOK, NEW r \in Req, NEW boundary \in Nat,
           FinishSavingTail(r, boundary, StageTail(ix, req[r].owner, boundary, Chain[r][boundary]))
    PROVE  TierOK'
<1> DEFINE got == StageTail(ix, req[r].owner, boundary, Chain[r][boundary])
           t == Closed(r, IF req[r].status = "remote" THEN "aborted" ELSE "done")
<1>1. /\ ix' = got.ix /\ req' = [req EXCEPT ![r] = t]
      /\ UNCHANGED <<config, batches, diskOps, writing, written>>
    BY DEF FinishSavingTail, workerVars
<1>2. IndexOK(got.ix, {}, {}) /\ SameUse(ix, got.ix)
    BY StageTailKept DEF TierOK
<1> HIDE DEF got, t
<1>3. TrackOK(t)
    BY ClosedOK DEF t
<1>4. Requests'
    BY <1>1, <1>3, RequestsSet DEF TierOK
<1>5. IndexOK(ix', {}, {}) /\ Sized(ix') /\ InFlight(ix') = InFlight(ix)
    BY <1>1, <1>2 DEF TierOK, Sized, SameUse, InFlight
<1>6. Batched(ix', batches') /\ Counted(batches', diskOps', writing', written')
    BY <1>1, <1>5 DEF TierOK, Batched
<1> QED BY <1>1, <1>4, <1>5, <1>6 DEF TierOK, Sized, IndexOK, Core

\* The copy stream and the IO threads.
LEMMA WorkerKept ==
    ASSUME TierOK, CopyStep \/ \E op \in diskOps, ok \in BOOLEAN : DiskIO(op, ok)
    PROVE  TierOK'
<1>1. /\ IndexOK(ix, {}, {}) /\ Sized(ix) /\ Requests
      /\ Batched(ix, batches) /\ Counted(batches, diskOps, writing, written)
    BY DEF TierOK
<1>2. UNCHANGED <<config, ix, req, batches>>
    BY DEF CopyStep, DiskIO
<1>3. Counted(batches, diskOps', writing', written')
    <2>1. CASE CopyStep
        <3>1. /\ diskOps' = {[op EXCEPT !.wait = IF @ > 0 THEN @ - 1 ELSE 0] : op \in diskOps}
              /\ UNCHANGED <<writing, written>>
            BY <2>1 DEF CopyStep
        <3> DEFINE ops2 == {[op EXCEPT !.wait = IF @ > 0 THEN @ - 1 ELSE 0] : op \in diskOps}
        <3>2. Counted(batches, ops2, writing, written)
            BY <1>1, CopyCounted
        <3> QED BY <3>1, <3>2
    <2>2. ASSUME NEW op \in diskOps, NEW ok \in BOOLEAN, DiskIO(op, ok)
          PROVE  Counted(batches, diskOps', writing', written')
        <3>1. diskOps' = diskOps \ {op}
            BY <2>2 DEF DiskIO
        <3>2. CASE ~op.write
            <4>1. UNCHANGED <<writing, written>>
                BY <2>2, <3>2 DEF DiskIO
            <4> QED BY <1>1, <3>1, <3>2, <4>1, ReadCounted
        <3>3. CASE op.write
            <4> DEFINE b == writing[op.key]
                       now == [left |-> b.left - 1, failed |-> b.failed \/ ~ok]
            <4>1. AccountWrite(op, ok)
                BY <2>2, <3>3 DEF DiskIO
            <4>2. /\ writing' = IF now.left = 0 THEN Drop(writing, {op.key})
                                ELSE [writing EXCEPT ![op.key] = now]
                  /\ written' = IF now.left = 0 /\ ~now.failed THEN written \cup {op.key}
                                ELSE written
                BY <4>1, Zenon DEF AccountWrite
            <4>3. /\ now.left = 0 =>
                       /\ Counted(batches, diskOps \ {op}, Drop(writing, {op.key}), written)
                       /\ Counted(batches, diskOps \ {op}, Drop(writing, {op.key}),
                                  written \cup {op.key})
                  /\ now.left # 0 =>
                       Counted(batches, diskOps \ {op}, [writing EXCEPT ![op.key] = now], written)
                BY <1>1, <3>3, WriteCounted
            <4> HIDE DEF now
            <4>4. CASE now.left = 0 /\ ~now.failed
                BY <3>1, <4>2, <4>3, <4>4
            <4>5. CASE now.left = 0 /\ now.failed
                BY <3>1, <4>2, <4>3, <4>5
            <4>6. CASE now.left # 0
                BY <3>1, <4>2, <4>3, <4>6
            <4> QED BY <4>4, <4>5, <4>6
        <3> QED BY <3>2, <3>3
    <2> QED BY <2>1, <2>2
<1>4. IndexOK(ix', {}, {}) /\ Sized(ix') /\ Requests'
    BY <1>1, <1>2 DEF Sized, Requests, Req, Chain
<1>5. Batched(ix', batches') /\ Counted(batches', diskOps', writing', written')
    BY <1>1, <1>2, <1>3
<1> QED BY <1>2, <1>4, <1>5 DEF TierOK, Sized, IndexOK, Core

\* The reports of the worker.
LEMMA ReportsKept ==
    ASSUME TierOK,
           \/ \E b \in written : ReportDisk(b)
           \/ \E r \in invalid : ReportInvalid(r)
           \/ \E r \in received : ReportRecv(r)
    PROVE  TierOK'
<1>1. /\ IndexOK(ix, {}, {}) /\ Sized(ix) /\ Requests
      /\ Batched(ix, batches) /\ Counted(batches, diskOps, writing, written)
    BY DEF TierOK
<1>2. ASSUME NEW b \in written, ReportDisk(b) PROVE TierOK'
    <2> DEFINE y == ConfirmDiskWrites(ix, batches[b])
    <2>1. /\ written' = written \ {b} /\ batches' = Drop(batches, {b}) /\ ix' = y
          /\ UNCHANGED <<config, req, diskOps, writing>>
        BY <1>2 DEF ReportDisk
    <2>2. b \in DOMAIN batches /\ batches[b] \subseteq InFlight(ix)
        BY <1>1, <1>2 DEF Counted, Batched
    <2>3. /\ IndexOK(y, {}, {}) /\ y.numSlots = ix.numSlots /\ y.numDiskSlots = ix.numDiskSlots
          /\ InFlight(y) = InFlight(ix) \ batches[b]
        BY <1>1, <2>2, ConfirmDiskWritesKept
    <2> HIDE DEF y
    <2>4. Batched(y, Drop(batches, {b}))
        BY <1>1, <2>2, <2>3, BatchedDrop
    <2>5. Counted(Drop(batches, {b}), diskOps, writing, written \ {b})
        BY <1>1, <1>2, ReportCounted
    <2>6. IndexOK(ix', {}, {}) /\ Sized(ix') /\ Requests'
        BY <1>1, <2>1, <2>3 DEF Sized, Requests, Req, Chain
    <2>7. Batched(ix', batches') /\ Counted(batches', diskOps', writing', written')
        BY <2>1, <2>4, <2>5
    <2> QED BY <2>1, <2>6, <2>7 DEF TierOK, Sized, IndexOK, Core
<1>3. ASSUME NEW t, NEW r, req' = [req EXCEPT ![r] = t], TrackOK(req[r]) => TrackOK(t),
             config' = config
      PROVE  Requests'
    <2>1. DOMAIN req' = Req /\ \A q \in Req : TrackOK(req'[q])
        BY <1>1, <1>3 DEF Requests
    <2> QED BY <1>3, <2>1 DEF Requests, Req, Chain
<1>4. ASSUME NEW r \in invalid, ReportInvalid(r) PROVE TierOK'
    <2> DEFINE t == IF Recompute THEN [req[r] EXCEPT !.failed = TRUE, !.computed = 0]
                    ELSE Closed(r, "aborted")
    <2>1. UNCHANGED <<config, ix, batches, diskOps, writing, written>>
        BY <1>4 DEF ReportInvalid
    <2>2. req' = req \/ req' = [req EXCEPT ![r] = t]
        BY <1>4 DEF ReportInvalid
    <2>3. TrackOK(req[r]) => TrackOK([req[r] EXCEPT !.failed = TRUE, !.computed = 0])
        BY DEF TrackOK, TrackFields
    <2>4. TrackOK(req[r]) => TrackOK(t)
        BY <2>3, ClosedOK
    <2> HIDE DEF t
    <2>5. Requests'
        BY <1>1, <1>3, <2>1, <2>2, <2>4 DEF Requests, Req, Chain
    <2> QED BY <2>1, <2>5, TierSame
<1>5. ASSUME NEW r \in received, ReportRecv(r) PROVE TierOK'
    <2> DEFINE y == ConfirmPromotion(ix, promoted[r])
               t == CASE req[r].status = "aborted" -> Closed(r, "done")
                      [] req[r].status = "remote" /\ req[r].failed ->
                            [req[r] EXCEPT !.status = "waiting", !.plan = NoPlan, !.failed = FALSE]
                      [] OTHER -> [req[r] EXCEPT !.status = "running", !.plan = NoPlan,
                                                 !.doubled = Doubled(req[r], req[r].computed)]
    <2>1. /\ ix' = y \/ ix' = ix
          /\ UNCHANGED <<config, batches, diskOps, writing, written>>
        BY <1>5 DEF ReportRecv
    <2>2. req' = [req EXCEPT ![r] = t]
        BY <1>5 DEF ReportRecv
    <2>3. IndexOK(y, {}, {}) /\ SameBusy(ix, y)
        BY <1>1, ConfirmPromotionKept
    <2> HIDE DEF y
    <2>4. IndexOK(ix', {}, {}) /\ Sized(ix') /\ InFlight(ix') = InFlight(ix)
        BY <1>1, <2>1, <2>3 DEF Sized, SameBusy, InFlight
    <2>5. Batched(ix', batches') /\ Counted(batches', diskOps', writing', written')
        BY <1>1, <2>1, <2>4 DEF Batched
    <2>6. TrackOK(req[r]) => TrackOK(t)
        <3>1. NoPlan.n \in Nat
            BY DEF NoPlan
        <3> HIDE DEF NoPlan
        <3>2. TrackOK(req[r]) =>
                /\ TrackOK([req[r] EXCEPT !.status = "waiting", !.plan = NoPlan, !.failed = FALSE])
                /\ TrackOK([req[r] EXCEPT !.status = "running", !.plan = NoPlan,
                                          !.doubled = Doubled(req[r], req[r].computed)])
            BY <3>1 DEF TrackOK, TrackFields
        <3>3. TrackOK(Closed(r, "done"))
            BY ClosedOK
        <3> QED BY <3>2, <3>3
    <2> HIDE DEF t
    <2>7. Requests'
        BY <1>3, <2>1, <2>2, <2>6
    <2> QED BY <2>1, <2>4, <2>5, <2>7 DEF TierOK, Sized, IndexOK, Core
<1> QED BY <1>2, <1>4, <1>5

-----------------------------------------------------------------------------
(* The empty index.                                                        *)

LEMMA DescendingFacts ==
    ASSUME NEW n \in Nat
    PROVE  /\ Descending(n) \in Seq(1 .. n) /\ IsInjective(Descending(n))
           /\ ToSet(Descending(n)) = 1 .. n
<1> DEFINE s == Descending(n)
<1>1. DOMAIN s = 1 .. n /\ \A i \in 1 .. n : s[i] = n + 1 - i
    BY DEF Descending
<1>2. s \in [1 .. n -> 1 .. n]
    BY DEF Descending
<1>3. s \in Seq(1 .. n) /\ Len(s) = n
    BY <1>2
<1>4. \A i \in 1 .. n : n + 1 - i \in 1 .. n /\ s[n + 1 - i] = i
    BY <1>1
<1>5. IsInjective(s)
    <2>1. ASSUME NEW i \in 1 .. n, NEW j \in 1 .. n, s[i] = s[j] PROVE i = j
        BY <1>1, <2>1
    <2> HIDE DEF s
    <2> QED BY <1>1, <2>1 DEF IsInjective
<1> HIDE DEF s
<1>6. ToSet(s) = 1 .. n
    <2>1. ToSet(s) \subseteq 1 .. n
        BY <1>3, ToSetIn
    <2>2. ASSUME NEW i \in 1 .. n PROVE i \in ToSet(s)
        <3>1. n + 1 - i \in DOMAIN s /\ s[n + 1 - i] = i
            BY <1>1, <1>4
        <3> QED BY <1>3, <3>1 DEF ToSet
    <2> QED BY <2>1, <2>2
<1> QED BY <1>3, <1>5, <1>6 DEF s

LEMMA EmptyOK ==
    ASSUME NEW n \in Nat, NEW m \in Nat
    PROVE  /\ IndexOK(EmptyIndex(n, m), {}, {})
           /\ EmptyIndex(n, m).numSlots = n /\ EmptyIndex(n, m).numDiskSlots = m
<1> DEFINE x == EmptyIndex(n, m)
<1>1. /\ DOMAIN x = IndexFields /\ x.numSlots = n /\ x.numDiskSlots = m
      /\ x.free = Descending(n) /\ x.diskFree = Descending(m) /\ x.order = <<>>
      /\ DOMAIN x.traj = {} /\ x.pendingWrite = {} /\ x.orphanedPending = {}
      /\ x.orphanedBusy = {} /\ x.orphanedDisk = {} /\ x.diskPending = {}
      /\ DOMAIN x.diskOfHost = {} /\ DOMAIN x.hostBusy = {}
    BY DEF EmptyIndex, IndexFields
<1> HIDE DEF x
<1>2. /\ x.free \in Seq(1 .. n) /\ IsInjective(x.free) /\ ToSet(x.free) = 1 .. n
      /\ x.diskFree \in Seq(1 .. m) /\ IsInjective(x.diskFree) /\ ToSet(x.diskFree) = 1 .. m
    BY <1>1, DescendingFacts
<1>3. x.order \in Seq(DOMAIN x.traj) /\ IsInjective(x.order)
    BY <1>1 DEF IsInjective
<1>4. ListsOK(x)
    BY <1>1, <1>2, <1>3 DEF ListsOK
<1>5. TrajectoriesOK(x) /\ PendingOK(x, {}, {}) /\ WritesOK(x)
    BY <1>1 DEF TrajectoriesOK, PendingOK, WritesOK
<1>6. DOMAIN HostHeld(x) = {} /\ DOMAIN DiskHeld(x) = {}
    BY <1>1 DEF HostHeld, DiskHeld
<1>7. HostParted(x, {}) /\ DiskParted(x, {})
    BY <1>1, <1>2, <1>6 DEF HostParted, DiskParted, Parted
<1>8. IndexOK(x, {}, {})
    BY <1>1, <1>4, <1>5, <1>7 DEF IndexOK, Core
<1> QED BY <1>1, <1>8 DEF x

LEMMA TierInit ==
    ASSUME Init, Started
    PROVE  TierOK
<1>1. /\ ix = EmptyIndex(config.numHost, config.numDisk)
      /\ req = [r \in Req |-> NewTrack(r)] /\ diskOps = {}
      /\ DOMAIN batches = {} /\ DOMAIN writing = {} /\ written = {}
    BY DEF Init
<1>2. IndexOK(ix, {}, {}) /\ Sized(ix)
    BY <1>1, EmptyOK DEF Started, Sized
<1>3. \A r \in Req : TrackOK(NewTrack(r))
    BY DEF TrackOK, TrackFields, NewTrack, NoPlan
<1>4. Requests
    BY <1>1, <1>3 DEF Requests
<1>5. Batched(ix, batches)
    BY <1>1 DEF Batched
<1>6. Counted(batches, diskOps, writing, written)
    BY <1>1, FS_EmptySet DEF Counted, OpsOK, LeftOK
<1> QED BY <1>2, <1>4, <1>5, <1>6 DEF TierOK

-----------------------------------------------------------------------------
(* What the invariant says of the slots.                                   *)

\* Every place of a host slot, and of a disk slot.
LEMMA HostPlacesAre ==
    ASSUME NEW s, NEW q
    PROVE  q \in HostPlaces(s) <=>
             \/ \E k \in 1 .. Len(ix.free) : ix.free[k] = s /\ q = <<"free", k>>
             \/ s \in ix.orphanedPending /\ q = <<"orphan", 1>>
             \/ s \in ix.orphanedBusy /\ q = <<"orphan", 2>>
             \/ \E o \in DOMAIN ix.traj : \E k \in 1 .. Len(ix.traj[o].attn) :
                   ix.traj[o].attn[k] = s /\ q = <<o, k>>
             \/ \E o \in DOMAIN ix.traj : ix.traj[o].tail = s /\ q = <<o, 0>>
BY DEF HostPlaces

LEMMA DiskPlacesAre ==
    ASSUME NEW d, NEW q
    PROVE  q \in DiskPlaces(d) <=>
             \/ \E k \in 1 .. Len(ix.diskFree) : ix.diskFree[k] = d /\ q = <<"free", k>>
             \/ d \in ix.orphanedDisk /\ q = <<"orphan", 0>>
             \/ \E o \in DOMAIN ix.traj : \E k \in 1 .. Len(ix.traj[o].diskAttn) :
                   ix.traj[o].diskAttn[k] = d /\ q = <<o, k>>
             \/ \E o \in DOMAIN ix.traj : ix.traj[o].diskTail = d /\ q = <<o, 0>>
BY DEF DiskPlaces

OnlyPlace(S, p) == \A q : q \in S <=> q = p
LEMMA OnePlace ==
    ASSUME NEW S, NEW p, OnlyPlace(S, p)
    PROVE  Cardinality(S) = 1
<1>1. S = {p}
    BY DEF OnlyPlace
<1> QED BY <1>1, FS_Singleton

Listed(list, s) ==
    /\ s \in ToSet(list) <=> \E k \in 1 .. Len(list) : list[k] = s
    /\ \A j \in 1 .. Len(list) : \A k \in 1 .. Len(list) :
          list[j] = s /\ list[k] = s => j = k
LEMMA ListedOnce ==
    ASSUME NEW T, NEW list \in Seq(T), IsInjective(list), NEW s
    PROVE  Listed(list, s)
<1>1. DOMAIN list = 1 .. Len(list)
    OBVIOUS
<1>2. s \in ToSet(list) <=> \E k \in 1 .. Len(list) : list[k] = s
    BY <1>1 DEF ToSet
<1>3. ASSUME NEW j \in 1 .. Len(list), NEW k \in 1 .. Len(list), list[j] = s, list[k] = s
      PROVE  j = k
    BY <1>1, <1>3 DEF IsInjective
<1> QED BY <1>2, <1>3 DEF Listed

\* A slot is free, an orphan, or one trajectory's; there it has one position.
LEMMA HostSlotOnce ==
    ASSUME IndexOK(ix, {}, {}), NEW s \in 1 .. ix.numSlots
    PROVE  Cardinality(HostPlaces(s)) = 1
<1>1. /\ ListsOK(ix) /\ TrajectoriesOK(ix) /\ HostParted(ix, {}) /\ PendingOK(ix, {}, {})
      /\ ix.numSlots \in Nat
    BY DEF IndexOK, Core, ListsOK
<1>2. s # None
    BY <1>1 DEF None
<1>3. /\ s \in ToSet(ix.free) <=> \E k \in 1 .. Len(ix.free) : ix.free[k] = s
      /\ \A j \in 1 .. Len(ix.free) : \A k \in 1 .. Len(ix.free) :
            ix.free[j] = s /\ ix.free[k] = s => j = k
    <2>1. Listed(ix.free, s)
        BY <1>1, ListedOnce DEF ListsOK
    <2> QED BY <2>1 DEF Listed
<1>4. ASSUME NEW o \in DOMAIN ix.traj
      PROVE  /\ s \in HostSlots(ix.traj[o]) <=>
                  \/ ix.traj[o].tail = s
                  \/ \E k \in 1 .. Len(ix.traj[o].attn) : ix.traj[o].attn[k] = s
             /\ \A j \in 1 .. Len(ix.traj[o].attn) : \A k \in 1 .. Len(ix.traj[o].attn) :
                  ix.traj[o].attn[j] = s /\ ix.traj[o].attn[k] = s => j = k
             /\ \A k \in 1 .. Len(ix.traj[o].attn) :
                  ix.traj[o].attn[k] = s => ix.traj[o].tail # s
    <2> DEFINE t == ix.traj[o]
    <2>1. TrajectoryOK(t, ix.numSlots, ix.numDiskSlots)
        BY <1>1 DEF TrajectoriesOK
    <2>2. DOMAIN t.attn = 1 .. Len(t.attn)
        BY <2>1 DEF TrajectoryOK
    <2> HIDE DEF t
    <2>3. s \in HostSlots(t) <=> t.tail = s \/ \E k \in 1 .. Len(t.attn) : t.attn[k] = s
        BY <1>2, <2>2, HeldSlots
    <2>4. Once(t.attn, t.tail)
        BY <2>1 DEF TrajectoryOK
    <2>5. \A j \in 1 .. Len(t.attn) : \A k \in 1 .. Len(t.attn) :
             t.attn[j] = s /\ t.attn[k] = s => j = k
        BY <1>2, <2>2, <2>4 DEF Once
    <2>6. \A k \in 1 .. Len(t.attn) : t.attn[k] = s => t.tail # s
        BY <1>2, <2>2, <2>4 DEF Once
    <2> QED BY <2>3, <2>5, <2>6 DEF t
<1>5. /\ s \in ToSet(ix.free) \/ s \in ix.orphanedPending \/ s \in ix.orphanedBusy
         \/ \E o \in DOMAIN ix.traj : s \in HostSlots(ix.traj[o])
      /\ s \in ToSet(ix.free) => s \notin ix.orphanedPending /\ s \notin ix.orphanedBusy
      /\ \A o \in DOMAIN ix.traj : s \in HostSlots(ix.traj[o]) =>
            s \notin ToSet(ix.free) /\ s \notin ix.orphanedPending /\ s \notin ix.orphanedBusy
      /\ \A o \in DOMAIN ix.traj : \A p \in DOMAIN ix.traj :
            s \in HostSlots(ix.traj[o]) /\ s \in HostSlots(ix.traj[p]) => o = p
    <2>1. DOMAIN HostHeld(ix) = DOMAIN ix.traj
          /\ \A o \in DOMAIN ix.traj : HostHeld(ix)[o] = HostSlots(ix.traj[o])
        BY DEF HostHeld
    <2> QED BY <1>1, <2>1 DEF HostParted, Parted
<1>6. ~(s \in ix.orphanedPending /\ s \in ix.orphanedBusy)
    BY <1>1 DEF PendingOK
<1> DEFINE P == HostPlaces(s)
<1>7. Cardinality(P) = 1
    <2>1. CASE s \in ToSet(ix.free)
        <3>1. PICK k \in 1 .. Len(ix.free) : ix.free[k] = s
            BY <1>3, <2>1
        <3>2. OnlyPlace(P, <<"free", k>>)
            BY <1>3, <1>4, <1>5, <2>1, <3>1, HostPlacesAre DEF OnlyPlace
        <3> QED BY <3>2, OnePlace
    <2>2. CASE s \in ix.orphanedPending
        <3>1. OnlyPlace(P, <<"orphan", 1>>)
            BY <1>3, <1>4, <1>5, <1>6, <2>2, HostPlacesAre DEF OnlyPlace
        <3> QED BY <3>1, OnePlace
    <2>3. CASE s \in ix.orphanedBusy
        <3>1. OnlyPlace(P, <<"orphan", 2>>)
            BY <1>3, <1>4, <1>5, <1>6, <2>3, HostPlacesAre DEF OnlyPlace
        <3> QED BY <3>1, OnePlace
    <2>4. ASSUME NEW o \in DOMAIN ix.traj, s \in HostSlots(ix.traj[o])
          PROVE  Cardinality(P) = 1
        <3>1. /\ s \notin ToSet(ix.free) /\ s \notin ix.orphanedPending /\ s \notin ix.orphanedBusy
              /\ \A p \in DOMAIN ix.traj : s \in HostSlots(ix.traj[p]) => p = o
            BY <1>5, <2>4
        <3>2. CASE ix.traj[o].tail = s
            <4>1. OnlyPlace(P, <<o, 0>>)
                BY <1>3, <1>4, <3>1, <3>2, HostPlacesAre DEF OnlyPlace
            <4> QED BY <4>1, OnePlace
        <3>3. CASE ix.traj[o].tail # s
            <4>1. PICK k \in 1 .. Len(ix.traj[o].attn) : ix.traj[o].attn[k] = s
                BY <1>4, <2>4, <3>3
            <4>2. OnlyPlace(P, <<o, k>>)
                BY <1>3, <1>4, <3>1, <3>3, <4>1, HostPlacesAre DEF OnlyPlace
            <4> QED BY <4>2, OnePlace
        <3> QED BY <3>2, <3>3
    <2> QED BY <1>5, <2>1, <2>2, <2>3, <2>4
<1> QED BY <1>7

LEMMA DiskSlotOnce ==
    ASSUME IndexOK(ix, {}, {}), NEW d \in 1 .. ix.numDiskSlots
    PROVE  Cardinality(DiskPlaces(d)) = 1
<1>1. /\ ListsOK(ix) /\ TrajectoriesOK(ix) /\ DiskParted(ix, {})
      /\ ix.numDiskSlots \in Nat
    BY DEF IndexOK, Core, ListsOK
<1>2. d # None
    BY <1>1 DEF None
<1>3. /\ d \in ToSet(ix.diskFree) <=> \E k \in 1 .. Len(ix.diskFree) : ix.diskFree[k] = d
      /\ \A j \in 1 .. Len(ix.diskFree) : \A k \in 1 .. Len(ix.diskFree) :
            ix.diskFree[j] = d /\ ix.diskFree[k] = d => j = k
    <2>1. Listed(ix.diskFree, d)
        BY <1>1, ListedOnce DEF ListsOK
    <2> QED BY <2>1 DEF Listed
<1>4. ASSUME NEW o \in DOMAIN ix.traj
      PROVE  /\ d \in DiskSlots(ix.traj[o]) <=>
                  \/ ix.traj[o].diskTail = d
                  \/ \E k \in 1 .. Len(ix.traj[o].diskAttn) : ix.traj[o].diskAttn[k] = d
             /\ \A j \in 1 .. Len(ix.traj[o].diskAttn) : \A k \in 1 .. Len(ix.traj[o].diskAttn) :
                  ix.traj[o].diskAttn[j] = d /\ ix.traj[o].diskAttn[k] = d => j = k
             /\ \A k \in 1 .. Len(ix.traj[o].diskAttn) :
                  ix.traj[o].diskAttn[k] = d => ix.traj[o].diskTail # d
    <2> DEFINE t == ix.traj[o]
    <2>1. TrajectoryOK(t, ix.numSlots, ix.numDiskSlots)
        BY <1>1 DEF TrajectoriesOK
    <2>2. DOMAIN t.diskAttn = 1 .. Len(t.diskAttn)
        BY <2>1 DEF TrajectoryOK
    <2> HIDE DEF t
    <2>3. d \in DiskSlots(t) <=>
             t.diskTail = d \/ \E k \in 1 .. Len(t.diskAttn) : t.diskAttn[k] = d
        BY <1>2, <2>2, HeldSlots
    <2>4. Once(t.diskAttn, t.diskTail)
        BY <2>1 DEF TrajectoryOK
    <2>5. \A j \in 1 .. Len(t.diskAttn) : \A k \in 1 .. Len(t.diskAttn) :
             t.diskAttn[j] = d /\ t.diskAttn[k] = d => j = k
        BY <1>2, <2>2, <2>4 DEF Once
    <2>6. \A k \in 1 .. Len(t.diskAttn) : t.diskAttn[k] = d => t.diskTail # d
        BY <1>2, <2>2, <2>4 DEF Once
    <2> QED BY <2>3, <2>5, <2>6 DEF t
<1>5. /\ d \in ToSet(ix.diskFree) \/ d \in ix.orphanedDisk
         \/ \E o \in DOMAIN ix.traj : d \in DiskSlots(ix.traj[o])
      /\ d \in ToSet(ix.diskFree) => d \notin ix.orphanedDisk
      /\ \A o \in DOMAIN ix.traj : d \in DiskSlots(ix.traj[o]) =>
            d \notin ToSet(ix.diskFree) /\ d \notin ix.orphanedDisk
      /\ \A o \in DOMAIN ix.traj : \A p \in DOMAIN ix.traj :
            d \in DiskSlots(ix.traj[o]) /\ d \in DiskSlots(ix.traj[p]) => o = p
    <2>1. DOMAIN DiskHeld(ix) = DOMAIN ix.traj
          /\ \A o \in DOMAIN ix.traj : DiskHeld(ix)[o] = DiskSlots(ix.traj[o])
        BY DEF DiskHeld
    <2> QED BY <1>1, <2>1 DEF DiskParted, Parted
<1> DEFINE P == DiskPlaces(d)
<1>6. Cardinality(P) = 1
    <2>1. CASE d \in ToSet(ix.diskFree)
        <3>1. PICK k \in 1 .. Len(ix.diskFree) : ix.diskFree[k] = d
            BY <1>3, <2>1
        <3>2. OnlyPlace(P, <<"free", k>>)
            BY <1>3, <1>4, <1>5, <2>1, <3>1, DiskPlacesAre DEF OnlyPlace
        <3> QED BY <3>2, OnePlace
    <2>2. CASE d \in ix.orphanedDisk
        <3>1. OnlyPlace(P, <<"orphan", 0>>)
            BY <1>3, <1>4, <1>5, <2>2, DiskPlacesAre DEF OnlyPlace
        <3> QED BY <3>1, OnePlace
    <2>3. ASSUME NEW o \in DOMAIN ix.traj, d \in DiskSlots(ix.traj[o])
          PROVE  Cardinality(P) = 1
        <3>1. /\ d \notin ToSet(ix.diskFree) /\ d \notin ix.orphanedDisk
              /\ \A p \in DOMAIN ix.traj : d \in DiskSlots(ix.traj[p]) => p = o
            BY <1>5, <2>3
        <3>2. CASE ix.traj[o].diskTail = d
            <4>1. OnlyPlace(P, <<o, 0>>)
                BY <1>3, <1>4, <3>1, <3>2, DiskPlacesAre DEF OnlyPlace
            <4> QED BY <4>1, OnePlace
        <3>3. CASE ix.traj[o].diskTail # d
            <4>1. PICK k \in 1 .. Len(ix.traj[o].diskAttn) : ix.traj[o].diskAttn[k] = d
                BY <1>4, <2>3, <3>3
            <4>2. OnlyPlace(P, <<o, k>>)
                BY <1>3, <1>4, <3>1, <3>3, <4>1, DiskPlacesAre DEF OnlyPlace
            <4> QED BY <4>2, OnePlace
        <3> QED BY <3>2, <3>3
    <2> QED BY <1>5, <2>1, <2>2, <2>3
<1> QED BY <1>6

LEMMA PlacesFollow ==
    ASSUME TierOK
    PROVE  SlotsOnce
<1>1. IndexOK(ix, {}, {}) /\ ix.numSlots = config.numHost /\ ix.numDiskSlots = config.numDisk
    BY DEF TierOK, Sized
<1>2. \A s \in HostSlot : Cardinality(HostPlaces(s)) = 1
    BY <1>1, HostSlotOnce DEF HostSlot
<1>3. \A d \in DiskSlot : Cardinality(DiskPlaces(d)) = 1
    BY <1>1, DiskSlotOnce DEF DiskSlot
<1> QED BY <1>2, <1>3 DEF SlotsOnce, HostSlotsOnce, DiskSlotsOnce

LEMMA BusyFollows ==
    ASSUME TierOK
    PROVE  BusyRowsHeld
<1>1. PendingOK(ix, {}, {})
    BY DEF TierOK, IndexOK, Core
<1> QED BY <1>1 DEF PendingOK, BusyRowsHeld

-----------------------------------------------------------------------------
(* The theorems.                                                           *)

Inv == config \in Configs /\ (HostOnlyIfPartial => TierOK)

\* The invariant of the tier: every slot has one place, what is being written
\* is not free, each disk write in flight goes from a row that is still held to
\* a disk slot that is still pending, is in at most one unconfirmed batch, and
\* a batch is reported once, when the last of its writes is done.
THEOREM TierKept == Spec => []Inv
<1>1. Init => Inv
    BY StartedOK, TierInit DEF Inv, Init
<1>2. Inv /\ [Next]_vars => Inv'
    <2> SUFFICES ASSUME Inv, [Next]_vars PROVE Inv'
        OBVIOUS
    <2>1. config' = config
        BY DEF Next, vars, StepRun, StepNoRoom, StepAdmit, StepFailRestore, FinishPlain,
               AbortRemote, FinishSavingTail, Preempt, CopyStep, DiskIO, ReportDisk,
               ReportInvalid, ReportRecv
    <2>2. config' \in Configs /\ (HostOnlyIfPartial' => HostOnlyIfPartial)
        BY <2>1 DEF Inv, HostOnlyIfPartial, AttentionOnly
    <2>3. ASSUME HostOnlyIfPartial PROVE TierOK'
        <3>1. TierOK /\ Started
            BY <2>3, StartedOK DEF Inv
        <3>2. CASE UNCHANGED vars
            <4>1. Requests'
                BY <3>1, <3>2 DEF TierOK, Requests, Req, Chain, vars
            <4> QED BY <3>1, <3>2, <4>1, TierSame DEF vars
        <3>3. ASSUME NEW run \in Schedulable, StepRun(run) PROVE TierOK'
            BY <2>3, <3>1, <3>3, RunKept
        <3>4. ASSUME NEW run \in Schedulable, NEW r \in WithStatus({"waiting"}),
                     \/ StepNoRoom(run, r, GetMatched(r))
                     \/ StepAdmit(run, r, GetMatched(r))
                     \/ StepFailRestore(run, r, GetMatched(r))
              PROVE  TierOK'
            <4>1. r \in Req
                BY <3>4 DEF WithStatus
            <4> QED BY <2>3, <3>1, <3>4, <4>1, StepsKept
        <3>5. ASSUME NEW r \in Req, FinishPlain(r) \/ AbortRemote(r) \/ Preempt(r)
              PROVE  TierOK'
            BY <3>1, <3>5, EndsKept
        <3>6. ASSUME NEW r \in Req, NEW boundary \in 1 .. Len(Chain[r]),
                     FinishSavingTail(r, boundary,
                        StageTail(ix, req[r].owner, boundary, Chain[r][boundary]))
              PROVE  TierOK'
            <4>1. boundary \in Nat
                BY <3>1, <3>6 DEF Started
            <4> QED BY <3>1, <3>6, <4>1, TailSaveKept
        <3>7. CASE CopyStep \/ \E op \in diskOps, ok \in BOOLEAN : DiskIO(op, ok)
            BY <3>1, <3>7, WorkerKept
        <3>8. CASE \/ \E b \in written : ReportDisk(b)
                   \/ \E r \in invalid : ReportInvalid(r)
                   \/ \E r \in received : ReportRecv(r)
            BY <3>1, <3>8, ReportsKept
        <3> QED BY <3>2, <3>3, <3>4, <3>5, <3>6, <3>7, <3>8 DEF Next
    <2> QED BY <2>2, <2>3 DEF Inv
<1> QED BY <1>1, <1>2, PTL DEF Spec

\* kv_tier_index.py neither loses a slot nor gives one away twice, on either
\* tier: staging, superseding, retiring a tail, demoting, promoting, rolling a
\* promotion back, and confirmations of writes in any order.
THEOREM SlotsStayOnce == Spec => [](HostOnlyIfPartial => SlotsOnce)
<1>1. Inv => (HostOnlyIfPartial => SlotsOnce)
    BY PlacesFollow DEF Inv
<1> QED BY <1>1, TierKept, PTL

\* take_disk_writes: a row the IO threads may still read is neither free nor
\* handed out to be written, until confirm_disk_writes reports its batch.
THEOREM RowsStayHeld == Spec => [](HostOnlyIfPartial => BusyRowsHeld)
<1>1. Inv => (HostOnlyIfPartial => BusyRowsHeld)
    BY BusyFollows DEF Inv
<1> QED BY <1>1, TierKept, PTL

\* update_connector_output only ever confirms a batch it still has, and all of
\* its writes are in flight: none was confirmed before, none given up.
ReportsFound ==
    /\ written \subseteq DOMAIN batches
    /\ \A b \in written : batches[b] \subseteq InFlight(ix)
THEOREM BatchesReported == Spec => [](HostOnlyIfPartial => ReportsFound)
<1>1. Inv => (HostOnlyIfPartial => ReportsFound)
    BY DEF Inv, TierOK, Counted, Batched, ReportsFound
<1> QED BY <1>1, TierKept, PTL

=============================================================================
