-------------------------- MODULE AsyncSchedProofs --------------------------
(***************************************************************************)
(* Proofs about BlockPool, for any number of blocks, prefixes and cache    *)
(* groups: whatever the calls, the free queue holds exactly the blocks     *)
(* without a reference, the hash index leads exactly to the blocks that    *)
(* know a key, and the reference counts move by what was asked.  On them,  *)
(* proofs about AsyncSched, for any requests, texts and configurations:    *)
(* the references of every block are those of the tables and of the        *)
(* deferred frees, and the blocks that a step in flight writes keep theirs *)
(* until it has run, in every state.                                       *)
(***************************************************************************)
EXTENDS AsyncSched, FiniteSetsExt, SequencesExt, FiniteSetTheorems, WellFoundedInduction, TLAPS

-----------------------------------------------------------------------------
(* Facts about naturals, lists and folds.                                  *)

\* A nonempty set of naturals has a least element.
LEMMA LeastElement ==
  ASSUME NEW T, T \subseteq Nat, T # {}
  PROVE  \E x \in T : \A y \in T : x <= y
<1> DEFINE R == OpToRel(<, Nat)
<1>1. IsWellFoundedOn(R, Nat)
  BY NatLessThanWellFounded
<1>2. \E x \in T : \A y \in T : ~ (<<y, x>> \in R)
  <2> HIDE DEF R
  <2> QED BY <1>1, WFMin
<1>3. PICK x \in T : \A y \in T : ~ (<<y, x>> \in R)
  BY <1>2
<1>4. \A y \in T : ~ (y < x)
  <2> SUFFICES ASSUME NEW y \in T, y < x PROVE FALSE
    OBVIOUS
  <2>1. <<y, x>> \notin OpToRel(<, Nat)
    BY <1>3
  <2>2. ~ (<<y, x>> \in Nat \X Nat /\ <<y, x>>[1] < <<y, x>>[2])
    BY <2>1 DEF OpToRel
  <2> HIDE DEF R
  <2>3. x \in Nat /\ y \in Nat
    OBVIOUS
  <2>4. <<y, x>> \in Nat \X Nat /\ <<y, x>>[1] = y /\ <<y, x>>[2] = x
    BY <2>3
  <2> QED BY <2>2, <2>4
<1> HIDE DEF R
<1> QED BY <1>4

\* A set with 0 and the successor of each of its members holds every natural.
LEMMA SetInduction ==
  ASSUME NEW T, 0 \in T, \A n \in Nat : n \in T => n + 1 \in T
  PROVE  Nat \subseteq T
<1> SUFFICES ASSUME Nat \ T # {} PROVE FALSE
  OBVIOUS
<1>1. PICK x \in Nat \ T : \A y \in Nat \ T : x <= y
  BY LeastElement
<1>2. x # 0 
  BY <1>1
<1>3. x - 1 \in Nat /\ x - 1 \notin Nat \ T
  BY <1>1, <1>2
<1> QED BY <1>1, <1>3

\* A sequence without repetitions is as long as its range is large.
LEMMA InjectiveLen ==
    ASSUME NEW T, NEW s \in Seq(T), IsInjective(s)
    PROVE  IsFiniteSet(Range(s)) /\ Len(s) = Cardinality(Range(s))
<1>1. s \in Bijection(1..Len(s), Range(s))
    <2>1. s \in [1..Len(s) -> Range(s)]
        BY DEF Range
    <2>2. s \in Injection(1..Len(s), Range(s))
        BY <2>1 DEF IsInjective, Injection
    <2>3. s \in Surjection(1..Len(s), Range(s))
        BY <2>1 DEF Range, Surjection
    <2> QED BY <2>2, <2>3 DEF Bijection
<1>2. IsFiniteSet(1..Len(s)) /\ Cardinality(1..Len(s)) = Len(s)
    <2>1. Len(s) \in Nat
        OBVIOUS
    <2>2. \A n \in Nat : IsFiniteSet(1..n) /\ Cardinality(1..n) = n
        BY FS_Interval
    <2> QED BY <2>1, <2>2
<1>3. ExistsBijection(1..Len(s), Range(s))
    BY <1>1 DEF ExistsBijection
<1> QED BY <1>2, <1>3, FS_Bijection

\* Append, concatenation and cuts of sequences without repetitions.
LEMMA InjectiveAppend ==
    ASSUME NEW T, NEW s \in Seq(T), NEW x \in T
    PROVE  /\ Append(s, x) \in Seq(T) /\ Range(Append(s, x)) = Range(s) \cup {x}
           /\ IsInjective(s) /\ x \notin Range(s) => IsInjective(Append(s, x))
<1>1. /\ Append(s, x) \in Seq(T) /\ Len(Append(s, x)) = Len(s) + 1
      /\ Append(s, x)[Len(s) + 1] = x
      /\ \A i \in 1..Len(s) : Append(s, x)[i] = s[i]
    OBVIOUS
<1> DEFINE t == Append(s, x)
<1>2. DOMAIN t = 1..(Len(s) + 1) /\ DOMAIN s = 1..Len(s) /\ Len(s) \in Nat
    BY <1>1
<1> HIDE DEF t
<1>3. \A i \in DOMAIN t : i = Len(s) + 1 \/ i \in DOMAIN s
    BY <1>2
<1>4. \A i \in DOMAIN s : i \in DOMAIN t /\ t[i] = s[i]
    BY <1>1, <1>2 DEF t
<1>5. Len(s) + 1 \in DOMAIN t /\ t[Len(s) + 1] = x
    BY <1>1, <1>2 DEF t
<1>6. Range(t) = Range(s) \cup {x}
    BY <1>3, <1>4, <1>5 DEF Range
<1>7. IsInjective(s) /\ x \notin Range(s) => IsInjective(t)
    BY <1>3, <1>4, <1>5 DEF IsInjective, Range
<1> QED BY <1>1, <1>6, <1>7 DEF t

LEMMA InjectiveConcat ==
    ASSUME NEW T, NEW s \in Seq(T), NEW t \in Seq(T)
    PROVE  /\ s \o t \in Seq(T) /\ Range(s \o t) = Range(s) \cup Range(t)
           /\ IsInjective(s) /\ IsInjective(t) /\ Range(s) \cap Range(t) = {}
                => IsInjective(s \o t)
<1> DEFINE u == s \o t
<1>1. /\ u \in Seq(T) /\ DOMAIN u = 1..(Len(s) + Len(t)) /\ Len(s) \in Nat /\ Len(t) \in Nat
      /\ DOMAIN s = 1..Len(s) /\ DOMAIN t = 1..Len(t)
    OBVIOUS
<1>2. \A i \in DOMAIN u : \/ i \in DOMAIN s /\ u[i] = s[i]
                          \/ i - Len(s) \in DOMAIN t /\ u[i] = t[i - Len(s)]
    OBVIOUS
<1>3. \A i \in DOMAIN s : i \in DOMAIN u /\ u[i] = s[i]
    OBVIOUS
<1>4. \A i \in DOMAIN t : i + Len(s) \in DOMAIN u /\ u[i + Len(s)] = t[i]
    OBVIOUS
<1> HIDE DEF u
<1>5. Range(u) = Range(s) \cup Range(t)
    <2>1. Range(u) \subseteq Range(s) \cup Range(t)
        BY <1>2 DEF Range
    <2>2. Range(s) \subseteq Range(u) /\ Range(t) \subseteq Range(u)
        BY <1>3, <1>4 DEF Range
    <2> QED BY <2>1, <2>2
<1>6. ASSUME IsInjective(s), IsInjective(t), Range(s) \cap Range(t) = {},
             NEW i \in DOMAIN u, NEW j \in DOMAIN u, u[i] = u[j]
      PROVE  i = j
    <2>1. CASE i \in DOMAIN s /\ u[i] = s[i] /\ j \in DOMAIN s /\ u[j] = s[j]
        BY <1>6, <2>1 DEF IsInjective
    <2>2. CASE i - Len(s) \in DOMAIN t /\ u[i] = t[i - Len(s)]
               /\ j - Len(s) \in DOMAIN t /\ u[j] = t[j - Len(s)]
        <3>1. i - Len(s) = j - Len(s)
            BY <1>6, <2>2 DEF IsInjective
        <3>2. i \in Int /\ j \in Int /\ Len(s) \in Int
            BY <1>1
        <3> QED BY <3>1, <3>2
    <2>3. \A x \in DOMAIN s, y \in DOMAIN t : s[x] # t[y]
        BY <1>6 DEF Range
    <2> QED BY <1>2, <1>6, <2>1, <2>2, <2>3
<1> QED BY <1>1, <1>5, <1>6 DEF u, IsInjective

LEMMA InjectiveCut ==
    ASSUME NEW T, NEW s \in Seq(T), NEW n \in 0..Len(s)
    PROVE  LET first == SubSeq(s, 1, n)
               rest == SubSeq(s, n + 1, Len(s))
           IN  /\ first \in Seq(T) /\ rest \in Seq(T)
               /\ Len(first) = n /\ Len(rest) = Len(s) - n
               /\ \A i \in 1..n : first[i] = s[i]
               /\ \A i \in 1..(Len(s) - n) : rest[i] = s[n + i]
               /\ Range(first) \cup Range(rest) = Range(s)
               /\ IsInjective(s) => /\ IsInjective(first) /\ IsInjective(rest)
                                    /\ Range(first) \cap Range(rest) = {}
<1> DEFINE first == SubSeq(s, 1, n)
           rest == SubSeq(s, n + 1, Len(s))
<1>1. /\ first \in Seq(T) /\ DOMAIN first = 1..n /\ Len(first) = n
      /\ \A i \in 1..n : first[i] = s[i]
    OBVIOUS
<1>2. /\ rest \in Seq(T) /\ DOMAIN rest = 1..(Len(s) - n) /\ Len(rest) = Len(s) - n
      /\ \A i \in 1..(Len(s) - n) : rest[i] = s[n + i]
    OBVIOUS
<1>3. DOMAIN s = 1..Len(s) /\ Len(s) \in Nat /\ n \in Nat /\ n <= Len(s)
    OBVIOUS
<1> HIDE DEF first, rest
<1>4. \A i \in DOMAIN first : i \in DOMAIN s /\ first[i] = s[i] /\ i <= n
    BY <1>1, <1>3
<1>5. \A i \in DOMAIN rest : i \in Nat /\ n + i \in DOMAIN s /\ rest[i] = s[n + i] /\ n + i > n
    BY <1>2, <1>3
<1>6. \A i \in DOMAIN s : \/ i \in DOMAIN first
                          \/ i - n \in DOMAIN rest /\ n + (i - n) = i
    BY <1>1, <1>2, <1>3
<1>7. Range(first) \cup Range(rest) = Range(s)
    <2>1. Range(first) \subseteq Range(s) /\ Range(rest) \subseteq Range(s)
        BY <1>4, <1>5 DEF Range
    <2>2. ASSUME NEW i \in DOMAIN s PROVE s[i] \in Range(first) \cup Range(rest)
        BY <1>4, <1>5, <1>6 DEF Range
    <2> QED BY <2>1, <2>2 DEF Range
<1>8. ASSUME IsInjective(s)
      PROVE  IsInjective(first) /\ IsInjective(rest) /\ Range(first) \cap Range(rest) = {}
    <2>1. IsInjective(first)
        BY <1>4, <1>8 DEF IsInjective
    <2>2. ASSUME NEW i \in DOMAIN rest, NEW j \in DOMAIN rest, rest[i] = rest[j]
          PROVE  i = j
        <3>1. n + i = n + j
            BY <1>5, <1>8, <2>2 DEF IsInjective
        <3> QED BY <1>3, <1>5, <3>1
    <2>3. ASSUME NEW i \in DOMAIN first, NEW j \in DOMAIN rest, first[i] = rest[j]
          PROVE  FALSE
        <3>1. i = n + j
            BY <1>4, <1>5, <1>8, <2>3 DEF IsInjective
        <3>2. i <= n /\ n + j > n /\ i \in Int
            BY <1>3, <1>4, <1>5
        <3> QED BY <1>3, <3>1, <3>2
    <2> QED BY <2>1, <2>2, <2>3 DEF IsInjective, Range
<1> QED BY <1>1, <1>2, <1>7, <1>8 DEF first, rest

LEMMA Upto ==
    ASSUME NEW m \in Nat
    PROVE  /\ 1..(m + 1) # {} /\ m + 1 \in 1..(m + 1) /\ (1..(m + 1)) \ {m + 1} = 1..m
           /\ \A t \in SUBSET (1..m) : t \in SUBSET (1..(m + 1))
<1>1. m + 1 \in 1..(m + 1)
    OBVIOUS
<1>2. \A y : y \in (1..(m + 1)) \ {m + 1} <=> y \in 1..m
    OBVIOUS
<1>3. 1..m \subseteq 1..(m + 1)
    OBVIOUS
<1> QED BY <1>1, <1>2, <1>3

\* A nonempty set of numbers up to a bound has a maximum.
LEMMA MaxFacts ==
    ASSUME NEW m \in Nat
    PROVE  /\ \A t \in SUBSET (1..(m + 1)) : t # {} =>
                 /\ Max(t) \in t /\ t \ {Max(t)} \in SUBSET (1..m)
                 /\ \A y \in t : y <= Max(t)
           /\ Max(1..(m + 1)) = m + 1
<1>1. ASSUME NEW t \in SUBSET (1..(m + 1)), t # {}
      PROVE  \E x \in t : \A y \in t : x >= y
    <2> DEFINE d == {m + 1 - y : y \in t}
    <2>1. d \subseteq Nat /\ d # {}
        <3>1. ASSUME NEW y \in t PROVE m + 1 - y \in Nat
            <4>1. y \in 1..(m + 1)
                BY <1>1
            <4> QED BY <4>1
        <3> QED BY <1>1, <3>1
    <2>2. PICK z \in d : \A y \in d : z <= y
        <3> HIDE DEF d
        <3> QED BY <2>1, LeastElement
    <2>3. PICK x \in t : z = m + 1 - x
        BY <2>2
    <2>4. ASSUME NEW y \in t PROVE x >= y
        <3>1. z <= m + 1 - y
            BY <2>2, <2>4
        <3>2. x \in 1..(m + 1) /\ y \in 1..(m + 1)
            BY <1>1, <2>3, <2>4
        <3> QED BY <2>3, <3>1, <3>2
    <2> QED BY <2>4
<1>2. ASSUME NEW t \in SUBSET (1..(m + 1)), t # {}
      PROVE  Max(t) \in t /\ \A y \in t : Max(t) >= y
    BY <1>1, <1>2 DEF Max
<1>3. ASSUME NEW t \in SUBSET (1..(m + 1)), t # {}
      PROVE  t \ {Max(t)} \in SUBSET (1..m)
    <2>1. ASSUME NEW y \in t, y # Max(t) PROVE y \in 1..m
        <3>1. y \in 1..(m + 1) /\ Max(t) \in 1..(m + 1) /\ Max(t) >= y
            BY <1>2, <1>3, <2>1
        <3> QED BY <2>1, <3>1
    <2> QED BY <2>1
<1>4. Max(1..(m + 1)) = m + 1
    <2>1. 1..(m + 1) \in SUBSET (1..(m + 1)) /\ 1..(m + 1) # {} /\ m + 1 \in 1..(m + 1)
        BY Upto
    <2>2. Max(1..(m + 1)) \in 1..(m + 1) /\ Max(1..(m + 1)) >= m + 1
        BY <1>2, <2>1
    <2> QED BY <2>2
<1>5. ASSUME NEW t \in SUBSET (1..(m + 1)), t # {}, NEW y \in t PROVE y <= Max(t)
    <2>1. Max(t) >= y /\ y \in 1..(m + 1) /\ Max(t) \in 1..(m + 1)
        BY <1>2, <1>5
    <2> QED BY <2>1
<1> QED BY <1>2, <1>3, <1>4, <1>5

LEMMA PrefixSets ==
    ASSUME NEW n \in Nat, NEW i \in 1..n
    PROVE  /\ Max(1..i) = i /\ 1..i # {} /\ 1..i \in SUBSET (1..n)
           /\ (1..i) \ {i} = 1..(i - 1) /\ i - 1 \in 0..n
<1>1. i - 1 \in Nat /\ (i - 1) + 1 = i /\ i - 1 \in 0..n
    OBVIOUS
<1>2. \A y \in 1..i : y \in 1..n
    OBVIOUS
<1> QED BY <1>1, <1>2, Upto, MaxFacts

-----------------------------------------------------------------------------
(* Sequences.                                                              *)

\* The places of b among the first i of s, and their number.
PlacesTo(b, s, i) == {j \in 1..i : s[j] = b}
CountTo(b, s, i) == Cardinality(PlacesTo(b, s, i))
Count(b, s) == Cardinality(Places(b, s))

\* The places of a sequence are those up to its end; there are finitely many.
LEMMA CountFacts ==
    ASSUME NEW T, NEW s \in Seq(T), NEW b
    PROVE  /\ IsFiniteSet(Places(b, s)) /\ Count(b, s) \in Nat
           /\ Count(b, s) = CountTo(b, s, Len(s))
           /\ Count(b, s) > 0 <=> b \in Range(s)
<1>1. Places(b, s) = PlacesTo(b, s, Len(s))
    BY DEF Places, PlacesTo
<1>2. IsFiniteSet(1..Len(s)) /\ Places(b, s) \in SUBSET (1..Len(s))
    BY FS_Interval DEF Places
<1>3. IsFiniteSet(Places(b, s)) /\ Count(b, s) \in Nat
    BY <1>2, FS_Subset, FS_CardinalityType DEF Count
<1>4. Count(b, s) = 0 <=> Places(b, s) = {}
    BY <1>3, FS_EmptySet DEF Count
<1>5. Places(b, s) # {} <=> b \in Range(s)
    BY DEF Places, Range
<1> QED BY <1>1, <1>3, <1>4, <1>5 DEF Count, CountTo

\* One more place counts when it holds b.
LEMMA CountStep ==
    ASSUME NEW s, NEW b, NEW i \in Nat
    PROVE  /\ IsFiniteSet(PlacesTo(b, s, i)) /\ CountTo(b, s, i) \in Nat
           /\ CountTo(b, s, 0) = 0
           /\ s[i + 1] = b => CountTo(b, s, i + 1) = CountTo(b, s, i) + 1
           /\ s[i + 1] # b => CountTo(b, s, i + 1) = CountTo(b, s, i)
           /\ \A j \in Nat : i <= j => CountTo(b, s, i) <= CountTo(b, s, j)
<1>1. \A j \in Nat : IsFiniteSet(PlacesTo(b, s, j)) /\ CountTo(b, s, j) \in Nat
    <2> TAKE j \in Nat
    <2>1. IsFiniteSet(1..j) /\ PlacesTo(b, s, j) \in SUBSET (1..j)
        BY FS_Interval DEF PlacesTo
    <2> QED BY <2>1, FS_Subset, FS_CardinalityType DEF CountTo
<1>2. CountTo(b, s, 0) = 0
    <2>1. PlacesTo(b, s, 0) = {}
        BY DEF PlacesTo
    <2> QED BY <2>1, FS_EmptySet DEF CountTo
<1>3. PlacesTo(b, s, i + 1) = PlacesTo(b, s, i) \cup (IF s[i + 1] = b THEN {i + 1} ELSE {})
    BY DEF PlacesTo
<1>4. i + 1 \notin PlacesTo(b, s, i)
    BY DEF PlacesTo
<1>5. CountTo(b, s, i + 1) = CountTo(b, s, i) + (IF s[i + 1] = b THEN 1 ELSE 0)
    <2>1. CASE s[i + 1] = b
        BY <1>1, <1>3, <1>4, <2>1, FS_AddElement DEF CountTo
    <2>2. CASE s[i + 1] # b
        <3>1. PlacesTo(b, s, i + 1) = PlacesTo(b, s, i)
            BY <1>3, <2>2
        <3> QED BY <1>1, <2>2, <3>1 DEF CountTo
    <2> QED BY <2>1, <2>2
<1>6. ASSUME NEW j \in Nat, i <= j PROVE CountTo(b, s, i) <= CountTo(b, s, j)
    <2>1. PlacesTo(b, s, i) \in SUBSET PlacesTo(b, s, j)
        BY <1>6 DEF PlacesTo
    <2> QED BY <1>1, <2>1, FS_Subset DEF CountTo
<1> QED BY <1>1, <1>2, <1>5, <1>6

\* Without repetitions, what is in the sequence has one place.
LEMMA InjectiveCount ==
    ASSUME NEW T, NEW s \in Seq(T), IsInjective(s), NEW b
    PROVE  Count(b, s) = IF b \in Range(s) THEN 1 ELSE 0
<1>1. CASE b \in Range(s)
    <2>1. PICK i \in DOMAIN s : s[i] = b
        BY <1>1 DEF Range
    <2>2. Places(b, s) = {i}
        BY <2>1 DEF Places, IsInjective
    <2> QED BY <1>1, <2>2, FS_Singleton DEF Count
<1>2. CASE b \notin Range(s)
    <2>1. Places(b, s) = {}
        BY <1>2 DEF Places, Range
    <2> QED BY <1>2, <2>1, FS_EmptySet DEF Count
<1> QED BY <1>1, <1>2

-----------------------------------------------------------------------------
(* Filter.                                                                 *)

\* What Filter has taken of the first i of s.
LEMMA FilterSteps ==
    ASSUME NEW T, NEW s \in Seq(T), NEW S
    PROVE  \E kept : /\ kept[0] = <<>> /\ kept[Len(s)] = Filter(s, S)
                     /\ \A i \in 1..Len(s) :
                            kept[i] = IF s[i] \in S THEN Append(kept[i - 1], s[i])
                                                    ELSE kept[i - 1]
<1> DEFINE n == Len(s)
           G(g, m) == g = [i \in 0..m |-> IF i = 0 THEN <<>>
                                          ELSE IF s[i] \in S THEN Append(g[i - 1], s[i])
                                                             ELSE g[i - 1]]
           Y == {m \in Nat : \E g : G(g, m)}
<1>1. Nat \subseteq Y
    <2>1. 0 \in Y
        <3>1. G([i \in 0..0 |-> <<>>], 0)
            OBVIOUS
        <3> QED BY <3>1
    <2>2. ASSUME NEW m \in Nat, m \in Y PROVE m + 1 \in Y
        <3>1. PICK g : G(g, m)
            BY <2>2
        <3> DEFINE h == [i \in 0..(m + 1) |-> IF i = 0 THEN <<>>
                                              ELSE IF s[i] \in S THEN Append(g[i - 1], s[i])
                                                                 ELSE g[i - 1]]
        <3>2. \A i \in 0..m : i \in 0..(m + 1) /\ h[i] = g[i]
            <4>1. \A i \in 0..m : i \in 0..(m + 1)
                OBVIOUS
            <4>2. \A i \in 0..m : g[i] = IF i = 0 THEN <<>>
                                         ELSE IF s[i] \in S THEN Append(g[i - 1], s[i])
                                                            ELSE g[i - 1]
                BY <3>1
            <4> QED BY <4>1, <4>2
        <3>3. \A i \in 0..(m + 1) : i # 0 => i - 1 \in 0..m
            OBVIOUS
        <3>4. G(h, m + 1)
            BY <3>2, <3>3
        <3> HIDE DEF G, h
        <3> QED BY <3>4
    <2> HIDE DEF Y
    <2> QED BY <2>1, <2>2, SetInduction
<1> DEFINE kept == CHOOSE g : G(g, n)
<1>2. n \in Nat
    OBVIOUS
<1>3. G(kept, n)
    BY <1>1, <1>2
<1>4. Filter(s, S) = kept[n]
    BY DEF Filter
<1> HIDE DEF kept
<1>5. kept[0] = <<>>
    BY <1>2, <1>3
<1>6. \A i \in 1..n : kept[i] = IF s[i] \in S THEN Append(kept[i - 1], s[i]) ELSE kept[i - 1]
    <2>1. \A i \in 1..n : i \in 0..n /\ i # 0
        BY <1>2
    <2> QED BY <1>3, <2>1
<1> QED BY <1>4, <1>5, <1>6

\* Filter keeps what s has of S, once if s has it once.
LEMMA FilterFacts ==
    ASSUME NEW T, NEW s \in Seq(T), NEW S
    PROVE  /\ Filter(s, S) \in Seq(T) /\ Range(Filter(s, S)) = Range(s) \cap S
           /\ IsInjective(s) => IsInjective(Filter(s, S))
<1>1. PICK kept : /\ kept[0] = <<>> /\ kept[Len(s)] = Filter(s, S)
                  /\ \A i \in 1..Len(s) :
                        kept[i] = IF s[i] \in S THEN Append(kept[i - 1], s[i]) ELSE kept[i - 1]
    BY FilterSteps
<1> DEFINE had(i) == {s[j] : j \in 1..i}
           Good(i) == i <= Len(s) =>
                        /\ kept[i] \in Seq(T) /\ Range(kept[i]) = had(i) \cap S
                        /\ IsInjective(s) => IsInjective(kept[i])
           Y == {i \in Nat : Good(i)}
<1>2. Len(s) \in Nat /\ DOMAIN s = 1..Len(s) /\ \A j \in 1..Len(s) : s[j] \in T
    OBVIOUS
<1>3. Nat \subseteq Y
    <2>1. 0 \in Y
        <3>1. kept[0] \in Seq(T) /\ Range(kept[0]) = {} /\ IsInjective(kept[0])
            BY <1>1 DEF Range, IsInjective
        <3>2. had(0) = {}
            OBVIOUS
        <3> QED BY <3>1, <3>2
    <2>2. ASSUME NEW i \in Nat, i \in Y PROVE i + 1 \in Y
        <3> SUFFICES ASSUME i + 1 <= Len(s) PROVE Good(i + 1)
            OBVIOUS
        <3>1. i + 1 \in 1..Len(s) /\ (i + 1) - 1 = i /\ i <= Len(s)
            BY <1>2
        <3>2. /\ kept[i] \in Seq(T) /\ Range(kept[i]) = had(i) \cap S
              /\ IsInjective(s) => IsInjective(kept[i])
            BY <2>2, <3>1
        <3>3. had(i + 1) = had(i) \cup {s[i + 1]}
            OBVIOUS
        <3>4. s[i + 1] \in T
            BY <1>2, <3>1
        <3>5. CASE s[i + 1] \in S
            <4>1. kept[i + 1] = Append(kept[i], s[i + 1])
                BY <1>1, <3>1, <3>5
            <4>2. ASSUME IsInjective(s) PROVE s[i + 1] \notin Range(kept[i])
                <5>1. \A j \in 1..i : j \in DOMAIN s /\ j # i + 1
                    BY <1>2, <3>1
                <5>2. \A j \in 1..i : s[j] # s[i + 1]
                    BY <1>2, <3>1, <4>2, <5>1 DEF IsInjective
                <5> QED BY <3>2, <5>2
            <4> HIDE DEF had
            <4>3. /\ Append(kept[i], s[i + 1]) \in Seq(T)
                  /\ Range(Append(kept[i], s[i + 1])) = Range(kept[i]) \cup {s[i + 1]}
                  /\ IsInjective(kept[i]) /\ s[i + 1] \notin Range(kept[i])
                        => IsInjective(Append(kept[i], s[i + 1]))
                BY <3>2, <3>4, InjectiveAppend
            <4> QED BY <3>2, <3>3, <3>5, <4>1, <4>2, <4>3
        <3>6. CASE s[i + 1] \notin S
            <4>1. kept[i + 1] = kept[i]
                BY <1>1, <3>1, <3>6
            <4> HIDE DEF had
            <4> QED BY <3>2, <3>3, <3>6, <4>1
        <3> QED BY <3>5, <3>6
    <2> HIDE DEF Y
    <2> QED BY <2>1, <2>2, SetInduction
<1>4. Good(Len(s))
    BY <1>2, <1>3
<1>5. had(Len(s)) = Range(s)
    BY <1>2 DEF Range
<1> QED BY <1>1, <1>2, <1>4, <1>5

\* Without leaves out one element.
LEMMA WithoutFacts ==
    ASSUME NEW T, NEW s \in Seq(T), NEW x
    PROVE  /\ Without(s, x) \in Seq(T) /\ Range(Without(s, x)) = Range(s) \ {x}
           /\ IsInjective(s) => IsInjective(Without(s, x))
<1>1. Range(s) \cap (Range(s) \ {x}) = Range(s) \ {x}
    OBVIOUS
<1> QED BY <1>1, FilterFacts DEF Without

-----------------------------------------------------------------------------
(* Families of sequences.                                                  *)

\* The places of b in the members D of the family f, and their number.
PlacesIn(b, f, D) == UNION {{<<d, i>> : i \in Places(b, f[d])} : d \in D}
Uses(b, f, D) == Cardinality(PlacesIn(b, f, D))

\* A family of sequences over D, and one that h gives the names of another.
Family(f, D, T) == \A d \in D : f[d] \in Seq(T)
Renames(h, f, g, D) == \A d \in D : f[d] = g[h[d]]

LEMMA PlaceIn ==
    ASSUME NEW b, NEW f, NEW D
    PROVE  /\ \A x \in PlacesIn(b, f, D) :
                 \E d \in D : \E i \in DOMAIN f[d] : f[d][i] = b /\ x = <<d, i>>
           /\ \A d \in D : \A i \in DOMAIN f[d] : f[d][i] = b => <<d, i>> \in PlacesIn(b, f, D)
BY DEF PlacesIn, Places

\* A finite family of sequences has finitely many places; none when all its
\* members are empty, and those of a family of one are those of its member.
LEMMA UsesType ==
    ASSUME NEW T, NEW D, IsFiniteSet(D), NEW f, \A d \in D : f[d] \in Seq(T), NEW b
    PROVE  /\ IsFiniteSet(PlacesIn(b, f, D)) /\ Uses(b, f, D) \in Nat
           /\ (\A d \in D : f[d] = <<>>) => Uses(b, f, D) = 0
<1> DEFINE of(d) == {<<d, i>> : i \in Places(b, f[d])}
<1>1. ASSUME NEW d \in D PROVE IsFiniteSet(of(d))
    <2>1. IsFiniteSet(Places(b, f[d]))
        BY CountFacts
    <2>2. [i \in Places(b, f[d]) |-> <<d, i>>] \in Surjection(Places(b, f[d]), of(d))
        BY DEF Surjection
    <2> QED BY <2>1, <2>2, FS_Surjection
<1>2. IsFiniteSet({of(d) : d \in D})
    <2>1. [d \in D |-> of(d)] \in Surjection(D, {of(d) : d \in D})
        BY DEF Surjection
    <2> HIDE DEF of
    <2> QED BY <2>1, FS_Surjection
<1>3. IsFiniteSet(PlacesIn(b, f, D))
    <2>1. PlacesIn(b, f, D) = UNION {of(d) : d \in D}
        BY DEF PlacesIn
    <2>2. \A X \in {of(d) : d \in D} : IsFiniteSet(X)
        BY <1>1
    <2> HIDE DEF of
    <2> QED BY <1>2, <2>1, <2>2, FS_UNION
<1>4. ASSUME \A d \in D : f[d] = <<>> PROVE Uses(b, f, D) = 0
    <2>1. PlacesIn(b, f, D) = {}
        BY <1>4 DEF PlacesIn, Places
    <2> QED BY <2>1, FS_EmptySet DEF Uses
<1> QED BY <1>3, <1>4, FS_CardinalityType DEF Uses

LEMMA UsesOne ==
    ASSUME NEW T, NEW d, NEW f, f[d] \in Seq(T), NEW b
    PROVE  Uses(b, f, {d}) = Count(b, f[d])
<1>1. [i \in Places(b, f[d]) |-> <<d, i>>] \in Bijection(Places(b, f[d]), PlacesIn(b, f, {d}))
    <2>1. PlacesIn(b, f, {d}) = {<<d, i>> : i \in Places(b, f[d])}
        BY DEF PlacesIn
    <2> QED BY <2>1 DEF Bijection, Injection, Surjection, IsInjective
<1>2. ExistsBijection(Places(b, f[d]), PlacesIn(b, f, {d}))
    BY <1>1 DEF ExistsBijection
<1>3. IsFiniteSet(Places(b, f[d]))
    BY CountFacts
<1> QED BY <1>2, <1>3, FS_Bijection DEF Uses, Count

\* Two parts of a family have together the places of each.
LEMMA UsesSplit ==
    ASSUME NEW T, NEW D, NEW E, IsFiniteSet(D), IsFiniteSet(E), D \cap E = {},
           NEW f, Family(f, D \cup E, T), NEW b
    PROVE  Uses(b, f, D \cup E) = Uses(b, f, D) + Uses(b, f, E)
<1> USE DEF Family
<1>1. PlacesIn(b, f, D \cup E) = PlacesIn(b, f, D) \cup PlacesIn(b, f, E)
    BY DEF PlacesIn
<1>2. PlacesIn(b, f, D) \cap PlacesIn(b, f, E) = {}
    BY PlaceIn
<1>3. /\ IsFiniteSet(PlacesIn(b, f, D)) /\ Uses(b, f, D) \in Nat
      /\ IsFiniteSet(PlacesIn(b, f, E)) /\ Uses(b, f, E) \in Nat
    BY UsesType
<1>4. Cardinality(PlacesIn(b, f, D) \cap PlacesIn(b, f, E)) = 0
    BY <1>2, FS_EmptySet
<1>5. Cardinality(PlacesIn(b, f, D) \cup PlacesIn(b, f, E)) =
         Uses(b, f, D) + Uses(b, f, E) - Cardinality(PlacesIn(b, f, D) \cap PlacesIn(b, f, E))
    BY <1>3, FS_Union DEF Uses
<1>6. Uses(b, f, D \cup E) = Cardinality(PlacesIn(b, f, D) \cup PlacesIn(b, f, E))
    BY <1>1 DEF Uses
<1> QED BY <1>3, <1>4, <1>5, <1>6

\* A family that has the same members, by other names, has as many places.
LEMMA UsesRenamed ==
    ASSUME NEW T, NEW D, NEW E, IsFiniteSet(D), NEW f, NEW g, NEW b,
           NEW h \in Bijection(D, E), Family(f, D, T), Renames(h, f, g, D)
    PROVE  Uses(b, f, D) = Uses(b, g, E)
<1> USE DEF Family, Renames
<1>1. /\ h \in [D -> E] /\ \A d, c \in D : h[d] = h[c] => d = c
      /\ \A e \in E : \E d \in D : h[d] = e
    BY DEF Bijection, Injection, Surjection, IsInjective
<1> DEFINE m == [x \in PlacesIn(b, f, D) |-> <<h[x[1]], x[2]>>]
<1>2. ASSUME NEW x \in PlacesIn(b, f, D)
      PROVE  x[1] \in D /\ x = <<x[1], x[2]>> /\ m[x] \in PlacesIn(b, g, E)
    <2>0. PICK d \in D : \E i \in DOMAIN f[d] : f[d][i] = b /\ x = <<d, i>>
        BY <1>2, PlaceIn
    <2>1. PICK i \in DOMAIN f[d] : f[d][i] = b /\ x = <<d, i>>
        BY <2>0
    <2>2. h[d] \in E /\ g[h[d]] = f[d]
        BY <1>1
    <2>3. <<h[d], i>> \in PlacesIn(b, g, E)
        BY <2>1, <2>2, PlaceIn
    <2> QED BY <2>1, <2>3
<1>3. m \in Injection(PlacesIn(b, f, D), PlacesIn(b, g, E))
    <2>1. m \in [PlacesIn(b, f, D) -> PlacesIn(b, g, E)]
        BY <1>2
    <2>2. ASSUME NEW x \in PlacesIn(b, f, D), NEW y \in PlacesIn(b, f, D), m[x] = m[y]
          PROVE  x = y
        <3>1. h[x[1]] = h[y[1]] /\ x[2] = y[2]
            BY <2>2
        <3> QED BY <1>1, <1>2, <2>2, <3>1
    <2> HIDE DEF m
    <2> QED BY <2>1, <2>2 DEF Injection, IsInjective
<1>4. ASSUME NEW y \in PlacesIn(b, g, E)
      PROVE  \E x \in PlacesIn(b, f, D) : m[x] = y
    <2>0. PICK e \in E : \E i \in DOMAIN g[e] : g[e][i] = b /\ y = <<e, i>>
        BY <1>4, PlaceIn
    <2>1. PICK i \in DOMAIN g[e] : g[e][i] = b /\ y = <<e, i>>
        BY <2>0
    <2>2. PICK d \in D : h[d] = e
        BY <1>1
    <2>3. f[d] = g[e]
        BY <2>2
    <2>4. <<d, i>> \in PlacesIn(b, f, D)
        BY <2>1, <2>3, PlaceIn
    <2> QED BY <2>1, <2>2, <2>4
<1>5. ExistsBijection(PlacesIn(b, f, D), PlacesIn(b, g, E))
    <2> HIDE DEF m
    <2>1. m \in Surjection(PlacesIn(b, f, D), PlacesIn(b, g, E))
        BY <1>3, <1>4 DEF Injection, Surjection
    <2> QED BY <1>3, <2>1 DEF Bijection, ExistsBijection
<1>6. IsFiniteSet(PlacesIn(b, f, D))
    BY UsesType
<1> QED BY <1>5, <1>6, FS_Bijection DEF Uses

\* Two families of sequences that agree but at d.
AgreeBut(f, g, D, d, T) ==
    /\ \A c \in D : f[c] \in Seq(T) /\ g[c] \in Seq(T)
    /\ \A c \in D : c # d => g[c] = f[c]

\* A change of one member moves the number by what that member has.
LEMMA UsesChanged ==
    ASSUME NEW T, NEW D, IsFiniteSet(D), NEW d \in D, NEW f, NEW g, AgreeBut(f, g, D, d, T),
           NEW b
    PROVE  \E rest \in Nat : /\ Uses(b, f, D) = rest + Count(b, f[d])
                             /\ Uses(b, g, D) = rest + Count(b, g[d])
<1> DEFINE R == D \ {d}
<1>1. D = R \cup {d} /\ R \cap {d} = {} /\ IsFiniteSet(R) /\ IsFiniteSet({d})
    BY FS_Subset, FS_Singleton
<1> USE DEF AgreeBut
<1>2. \A c \in R : g[c] = f[c]
    OBVIOUS
<1>3. PlacesIn(b, g, R) = PlacesIn(b, f, R)
    BY <1>2 DEF PlacesIn
<1>4. Uses(b, f, D) = Uses(b, f, R) + Uses(b, f, {d})
    <2>1. Family(f, R \cup {d}, T)
        BY <1>1 DEF Family
    <2> HIDE DEF R
    <2> QED BY <1>1, <2>1, UsesSplit
<1>5. Uses(b, g, D) = Uses(b, g, R) + Uses(b, g, {d})
    <2>1. Family(g, R \cup {d}, T)
        BY <1>1, <1>2 DEF Family
    <2> HIDE DEF R
    <2> QED BY <1>1, <2>1, UsesSplit
<1>6. Uses(b, f, {d}) = Count(b, f[d]) /\ Uses(b, g, {d}) = Count(b, g[d])
    <2>1. f[d] \in Seq(T) /\ g[d] \in Seq(T)
        OBVIOUS
    <2> QED BY <2>1, UsesOne
<1>7. Uses(b, f, R) \in Nat /\ Count(b, f[d]) \in Nat /\ Count(b, g[d]) \in Nat
    <2>1. \A c \in R : f[c] \in Seq(T)
        OBVIOUS
    <2>2. Uses(b, f, R) \in Nat
        BY <1>1, <2>1, UsesType
    <2>3. f[d] \in Seq(T) /\ g[d] \in Seq(T)
        OBVIOUS
    <2> QED BY <2>2, <2>3, CountFacts
<1>8. Uses(b, g, R) = Uses(b, f, R)
    BY <1>3 DEF Uses
<1> QED BY <1>4, <1>5, <1>6, <1>7, <1>8

\* A part of a family has no more places than the whole.
LEMMA UsesPart ==
    ASSUME NEW T, NEW D, IsFiniteSet(D), NEW f, \A d \in D : f[d] \in Seq(T),
           NEW E \in SUBSET D, NEW b
    PROVE  Uses(b, f, E) \in Nat /\ Uses(b, f, E) <= Uses(b, f, D)
<1>1. PlacesIn(b, f, E) \in SUBSET PlacesIn(b, f, D)
    BY DEF PlacesIn
<1>2. IsFiniteSet(PlacesIn(b, f, D))
    BY UsesType
<1> QED BY <1>1, <1>2, FS_Subset, FS_CardinalityType DEF Uses

\* A sequence read backwards has as many places.
LEMMA ReverseCount ==
    ASSUME NEW T, NEW s \in Seq(T), NEW b
    PROVE  /\ Reverse(s) \in Seq(T) /\ Range(Reverse(s)) = Range(s)
           /\ Count(b, Reverse(s)) = Count(b, s)
           /\ IsInjective(s) => IsInjective(Reverse(s))
<1> DEFINE n == Len(s)
           t == Reverse(s)
<1>1. /\ n \in Nat /\ DOMAIN s = 1..n /\ t \in Seq(T) /\ DOMAIN t = 1..n
      /\ \A i \in 1..n : t[i] = s[n - i + 1] /\ n - i + 1 \in 1..n
    BY DEF Reverse
<1> HIDE DEF n, t
<1>2. \A i \in 1..n : n - (n - i + 1) + 1 = i
    BY <1>1
<1>3. \A i \in 1..n : s[i] = t[n - i + 1]
    BY <1>1, <1>2
<1>4. Range(t) = Range(s)
    <2>1. \A x \in Range(t) : x \in Range(s)
        BY <1>1 DEF Range
    <2>2. \A x \in Range(s) : x \in Range(t)
        BY <1>1, <1>3 DEF Range
    <2> QED BY <2>1, <2>2
<1>5. ASSUME IsInjective(s), NEW i \in 1..n, NEW j \in 1..n, t[i] = t[j] PROVE i = j
    <2>1. n - i + 1 = n - j + 1
        BY <1>1, <1>5 DEF IsInjective
    <2> QED BY <1>1, <2>1
<1> DEFINE m == [i \in Places(b, s) |-> n - i + 1]
<1>6. m \in Bijection(Places(b, s), Places(b, t))
    <2>1. \A i \in Places(b, s) : i \in 1..n /\ n - i + 1 \in Places(b, t)
        BY <1>1, <1>3 DEF Places
    <2>2. m \in Injection(Places(b, s), Places(b, t))
        <3>1. \A i, j \in Places(b, s) : n - i + 1 = n - j + 1 => i = j
            BY <1>1, <2>1
        <3> QED BY <2>1, <3>1 DEF Injection, IsInjective
    <2>3. ASSUME NEW j \in Places(b, t) PROVE \E i \in Places(b, s) : m[i] = j
        <3>1. j \in 1..n /\ n - j + 1 \in Places(b, s)
            BY <1>1 DEF Places
        <3>2. m[n - j + 1] = j
            BY <1>2, <3>1
        <3> QED BY <3>1, <3>2
    <2> HIDE DEF m
    <2> QED BY <2>2, <2>3 DEF Bijection, Injection, Surjection, IsInjective
<1>7. IsFiniteSet(Places(b, s)) /\ ExistsBijection(Places(b, s), Places(b, t))
    <2>1. IsFiniteSet(Places(b, s))
        BY CountFacts
    <2> QED BY <1>6, <2>1 DEF ExistsBijection
<1>8. Count(b, t) = Count(b, s)
    BY <1>7, FS_Bijection DEF Count
<1> QED BY <1>1, <1>4, <1>5, <1>8 DEF t, IsInjective

\* Two sequences one after the other have together the places of each.
LEMMA ConcatCount ==
    ASSUME NEW T, NEW s \in Seq(T), NEW t \in Seq(T), NEW b
    PROVE  Count(b, s \o t) = Count(b, s) + Count(b, t)
<1> DEFINE n == Len(s)
           u == s \o t
           A == Places(b, s)
           B == Places(b, u) \ A
<1>1. /\ n \in Nat /\ Len(t) \in Nat /\ DOMAIN s = 1..n /\ DOMAIN t = 1..Len(t)
      /\ u \in Seq(T) /\ DOMAIN u = 1..(n + Len(t))
      /\ \A i \in 1..n : u[i] = s[i]
      /\ \A i \in 1..Len(t) : u[n + i] = t[i]
    OBVIOUS
<1> HIDE DEF n, u
<1>2. A \subseteq Places(b, u)
    BY <1>1 DEF Places
<1>3. B = {i \in (n + 1)..(n + Len(t)) : u[i] = b}
    BY <1>1 DEF Places
<1> DEFINE m == [i \in Places(b, t) |-> n + i]
<1>4. m \in Bijection(Places(b, t), B)
    <2>1. \A i \in Places(b, t) : i \in Nat /\ n + i \in B
        BY <1>1, <1>3 DEF Places
    <2>2. m \in Injection(Places(b, t), B)
        <3>1. \A i, j \in Places(b, t) : n + i = n + j => i = j
            BY <1>1, <2>1
        <3> QED BY <2>1, <3>1 DEF Injection, IsInjective
    <2>3. ASSUME NEW j \in B PROVE \E i \in Places(b, t) : m[i] = j
        <3>1. j - n \in 1..Len(t) /\ n + (j - n) = j /\ u[j] = b
            BY <1>1, <1>3
        <3>2. j - n \in Places(b, t)
            BY <1>1, <3>1 DEF Places
        <3> QED BY <3>1, <3>2
    <2> HIDE DEF m, B
    <2> QED BY <2>2, <2>3 DEF Bijection, Injection, Surjection, IsInjective
<1>5. /\ IsFiniteSet(A) /\ Cardinality(A) \in Nat /\ IsFiniteSet(Places(b, t))
      /\ IsFiniteSet(Places(b, u)) /\ Cardinality(Places(b, u)) \in Nat
    BY <1>1, CountFacts DEF Count
<1>6. Cardinality(B) = Cardinality(Places(b, t))
    <2>1. ExistsBijection(Places(b, t), B)
        BY <1>4 DEF ExistsBijection
    <2> HIDE DEF B
    <2> QED BY <1>5, <2>1, FS_Bijection
<1>7. Cardinality(B) = Cardinality(Places(b, u)) - Cardinality(A)
    <2>1. Places(b, u) \cap A = A
        BY <1>2
    <2> QED BY <1>5, <2>1, FS_Difference
<1> QED BY <1>5, <1>6, <1>7 DEF Count, u

-----------------------------------------------------------------------------
(* Folds. FoldLeft goes over the sets of indices, taking the last away.    *)

TakeAll(p, bs) == FoldLeft(Taken, p, bs)
DropAll(q, bs) == FoldLeft(Dropped, q, bs)

\* The steps of a fold of Taken.
LEMMA TakenSteps ==
    ASSUME NEW base, NEW S, NEW s \in Seq(S)
    PROVE  \E P : /\ P[0] = base /\ P[Len(s)] = TakeAll(base, s)
                  /\ \A i \in 1..Len(s) : P[i] = Taken(P[i - 1], s[i])
<1> DEFINE n == Len(s)
           G(g, m) == g = [t \in SUBSET (1..m) |->
                             IF t = {} THEN base ELSE Taken(g[t \ {Max(t)}], s[Max(t)])]
           Y == {m \in Nat : \E g : G(g, m)}
<1>1. Nat \subseteq Y
    <2>1. 0 \in Y
        <3>1. G([t \in SUBSET (1..0) |-> base], 0)
            OBVIOUS
        <3> QED BY <3>1
    <2>2. ASSUME NEW m \in Nat, m \in Y PROVE m + 1 \in Y
        <3>1. PICK g : G(g, m)
            BY <2>2
        <3> DEFINE h == [t \in SUBSET (1..(m + 1)) |->
                           IF t = {} THEN base ELSE Taken(g[t \ {Max(t)}], s[Max(t)])]
        <3>2. \A t \in SUBSET (1..m) : h[t] = g[t]
            BY <3>1, Upto
        <3>3. \A t \in SUBSET (1..(m + 1)) : t # {} => t \ {Max(t)} \in SUBSET (1..m)
            BY MaxFacts
        <3>4. G(h, m + 1)
            BY <3>2, <3>3
        <3> HIDE DEF G, h
        <3> QED BY <3>4
    <2> HIDE DEF Y
    <2> QED BY <2>1, <2>2, SetInduction
<1> DEFINE iter == CHOOSE g : G(g, n)
<1>2. n \in Nat /\ DOMAIN s = 1..n
    OBVIOUS
<1>3. G(iter, n)
    BY <1>1, <1>2
<1>4. TakeAll(base, s) = iter[1..n]
    BY <1>2 DEF TakeAll, FoldLeft, MapThenFoldSet
<1> HIDE DEF iter
<1> DEFINE P == [k \in 0..n |-> iter[1..k]]
<1>5. P[0] = base
    BY <1>2, <1>3
<1>6. ASSUME NEW i \in 1..n PROVE P[i] = Taken(P[i - 1], s[i])
    <2>1. iter[1..i] = Taken(iter[1..(i - 1)], s[i])
        <3>1. /\ Max(1..i) = i /\ 1..i # {} /\ 1..i \in SUBSET (1..n)
              /\ (1..i) \ {i} = 1..(i - 1)
            BY <1>2, PrefixSets
        <3> QED BY <1>3, <3>1
    <2> QED BY <1>2, <2>1
<1>7. P[n] = TakeAll(base, s)
    BY <1>2, <1>4
<1> HIDE DEF P
<1> QED BY <1>5, <1>6, <1>7

\* The steps of a fold of Touched.
LEMMA TouchedSteps ==
    ASSUME NEW base, NEW S, NEW s \in Seq(S)
    PROVE  \E P : /\ P[0] = base /\ P[Len(s)] = Touch(base, s)
                  /\ \A i \in 1..Len(s) : P[i] = Touched(P[i - 1], s[i])
<1> DEFINE n == Len(s)
           G(g, m) == g = [t \in SUBSET (1..m) |->
                             IF t = {} THEN base ELSE Touched(g[t \ {Max(t)}], s[Max(t)])]
           Y == {m \in Nat : \E g : G(g, m)}
<1>1. Nat \subseteq Y
    <2>1. 0 \in Y
        <3>1. G([t \in SUBSET (1..0) |-> base], 0)
            OBVIOUS
        <3> QED BY <3>1
    <2>2. ASSUME NEW m \in Nat, m \in Y PROVE m + 1 \in Y
        <3>1. PICK g : G(g, m)
            BY <2>2
        <3> DEFINE h == [t \in SUBSET (1..(m + 1)) |->
                           IF t = {} THEN base ELSE Touched(g[t \ {Max(t)}], s[Max(t)])]
        <3>2. \A t \in SUBSET (1..m) : h[t] = g[t]
            BY <3>1, Upto
        <3>3. \A t \in SUBSET (1..(m + 1)) : t # {} => t \ {Max(t)} \in SUBSET (1..m)
            BY MaxFacts
        <3>4. G(h, m + 1)
            BY <3>2, <3>3
        <3> HIDE DEF G, h
        <3> QED BY <3>4
    <2> HIDE DEF Y
    <2> QED BY <2>1, <2>2, SetInduction
<1> DEFINE iter == CHOOSE g : G(g, n)
<1>2. n \in Nat /\ DOMAIN s = 1..n
    OBVIOUS
<1>3. G(iter, n)
    BY <1>1, <1>2
<1>4. Touch(base, s) = iter[1..n]
    BY <1>2 DEF Touch, FoldLeft, MapThenFoldSet
<1> HIDE DEF iter
<1> DEFINE P == [k \in 0..n |-> iter[1..k]]
<1>5. P[0] = base
    BY <1>2, <1>3
<1>6. ASSUME NEW i \in 1..n PROVE P[i] = Touched(P[i - 1], s[i])
    <2>1. iter[1..i] = Touched(iter[1..(i - 1)], s[i])
        <3>1. /\ Max(1..i) = i /\ 1..i # {} /\ 1..i \in SUBSET (1..n)
              /\ (1..i) \ {i} = 1..(i - 1)
            BY <1>2, PrefixSets
        <3> QED BY <1>3, <3>1
    <2> QED BY <1>2, <2>1
<1>7. P[n] = Touch(base, s)
    BY <1>2, <1>4
<1> HIDE DEF P
<1> QED BY <1>5, <1>6, <1>7

\* The steps of a fold of Dropped.
DropsTo(base, s) ==
    \E P : /\ P[0] = base /\ P[Len(s)] = DropAll(base, s)
           /\ \A i \in 1..Len(s) : P[i] = Dropped(P[i - 1], s[i])
LEMMA DroppedSteps ==
    ASSUME NEW base, NEW S, NEW s \in Seq(S)
    PROVE  DropsTo(base, s)
<1> DEFINE n == Len(s)
           G(g, m) == g = [t \in SUBSET (1..m) |->
                             IF t = {} THEN base ELSE Dropped(g[t \ {Max(t)}], s[Max(t)])]
           Y == {m \in Nat : \E g : G(g, m)}
<1>1. Nat \subseteq Y
    <2>1. 0 \in Y
        <3>1. G([t \in SUBSET (1..0) |-> base], 0)
            OBVIOUS
        <3> QED BY <3>1
    <2>2. ASSUME NEW m \in Nat, m \in Y PROVE m + 1 \in Y
        <3>1. PICK g : G(g, m)
            BY <2>2
        <3> DEFINE h == [t \in SUBSET (1..(m + 1)) |->
                           IF t = {} THEN base ELSE Dropped(g[t \ {Max(t)}], s[Max(t)])]
        <3>2. \A t \in SUBSET (1..m) : h[t] = g[t]
            BY <3>1, Upto
        <3>3. \A t \in SUBSET (1..(m + 1)) : t # {} => t \ {Max(t)} \in SUBSET (1..m)
            BY MaxFacts
        <3>4. G(h, m + 1)
            BY <3>2, <3>3
        <3> HIDE DEF G, h
        <3> QED BY <3>4
    <2> HIDE DEF Y
    <2> QED BY <2>1, <2>2, SetInduction
<1> DEFINE iter == CHOOSE g : G(g, n)
<1>2. n \in Nat /\ DOMAIN s = 1..n
    OBVIOUS
<1>3. G(iter, n)
    BY <1>1, <1>2
<1>4. DropAll(base, s) = iter[1..n]
    BY <1>2 DEF DropAll, FoldLeft, MapThenFoldSet
<1> HIDE DEF iter
<1> DEFINE P == [k \in 0..n |-> iter[1..k]]
<1>5. P[0] = base
    BY <1>2, <1>3
<1>6. ASSUME NEW i \in 1..n PROVE P[i] = Dropped(P[i - 1], s[i])
    <2>1. iter[1..i] = Dropped(iter[1..(i - 1)], s[i])
        <3>1. /\ Max(1..i) = i /\ 1..i # {} /\ 1..i \in SUBSET (1..n)
              /\ (1..i) \ {i} = 1..(i - 1)
            BY <1>2, PrefixSets
        <3> QED BY <1>3, <3>1
    <2> QED BY <1>2, <2>1
<1>7. P[n] = DropAll(base, s)
    BY <1>2, <1>4
<1> HIDE DEF P
<1> QED BY <1>5, <1>6, <1>7 DEF DropsTo

\* The steps of a fold of FreeTable.
LEMMA FreeTableSteps ==
    ASSUME NEW base, NEW S, NEW s \in Seq(S)
    PROVE  \E P : /\ P[0] = base /\ P[Len(s)] = FreeTables(base, s)
                  /\ \A i \in 1..Len(s) : P[i] = FreeTable(P[i - 1], s[i])
<1> DEFINE n == Len(s)
           G(g, m) == g = [t \in SUBSET (1..m) |->
                             IF t = {} THEN base ELSE FreeTable(g[t \ {Max(t)}], s[Max(t)])]
           Y == {m \in Nat : \E g : G(g, m)}
<1>1. Nat \subseteq Y
    <2>1. 0 \in Y
        <3>1. G([t \in SUBSET (1..0) |-> base], 0)
            OBVIOUS
        <3> QED BY <3>1
    <2>2. ASSUME NEW m \in Nat, m \in Y PROVE m + 1 \in Y
        <3>1. PICK g : G(g, m)
            BY <2>2
        <3> DEFINE h == [t \in SUBSET (1..(m + 1)) |->
                           IF t = {} THEN base ELSE FreeTable(g[t \ {Max(t)}], s[Max(t)])]
        <3>2. \A t \in SUBSET (1..m) : h[t] = g[t]
            BY <3>1, Upto
        <3>3. \A t \in SUBSET (1..(m + 1)) : t # {} => t \ {Max(t)} \in SUBSET (1..m)
            BY MaxFacts
        <3>4. G(h, m + 1)
            BY <3>2, <3>3
        <3> HIDE DEF G, h
        <3> QED BY <3>4
    <2> HIDE DEF Y
    <2> QED BY <2>1, <2>2, SetInduction
<1> DEFINE iter == CHOOSE g : G(g, n)
<1>2. n \in Nat /\ DOMAIN s = 1..n
    OBVIOUS
<1>3. G(iter, n)
    BY <1>1, <1>2
<1>4. FreeTables(base, s) = iter[1..n]
    BY <1>2 DEF FreeTables, FoldLeft, MapThenFoldSet
<1> HIDE DEF iter
<1> DEFINE P == [k \in 0..n |-> iter[1..k]]
<1>5. P[0] = base
    BY <1>2, <1>3
<1>6. ASSUME NEW i \in 1..n PROVE P[i] = FreeTable(P[i - 1], s[i])
    <2>1. iter[1..i] = FreeTable(iter[1..(i - 1)], s[i])
        <3>1. /\ Max(1..i) = i /\ 1..i # {} /\ 1..i \in SUBSET (1..n)
              /\ (1..i) \ {i} = 1..(i - 1)
            BY <1>2, PrefixSets
        <3> QED BY <1>3, <3>1
    <2> QED BY <1>2, <2>1
<1>7. P[n] = FreeTables(base, s)
    BY <1>2, <1>4
<1> HIDE DEF P
<1> QED BY <1>5, <1>6, <1>7

-----------------------------------------------------------------------------
(* The pool between two calls.                                             *)

Pools(B) == [ref : [B -> Nat], hash : [B -> Keys \cup {NoKey}], extra : [B -> SUBSET Keys],
             index : [Keys -> Seq(B)], free : Seq(B \ {Null})]

\* Every key of a block leads to it in the index, once, and the null block has none.
IndexKept(p, B) ==
    /\ p \in Pools(B) /\ Null \in B
    /\ \A k \in Keys : /\ IsInjective(p.index[k])
                       /\ Range(p.index[k]) = {b \in B : k \in KeysOf(p, b)}
    /\ KeysOf(p, Null) = {}

\* The free queue holds each block without a reference, once.
FreeKept(p, B) ==
    /\ IsInjective(p.free)
    /\ Range(p.free) = {b \in B \ {Null} : p.ref[b] = 0}

PoolKept(p, B) == IndexKept(p, B) /\ FreeKept(p, B)

LEMMA PoolFields ==
    ASSUME NEW B, NEW p \in Pools(B)
    PROVE  /\ p.ref \in [B -> Nat] /\ p.hash \in [B -> Keys \cup {NoKey}]
           /\ p.extra \in [B -> SUBSET Keys] /\ p.index \in [Keys -> Seq(B)]
           /\ p.free \in Seq(B \ {Null}) /\ BlocksOf(p) = B /\ NoKey \notin Keys
           /\ \A b \in B : KeysOf(p, b) \subseteq Keys
<1>1. NoKey \notin Keys
    BY DEF NoKey, Keys
<1>2. /\ p.ref \in [B -> Nat] /\ p.hash \in [B -> Keys \cup {NoKey}]
      /\ p.extra \in [B -> SUBSET Keys] /\ p.index \in [Keys -> Seq(B)]
      /\ p.free \in Seq(B \ {Null})
    BY DEF Pools
<1> QED BY <1>1, <1>2 DEF BlocksOf, KeysOf

\* A pool with other references or another free queue has the same index.
LEMMA IndexOnly ==
    ASSUME NEW B, NEW p, NEW q, IndexKept(p, B), q \in Pools(B),
           q.hash = p.hash, q.extra = p.extra, q.index = p.index
    PROVE  IndexKept(q, B)
BY DEF IndexKept, KeysOf

\* A block that is evicted loses its keys, and the index those entries.
LEMMA EvictKept ==
    ASSUME NEW B, NEW p, IndexKept(p, B), NEW b \in B
    PROVE  /\ IndexKept(Evict(p, b), B)
           /\ Evict(p, b).ref = p.ref /\ Evict(p, b).free = p.free
<1> DEFINE q == Evict(p, b)
<1>1. /\ p.ref \in [B -> Nat] /\ p.hash \in [B -> Keys \cup {NoKey}]
      /\ p.extra \in [B -> SUBSET Keys] /\ p.index \in [Keys -> Seq(B)]
      /\ p.free \in Seq(B \ {Null}) /\ p \in Pools(B)
      /\ \A c \in B : KeysOf(p, c) \subseteq Keys
    BY PoolFields DEF IndexKept
<1>2. /\ q.ref = p.ref /\ q.free = p.free
      /\ q.hash = [p.hash EXCEPT ![b] = NoKey] /\ q.extra = [p.extra EXCEPT ![b] = {}]
      /\ q.index = [k \in Keys |-> IF k \in KeysOf(p, b) THEN Without(p.index[k], b)
                                                         ELSE p.index[k]]
    BY <1>1 DEF Evict, Pools
<1>3. \A k \in Keys : /\ Without(p.index[k], b) \in Seq(B)
                      /\ Range(Without(p.index[k], b)) = Range(p.index[k]) \ {b}
                      /\ IsInjective(Without(p.index[k], b))
    <2> TAKE k \in Keys
    <2>1. p.index[k] \in Seq(B) /\ IsInjective(p.index[k])
        BY <1>1 DEF IndexKept
    <2> QED BY <2>1, WithoutFacts
<1>4. q \in Pools(B)
    <2>1. q.index \in [Keys -> Seq(B)]
        BY <1>1, <1>2, <1>3
    <2>2. q.hash \in [B -> Keys \cup {NoKey}] /\ q.extra \in [B -> SUBSET Keys]
        BY <1>1, <1>2
    <2>3. q = [ref |-> q.ref, hash |-> q.hash, extra |-> q.extra, index |-> q.index,
               free |-> q.free]
        <3> DEFINE ind == [k \in Keys |-> IF k \in KeysOf(p, b) THEN Without(p.index[k], b)
                                                              ELSE p.index[k]]
        <3>1. q = [p EXCEPT !.index = ind, !.hash[b] = NoKey, !.extra[b] = {}]
            BY DEF Evict
        <3> HIDE DEF ind, q
        <3> QED BY <1>1, <3>1 DEF Pools
    <2> HIDE DEF q
    <2> QED BY <1>1, <1>2, <2>1, <2>2, <2>3 DEF Pools
<1> HIDE DEF q
<1>5. KeysOf(q, b) = {} /\ \A c \in B : c # b => KeysOf(q, c) = KeysOf(p, c)
    BY <1>1, <1>2 DEF KeysOf
<1>6. ASSUME NEW k \in Keys
      PROVE  /\ IsInjective(q.index[k])
             /\ Range(q.index[k]) = {c \in B : k \in KeysOf(q, c)}
    <2>1. IsInjective(p.index[k]) /\ Range(p.index[k]) = {c \in B : k \in KeysOf(p, c)}
        BY DEF IndexKept
    <2>2. CASE k \in KeysOf(p, b)
        <3>1. q.index[k] = Without(p.index[k], b)
            BY <1>2, <2>2
        <3>2. {c \in B : k \in KeysOf(q, c)} = {c \in B : k \in KeysOf(p, c)} \ {b}
            BY <1>5
        <3> QED BY <1>3, <2>1, <3>1, <3>2
    <2>3. CASE k \notin KeysOf(p, b)
        <3>1. q.index[k] = p.index[k]
            BY <1>2, <2>3
        <3>2. {c \in B : k \in KeysOf(q, c)} = {c \in B : k \in KeysOf(p, c)}
            BY <1>5, <2>3
        <3> QED BY <2>1, <3>1, <3>2
    <2> QED BY <2>2, <2>3
<1>7. KeysOf(q, Null) = {} /\ Null \in B
    BY <1>5 DEF IndexKept
<1> QED BY <1>2, <1>4, <1>6, <1>7 DEF q, IndexKept

\* A key is inserted for a block in the index and among the keys of the block.
LEMMA InsertKept ==
    ASSUME NEW B, NEW p, IndexKept(p, B), NEW b \in B \ {Null}, NEW k \in Keys
    PROVE  /\ IndexKept(InsertHash(p, k, b), B)
           /\ InsertHash(p, k, b).ref = p.ref /\ InsertHash(p, k, b).free = p.free
<1> DEFINE q == InsertHash(p, k, b)
<1>1. /\ p.ref \in [B -> Nat] /\ p.hash \in [B -> Keys \cup {NoKey}]
      /\ p.extra \in [B -> SUBSET Keys] /\ p.index \in [Keys -> Seq(B)]
      /\ p.free \in Seq(B \ {Null}) /\ p \in Pools(B) /\ NoKey \notin Keys
    BY PoolFields DEF IndexKept
<1>2. CASE ~Inserted(p, k, b)
    BY <1>2 DEF InsertHash
<1>3. CASE Inserted(p, k, b)
    <2>1. b \notin Range(p.index[k])
        BY <1>3 DEF Inserted, Holds
    <2>2. /\ Append(p.index[k], b) \in Seq(B)
          /\ Range(Append(p.index[k], b)) = Range(p.index[k]) \cup {b}
          /\ IsInjective(Append(p.index[k], b))
        <3>1. p.index[k] \in Seq(B) /\ IsInjective(p.index[k])
            BY <1>1 DEF IndexKept
        <3> QED BY <2>1, <3>1, InjectiveAppend
    <2>3. /\ q.ref = p.ref /\ q.free = p.free
          /\ q.index = [p.index EXCEPT ![k] = Append(p.index[k], b)]
          /\ q.hash \in [B -> Keys \cup {NoKey}] /\ q.extra \in [B -> SUBSET Keys]
          /\ KeysOf(q, b) = KeysOf(p, b) \cup {k}
          /\ \A c \in B : c # b => q.hash[c] = p.hash[c] /\ q.extra[c] = p.extra[c]
          /\ q = [ref |-> q.ref, hash |-> q.hash, extra |-> q.extra, index |-> q.index,
                  free |-> q.free]
        <3>1. CASE p.hash[b] = NoKey
            <4>1. q = [p EXCEPT !.hash[b] = k, !.index[k] = Append(p.index[k], b)]
                BY <1>3, <3>1 DEF InsertHash
            <4> HIDE DEF q
            <4>2. /\ q.ref = p.ref /\ q.free = p.free /\ q.extra = p.extra
                  /\ q.index = [p.index EXCEPT ![k] = Append(p.index[k], b)]
                  /\ q.hash = [p.hash EXCEPT ![b] = k]
                  /\ q = [ref |-> q.ref, hash |-> q.hash, extra |-> q.extra,
                          index |-> q.index, free |-> q.free]
                BY <1>1, <4>1 DEF Pools
            <4>3. q.hash[b] = k /\ k # NoKey
                BY <1>1, <4>2
            <4>4. KeysOf(q, b) = KeysOf(p, b) \cup {k}
                BY <3>1, <4>2, <4>3 DEF KeysOf
            <4> QED BY <1>1, <4>2, <4>4
        <3>2. CASE p.hash[b] # NoKey
            <4>1. q = [p EXCEPT !.extra[b] = p.extra[b] \cup {k},
                                !.index[k] = Append(p.index[k], b)]
                BY <1>3, <3>2 DEF InsertHash
            <4> HIDE DEF q
            <4>2. /\ q.ref = p.ref /\ q.free = p.free /\ q.hash = p.hash
                  /\ q.index = [p.index EXCEPT ![k] = Append(p.index[k], b)]
                  /\ q.extra = [p.extra EXCEPT ![b] = p.extra[b] \cup {k}]
                  /\ q = [ref |-> q.ref, hash |-> q.hash, extra |-> q.extra,
                          index |-> q.index, free |-> q.free]
                BY <1>1, <4>1 DEF Pools
            <4>3. q.extra[b] = p.extra[b] \cup {k}
                BY <1>1, <4>2
            <4>4. KeysOf(q, b) = KeysOf(p, b) \cup {k}
                BY <3>2, <4>2, <4>3 DEF KeysOf
            <4> QED BY <1>1, <4>2, <4>4
        <3> QED BY <3>1, <3>2
    <2> HIDE DEF q
    <2>4. q.index \in [Keys -> Seq(B)]
        BY <1>1, <2>2, <2>3
    <2>5. q \in Pools(B)
        BY <1>1, <2>3, <2>4 DEF Pools
    <2>6. \A c \in B : c # b => KeysOf(q, c) = KeysOf(p, c)
        BY <2>3 DEF KeysOf
    <2>7. ASSUME NEW l \in Keys
          PROVE  /\ IsInjective(q.index[l])
                 /\ Range(q.index[l]) = {c \in B : l \in KeysOf(q, c)}
        <3>1. IsInjective(p.index[l]) /\ Range(p.index[l]) = {c \in B : l \in KeysOf(p, c)}
            BY DEF IndexKept
        <3>2. CASE l = k
            <4>1. q.index[k] = Append(p.index[k], b)
                BY <1>1, <2>3
            <4>2. {c \in B : k \in KeysOf(q, c)} = {c \in B : k \in KeysOf(p, c)} \cup {b}
                BY <2>3, <2>6
            <4> QED BY <2>2, <3>1, <3>2, <4>1, <4>2
        <3>3. CASE l # k
            <4>1. q.index[l] = p.index[l]
                BY <1>1, <2>3, <3>3
            <4>2. {c \in B : l \in KeysOf(q, c)} = {c \in B : l \in KeysOf(p, c)}
                BY <2>3, <2>6, <3>3
            <4> QED BY <3>1, <4>1, <4>2
        <3> QED BY <3>2, <3>3
    <2>8. KeysOf(q, Null) = {} /\ Null \in B
        BY <2>6 DEF IndexKept
    <2> QED BY <2>3, <2>5, <2>7, <2>8 DEF q, IndexKept
<1> QED BY <1>2, <1>3

\* A block that is handed out loses its keys and gains a reference.
LEMMA TakenKept ==
    ASSUME NEW B, NEW p, IndexKept(p, B), NEW b \in B
    PROVE  /\ IndexKept(Taken(p, b), B) /\ Taken(p, b).free = p.free
           /\ Taken(p, b).ref = [p.ref EXCEPT ![b] = @ + 1]
<1> DEFINE e == Evict(p, b)
           q == Taken(p, b)
<1>1. IndexKept(e, B) /\ e.ref = p.ref /\ e.free = p.free
    BY EvictKept
<1>2. q = [e EXCEPT !.ref[b] = e.ref[b] + 1]
    BY DEF Taken
<1> HIDE DEF e, q
<1>3. e \in Pools(B) /\ e.ref \in [B -> Nat]
    BY <1>1, PoolFields DEF IndexKept
<1>4. /\ q.ref = [e.ref EXCEPT ![b] = e.ref[b] + 1] /\ q.hash = e.hash /\ q.extra = e.extra
      /\ q.index = e.index /\ q.free = e.free /\ q \in Pools(B)
    <2>1. [e.ref EXCEPT ![b] = e.ref[b] + 1] \in [B -> Nat]
        BY <1>3
    <2> QED BY <1>2, <1>3, <2>1 DEF Pools
<1> QED BY <1>1, <1>4, IndexOnly DEF q

\* get_new_blocks takes the first n blocks of the free queue, which are all
\* there; each has one reference then and no key, and all else stays exact.
THEOREM NewBlocksExact ==
    ASSUME NEW B, NEW p, PoolKept(p, B), NEW n \in 0..Len(p.free)
    PROVE  /\ PoolKept(GetNew(p, n), B)
           /\ \A b \in B : GetNew(p, n).ref[b] = p.ref[b] + Count(b, SubSeq(p.free, 1, n))
<1> DEFINE s == SubSeq(p.free, 1, n)
           rest == SubSeq(p.free, n + 1, Len(p.free))
           base == [p EXCEPT !.free = rest]
<1>1. /\ p \in Pools(B) /\ p.ref \in [B -> Nat] /\ p.free \in Seq(B \ {Null})
      /\ IsInjective(p.free) /\ Range(p.free) = {b \in B \ {Null} : p.ref[b] = 0}
    BY PoolFields DEF PoolKept, IndexKept, FreeKept
<1>2. /\ s \in Seq(B \ {Null}) /\ rest \in Seq(B \ {Null}) /\ Len(s) = n
      /\ Range(s) \cup Range(rest) = Range(p.free) /\ IsInjective(s) /\ IsInjective(rest)
      /\ Range(s) \cap Range(rest) = {}
    BY <1>1, InjectiveCut
<1>3. GetNew(p, n) = TakeAll(base, s)
    BY DEF GetNew, TakeAll
<1> HIDE DEF s, rest
<1>4. PICK P : /\ P[0] = base /\ P[n] = GetNew(p, n)
               /\ \A i \in 1..n : P[i] = Taken(P[i - 1], s[i])
    <2> HIDE DEF base
    <2>1. \E P : /\ P[0] = base /\ P[Len(s)] = TakeAll(base, s)
                 /\ \A i \in 1..Len(s) : P[i] = Taken(P[i - 1], s[i])
        <3>1. s \in Seq(B \ {Null})
            BY <1>2
        <3> QED BY <3>1, TakenSteps
    <2>2. Len(s) = n /\ GetNew(p, n) = TakeAll(base, s)
        BY <1>2, <1>3
    <2> QED BY Zenon, <2>1, <2>2
<1>5. IndexKept(base, B) /\ base.free = rest /\ base.ref = p.ref
    <2>1. /\ base \in Pools(B) /\ base.hash = p.hash /\ base.extra = p.extra
          /\ base.index = p.index /\ base.free = rest /\ base.ref = p.ref
        BY <1>1, <1>2 DEF Pools
    <2> HIDE DEF base
    <2> QED BY <2>1, IndexOnly DEF PoolKept
<1> HIDE DEF base
<1> DEFINE Good(i) == i <= n => /\ IndexKept(P[i], B) /\ P[i].free = rest
                                /\ \A b \in B : P[i].ref[b] = p.ref[b] + CountTo(b, s, i)
           Y == {i \in Nat : Good(i)}
<1>6. Nat \subseteq Y
    <2>1. 0 \in Y
        <3>1. \A b \in B : p.ref[b] = p.ref[b] + CountTo(b, s, 0)
            BY <1>1, CountStep
        <3> QED BY <1>4, <1>5, <3>1
    <2>2. ASSUME NEW i \in Nat, i \in Y PROVE i + 1 \in Y
        <3> SUFFICES ASSUME i + 1 <= n PROVE Good(i + 1)
            OBVIOUS
        <3>1. i + 1 \in 1..n /\ (i + 1) - 1 = i /\ i <= n
            OBVIOUS
        <3>2. /\ IndexKept(P[i], B) /\ P[i].free = rest
              /\ \A b \in B : P[i].ref[b] = p.ref[b] + CountTo(b, s, i)
            BY <2>2, <3>1
        <3>3. P[i + 1] = Taken(P[i], s[i + 1]) /\ s[i + 1] \in B
            BY <1>2, <1>4, <3>1
        <3>4. /\ IndexKept(P[i + 1], B) /\ P[i + 1].free = rest
              /\ P[i + 1].ref = [P[i].ref EXCEPT ![s[i + 1]] = @ + 1]
            BY <3>2, <3>3, TakenKept
        <3>5. P[i].ref \in [B -> Nat]
            BY <3>2, PoolFields DEF IndexKept
        <3>6. ASSUME NEW b \in B PROVE P[i + 1].ref[b] = p.ref[b] + CountTo(b, s, i + 1)
            <4>1. /\ CountTo(b, s, i) \in Nat
                  /\ s[i + 1] = b => CountTo(b, s, i + 1) = CountTo(b, s, i) + 1
                  /\ s[i + 1] # b => CountTo(b, s, i + 1) = CountTo(b, s, i)
                BY CountStep
            <4>2. p.ref[b] \in Nat /\ P[i].ref[b] = p.ref[b] + CountTo(b, s, i)
                BY <1>1, <3>2
            <4>3. CASE s[i + 1] = b
                <5>1. P[i + 1].ref[b] = P[i].ref[b] + 1
                    BY <3>3, <3>4, <3>5, <4>3
                <5>2. CountTo(b, s, i + 1) = CountTo(b, s, i) + 1 /\ CountTo(b, s, i) \in Nat
                    BY <4>1, <4>3
                <5> QED BY <4>2, <5>1, <5>2
            <4>4. CASE s[i + 1] # b
                <5>1. P[i + 1].ref[b] = P[i].ref[b]
                    BY <3>3, <3>4, <3>5, <4>4
                <5>2. CountTo(b, s, i + 1) = CountTo(b, s, i)
                    BY <4>1, <4>4
                <5> QED BY <4>2, <5>1, <5>2
            <4> QED BY <4>3, <4>4
        <3> QED BY <3>4, <3>6
    <2> HIDE DEF Y
    <2> QED BY <2>1, <2>2, SetInduction
<1>7. /\ IndexKept(P[n], B) /\ P[n].free = rest
      /\ \A b \in B : P[n].ref[b] = p.ref[b] + CountTo(b, s, n)
    BY <1>6
<1>8. \A b \in B : Count(b, s) = CountTo(b, s, n) /\ Count(b, s) = IF b \in Range(s) THEN 1 ELSE 0
    BY <1>2, CountFacts, InjectiveCount
<1>9. FreeKept(P[n], B)
    <2>1. \A b \in B \ {Null} : b \in Range(rest) <=> P[n].ref[b] = 0
        BY <1>1, <1>2, <1>7, <1>8
    <2>2. Range(rest) \subseteq B \ {Null}
        BY <1>2 DEF Range
    <2> QED BY <1>2, <1>7, <2>1, <2>2 DEF FreeKept
<1> QED BY <1>4, <1>7, <1>8, <1>9 DEF PoolKept, s

\* q refers to b once more than p, and to null_block no differently.
GainsOne(p, q, b) ==
    /\ b = Null => q.ref = p.ref
    /\ b # Null => q.ref = [p.ref EXCEPT ![b] = @ + 1]

\* One block is touched: it gains a reference and leaves the free queue.
LEMMA TouchedKept ==
    ASSUME NEW B, NEW p, PoolKept(p, B), NEW b \in B
    PROVE  PoolKept(Touched(p, b), B) /\ GainsOne(p, Touched(p, b), b)
<1> USE DEF GainsOne
<1> DEFINE q == Touched(p, b)
<1>1. /\ p \in Pools(B) /\ p.ref \in [B -> Nat] /\ p.free \in Seq(B \ {Null})
      /\ IsInjective(p.free) /\ Range(p.free) = {c \in B \ {Null} : p.ref[c] = 0}
    BY PoolFields DEF PoolKept, IndexKept, FreeKept
<1>2. CASE b = Null
    BY <1>2 DEF Touched
<1>3. CASE b # Null
    <2>1. q = [p EXCEPT !.ref[b] = p.ref[b] + 1,
                        !.free = IF p.ref[b] = 0 THEN Without(p.free, b) ELSE p.free]
        BY <1>3 DEF Touched
    <2>2. /\ Without(p.free, b) \in Seq(B \ {Null}) /\ IsInjective(Without(p.free, b))
          /\ Range(Without(p.free, b)) = Range(p.free) \ {b}
        BY <1>1, WithoutFacts
    <2> HIDE DEF q
    <2>3. /\ q.ref = [p.ref EXCEPT ![b] = p.ref[b] + 1] /\ q.hash = p.hash
          /\ q.extra = p.extra /\ q.index = p.index
          /\ q.free = IF p.ref[b] = 0 THEN Without(p.free, b) ELSE p.free
          /\ q \in Pools(B)
        <3>1. [p.ref EXCEPT ![b] = p.ref[b] + 1] \in [B -> Nat]
            BY <1>1
        <3>2. (IF p.ref[b] = 0 THEN Without(p.free, b) ELSE p.free) \in Seq(B \ {Null})
            BY <1>1, <2>2
        <3> QED BY <1>1, <2>1, <3>1, <3>2 DEF Pools
    <2>4. IndexKept(q, B)
        BY <2>3, IndexOnly DEF PoolKept
    <2>5. FreeKept(q, B)
        <3>1. q.ref[b] # 0 /\ \A c \in B : c # b => q.ref[c] = p.ref[c]
            BY <1>1, <2>3
        <3>2. IsInjective(q.free) /\ Range(q.free) = Range(p.free) \ {b}
            BY <1>1, <2>2, <2>3
        <3> QED BY <1>1, <3>1, <3>2 DEF FreeKept
    <2> QED BY <1>3, <2>3, <2>4, <2>5 DEF PoolKept, q
<1> QED BY <1>2, <1>3

\* How many of the blocks had no reference, and are in the free queue.
Reused(p, bs) == Cardinality({i \in DOMAIN bs : p.ref[bs[i]] = 0})

\* touch adds a reference for every occurrence of a block, and takes no more
\* blocks from the free queue than it found without one.
THEOREM TouchExact ==
    ASSUME NEW B, NEW p, PoolKept(p, B), NEW bs \in Seq(B)
    PROVE  /\ PoolKept(Touch(p, bs), B)
           /\ \A b \in B \ {Null} : Touch(p, bs).ref[b] = p.ref[b] + Count(b, bs)
           /\ NumFree(p) <= NumFree(Touch(p, bs)) + Reused(p, bs)
<1> DEFINE n == Len(bs)
           q == Touch(p, bs)
<1>1. PICK P : /\ P[0] = p /\ P[n] = q /\ \A i \in 1..n : P[i] = Touched(P[i - 1], bs[i])
    BY TouchedSteps
<1>2. n \in Nat /\ DOMAIN bs = 1..n /\ \A i \in 1..n : bs[i] \in B
    OBVIOUS
<1> HIDE DEF n, q
<1>3. /\ p \in Pools(B) /\ p.ref \in [B -> Nat] /\ p.free \in Seq(B \ {Null})
      /\ IsInjective(p.free) /\ Range(p.free) = {c \in B \ {Null} : p.ref[c] = 0}
    BY PoolFields DEF PoolKept, IndexKept, FreeKept
<1> DEFINE Good(i) == i <= n =>
                        /\ PoolKept(P[i], B)
                        /\ \A b \in B \ {Null} : P[i].ref[b] = p.ref[b] + CountTo(b, bs, i)
           Y == {i \in Nat : Good(i)}
<1>4. Nat \subseteq Y
    <2>1. 0 \in Y
        <3>1. \A b \in B : p.ref[b] = p.ref[b] + CountTo(b, bs, 0)
            BY <1>3, CountStep
        <3> QED BY <1>1, <3>1
    <2>2. ASSUME NEW i \in Nat, i \in Y PROVE i + 1 \in Y
        <3> SUFFICES ASSUME i + 1 <= n PROVE Good(i + 1)
            OBVIOUS
        <3>1. i + 1 \in 1..n /\ (i + 1) - 1 = i /\ i <= n
            BY <1>2
        <3>2. /\ PoolKept(P[i], B)
              /\ \A b \in B \ {Null} : P[i].ref[b] = p.ref[b] + CountTo(b, bs, i)
            BY <2>2, <3>1
        <3>3. P[i + 1] = Touched(P[i], bs[i + 1]) /\ bs[i + 1] \in B
            BY <1>1, <1>2, <3>1
        <3>4. /\ PoolKept(P[i + 1], B)
              /\ bs[i + 1] = Null => P[i + 1].ref = P[i].ref
              /\ bs[i + 1] # Null => P[i + 1].ref = [P[i].ref EXCEPT ![bs[i + 1]] = @ + 1]
            <4>1. PoolKept(P[i + 1], B) /\ GainsOne(P[i], P[i + 1], bs[i + 1])
                BY Zenon, <3>2, <3>3, TouchedKept
            <4> QED BY <4>1 DEF GainsOne
        <3>5. P[i].ref \in [B -> Nat]
            BY <3>2, PoolFields DEF PoolKept, IndexKept
        <3>6. ASSUME NEW b \in B \ {Null}
              PROVE  P[i + 1].ref[b] = p.ref[b] + CountTo(b, bs, i + 1)
            <4>1. /\ CountTo(b, bs, i) \in Nat
                  /\ bs[i + 1] = b => CountTo(b, bs, i + 1) = CountTo(b, bs, i) + 1
                  /\ bs[i + 1] # b => CountTo(b, bs, i + 1) = CountTo(b, bs, i)
                BY CountStep
            <4>2. p.ref[b] \in Nat /\ P[i].ref[b] = p.ref[b] + CountTo(b, bs, i)
                BY <1>3, <3>2
            <4>3. CASE bs[i + 1] = b
                <5>1. P[i + 1].ref[b] = P[i].ref[b] + 1
                    BY <3>3, <3>4, <3>5, <4>3
                <5>2. CountTo(b, bs, i + 1) = CountTo(b, bs, i) + 1 /\ CountTo(b, bs, i) \in Nat
                    BY <4>1, <4>3
                <5>3. \A x, c \in Nat : (x + c) + 1 = x + (c + 1)
                    OBVIOUS
                <5> QED BY <4>2, <5>1, <5>2, <5>3
            <4>4. CASE bs[i + 1] # b
                <5>1. P[i + 1].ref[b] = P[i].ref[b]
                    BY <3>3, <3>4, <3>5, <4>4
                <5>2. CountTo(b, bs, i + 1) = CountTo(b, bs, i)
                    BY <4>1, <4>4
                <5> QED BY <4>2, <5>1, <5>2
            <4> QED BY <4>3, <4>4
        <3> QED BY <3>4, <3>6
    <2> HIDE DEF Y
    <2> QED BY <2>1, <2>2, SetInduction
<1>5. PoolKept(q, B) /\ \A b \in B \ {Null} : q.ref[b] = p.ref[b] + Count(b, bs)
    <2>1. Good(n)
        BY <1>2, <1>4
    <2>2. \A b : Count(b, bs) = CountTo(b, bs, n)
        BY CountFacts DEF n
    <2> QED BY <1>1, <1>2, <2>1, <2>2
<1>6. /\ q.free \in Seq(B \ {Null}) /\ IsInjective(q.free)
      /\ Range(q.free) = {c \in B \ {Null} : q.ref[c] = 0}
    BY <1>5, PoolFields DEF PoolKept, IndexKept, FreeKept
<1> DEFINE I == {i \in DOMAIN bs : p.ref[bs[i]] = 0}
           Lost == Range(p.free) \cap Range(bs)
<1>7. /\ IsFiniteSet(Range(p.free)) /\ Len(p.free) = Cardinality(Range(p.free))
      /\ IsFiniteSet(Range(q.free)) /\ Len(q.free) = Cardinality(Range(q.free))
    BY <1>3, <1>6, InjectiveLen
<1>8. Range(p.free) \ Range(bs) \subseteq Range(q.free)
    <2>1. ASSUME NEW b \in Range(p.free), b \notin Range(bs) PROVE b \in Range(q.free)
        <3>1. Count(b, bs) = 0
            BY <2>1, CountFacts
        <3>2. b \in B \ {Null} /\ p.ref[b] = 0
            BY <1>3
        <3> QED BY <1>5, <1>6, <3>1, <3>2
    <2> QED BY <2>1
<1>9. IsFiniteSet(Lost) /\ Cardinality(Lost) \in Nat
    BY <1>7, FS_Intersection, FS_CardinalityType
<1>10. Cardinality(Lost) <= Cardinality(I) /\ Cardinality(I) \in Nat
    <2>1. IsFiniteSet(I)
        <3>1. I \in SUBSET (1..n) /\ IsFiniteSet(1..n)
            BY <1>2, FS_Interval
        <3> QED BY <3>1, FS_Subset
    <2> DEFINE J == {i \in I : bs[i] # Null}
    <2>2. IsFiniteSet(J) /\ Cardinality(J) <= Cardinality(I)
        BY <2>1, FS_Subset
    <2>3. [i \in J |-> bs[i]] \in Surjection(J, Lost)
        <3>1. \A i \in J : bs[i] \in Lost
            BY <1>2, <1>3 DEF Range
        <3>2. \A b \in Lost : \E i \in J : bs[i] = b
            BY <1>2, <1>3 DEF Range
        <3> HIDE DEF J, Lost
        <3> QED BY <3>1, <3>2 DEF Surjection
    <2>4. Cardinality(Lost) <= Cardinality(J)
        BY <2>2, <2>3, FS_Surjection
    <2>5. Cardinality(I) \in Nat /\ Cardinality(J) \in Nat
        BY <2>1, <2>2, FS_CardinalityType
    <2> QED BY <1>9, <2>2, <2>4, <2>5
<1>11. Cardinality(Range(p.free)) - Cardinality(Lost) <= Cardinality(Range(q.free))
    <2>1. Cardinality(Range(p.free) \ Range(bs)) = Cardinality(Range(p.free)) - Cardinality(Lost)
        BY <1>7, FS_Difference
    <2>2. Cardinality(Range(p.free) \ Range(bs)) <= Cardinality(Range(q.free))
        BY <1>7, <1>8, FS_Subset
    <2> QED BY <2>1, <2>2
<1>12. Len(p.free) \in Nat /\ Len(q.free) \in Nat
    BY <1>3, <1>6
<1>13. Reused(p, bs) = Cardinality(I)
    BY DEF Reused
<1> QED BY <1>5, <1>7, <1>9, <1>10, <1>11, <1>12, <1>13 DEF NumFree, q

\* The counts free_blocks works on, and the blocks it has found without a reference.
Drops(B) == [ref : [B -> Nat], out : Seq(B \ {Null})]

\* One reference is dropped; the last one puts the block out.
LEMMA DroppedKept ==
    ASSUME NEW B, NEW q \in Drops(B), NEW b \in B \ {Null}, q.ref[b] # 0,
           b \notin Range(q.out), IsInjective(q.out)
    PROVE  /\ Dropped(q, b) \in Drops(B) /\ IsInjective(Dropped(q, b).out)
           /\ Dropped(q, b).ref[b] = q.ref[b] - 1
           /\ \A c \in B \ {b} : Dropped(q, b).ref[c] = q.ref[c]
           /\ Range(Dropped(q, b).out) = Range(q.out) \cup {c \in {b} : q.ref[c] = 1}
<1>1. q.ref \in [B -> Nat] /\ q.out \in Seq(B \ {Null})
    BY DEF Drops
<1> DEFINE o == IF q.ref[b] = 1 THEN Append(q.out, b) ELSE q.out
           e == Dropped(q, b)
<1>2. e = [q EXCEPT !.ref[b] = q.ref[b] - 1, !.out = o]
    BY DEF Dropped
<1>3. /\ Append(q.out, b) \in Seq(B \ {Null}) /\ IsInjective(Append(q.out, b))
      /\ Range(Append(q.out, b)) = Range(q.out) \cup {b}
    BY <1>1, InjectiveAppend
<1>4. /\ o \in Seq(B \ {Null}) /\ IsInjective(o)
      /\ q.ref[b] = 1 => Range(o) = Range(q.out) \cup {b}
      /\ q.ref[b] # 1 => Range(o) = Range(q.out)
    BY <1>1, <1>3
<1>5. [q.ref EXCEPT ![b] = q.ref[b] - 1] \in [B -> Nat]
    BY <1>1
<1> HIDE DEF o, e
<1>6. e.ref = [q.ref EXCEPT ![b] = q.ref[b] - 1] /\ e.out = o /\ e \in Drops(B)
    BY <1>1, <1>2, <1>4, <1>5 DEF Drops
<1>7. e.ref[b] = q.ref[b] - 1 /\ \A c \in B \ {b} : e.ref[c] = q.ref[c]
    BY <1>1, <1>6
<1> QED BY <1>4, <1>6, <1>7 DEF e

\* What free_blocks counts: a reference less for every occurrence, and the
\* blocks whose last reference that was, once each.
LEMMA DropAllKept ==
    ASSUME NEW B, NEW ref \in [B -> Nat], NEW bs \in Seq(B),
           \A b \in B \ {Null} : Count(b, bs) <= ref[b]
    PROVE  LET q == DropAll([ref |-> ref, out |-> <<>>], bs)
           IN  /\ q \in Drops(B) /\ IsInjective(q.out)
               /\ \A b \in B \ {Null} : q.ref[b] = ref[b] - Count(b, bs)
               /\ Range(q.out) = {b \in B \ {Null} : q.ref[b] = 0 /\ ref[b] # 0}
<1> DEFINE base == [ref |-> ref, out |-> <<>>]
           n == Len(bs)
<1>1. PICK P : /\ P[0] = base /\ P[n] = DropAll(base, bs)
               /\ \A i \in 1..n : P[i] = Dropped(P[i - 1], bs[i])
    <2> HIDE DEF base
    <2>1. DropsTo(base, bs)
        BY DroppedSteps
    <2> QED BY Zenon, <2>1 DEF n, DropsTo
<1>2. n \in Nat /\ \A i \in 1..n : bs[i] \in B
    OBVIOUS
<1>3. \A b : Count(b, bs) = CountTo(b, bs, n)
    BY CountFacts
<1>4. base \in Drops(B) /\ base.ref = ref /\ Range(base.out) = {} /\ IsInjective(base.out)
    BY DEF Drops, Range, IsInjective
<1> HIDE DEF base, n
<1> DEFINE Out(q) == {b \in B \ {Null} : q.ref[b] = 0 /\ ref[b] # 0}
           Good(i) == i <= n =>
                        /\ P[i] \in Drops(B) /\ IsInjective(P[i].out)
                        /\ \A b \in B \ {Null} : P[i].ref[b] = ref[b] - CountTo(b, bs, i)
                        /\ Range(P[i].out) = Out(P[i])
           Y == {i \in Nat : Good(i)}
<1>5. Nat \subseteq Y
    <2>1. 0 \in Y
        <3>1. \A b \in B : ref[b] = ref[b] - CountTo(b, bs, 0)
            BY CountStep
        <3>2. Out(base) = {}
            BY <1>4
        <3> QED BY <1>1, <1>4, <3>1, <3>2
    <2>2. ASSUME NEW i \in Nat, i \in Y PROVE i + 1 \in Y
        <3> SUFFICES ASSUME i + 1 <= n PROVE Good(i + 1)
            OBVIOUS
        <3>1. i + 1 \in 1..n /\ (i + 1) - 1 = i /\ i <= n
            BY <1>2
        <3>2. /\ P[i] \in Drops(B) /\ IsInjective(P[i].out)
              /\ \A b \in B \ {Null} : P[i].ref[b] = ref[b] - CountTo(b, bs, i)
              /\ Range(P[i].out) = Out(P[i])
            BY <2>2, <3>1
        <3>3. P[i + 1] = Dropped(P[i], bs[i + 1]) /\ bs[i + 1] \in B
            BY <1>1, <1>2, <3>1
        <3>4. \A b : /\ CountTo(b, bs, i) \in Nat /\ CountTo(b, bs, i + 1) \in Nat
                     /\ bs[i + 1] = b => CountTo(b, bs, i + 1) = CountTo(b, bs, i) + 1
                     /\ bs[i + 1] # b => CountTo(b, bs, i + 1) = CountTo(b, bs, i)
            BY CountStep
        <3>5. \A b \in B \ {Null} : CountTo(b, bs, i + 1) <= ref[b]
            <4>1. \A b : CountTo(b, bs, i + 1) <= CountTo(b, bs, n) /\ CountTo(b, bs, n) \in Nat
                BY <1>2, <3>1, CountStep
            <4>2. \A b \in B \ {Null} : CountTo(b, bs, n) <= ref[b] /\ ref[b] \in Nat
                BY <1>3
            <4> QED BY <3>4, <4>1, <4>2
        <3> DEFINE c == bs[i + 1]
        <3>6. P[i].ref \in [B -> Nat]
            BY <3>2 DEF Drops
        <3>7. CASE c = Null
            <4>1. \A b \in B \ {Null} : CountTo(b, bs, i + 1) = CountTo(b, bs, i)
                BY <3>4, <3>7
            <4>2. P[i + 1] = P[i]
                BY <3>3, <3>7 DEF Dropped
            <4> QED BY <3>2, <4>1, <4>2
        <3>8. CASE c # Null
            <4>1. P[i].ref[c] # 0
                <5>1. CountTo(c, bs, i) + 1 <= ref[c] /\ ref[c] \in Nat
                    BY <3>3, <3>4, <3>5, <3>8
                <5>2. P[i].ref[c] = ref[c] - CountTo(c, bs, i) /\ CountTo(c, bs, i) \in Nat
                    BY <3>2, <3>3, <3>4, <3>8
                <5> HIDE DEF c
                <5> QED BY <5>1, <5>2
            <4>2. c \notin Range(P[i].out)
                BY <3>2, <4>1
            <4>3. /\ P[i + 1] \in Drops(B) /\ IsInjective(P[i + 1].out)
                  /\ P[i + 1].ref[c] = P[i].ref[c] - 1
                  /\ \A b \in B \ {c} : P[i + 1].ref[b] = P[i].ref[b]
                  /\ Range(P[i + 1].out) = Range(P[i].out) \cup {b \in {c} : P[i].ref[b] = 1}
                <5>1. P[i + 1] = Dropped(P[i], c) /\ c \in B \ {Null}
                    BY <3>3, <3>8
                <5> DEFINE was == P[i]
                <5>2. was \in Drops(B) /\ IsInjective(was.out) /\ was.ref[c] # 0
                      /\ c \notin Range(was.out)
                    BY <3>2, <4>1, <4>2
                <5> HIDE DEF c, was
                <5>3. /\ Dropped(was, c) \in Drops(B) /\ IsInjective(Dropped(was, c).out)
                      /\ Dropped(was, c).ref[c] = was.ref[c] - 1
                      /\ \A b \in B \ {c} : Dropped(was, c).ref[b] = was.ref[b]
                      /\ Range(Dropped(was, c).out) = Range(was.out) \cup {b \in {c} : was.ref[b] = 1}
                    BY <5>1, <5>2, DroppedKept
                <5>4. Dropped(was, c) = P[i + 1] /\ P[i] = was
                    BY <5>1 DEF was
                <5> QED BY <5>3, <5>4
            <4>4. ASSUME NEW b \in B \ {Null}
                  PROVE  P[i + 1].ref[b] = ref[b] - CountTo(b, bs, i + 1)
                <5>1. P[i].ref[b] = ref[b] - CountTo(b, bs, i) /\ ref[b] \in Nat
                    BY <3>2
                <5>2. CASE b = c
                    <6>1. P[i + 1].ref[b] = P[i].ref[b] - 1
                        BY <3>3, <3>6, <4>3, <5>2
                    <6>2. CountTo(b, bs, i + 1) = CountTo(b, bs, i) + 1 /\ CountTo(b, bs, i) \in Nat
                        BY <3>4, <5>2
                    <6>3. \A x, y \in Nat : (x - y) - 1 = x - (y + 1)
                        OBVIOUS
                    <6> QED BY <5>1, <6>1, <6>2, <6>3
                <5>3. CASE b # c
                    <6>1. P[i + 1].ref[b] = P[i].ref[b]
                        BY <3>3, <3>6, <4>3, <5>3
                    <6>2. CountTo(b, bs, i + 1) = CountTo(b, bs, i)
                        BY <3>4, <5>3
                    <6> QED BY <5>1, <6>1, <6>2
                <5> QED BY <5>2, <5>3
            <4>5. Range(P[i + 1].out) = Out(P[i + 1])
                <5>1. \A b \in B : b # c => P[i + 1].ref[b] = P[i].ref[b]
                    BY <3>6, <4>3
                <5>2. P[i + 1].ref[c] = P[i].ref[c] - 1 /\ P[i].ref[c] \in Nat /\ c \in B
                    BY <3>3, <3>6, <4>3
                <5>3. ref[c] # 0
                    <6>1. CountTo(c, bs, i) + 1 <= ref[c] /\ CountTo(c, bs, i) \in Nat
                        BY <3>3, <3>4, <3>5, <3>8
                    <6> HIDE DEF c
                    <6> QED BY <5>2, <6>1
                <5> HIDE DEF c
                <5>4. CASE P[i].ref[c] = 1
                    <6>1. P[i + 1].ref[c] = 0
                        BY <5>2, <5>4
                    <6>2. Out(P[i + 1]) = Out(P[i]) \cup {c}
                        BY <3>8, <5>1, <5>2, <5>3, <6>1
                    <6> QED BY <3>2, <4>3, <5>4, <6>2
                <5>5. CASE P[i].ref[c] # 1
                    <6>1. P[i + 1].ref[c] # 0
                        BY <5>2, <5>5
                    <6>2. Out(P[i + 1]) = Out(P[i])
                        BY <4>1, <5>1, <6>1
                    <6> QED BY <3>2, <4>3, <5>5, <6>2
                <5> QED BY <5>4, <5>5
            <4> QED BY <4>3, <4>4, <4>5
        <3> QED BY <3>7, <3>8
    <2> HIDE DEF Y
    <2> QED BY <2>1, <2>2, SetInduction
<1>6. Good(n)
    BY <1>2, <1>5
<1> QED BY <1>1, <1>2, <1>3, <1>6 DEF base

\* free_blocks takes back a reference for every occurrence of a block, and a
\* block without one is in the free queue again.
THEOREM FreeExactly ==
    ASSUME NEW B, NEW p, PoolKept(p, B), NEW bs \in Seq(B),
           \A b \in B \ {Null} : Count(b, bs) <= p.ref[b]
    PROVE  /\ PoolKept(FreeBlocks(p, bs), B)
           /\ \A b \in B \ {Null} : FreeBlocks(p, bs).ref[b] = p.ref[b] - Count(b, bs)
<1> DEFINE d == DropAll([ref |-> p.ref, out |-> <<>>], bs)
           hashed == {b \in BlocksOf(p) : p.hash[b] # NoKey}
           front == Filter(d.out, BlocksOf(p) \ hashed)
           back == Filter(d.out, hashed)
           joined == front \o p.free \o back
           q == FreeBlocks(p, bs)
<1>1. /\ p \in Pools(B) /\ p.ref \in [B -> Nat] /\ p.free \in Seq(B \ {Null})
      /\ IsInjective(p.free) /\ Range(p.free) = {c \in B \ {Null} : p.ref[c] = 0}
      /\ BlocksOf(p) = B
    BY PoolFields DEF PoolKept, IndexKept, FreeKept
<1>2. q = [p EXCEPT !.ref = d.ref, !.free = joined]
    BY DEF FreeBlocks, DropAll
<1>3. /\ d \in Drops(B) /\ IsInjective(d.out)
      /\ \A b \in B \ {Null} : d.ref[b] = p.ref[b] - Count(b, bs)
      /\ Range(d.out) = {b \in B \ {Null} : d.ref[b] = 0 /\ p.ref[b] # 0}
    BY <1>1, DropAllKept
<1> HIDE DEF d, hashed
<1>4. d.ref \in [B -> Nat] /\ d.out \in Seq(B \ {Null})
    BY <1>3 DEF Drops
<1>5. /\ front \in Seq(B \ {Null}) /\ Range(front) = Range(d.out) \cap (BlocksOf(p) \ hashed)
      /\ back \in Seq(B \ {Null}) /\ Range(back) = Range(d.out) \cap hashed
      /\ IsInjective(front) /\ IsInjective(back)
    BY <1>3, <1>4, FilterFacts
<1> HIDE DEF front, back
<1>6. Range(d.out) \cap Range(p.free) = {}
    BY <1>1, <1>3
<1>7. /\ front \o p.free \in Seq(B \ {Null}) /\ IsInjective(front \o p.free)
      /\ Range(front \o p.free) = Range(front) \cup Range(p.free)
    <2>1. Range(front) \cap Range(p.free) = {}
        BY <1>5, <1>6
    <2> QED BY <1>1, <1>5, <2>1, InjectiveConcat
<1>8. /\ joined \in Seq(B \ {Null}) /\ IsInjective(joined)
      /\ Range(joined) = Range(front) \cup Range(p.free) \cup Range(back)
    <2>1. Range(front \o p.free) \cap Range(back) = {}
        BY <1>5, <1>6, <1>7
    <2> DEFINE fronts == front \o p.free
    <2>2. joined = fronts \o back
        OBVIOUS
    <2> HIDE DEF fronts, joined
    <2>3. fronts \in Seq(B \ {Null}) /\ IsInjective(fronts) /\ Range(fronts) \cap Range(back) = {}
        BY <1>7, <2>1 DEF fronts
    <2>4. joined \in Seq(B \ {Null}) /\ IsInjective(joined) /\ Range(joined) = Range(fronts) \cup Range(back)
        BY <1>5, <2>2, <2>3, InjectiveConcat
    <2> QED BY <1>7, <2>4 DEF fronts
<1>9. Range(joined) = Range(d.out) \cup Range(p.free)
    <2>1. Range(d.out) \subseteq B
        BY <1>3
    <2> QED BY <1>1, <1>5, <1>8, <2>1
<1> HIDE DEF joined, q
<1>10. /\ q.ref = d.ref /\ q.hash = p.hash /\ q.extra = p.extra /\ q.index = p.index
       /\ q.free = joined /\ q \in Pools(B)
    BY <1>1, <1>2, <1>4, <1>8 DEF Pools
<1>11. IndexKept(q, B)
    BY <1>10, IndexOnly DEF PoolKept
<1>12. \A b \in B \ {Null} : b \in Range(joined) <=> d.ref[b] = 0
    <2> TAKE b \in B \ {Null}
    <2>1. p.ref[b] = 0 => d.ref[b] = 0
        <3>1. Count(b, bs) <= p.ref[b] /\ Count(b, bs) \in Nat
            BY CountFacts
        <3> QED BY <1>3, <3>1
    <2> QED BY <1>1, <1>3, <1>9, <2>1
<1>13. FreeKept(q, B)
    <2>1. Range(joined) \subseteq B \ {Null}
        BY <1>8 DEF Range
    <2> QED BY <1>8, <1>10, <1>12, <2>1 DEF FreeKept
<1> QED BY <1>3, <1>10, <1>11, <1>13 DEF PoolKept, q

\* A table is freed from its end: the same references are taken back.
LEMMA FreeTableKept ==
    ASSUME NEW B, NEW p, PoolKept(p, B), NEW bs \in Seq(B),
           \A b \in B \ {Null} : Count(b, bs) <= p.ref[b]
    PROVE  /\ PoolKept(FreeTable(p, bs), B)
           /\ \A b \in B \ {Null} : FreeTable(p, bs).ref[b] = p.ref[b] - Count(b, bs)
<1> DEFINE back == Reverse(bs)
<1>1. back \in Seq(B) /\ \A b : Count(b, back) = Count(b, bs)
    BY ReverseCount
<1> HIDE DEF back
<1>2. \A b \in B \ {Null} : Count(b, back) <= p.ref[b]
    BY <1>1
<1>3. /\ PoolKept(FreeBlocks(p, back), B)
      /\ \A b \in B \ {Null} : FreeBlocks(p, back).ref[b] = p.ref[b] - Count(b, back)
    BY <1>1, <1>2, FreeExactly
<1> QED BY <1>1, <1>3 DEF FreeTable, back

\* Several tables are freed in turn, the places of all of them taken back.
THEOREM TablesFreed ==
    ASSUME NEW B, NEW p, PoolKept(p, B), NEW ts \in Seq(Seq(B)),
           \A b \in B \ {Null} : Uses(b, ts, 1..Len(ts)) <= p.ref[b]
    PROVE  /\ PoolKept(FreeTables(p, ts), B)
           /\ \A b \in B \ {Null} :
                  FreeTables(p, ts).ref[b] = p.ref[b] - Uses(b, ts, 1..Len(ts))
<1> DEFINE n == Len(ts)
<1>1. PICK P : /\ P[0] = p /\ P[n] = FreeTables(p, ts)
               /\ \A i \in 1..n : P[i] = FreeTable(P[i - 1], ts[i])
    <2>1. \E P : /\ P[0] = p /\ P[Len(ts)] = FreeTables(p, ts)
                 /\ \A i \in 1..Len(ts) : P[i] = FreeTable(P[i - 1], ts[i])
        BY FreeTableSteps
    <2> QED BY <2>1
<1>2. n \in Nat /\ \A i \in 1..n : ts[i] \in Seq(B)
    OBVIOUS
<1> HIDE DEF n
<1>3. ASSUME NEW i \in Nat, i <= n, NEW b
      PROVE  /\ Uses(b, ts, 1..i) \in Nat /\ Uses(b, ts, 1..i) <= Uses(b, ts, 1..n)
             /\ i > 0 => Uses(b, ts, 1..i) = Uses(b, ts, 1..(i - 1)) + Count(b, ts[i])
    <2>1. IsFiniteSet(1..n) /\ 1..i \in SUBSET (1..n) /\ \A d \in 1..n : ts[d] \in Seq(B)
        BY <1>2, <1>3, FS_Interval
    <2>2. Uses(b, ts, 1..i) \in Nat /\ Uses(b, ts, 1..i) <= Uses(b, ts, 1..n)
        BY <2>1, UsesPart
    <2>3. CASE i > 0
        <3> DEFINE D == 1..(i - 1)
                   E == {i}
        <3>1. /\ IsFiniteSet(D) /\ IsFiniteSet(E) /\ D \cap E = {} /\ D \cup E = 1..i
              /\ Family(ts, D \cup E, B)
            <4>1. IsFiniteSet(1..(i - 1)) /\ IsFiniteSet({i})
                <5>1. i - 1 \in Int
                    OBVIOUS
                <5>2. IsFiniteSet(1..(i - 1))
                    BY <5>1, FS_Interval
                <5> QED BY <5>2, FS_Singleton
            <4>2. (1..(i - 1)) \cap {i} = {} /\ (1..(i - 1)) \cup {i} = 1..i
                BY <2>3
            <4>3. \A d \in 1..i : ts[d] \in Seq(B)
                BY <1>2, <1>3
            <4> QED BY <4>1, <4>2, <4>3 DEF Family
        <3>2. Uses(b, ts, E) = Count(b, ts[i])
            <4>1. ts[i] \in Seq(B)
                BY <1>2, <1>3, <2>3
            <4> QED BY <4>1, UsesOne
        <3> HIDE DEF D, E
        <3>3. Uses(b, ts, D \cup E) = Uses(b, ts, D) + Uses(b, ts, E)
            BY <3>1, UsesSplit
        <3> QED BY <2>2, <3>1, <3>2, <3>3 DEF D
    <2> QED BY <2>2, <2>3
<1> DEFINE Good(i) == i <= n =>
                        /\ PoolKept(P[i], B)
                        /\ \A b \in B \ {Null} : P[i].ref[b] = p.ref[b] - Uses(b, ts, 1..i)
           Y == {i \in Nat : Good(i)}
<1>4. \A b \in B : p.ref[b] \in Nat
    <2>1. p \in Pools(B)
        BY DEF PoolKept, IndexKept
    <2>2. p.ref \in [B -> Nat]
        BY <2>1 DEF Pools
    <2> QED BY <2>2
<1>5. Nat \subseteq Y
    <2>1. 0 \in Y
        <3>1. ASSUME NEW b \in B PROVE Uses(b, ts, 1..0) = 0
            <4>1. PlacesIn(b, ts, 1..0) = {}
                BY DEF PlacesIn
            <4> QED BY <4>1, FS_EmptySet DEF Uses
        <3> QED BY <1>1, <1>4, <3>1
    <2>2. ASSUME NEW i \in Nat, i \in Y PROVE i + 1 \in Y
        <3> SUFFICES ASSUME i + 1 <= n PROVE Good(i + 1)
            OBVIOUS
        <3>1. i + 1 \in 1..n /\ (i + 1) - 1 = i /\ i <= n /\ i + 1 \in Nat /\ i + 1 > 0
            BY <1>2
        <3>2. PoolKept(P[i], B) /\ \A b \in B \ {Null} : P[i].ref[b] = p.ref[b] - Uses(b, ts, 1..i)
            BY <2>2, <3>1
        <3> DEFINE was == P[i]
                   t == ts[i + 1]
        <3>3. P[i + 1] = FreeTable(was, t) /\ t \in Seq(B)
            BY <1>1, <1>2, <3>1
        <3>4. \A b : /\ Uses(b, ts, 1..(i + 1)) = Uses(b, ts, 1..i) + Count(b, t)
                     /\ Uses(b, ts, 1..(i + 1)) <= Uses(b, ts, 1..n)
                     /\ Uses(b, ts, 1..i) \in Nat /\ Uses(b, ts, 1..n) \in Nat
            <4> TAKE b
            <4>1. /\ Uses(b, ts, 1..(i + 1)) <= Uses(b, ts, 1..n)
                  /\ Uses(b, ts, 1..(i + 1)) = Uses(b, ts, 1..((i + 1) - 1)) + Count(b, ts[i + 1])
                BY <1>3, <3>1
            <4>2. Uses(b, ts, 1..i) \in Nat
                BY <1>3, <3>1
            <4>3. Uses(b, ts, 1..n) \in Nat
                BY <1>2, <1>3
            <4> QED BY <3>1, <4>1, <4>2, <4>3
        <3>5. PoolKept(was, B)
            BY <3>2
        <3>6. \A b \in B \ {Null} : was.ref[b] = p.ref[b] - Uses(b, ts, 1..i)
            BY <3>2
        <3> HIDE DEF was, t
        <3>7. \A b : Count(b, t) \in Nat
            BY <3>3, CountFacts
        <3>8. \A b \in B \ {Null} : Count(b, t) <= was.ref[b]
            <4> TAKE b \in B \ {Null}
            <4>1. Uses(b, ts, 1..n) <= p.ref[b] /\ p.ref[b] \in Nat
                BY <1>4 DEF n
            <4> QED BY <3>4, <3>6, <3>7, <4>1
        <3>9. /\ PoolKept(FreeTable(was, t), B)
              /\ \A b \in B \ {Null} : FreeTable(was, t).ref[b] = was.ref[b] - Count(b, t)
            BY <3>3, <3>5, <3>8, FreeTableKept
        <3>10. \A b \in B \ {Null} : P[i + 1].ref[b] = p.ref[b] - Uses(b, ts, 1..(i + 1))
            <4> TAKE b \in B \ {Null}
            <4>1. \A x, y, z \in Nat : (x - y) - z = x - (y + z)
                OBVIOUS
            <4>2. P[i + 1].ref[b] = (p.ref[b] - Uses(b, ts, 1..i)) - Count(b, t)
                BY <3>3, <3>6, <3>9
            <4>3. p.ref[b] \in Nat /\ Uses(b, ts, 1..i) \in Nat /\ Count(b, t) \in Nat
                BY <1>4, <3>4, <3>7
            <4>4. Uses(b, ts, 1..(i + 1)) = Uses(b, ts, 1..i) + Count(b, t)
                BY <3>4
            <4> QED BY <4>1, <4>2, <4>3, <4>4
        <3> QED BY <3>3, <3>9, <3>10
    <2> HIDE DEF Y
    <2> QED BY <2>1, <2>2, SetInduction
<1>6. Good(n)
    BY <1>2, <1>5
<1> QED BY <1>1, <1>2, <1>6 DEF n

\* A new pool: nothing is cached and every block but the null block is free.
THEOREM NewPoolKept ==
    ASSUME NEW n \in Nat \ {0}
    PROVE  /\ PoolKept(NewPool(n), 0..(n - 1))
           /\ \A b \in 0..(n - 1) : NewPool(n).ref[b] = 0
<1> DEFINE B == 0..(n - 1)
           m == n - 1
           p == NewPool(n)
<1>1. /\ p.ref = [b \in B |-> 0] /\ p.hash = [b \in B |-> NoKey] /\ p.extra = [b \in B |-> {}]
      /\ p.index = [k \in Keys |-> <<>>] /\ p.free = [i \in 1..m |-> i]
    BY DEF NewPool
<1>2. m \in Nat /\ Null \in B /\ B \ {Null} = 1..m
    BY DEF Null
<1> HIDE DEF B, m
<1>3. p.free \in Seq(B \ {Null}) /\ IsInjective(p.free) /\ Range(p.free) = B \ {Null}
    <2>1. p.free \in Seq(1..m)
        BY <1>1, <1>2
    <2>2. IsInjective(p.free) /\ Range(p.free) = 1..m
        BY <1>1 DEF IsInjective, Range
    <2> QED BY <1>2, <2>1, <2>2
<1>4. p \in Pools(B)
    <2>1. /\ p.ref \in [B -> Nat] /\ p.hash \in [B -> Keys \cup {NoKey}]
          /\ p.extra \in [B -> SUBSET Keys] /\ p.index \in [Keys -> Seq(B)]
        BY <1>1
    <2>2. p \in [ref : {p.ref}, hash : {p.hash}, extra : {p.extra}, index : {p.index},
                 free : {p.free}]
        BY DEF NewPool
    <2> HIDE DEF p
    <2> QED BY <1>3, <2>1, <2>2 DEF Pools
<1> HIDE DEF p
<1>5. \A b \in B : KeysOf(p, b) = {}
    BY <1>1 DEF KeysOf
<1>6. IndexKept(p, B)
    <2>1. \A k \in Keys : IsInjective(p.index[k]) /\ Range(p.index[k]) = {}
        BY <1>1 DEF IsInjective, Range
    <2> QED BY <1>2, <1>4, <1>5, <2>1 DEF IndexKept
<1>7. FreeKept(p, B)
    BY <1>1, <1>3 DEF FreeKept
<1> QED BY <1>1, <1>6, <1>7 DEF PoolKept, p, B

\* reset_prefix_cache forgets the keys and nothing else.
LEMMA ResetKept ==
    ASSUME NEW n \in Nat \ {0}, NEW p, PoolKept(p, 0..(n - 1))
    PROVE  PoolKept(ResetHashes(p), 0..(n - 1)) /\ ResetHashes(p).ref = p.ref
<1> DEFINE B == 0..(n - 1)
           e == NewPool(n)
           q == ResetHashes(p)
<1>1. BlocksOf(p) = B /\ p \in Pools(B)
    BY PoolFields DEF PoolKept, IndexKept
<1>2. Cardinality(B) = n
    BY FS_Interval
<1>3. q = [e EXCEPT !.ref = p.ref, !.free = p.free]
    BY <1>1, <1>2 DEF ResetHashes
<1>4. PoolKept(e, B)
    BY NewPoolKept
<1> HIDE DEF B, e, q
<1>5. e \in Pools(B) /\ IndexKept(e, B)
    BY <1>4 DEF PoolKept, IndexKept
<1>6. /\ q.hash = e.hash /\ q.extra = e.extra /\ q.index = e.index
      /\ q.ref = p.ref /\ q.free = p.free /\ q \in Pools(B)
    BY <1>1, <1>3, <1>5 DEF Pools
<1>7. IndexKept(q, B)
    BY <1>5, <1>6, IndexOnly
<1>8. FreeKept(q, B)
    <2>1. FreeKept(p, B)
        BY DEF PoolKept, B
    <2> QED BY <1>6, <2>1 DEF FreeKept
<1> QED BY <1>6, <1>7, <1>8 DEF PoolKept, B, q

\* A pool that is kept has what the pool promises between two calls.
THEOREM PoolPromises ==
    ASSUME NEW B, NEW p, PoolKept(p, B)
    PROVE  PoolType(p) /\ FreeExact(p) /\ IndexExact(p)
<1>1. /\ p \in Pools(B) /\ BlocksOf(p) = B /\ p.ref \in [B -> Nat]
      /\ p.hash \in [B -> Keys \cup {NoKey}] /\ p.extra \in [B -> SUBSET Keys]
      /\ p.index \in [Keys -> Seq(B)] /\ p.free \in Seq(B \ {Null})
    BY PoolFields DEF PoolKept, IndexKept
<1>2. PoolType(p)
    <2>1. p.free \in Seq(B)
        BY <1>1
    <2> QED BY <1>1, <2>1 DEF PoolType
<1>3. FreeExact(p)
    <2>1. Len(p.free) = Cardinality(Range(p.free))
        BY <1>1, InjectiveLen DEF PoolKept, FreeKept
    <2> QED BY <1>1, <2>1 DEF PoolKept, FreeKept, FreeExact
<1>4. IndexExact(p)
    <2>1. ASSUME NEW k \in Keys PROVE Len(p.index[k]) = Cardinality(Range(p.index[k]))
        <3>1. p.index[k] \in Seq(B) /\ IsInjective(p.index[k])
            BY <1>1 DEF PoolKept, IndexKept
        <3> QED BY <3>1, InjectiveLen
    <2> QED BY <1>1, <2>1 DEF PoolKept, IndexKept, IndexExact
<1> QED BY <1>2, <1>3, <1>4

-----------------------------------------------------------------------------
(* Numbers.                                                                *)

\* What division rounds down to, and up.
LEMMA DivFacts ==
    ASSUME NEW a \in Int, NEW b \in Nat \ {0}
    PROVE  /\ a \div b \in Int /\ b * (a \div b) <= a /\ a < b * (a \div b) + b
           /\ a >= 0 => a \div b >= 0
           /\ CDiv(a, b) \in Int /\ a <= b * CDiv(a, b)
<1>1. \A x \in Int : x \div b \in Int /\ b * (x \div b) <= x /\ x < b * (x \div b) + b
    OBVIOUS
<1>2. a >= 0 => a \div b >= 0
    OBVIOUS
<1> QED BY <1>1, <1>2 DEF CDiv

LEMMA TimesOrder ==
    ASSUME NEW a \in Int, NEW c \in Int, NEW b \in Nat \ {0}
    PROVE  /\ b * a <= b * c => a <= c
           /\ a <= c => b * a <= b * c
OBVIOUS

LEMMA TimesSum ==
    ASSUME NEW a \in Int, NEW c \in Int, NEW b \in Int
    PROVE  b * (a + c) = b * a + b * c /\ a * b = b * a
OBVIOUS

\* As many blocks as rounding up asks for hold the tokens.
LEMMA Covered ==
    ASSUME NEW a \in Int, NEW b \in Nat \ {0}, NEW l \in Nat, CDiv(a, b) <= l
    PROVE  a <= b * l
<1> DEFINE c == CDiv(a, b)
<1>1. c \in Int /\ a <= b * c
    BY DivFacts
<1> HIDE DEF c
<1>2. b * c <= b * l /\ b * c \in Int /\ b * l \in Int
    BY <1>1, TimesOrder DEF c
<1> QED BY <1>1, <1>2

\* The greatest of the numbers up to n that have a property which 0 has.
LEMMA GreatestUpto ==
    ASSUME NEW n \in Nat, NEW S \in SUBSET (0..n), 0 \in S
    PROVE  Max(S) \in S
<1>1. \E x \in S : \A y \in S : x >= y
    <2> DEFINE t == S \ {0}
    <2>1. CASE t = {}
        <3>1. 0 \in S /\ \A y \in S : 0 >= y
            BY <2>1
        <3> QED BY <3>1
    <2>2. CASE t # {}
        <3>1. t \in SUBSET (1..(n + 1))
            OBVIOUS
        <3>2. Max(t) \in t /\ \A y \in t : y <= Max(t)
            BY <2>2, <3>1, MaxFacts
        <3>3. Max(t) \in S /\ Max(t) \in Int /\ \A y \in S : y \in Int /\ y <= Max(t)
            <4>1. Max(t) \in 1..(n + 1)
                BY <3>1, <3>2
            <4> QED BY <3>2, <4>1
        <3> QED BY <3>3
    <2> QED BY <2>1, <2>2
<1> QED BY <1>1 DEF Max

LEMMA MaxZero ==
    ASSUME NEW c \in Int
    PROVE  /\ Max({0, c}) \in Nat /\ Max({0, c}) >= c
           /\ c >= 0 => Max({0, c}) = c
           /\ c < 0 => Max({0, c}) = 0
<1>1. \E x \in {0, c} : \A y \in {0, c} : x >= y
    OBVIOUS
<1> QED BY <1>1 DEF Max

LEMMA MaxOfTwo ==
    ASSUME NEW a \in Int, NEW b \in Int
    PROVE  /\ Max({a, b}) \in Int /\ Max({a, b}) >= a /\ Max({a, b}) >= b
           /\ Max({a, b}) = a \/ Max({a, b}) = b
<1>1. \E x \in {a, b} : \A y \in {a, b} : x >= y
    OBVIOUS
<1> QED BY <1>1 DEF Max

LEMMA MinOfTwo ==
    ASSUME NEW a \in Int, NEW b \in Int
    PROVE  /\ Min({a, b}) \in Int /\ Min({a, b}) <= a /\ Min({a, b}) <= b
           /\ Min({a, b}) = a \/ Min({a, b}) = b
<1>1. \E x \in {a, b} : \A y \in {a, b} : x <= y
    OBVIOUS
<1> QED BY <1>1 DEF Min

-----------------------------------------------------------------------------
(* The invariant.                                                          *)

AllBlocks == 0..(config.numBlocks - 1)
Usable == AllBlocks \ {Null}
Tables == [Requests -> Seq(Usable)]

\* Deferred frees: their blocks, and how often b is one of them.
Frees(B) == [fence : Int, blocks : Seq(B)]
BlocksIn(d) == [i \in DOMAIN d |-> d[i].blocks]
HeldOf(b, d) == Uses(b, BlocksIn(d), 1..Len(d))

\* A frame asks for no more than the request will have, its drafts included.
Framed(f) ==
    /\ f.req \in Range(running) /\ f.start = computed[f.req]
    /\ f.start \in Int /\ f.n \in Int /\ f.spec \in Nat /\ f.sample \in BOOLEAN
    /\ f.start + f.n <= BlockSize * Len(table[f.req])
    /\ f.start + f.n <= NumTokens(f.req) + holders[f.req] + (IF f.sample THEN f.spec ELSE 0)

\* The references are those of the tables and of the deferred frees.
Accounted ==
    \A b \in Usable : pool.ref[b] = Uses(b, table, Requests) + HeldOf(b, deferred)

PoolInv ==
    /\ PoolKept(pool, AllBlocks) /\ Accounted
    /\ table \in Tables /\ deferred \in Seq(Frees(Usable)) /\ cachedN \in [Requests -> Nat]

\* A request is in the list of its status, once.
ListInv ==
    /\ running \in Seq(Requests) /\ IsInjective(running)
    /\ waiting \in Seq(Requests) /\ IsInjective(waiting)
    /\ status \in [Requests -> {"new", "waiting", "running", "finished"}]
    /\ \A r \in Range(running) : status[r] = "running"
    /\ \A r \in Range(waiting) : status[r] = "waiting"

\* The tokens of a request that is not finished are in its table, and it has
\* or expects them.
CountInv ==
    /\ computed \in [Requests -> Int] /\ holders \in [Requests -> Nat]
    /\ DOMAIN outputs = Requests
    /\ \A r \in Requests : /\ outputs[r] \in Seq(Range(outputs[r]))
                           /\ Len(outputs[r]) <= MaxTokens[r]
    /\ \A r \in Requests : status[r] # "finished" =>
          /\ computed[r] <= BlockSize * Len(table[r])
          /\ computed[r] <= NumTokens(r) + holders[r]

\* The frames of the step being scheduled, of the steps in flight and of the
\* step whose results are processed.
BatchInv ==
    /\ batch \in Seq(Range(batch)) /\ idx \in Nat
    /\ \A f \in Range(batch) : Framed(f)
    /\ phase \notin {"running", "waiting"} => batch = <<>>
    /\ phase = "running" => idx > Len(batch)
FrameInv ==
    /\ queue \in Seq(Range(queue))
    /\ \A i \in DOMAIN queue :
          /\ queue[i] \in Seq(Range(queue[i]))
          /\ \A f \in Range(queue[i]) : f.req \in Requests /\ f.spec \in Nat
    /\ out \in Seq(Range(out))
    /\ \A f \in Range(out) : /\ f.req \in Requests /\ f.spec \in Nat /\ f.acc \in Nat
                             /\ f.acc <= f.spec

\* What a frame is cut from.
NumberInv == drafted \in [Requests -> Int] /\ budget \in Int

\* The request that blocks are still asked for after a preemption is running.
TurnInv == phase = "running" /\ turn # NoTurn => turn.req \in Range(running) /\ turn.n \in Int

IInv == /\ config \in Configs /\ PoolInv /\ ListInv /\ CountInv /\ BatchInv /\ FrameInv
        /\ NumberInv /\ TurnInv

-----------------------------------------------------------------------------
(* Caching the full blocks of a request.                                   *)

CacheAll(p, es) == FoldLeft(Cached, p, es)
Entries(B) == [key : Keys, block : B \ {Null}]


\* The steps of a fold of Cached.
LEMMA CachedSteps ==
    ASSUME NEW base, NEW S, NEW s \in Seq(S)
    PROVE  \E P : /\ P[0] = base /\ P[Len(s)] = CacheAll(base, s)
                  /\ \A i \in 1..Len(s) : P[i] = Cached(P[i - 1], s[i])
<1> DEFINE n == Len(s)
           G(g, m) == g = [t \in SUBSET (1..m) |->
                             IF t = {} THEN base ELSE Cached(g[t \ {Max(t)}], s[Max(t)])]
           Y == {m \in Nat : \E g : G(g, m)}
<1>1. Nat \subseteq Y
    <2>1. 0 \in Y
        <3>1. G([t \in SUBSET (1..0) |-> base], 0)
            OBVIOUS
        <3> QED BY <3>1
    <2>2. ASSUME NEW m \in Nat, m \in Y PROVE m + 1 \in Y
        <3>1. PICK g : G(g, m)
            BY <2>2
        <3> DEFINE h == [t \in SUBSET (1..(m + 1)) |->
                           IF t = {} THEN base ELSE Cached(g[t \ {Max(t)}], s[Max(t)])]
        <3>2. \A t \in SUBSET (1..m) : h[t] = g[t]
            BY <3>1, Upto
        <3>3. \A t \in SUBSET (1..(m + 1)) : t # {} => t \ {Max(t)} \in SUBSET (1..m)
            BY MaxFacts
        <3>4. G(h, m + 1)
            BY <3>2, <3>3
        <3> HIDE DEF G, h
        <3> QED BY <3>4
    <2> HIDE DEF Y
    <2> QED BY <2>1, <2>2, SetInduction
<1> DEFINE iter == CHOOSE g : G(g, n)
<1>2. n \in Nat /\ DOMAIN s = 1..n
    OBVIOUS
<1>3. G(iter, n)
    BY <1>1, <1>2
<1>4. CacheAll(base, s) = iter[1..n]
    BY <1>2 DEF CacheAll, FoldLeft, MapThenFoldSet
<1> HIDE DEF iter
<1> DEFINE P == [k \in 0..n |-> iter[1..k]]
<1>5. P[0] = base
    BY <1>2, <1>3
<1>6. ASSUME NEW i \in 1..n PROVE P[i] = Cached(P[i - 1], s[i])
    <2>1. iter[1..i] = Cached(iter[1..(i - 1)], s[i])
        <3>1. /\ Max(1..i) = i /\ 1..i # {} /\ 1..i \in SUBSET (1..n)
              /\ (1..i) \ {i} = 1..(i - 1)
            BY <1>2, PrefixSets
        <3> QED BY <1>3, <3>1
    <2> QED BY <1>2, <2>1
<1>7. P[n] = CacheAll(base, s)
    BY <1>2, <1>4
<1> HIDE DEF P
<1> QED BY <1>5, <1>6, <1>7

\* A block that is cached keeps its references, and the index stays exact.
LEMMA CachedKept ==
    ASSUME NEW B, NEW p, PoolKept(p, B), NEW e \in Entries(B)
    PROVE  PoolKept(Cached(p, e), B) /\ Cached(p, e).ref = p.ref
<1> DEFINE b == e.block
           k == e.key
           q == InsertHash(p, k, b)
<1>1. b \in B \ {Null} /\ k \in Keys /\ IndexKept(p, B)
    BY DEF PoolKept, Entries
<1>2. Cached(p, e) = q
    BY <1>1 DEF Cached, CacheFull
<1> HIDE DEF b, k
<1>3. IndexKept(q, B) /\ q.ref = p.ref /\ q.free = p.free
    BY <1>1, InsertKept
<1> HIDE DEF q
<1> QED BY <1>2, <1>3 DEF PoolKept, FreeKept

LEMMA CacheAllKept ==
    ASSUME NEW B, NEW p, PoolKept(p, B), NEW es \in Seq(Entries(B))
    PROVE  PoolKept(CacheAll(p, es), B) /\ CacheAll(p, es).ref = p.ref
<1> DEFINE n == Len(es)
<1>1. PICK P : /\ P[0] = p /\ P[n] = CacheAll(p, es)
               /\ \A i \in 1..n : P[i] = Cached(P[i - 1], es[i])
    <2>1. \E P : /\ P[0] = p /\ P[Len(es)] = CacheAll(p, es)
                 /\ \A i \in 1..Len(es) : P[i] = Cached(P[i - 1], es[i])
        BY CachedSteps
    <2> QED BY <2>1
<1>2. n \in Nat /\ \A i \in 1..n : es[i] \in Entries(B)
    OBVIOUS
<1> HIDE DEF n
<1> DEFINE Good(i) == i <= n => PoolKept(P[i], B) /\ P[i].ref = p.ref
           Y == {i \in Nat : Good(i)}
<1>3. Nat \subseteq Y
    <2>1. 0 \in Y
        BY <1>1
    <2>2. ASSUME NEW i \in Nat, i \in Y PROVE i + 1 \in Y
        <3> SUFFICES ASSUME i + 1 <= n PROVE Good(i + 1)
            OBVIOUS
        <3>1. i + 1 \in 1..n /\ (i + 1) - 1 = i /\ i <= n
            <4>1. n \in Nat
                BY <1>2
            <4> QED BY <4>1
        <3> DEFINE was == P[i]
                   e == es[i + 1]
        <3>2. PoolKept(was, B) /\ was.ref = p.ref
            BY <2>2, <3>1
        <3>3. P[i + 1] = Cached(was, e) /\ e \in Entries(B)
            BY <1>1, <1>2, <3>1
        <3> HIDE DEF was, e
        <3>4. PoolKept(Cached(was, e), B) /\ Cached(was, e).ref = was.ref
            BY <3>2, <3>3, CachedKept
        <3> QED BY <3>2, <3>3, <3>4
    <2> HIDE DEF Y
    <2> QED BY <2>1, <2>2, SetInduction
<1>4. Good(n)
    BY <1>2, <1>3
<1> QED BY <1>1, <1>4 DEF n

LEMMA TextKnown ==
    ASSUME NEW r \in Requests
    PROVE  /\ Groups = {0} /\ BlockSize \in Nat \ {0} /\ Len(Text[r]) \in Nat
           /\ \A j \in 1..(Len(Text[r]) \div BlockSize) :
                 SubSeq(Text[r], 1, j * BlockSize) \in AllPrefixes
<1>1. /\ BlockSize = HashSize /\ Groups = {0} /\ Text[r] \in Seq(Range(Text[r]))
      /\ \A j \in 1..(Len(Text[r]) \div BlockSize) :
            SubSeq(Text[r], 1, j * BlockSize) \in AllPrefixes
    BY SchedAssumption
<1>2. BlockSize \in Nat \ {0}
    BY <1>1, PoolAssumption
<1>3. Len(Text[r]) \in Nat
    BY <1>1
<1> QED BY <1>1, <1>2, <1>3

\* The key of a whole number of blocks of a text.
LEMMA KeyKnown ==
    ASSUME NEW r \in Requests, NEW i \in Nat \ {0}, i * BlockSize <= Len(Text[r])
    PROVE  Key(r, i * BlockSize) \in Keys
<1>1. /\ Groups = {0} /\ BlockSize \in Nat \ {0} /\ Len(Text[r]) \in Nat
      /\ \A j \in 1..(Len(Text[r]) \div BlockSize) : SubSeq(Text[r], 1, j * BlockSize) \in AllPrefixes
    BY TextKnown
<1>2. i <= Len(Text[r]) \div BlockSize
    <2> DEFINE l == Len(Text[r])
               d == l \div BlockSize
    <2>1. d \in Int /\ l < BlockSize * d + BlockSize /\ i * BlockSize = BlockSize * i
        <3>1. l \in Int /\ BlockSize \in Nat \ {0} /\ i \in Int
            BY <1>1
        <3> HIDE DEF l
        <3>2. d \in Int /\ l < BlockSize * d + BlockSize
            BY <3>1, DivFacts
        <3>3. i * BlockSize = BlockSize * i
            BY <3>1
        <3> QED BY <3>2, <3>3
    <2> HIDE DEF d, l
    <2>2. l \in Nat /\ BlockSize * i <= l
        BY <1>1, <2>1 DEF l
    <2>3. BlockSize * (d + 1) = BlockSize * d + BlockSize
        BY <1>1, <2>1
    <2>4. BlockSize * i < BlockSize * (d + 1)
        <3>1. BlockSize * i \in Int /\ BlockSize * d \in Int
            BY <1>1, <2>1
        <3> QED BY <1>1, <2>1, <2>2, <2>3, <3>1
    <2>5. i < d + 1
        <3>1. \A x, y \in Int, z \in Nat \ {0} : z * x < z * y => x < y
            OBVIOUS
        <3>2. d + 1 \in Int
            BY <2>1
        <3> QED BY <1>1, <2>4, <3>1, <3>2
    <2> QED BY <2>1, <2>5 DEF d, l
<1>3. i \in 1..(Len(Text[r]) \div BlockSize)
    <2>1. Len(Text[r]) \div BlockSize \in Int
        BY <1>1, DivFacts
    <2> QED BY <1>2, <2>1
<1> QED BY <1>1, <1>3 DEF Key, Keys

\* cache_blocks leaves the references alone, as long as the blocks it is given
\* hold the tokens and the text goes as far.
LEMMA CacheBlocksKept ==
    ASSUME NEW B, NEW p, PoolKept(p, B), NEW r \in Requests, NEW bs \in Seq(B \ {Null}),
           NEW from \in Nat, NEW total \in Int, total <= Len(Text[r]),
           total <= BlockSize * Len(bs)
    PROVE  /\ PoolKept(CacheBlocks(p, r, bs, from, total), B)
           /\ CacheBlocks(p, r, bs, from, total).ref = p.ref
<1> DEFINE d == total \div BlockSize
           m == Max({0, d - from})
           e(i) == [key |-> Key(r, (from + i) * BlockSize), block |-> bs[from + i]]
           es == [i \in 1..m |-> e(i)]
<1>1. BlockSize \in Nat \ {0} /\ Len(Text[r]) \in Nat /\ Len(bs) \in Nat
    BY TextKnown
<1>2. d \in Int /\ BlockSize * d <= total
    BY <1>1, DivFacts
<1> HIDE DEF d
<1>3. m \in Nat /\ m \in {0, d - from}
    <2> DEFINE c == d - from
    <2>1. c \in Int
        BY <1>2
    <2> HIDE DEF c
    <2>2. /\ Max({0, c}) \in Nat
          /\ c >= 0 => Max({0, c}) = c
          /\ c < 0 => Max({0, c}) = 0
        BY <2>1, MaxZero
    <2>3. m = Max({0, c})
        BY DEF c
    <2> HIDE DEF m
    <2>4. m \in Nat /\ m \in {0, c}
        BY <2>1, <2>2, <2>3
    <2> QED BY <2>4 DEF c
<1> HIDE DEF m
<1>4. ASSUME NEW i \in 1..m PROVE e(i) \in Entries(B)
    <2> DEFINE j == from + i
    <2>1. j \in Nat \ {0} /\ j <= d
        <3>1. m = d - from
            BY <1>3
        <3> QED BY <1>2, <1>3, <3>1
    <2> HIDE DEF j
    <2>2. j * BlockSize = BlockSize * j /\ BlockSize * j \in Int
        BY <1>1, <2>1
    <2>3. BlockSize * j <= BlockSize * d /\ BlockSize * d \in Int
        BY <1>1, <1>2, <2>1, TimesOrder
    <2>4. BlockSize * j <= Len(Text[r])
        BY <1>1, <1>2, <2>2, <2>3
    <2>5. Key(r, j * BlockSize) \in Keys
        BY <2>1, <2>2, <2>4, KeyKnown
    <2>6. BlockSize * j <= BlockSize * Len(bs)
        <3>1. BlockSize * Len(bs) \in Int
            BY <1>1
        <3> QED BY <1>2, <2>2, <2>3, <3>1
    <2>7. j <= Len(bs)
        BY <1>1, <2>1, <2>6, TimesOrder
    <2>8. bs[j] \in B \ {Null}
        BY <2>1, <2>7
    <2> QED BY <2>5, <2>8 DEF j, Entries
<1>5. es \in Seq(Entries(B))
    <2> DEFINE S == Entries(B)
    <2>1. \A i \in 1..m : e(i) \in S
        BY <1>4
    <2> HIDE DEF S, e
    <2>2. es \in Seq(S)
        BY <1>3, <2>1
    <2> QED BY <2>2 DEF S
<1>6. CacheBlocks(p, r, bs, from, total) = CacheAll(p, es)
    BY DEF CacheBlocks, CacheAll, d, m
<1> HIDE DEF es
<1> QED BY <1>5, <1>6, CacheAllKept

-----------------------------------------------------------------------------
(* The lists of requests.                                                  *)

\* What is left of a sequence is shorter when a member is left out.
LEMMA FilterLen ==
    ASSUME NEW T, NEW s \in Seq(T), NEW S
    PROVE  /\ Len(Filter(s, S)) \in Nat /\ Len(Filter(s, S)) <= Len(s)
           /\ (\E x \in Range(s) : x \notin S) => Len(Filter(s, S)) < Len(s)
<1> DEFINE n == Len(s)
<1>1. PICK kept : /\ kept[0] = <<>> /\ kept[n] = Filter(s, S)
                  /\ \A i \in 1..n : kept[i] = IF s[i] \in S THEN Append(kept[i - 1], s[i])
                                                             ELSE kept[i - 1]
    <2>1. \E kept : /\ kept[0] = <<>> /\ kept[Len(s)] = Filter(s, S)
                    /\ \A i \in 1..Len(s) :
                          kept[i] = IF s[i] \in S THEN Append(kept[i - 1], s[i])
                                                  ELSE kept[i - 1]
        BY FilterSteps
    <2> QED BY <2>1
<1>2. n \in Nat /\ DOMAIN s = 1..n /\ \A i \in 1..n : s[i] \in T
    OBVIOUS
<1> HIDE DEF n
<1> DEFINE Good(i) == i <= n => /\ kept[i] \in Seq(T) /\ Len(kept[i]) <= i
                                /\ (\E j \in 1..i : s[j] \notin S) => Len(kept[i]) < i
           Y == {i \in Nat : Good(i)}
<1>3. Nat \subseteq Y
    <2>1. 0 \in Y
        <3>1. kept[0] \in Seq(T) /\ Len(kept[0]) = 0 /\ 1..0 = {}
            BY <1>1
        <3> QED BY <3>1
    <2>2. ASSUME NEW i \in Nat, i \in Y PROVE i + 1 \in Y
        <3> SUFFICES ASSUME i + 1 <= n PROVE Good(i + 1)
            OBVIOUS
        <3>1. i + 1 \in 1..n /\ (i + 1) - 1 = i /\ i <= n
            BY <1>2
        <3> DEFINE was == kept[i]
                   now == kept[i + 1]
        <3>2. /\ was \in Seq(T) /\ Len(was) <= i /\ Len(was) \in Nat
              /\ (\E j \in 1..i : s[j] \notin S) => Len(was) < i
            BY <2>2, <3>1
        <3>3. /\ s[i + 1] \in S => now = Append(was, s[i + 1])
              /\ s[i + 1] \notin S => now = was
              /\ s[i + 1] \in T
            BY <1>1, <1>2, <3>1
        <3> HIDE DEF was, now
        <3>4. CASE s[i + 1] \in S
            <4>1. now \in Seq(T) /\ Len(now) = Len(was) + 1
                BY <3>2, <3>3, <3>4
            <4>2. (\E j \in 1..(i + 1) : s[j] \notin S) => \E j \in 1..i : s[j] \notin S
                BY <3>4
            <4> QED BY <3>2, <4>1, <4>2 DEF now
        <3>5. CASE s[i + 1] \notin S
            BY <3>2, <3>3, <3>5 DEF now
        <3> QED BY <3>4, <3>5
    <2> HIDE DEF Y
    <2> QED BY <2>1, <2>2, SetInduction
<1>4. Good(n)
    BY <1>2, <1>3
<1>5. (\E x \in Range(s) : x \notin S) => \E j \in 1..n : s[j] \notin S
    BY <1>2 DEF Range
<1>6. Filter(s, S) \in Seq(T)
    BY <1>1, <1>2, <1>4
<1> QED BY <1>1, <1>2, <1>4, <1>5, <1>6 DEF n

\* A request joins the waiting queue in front, or in its place of the heap.
LEMMA PrependedKept ==
    ASSUME NEW w \in Seq(Requests), IsInjective(w), NEW r \in Requests, r \notin Range(w)
    PROVE  /\ Prepended(w, r) \in Seq(Requests) /\ IsInjective(Prepended(w, r))
           /\ Range(Prepended(w, r)) = Range(w) \cup {r}
<1> DEFINE one == <<r>>
<1>1. one \in Seq(Requests) /\ IsInjective(one) /\ Range(one) = {r}
    BY DEF IsInjective, Range
<1> HIDE DEF one
<1>2. CASE ByPriority
    <2> DEFINE sooner == {q \in Range(w) : Less(q, r)}
               first == Filter(w, sooner)
               last == Filter(w, Range(w) \ sooner)
               start == first \o one
    <2>1. Prepended(w, r) = start \o last
        BY <1>2 DEF Prepended, one
    <2> HIDE DEF sooner
    <2>2. sooner \subseteq Range(w)
        BY DEF sooner
    <2>3. /\ first \in Seq(Requests) /\ IsInjective(first) /\ Range(first) = Range(w) \cap sooner
          /\ last \in Seq(Requests) /\ IsInjective(last)
          /\ Range(last) = Range(w) \cap (Range(w) \ sooner)
        BY FilterFacts
    <2> HIDE DEF first, last
    <2>4. Range(first) \cap Range(one) = {}
        BY <1>1, <2>3
    <2>5. start \in Seq(Requests) /\ IsInjective(start) /\ Range(start) = Range(first) \cup Range(one)
        BY <1>1, <2>3, <2>4, InjectiveConcat
    <2> HIDE DEF start
    <2>6. Range(start) \cap Range(last) = {}
        BY <1>1, <2>3, <2>5
    <2>7. /\ start \o last \in Seq(Requests) /\ IsInjective(start \o last)
          /\ Range(start \o last) = Range(start) \cup Range(last)
        BY <2>3, <2>5, <2>6, InjectiveConcat
    <2>8. Range(start) \cup Range(last) = Range(w) \cup {r}
        BY <1>1, <2>2, <2>3, <2>5
    <2> QED BY <2>1, <2>7, <2>8
<1>3. CASE ~ByPriority
    <2>1. Prepended(w, r) = one \o w
        BY <1>3 DEF Prepended, one
    <2>2. Range(one) \cap Range(w) = {}
        BY <1>1
    <2> QED BY <1>1, <2>1, <2>2, InjectiveConcat
<1> QED BY <1>2, <1>3

PrependAll(w, rs) == FoldLeft(Prepended, w, rs)


\* The steps of a fold of Prepended.
LEMMA PrependedSteps ==
    ASSUME NEW base, NEW S, NEW s \in Seq(S)
    PROVE  \E P : /\ P[0] = base /\ P[Len(s)] = PrependAll(base, s)
                  /\ \A i \in 1..Len(s) : P[i] = Prepended(P[i - 1], s[i])
<1> DEFINE n == Len(s)
           G(g, m) == g = [t \in SUBSET (1..m) |->
                             IF t = {} THEN base ELSE Prepended(g[t \ {Max(t)}], s[Max(t)])]
           Y == {m \in Nat : \E g : G(g, m)}
<1>1. Nat \subseteq Y
    <2>1. 0 \in Y
        <3>1. G([t \in SUBSET (1..0) |-> base], 0)
            OBVIOUS
        <3> QED BY <3>1
    <2>2. ASSUME NEW m \in Nat, m \in Y PROVE m + 1 \in Y
        <3>1. PICK g : G(g, m)
            BY <2>2
        <3> DEFINE h == [t \in SUBSET (1..(m + 1)) |->
                           IF t = {} THEN base ELSE Prepended(g[t \ {Max(t)}], s[Max(t)])]
        <3>2. \A t \in SUBSET (1..m) : h[t] = g[t]
            BY <3>1, Upto
        <3>3. \A t \in SUBSET (1..(m + 1)) : t # {} => t \ {Max(t)} \in SUBSET (1..m)
            BY MaxFacts
        <3>4. G(h, m + 1)
            BY <3>2, <3>3
        <3> HIDE DEF G, h
        <3> QED BY <3>4
    <2> HIDE DEF Y
    <2> QED BY <2>1, <2>2, SetInduction
<1> DEFINE iter == CHOOSE g : G(g, n)
<1>2. n \in Nat /\ DOMAIN s = 1..n
    OBVIOUS
<1>3. G(iter, n)
    BY <1>1, <1>2
<1>4. PrependAll(base, s) = iter[1..n]
    BY <1>2 DEF PrependAll, FoldLeft, MapThenFoldSet
<1> HIDE DEF iter
<1> DEFINE P == [k \in 0..n |-> iter[1..k]]
<1>5. P[0] = base
    BY <1>2, <1>3
<1>6. ASSUME NEW i \in 1..n PROVE P[i] = Prepended(P[i - 1], s[i])
    <2>1. iter[1..i] = Prepended(iter[1..(i - 1)], s[i])
        <3>1. /\ Max(1..i) = i /\ 1..i # {} /\ 1..i \in SUBSET (1..n)
              /\ (1..i) \ {i} = 1..(i - 1)
            BY <1>2, PrefixSets
        <3> QED BY <1>3, <3>1
    <2> QED BY <1>2, <2>1
<1>7. P[n] = PrependAll(base, s)
    BY <1>2, <1>4
<1> HIDE DEF P
<1> QED BY <1>5, <1>6, <1>7

\* Requests that are put back into the waiting queue are in it, once each.
LEMMA PrependAllKept ==
    ASSUME NEW w \in Seq(Requests), IsInjective(w), NEW rs \in Seq(Requests), IsInjective(rs),
           Range(w) \cap Range(rs) = {}
    PROVE  /\ PrependAll(w, rs) \in Seq(Requests) /\ IsInjective(PrependAll(w, rs))
           /\ Range(PrependAll(w, rs)) = Range(w) \cup Range(rs)
<1> DEFINE n == Len(rs)
<1>1. PICK P : /\ P[0] = w /\ P[n] = PrependAll(w, rs)
               /\ \A i \in 1..n : P[i] = Prepended(P[i - 1], rs[i])
    <2>1. \E P : /\ P[0] = w /\ P[Len(rs)] = PrependAll(w, rs)
                 /\ \A i \in 1..Len(rs) : P[i] = Prepended(P[i - 1], rs[i])
        BY PrependedSteps
    <2> QED BY <2>1
<1>2. n \in Nat /\ DOMAIN rs = 1..n /\ \A i \in 1..n : rs[i] \in Requests
    OBVIOUS
<1> HIDE DEF n
<1> DEFINE Put(i) == {rs[j] : j \in 1..i}
           Good(i) == i <= n => /\ P[i] \in Seq(Requests) /\ IsInjective(P[i])
                                /\ Range(P[i]) = Range(w) \cup Put(i)
           Y == {i \in Nat : Good(i)}
<1>3. Nat \subseteq Y
    <2>1. 0 \in Y
        <3>1. Put(0) = {}
            OBVIOUS
        <3> QED BY <1>1, <3>1
    <2>2. ASSUME NEW i \in Nat, i \in Y PROVE i + 1 \in Y
        <3> SUFFICES ASSUME i + 1 <= n PROVE Good(i + 1)
            OBVIOUS
        <3>1. i + 1 \in 1..n /\ (i + 1) - 1 = i /\ i <= n
            <4>1. n \in Nat
                BY <1>2
            <4> QED BY <4>1
        <3> DEFINE was == P[i]
                   r == rs[i + 1]
        <3>2. /\ was \in Seq(Requests) /\ IsInjective(was) /\ Range(was) = Range(w) \cup Put(i)
            BY <2>2, <3>1
        <3>3. P[i + 1] = Prepended(was, r) /\ r \in Requests /\ r \in Range(rs)
            BY <1>1, <1>2, <3>1 DEF Range
        <3>4. r \notin Put(i)
            <4>1. \A j \in 1..i : j \in DOMAIN rs /\ i + 1 \in DOMAIN rs /\ j # i + 1
                BY <1>2, <3>1
            <4> QED BY <4>1 DEF IsInjective
        <3>5. Put(i + 1) = Put(i) \cup {r}
            <4>1. 1..(i + 1) = (1..i) \cup {i + 1}
                OBVIOUS
            <4> QED BY <4>1
        <3> HIDE DEF was, r, Put
        <3>6. r \notin Range(was)
            BY <3>2, <3>3, <3>4
        <3>7. /\ Prepended(was, r) \in Seq(Requests) /\ IsInjective(Prepended(was, r))
              /\ Range(Prepended(was, r)) = Range(was) \cup {r}
            BY <3>2, <3>3, <3>6, PrependedKept
        <3>8. Range(P[i + 1]) = Range(w) \cup Put(i + 1)
            BY <3>2, <3>3, <3>5, <3>7
        <3> QED BY <3>3, <3>7, <3>8
    <2> HIDE DEF Y
    <2> QED BY <2>1, <2>2, SetInduction
<1>4. Good(n)
    BY <1>2, <1>3
<1>5. Put(n) = Range(rs)
    BY <1>2 DEF Range
<1> QED BY <1>1, <1>2, <1>4, <1>5

LEMMA ConfigKnown ==
    ASSUME config \in Configs
    PROVE  /\ config.numBlocks \in Nat \ {0} /\ Budget \in Nat \ {0} /\ LongPrefill \in Nat
           /\ Drafts \in Nat
           /\ \A r \in Requests :
                 /\ Prompt[r] \in Nat \ {0} /\ MaxTokens[r] \in Nat \ {0} /\ Priority[r] \in Int
                 /\ Prompt[r] + MaxTokens[r] <= Len(Text[r])
<1>1. /\ config.numBlocks \in Nat \ {0} /\ Budget \in Nat \ {0} /\ LongPrefill \in Nat
      /\ Drafts \in Nat
    BY SchedAssumption DEF Budget, LongPrefill, Drafts
<1>2. ASSUME NEW r \in Requests
      PROVE  /\ Prompt[r] \in Nat \ {0} /\ MaxTokens[r] \in Nat \ {0} /\ Priority[r] \in Int
             /\ Len(Text[r]) >= Prompt[r] + MaxTokens[r] + Drafts
    BY SchedAssumption DEF Prompt, MaxTokens, Priority, Drafts
<1>3. \A r \in Requests : Len(Text[r]) \in Nat
    BY TextKnown
<1> QED BY <1>1, <1>2, <1>3

\* The request that gives way is a running one.
LEMMA VictimRuns ==
    ASSUME config \in Configs, running \in Seq(Requests), running # <<>>
    PROVE  Victim \in Range(running)
<1> DEFINE n == Len(running)
           Initial(i) == {running[j] : j \in 1..i}
           Least(v, S) == \A q \in S : q = v \/ Less(q, v)
<1>1. n \in Nat \ {0} /\ DOMAIN running = 1..n /\ \A i \in 1..n : running[i] \in Requests
    OBVIOUS
<1>2. \A r \in Requests : r \in Int /\ Priority[r] \in Int
    <2>1. Requests \subseteq Int
        <3>1. IsFiniteSet(Requests) /\ Requests = 1..Cardinality(Requests)
            BY SchedAssumption
        <3>2. Cardinality(Requests) \in Nat
            BY <3>1, FS_CardinalityType
        <3> DEFINE c == Cardinality(Requests)
        <3>3. Requests = 1..c /\ c \in Nat
            BY <3>1, <3>2
        <3> HIDE DEF c
        <3> QED BY <3>3
    <2> QED BY <2>1, ConfigKnown
<1> HIDE DEF n
<1> DEFINE Good(i) == i + 1 <= n => \E v \in Initial(i + 1) : Least(v, Initial(i + 1))
           Y == {i \in Nat : Good(i)}
<1>3. Nat \subseteq Y
    <2>1. 0 \in Y
        <3>1. Initial(1) = {running[1]}
            OBVIOUS
        <3> QED BY <3>1
    <2>2. ASSUME NEW i \in Nat, i \in Y PROVE i + 1 \in Y
        <3> SUFFICES ASSUME (i + 1) + 1 <= n PROVE Good(i + 1)
            OBVIOUS
        <3> DEFINE S == Initial(i + 1)
                   r == running[(i + 1) + 1]
        <3>1. n \in Nat
            BY <1>1
        <3>2. i + 1 <= n /\ (i + 1) + 1 \in 1..n /\ 1..((i + 1) + 1) = 1..(i + 1) \cup {(i + 1) + 1}
            BY <3>1
        <3>3. Initial((i + 1) + 1) = S \cup {r}
            BY <3>2
        <3>4. \E v \in S : Least(v, S)
            BY <2>2, <3>2
        <3>5. S \subseteq Requests /\ r \in Requests
            BY <1>1, <3>1, <3>2
        <3> HIDE DEF S, r
        <3>6. PICK v \in S : \A q \in S : q = v \/ Less(q, v)
            BY <3>4
        <3>7. CASE r = v \/ Less(r, v)
            BY <3>3, <3>6, <3>7
        <3>8. CASE ~(r = v \/ Less(r, v))
            <4>1. Less(v, r)
                BY <1>2, <3>5, <3>6, <3>8 DEF Less
            <4>2. \A q \in S : Less(q, r)
                <5> TAKE q \in S
                <5>1. q = v \/ Less(q, v)
                    BY <3>6
                <5>2. /\ q \in Int /\ v \in Int /\ r \in Int
                      /\ Priority[q] \in Int /\ Priority[v] \in Int /\ Priority[r] \in Int
                    BY <1>2, <3>5
                <5> QED BY <4>1, <5>1, <5>2 DEF Less
            <4> QED BY <3>3, <4>2
        <3> QED BY <3>7, <3>8
    <2> HIDE DEF Y
    <2> QED BY <2>1, <2>2, SetInduction
<1>4. Initial(n) = Range(running)
    BY <1>1 DEF Range
<1>5. \E v \in Range(running) : \A q \in Range(running) : q = v \/ Less(q, v)
    <2>1. n - 1 \in Nat /\ (n - 1) + 1 = n
        BY <1>1
    <2>2. Good(n - 1)
        BY <1>3, <2>1
    <2>3. Initial((n - 1) + 1) = Range(running) /\ (n - 1) + 1 <= n
        BY <1>1, <1>4, <2>1
    <2> HIDE DEF Initial
    <2> QED BY <2>2, <2>3
<1>6. CASE ByPriority
    BY <1>5, <1>6 DEF Victim
<1>7. CASE ~ByPriority
    <2>1. Victim = running[n]
        BY <1>7 DEF Victim, Last, n
    <2> QED BY <1>1, <2>1 DEF Range
<1> QED BY <1>6, <1>7

-----------------------------------------------------------------------------
(* Taking blocks and giving them back.                                     *)

LEMMA RequestsFinite == IsFiniteSet(Requests)
BY SchedAssumption

\* The hits of a request are blocks of the pool, of tokens it has.
LEMMA HitsKept ==
    ASSUME config \in Configs, NEW B, NEW p, PoolKept(p, B), NEW r \in Requests,
           outputs[r] \in Seq(Range(outputs[r])), Len(outputs[r]) <= MaxTokens[r]
    PROVE  /\ Hits(p, r) \in Seq(B \ {Null})
           /\ BlockSize * Len(Hits(p, r)) <= NumTokens(r)
<1> DEFINE most == (NumTokens(r) - 1) \div BlockSize
           hit(i) == GetOne(p, Key(r, i * BlockSize))
           S == {m \in 0..most : \A i \in 1..m : hit(i) # NoBlock}
           n == Max(S)
<1>1. /\ BlockSize \in Nat \ {0} /\ Len(Text[r]) \in Nat
      /\ NumTokens(r) \in Nat \ {0} /\ NumTokens(r) <= Len(Text[r])
    <2>1. /\ Prompt[r] \in Nat \ {0} /\ MaxTokens[r] \in Nat \ {0}
          /\ Prompt[r] + MaxTokens[r] <= Len(Text[r]) /\ Len(Text[r]) \in Nat
          /\ BlockSize \in Nat \ {0}
        BY ConfigKnown, TextKnown
    <2>2. Len(outputs[r]) \in Nat
        OBVIOUS
    <2> QED BY <2>1, <2>2 DEF NumTokens
<1>2. most \in Nat /\ BlockSize * most <= NumTokens(r)
    <2> DEFINE t == NumTokens(r) - 1
    <2>1. t \in Int /\ t >= 0 /\ t <= NumTokens(r)
        BY <1>1
    <2> HIDE DEF t
    <2>2. t \div BlockSize \in Int /\ BlockSize * (t \div BlockSize) <= t /\ t \div BlockSize >= 0
        <3>1. BlockSize \in Nat \ {0}
            BY <1>1
        <3> QED BY <2>1, <3>1, DivFacts
    <2>3. BlockSize * (t \div BlockSize) \in Int
        BY <1>1, <2>2
    <2>4. BlockSize * (t \div BlockSize) <= NumTokens(r)
        BY <1>1, <2>1, <2>2, <2>3
    <2> QED BY <2>2, <2>4 DEF t
<1> HIDE DEF most
<1>3. n \in S
    <2>1. 0 \in S /\ S \in SUBSET (0..most)
        BY <1>2
    <2> HIDE DEF S
    <2> QED BY <1>2, <2>1, GreatestUpto
<1>4. n \in Nat /\ n <= most /\ \A i \in 1..n : hit(i) # NoBlock
    BY <1>2, <1>3
<1> HIDE DEF n
<1>5. ASSUME NEW i \in 1..n PROVE hit(i) \in B \ {Null}
    <2> DEFINE k == Key(r, i * BlockSize)
    <2>1. k \in Keys
        <3>1. i \in Nat \ {0} /\ i <= most
            BY <1>2, <1>4
        <3>2. i * BlockSize = BlockSize * i /\ BlockSize * i \in Int
            BY <1>1, <3>1
        <3>3. BlockSize * i <= BlockSize * most /\ BlockSize * most \in Int
            BY <1>1, <1>2, <3>1, TimesOrder
        <3>4. i * BlockSize <= Len(Text[r])
            BY <1>1, <1>2, <3>2, <3>3
        <3> QED BY <3>1, <3>4, KeyKnown
    <2> HIDE DEF k
    <2>2. GetOne(p, k) # NoBlock
        BY <1>4 DEF k
    <2>3. p.index[k] # <<>> /\ GetOne(p, k) = p.index[k][1]
        BY <2>2 DEF GetOne
    <2>4. /\ p.index[k] \in Seq(B) /\ Range(p.index[k]) = {b \in B : k \in KeysOf(p, b)}
          /\ KeysOf(p, Null) = {}
        <3>1. p \in Pools(B)
            BY DEF PoolKept, IndexKept
        <3>2. p.index \in [Keys -> Seq(B)]
            BY <3>1, PoolFields
        <3> QED BY <2>1, <3>2 DEF PoolKept, IndexKept
    <2>5. p.index[k][1] \in Range(p.index[k])
        BY <2>3, <2>4 DEF Range
    <2>6. GetOne(p, k) \in B \ {Null}
        BY <2>3, <2>4, <2>5
    <2> QED BY <2>6 DEF k
<1>6. Hits(p, r) = [i \in 1..n |-> hit(i)]
    BY DEF Hits, n, most
<1>7. Hits(p, r) \in Seq(B \ {Null}) /\ Len(Hits(p, r)) = n
    <2> DEFINE R == B \ {Null}
    <2>1. \A i \in 1..n : hit(i) \in R
        BY <1>5
    <2> HIDE DEF R, hit
    <2>2. [i \in 1..n |-> hit(i)] \in Seq(R) /\ Len([i \in 1..n |-> hit(i)]) = n
        BY <1>4, <2>1
    <2> QED BY <1>6, <2>2 DEF R
<1>8. BlockSize * n <= BlockSize * most /\ BlockSize * n \in Int /\ BlockSize * most \in Int
    BY <1>1, <1>2, <1>4, TimesOrder
<1> QED BY <1>1, <1>2, <1>7, <1>8

\* What the parts of the invariant say of the pool and of the requests.
LEMMA PoolFacts ==
    ASSUME config \in Configs, PoolInv
    PROVE  /\ pool.ref \in [AllBlocks -> Nat] /\ pool.free \in Seq(Usable)
           /\ BlocksOf(pool) = AllBlocks /\ Null \in AllBlocks
           /\ config.numBlocks \in Nat \ {0} /\ BlockSize \in Nat \ {0}
           /\ \A r \in Requests : table[r] \in Seq(Usable) /\ cachedN[r] \in Nat
<1>1. pool \in Pools(AllBlocks) /\ Null \in AllBlocks
    BY DEF PoolInv, PoolKept, IndexKept
<1>2. pool.ref \in [AllBlocks -> Nat] /\ pool.free \in Seq(Usable) /\ BlocksOf(pool) = AllBlocks
    BY <1>1, PoolFields DEF Usable
<1>3. config.numBlocks \in Nat \ {0}
    BY ConfigKnown
<1>4. BlockSize \in Nat \ {0}
    BY SchedAssumption, PoolAssumption
<1>5. \A r \in Requests : table[r] \in Seq(Usable) /\ cachedN[r] \in Nat
    BY DEF PoolInv, Tables
<1> QED BY <1>1, <1>2, <1>3, <1>4, <1>5

LEMMA TokensKnown ==
    ASSUME config \in Configs, CountInv, NEW r \in Requests
    PROVE  /\ NumTokens(r) \in Nat \ {0} /\ NumTokens(r) <= Len(Text[r])
           /\ Len(outputs[r]) \in Nat /\ Len(Text[r]) \in Nat
           /\ computed[r] \in Int /\ holders[r] \in Nat
<1>1. /\ Prompt[r] \in Nat \ {0} /\ MaxTokens[r] \in Nat \ {0}
      /\ Prompt[r] + MaxTokens[r] <= Len(Text[r]) /\ Len(Text[r]) \in Nat
    BY ConfigKnown, TextKnown
<1>2. outputs[r] \in Seq(Range(outputs[r])) /\ Len(outputs[r]) <= MaxTokens[r]
    BY DEF CountInv
<1>3. Len(outputs[r]) \in Nat
    BY <1>2
<1>4. computed[r] \in Int /\ holders[r] \in Nat
    BY DEF CountInv
<1> QED BY <1>1, <1>2, <1>3, <1>4 DEF NumTokens

\* The references of the tables move with the table that changes.
LEMMA TableChanged ==
    ASSUME config \in Configs, PoolInv, NEW r \in Requests, NEW bs \in Seq(Usable), NEW b
    PROVE  /\ Uses(b, [table EXCEPT ![r] = bs], Requests)
                = Uses(b, table, Requests) - Count(b, table[r]) + Count(b, bs)
           /\ Uses(b, table, Requests) \in Nat /\ Count(b, table[r]) <= Uses(b, table, Requests)
           /\ Count(b, table[r]) \in Nat /\ Count(b, bs) \in Nat
<1>1. table \in [Requests -> Seq(Usable)] /\ IsFiniteSet(Requests)
    BY RequestsFinite DEF PoolInv, Tables
<1>2. Count(b, table[r]) \in Nat /\ Count(b, bs) \in Nat
    <2>1. table[r] \in Seq(Usable)
        BY <1>1
    <2> QED BY <2>1, CountFacts
<1>3. Uses(b, [table EXCEPT ![r] = bs], Requests)
        = Uses(b, table, Requests) - Count(b, table[r]) + Count(b, bs)
    <2> DEFINE after == [table EXCEPT ![r] = bs]
    <2>1. AgreeBut(table, after, Requests, r, Usable) /\ after[r] = bs
        BY <1>1 DEF AgreeBut
    <2> HIDE DEF after
    <2>2. \E rest \in Nat : /\ Uses(b, table, Requests) = rest + Count(b, table[r])
                            /\ Uses(b, after, Requests) = rest + Count(b, after[r])
        BY <1>1, <2>1, UsesChanged
    <2> QED BY <1>2, <2>1, <2>2 DEF after
<1>4. Uses(b, table, Requests) \in Nat /\ Uses(b, table, {r}) <= Uses(b, table, Requests)
    <2>1. {r} \in SUBSET Requests /\ Requests \in SUBSET Requests
          /\ \A q \in Requests : table[q] \in Seq(Usable)
        BY <1>1
    <2> QED BY <1>1, <2>1, UsesPart
<1>5. Uses(b, table, {r}) = Count(b, table[r])
    <2>1. table[r] \in Seq(Usable)
        BY <1>1
    <2> QED BY <2>1, UsesOne
<1> QED BY <1>2, <1>3, <1>4, <1>5

\* The deferred frees hold each block a number of times.
LEMMA HeldFacts ==
    ASSUME NEW B, NEW d \in Seq(Frees(B)), NEW b
    PROVE  /\ HeldOf(b, d) \in Nat /\ BlocksIn(d) \in Seq(Seq(B))
           /\ Len(BlocksIn(d)) = Len(d)
           /\ \A i \in 1..Len(d) : BlocksIn(d)[i] = d[i].blocks /\ d[i] \in Frees(B)
<1> DEFINE n == Len(d)
           f == BlocksIn(d)
           S == Seq(B)
<1>1. /\ n \in Nat /\ DOMAIN d = 1..n /\ \A i \in 1..n : d[i] \in Frees(B)
    OBVIOUS
<1>2. \A e \in Frees(B) : e.blocks \in S
    BY DEF Frees
<1> HIDE DEF n, S
<1>3. f = [i \in 1..n |-> d[i].blocks]
    BY <1>1 DEF BlocksIn
<1>4. f \in Seq(S) /\ Len(f) = n /\ \A i \in 1..n : f[i] = d[i].blocks /\ f[i] \in S
    BY <1>1, <1>2, <1>3
<1> HIDE DEF f
<1>5. IsFiniteSet(1..n)
    BY <1>1, FS_Interval
<1>6. Uses(b, f, 1..n) \in Nat
    <2>1. \A i \in 1..n : f[i] \in Seq(B)
        BY <1>4 DEF S
    <2> QED BY <1>5, <2>1, UsesType
<1> QED BY <1>1, <1>4, <1>6 DEF HeldOf, f, n, S

\* Families of sequences one after the other have together the places of each.
LEMMA UsesJoined ==
    ASSUME NEW T, NEW f \in Seq(Seq(T)), NEW g \in Seq(Seq(T)), NEW b
    PROVE  Uses(b, f \o g, 1..Len(f \o g)) = Uses(b, f, 1..Len(f)) + Uses(b, g, 1..Len(g))
<1> DEFINE n == Len(f)
           m == Len(g)
           h == f \o g
           late == (n + 1)..(n + m)
           S == Seq(T)
<1>1. f \in Seq(S) /\ g \in Seq(S)
    OBVIOUS
<1> HIDE DEF S
<1>2. /\ n \in Nat /\ m \in Nat /\ Len(h) = n + m
      /\ \A i \in 1..n : h[i] = f[i] /\ f[i] \in S
      /\ \A i \in 1..m : h[n + i] = g[i] /\ g[i] \in S
    BY <1>1
<1> HIDE DEF n, m, h
<1>3. /\ IsFiniteSet(1..n) /\ IsFiniteSet(1..m) /\ IsFiniteSet(late)
      /\ (1..n) \cap late = {} /\ (1..n) \cup late = 1..(n + m)
    <2>1. n + 1 \in Int /\ n + m \in Int /\ n \in Int /\ m \in Int
        BY <1>2
    <2>2. IsFiniteSet(1..n) /\ IsFiniteSet(1..m) /\ IsFiniteSet(late)
        BY <2>1, FS_Interval
    <2> QED BY <1>2, <2>2
<1>4. \A i \in late : i - n \in 1..m /\ n + (i - n) = i
    BY <1>2
<1>5. Family(h, (1..n) \cup late, T)
    <2>1. \A i \in late : h[i] \in S
        BY <1>2, <1>4
    <2> QED BY <1>2, <2>1 DEF S, Family
<1>6. [i \in 1..m |-> n + i] \in Bijection(1..m, late)
    <2> DEFINE t == [i \in 1..m |-> n + i]
    <2>1. t \in [1..m -> late] /\ \A i, j \in 1..m : t[i] = t[j] => i = j
        BY <1>2
    <2>2. \A i \in late : \E j \in 1..m : t[j] = i
        BY <1>4
    <2>3. DOMAIN t = 1..m
        OBVIOUS
    <2> HIDE DEF t, late
    <2>4. t \in Bijection(1..m, late)
        BY <2>1, <2>2, <2>3 DEF Bijection, Injection, Surjection, IsInjective
    <2> QED BY <2>4 DEF t
<1>7. Uses(b, g, 1..m) = Uses(b, h, late)
    <2> DEFINE t == [i \in 1..m |-> n + i]
    <2>1. Family(g, 1..m, T) /\ Renames(t, g, h, 1..m)
        BY <1>2 DEF S, Family, Renames
    <2>2. t \in Bijection(1..m, late) /\ IsFiniteSet(1..m)
        BY <1>3, <1>6
    <2> HIDE DEF t, late
    <2> QED BY <2>1, <2>2, UsesRenamed
<1>8. Uses(b, f, 1..n) = Uses(b, h, 1..n)
    <2>1. PlacesIn(b, f, 1..n) = PlacesIn(b, h, 1..n)
        BY <1>2 DEF PlacesIn
    <2> QED BY <2>1 DEF Uses
<1>9. Uses(b, h, (1..n) \cup late) = Uses(b, h, 1..n) + Uses(b, h, late)
    <2> DEFINE early == 1..n
    <2>1. /\ IsFiniteSet(early) /\ IsFiniteSet(late) /\ early \cap late = {}
          /\ Family(h, early \cup late, T)
        BY <1>3, <1>5
    <2> HIDE DEF early, late
    <2>2. Uses(b, h, early \cup late) = Uses(b, h, early) + Uses(b, h, late)
        BY <2>1, UsesSplit
    <2> QED BY <2>2 DEF early
<1> HIDE DEF late
<1> QED BY <1>2, <1>3, <1>7, <1>8, <1>9 DEF n, m, h

\* h has the members of f and then those of g.
Joins(h, f, g) == /\ Len(h) = Len(f) + Len(g)
                  /\ \A i \in 1..Len(f) : h[i] = f[i]
                  /\ \A i \in 1..Len(g) : h[Len(f) + i] = g[i]

LEMMA ConcatIs ==
    ASSUME NEW S, NEW f \in Seq(S), NEW g \in Seq(S), NEW h \in Seq(S), Joins(h, f, g)
    PROVE  h = f \o g
<1> DEFINE k == f \o g
           n == Len(f)
           m == Len(g)
<1>1. /\ n \in Nat /\ m \in Nat /\ k \in Seq(S) /\ Len(k) = n + m
      /\ \A i \in 1..n : k[i] = f[i]
      /\ \A i \in 1..m : k[n + i] = g[i]
    OBVIOUS
<1> HIDE DEF k, n, m
<1>2. ASSUME NEW i \in 1..(n + m) PROVE h[i] = k[i]
    <2>1. CASE i <= n
        <3>1. i \in 1..n
            BY <1>1, <2>1
        <3> QED BY <1>1, <3>1 DEF n, Joins
    <2>2. CASE i > n
        <3>1. i - n \in 1..m /\ n + (i - n) = i
            BY <1>1, <2>2
        <3>2. k[n + (i - n)] = g[i - n] /\ h[n + (i - n)] = g[i - n]
            BY <1>1, <3>1 DEF n, m, Joins
        <3> QED BY <3>1, <3>2
    <2> QED BY <1>1, <2>1, <2>2
<1>3. Len(h) = n + m
    BY DEF n, m, Joins
<1>4. h = k
    BY <1>1, <1>2, <1>3
<1> QED BY <1>4 DEF k

\* Deferred frees one after the other hold together what each holds.
LEMMA HeldJoined ==
    ASSUME NEW B, NEW d \in Seq(Frees(B)), NEW e \in Seq(Frees(B)), NEW b
    PROVE  d \o e \in Seq(Frees(B)) /\ HeldOf(b, d \o e) = HeldOf(b, d) + HeldOf(b, e)
<1> DEFINE F == Frees(B)
<1>1. d \in Seq(F) /\ e \in Seq(F)
    OBVIOUS
<1> HIDE DEF F
<1>2. d \o e \in Seq(F)
    BY <1>1
<1>3. Len(d \o e) = Len(d) + Len(e) /\ Len(d) \in Nat /\ Len(e) \in Nat
    BY <1>1
<1>5. /\ BlocksIn(d) \in Seq(Seq(B)) /\ BlocksIn(e) \in Seq(Seq(B))
      /\ Len(BlocksIn(d)) = Len(d) /\ Len(BlocksIn(e)) = Len(e)
      /\ Len(BlocksIn(d \o e)) = Len(d \o e)
    BY <1>2, HeldFacts DEF F
<1> DEFINE f == BlocksIn(d)
           g == BlocksIn(e)
           h == BlocksIn(d \o e)
<1>4. h = f \o g
    <2>1. /\ \A i \in 1..Len(d) : (d \o e)[i] = d[i] /\ f[i] = d[i].blocks
          /\ \A i \in 1..Len(e) : (d \o e)[Len(d) + i] = e[i] /\ g[i] = e[i].blocks
          /\ \A i \in 1..Len(d \o e) : h[i] = (d \o e)[i].blocks
        <3>1. /\ \A i \in 1..Len(d) : (d \o e)[i] = d[i]
              /\ \A i \in 1..Len(e) : (d \o e)[Len(d) + i] = e[i]
            BY <1>1
        <3> QED BY <1>2, <3>1, HeldFacts DEF F
    <2>2. /\ f \in Seq(Seq(B)) /\ g \in Seq(Seq(B)) /\ h \in Seq(Seq(B))
          /\ Len(f) = Len(d) /\ Len(g) = Len(e) /\ Len(h) = Len(d) + Len(e)
        BY <1>2, <1>3, <1>5, HeldFacts DEF F
    <2> HIDE DEF f, g, h
    <2>3. /\ \A i \in 1..Len(d) : h[i] = f[i]
          /\ \A i \in 1..Len(e) : h[Len(d) + i] = g[i]
        <3>1. /\ \A i \in 1..Len(d) : i \in 1..Len(d \o e)
              /\ \A i \in 1..Len(e) : Len(d) + i \in 1..Len(d \o e)
            BY <1>3
        <3> QED BY <2>1, <3>1
    <2> DEFINE S == Seq(B)
    <2>4. f \in Seq(S) /\ g \in Seq(S) /\ h \in Seq(S)
        BY <2>2
    <2> HIDE DEF S
    <2>5. Joins(h, f, g)
        BY <2>2, <2>3 DEF Joins
    <2> QED BY <2>4, <2>5, ConcatIs
<1>6. Uses(b, f \o g, 1..Len(f \o g)) = Uses(b, f, 1..Len(f)) + Uses(b, g, 1..Len(g))
    <2>1. f \in Seq(Seq(B)) /\ g \in Seq(Seq(B))
        BY <1>5
    <2> HIDE DEF f, g
    <2> QED BY <2>1, UsesJoined
<1> QED BY <1>2, <1>4, <1>5, <1>6 DEF HeldOf, F

\* A deferred free holds its blocks.
LEMMA HeldOne ==
    ASSUME NEW B, NEW e \in Frees(B), NEW b
    PROVE  <<e>> \in Seq(Frees(B)) /\ HeldOf(b, <<e>>) = Count(b, e.blocks)
<1> DEFINE d == <<e>>
<1>1. d \in Seq(Frees(B)) /\ Len(d) = 1 /\ d[1] = e
    OBVIOUS
<1> HIDE DEF d
<1>2. BlocksIn(d)[1] = e.blocks
    BY <1>1, HeldFacts
<1>3. e.blocks \in Seq(B)
    BY DEF Frees
<1>4. Uses(b, BlocksIn(d), {1}) = Count(b, e.blocks)
    BY <1>2, <1>3, UsesOne
<1>5. 1..1 = {1}
    OBVIOUS
<1> QED BY <1>1, <1>4, <1>5 DEF HeldOf, d

\* Sequences one after the other have the members of both.
LEMMA ConcatKeeps ==
    ASSUME NEW S, NEW s \in Seq(S), NEW t \in Seq(S)
    PROVE  Range(s) \subseteq Range(s \o t) /\ Range(t) \subseteq Range(s \o t)
<1> DEFINE n == Len(s)
           m == Len(t)
           u == s \o t
<1>1. /\ n \in Nat /\ m \in Nat /\ DOMAIN s = 1..n /\ DOMAIN t = 1..m /\ DOMAIN u = 1..(n + m)
      /\ \A i \in 1..n : u[i] = s[i]
      /\ \A i \in 1..m : u[n + i] = t[i]
    OBVIOUS
<1> HIDE DEF n, m, u
<1>2. /\ \A i \in 1..n : i \in 1..(n + m)
      /\ \A i \in 1..m : n + i \in 1..(n + m)
    BY <1>1
<1> QED BY <1>1, <1>2 DEF Range, u

\* No table loses a block.
TablesGrow == \A q \in Requests : Range(table[q]) \subseteq Range(table'[q])

\* allocate_slots: the references taken are those of the table it returns,
\* which holds the tokens it is asked for.
LEMMA AllocateKept ==
    ASSUME config \in Configs, PoolInv, CountInv, NEW r \in Requests,
           NEW hits \in Seq(Usable), NEW n \in Int,
           Fits(r, hits, computed[r] + Len(hits) * BlockSize + n + Drafts),
           Allocate(r, hits, n), config' = config, deferred' = deferred
    PROVE  /\ PoolInv' /\ TablesGrow
           /\ \E bs \in Seq(Usable) :
                 /\ table' = [table EXCEPT ![r] = bs]
                 /\ Len(table[r]) + Len(hits) <= Len(bs)
                 /\ computed[r] + Len(hits) * BlockSize + n <= BlockSize * Len(bs)
<1> DEFINE start == computed[r] + Len(hits) * BlockSize
           all == start + n + Drafts
           short == CDiv(all, BlockSize) - Len(table[r]) - Len(hits)
           more == Max({0, short})
           touched == Touch(pool, hits)
           first == SubSeq(touched.free, 1, more)
           got == GetNew(touched, more)
           bs == table[r] \o hits \o first
           from == IF hits = <<>> THEN cachedN[r] ELSE Len(hits)
           total == Min({start + n, NumTokens(r)})
<1>1. /\ pool' = CacheBlocks(got, r, bs, from, total)
      /\ table' = [table EXCEPT ![r] = bs]
      /\ cachedN' = [cachedN EXCEPT ![r] = Max({from, total \div BlockSize})]
    BY DEF Allocate
<1>2. /\ PoolKept(pool, AllBlocks) /\ BlockSize \in Nat \ {0} /\ Drafts \in Nat
      /\ table[r] \in Seq(Usable) /\ cachedN[r] \in Nat /\ computed[r] \in Int
      /\ NumTokens(r) \in Nat /\ NumTokens(r) <= Len(Text[r]) /\ Len(Text[r]) \in Nat
      /\ Len(table[r]) \in Nat /\ Len(hits) \in Nat
    <2>1. PoolKept(pool, AllBlocks) /\ Drafts \in Nat
        BY ConfigKnown DEF PoolInv
    <2>2. table[r] \in Seq(Usable) /\ cachedN[r] \in Nat /\ BlockSize \in Nat \ {0}
        BY PoolFacts
    <2>3. /\ computed[r] \in Int /\ NumTokens(r) \in Nat /\ NumTokens(r) <= Len(Text[r])
          /\ Len(Text[r]) \in Nat
        BY TokensKnown
    <2>4. Len(table[r]) \in Nat /\ Len(hits) \in Nat
        BY <2>2
    <2> QED BY <2>1, <2>2, <2>3, <2>4
<1>3. /\ start \in Int /\ all \in Int /\ CDiv(all, BlockSize) \in Int
      /\ all <= BlockSize * CDiv(all, BlockSize)
    <2>1. start \in Int /\ all \in Int
        BY <1>2
    <2> HIDE DEF all, start
    <2> QED BY <1>2, <2>1, DivFacts
<1>4. short \in Int
    <2> DEFINE c == CDiv(all, BlockSize)
               l == Len(table[r])
               h == Len(hits)
    <2>1. c \in Int /\ l \in Int /\ h \in Int
        BY <1>2, <1>3
    <2> HIDE DEF c, l, h
    <2>2. c - l - h \in Int
        BY <2>1
    <2> QED BY Zenon, <2>2 DEF short, c, l, h
<1> HIDE DEF start, short
<1>5. more \in Nat /\ more >= short
    BY <1>4, MaxZero
<1>6. /\ PoolKept(touched, AllBlocks)
      /\ \A b \in Usable : touched.ref[b] = pool.ref[b] + Count(b, hits)
      /\ NumFree(pool) <= NumFree(touched) + Reused(pool, hits)
    <2>1. hits \in Seq(AllBlocks)
        BY DEF Usable
    <2>2. PoolKept(pool, AllBlocks)
        BY <1>2
    <2>3. /\ PoolKept(touched, AllBlocks)
          /\ \A b \in AllBlocks \ {Null} : touched.ref[b] = pool.ref[b] + Count(b, hits)
          /\ NumFree(pool) <= NumFree(touched) + Reused(pool, hits)
        BY <2>1, <2>2, TouchExact
    <2> QED BY <2>3 DEF Usable
<1>7. touched.free \in Seq(Usable) /\ touched \in Pools(AllBlocks)
    BY <1>6, PoolFields DEF PoolKept, IndexKept, Usable
<1>8. more <= Len(touched.free)
    <2> DEFINE reused == Reused(pool, hits)
    <2>1. more + reused <= NumFree(pool)
        BY DEF Fits, Needed, Reused, short, all, start
    <2>2. NumFree(touched) = Len(touched.free) /\ Len(touched.free) \in Nat
        BY <1>7 DEF NumFree
    <2>3. reused \in Nat
        <3>1. IsFiniteSet(DOMAIN hits) /\ {i \in DOMAIN hits : pool.ref[hits[i]] = 0} \in SUBSET DOMAIN hits
            BY <1>2, FS_Interval
        <3> QED BY <3>1, FS_Subset, FS_CardinalityType DEF Reused
    <2>4. NumFree(pool) \in Nat
        BY PoolFacts DEF NumFree
    <2> HIDE DEF more, reused, touched
    <2> QED BY <1>5, <1>6, <2>1, <2>2, <2>3, <2>4 DEF reused
<1> HIDE DEF more, touched
<1>9. /\ PoolKept(got, AllBlocks)
      /\ \A b \in Usable : got.ref[b] = touched.ref[b] + Count(b, first)
    <2>1. more \in 0..Len(touched.free)
        BY <1>5, <1>8
    <2> QED BY <1>6, <2>1, NewBlocksExact DEF Usable
<1>10. first \in Seq(Usable) /\ Len(first) = more
    <2>1. more \in 0..Len(touched.free)
        BY <1>5, <1>8
    <2> QED BY <1>7, <2>1, InjectiveCut
<1> HIDE DEF got, first
<1>18. Range(table[r]) \subseteq Range(bs)
    <2> DEFINE front == table[r] \o hits
    <2>1. front \in Seq(Usable) /\ first \in Seq(Usable)
        BY <1>2, <1>10
    <2>2. Range(table[r]) \subseteq Range(front)
        BY <1>2, ConcatKeeps
    <2> HIDE DEF front
    <2>3. Range(front) \subseteq Range(front \o first)
        BY <2>1, ConcatKeeps
    <2> QED BY <2>2, <2>3 DEF front
<1>11. /\ bs \in Seq(Usable) /\ Len(bs) = Len(table[r]) + Len(hits) + more
       /\ \A b : Count(b, bs) = Count(b, table[r]) + Count(b, hits) + Count(b, first)
    <2> DEFINE front == table[r] \o hits
    <2>1. front \in Seq(Usable) /\ Len(front) = Len(table[r]) + Len(hits)
        BY <1>2
    <2>2. \A b : Count(b, front) = Count(b, table[r]) + Count(b, hits)
        BY <1>2, ConcatCount
    <2> HIDE DEF front
    <2>3. front \o first \in Seq(Usable) /\ Len(front \o first) = Len(front) + more
        <3>1. first \in Seq(Usable) /\ Len(first) = more
            BY <1>10
        <3> QED BY <2>1, <3>1
    <2>4. \A b : Count(b, front \o first) = Count(b, front) + Count(b, first)
        BY <1>10, <2>1, ConcatCount
    <2> QED BY <2>1, <2>2, <2>3, <2>4 DEF front
<1> HIDE DEF bs
<1>12. /\ Len(table[r]) + Len(hits) <= Len(bs) /\ Len(bs) \in Nat
       /\ start + n <= BlockSize * Len(bs)
    <2>1. Len(bs) \in Nat /\ Len(table[r]) + Len(hits) <= Len(bs) /\ CDiv(all, BlockSize) <= Len(bs)
        <3> DEFINE c == CDiv(all, BlockSize)
        <3>1. /\ c \in Int /\ Len(table[r]) \in Nat /\ Len(hits) \in Nat /\ more \in Nat
              /\ c - Len(table[r]) - Len(hits) <= more
              /\ Len(bs) = Len(table[r]) + Len(hits) + more
            BY <1>2, <1>3, <1>5, <1>11 DEF short
        <3> HIDE DEF c
        <3>2. \A x \in Int, y, z, u \in Nat : x - y - z <= u => x <= y + z + u
            OBVIOUS
        <3> QED BY <3>1, <3>2 DEF c
    <2>2. start + n <= all
        <3>1. \A x, y, z \in Int : z >= 0 => x + y <= x + y + z
            OBVIOUS
        <3>2. start \in Int /\ Drafts \in Int /\ Drafts >= 0
            BY <1>2, <1>3
        <3> QED BY <3>1, <3>2
    <2>3. all <= BlockSize * Len(bs)
        <3>1. all \in Int /\ BlockSize \in Nat \ {0}
            BY <1>2, <1>3
        <3> HIDE DEF all
        <3> QED BY <2>1, <3>1, Covered
    <2> DEFINE w == BlockSize * Len(bs)
    <2>4. w \in Int
        BY <1>2, <2>1
    <2> HIDE DEF w
    <2>5. all <= w /\ start \in Int
        BY <1>3, <2>3 DEF w
    <2> HIDE DEF all
    <2>6. start + n <= w
        <3>1. PICK x : x = start + n
            OBVIOUS
        <3>2. x \in Int /\ all \in Int /\ x <= all
            BY <1>2, <1>3, <2>2, <2>5, <3>1
        <3>3. x <= w
            BY <2>4, <2>5, <3>2
        <3> QED BY Zenon, <3>1, <3>3
    <2> QED BY <2>1, <2>6 DEF w
<1>13. from \in Nat
    BY <1>2
<1>14. total \in Int /\ total <= start + n /\ total <= NumTokens(r)
    <2>1. start + n \in Int /\ NumTokens(r) \in Int
        BY <1>2, <1>3
    <2> QED BY <2>1, MinOfTwo
<1> HIDE DEF from, total
<1>15. PoolKept(pool', AllBlocks) /\ pool'.ref = got.ref
    <2> DEFINE w == BlockSize * Len(bs)
    <2>1. w \in Int /\ start + n <= w
        BY <1>2, <1>12
    <2> HIDE DEF w
    <2>2. total <= Len(Text[r]) /\ total <= w
        <3>1. \A x, y, z \in Int : x <= y /\ y <= z => x <= z
            OBVIOUS
        <3>2. /\ total \in Int /\ start + n \in Int /\ NumTokens(r) \in Int
              /\ Len(Text[r]) \in Int /\ w \in Int
            BY <1>2, <1>3, <1>14, <2>1
        <3>3. total <= w
            BY <1>14, <2>1, <3>1, <3>2
        <3>4. total <= Len(Text[r])
            BY <1>2, <1>14, <3>1, <3>2
        <3> QED BY <3>3, <3>4
    <2>3. bs \in Seq(AllBlocks \ {Null})
        BY <1>11 DEF Usable
    <2>4. total <= BlockSize * Len(bs)
        BY <2>2 DEF w
    <2>5. PoolKept(got, AllBlocks) /\ total <= Len(Text[r]) /\ total \in Int /\ from \in Nat
        BY <1>9, <1>13, <1>14, <2>2
    <2> DEFINE after == CacheBlocks(got, r, bs, from, total)
    <2>6. PoolKept(after, AllBlocks) /\ after.ref = got.ref
        BY <2>3, <2>4, <2>5, CacheBlocksKept
    <2> QED BY <1>1, <2>6
<1>16. \A b \in Usable : pool'.ref[b] = Uses(b, table', Requests) + HeldOf(b, deferred)
    <2> TAKE b \in Usable
    <2>1. /\ Uses(b, table', Requests) = Uses(b, table, Requests) - Count(b, table[r]) + Count(b, bs)
          /\ Uses(b, table, Requests) \in Nat /\ Count(b, table[r]) \in Nat
        BY <1>1, <1>11, TableChanged
    <2>2. Count(b, bs) = Count(b, table[r]) + Count(b, hits) + Count(b, first)
        BY <1>11
    <2>3. Count(b, hits) \in Nat /\ Count(b, first) \in Nat
        BY <1>10, CountFacts
    <2>4. pool'.ref[b] = pool.ref[b] + Count(b, hits) + Count(b, first)
        BY <1>6, <1>9, <1>15
    <2>5. pool.ref[b] = Uses(b, table, Requests) + HeldOf(b, deferred)
        BY DEF PoolInv, Accounted
    <2>6. HeldOf(b, deferred) \in Nat
        <3>1. deferred \in Seq(Frees(Usable))
            BY DEF PoolInv
        <3> QED BY <3>1, HeldFacts
    <2> DEFINE u == Uses(b, table, Requests)
               v == HeldOf(b, deferred)
               x == Count(b, table[r])
               y == Count(b, hits)
               z == Count(b, first)
    <2>7. u \in Nat /\ v \in Nat /\ x \in Nat /\ y \in Nat /\ z \in Nat
        BY <2>1, <2>3, <2>6
    <2>8. Uses(b, table', Requests) = u - x + (x + y + z) /\ pool'.ref[b] = u + v + y + z
        BY <2>1, <2>2, <2>4, <2>5
    <2> HIDE DEF u, v, x, y, z
    <2>9. u - x + (x + y + z) = u + y + z /\ u + v + y + z = u + y + z + v
        BY <2>7
    <2> QED BY <2>8, <2>9 DEF v
<1>17. PoolInv'
    <2>1. AllBlocks' = AllBlocks /\ Usable' = Usable
        BY DEF AllBlocks, Usable
    <2>2. table' \in Tables /\ deferred' \in Seq(Frees(Usable))
        BY <1>1, <1>11 DEF PoolInv, Tables
    <2>3. cachedN' \in [Requests -> Nat]
        <3>1. Max({from, total \div BlockSize}) \in Nat
            <4>1. total \div BlockSize \in Int
                BY <1>2, <1>14, DivFacts
            <4> DEFINE d == total \div BlockSize
            <4>2. d \in Int /\ from \in Int
                BY <1>13, <4>1
            <4> HIDE DEF d
            <4>3. Max({from, d}) \in Int /\ Max({from, d}) >= from
                BY <4>2, MaxOfTwo
            <4> QED BY <1>13, <4>3 DEF d
        <3> QED BY <1>1, <3>1 DEF PoolInv
    <2>4. Accounted'
        BY <1>16, <2>1 DEF Accounted
    <2> QED BY <1>15, <2>1, <2>2, <2>3, <2>4 DEF PoolInv, Tables
<1>19. TablesGrow
    <2>1. table'[r] = bs /\ \A q \in Requests : q # r => table'[q] = table[q]
        BY <1>1 DEF PoolInv, Tables
    <2> QED BY <1>18, <2>1 DEF TablesGrow
<1> QED BY <1>1, <1>11, <1>12, <1>17, <1>19 DEF start

LEMMA AheadKnown ==
    ASSUME queue \in Seq(Range(queue))
    PROVE  Ahead \in Nat
<1>1. IsFiniteSet(DOMAIN queue)
    <2>1. Len(queue) \in Int /\ DOMAIN queue = 1..Len(queue)
        OBVIOUS
    <2> QED BY <2>1, FS_Interval
<1>2. {i \in DOMAIN queue : queue[i] # <<>>} \in SUBSET DOMAIN queue
    OBVIOUS
<1> QED BY <1>1, <1>2, FS_Subset, FS_CardinalityType DEF Ahead

\* A block occurs nowhere in an empty sequence.
LEMMA CountNone ==
    ASSUME NEW b
    PROVE  Count(b, <<>>) = 0
<1>1. Places(b, <<>>) = {}
    BY DEF Places
<1> QED BY <1>1, FS_EmptySet DEF Count

\* _free_request_blocks: the references of the table are given back, or become
\* those of a deferred free.
LEMMA FreeRequestKept ==
    ASSUME config \in Configs, PoolInv, queue \in Seq(Range(queue)), NEW r \in Requests,
           NEW p, PoolKept(p, AllBlocks), p.ref = pool.ref,
           FreeRequestBlocks(p, r), config' = config
    PROVE  PoolInv' /\ table' = [table EXCEPT ![r] = <<>>]
<1> DEFINE bs == table[r]
           none == <<>>
           now == MayFreeNow(r)
           keeps == /\ PoolKept(pool', AllBlocks) /\ deferred' \in Seq(Frees(Usable))
                    /\ \A b \in Usable : \E x \in Nat, y \in Nat :
                          /\ pool'.ref[b] = x + y /\ HeldOf(b, deferred') = y
                          /\ Uses(b, table', Requests) = x
<1>1. /\ now => pool' = FreeTable(p, bs) /\ deferred' = deferred
      /\ ~now => pool' = p
      /\ ~now /\ bs = <<>> => deferred' = deferred
      /\ ~now /\ bs # <<>> => deferred' = Append(deferred, [fence |-> Ahead, blocks |-> bs])
      /\ table' = [table EXCEPT ![r] = none]
      /\ cachedN' = [cachedN EXCEPT ![r] = 0]
    BY DEF FreeRequestBlocks
<1>2. /\ bs \in Seq(Usable) /\ bs \in Seq(AllBlocks) /\ none \in Seq(Usable)
      /\ deferred \in Seq(Frees(Usable)) /\ pool.ref \in [AllBlocks -> Nat]
    <2>1. bs \in Seq(Usable) /\ pool.ref \in [AllBlocks -> Nat]
        BY PoolFacts
    <2>2. deferred \in Seq(Frees(Usable))
        BY DEF PoolInv
    <2> QED BY <2>1, <2>2 DEF Usable
<1> HIDE DEF now, none, bs
<1>3. ASSUME NEW b \in Usable
      PROVE  \E x \in Nat, y \in Nat, c \in Nat :
                /\ p.ref[b] = x + c + y /\ HeldOf(b, deferred) = y
                /\ Count(b, bs) = c /\ Uses(b, table', Requests) = x
    <2>1. /\ Uses(b, table', Requests) = Uses(b, table, Requests) - Count(b, bs) + Count(b, none)
          /\ Uses(b, table, Requests) \in Nat /\ Count(b, bs) <= Uses(b, table, Requests)
          /\ Count(b, bs) \in Nat
        BY <1>1, <1>2, TableChanged DEF bs
    <2>2. Count(b, none) = 0
        BY CountNone DEF none
    <2>3. p.ref[b] = Uses(b, table, Requests) + HeldOf(b, deferred)
        BY DEF PoolInv, Accounted
    <2>4. HeldOf(b, deferred) \in Nat
        BY <1>2, HeldFacts
    <2> DEFINE x == Uses(b, table, Requests) - Count(b, bs)
               y == HeldOf(b, deferred)
               c == Count(b, bs)
    <2>5. /\ x \in Nat /\ y \in Nat /\ c \in Nat
          /\ p.ref[b] = x + c + y /\ Uses(b, table', Requests) = x
        BY <2>1, <2>2, <2>3, <2>4
    <2> HIDE DEF x
    <2> QED BY <2>5
<1>4. ASSUME now PROVE keeps
    <2>1. \A b \in AllBlocks \ {Null} : Count(b, bs) <= p.ref[b]
        <3> TAKE b \in AllBlocks \ {Null}
        <3>1. \E x \in Nat, y \in Nat, c \in Nat : p.ref[b] = x + c + y /\ Count(b, bs) = c
            BY <1>3 DEF Usable
        <3> QED BY <3>1
    <2>2. /\ PoolKept(FreeTable(p, bs), AllBlocks)
          /\ \A b \in AllBlocks \ {Null} : FreeTable(p, bs).ref[b] = p.ref[b] - Count(b, bs)
        BY <1>2, <2>1, FreeTableKept
    <2>3. \A b \in Usable : pool'.ref[b] = p.ref[b] - Count(b, bs)
        BY <1>1, <1>4, <2>2 DEF Usable
    <2>4. ASSUME NEW b \in Usable
          PROVE  \E x \in Nat, y \in Nat : /\ pool'.ref[b] = x + y
                                           /\ HeldOf(b, deferred') = y
                                           /\ Uses(b, table', Requests) = x
        <3>1. PICK x \in Nat, y \in Nat, c \in Nat :
                 /\ p.ref[b] = x + c + y /\ HeldOf(b, deferred) = y
                 /\ Count(b, bs) = c /\ Uses(b, table', Requests) = x
            BY <1>3
        <3>2. pool'.ref[b] = x + y
            BY <2>3, <3>1
        <3>3. HeldOf(b, deferred') = y
            BY <1>1, <1>4, <3>1
        <3> QED BY <3>1, <3>2, <3>3
    <2> QED BY <1>1, <1>2, <1>4, <2>2, <2>4
<1>5. ASSUME ~now /\ bs = <<>> PROVE keeps
    <2>1. ASSUME NEW b \in Usable
          PROVE  \E x \in Nat, y \in Nat : /\ pool'.ref[b] = x + y
                                           /\ HeldOf(b, deferred') = y
                                           /\ Uses(b, table', Requests) = x
        <3>1. PICK x \in Nat, y \in Nat, c \in Nat :
                 /\ p.ref[b] = x + c + y /\ HeldOf(b, deferred) = y
                 /\ Count(b, bs) = c /\ Uses(b, table', Requests) = x
            BY <1>3
        <3>2. Count(b, bs) = 0
            BY <1>5, CountNone
        <3>3. pool'.ref[b] = x + y
            BY <1>1, <1>5, <3>1, <3>2
        <3>4. HeldOf(b, deferred') = y
            BY <1>1, <1>5, <3>1
        <3> QED BY <3>1, <3>3, <3>4
    <2> QED BY <1>1, <1>2, <1>5, <2>1
<1>6. ASSUME ~now /\ bs # <<>> PROVE keeps
    <2> DEFINE e == [fence |-> Ahead, blocks |-> bs]
               one == <<e>>
    <2>1. e \in Frees(Usable) /\ e.blocks = bs
        BY <1>2, AheadKnown DEF Frees
    <2> HIDE DEF e
    <2>2. deferred' = deferred \o one
        <3> DEFINE F == Frees(Usable)
        <3>1. \A d \in Seq(F), x \in F : Append(d, x) = d \o <<x>>
            OBVIOUS
        <3>2. deferred \in Seq(F) /\ e \in F
            BY <1>2, <2>1
        <3> HIDE DEF F
        <3>3. Append(deferred, e) = deferred \o one
            BY <3>1, <3>2
        <3> QED BY <1>1, <1>6, <3>3 DEF e
    <2>3. one \in Seq(Frees(Usable)) /\ \A b : HeldOf(b, one) = Count(b, bs)
        BY <2>1, HeldOne
    <2> HIDE DEF one
    <2>4. /\ deferred' \in Seq(Frees(Usable))
          /\ \A b : HeldOf(b, deferred') = HeldOf(b, deferred) + Count(b, bs)
        BY <1>2, <2>2, <2>3, HeldJoined
    <2>5. ASSUME NEW b \in Usable
          PROVE  \E x \in Nat, y \in Nat : /\ pool'.ref[b] = x + y
                                           /\ HeldOf(b, deferred') = y
                                           /\ Uses(b, table', Requests) = x
        <3>1. PICK x \in Nat, y \in Nat, c \in Nat :
                 /\ p.ref[b] = x + c + y /\ HeldOf(b, deferred) = y
                 /\ Count(b, bs) = c /\ Uses(b, table', Requests) = x
            BY <1>3
        <3>2. HeldOf(b, deferred') = y + c /\ y + c \in Nat
            BY <2>4, <3>1
        <3>3. pool'.ref[b] = x + (y + c)
            BY <1>1, <1>6, <3>1
        <3> QED BY <3>1, <3>2, <3>3
    <2> QED BY <1>1, <1>6, <2>4, <2>5
<1>7. keeps
    BY <1>4, <1>5, <1>6
<1>8. AllBlocks' = AllBlocks /\ Usable' = Usable
    BY DEF AllBlocks, Usable
<1>9. Accounted'
    BY <1>7, <1>8 DEF Accounted
<1>10. table' \in Tables /\ Tables' = Tables
    BY <1>1, <1>2, <1>8 DEF PoolInv, Tables
<1>11. cachedN' \in [Requests -> Nat]
    BY <1>1 DEF PoolInv
<1>12. PoolInv'
    BY <1>7, <1>8, <1>9, <1>10, <1>11 DEF PoolInv
<1> QED BY <1>1, <1>12 DEF none

\* A sequence is its first k members and the rest.
LEMMA SplitAt ==
    ASSUME NEW S, NEW d \in Seq(S), NEW k \in 0..Len(d)
    PROVE  /\ SubSeq(d, 1, k) \in Seq(S) /\ SubSeq(d, k + 1, Len(d)) \in Seq(S)
           /\ Len(SubSeq(d, 1, k)) = k /\ \A i \in 1..k : SubSeq(d, 1, k)[i] = d[i]
           /\ d = SubSeq(d, 1, k) \o SubSeq(d, k + 1, Len(d))
<1> DEFINE n == Len(d)
           first == SubSeq(d, 1, k)
           rest == SubSeq(d, k + 1, n)
<1>1. n \in Nat /\ k \in Nat /\ k <= n /\ \A i \in 1..n : d[i] \in S
    OBVIOUS
<1>2. first \in Seq(S) /\ Len(first) = k /\ \A i \in 1..k : first[i] = d[i]
    BY <1>1
<1>3. rest \in Seq(S) /\ Len(rest) = n - k /\ \A i \in 1..(n - k) : rest[i] = d[k + i]
    <2>1. \A i \in 1..(n - k) : k + 1 + i - 1 = k + i /\ k + i \in 1..n
        BY <1>1
    <2>2. rest = [i \in 1..(n - k) |-> d[k + i]]
        BY <1>1, <2>1
    <2> HIDE DEF rest
    <2> QED BY <1>1, <2>1, <2>2
<1> HIDE DEF first, rest
<1>4. Joins(d, first, rest)
    <2>1. Len(d) = k + (n - k)
        BY <1>1
    <2> QED BY <1>2, <1>3, <2>1 DEF Joins
<1>5. d = first \o rest
    BY <1>2, <1>3, <1>4, ConcatIs
<1> QED BY <1>2, <1>3, <1>5 DEF first, rest, n

\* _drain_deferred_frees: what is drained gives its references back, and the
\* rest keeps them.
LEMMA DrainKept ==
    ASSUME config \in Configs, PoolInv, NEW d,
           d = [i \in DOMAIN deferred |-> [deferred[i] EXCEPT !.fence = @ - 1]],
           pool' = Drained(pool, d),
           deferred' = SubSeq(d, DrainedCount(d) + 1, Len(d)),
           table' = table, cachedN' = cachedN, config' = config
    PROVE  PoolInv'
<1> DEFINE F == Frees(Usable)
           n == Len(deferred)
           k == DrainedCount(d)
           first == SubSeq(d, 1, k)
           rest == SubSeq(d, k + 1, Len(d))
           ts == BlocksIn(first)
<1>1. /\ deferred \in Seq(F) /\ n \in Nat /\ DOMAIN deferred = 1..n
      /\ \A i \in 1..n : deferred[i] \in F
    BY DEF PoolInv
<1> HIDE DEF n
<1>2. \A i \in 1..n : d[i] \in F /\ d[i].blocks = deferred[i].blocks
    <2> TAKE i \in 1..n
    <2>1. deferred[i] \in F
        BY <1>1
    <2>2. d[i] = [deferred[i] EXCEPT !.fence = @ - 1]
        BY <1>1
    <2>3. deferred[i].fence \in Int /\ deferred[i].fence - 1 \in Int
        BY <2>1 DEF Frees
    <2> QED BY <2>1, <2>2, <2>3 DEF Frees
<1> HIDE DEF F
<1>3. d \in Seq(F) /\ Len(d) = n /\ DOMAIN d = 1..n
    BY <1>1, <1>2
<1>4. \A b : HeldOf(b, d) = HeldOf(b, deferred)
    <2>1. BlocksIn(d) = BlocksIn(deferred)
        BY <1>1, <1>2, <1>3 DEF BlocksIn
    <2> QED BY <1>3, <2>1 DEF HeldOf, n
<1>5. k \in 0..n
    <2> DEFINE S == {m \in 0..Len(d) : \A i \in 1..m : d[i].fence <= 0}
    <2>1. 0 \in S /\ S \in SUBSET (0..n)
        BY <1>1, <1>3
    <2>2. k = Max(S)
        BY DEF DrainedCount
    <2> HIDE DEF S, k
    <2>3. Max(S) \in S
        BY <1>1, <2>1, GreatestUpto
    <2> QED BY <2>1, <2>2, <2>3
<1> HIDE DEF k
<1>6. first \in Seq(F) /\ rest \in Seq(F) /\ d = first \o rest /\ Len(first) = k
    BY <1>3, <1>5, SplitAt
<1>7. \A b : HeldOf(b, deferred) = HeldOf(b, first) + HeldOf(b, rest)
    <2> HIDE DEF first, rest
    <2>1. \A b : HeldOf(b, first \o rest) = HeldOf(b, first) + HeldOf(b, rest)
        BY <1>6, HeldJoined DEF F
    <2> QED BY <1>4, <1>6, <2>1
<1>8. \A b : HeldOf(b, first) \in Nat /\ HeldOf(b, rest) \in Nat
    BY <1>6, HeldFacts DEF F
<1>9. [i \in 1..k |-> d[i].blocks] = ts
    BY <1>1, <1>3, <1>5, <1>6 DEF BlocksIn
<1>10. ts \in Seq(Seq(AllBlocks)) /\ Len(ts) = k
    <2>1. ts \in Seq(Seq(Usable)) /\ Len(ts) = k
        BY <1>6, HeldFacts DEF F
    <2> DEFINE A == Seq(AllBlocks)
               U == Seq(Usable)
    <2>2. U \subseteq A
        BY DEF Usable
    <2> HIDE DEF A, U
    <2>3. ts \in Seq(U) /\ Len(ts) = k
        BY <2>1 DEF U
    <2> HIDE DEF ts
    <2>4. ts \in Seq(A)
        BY <2>2, <2>3
    <2> QED BY <2>3, <2>4 DEF A
<1>11. \A b \in Usable : /\ Uses(b, table, Requests) \in Nat
                         /\ pool.ref[b] = Uses(b, table, Requests) + HeldOf(b, deferred)
    <2>1. \A b : Uses(b, table, Requests) \in Nat
        <3>1. \A r \in Requests : table[r] \in Seq(Usable)
            BY PoolFacts
        <3> QED BY <3>1, RequestsFinite, UsesType
    <2> QED BY <2>1 DEF PoolInv, Accounted
<1>12. \A b : Uses(b, ts, 1..Len(ts)) = HeldOf(b, first)
    BY <1>6, <1>10 DEF HeldOf
<1>13. PoolKept(pool, AllBlocks) /\ pool' = FreeTables(pool, ts)
    BY <1>9 DEF PoolInv, Drained, k
<1> HIDE DEF ts
<1>14. \A b \in AllBlocks \ {Null} : Uses(b, ts, 1..Len(ts)) <= pool.ref[b]
    <2> HIDE DEF first, rest
    <2> TAKE b \in AllBlocks \ {Null}
    <2> DEFINE x == HeldOf(b, first)
               y == HeldOf(b, rest)
               z == Uses(b, table, Requests)
    <2>1. x \in Nat /\ y \in Nat /\ z \in Nat /\ pool.ref[b] = z + (x + y)
        BY <1>7, <1>8, <1>11 DEF Usable
    <2>2. Uses(b, ts, 1..Len(ts)) = x
        BY <1>12
    <2> HIDE DEF x, y, z
    <2> QED BY <2>1, <2>2
<1>15. /\ PoolKept(FreeTables(pool, ts), AllBlocks)
       /\ \A b \in AllBlocks \ {Null} :
              FreeTables(pool, ts).ref[b] = pool.ref[b] - Uses(b, ts, 1..Len(ts))
    BY <1>10, <1>13, <1>14, TablesFreed
<1>16. AllBlocks' = AllBlocks /\ Usable' = Usable
    BY DEF AllBlocks, Usable
<1>17. deferred' \in Seq(Frees(Usable)) /\ deferred' = rest
    BY <1>6 DEF F, k
<1> HIDE DEF first, rest
<1>18. \A b \in Usable : pool'.ref[b] = Uses(b, table', Requests) + HeldOf(b, deferred')
    <2> TAKE b \in Usable
    <2>1. pool'.ref[b] = pool.ref[b] - HeldOf(b, first)
        BY <1>12, <1>13, <1>15 DEF Usable
    <2>2. pool.ref[b] = Uses(b, table, Requests) + (HeldOf(b, first) + HeldOf(b, rest))
        BY <1>7, <1>11
    <2>3. /\ Uses(b, table, Requests) \in Nat
          /\ HeldOf(b, first) \in Nat /\ HeldOf(b, rest) \in Nat
        BY <1>8, <1>11
    <2>4. pool'.ref[b] = Uses(b, table, Requests) + HeldOf(b, rest)
        BY <2>1, <2>2, <2>3
    <2> QED BY <1>17, <2>4
<1>19. Accounted'
    BY <1>16, <1>18 DEF Accounted
<1>20. table' \in Tables' /\ cachedN' \in [Requests -> Nat]
    BY <1>16 DEF PoolInv, Tables
<1> QED BY <1>13, <1>15, <1>16, <1>17, <1>19, <1>20 DEF PoolInv

\* The tables of distinct requests, in any order.
LEMMA TablesOf ==
    ASSUME config \in Configs, PoolInv, NEW s \in Seq(Requests), IsInjective(s), NEW b
    PROVE  /\ [i \in DOMAIN s |-> table[s[i]]] \in Seq(Seq(Usable))
           /\ Len([i \in DOMAIN s |-> table[s[i]]]) = Len(s)
           /\ Uses(b, [i \in DOMAIN s |-> table[s[i]]], 1..Len(s)) = Uses(b, table, Range(s))
<1> DEFINE n == Len(s)
           U == Seq(Usable)
           ts == [i \in DOMAIN s |-> table[s[i]]]
<1>1. n \in Nat /\ DOMAIN s = 1..n /\ \A i \in 1..n : s[i] \in Requests
    OBVIOUS
<1>2. \A r \in Requests : table[r] \in U
    BY PoolFacts
<1> HIDE DEF n, U
<1>3. ts = [i \in 1..n |-> table[s[i]]] /\ \A i \in 1..n : table[s[i]] \in U
    BY <1>1, <1>2
<1>4. ts \in Seq(U) /\ Len(ts) = n /\ \A i \in 1..n : ts[i] = table[s[i]]
    BY <1>1, <1>3
<1> HIDE DEF ts
<1>5. Family(ts, 1..n, Usable) /\ Renames(s, ts, table, 1..n)
    BY <1>3, <1>4 DEF Family, Renames, U
<1>6. s \in Bijection(1..n, Range(s))
    BY <1>1 DEF Bijection, Injection, Surjection, IsInjective, Range
<1>7. IsFiniteSet(1..n)
    BY <1>1, FS_Interval
<1>8. Uses(b, ts, 1..n) = Uses(b, table, Range(s))
    <2> DEFINE D == 1..n
               R == Range(s)
    <2>1. /\ Family(ts, D, Usable) /\ Renames(s, ts, table, D)
          /\ s \in Bijection(D, R) /\ IsFiniteSet(D)
        BY <1>5, <1>6, <1>7
    <2> HIDE DEF D, R
    <2>2. Uses(b, ts, D) = Uses(b, table, R)
        BY <2>1, UsesRenamed
    <2> QED BY <2>2 DEF D, R
<1> QED BY <1>4, <1>8 DEF n, U, ts

\* The tables, without those of the requests N.
Cleared(now, N) ==
    /\ now \in Tables
    /\ \A r \in Requests : r \in N => now[r] = <<>>
    /\ \A r \in Requests : r \notin N => now[r] = table[r]

\* The references of the requests that lose their tables, and of the others.
LEMMA TablesTaken ==
    ASSUME config \in Configs, PoolInv, NEW F \in SUBSET Requests, NEW L \in SUBSET Requests,
           F \cap L = {}, NEW now, Cleared(now, F \cup L), NEW b
    PROVE  /\ Uses(b, table, Requests)
                 = Uses(b, table, F) + Uses(b, table, L) + Uses(b, now, Requests)
           /\ Uses(b, table, F) \in Nat /\ Uses(b, table, L) \in Nat
           /\ Uses(b, now, Requests) \in Nat
<1> DEFINE K == Requests \ (F \cup L)
           N == F \cup L
<1>1. /\ IsFiniteSet(Requests) /\ IsFiniteSet(F) /\ IsFiniteSet(L) /\ IsFiniteSet(K)
      /\ IsFiniteSet(N) /\ N \cap K = {} /\ N \cup K = Requests /\ N \cup K \subseteq Requests
    BY RequestsFinite, FS_Subset
<1>2. \A r \in Requests : table[r] \in Seq(Usable)
    BY PoolFacts
<1>3. \A r \in Requests : now[r] \in Seq(Usable)
    BY DEF Cleared, Tables
<1>4. Family(table, N \cup K, Usable) /\ Family(table, F \cup L, Usable)
    BY <1>1, <1>2 DEF Family
<1>5. Family(now, N \cup K, Usable)
    BY <1>1, <1>3 DEF Family
<1>6. Uses(b, table, F \cup L) = Uses(b, table, F) + Uses(b, table, L)
    BY <1>1, <1>4, UsesSplit
<1>7. PlacesIn(b, now, K) = PlacesIn(b, table, K)
    BY DEF PlacesIn, Cleared
<1>8. Uses(b, now, N) = 0
    <2>1. \A r \in N : now[r] \in Seq(Usable) /\ now[r] = <<>>
        BY <1>3 DEF Cleared
    <2> HIDE DEF N
    <2> QED BY <1>1, <2>1, UsesType
<1>9. Uses(b, table, F) \in Nat /\ Uses(b, table, L) \in Nat /\ Uses(b, table, K) \in Nat
    BY <1>1, <1>2, UsesType
<1> HIDE DEF N, K
<1>10. Uses(b, table, N \cup K) = Uses(b, table, N) + Uses(b, table, K)
    BY <1>1, <1>4, UsesSplit
<1>11. Uses(b, now, N \cup K) = Uses(b, now, N) + Uses(b, now, K)
    BY <1>1, <1>5, UsesSplit
<1>12. Uses(b, now, K) = Uses(b, table, K)
    BY <1>7 DEF Uses
<1>13. Uses(b, table, N) = Uses(b, table, F) + Uses(b, table, L)
    BY <1>6 DEF N
<1>14. N \cup K = Requests
    BY <1>1
<1> DEFINE x == Uses(b, table, F)
           y == Uses(b, table, L)
           z == Uses(b, table, K)
<1>15. /\ x \in Nat /\ y \in Nat /\ z \in Nat
       /\ Uses(b, table, Requests) = (x + y) + z /\ Uses(b, now, Requests) = 0 + z
    BY <1>8, <1>9, <1>10, <1>11, <1>12, <1>13, <1>14
<1> HIDE DEF x, y, z
<1>16. /\ Uses(b, table, Requests) = x + y + Uses(b, now, Requests)
       /\ Uses(b, now, Requests) \in Nat
    BY <1>15
<1> QED BY <1>9, <1>16 DEF x, y

\* reset_prefix_cache: the running requests lose their tables, to the free queue
\* or to deferred frees.
LEMMA ResetBlocksKept ==
    ASSUME config \in Configs, PoolInv, queue \in Seq(Range(queue)),
           running \in Seq(Requests), IsInjective(running), NEW mid,
           mid = ResetBlocks.pool, pool' = mid \/ pool' = ResetHashes(mid),
           deferred' = ResetBlocks.deferred, Cleared(table', Range(running)),
           cachedN' \in [Requests -> Nat], config' = config
    PROVE  PoolInv'
<1> DEFINE rs == Range(running)
           F == {r \in rs : MayFreeNow(r)}
           L == {r \in rs \ F : table[r] # <<>>}
           now == Filter(Preempting, F)
           later == Filter(Preempting, L)
           ts == [i \in DOMAIN now |-> table[now[i]]]
           e(i) == [fence |-> Ahead, blocks |-> table[later[i]]]
           late == [i \in DOMAIN later |-> e(i)]
           held == [i \in DOMAIN later |-> table[later[i]]]
<1>1. mid = FreeTables(pool, ts) /\ deferred' = deferred \o late
    BY DEF ResetBlocks
<1>2. /\ rs \in SUBSET Requests /\ F \in SUBSET rs /\ L \in SUBSET rs /\ F \cap L = {}
      /\ \A r \in rs : r \notin F \cup L => table[r] = <<>>
    BY DEF Range
<1> HIDE DEF F, L
<1>3. Preempting \in Seq(Requests) /\ Range(Preempting) = rs /\ IsInjective(Preempting)
    BY ReverseCount DEF Preempting
<1>4. /\ now \in Seq(Requests) /\ IsInjective(now) /\ Range(now) = F
      /\ later \in Seq(Requests) /\ IsInjective(later) /\ Range(later) = L
    <2>1. /\ now \in Seq(Requests) /\ IsInjective(now) /\ Range(now) = rs \cap F
          /\ later \in Seq(Requests) /\ IsInjective(later) /\ Range(later) = rs \cap L
        BY <1>3, FilterFacts
    <2>2. rs \cap F = F /\ rs \cap L = L
        BY <1>2
    <2> QED BY <2>1, <2>2
<1> HIDE DEF now, later
<1>5. /\ ts \in Seq(Seq(Usable)) /\ Len(ts) = Len(now)
      /\ \A b : Uses(b, ts, 1..Len(ts)) = Uses(b, table, F)
    <2>1. \A b : /\ ts \in Seq(Seq(Usable)) /\ Len(ts) = Len(now)
                 /\ Uses(b, ts, 1..Len(now)) = Uses(b, table, Range(now))
        BY <1>4, TablesOf
    <2> HIDE DEF ts
    <2> QED BY <1>4, <2>1
<1>6. /\ held \in Seq(Seq(Usable)) /\ Len(held) = Len(later)
      /\ \A b : Uses(b, held, 1..Len(later)) = Uses(b, table, L)
    <2>1. \A b : /\ held \in Seq(Seq(Usable)) /\ Len(held) = Len(later)
                 /\ Uses(b, held, 1..Len(later)) = Uses(b, table, Range(later))
        BY <1>4, TablesOf
    <2> HIDE DEF held
    <2> QED BY <1>4, <2>1
<1>7. late \in Seq(Frees(Usable)) /\ \A b : HeldOf(b, late) = Uses(b, table, L)
    <2> DEFINE n == Len(later)
    <2>1. n \in Nat /\ DOMAIN later = 1..n /\ \A i \in 1..n : later[i] \in Requests
        BY <1>4
    <2>2. \A i \in 1..n : e(i) \in Frees(Usable) /\ e(i).blocks = table[later[i]]
        <3>1. \A r \in Requests : table[r] \in Seq(Usable)
            BY PoolFacts
        <3> QED BY <2>1, <3>1, AheadKnown DEF Frees
    <2> DEFINE S == Frees(Usable)
    <2>3. \A i \in 1..n : e(i) \in S
        BY <2>2
    <2> HIDE DEF S, n, e
    <2>4. late \in Seq(S) /\ Len(late) = n
        BY <2>1, <2>3
    <2>5. BlocksIn(late) = held
        BY <2>1, <2>2 DEF BlocksIn
    <2> HIDE DEF held, late
    <2> QED BY <1>6, <2>4, <2>5 DEF HeldOf, S, n
<1> HIDE DEF late, ts, held
<1>8. /\ deferred' \in Seq(Frees(Usable))
      /\ \A b : HeldOf(b, deferred') = HeldOf(b, deferred) + Uses(b, table, L)
    <2>1. deferred \in Seq(Frees(Usable))
        BY DEF PoolInv
    <2>2. \A b : /\ deferred \o late \in Seq(Frees(Usable))
                 /\ HeldOf(b, deferred \o late) = HeldOf(b, deferred) + HeldOf(b, late)
        BY <1>7, <2>1, HeldJoined
    <2> QED BY <1>1, <1>7, <2>2
<1>9. \A b : /\ Uses(b, table, Requests)
                  = Uses(b, table, F) + Uses(b, table, L) + Uses(b, table', Requests)
             /\ Uses(b, table, F) \in Nat /\ Uses(b, table, L) \in Nat
             /\ Uses(b, table', Requests) \in Nat
    <2>1. Cleared(table', F \cup L)
        BY <1>2 DEF Cleared
    <2>2. F \in SUBSET Requests /\ L \in SUBSET Requests /\ F \cap L = {}
        BY <1>2
    <2> DEFINE after == table'
    <2> HIDE DEF after
    <2>3. Cleared(after, F \cup L)
        BY <2>1 DEF after
    <2>4. \A b : /\ Uses(b, table, Requests)
                      = Uses(b, table, F) + Uses(b, table, L) + Uses(b, after, Requests)
                 /\ Uses(b, table, F) \in Nat /\ Uses(b, table, L) \in Nat
                 /\ Uses(b, after, Requests) \in Nat
        BY <2>2, <2>3, TablesTaken
    <2> QED BY <2>4 DEF after
<1>10. ts \in Seq(Seq(AllBlocks))
    <2> DEFINE A == Seq(AllBlocks)
               U == Seq(Usable)
    <2>1. U \subseteq A
        BY DEF Usable
    <2> HIDE DEF A, U
    <2>2. ts \in Seq(U)
        BY <1>5 DEF U
    <2>3. ts \in Seq(A)
        BY <2>1, <2>2
    <2> QED BY <2>3 DEF A
<1>11. PoolKept(pool, AllBlocks) /\ \A b : HeldOf(b, deferred) \in Nat
    <2>1. deferred \in Seq(Frees(Usable))
        BY DEF PoolInv
    <2> QED BY <2>1, HeldFacts DEF PoolInv
<1>12. \A b \in Usable : pool.ref[b] = Uses(b, table, Requests) + HeldOf(b, deferred)
    BY DEF PoolInv, Accounted
<1>13. /\ PoolKept(mid, AllBlocks)
       /\ \A b \in Usable : mid.ref[b] = pool.ref[b] - Uses(b, table, F)
    <2>1. \A b \in AllBlocks \ {Null} : Uses(b, ts, 1..Len(ts)) <= pool.ref[b]
        <3> TAKE b \in AllBlocks \ {Null}
        <3> DEFINE x == Uses(b, table, F)
                   y == Uses(b, table, L)
                   z == Uses(b, table', Requests)
                   u == HeldOf(b, deferred)
        <3>1. /\ x \in Nat /\ y \in Nat /\ z \in Nat /\ u \in Nat
              /\ pool.ref[b] = (x + y + z) + u /\ Uses(b, ts, 1..Len(ts)) = x
            BY <1>5, <1>9, <1>11, <1>12 DEF Usable
        <3> HIDE DEF x, y, z, u
        <3> QED BY <3>1
    <2>2. /\ PoolKept(FreeTables(pool, ts), AllBlocks)
          /\ \A b \in AllBlocks \ {Null} :
                FreeTables(pool, ts).ref[b] = pool.ref[b] - Uses(b, ts, 1..Len(ts))
        BY <1>10, <1>11, <2>1, TablesFreed
    <2> QED BY <1>1, <1>5, <2>2 DEF Usable
<1>14. PoolKept(pool', AllBlocks) /\ pool'.ref = mid.ref
    <2>1. CASE pool' = mid
        BY <1>13, <2>1
    <2>2. CASE pool' = ResetHashes(mid)
        <3>1. config.numBlocks \in Nat \ {0}
            BY ConfigKnown
        <3>2. PoolKept(ResetHashes(mid), AllBlocks) /\ ResetHashes(mid).ref = mid.ref
            BY <1>13, <3>1, ResetKept DEF AllBlocks
        <3> QED BY <2>2, <3>2
    <2> QED BY <2>1, <2>2
<1>15. AllBlocks' = AllBlocks /\ Usable' = Usable /\ Tables' = Tables
    BY DEF AllBlocks, Usable, Tables
<1>16. \A b \in Usable : pool'.ref[b] = Uses(b, table', Requests) + HeldOf(b, deferred')
    <2> TAKE b \in Usable
    <2> DEFINE x == Uses(b, table, F)
               y == Uses(b, table, L)
               z == Uses(b, table', Requests)
               u == HeldOf(b, deferred)
    <2>1. /\ x \in Nat /\ y \in Nat /\ z \in Nat /\ u \in Nat
          /\ pool'.ref[b] = ((x + y + z) + u) - x /\ HeldOf(b, deferred') = u + y
        BY <1>8, <1>9, <1>11, <1>12, <1>13, <1>14
    <2> HIDE DEF x, y, z, u
    <2>2. ((x + y + z) + u) - x = z + (u + y)
        BY <2>1
    <2>3. pool'.ref[b] = z + HeldOf(b, deferred')
        BY <2>1, <2>2
    <2> QED BY <2>3 DEF z
<1>17. Accounted'
    BY <1>15, <1>16 DEF Accounted
<1>18. table' \in Tables'
    BY <1>15 DEF Cleared
<1> QED BY <1>8, <1>14, <1>15, <1>17, <1>18 DEF PoolInv

-----------------------------------------------------------------------------
(* The steps of the scheduler.                                             *)

LEMMA InitKept ==
    ASSUME Init
    PROVE  IInv
<1> USE DEF Init
<1>1. config \in Configs /\ config.numBlocks \in Nat \ {0} /\ BlockSize \in Nat \ {0}
    BY ConfigKnown, SchedAssumption, PoolAssumption
<1>2. PoolInv
    <2>1. PoolKept(pool, AllBlocks) /\ \A b \in AllBlocks : pool.ref[b] = 0
        <3> DEFINE n == config.numBlocks
        <3>1. PoolKept(NewPool(n), 0..(n - 1)) /\ \A b \in 0..(n - 1) : NewPool(n).ref[b] = 0
            BY <1>1, NewPoolKept
        <3> QED BY <3>1 DEF AllBlocks
    <2>2. table \in Tables /\ cachedN \in [Requests -> Nat]
        BY DEF Tables
    <2>3. deferred \in Seq(Frees(Usable)) /\ 1..Len(deferred) = {}
        OBVIOUS
    <2>4. \A b : Uses(b, table, Requests) = 0
        <3>1. \A r \in Requests : table[r] \in Seq(Usable) /\ table[r] = <<>>
            OBVIOUS
        <3> QED BY <3>1, RequestsFinite, UsesType
    <2>5. \A b : HeldOf(b, deferred) = 0
        <3>1. \A b, f : PlacesIn(b, f, {}) = {}
            BY DEF PlacesIn
        <3> QED BY <2>3, <3>1, FS_EmptySet DEF HeldOf, Uses
    <2>6. Accounted
        BY <2>1, <2>4, <2>5 DEF Accounted, Usable
    <2> QED BY <2>1, <2>2, <2>3, <2>6 DEF PoolInv
<1>3. ListInv
    <2>1. running \in Seq(Requests) /\ IsInjective(running) /\ Range(running) = {}
          /\ waiting \in Seq(Requests) /\ IsInjective(waiting) /\ Range(waiting) = {}
        BY DEF IsInjective, Range
    <2> QED BY <2>1 DEF ListInv
<1>4. CountInv
    <2>1. \A r \in Requests : outputs[r] = <<>> /\ outputs[r] \in Seq(Range(outputs[r]))
        BY DEF Range
    <2>2. \A r \in Requests : Prompt[r] \in Nat \ {0} /\ MaxTokens[r] \in Nat \ {0}
        BY <1>1, ConfigKnown
    <2>3. \A r \in Requests : /\ computed[r] = 0 /\ holders[r] = 0
                              /\ BlockSize * Len(table[r]) = 0
                              /\ NumTokens(r) = Prompt[r]
        BY <1>1, <2>1, <2>2 DEF NumTokens
    <2> QED BY <2>1, <2>2, <2>3 DEF CountInv
<1>5. BatchInv
    <2>1. batch = <<>> /\ batch \in Seq(Range(batch)) /\ Range(batch) = {} /\ Len(batch) = 0
        BY DEF Range
    <2> QED BY <2>1 DEF BatchInv
<1>6. FrameInv
    <2>1. /\ queue \in Seq(Range(queue)) /\ DOMAIN queue = {}
          /\ out \in Seq(Range(out)) /\ Range(out) = {}
        BY DEF Range
    <2> QED BY <2>1 DEF FrameInv
<1>7. NumberInv
    BY DEF NumberInv
<1>8. TurnInv
    BY DEF Init, TurnInv
<1> QED BY <1>1, <1>2, <1>3, <1>4, <1>5, <1>6, <1>7, <1>8 DEF IInv

\* A part of the invariant stays when what it speaks of does.
LEMMA PoolSame ==
    ASSUME PoolInv, UNCHANGED <<config, pool, table, cachedN, deferred>>
    PROVE  PoolInv'
BY DEF PoolInv, Accounted, AllBlocks, Usable, Tables

LEMMA ListSame ==
    ASSUME ListInv, UNCHANGED <<running, waiting, status>>
    PROVE  ListInv'
BY DEF ListInv

LEMMA CountSame ==
    ASSUME CountInv, UNCHANGED <<config, computed, holders, outputs, status, table>>
    PROVE  CountInv'
BY DEF CountInv, NumTokens, Prompt, MaxTokens

LEMMA FramedSame ==
    ASSUME NEW f, Framed(f), UNCHANGED <<config, running, computed, holders, outputs, table>>
    PROVE  Framed(f)'
BY DEF Framed, NumTokens, Prompt

LEMMA FrameSame ==
    ASSUME FrameInv, UNCHANGED <<queue, out>>
    PROVE  FrameInv'
BY DEF FrameInv

LEMMA NumberSame ==
    ASSUME NumberInv, UNCHANGED <<drafted, budget>>
    PROVE  NumberInv'
BY DEF NumberInv

\* What is left of a sequence without its first member.
LEMMA TailKept ==
    ASSUME NEW s, s \in Seq(Range(s)), s # <<>>
    PROVE  /\ Tail(s) \in Seq(Range(Tail(s))) /\ Range(Tail(s)) \subseteq Range(s)
           /\ Head(s) \in Range(s)
           /\ Len(Tail(s)) = Len(s) - 1 /\ Len(s) \in Nat
           /\ \A i \in DOMAIN Tail(s) : Tail(s)[i] = s[i + 1] /\ i + 1 \in DOMAIN s
<1> DEFINE n == Len(s)
           S == Range(s)
           t == Tail(s)
<1>1. s \in Seq(S) /\ n \in Nat \ {0} /\ DOMAIN s = 1..n /\ \A i \in 1..n : s[i] \in S
    <2>1. s \in Seq(S)
        OBVIOUS
    <2> HIDE DEF S
    <2> QED BY <2>1
<1>2. s[1] \in Range(s) /\ Head(s) = s[1]
    BY <1>1 DEF Range
<1> HIDE DEF S
<1>3. t \in Seq(S) /\ Len(t) = n - 1 /\ DOMAIN t = 1..(n - 1)
      /\ \A i \in 1..(n - 1) : t[i] = s[i + 1]
    BY <1>1
<1> HIDE DEF t, n
<1>4. \A i \in 1..(n - 1) : i + 1 \in 1..n
    BY <1>1
<1>5. Range(t) \subseteq S
    BY <1>1, <1>3, <1>4 DEF Range
<1>6. t \in Seq(Range(t))
    <2> DEFINE R == Range(t)
    <2>1. \A i \in 1..(n - 1) : t[i] \in R
        BY <1>3 DEF Range
    <2>2. t = [i \in 1..(n - 1) |-> t[i]]
        BY <1>3
    <2> HIDE DEF R
    <2>3. n - 1 \in Nat
        BY <1>1
    <2>4. [i \in 1..(n - 1) |-> t[i]] \in Seq(R)
        BY <2>1, <2>3
    <2> QED BY <2>2, <2>4 DEF R
<1> QED BY <1>1, <1>2, <1>3, <1>4, <1>5, <1>6 DEF t, n, S

\* Outside the loop over the running requests nobody asks for blocks.
LEMMA TurnOver ==
    ASSUME phase' # "running"
    PROVE  TurnInv'
BY DEF TurnInv

LEMMA BeginScheduleKept ==
    ASSUME IInv, BeginSchedule
    PROVE  IInv'
<1> USE DEF IInv
<1>1. /\ UNCHANGED <<config, pool, table, cachedN, deferred>>
      /\ UNCHANGED <<running, waiting, status>> /\ UNCHANGED <<computed, holders, outputs>>
      /\ drafted' = drafted /\ budget' = Budget
      /\ UNCHANGED <<queue, out>> /\ batch' = <<>> /\ idx' = 1 /\ phase' = "running"
    BY DEF BeginSchedule, blockVars
<1>2. BatchInv'
    <2>1. batch' \in Seq(Range(batch')) /\ Range(batch') = {} /\ Len(batch') = 0
        BY <1>1 DEF Range
    <2> QED BY <1>1, <2>1 DEF BatchInv
<1>3. NumberInv'
    BY <1>1, ConfigKnown DEF NumberInv
<1>3t. TurnInv'
    BY DEF TurnInv, BeginSchedule
<1> QED BY <1>3t, <1>1, <1>2, <1>3, PoolSame, ListSame, CountSame, FrameSame

LEMMA SkipRunningKept ==
    ASSUME IInv, SkipRunning
    PROVE  IInv'
<1> USE DEF IInv
<1>1. /\ UNCHANGED <<config, pool, table, cachedN, deferred>>
      /\ UNCHANGED <<running, waiting, status>> /\ UNCHANGED <<computed, holders, outputs>>
      /\ UNCHANGED <<queue, out>> /\ UNCHANGED <<drafted, budget>>
      /\ batch' = batch /\ idx' = idx + 1 /\ phase' = phase
    BY DEF SkipRunning, blockVars, reqVars
<1>2. BatchInv'
    <2>1. \A f \in Range(batch) : Framed(f)'
        BY <1>1, FramedSame DEF BatchInv
    <2>2. Len(batch) \in Nat
        BY DEF BatchInv
    <2> QED BY <1>1, <2>1, <2>2 DEF BatchInv
<1>3t. TurnInv'
    BY DEF TurnInv, SkipRunning, InLoop
<1> QED BY <1>3t, <1>1, <1>2, PoolSame, ListSame, CountSame, FrameSame, NumberSame

LEMMA EndRunningKept ==
    ASSUME IInv, EndRunning
    PROVE  IInv'
<1> USE DEF IInv
<1>1. /\ UNCHANGED <<config, pool, table, cachedN, deferred>>
      /\ UNCHANGED <<running, waiting, status>> /\ UNCHANGED <<computed, holders, outputs>>
      /\ UNCHANGED <<queue, out>> /\ UNCHANGED <<drafted, budget>>
      /\ batch' = batch /\ idx' = idx /\ phase' = "waiting"
    BY DEF EndRunning, blockVars, reqVars, schedVars
<1>2. BatchInv'
    <2>1. \A f \in Range(batch) : Framed(f)'
        BY <1>1, FramedSame DEF BatchInv
    <2> QED BY <1>1, <2>1 DEF BatchInv
<1> QED BY <1>1, <1>2, PoolSame, ListSame, CountSame, FrameSame, NumberSame, TurnOver

\* Outside schedule() there is no batch, so nothing that changes then can break
\* its frames.
LEMMA NoBatch ==
    ASSUME BatchInv, phase \notin {"running", "waiting"}, batch' = batch, idx' = idx,
           phase' \notin {"running", "waiting"}
    PROVE  BatchInv'
<1>1. batch' = <<>> /\ batch' \in Seq(Range(batch')) /\ Range(batch') = {}
    BY DEF BatchInv, Range
<1> QED BY <1>1 DEF BatchInv

LEMMA EndUpdateKept ==
    ASSUME IInv, EndUpdate
    PROVE  IInv'
<1> USE DEF IInv
<1>1. /\ UNCHANGED <<config, pool, table, cachedN, deferred>>
      /\ UNCHANGED <<running, waiting, status>> /\ UNCHANGED <<computed, holders, outputs>>
      /\ UNCHANGED <<queue, out>> /\ UNCHANGED <<drafted, budget>>
      /\ batch' = batch /\ idx' = idx
      /\ phase = "update" /\ phase' = "idle"
    BY DEF EndUpdate, blockVars, reqVars, schedVars
<1>2. BatchInv'
    BY <1>1, NoBatch
<1> QED BY <1>1, <1>2, PoolSame, ListSame, CountSame, FrameSame, NumberSame, TurnOver

\* One frame less to update.
LEMMA OneLess ==
    ASSUME FrameInv, out # <<>>, queue' = queue, out' = Tail(out)
    PROVE  FrameInv'
<1>1. out \in Seq(Range(out))
    BY DEF FrameInv
<1>2. out' \in Seq(Range(out')) /\ Range(out') \subseteq Range(out)
    BY <1>1, TailKept
<1> QED BY <1>2 DEF FrameInv

LEMMA UpdateDropKept ==
    ASSUME IInv, UpdateSkip \/ UpdateDiscard
    PROVE  IInv'
<1> USE DEF IInv
<1>1. /\ UNCHANGED <<config, pool, table, cachedN, deferred>>
      /\ UNCHANGED <<running, waiting, status>> /\ UNCHANGED <<computed, holders, outputs>>
      /\ UNCHANGED <<drafted, budget>>
      /\ queue' = queue /\ out # <<>> /\ out' = Tail(out) /\ batch' = batch /\ idx' = idx
      /\ phase = "update" /\ phase' = phase
    BY DEF UpdateSkip, UpdateDiscard, Updating, blockVars, reqVars, schedVars
<1>2. BatchInv'
    BY <1>1, NoBatch
<1> QED BY <1>1, <1>2, PoolSame, ListSame, CountSame, OneLess, NumberSame, TurnOver

\* A request that ends leaves its list.
LEMMA ListsLeft ==
    ASSUME ListInv, NEW r \in Requests,
           running' = Without(running, r), waiting' = Without(waiting, r),
           status' = [status EXCEPT ![r] = "finished"]
    PROVE  ListInv'
<1>1. /\ running' \in Seq(Requests) /\ IsInjective(running')
      /\ Range(running') = Range(running) \ {r}
      /\ waiting' \in Seq(Requests) /\ IsInjective(waiting')
      /\ Range(waiting') = Range(waiting) \ {r}
    <2>1. /\ running \in Seq(Requests) /\ IsInjective(running)
          /\ waiting \in Seq(Requests) /\ IsInjective(waiting)
        BY DEF ListInv
    <2>2. /\ Without(running, r) \in Seq(Requests) /\ IsInjective(Without(running, r))
          /\ Range(Without(running, r)) = Range(running) \ {r}
        BY <2>1, WithoutFacts
    <2>3. /\ Without(waiting, r) \in Seq(Requests) /\ IsInjective(Without(waiting, r))
          /\ Range(Without(waiting, r)) = Range(waiting) \ {r}
        BY <2>1, WithoutFacts
    <2> QED BY <2>2, <2>3
<1>2. status' \in [Requests -> {"new", "waiting", "running", "finished"}]
    BY DEF ListInv
<1>3. \A q \in Range(running') : status'[q] = "running"
    <2>1. \A q \in Range(running') : q \in Requests
        BY <1>1 DEF Range
    <2> QED BY <1>1, <2>1 DEF ListInv
<1>4. \A q \in Range(waiting') : status'[q] = "waiting"
    <2>1. \A q \in Range(waiting') : q \in Requests
        BY <1>1 DEF Range
    <2> QED BY <1>1, <2>1 DEF ListInv
<1> QED BY <1>1, <1>2, <1>3, <1>4 DEF ListInv

LEMMA AbortKept ==
    ASSUME IInv, NEW r \in Requests, Abort(r)
    PROVE  IInv'
<1> USE DEF IInv
<1>1. /\ config' = config /\ FreeRequestBlocks(pool, r)
      /\ status' = [status EXCEPT ![r] = "finished"]
      /\ running' = Without(running, r) /\ waiting' = Without(waiting, r)
      /\ UNCHANGED <<computed, holders, outputs>> /\ UNCHANGED <<queue, out>> /\ UNCHANGED <<drafted, budget>>
     
      /\ batch' = batch /\ idx' = idx /\ phase \notin {"running", "waiting"} /\ phase' = phase
    BY DEF Abort, reqVars, schedVars
<1>2. PoolInv' /\ table' = [table EXCEPT ![r] = <<>>]
    <2>1. queue \in Seq(Range(queue)) /\ PoolKept(pool, AllBlocks)
        BY DEF FrameInv, PoolInv
    <2> QED BY <1>1, <2>1, FreeRequestKept
<1>3. ListInv'
    BY <1>1, ListsLeft
<1>4. CountInv'
    <2>1. \A q \in Requests : NumTokens(q)' = NumTokens(q) /\ MaxTokens' = MaxTokens
        BY <1>1 DEF NumTokens, Prompt, MaxTokens
    <2>2. \A q \in Requests : status'[q] # "finished" =>
              status[q] # "finished" /\ table'[q] = table[q]
        BY <1>1, <1>2 DEF ListInv, PoolInv, Tables
    <2> QED BY <1>1, <2>1, <2>2 DEF CountInv
<1> QED BY <1>1, <1>2, <1>3, <1>4, NoBatch, FrameSame, NumberSame, TurnOver

LEMMA AddRequestKept ==
    ASSUME IInv, NEW r \in Requests, AddRequest(r)
    PROVE  IInv'
<1> USE DEF IInv
<1>1. /\ UNCHANGED <<config, pool, table, cachedN, deferred>>
      /\ status[r] = "new" /\ status' = [status EXCEPT ![r] = "waiting"]
      /\ running' = running
      /\ ByPriority => waiting' = Prepended(waiting, r)
      /\ ~ByPriority => waiting' = Append(waiting, r)
      /\ UNCHANGED <<computed, holders, outputs>> /\ UNCHANGED <<queue, out>> /\ UNCHANGED <<drafted, budget>>
     
      /\ batch' = batch /\ idx' = idx /\ phase = "idle" /\ phase' = phase
    BY DEF AddRequest, reqVars, schedVars, blockVars
<1>2. waiting \in Seq(Requests) /\ IsInjective(waiting) /\ r \notin Range(waiting)
    BY <1>1 DEF ListInv
<1>3. /\ waiting' \in Seq(Requests) /\ IsInjective(waiting')
      /\ Range(waiting') = Range(waiting) \cup {r}
    <2>1. CASE ByPriority
        BY <1>1, <1>2, <2>1, PrependedKept
    <2>2. CASE ~ByPriority
        <3>1. waiting \in Seq(Requests) /\ IsInjective(waiting)
            BY <1>2
        <3>2. /\ Append(waiting, r) \in Seq(Requests)
              /\ Range(Append(waiting, r)) = Range(waiting) \cup {r}
              /\ IsInjective(waiting) /\ r \notin Range(waiting)
                    => IsInjective(Append(waiting, r))
            BY <3>1, InjectiveAppend
        <3> QED BY <1>1, <1>2, <2>2, <3>2
    <2> QED BY <2>1, <2>2
<1>4. ListInv'
    <2>1. \A q \in Range(running) : q \in Requests /\ q # r /\ status[q] = "running"
        BY <1>1 DEF ListInv, Range
    <2>2. \A q \in Range(waiting) : q \in Requests /\ q # r /\ status[q] = "waiting"
        BY <1>1 DEF ListInv, Range
    <2>3. status' \in [Requests -> {"new", "waiting", "running", "finished"}]
        BY <1>1 DEF ListInv
    <2>4. \A q \in Requests : q # r => status'[q] = status[q]
        BY <1>1 DEF ListInv
    <2>5. status'[r] = "waiting"
        BY <1>1 DEF ListInv
    <2> QED BY <1>1, <1>3, <2>1, <2>2, <2>3, <2>4, <2>5 DEF ListInv
<1>5. CountInv'
    <2>1. \A q \in Requests : status'[q] # "finished" => status[q] # "finished"
        BY <1>1 DEF ListInv
    <2> QED BY <1>1, <2>1 DEF CountInv, NumTokens, Prompt, MaxTokens
<1> QED BY <1>1, <1>4, <1>5, PoolSame, NoBatch, FrameSame, NumberSame, TurnOver

\* The frames of a step that has run are those whose results are processed.
LEMMA ProcessKept ==
    ASSUME IInv, Process
    PROVE  IInv'
<1> USE DEF IInv
<1> DEFINE s == Head(queue)
           past == [i \in DOMAIN deferred |-> [deferred[i] EXCEPT !.fence = @ - 1]]
           result(acc, i) == [req |-> s[i].req, emits |-> s[i].emits,
                              sample |-> s[i].sample, spec |-> s[i].spec,
                              base |-> Base(gen, s[i]), acc |-> acc[i]]
<1>1. /\ config' = config /\ table' = table /\ cachedN' = cachedN
      /\ UNCHANGED <<running, waiting, status>> /\ UNCHANGED <<computed, holders, outputs>>
      /\ UNCHANGED <<drafted, budget>>
      /\ batch' = batch /\ idx' = idx
      /\ phase \notin {"running", "waiting"} /\ phase' = "update"
      /\ queue # <<>> /\ queue' = Tail(queue)
      /\ \E acc \in [DOMAIN s -> 0..Drafts] :
            /\ \A i \in DOMAIN s : acc[i] <= s[i].spec
            /\ out' = [i \in DOMAIN s |-> result(acc, i)]
      /\ s = <<>> => deferred' = deferred /\ pool' = pool
      /\ s # <<>> => /\ pool' = Drained(pool, past)
                     /\ deferred' = SubSeq(past, DrainedCount(past) + 1, Len(past))
    BY DEF Process, reqVars, schedVars
<1>2. PoolInv'
    <2>1. CASE s = <<>>
        BY <1>1, <2>1, PoolSame
    <2>2. CASE s # <<>>
        <3> DEFINE d == past
        <3>1. d = [i \in DOMAIN deferred |-> [deferred[i] EXCEPT !.fence = @ - 1]]
            OBVIOUS
        <3> HIDE DEF d
        <3>2. /\ pool' = Drained(pool, d)
              /\ deferred' = SubSeq(d, DrainedCount(d) + 1, Len(d))
            BY <1>1, <2>2 DEF d
        <3> QED BY <1>1, <3>1, <3>2, DrainKept
    <2> QED BY <2>1, <2>2
<1>3. FrameInv'
    <2>1. /\ queue \in Seq(Range(queue))
          /\ \A i \in DOMAIN queue :
                /\ queue[i] \in Seq(Range(queue[i]))
                /\ \A f \in Range(queue[i]) : f.req \in Requests /\ f.spec \in Nat
        BY DEF FrameInv
    <2>2. /\ queue' \in Seq(Range(queue'))
          /\ \A i \in DOMAIN queue' : queue'[i] = queue[i + 1] /\ i + 1 \in DOMAIN queue
        BY <1>1, <2>1, TailKept
    <2>3. s = queue[1] /\ 1 \in DOMAIN queue
        BY <1>1, <2>1
    <2>4. /\ s \in Seq(Range(s))
          /\ \A i \in DOMAIN s : s[i].req \in Requests /\ s[i].spec \in Nat
        BY <2>1, <2>3 DEF Range
    <2> HIDE DEF s
    <2>5. PICK acc \in [DOMAIN s -> 0..Drafts] :
             /\ \A i \in DOMAIN s : acc[i] <= s[i].spec
             /\ out' = [i \in DOMAIN s |-> result(acc, i)]
        BY <1>1
    <2>6. \A i \in DOMAIN s : acc[i] \in Nat /\ acc[i] <= s[i].spec
        <3>1. Drafts \in Nat
            BY ConfigKnown
        <3> QED BY <2>5, <3>1
    <2>7. \A f \in Range(out') : /\ f.req \in Requests /\ f.spec \in Nat /\ f.acc \in Nat
                                 /\ f.acc <= f.spec
        <3> TAKE f \in Range(out')
        <3>1. PICK i \in DOMAIN s : f = result(acc, i)
            BY <2>5 DEF Range
        <3> QED BY <2>4, <2>6, <3>1
    <2>8. out' \in Seq(Range(out'))
        <3> DEFINE R == Range(out')
                   n == Len(s)
        <3>1. n \in Nat /\ DOMAIN s = 1..n
            BY <2>4
        <3>2. \A i \in 1..n : out'[i] \in R
            BY <2>5, <3>1 DEF Range
        <3>3. out' = [i \in 1..n |-> out'[i]]
            BY <2>5, <3>1
        <3> HIDE DEF R, n
        <3>4. [i \in 1..n |-> out'[i]] \in Seq(R)
            BY <3>1, <3>2
        <3> QED BY <3>3, <3>4 DEF R
    <2> QED BY <2>1, <2>2, <2>7, <2>8 DEF FrameInv
<1>4. BatchInv'
    BY <1>1, NoBatch
<1> QED BY <1>1, <1>2, <1>3, <1>4, ListSame, CountSame, NumberSame, TurnOver

LEMMA ResetStepKept ==
    ASSUME IInv, Reset
    PROVE  IInv'
<1> USE DEF IInv
<1> DEFINE rs == Range(running)
           mid == ResetBlocks.pool
<1>1. /\ config' = config /\ deferred' = ResetBlocks.deferred
      /\ pool' = mid \/ pool' = ResetHashes(mid)
      /\ table' = [r \in Requests |-> IF r \in rs THEN <<>> ELSE table[r]]
      /\ cachedN' = [r \in Requests |-> IF r \in rs THEN 0 ELSE cachedN[r]]
      /\ computed' = [r \in Requests |-> IF r \in rs THEN 0 ELSE computed[r]]
      /\ holders' = [r \in Requests |-> IF r \in rs THEN 0 ELSE holders[r]]
      /\ drafted' = [r \in Requests |-> IF r \in rs THEN 0 ELSE drafted[r]] /\ budget' = budget
      /\ status' = [r \in Requests |-> IF r \in rs THEN "waiting" ELSE status[r]]
      /\ waiting' = PrependAll(waiting, Preempting) /\ running' = <<>>
      /\ outputs' = outputs /\ UNCHANGED <<queue, out>> /\ batch' = batch /\ idx' = idx
      /\ phase = "idle" /\ phase' = phase
    BY DEF Reset, PrependAll, schedVars
<1>2. /\ running \in Seq(Requests) /\ IsInjective(running)
      /\ waiting \in Seq(Requests) /\ IsInjective(waiting)
      /\ rs \in SUBSET Requests
      /\ status \in [Requests -> {"new", "waiting", "running", "finished"}]
      /\ \A r \in rs : status[r] = "running"
      /\ \A r \in Range(waiting) : status[r] = "waiting" /\ r \in Requests
    BY DEF ListInv, Range
<1> HIDE DEF rs, mid
<1>3. PoolInv'
    <2>1. \A r \in Requests : table[r] \in Seq(Usable) /\ cachedN[r] \in Nat
        BY PoolFacts
    <2>2. Cleared(table', rs)
        <3>1. <<>> \in Seq(Usable)
            OBVIOUS
        <3> QED BY <1>1, <2>1, <3>1 DEF Cleared, Tables
    <2>3. cachedN' \in [Requests -> Nat]
        BY <1>1, <2>1
    <2>4. queue \in Seq(Range(queue))
        BY DEF FrameInv
    <2> QED BY <1>1, <1>2, <2>2, <2>3, <2>4, ResetBlocksKept DEF rs, mid
<1>4. ListInv'
    <2>1. Preempting \in Seq(Requests) /\ IsInjective(Preempting) /\ Range(Preempting) = rs
        BY <1>2, ReverseCount DEF Preempting, rs
    <2>2. Range(waiting) \cap Range(Preempting) = {}
        BY <1>2, <2>1
    <2>3. /\ PrependAll(waiting, Preempting) \in Seq(Requests)
          /\ IsInjective(PrependAll(waiting, Preempting))
          /\ Range(PrependAll(waiting, Preempting)) = Range(waiting) \cup Range(Preempting)
        BY <1>2, <2>1, <2>2, PrependAllKept
    <2>4. /\ waiting' \in Seq(Requests) /\ IsInjective(waiting')
          /\ Range(waiting') = Range(waiting) \cup rs
        BY <1>1, <2>1, <2>3
    <2>5. status' \in [Requests -> {"new", "waiting", "running", "finished"}]
        BY <1>1, <1>2
    <2>6. \A r \in Range(waiting') : status'[r] = "waiting"
        BY <1>1, <1>2, <2>4
    <2>7. running' \in Seq(Requests) /\ IsInjective(running') /\ Range(running') = {}
        BY <1>1 DEF IsInjective, Range
    <2> QED BY <2>4, <2>5, <2>6, <2>7 DEF ListInv
<1>5. CountInv'
    <2>1. \A r \in Requests : NumTokens(r)' = NumTokens(r) /\ NumTokens(r) \in Nat
        BY <1>1, TokensKnown DEF NumTokens, Prompt
    <2>2. computed' \in [Requests -> Int] /\ holders' \in [Requests -> Nat]
        BY <1>1 DEF CountInv
    <2>3. DOMAIN outputs' = Requests
          /\ \A r \in Requests : /\ outputs'[r] \in Seq(Range(outputs'[r]))
                                 /\ Len(outputs'[r]) <= MaxTokens'[r]
        BY <1>1 DEF CountInv, MaxTokens
    <2>4. ASSUME NEW r \in Requests, status'[r] # "finished"
          PROVE  /\ computed'[r] <= BlockSize * Len(table'[r])
                 /\ computed'[r] <= NumTokens(r)' + holders'[r]
        <3>1. CASE r \in rs
            <4>1. computed'[r] = 0 /\ table'[r] = <<>> /\ holders'[r] = 0
                BY <1>1, <3>1
            <4>2. BlockSize * Len(table'[r]) = 0
                BY <4>1, PoolFacts
            <4> QED BY <2>1, <4>1, <4>2
        <3>2. CASE r \notin rs
            <4>1. /\ computed'[r] = computed[r] /\ table'[r] = table[r]
                  /\ holders'[r] = holders[r] /\ status'[r] = status[r]
                BY <1>1, <3>2
            <4> QED BY <2>1, <2>4, <4>1 DEF CountInv
        <3> QED BY <3>1, <3>2
    <2> QED BY <2>2, <2>3, <2>4 DEF CountInv
<1>6. NumberInv'
    BY <1>1 DEF NumberInv
<1> QED BY <1>1, <1>3, <1>4, <1>5, <1>6, NoBatch, FrameSame, TurnOver

\* What fits into the budget is no more than what is asked for.
LEMMA ChunkKnown ==
    ASSUME config \in Configs, budget \in Int, NEW x \in Int
    PROVE  Chunk(x) \in Int /\ Chunk(x) <= x
<1>1. LongPrefill \in Int
    BY ConfigKnown
<1>2. CASE LongPrefill \in 1..x
    <2>1. Min({LongPrefill, budget}) \in Int /\ Min({LongPrefill, budget}) <= LongPrefill
        BY <1>1, MinOfTwo
    <2> QED BY <1>1, <1>2, <2>1 DEF Chunk
<1>3. CASE LongPrefill \notin 1..x
    <2>1. Min({x, budget}) \in Int /\ Min({x, budget}) <= x
        BY MinOfTwo
    <2> QED BY <1>3, <2>1 DEF Chunk
<1> QED BY <1>2, <1>3

\* The table of r grew to bs, and r has computed c of its tokens.
Grown(r, bs, c) ==
    /\ bs \in Seq(Usable) /\ table' = [table EXCEPT ![r] = bs]
    /\ Len(table[r]) <= Len(bs)
    /\ c \in Int /\ computed' = [computed EXCEPT ![r] = c]
    /\ c <= BlockSize * Len(bs) /\ c <= NumTokens(r) + holders[r]

LEMMA GrownTables ==
    ASSUME config \in Configs, PoolInv, NEW r \in Requests, NEW bs, NEW c, Grown(r, bs, c),
           NEW q \in Requests, NEW x \in Int, x <= BlockSize * Len(table[q])
    PROVE  x <= BlockSize * Len(table'[q])
<1>1. /\ table[q] \in Seq(Usable) /\ BlockSize \in Nat \ {0}
      /\ table \in [Requests -> Seq(Usable)]
    BY PoolFacts DEF PoolInv, Tables
<1>2. table'[q] \in Seq(Usable) /\ Len(table[q]) <= Len(table'[q])
    <2>1. Len(table[q]) \in Nat
        BY <1>1
    <2> QED BY <1>1, <2>1 DEF Grown
<1> DEFINE l == Len(table[q])
           m == Len(table'[q])
<1>3. l \in Int /\ m \in Int /\ l <= m
    BY <1>1, <1>2
<1> HIDE DEF l, m
<1> DEFINE y == BlockSize * l
           z == BlockSize * m
<1>4. y <= z /\ y \in Int /\ z \in Int
    BY <1>1, <1>3, TimesOrder
<1>5. x <= y
    BY DEF l
<1> HIDE DEF y, z
<1>6. x <= z
    BY <1>4, <1>5
<1> QED BY <1>6 DEF z, m

LEMMA CountGrown ==
    ASSUME config \in Configs, PoolInv, CountInv, ListInv, NEW r \in Requests, NEW bs, NEW c,
           Grown(r, bs, c), UNCHANGED <<config, holders, outputs>>,
           status' = status \/ (status[r] = "waiting" /\ status' = [status EXCEPT ![r] = "running"])
    PROVE  CountInv'
<1>1. \A q \in Requests : NumTokens(q)' = NumTokens(q) /\ MaxTokens' = MaxTokens
    BY DEF NumTokens, Prompt, MaxTokens
<1>2. computed' \in [Requests -> Int]
    BY DEF Grown, CountInv
<1>3. \A q \in Requests : status'[q] # "finished" => status[q] # "finished"
    BY DEF ListInv
<1>4. ASSUME NEW q \in Requests, status'[q] # "finished"
      PROVE  computed'[q] <= BlockSize * Len(table'[q]) /\ computed'[q] <= NumTokens(q) + holders[q]
    <2>1. CASE q = r
        <3>1. computed'[q] = c /\ table'[q] = bs
            BY <2>1 DEF Grown, CountInv, PoolInv, Tables
        <3> QED BY <2>1, <3>1 DEF Grown
    <2>2. CASE q # r
        <3>1. /\ computed'[q] = computed[q] /\ computed[q] \in Int
              /\ computed[q] <= BlockSize * Len(table[q])
              /\ computed[q] <= NumTokens(q) + holders[q]
            BY <1>3, <1>4, <2>2 DEF Grown, CountInv
        <3>2. computed[q] <= BlockSize * Len(table'[q])
            BY <3>1, GrownTables
        <3> QED BY <3>1, <3>2
    <2> QED BY <2>1, <2>2
<1> QED BY <1>1, <1>2, <1>4 DEF CountInv

\* A frame of the batch stays within its request when tables grow.
LEMMA FramedGrown ==
    ASSUME config \in Configs, PoolInv, ListInv, NEW r \in Requests, NEW bs, NEW c, Grown(r, bs, c),
           NEW f, Framed(f), UNCHANGED <<config, holders, outputs>>,
           Range(running) \subseteq Range(running'), computed'[f.req] = computed[f.req]
    PROVE  Framed(f)'
<1>1. f.req \in Requests /\ f.start + f.n \in Int
    BY DEF Framed, ListInv, Range
<1>2. f.start + f.n <= BlockSize * Len(table'[f.req])
    <2>1. f.start + f.n <= BlockSize * Len(table[f.req])
        BY DEF Framed
    <2> DEFINE x == f.start + f.n
    <2> HIDE DEF x
    <2>2. x \in Int /\ x <= BlockSize * Len(table[f.req])
        BY <1>1, <2>1 DEF x
    <2>3. x <= BlockSize * Len(table'[f.req])
        BY <1>1, <2>2, GrownTables
    <2> QED BY <2>3 DEF x
<1>3. NumTokens(f.req)' = NumTokens(f.req)
    BY DEF NumTokens, Prompt
<1> QED BY <1>2, <1>3 DEF Framed

LEMMA OneMore ==
    ASSUME NEW s, s \in Seq(Range(s)), NEW x
    PROVE  /\ Append(s, x) \in Seq(Range(Append(s, x)))
           /\ Range(Append(s, x)) = Range(s) \cup {x}
           /\ Len(Append(s, x)) = Len(s) + 1 /\ Len(s) \in Nat
<1> DEFINE T == Range(s) \cup {x}
           S == Range(s)
<1>1. s \in Seq(S) /\ S \subseteq T /\ x \in T
    OBVIOUS
<1> HIDE DEF S, T
<1>2. s \in Seq(T) /\ x \in T
    BY <1>1
<1>3. Append(s, x) \in Seq(T) /\ Range(Append(s, x)) = Range(s) \cup {x}
    BY <1>2, InjectiveAppend
<1>4. Len(Append(s, x)) = Len(s) + 1 /\ Len(s) \in Nat
    BY <1>2
<1> QED BY <1>3, <1>4 DEF T

\* The request whose turn it is runs; it is taken up to the budget.
LEMMA TurnKnown ==
    ASSUME IInv, InTurn
    PROVE  /\ Turn.req \in Range(running) /\ Turn.n \in Int
           /\ phase = "running" /\ idx \in Nat /\ idx > Len(batch)
<1> USE DEF IInv
<1>1. phase = "running" /\ idx \in Nat /\ idx > Len(batch) /\ Len(batch) \in Nat
    BY DEF InTurn, InLoop, BatchInv
<1>2. CASE turn # NoTurn
    BY <1>1, <1>2 DEF Turn, TurnInv
<1>3. CASE turn = NoTurn
    <2>1. PICK r : r = running[idx]
        OBVIOUS
    <2>2. r \in Range(running) /\ r \in Requests
        <3>1. running \in Seq(Requests) /\ idx <= Len(running)
            BY <1>3 DEF ListInv, InTurn, InLoop
        <3>2. idx \in DOMAIN running
            BY <1>1, <3>1
        <3> QED BY <2>1, <3>1, <3>2 DEF Range
    <2>3. NewTokens(r) \in Int
        <3> DEFINE x == NumTokens(r) + drafted[r] + holders[r] - computed[r]
        <3>1. /\ computed[r] \in Int /\ holders[r] \in Nat /\ NumTokens(r) \in Nat
              /\ drafted[r] \in Int /\ budget \in Int
            BY <2>2, TokensKnown DEF NumberInv
        <3>2. x \in Int
            BY <3>1
        <3> HIDE DEF x
        <3>3. Chunk(x) \in Int
            BY <3>1, <3>2, ChunkKnown
        <3> QED BY <3>3 DEF NewTokens, x
    <2>4. Turn.req = r /\ Turn.n = NewTokens(r)
        BY <1>3, <2>1 DEF Turn
    <2> QED BY <1>1, <2>2, <2>3, <2>4
<1> QED BY <1>2, <1>3

LEMMA ScheduleRunningKept ==
    ASSUME IInv, ScheduleRunning
    PROVE  IInv' /\ TablesGrow
<1> USE DEF IInv
<1>0. PICK r, n : r = Turn.req /\ n = Turn.n
    OBVIOUS
<1> DEFINE s == Max({0, n + computed[r] - NumTokens(r) - holders[r]})
           none == <<>>
<1>f. PICK f : f = Frame(r, computed[r], n, s, table'[r], prefillLen[r])
    OBVIOUS
<1>1. /\ InTurn /\ Fits(r, none, computed[r] + n + Drafts) /\ Allocate(r, none, n)
      /\ batch' = Append(batch, f) /\ budget' = budget - n
      /\ drafted' = [drafted EXCEPT ![r] = 0] /\ idx' = idx + 1 /\ turn' = NoTurn
      /\ UNCHANGED <<config, deferred>> /\ UNCHANGED <<running, waiting, status>>
      /\ UNCHANGED <<computed, holders, outputs>> /\ UNCHANGED <<queue, out>> /\ phase' = phase
    BY <1>0, <1>f DEF ScheduleRunning
<1>2. /\ r \in Range(running) /\ r \in Requests /\ status[r] = "running" /\ n \in Int
      /\ phase = "running" /\ idx \in Nat /\ idx > Len(batch)
    BY <1>0, <1>1, TurnKnown DEF ListInv, Range
<1>3. /\ computed[r] \in Int /\ holders[r] \in Nat /\ NumTokens(r) \in Nat
      /\ Drafts \in Nat /\ BlockSize \in Nat \ {0} /\ drafted[r] \in Int /\ budget \in Int
    <2>1. computed[r] \in Int /\ holders[r] \in Nat /\ NumTokens(r) \in Nat
        BY <1>2, TokensKnown
    <2>2. Drafts \in Nat /\ BlockSize \in Nat \ {0}
        BY ConfigKnown, PoolFacts
    <2> QED BY <1>2, <2>1, <2>2 DEF NumberInv
<1>5. /\ none \in Seq(Usable) /\ Len(none) = 0 /\ 0 * BlockSize = 0
      /\ computed[r] + Len(none) * BlockSize + n + Drafts = computed[r] + n + Drafts
      /\ computed[r] + Len(none) * BlockSize + n = computed[r] + n
    <2>1. none \in Seq(Usable) /\ Len(none) = 0 /\ 0 * BlockSize = 0
        BY <1>3
    <2>2. computed[r] + Len(none) * BlockSize = computed[r]
        BY <1>3, <2>1
    <2> QED BY <2>1, <2>2
<1> HIDE DEF none
<1>6. /\ PoolInv' /\ TablesGrow
      /\ \E bs \in Seq(Usable) : /\ table' = [table EXCEPT ![r] = bs]
                                 /\ Len(table[r]) + Len(none) <= Len(bs)
                                 /\ computed[r] + Len(none) * BlockSize + n <= BlockSize * Len(bs)
    <2>1. Fits(r, none, computed[r] + Len(none) * BlockSize + n + Drafts)
        BY <1>1, <1>5
    <2>2. deferred' = deferred /\ config' = config /\ Allocate(r, none, n)
        BY <1>1
    <2> QED BY <1>2, <1>5, <2>1, <2>2, AllocateKept
<1>7. PICK bs \in Seq(Usable) : /\ table' = [table EXCEPT ![r] = bs]
                                /\ Len(table[r]) <= Len(bs)
                                /\ computed[r] + n <= BlockSize * Len(bs)
    <2>1. Len(table[r]) \in Nat /\ Len(table[r]) + Len(none) = Len(table[r])
        BY <1>2, <1>5, PoolFacts
    <2> QED BY <1>5, <1>6, <2>1
<1>8. Grown(r, bs, computed[r])
    <2>1. computed' = [computed EXCEPT ![r] = computed[r]]
        BY <1>1 DEF CountInv
    <2>2. computed[r] <= BlockSize * Len(table[r]) /\ computed[r] <= NumTokens(r) + holders[r]
        BY <1>2 DEF CountInv
    <2>3. computed[r] <= BlockSize * Len(bs)
        <3> DEFINE l == Len(table[r])
                   m == Len(bs)
                   y == BlockSize * l
                   z == BlockSize * m
        <3>1. l \in Int /\ m \in Int /\ l <= m
            BY <1>2, <1>7, PoolFacts
        <3> HIDE DEF l, m
        <3>2. y <= z /\ y \in Int /\ z \in Int
            BY <1>3, <3>1, TimesOrder
        <3>3. computed[r] <= y
            BY <2>2 DEF l
        <3> HIDE DEF y, z
        <3>4. computed[r] <= z
            BY <1>3, <3>2, <3>3
        <3> QED BY <3>4 DEF z, m
    <2> QED BY <1>3, <1>7, <2>1, <2>2, <2>3 DEF Grown
<1>9. CountInv'
    BY <1>1, <1>2, <1>8, CountGrown
<1>10. Framed(f)'
    <2> DEFINE t == NumTokens(r)
               k == computed[r]
               h == holders[r]
    <2>1. /\ f.req = r /\ f.start = k /\ f.n = n /\ f.spec = s /\ f.sample = (k + n >= t + h)
        BY <1>f DEF Frame
    <2>2. table'[r] = bs
        BY <1>2, <1>7 DEF PoolInv, Tables
    <2>3. NumTokens(r)' = t /\ holders'[r] = h /\ computed'[r] = k /\ running' = running
        BY <1>1 DEF NumTokens, Prompt
    <2>4. k \in Int /\ t \in Nat /\ h \in Nat /\ n \in Int
        BY <1>2, <1>3
    <2>5. s \in Nat /\ s >= n + k - t - h
        <3> DEFINE c == n + k - t - h
        <3>1. c \in Int
            BY <2>4
        <3> HIDE DEF c
        <3>2. Max({0, c}) \in Nat /\ Max({0, c}) >= c
            BY <3>1, MaxZero
        <3> QED BY <3>2 DEF c
    <2>6. k + n <= t + h + (IF k + n >= t + h THEN s ELSE 0)
        <3> HIDE DEF k, t, h, s
        <3> QED BY <2>4, <2>5
    <2>7. k + n <= BlockSize * Len(bs)
        BY <1>7
    <2> HIDE DEF k, t, h, s
    <2>8. /\ f.req \in Range(running') /\ f.start = computed'[f.req]
          /\ f.start \in Int /\ f.n \in Int /\ f.spec \in Nat /\ f.sample \in BOOLEAN
        BY <1>2, <2>1, <2>3, <2>4, <2>5
    <2>9. f.start + f.n <= BlockSize * Len(table'[f.req])
        BY <2>1, <2>2, <2>7
    <2>10. f.start + f.n <= NumTokens(f.req)' + holders'[f.req] + (IF f.sample THEN f.spec ELSE 0)
        BY <2>1, <2>3, <2>6
    <2> QED BY <2>8, <2>9, <2>10 DEF Framed
<1>11. BatchInv'
    <2>1. batch \in Seq(Range(batch)) /\ \A g \in Range(batch) : Framed(g)
        BY DEF BatchInv
    <2>2. \A g \in Range(batch) : Framed(g)'
        <3>1. Range(running) \subseteq Range(running') /\ computed' = computed
            BY <1>1
        <3> QED BY <1>1, <1>2, <1>8, <2>1, <3>1, FramedGrown
    <2>3. /\ batch' \in Seq(Range(batch')) /\ Range(batch') = Range(batch) \cup {f}
          /\ Len(batch') = Len(batch) + 1 /\ Len(batch) \in Nat
        BY <1>1, <2>1, OneMore
    <2>4. \A g \in Range(batch') : Framed(g)'
        BY <1>10, <2>2, <2>3
    <2>5. phase = "running" /\ idx \in Nat /\ idx > Len(batch)
        BY <1>2
    <2> QED BY <1>1, <2>3, <2>4, <2>5 DEF BatchInv
<1>12. NumberInv'
    <2>1. drafted' \in [Requests -> Int]
        BY <1>1, <1>2 DEF NumberInv
    <2>2. budget' = budget - n /\ budget \in Int /\ n \in Int
        BY <1>1, <1>2, <1>3
    <2>3. budget' \in Int
        BY <2>2
    <2> QED BY <2>1, <2>3 DEF NumberInv
<1>13. TurnInv'
    BY <1>1 DEF TurnInv
<1> QED BY <1>1, <1>6, <1>9, <1>11, <1>12, <1>13, ListSame, FrameSame

\* The head of the waiting queue moves to the running list.
LEMMA ListsMoved ==
    ASSUME ListInv, waiting # <<>>, NEW r, r = Head(waiting),
           running' = Append(running, r), waiting' = Tail(waiting),
           status' = [status EXCEPT ![r] = "running"]
    PROVE  ListInv' /\ r \in Requests /\ status[r] = "waiting" /\ r \notin Range(running)
<1>1. /\ running \in Seq(Requests) /\ IsInjective(running)
      /\ waiting \in Seq(Requests) /\ IsInjective(waiting)
      /\ status \in [Requests -> {"new", "waiting", "running", "finished"}]
      /\ \A q \in Range(running) : q \in Requests /\ status[q] = "running"
      /\ \A q \in Range(waiting) : q \in Requests /\ status[q] = "waiting"
    BY DEF ListInv, Range
<1> DEFINE n == Len(waiting)
<1>2. /\ n \in Nat \ {0} /\ DOMAIN waiting = 1..n /\ r = waiting[1] /\ r \in Range(waiting)
      /\ waiting' \in Seq(Requests) /\ DOMAIN waiting' = 1..(n - 1)
      /\ \A i \in 1..(n - 1) : waiting'[i] = waiting[i + 1]
    <2>1. n \in Nat \ {0} /\ DOMAIN waiting = 1..n /\ r = waiting[1]
        BY <1>1
    <2>2. r \in Range(waiting)
        BY <2>1 DEF Range
    <2>3. /\ Tail(waiting) \in Seq(Requests) /\ DOMAIN Tail(waiting) = 1..(n - 1)
          /\ \A i \in 1..(n - 1) : Tail(waiting)[i] = waiting[i + 1]
        BY <1>1, <2>1
    <2> QED BY <2>1, <2>2, <2>3
<1> HIDE DEF n
<1>3. \A i \in 1..(n - 1) : i + 1 \in 1..n /\ i + 1 # 1
    BY <1>2
<1>4. IsInjective(waiting')
    <2>1. \A i, j \in 1..n : waiting[i] = waiting[j] => i = j
        BY <1>1, <1>2 DEF IsInjective
    <2>2. \A i, j \in 1..(n - 1) : waiting'[i] = waiting'[j] => i = j
        <3> TAKE i, j \in 1..(n - 1)
        <3> HAVE waiting'[i] = waiting'[j]
        <3>1. waiting[i + 1] = waiting[j + 1]
            BY <1>2
        <3>2. i + 1 = j + 1
            BY <1>3, <2>1, <3>1
        <3> QED BY <1>2, <3>2
    <2> QED BY <1>2, <2>2 DEF IsInjective
<1>5. \A q \in Range(waiting') : q \in Range(waiting) /\ q # r
    <2> TAKE q \in Range(waiting')
    <2>1. PICK i \in 1..(n - 1) : q = waiting'[i]
        BY <1>2 DEF Range
    <2>2. q = waiting[i + 1] /\ i + 1 \in 1..n /\ 1 \in 1..n /\ i + 1 # 1
        BY <1>2, <1>3, <2>1
    <2>3. waiting[i + 1] # waiting[1]
        BY <1>1, <1>2, <2>2 DEF IsInjective
    <2> QED BY <1>2, <2>2, <2>3 DEF Range
<1>6. r \in Requests /\ status[r] = "waiting" /\ r \notin Range(running)
    BY <1>1, <1>2
<1>7. /\ running' \in Seq(Requests) /\ IsInjective(running')
      /\ Range(running') = Range(running) \cup {r}
    <2>1. /\ Append(running, r) \in Seq(Requests)
          /\ Range(Append(running, r)) = Range(running) \cup {r}
          /\ IsInjective(running) /\ r \notin Range(running) => IsInjective(Append(running, r))
        BY <1>1, <1>6, InjectiveAppend
    <2> QED BY <1>1, <1>6, <2>1
<1>8. /\ status' \in [Requests -> {"new", "waiting", "running", "finished"}]
      /\ status'[r] = "running" /\ \A q \in Requests : q # r => status'[q] = status[q]
    BY <1>1, <1>6
<1>9. \A q \in Range(running') : status'[q] = "running"
    BY <1>1, <1>6, <1>7, <1>8
<1>10. \A q \in Range(waiting') : status'[q] = "waiting"
    BY <1>1, <1>5, <1>8
<1> QED BY <1>2, <1>4, <1>6, <1>7, <1>8, <1>9, <1>10 DEF ListInv

LEMMA AdmitKept ==
    ASSUME IInv, Admit
    PROVE  IInv' /\ TablesGrow
<1> USE DEF IInv
<1>0. PICK r : r = Head(waiting)
    OBVIOUS
<1> DEFINE hits == HitsOf(r)
           start == StartOf(r)
           n == Chunk(NumTokens(r) - start)
<1>f. PICK f : f = Frame(r, start, n, 0, table'[r], NumTokens(r))
    OBVIOUS
<1>1. /\ phase = "waiting" /\ waiting # <<>> /\ Fits(r, hits, start + n + Drafts)
      /\ Allocate(r, hits, n) /\ batch' = Append(batch, f) /\ budget' = budget - n
      /\ computed' = [computed EXCEPT ![r] = start]
      /\ running' = Append(running, r) /\ status' = [status EXCEPT ![r] = "running"]
      /\ waiting' = Tail(waiting)
      /\ UNCHANGED <<config, deferred>> /\ UNCHANGED <<holders, outputs, drafted>>
      /\ UNCHANGED <<queue, out>> /\ phase' = phase /\ idx' = idx
    BY <1>0, <1>f DEF Admit, MayAdmit
<1>2. ListInv' /\ r \in Requests /\ status[r] = "waiting" /\ r \notin Range(running)
    BY <1>0, <1>1, ListsMoved
<1>3. /\ computed[r] \in Int /\ holders[r] \in Nat /\ NumTokens(r) \in Nat
      /\ Drafts \in Nat /\ BlockSize \in Nat \ {0} /\ budget \in Int
      /\ table[r] \in Seq(Usable)
    <2>1. computed[r] \in Int /\ holders[r] \in Nat /\ NumTokens(r) \in Nat
        BY <1>2, TokensKnown
    <2>2. Drafts \in Nat /\ BlockSize \in Nat \ {0} /\ table[r] \in Seq(Usable)
        BY <1>2, ConfigKnown, PoolFacts
    <2> QED BY <2>1, <2>2 DEF NumberInv
<1>4. /\ computed[r] <= BlockSize * Len(table[r])
      /\ computed[r] <= NumTokens(r) + holders[r]
    BY <1>2 DEF CountInv
<1>5. /\ hits \in Seq(Usable) /\ start \in Int /\ start <= NumTokens(r) + holders[r]
      /\ start = computed[r] + Len(hits) * BlockSize
    <2>1. CASE computed[r] = 0
        <3> DEFINE found == Hits(pool, r)
        <3>1. found \in Seq(AllBlocks \ {Null}) /\ BlockSize * Len(found) <= NumTokens(r)
            <4>1. /\ PoolKept(pool, AllBlocks) /\ outputs[r] \in Seq(Range(outputs[r]))
                  /\ Len(outputs[r]) <= MaxTokens[r]
                BY <1>2 DEF PoolInv, CountInv
            <4> QED BY <1>2, <4>1, HitsKept
        <3>2. hits = found
            BY <2>1 DEF HitsOf
        <3> HIDE DEF found
        <3>3. Len(found) \in Nat /\ Len(found) * BlockSize = BlockSize * Len(found)
            BY <1>3, <3>1
        <3>4. start = Len(found) * BlockSize /\ start \in Int
            BY <1>3, <2>1, <3>2, <3>3 DEF StartOf
        <3>5. start <= NumTokens(r)
            BY <3>1, <3>3, <3>4
        <3> QED BY <1>3, <2>1, <3>1, <3>2, <3>4, <3>5 DEF Usable, StartOf
    <2>2. CASE computed[r] # 0
        <3>1. hits = <<>> /\ Len(hits) = 0 /\ 0 * BlockSize = 0
            BY <1>3, <2>2 DEF HitsOf
        <3>2. start = computed[r] /\ start = computed[r] + Len(hits) * BlockSize
            BY <1>3, <3>1 DEF StartOf
        <3> QED BY <1>3, <1>4, <3>1, <3>2
    <2> QED BY <2>1, <2>2
<1> HIDE DEF hits, start
<1>6. n \in Int /\ start + n <= NumTokens(r)
    <2> DEFINE x == NumTokens(r) - start
    <2>1. x \in Int
        BY <1>3, <1>5
    <2> HIDE DEF x
    <2>2. Chunk(x) \in Int /\ Chunk(x) <= x
        BY <1>3, <2>1, ChunkKnown
    <2>3. n \in Int /\ n <= NumTokens(r) - start
        BY <2>2 DEF x
    <2> HIDE DEF n
    <2> QED BY <1>3, <1>5, <2>3
<1> HIDE DEF n
<1>7. /\ PoolInv' /\ TablesGrow
      /\ \E bs \in Seq(Usable) : /\ table' = [table EXCEPT ![r] = bs]
                                 /\ Len(table[r]) + Len(hits) <= Len(bs)
                                 /\ computed[r] + Len(hits) * BlockSize + n <= BlockSize * Len(bs)
    <2>1. Fits(r, hits, computed[r] + Len(hits) * BlockSize + n + Drafts)
        BY <1>1, <1>5
    <2>2. deferred' = deferred /\ config' = config /\ Allocate(r, hits, n)
        BY <1>1
    <2> QED BY <1>2, <1>5, <1>6, <2>1, <2>2, AllocateKept
<1>8. PICK bs \in Seq(Usable) : /\ table' = [table EXCEPT ![r] = bs]
                                /\ Len(table[r]) + Len(hits) <= Len(bs)
                                /\ start + n <= BlockSize * Len(bs)
    BY <1>5, <1>7
<1>9. Grown(r, bs, start)
    <2> DEFINE l == Len(table[r])
               h == Len(hits)
               m == Len(bs)
    <2>1. l \in Nat /\ h \in Nat /\ m \in Nat /\ l + h <= m
        BY <1>3, <1>5, <1>8
    <2>2. computed[r] <= BlockSize * l /\ start = computed[r] + h * BlockSize
        BY <1>4, <1>5
    <2> HIDE DEF l, h, m
    <2> DEFINE x == BlockSize * l
               y == BlockSize * h
               z == BlockSize * m
    <2>3. BlockSize * (l + h) = x + y /\ h * BlockSize = y /\ x \in Int /\ y \in Int /\ z \in Int
        BY <1>3, <2>1
    <2>4. BlockSize * (l + h) <= z
        <3>1. l + h \in Int /\ m \in Int
            BY <2>1
        <3> QED BY <1>3, <2>1, <3>1, TimesOrder
    <2>5. computed[r] <= x
        BY <2>2
    <2> HIDE DEF x, y, z
    <2>6. start <= z
        BY <1>3, <2>2, <2>3, <2>4, <2>5
    <2>7. l <= m
        BY <2>1
    <2> QED BY <1>1, <1>5, <1>8, <2>6, <2>7 DEF Grown, z, m, l
<1>10. CountInv'
    BY <1>1, <1>2, <1>9, CountGrown
<1>11. Framed(f)'
    <2> DEFINE t == NumTokens(r)
               h == holders[r]
    <2>1. /\ f.req = r /\ f.start = start /\ f.n = n /\ f.spec = 0
          /\ f.sample \in BOOLEAN
        BY <1>f DEF Frame
    <2>2. table'[r] = bs /\ computed'[r] = start
        BY <1>1, <1>2, <1>8 DEF PoolInv, Tables, CountInv
    <2>3. NumTokens(r)' = t /\ holders'[r] = h
        BY <1>1 DEF NumTokens, Prompt
    <2>4. t \in Nat /\ h \in Nat /\ start \in Int /\ n \in Int /\ start + n <= t
        BY <1>3, <1>5, <1>6
    <2>5. r \in Range(running')
        <3>1. running \in Seq(Requests)
            BY DEF ListInv
        <3>2. Range(Append(running, r)) = Range(running) \cup {r}
            BY <1>2, <3>1, InjectiveAppend
        <3> QED BY <1>1, <3>2
    <2>6. start + n <= t + h + (IF f.sample THEN f.spec ELSE 0)
        <3> HIDE DEF t, h
        <3> QED BY <2>1, <2>4
    <2>7. start + n <= BlockSize * Len(bs)
        BY <1>8
    <2> HIDE DEF t, h
    <2>8. /\ f.req \in Range(running') /\ f.start = computed'[f.req]
          /\ f.start \in Int /\ f.n \in Int /\ f.spec \in Nat /\ f.sample \in BOOLEAN
        BY <2>1, <2>2, <2>4, <2>5
    <2>9. f.start + f.n <= BlockSize * Len(table'[f.req])
        BY <2>1, <2>2, <2>7
    <2>10. f.start + f.n <= NumTokens(f.req)' + holders'[f.req] + (IF f.sample THEN f.spec ELSE 0)
        BY <2>1, <2>3, <2>6
    <2> QED BY <2>8, <2>9, <2>10 DEF Framed
<1>12. BatchInv'
    <2>1. batch \in Seq(Range(batch)) /\ \A g \in Range(batch) : Framed(g)
        BY DEF BatchInv
    <2>2. \A g \in Range(batch) : Framed(g)'
        <3>1. Range(running) \subseteq Range(running')
            <4>1. running \in Seq(Requests)
                BY DEF ListInv
            <4>2. Range(Append(running, r)) = Range(running) \cup {r}
                BY <1>2, <4>1, InjectiveAppend
            <4> QED BY <1>1, <4>2
        <3>2. \A g \in Range(batch) : computed'[g.req] = computed[g.req]
            <4> TAKE g \in Range(batch)
            <4>1. g.req \in Range(running) /\ g.req \in Requests
                BY <2>1 DEF Framed, ListInv, Range
            <4> QED BY <1>1, <1>2, <4>1 DEF CountInv
        <3> QED BY <1>1, <1>2, <1>9, <2>1, <3>1, <3>2, FramedGrown
    <2>3. /\ batch' \in Seq(Range(batch')) /\ Range(batch') = Range(batch) \cup {f}
          /\ Len(batch') = Len(batch) + 1 /\ Len(batch) \in Nat
        BY <1>1, <2>1, OneMore
    <2>4. \A g \in Range(batch') : Framed(g)'
        BY <1>11, <2>2, <2>3
    <2> QED BY <1>1, <2>3, <2>4 DEF BatchInv
<1>13. NumberInv'
    <2>1. budget' \in Int
        BY <1>1, <1>3, <1>6
    <2> QED BY <1>1, <2>1 DEF NumberInv
<1> QED BY <1>1, <1>2, <1>7, <1>10, <1>12, <1>13, FrameSame, TurnOver

LEMMA InRange ==
    ASSUME NEW T, NEW s \in Seq(T)
    PROVE  s \in Seq(Range(s))
<1> DEFINE n == Len(s)
           R == Range(s)
<1>1. n \in Nat /\ s = [i \in 1..n |-> s[i]] /\ DOMAIN s = 1..n
    OBVIOUS
<1>2. \A i \in 1..n : s[i] \in R
    BY <1>1 DEF Range
<1> HIDE DEF R, n
<1>3. [i \in 1..n |-> s[i]] \in Seq(R)
    BY <1>1, <1>2
<1> QED BY <1>1, <1>3 DEF R

\* A running request goes back to the waiting queue.
LEMMA ListsReturned ==
    ASSUME ListInv, NEW v \in Range(running),
           running' = Without(running, v), waiting' = Prepended(waiting, v),
           status' = [status EXCEPT ![v] = "waiting"]
    PROVE  ListInv' /\ v \in Requests /\ Range(running') = Range(running) \ {v}
<1>1. /\ running \in Seq(Requests) /\ IsInjective(running)
      /\ waiting \in Seq(Requests) /\ IsInjective(waiting)
      /\ status \in [Requests -> {"new", "waiting", "running", "finished"}]
      /\ \A q \in Range(running) : q \in Requests /\ status[q] = "running"
      /\ \A q \in Range(waiting) : q \in Requests /\ status[q] = "waiting"
    BY DEF ListInv, Range
<1>2. v \in Requests /\ v \notin Range(waiting)
    BY <1>1
<1>3. /\ Without(running, v) \in Seq(Requests) /\ IsInjective(Without(running, v))
      /\ Range(Without(running, v)) = Range(running) \ {v}
    BY <1>1, WithoutFacts
<1>4. /\ Prepended(waiting, v) \in Seq(Requests) /\ IsInjective(Prepended(waiting, v))
      /\ Range(Prepended(waiting, v)) = Range(waiting) \cup {v}
    BY <1>1, <1>2, PrependedKept
<1>5. /\ status' \in [Requests -> {"new", "waiting", "running", "finished"}]
      /\ status'[v] = "waiting" /\ \A q \in Requests : q # v => status'[q] = status[q]
    BY <1>1, <1>2
<1> QED BY <1>1, <1>2, <1>3, <1>4, <1>5 DEF ListInv

LEMMA PreemptForKept ==
    ASSUME IInv, PreemptFor
    PROVE  IInv'
<1> USE DEF IInv
<1>0. PICK v : v = Victim
    OBVIOUS
<1> DEFINE rest == {f \in Range(batch) : f.req # v}
           share == IF InBatch(v) THEN (CHOOSE f \in Range(batch) : f.req = v).n ELSE 0
<1>1. /\ InTurn /\ running' = Without(running, v) /\ waiting' = Prepended(waiting, v)
      /\ status' = [status EXCEPT ![v] = "waiting"] /\ FreeRequestBlocks(pool, v)
      /\ computed' = [computed EXCEPT ![v] = 0] /\ drafted' = [drafted EXCEPT ![v] = 0]
      /\ batch' = Filter(batch, rest) /\ budget' = budget + share
      /\ InBatch(v) => idx' = idx - 1
      /\ ~InBatch(v) => idx' = idx
      /\ \/ v = Turn.req /\ phase' = "waiting" /\ turn' = NoTurn
         \/ v # Turn.req /\ phase' = phase /\ turn' = Turn
      /\ config' = config
      /\ UNCHANGED <<holders, outputs>> /\ UNCHANGED <<queue, out>>
    BY <1>0 DEF PreemptFor, ComputedAfterPreempt
<1>2. v \in Range(running)
    <2>1. running \in Seq(Requests) /\ running # <<>>
        BY <1>1, TurnKnown DEF ListInv, Range
    <2> QED BY <1>0, <2>1, VictimRuns
<1>3. ListInv' /\ v \in Requests /\ Range(running') = Range(running) \ {v}
    BY <1>1, <1>2, ListsReturned
<1>4. PoolInv' /\ table' = [table EXCEPT ![v] = <<>>]
    <2>1. queue \in Seq(Range(queue)) /\ PoolKept(pool, AllBlocks)
        BY DEF FrameInv, PoolInv
    <2> QED BY <1>1, <1>3, <2>1, FreeRequestKept
<1>5. \A q \in Requests : NumTokens(q)' = NumTokens(q) /\ MaxTokens' = MaxTokens
    BY <1>1 DEF NumTokens, Prompt, MaxTokens
<1>6. \A q \in Requests : q # v => /\ table'[q] = table[q] /\ computed'[q] = computed[q]
                                   /\ status'[q] = status[q]
    BY <1>1, <1>3, <1>4 DEF PoolInv, Tables, CountInv, ListInv
<1>7. CountInv'
    <2>1. computed' \in [Requests -> Int]
        BY <1>1, <1>3 DEF CountInv
    <2>2. /\ computed'[v] <= BlockSize * Len(table'[v])
          /\ computed'[v] <= NumTokens(v) + holders[v]
        <3>1. computed'[v] = 0 /\ table'[v] = <<>>
            BY <1>1, <1>3, <1>4 DEF CountInv, PoolInv, Tables
        <3>2. BlockSize * Len(table'[v]) = 0
            BY <3>1, PoolFacts
        <3>3. NumTokens(v) \in Nat /\ holders[v] \in Nat
            BY <1>3, TokensKnown
        <3>4. PICK w, c : w = BlockSize * Len(table'[v]) /\ c = computed'[v]
            OBVIOUS
        <3>5. w = 0 /\ c = 0
            BY Zenon, <3>1, <3>2, <3>4
        <3>6. c <= w /\ c <= NumTokens(v) + holders[v]
            BY <3>3, <3>5
        <3> QED BY Zenon, <3>4, <3>6
    <2>3. ASSUME NEW q \in Requests, status'[q] # "finished"
          PROVE  /\ computed'[q] <= BlockSize * Len(table'[q])
                 /\ computed'[q] <= NumTokens(q)' + holders'[q]
        <3>1. holders' = holders /\ NumTokens(q)' = NumTokens(q)
            BY <1>1, <1>5
        <3>2. CASE q = v
            BY Zenon, <2>2, <3>1, <3>2
        <3>3. CASE q # v
            <4>1. table'[q] = table[q] /\ computed'[q] = computed[q] /\ status'[q] = status[q]
                BY <1>6, <3>3
            <4>2. /\ computed[q] <= BlockSize * Len(table[q])
                  /\ computed[q] <= NumTokens(q) + holders[q]
                BY <2>3, <4>1 DEF CountInv
            <4> QED BY Zenon, <3>1, <4>1, <4>2
        <3> QED BY <3>2, <3>3
    <2>4. /\ holders' \in [Requests -> Nat] /\ DOMAIN outputs' = Requests
          /\ \A q \in Requests : /\ outputs'[q] \in Seq(Range(outputs'[q]))
                                 /\ Len(outputs'[q]) <= MaxTokens'[q]
        BY <1>1, <1>5 DEF CountInv
    <2> QED BY <2>1, <2>3, <2>4 DEF CountInv
<1>8. /\ batch \in Seq(Range(batch)) /\ Len(batch) \in Nat
      /\ \A f \in Range(batch) : Framed(f)
      /\ phase = "running" /\ idx \in Nat /\ idx > Len(batch)
    BY <1>1, TurnKnown DEF BatchInv
<1>9. /\ batch' \in Seq(Range(batch')) /\ Range(batch') = rest
      /\ Len(batch') \in Nat /\ Len(batch') <= Len(batch)
      /\ InBatch(v) => Len(batch') < Len(batch)
    <2> DEFINE B == Range(batch)
               left == Filter(batch, rest)
    <2>1. rest \subseteq B /\ batch \in Seq(B)
        BY <1>8
    <2>2. InBatch(v) => \E x \in Range(batch) : x \notin rest
        BY DEF InBatch, Range
    <2> HIDE DEF rest, B
    <2>3. left \in Seq(B) /\ Range(left) = Range(batch) \cap rest
        BY <2>1, FilterFacts
    <2>4. /\ Len(left) \in Nat /\ Len(left) <= Len(batch)
          /\ (\E x \in Range(batch) : x \notin rest) => Len(left) < Len(batch)
        BY <2>1, FilterLen
    <2> HIDE DEF left
    <2>5. left \in Seq(Range(left))
        BY <2>3, InRange
    <2>6. batch' = left
        BY <1>1 DEF left
    <2> QED BY <2>1, <2>2, <2>3, <2>4, <2>5, <2>6 DEF B
<1>10. ASSUME NEW f \in rest PROVE Framed(f)'
    <2>1. Framed(f) /\ f.req # v
        BY <1>8
    <2>3. f.req \in Range(running) /\ f.req \in Requests
        <3>1. \A q \in Range(running) : q \in Requests
            BY DEF ListInv, Range
        <3> QED BY <2>1, <3>1 DEF Framed
    <2>2. /\ f.req \in Range(running') /\ table'[f.req] = table[f.req]
          /\ computed'[f.req] = computed[f.req]
        BY <1>3, <1>6, <2>1, <2>3
    <2> QED BY <1>1, <1>5, <2>1, <2>2, <2>3 DEF Framed
<1> HIDE DEF rest
<1>11. idx' \in Nat /\ idx' > Len(batch')
    <2>1. CASE InBatch(v)
        BY <1>1, <1>8, <1>9, <2>1
    <2>2. CASE ~InBatch(v)
        BY <1>1, <1>8, <1>9, <2>2
    <2> QED BY <2>1, <2>2
<1>12. BatchInv'
    BY <1>1, <1>8, <1>9, <1>10, <1>11 DEF BatchInv
<1>13. NumberInv'
    <2>1. share \in Int
        <3>1. CASE InBatch(v)
            <4>1. \E f \in Range(batch) : f.req = v
                BY <3>1 DEF InBatch, Range
            <4>2. (CHOOSE f \in Range(batch) : f.req = v) \in Range(batch)
                BY <4>1
            <4>3. (CHOOSE f \in Range(batch) : f.req = v).n \in Int
                BY <1>8, <4>2 DEF Framed
            <4> QED BY <3>1, <4>3
        <3>2. CASE ~InBatch(v)
            BY <3>2
        <3> QED BY <3>1, <3>2
    <2> HIDE DEF share
    <2>2. budget' \in Int
        BY <1>1, <2>1 DEF NumberInv
    <2>3. drafted' \in [Requests -> Int]
        BY <1>1, <1>3 DEF NumberInv
    <2> QED BY <2>2, <2>3 DEF NumberInv
<1>14. TurnInv'
    BY <1>1, <1>3, TurnKnown DEF TurnInv
<1> QED BY <1>1, <1>3, <1>4, <1>7, <1>12, <1>13, <1>14, FrameSame

\* What a request has of the batch.
FrameOfBatch(r) == CHOOSE f \in Range(batch) : f.req = r
SampledIn(r) == InBatch(r) /\ FrameOfBatch(r).sample

LEMMA FrameFound ==
    ASSUME BatchInv, NEW r \in Requests, InBatch(r)
    PROVE  /\ FrameOfBatch(r) \in Range(batch) /\ FrameOfBatch(r).req = r
           /\ Framed(FrameOfBatch(r))
<1>1. \E f \in Range(batch) : f.req = r
    BY DEF InBatch, Range
<1>2. FrameOfBatch(r) \in Range(batch) /\ FrameOfBatch(r).req = r
    BY <1>1 DEF FrameOfBatch
<1> QED BY <1>2 DEF BatchInv

LEMMA EndScheduleKept ==
    ASSUME IInv, EndSchedule
    PROVE  IInv'
<1> USE DEF IInv
<1>1. /\ UNCHANGED <<config, pool, table, cachedN, deferred>>
      /\ UNCHANGED <<running, waiting, status>> /\ UNCHANGED <<outputs, out, idx, budget>>
      /\ computed' = [r \in Requests |->
                         computed[r] + (IF InBatch(r) THEN FrameOfBatch(r).n ELSE 0)]
      /\ holders' = [r \in Requests |->
                        holders[r] + (IF SampledIn(r) THEN 1 + FrameOfBatch(r).spec ELSE 0)]
      /\ drafted' = [r \in Requests |-> IF SampledIn(r) THEN Drafts ELSE drafted[r]]
      /\ queue' = Append(queue, batch) /\ batch' = <<>> /\ phase' \in {"idle", "process"}
    BY DEF EndSchedule, FrameOfBatch, SampledIn
<1>2. \A r \in Requests : /\ computed[r] \in Int /\ holders[r] \in Nat
                          /\ drafted[r] \in Int /\ NumTokens(r) \in Nat /\ table[r] \in Seq(Usable)
    BY TokensKnown, PoolFacts DEF NumberInv
<1>3. ASSUME NEW r \in Requests
      PROVE  \E n \in Int, h \in Nat :
                /\ computed'[r] = computed[r] + n /\ holders'[r] = holders[r] + h
                /\ status[r] # "finished" =>
                      /\ computed[r] + n <= BlockSize * Len(table[r])
                      /\ computed[r] + n <= NumTokens(r) + (holders[r] + h)
    <2>1. CASE InBatch(r)
        <3>1. PICK f : f = FrameOfBatch(r)
            OBVIOUS
        <3>2. Framed(f) /\ f.req = r
            BY <2>1, <3>1, FrameFound
        <3>3. /\ f.start = computed[r] /\ f.n \in Int /\ f.spec \in Nat /\ f.sample \in BOOLEAN
              /\ f.start + f.n <= BlockSize * Len(table[r])
              /\ f.start + f.n <= NumTokens(r) + holders[r] + (IF f.sample THEN f.spec ELSE 0)
            BY <3>2 DEF Framed
        <3>4. CASE f.sample
            <4> DEFINE h == 1 + f.spec
            <4>1. computed'[r] = computed[r] + f.n /\ holders'[r] = holders[r] + h
                BY <1>1, <2>1, <3>1, <3>4 DEF SampledIn
            <4>2. computed[r] + f.n <= NumTokens(r) + (holders[r] + h)
                BY <1>2, <3>3, <3>4
            <4>3. h \in Nat
                BY <3>3
            <4> HIDE DEF h
            <4> QED BY <3>3, <4>1, <4>2, <4>3
        <3>5. CASE ~f.sample
            <4>1. computed'[r] = computed[r] + f.n /\ holders'[r] = holders[r] + 0
                BY <1>1, <2>1, <3>1, <3>5 DEF SampledIn
            <4>2. computed[r] + f.n <= NumTokens(r) + (holders[r] + 0)
                BY <1>2, <3>3, <3>5
            <4> QED BY <3>3, <4>1, <4>2
        <3> QED BY <3>4, <3>5
    <2>2. CASE ~InBatch(r)
        <3>1. computed'[r] = computed[r] + 0 /\ holders'[r] = holders[r] + 0
            BY <1>1, <2>2 DEF SampledIn
        <3>2. computed[r] + 0 = computed[r] /\ holders[r] + 0 = holders[r]
            BY <1>2
        <3>3. status[r] # "finished" => /\ computed[r] <= BlockSize * Len(table[r])
                                        /\ computed[r] <= NumTokens(r) + holders[r]
            BY DEF CountInv
        <3> QED BY <3>1, <3>2, <3>3
    <2> QED BY <2>1, <2>2
<1>4. CountInv'
    <2>1. \A r \in Requests : NumTokens(r)' = NumTokens(r) /\ MaxTokens' = MaxTokens
        BY <1>1 DEF NumTokens, Prompt, MaxTokens
    <2>2. \A r \in Requests : computed'[r] \in Int /\ holders'[r] \in Nat
        <3> TAKE r \in Requests
        <3>1. PICK n \in Int, h \in Nat : /\ computed'[r] = computed[r] + n
                                          /\ holders'[r] = holders[r] + h
            BY <1>3
        <3> QED BY <1>2, <3>1
    <2>3. computed' \in [Requests -> Int] /\ holders' \in [Requests -> Nat]
        BY <1>1, <2>2
    <2>4. \A r \in Requests : status'[r] # "finished" =>
              /\ computed'[r] <= BlockSize * Len(table'[r])
              /\ computed'[r] <= NumTokens(r)' + holders'[r]
        <3> TAKE r \in Requests
        <3> HAVE status'[r] # "finished"
        <3>1. PICK n \in Int, h \in Nat :
                /\ computed'[r] = computed[r] + n /\ holders'[r] = holders[r] + h
                /\ status[r] # "finished" =>
                      /\ computed[r] + n <= BlockSize * Len(table[r])
                      /\ computed[r] + n <= NumTokens(r) + (holders[r] + h)
            BY <1>3
        <3>2. status[r] # "finished" /\ table'[r] = table[r]
            BY <1>1
        <3> QED BY <2>1, <3>1, <3>2
    <2> QED BY <1>1, <2>1, <2>3, <2>4 DEF CountInv
<1>5. BatchInv'
    <2>1. batch' \in Seq(Range(batch')) /\ Range(batch') = {}
        BY <1>1 DEF Range
    <2> QED BY <1>1, <2>1 DEF BatchInv
<1>6. FrameInv'
    <2>1. /\ queue \in Seq(Range(queue)) /\ batch \in Seq(Range(batch))
          /\ \A i \in DOMAIN queue :
                /\ queue[i] \in Seq(Range(queue[i]))
                /\ \A f \in Range(queue[i]) : f.req \in Requests /\ f.spec \in Nat
        BY DEF FrameInv, BatchInv
    <2>2. \A f \in Range(batch) : f.req \in Requests /\ f.spec \in Nat
        <3>1. \A q \in Range(running) : q \in Requests
            BY DEF ListInv, Range
        <3> QED BY <3>1 DEF BatchInv, Framed
    <2>3. /\ queue' \in Seq(Range(queue')) /\ Range(queue') = Range(queue) \cup {batch}
        BY <1>1, <2>1, OneMore
    <2>4. \A x \in Range(queue') :
             /\ x \in Seq(Range(x)) /\ \A f \in Range(x) : f.req \in Requests /\ f.spec \in Nat
        <3>1. \A x \in Range(queue) : \E i \in DOMAIN queue : x = queue[i]
            BY DEF Range
        <3> QED BY <2>1, <2>2, <2>3, <3>1
    <2>5. \A i \in DOMAIN queue' : queue'[i] \in Range(queue')
        BY DEF Range
    <2>6. out' \in Seq(Range(out')) /\ \A f \in Range(out') :
             f.req \in Requests /\ f.spec \in Nat /\ f.acc \in Nat /\ f.acc <= f.spec
        BY <1>1 DEF FrameInv
    <2> QED BY <2>3, <2>4, <2>5, <2>6 DEF FrameInv
<1>7. NumberInv'
    <2>1. Drafts \in Nat
        BY ConfigKnown
    <2>2. drafted' \in [Requests -> Int]
        BY <1>1, <1>2, <2>1
    <2> QED BY <1>1, <2>2 DEF NumberInv
<1> QED BY <1>1, <1>4, <1>5, <1>6, <1>7, PoolSame, ListSame, TurnOver

\* The tokens a result leaves computed, the placeholders it leaves, and the
\* request's tokens that are surely there.
RestOf(f) == computed[f.req] - (IF computed[f.req] > 0 THEN Rejected(f) ELSE 0)
LeftOf(f, m) == holders[f.req] - (IF holders[f.req] > 0 THEN Rejected(f) ELSE 0) - m
SureOf(f, m) == RestOf(f) - LeftOf(f, m)

\* What is taken back keeps within the table and the tokens there are now.
LEMMA TakenBack ==
    ASSUME config \in Configs, CountInv, NEW f, f.req \in Requests, f.spec \in Nat,
           f.acc \in Nat, f.acc <= f.spec, NEW m \in Nat \ {0}, LeftOf(f, m) >= 0,
           status[f.req] # "finished", NEW w \in Int, computed[f.req] <= w, w >= 0,
           NEW t \in Nat, NumTokens(f.req) + m <= t
    PROVE  /\ RestOf(f) \in Int /\ LeftOf(f, m) \in Nat /\ SureOf(f, m) \in Int
           /\ RestOf(f) <= w /\ SureOf(f, m) <= w
           /\ RestOf(f) <= NumTokens(f.req) + m + LeftOf(f, m)
           /\ SureOf(f, m) <= t
<1> DEFINE c == computed[f.req]
           h == holders[f.req]
           n == NumTokens(f.req)
           j == Rejected(f)
           rest == RestOf(f)
           left == LeftOf(f, m)
<1>1. c \in Int /\ h \in Nat /\ n \in Nat /\ c <= n + h
    BY TokensKnown DEF CountInv
<1>2. j \in Nat
    BY DEF Rejected
<1>3. /\ c > 0 => rest = c - j
      /\ ~(c > 0) => rest = c - 0
      /\ h > 0 => left = h - j - m
      /\ ~(h > 0) => left = h - 0 - m
    BY DEF RestOf, LeftOf
<1>4. SureOf(f, m) = rest - left /\ c <= w /\ n + m <= t /\ left >= 0
    BY DEF SureOf
<1> HIDE DEF c, h, n, j, rest, left
<1>5. h > 0 /\ left \in Nat /\ left = h - j - m
    BY <1>1, <1>2, <1>3, <1>4
<1>6. CASE c > 0
    BY <1>1, <1>2, <1>3, <1>4, <1>5, <1>6 DEF rest, left, n
<1>7. CASE ~(c > 0)
    BY <1>1, <1>2, <1>3, <1>4, <1>5, <1>7 DEF rest, left, n
<1> QED BY <1>6, <1>7

\* What update_from_output does with a result of m tokens: the pool it leaves
\* before the request is ended, or goes on.
CachedUpto(f, m) ==
    IF status[f.req] = "running"
    THEN CacheBlocks(pool, f.req, table[f.req], cachedN[f.req], Committed(RestOf(f), LeftOf(f, m)))
    ELSE pool
FullOf(f, m) ==
    IF status[f.req] = "running"
    THEN Max({cachedN[f.req], Committed(RestOf(f), LeftOf(f, m)) \div BlockSize})
    ELSE cachedN[f.req]
Ending(f, m) ==
    /\ FreeRequestBlocks(CachedUpto(f, m), f.req)
    /\ status' = [status EXCEPT ![f.req] = "finished"]
    /\ running' = Without(running, f.req) /\ waiting' = Without(waiting, f.req)
GoingOn(f, m) ==
    /\ pool' = CachedUpto(f, m) /\ cachedN' = [cachedN EXCEPT ![f.req] = FullOf(f, m)]
    /\ UNCHANGED <<status, running, waiting, table, deferred>>

LEMMA UpdateAppendIs ==
    ASSUME UpdateAppend
    PROVE  \E f \in Range(out), m \in 1..(Drafts + 1) :
              /\ Updating(f) /\ status[f.req] # "finished"
              /\ LeftOf(f, m) >= 0
              /\ m <= Min({f.acc + 1, MaxTokens[f.req] - Len(outputs[f.req])})
              /\ outputs' = [outputs EXCEPT ![f.req] = @ \o [i \in 1..m |-> f.base + i]]
              /\ computed' = [computed EXCEPT ![f.req] = RestOf(f)]
              /\ holders' = [holders EXCEPT ![f.req] = LeftOf(f, m)]
              /\ Ending(f, m) \/ GoingOn(f, m)
              /\ out' = Tail(out) /\ queue' = queue /\ config' = config /\ phase' = phase
              /\ batch' = batch /\ idx' = idx /\ budget' = budget /\ drafted' = drafted
<1>1. PICK f \in Range(out), m \in 1..(Drafts + 1) :
        LET r == f.req
            most == Min({f.acc + 1, MaxTokens[r] - Len(outputs[r])})
            rest == RestOf(f)
            left == LeftOf(f, m)
            p == CachedUpto(f, m)
        IN  /\ Updating(f) /\ status[r] # "finished" /\ f.emits
            /\ discard[r] = 0 /\ m <= most
            /\ left >= 0
            /\ outputs' = [outputs EXCEPT ![r] = @ \o [i \in 1..m |-> f.base + i]]
            /\ computed' = [computed EXCEPT ![r] = rest]
            /\ holders' = [holders EXCEPT ![r] = left]
            /\ \E ended \in BOOLEAN :
                 /\ Len(outputs'[r]) = MaxTokens[r] \/ m < most => ended
                 /\ IF ended
                    THEN /\ FreeRequestBlocks(p, r)
                         /\ status' = [status EXCEPT ![r] = "finished"]
                         /\ running' = Without(running, r)
                         /\ waiting' = Without(waiting, r)
                    ELSE /\ pool' = p /\ cachedN' = [cachedN EXCEPT ![r] = FullOf(f, m)]
                         /\ UNCHANGED <<status, running, waiting, table, deferred>>
            /\ out' = Tail(out)
            /\ UNCHANGED <<config, phase, schedVars, queue, drafted, discard, wait, lastSeq,
                           gpuVars, epoch, resets>>
    BY Zenon DEF UpdateAppend, RestOf, LeftOf, CachedUpto, FullOf
<1>2. /\ queue' = queue /\ config' = config /\ phase' = phase
      /\ batch' = batch /\ idx' = idx /\ budget' = budget /\ drafted' = drafted
    BY <1>1 DEF schedVars
<1>3. Ending(f, m) \/ GoingOn(f, m)
    BY <1>1 DEF Ending, GoingOn
<1> QED BY <1>1, <1>2, <1>3

LEMMA UpdateAppendKept ==
    ASSUME IInv, UpdateAppend
    PROVE  IInv'
<1> USE DEF IInv
<1>1. PICK f \in Range(out), m \in 1..(Drafts + 1) :
              /\ Updating(f) /\ status[f.req] # "finished"
              /\ LeftOf(f, m) >= 0
              /\ m <= Min({f.acc + 1, MaxTokens[f.req] - Len(outputs[f.req])})
              /\ outputs' = [outputs EXCEPT ![f.req] = @ \o [i \in 1..m |-> f.base + i]]
              /\ computed' = [computed EXCEPT ![f.req] = RestOf(f)]
              /\ holders' = [holders EXCEPT ![f.req] = LeftOf(f, m)]
              /\ Ending(f, m) \/ GoingOn(f, m)
              /\ out' = Tail(out) /\ queue' = queue /\ config' = config /\ phase' = phase
              /\ batch' = batch /\ idx' = idx /\ budget' = budget /\ drafted' = drafted
    BY UpdateAppendIs
<1>2. PICK r : r = f.req
    OBVIOUS
<1>3. /\ r \in Requests /\ f.spec \in Nat /\ f.acc \in Nat /\ f.acc <= f.spec
      /\ m \in Nat \ {0} /\ out # <<>> /\ phase = "update"
    <2>1. Drafts \in Nat
        BY ConfigKnown
    <2> QED BY <1>1, <1>2, <2>1 DEF FrameInv, Updating
<1>4. /\ NumTokens(r) \in Nat /\ Len(outputs[r]) \in Nat /\ outputs[r] \in Seq(Range(outputs[r]))
      /\ Prompt[r] \in Nat \ {0} /\ MaxTokens[r] \in Nat \ {0}
      /\ Prompt[r] + MaxTokens[r] <= Len(Text[r]) /\ Len(Text[r]) \in Nat
      /\ table[r] \in Seq(Usable) /\ cachedN[r] \in Nat /\ BlockSize \in Nat \ {0}
    BY <1>3, TokensKnown, ConfigKnown, PoolFacts DEF CountInv
<1>5. Len(outputs[r]) + m <= MaxTokens[r]
    <2>1. f.acc + 1 \in Int /\ MaxTokens[r] - Len(outputs[r]) \in Int
        <3>1. f.acc \in Int /\ MaxTokens[r] \in Int /\ Len(outputs[r]) \in Int
            BY <1>3, <1>4
        <3> QED BY <3>1
    <2>2. Min({f.acc + 1, MaxTokens[r] - Len(outputs[r])}) <= MaxTokens[r] - Len(outputs[r])
          /\ Min({f.acc + 1, MaxTokens[r] - Len(outputs[r])}) \in Int
        BY <2>1, MinOfTwo
    <2>3. m <= MaxTokens[r] - Len(outputs[r])
        <3>1. PICK x, y : /\ x = MaxTokens[r] - Len(outputs[r])
                          /\ y = Min({f.acc + 1, MaxTokens[r] - Len(outputs[r])})
            OBVIOUS
        <3>2. m <= y
            BY Zenon, <1>1, <1>2, <3>1
        <3>3. x \in Int /\ y \in Int /\ y <= x
            BY <2>1, <2>2, <3>1
        <3>4. m <= x
            BY <1>3, <3>2, <3>3
        <3> QED BY <3>1, <3>4
    <2> QED
        <3>1. \A x, y, z \in Int : x <= y - z => z + x <= y
            OBVIOUS
        <3>2. m \in Int /\ MaxTokens[r] \in Int /\ Len(outputs[r]) \in Int
            BY <1>3, <1>4
        <3> QED BY <2>3, <3>1, <3>2
<1>6. /\ outputs'[r] = outputs[r] \o [i \in 1..m |-> f.base + i] /\ DOMAIN outputs' = Requests
      /\ outputs'[r] \in Seq(Range(outputs'[r])) /\ Len(outputs'[r]) = Len(outputs[r]) + m
      /\ \A q \in Requests : q # r => outputs'[q] = outputs[q]
    <2> DEFINE new == [i \in 1..m |-> f.base + i]
               S == Range(outputs[r]) \cup Range(new)
    <2>1. new \in Seq(S) /\ Len(new) = m
        <3>1. \A i \in 1..m : new[i] \in S
            BY DEF Range
        <3>2. DOMAIN new = 1..m /\ new = [i \in 1..m |-> new[i]]
            OBVIOUS
        <3> HIDE DEF S, new
        <3>3. [i \in 1..m |-> new[i]] \in Seq(S) /\ Len([i \in 1..m |-> new[i]]) = m
            BY <1>3, <3>1
        <3> QED BY <3>2, <3>3
    <2>2. outputs'[r] = outputs[r] \o new /\ DOMAIN outputs' = Requests
          /\ \A q \in Requests : q # r => outputs'[q] = outputs[q]
        BY <1>1, <1>2, <1>3 DEF CountInv
    <2>3. outputs[r] \in Seq(S)
        <3> DEFINE R == Range(outputs[r])
        <3>1. outputs[r] \in Seq(R) /\ R \subseteq S
            BY <1>4
        <3> HIDE DEF R, S
        <3> QED BY <3>1
    <2> HIDE DEF S, new
    <2>4. outputs'[r] \in Seq(S) /\ Len(outputs'[r]) = Len(outputs[r]) + m
        <3>1. \A x, y \in Seq(S) : x \o y \in Seq(S) /\ Len(x \o y) = Len(x) + Len(y)
            OBVIOUS
        <3> QED BY <2>1, <2>2, <2>3, <3>1
    <2>5. outputs'[r] \in Seq(Range(outputs'[r]))
        BY <2>4, InRange
    <2> QED BY <2>2, <2>4, <2>5 DEF new
<1>7. NumTokens(r)' = NumTokens(r) + m
      /\ \A q \in Requests : q # r => NumTokens(q)' = NumTokens(q)
    <2>1. Prompt' = Prompt
        BY <1>1 DEF Prompt
    <2>2. Prompt[r] + (Len(outputs[r]) + m) = Prompt[r] + Len(outputs[r]) + m
        <3> DEFINE x == Prompt[r]
                   y == Len(outputs[r])
        <3>1. x \in Nat /\ y \in Nat /\ m \in Nat
            BY <1>3, <1>4
        <3> HIDE DEF x, y
        <3>2. x + (y + m) = x + y + m
            BY <3>1
        <3> QED BY <3>2 DEF x, y
    <2> QED BY <1>6, <2>1, <2>2 DEF NumTokens
<1>8. PICK w \in Int : w = BlockSize * Len(table[r]) /\ w >= 0 /\ computed[r] <= w
    <2> DEFINE l == Len(table[r])
               x == BlockSize * l
    <2>1. l \in Nat
        BY <1>4
    <2> HIDE DEF l
    <2>2. x \in Int /\ x >= 0
        BY <1>4, <2>1
    <2>3. computed[r] <= x
        BY <1>1, <1>2, <1>3 DEF CountInv, l
    <2> QED BY <2>2, <2>3 DEF l
<1>9. /\ RestOf(f) \in Int /\ LeftOf(f, m) \in Nat /\ SureOf(f, m) \in Int
      /\ RestOf(f) <= w /\ SureOf(f, m) <= w
      /\ RestOf(f) <= NumTokens(r)' + LeftOf(f, m)
      /\ SureOf(f, m) <= Len(Text[r])
    <2>1. NumTokens(f.req) + m <= Len(Text[r])
        <3>1. \A x, y, z, u, v \in Int : y + z <= u /\ x + u <= v => x + y + z <= v
            OBVIOUS
        <3>2. /\ Prompt[r] \in Int /\ Len(outputs[r]) \in Int /\ m \in Int
              /\ MaxTokens[r] \in Int /\ Len(Text[r]) \in Int
            BY <1>3, <1>4
        <3>3. Prompt[r] + Len(outputs[r]) + m <= Len(Text[r])
            BY <1>4, <1>5, <3>1, <3>2
        <3> QED BY <1>2, <3>3 DEF NumTokens
    <2>2. /\ status[f.req] # "finished" /\ LeftOf(f, m) >= 0 /\ f.req \in Requests
          /\ computed[f.req] <= w
        BY <1>1, <1>2, <1>3, <1>8
    <2>3. /\ RestOf(f) \in Int /\ LeftOf(f, m) \in Nat /\ SureOf(f, m) \in Int
          /\ RestOf(f) <= w /\ SureOf(f, m) <= w
          /\ RestOf(f) <= NumTokens(f.req) + m + LeftOf(f, m)
          /\ SureOf(f, m) <= Len(Text[r])
        BY <1>3, <1>4, <1>8, <2>1, <2>2, TakenBack
    <2> QED BY <1>2, <1>7, <2>3
<1>10. PICK p : p = CachedUpto(f, m)
    OBVIOUS
<1>11. PoolKept(p, AllBlocks) /\ p.ref = pool.ref
    <2>1. PoolKept(pool, AllBlocks)
        BY DEF PoolInv
    <2>2. CASE status[r] = "running"
        <3>1. PICK bs, c, t : bs = table[r] /\ c = cachedN[r] /\ t = SureOf(f, m)
            OBVIOUS
        <3>2. p = CacheBlocks(pool, r, bs, c, t)
            BY <1>2, <1>10, <2>2, <3>1 DEF CachedUpto, Committed, SureOf
        <3>3. /\ bs \in Seq(AllBlocks \ {Null}) /\ c \in Nat /\ t \in Int
              /\ t <= Len(Text[r]) /\ t <= BlockSize * Len(bs)
            BY <1>4, <1>8, <1>9, <3>1 DEF Usable
        <3>4. /\ PoolKept(CacheBlocks(pool, r, bs, c, t), AllBlocks)
              /\ CacheBlocks(pool, r, bs, c, t).ref = pool.ref
            <4>1. r \in Requests
                BY <1>3
            <4> QED BY <2>1, <3>3, <4>1, CacheBlocksKept
        <3> QED BY <3>2, <3>4
    <2>3. CASE status[r] # "running"
        BY <1>2, <1>10, <2>1, <2>3 DEF CachedUpto
    <2> QED BY <2>2, <2>3
<1>12. queue \in Seq(Range(queue))
    BY DEF FrameInv
<1>t. TurnInv'
    BY <1>1, TurnOver DEF Updating
<1>13. CASE Ending(f, m)
    <2>1. /\ FreeRequestBlocks(p, r) /\ status' = [status EXCEPT ![r] = "finished"]
          /\ running' = Without(running, r) /\ waiting' = Without(waiting, r)
        BY <1>2, <1>10, <1>13 DEF Ending
    <2>2. PoolInv' /\ table' = [table EXCEPT ![r] = <<>>]
        BY <1>1, <1>3, <1>11, <1>12, <2>1, FreeRequestKept
    <2>3. ListInv'
        BY <1>3, <2>1, ListsLeft
    <2>4. \A q \in Requests : /\ q # r => /\ table'[q] = table[q] /\ status'[q] = status[q]
                                          /\ computed'[q] = computed[q] /\ holders'[q] = holders[q]
                              /\ q = r => status'[q] = "finished"
        BY <1>1, <1>2, <1>3, <2>1, <2>2 DEF ListInv, PoolInv, Tables, CountInv
    <2>5. computed' \in [Requests -> Int] /\ holders' \in [Requests -> Nat]
        BY <1>1, <1>2, <1>3, <1>9 DEF CountInv
    <2>6. \A q \in Requests : /\ outputs'[q] \in Seq(Range(outputs'[q]))
                              /\ Len(outputs'[q]) <= MaxTokens'[q]
        BY <1>1, <1>5, <1>6 DEF CountInv, MaxTokens
    <2>7. \A q \in Requests : status'[q] # "finished" =>
              /\ computed'[q] <= BlockSize * Len(table'[q])
              /\ computed'[q] <= NumTokens(q)' + holders'[q]
        BY <1>7, <2>4 DEF CountInv
    <2>8. CountInv'
        BY <1>6, <2>5, <2>6, <2>7 DEF CountInv
    <2> QED BY <1>1, <1>3, <1>t, <2>2, <2>3, <2>8, NoBatch, NumberSame, OneLess
<1>14. CASE GoingOn(f, m)
    <2>1. /\ pool' = p /\ cachedN' = [cachedN EXCEPT ![r] = FullOf(f, m)]
          /\ UNCHANGED <<status, running, waiting, table, deferred>>
        BY <1>2, <1>10, <1>14 DEF GoingOn
    <2>2. FullOf(f, m) \in Nat
        <3>1. CASE status[r] = "running"
            <4> DEFINE d == SureOf(f, m) \div BlockSize
            <4>1. d \in Int
                BY <1>4, <1>9, DivFacts
            <4>2. FullOf(f, m) = Max({cachedN[r], d})
                BY <1>2, <3>1 DEF FullOf, SureOf, Committed
            <4> HIDE DEF d
            <4> DEFINE c == cachedN[r]
            <4>4. c \in Int
                BY <1>4
            <4> HIDE DEF c
            <4>5. Max({c, d}) \in Int /\ Max({c, d}) >= c
                BY <4>1, <4>4, MaxOfTwo
            <4>3. Max({cachedN[r], d}) \in Int /\ Max({cachedN[r], d}) >= cachedN[r]
                BY <4>5 DEF c
            <4> QED BY <1>4, <4>2, <4>3
        <3>2. CASE status[r] # "running"
            BY <1>2, <1>4, <3>2 DEF FullOf
        <3> QED BY <3>1, <3>2
    <2>3. PoolInv'
        <3>1. AllBlocks' = AllBlocks /\ Usable' = Usable /\ Tables' = Tables
            BY <1>1 DEF AllBlocks, Usable, Tables
        <3>2. cachedN' \in [Requests -> Nat]
            BY <1>3, <2>1, <2>2 DEF PoolInv
        <3>3. Accounted'
            BY <1>11, <2>1, <3>1 DEF PoolInv, Accounted
        <3> QED BY <1>11, <2>1, <3>1, <3>2, <3>3 DEF PoolInv
    <2>4. computed' \in [Requests -> Int] /\ holders' \in [Requests -> Nat]
        BY <1>1, <1>2, <1>3, <1>9 DEF CountInv
    <2>5. \A q \in Requests : /\ outputs'[q] \in Seq(Range(outputs'[q]))
                              /\ Len(outputs'[q]) <= MaxTokens'[q]
        BY <1>1, <1>5, <1>6 DEF CountInv, MaxTokens
    <2>6. /\ computed'[r] = RestOf(f) /\ holders'[r] = LeftOf(f, m)
          /\ \A q \in Requests : q # r => computed'[q] = computed[q] /\ holders'[q] = holders[q]
        BY <1>1, <1>2, <1>3 DEF CountInv
    <2>7. \A q \in Requests : status'[q] # "finished" =>
              /\ computed'[q] <= BlockSize * Len(table'[q])
              /\ computed'[q] <= NumTokens(q)' + holders'[q]
        <3> TAKE q \in Requests
        <3> HAVE status'[q] # "finished"
        <3>1. CASE q = r
            BY <1>8, <1>9, <2>1, <2>6, <3>1
        <3>2. CASE q # r
            BY <1>7, <2>1, <2>6, <3>2 DEF CountInv
        <3> QED BY <3>1, <3>2
    <2>8. CountInv'
        BY <1>6, <2>4, <2>5, <2>7 DEF CountInv
    <2> QED BY <1>1, <1>3, <1>t, <2>1, <2>3, <2>8, ListSame, NoBatch, NumberSame, OneLess
<1> QED BY <1>1, <1>13, <1>14

-----------------------------------------------------------------------------
(* What holds in every state.                                              *)

LEMMA StepKept ==
    ASSUME IInv, Next
    PROVE  IInv'
<1>1. CASE EngineStep
    BY <1>1, BeginScheduleKept, SkipRunningKept, ScheduleRunningKept, PreemptForKept,
       EndRunningKept, AdmitKept, EndScheduleKept, ProcessKept, UpdateDropKept,
       UpdateAppendKept, EndUpdateKept DEF EngineStep
<1>2. CASE Calls
    BY <1>2, AddRequestKept, AbortKept, ResetStepKept DEF Calls
<1> QED BY <1>1, <1>2 DEF Next

LEMMA StutterKept ==
    ASSUME IInv, UNCHANGED vars
    PROVE  IInv'
<1> USE DEF IInv
<1>1. /\ UNCHANGED <<config, pool, table, cachedN, deferred>>
      /\ UNCHANGED <<running, waiting, status>> /\ UNCHANGED <<computed, holders, outputs>>
      /\ UNCHANGED <<queue, out>> /\ UNCHANGED <<drafted, budget>>
      /\ batch' = batch /\ idx' = idx /\ phase' = phase
    BY DEF vars, schedVars, reqVars, blockVars
<1>2. BatchInv'
    <2>1. \A f \in Range(batch) : Framed(f)'
        BY <1>1, FramedSame DEF BatchInv
    <2> QED BY <1>1, <2>1 DEF BatchInv
<1>3. TurnInv'
    BY DEF TurnInv, vars, schedVars
<1> QED BY <1>1, <1>2, <1>3, PoolSame, ListSame, CountSame, FrameSame, NumberSame

\* The state of the scheduler is well formed whatever is scheduled, preempted,
\* aborted, updated or reset, for any requests and configurations (schedule,
\* update_from_output, finish_requests and reset_prefix_cache): the references
\* are those of the tables and of the deferred frees, every request is in the
\* list of its status, and what is computed of a request that has not finished
\* fits into its table.
THEOREM SchedulerKept == Spec => []IInv
<1>1. Init => IInv
    BY InitKept
<1>2. IInv /\ [Next]_vars => IInv'
    BY StepKept, StutterKept
<1> QED BY <1>1, <1>2, PTL DEF Spec

LEMMA InvAccounts ==
    ASSUME IInv
    PROVE  BlocksAccounted
<1>1. /\ PoolKept(pool, AllBlocks) /\ Accounted /\ table \in Tables
      /\ deferred \in Seq(Frees(Usable)) /\ BlocksOf(pool) = AllBlocks
    BY PoolFacts DEF IInv, PoolInv
<1>2. PoolType(pool) /\ FreeExact(pool) /\ IndexExact(pool)
    BY <1>1, PoolPromises
<1>3. Blocks \ {Null} = Usable
    BY <1>1 DEF Blocks, Usable
<1>4. \A b : Cardinality(AllPlaces(b, table)) = Uses(b, table, Requests)
    BY <1>1 DEF AllPlaces, Uses, PlacesIn, Tables
<1>5. \A b : Cardinality(AllPlaces(b, BlocksIn(deferred))) = HeldOf(b, deferred)
    <2>1. DOMAIN BlocksIn(deferred) = 1..Len(deferred)
        BY <1>1 DEF BlocksIn
    <2> QED BY <2>1 DEF AllPlaces, Uses, PlacesIn, HeldOf
<1>6. BlocksIn(deferred) = [i \in DOMAIN deferred |-> deferred[i].blocks]
    BY DEF BlocksIn
<1> QED BY <1>1, <1>2, <1>3, <1>4, <1>5, <1>6 DEF BlocksAccounted, Accounted

\* Every block has as many references as the tables and the deferred frees hold
\* it, the free queue has exactly the blocks without one, and the hash index
\* leads to the blocks that know it (block_pool.py, as the scheduler and the KV
\* manager call it), after any sequence of allocations, hits, preemptions,
\* aborts, deferred frees and resets.
THEOREM ReferencesExact == Spec => []BlocksAccounted
<1>1. IInv => BlocksAccounted
    BY InvAccounts
<1> QED BY <1>1, SchedulerKept, PTL

-----------------------------------------------------------------------------
(* The blocks of the steps in flight.                                      *)

\* How many of the first i steps of q have something to run.
RankOf(q, i) == Cardinality({j \in 1..i : q[j] # <<>>})
Rank(i) == RankOf(queue, i)

\* What a frame writes fits into its blocks.
Sized(f) == f.blocks \in Seq(Usable) /\ f.start + f.n <= BlockSize * Len(f.blocks)

\* The blocks of a frame are in the table of its request, which was scheduled no
\* earlier than the frame, or they wait behind its step to be freed.
Kept(f, rank) ==
    \/ lastSeq[f.req] >= rank /\ Range(f.blocks) \subseteq Range(table[f.req])
    \/ \E d \in Range(deferred) : d.fence >= rank /\ Range(f.blocks) \subseteq Range(d.blocks)

FlightInv ==
    /\ lastSeq \in [Requests -> Int]
    /\ \A f \in Range(batch) : Sized(f) /\ Range(f.blocks) \subseteq Range(table[f.req])
    /\ \A i \in DOMAIN queue : \A f \in Range(queue[i]) :
          Sized(f) /\ (DeferFree => Kept(f, Rank(i)))

\* What becomes of the blocks of a request in a step that leaves the queue alone:
\* they stay in its table, nothing of it is in flight, or they wait behind every
\* step in flight.
StillHeld(r) ==
    \/ Range(table[r]) \subseteq Range(table'[r])
    \/ lastSeq[r] <= 0
    \/ \E d \in Range(deferred') : d.fence >= Ahead /\ Range(table[r]) \subseteq Range(d.blocks)

LEMMA RankOrder ==
    ASSUME NEW q, NEW n \in Nat, NEW i \in 0..n
    PROVE  /\ RankOf(q, i) \in Nat /\ RankOf(q, n) \in Nat /\ RankOf(q, i) <= RankOf(q, n)
           /\ IsFiniteSet({j \in 1..n : q[j] # <<>>})
<1>1. IsFiniteSet(1..n) /\ {j \in 1..n : q[j] # <<>>} \in SUBSET (1..n)
    BY FS_Interval
<1>2. {j \in 1..i : q[j] # <<>>} \in SUBSET {j \in 1..n : q[j] # <<>>}
    OBVIOUS
<1>3. IsFiniteSet({j \in 1..n : q[j] # <<>>})
    BY <1>1, FS_Subset
<1> QED BY <1>2, <1>3, FS_Subset, FS_CardinalityType DEF RankOf

\* One more step.
LEMMA RankNext ==
    ASSUME NEW q, NEW n \in Nat
    PROVE  /\ RankOf(q, n + 1) <= RankOf(q, n) + 1
           /\ q[n + 1] # <<>> => RankOf(q, n + 1) >= 1
<1> DEFINE A == {j \in 1..n : q[j] # <<>>}
           B == {j \in 1..(n + 1) : q[j] # <<>>}
<1>1. IsFiniteSet(A) /\ Cardinality(A) \in Nat /\ Cardinality(B) \in Nat
    <2>1. n \in 0..n /\ n + 1 \in Nat /\ n + 1 \in 0..(n + 1)
        OBVIOUS
    <2> QED BY <2>1, RankOrder DEF RankOf
<1>2. B \in SUBSET (A \cup {n + 1}) /\ (q[n + 1] # <<>> => B = A \cup {n + 1})
    OBVIOUS
<1>3. n + 1 \notin A
    OBVIOUS
<1> HIDE DEF A, B
<1>4. /\ IsFiniteSet(A \cup {n + 1})
      /\ Cardinality(A \cup {n + 1}) = Cardinality(A) + 1
    BY <1>1, <1>3, FS_AddElement
<1>5. Cardinality(B) <= Cardinality(A) + 1
    BY <1>2, <1>4, FS_Subset
<1>6. q[n + 1] # <<>> => Cardinality(B) = Cardinality(A) + 1
    BY <1>2, <1>4
<1>7. RankOf(q, n) = Cardinality(A) /\ RankOf(q, n + 1) = Cardinality(B)
    BY DEF A, B, RankOf
<1> QED BY <1>1, <1>5, <1>6, <1>7

LEMMA RankKnown ==
    ASSUME queue \in Seq(Range(queue)), NEW i \in DOMAIN queue
    PROVE  /\ Rank(i) \in Nat /\ Rank(i) <= Ahead
           /\ queue[i] # <<>> => Rank(i) >= 1
<1> DEFINE n == Len(queue)
<1>1. n \in Nat /\ DOMAIN queue = 1..n /\ i \in 0..n /\ i - 1 \in Nat /\ (i - 1) + 1 = i
    OBVIOUS
<1>2. Ahead = RankOf(queue, n)
    BY <1>1 DEF Ahead, RankOf
<1> HIDE DEF n
<1>3. RankOf(queue, i) \in Nat /\ RankOf(queue, i) <= RankOf(queue, n)
    BY <1>1, RankOrder
<1>4. queue[i] # <<>> => RankOf(queue, i) >= 1
    <2>1. queue[(i - 1) + 1] # <<>> => RankOf(queue, (i - 1) + 1) >= 1
        <3>1. \A k \in Nat : queue[k + 1] # <<>> => RankOf(queue, k + 1) >= 1
            BY RankNext
        <3> QED BY <1>1, <3>1
    <2> QED BY <1>1, <2>1
<1> QED BY <1>2, <1>3, <1>4 DEF Rank

\* The steps that are left when the oldest one has run.
LEMMA RankTail ==
    ASSUME NEW S, NEW q \in Seq(S), q # <<>>, NEW i \in 1..(Len(q) - 1)
    PROVE  /\ RankOf(Tail(q), i) \in Nat /\ RankOf(q, i + 1) \in Nat
           /\ RankOf(Tail(q), i) <= RankOf(q, i + 1)
           /\ Head(q) # <<>> => RankOf(Tail(q), i) + 1 <= RankOf(q, i + 1)
           /\ q[i + 1] # <<>> => RankOf(Tail(q), i) >= 1
<1> DEFINE t == Tail(q)
           A == {j \in 1..i : t[j] # <<>>}
           B == {j \in 1..(i + 1) : q[j] # <<>>}
           C == B \ {1}
           shift == [j \in A |-> j + 1]
<1>1. /\ i \in Nat \ {0} /\ Len(q) \in Nat /\ i + 1 <= Len(q) /\ Head(q) = q[1]
      /\ \A j \in 1..i : t[j] = q[j + 1]
    OBVIOUS
<1> HIDE DEF t
<1>2. /\ IsFiniteSet(B) /\ Cardinality(A) = RankOf(t, i) /\ Cardinality(B) = RankOf(q, i + 1)
      /\ RankOf(t, i) \in Nat /\ RankOf(q, i + 1) \in Nat
    <2>1. i \in Nat /\ i + 1 \in Nat /\ i \in 0..i /\ i + 1 \in 0..(i + 1)
        BY <1>1
    <2>2. IsFiniteSet(B) /\ RankOf(q, i + 1) \in Nat
        BY <2>1, RankOrder
    <2>3. RankOf(t, i) \in Nat
        BY <2>1, RankOrder
    <2> QED BY <2>2, <2>3 DEF RankOf
<1>3. \A j \in A : j + 1 \in C
    BY <1>1
<1>4. \A j, k \in A : j + 1 = k + 1 => j = k
    BY <1>1
<1>5. Head(q) # <<>> => 1 \in B
    BY <1>1
<1> HIDE DEF A, B
<1>6. shift \in Injection(A, C)
    <2>1. shift \in [A -> C] /\ \A j, k \in A : shift[j] = shift[k] => j = k
        BY <1>3, <1>4
    <2> HIDE DEF shift
    <2> QED BY <2>1 DEF Injection, IsInjective
<1> HIDE DEF shift
<1>7. /\ IsFiniteSet(C) /\ Cardinality(B) \in Nat
      /\ Cardinality(C) = IF 1 \in B THEN Cardinality(B) - 1 ELSE Cardinality(B)
    BY <1>2, FS_RemoveElement
<1> HIDE DEF C
<1>8. Cardinality(A) <= Cardinality(C)
    BY <1>6, <1>7, FS_Injection
<1>9. q[i + 1] # <<>> => RankOf(t, i) >= 1
    <2>1. \A k \in Nat : t[k + 1] # <<>> => RankOf(t, k + 1) >= 1
        BY RankNext
    <2>2. t[i] = q[i + 1] /\ i - 1 \in Nat /\ (i - 1) + 1 = i
        BY <1>1
    <2>3. t[(i - 1) + 1] # <<>> => RankOf(t, (i - 1) + 1) >= 1
        BY <2>1, <2>2
    <2> QED BY <2>2, <2>3
<1> QED BY <1>2, <1>5, <1>7, <1>8, <1>9 DEF t

\* The steps in flight keep their blocks through a step that leaves the queue
\* alone.
LEMMA QueueStays ==
    ASSUME IInv, IInv', FlightInv, UNCHANGED <<config, queue, lastSeq>>,
           DeferFree => /\ Range(deferred) \subseteq Range(deferred')
                        /\ \A r \in Requests : StillHeld(r),
           \A f \in Range(batch') : Sized(f)' /\ Range(f.blocks) \subseteq Range(table'[f.req])
    PROVE  FlightInv'
<1>1. ASSUME NEW i \in DOMAIN queue, NEW f \in Range(queue[i])
      PROVE  Sized(f)' /\ (DeferFree' => Kept(f, Rank(i))')
    <2>1. Sized(f)'
        BY DEF FlightInv, Sized, Usable, AllBlocks
    <2>2. ASSUME DeferFree PROVE Kept(f, Rank(i))'
        <3>1. f.req \in Requests
            BY DEF IInv, FrameInv
        <3>2. PICK k : k = Rank(i)
            OBVIOUS
        <3>3. k \in Nat /\ k <= Ahead /\ k >= 1 /\ Ahead \in Nat
            <4>1. queue \in Seq(Range(queue)) /\ queue[i] # <<>>
                BY DEF IInv, FrameInv, Range
            <4> QED BY <3>2, <4>1, RankKnown, AheadKnown
        <3>4. Rank(i)' = k
            BY <3>2 DEF Rank
        <3>5. Kept(f, k)
            BY <2>2, <3>2 DEF FlightInv
        <3>6. CASE \E d \in Range(deferred) : d.fence >= k /\ Range(f.blocks) \subseteq Range(d.blocks)
            BY <2>2, <3>4, <3>6 DEF Kept
        <3>7. CASE lastSeq[f.req] >= k /\ Range(f.blocks) \subseteq Range(table[f.req])
            <4>1. lastSeq[f.req] \in Int /\ ~(lastSeq[f.req] <= 0)
                BY <3>1, <3>3, <3>7 DEF FlightInv
            <4>2. StillHeld(f.req)
                BY <2>2, <3>1
            <4>3. CASE Range(table[f.req]) \subseteq Range(table'[f.req])
                BY <3>4, <3>7, <4>3 DEF Kept
            <4>4. CASE \E d \in Range(deferred') :
                          d.fence >= Ahead /\ Range(table[f.req]) \subseteq Range(d.blocks)
                <5>1. PICK d \in Range(deferred') :
                          d.fence >= Ahead /\ Range(table[f.req]) \subseteq Range(d.blocks)
                    BY <4>4
                <5>2. d.fence \in Int
                    <6>1. PICK j \in DOMAIN deferred' : d = deferred'[j]
                        BY <5>1 DEF Range
                    <6>2. deferred' \in Seq(Frees(Usable'))
                        BY DEF IInv, PoolInv
                    <6>3. d \in Frees(Usable')
                        BY <6>1, <6>2
                    <6> QED BY <6>3 DEF Frees
                <5>3. d.fence >= k
                    BY <3>3, <5>1, <5>2
                <5> QED BY <3>4, <3>7, <5>1, <5>3 DEF Kept
            <4> QED BY <4>1, <4>2, <4>3, <4>4 DEF StillHeld
        <3> QED BY <3>5, <3>6, <3>7 DEF Kept
    <2>3. DeferFree' = DeferFree
        BY DEF DeferFree
    <2> QED BY <2>1, <2>2, <2>3
<1> QED BY <1>1 DEF FlightInv

\* A step that changes neither tables nor deferred frees, nor adds a frame.
LEMMA FlightSame ==
    ASSUME IInv, IInv', FlightInv, UNCHANGED <<config, queue, lastSeq, table, deferred>>,
           Range(batch') \subseteq Range(batch)
    PROVE  FlightInv'
<1>1. \A f \in Range(batch') : Sized(f)' /\ Range(f.blocks) \subseteq Range(table'[f.req])
    BY DEF FlightInv, Sized, Usable, AllBlocks
<1>2. \A r \in Requests : StillHeld(r)
    BY DEF StillHeld
<1> QED BY <1>1, <1>2, QueueStays

LEMMA BatchRuns ==
    ASSUME IInv, NEW f \in Range(batch)
    PROVE  f.req \in Range(running) /\ f.req \in Requests
<1>1. f.req \in Range(running)
    BY DEF IInv, BatchInv, Framed
<1>2. running \in Seq(Requests)
    BY DEF IInv, ListInv
<1> QED BY <1>1, <1>2 DEF Range

\* A frame that is cut after its allocation.
LEMMA FlightAdds ==
    ASSUME IInv, IInv', FlightInv, UNCHANGED <<config, queue, lastSeq, deferred>>,
           TablesGrow, NEW f, f.req \in Requests, f.blocks = table'[f.req],
           Range(batch') = Range(batch) \cup {f}
    PROVE  FlightInv'
<1>1. /\ \A q \in Requests : Range(table[q]) \subseteq Range(table'[q])
      /\ table'[f.req] \in Seq(Usable')
    BY DEF TablesGrow, IInv, PoolInv, Tables
<1>2. ASSUME NEW g \in Range(batch')
      PROVE  Sized(g)' /\ Range(g.blocks) \subseteq Range(table'[g.req])
    <2>1. CASE g = f
        <3>1. f.start + f.n <= BlockSize * Len(table'[f.req])
            BY <2>1 DEF IInv, BatchInv, Framed
        <3> QED BY <1>1, <2>1, <3>1 DEF Sized
    <2>2. CASE g \in Range(batch)
        <3>1. g.req \in Requests
            BY <2>2, BatchRuns
        <3>2. Sized(g) /\ Range(g.blocks) \subseteq Range(table[g.req])
            BY <2>2 DEF FlightInv
        <3> QED BY <1>1, <3>1, <3>2 DEF Sized, Usable, AllBlocks
    <2> QED BY <2>1, <2>2
<1>3. \A q \in Requests : StillHeld(q)
    BY <1>1 DEF StillHeld
<1> QED BY <1>2, <1>3, QueueStays

\* _free_request_blocks keeps the blocks that a step in flight may write.
LEMMA FreedBehind ==
    ASSUME IInv, FlightInv, DeferFree, NEW p, NEW r \in Requests, FreeRequestBlocks(p, r)
    PROVE  /\ Range(deferred) \subseteq Range(deferred')
           /\ \A q \in Requests : StillHeld(q)
<1>1. /\ table \in [Requests -> Seq(Usable)] /\ table' = [table EXCEPT ![r] = <<>>]
      /\ deferred \in Seq(Frees(Usable))
    BY DEF IInv, PoolInv, Tables, FreeRequestBlocks
<1>2. \A q \in Requests : q # r => StillHeld(q)
    BY <1>1 DEF StillHeld
<1>3. CASE lastSeq[r] <= 0
    BY <1>2, <1>3 DEF StillHeld, MayFreeNow, FreeRequestBlocks
<1>4. CASE ~(lastSeq[r] <= 0) /\ table[r] = <<>>
    <2>1. deferred' = deferred /\ Range(table[r]) = {}
        BY <1>4 DEF FreeRequestBlocks, MayFreeNow, Range
    <2> QED BY <1>2, <2>1 DEF StillHeld
<1>5. CASE ~(lastSeq[r] <= 0) /\ table[r] # <<>>
    <2> DEFINE d == [fence |-> Ahead, blocks |-> table[r]]
    <2>1. deferred' = Append(deferred, d)
        BY <1>5 DEF FreeRequestBlocks, MayFreeNow
    <2>2. Range(deferred') = Range(deferred) \cup {d}
        <3>1. deferred \in Seq(Range(deferred))
            BY <1>1, InRange
        <3> HIDE DEF d
        <3> QED BY <2>1, <3>1, OneMore
    <2>3. d.fence >= Ahead /\ Range(table[r]) \subseteq Range(d.blocks)
        <3>1. Ahead \in Nat
            BY AheadKnown DEF IInv, FrameInv
        <3> QED BY <3>1
    <2> HIDE DEF d
    <2> QED BY <1>2, <2>2, <2>3 DEF StillHeld
<1> QED BY <1>3, <1>4, <1>5

LEMMA FlightFreed ==
    ASSUME IInv, IInv', FlightInv, UNCHANGED <<config, queue, lastSeq>>,
           NEW p, NEW r \in Requests, FreeRequestBlocks(p, r),
           \A f \in Range(batch') : f \in Range(batch) /\ f.req # r
    PROVE  FlightInv'
<1>1. table \in [Requests -> Seq(Usable)] /\ table' = [table EXCEPT ![r] = <<>>]
    BY DEF IInv, PoolInv, Tables, FreeRequestBlocks
<1>2. ASSUME NEW f \in Range(batch')
      PROVE  Sized(f)' /\ Range(f.blocks) \subseteq Range(table'[f.req])
    <2>1. f \in Range(batch) /\ f.req # r /\ f.req \in Requests
        BY BatchRuns
    <2>2. Sized(f) /\ Range(f.blocks) \subseteq Range(table[f.req])
        BY <2>1 DEF FlightInv
    <2>3. table'[f.req] = table[f.req]
        BY <1>1, <2>1
    <2> QED BY <2>2, <2>3 DEF Sized, Usable, AllBlocks
<1>3. DeferFree => /\ Range(deferred) \subseteq Range(deferred')
                   /\ \A q \in Requests : StillHeld(q)
    BY FreedBehind
<1> QED BY <1>2, <1>3, QueueStays

LEMMA NoFrames ==
    ASSUME IInv, phase \notin {"running", "waiting"}
    PROVE  Range(batch) = {}
BY DEF IInv, BatchInv, Range

\* The steps that neither schedule nor free anything.
LEMMA FlightQuiet ==
    ASSUME IInv, IInv', FlightInv,
           \/ BeginSchedule \/ SkipRunning \/ EndRunning \/ UpdateSkip \/ UpdateDiscard
           \/ EndUpdate \/ (\E r \in Requests : AddRequest(r)) \/ UNCHANGED vars
    PROVE  FlightInv'
<1>1. /\ UNCHANGED <<config, queue, lastSeq, table, deferred>>
      /\ batch' = batch \/ batch' = <<>>
    BY DEF BeginSchedule, SkipRunning, EndRunning, UpdateSkip, UpdateDiscard, EndUpdate,
           AddRequest, vars, schedVars, blockVars
<1>2. Range(batch') \subseteq Range(batch)
    BY <1>1 DEF Range
<1> QED BY <1>1, <1>2, FlightSame

\* A step that cuts a frame of what it allocates.
LEMMA FlightScheduled ==
    ASSUME IInv, IInv', FlightInv, ScheduleRunning \/ Admit
    PROVE  FlightInv'
<1>1. TablesGrow /\ UNCHANGED <<config, queue, lastSeq, deferred>>
    BY ScheduleRunningKept, AdmitKept DEF ScheduleRunning, Admit
<1>2. \E f : f.blocks = table'[f.req] /\ batch' = Append(batch, f)
    BY DEF ScheduleRunning, Admit, Frame
<1>3. PICK f : f.blocks = table'[f.req] /\ batch' = Append(batch, f)
    BY <1>2
<1>4. Range(batch') = Range(batch) \cup {f}
    <2>1. batch \in Seq(Range(batch))
        BY DEF IInv, BatchInv
    <2> QED BY <1>3, <2>1, OneMore
<1>5. f.req \in Requests
    <2>1. f \in Range(batch')
        BY <1>4
    <2>2. f.req \in Range(running')
        BY <2>1 DEF IInv, BatchInv, Framed
    <2>3. running' \in Seq(Requests)
        BY DEF IInv, ListInv
    <2> QED BY <2>2, <2>3 DEF Range
<1> QED BY <1>1, <1>3, <1>4, <1>5, FlightAdds

LEMMA FlightPreempted ==
    ASSUME IInv, IInv', FlightInv, PreemptFor
    PROVE  FlightInv'
<1>0. PICK v : v = Victim
    OBVIOUS
<1> DEFINE rest == {f \in Range(batch) : f.req # v}
<1>1. /\ InTurn /\ FreeRequestBlocks(pool, v) /\ batch' = Filter(batch, rest)
      /\ UNCHANGED <<config, queue, lastSeq>>
    BY <1>0 DEF PreemptFor
<1>2. v \in Range(running) /\ v \in Requests
    <2>1. running \in Seq(Requests) /\ running # <<>>
        BY <1>1, TurnKnown DEF IInv, ListInv, Range
    <2>3. v \in Range(running)
        BY <1>0, <2>1, VictimRuns DEF IInv
    <2> QED BY <2>1, <2>3 DEF Range
<1>3. \A f \in Range(batch') : f \in Range(batch) /\ f.req # v
    <2> DEFINE B == Range(batch)
    <2>1. batch \in Seq(B) /\ rest \subseteq B
        BY DEF IInv, BatchInv
    <2> HIDE DEF B, rest
    <2>2. Range(Filter(batch, rest)) = Range(batch) \cap rest
        BY <2>1, FilterFacts
    <2>3. Range(batch') \subseteq rest
        BY <1>1, <2>2
    <2> QED BY <2>3 DEF rest
<1> QED BY <1>1, <1>2, <1>3, FlightFreed

LEMMA FlightAborted ==
    ASSUME IInv, IInv', FlightInv, NEW r \in Requests, Abort(r)
    PROVE  FlightInv'
<1>1. /\ FreeRequestBlocks(pool, r) /\ UNCHANGED <<config, queue, lastSeq>> /\ batch' = batch
      /\ phase \notin {"running", "waiting"}
    BY DEF Abort, schedVars
<1>2. Range(batch') = {}
    BY <1>1, NoFrames
<1> QED BY <1>1, <1>2, FlightFreed

LEMMA FlightUpdated ==
    ASSUME IInv, IInv', FlightInv, UpdateAppend
    PROVE  FlightInv'
<1>1. PICK f \in Range(out), m \in 1..(Drafts + 1) :
              /\ Updating(f)
              /\ Ending(f, m) \/ GoingOn(f, m)
              /\ UNCHANGED <<config, queue, batch>>
    BY UpdateAppendIs
<1>2. lastSeq' = lastSeq
    BY DEF UpdateAppend
<1>3. Range(batch') = {} /\ Range(batch) = {}
    <2>1. phase = "update"
        BY <1>1 DEF Updating
    <2> QED BY <1>1, <2>1, NoFrames
<1>4. CASE GoingOn(f, m)
    BY <1>1, <1>2, <1>3, <1>4, FlightSame DEF GoingOn
<1>5. CASE Ending(f, m)
    <2>1. f.req \in Requests
        BY <1>1 DEF IInv, FrameInv
    <2>2. FreeRequestBlocks(CachedUpto(f, m), f.req)
        BY <1>5 DEF Ending
    <2> QED BY <1>1, <1>2, <1>3, <2>1, <2>2, FlightFreed
<1> QED BY <1>1, <1>4, <1>5

\* A forced reset keeps behind the steps in flight what they may write.
LEMMA FlightReset ==
    ASSUME IInv, IInv', FlightInv, Reset
    PROVE  FlightInv'
<1> DEFINE rs == Range(running)
           F == {r \in rs : MayFreeNow(r)}
           L == {r \in rs \ F : table[r] # <<>>}
           later == Filter(Preempting, L)
           e(i) == [fence |-> Ahead, blocks |-> table[later[i]]]
           late == [i \in DOMAIN later |-> e(i)]
<1>1. /\ deferred' = deferred \o late
      /\ table' = [r \in Requests |-> IF r \in rs THEN <<>> ELSE table[r]]
      /\ UNCHANGED <<config, queue, lastSeq>> /\ batch' = batch /\ phase = "idle"
    BY DEF Reset, ResetBlocks, schedVars
<1>2. Range(batch') = {}
    BY <1>1, NoFrames
<1>3. later \in Seq(Requests) /\ Range(later) = L
    <2>1. Preempting \in Seq(Requests) /\ Range(Preempting) = rs /\ IsInjective(Preempting)
        BY ReverseCount DEF Preempting, IInv, ListInv
    <2> HIDE DEF L
    <2>2. later \in Seq(Requests) /\ Range(later) = rs \cap L
        BY <2>1, FilterFacts
    <2> QED BY <2>1, <2>2 DEF L
<1> HIDE DEF later
<1>4. Range(deferred) \subseteq Range(deferred') /\ Range(late) \subseteq Range(deferred')
    <2> DEFINE S == Range(deferred) \cup Range(late)
               n == Len(later)
    <2>1. deferred \in Seq(S)
        <3>1. deferred \in Seq(Frees(Usable))
            BY DEF IInv, PoolInv
        <3> DEFINE T == Frees(Usable)
        <3>2. deferred \in Seq(T)
            BY <3>1
        <3> HIDE DEF T
        <3> DEFINE R == Range(deferred)
        <3>3. deferred \in Seq(R) /\ R \subseteq S
            BY <3>2, InRange
        <3> HIDE DEF R, S
        <3> QED BY <3>3
    <2>2. late \in Seq(S)
        <3>1. n \in Nat /\ DOMAIN later = 1..n
            BY <1>3
        <3>2. \A i \in 1..n : late[i] \in S
            BY <3>1 DEF Range
        <3>3. late = [i \in 1..n |-> late[i]]
            BY <3>1
        <3> HIDE DEF S, n, late
        <3>4. [i \in 1..n |-> late[i]] \in Seq(S)
            BY <3>1, <3>2
        <3> QED BY <3>3, <3>4
    <2> HIDE DEF S, late
    <2> QED BY <1>1, <2>1, <2>2, ConcatKeeps
<1>5. ASSUME DeferFree, NEW r \in Requests PROVE StillHeld(r)
    <2>1. CASE r \notin rs
        BY <1>1, <2>1 DEF StillHeld
    <2>2. CASE r \in rs /\ lastSeq[r] <= 0
        BY <2>2 DEF StillHeld
    <2>3. CASE table[r] = <<>>
        BY <2>3 DEF StillHeld, Range
    <2>4. CASE r \in rs /\ ~(lastSeq[r] <= 0) /\ table[r] # <<>>
        <3>1. r \in L
            BY <1>5, <2>4 DEF MayFreeNow
        <3>2. PICK i \in DOMAIN later : later[i] = r
            BY <1>3, <3>1 DEF Range
        <3>3. e(i) \in Range(deferred')
            BY <1>4, <3>2 DEF Range
        <3>4. e(i).fence >= Ahead /\ Range(table[r]) \subseteq Range(e(i).blocks)
            <4>1. Ahead \in Nat
                BY AheadKnown DEF IInv, FrameInv
            <4> QED BY <3>2, <4>1
        <3> HIDE DEF e
        <3> QED BY <3>3, <3>4 DEF StillHeld
    <2> QED BY <2>1, <2>2, <2>3, <2>4
<1> QED BY <1>1, <1>2, <1>4, <1>5, QueueStays

\* A step that is scheduled is the last one in flight, and its requests know.
LEMMA FlightDispatched ==
    ASSUME IInv, FlightInv, EndSchedule
    PROVE  FlightInv'
<1>0. PICK n : n = Len(queue)
    OBVIOUS
<1>1. /\ UNCHANGED <<config, table, deferred>>
      /\ lastSeq' = [r \in Requests |-> IF InBatch(r) THEN Ahead + 1 ELSE lastSeq[r]]
      /\ queue' = Append(queue, batch) /\ batch' = <<>>
    BY DEF EndSchedule
<1>2. /\ queue \in Seq(Range(queue)) /\ n \in Nat /\ DOMAIN queue = 1..n
      /\ DOMAIN queue' = 1..(n + 1) /\ queue'[n + 1] = batch
      /\ \A i \in 1..n : queue'[i] = queue[i]
    <2> DEFINE S == Range(queue) \cup {batch}
               R == Range(queue)
    <2>1. queue \in Seq(R) /\ R \subseteq S /\ batch \in S
        BY DEF IInv, FrameInv
    <2> HIDE DEF R, S
    <2>2. queue \in Seq(S)
        BY <2>1
    <2> QED BY <1>0, <1>1, <2>1, <2>2 DEF R
<1>3. Ahead = RankOf(queue, n) /\ Ahead \in Nat
    BY <1>2, AheadKnown DEF Ahead, RankOf
<1>4. \A i \in 1..n : Rank(i)' = Rank(i) /\ Rank(i) \in Nat /\ Rank(i) <= Ahead
    <2> TAKE i \in 1..n
    <2>1. Rank(i) \in Nat /\ Rank(i) <= Ahead
        BY <1>2, RankKnown
    <2>2. \A j \in 1..i : j \in 1..n
        BY <1>2
    <2>3. {j \in 1..i : queue'[j] # <<>>} = {j \in 1..i : queue[j] # <<>>}
        BY <1>2, <2>2
    <2> QED BY <2>1, <2>3 DEF Rank, RankOf
<1>5. Rank(n + 1)' <= Ahead + 1
    <2>1. RankOf(queue', n + 1) <= RankOf(queue', n) + 1
        <3>1. \A q : RankOf(q, n + 1) <= RankOf(q, n) + 1
            BY <1>2, RankNext
        <3> QED BY <3>1
    <2>2. {j \in 1..n : queue'[j] # <<>>} = {j \in 1..n : queue[j] # <<>>}
        BY <1>2
    <2>3. RankOf(queue', n) = RankOf(queue, n)
        BY <2>2 DEF RankOf
    <2>4. Rank(n + 1)' = RankOf(queue', n + 1)
        BY <1>2 DEF Rank
    <2> QED BY <1>3, <2>1, <2>3, <2>4
<1>6. lastSeq' \in [Requests -> Int]
    BY <1>1, <1>3 DEF FlightInv
<1>7. ASSUME NEW i \in 1..n, NEW f \in Range(queue[i])
      PROVE  Sized(f)' /\ (DeferFree' => Kept(f, Rank(i))')
    <2>1. Sized(f) /\ (DeferFree => Kept(f, Rank(i))) /\ f.req \in Requests
        BY <1>2 DEF FlightInv, IInv, FrameInv
    <2>2. PICK k : k = Rank(i)
        OBVIOUS
    <2>3. k \in Nat /\ k <= Ahead /\ Rank(i)' = k
        BY <1>4, <2>2
    <2>4. ASSUME Kept(f, k) PROVE Kept(f, Rank(i))'
        <3>1. CASE \E d \in Range(deferred) : d.fence >= k /\ Range(f.blocks) \subseteq Range(d.blocks)
            BY <1>1, <2>3, <3>1 DEF Kept
        <3>2. CASE lastSeq[f.req] >= k /\ Range(f.blocks) \subseteq Range(table[f.req])
            <4>1. lastSeq'[f.req] >= k
                BY <1>1, <1>3, <2>1, <2>3, <3>2
            <4> QED BY <1>1, <2>3, <3>2, <4>1 DEF Kept
        <3> QED BY <2>4, <3>1, <3>2 DEF Kept
    <2> QED BY <1>1, <2>1, <2>2, <2>4 DEF Sized, Usable, AllBlocks, DeferFree
<1>8. ASSUME NEW f \in Range(batch)
      PROVE  Sized(f)' /\ Kept(f, Rank(n + 1))'
    <2>1. Sized(f) /\ Range(f.blocks) \subseteq Range(table[f.req]) /\ f.req \in Requests
        BY BatchRuns DEF FlightInv
    <2>2. InBatch(f.req)
        BY DEF InBatch, Range
    <2>3. lastSeq'[f.req] = Ahead + 1
        BY <1>1, <2>1, <2>2
    <2>4. lastSeq'[f.req] >= Rank(n + 1)'
        <3>1. Rank(n + 1)' \in Nat
            <4>1. \A q : RankOf(q, n + 1) \in Nat
                <5>1. n + 1 \in Nat /\ n + 1 \in 0..(n + 1)
                    BY <1>2
                <5> QED BY <5>1, RankOrder
            <4>2. Rank(n + 1)' = RankOf(queue', n + 1)
                BY <1>2 DEF Rank
            <4> QED BY <4>1, <4>2
        <3> QED BY <1>3, <1>5, <2>3, <3>1
    <2> QED BY <1>1, <2>1, <2>4 DEF Kept, Sized, Usable, AllBlocks
<1>9. ASSUME NEW i \in DOMAIN queue', NEW f \in Range(queue'[i])
      PROVE  Sized(f)' /\ (DeferFree' => Kept(f, Rank(i))')
    <2>1. CASE i = n + 1
        BY <1>2, <1>8, <2>1
    <2>2. CASE i # n + 1
        <3>1. i \in 1..n
            BY <1>2, <2>2
        <3>2. f \in Range(queue[i])
            BY <1>2, <3>1
        <3> QED BY <1>7, <3>1, <3>2
    <2> QED BY <2>1, <2>2
<1>10. Range(batch') = {}
    BY <1>1 DEF Range
<1> QED BY <1>6, <1>9, <1>10 DEF FlightInv

\* What is drained is behind nothing that is still in flight.
LEMMA DrainedBefore ==
    ASSUME NEW S, NEW d \in Seq(S), NEW j \in 1..Len(d), ~(d[j].fence <= 0)
    PROVE  d[j] \in Range(SubSeq(d, DrainedCount(d) + 1, Len(d)))
<1> DEFINE n == Len(d)
           M == {m \in 0..n : \A i \in 1..m : d[i].fence <= 0}
           k == DrainedCount(d)
           rest == SubSeq(d, k + 1, n)
<1>1. n \in Nat /\ 0 \in M /\ M \in SUBSET (0..n) /\ k = Max(M)
    BY DEF DrainedCount
<1>2. k \in M
    <2> HIDE DEF M, k
    <2> QED BY <1>1, GreatestUpto
<1>3. k \in 0..n /\ k < j
    <2>1. k \in 0..n /\ \A i \in 1..k : d[i].fence <= 0
        BY <1>2
    <2> HIDE DEF k
    <2>2. j \notin 1..k
        BY <2>1
    <2> QED BY <2>1, <2>2
<1> HIDE DEF k, M
<1>4. rest = [i \in 1..(n - k) |-> d[k + i]] /\ j - k \in 1..(n - k) /\ k + (j - k) = j
    <2>1. \A i \in 1..(n - k) : k + 1 + i - 1 = k + i /\ k + i \in 1..n
        BY <1>1, <1>3
    <2>2. rest = [i \in 1..(n - k) |-> d[k + i]]
        BY <1>1, <1>3, <2>1
    <2> QED BY <1>1, <1>3, <2>2
<1> HIDE DEF rest
<1>5. rest[j - k] = d[j] /\ j - k \in DOMAIN rest
    BY <1>4
<1> QED BY <1>5 DEF Range, rest, k, n

LEMMA FlightProcessed ==
    ASSUME IInv, FlightInv, Process
    PROVE  FlightInv'
<1> DEFINE s == Head(queue)
           past == [i \in DOMAIN deferred |-> [deferred[i] EXCEPT !.fence = @ - 1]]
           n == Len(queue)
<1>1. /\ config' = config /\ table' = table /\ batch' = batch
      /\ phase \notin {"running", "waiting"}
      /\ queue # <<>> /\ queue' = Tail(queue)
      /\ s = <<>> => lastSeq' = lastSeq /\ deferred' = deferred
      /\ s # <<>> => /\ lastSeq' = [r \in Requests |-> Max({0, lastSeq[r] - 1})]
                     /\ deferred' = SubSeq(past, DrainedCount(past) + 1, Len(past))
    BY DEF Process, schedVars
<1>2. /\ queue \in Seq(Range(queue)) /\ n \in Nat
      /\ DOMAIN queue' = 1..(n - 1)
      /\ \A i \in 1..(n - 1) : queue'[i] = queue[i + 1] /\ i + 1 \in DOMAIN queue
    <2>1. queue \in Seq(Range(queue))
        BY DEF IInv, FrameInv
    <2>2. /\ Tail(queue) \in Seq(Range(Tail(queue)))
          /\ Len(Tail(queue)) = n - 1 /\ n \in Nat
          /\ \A i \in DOMAIN Tail(queue) : Tail(queue)[i] = queue[i + 1] /\ i + 1 \in DOMAIN queue
        BY <1>1, <2>1, TailKept
    <2>3. DOMAIN Tail(queue) = 1..(n - 1)
        BY <2>2
    <2> QED BY <1>1, <2>1, <2>2, <2>3
<1>3. \A i \in 1..(n - 1) : \E k, l \in Nat :
          /\ Rank(i + 1) = k /\ Rank(i)' = l /\ l <= k
          /\ s # <<>> => l + 1 <= k
          /\ queue[i + 1] # <<>> => l >= 1
    <2> TAKE i \in 1..(n - 1)
    <2>1. /\ RankOf(Tail(queue), i) \in Nat /\ RankOf(queue, i + 1) \in Nat
          /\ RankOf(Tail(queue), i) <= RankOf(queue, i + 1)
          /\ s # <<>> => RankOf(Tail(queue), i) + 1 <= RankOf(queue, i + 1)
          /\ queue[i + 1] # <<>> => RankOf(Tail(queue), i) >= 1
        BY <1>1, <1>2, RankTail
    <2>2. Rank(i)' = RankOf(Tail(queue), i) /\ Rank(i + 1) = RankOf(queue, i + 1)
        BY <1>1 DEF Rank
    <2> QED BY <2>1, <2>2
<1> HIDE DEF n, s
<1>4. lastSeq \in [Requests -> Int] /\ lastSeq' \in [Requests -> Int]
    <2>1. lastSeq \in [Requests -> Int]
        BY DEF FlightInv
    <2>2. \A r \in Requests : Max({0, lastSeq[r] - 1}) \in Int
        <3> TAKE r \in Requests
        <3>1. lastSeq[r] - 1 \in Int
            BY <2>1
        <3>2. Max({0, lastSeq[r] - 1}) \in Nat
            BY <3>1, MaxZero
        <3> QED BY <3>2
    <2>3. \A r \in Requests : lastSeq'[r] \in Int
        <3>1. CASE s = <<>>
            BY <1>1, <2>1, <3>1
        <3>2. CASE s # <<>>
            <4>1. \A r \in Requests : lastSeq'[r] = Max({0, lastSeq[r] - 1})
                <5>1. lastSeq' = [r \in Requests |-> Max({0, lastSeq[r] - 1})]
                    BY Zenon, <1>1, <3>2
                <5> QED BY Zenon, <5>1
            <4> QED BY Zenon, <2>2, <4>1
        <3> QED BY <3>1, <3>2
    <2>4. lastSeq' = [r \in Requests |-> lastSeq'[r]]
        <3>1. CASE s = <<>>
            BY <1>1, <2>1, <3>1
        <3>2. CASE s # <<>>
            BY <1>1, <3>2
        <3> QED BY <3>1, <3>2
    <2> QED BY <2>1, <2>3, <2>4
<1>5. /\ deferred \in Seq(Frees(Usable)) /\ past \in Seq(Frees(Usable))
      /\ DOMAIN past = DOMAIN deferred /\ DOMAIN deferred = 1..Len(past)
      /\ \A j \in DOMAIN deferred : /\ deferred[j].fence \in Int
                                    /\ past[j].fence = deferred[j].fence - 1
                                    /\ past[j].blocks = deferred[j].blocks
    <2> DEFINE F == Frees(Usable)
               m == Len(deferred)
    <2>1. deferred \in Seq(F)
        BY DEF IInv, PoolInv
    <2>2. m \in Nat /\ DOMAIN deferred = 1..m /\ \A j \in 1..m : deferred[j] \in F
        BY <2>1
    <2>3. \A e \in F : /\ [e EXCEPT !.fence = @ - 1] \in F /\ e.fence \in Int
                       /\ [e EXCEPT !.fence = @ - 1].fence = e.fence - 1
                       /\ [e EXCEPT !.fence = @ - 1].blocks = e.blocks
        BY DEF Frees
    <2> HIDE DEF F, m
    <2>4. \A j \in 1..m : /\ past[j] = [deferred[j] EXCEPT !.fence = @ - 1]
                          /\ past[j] \in F
        BY <2>2, <2>3
    <2>5. past = [j \in 1..m |-> past[j]]
        BY <2>2
    <2> HIDE DEF past
    <2>6. [j \in 1..m |-> past[j]] \in Seq(F)
        <3>1. \A j \in 1..m : past[j] \in F
            BY <2>4
        <3>2. m \in Nat
            BY <2>2
        <3> QED BY <3>1, <3>2
    <2>7. past \in Seq(F) /\ Len(past) = m /\ DOMAIN past = 1..m
        BY <2>2, <2>5, <2>6
    <2> QED BY <2>1, <2>2, <2>3, <2>4, <2>7 DEF F
<1> HIDE DEF past
<1>6. ASSUME NEW i \in 1..(n - 1), NEW f \in Range(queue[i + 1])
      PROVE  Sized(f)' /\ (DeferFree' => Kept(f, Rank(i))')
    <2>1. Sized(f) /\ (DeferFree => Kept(f, Rank(i + 1))) /\ f.req \in Requests
        BY <1>2 DEF FlightInv, IInv, FrameInv
    <2>2. queue[i + 1] # <<>>
        BY DEF Range
    <2>3. PICK k, l \in Nat : /\ Rank(i + 1) = k /\ Rank(i)' = l /\ l <= k /\ l >= 1
                              /\ s # <<>> => l + 1 <= k
        BY <1>3, <2>2
    <2>4. ASSUME Kept(f, k) PROVE Kept(f, Rank(i))'
        <3>1. ASSUME NEW d \in Range(deferred), d.fence >= k, Range(f.blocks) \subseteq Range(d.blocks)
              PROVE  \E e \in Range(deferred') : e.fence >= l /\ Range(f.blocks) \subseteq Range(e.blocks)
            <4>1. PICK j \in DOMAIN deferred : d = deferred[j]
                BY DEF Range
            <4>2. CASE s = <<>>
                <5>1. d.fence >= l
                    BY <1>5, <2>3, <3>1, <4>1
                <5> QED BY <1>1, <3>1, <4>2, <5>1
            <4>3. CASE s # <<>>
                <5>1. past[j].fence \in Int /\ past[j].fence >= l /\ past[j].blocks = d.blocks
                    BY <1>5, <2>3, <3>1, <4>1, <4>3
                <5>2. ~(past[j].fence <= 0)
                    BY <2>3, <5>1
                <5>3. past[j] \in Range(deferred')
                    <6>1. past[j] \in Range(SubSeq(past, DrainedCount(past) + 1, Len(past)))
                        BY <1>5, <5>2, DrainedBefore
                    <6> QED BY <1>1, <4>3, <6>1
                <5> QED BY <3>1, <5>1, <5>3
            <4> QED BY <4>2, <4>3
        <3>2. CASE lastSeq[f.req] >= k /\ Range(f.blocks) \subseteq Range(table[f.req])
            <4>1. lastSeq'[f.req] >= l
                <5>1. CASE s = <<>>
                    BY <1>1, <1>4, <2>1, <2>3, <3>2, <5>1
                <5>2. CASE s # <<>>
                    <6>1. lastSeq'[f.req] = Max({0, lastSeq[f.req] - 1})
                        BY <1>1, <2>1, <5>2
                    <6>2. lastSeq[f.req] - 1 \in Int
                        BY <1>4, <2>1
                    <6>3. lastSeq'[f.req] >= lastSeq[f.req] - 1 /\ lastSeq'[f.req] \in Int
                        BY <6>1, <6>2, MaxZero
                    <6>4. lastSeq[f.req] \in Int /\ lastSeq[f.req] >= k /\ l + 1 <= k
                        BY <1>4, <2>1, <2>3, <3>2, <5>2
                    <6>5. PICK x, y : x = lastSeq[f.req] /\ y = lastSeq'[f.req]
                        OBVIOUS
                    <6>6. x \in Int /\ y \in Int /\ x >= k /\ l + 1 <= k /\ y >= x - 1
                        BY <6>3, <6>4, <6>5
                    <6>7. y >= l
                        BY <6>6
                    <6> QED BY <6>5, <6>7
                <5> QED BY <5>1, <5>2
            <4> QED BY <1>1, <2>3, <3>2, <4>1 DEF Kept
        <3>3. CASE \E d \in Range(deferred) : d.fence >= k /\ Range(f.blocks) \subseteq Range(d.blocks)
            BY <2>3, <3>1, <3>3 DEF Kept
        <3> QED BY <2>4, <3>2, <3>3 DEF Kept
    <2> QED BY <1>1, <2>1, <2>3, <2>4 DEF Sized, Usable, AllBlocks, DeferFree
<1>7. \A i \in DOMAIN queue' : \A f \in Range(queue'[i]) :
          Sized(f)' /\ (DeferFree' => Kept(f, Rank(i))')
    BY <1>2, <1>6
<1>8. Range(batch') = {}
    BY <1>1, NoFrames
<1> QED BY <1>4, <1>7, <1>8 DEF FlightInv

\* Nothing is in flight at first.
LEMMA FlightInit ==
    ASSUME Init
    PROVE  FlightInv
<1>1. /\ lastSeq \in [Requests -> Int] /\ Range(batch) = {} /\ DOMAIN queue = {}
    BY DEF Init, Range
<1> QED BY <1>1 DEF FlightInv

LEMMA FlightStep ==
    ASSUME IInv, IInv', FlightInv, [Next]_vars
    PROVE  FlightInv'
<1>1. CASE EngineStep
    BY <1>1, FlightQuiet, FlightScheduled, FlightPreempted, FlightDispatched,
       FlightProcessed, FlightUpdated DEF EngineStep
<1>2. CASE Calls
    BY <1>2, FlightQuiet, FlightAborted, FlightReset DEF Calls
<1>3. CASE UNCHANGED vars
    BY <1>3, FlightQuiet
<1> QED BY <1>1, <1>2, <1>3 DEF Next

\* A block that a table or a deferred free holds is referenced.
LEMMA HeldReferenced ==
    ASSUME IInv, NEW b \in Usable,
           \/ \E r \in Requests : b \in Range(table[r])
           \/ \E d \in Range(deferred) : b \in Range(d.blocks)
    PROVE  pool.ref[b] > 0
<1>1. /\ table \in [Requests -> Seq(Usable)] /\ deferred \in Seq(Frees(Usable))
      /\ pool.ref[b] = Uses(b, table, Requests) + HeldOf(b, deferred)
    BY DEF IInv, PoolInv, Tables, Accounted
<1>2. HeldOf(b, deferred) \in Nat
    BY <1>1, HeldFacts
<1>3. \A r \in Requests : table[r] \in Seq(Usable)
    BY <1>1
<1>4. Uses(b, table, Requests) \in Nat
    BY <1>3, RequestsFinite, UsesType
<1>5. ASSUME NEW r \in Requests, b \in Range(table[r])
      PROVE  Uses(b, table, Requests) > 0
    <2>1. Uses(b, table, {r}) <= Uses(b, table, Requests) /\ Uses(b, table, {r}) \in Nat
        <3>1. {r} \in SUBSET Requests
            OBVIOUS
        <3> QED BY <1>3, <3>1, RequestsFinite, UsesPart
    <2>2. Uses(b, table, {r}) = Count(b, table[r])
        BY <1>3, UsesOne
    <2>3. Count(b, table[r]) > 0
        BY <1>3, <1>5, CountFacts
    <2> QED BY <1>4, <2>1, <2>2, <2>3
<1>6. ASSUME NEW d \in Range(deferred), b \in Range(d.blocks)
      PROVE  HeldOf(b, deferred) > 0
    <2> DEFINE n == Len(deferred)
               f == BlocksIn(deferred)
    <2>1. n \in Nat /\ DOMAIN deferred = 1..n /\ IsFiniteSet(1..n)
        <3>1. n \in Nat /\ DOMAIN deferred = 1..n
            BY <1>1
        <3> HIDE DEF n
        <3> QED BY <3>1, FS_Interval
    <2>2. PICK i \in 1..n : d = deferred[i]
        BY <2>1 DEF Range
    <2>3. \A j \in 1..n : f[j] = deferred[j].blocks /\ deferred[j] \in Frees(Usable)
        BY <1>1, HeldFacts
    <2>4. \A j \in 1..n : f[j] \in Seq(Usable)
        BY <2>3 DEF Frees
    <2> HIDE DEF n, f
    <2>5. Uses(b, f, {i}) <= Uses(b, f, 1..n) /\ Uses(b, f, {i}) \in Nat
        <3>1. {i} \in SUBSET (1..n)
            OBVIOUS
        <3> QED BY <2>1, <2>4, <3>1, UsesPart
    <2>6. Uses(b, f, {i}) = Count(b, f[i])
        BY <2>4, UsesOne
    <2>7. Count(b, f[i]) > 0
        BY <1>6, <2>2, <2>3, <2>4, CountFacts
    <2>8. HeldOf(b, deferred) = Uses(b, f, 1..n)
        BY DEF HeldOf, f, n
    <2> QED BY <1>2, <2>5, <2>6, <2>7, <2>8
<1> QED BY <1>1, <1>2, <1>4, <1>5, <1>6

LEMMA FlightKeeps ==
    ASSUME IInv, FlightInv
    PROVE  InFlightBlocksKept
<1>1. ASSUME DeferFree, NEW i \in DOMAIN queue, NEW f \in Range(queue[i])
      PROVE  /\ f.start + f.n <= BlockSize * Len(f.blocks)
             /\ \A b \in Range(f.blocks) : b # Null /\ pool.ref[b] > 0
    <2>1. Sized(f) /\ Kept(f, Rank(i)) /\ f.req \in Requests
        BY <1>1 DEF FlightInv, IInv, FrameInv
    <2>2. f.start + f.n <= BlockSize * Len(f.blocks) /\ f.blocks \in Seq(Usable)
        BY <2>1 DEF Sized
    <2>3. ASSUME NEW b \in Range(f.blocks) PROVE b # Null /\ pool.ref[b] > 0
        <3>1. b \in Usable
            BY <2>2 DEF Range
        <3>2. \/ \E r \in Requests : b \in Range(table[r])
              \/ \E d \in Range(deferred) : b \in Range(d.blocks)
            BY <2>1 DEF Kept
        <3>3. pool.ref[b] > 0
            BY <3>1, <3>2, HeldReferenced
        <3> QED BY <3>1, <3>3 DEF Usable
    <2> QED BY <2>2, <2>3
<1> QED BY <1>1 DEF InFlightBlocksKept

\* What a step in flight writes is held for it: its frames fit into their blocks,
\* and these are in the table of its request or behind its step in
\* deferred_frees (_free_request_blocks, _drain_deferred_frees), in every state.
THEOREM FlightHeld == Spec => [](IInv /\ FlightInv)
<1>1. Init => IInv /\ FlightInv
    BY InitKept, FlightInit
<1>2. (IInv /\ FlightInv) /\ [Next]_vars => (IInv /\ FlightInv)'
    BY StepKept, StutterKept, FlightStep
<1> QED BY <1>1, <1>2, PTL DEF Spec

\* With defer_block_free, no block that a step in flight may still write can be
\* given to somebody else, whatever was preempted, aborted or reset since the
\* step was scheduled (scheduler.py).
THEOREM BlocksInFlight == Spec => []InFlightBlocksKept
<1>1. IInv /\ FlightInv => InFlightBlocksKept
    BY FlightKeeps
<1> QED BY <1>1, FlightHeld, PTL
=============================================================================
