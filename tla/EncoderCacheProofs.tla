------------------------- MODULE EncoderCacheProofs -------------------------
(***************************************************************************)
(* Proofs about the encoder cache, for decoder-only models (~EncDec): the  *)
(* manager's books are exact and the worker's outputs fit the cache under  *)
(* both policies, and under the FCFS policy no step misses an output.      *)
(***************************************************************************)
EXTENDS EncoderCache, FiniteSetTheorems, WellFoundedInduction, TLAPS

-----------------------------------------------------------------------------
(* Induction, stated for sets, which every prover can use.                 *)

\* A nonempty set of naturals has a least element.
LEMMA LeastElement ==
  ASSUME NEW T, T \subseteq Nat, T # {}
  PROVE  \E x \in T : \A y \in T : x <= y
<1> DEFINE R == OpToRel(<, Nat)
<1>1. IsWellFoundedOn(R, Nat)
  BY NatLessThanWellFounded
<1>2. \E x \in T : \A y \in T : ~ (<<y, x>> \in R)
  <2> HIDE DEF R
  <2> QED BY <1>1, WFMin
<1>3. PICK x \in T : \A y \in T : ~ (<<y, x>> \in R)
  BY <1>2
<1>4. \A y \in T : ~ (y < x)
  <2> SUFFICES ASSUME NEW y \in T, y < x PROVE FALSE
    OBVIOUS
  <2>1. <<y, x>> \notin OpToRel(<, Nat)
    BY <1>3
  <2>2. ~ (<<y, x>> \in Nat \X Nat /\ <<y, x>>[1] < <<y, x>>[2])
    BY <2>1 DEF OpToRel
  <2> HIDE DEF R
  <2>3. x \in Nat /\ y \in Nat
    OBVIOUS
  <2>4. <<y, x>> \in Nat \X Nat /\ <<y, x>>[1] = y /\ <<y, x>>[2] = x
    BY <2>3
  <2> QED BY <2>2, <2>4
<1> HIDE DEF R
<1> QED BY <1>4

\* A set with 0 and the successor of each of its members holds every natural.
LEMMA SetInduction ==
  ASSUME NEW T, 0 \in T, \A n \in Nat : n \in T => n + 1 \in T
  PROVE  Nat \subseteq T
<1> SUFFICES ASSUME Nat \ T # {} PROVE FALSE
  OBVIOUS
<1>1. PICK x \in Nat \ T : \A y \in Nat \ T : x <= y
  BY LeastElement
<1>2. x # 0 
  BY <1>1
<1>3. x - 1 \in Nat /\ x - 1 \notin Nat \ T
  BY <1>1, <1>2
<1> QED BY <1>1, <1>3

-----------------------------------------------------------------------------
(* Sequences without repetitions.                                          *)

\* Append, concatenation and cuts of sequences without repetitions.
LEMMA InjectiveAppend ==
    ASSUME NEW T, NEW s \in Seq(T), NEW x \in T
    PROVE  /\ Append(s, x) \in Seq(T) /\ Range(Append(s, x)) = Range(s) \cup {x}
           /\ IsInjective(s) /\ x \notin Range(s) => IsInjective(Append(s, x))
<1>1. /\ Append(s, x) \in Seq(T) /\ Len(Append(s, x)) = Len(s) + 1
      /\ Append(s, x)[Len(s) + 1] = x
      /\ \A i \in 1..Len(s) : Append(s, x)[i] = s[i]
    OBVIOUS
<1> DEFINE t == Append(s, x)
<1>2. DOMAIN t = 1..(Len(s) + 1) /\ DOMAIN s = 1..Len(s) /\ Len(s) \in Nat
    BY <1>1
<1> HIDE DEF t
<1>3. \A i \in DOMAIN t : i = Len(s) + 1 \/ i \in DOMAIN s
    BY <1>2
<1>4. \A i \in DOMAIN s : i \in DOMAIN t /\ t[i] = s[i]
    BY <1>1, <1>2 DEF t
<1>5. Len(s) + 1 \in DOMAIN t /\ t[Len(s) + 1] = x
    BY <1>1, <1>2 DEF t
<1>6. Range(t) = Range(s) \cup {x}
    BY <1>3, <1>4, <1>5 DEF Range
<1>7. IsInjective(s) /\ x \notin Range(s) => IsInjective(t)
    BY <1>3, <1>4, <1>5 DEF IsInjective, Range
<1> QED BY <1>1, <1>6, <1>7 DEF t

LEMMA InjectiveConcat ==
    ASSUME NEW T, NEW s \in Seq(T), NEW t \in Seq(T)
    PROVE  /\ s \o t \in Seq(T) /\ Range(s \o t) = Range(s) \cup Range(t)
           /\ IsInjective(s) /\ IsInjective(t) /\ Range(s) \cap Range(t) = {}
                => IsInjective(s \o t)
<1> DEFINE u == s \o t
<1>1. /\ u \in Seq(T) /\ DOMAIN u = 1..(Len(s) + Len(t)) /\ Len(s) \in Nat /\ Len(t) \in Nat
      /\ DOMAIN s = 1..Len(s) /\ DOMAIN t = 1..Len(t)
    OBVIOUS
<1>2. \A i \in DOMAIN u : \/ i \in DOMAIN s /\ u[i] = s[i]
                          \/ i - Len(s) \in DOMAIN t /\ u[i] = t[i - Len(s)]
    OBVIOUS
<1>3. \A i \in DOMAIN s : i \in DOMAIN u /\ u[i] = s[i]
    OBVIOUS
<1>4. \A i \in DOMAIN t : i + Len(s) \in DOMAIN u /\ u[i + Len(s)] = t[i]
    OBVIOUS
<1> HIDE DEF u
<1>5. Range(u) = Range(s) \cup Range(t)
    <2>1. Range(u) \subseteq Range(s) \cup Range(t)
        BY <1>2 DEF Range
    <2>2. Range(s) \subseteq Range(u) /\ Range(t) \subseteq Range(u)
        BY <1>3, <1>4 DEF Range
    <2> QED BY <2>1, <2>2
<1>6. ASSUME IsInjective(s), IsInjective(t), Range(s) \cap Range(t) = {},
             NEW i \in DOMAIN u, NEW j \in DOMAIN u, u[i] = u[j]
      PROVE  i = j
    <2>1. CASE i \in DOMAIN s /\ u[i] = s[i] /\ j \in DOMAIN s /\ u[j] = s[j]
        BY <1>6, <2>1 DEF IsInjective
    <2>2. CASE i - Len(s) \in DOMAIN t /\ u[i] = t[i - Len(s)]
               /\ j - Len(s) \in DOMAIN t /\ u[j] = t[j - Len(s)]
        <3>1. i - Len(s) = j - Len(s)
            BY <1>6, <2>2 DEF IsInjective
        <3>2. i \in Int /\ j \in Int /\ Len(s) \in Int
            BY <1>1
        <3> QED BY <3>1, <3>2
    <2>3. \A x \in DOMAIN s, y \in DOMAIN t : s[x] # t[y]
        BY <1>6 DEF Range
    <2> QED BY <1>2, <1>6, <2>1, <2>2, <2>3
<1> QED BY <1>1, <1>5, <1>6 DEF u, IsInjective

LEMMA InjectiveCut ==
    ASSUME NEW T, NEW s \in Seq(T), NEW n \in 0..Len(s)
    PROVE  LET first == SubSeq(s, 1, n)
               rest == SubSeq(s, n + 1, Len(s))
           IN  /\ first \in Seq(T) /\ rest \in Seq(T)
               /\ Len(first) = n /\ Len(rest) = Len(s) - n
               /\ \A i \in 1..n : first[i] = s[i]
               /\ \A i \in 1..(Len(s) - n) : rest[i] = s[n + i]
               /\ Range(first) \cup Range(rest) = Range(s)
               /\ IsInjective(s) => /\ IsInjective(first) /\ IsInjective(rest)
                                    /\ Range(first) \cap Range(rest) = {}
<1> DEFINE first == SubSeq(s, 1, n)
           rest == SubSeq(s, n + 1, Len(s))
<1>1. /\ first \in Seq(T) /\ DOMAIN first = 1..n /\ Len(first) = n
      /\ \A i \in 1..n : first[i] = s[i]
    OBVIOUS
<1>2. /\ rest \in Seq(T) /\ DOMAIN rest = 1..(Len(s) - n) /\ Len(rest) = Len(s) - n
      /\ \A i \in 1..(Len(s) - n) : rest[i] = s[n + i]
    OBVIOUS
<1>3. DOMAIN s = 1..Len(s) /\ Len(s) \in Nat /\ n \in Nat /\ n <= Len(s)
    OBVIOUS
<1> HIDE DEF first, rest
<1>4. \A i \in DOMAIN first : i \in DOMAIN s /\ first[i] = s[i] /\ i <= n
    BY <1>1, <1>3
<1>5. \A i \in DOMAIN rest : i \in Nat /\ n + i \in DOMAIN s /\ rest[i] = s[n + i] /\ n + i > n
    BY <1>2, <1>3
<1>6. \A i \in DOMAIN s : \/ i \in DOMAIN first
                          \/ i - n \in DOMAIN rest /\ n + (i - n) = i
    BY <1>1, <1>2, <1>3
<1>7. Range(first) \cup Range(rest) = Range(s)
    <2>1. Range(first) \subseteq Range(s) /\ Range(rest) \subseteq Range(s)
        BY <1>4, <1>5 DEF Range
    <2>2. ASSUME NEW i \in DOMAIN s PROVE s[i] \in Range(first) \cup Range(rest)
        BY <1>4, <1>5, <1>6 DEF Range
    <2> QED BY <2>1, <2>2 DEF Range
<1>8. ASSUME IsInjective(s)
      PROVE  IsInjective(first) /\ IsInjective(rest) /\ Range(first) \cap Range(rest) = {}
    <2>1. IsInjective(first)
        BY <1>4, <1>8 DEF IsInjective
    <2>2. ASSUME NEW i \in DOMAIN rest, NEW j \in DOMAIN rest, rest[i] = rest[j]
          PROVE  i = j
        <3>1. n + i = n + j
            BY <1>5, <1>8, <2>2 DEF IsInjective
        <3> QED BY <1>3, <1>5, <3>1
    <2>3. ASSUME NEW i \in DOMAIN first, NEW j \in DOMAIN rest, first[i] = rest[j]
          PROVE  FALSE
        <3>1. i = n + j
            BY <1>4, <1>5, <1>8, <2>3 DEF IsInjective
        <3>2. i <= n /\ n + j > n /\ i \in Int
            BY <1>3, <1>4, <1>5
        <3> QED BY <1>3, <3>1, <3>2
    <2> QED BY <2>1, <2>2, <2>3 DEF IsInjective, Range
<1> QED BY <1>1, <1>2, <1>7, <1>8 DEF first, rest

-----------------------------------------------------------------------------
(* Folds. FoldLeft goes over the sets of indices, taking the last away.    *)

LEMMA Upto ==
    ASSUME NEW m \in Nat
    PROVE  /\ 1..(m + 1) # {} /\ m + 1 \in 1..(m + 1) /\ (1..(m + 1)) \ {m + 1} = 1..m
           /\ \A t \in SUBSET (1..m) : t \in SUBSET (1..(m + 1))
<1>1. m + 1 \in 1..(m + 1)
    OBVIOUS
<1>2. \A y : y \in (1..(m + 1)) \ {m + 1} <=> y \in 1..m
    OBVIOUS
<1>3. 1..m \subseteq 1..(m + 1)
    OBVIOUS
<1> QED BY <1>1, <1>2, <1>3

\* A nonempty set of numbers up to a bound has a maximum.
LEMMA MaxFacts ==
    ASSUME NEW m \in Nat
    PROVE  /\ \A t \in SUBSET (1..(m + 1)) : t # {} =>
                 /\ Max(t) \in t /\ t \ {Max(t)} \in SUBSET (1..m)
                 /\ \A y \in t : y <= Max(t)
           /\ Max(1..(m + 1)) = m + 1
<1>1. ASSUME NEW t \in SUBSET (1..(m + 1)), t # {}
      PROVE  \E x \in t : \A y \in t : x >= y
    <2> DEFINE d == {m + 1 - y : y \in t}
    <2>1. d \subseteq Nat /\ d # {}
        <3>1. ASSUME NEW y \in t PROVE m + 1 - y \in Nat
            <4>1. y \in 1..(m + 1)
                BY <1>1
            <4> QED BY <4>1
        <3> QED BY <1>1, <3>1
    <2>2. PICK z \in d : \A y \in d : z <= y
        <3> HIDE DEF d
        <3> QED BY <2>1, LeastElement
    <2>3. PICK x \in t : z = m + 1 - x
        BY <2>2
    <2>4. ASSUME NEW y \in t PROVE x >= y
        <3>1. z <= m + 1 - y
            BY <2>2, <2>4
        <3>2. x \in 1..(m + 1) /\ y \in 1..(m + 1)
            BY <1>1, <2>3, <2>4
        <3> QED BY <2>3, <3>1, <3>2
    <2> QED BY <2>4
<1>2. ASSUME NEW t \in SUBSET (1..(m + 1)), t # {}
      PROVE  Max(t) \in t /\ \A y \in t : Max(t) >= y
    BY <1>1, <1>2 DEF Max
<1>3. ASSUME NEW t \in SUBSET (1..(m + 1)), t # {}
      PROVE  t \ {Max(t)} \in SUBSET (1..m)
    <2>1. ASSUME NEW y \in t, y # Max(t) PROVE y \in 1..m
        <3>1. y \in 1..(m + 1) /\ Max(t) \in 1..(m + 1) /\ Max(t) >= y
            BY <1>2, <1>3, <2>1
        <3> QED BY <2>1, <3>1
    <2> QED BY <2>1
<1>4. Max(1..(m + 1)) = m + 1
    <2>1. 1..(m + 1) \in SUBSET (1..(m + 1)) /\ 1..(m + 1) # {} /\ m + 1 \in 1..(m + 1)
        BY Upto
    <2>2. Max(1..(m + 1)) \in 1..(m + 1) /\ Max(1..(m + 1)) >= m + 1
        BY <1>2, <2>1
    <2> QED BY <2>2
<1>5. ASSUME NEW t \in SUBSET (1..(m + 1)), t # {}, NEW y \in t PROVE y <= Max(t)
    <2>1. Max(t) >= y /\ y \in 1..(m + 1) /\ Max(t) \in 1..(m + 1)
        BY <1>2, <1>5
    <2> QED BY <2>1
<1> QED BY <1>2, <1>3, <1>4, <1>5

LEMMA PrefixSets ==
    ASSUME NEW n \in Nat, NEW i \in 1..n
    PROVE  /\ Max(1..i) = i /\ 1..i # {} /\ 1..i \in SUBSET (1..n)
           /\ (1..i) \ {i} = 1..(i - 1) /\ i - 1 \in 0..n
<1>1. i - 1 \in Nat /\ (i - 1) + 1 = i /\ i - 1 \in 0..n
    OBVIOUS
<1>2. \A y \in 1..i : y \in 1..n
    OBVIOUS
<1> QED BY <1>1, <1>2, Upto, MaxFacts

-----------------------------------------------------------------------------
(* Filter.                                                                 *)

\* What Filter has taken of the first i of s.
LEMMA FilterSteps ==
    ASSUME NEW T, NEW s \in Seq(T), NEW S
    PROVE  \E kept : /\ kept[0] = <<>> /\ kept[Len(s)] = Filter(s, S)
                     /\ \A i \in 1..Len(s) :
                            kept[i] = IF s[i] \in S THEN Append(kept[i - 1], s[i])
                                                    ELSE kept[i - 1]
<1> DEFINE n == Len(s)
           G(g, m) == g = [i \in 0..m |-> IF i = 0 THEN <<>>
                                          ELSE IF s[i] \in S THEN Append(g[i - 1], s[i])
                                                             ELSE g[i - 1]]
           Y == {m \in Nat : \E g : G(g, m)}
<1>1. Nat \subseteq Y
    <2>1. 0 \in Y
        <3>1. G([i \in 0..0 |-> <<>>], 0)
            OBVIOUS
        <3> QED BY <3>1
    <2>2. ASSUME NEW m \in Nat, m \in Y PROVE m + 1 \in Y
        <3>1. PICK g : G(g, m)
            BY <2>2
        <3> DEFINE h == [i \in 0..(m + 1) |-> IF i = 0 THEN <<>>
                                              ELSE IF s[i] \in S THEN Append(g[i - 1], s[i])
                                                                 ELSE g[i - 1]]
        <3>2. \A i \in 0..m : i \in 0..(m + 1) /\ h[i] = g[i]
            <4>1. \A i \in 0..m : i \in 0..(m + 1)
                OBVIOUS
            <4>2. \A i \in 0..m : g[i] = IF i = 0 THEN <<>>
                                         ELSE IF s[i] \in S THEN Append(g[i - 1], s[i])
                                                            ELSE g[i - 1]
                BY <3>1
            <4> QED BY <4>1, <4>2
        <3>3. \A i \in 0..(m + 1) : i # 0 => i - 1 \in 0..m
            OBVIOUS
        <3>4. G(h, m + 1)
            BY <3>2, <3>3
        <3> HIDE DEF G, h
        <3> QED BY <3>4
    <2> HIDE DEF Y
    <2> QED BY <2>1, <2>2, SetInduction
<1> DEFINE kept == CHOOSE g : G(g, n)
<1>2. n \in Nat
    OBVIOUS
<1>3. G(kept, n)
    BY <1>1, <1>2
<1>4. Filter(s, S) = kept[n]
    BY DEF Filter
<1> HIDE DEF kept
<1>5. kept[0] = <<>>
    BY <1>2, <1>3
<1>6. \A i \in 1..n : kept[i] = IF s[i] \in S THEN Append(kept[i - 1], s[i]) ELSE kept[i - 1]
    <2>1. \A i \in 1..n : i \in 0..n /\ i # 0
        BY <1>2
    <2> QED BY <1>3, <2>1
<1> QED BY <1>4, <1>5, <1>6

\* Filter keeps what s has of S, once if s has it once.
LEMMA FilterFacts ==
    ASSUME NEW T, NEW s \in Seq(T), NEW S
    PROVE  /\ Filter(s, S) \in Seq(T) /\ Range(Filter(s, S)) = Range(s) \cap S
           /\ IsInjective(s) => IsInjective(Filter(s, S))
<1>1. PICK kept : /\ kept[0] = <<>> /\ kept[Len(s)] = Filter(s, S)
                  /\ \A i \in 1..Len(s) :
                        kept[i] = IF s[i] \in S THEN Append(kept[i - 1], s[i]) ELSE kept[i - 1]
    BY FilterSteps
<1> DEFINE had(i) == {s[j] : j \in 1..i}
           Good(i) == i <= Len(s) =>
                        /\ kept[i] \in Seq(T) /\ Range(kept[i]) = had(i) \cap S
                        /\ IsInjective(s) => IsInjective(kept[i])
           Y == {i \in Nat : Good(i)}
<1>2. Len(s) \in Nat /\ DOMAIN s = 1..Len(s) /\ \A j \in 1..Len(s) : s[j] \in T
    OBVIOUS
<1>3. Nat \subseteq Y
    <2>1. 0 \in Y
        <3>1. kept[0] \in Seq(T) /\ Range(kept[0]) = {} /\ IsInjective(kept[0])
            BY <1>1 DEF Range, IsInjective
        <3>2. had(0) = {}
            OBVIOUS
        <3> QED BY <3>1, <3>2
    <2>2. ASSUME NEW i \in Nat, i \in Y PROVE i + 1 \in Y
        <3> SUFFICES ASSUME i + 1 <= Len(s) PROVE Good(i + 1)
            OBVIOUS
        <3>1. i + 1 \in 1..Len(s) /\ (i + 1) - 1 = i /\ i <= Len(s)
            BY <1>2
        <3>2. /\ kept[i] \in Seq(T) /\ Range(kept[i]) = had(i) \cap S
              /\ IsInjective(s) => IsInjective(kept[i])
            BY <2>2, <3>1
        <3>3. had(i + 1) = had(i) \cup {s[i + 1]}
            OBVIOUS
        <3>4. s[i + 1] \in T
            BY <1>2, <3>1
        <3>5. CASE s[i + 1] \in S
            <4>1. kept[i + 1] = Append(kept[i], s[i + 1])
                BY <1>1, <3>1, <3>5
            <4>2. ASSUME IsInjective(s) PROVE s[i + 1] \notin Range(kept[i])
                <5>1. \A j \in 1..i : j \in DOMAIN s /\ j # i + 1
                    BY <1>2, <3>1
                <5>2. \A j \in 1..i : s[j] # s[i + 1]
                    BY <1>2, <3>1, <4>2, <5>1 DEF IsInjective
                <5> QED BY <3>2, <5>2
            <4> HIDE DEF had
            <4>3. /\ Append(kept[i], s[i + 1]) \in Seq(T)
                  /\ Range(Append(kept[i], s[i + 1])) = Range(kept[i]) \cup {s[i + 1]}
                  /\ IsInjective(kept[i]) /\ s[i + 1] \notin Range(kept[i])
                        => IsInjective(Append(kept[i], s[i + 1]))
                BY <3>2, <3>4, InjectiveAppend
            <4> QED BY <3>2, <3>3, <3>5, <4>1, <4>2, <4>3
        <3>6. CASE s[i + 1] \notin S
            <4>1. kept[i + 1] = kept[i]
                BY <1>1, <3>1, <3>6
            <4> HIDE DEF had
            <4> QED BY <3>2, <3>3, <3>6, <4>1
        <3> QED BY <3>5, <3>6
    <2> HIDE DEF Y
    <2> QED BY <2>1, <2>2, SetInduction
<1>4. Good(Len(s))
    BY <1>2, <1>3
<1>5. had(Len(s)) = Range(s)
    BY <1>2 DEF Range
<1> QED BY <1>1, <1>2, <1>4, <1>5

\* Without leaves out one element.
LEMMA WithoutFacts ==
    ASSUME NEW T, NEW s \in Seq(T), NEW x
    PROVE  /\ Without(s, x) \in Seq(T) /\ Range(Without(s, x)) = Range(s) \ {x}
           /\ IsInjective(s) => IsInjective(Without(s, x))
<1>1. Range(s) \cap (Range(s) \ {x}) = Range(s) \ {x}
    OBVIOUS
<1> QED BY <1>1, FilterFacts DEF Without

\* A request joins the waiting queue in front, or in its place of the heap.
LEMMA PrependedKept ==
    ASSUME NEW w \in Seq(Requests), IsInjective(w), NEW r \in Requests, r \notin Range(w)
    PROVE  /\ Prepended(w, r) \in Seq(Requests) /\ IsInjective(Prepended(w, r))
           /\ Range(Prepended(w, r)) = Range(w) \cup {r}
<1> DEFINE one == <<r>>
<1>1. one \in Seq(Requests) /\ IsInjective(one) /\ Range(one) = {r}
    BY DEF IsInjective, Range
<1> HIDE DEF one
<1>2. CASE ByPriority
    <2> DEFINE sooner == {q \in Range(w) : Less(q, r)}
               first == Filter(w, sooner)
               last == Filter(w, Range(w) \ sooner)
               start == first \o one
    <2>1. Prepended(w, r) = start \o last
        BY <1>2 DEF Prepended, one
    <2> HIDE DEF sooner
    <2>2. sooner \subseteq Range(w)
        BY DEF sooner
    <2>3. /\ first \in Seq(Requests) /\ IsInjective(first) /\ Range(first) = Range(w) \cap sooner
          /\ last \in Seq(Requests) /\ IsInjective(last)
          /\ Range(last) = Range(w) \cap (Range(w) \ sooner)
        BY FilterFacts
    <2> HIDE DEF first, last
    <2>4. Range(first) \cap Range(one) = {}
        BY <1>1, <2>3
    <2>5. start \in Seq(Requests) /\ IsInjective(start) /\ Range(start) = Range(first) \cup Range(one)
        BY <1>1, <2>3, <2>4, InjectiveConcat
    <2> HIDE DEF start
    <2>6. Range(start) \cap Range(last) = {}
        BY <1>1, <2>3, <2>5
    <2>7. /\ start \o last \in Seq(Requests) /\ IsInjective(start \o last)
          /\ Range(start \o last) = Range(start) \cup Range(last)
        BY <2>3, <2>5, <2>6, InjectiveConcat
    <2>8. Range(start) \cup Range(last) = Range(w) \cup {r}
        BY <1>1, <2>2, <2>3, <2>5
    <2> QED BY <2>1, <2>7, <2>8
<1>3. CASE ~ByPriority
    <2>1. Prepended(w, r) = one \o w
        BY <1>3 DEF Prepended, one
    <2>2. Range(one) \cap Range(w) = {}
        BY <1>1
    <2> QED BY <1>1, <2>1, <2>2, InjectiveConcat
<1> QED BY <1>2, <1>3

-----------------------------------------------------------------------------
(* The slots of a set of hashes.                                           *)

LEMMA SlotsFinite ==
    ASSUME NEW S, S \subseteq Hashes, IsFiniteSet(S)
    PROVE  IsFiniteSet(Slots(S)) /\ Sizes(S) \in Nat
<1> DEFINE Of(h) == {h} \X (1..Size[h])
           f == [h \in S |-> Of(h)]
           T == {Of(h) : h \in S}
<1>1. f \in Surjection(S, T)
    BY DEF Surjection
<1>2. IsFiniteSet(T)
    BY <1>1, FS_Surjection
<1>3. ASSUME NEW h \in S PROVE IsFiniteSet(Of(h))
    <2>1. Size[h] \in Nat
        BY <1>3, RequestAssumption DEF Hashes
    <2>2. \A n \in Nat : IsFiniteSet(1..n)
        BY FS_Interval
    <2>3. IsFiniteSet({h})
        BY FS_Singleton
    <2> QED BY <2>1, <2>2, <2>3, FS_Product
<1>4. \A t \in T : IsFiniteSet(t)
    BY <1>3
<1> HIDE DEF Of
<1>5. IsFiniteSet(UNION T)
    BY <1>2, <1>4, FS_UNION
<1>6. Slots(S) = UNION T
    BY DEF Slots, Of
<1> QED BY <1>5, <1>6, FS_CardinalityType DEF Sizes

LEMMA SizesUnion ==
    ASSUME NEW S, S \subseteq Hashes, IsFiniteSet(S),
           NEW T, T \subseteq Hashes, IsFiniteSet(T), S \cap T = {}
    PROVE  IsFiniteSet(S \cup T) /\ Sizes(S \cup T) = Sizes(S) + Sizes(T)
<1>1. Slots(S \cup T) = Slots(S) \cup Slots(T)
    BY DEF Slots
<1>2. Slots(S) \cap Slots(T) = {}
    BY DEF Slots
<1>3. IsFiniteSet(Slots(S)) /\ IsFiniteSet(Slots(T)) /\ Sizes(S) \in Nat /\ Sizes(T) \in Nat
    BY SlotsFinite
<1>4. Cardinality(Slots(S) \cup Slots(T)) = Cardinality(Slots(S)) + Cardinality(Slots(T)) - Cardinality({})
    BY <1>2, <1>3, FS_Union
<1>5. Cardinality({}) = 0
    BY FS_EmptySet
<1>6. Sizes(S \cup T) = Sizes(S) + Sizes(T)
    <2>1. Sizes(S \cup T) = Cardinality(Slots(S) \cup Slots(T))
        BY <1>1, Zenon DEF Sizes
    <2>2. Sizes(S) = Cardinality(Slots(S)) /\ Sizes(T) = Cardinality(Slots(T))
        BY DEF Sizes
    <2>3. Sizes(S \cup T) = Sizes(S) + Sizes(T) - 0
        BY <1>4, <1>5, <2>1, <2>2, Zenon
    <2> QED BY <1>3, <2>3
<1> QED BY <1>6, FS_Union

LEMMA SizesOne == ASSUME NEW h \in Hashes PROVE IsFiniteSet({h}) /\ Sizes({h}) = Size[h] /\ Size[h] \in Nat \ {0}
<1>1. Size[h] \in Nat \ {0}
    BY RequestAssumption DEF Hashes
<1>2. Slots({h}) = {h} \X (1..Size[h])
    BY DEF Slots
<1>3. IsFiniteSet({h}) /\ Cardinality({h}) = 1
    BY FS_Singleton
<1>4. IsFiniteSet(1..Size[h]) /\ Cardinality(1..Size[h]) = Size[h]
    <2>1. \A n \in Nat : IsFiniteSet(1..n) /\ Cardinality(1..n) = n
        BY FS_Interval
    <2> QED BY <1>1, <2>1
<1>5. Cardinality({h} \X (1..Size[h])) = 1 * Size[h]
    <2>1. PICK A, B : A = {h} /\ B = 1..Size[h]
        OBVIOUS
    <2>2. /\ IsFiniteSet(A) /\ Cardinality(A) = 1
          /\ IsFiniteSet(B) /\ Cardinality(B) = Size[h]
        BY <1>3, <1>4, <2>1
    <2>3. Cardinality(A \X B) = Cardinality(A) * Cardinality(B)
        BY <2>2, FS_Product
    <2> QED BY <2>1, <2>2, <2>3
<1>6. Sizes({h}) = 1 * Size[h]
    BY <1>2, <1>5, Zenon DEF Sizes
<1> QED BY <1>1, <1>3, <1>6

LEMMA SizesNone == Sizes({}) = 0 /\ IsFiniteSet({})
<1>1. Slots({}) = {}
    BY DEF Slots
<1> QED BY <1>1, FS_EmptySet DEF Sizes

\* A hash more and a hash less; parts of a set.
LEMMA SizesMore ==
    ASSUME NEW S, S \subseteq Hashes, IsFiniteSet(S), NEW h \in Hashes
    PROVE  /\ IsFiniteSet(S \cup {h}) /\ IsFiniteSet(S \ {h})
           /\ h \notin S => Sizes(S \cup {h}) = Sizes(S) + Size[h]
           /\ h \in S => Sizes(S \ {h}) = Sizes(S) - Size[h]
<1>1. IsFiniteSet({h}) /\ Sizes({h}) = Size[h] /\ Size[h] \in Nat
    BY SizesOne
<1>2. IsFiniteSet(S \cup {h}) /\ IsFiniteSet(S \ {h})
    BY FS_AddElement, FS_RemoveElement
<1>3. h \notin S => Sizes(S \cup {h}) = Sizes(S) + Size[h]
    <2>1. {h} \subseteq Hashes /\ (h \notin S => S \cap {h} = {})
        OBVIOUS
    <2> QED BY <1>1, <2>1, SizesUnion
<1>4. h \in S => Sizes(S \ {h}) = Sizes(S) - Size[h]
    <2> SUFFICES ASSUME h \in S PROVE Sizes(S \ {h}) = Sizes(S) - Size[h]
        OBVIOUS
    <2> DEFINE R == S \ {h}
    <2>1. R \cap {h} = {} /\ R \cup {h} = S /\ R \subseteq Hashes /\ IsFiniteSet(R)
        BY <1>2
    <2> HIDE DEF R
    <2>2. Sizes(R \cup {h}) = Sizes(R) + Sizes({h})
        <3>1. {h} \subseteq Hashes
            OBVIOUS
        <3> QED BY <1>1, <2>1, <3>1, SizesUnion
    <2>3. Sizes(R) \in Nat
        BY <2>1, SlotsFinite
    <2>4. Sizes(S) = Sizes(R) + Size[h]
        BY <1>1, <2>1, <2>2
    <2>5. Sizes(R) = Sizes(S) - Size[h]
        BY <1>1, <2>3, <2>4
    <2> QED BY <2>5 DEF R
<1> QED BY <1>2, <1>3, <1>4

LEMMA SizesPart ==
    ASSUME NEW S, S \subseteq Hashes, IsFiniteSet(S), NEW T, T \subseteq S
    PROVE  /\ IsFiniteSet(T) /\ IsFiniteSet(S \ T)
           /\ Sizes(S) = Sizes(T) + Sizes(S \ T)
           /\ Sizes(T) \in Nat /\ Sizes(S \ T) \in Nat /\ Sizes(T) <= Sizes(S)
<1>1. IsFiniteSet(T) /\ IsFiniteSet(S \ T)
    BY FS_Subset, FS_Difference
<1> DEFINE R == S \ T
<1>2. T \cup R = S /\ T \cap R = {} /\ T \subseteq Hashes /\ R \subseteq Hashes
    OBVIOUS
<1>3. IsFiniteSet(T) /\ IsFiniteSet(R)
    BY <1>1
<1> HIDE DEF R
<1>4. Sizes(T) \in Nat /\ Sizes(R) \in Nat
    BY <1>2, <1>3, SlotsFinite
<1>5. Sizes(S) = Sizes(T) + Sizes(R)
    BY <1>2, <1>3, SizesUnion
<1>6. Sizes(T) <= Sizes(S)
    BY <1>4, <1>5
<1> QED BY <1>3, <1>4, <1>5, <1>6 DEF R

-----------------------------------------------------------------------------
(* The inductive invariant.                                                *)

\* The hashes of the items is of r; those that a step's frames encode.
HashesOf(r, is) == {HashOf(r, i) : i \in is}
EncodedBy(fs) == UNION {HashesOf(f.req, Range(f.inputs)) : f \in Range(fs)}

Managers == [cached : SUBSET Hashes, refs : [Hashes -> SUBSET Requests],
             ids : [Requests -> SUBSET Nat], freeable : Seq(Hashes), freed : SUBSET Hashes,
             allocated : SUBSET Hashes, free : Int, spare : Int]

\* The manager's books, when the requests live may hold references.
Books(m, live) ==
    /\ m \in Managers
    /\ IsFiniteSet(m.cached) /\ Sizes(m.cached) <= CacheSize
    /\ m.free = CacheSize - Sizes(m.cached)
    /\ m.spare = m.free + Sizes(Range(m.freeable))
    /\ IsInjective(m.freeable)
    /\ Range(m.freeable) = {h \in m.cached : m.refs[h] = {}}
    /\ \A h \in Hashes : m.refs[h] \subseteq live
    /\ \A h \in Hashes \ m.cached : m.refs[h] = {}
    /\ \A r \in Requests : m.ids[r] \subseteq DOMAIN Features[r]
    /\ \A h \in Hashes : \A r \in m.refs[h] : h \in HashesOf(r, m.ids[r])
    /\ m.allocated = {}

\* The items is of r, not in the cache, have room in it.
RoomFor(m, r, is) ==
    /\ is \in Seq(DOMAIN Features[r])
    /\ \A j, k \in DOMAIN is : HashOf(r, is[j]) = HashOf(r, is[k]) => j = k
    /\ HashesOf(r, Range(is)) \cap m.cached = {}
    /\ Sizes(HashesOf(r, Range(is))) <= m.free

Frames == [req : Requests, from : Nat, to : Nat, inputs : Seq(Nat)]
Of(fs) == {f.req : f \in Range(fs)}

QueuesRight ==
    /\ status \in [Requests -> {"new", "waiting", "running", "finished"}]
    /\ waiting \in Seq(Requests) /\ IsInjective(waiting)
    /\ Range(waiting) = {r \in Requests : status[r] = "waiting"}
    /\ running \in Seq(Requests) /\ IsInjective(running)
    /\ Range(running) = {r \in Requests : status[r] = "running"}
    /\ computed \in [Requests -> Nat]
    /\ \A r \in Requests : computed[r] <= Prompt[r]

FramesRight(fs) ==
    /\ fs \in Seq(Frames)
    /\ \A f \in Range(fs) : /\ Range(f.inputs) \subseteq DOMAIN Features[f.req]
                            /\ f.from <= f.to /\ f.to <= Prompt[f.req]

\* A victim is not scheduled without one request less to come back to.
PhasesRight ==
    /\ phase \in {"idle", "running", "waiting", "process"}
    /\ phase \in {"idle", "process"} => batch = <<>>
    /\ phase # "running" => plan = NoPlan
    /\ idx \in Nat /\ tokens \in Nat /\ compute \in Int
    /\ phase = "running" => Cardinality(Of(batch)) < idx
    /\ plan # NoPlan =>
          /\ plan.req \in Range(running)
          /\ plan.n \in Nat \ {0} /\ plan.n <= tokens /\ plan.budget \in Int
          /\ computed[plan.req] + plan.n <= Prompt[plan.req]
          /\ RoomFor(mgr, plan.req, plan.inputs)

\* What a batch encodes stays referenced while it is put together.
BatchIn(fs, m, rs) ==
    /\ FramesRight(fs) /\ Of(fs) \subseteq rs
    /\ \A f \in Range(fs) : \A i \in Range(f.inputs) : f.req \in m.refs[HashOf(f.req, i)]
BatchRight == BatchIn(batch, mgr, Range(running))

StepsRight ==
    /\ queue \in Seq([frames : Seq(Frames), freed : SUBSET Hashes])
    /\ \A k \in DOMAIN queue : FramesRight(queue[k].frames)
    /\ ran \in 0..Len(queue) /\ Len(queue) <= Depth
    /\ phase # "process" => Len(queue) < Depth

\* The worker's outputs k steps from now, and when all that is queued has run.
OutputsAfter(k) ==
    IF k = 0 THEN outputs
    ELSE IF k = 1 THEN Execute(outputs, queue[ran + 1])
    ELSE Execute(Execute(outputs, queue[ran + 1]), queue[ran + 2])
AtLast == OutputsAfter(Len(queue) - ran)

\* The worker will hold nothing that the books do not account for.
Accounted(m, fs) == (AtLast \ m.freed) \cup EncodedBy(fs) \subseteq m.cached

WorkerFits ==
    /\ \A k \in 0..(Len(queue) - ran) :
          /\ OutputsAfter(k) \subseteq Hashes /\ IsFiniteSet(OutputsAfter(k))
          /\ Sizes(OutputsAfter(k)) <= CacheSize
    /\ Accounted(mgr, batch)

CacheInv ==
    /\ Books(mgr, Unfinished) /\ QueuesRight /\ PhasesRight /\ BatchRight
    /\ StepsRight /\ WorkerFits

\* Under FCFS: the i-th item of r is referenced by it, or planned.
Covered(m, r, is, i) == r \in m.refs[HashOf(r, i)] \/ HashOf(r, i) \in HashesOf(r, Range(is))
PlanCovered(p, c, m) == \A i \in Window(p.req, c, c + p.n) : Covered(m, p.req, p.inputs, i)
PlanCovers == plan # NoPlan => PlanCovered(plan, computed[plan.req], mgr)

BatchCovered(fs, m) ==
    \A f \in Range(fs) : \A i \in Window(f.req, f.from, f.to) : f.req \in m.refs[HashOf(f.req, i)]

\* The requests of the batch come before the one blocks are asked for.
BatchBefore ==
    /\ phase = "running" =>
          \A f \in Range(batch) : \E j \in DOMAIN running : j < idx /\ running[j] = f.req
    /\ plan # NoPlan => idx \in DOMAIN running /\ running[idx] = plan.req

\* What the books count on, the worker will hold.
Promised(m, fs) == m.cached \subseteq (AtLast \ m.freed) \cup EncodedBy(fs)
WorkerFollows ==
    /\ Promised(mgr, batch)
    /\ \A k \in 1..(Len(queue) - ran) : \A f \in Range(queue[ran + k].frames) :
          HashesOf(f.req, Window(f.req, f.from, f.to)) \subseteq OutputsAfter(k)

OutputsInv == PlanCovers /\ BatchCovered(batch, mgr) /\ BatchBefore /\ WorkerFollows
-----------------------------------------------------------------------------
(* Managers with one field changed.                                        *)

LEMMA MemberOf ==
    ASSUME NEW T, NEW s \in Seq(T), NEW i \in DOMAIN s
    PROVE  s[i] \in T /\ i \in Nat /\ i \in 1..Len(s)
OBVIOUS

LEMMA WithCached ==
    ASSUME NEW m \in Managers, NEW v \in SUBSET Hashes
    PROVE  LET x == [m EXCEPT !.cached = v]
           IN  /\ x \in Managers /\ x.cached = v
               /\ x.refs = m.refs /\ x.ids = m.ids /\ x.freeable = m.freeable
               /\ x.freed = m.freed /\ x.allocated = m.allocated /\ x.free = m.free /\ x.spare = m.spare
BY DEF Managers

LEMMA WithRefs ==
    ASSUME NEW m \in Managers, NEW v \in [Hashes -> SUBSET Requests]
    PROVE  LET x == [m EXCEPT !.refs = v]
           IN  /\ x \in Managers /\ x.refs = v
               /\ x.cached = m.cached /\ x.ids = m.ids /\ x.freeable = m.freeable
               /\ x.freed = m.freed /\ x.allocated = m.allocated /\ x.free = m.free /\ x.spare = m.spare
BY DEF Managers

LEMMA WithIds ==
    ASSUME NEW m \in Managers, NEW v \in [Requests -> SUBSET Nat]
    PROVE  LET x == [m EXCEPT !.ids = v]
           IN  /\ x \in Managers /\ x.ids = v
               /\ x.cached = m.cached /\ x.refs = m.refs /\ x.freeable = m.freeable
               /\ x.freed = m.freed /\ x.allocated = m.allocated /\ x.free = m.free /\ x.spare = m.spare
BY DEF Managers

LEMMA WithFreeable ==
    ASSUME NEW m \in Managers, NEW v \in Seq(Hashes)
    PROVE  LET x == [m EXCEPT !.freeable = v]
           IN  /\ x \in Managers /\ x.freeable = v
               /\ x.cached = m.cached /\ x.refs = m.refs /\ x.ids = m.ids
               /\ x.freed = m.freed /\ x.allocated = m.allocated /\ x.free = m.free /\ x.spare = m.spare
BY DEF Managers

LEMMA WithFreed ==
    ASSUME NEW m \in Managers, NEW v \in SUBSET Hashes
    PROVE  LET x == [m EXCEPT !.freed = v]
           IN  /\ x \in Managers /\ x.freed = v
               /\ x.cached = m.cached /\ x.refs = m.refs /\ x.ids = m.ids
               /\ x.freeable = m.freeable /\ x.allocated = m.allocated /\ x.free = m.free /\ x.spare = m.spare
BY DEF Managers

LEMMA WithFree ==
    ASSUME NEW m \in Managers, NEW v \in Int
    PROVE  LET x == [m EXCEPT !.free = v]
           IN  /\ x \in Managers /\ x.free = v
               /\ x.cached = m.cached /\ x.refs = m.refs /\ x.ids = m.ids
               /\ x.freeable = m.freeable /\ x.freed = m.freed /\ x.allocated = m.allocated /\ x.spare = m.spare
BY DEF Managers

LEMMA WithSpare ==
    ASSUME NEW m \in Managers, NEW v \in Int
    PROVE  LET x == [m EXCEPT !.spare = v]
           IN  /\ x \in Managers /\ x.spare = v
               /\ x.cached = m.cached /\ x.refs = m.refs /\ x.ids = m.ids
               /\ x.freeable = m.freeable /\ x.freed = m.freed /\ x.allocated = m.allocated /\ x.free = m.free
BY DEF Managers

-----------------------------------------------------------------------------
(* The manager's operations, of a decoder-only model.                      *)

Decoding == config \in Configs /\ ~EncDec

LEMMA SetUp ==
    ASSUME Decoding
    PROVE  /\ CacheSize \in Nat /\ PrefixHits \subseteq Nat
           /\ Depth \in {1, 2} /\ Budget \in Nat \ {0} /\ ComputeBudget \in Nat
           /\ Shift \in {0, 1}
           /\ \A r \in Requests :
                 /\ Prompt[r] \in Nat /\ r \in Nat
                 /\ Features[r] \in Seq([at : Nat, hash : Hashes])
                 /\ DOMAIN Features[r] = 1..Len(Features[r]) /\ Len(Features[r]) \in Nat
                 /\ \A i, j \in DOMAIN Features[r] : i < j => From(r, i) <= From(r, j)
                 /\ \A i \in DOMAIN Features[r] :
                       /\ HashOf(r, i) \in Hashes /\ From(r, i) \in Nat /\ i \in Nat
                       /\ Size[HashOf(r, i)] \in Nat \ {0}
                       /\ To(r, i) = From(r, i) + Size[HashOf(r, i)] /\ To(r, i) \in Nat
<1>1. /\ \A r \in Requests :
            /\ config.prompt[r] \in Nat /\ config.features[r] \in Seq([at : Nat, hash : Hashes])
            /\ \A i, j \in DOMAIN config.features[r] :
                  i < j => config.features[r][i].at <= config.features[r][j].at
      /\ config.prefixHits \subseteq Nat
      /\ config.cacheSize \in Nat /\ config.depth \in {1, 2}
      /\ config.budget \in Nat \ {0} /\ config.computeBudget \in Nat
    BY RequestAssumption, BudgetAssumption DEF Decoding, Hashes
<1>2. /\ CacheSize \in Nat /\ PrefixHits \subseteq Nat /\ Depth \in {1, 2}
      /\ Budget \in Nat \ {0} /\ ComputeBudget \in Nat /\ Shift \in {0, 1}
    BY <1>1 DEF CacheSize, PrefixHits, Depth, Budget, ComputeBudget, Shift
<1>3. ASSUME NEW r \in Requests
      PROVE  /\ Prompt[r] \in Nat /\ r \in Nat
             /\ Features[r] \in Seq([at : Nat, hash : Hashes])
             /\ DOMAIN Features[r] = 1..Len(Features[r]) /\ Len(Features[r]) \in Nat
             /\ \A i, j \in DOMAIN Features[r] : i < j => From(r, i) <= From(r, j)
             /\ \A i \in DOMAIN Features[r] :
                   /\ HashOf(r, i) \in Hashes /\ From(r, i) \in Nat /\ i \in Nat
                   /\ Size[HashOf(r, i)] \in Nat \ {0}
                   /\ To(r, i) = From(r, i) + Size[HashOf(r, i)] /\ To(r, i) \in Nat
    <2>1. Prompt[r] \in Nat /\ r \in Nat
        BY <1>1, <1>3, RequestAssumption DEF Prompt
    <2>2. Features[r] \in Seq([at : Nat, hash : Hashes])
        BY <1>1, <1>3 DEF Features
    <2>3. DOMAIN Features[r] = 1..Len(Features[r]) /\ Len(Features[r]) \in Nat
        BY <2>2
    <2>4. \A i, j \in DOMAIN Features[r] : i < j => From(r, i) <= From(r, j)
        BY <1>1, <1>3 DEF Features, From
    <2>5. ASSUME NEW i \in DOMAIN Features[r]
          PROVE  /\ HashOf(r, i) \in Hashes /\ From(r, i) \in Nat /\ i \in Nat
                 /\ Size[HashOf(r, i)] \in Nat \ {0}
                 /\ To(r, i) = From(r, i) + Size[HashOf(r, i)] /\ To(r, i) \in Nat
        <3>1. Features[r][i] \in [at : Nat, hash : Hashes] /\ i \in Nat
            <4> DEFINE T == [at : Nat, hash : Hashes]
            <4>1. Features[r] \in Seq(T)
                BY <2>2
            <4> HIDE DEF T
            <4>2. Features[r][i] \in T /\ i \in Nat
                BY <2>5, <4>1, MemberOf
            <4> QED BY <4>2 DEF T
        <3>2. HashOf(r, i) \in Hashes /\ From(r, i) \in Nat
            BY <3>1 DEF HashOf, From
        <3>3. Size[HashOf(r, i)] \in Nat \ {0}
            BY <3>2, RequestAssumption DEF Hashes
        <3>4. To(r, i) = From(r, i) + Size[HashOf(r, i)]
            BY DEF To
        <3> QED BY <3>1, <3>2, <3>3, <3>4
    <2> QED BY <2>1, <2>2, <2>3, <2>4, <2>5
<1> QED BY <1>2, <1>3

\* The hashes of some items of a request.
LEMMA ItemsFinite ==
    ASSUME Decoding, NEW r \in Requests, NEW is, is \subseteq DOMAIN Features[r]
    PROVE  /\ HashesOf(r, is) \subseteq Hashes /\ IsFiniteSet(HashesOf(r, is))
           /\ Sizes(HashesOf(r, is)) \in Nat
<1> DEFINE n == Len(Features[r])
           f == [i \in is |-> HashOf(r, i)]
<1>1. /\ n \in Nat /\ is \subseteq 1..n
      /\ \A i \in is : HashOf(r, i) \in Hashes
    BY SetUp
<1>2. IsFiniteSet(is)
    <2>1. \A k \in Nat : IsFiniteSet(1..k)
        BY FS_Interval
    <2> QED BY <1>1, <2>1, FS_Subset
<1>3. f \in Surjection(is, HashesOf(r, is))
    BY DEF Surjection, HashesOf
<1>4. IsFiniteSet(HashesOf(r, is))
    BY <1>2, <1>3, FS_Surjection
<1>5. HashesOf(r, is) \subseteq Hashes
    BY <1>1 DEF HashesOf
<1> QED BY <1>4, <1>5, SlotsFinite

\* Every freeable hash is cached; all that is counted is finite.
LEMMA BooksFinite ==
    ASSUME Decoding, NEW live, NEW m, Books(m, live)
    PROVE  /\ IsFiniteSet(m.cached) /\ m.cached \subseteq Hashes
           /\ Range(m.freeable) \subseteq m.cached /\ IsFiniteSet(Range(m.freeable))
           /\ Sizes(m.cached) \in Nat /\ Sizes(Range(m.freeable)) \in Nat
           /\ m.free \in Nat /\ m.spare \in Nat /\ CacheSize \in Nat
<1>1. IsFiniteSet(m.cached) /\ m.cached \subseteq Hashes
    BY DEF Books, Managers
<1>2. Range(m.freeable) \subseteq m.cached
    BY DEF Books
<1>3. /\ IsFiniteSet(Range(m.freeable))
      /\ Sizes(Range(m.freeable)) \in Nat
    BY <1>1, <1>2, SizesPart
<1>4. Sizes(m.cached) \in Nat
    BY <1>1, SlotsFinite
<1>5. CacheSize \in Nat
    BY SetUp
<1>6. m.free = CacheSize - Sizes(m.cached) /\ Sizes(m.cached) <= CacheSize
      /\ m.spare = m.free + Sizes(Range(m.freeable))
    BY DEF Books
<1> QED BY <1>1, <1>2, <1>3, <1>4, <1>5, <1>6

\* check_and_update_cache
LEMMA ReferenceKept ==
    ASSUME Decoding, NEW live, NEW m, Books(m, live), NEW r \in Requests, r \in live,
           NEW i \in DOMAIN Features[r], HashOf(r, i) \in m.cached
    PROVE  LET x == Reference(m, r, i)
           IN  /\ Books(x, live)
               /\ x.cached = m.cached /\ x.freed = m.freed /\ x.free = m.free
               /\ x.refs = [m.refs EXCEPT ![HashOf(r, i)] = m.refs[HashOf(r, i)] \cup {r}]
<1> DEFINE h == HashOf(r, i)
           x == Reference(m, r, i)
           idle == m.refs[h] = {}
           list == IF idle THEN Without(m.freeable, h) ELSE m.freeable
           room == m.spare - (IF idle THEN Size[h] ELSE 0)
<1>1. h \in Hashes /\ Size[h] \in Nat /\ m.spare \in Int /\ i \in Nat
    <2>1. i \in Nat /\ h \in Hashes
        BY SetUp
    <2>2. Size[h] \in Nat
        BY <2>1, SetUp
    <2>3. m.spare \in Int
        BY BooksFinite
    <2> QED BY <2>1, <2>2, <2>3
<1>2. m \in Managers
    BY DEF Books
<1>4. /\ list \in Seq(Hashes) /\ IsInjective(list)
      /\ Range(list) = Range(m.freeable) \ (IF idle THEN {h} ELSE {})
    <2>1. m.freeable \in Seq(Hashes) /\ IsInjective(m.freeable)
        BY DEF Books, Managers
    <2>2. /\ Without(m.freeable, h) \in Seq(Hashes)
          /\ Range(Without(m.freeable, h)) = Range(m.freeable) \ {h}
          /\ IsInjective(Without(m.freeable, h))
        BY <2>1, WithoutFacts
    <2> QED BY <2>1, <2>2
<1>3. /\ x.cached = m.cached /\ x.freed = m.freed /\ x.free = m.free
      /\ x.allocated = m.allocated
      /\ x.refs = [m.refs EXCEPT ![h] = m.refs[h] \cup {r}]
      /\ x.ids = [m.ids EXCEPT ![r] = m.ids[r] \cup {i}]
      /\ x.freeable = list /\ x.spare = room
      /\ x \in Managers
    <2> SUFFICES ASSUME list \in Seq(Hashes)
                 PROVE  /\ x \in Managers /\ x.cached = m.cached /\ x.freed = m.freed
                        /\ x.free = m.free /\ x.allocated = m.allocated
                        /\ x.refs = [m.refs EXCEPT ![h] = m.refs[h] \cup {r}]
                        /\ x.ids = [m.ids EXCEPT ![r] = m.ids[r] \cup {i}]
                        /\ x.freeable = list /\ x.spare = room
        BY <1>4
    <2> DEFINE m1 == [m EXCEPT !.freeable = list]
               m2 == [m1 EXCEPT !.spare = room]
               m3 == [m2 EXCEPT !.refs = [m2.refs EXCEPT ![h] = m.refs[h] \cup {r}]]
               m4 == [m3 EXCEPT !.ids = [m3.ids EXCEPT ![r] = m.ids[r] \cup {i}]]
    <2>1. x = m4
        BY DEF Reference
    <2>2. room \in Int
        BY <1>1
    <2> HIDE DEF list, room, x
    <2>3. /\ m1 \in Managers /\ m1.freeable = list
          /\ m1.cached = m.cached /\ m1.refs = m.refs /\ m1.ids = m.ids
          /\ m1.freed = m.freed /\ m1.allocated = m.allocated /\ m1.free = m.free
        BY <1>2, WithFreeable
    <2> HIDE DEF m1
    <2>4. /\ m2 \in Managers /\ m2.spare = room /\ m2.freeable = list
          /\ m2.cached = m.cached /\ m2.refs = m.refs /\ m2.ids = m.ids
          /\ m2.freed = m.freed /\ m2.allocated = m.allocated /\ m2.free = m.free
        BY <2>2, <2>3, WithSpare
    <2> HIDE DEF m2
    <2> DEFINE refs == [m2.refs EXCEPT ![h] = m.refs[h] \cup {r}]
               ids == [m3.ids EXCEPT ![r] = m.ids[r] \cup {i}]
    <2>5. refs \in [Hashes -> SUBSET Requests]
        BY <1>1, <1>2, <2>4 DEF Managers
    <2>6. /\ m3 \in Managers /\ m3.refs = refs /\ m3.spare = room /\ m3.freeable = list
          /\ m3.cached = m.cached /\ m3.ids = m.ids
          /\ m3.freed = m.freed /\ m3.allocated = m.allocated /\ m3.free = m.free
        <3>1. m3 = [m2 EXCEPT !.refs = refs]
            OBVIOUS
        <3> HIDE DEF m3, refs
        <3> QED BY <2>4, <2>5, <3>1, WithRefs
    <2> HIDE DEF m3
    <2>7. ids \in [Requests -> SUBSET Nat]
        BY <1>1, <1>2, <2>6 DEF Managers
    <2>8. /\ m4 \in Managers /\ m4.ids = ids /\ m4.refs = refs /\ m4.spare = room
          /\ m4.freeable = list /\ m4.cached = m.cached
          /\ m4.freed = m.freed /\ m4.allocated = m.allocated /\ m4.free = m.free
        <3>1. m4 = [m3 EXCEPT !.ids = ids]
            OBVIOUS
        <3> HIDE DEF m4, ids, refs
        <3> QED BY <2>6, <2>7, <3>1, WithIds
    <2> HIDE DEF m4
    <2>9. refs = [m.refs EXCEPT ![h] = m.refs[h] \cup {r}]
          /\ ids = [m.ids EXCEPT ![r] = m.ids[r] \cup {i}]
        BY <2>4, <2>6
    <2> HIDE DEF refs, ids
    <2> QED BY <2>1, <2>8, <2>9
<1> HIDE DEF x
<1>5. Range(m.freeable) = {g \in m.cached : m.refs[g] = {}}
    BY DEF Books
<1>6. room = m.free + Sizes(Range(list))
    <2>1. m.spare = m.free + Sizes(Range(m.freeable))
        BY DEF Books
    <2>2. CASE idle
        <3>1. h \in Range(m.freeable)
            BY <1>5, <2>2
        <3>2. Sizes(Range(m.freeable) \ {h}) = Sizes(Range(m.freeable)) - Size[h]
            BY <1>1, <3>1, BooksFinite, SizesMore
        <3>3. Range(list) = Range(m.freeable) \ {h} /\ room = m.spare - Size[h]
            BY <1>4, <2>2
        <3>4. Sizes(Range(list)) = Sizes(Range(m.freeable)) - Size[h]
            BY <3>2, <3>3
        <3>5. Sizes(Range(m.freeable)) \in Nat /\ m.free \in Nat
            BY BooksFinite
        <3> HIDE DEF room, list
        <3> QED BY <1>1, <2>1, <3>3, <3>4, <3>5
    <2>3. CASE ~idle
        <3>1. list = m.freeable /\ room = m.spare
            BY <1>1, <2>3
        <3> QED BY <2>1, <3>1
    <2> QED BY <2>2, <2>3
<1> HIDE DEF list, room
<1>7. Range(x.freeable) = {g \in x.cached : x.refs[g] = {}}
    <2>1. ASSUME NEW g \in m.cached PROVE x.refs[g] = {} <=> m.refs[g] = {} /\ g # h
        <3>1. g \in Hashes /\ h \in Hashes /\ m.refs \in [Hashes -> SUBSET Requests]
            BY <1>1, <1>2 DEF Managers
        <3>2. CASE g = h
            BY <1>3, <3>1, <3>2
        <3>3. CASE g # h
            BY <1>3, <3>1, <3>3
        <3> QED BY <3>2, <3>3
    <2>2. Range(x.freeable) = Range(m.freeable) \ {h}
        BY <1>3, <1>4, <1>5
    <2> QED BY <1>3, <1>5, <2>1, <2>2
<1>8. /\ \A g \in Hashes : x.refs[g] \subseteq live
      /\ \A g \in Hashes \ x.cached : x.refs[g] = {}
    BY <1>1, <1>2, <1>3 DEF Books, Managers
<1>9. \A q \in Requests : x.ids[q] \subseteq DOMAIN Features[q]
    BY <1>2, <1>3 DEF Books, Managers
<1>10. ASSUME NEW g \in Hashes, NEW q \in x.refs[g] PROVE g \in HashesOf(q, x.ids[q])
    <2>1. q \in Requests
        BY <1>2, <1>3, <1>10 DEF Managers
    <2>2. x.ids[q] = IF q = r THEN m.ids[q] \cup {i} ELSE m.ids[q]
        BY <1>2, <1>3, <2>1 DEF Managers
    <2>3. CASE q \in m.refs[g]
        <3>1. g \in HashesOf(q, m.ids[q])
            BY <2>3 DEF Books
        <3> QED BY <2>2, <3>1 DEF HashesOf
    <2>4. CASE q \notin m.refs[g]
        <3>1. g = h /\ q = r
            BY <1>1, <1>2, <1>3, <1>10, <2>4 DEF Managers
        <3> QED BY <2>2, <3>1 DEF HashesOf
    <2> QED BY <2>3, <2>4
<1>11. Books(x, live)
    <2>1. x \in Managers
        BY <1>3, <1>4
    <2>2. x.spare = x.free + Sizes(Range(x.freeable)) /\ IsInjective(x.freeable)
        BY <1>3, <1>4, <1>6
    <2>3. /\ IsFiniteSet(x.cached) /\ Sizes(x.cached) <= CacheSize
          /\ x.free = CacheSize - Sizes(x.cached) /\ x.allocated = {}
        BY <1>3 DEF Books
    <2> QED BY <1>7, <1>8, <1>9, <1>10, <2>1, <2>2, <2>3 DEF Books
<1> QED BY <1>3, <1>11 DEF x

\* x is m with room for need, at the cost of outputs nobody uses.
RoomMade(x, m, live, need) ==
    /\ Books(x, live) /\ x.refs = m.refs /\ x.free >= need /\ x.free >= m.free
    /\ \E gone : /\ x.cached = m.cached \ gone /\ x.freed = m.freed \cup gone
                 /\ gone \subseteq m.cached /\ \A h \in gone : m.refs[h] = {}

\* can_allocate evicts the oldest freeable entries, as few as will do.
LEMMA MakeRoomKept ==
    ASSUME Decoding, NEW live, NEW m, Books(m, live), NEW need \in Int, need <= m.spare
    PROVE  RoomMade(MakeRoom(m, need), m, live, need)
<1> DEFINE n == Len(m.freeable)
           first(k) == Range(SubSeq(m.freeable, 1, k))
           K == {k \in 0..n : m.free + Sizes(first(k)) >= need}
           count == Min(K)
           gone == first(count)
           rest == SubSeq(m.freeable, count + 1, n)
           x == MakeRoom(m, need)
<1>1. m \in Managers /\ m.freeable \in Seq(Hashes) /\ IsInjective(m.freeable) /\ n \in Nat
    BY DEF Books, Managers
<1>2. n \in K
    <2>1. SubSeq(m.freeable, 1, n) = m.freeable
        BY <1>1
    <2>2. m.free + Sizes(first(n)) = m.spare
        BY <2>1 DEF Books
    <2> HIDE DEF first
    <2> QED BY <1>1, <2>2, BooksFinite
<1>3. K \subseteq Nat
    OBVIOUS
<1>4. count \in K
    <2> HIDE DEF K
    <2>1. \E k \in K : \A l \in K : k <= l
        BY <1>2, <1>3, LeastElement
    <2> QED BY <2>1 DEF Min
<1>5. count \in 0..n /\ m.free + Sizes(gone) >= need
    <2> HIDE DEF count, first
    <2> QED BY <1>4
<1>6. x = Evict(m, gone, count)
    BY DEF MakeRoom
<1> HIDE DEF count, x
<1>7. /\ rest \in Seq(Hashes) /\ IsInjective(rest)
      /\ gone \cup Range(rest) = Range(m.freeable) /\ gone \cap Range(rest) = {}
    BY <1>1, <1>5, InjectiveCut
<1> HIDE DEF first, rest, K
<1>8. /\ IsFiniteSet(m.cached) /\ m.cached \subseteq Hashes
      /\ Range(m.freeable) \subseteq m.cached /\ IsFiniteSet(Range(m.freeable))
      /\ Sizes(m.cached) \in Nat /\ Sizes(Range(m.freeable)) \in Nat
      /\ m.free \in Nat /\ m.spare \in Nat /\ CacheSize \in Nat
    BY BooksFinite
<1>9. gone \subseteq Range(m.freeable) /\ gone \subseteq m.cached /\ Range(rest) = Range(m.freeable) \ gone
    BY <1>7, <1>8
<1>10. /\ Sizes(gone) \in Nat /\ Sizes(m.cached \ gone) \in Nat /\ IsFiniteSet(m.cached \ gone)
       /\ Sizes(m.cached) = Sizes(gone) + Sizes(m.cached \ gone)
    BY <1>8, <1>9, SizesPart
<1>11. /\ Sizes(Range(rest)) \in Nat
       /\ Sizes(Range(m.freeable)) = Sizes(gone) + Sizes(Range(rest))
    <2>1. Range(m.freeable) \subseteq Hashes
        BY <1>8
    <2>2. /\ Sizes(Range(m.freeable) \ gone) \in Nat
          /\ Sizes(Range(m.freeable)) = Sizes(gone) + Sizes(Range(m.freeable) \ gone)
        BY <1>8, <1>9, <2>1, SizesPart
    <2> QED BY <1>9, <2>2
<1>12. /\ x \in Managers /\ x.cached = m.cached \ gone /\ x.free = m.free + Sizes(gone)
       /\ x.freed = m.freed \cup gone /\ x.freeable = rest /\ x.refs = m.refs
       /\ x.ids = m.ids /\ x.allocated = m.allocated /\ x.spare = m.spare
    <2> DEFINE m1 == [m EXCEPT !.cached = m.cached \ gone]
               m2 == [m1 EXCEPT !.free = m1.free + Sizes(gone)]
               m3 == [m2 EXCEPT !.freed = m2.freed \cup gone]
               m4 == [m3 EXCEPT !.freeable = SubSeq(m3.freeable, count + 1, Len(m3.freeable))]
    <2>1. x = m4
        BY <1>6 DEF Evict
    <2>2. /\ m1 \in Managers /\ m1.cached = m.cached \ gone /\ m1.freeable = m.freeable
          /\ m1.refs = m.refs /\ m1.ids = m.ids /\ m1.spare = m.spare
          /\ m1.freed = m.freed /\ m1.allocated = m.allocated /\ m1.free = m.free
        <3>1. m.cached \ gone \in SUBSET Hashes
            BY <1>8
        <3> QED BY <1>1, <3>1, WithCached
    <2> HIDE DEF m1
    <2>3. /\ m2 \in Managers /\ m2.free = m.free + Sizes(gone) /\ m2.freeable = m.freeable
          /\ m2.refs = m.refs /\ m2.ids = m.ids /\ m2.spare = m.spare
          /\ m2.freed = m.freed /\ m2.allocated = m.allocated /\ m2.cached = m.cached \ gone
        <3>1. m1.free + Sizes(gone) \in Int
            BY <1>8, <1>10, <2>2
        <3> QED BY <2>2, <3>1, WithFree
    <2> HIDE DEF m2
    <2>4. /\ m3 \in Managers /\ m3.freed = m.freed \cup gone /\ m3.freeable = m.freeable
          /\ m3.refs = m.refs /\ m3.ids = m.ids /\ m3.spare = m.spare
          /\ m3.free = m.free + Sizes(gone) /\ m3.allocated = m.allocated
          /\ m3.cached = m.cached \ gone
        <3>1. m2.freed \cup gone \in SUBSET Hashes
            BY <1>8, <1>9, <2>3 DEF Managers
        <3> QED BY <2>3, <3>1, WithFreed
    <2> HIDE DEF m3
    <2>5. SubSeq(m3.freeable, count + 1, Len(m3.freeable)) = rest
        BY <2>4 DEF rest
    <2>6. m4 = [m3 EXCEPT !.freeable = rest]
        BY <2>5
    <2> HIDE DEF m4
    <2> QED BY <1>7, <2>1, <2>4, <2>6, WithFreeable
<1>13. Range(x.freeable) = {h \in x.cached : x.refs[h] = {}}
    <2>1. Range(m.freeable) = {h \in m.cached : m.refs[h] = {}}
        BY DEF Books
    <2> QED BY <1>9, <1>12, <2>1
<1>14. /\ \A h \in Hashes : x.refs[h] \subseteq live
       /\ \A h \in Hashes \ x.cached : x.refs[h] = {}
    <2>1. \A h \in gone : m.refs[h] = {}
        BY <1>9 DEF Books
    <2> QED BY <1>12, <2>1 DEF Books
<1>15. /\ \A r \in Requests : x.ids[r] \subseteq DOMAIN Features[r]
       /\ \A h \in Hashes : \A r \in x.refs[h] : h \in HashesOf(r, x.ids[r])
       /\ x.allocated = {}
    BY <1>12 DEF Books
<1>16. /\ IsFiniteSet(x.cached) /\ Sizes(x.cached) <= CacheSize
       /\ x.free = CacheSize - Sizes(x.cached) /\ x.spare = x.free + Sizes(Range(x.freeable))
    <2>1. /\ m.free = CacheSize - Sizes(m.cached) /\ Sizes(m.cached) <= CacheSize
          /\ m.spare = m.free + Sizes(Range(m.freeable))
        BY DEF Books
    <2>2. x.free = CacheSize - Sizes(m.cached \ gone) /\ Sizes(m.cached \ gone) <= CacheSize
        BY <1>8, <1>10, <1>12, <2>1
    <2>3. x.spare = x.free + Sizes(Range(rest))
        BY <1>8, <1>10, <1>11, <1>12, <2>1
    <2> QED BY <1>10, <1>12, <2>2, <2>3
<1>17. Books(x, live)
    BY <1>7, <1>12, <1>13, <1>14, <1>15, <1>16 DEF Books
<1>18. x.free >= need /\ x.free >= m.free
    BY <1>5, <1>8, <1>10, <1>12
<1>19. \A h \in gone : m.refs[h] = {}
    BY <1>9 DEF Books
<1> QED BY <1>9, <1>12, <1>17, <1>18, <1>19 DEF x, RoomMade

\* allocate
LEMMA AllocateKept ==
    ASSUME Decoding, NEW live, NEW m, Books(m, live), NEW r \in Requests, r \in live,
           NEW i \in DOMAIN Features[r], HashOf(r, i) \notin m.cached,
           Size[HashOf(r, i)] <= m.free
    PROVE  LET x == Allocate(m, r, i)
           IN  /\ Books(x, live)
               /\ x.cached = m.cached \cup {HashOf(r, i)} /\ x.freed = m.freed
               /\ x.free = m.free - Size[HashOf(r, i)]
               /\ x.refs = [m.refs EXCEPT ![HashOf(r, i)] = m.refs[HashOf(r, i)] \cup {r}]
<1> DEFINE h == HashOf(r, i)
           x == Allocate(m, r, i)
           refs == [m.refs EXCEPT ![h] = m.refs[h] \cup {r}]
           ids == [m.ids EXCEPT ![r] = m.ids[r] \cup {i}]
<1>1. h \in Hashes /\ Size[h] \in Nat /\ i \in Nat
    BY SetUp
<1>2. m \in Managers
    BY DEF Books
<1>3. /\ IsFiniteSet(m.cached) /\ m.cached \subseteq Hashes
      /\ Sizes(m.cached) \in Nat /\ Sizes(Range(m.freeable)) \in Nat
      /\ m.free \in Nat /\ m.spare \in Nat /\ CacheSize \in Nat
    BY BooksFinite
<1>4. /\ x \in Managers /\ x.cached = m.cached \cup {h} /\ x.refs = refs /\ x.ids = ids
      /\ x.free = m.free - Size[h] /\ x.spare = m.spare - Size[h]
      /\ x.freed = m.freed /\ x.freeable = m.freeable /\ x.allocated = m.allocated
    <2> DEFINE m1 == [m EXCEPT !.cached = m.cached \cup {h}]
               m2 == [m1 EXCEPT !.refs = [m1.refs EXCEPT ![h] = m1.refs[h] \cup {r}]]
               m3 == [m2 EXCEPT !.ids = [m2.ids EXCEPT ![r] = m2.ids[r] \cup {i}]]
               m4 == [m3 EXCEPT !.free = m3.free - Size[h]]
               m5 == [m4 EXCEPT !.spare = m4.spare - Size[h]]
    <2>1. x = m5
        BY DEF Allocate, Decoding
    <2> HIDE DEF x
    <2>2. /\ m1 \in Managers /\ m1.cached = m.cached \cup {h} /\ m1.freeable = m.freeable
          /\ m1.refs = m.refs /\ m1.ids = m.ids /\ m1.spare = m.spare
          /\ m1.freed = m.freed /\ m1.allocated = m.allocated /\ m1.free = m.free
        <3>1. m.cached \cup {h} \in SUBSET Hashes
            BY <1>1, <1>3
        <3> QED BY <1>2, <3>1, WithCached
    <2> HIDE DEF m1
    <2>3. /\ m2 \in Managers /\ m2.refs = refs /\ m2.freeable = m.freeable
          /\ m2.ids = m.ids /\ m2.spare = m.spare /\ m2.cached = m.cached \cup {h}
          /\ m2.freed = m.freed /\ m2.allocated = m.allocated /\ m2.free = m.free
        <3>1. refs \in [Hashes -> SUBSET Requests]
            BY <1>1, <1>2 DEF Managers
        <3>2. m2 = [m1 EXCEPT !.refs = refs]
            BY <2>2
        <3> HIDE DEF m2, refs
        <3> QED BY <2>2, <3>1, <3>2, WithRefs
    <2> HIDE DEF m2
    <2>4. /\ m3 \in Managers /\ m3.ids = ids /\ m3.refs = refs /\ m3.freeable = m.freeable
          /\ m3.spare = m.spare /\ m3.cached = m.cached \cup {h}
          /\ m3.freed = m.freed /\ m3.allocated = m.allocated /\ m3.free = m.free
        <3>1. ids \in [Requests -> SUBSET Nat]
            BY <1>1, <1>2 DEF Managers
        <3>2. m3 = [m2 EXCEPT !.ids = ids]
            BY <2>3
        <3> HIDE DEF m3, ids, refs
        <3> QED BY <2>3, <3>1, <3>2, WithIds
    <2> HIDE DEF m3, refs, ids
    <2>5. /\ m4 \in Managers /\ m4.free = m.free - Size[h] /\ m4.ids = ids /\ m4.refs = refs
          /\ m4.freeable = m.freeable /\ m4.spare = m.spare /\ m4.cached = m.cached \cup {h}
          /\ m4.freed = m.freed /\ m4.allocated = m.allocated
        <3>1. m3.free - Size[h] \in Int
            BY <1>1, <1>3, <2>4
        <3> QED BY <2>4, <3>1, WithFree
    <2> HIDE DEF m4
    <2>6. m4.spare - Size[h] \in Int
        BY <1>1, <1>3, <2>5
    <2> QED BY <2>1, <2>5, <2>6, WithSpare
<1> HIDE DEF x
<1>5. m.refs[h] = {} /\ refs[h] = {r} /\ \A g \in Hashes : g # h => refs[g] = m.refs[g]
    BY <1>1, <1>2 DEF Books, Managers
<1>6. \A q \in Requests : ids[q] = IF q = r THEN m.ids[q] \cup {i} ELSE m.ids[q]
    BY <1>2 DEF Managers
<1> HIDE DEF refs, ids
<1>7. Range(x.freeable) = {g \in x.cached : x.refs[g] = {}}
    <2>1. Range(m.freeable) = {g \in m.cached : m.refs[g] = {}}
        BY DEF Books
    <2> QED BY <1>3, <1>4, <1>5, <2>1
<1>8. /\ \A g \in Hashes : x.refs[g] \subseteq live
      /\ \A g \in Hashes \ x.cached : x.refs[g] = {}
    BY <1>4, <1>5 DEF Books
<1>9. \A q \in Requests : x.ids[q] \subseteq DOMAIN Features[q]
    <2> TAKE q \in Requests
    <2>1. m.ids[q] \subseteq DOMAIN Features[q] /\ x.ids[q] = ids[q]
        BY <1>4 DEF Books
    <2>2. CASE q = r
        BY <1>1, <1>6, <2>1, <2>2
    <2>3. CASE q # r
        BY <1>6, <2>1, <2>3
    <2> QED BY <2>2, <2>3
<1>10. ASSUME NEW g \in Hashes, NEW q \in x.refs[g] PROVE g \in HashesOf(q, x.ids[q])
    <2>1. q \in Requests
        BY <1>4, <1>10 DEF Managers
    <2>2. CASE g = h
        <3>1. q = r
            BY <1>4, <1>5, <1>10, <2>2
        <3> QED BY <1>4, <1>6, <2>1, <2>2, <3>1 DEF HashesOf
    <2>3. CASE g # h
        <3>1. g \in HashesOf(q, m.ids[q])
            BY <1>4, <1>5, <1>10, <2>3 DEF Books
        <3> QED BY <1>4, <1>6, <2>1, <3>1 DEF HashesOf
    <2> QED BY <2>2, <2>3
<1>11. /\ IsFiniteSet(x.cached) /\ Sizes(x.cached) <= CacheSize
       /\ x.free = CacheSize - Sizes(x.cached) /\ x.spare = x.free + Sizes(Range(x.freeable))
    <2>1. /\ m.free = CacheSize - Sizes(m.cached)
          /\ m.spare = m.free + Sizes(Range(m.freeable))
        BY DEF Books
    <2>2. IsFiniteSet(m.cached \cup {h}) /\ Sizes(m.cached \cup {h}) = Sizes(m.cached) + Size[h]
        BY <1>1, <1>3, SizesMore
    <2>3. Sizes(x.cached) = Sizes(m.cached) + Size[h]
        BY <1>4, <2>2
    <2>4. Sizes(Range(x.freeable)) = Sizes(Range(m.freeable))
        BY <1>4
    <2>5. IsFiniteSet(x.cached)
        BY <1>4, <2>2
    <2>6. x.free = CacheSize - Sizes(x.cached) /\ Sizes(x.cached) <= CacheSize
        BY <1>1, <1>3, <1>4, <2>1, <2>3
    <2>7. x.spare = x.free + Sizes(Range(x.freeable))
        BY <1>1, <1>3, <1>4, <2>1, <2>4
    <2> QED BY <2>5, <2>6, <2>7
<1>12. Books(x, live)
    <2>1. IsInjective(x.freeable) /\ x.allocated = {}
        BY <1>4 DEF Books
    <2> QED BY <1>4, <1>7, <1>8, <1>9, <1>10, <1>11, <2>1 DEF Books
<1> QED BY <1>4, <1>12 DEF x, refs

\* free_encoder_input
LEMMA FreeInputKept ==
    ASSUME Decoding, NEW live, NEW m, Books(m, live), NEW r \in Requests,
           NEW i \in DOMAIN Features[r]
    PROVE  LET x == FreeInput(m, r, i)
           IN  /\ Books(x, live)
               /\ x.cached = m.cached /\ x.freed = m.freed /\ x.free = m.free
               /\ x.refs = [m.refs EXCEPT ![HashOf(r, i)] = m.refs[HashOf(r, i)] \ {r}]
<1> DEFINE h == HashOf(r, i)
           x == FreeInput(m, r, i)
           last == m.refs[h] = {r}
           refs == [m.refs EXCEPT ![h] = m.refs[h] \ {r}]
           ids == [m.ids EXCEPT ![r] = m.ids[r] \ {i}]
           list == IF last THEN Append(m.freeable, h) ELSE m.freeable
           room == m.spare + (IF last THEN Size[h] ELSE 0)
<1>1. h \in Hashes /\ Size[h] \in Nat /\ i \in Nat
    BY SetUp
<1>2. m \in Managers /\ m.freeable \in Seq(Hashes) /\ IsInjective(m.freeable)
    BY DEF Books, Managers
<1>3. /\ IsFiniteSet(m.cached) /\ m.cached \subseteq Hashes
      /\ Range(m.freeable) \subseteq m.cached /\ IsFiniteSet(Range(m.freeable))
      /\ Sizes(Range(m.freeable)) \in Nat
      /\ m.free \in Nat /\ m.spare \in Nat /\ CacheSize \in Nat
    BY BooksFinite
<1>4. Range(m.freeable) = {g \in m.cached : m.refs[g] = {}}
    BY DEF Books
<1>5. last => h \in m.cached /\ h \notin Range(m.freeable)
    BY <1>1, <1>4 DEF Books
<1>6. /\ list \in Seq(Hashes) /\ IsInjective(list)
      /\ Range(list) = IF last THEN Range(m.freeable) \cup {h} ELSE Range(m.freeable)
    <2>1. CASE last
        <3>1. /\ Append(m.freeable, h) \in Seq(Hashes) /\ IsInjective(Append(m.freeable, h))
              /\ Range(Append(m.freeable, h)) = Range(m.freeable) \cup {h}
            BY <1>1, <1>2, <1>5, <2>1, InjectiveAppend
        <3> QED BY <2>1, <3>1
    <2>2. CASE ~last
        BY <1>2, <2>2
    <2> QED BY <2>1, <2>2
<1>7. room \in Int /\ room = m.free + Sizes(Range(list))
    <2>1. m.spare = m.free + Sizes(Range(m.freeable))
        BY DEF Books
    <2>2. CASE last
        <3>1. Range(m.freeable) \subseteq Hashes
            BY <1>3
        <3>2. Sizes(Range(m.freeable) \cup {h}) = Sizes(Range(m.freeable)) + Size[h]
            BY <1>1, <1>3, <1>5, <2>2, <3>1, SizesMore
        <3>3. Sizes(Range(list)) = Sizes(Range(m.freeable)) + Size[h]
            BY <1>6, <2>2, <3>2
        <3>4. room = m.spare + Size[h]
            BY <2>2
        <3> HIDE DEF room, list
        <3> QED BY <1>1, <1>3, <2>1, <3>3, <3>4
    <2>3. CASE ~last
        <3>1. list = m.freeable /\ room = m.spare
            BY <1>3, <2>3
        <3> QED BY <1>3, <2>1, <3>1
    <2> QED BY <2>2, <2>3
<1>8. /\ x \in Managers /\ x.refs = refs /\ x.ids = ids /\ x.freeable = list /\ x.spare = room
      /\ x.cached = m.cached /\ x.free = m.free /\ x.freed = m.freed
      /\ x.allocated = m.allocated
    <2> DEFINE m1 == [m EXCEPT !.ids = [m.ids EXCEPT ![r] = m.ids[r] \ {i}]]
               m2 == [m1 EXCEPT !.refs = [m1.refs EXCEPT ![h] = m1.refs[h] \ {r}]]
               m3 == [m2 EXCEPT !.freeable = IF last THEN Append(m2.freeable, h) ELSE m2.freeable]
               m4 == [m3 EXCEPT !.spare = m3.spare + (IF last THEN Size[h] ELSE 0)]
    <2>1. x = m4
        BY DEF FreeInput, Decoding, Frees
    <2> HIDE DEF x
    <2>2. /\ m1 \in Managers /\ m1.ids = ids /\ m1.freeable = m.freeable
          /\ m1.refs = m.refs /\ m1.cached = m.cached /\ m1.spare = m.spare
          /\ m1.freed = m.freed /\ m1.allocated = m.allocated /\ m1.free = m.free
        <3>1. ids \in [Requests -> SUBSET Nat]
            BY <1>2 DEF Managers
        <3>2. m1 = [m EXCEPT !.ids = ids]
            OBVIOUS
        <3> HIDE DEF m1, ids
        <3> QED BY <1>2, <3>1, <3>2, WithIds
    <2> HIDE DEF m1, ids
    <2>3. /\ m2 \in Managers /\ m2.refs = refs /\ m2.freeable = m.freeable
          /\ m2.ids = ids /\ m2.spare = m.spare /\ m2.cached = m.cached
          /\ m2.freed = m.freed /\ m2.allocated = m.allocated /\ m2.free = m.free
        <3>1. refs \in [Hashes -> SUBSET Requests]
            BY <1>1, <1>2 DEF Managers
        <3>2. m2 = [m1 EXCEPT !.refs = refs]
            BY <2>2
        <3> HIDE DEF m2, refs
        <3> QED BY <2>2, <3>1, <3>2, WithRefs
    <2> HIDE DEF m2, refs
    <2>4. (IF last THEN Append(m2.freeable, h) ELSE m2.freeable) = list
        BY <2>3
    <2>5. m3 = [m2 EXCEPT !.freeable = list]
        BY <2>4
    <2> HIDE DEF m3, list
    <2>6. /\ m3 \in Managers /\ m3.refs = refs /\ m3.freeable = list
          /\ m3.ids = ids /\ m3.spare = m.spare /\ m3.cached = m.cached
          /\ m3.freed = m.freed /\ m3.allocated = m.allocated /\ m3.free = m.free
        BY <1>6, <2>3, <2>5, WithFreeable
    <2>7. m3.spare + (IF last THEN Size[h] ELSE 0) = room
        BY <2>6
    <2>8. m4 = [m3 EXCEPT !.spare = room]
        BY <2>7
    <2> HIDE DEF m4, room, last
    <2> QED BY <1>7, <2>1, <2>6, <2>8, WithSpare
<1> HIDE DEF x, list, room
<1>9. refs[h] = m.refs[h] \ {r} /\ \A g \in Hashes : g # h => refs[g] = m.refs[g]
    BY <1>1, <1>2 DEF Managers
<1>10. \A q \in Requests : ids[q] = IF q = r THEN m.ids[q] \ {i} ELSE m.ids[q]
    BY <1>2 DEF Managers
<1> HIDE DEF refs, ids
<1>11. Range(x.freeable) = {g \in x.cached : x.refs[g] = {}}
    <2>1. \A g \in m.cached : refs[g] = {} <=> (m.refs[g] = {} \/ (g = h /\ last))
        BY <1>3, <1>9
    <2> QED BY <1>4, <1>5, <1>6, <1>8, <2>1
<1>12. /\ \A g \in Hashes : x.refs[g] \subseteq live
       /\ \A g \in Hashes \ x.cached : x.refs[g] = {}
    BY <1>8, <1>9 DEF Books
<1>13. \A q \in Requests : x.ids[q] \subseteq DOMAIN Features[q]
    BY <1>8, <1>10 DEF Books
<1>14. ASSUME NEW g \in Hashes, NEW q \in x.refs[g] PROVE g \in HashesOf(q, x.ids[q])
    <2>1. q \in Requests /\ q \in m.refs[g]
        BY <1>2, <1>8, <1>9, <1>14 DEF Managers
    <2>2. PICK j \in m.ids[q] : g = HashOf(q, j)
        BY <2>1 DEF Books, HashesOf
    <2>3. q = r => j # i
        BY <1>8, <1>9, <1>14, <2>2
    <2>4. j \in x.ids[q]
        BY <1>8, <1>10, <2>1, <2>3
    <2> QED BY <2>2, <2>4 DEF HashesOf
<1>15. Books(x, live)
    <2>1. /\ IsFiniteSet(x.cached) /\ Sizes(x.cached) <= CacheSize
          /\ x.free = CacheSize - Sizes(x.cached) /\ x.allocated = {}
        BY <1>8 DEF Books
    <2>2. x.spare = x.free + Sizes(Range(x.freeable)) /\ IsInjective(x.freeable)
        BY <1>6, <1>7, <1>8
    <2> QED BY <1>8, <1>11, <1>12, <1>13, <1>14, <2>1, <2>2 DEF Books
<1> QED BY <1>8, <1>15 DEF x, refs

\* The steps of a fold of FreeInput over the items of a request.
FreedItem(x, r, is, i) == IF i \in is THEN FreeInput(x, r, i) ELSE x
LEMMA FreeSteps ==
    ASSUME NEW base, NEW r, NEW is, NEW S, Items(r) \in Seq(S)
    PROVE  \E P : /\ P[0] = base /\ P[Len(Items(r))] = FreeInputs(base, r, is)
                  /\ \A i \in 1..Len(Items(r)) : P[i] = FreedItem(P[i - 1], r, is, Items(r)[i])
<1> DEFINE s == Items(r)
           n == Len(s)
           G(g, m) == g = [t \in SUBSET (1..m) |->
                             IF t = {} THEN base
                             ELSE FreedItem(g[t \ {Max(t)}], r, is, s[Max(t)])]
           Y == {m \in Nat : \E g : G(g, m)}
<1>1. Nat \subseteq Y
    <2>1. 0 \in Y
        <3>1. G([t \in SUBSET (1..0) |-> base], 0)
            OBVIOUS
        <3> QED BY <3>1
    <2>2. ASSUME NEW m \in Nat, m \in Y PROVE m + 1 \in Y
        <3>1. PICK g : G(g, m)
            BY <2>2
        <3> DEFINE h == [t \in SUBSET (1..(m + 1)) |->
                           IF t = {} THEN base
                           ELSE FreedItem(g[t \ {Max(t)}], r, is, s[Max(t)])]
        <3>2. \A t \in SUBSET (1..m) : h[t] = g[t]
            BY <3>1, Upto
        <3>3. \A t \in SUBSET (1..(m + 1)) : t # {} => t \ {Max(t)} \in SUBSET (1..m)
            BY MaxFacts
        <3>4. G(h, m + 1)
            BY <3>2, <3>3
        <3> HIDE DEF G, h
        <3> QED BY <3>4
    <2> HIDE DEF Y
    <2> QED BY <2>1, <2>2, SetInduction
<1> DEFINE iter == CHOOSE g : G(g, n)
<1>2. n \in Nat /\ DOMAIN s = 1..n
    OBVIOUS
<1>3. G(iter, n)
    BY <1>1, <1>2
<1>4. FreeInputs(base, r, is) = iter[1..n]
    BY <1>2 DEF FreeInputs, FreedItem, FoldLeft, MapThenFoldSet
<1> HIDE DEF iter
<1> DEFINE P == [k \in 0..n |-> iter[1..k]]
<1>5. P[0] = base
    BY <1>2, <1>3
<1>6. ASSUME NEW i \in 1..n PROVE P[i] = FreedItem(P[i - 1], r, is, s[i])
    <2>1. iter[1..i] = FreedItem(iter[1..(i - 1)], r, is, s[i])
        <3>1. /\ Max(1..i) = i /\ 1..i # {} /\ 1..i \in SUBSET (1..n)
              /\ (1..i) \ {i} = 1..(i - 1)
            BY <1>2, PrefixSets
        <3> QED BY <1>3, <3>1
    <2> QED BY <1>2, <2>1
<1>7. P[n] = FreeInputs(base, r, is)
    BY <1>2, <1>4
<1> HIDE DEF P
<1> QED BY <1>5, <1>6, <1>7

\* free, and _free_encoder_inputs: items of one request are given up.
LEMMA FreeInputsKept ==
    ASSUME Decoding, NEW live, NEW m, Books(m, live), NEW r \in Requests, NEW is
    PROVE  LET x == FreeInputs(m, r, is)
           IN  /\ Books(x, live)
               /\ x.cached = m.cached /\ x.freed = m.freed /\ x.free = m.free
               /\ \A h \in Hashes : /\ x.refs[h] \subseteq m.refs[h]
                                    /\ m.refs[h] \ {r} \subseteq x.refs[h]
               /\ \A i \in DOMAIN Features[r] \cap is : r \notin x.refs[HashOf(r, i)]
<1> DEFINE n == Len(Features[r])
           s == Items(r)
<1>1. /\ DOMAIN Features[r] = 1..n /\ n \in Nat
      /\ \A i \in DOMAIN Features[r] : HashOf(r, i) \in Hashes
    BY SetUp
<1>2. s \in Seq(Nat) /\ Len(s) = n /\ \A i \in 1..n : s[i] = i
    BY <1>1 DEF Items
<1> HIDE DEF s
<1>3. PICK P : /\ P[0] = m /\ P[Len(s)] = FreeInputs(m, r, is)
               /\ \A i \in 1..Len(s) : P[i] = FreedItem(P[i - 1], r, is, s[i])
    <2>1. Items(r) \in Seq(Nat)
        BY <1>2 DEF s
    <2>2. \E P : /\ P[0] = m /\ P[Len(Items(r))] = FreeInputs(m, r, is)
                 /\ \A i \in 1..Len(Items(r)) : P[i] = FreedItem(P[i - 1], r, is, Items(r)[i])
        BY <2>1, FreeSteps
    <2> QED BY <2>2 DEF s
<1> DEFINE Good(k) == k <= n =>
                        /\ Books(P[k], live)
                        /\ P[k].cached = m.cached /\ P[k].freed = m.freed /\ P[k].free = m.free
                        /\ \A h \in Hashes : /\ P[k].refs[h] \subseteq m.refs[h]
                                             /\ m.refs[h] \ {r} \subseteq P[k].refs[h]
                        /\ \A i \in (1..k) \cap is : r \notin P[k].refs[HashOf(r, i)]
           Y == {k \in Nat : Good(k)}
<1>4. Nat \subseteq Y
    <2>1. 0 \in Y
        BY <1>3
    <2>2. ASSUME NEW k \in Nat, k \in Y PROVE k + 1 \in Y
        <3> SUFFICES ASSUME k + 1 <= n PROVE Good(k + 1)
            OBVIOUS
        <3>1. k + 1 \in 1..n /\ (k + 1) - 1 = k /\ k <= n
            BY <1>1
        <3> DEFINE y == P[k]
                   x == P[k + 1]
                   i == k + 1
        <3>2. /\ Books(y, live)
              /\ y.cached = m.cached /\ y.freed = m.freed /\ y.free = m.free
              /\ \A h \in Hashes : /\ y.refs[h] \subseteq m.refs[h]
                                   /\ m.refs[h] \ {r} \subseteq y.refs[h]
              /\ \A j \in (1..k) \cap is : r \notin y.refs[HashOf(r, j)]
            BY <2>2, <3>1
        <3>3. x = FreedItem(y, r, is, i)
            BY <1>2, <1>3, <3>1
        <3> HIDE DEF x, y
        <3>4. CASE i \notin is
            <4>1. x = y
                BY <3>3, <3>4 DEF FreedItem
            <4>2. (1..i) \cap is = (1..k) \cap is
                BY <3>1, <3>4
            <4>3. \A j \in (1..i) \cap is : r \notin x.refs[HashOf(r, j)]
                BY <3>2, <4>1, <4>2
            <4> QED BY <3>2, <4>1, <4>3 DEF x
        <3>5. CASE i \in is
            <4>1. x = FreeInput(y, r, i)
                BY <3>3, <3>5 DEF FreedItem
            <4>2. i \in DOMAIN Features[r] /\ HashOf(r, i) \in Hashes
                BY <1>1, <3>1
            <4>3. /\ Books(x, live)
                  /\ x.cached = y.cached /\ x.freed = y.freed /\ x.free = y.free
                  /\ x.refs = [y.refs EXCEPT ![HashOf(r, i)] = y.refs[HashOf(r, i)] \ {r}]
                BY <3>2, <4>1, <4>2, FreeInputKept
            <4>4. DOMAIN y.refs = Hashes
                BY <3>2 DEF Books, Managers
            <4>5. \A h \in Hashes : /\ x.refs[h] \subseteq y.refs[h]
                                    /\ y.refs[h] \ {r} \subseteq x.refs[h]
                BY <4>3, <4>4
            <4>6. r \notin x.refs[HashOf(r, i)]
                BY <4>2, <4>3, <4>4
            <4>7. \A h \in Hashes : /\ x.refs[h] \subseteq m.refs[h]
                                    /\ m.refs[h] \ {r} \subseteq x.refs[h]
                BY <3>2, <4>5
            <4>8. ASSUME NEW j \in (1..i) \cap is PROVE r \notin x.refs[HashOf(r, j)]
                <5>1. j = i \/ j \in (1..k) \cap is
                    BY <3>1, <4>8
                <5>2. j \in (1..k) \cap is => HashOf(r, j) \in Hashes
                    BY <1>1, <3>1
                <5> QED BY <3>2, <4>5, <4>6, <5>1, <5>2
            <4> QED BY <3>2, <4>3, <4>7, <4>8 DEF x
        <3> QED BY <3>4, <3>5
    <2> HIDE DEF Y
    <2> QED BY <2>1, <2>2, SetInduction
<1>5. Good(n)
    BY <1>1, <1>4
<1> HIDE DEF n
<1>6. P[n] = FreeInputs(m, r, is)
    BY <1>2, <1>3
<1> QED BY <1>1, <1>5, <1>6

\* A request that gives everything up has no reference.
LEMMA FreeKept ==
    ASSUME Decoding, NEW live, NEW m, Books(m, live), NEW r \in Requests
    PROVE  LET x == Free(m, r)
           IN  /\ Books(x, live) /\ Books(x, live \ {r})
               /\ x.cached = m.cached /\ x.freed = m.freed /\ x.free = m.free
               /\ \A h \in Hashes : x.refs[h] = m.refs[h] \ {r}
<1> DEFINE x == Free(m, r)
<1>1. x = FreeInputs(m, r, m.ids[r])
    BY DEF Free, CachedIds, Decoding
<1> HIDE DEF x
<1>2. /\ Books(x, live)
      /\ x.cached = m.cached /\ x.freed = m.freed /\ x.free = m.free
      /\ \A h \in Hashes : /\ x.refs[h] \subseteq m.refs[h]
                           /\ m.refs[h] \ {r} \subseteq x.refs[h]
      /\ \A i \in DOMAIN Features[r] \cap m.ids[r] : r \notin x.refs[HashOf(r, i)]
    BY <1>1, FreeInputsKept
<1>3. ASSUME NEW h \in Hashes PROVE r \notin x.refs[h]
    <2> SUFFICES ASSUME r \in x.refs[h] PROVE FALSE
        OBVIOUS
    <2>1. PICK i \in m.ids[r] : h = HashOf(r, i)
        BY <1>2 DEF Books, HashesOf
    <2>2. i \in DOMAIN Features[r]
        BY DEF Books
    <2> QED BY <1>2, <2>1, <2>2
<1>4. \A h \in Hashes : x.refs[h] = m.refs[h] \ {r}
    BY <1>2, <1>3
<1>5. \A h \in Hashes : x.refs[h] \subseteq live \ {r}
    BY <1>2, <1>3 DEF Books
<1>6. Books(x, live \ {r})
    BY <1>2, <1>5 DEF Books
<1> QED BY <1>2, <1>4, <1>6 DEF x

\* x is the manager m when r has given up its references.
GivenUp(x, m, live, r) ==
    /\ Books(x, live) /\ Books(x, live \ {r})
    /\ x.cached = m.cached /\ x.freed = m.freed /\ x.free = m.free
    /\ \A h \in Hashes : x.refs[h] = m.refs[h] \ {r}

LEMMA FreeGivesUp ==
    ASSUME Decoding, NEW live, NEW m, Books(m, live), NEW r \in Requests
    PROVE  GivenUp(Free(m, r), m, live, r)
BY FreeKept DEF GivenUp

-----------------------------------------------------------------------------
(* The items planned for a request are allocated.                          *)

LEMMA AllocateSteps ==
    ASSUME NEW base, NEW r, NEW S, NEW s \in Seq(S)
    PROVE  \E P : /\ P[0] = base /\ P[Len(s)] = AllocateAll(base, r, s)
                  /\ \A i \in 1..Len(s) : P[i] = Allocate(P[i - 1], r, s[i])
<1> DEFINE n == Len(s)
           G(g, m) == g = [t \in SUBSET (1..m) |->
                             IF t = {} THEN base ELSE Allocate(g[t \ {Max(t)}], r, s[Max(t)])]
           Y == {m \in Nat : \E g : G(g, m)}
<1>1. Nat \subseteq Y
    <2>1. 0 \in Y
        <3>1. G([t \in SUBSET (1..0) |-> base], 0)
            OBVIOUS
        <3> QED BY <3>1
    <2>2. ASSUME NEW m \in Nat, m \in Y PROVE m + 1 \in Y
        <3>1. PICK g : G(g, m)
            BY <2>2
        <3> DEFINE h == [t \in SUBSET (1..(m + 1)) |->
                           IF t = {} THEN base ELSE Allocate(g[t \ {Max(t)}], r, s[Max(t)])]
        <3>2. \A t \in SUBSET (1..m) : h[t] = g[t]
            BY <3>1, Upto
        <3>3. \A t \in SUBSET (1..(m + 1)) : t # {} => t \ {Max(t)} \in SUBSET (1..m)
            BY MaxFacts
        <3>4. G(h, m + 1)
            BY <3>2, <3>3
        <3> HIDE DEF G, h
        <3> QED BY <3>4
    <2> HIDE DEF Y
    <2> QED BY <2>1, <2>2, SetInduction
<1> DEFINE iter == CHOOSE g : G(g, n)
<1>2. n \in Nat /\ DOMAIN s = 1..n
    OBVIOUS
<1>3. G(iter, n)
    BY <1>1, <1>2
<1>4. AllocateAll(base, r, s) = iter[1..n]
    BY <1>2 DEF AllocateAll, FoldLeft, MapThenFoldSet
<1> HIDE DEF iter
<1> DEFINE P == [k \in 0..n |-> iter[1..k]]
<1>5. P[0] = base
    BY <1>2, <1>3
<1>6. ASSUME NEW i \in 1..n PROVE P[i] = Allocate(P[i - 1], r, s[i])
    <2>1. iter[1..i] = Allocate(iter[1..(i - 1)], r, s[i])
        <3>1. /\ Max(1..i) = i /\ 1..i # {} /\ 1..i \in SUBSET (1..n)
              /\ (1..i) \ {i} = 1..(i - 1)
            BY <1>2, PrefixSets
        <3> QED BY <1>3, <3>1
    <2> QED BY <1>2, <2>1
<1>7. P[n] = AllocateAll(base, r, s)
    BY <1>2, <1>4
<1> HIDE DEF P
<1> QED BY <1>5, <1>6, <1>7

LEMMA AllocateAllKept ==
    ASSUME Decoding, NEW live, NEW m, Books(m, live), NEW r \in Requests, r \in live,
           NEW is, RoomFor(m, r, is)
    PROVE  LET x == AllocateAll(m, r, is)
           IN  /\ Books(x, live)
               /\ x.cached = m.cached \cup HashesOf(r, Range(is)) /\ x.freed = m.freed
               /\ \A h \in Hashes : m.refs[h] \subseteq x.refs[h]
               /\ \A h \in HashesOf(r, Range(is)) : r \in x.refs[h]
<1> DEFINE n == Len(is)
           first(k) == {HashOf(r, is[j]) : j \in 1..k}
           all == HashesOf(r, Range(is))
<1>1. /\ is \in Seq(DOMAIN Features[r]) /\ n \in Nat /\ DOMAIN is = 1..n
      /\ \A j \in 1..n : is[j] \in DOMAIN Features[r] /\ HashOf(r, is[j]) \in Hashes
    <2>1. is \in Seq(DOMAIN Features[r])
        BY DEF RoomFor
    <2>2. n \in Nat /\ DOMAIN is = 1..n /\ \A j \in 1..n : is[j] \in DOMAIN Features[r]
        BY <2>1
    <2> QED BY <2>1, <2>2, SetUp
<1>2. all = first(n) /\ all \subseteq Hashes /\ \A k \in 0..n : first(k) \subseteq all
    <2>1. all = first(n)
        BY <1>1 DEF HashesOf, Range
    <2>2. \A k \in 0..n : \A j \in 1..k : j \in 1..n
        BY <1>1
    <2> QED BY <1>1, <2>1, <2>2
<1>3. PICK P : /\ P[0] = m /\ P[n] = AllocateAll(m, r, is)
               /\ \A i \in 1..n : P[i] = Allocate(P[i - 1], r, is[i])
    BY <1>1, AllocateSteps
<1> DEFINE Good(k) == k <= n =>
                        /\ Books(P[k], live) /\ P[k].freed = m.freed
                        /\ P[k].cached = m.cached \cup first(k)
                        /\ IsFiniteSet(first(k)) /\ P[k].free = m.free - Sizes(first(k))
                        /\ \A h \in Hashes : m.refs[h] \subseteq P[k].refs[h]
                        /\ \A h \in first(k) : r \in P[k].refs[h]
           Y == {k \in Nat : Good(k)}
<1>4. Nat \subseteq Y
    <2>1. 0 \in Y
        <3>1. first(0) = {}
            OBVIOUS
        <3>2. m.free \in Nat
            BY BooksFinite
        <3> HIDE DEF first
        <3>3. m.free = m.free - Sizes(first(0)) /\ IsFiniteSet(first(0))
            BY <3>1, <3>2, SizesNone
        <3> QED BY <1>3, <3>1, <3>3
    <2>2. ASSUME NEW k \in Nat, k \in Y PROVE k + 1 \in Y
        <3> SUFFICES ASSUME k + 1 <= n PROVE Good(k + 1)
            OBVIOUS
        <3> DEFINE i == k + 1
                   y == P[k]
                   x == P[i]
                   h == HashOf(r, is[i])
        <3>1. i \in 1..n /\ i - 1 = k /\ k <= n /\ k \in 0..n /\ i \in 0..n
            BY <1>1
        <3>2. first(i) = first(k) \cup {h}
            <4>1. \A j \in 1..i : j \in 1..k \/ j = i
                BY <3>1
            <4>2. i \in 1..i /\ \A j \in 1..k : j \in 1..i
                BY <3>1
            <4> QED BY <4>1, <4>2
        <3>3. h \notin first(k)
            <4>1. \A j \in 1..k : j \in DOMAIN is /\ i \in DOMAIN is /\ j # i
                BY <1>1, <3>1
            <4> QED BY <4>1 DEF RoomFor
        <3>4. first(i) \subseteq all /\ first(k) \subseteq all
            BY <1>2, <3>1
        <3>5. x = Allocate(y, r, is[i])
            BY <1>3, <3>1
        <3>6. /\ Books(y, live) /\ y.freed = m.freed
              /\ y.cached = m.cached \cup first(k)
              /\ IsFiniteSet(first(k)) /\ y.free = m.free - Sizes(first(k))
              /\ \A g \in Hashes : m.refs[g] \subseteq y.refs[g]
              /\ \A g \in first(k) : r \in y.refs[g]
            BY <2>2, <3>1
        <3>7. is[i] \in DOMAIN Features[r] /\ h \in Hashes /\ h \in all
            BY <1>1, <3>1, <3>2, <3>4
        <3> HIDE DEF x, y, all, first
        <3>8. all \cap m.cached = {} /\ Sizes(all) <= m.free
            BY DEF RoomFor, all
        <3>9. h \notin y.cached
            BY <3>3, <3>6, <3>7, <3>8
        <3>10. /\ IsFiniteSet(first(i)) /\ Sizes(first(i)) = Sizes(first(k)) + Size[h]
               /\ Sizes(first(k)) \in Nat /\ Size[h] \in Nat
            <4>1. first(k) \subseteq Hashes /\ IsFiniteSet(first(k))
                BY <1>2, <3>4, <3>6 DEF all
            <4>2. IsFiniteSet(first(k) \cup {h}) /\ Sizes(first(k) \cup {h}) = Sizes(first(k)) + Size[h]
                BY <3>3, <3>7, <4>1, SizesMore
            <4>3. Sizes(first(k)) \in Nat /\ Size[h] \in Nat
                BY <3>7, <4>1, SizesOne, SlotsFinite
            <4> QED BY <3>2, <4>2, <4>3
        <3>11. IsFiniteSet(all)
            <4>1. Range(is) \subseteq DOMAIN Features[r]
                BY <1>1 DEF Range
            <4> QED BY <4>1, ItemsFinite DEF all
        <3>12. Sizes(first(i)) <= Sizes(all) /\ Sizes(all) \in Nat /\ m.free \in Nat
            BY <1>2, <3>4, <3>11, SizesPart, SlotsFinite, BooksFinite DEF all
        <3>13. Size[h] <= y.free /\ y.free - Size[h] = m.free - Sizes(first(i))
            BY <3>6, <3>8, <3>10, <3>12
        <3>14. /\ Books(x, live)
               /\ x.cached = y.cached \cup {h} /\ x.freed = y.freed
               /\ x.free = y.free - Size[h]
               /\ x.refs = [y.refs EXCEPT ![h] = y.refs[h] \cup {r}]
            BY <3>5, <3>6, <3>7, <3>9, <3>13, AllocateKept
        <3>15. DOMAIN y.refs = Hashes
            BY <3>6 DEF Books, Managers
        <3>16. /\ \A g \in Hashes : m.refs[g] \subseteq x.refs[g]
               /\ \A g \in first(i) : r \in x.refs[g]
            <4>1. first(k) \subseteq Hashes
                BY <1>2, <3>4 DEF all
            <4> QED BY <3>2, <3>6, <3>7, <3>14, <3>15, <4>1
        <3>17. x.cached = m.cached \cup first(i)
            BY <3>2, <3>6, <3>14
        <3> QED BY <3>6, <3>10, <3>13, <3>14, <3>16, <3>17 DEF x
    <2> HIDE DEF Y
    <2> QED BY <2>1, <2>2, SetInduction
<1>5. Good(n)
    BY <1>1, <1>4
<1> HIDE DEF all, first, n
<1>6. n <= n
    BY <1>1
<1> QED BY <1>2, <1>3, <1>5, <1>6 DEF all

-----------------------------------------------------------------------------
(* _try_schedule_encoder_inputs.                                           *)

Plans == [m : Managers, n : Nat, inputs : Seq(Nat), budget : Int, planned : Nat,
          stopped : BOOLEAN]

TriedItem(acc, r, i, c, items) == IF i \in items THEN PlanItem(acc, r, i, c) ELSE acc
TryAll(base, r, c, items) ==
    FoldLeft(LAMBDA acc, i : IF i \in items THEN PlanItem(acc, r, i, c) ELSE acc, base, Items(r))

LEMMA TrySteps ==
    ASSUME NEW base, NEW r, NEW c, NEW items, NEW S, Items(r) \in Seq(S)
    PROVE  \E P : /\ P[0] = base /\ P[Len(Items(r))] = TryAll(base, r, c, items)
                  /\ \A i \in 1..Len(Items(r)) : P[i] = TriedItem(P[i - 1], r, Items(r)[i], c, items)
<1> DEFINE s == Items(r)
           n == Len(s)
           G(g, m) == g = [t \in SUBSET (1..m) |->
                             IF t = {} THEN base
                             ELSE TriedItem(g[t \ {Max(t)}], r, s[Max(t)], c, items)]
           Y == {m \in Nat : \E g : G(g, m)}
<1>1. Nat \subseteq Y
    <2>1. 0 \in Y
        <3>1. G([t \in SUBSET (1..0) |-> base], 0)
            OBVIOUS
        <3> QED BY <3>1
    <2>2. ASSUME NEW m \in Nat, m \in Y PROVE m + 1 \in Y
        <3>1. PICK g : G(g, m)
            BY <2>2
        <3> DEFINE h == [t \in SUBSET (1..(m + 1)) |->
                           IF t = {} THEN base
                           ELSE TriedItem(g[t \ {Max(t)}], r, s[Max(t)], c, items)]
        <3>2. \A t \in SUBSET (1..m) : h[t] = g[t]
            BY <3>1, Upto
        <3>3. \A t \in SUBSET (1..(m + 1)) : t # {} => t \ {Max(t)} \in SUBSET (1..m)
            BY MaxFacts
        <3>4. G(h, m + 1)
            BY <3>2, <3>3
        <3> HIDE DEF G, h
        <3> QED BY <3>4
    <2> HIDE DEF Y
    <2> QED BY <2>1, <2>2, SetInduction
<1> DEFINE iter == CHOOSE g : G(g, n)
<1>2. n \in Nat /\ DOMAIN s = 1..n
    OBVIOUS
<1>3. G(iter, n)
    BY <1>1, <1>2
<1>4. TryAll(base, r, c, items) = iter[1..n]
    BY <1>2 DEF TryAll, TriedItem, FoldLeft, MapThenFoldSet
<1> HIDE DEF iter
<1> DEFINE P == [k \in 0..n |-> iter[1..k]]
<1>5. P[0] = base
    BY <1>2, <1>3
<1>6. ASSUME NEW i \in 1..n PROVE P[i] = TriedItem(P[i - 1], r, s[i], c, items)
    <2>1. iter[1..i] = TriedItem(iter[1..(i - 1)], r, s[i], c, items)
        <3>1. /\ Max(1..i) = i /\ 1..i # {} /\ 1..i \in SUBSET (1..n)
              /\ (1..i) \ {i} = 1..(i - 1)
            BY <1>2, PrefixSets
        <3> QED BY <1>3, <3>1
    <2> QED BY <1>2, <2>1
<1>7. P[n] = TryAll(base, r, c, items)
    BY <1>2, <1>4
<1> HIDE DEF P
<1> QED BY <1>5, <1>6, <1>7


\* What acc is when the items up to the k-th have been tried.
Evicted(old, new) ==
    \E gone : /\ gone \subseteq old.cached
              /\ new.cached = old.cached \ gone /\ new.freed = old.freed \cup gone
Tried(acc, base, live, r, c, n, k) ==
    /\ acc \in Plans /\ Books(acc.m, live) /\ RoomFor(acc.m, r, acc.inputs)
    /\ acc.planned = Sizes(HashesOf(r, Range(acc.inputs)))
    /\ Evicted(base, acc.m)
    /\ \A h \in Hashes : base.refs[h] \subseteq acc.m.refs[h]
    /\ acc.n <= n /\ (acc.stopped \/ acc.n = n)
    /\ acc.n # 0 => \A i \in Window(r, c, c + acc.n) :
                        acc.stopped \/ i <= k => Covered(acc.m, r, acc.inputs, i)

LEMMA TriedNext ==
    ASSUME Decoding, NEW a, NEW base, NEW live, NEW r \in Requests, NEW c \in Nat, NEW n \in Nat,
           NEW k \in Nat, Tried(a, base, live, r, c, n, k), k + 1 \in DOMAIN Features[r],
           a.stopped \/ k + 1 \notin Window(r, c, c + a.n) \/ Covered(a.m, r, a.inputs, k + 1)
    PROVE  Tried(a, base, live, r, c, n, k + 1)
<1>1. \A i \in Window(r, c, c + a.n) : i <= k + 1 => i <= k \/ i = k + 1
    BY SetUp DEF Window
<1>2. ASSUME a.n # 0, NEW i \in Window(r, c, c + a.n), a.stopped \/ i <= k + 1
      PROVE  Covered(a.m, r, a.inputs, i)
    <2>1. a.stopped \/ i <= k => Covered(a.m, r, a.inputs, i)
        BY <1>2 DEF Tried
    <2> QED BY <1>1, <1>2, <2>1
<1> QED BY <1>2 DEF Tried

WithManager(a, y) == [a EXCEPT !.m = y]

\* References taken, or entries evicted, without a loss of room.
LEMMA TriedManager ==
    ASSUME Decoding, NEW a, NEW base, NEW live, NEW r \in Requests, NEW c \in Nat, NEW n \in Nat,
           NEW k \in Nat, Tried(a, base, live, r, c, n, k), NEW y, Books(y, live),
           NEW m, m = a.m, Evicted(m, y), y.free >= m.free,
           \A h \in Hashes : m.refs[h] \subseteq y.refs[h]
    PROVE  LET x == WithManager(a, y)
           IN  /\ Tried(x, base, live, r, c, n, k)
               /\ x.m = y /\ x.n = a.n /\ x.inputs = a.inputs /\ x.stopped = a.stopped
               /\ x.planned = a.planned /\ x.budget = a.budget
<1> DEFINE x == WithManager(a, y)
<1>1. a \in Plans /\ y \in Managers
    BY DEF Tried, Books
<1>2. /\ x \in Plans /\ x.m = y /\ x.n = a.n /\ x.inputs = a.inputs /\ x.stopped = a.stopped
      /\ x.planned = a.planned /\ x.budget = a.budget
    BY <1>1 DEF Plans, WithManager
<1> HIDE DEF x
<1>3. Evicted(base, y)
    <2>1. PICK g1 : /\ g1 \subseteq base.cached
                    /\ a.m.cached = base.cached \ g1 /\ a.m.freed = base.freed \cup g1
        BY DEF Tried, Evicted
    <2>2. PICK g2 : /\ g2 \subseteq a.m.cached
                    /\ y.cached = a.m.cached \ g2 /\ y.freed = a.m.freed \cup g2
        BY DEF Evicted
    <2>3. /\ g1 \cup g2 \subseteq base.cached
          /\ y.cached = base.cached \ (g1 \cup g2) /\ y.freed = base.freed \cup (g1 \cup g2)
        BY <2>1, <2>2
    <2> QED BY <2>3 DEF Evicted
<1>4. RoomFor(y, r, a.inputs)
    <2>1. y.cached \subseteq a.m.cached
        BY DEF Evicted
    <2>2. Range(a.inputs) \subseteq DOMAIN Features[r] /\ RoomFor(a.m, r, a.inputs)
        BY DEF Tried, RoomFor, Range
    <2>3. Sizes(HashesOf(r, Range(a.inputs))) \in Nat
        BY <2>2, ItemsFinite
    <2>4. a.m.free \in Nat /\ y.free \in Nat
        BY BooksFinite DEF Tried
    <2>5. Sizes(HashesOf(r, Range(a.inputs))) <= y.free
        BY <2>2, <2>3, <2>4 DEF RoomFor
    <2> QED BY <2>1, <2>2, <2>5 DEF RoomFor
<1>5. \A h \in Hashes : base.refs[h] \subseteq y.refs[h]
    BY DEF Tried
<1>6. ASSUME a.n # 0, NEW i \in Window(r, c, c + a.n), a.stopped \/ i <= k
      PROVE  Covered(y, r, a.inputs, i)
    <2>1. Covered(a.m, r, a.inputs, i)
        BY <1>6 DEF Tried
    <2>2. HashOf(r, i) \in Hashes
        BY SetUp DEF Window
    <2> QED BY <2>1, <2>2 DEF Covered
<1>7. /\ a.planned = Sizes(HashesOf(r, Range(a.inputs)))
      /\ a.n <= n /\ (a.stopped \/ a.n = n)
    BY DEF Tried
<1> QED BY <1>2, <1>3, <1>4, <1>5, <1>6, <1>7 DEF Tried, x

\* No token at or after the (k+1)-th item.
LEMMA TriedStop ==
    ASSUME Decoding, NEW a, NEW base, NEW live, NEW r \in Requests, NEW c \in Nat, NEW n \in Nat,
           NEW k \in Nat, Tried(a, base, live, r, c, n, k), k + 1 \in DOMAIN Features[r],
           ~a.stopped, NEW q \in Nat, q <= n, q = 0 \/ c + q <= From(r, k + 1)
    PROVE  Tried(Stop(a, q), base, live, r, c, n, k + 1)
<1> DEFINE x == Stop(a, q)
           i == k + 1
<1>1. a \in Plans
    BY DEF Tried
<1>2. /\ x \in Plans /\ x.m = a.m /\ x.n = q /\ x.inputs = a.inputs /\ x.stopped = TRUE
      /\ x.planned = a.planned /\ x.budget = a.budget
    BY <1>1 DEF Plans, Stop
<1> HIDE DEF x
<1>3. ASSUME q # 0, NEW j \in Window(r, c, c + q) PROVE Covered(a.m, r, a.inputs, j)
    <2>1. /\ j \in DOMAIN Features[r] /\ j \in Nat /\ From(r, j) < c + q /\ To(r, j) > c
          /\ From(r, j) \in Nat /\ From(r, i) \in Nat
        BY SetUp DEF Window
    <2>2. j <= k
        <3>1. i < j => From(r, i) <= From(r, j)
            BY <2>1, SetUp
        <3>2. j # i /\ ~(i < j)
            BY <1>3, <2>1, <3>1
        <3> QED BY <2>1, <3>2
    <2>3. a.n = n
        BY DEF Tried
    <2>4. j \in Window(r, c, c + a.n) /\ a.n # 0
        BY <1>3, <2>1, <2>3 DEF Window
    <2> QED BY <2>2, <2>4 DEF Tried
<1>4. /\ Books(a.m, live) /\ RoomFor(a.m, r, a.inputs)
      /\ a.planned = Sizes(HashesOf(r, Range(a.inputs)))
      /\ Evicted(base, a.m) /\ \A h \in Hashes : base.refs[h] \subseteq a.m.refs[h]
    BY DEF Tried
<1> QED BY <1>2, <1>3, <1>4 DEF Tried, x

WithPlan(a, p, b, s) == [a EXCEPT !.planned = p, !.budget = b, !.inputs = s]

LEMMA WithInput ==
    ASSUME NEW a \in Plans, NEW p \in Nat, NEW b \in Int, NEW s \in Seq(Nat)
    PROVE  LET x == WithPlan(a, p, b, s)
           IN  /\ x \in Plans /\ x.m = a.m /\ x.n = a.n /\ x.inputs = s
               /\ x.stopped = a.stopped /\ x.planned = p
<1> DEFINE x1 == [a EXCEPT !.planned = p]
           x2 == [x1 EXCEPT !.budget = b]
           x == [x2 EXCEPT !.inputs = s]
<1>1. /\ x1 \in Plans /\ x1.m = a.m /\ x1.n = a.n
      /\ x1.stopped = a.stopped /\ x1.planned = p
    BY DEF Plans
<1> HIDE DEF x1
<1>2. /\ x2 \in Plans /\ x2.m = a.m /\ x2.n = a.n
      /\ x2.stopped = a.stopped /\ x2.planned = p
    BY <1>1 DEF Plans
<1> HIDE DEF x2
<1>3. /\ x \in Plans /\ x.m = a.m /\ x.n = a.n /\ x.inputs = s
      /\ x.stopped = a.stopped /\ x.planned = p
    BY <1>2 DEF Plans
<1> QED BY <1>3 DEF x1, x2, WithPlan

\* The (k+1)-th item is planned.
LEMMA TriedInput ==
    ASSUME Decoding, NEW a, NEW base, NEW live, NEW r \in Requests, NEW c \in Nat, NEW n \in Nat,
           NEW k \in Nat, Tried(a, base, live, r, c, n, k), k + 1 \in DOMAIN Features[r],
           HashOf(r, k + 1) \notin a.m.cached,
           HashOf(r, k + 1) \notin HashesOf(r, Range(a.inputs)),
           Size[HashOf(r, k + 1)] + a.planned <= a.m.free
    PROVE  Tried([a EXCEPT !.planned = a.planned + Size[HashOf(r, k + 1)],
                           !.budget = a.budget - Size[HashOf(r, k + 1)],
                           !.inputs = Append(a.inputs, k + 1)], base, live, r, c, n, k + 1)
<1> DEFINE i == k + 1
           h == HashOf(r, i)
           is == Append(a.inputs, i)
           p == a.planned + Size[h]
           b == a.budget - Size[h]
           x == [a EXCEPT !.planned = p, !.budget = b, !.inputs = is]
           D == DOMAIN Features[r]
<1>1. /\ a \in Plans /\ Books(a.m, live) /\ RoomFor(a.m, r, a.inputs)
      /\ a.planned = Sizes(HashesOf(r, Range(a.inputs)))
    BY DEF Tried
<1>2. h \in Hashes /\ Size[h] \in Nat /\ i \in D /\ i \in Nat
    BY SetUp
<1>3. /\ is \in Seq(Nat) /\ a.inputs \in Seq(Nat) /\ a.budget \in Int /\ a.planned \in Nat
    BY <1>1, <1>2 DEF Plans
<1>4. /\ x \in Plans /\ x.m = a.m /\ x.n = a.n /\ x.inputs = is /\ x.stopped = a.stopped
      /\ x.planned = a.planned + Size[h]
    <2>1. p \in Nat /\ b \in Int
        BY <1>2, <1>3
    <2> HIDE DEF is, p, b, h
    <2>2. /\ x \in Plans /\ x.m = a.m /\ x.n = a.n /\ x.inputs = is
          /\ x.stopped = a.stopped /\ x.planned = p
        <3>1. x = WithPlan(a, p, b, is)
            BY DEF WithPlan
        <3> HIDE DEF x
        <3> QED BY <1>1, <1>3, <2>1, <3>1, WithInput
    <2> QED BY <2>2 DEF p
<1>5. a.inputs \in Seq(D) /\ is \in Seq(D) /\ Range(is) = Range(a.inputs) \cup {i}
    <2>1. a.inputs \in Seq(D)
        BY <1>1 DEF RoomFor
    <2> HIDE DEF is, D
    <2> QED BY <1>2, <2>1, InjectiveAppend DEF is
<1>6. HashesOf(r, Range(is)) = HashesOf(r, Range(a.inputs)) \cup {h}
    BY <1>5 DEF HashesOf
<1>7. Sizes(HashesOf(r, Range(is))) = a.planned + Size[h]
    <2>1. Range(a.inputs) \subseteq D
        BY <1>5 DEF Range
    <2>2. HashesOf(r, Range(a.inputs)) \subseteq Hashes /\ IsFiniteSet(HashesOf(r, Range(a.inputs)))
        BY <2>1, ItemsFinite
    <2>3. h \notin HashesOf(r, Range(a.inputs))
        OBVIOUS
    <2> HIDE DEF h
    <2> QED BY <1>1, <1>2, <1>6, <2>2, <2>3, SizesMore
<1> HIDE DEF x
<1>8. RoomFor(a.m, r, is)
    <2>1. \A j, l \in DOMAIN is : HashOf(r, is[j]) = HashOf(r, is[l]) => j = l
        <3> DEFINE m == Len(a.inputs)
        <3>1. /\ m \in Nat /\ DOMAIN a.inputs = 1..m /\ DOMAIN is = 1..(m + 1)
              /\ is[m + 1] = i /\ \A j \in 1..m : is[j] = a.inputs[j]
            BY <1>3
        <3>2. \A j, l \in 1..m : HashOf(r, a.inputs[j]) = HashOf(r, a.inputs[l]) => j = l
            BY <1>1, <3>1 DEF RoomFor
        <3>3. \A j \in 1..m : HashOf(r, a.inputs[j]) # h
            BY <3>1 DEF HashesOf, Range
        <3>4. \A j \in 1..(m + 1) : j \in 1..m \/ j = m + 1
            BY <3>1
        <3> HIDE DEF is, m
        <3> QED BY <3>1, <3>2, <3>3, <3>4
    <2>2. HashesOf(r, Range(is)) \cap a.m.cached = {}
        BY <1>1, <1>6 DEF RoomFor
    <2>3. a.planned + Size[h] <= a.m.free
        <3>1. a.m.free \in Nat
            BY <1>1, BooksFinite
        <3> QED BY <1>2, <1>3, <3>1
    <2> QED BY <1>5, <1>7, <2>1, <2>2, <2>3 DEF RoomFor
<1>9. ASSUME a.n # 0, NEW j \in Window(r, c, c + a.n), a.stopped \/ j <= i
      PROVE  Covered(a.m, r, is, j)
    <2>1. j \in Nat /\ (j <= i => j <= k \/ j = i)
        BY SetUp DEF Window
    <2>2. CASE j = i
        BY <1>6, <2>2 DEF Covered
    <2>3. CASE j # i
        <3>1. Covered(a.m, r, a.inputs, j)
            BY <1>9, <2>1, <2>3 DEF Tried
        <3> QED BY <1>6, <3>1 DEF Covered
    <2> QED BY <2>2, <2>3
<1>10. /\ Evicted(base, a.m) /\ \A g \in Hashes : base.refs[g] \subseteq a.m.refs[g]
       /\ a.n <= n /\ (a.stopped \/ a.n = n)
    BY DEF Tried
<1> QED BY <1>1, <1>4, <1>7, <1>8, <1>9, <1>10 DEF Tried, x

LEMMA OfTwo ==
    ASSUME NEW a \in Int, NEW b \in Int
    PROVE  /\ Max({a, b}) = IF a >= b THEN a ELSE b
           /\ Min({a, b}) = IF a <= b THEN a ELSE b
<1>1. \E x \in {a, b} : \A y \in {a, b} : x >= y
    OBVIOUS
<1>2. Max({a, b}) \in {a, b} /\ \A y \in {a, b} : Max({a, b}) >= y
    BY <1>1 DEF Max
<1>3. \E x \in {a, b} : \A y \in {a, b} : x <= y
    OBVIOUS
<1>4. Min({a, b}) \in {a, b} /\ \A y \in {a, b} : Min({a, b}) <= y
    BY <1>3 DEF Min
<1> QED BY <1>2, <1>4

LEMMA TriedItemKept ==
    ASSUME Decoding, NEW a, NEW base, NEW live, NEW r \in Requests, r \in live, NEW c \in Nat,
           NEW n \in Nat, n # 0, NEW k \in Nat, Tried(a, base, live, r, c, n, k),
           k + 1 \in DOMAIN Features[r]
    PROVE  Tried(TriedItem(a, r, k + 1, c, Window(r, c, c + n + Shift)), base, live, r, c, n, k + 1)
<1> DEFINE i == k + 1
           h == HashOf(r, i)
           items == Window(r, c, c + n + Shift)
           x == TriedItem(a, r, i, c, items)
           Goal == Tried(x, base, live, r, c, n, i)
<1>1. /\ a \in Plans /\ Books(a.m, live) /\ RoomFor(a.m, r, a.inputs)
      /\ a.planned = Sizes(HashesOf(r, Range(a.inputs)))
      /\ a.n \in Nat /\ a.n <= n /\ (a.stopped \/ a.n = n) /\ a.stopped \in BOOLEAN
      /\ a.planned \in Nat /\ a.budget \in Int /\ a.m.free \in Nat /\ a.m.spare \in Nat
    <2>1. a \in Plans /\ Books(a.m, live)
        BY DEF Tried
    <2>2. a.n \in Nat /\ a.stopped \in BOOLEAN /\ a.planned \in Nat /\ a.budget \in Int
        BY <2>1 DEF Plans
    <2>3. a.m.free \in Nat /\ a.m.spare \in Nat
        BY <2>1, BooksFinite
    <2> QED BY <2>1, <2>2, <2>3 DEF Tried
<1>2. /\ h \in Hashes /\ Size[h] \in Nat \ {0} /\ From(r, i) \in Nat /\ i \in Nat
      /\ To(r, i) = From(r, i) + Size[h] /\ To(r, i) \in Nat /\ Shift \in {0, 1}
    BY SetUp
<1>3. ~EncDec
    BY DEF Decoding
<1>4. CASE i \notin items \/ a.stopped
    <2>1. x = a
        BY <1>3, <1>4 DEF TriedItem, PlanItem
    <2>2. i \notin items => i \notin Window(r, c, c + a.n)
        BY <1>1, <1>2 DEF Window
    <2> HIDE DEF items
    <2>3. Tried(a, base, live, r, c, n, i)
        BY <1>4, <2>2, TriedNext
    <2> QED BY <2>1, <2>3 DEF items
<1> SUFFICES ASSUME i \in items, ~a.stopped PROVE Goal
    BY <1>4
<1>5. /\ x = PlanItem(a, r, i, c) /\ From(r, i) < c + n + Shift /\ To(r, i) > c /\ a.n = n
    BY <1>1 DEF TriedItem, Window
<1> HIDE DEF items, x
<1>6. CASE \E j \in Range(a.inputs) : HashOf(r, j) = h
    <2>1. x = a
        BY <1>3, <1>5, <1>6 DEF PlanItem
    <2>2. Covered(a.m, r, a.inputs, i)
        BY <1>6 DEF Covered, HashesOf
    <2> QED BY <2>1, <2>2, TriedNext
<1>7. CASE (~\E j \in Range(a.inputs) : HashOf(r, j) = h) /\ h \in a.m.cached
    <2> DEFINE old == a.m
               y == Reference(old, r, i)
               z == WithManager(a, y)
    <2>1. x = z
        BY <1>3, <1>5, <1>7 DEF PlanItem, WithManager
    <2>2. Books(old, live) /\ h \in old.cached /\ old.free \in Nat
        BY <1>1, <1>7
    <2> HIDE DEF old
    <2>3. /\ Books(y, live) /\ y.cached = old.cached /\ y.freed = old.freed
          /\ y.free = old.free
          /\ y.refs = [old.refs EXCEPT ![h] = old.refs[h] \cup {r}]
        BY <2>2, ReferenceKept
    <2>4. r \in y.refs[h] /\ \A g \in Hashes : old.refs[g] \subseteq y.refs[g]
        <3>1. DOMAIN old.refs = Hashes
            BY <2>2 DEF Books, Managers
        <3> QED BY <1>2, <2>3, <3>1
    <2>5. Evicted(old, y)
        <3>1. /\ {} \subseteq old.cached /\ y.cached = old.cached \ {}
              /\ y.freed = old.freed \cup {}
            BY <2>3
        <3> QED BY <3>1 DEF Evicted
    <2>6. y.free >= old.free
        BY <2>2, <2>3
    <2> HIDE DEF y, h
    <2>7. /\ Tried(z, base, live, r, c, n, k)
          /\ z.m = y /\ z.n = a.n /\ z.inputs = a.inputs /\ z.stopped = a.stopped
        <3>1. old = a.m
            BY DEF old
        <3>2. Books(y, live) /\ \A g \in Hashes : old.refs[g] \subseteq y.refs[g]
            BY <2>3, <2>4
        <3> QED BY <2>5, <2>6, <3>1, <3>2, TriedManager
    <2> HIDE DEF z
    <2>8. Covered(z.m, r, z.inputs, i)
        BY <2>4, <2>7 DEF Covered, h
    <2> QED BY <2>1, <2>7, <2>8, TriedNext
<1>8. CASE (~\E j \in Range(a.inputs) : HashOf(r, j) = h) /\ h \notin a.m.cached
    <2> DEFINE at == From(r, i)
               whole == WholeItems /\ c < at /\ c + a.n < To(r, i)
               fits == CanAllocate(a.m, h, a.budget, a.planned)
               need == Size[h] + a.planned
               old == a.m
               y == MakeRoom(old, need)
               z == WithManager(a, y)
    <2>1. x = PlanNew(a, r, i, c)
        BY <1>3, <1>5, <1>8 DEF PlanItem
    <2>2. CASE whole
        <3>1. x = Stop(a, Max({0, at - (c + Shift)}))
            BY <2>1, <2>2 DEF PlanNew
        <3> DEFINE q == Max({0, at - (c + Shift)})
        <3>2. q = IF 0 >= at - (c + Shift) THEN 0 ELSE at - (c + Shift)
            BY <1>2, OfTwo
        <3> HIDE DEF q
        <3>3. q \in Nat /\ q <= n /\ (q = 0 \/ c + q <= at)
            BY <1>2, <1>5, <3>2
        <3> QED BY <3>1, <3>3, TriedStop DEF q
    <2>3. CASE ~whole /\ ~fits
        <3> DEFINE q == IF c + Shift < at THEN at - (c + Shift) ELSE 0
        <3>1. x = Stop(a, q)
            BY <2>1, <2>3 DEF PlanNew
        <3>2. q \in Nat /\ q <= n /\ (q = 0 \/ c + q <= at)
            BY <1>2, <1>5
        <3> HIDE DEF q
        <3> QED BY <3>1, <3>2, TriedStop
    <2>4. CASE ~whole /\ fits
        <3> DEFINE none == Min({To(r, i), c + n}) <= Max({at, c})
        <3>1. x = IF none THEN z
                  ELSE [z EXCEPT !.planned = z.planned + Size[h], !.budget = z.budget - Size[h],
                                 !.inputs = Append(z.inputs, i)]
            BY <1>3, <1>5, <2>1, <2>4 DEF PlanNew, WithManager
        <3>2. Books(old, live) /\ need <= old.spare /\ need \in Int /\ h \notin old.cached
            BY <1>1, <1>2, <1>3, <1>8, <2>4 DEF CanAllocate
        <3> HIDE DEF need, old
        <3>3. /\ Books(y, live) /\ y.refs = old.refs /\ y.free >= need /\ y.free >= old.free
              /\ \E gone : /\ y.cached = old.cached \ gone /\ y.freed = old.freed \cup gone
                           /\ gone \subseteq old.cached /\ \A g \in gone : old.refs[g] = {}
            <4>1. RoomMade(y, old, live, need)
                BY <3>2, MakeRoomKept
            <4> HIDE DEF y
            <4> QED BY <4>1 DEF RoomMade
        <3> HIDE DEF y, h
        <3>4. Evicted(old, y)
            BY <3>3 DEF Evicted
        <3>5. /\ Tried(z, base, live, r, c, n, k)
              /\ z.m = y /\ z.n = a.n /\ z.inputs = a.inputs /\ z.stopped = a.stopped
              /\ z.planned = a.planned /\ z.budget = a.budget
            <4>1. old = a.m /\ \A g \in Hashes : old.refs[g] \subseteq y.refs[g]
                BY <3>3 DEF old
            <4>2. Books(y, live) /\ y.free >= old.free
                BY <3>3
            <4> QED BY <3>4, <4>1, <4>2, TriedManager
        <3>6. none => i \notin Window(r, c, c + z.n)
            <4>1. /\ Min({To(r, i), c + n}) = IF To(r, i) <= c + n THEN To(r, i) ELSE c + n
                  /\ Max({at, c}) = IF at >= c THEN at ELSE c
                <5>1. To(r, i) \in Int /\ c + n \in Int /\ at \in Int /\ c \in Int
                    BY <1>2
                <5> QED BY <5>1, OfTwo
            <4>2. /\ at < To(r, i) /\ i \in Window(r, c, c + n) => To(r, i) > c /\ at < c + n
                BY <1>2 DEF Window, h
            <4>3. c + n \in Int /\ To(r, i) \in Int /\ at \in Int /\ c \in Int /\ at < To(r, i)
                BY <1>2
            <4> HIDE DEF at
            <4>4. i \in Window(r, c, c + n) => ~none
                <5> DEFINE lo == Min({To(r, i), c + n})
                           hi == Max({at, c})
                <5>1. /\ lo = IF To(r, i) <= c + n THEN To(r, i) ELSE c + n
                      /\ hi = IF at >= c THEN at ELSE c
                    BY <4>1
                <5> HIDE DEF lo, hi
                <5>2. i \in Window(r, c, c + n) => hi < lo
                    <6>1. i \in Window(r, c, c + n) => To(r, i) > c /\ at < c + n
                        BY <4>2, <4>3
                    <6>2. c < c + n
                        OBVIOUS
                    <6> QED BY <4>3, <5>1, <6>1, <6>2
                <5> QED BY <4>3, <5>1, <5>2 DEF lo, hi
            <4> QED BY <1>5, <3>5, <4>4
        <3> HIDE DEF z
        <3>7. CASE none
            <4>1. x = z
                BY <3>1, <3>7
            <4> HIDE DEF none
            <4> QED BY <3>5, <3>6, <3>7, <4>1, TriedNext
        <3>8. CASE ~none
            <4>1. x = [z EXCEPT !.planned = z.planned + Size[h], !.budget = z.budget - Size[h],
                                !.inputs = Append(z.inputs, i)]
                BY <3>1, <3>8
            <4> HIDE DEF none
            <4>2. h \notin z.m.cached
                BY <3>2, <3>3, <3>5
            <4>3. h \notin HashesOf(r, Range(z.inputs))
                BY <1>8, <3>5 DEF HashesOf
            <4>4. Size[h] + z.planned <= z.m.free
                BY <3>3, <3>5 DEF need
            <4> QED BY <3>5, <4>1, <4>2, <4>3, <4>4, TriedInput DEF h
        <3> QED BY <3>7, <3>8
    <2> HIDE DEF whole, fits
    <2> QED BY <2>2, <2>3, <2>4
<1> QED BY <1>6, <1>7, <1>8

\* What a request is planned has room, and covers the items of its tokens.
LEMMA TryKept ==
    ASSUME Decoding, NEW live, Books(mgr, live), NEW r \in Requests, r \in live, NEW c \in Nat,
           NEW n \in Nat, compute \in Int
    PROVE  LET t == TrySchedule(r, c, n)
           IN  /\ Books(t.m, live) /\ RoomFor(t.m, r, t.inputs)
               /\ t.n \in Nat /\ t.n <= n /\ t.budget \in Int
               /\ Evicted(mgr, t.m)
               /\ \A h \in Hashes : mgr.refs[h] \subseteq t.m.refs[h]
               /\ t.n # 0 => \A i \in Window(r, c, c + t.n) : Covered(t.m, r, t.inputs, i)
<1> DEFINE t == TrySchedule(r, c, n)
           none == [m |-> mgr, n |-> n, inputs |-> <<>>, budget |-> compute,
                    planned |-> 0, stopped |-> FALSE]
           items == Window(r, c, c + n + Shift)
           s == Items(r)
           len == Len(Features[r])
<1>1. /\ DOMAIN Features[r] = 1..len /\ len \in Nat /\ Shift \in {0, 1}
    BY SetUp
<1>2. s \in Seq(Nat) /\ Len(s) = len /\ \A i \in 1..len : s[i] = i
    BY <1>1 DEF Items
<1>3. ~EncDec
    BY DEF Decoding
<1>4. n = 0 => t = none
    BY DEF TrySchedule
<1>5. n # 0 => t = TryAll(none, r, c, items)
    BY <1>3 DEF TrySchedule, TryAll
<1>6. Tried(none, mgr, live, r, c, n, 0)
    <2>1. /\ none.m = mgr /\ none.n = n /\ none.inputs = <<>> /\ none.planned = 0 /\ ~none.stopped
        OBVIOUS
    <2>2. none \in Plans
        BY DEF Plans, Books
    <2> HIDE DEF none
    <2>3. HashesOf(r, Range(none.inputs)) = {}
        BY <2>1 DEF HashesOf, Range
    <2>4. RoomFor(mgr, r, <<>>)
        <3> DEFINE e == <<>>
                   D == DOMAIN Features[r]
        <3>1. /\ HashesOf(r, Range(e)) = {} /\ DOMAIN e = {}
            BY DEF HashesOf, Range
        <3>2. e \in Seq(D)
            OBVIOUS
        <3>3. Sizes({}) <= mgr.free
            BY SizesNone, BooksFinite
        <3> HIDE DEF e
        <3> SUFFICES RoomFor(mgr, r, e)
            BY DEF e
        <3> QED BY <3>1, <3>2, <3>3 DEF RoomFor
    <2>5. Evicted(mgr, mgr)
        <3>1. {} \subseteq mgr.cached /\ mgr.cached = mgr.cached \ {} /\ mgr.freed = mgr.freed \cup {}
            OBVIOUS
        <3> QED BY <3>1 DEF Evicted
    <2>6. \A i \in Window(r, c, c + n) : ~(i <= 0)
        BY <1>1 DEF Window
    <2>7. none.planned = Sizes(HashesOf(r, Range(none.inputs)))
        BY <2>1, <2>3, SizesNone
    <2>8. /\ Books(none.m, live) /\ RoomFor(none.m, r, none.inputs) /\ Evicted(mgr, none.m)
          /\ none.n <= n /\ none.n = n
        BY <2>1, <2>4, <2>5
    <2>9. \A h \in Hashes : mgr.refs[h] \subseteq none.m.refs[h]
        BY <2>1
    <2>10. \A i \in Window(r, c, c + none.n) : ~(none.stopped \/ i <= 0)
        BY <2>1, <2>6
    <2> QED BY <2>2, <2>7, <2>8, <2>9, <2>10 DEF Tried
<1>a. none.n = n
    OBVIOUS
<1> HIDE DEF none
<1>7. n # 0 => Tried(t, mgr, live, r, c, n, len)
    <2> SUFFICES ASSUME n # 0 PROVE Tried(t, mgr, live, r, c, n, len)
        OBVIOUS
    <2>1. PICK P : /\ P[0] = none /\ P[len] = t
                   /\ \A i \in 1..len : P[i] = TriedItem(P[i - 1], r, s[i], c, items)
        <3> HIDE DEF t, items
        <3>1. Items(r) \in Seq(Nat)
            BY <1>2
        <3>2. \E P : /\ P[0] = none /\ P[Len(Items(r))] = TryAll(none, r, c, items)
                     /\ \A i \in 1..Len(Items(r)) : P[i] = TriedItem(P[i - 1], r, Items(r)[i], c, items)
            BY <3>1, TrySteps
        <3> QED BY <1>2, <1>5, <3>2
    <2> HIDE DEF t, s
    <2> DEFINE Good(k) == k <= len => Tried(P[k], mgr, live, r, c, n, k)
               Y == {k \in Nat : Good(k)}
    <2>2. 0 \in Y
        BY <1>6, <2>1
    <2>3. ASSUME NEW k \in Nat, k \in Y PROVE k + 1 \in Y
        <3> SUFFICES ASSUME k + 1 <= len PROVE Tried(P[k + 1], mgr, live, r, c, n, k + 1)
            OBVIOUS
        <3>1. k + 1 \in 1..len /\ (k + 1) - 1 = k /\ k <= len
            BY <1>1
        <3>2. P[k + 1] = TriedItem(P[k], r, k + 1, c, items)
            BY <1>2, <2>1, <3>1
        <3>3. Tried(P[k], mgr, live, r, c, n, k) /\ k + 1 \in DOMAIN Features[r]
            BY <1>1, <2>3, <3>1
        <3> DEFINE a == P[k]
        <3> HIDE DEF a
        <3>4. Tried(TriedItem(a, r, k + 1, c, Window(r, c, c + n + Shift)), mgr, live, r, c, n, k + 1)
            BY <3>3, TriedItemKept DEF a
        <3> QED BY <3>2, <3>4 DEF a
    <2> HIDE DEF Y
    <2>4. Nat \subseteq Y
        BY <2>2, <2>3, SetInduction
    <2>5. len \in Y /\ len <= len
        BY <1>1, <2>4
    <2> QED BY <2>1, <2>5 DEF Y
<1> HIDE DEF t
<1>8. Tried(t, mgr, live, r, c, n, len)
    <2>1. CASE n = 0
        <3>1. t.n = 0 /\ Tried(t, mgr, live, r, c, n, 0)
            BY <1>4, <1>6, <1>a, <2>1
        <3> QED BY <3>1 DEF Tried
    <2> QED BY <1>7, <2>1
<1>9. t.n \in Nat /\ t.budget \in Int
    BY <1>8 DEF Tried, Plans
<1>10. \A i \in Window(r, c, c + t.n) : i <= len
    BY <1>1 DEF Window
<1> QED BY <1>8, <1>9, <1>10 DEF Tried, t
-----------------------------------------------------------------------------
(* What a step leaves alone.                                               *)

LEMMA SameConfig ==
    ASSUME config' = config
    PROVE  /\ Features' = Features /\ CacheSize' = CacheSize /\ Prompt' = Prompt /\ Depth' = Depth
           /\ Shift' = Shift /\ EncDec' = EncDec /\ ByPriority' = ByPriority
           /\ Decoding' = Decoding
BY DEF Features, CacheSize, Prompt, Depth, Shift, Eagle, EncDec, ByPriority, Decoding

LEMMA SameBooks ==
    ASSUME config' = config
    PROVE  Books(mgr, Unfinished)' <=> Books(mgr', Unfinished')
BY SameConfig DEF Books, HashesOf, HashOf

LEMMA SameRoom ==
    ASSUME config' = config
    PROVE  RoomFor(mgr, plan.req, plan.inputs)' <=> RoomFor(mgr', plan'.req, plan'.inputs)
BY SameConfig DEF RoomFor, HashesOf, HashOf

LEMMA SameFrames ==
    ASSUME config' = config
    PROVE  /\ BatchRight' <=> BatchIn(batch', mgr', Range(running'))
           /\ \A k : FramesRight(queue[k].frames)' <=> FramesRight(queue'[k].frames)
           /\ EncodedBy(batch)' = EncodedBy(batch')
BY SameConfig DEF BatchRight, BatchIn, FramesRight, Of, EncodedBy, HashesOf, HashOf, Range

LEMMA SameCovers ==
    ASSUME config' = config
    PROVE  /\ PlanCovers' <=> (plan' # NoPlan => PlanCovered(plan', computed'[plan'.req], mgr'))
           /\ BatchCovered(batch, mgr)' <=> BatchCovered(batch', mgr')
BY SameConfig DEF PlanCovers, PlanCovered, BatchCovered, Covered, Window, HashesOf, HashOf,
                  To, From, NoPlan

LEMMA SameQueues ==
    ASSUME QueuesRight, UNCHANGED <<config, reqVars>>
    PROVE  QueuesRight' /\ Unfinished' = Unfinished
BY SameConfig DEF QueuesRight, Unfinished, reqVars

LEMMA SameSteps ==
    ASSUME StepsRight, UNCHANGED <<config, queue, ran>>, phase' = phase \/ Len(queue) < Depth
    PROVE  StepsRight'
<1>1. \A k : FramesRight(queue[k].frames)' <=> FramesRight(queue[k].frames)
    BY SameFrames
<1> QED BY <1>1, SameConfig DEF StepsRight

LEMMA SameWorker ==
    ASSUME WorkerFits, UNCHANGED <<config, queue, ran, outputs>>
    PROVE  /\ AtLast' = AtLast /\ \A k : OutputsAfter(k)' = OutputsAfter(k)
           /\ Accounted(mgr', batch') => WorkerFits'
<1>1. AtLast' = AtLast /\ \A k : OutputsAfter(k)' = OutputsAfter(k)
    BY DEF AtLast, OutputsAfter, Execute, Encoded, HashOf, Features
<1>2. Accounted(mgr, batch)' <=> Accounted(mgr', batch')
    BY <1>1, SameFrames DEF Accounted
<1>3. \A k \in 0..(Len(queue') - ran') :
          /\ OutputsAfter(k)' \subseteq Hashes /\ IsFiniteSet(OutputsAfter(k)')
          /\ Sizes(OutputsAfter(k)') <= CacheSize'
    BY <1>1, SameConfig DEF WorkerFits
<1>4. \A k : /\ IsFiniteSet(OutputsAfter(k))' <=> IsFiniteSet(OutputsAfter(k)')
             /\ Sizes(OutputsAfter(k))' = Sizes(OutputsAfter(k)')
    OBVIOUS
<1> QED BY <1>1, <1>2, <1>3, <1>4 DEF WorkerFits

LEMMA SameFollower ==
    ASSUME WorkerFollows, UNCHANGED <<config, queue, ran, outputs>>, Promised(mgr', batch')
    PROVE  WorkerFollows'
<1>1. AtLast' = AtLast /\ \A k : OutputsAfter(k)' = OutputsAfter(k)
    BY DEF AtLast, OutputsAfter, Execute, Encoded, HashOf, Features
<1>2. Promised(mgr, batch)'
    BY <1>1, SameFrames DEF Promised
<1>3. \A k : \A f : HashesOf(f.req, Window(f.req, f.from, f.to))'
                      = HashesOf(f.req, Window(f.req, f.from, f.to))
    BY SameConfig DEF HashesOf, HashOf, Window, To, From
<1> QED BY <1>1, <1>2, <1>3 DEF WorkerFollows
-----------------------------------------------------------------------------
(* The batch while it is put together.                                     *)

LEMMA RangeFinite ==
    ASSUME NEW T, NEW s \in Seq(T)
    PROVE  IsFiniteSet(Range(s)) /\ Range(s) \subseteq T
<1> DEFINE n == Len(s)
<1>1. n \in Nat /\ DOMAIN s = 1..n
    OBVIOUS
<1>2. IsFiniteSet(1..n)
    <2>1. \A k \in Nat : IsFiniteSet(1..k)
        BY FS_Interval
    <2> QED BY <1>1, <2>1
<1>3. s \in Surjection(1..n, Range(s))
    BY <1>1 DEF Surjection, Range
<1>4. IsFiniteSet(Range(s))
    BY <1>2, <1>3, FS_Surjection
<1> QED BY <1>4 DEF Range

LEMMA OfFinite ==
    ASSUME NEW fs, FramesRight(fs)
    PROVE  IsFiniteSet(Of(fs)) /\ Cardinality(Of(fs)) \in Nat
<1> DEFINE f == [x \in Range(fs) |-> x.req]
<1>1. IsFiniteSet(Range(fs))
    BY RangeFinite DEF FramesRight
<1>2. f \in Surjection(Range(fs), Of(fs))
    BY DEF Surjection, Of
<1> QED BY <1>1, <1>2, FS_Surjection, FS_CardinalityType

\* Another manager, with all the references and some entries evicted.
LEMMA TriedBatch ==
    ASSUME Decoding, NEW live, NEW y, Books(y, live), NEW rs, BatchIn(batch, mgr, rs),
           Accounted(mgr, batch), Evicted(mgr, y), \A h \in Hashes : mgr.refs[h] \subseteq y.refs[h]
    PROVE  BatchIn(batch, y, rs) /\ Accounted(y, batch)
<1>1. \A f \in Range(batch) : \A i \in Range(f.inputs) : HashOf(f.req, i) \in Hashes
    <2>1. ASSUME NEW f \in Range(batch), NEW i \in Range(f.inputs) PROVE HashOf(f.req, i) \in Hashes
        <3>1. f \in Frames /\ i \in DOMAIN Features[f.req]
            BY <2>1 DEF BatchIn, FramesRight, Range
        <3>2. f.req \in Requests
            BY <3>1 DEF Frames
        <3> QED BY <3>1, <3>2, SetUp
    <2> QED BY <2>1
<1>2. BatchIn(batch, y, rs)
    BY <1>1 DEF BatchIn
<1>3. EncodedBy(batch) \subseteq y.cached
    BY <1>1, <1>2 DEF BatchIn, EncodedBy, HashesOf, Books
<1>4. PICK gone : y.cached = mgr.cached \ gone /\ y.freed = mgr.freed \cup gone
    BY DEF Evicted
<1> QED BY <1>2, <1>3, <1>4 DEF Accounted

\* A frame f more, with its inputs allocated: fs is the batch then, x the manager m.
FrameAdded(fs, x, m, f) ==
    /\ Books(x, Unfinished) /\ BatchIn(fs, x, Range(running) \cup {f.req}) /\ Accounted(x, fs)
    /\ Range(fs) = Range(batch) \cup {f}
    /\ EncodedBy(fs) = EncodedBy(batch) \cup HashesOf(f.req, Range(f.inputs))
    /\ Cardinality(Of(fs)) <= Cardinality(Of(batch)) + 1
    /\ x.cached = m.cached \cup HashesOf(f.req, Range(f.inputs)) /\ x.freed = m.freed
    /\ \A h \in Hashes : m.refs[h] \subseteq x.refs[h]
    /\ \A h \in HashesOf(f.req, Range(f.inputs)) : f.req \in x.refs[h]

LEMMA BatchAppend ==
    ASSUME Decoding, NEW m, Books(m, Unfinished), NEW r \in Requests, r \in Unfinished,
           BatchIn(batch, m, Range(running)), Accounted(m, batch), NEW is, RoomFor(m, r, is),
           NEW c \in Nat, NEW n \in Nat, c + n <= Prompt[r], NEW f, f = Frame(r, c, n, is)
    PROVE  FrameAdded(Append(batch, f), AllocateAll(m, r, is), m, f)
<1> DEFINE x == AllocateAll(m, r, is)
           fs == Append(batch, f)
<1>1. /\ Books(x, Unfinished)
      /\ x.cached = m.cached \cup HashesOf(r, Range(is)) /\ x.freed = m.freed
      /\ \A h \in Hashes : m.refs[h] \subseteq x.refs[h]
      /\ \A h \in HashesOf(r, Range(is)) : r \in x.refs[h]
    <2> DEFINE live == Unfinished
    <2> HIDE DEF live
    <2>1. Books(m, live) /\ r \in live
        BY DEF live
    <2> SUFFICES /\ Books(x, live)
                 /\ x.cached = m.cached \cup HashesOf(r, Range(is)) /\ x.freed = m.freed
                 /\ \A h \in Hashes : m.refs[h] \subseteq x.refs[h]
                 /\ \A h \in HashesOf(r, Range(is)) : r \in x.refs[h]
        BY DEF live
    <2> QED BY <2>1, AllocateAllKept
<1> HIDE DEF x
<1>2. f \in Frames /\ Range(is) \subseteq DOMAIN Features[r]
    <2>1. is \in Seq(DOMAIN Features[r])
        BY DEF RoomFor
    <2>2. is \in Seq(Nat)
        BY <2>1, SetUp
    <2>3. f \in Frames
        BY <2>2 DEF Frame, Frames
    <2> QED BY <2>1, <2>3 DEF Range
<1>3. f.req = r /\ f.from = c /\ f.to = c + n /\ f.inputs = is
    BY DEF Frame
<1>4. FramesRight(batch) /\ batch \in Seq(Frames)
    BY DEF BatchIn, FramesRight
<1>5. fs \in Seq(Frames) /\ Range(fs) = Range(batch) \cup {f}
    BY <1>2, <1>4, InjectiveAppend
<1> HIDE DEF fs
<1>6. Prompt[r] \in Nat
    BY SetUp
<1>7. FramesRight(fs)
    <2>1. \A g \in Range(batch) : /\ Range(g.inputs) \subseteq DOMAIN Features[g.req]
                                  /\ g.from <= g.to /\ g.to <= Prompt[g.req]
        BY <1>4 DEF FramesRight
    <2>2. f.from <= f.to /\ f.to <= Prompt[f.req]
        BY <1>3, <1>6
    <2>3. Range(f.inputs) \subseteq DOMAIN Features[f.req]
        BY <1>2, <1>3
    <2>4. \A g \in Range(fs) : g \in Range(batch) \/ g = f
        BY <1>5
    <2> QED BY <1>5, <2>1, <2>2, <2>3, <2>4 DEF FramesRight
<1>8. Of(fs) = Of(batch) \cup {r}
    BY <1>3, <1>5 DEF Of
<1>9. EncodedBy(fs) = EncodedBy(batch) \cup HashesOf(r, Range(is))
    BY <1>3, <1>5 DEF EncodedBy
<1>10. ASSUME NEW g \in Range(fs), NEW i \in Range(g.inputs)
       PROVE  g.req \in x.refs[HashOf(g.req, i)]
    <2>1. CASE g = f
        <3>1. g.req = r /\ i \in Range(is)
            BY <1>3, <1>10, <2>1
        <3>2. HashOf(r, i) \in HashesOf(r, Range(is))
            BY <3>1 DEF HashesOf
        <3> QED BY <1>1, <3>1, <3>2
    <2>2. CASE g \in Range(batch)
        <3>1. g.req \in m.refs[HashOf(g.req, i)]
            BY <1>10, <2>2 DEF BatchIn
        <3>2. g \in Frames /\ i \in DOMAIN Features[g.req]
            BY <1>4, <1>10, <2>2 DEF FramesRight, Range
        <3>3. HashOf(g.req, i) \in Hashes
            BY <3>2, SetUp DEF Frames
        <3> QED BY <1>1, <3>1, <3>3
    <2> QED BY <1>5, <2>1, <2>2
<1>11. BatchIn(fs, x, Range(running) \cup {r})
    BY <1>7, <1>8, <1>10 DEF BatchIn
<1>12. Accounted(x, fs)
    BY <1>1, <1>9 DEF Accounted
<1>13. Cardinality(Of(fs)) <= Cardinality(Of(batch)) + 1
    <2>1. IsFiniteSet(Of(batch)) /\ Cardinality(Of(batch)) \in Nat
        BY <1>4, OfFinite
    <2>2. CASE r \in Of(batch)
        <3>1. Of(fs) = Of(batch)
            BY <1>8, <2>2
        <3> QED BY <2>1, <3>1
    <2>3. CASE r \notin Of(batch)
        <3> DEFINE old == Of(batch)
        <3>1. IsFiniteSet(old) /\ Cardinality(old) \in Nat /\ r \notin old
            BY <2>1, <2>3
        <3> HIDE DEF old
        <3>2. Cardinality(old \cup {r}) = Cardinality(old) + 1
            BY <3>1, FS_AddElement
        <3>3. Of(fs) = old \cup {r}
            BY <1>8 DEF old
        <3> QED BY <3>1, <3>2, <3>3 DEF old
    <2> QED BY <2>2, <2>3
<1> QED BY <1>1, <1>3, <1>5, <1>9, <1>11, <1>12, <1>13 DEF FrameAdded, x, fs

LEMMA CoveredHashes ==
    ASSUME Decoding, NEW fs, FramesRight(fs)
    PROVE  \A f \in Range(fs) : /\ f \in Frames /\ f.req \in Requests
                                /\ \A i \in Window(f.req, f.from, f.to) : HashOf(f.req, i) \in Hashes
                                /\ HashesOf(f.req, Range(f.inputs)) \subseteq Hashes
<1>1. ASSUME NEW f \in Range(fs)
      PROVE  /\ f \in Frames /\ f.req \in Requests
             /\ \A i \in Window(f.req, f.from, f.to) : HashOf(f.req, i) \in Hashes
             /\ HashesOf(f.req, Range(f.inputs)) \subseteq Hashes
    <2>1. f \in Frames
        BY <1>1, RangeFinite DEF FramesRight
    <2>2. f.req \in Requests
        BY <2>1 DEF Frames
    <2>3. Range(f.inputs) \subseteq DOMAIN Features[f.req]
        BY <1>1 DEF FramesRight
    <2> QED BY <2>1, <2>2, <2>3, SetUp, ItemsFinite DEF Window
<1> QED BY <1>1
-----------------------------------------------------------------------------
(* The running requests.                                                   *)

LEMMA BeginKept ==
    ASSUME Decoding, CacheInv, BeginSchedule
    PROVE  CacheInv' /\ (OutputsInv => OutputsInv')
<1>1. /\ UNCHANGED <<config, queue, ran, reqVars, mgr, outputs>>
      /\ batch = <<>> /\ batch' = <<>> /\ plan' = NoPlan
      /\ phase = "idle" /\ phase' = "running" /\ idx' = 1
      /\ tokens' = Budget /\ compute' = ComputeBudget
    BY DEF BeginSchedule, CacheInv, PhasesRight
<1>2. /\ running' = running /\ computed' = computed
    BY <1>1 DEF reqVars
<1>3. QueuesRight' /\ Unfinished' = Unfinished
    BY <1>1, SameQueues DEF CacheInv
<1>4. Books(mgr, Unfinished)'
    BY <1>1, <1>3, SameBooks DEF CacheInv
<1>5. PhasesRight'
    <2>1. Of(<<>>) = {}
        BY DEF Of, Range
    <2>2. Cardinality(Of(batch')) = 0
        BY <1>1, <2>1, FS_EmptySet
    <2>3. tokens' \in Nat /\ compute' \in Int
        BY <1>1, SetUp
    <2>4. Of(batch)' = Of(batch')
        BY DEF Of
    <2> QED BY <1>1, <2>2, <2>3, <2>4 DEF PhasesRight
<1>6. BatchRight'
    BY <1>1, <1>2, SameFrames DEF CacheInv, BatchRight
<1>7. StepsRight'
    BY <1>1, SameSteps DEF CacheInv, StepsRight
<1>8. WorkerFits'
    BY <1>1, SameWorker DEF CacheInv, WorkerFits
<1>9. ASSUME OutputsInv PROVE OutputsInv'
    <2>1. PlanCovers' /\ BatchCovered(batch, mgr)'
        BY <1>1, <1>9, SameCovers DEF OutputsInv
    <2>2. BatchBefore'
        <3>1. Range(<<>>) = {}
            BY DEF Range
        <3> QED BY <1>1, <3>1 DEF BatchBefore
    <2>3. WorkerFollows'
        BY <1>1, <1>9, SameFollower DEF OutputsInv, WorkerFollows
    <2> QED BY <2>1, <2>2, <2>3 DEF OutputsInv
<1> QED BY <1>3, <1>4, <1>5, <1>6, <1>7, <1>8, <1>9 DEF CacheInv

LEMMA EndRunningKept ==
    ASSUME Decoding, CacheInv, EndRunning
    PROVE  CacheInv' /\ (OutputsInv => OutputsInv')
<1>1. /\ UNCHANGED <<config, queue, ran, reqVars, mgr, outputs>>
      /\ batch' = batch /\ plan' = NoPlan /\ idx' = idx /\ tokens' = tokens /\ compute' = compute
      /\ phase = "running" /\ phase' = "waiting"
    BY DEF EndRunning, schedVars
<1>2. /\ running' = running /\ computed' = computed
    BY <1>1 DEF reqVars
<1>3. QueuesRight' /\ Unfinished' = Unfinished
    BY <1>1, SameQueues DEF CacheInv
<1>4. Books(mgr, Unfinished)'
    BY <1>1, <1>3, SameBooks DEF CacheInv
<1>5. PhasesRight'
    BY <1>1 DEF PhasesRight, CacheInv
<1>6. BatchRight'
    BY <1>1, <1>2, SameFrames DEF CacheInv, BatchRight
<1>7. StepsRight'
    BY <1>1, SameSteps DEF CacheInv, StepsRight
<1>8. WorkerFits'
    BY <1>1, SameWorker DEF CacheInv, WorkerFits
<1>9. ASSUME OutputsInv PROVE OutputsInv'
    <2>1. PlanCovers' /\ BatchCovered(batch, mgr)'
        BY <1>1, <1>9, SameCovers DEF OutputsInv
    <2>2. BatchBefore'
        BY <1>1 DEF BatchBefore
    <2>3. WorkerFollows'
        BY <1>1, <1>9, SameFollower DEF OutputsInv, WorkerFollows
    <2> QED BY <2>1, <2>2, <2>3 DEF OutputsInv
<1> QED BY <1>3, <1>4, <1>5, <1>6, <1>7, <1>8, <1>9 DEF CacheInv

LEMMA PlanRunningKept ==
    ASSUME Decoding, CacheInv, PlanRunning
    PROVE  CacheInv' /\ (OutputsInv => OutputsInv')
<1> DEFINE r == running[idx]
           c == computed[r]
           n == Min({Prompt[r] - c, tokens})
           t == TrySchedule(r, c, n)
<1>1. /\ UNCHANGED <<config, queue, ran, reqVars, outputs>>
      /\ batch' = batch /\ tokens' = tokens /\ compute' = compute
      /\ phase = "running" /\ phase' = "running" /\ tokens > 0 /\ idx <= Len(running)
      /\ plan = NoPlan /\ mgr' = t.m
      /\ plan' = IF t.n = 0 THEN NoPlan
                 ELSE [req |-> r, n |-> t.n, inputs |-> t.inputs, budget |-> t.budget]
      /\ idx' = IF t.n = 0 THEN idx + 1 ELSE idx
    BY DEF PlanRunning, InLoop
<1>2. /\ running' = running /\ computed' = computed
    BY <1>1 DEF reqVars
<1>3. QueuesRight' /\ Unfinished' = Unfinished
    BY <1>1, SameQueues DEF CacheInv
<1>4. /\ Books(mgr, Unfinished) /\ QueuesRight /\ PhasesRight /\ BatchIn(batch, mgr, Range(running))
      /\ StepsRight /\ WorkerFits /\ Accounted(mgr, batch)
    BY DEF CacheInv, BatchRight, WorkerFits
<1>5. idx \in DOMAIN running /\ idx \in Nat /\ tokens \in Nat /\ compute \in Int
      /\ Cardinality(Of(batch)) \in Nat /\ Cardinality(Of(batch)) < idx
    <2>1. Cardinality(Of(batch)) \in Nat
        BY <1>4, OfFinite DEF BatchIn
    <2>2. running \in Seq(Requests)
        BY <1>4 DEF QueuesRight
    <2> QED BY <1>1, <1>4, <2>1, <2>2 DEF PhasesRight
<1>6. r \in Requests /\ r \in Unfinished /\ r \in Range(running)
    <2>1. r \in Range(running)
        BY <1>5 DEF Range
    <2> QED BY <1>4, <2>1 DEF QueuesRight, Unfinished
<1>7. c \in Nat /\ n \in Nat /\ c + n <= Prompt[r] /\ n <= tokens
    <2>1. c \in Nat /\ c <= Prompt[r] /\ Prompt[r] \in Nat
        BY <1>4, <1>6, SetUp DEF QueuesRight
    <2>2. Prompt[r] - c \in Int /\ tokens \in Int
        BY <1>5, <2>1
    <2> HIDE DEF r, c
    <2>3. n = IF Prompt[r] - c <= tokens THEN Prompt[r] - c ELSE tokens
        BY <2>2, OfTwo
    <2> HIDE DEF n
    <2> QED BY <1>5, <2>1, <2>3
<1> HIDE DEF r, c, n
<1>8. /\ Books(t.m, Unfinished) /\ RoomFor(t.m, r, t.inputs)
      /\ t.n \in Nat /\ t.n <= n /\ t.budget \in Int
      /\ Evicted(mgr, t.m)
      /\ \A h \in Hashes : mgr.refs[h] \subseteq t.m.refs[h]
      /\ t.n # 0 => \A i \in Window(r, c, c + t.n) : Covered(t.m, r, t.inputs, i)
    BY <1>4, <1>5, <1>6, <1>7, TryKept
<1> HIDE DEF t
<1>9. Books(mgr, Unfinished)'
    BY <1>1, <1>3, <1>8, SameBooks
<1>10. BatchIn(batch, mgr', Range(running)) /\ Accounted(mgr', batch)
    BY <1>1, <1>4, <1>8, TriedBatch
<1>11. plan' # NoPlan =>
          /\ t.n # 0 /\ plan'.req = r /\ plan'.n = t.n /\ plan'.inputs = t.inputs
          /\ plan'.budget = t.budget /\ idx' = idx
    BY <1>1
<1>12. PhasesRight'
    <2>1. ASSUME plan' # NoPlan
          PROVE  /\ plan'.req \in Range(running)'
                 /\ plan'.n \in Nat \ {0} /\ plan'.n <= tokens' /\ plan'.budget \in Int
                 /\ computed'[plan'.req] + plan'.n <= Prompt'[plan'.req]
                 /\ RoomFor(mgr, plan.req, plan.inputs)'
        <3>1. plan'.req \in Range(running)'
            BY <1>2, <1>6, <1>11, <2>1
        <3>2. RoomFor(mgr, plan.req, plan.inputs)'
            BY <1>1, <1>8, <1>11, <2>1, SameRoom
        <3>3. plan'.n \in Nat \ {0} /\ plan'.n <= tokens' /\ plan'.budget \in Int
            BY <1>1, <1>5, <1>7, <1>8, <1>11, <2>1
        <3>4. computed'[r] = c /\ Prompt'[r] = Prompt[r] /\ Prompt[r] \in Nat
            BY <1>1, <1>2, <1>6, SameConfig, SetUp DEF c
        <3>5. c + t.n <= Prompt[r]
            BY <1>7, <1>8, <3>4
        <3>6. computed'[plan'.req] + plan'.n <= Prompt'[plan'.req]
            BY <1>11, <2>1, <3>4, <3>5
        <3> QED BY <3>1, <3>2, <3>3, <3>6
    <2>2. idx' \in Nat /\ Cardinality(Of(batch)) < idx'
        BY <1>1, <1>5
    <2>3. Of(batch)' = Of(batch)
        BY <1>1
    <2> QED BY <1>1, <1>5, <2>1, <2>2, <2>3 DEF PhasesRight
<1>13. BatchRight'
    BY <1>1, <1>2, <1>10, SameFrames
<1>14. StepsRight'
    BY <1>1, <1>4, SameSteps
<1>15. WorkerFits'
    BY <1>1, <1>4, <1>10, SameWorker
<1>16. ASSUME OutputsInv PROVE OutputsInv'
    <2>1. PlanCovers'
        <3>1. plan' # NoPlan => PlanCovered(plan', computed'[plan'.req], mgr')
            <4> SUFFICES ASSUME plan' # NoPlan PROVE PlanCovered(plan', computed'[plan'.req], mgr')
                OBVIOUS
            <4>1. computed'[plan'.req] = c /\ plan'.req = r /\ plan'.n = t.n /\ plan'.inputs = t.inputs
                BY <1>2, <1>11 DEF c
            <4>2. \A i \in Window(r, c, c + t.n) : Covered(t.m, r, t.inputs, i)
                BY <1>8, <1>11
            <4> QED BY <1>1, <4>1, <4>2 DEF PlanCovered
        <3> QED BY <1>1, <3>1, SameCovers
    <2>2. BatchCovered(batch, mgr)'
        <3>1. BatchCovered(batch, mgr)
            BY <1>16 DEF OutputsInv
        <3>2. \A f \in Range(batch) : \A i \in Window(f.req, f.from, f.to) : HashOf(f.req, i) \in Hashes
            BY <1>4, CoveredHashes DEF BatchIn
        <3>3. BatchCovered(batch, mgr')
            BY <1>1, <1>8, <3>1, <3>2 DEF BatchCovered
        <3> QED BY <1>1, <3>3, SameCovers
    <2>3. BatchBefore'
        <3>1. \A f \in Range(batch) : \E j \in DOMAIN running : j < idx /\ running[j] = f.req
            BY <1>1, <1>16 DEF OutputsInv, BatchBefore
        <3>2. idx <= idx'
            BY <1>1, <1>5
        <3>3. running \in Seq(Requests)
            BY <1>4 DEF QueuesRight
        <3>4. \A j \in DOMAIN running : j < idx => j < idx'
            BY <1>1, <1>5, <3>2, <3>3
        <3> QED BY <1>1, <1>2, <1>5, <1>11, <3>1, <3>4 DEF BatchBefore, r
    <2>4. WorkerFollows'
        <3>1. PICK gone : mgr'.cached = mgr.cached \ gone /\ mgr'.freed = mgr.freed \cup gone
            BY <1>1, <1>8 DEF Evicted
        <3>2. Promised(mgr', batch')
            BY <1>1, <1>16, <3>1 DEF OutputsInv, WorkerFollows, Promised
        <3> QED BY <1>1, <1>16, <3>2, SameFollower DEF OutputsInv
    <2> QED BY <2>1, <2>2, <2>3, <2>4 DEF OutputsInv
<1> QED BY <1>3, <1>9, <1>12, <1>13, <1>14, <1>15, <1>16 DEF CacheInv

LEMMA ScheduleRunningKept ==
    ASSUME Decoding, CacheInv, ScheduleRunning
    PROVE  CacheInv' /\ (OutputsInv => OutputsInv')
<1> DEFINE r == plan.req
           c == computed[r]
           is == plan.inputs
           x == AllocateAll(mgr, r, is)
           f == Frame(r, c, plan.n, is)
           fs == Append(batch, f)
<1>1. /\ UNCHANGED <<config, queue, ran, reqVars, outputs>>
      /\ batch' = fs /\ mgr' = x /\ tokens' = tokens - plan.n
      /\ compute' = (IF is = <<>> THEN compute ELSE plan.budget)
      /\ phase = "running" /\ phase' = "running" /\ plan # NoPlan /\ plan' = NoPlan
      /\ idx' = idx + 1
    BY DEF ScheduleRunning
<1>2. /\ running' = running /\ computed' = computed
    BY <1>1 DEF reqVars
<1>3. QueuesRight' /\ Unfinished' = Unfinished
    BY <1>1, SameQueues DEF CacheInv
<1>4. /\ Books(mgr, Unfinished) /\ QueuesRight /\ PhasesRight /\ BatchIn(batch, mgr, Range(running))
      /\ StepsRight /\ WorkerFits /\ Accounted(mgr, batch)
    BY DEF CacheInv, BatchRight, WorkerFits
<1>5. /\ idx \in Nat /\ tokens \in Nat /\ compute \in Int
      /\ Cardinality(Of(batch)) \in Nat /\ Cardinality(Of(batch)) < idx
      /\ r \in Range(running) /\ plan.n \in Nat \ {0} /\ plan.n <= tokens /\ plan.budget \in Int
      /\ c + plan.n <= Prompt[r] /\ RoomFor(mgr, r, is)
    <2>1. Cardinality(Of(batch)) \in Nat
        BY <1>4, OfFinite DEF BatchIn
    <2> QED BY <1>1, <1>4, <2>1 DEF PhasesRight
<1>6. r \in Requests /\ r \in Unfinished /\ Range(running) \cup {r} = Range(running)
    BY <1>4, <1>5 DEF QueuesRight, Unfinished
<1>7. c \in Nat
    BY <1>4, <1>6 DEF QueuesRight
<1> DEFINE n == plan.n
<1>8. n \in Nat /\ c + n <= Prompt[r]
    BY <1>5
<1> HIDE DEF n, c, r, is
<1>9. FrameAdded(fs, x, mgr, f)
    <2>1. RoomFor(mgr, r, is)
        BY <1>5
    <2>2. f = Frame(r, c, n, is)
        BY DEF n
    <2> HIDE DEF f
    <2> QED BY <1>4, <1>6, <1>7, <1>8, <2>1, <2>2, BatchAppend
<1>10. f.req = r /\ f.from = c /\ f.to = c + plan.n /\ f.inputs = is
    BY DEF Frame
<1> HIDE DEF f, fs, x
<1>17. /\ Books(x, Unfinished) /\ BatchIn(fs, x, Range(running) \cup {r}) /\ Accounted(x, fs)
       /\ Range(fs) = Range(batch) \cup {f}
       /\ EncodedBy(fs) = EncodedBy(batch) \cup HashesOf(r, Range(is))
       /\ Cardinality(Of(fs)) <= Cardinality(Of(batch)) + 1
       /\ x.cached = mgr.cached \cup HashesOf(r, Range(is)) /\ x.freed = mgr.freed
       /\ \A h \in Hashes : mgr.refs[h] \subseteq x.refs[h]
       /\ \A h \in HashesOf(r, Range(is)) : r \in x.refs[h]
    BY <1>9, <1>10 DEF FrameAdded
<1>11. Books(mgr, Unfinished)'
    BY <1>1, <1>3, <1>17, SameBooks
<1>12. PhasesRight'
    <2>1. Of(batch)' = Of(fs)
        BY <1>1
    <2>2. Cardinality(Of(fs)) \in Nat
        BY <1>17, OfFinite DEF BatchIn
    <2>3. Cardinality(Of(fs)) < idx'
        BY <1>1, <1>5, <1>17, <2>2
    <2>4. tokens' \in Nat /\ idx' \in Nat /\ compute' \in Int
        BY <1>1, <1>5
    <2> QED BY <1>1, <2>1, <2>3, <2>4 DEF PhasesRight
<1>13. BatchRight'
    BY <1>1, <1>2, <1>6, <1>17, SameFrames
<1>14. StepsRight'
    BY <1>1, <1>4, SameSteps
<1>15. WorkerFits'
    BY <1>1, <1>4, <1>17, SameWorker
<1>16. ASSUME OutputsInv PROVE OutputsInv'
    <2>1. PlanCovers'
        BY <1>1, SameCovers
    <2>2. BatchCovered(batch, mgr)'
        <3>1. \A g \in Range(batch) : \A i \in Window(g.req, g.from, g.to) : g.req \in x.refs[HashOf(g.req, i)]
            <4>1. BatchCovered(batch, mgr)
                BY <1>16 DEF OutputsInv
            <4>2. \A g \in Range(batch) : \A i \in Window(g.req, g.from, g.to) : HashOf(g.req, i) \in Hashes
                BY <1>4, CoveredHashes DEF BatchIn
            <4> QED BY <1>17, <4>1, <4>2 DEF BatchCovered
        <3>2. \A i \in Window(f.req, f.from, f.to) : f.req \in x.refs[HashOf(f.req, i)]
            <4> SUFFICES ASSUME NEW i \in Window(r, c, c + plan.n) PROVE r \in x.refs[HashOf(r, i)]
                BY <1>10
            <4>1. Covered(mgr, r, is, i)
                BY <1>1, <1>16 DEF OutputsInv, PlanCovers, PlanCovered, r, c, is
            <4>2. HashOf(r, i) \in Hashes
                BY <1>6, SetUp DEF Window
            <4> QED BY <1>17, <4>1, <4>2 DEF Covered
        <3>3. BatchCovered(fs, x)
            BY <1>17, <3>1, <3>2 DEF BatchCovered
        <3> QED BY <1>1, <3>3, SameCovers
    <2>3. BatchBefore'
        <3>1. /\ \A g \in Range(batch) : \E j \in DOMAIN running : j < idx /\ running[j] = g.req
              /\ idx \in DOMAIN running /\ running[idx] = r
            BY <1>1, <1>16 DEF OutputsInv, BatchBefore, r
        <3>2. running \in Seq(Requests)
            BY <1>4 DEF QueuesRight
        <3>3. idx < idx' /\ \A j \in DOMAIN running : j < idx => j < idx'
            BY <1>1, <1>5, <3>2
        <3>4. \A g \in Range(fs) : \E j \in DOMAIN running : j < idx' /\ running[j] = g.req
            BY <1>17, <1>10, <3>1, <3>3
        <3> QED BY <1>1, <1>2, <3>4 DEF BatchBefore
    <2>4. WorkerFollows'
        <3>1. Promised(mgr', batch')
            BY <1>1, <1>17, <1>16 DEF OutputsInv, WorkerFollows, Promised
        <3> QED BY <1>1, <1>16, <3>1, SameFollower DEF OutputsInv
    <2> QED BY <2>1, <2>2, <2>3, <2>4 DEF OutputsInv
<1> QED BY <1>3, <1>11, <1>12, <1>13, <1>14, <1>15, <1>16 DEF CacheInv

\* Without its last entry, a list keeps the others in their places.
LEMMA WithoutLast ==
    ASSUME NEW T, NEW s \in Seq(T), s # <<>>, IsInjective(s)
    PROVE  LET w == Without(s, Last(s))
           IN  Len(w) = Len(s) - 1 /\ \A j \in 1..(Len(s) - 1) : w[j] = s[j]
<1> DEFINE n == Len(s)
           S == Range(s) \ {Last(s)}
<1>1. n \in Nat \ {0} /\ DOMAIN s = 1..n /\ n \in 1..n /\ Last(s) = s[n]
    BY DEF Last
<1>2. PICK kept : /\ kept[0] = <<>> /\ kept[n] = Filter(s, S)
                  /\ \A i \in 1..n : kept[i] = IF s[i] \in S THEN Append(kept[i - 1], s[i])
                                                            ELSE kept[i - 1]
    BY FilterSteps
<1>3. \A i \in 1..(n - 1) : s[i] \in S /\ i \in 1..n
    BY <1>1 DEF IsInjective, Range
<1>4. s[n] \notin S
    BY <1>1
<1> HIDE DEF S
<1> DEFINE Good(i) == i <= n - 1 => /\ kept[i] \in Seq(T) /\ Len(kept[i]) = i
                                    /\ \A j \in 1..i : kept[i][j] = s[j]
           Y == {i \in Nat : Good(i)}
<1>5. 0 \in Y
    <2>1. kept[0] \in Seq(T) /\ Len(kept[0]) = 0
        BY <1>2
    <2>2. 1..0 = {}
        OBVIOUS
    <2> QED BY <2>1, <2>2
<1>6. ASSUME NEW i \in Nat, i \in Y PROVE i + 1 \in Y
    <2> SUFFICES ASSUME i + 1 <= n - 1 PROVE Good(i + 1)
        OBVIOUS
    <2>1. /\ i + 1 \in 1..(n - 1) /\ (i + 1) - 1 = i /\ i <= n - 1
          /\ s[i + 1] \in T
        BY <1>1
    <2>2. kept[i + 1] = Append(kept[i], s[i + 1])
        BY <1>2, <1>3, <2>1
    <2>3. /\ kept[i] \in Seq(T) /\ Len(kept[i]) = i
          /\ \A j \in 1..i : kept[i][j] = s[j]
        BY <1>6, <2>1
    <2> QED BY <2>1, <2>2, <2>3
<1> HIDE DEF Y
<1>7. n - 1 \in Y
    <2>1. Nat \subseteq Y
        BY <1>5, <1>6, SetInduction
    <2> QED BY <1>1, <2>1
<1>8. /\ kept[n - 1] \in Seq(T) /\ Len(kept[n - 1]) = n - 1
      /\ \A j \in 1..(n - 1) : kept[n - 1][j] = s[j]
    <2>1. Good(n - 1)
        BY <1>7 DEF Y
    <2>2. n - 1 <= n - 1
        BY <1>1
    <2> QED BY <2>1, <2>2
<1>9. kept[n] = kept[n - 1]
    BY <1>1, <1>2, <1>4
<1>10. Without(s, Last(s)) = kept[n]
    BY <1>2 DEF Without, S
<1> QED BY <1>8, <1>9, <1>10

\* There is a request to preempt while any is running.
LEMMA VictimRuns ==
    ASSUME config \in Configs, running \in Seq(Requests), running # <<>>
    PROVE  Victim \in Range(running)
<1> DEFINE n == Len(running)
           Last2(k, v) == /\ v \in Requests
                          /\ \E j \in 1..k : running[j] = v
                          /\ \A j \in 1..k : running[j] = v \/ Less(running[j], v)
           Y == {k \in Nat : k <= n => k = 0 \/ \E v : Last2(k, v)}
<1>1. n \in Nat \ {0} /\ DOMAIN running = 1..n /\ \A j \in 1..n : running[j] \in Requests
    OBVIOUS
<1>2. \A q, v \in Requests : /\ Less(q, v) \/ q = v \/ Less(v, q)
                             /\ \A x \in Requests : Less(q, v) /\ Less(v, x) => Less(q, x)
    <2>1. \A q \in Requests : q \in Nat /\ Priority[q] \in Int
        BY RequestAssumption DEF Priority
    <2> QED BY <2>1 DEF Less
<1>3. Nat \subseteq Y
    <2>1. 0 \in Y
        OBVIOUS
    <2>2. ASSUME NEW k \in Nat, k \in Y PROVE k + 1 \in Y
        <3> SUFFICES ASSUME k + 1 <= n PROVE \E v : Last2(k + 1, v)
            OBVIOUS
        <3> DEFINE q == running[k + 1]
        <3>1. k <= n /\ k + 1 \in 1..n /\ q \in Requests
            BY <1>1
        <3>2. \A j \in 1..(k + 1) : j \in 1..k \/ j = k + 1
            OBVIOUS
        <3>3. \A j \in 1..k : running[j] \in Requests /\ j \in 1..(k + 1)
            BY <1>1, <3>1
        <3>4. CASE k = 0
            <4>1. Last2(1, q)
                <5>1. \A j \in 1..1 : j = 1
                    OBVIOUS
                <5> QED BY <3>1, <3>4, <5>1
            <4> QED BY <3>4, <4>1
        <3>5. CASE k # 0
            <4>1. PICK v : Last2(k, v)
                BY <2>2, <3>1, <3>5
            <4>2. CASE Less(v, q)
                <5>1. Last2(k + 1, q)
                    BY <1>2, <3>1, <3>2, <3>3, <4>1, <4>2
                <5> QED BY <5>1
            <4>3. CASE ~Less(v, q)
                <5>1. q = v \/ Less(q, v)
                    BY <1>2, <3>1, <4>1, <4>3
                <5>2. Last2(k + 1, v)
                    BY <3>2, <3>3, <4>1, <5>1
                <5> QED BY <5>2
            <4> QED BY <4>2, <4>3
        <3> HIDE DEF Last2
        <3> QED BY <3>4, <3>5
    <2> HIDE DEF Y
    <2> QED BY <2>1, <2>2, SetInduction
<1>4. PICK v : Last2(n, v)
    BY <1>1, <1>3
<1>5. v \in Range(running) /\ \A q \in Range(running) : q = v \/ Less(q, v)
    BY <1>1, <1>4 DEF Range
<1>6. Last(running) \in Range(running)
    BY <1>1 DEF Last, Range
<1> QED BY <1>5, <1>6 DEF Victim

LEMMA PreemptKept ==
    ASSUME Decoding, CacheInv, PreemptFor
    PROVE  CacheInv' /\ (~ByPriority /\ OutputsInv => OutputsInv')
<1> DEFINE v == Victim
           mine == {f \in Range(batch) : f.req = v}
           back == IF mine = {} THEN Frame(v, 0, 0, <<>>) ELSE CHOOSE f \in mine : TRUE
           x == Free(mgr, v)
           fs == Filter(batch, Range(batch) \ mine)
           p == plan.req
<1>1. /\ UNCHANGED <<config, queue, ran, outputs>>
      /\ phase = "running" /\ plan # NoPlan
      /\ running' = Without(running, v) /\ waiting' = Prepended(waiting, v)
      /\ status' = [status EXCEPT ![v] = "waiting"] /\ computed' = [computed EXCEPT ![v] = 0]
      /\ mgr' = x /\ batch' = fs
      /\ tokens' = tokens + back.to - back.from
      /\ compute' = compute + Sizes({HashOf(v, i) : i \in Range(back.inputs)})
      /\ idx' = IF mine # {} THEN idx - 1 ELSE idx
    BY DEF PreemptFor
<1>2. IF v = p THEN phase' = "waiting" /\ plan' = NoPlan
               ELSE phase' = "running" /\ plan' = plan
    BY <1>1 DEF PreemptFor
<1>4. /\ Books(mgr, Unfinished) /\ QueuesRight /\ PhasesRight /\ BatchIn(batch, mgr, Range(running))
      /\ StepsRight /\ WorkerFits /\ Accounted(mgr, batch) /\ config \in Configs
    BY DEF CacheInv, BatchRight, WorkerFits, Decoding
<1>5. /\ idx \in Nat /\ tokens \in Nat /\ compute \in Int
      /\ IsFiniteSet(Of(batch)) /\ Cardinality(Of(batch)) \in Nat /\ Cardinality(Of(batch)) < idx
      /\ p \in Range(running) /\ plan.n \in Nat \ {0} /\ plan.n <= tokens /\ plan.budget \in Int
      /\ computed[p] + plan.n <= Prompt[p] /\ RoomFor(mgr, p, plan.inputs)
    <2>1. IsFiniteSet(Of(batch)) /\ Cardinality(Of(batch)) \in Nat
        BY <1>4, OfFinite DEF BatchIn
    <2> QED BY <1>1, <1>4, <2>1 DEF PhasesRight
<1>6. /\ running \in Seq(Requests) /\ IsInjective(running) /\ running # <<>>
      /\ waiting \in Seq(Requests) /\ IsInjective(waiting)
    <2>1. running \in Seq(Requests) /\ IsInjective(running)
          /\ waiting \in Seq(Requests) /\ IsInjective(waiting)
        BY <1>4 DEF QueuesRight
    <2>2. Range(<<>>) = {}
        BY DEF Range
    <2> QED BY <1>5, <2>1, <2>2
<1>7. v \in Range(running) /\ v \in Requests /\ v \notin Range(waiting) /\ status[v] = "running"
    <2>1. v \in Range(running)
        BY <1>4, <1>6, VictimRuns
    <2> QED BY <1>4, <2>1 DEF QueuesRight
<1> HIDE DEF v
<1>8. /\ Books(x, Unfinished)
      /\ x.cached = mgr.cached /\ x.freed = mgr.freed /\ x.free = mgr.free
      /\ \A h \in Hashes : x.refs[h] = mgr.refs[h] \ {v}
    <2>1. GivenUp(x, mgr, Unfinished, v)
        BY <1>4, <1>7, FreeGivesUp
    <2> HIDE DEF x
    <2> QED BY <2>1 DEF GivenUp
<1> HIDE DEF x
<1>9. FramesRight(batch) /\ batch \in Seq(Frames)
    BY <1>4 DEF BatchIn, FramesRight
<1>10. fs \in Seq(Frames) /\ Range(fs) = Range(batch) \ mine
    <2>1. fs \in Seq(Frames) /\ Range(fs) = Range(batch) \cap (Range(batch) \ mine)
        BY <1>9, FilterFacts
    <2> QED BY <2>1
<1>11. Of(fs) = Of(batch) \ {v}
    BY <1>10 DEF Of
<1> HIDE DEF fs
<1>12. /\ back.from \in Nat /\ back.to \in Nat /\ back.from <= back.to
       /\ Range(back.inputs) \subseteq DOMAIN Features[v]
    <2>1. CASE mine = {}
        <3>1. back = Frame(v, 0, 0, <<>>)
            BY <2>1
        <3>2. back.from = 0 /\ back.to = 0 + 0 /\ back.inputs = <<>>
            BY <3>1 DEF Frame
        <3>3. Range(<<>>) = {}
            BY DEF Range
        <3> HIDE DEF back
        <3> QED BY <3>2, <3>3
    <2>2. CASE mine # {}
        <3>1. back \in mine
            BY <2>2
        <3> HIDE DEF back
        <3>2. back \in Range(batch) /\ back.req = v
            BY <3>1
        <3>3. back \in Frames
            BY <1>9, <3>2, RangeFinite
        <3> QED BY <1>9, <3>2, <3>3 DEF FramesRight, Frames
    <2> QED BY <2>1, <2>2
<1> HIDE DEF back
<1>13. tokens' \in Nat /\ tokens' >= tokens /\ compute' \in Int
    <2>1. Sizes(HashesOf(v, Range(back.inputs))) \in Nat
        BY <1>7, <1>12, ItemsFinite
    <2>2. compute' = compute + Sizes(HashesOf(v, Range(back.inputs)))
        BY <1>1 DEF HashesOf
    <2>3. tokens' = tokens + back.to - back.from
        BY <1>1
    <2> QED BY <1>5, <1>12, <2>1, <2>2, <2>3
<1>14. idx' \in Nat /\ Cardinality(Of(fs)) < idx'
    <2>1. CASE mine = {}
        <3>1. v \notin Of(batch)
            BY <2>1 DEF Of
        <3>2. Of(fs) = Of(batch) /\ idx' = idx
            BY <1>1, <1>11, <2>1, <3>1
        <3> QED BY <1>5, <3>2
    <2>2. CASE mine # {}
        <3>1. v \in Of(batch) /\ idx' = idx - 1
            BY <1>1, <2>2 DEF Of
        <3> DEFINE old == Of(batch)
        <3>2. IsFiniteSet(old) /\ Cardinality(old) \in Nat /\ v \in old /\ Cardinality(old) < idx
            BY <1>5, <3>1
        <3>3. Of(fs) = old \ {v}
            BY <1>11
        <3> HIDE DEF old
        <3>4. Cardinality(old \ {v}) = Cardinality(old) - 1 /\ IsFiniteSet(old \ {v})
            BY <3>2, FS_RemoveElement
        <3>5. Cardinality(old \ {v}) \in Nat
            BY <3>4, FS_CardinalityType
        <3> QED BY <1>5, <3>1, <3>2, <3>3, <3>4, <3>5
    <2> QED BY <2>1, <2>2
<1>15. /\ Without(running, v) \in Seq(Requests) /\ Range(Without(running, v)) = Range(running) \ {v}
       /\ IsInjective(Without(running, v))
    BY <1>6, WithoutFacts
<1>16. /\ Prepended(waiting, v) \in Seq(Requests) /\ IsInjective(Prepended(waiting, v))
       /\ Range(Prepended(waiting, v)) = Range(waiting) \cup {v}
    BY <1>6, <1>7, PrependedKept
<1>17. Unfinished' = Unfinished
    BY <1>1, <1>4, <1>7 DEF Unfinished, QueuesRight
<1>18. QueuesRight'
    <2>1. status' \in [Requests -> {"new", "waiting", "running", "finished"}]
        BY <1>1, <1>4, <1>7 DEF QueuesRight
    <2>2. Range(running') = {r \in Requests : status'[r] = "running"}
        BY <1>1, <1>4, <1>7, <1>15 DEF QueuesRight
    <2>3. Range(waiting') = {r \in Requests : status'[r] = "waiting"}
        BY <1>1, <1>4, <1>7, <1>16 DEF QueuesRight
    <2>4. computed' \in [Requests -> Nat] /\ \A r \in Requests : computed'[r] <= Prompt'[r]
        <3>1. Prompt[v] \in Nat /\ Prompt' = Prompt
            BY <1>1, <1>7, SetUp, SameConfig
        <3>2. computed \in [Requests -> Nat] /\ \A r \in Requests : computed[r] <= Prompt[r]
            BY <1>4 DEF QueuesRight
        <3>3. computed' \in [Requests -> Nat]
            BY <1>1, <3>2
        <3>4. ASSUME NEW r \in Requests PROVE computed'[r] <= Prompt[r]
            <4>1. computed'[r] = IF r = v THEN 0 ELSE computed[r]
                BY <1>1, <3>2, <3>4
            <4>2. computed[r] <= Prompt[r] /\ 0 <= Prompt[v]
                BY <3>1, <3>2
            <4> QED BY <4>1, <4>2
        <3> QED BY <3>1, <3>3, <3>4
    <2> QED BY <1>1, <1>15, <1>16, <2>1, <2>2, <2>3, <2>4 DEF QueuesRight
<1>19. Books(mgr, Unfinished)'
    BY <1>1, <1>8, <1>17, SameBooks
<1>20. \A f \in Range(batch) : \A i \in Range(f.inputs) :
          HashOf(f.req, i) \in Hashes /\ f.req \in Requests
    <2>1. \A f \in Range(batch) : f.req \in Requests /\ HashesOf(f.req, Range(f.inputs)) \subseteq Hashes
        BY <1>9, CoveredHashes
    <2> QED BY <2>1 DEF HashesOf
<1>21. BatchIn(fs, x, Range(running'))
    <2>1. FramesRight(fs)
        BY <1>9, <1>10 DEF FramesRight
    <2>2. Of(fs) \subseteq Range(running')
        BY <1>1, <1>4, <1>11, <1>15 DEF BatchIn
    <2>3. ASSUME NEW f \in Range(fs), NEW i \in Range(f.inputs) PROVE f.req \in x.refs[HashOf(f.req, i)]
        <3>1. f \in Range(batch) /\ f.req # v
            BY <1>10, <2>3
        <3>2. f.req \in mgr.refs[HashOf(f.req, i)] /\ HashOf(f.req, i) \in Hashes
            BY <1>4, <1>20, <2>3, <3>1 DEF BatchIn
        <3> QED BY <1>8, <3>1, <3>2
    <2> QED BY <2>1, <2>2, <2>3 DEF BatchIn
<1>22. Accounted(x, fs)
    <2>1. EncodedBy(fs) \subseteq EncodedBy(batch)
        BY <1>10 DEF EncodedBy
    <2> QED BY <1>4, <1>8, <2>1 DEF Accounted
<1> HIDE DEF mine, fs
<1>23. PhasesRight'
    <2>1. ASSUME plan' # NoPlan
          PROVE  /\ plan'.req \in Range(running)'
                 /\ plan'.n \in Nat \ {0} /\ plan'.n <= tokens' /\ plan'.budget \in Int
                 /\ computed'[plan'.req] + plan'.n <= Prompt'[plan'.req]
                 /\ RoomFor(mgr, plan.req, plan.inputs)'
        <3>1. v # p /\ plan' = plan
            BY <1>2, <2>1
        <3>2. plan'.req \in Range(running)'
            BY <1>1, <1>5, <1>15, <3>1
        <3>3. RoomFor(x, p, plan.inputs)
            BY <1>5, <1>8 DEF RoomFor
        <3>4. RoomFor(mgr, plan.req, plan.inputs)'
            BY <1>1, <3>1, <3>3, SameRoom
        <3>5. plan'.n <= tokens'
            BY <1>5, <1>13, <3>1
        <3>6. p \in Requests
            BY <1>4, <1>5 DEF QueuesRight
        <3>7. computed'[p] = computed[p]
            BY <1>1, <1>4, <3>1, <3>6 DEF QueuesRight
        <3> QED BY <1>1, <1>5, <3>1, <3>2, <3>4, <3>5, <3>7, SameConfig
    <2>2. Of(batch)' = Of(fs)
        BY <1>1
    <2>3. phase' \in {"running", "waiting"} /\ (phase' # "running" => plan' = NoPlan)
        BY <1>2
    <2> QED BY <1>13, <1>14, <2>1, <2>2, <2>3 DEF PhasesRight
<1>24. BatchRight'
    BY <1>1, <1>21, SameFrames
<1>25. StepsRight'
    <2>1. Len(queue) < Depth
        BY <1>1, <1>4 DEF StepsRight
    <2> QED BY <1>1, <1>4, <2>1, SameSteps
<1>26. WorkerFits'
    BY <1>1, <1>4, <1>22, SameWorker
<1>27. ASSUME ~ByPriority, OutputsInv PROVE OutputsInv'
    <2> DEFINE n == Len(running)
    <2>1. /\ n \in Nat \ {0} /\ DOMAIN running = 1..n /\ v = running[n]
          /\ v = Last(running)
        BY <1>6, <1>27 DEF v, Victim, Last
    <2>2. /\ \A f \in Range(batch) : \E j \in DOMAIN running : j < idx /\ running[j] = f.req
          /\ idx \in DOMAIN running /\ running[idx] = p
        BY <1>1, <1>27 DEF OutputsInv, BatchBefore
    <2>3. \A j, k \in DOMAIN running : running[j] = running[k] => j = k
        BY <1>6 DEF IsInjective
    <2>4. \A f \in Range(batch) : f.req # v
        <3> SUFFICES ASSUME NEW f \in Range(batch), f.req = v PROVE FALSE
            OBVIOUS
        <3>1. PICK j \in DOMAIN running : j < idx /\ running[j] = v
            BY <2>2
        <3>2. n \in DOMAIN running /\ idx \in 1..n /\ j \in 1..n
            BY <2>1, <2>2, <3>1
        <3>3. j = n
            BY <2>1, <2>3, <3>1, <3>2
        <3> HIDE DEF n
        <3> QED BY <3>1, <3>2, <3>3
    <2>5. mine = {} /\ Range(fs) = Range(batch) /\ idx' = idx
        <3>1. mine = {}
            BY <2>4 DEF mine
        <3> QED BY <1>1, <1>10, <3>1
    <2>6. PlanCovers'
        <3>1. plan' # NoPlan => PlanCovered(plan', computed'[plan'.req], mgr')
            <4> SUFFICES ASSUME plan' # NoPlan PROVE PlanCovered(plan', computed'[plan'.req], mgr')
                OBVIOUS
            <4>1. v # p /\ plan' = plan
                BY <1>2
            <4>2. p \in Requests
                BY <1>4, <1>5 DEF QueuesRight
            <4>3. computed'[p] = computed[p]
                BY <1>1, <1>4, <4>1, <4>2 DEF QueuesRight
            <4>4. PlanCovered(plan, computed[p], mgr)
                BY <1>1, <1>27 DEF OutputsInv, PlanCovers
            <4>5. \A i \in Window(p, computed[p], computed[p] + plan.n) : HashOf(p, i) \in Hashes
                BY <4>2, SetUp DEF Window
            <4>6. PlanCovered(plan, computed[p], x)
                BY <1>8, <4>1, <4>4, <4>5 DEF PlanCovered, Covered
            <4> QED BY <1>1, <4>1, <4>3, <4>6
        <3> QED BY <1>1, <3>1, SameCovers
    <2>7. BatchCovered(batch, mgr)'
        <3>1. BatchCovered(batch, mgr)
            BY <1>27 DEF OutputsInv
        <3>2. \A f \in Range(batch) : \A i \in Window(f.req, f.from, f.to) : HashOf(f.req, i) \in Hashes
            BY <1>9, CoveredHashes
        <3>3. BatchCovered(fs, x)
            BY <1>8, <2>4, <2>5, <3>1, <3>2 DEF BatchCovered
        <3> QED BY <1>1, <3>3, SameCovers
    <2>8. BatchBefore'
        <3> SUFFICES ASSUME v # p PROVE BatchBefore'
            BY <1>2 DEF BatchBefore
        <3>1. idx < n /\ idx \in Nat
            <4>1. n \in DOMAIN running /\ idx \in 1..n /\ running[idx] # running[n]
                BY <2>1, <2>2
            <4> HIDE DEF n
            <4>2. n \in Nat /\ idx # n /\ idx \in 1..n
                <5>1. n \in Nat
                    BY <2>1
                <5> QED BY <4>1, <5>1
            <4>3. idx < n /\ idx \in Nat
                BY <4>2
            <4> QED BY <4>3 DEF n
        <3>2. Len(running') = n - 1 /\ \A j \in 1..(n - 1) : running'[j] = running[j]
            BY <1>1, <1>6, <2>1, WithoutLast
        <3>3. DOMAIN running' = 1..(n - 1)
            BY <1>1, <1>15, <3>2
        <3>4. \A j \in DOMAIN running : j <= idx => j \in DOMAIN running' /\ running'[j] = running[j]
            BY <2>1, <3>1, <3>2, <3>3
        <3>5. plan' = plan
            BY <1>2
        <3>6. idx \in DOMAIN running' /\ running'[idx] = p
            BY <2>2, <3>1, <3>4
        <3>7. \A f \in Range(fs) : \E j \in DOMAIN running' : j < idx /\ running'[j] = f.req
            BY <2>1, <2>2, <2>5, <3>1, <3>4
        <3> QED BY <1>1, <2>5, <3>5, <3>6, <3>7 DEF BatchBefore
    <2>9. WorkerFollows'
        <3>1. EncodedBy(fs) = EncodedBy(batch)
            BY <2>5 DEF EncodedBy
        <3>2. Promised(mgr', batch')
            BY <1>1, <1>8, <1>27, <3>1 DEF OutputsInv, WorkerFollows, Promised
        <3> QED BY <1>1, <1>27, <3>2, SameFollower DEF OutputsInv
    <2> QED BY <2>6, <2>7, <2>8, <2>9 DEF OutputsInv
<1> QED BY <1>18, <1>19, <1>23, <1>24, <1>25, <1>26, <1>27 DEF CacheInv
-----------------------------------------------------------------------------
(* The waiting requests.                                                   *)

LEMMA HeadTail ==
    ASSUME NEW T, NEW s \in Seq(T), s # <<>>
    PROVE  /\ Head(s) \in T /\ Head(s) \in Range(s) /\ Tail(s) \in Seq(T)
           /\ Range(Tail(s)) \subseteq Range(s)
           /\ IsInjective(s) => IsInjective(Tail(s)) /\ Range(Tail(s)) = Range(s) \ {Head(s)}
<1> DEFINE n == Len(s)
           w == Tail(s)
<1>1. n \in Nat \ {0} /\ DOMAIN s = 1..n /\ Head(s) = s[1] /\ 1 \in 1..n
    OBVIOUS
<1>2. w \in Seq(T) /\ Len(w) = n - 1 /\ \A i \in 1..(n - 1) : w[i] = s[i + 1]
    OBVIOUS
<1>3. DOMAIN w = 1..(n - 1)
    BY <1>2
<1> HIDE DEF n, w
<1>4. \A i \in 1..(n - 1) : i + 1 \in 1..n /\ i + 1 # 1
    BY <1>1
<1>5. \A i \in 1..n : i # 1 => i - 1 \in 1..(n - 1) /\ (i - 1) + 1 = i
    BY <1>1
<1>6. Head(s) \in T /\ Head(s) \in Range(s)
    BY <1>1 DEF Range
<1>7. Range(w) \subseteq Range(s)
    BY <1>1, <1>2, <1>3, <1>4 DEF Range
<1>8. ASSUME IsInjective(s) PROVE IsInjective(w) /\ Range(w) = Range(s) \ {Head(s)}
    <2>1. \A i, j \in 1..n : s[i] = s[j] => i = j
        BY <1>1, <1>8 DEF IsInjective
    <2>2. IsInjective(w)
        <3>1. ASSUME NEW i \in 1..(n - 1), NEW j \in 1..(n - 1), w[i] = w[j] PROVE i = j
            <4>1. i + 1 = j + 1
                BY <1>2, <1>4, <2>1, <3>1
            <4> QED BY <4>1
        <3> QED BY <1>3, <3>1 DEF IsInjective
    <2>3. Head(s) \notin Range(w)
        BY <1>1, <1>2, <1>3, <1>4, <2>1 DEF Range
    <2>4. ASSUME NEW i \in 1..n, i # 1 PROVE s[i] \in Range(w)
        <3>1. i - 1 \in 1..(n - 1) /\ w[i - 1] = s[i]
            BY <1>2, <1>5, <2>4
        <3> QED BY <1>3, <3>1 DEF Range
    <2>5. \A y \in Range(s) : y = Head(s) \/ y \in Range(w)
        BY <1>1, <2>4 DEF Range
    <2> QED BY <1>7, <2>2, <2>3, <2>5
<1> QED BY <1>2, <1>6, <1>7, <1>8 DEF w

\* The head r of the waiting queue, with c tokens in the prefix cache, planned as t.
Admissible(r, c, n, t) ==
    /\ r \in Requests /\ r \in Unfinished /\ r \notin Range(running) /\ status[r] = "waiting"
    /\ c \in Nat /\ n \in Nat /\ c + n <= Prompt[r] /\ n <= tokens
    /\ Books(t.m, Unfinished) /\ RoomFor(t.m, r, t.inputs)
    /\ t.n \in Nat /\ t.n <= n /\ t.budget \in Int
    /\ BatchIn(batch, t.m, Range(running)) /\ Accounted(t.m, batch)
    /\ Evicted(mgr, t.m)
    /\ \A h \in Hashes : mgr.refs[h] \subseteq t.m.refs[h]
    /\ t.n # 0 => \A i \in Window(r, c, c + t.n) : Covered(t.m, r, t.inputs, i)

LEMMA AdmitPlanned ==
    ASSUME Decoding, CacheInv, waiting # <<>>, NEW r, r = Head(waiting),
           NEW c \in PrefixHits, c < Prompt[r], NEW n, n = Min({Prompt[r] - c, tokens}),
           NEW t, t = TrySchedule(r, c, n)
    PROVE  Admissible(r, c, n, t)
<1>1. /\ Books(mgr, Unfinished) /\ QueuesRight /\ PhasesRight /\ BatchIn(batch, mgr, Range(running))
      /\ Accounted(mgr, batch)
    BY DEF CacheInv, BatchRight, WorkerFits
<1>2. r \in Requests /\ status[r] = "waiting"
    <2>1. r \in Range(waiting)
        BY <1>1, HeadTail DEF QueuesRight
    <2> QED BY <1>1, <2>1 DEF QueuesRight
<1>3. r \in Unfinished /\ r \notin Range(running)
    BY <1>1, <1>2 DEF QueuesRight, Unfinished
<1>4. c \in Nat /\ n \in Nat /\ c + n <= Prompt[r] /\ n <= tokens
    <2>1. c \in Nat /\ c <= Prompt[r] /\ Prompt[r] \in Nat /\ tokens \in Nat
        BY <1>1, <1>2, SetUp DEF PhasesRight
    <2>2. Prompt[r] - c \in Int /\ tokens \in Int
        BY <2>1
    <2>3. n = IF Prompt[r] - c <= tokens THEN Prompt[r] - c ELSE tokens
        BY <2>2, OfTwo
    <2> DEFINE all == Prompt[r]
    <2>4. all \in Nat /\ c \in Nat /\ c <= all /\ tokens \in Nat
          /\ n = IF all - c <= tokens THEN all - c ELSE tokens
        BY <2>1, <2>3
    <2> HIDE DEF all
    <2>5. c \in Nat /\ n \in Nat /\ c + n <= all /\ n <= tokens
        BY <2>4
    <2> QED BY <2>5 DEF all
<1>5. /\ Books(t.m, Unfinished) /\ RoomFor(t.m, r, t.inputs)
      /\ t.n \in Nat /\ t.n <= n /\ t.budget \in Int
      /\ Evicted(mgr, t.m)
      /\ \A h \in Hashes : mgr.refs[h] \subseteq t.m.refs[h]
      /\ t.n # 0 => \A i \in Window(r, c, c + t.n) : Covered(t.m, r, t.inputs, i)
    <2>1. compute \in Int
        BY <1>1 DEF PhasesRight
    <2> QED BY <1>1, <1>2, <1>3, <1>4, <2>1, TryKept
<1>6. BatchIn(batch, t.m, Range(running)) /\ Accounted(t.m, batch)
    BY <1>1, <1>5, TriedBatch
<1> QED BY <1>2, <1>3, <1>4, <1>5, <1>6 DEF Admissible

\* It is not admitted: the manager has evicted, and kept the references of the batch.
LEMMA RefusedKept ==
    ASSUME Decoding, CacheInv, phase = "waiting", UNCHANGED <<config, phase, idx, plan, queue, ran>>,
           UNCHANGED <<tokens, compute, batch, reqVars, outputs>>,
           Books(mgr', Unfinished), Evicted(mgr, mgr'), NEW r, r \notin Range(running),
           \A h \in Hashes : mgr.refs[h] \ {r} \subseteq mgr'.refs[h]
    PROVE  CacheInv' /\ (OutputsInv => OutputsInv')
<1>2. /\ running' = running /\ computed' = computed
    BY DEF reqVars
<1>3. QueuesRight' /\ Unfinished' = Unfinished
    BY SameQueues DEF CacheInv
<1>4. /\ QueuesRight /\ PhasesRight /\ BatchIn(batch, mgr, Range(running))
      /\ StepsRight /\ WorkerFits /\ Accounted(mgr, batch) /\ plan = NoPlan
    BY DEF CacheInv, BatchRight, WorkerFits, PhasesRight
<1>5. \A f \in Range(batch) : /\ f.req # r
                              /\ HashesOf(f.req, Range(f.inputs)) \subseteq Hashes
                              /\ \A i \in Window(f.req, f.from, f.to) : HashOf(f.req, i) \in Hashes
    BY <1>4, CoveredHashes DEF BatchIn, Of
<1>6. BatchIn(batch, mgr', Range(running))
    BY <1>4, <1>5 DEF BatchIn, HashesOf
<1>7. Accounted(mgr', batch)
    <2>1. PICK gone : mgr'.cached = mgr.cached \ gone /\ mgr'.freed = mgr.freed \cup gone
        BY DEF Evicted
    <2>2. EncodedBy(batch) \subseteq mgr'.cached
        BY <1>5, <1>6 DEF BatchIn, EncodedBy, HashesOf, Books
    <2> QED BY <1>4, <2>1, <2>2 DEF Accounted
<1>8. Books(mgr, Unfinished)'
    BY <1>3, SameBooks
<1>9. PhasesRight'
    BY <1>4 DEF PhasesRight
<1>10. BatchRight'
    BY <1>2, <1>6, SameFrames
<1>11. StepsRight'
    BY <1>4, SameSteps
<1>12. WorkerFits'
    BY <1>4, <1>7, SameWorker
<1>13. ASSUME OutputsInv PROVE OutputsInv'
    <2>1. PlanCovers'
        BY <1>4, SameCovers
    <2>2. BatchCovered(batch, mgr)'
        <3>1. BatchCovered(batch, mgr')
            BY <1>5, <1>13 DEF OutputsInv, BatchCovered
        <3> QED BY <3>1, SameCovers
    <2>3. BatchBefore'
        BY <1>4 DEF BatchBefore
    <2>4. WorkerFollows'
        <3>1. PICK gone : mgr'.cached = mgr.cached \ gone /\ mgr'.freed = mgr.freed \cup gone
            BY DEF Evicted
        <3>2. Promised(mgr', batch')
            BY <1>13, <3>1 DEF OutputsInv, WorkerFollows, Promised
        <3> QED BY <1>13, <3>2, SameFollower DEF OutputsInv
    <2> QED BY <2>1, <2>2, <2>3, <2>4 DEF OutputsInv
<1> QED BY <1>3, <1>8, <1>9, <1>10, <1>11, <1>12, <1>13 DEF CacheInv

\* It is admitted, and joins the batch.
LEMMA AdmittedKept ==
    ASSUME Decoding, CacheInv, phase = "waiting", waiting # <<>>, NEW r, r = Head(waiting),
           NEW c, NEW n, NEW t, Admissible(r, c, n, t), t.n > 0,
           UNCHANGED <<config, phase, idx, plan, queue, ran, outputs>>,
           batch' = Append(batch, Frame(r, c, t.n, t.inputs)),
           mgr' = AllocateAll(t.m, r, t.inputs), tokens' = tokens - t.n,
           compute' = IF t.inputs = <<>> THEN compute ELSE t.budget,
           computed' = [computed EXCEPT ![r] = c], status' = [status EXCEPT ![r] = "running"],
           running' = Append(running, r), waiting' = Tail(waiting)
    PROVE  CacheInv' /\ (OutputsInv => OutputsInv')
<1> DEFINE m == t.m
           is == t.inputs
           k == t.n
           x == AllocateAll(m, r, is)
           f == Frame(r, c, k, is)
           fs == Append(batch, f)
<1>1. /\ r \in Requests /\ r \in Unfinished /\ r \notin Range(running) /\ status[r] = "waiting"
      /\ c \in Nat /\ k \in Nat /\ k <= n /\ n \in Nat /\ c + n <= Prompt[r] /\ n <= tokens
      /\ Books(m, Unfinished) /\ RoomFor(m, r, is) /\ t.budget \in Int
      /\ BatchIn(batch, m, Range(running)) /\ Accounted(m, batch)
      /\ Evicted(mgr, m) /\ \A h \in Hashes : mgr.refs[h] \subseteq m.refs[h]
      /\ k # 0 => \A i \in Window(r, c, c + k) : Covered(m, r, is, i)
    BY DEF Admissible
<1>2. batch' = fs /\ mgr' = x /\ tokens' = tokens - k /\ k > 0
    OBVIOUS
<1>3. /\ QueuesRight /\ PhasesRight /\ BatchIn(batch, mgr, Range(running))
      /\ StepsRight /\ WorkerFits /\ Accounted(mgr, batch) /\ plan = NoPlan
      /\ tokens \in Nat /\ compute \in Int
    BY DEF CacheInv, BatchRight, WorkerFits, PhasesRight
<1> HIDE DEF m, is, k
<1>4. c + k <= Prompt[r] /\ k <= tokens
    <2> DEFINE all == Prompt[r]
    <2>1. all \in Nat /\ c + n <= all
        BY <1>1, SetUp
    <2> HIDE DEF all
    <2>2. c + k <= all /\ k <= tokens
        BY <1>1, <1>3, <2>1
    <2> QED BY <2>2 DEF all
<1>5. FrameAdded(fs, x, m, f)
    <2>1. f = Frame(r, c, k, is)
        OBVIOUS
    <2> HIDE DEF f
    <2> QED BY <1>1, <1>4, <2>1, BatchAppend
<1>6. f.req = r /\ f.from = c /\ f.to = c + k /\ f.inputs = is
    BY DEF Frame
<1> HIDE DEF f, fs, x
<1>7. /\ Books(x, Unfinished) /\ BatchIn(fs, x, Range(running) \cup {r}) /\ Accounted(x, fs)
      /\ Range(fs) = Range(batch) \cup {f}
      /\ EncodedBy(fs) = EncodedBy(batch) \cup HashesOf(r, Range(is))
      /\ x.cached = m.cached \cup HashesOf(r, Range(is)) /\ x.freed = m.freed
      /\ \A h \in Hashes : m.refs[h] \subseteq x.refs[h]
      /\ \A h \in HashesOf(r, Range(is)) : r \in x.refs[h]
    BY <1>5, <1>6 DEF FrameAdded
<1>8. /\ running \in Seq(Requests) /\ IsInjective(running)
      /\ Range(running) = {q \in Requests : status[q] = "running"}
      /\ waiting \in Seq(Requests) /\ IsInjective(waiting)
      /\ Range(waiting) = {q \in Requests : status[q] = "waiting"}
      /\ status \in [Requests -> {"new", "waiting", "running", "finished"}]
      /\ computed \in [Requests -> Nat] /\ \A q \in Requests : computed[q] <= Prompt[q]
    BY <1>3 DEF QueuesRight
<1>9. /\ running' \in Seq(Requests) /\ IsInjective(running')
      /\ Range(running') = Range(running) \cup {r}
    BY <1>1, <1>8, InjectiveAppend
<1>10. /\ waiting' \in Seq(Requests) /\ IsInjective(waiting')
       /\ Range(waiting') = Range(waiting) \ {r}
    BY <1>8, HeadTail
<1>11. \A q \in Requests : /\ status'[q] = (IF q = r THEN "running" ELSE status[q])
                            /\ computed'[q] = (IF q = r THEN c ELSE computed[q])
    BY <1>8
<1>12. Unfinished' = Unfinished
    BY <1>1, <1>11 DEF Unfinished
<1>13. QueuesRight'
    <2>1. status' \in [Requests -> {"new", "waiting", "running", "finished"}]
          /\ computed' \in [Requests -> Nat]
        BY <1>1, <1>8
    <2>2. Range(running') = {q \in Requests : status'[q] = "running"}
        BY <1>1, <1>8, <1>9, <1>11
    <2>3. Range(waiting') = {q \in Requests : status'[q] = "waiting"}
        BY <1>1, <1>8, <1>10, <1>11
    <2>4. c <= Prompt[r]
        <3> DEFINE all == Prompt[r]
        <3>1. all \in Nat /\ c + k <= all
            BY <1>1, <1>4, SetUp
        <3> HIDE DEF all
        <3>2. c <= all
            BY <1>1, <3>1
        <3> QED BY <3>2 DEF all
    <2>5. \A q \in Requests : computed'[q] <= Prompt'[q]
        BY <1>8, <1>11, <2>4, SameConfig
    <2> QED BY <1>9, <1>10, <2>1, <2>2, <2>3, <2>5 DEF QueuesRight
<1>14. Books(mgr, Unfinished)'
    BY <1>2, <1>7, <1>12, SameBooks
<1>15. PhasesRight'
    <2>1. tokens' \in Nat /\ compute' \in Int
        BY <1>1, <1>2, <1>3, <1>4
    <2> QED BY <1>3, <2>1 DEF PhasesRight
<1>16. BatchRight'
    BY <1>2, <1>7, <1>9, SameFrames
<1>17. StepsRight'
    BY <1>3, SameSteps
<1>18. WorkerFits'
    BY <1>2, <1>3, <1>7, SameWorker
<1>19. ASSUME OutputsInv PROVE OutputsInv'
    <2>1. PlanCovers'
        BY <1>3, SameCovers
    <2>2. BatchCovered(batch, mgr)'
        <3>1. \A g \in Range(batch) : \A i \in Window(g.req, g.from, g.to) : g.req \in x.refs[HashOf(g.req, i)]
            <4>1. BatchCovered(batch, mgr)
                BY <1>19 DEF OutputsInv
            <4>2. \A g \in Range(batch) : \A i \in Window(g.req, g.from, g.to) : HashOf(g.req, i) \in Hashes
                BY <1>3, CoveredHashes DEF BatchIn
            <4> QED BY <1>1, <1>7, <4>1, <4>2 DEF BatchCovered
        <3>2. \A i \in Window(f.req, f.from, f.to) : f.req \in x.refs[HashOf(f.req, i)]
            <4> SUFFICES ASSUME NEW i \in Window(r, c, c + k) PROVE r \in x.refs[HashOf(r, i)]
                BY <1>6
            <4>1. k # 0
                BY <1>1, <1>2
            <4>2. Covered(m, r, is, i)
                BY <1>1, <4>1
            <4>3. HashOf(r, i) \in Hashes
                BY <1>1, SetUp DEF Window
            <4> QED BY <1>7, <4>2, <4>3 DEF Covered
        <3>3. BatchCovered(fs, x)
            BY <1>7, <3>1, <3>2 DEF BatchCovered
        <3> QED BY <1>2, <3>3, SameCovers
    <2>3. BatchBefore'
        BY <1>3 DEF BatchBefore
    <2>4. WorkerFollows'
        <3>1. PICK gone : m.cached = mgr.cached \ gone /\ m.freed = mgr.freed \cup gone
            BY <1>1 DEF Evicted
        <3>2. Promised(mgr, batch)
            BY <1>19 DEF OutputsInv, WorkerFollows
        <3>3. Promised(x, fs)
            BY <1>7, <3>1, <3>2 DEF Promised
        <3> QED BY <1>2, <1>19, <3>3, SameFollower DEF OutputsInv
    <2> QED BY <2>1, <2>2, <2>3, <2>4 DEF OutputsInv
<1> QED BY <1>13, <1>14, <1>15, <1>16, <1>17, <1>18, <1>19 DEF CacheInv

LEMMA AdmitKept ==
    ASSUME Decoding, CacheInv, Admit
    PROVE  CacheInv' /\ (OutputsInv => OutputsInv')
<1> DEFINE r == Head(waiting)
<1>1. PICK c \in PrefixHits : c < Prompt[r] /\
        \E t \in {TrySchedule(r, c, Min({Prompt[r] - c, tokens}))} :
           \/ /\ t.n = 0
              /\ mgr' = t.m
              /\ UNCHANGED <<tokens, compute, batch, reqVars>>
           \/ /\ t.n > 0
              /\ mgr' = Free(t.m, r)
              /\ UNCHANGED <<tokens, compute, batch, reqVars>>
           \/ /\ t.n > 0
              /\ batch' = Append(batch, Frame(r, c, t.n, t.inputs))
              /\ mgr' = AllocateAll(t.m, r, t.inputs)
              /\ tokens' = tokens - t.n
              /\ compute' = IF t.inputs = <<>> THEN compute ELSE t.budget
              /\ computed' = [computed EXCEPT ![r] = c]
              /\ status' = [status EXCEPT ![r] = "running"]
              /\ running' = Append(running, r) /\ waiting' = Tail(waiting)
    BY ZenonT(60) DEF Admit
<1>2. /\ UNCHANGED <<config, phase, idx, plan, queue, ran, outputs>>
      /\ phase = "waiting" /\ waiting # <<>>
    BY DEF Admit
<1> DEFINE n == Min({Prompt[r] - c, tokens})
           t == TrySchedule(r, c, n)
<1>3. \/ t.n = 0 /\ mgr' = t.m /\ UNCHANGED <<tokens, compute, batch, reqVars>>
      \/ t.n > 0 /\ mgr' = Free(t.m, r) /\ UNCHANGED <<tokens, compute, batch, reqVars>>
      \/ /\ t.n > 0
         /\ batch' = Append(batch, Frame(r, c, t.n, t.inputs))
         /\ mgr' = AllocateAll(t.m, r, t.inputs)
         /\ tokens' = tokens - t.n
         /\ compute' = IF t.inputs = <<>> THEN compute ELSE t.budget
         /\ computed' = [computed EXCEPT ![r] = c]
         /\ status' = [status EXCEPT ![r] = "running"]
         /\ running' = Append(running, r) /\ waiting' = Tail(waiting)
    BY <1>1
<1>4. Admissible(r, c, n, t)
    <2>1. r = Head(waiting) /\ n = Min({Prompt[r] - c, tokens}) /\ t = TrySchedule(r, c, n)
          /\ c < Prompt[r]
        BY <1>1
    <2> HIDE DEF r, n, t
    <2> QED BY <1>2, <2>1, AdmitPlanned
<1> HIDE DEF n, t
<1>5. CASE t.n = 0 /\ mgr' = t.m /\ UNCHANGED <<tokens, compute, batch, reqVars>>
    <2>1. /\ Books(mgr', Unfinished) /\ Evicted(mgr, mgr') /\ r \notin Range(running)
          /\ \A h \in Hashes : mgr.refs[h] \ {r} \subseteq mgr'.refs[h]
        BY <1>4, <1>5 DEF Admissible
    <2> HIDE DEF r
    <2> QED BY <1>2, <1>5, <2>1, RefusedKept
<1>6. CASE t.n > 0 /\ mgr' = Free(t.m, r) /\ UNCHANGED <<tokens, compute, batch, reqVars>>
    <2> DEFINE m == t.m
    <2>1. /\ Books(m, Unfinished) /\ Evicted(mgr, m) /\ r \notin Range(running)
          /\ r \in Requests /\ \A h \in Hashes : mgr.refs[h] \subseteq m.refs[h]
        BY <1>4 DEF Admissible
    <2>2. mgr' = Free(m, r)
        BY <1>6
    <2> HIDE DEF r, m
    <2>3. GivenUp(mgr', m, Unfinished, r)
        BY <2>1, <2>2, FreeGivesUp
    <2>4. Books(mgr', Unfinished)
        BY <2>3 DEF GivenUp
    <2>5. Evicted(mgr, mgr')
        BY <2>1, <2>3 DEF Evicted, GivenUp
    <2>6. \A h \in Hashes : mgr.refs[h] \ {r} \subseteq mgr'.refs[h]
        BY <2>1, <2>3 DEF GivenUp
    <2> QED BY <1>2, <1>6, <2>1, <2>4, <2>5, <2>6, RefusedKept
<1>7. CASE /\ t.n > 0
           /\ batch' = Append(batch, Frame(r, c, t.n, t.inputs))
           /\ mgr' = AllocateAll(t.m, r, t.inputs)
           /\ tokens' = tokens - t.n
           /\ compute' = IF t.inputs = <<>> THEN compute ELSE t.budget
           /\ computed' = [computed EXCEPT ![r] = c]
           /\ status' = [status EXCEPT ![r] = "running"]
           /\ running' = Append(running, r) /\ waiting' = Tail(waiting)
    <2>1. r = Head(waiting)
        OBVIOUS
    <2> HIDE DEF r
    <2> QED BY <1>2, <1>4, <1>7, <2>1, AdmittedKept
<1> QED BY <1>3, <1>5, <1>6, <1>7
-----------------------------------------------------------------------------
(* The step is sent.                                                       *)

LEMMA WithAllocated ==
    ASSUME NEW m \in Managers, NEW v \in SUBSET Hashes
    PROVE  LET x == [m EXCEPT !.allocated = v]
           IN  /\ x \in Managers /\ x.allocated = v
               /\ x.cached = m.cached /\ x.refs = m.refs /\ x.ids = m.ids
               /\ x.freeable = m.freeable /\ x.freed = m.freed /\ x.free = m.free /\ x.spare = m.spare
BY DEF Managers

LEMMA TakeFreedKept ==
    ASSUME NEW live, NEW m, Books(m, live)
    PROVE  LET x == TakeFreed(m)
           IN  /\ Books(x, live) /\ x.cached = m.cached /\ x.refs = m.refs /\ x.freed = {}
<1> DEFINE x == TakeFreed(m)
           m1 == [m EXCEPT !.freed = m.allocated]
           x1 == [m1 EXCEPT !.allocated = {}]
<1>1. m \in Managers /\ m.allocated = {}
    BY DEF Books
<1>2. x = x1
    BY <1>1 DEF TakeFreed
<1>3. /\ m1 \in Managers /\ m1.freed = {} /\ m1.cached = m.cached /\ m1.refs = m.refs
      /\ m1.ids = m.ids /\ m1.freeable = m.freeable /\ m1.free = m.free /\ m1.spare = m.spare
    <2> DEFINE v == m.allocated
    <2>1. v \in SUBSET Hashes /\ v = {}
        BY <1>1
    <2> HIDE DEF v
    <2> QED BY <1>1, <2>1, WithFreed DEF v
<1> HIDE DEF m1
<1>4. /\ x1 \in Managers /\ x1.freed = {} /\ x1.cached = m.cached /\ x1.refs = m.refs
      /\ x1.ids = m.ids /\ x1.freeable = m.freeable /\ x1.free = m.free /\ x1.spare = m.spare
      /\ x1.allocated = {}
    BY <1>3, WithAllocated
<1> HIDE DEF x1, x
<1>5. Books(x, live)
    BY <1>2, <1>4 DEF Books
<1> QED BY <1>2, <1>4, <1>5 DEF x

LEMMA EncodedFrames == \A s : Encoded(s) = EncodedBy(s.frames)
BY DEF Encoded, EncodedBy, HashesOf

LEMMA AfterWhich ==
    /\ \A k : k = 0 => OutputsAfter(k) = outputs
    /\ \A k : k = 1 => OutputsAfter(k) = Execute(outputs, queue[ran + 1])
    /\ \A k : k = 2 => OutputsAfter(k) = Execute(Execute(outputs, queue[ran + 1]), queue[ran + 2])
BY DEF OutputsAfter

LEMMA ExecuteSame ==
    ASSUME config' = config
    PROVE  \A k : /\ k = 0 => OutputsAfter(k)' = outputs'
                  /\ k = 1 => OutputsAfter(k)' = Execute(outputs', queue'[ran' + 1])
                  /\ k = 2 => OutputsAfter(k)' = Execute(Execute(outputs', queue'[ran' + 1]), queue'[ran' + 2])
BY SameConfig DEF OutputsAfter, Execute, Encoded, HashOf

\* What the worker holds after k of the steps it has not run yet, with one more in flight.
LEMMA StepAdded ==
    ASSUME Decoding, NEW T, queue \in Seq(T), NEW s \in T, ran \in 0..Len(queue), Len(queue) < Depth,
           queue' = Append(queue, s), UNCHANGED <<config, ran, outputs>>,
           NEW l, l = Len(queue) - ran
    PROVE  /\ l \in {0, 1} /\ Len(queue') - ran' = l + 1 /\ Len(queue') = Len(queue) + 1
           /\ \A k \in 0..l : OutputsAfter(k)' = OutputsAfter(k)
           /\ \A k \in 1..l : queue'[ran' + k] = queue[ran + k]
           /\ queue'[ran' + (l + 1)] = s
           /\ \A k : k = l + 1 => OutputsAfter(k)' = (AtLast \ s.freed) \cup EncodedBy(s.frames)
           /\ AtLast' = (AtLast \ s.freed) \cup EncodedBy(s.frames)
           /\ AtLast = OutputsAfter(l)
<1>1. Depth \in {1, 2}
    BY SetUp
<1>2. Len(queue) \in Nat /\ ran \in Nat /\ ran <= Len(queue) /\ l \in {0, 1}
    BY <1>1
<1>3. /\ Len(queue') = Len(queue) + 1 /\ queue'[Len(queue) + 1] = s
      /\ \A j \in 1..Len(queue) : queue'[j] = queue[j]
    OBVIOUS
<1>4. Len(queue') - ran' = l + 1
    BY <1>2, <1>3
<1>5. ASSUME NEW k \in 1..l PROVE k = 1 /\ l = 1 /\ queue'[ran' + k] = queue[ran + k]
    <2>1. k = 1 /\ l = 1 /\ ran + 1 \in 1..Len(queue)
        BY <1>2
    <2> QED BY <1>3, <2>1
<1>6. queue'[ran' + (l + 1)] = s
    <2>1. ran' + (l + 1) = Len(queue) + 1
        BY <1>2
    <2> QED BY <1>3, <2>1
<1>7. ASSUME NEW k \in 0..l PROVE OutputsAfter(k)' = OutputsAfter(k)
    <2>1. k = 0 \/ (k = 1 /\ k \in 1..l)
        BY <1>2
    <2> QED BY <1>5, <2>1, ExecuteSame, AfterWhich
<1>8. AtLast = OutputsAfter(l)
    BY DEF AtLast
<1>9. ASSUME NEW k, k = l + 1
      PROVE  OutputsAfter(k)' = (AtLast \ s.freed) \cup EncodedBy(s.frames)
    <2>1. OutputsAfter(k)' = Execute(AtLast, s)
        <3>1. CASE l = 0
            <4>1. k = 1 /\ AtLast = outputs
                BY <1>8, <1>9, <3>1, AfterWhich
            <4>2. queue'[ran' + 1] = s
                BY <1>6, <3>1
            <4> QED BY <4>1, <4>2, ExecuteSame
        <3>2. CASE l = 1
            <4>1. k = 2 /\ AtLast = Execute(outputs, queue[ran + 1])
                BY <1>8, <1>9, <3>2, AfterWhich
            <4>2. queue'[ran' + 2] = s /\ queue'[ran' + 1] = queue[ran + 1]
                BY <1>5, <1>6, <3>2
            <4> QED BY <4>1, <4>2, ExecuteSame
        <3> QED BY <1>2, <3>1, <3>2
    <2> QED BY <2>1, EncodedFrames DEF Execute
<1>10. AtLast' = (AtLast \ s.freed) \cup EncodedBy(s.frames)
    <2> DEFINE k == l + 1
    <2>1. OutputsAfter(k)' = (AtLast \ s.freed) \cup EncodedBy(s.frames)
        BY <1>9
    <2>2. AtLast' = OutputsAfter(k)'
        BY <1>4 DEF AtLast, OutputsAfter
    <2> QED BY <2>1, <2>2
<1> QED BY <1>2, <1>3, <1>4, <1>5, <1>6, <1>7, <1>8, <1>9, <1>10

LEMMA EndScheduleKept ==
    ASSUME Decoding, CacheInv, EndSchedule
    PROVE  CacheInv' /\ (OutputsInv => OutputsInv')
<1> DEFINE s == [frames |-> batch, freed |-> mgr.freed]
           frameOf(r) == {f \in Range(batch) : f.req = r}
           x == TakeFreed(mgr)
           Steps == [frames : Seq(Frames), freed : SUBSET Hashes]
<1>1. /\ UNCHANGED <<config, ran, running, waiting, status, outputs>>
      /\ UNCHANGED <<idx, tokens, compute, plan>>
      /\ phase = "waiting" /\ batch' = <<>> /\ mgr' = x /\ queue' = Append(queue, s)
      /\ computed' = [r \in Requests |-> IF frameOf(r) = {} THEN computed[r]
                                         ELSE (CHOOSE f \in frameOf(r) : TRUE).to]
      /\ phase' = IF Len(queue) + 1 < Depth THEN "idle" ELSE "process"
    BY DEF EndSchedule
<1>2. /\ Books(mgr, Unfinished) /\ QueuesRight /\ PhasesRight /\ BatchIn(batch, mgr, Range(running))
      /\ StepsRight /\ WorkerFits /\ Accounted(mgr, batch) /\ plan = NoPlan
    BY <1>1 DEF CacheInv, BatchRight, WorkerFits, PhasesRight
<1>3. Unfinished' = Unfinished
    BY <1>1 DEF Unfinished
<1>4. FramesRight(batch) /\ batch \in Seq(Frames)
    BY <1>2 DEF BatchIn, FramesRight
<1>5. /\ queue \in Seq(Steps) /\ Len(queue) < Depth /\ ran \in 0..Len(queue)
      /\ \A k \in DOMAIN queue : FramesRight(queue[k].frames)
    BY <1>1, <1>2 DEF StepsRight
<1>6. s \in Steps /\ s.frames = batch /\ s.freed = mgr.freed
    BY <1>2, <1>4 DEF Books, Managers
<1>7. Books(x, Unfinished) /\ x.cached = mgr.cached /\ x.refs = mgr.refs /\ x.freed = {}
    <2> DEFINE live == Unfinished
    <2>1. Books(mgr, live)
        BY <1>2
    <2> HIDE DEF live
    <2>2. Books(x, live) /\ x.cached = mgr.cached /\ x.refs = mgr.refs /\ x.freed = {}
        BY <2>1, TakeFreedKept
    <2> QED BY <2>2 DEF live
<1> HIDE DEF s, x, Steps
<1>8. PICK l : l = Len(queue) - ran
    OBVIOUS
<1>9. /\ l \in {0, 1} /\ Len(queue') - ran' = l + 1 /\ Len(queue') = Len(queue) + 1
      /\ \A k \in 0..l : OutputsAfter(k)' = OutputsAfter(k)
      /\ \A k \in 1..l : queue'[ran' + k] = queue[ran + k]
      /\ queue'[ran' + (l + 1)] = s
      /\ \A k : k = l + 1 => OutputsAfter(k)' = (AtLast \ s.freed) \cup EncodedBy(s.frames)
      /\ AtLast' = (AtLast \ s.freed) \cup EncodedBy(s.frames)
      /\ AtLast = OutputsAfter(l)
    BY <1>1, <1>5, <1>6, <1>8, StepAdded
<1>10. AtLast' \subseteq mgr.cached
    BY <1>2, <1>6, <1>9 DEF Accounted
<1>11. Range(<<>>) = {} /\ Of(<<>>) = {} /\ EncodedBy(<<>>) = {}
    BY DEF Of, Range, EncodedBy
<1>12. QueuesRight'
    <2>1. \A r \in Requests : computed'[r] \in Nat /\ computed'[r] <= Prompt[r]
        <3> SUFFICES ASSUME NEW r \in Requests PROVE computed'[r] \in Nat /\ computed'[r] <= Prompt[r]
            OBVIOUS
        <3>1. CASE frameOf(r) = {}
            <4>1. computed'[r] = computed[r]
                BY <1>1, <3>1
            <4> QED BY <1>2, <4>1 DEF QueuesRight
        <3>2. CASE frameOf(r) # {}
            <4> DEFINE f == CHOOSE f \in frameOf(r) : TRUE
            <4>1. f \in frameOf(r) /\ computed'[r] = f.to
                BY <1>1, <3>2
            <4> HIDE DEF f
            <4>2. f \in Range(batch) /\ f.req = r
                BY <4>1
            <4>3. f \in Frames /\ f.to <= Prompt[f.req]
                BY <1>4, <4>2, RangeFinite DEF FramesRight
            <4> QED BY <4>1, <4>2, <4>3 DEF Frames
        <3> QED BY <3>1, <3>2
    <2>2. computed' \in [Requests -> Nat]
        BY <1>1, <2>1
    <2> QED BY <1>1, <1>2, <2>1, <2>2, SameConfig DEF QueuesRight
<1>13. Books(mgr, Unfinished)'
    BY <1>1, <1>3, <1>7, SameBooks
<1>14. PhasesRight'
    <2>1. phase' \in {"idle", "process"}
        BY <1>1
    <2> QED BY <1>1, <1>2, <2>1 DEF PhasesRight
<1>15. BatchRight'
    <2>1. BatchIn(<<>>, x, Range(running'))
        BY <1>11 DEF BatchIn, FramesRight
    <2> QED BY <1>1, <2>1, SameFrames
<1>16. StepsRight'
    <2>1. queue' \in Seq(Steps) /\ Len(queue) \in Nat /\ ran \in Nat /\ Depth \in Nat
        BY <1>1, <1>5, <1>6, SetUp
    <2>2. ASSUME NEW k \in DOMAIN queue' PROVE FramesRight(queue'[k].frames)
        <3>1. k \in 1..Len(queue) \/ k = Len(queue) + 1
            BY <1>9, <2>1
        <3>2. k \in 1..Len(queue) => k \in DOMAIN queue /\ queue'[k] = queue[k]
            BY <1>1, <1>5, <1>6
        <3>3. k = Len(queue) + 1 => queue'[k] = s
            BY <1>1, <1>5, <1>6
        <3> QED BY <1>4, <1>5, <1>6, <3>1, <3>2, <3>3
    <2>3. \A k \in DOMAIN queue' : FramesRight(queue[k].frames)'
        BY <1>1, <2>2, SameFrames
    <2>4. /\ ran' \in 0..Len(queue') /\ Len(queue') <= Depth
          /\ phase' # "process" => Len(queue') < Depth
        BY <1>1, <1>5, <1>9, <2>1
    <2>5. Depth' = Depth
        BY <1>1, SameConfig
    <2> QED BY <2>1, <2>3, <2>4, <2>5 DEF StepsRight, Steps
<1>17. WorkerFits'
    <2>1. /\ IsFiniteSet(mgr.cached) /\ mgr.cached \subseteq Hashes
          /\ Sizes(mgr.cached) \in Nat /\ Sizes(mgr.cached) <= CacheSize /\ CacheSize \in Nat
        BY <1>2, BooksFinite DEF Books
    <2> DEFINE last == AtLast'
    <2>2. IsFiniteSet(last) /\ last \subseteq Hashes /\ Sizes(last) <= CacheSize
        <3>1. last \subseteq mgr.cached
            BY <1>10
        <3> HIDE DEF last
        <3>2. IsFiniteSet(last) /\ Sizes(last) \in Nat /\ Sizes(last) <= Sizes(mgr.cached)
            BY <2>1, <3>1, SizesPart
        <3>3. IsFiniteSet(last) /\ last \subseteq Hashes /\ Sizes(last) <= CacheSize
            BY <2>1, <3>1, <3>2
        <3> QED BY <3>3 DEF last
    <2>3. \A k \in 0..l : /\ OutputsAfter(k) \subseteq Hashes /\ IsFiniteSet(OutputsAfter(k))
                          /\ Sizes(OutputsAfter(k)) <= CacheSize
        BY <1>2, <1>8 DEF WorkerFits
    <2>4. ASSUME NEW k \in 0..(l + 1)
          PROVE  /\ OutputsAfter(k)' \subseteq Hashes /\ IsFiniteSet(OutputsAfter(k)')
                 /\ Sizes(OutputsAfter(k)') <= CacheSize
        <3>1. CASE k = l + 1
            <4>1. OutputsAfter(k)' = last
                BY <1>9, <3>1
            <4> HIDE DEF last
            <4> QED BY <2>2, <4>1
        <3>2. CASE k \in 0..l
            <4>1. OutputsAfter(k)' = OutputsAfter(k)
                BY <1>9, <3>2
            <4> QED BY <2>3, <3>2, <4>1
        <3>3. k = l + 1 \/ k \in 0..l
            BY <1>9
        <3> QED BY <3>1, <3>2, <3>3
    <2>5. Accounted(mgr, batch)'
        <3>1. (AtLast' \ x.freed) \cup EncodedBy(<<>>) \subseteq x.cached
            BY <1>7, <1>10, <1>11
        <3>2. EncodedBy(batch)' = EncodedBy(<<>>)
            BY <1>1, SameFrames
        <3> QED BY <1>1, <3>1, <3>2 DEF Accounted
    <2>6. CacheSize' = CacheSize
        BY <1>1, SameConfig
    <2>7. \A k : /\ IsFiniteSet(OutputsAfter(k))' <=> IsFiniteSet(OutputsAfter(k)')
                 /\ Sizes(OutputsAfter(k))' = Sizes(OutputsAfter(k)')
        OBVIOUS
    <2>8. \A k \in 0..(Len(queue') - ran') :
              /\ OutputsAfter(k)' \subseteq Hashes /\ IsFiniteSet(OutputsAfter(k))'
              /\ Sizes(OutputsAfter(k))' <= CacheSize'
        BY <1>9, <2>4, <2>6, <2>7
    <2> QED BY <2>5, <2>8 DEF WorkerFits
<1>18. ASSUME OutputsInv PROVE OutputsInv'
    <2>1. PlanCovers'
        BY <1>1, <1>2, SameCovers
    <2>2. BatchCovered(batch, mgr)'
        <3>1. BatchCovered(<<>>, x)
            BY <1>11 DEF BatchCovered
        <3> QED BY <1>1, <3>1, SameCovers
    <2>3. BatchBefore'
        <3>1. phase' \in {"idle", "process"}
            BY <1>1
        <3> QED BY <1>1, <1>2, <3>1 DEF BatchBefore
    <2>4. mgr.cached \subseteq AtLast'
        BY <1>6, <1>9, <1>18 DEF OutputsInv, WorkerFollows, Promised
    <2>5. Promised(mgr, batch)'
        <3>1. x.cached \subseteq (AtLast' \ x.freed) \cup EncodedBy(<<>>)
            BY <1>7, <2>4
        <3>2. EncodedBy(batch)' = EncodedBy(<<>>)
            BY <1>1, SameFrames
        <3> QED BY <1>1, <3>1, <3>2 DEF Promised
    <2>6. ASSUME NEW k \in 1..(l + 1), NEW f \in Range(queue'[ran' + k].frames)
          PROVE  HashesOf(f.req, Window(f.req, f.from, f.to)) \subseteq OutputsAfter(k)'
        <3>1. CASE k = l + 1
            <4>1. f \in Range(batch)
                BY <1>6, <1>9, <2>6, <3>1
            <4>2. \A i \in Window(f.req, f.from, f.to) : f.req \in mgr.refs[HashOf(f.req, i)]
                BY <1>18, <4>1 DEF OutputsInv, BatchCovered
            <4>3. \A i \in Window(f.req, f.from, f.to) : HashOf(f.req, i) \in Hashes
                BY <1>4, <4>1, CoveredHashes
            <4>4. \A i \in Window(f.req, f.from, f.to) : HashOf(f.req, i) \in mgr.cached
                BY <1>2, <4>2, <4>3 DEF Books
            <4>5. OutputsAfter(k)' = AtLast'
                BY <1>9, <3>1
            <4> QED BY <2>4, <4>4, <4>5 DEF HashesOf
        <3>2. CASE k \in 1..l
            <4>1. OutputsAfter(k)' = OutputsAfter(k) /\ queue'[ran' + k] = queue[ran + k]
                BY <1>9, <3>2
            <4>2. f \in Range(queue[ran + k].frames)
                BY <2>6, <4>1
            <4>3. k \in 1..(Len(queue) - ran)
                BY <1>8, <3>2
            <4> QED BY <1>18, <4>1, <4>2, <4>3 DEF OutputsInv, WorkerFollows
        <3>3. k = l + 1 \/ k \in 1..l
            BY <1>9
        <3> QED BY <3>1, <3>2, <3>3
    <2>7. \A k : \A f : HashesOf(f.req, Window(f.req, f.from, f.to))'
                      = HashesOf(f.req, Window(f.req, f.from, f.to))
        BY <1>1, SameConfig DEF HashesOf, HashOf, Window, To, From
    <2>8. WorkerFollows'
        BY <1>9, <2>5, <2>6, <2>7 DEF WorkerFollows
    <2> QED BY <2>1, <2>2, <2>3, <2>8 DEF OutputsInv
<1> QED BY <1>12, <1>13, <1>14, <1>15, <1>16, <1>17, <1>18 DEF CacheInv
-----------------------------------------------------------------------------
(* The results of a step.                                                  *)

LEMMA FreeSome ==
    ASSUME Decoding, NEW live, NEW m, Books(m, live), NEW r \in Requests
    PROVE  LET x == FreePassed(m, r)
           IN  /\ Books(x, live) /\ x.cached = m.cached /\ x.freed = m.freed
               /\ \A h \in Hashes : x.refs[h] \subseteq m.refs[h]
<1> DEFINE is == {i \in CachedIds(m, r) : (EncDec /\ computed[r] > 0) \/ Passed(r, i)}
           x == FreePassed(m, r)
<1>1. x = FreeInputs(m, r, is)
    BY DEF FreePassed
<1> HIDE DEF is
<1>2. /\ Books(x, live) /\ x.cached = m.cached /\ x.freed = m.freed
      /\ \A h \in Hashes : x.refs[h] \subseteq m.refs[h]
    BY <1>1, FreeInputsKept
<1> QED BY <1>2

\* What update_from_output leaves of the manager m for the frame f.
Updated(x, m, live, f) ==
    /\ Books(x, live) /\ x.cached = m.cached /\ x.freed = m.freed
    /\ \A h \in Hashes : x.refs[h] \subseteq m.refs[h]
    /\ f.to = Prompt[f.req] => \A h \in Hashes : f.req \notin x.refs[h]

LEMMA UpdateKept ==
    ASSUME Decoding, NEW live, live \subseteq Unfinished, NEW m, Books(m, live),
           NEW f, f.req \in Requests, f.to \in Nat
    PROVE  Updated(Update(m, f), m, live, f)
<1> DEFINE r == f.req
           y == FreePassed(m, r)
           x == Update(m, f)
<1>1. CASE status[r] = "finished"
    <2>1. x = m
        BY <1>1 DEF Update
    <2>2. r \notin live
        BY <1>1 DEF Unfinished
    <2>3. \A h \in Hashes : r \notin m.refs[h]
        BY <2>2 DEF Books
    <2> QED BY <2>1, <2>3 DEF Updated
<1>2. CASE status[r] # "finished"
    <2>1. x = IF f.to < Prompt[r] THEN y ELSE Free(y, r)
        BY <1>2 DEF Update
    <2>2. /\ Books(y, live) /\ y.cached = m.cached /\ y.freed = m.freed
          /\ \A h \in Hashes : y.refs[h] \subseteq m.refs[h]
        <3> HIDE DEF r
        <3>1. r \in Requests
            BY DEF r
        <3> QED BY <3>1, FreeSome
    <2> HIDE DEF y, x
    <2>3. CASE f.to < Prompt[r]
        <3>1. x = y /\ f.to # Prompt[r]
            BY <2>1, <2>3, SetUp
        <3> QED BY <2>2, <3>1 DEF Updated, x
    <2>4. CASE ~(f.to < Prompt[r])
        <3>1. x = Free(y, r)
            BY <2>1, <2>4
        <3> DEFINE q == r
        <3>2. q \in Requests /\ x = Free(y, q)
            BY <3>1
        <3> HIDE DEF r, q
        <3>3. GivenUp(x, y, live, q)
            BY <2>2, <3>2, FreeGivesUp
        <3>4. /\ Books(x, live) /\ x.cached = y.cached /\ x.freed = y.freed
              /\ \A h \in Hashes : x.refs[h] = y.refs[h] \ {q}
            BY <3>3 DEF GivenUp
        <3> QED BY <2>2, <3>4 DEF Updated, q, r, x
    <2> QED BY <2>3, <2>4
<1> QED BY <1>1, <1>2

UpdateAll(m, fs) == FoldLeft(Update, m, fs)

LEMMA UpdateSteps ==
    ASSUME NEW base, NEW S, NEW s \in Seq(S)
    PROVE  \E P : /\ P[0] = base /\ P[Len(s)] = UpdateAll(base, s)
                  /\ \A i \in 1..Len(s) : P[i] = Update(P[i - 1], s[i])
<1> DEFINE n == Len(s)
           G(g, m) == g = [t \in SUBSET (1..m) |->
                             IF t = {} THEN base ELSE Update(g[t \ {Max(t)}], s[Max(t)])]
           Y == {m \in Nat : \E g : G(g, m)}
<1>1. Nat \subseteq Y
    <2>1. 0 \in Y
        <3>1. G([t \in SUBSET (1..0) |-> base], 0)
            OBVIOUS
        <3> QED BY <3>1
    <2>2. ASSUME NEW m \in Nat, m \in Y PROVE m + 1 \in Y
        <3>1. PICK g : G(g, m)
            BY <2>2
        <3> DEFINE h == [t \in SUBSET (1..(m + 1)) |->
                           IF t = {} THEN base ELSE Update(g[t \ {Max(t)}], s[Max(t)])]
        <3>2. \A t \in SUBSET (1..m) : h[t] = g[t]
            BY <3>1, Upto
        <3>3. \A t \in SUBSET (1..(m + 1)) : t # {} => t \ {Max(t)} \in SUBSET (1..m)
            BY MaxFacts
        <3>4. G(h, m + 1)
            BY <3>2, <3>3
        <3> HIDE DEF G, h
        <3> QED BY <3>4
    <2> HIDE DEF Y
    <2> QED BY <2>1, <2>2, SetInduction
<1> DEFINE iter == CHOOSE g : G(g, n)
<1>2. n \in Nat /\ DOMAIN s = 1..n
    OBVIOUS
<1>3. G(iter, n)
    BY <1>1, <1>2
<1>4. UpdateAll(base, s) = iter[1..n]
    BY <1>2 DEF UpdateAll, FoldLeft, MapThenFoldSet
<1> HIDE DEF iter
<1> DEFINE P == [k \in 0..n |-> iter[1..k]]
<1>5. P[0] = base
    BY <1>2, <1>3
<1>6. ASSUME NEW i \in 1..n PROVE P[i] = Update(P[i - 1], s[i])
    <2>1. iter[1..i] = Update(iter[1..(i - 1)], s[i])
        <3>1. /\ Max(1..i) = i /\ 1..i # {} /\ 1..i \in SUBSET (1..n)
              /\ (1..i) \ {i} = 1..(i - 1)
            BY <1>2, PrefixSets
        <3> QED BY <1>3, <3>1
    <2> QED BY <1>2, <2>1
<1>7. P[n] = UpdateAll(base, s)
    BY <1>2, <1>4
<1> HIDE DEF P
<1> QED BY <1>5, <1>6, <1>7


LEMMA UpdatesKept ==
    ASSUME Decoding, NEW m, Books(m, Unfinished), NEW fs, FramesRight(fs)
    PROVE  LET x == UpdateAll(m, fs)
           IN  /\ Books(x, Unfinished) /\ x.cached = m.cached /\ x.freed = m.freed
               /\ \A f \in Range(fs) : f.to = Prompt[f.req] => \A h \in Hashes : f.req \notin x.refs[h]
<1> DEFINE n == Len(fs)
<1>1. /\ fs \in Seq(Frames) /\ n \in Nat /\ DOMAIN fs = 1..n
      /\ \A i \in 1..n : fs[i].req \in Requests /\ fs[i].to \in Nat
    <2>1. fs \in Seq(Frames)
        BY DEF FramesRight
    <2>2. n \in Nat /\ DOMAIN fs = 1..n
        BY <2>1
    <2>3. \A i \in 1..n : fs[i] \in Frames
        BY <2>1, <2>2
    <2> QED BY <2>1, <2>2, <2>3 DEF Frames
<1>2. PICK P : /\ P[0] = m /\ P[n] = UpdateAll(m, fs)
               /\ \A i \in 1..n : P[i] = Update(P[i - 1], fs[i])
    BY <1>1, UpdateSteps
<1> DEFINE done(k, x) == \A i \in 1..k : fs[i].to = Prompt[fs[i].req] =>
                                             \A h \in Hashes : fs[i].req \notin x.refs[h]
           Good(k) == k <= n => /\ Books(P[k], Unfinished) /\ P[k].cached = m.cached
                                /\ P[k].freed = m.freed /\ done(k, P[k])
           Y == {k \in Nat : Good(k)}
<1>3. Nat \subseteq Y
    <2>1. 0 \in Y
        BY <1>2
    <2>2. ASSUME NEW k \in Nat, k \in Y PROVE k + 1 \in Y
        <3> SUFFICES ASSUME k + 1 <= n PROVE Good(k + 1)
            OBVIOUS
        <3> DEFINE i == k + 1
                   y == P[k]
                   x == P[i]
                   f == fs[i]
        <3>1. i \in 1..n /\ i - 1 = k /\ k <= n
            BY <1>1
        <3>2. /\ Books(y, Unfinished) /\ y.cached = m.cached /\ y.freed = m.freed /\ done(k, y)
            BY <2>2, <3>1
        <3>3. x = Update(y, f) /\ f.req \in Requests /\ f.to \in Nat
            BY <1>1, <1>2, <3>1
        <3>4. Updated(x, y, Unfinished, f)
            <4> DEFINE live == Unfinished
            <4>1. live \subseteq Unfinished /\ Books(y, live)
                BY <3>2
            <4> HIDE DEF live, x, y, f
            <4>2. Updated(x, y, live, f)
                BY <3>3, <4>1, UpdateKept
            <4> QED BY <4>2 DEF live
        <3>5. \A j \in 1..i : j \in 1..k \/ j = i
            BY <3>1
        <3>6. done(i, x)
            <4> SUFFICES ASSUME NEW j \in 1..i, fs[j].to = Prompt[fs[j].req], NEW h \in Hashes
                         PROVE  fs[j].req \notin x.refs[h]
                OBVIOUS
            <4>1. CASE j = i
                BY <3>4, <4>1 DEF Updated
            <4>2. CASE j \in 1..k
                <5>1. fs[j].req \notin y.refs[h]
                    BY <3>2, <4>2
                <5> QED BY <3>4, <5>1 DEF Updated
            <4> QED BY <3>5, <4>1, <4>2
        <3> HIDE DEF done, x, y, f
        <3>7. Books(x, Unfinished) /\ x.cached = m.cached /\ x.freed = m.freed /\ done(i, x)
            BY <3>2, <3>4, <3>6 DEF Updated
        <3> QED BY <3>7 DEF x
    <2> HIDE DEF Y
    <2> QED BY <2>1, <2>2, SetInduction
<1> DEFINE x == P[n]
<1>4. Books(x, Unfinished) /\ x.cached = m.cached /\ x.freed = m.freed /\ done(n, x)
    <2>1. Good(n)
        BY <1>1, <1>3
    <2> QED BY <1>1, <2>1
<1>5. \A f \in Range(fs) : f.to = Prompt[f.req] => \A h \in Hashes : f.req \notin x.refs[h]
    BY <1>1, <1>4 DEF Range
<1> QED BY <1>2, <1>4, <1>5

\* The oldest step is gone; the worker has yet to run what it had to.
LEMMA StepTaken ==
    ASSUME Decoding, NEW T, queue \in Seq(T), ran \in 1..Len(queue), Len(queue) <= Depth,
           queue' = Tail(queue), ran' = ran - 1, UNCHANGED <<config, outputs>>,
           NEW l, l = Len(queue) - ran
    PROVE  /\ l \in {0, 1} /\ Len(queue') - ran' = l /\ Len(queue') = Len(queue) - 1
           /\ ran' \in 0..Len(queue') /\ queue' \in Seq(T)
           /\ \A j \in DOMAIN queue' : j + 1 \in DOMAIN queue /\ queue'[j] = queue[j + 1]
           /\ \A k \in 1..l : queue'[ran' + k] = queue[ran + k]
           /\ \A k \in 0..l : OutputsAfter(k)' = OutputsAfter(k)
           /\ AtLast' = AtLast
<1>1. Depth \in {1, 2}
    BY SetUp
<1>2. Len(queue) \in Nat /\ ran \in Nat /\ 1 <= ran /\ ran <= Len(queue) /\ l \in {0, 1}
      /\ queue # <<>> /\ ran' = ran - 1
    BY <1>1
<1>3. /\ Len(queue') = Len(queue) - 1 /\ queue' \in Seq(T) /\ DOMAIN queue = 1..Len(queue)
      /\ DOMAIN queue' = 1..(Len(queue) - 1)
      /\ \A j \in 1..(Len(queue) - 1) : queue'[j] = queue[j + 1]
    BY <1>2
<1>4. \A j \in DOMAIN queue' : j + 1 \in DOMAIN queue /\ queue'[j] = queue[j + 1]
    BY <1>2, <1>3
<1>5. Len(queue') - ran' = l /\ ran' \in 0..Len(queue')
    BY <1>2, <1>3
<1>6. ASSUME NEW k \in 1..l PROVE k = 1 /\ queue'[ran' + k] = queue[ran + k]
    <2>1. k = 1 /\ ran' + 1 = ran /\ ran \in 1..(Len(queue) - 1)
        BY <1>2
    <2> QED BY <1>3, <2>1
<1>7. ASSUME NEW k \in 0..l PROVE OutputsAfter(k)' = OutputsAfter(k)
    <2>1. k = 0 \/ (k = 1 /\ k \in 1..l)
        BY <1>2
    <2> QED BY <1>6, <2>1, ExecuteSame, AfterWhich
<1>8. AtLast' = AtLast
    <2>1. AtLast = OutputsAfter(l) /\ l \in 0..l
        BY <1>2 DEF AtLast
    <2>2. AtLast' = OutputsAfter(l)'
        BY <1>5 DEF AtLast, OutputsAfter
    <2> QED BY <1>7, <2>1, <2>2
<1> QED BY <1>2, <1>3, <1>4, <1>5, <1>6, <1>7, <1>8

\* Only requests that hold no reference any more are gone.
LEMMA BooksFewer ==
    ASSUME NEW m, NEW live, Books(m, live), NEW fewer, \A h \in Hashes : m.refs[h] \subseteq fewer
    PROVE  Books(m, fewer)
BY DEF Books

LEMMA ProcessKept ==
    ASSUME Decoding, CacheInv, Process
    PROVE  CacheInv' /\ (OutputsInv => OutputsInv')
<1> DEFINE fs == Head(queue).frames
           ended == {f.req : f \in {g \in Range(fs) : g.to = Prompt[g.req]}}
           x == UpdateAll(mgr, fs)
           Steps == [frames : Seq(Frames), freed : SUBSET Hashes]
<1>1. /\ UNCHANGED <<config, computed, outputs, batch, plan, idx, tokens, compute>>
      /\ phase \in {"idle", "process"} /\ phase' = "idle" /\ ran > 0
      /\ mgr' = x /\ queue' = Tail(queue) /\ ran' = ran - 1
      /\ status' = [r \in Requests |-> IF r \in ended THEN "finished" ELSE status[r]]
      /\ running' = Filter(running, Range(running) \ ended)
      /\ waiting' = Filter(waiting, Range(waiting) \ ended)
    BY DEF Process, schedVars, UpdateAll
<1>2. /\ Books(mgr, Unfinished) /\ QueuesRight /\ PhasesRight /\ StepsRight /\ WorkerFits
      /\ Accounted(mgr, batch) /\ plan = NoPlan /\ batch = <<>> /\ mgr \in Managers
    BY <1>1 DEF CacheInv, WorkerFits, PhasesRight, Books
<1>3. /\ queue \in Seq(Steps) /\ ran \in 1..Len(queue) /\ Len(queue) <= Depth
      /\ \A k \in DOMAIN queue : FramesRight(queue[k].frames)
    BY <1>1, <1>2 DEF StepsRight
<1>4. FramesRight(fs)
    <2>1. 1 \in DOMAIN queue /\ Head(queue) = queue[1]
        BY <1>3
    <2> QED BY <1>3, <2>1
<1> HIDE DEF Steps, fs
<1>5. /\ Books(x, Unfinished) /\ x.cached = mgr.cached /\ x.freed = mgr.freed
      /\ \A f \in Range(fs) : f.to = Prompt[f.req] => \A h \in Hashes : f.req \notin x.refs[h]
    BY <1>2, <1>4, UpdatesKept
<1> HIDE DEF x
<1>6. Unfinished' = Unfinished \ ended
    <2>1. \A r \in Requests : status'[r] = IF r \in ended THEN "finished" ELSE status[r]
        BY <1>1
    <2> QED BY <2>1 DEF Unfinished
<1>7. \A h \in Hashes : \A r \in ended : r \notin x.refs[h]
    BY <1>5
<1> HIDE DEF ended
<1>8. Books(x, Unfinished')
    <2> DEFINE fewer == Unfinished'
    <2>1. \A h \in Hashes : x.refs[h] \subseteq fewer
        BY <1>5, <1>6, <1>7 DEF Books
    <2> HIDE DEF fewer
    <2>2. Books(x, fewer)
        BY <1>5, <2>1, BooksFewer
    <2> QED BY <2>2 DEF fewer
<1>9. PICK l : l = Len(queue) - ran
    OBVIOUS
<1>10. /\ l \in {0, 1} /\ Len(queue') - ran' = l /\ Len(queue') = Len(queue) - 1
       /\ ran' \in 0..Len(queue') /\ queue' \in Seq(Steps)
       /\ \A j \in DOMAIN queue' : j + 1 \in DOMAIN queue /\ queue'[j] = queue[j + 1]
       /\ \A k \in 1..l : queue'[ran' + k] = queue[ran + k]
       /\ \A k \in 0..l : OutputsAfter(k)' = OutputsAfter(k)
       /\ AtLast' = AtLast
    BY <1>1, <1>3, <1>9, StepTaken
<1>11. QueuesRight'
    <2>1. /\ running \in Seq(Requests) /\ IsInjective(running)
          /\ Range(running) = {r \in Requests : status[r] = "running"}
          /\ waiting \in Seq(Requests) /\ IsInjective(waiting)
          /\ Range(waiting) = {r \in Requests : status[r] = "waiting"}
          /\ status \in [Requests -> {"new", "waiting", "running", "finished"}]
          /\ computed \in [Requests -> Nat] /\ \A r \in Requests : computed[r] <= Prompt[r]
        BY <1>2 DEF QueuesRight
    <2>2. /\ running' \in Seq(Requests) /\ IsInjective(running')
          /\ Range(running') = Range(running) \cap (Range(running) \ ended)
        BY <1>1, <2>1, FilterFacts
    <2>3. /\ waiting' \in Seq(Requests) /\ IsInjective(waiting')
          /\ Range(waiting') = Range(waiting) \cap (Range(waiting) \ ended)
        BY <1>1, <2>1, FilterFacts
    <2>4. \A r \in Requests : status'[r] = IF r \in ended THEN "finished" ELSE status[r]
        BY <1>1
    <2>5. status' \in [Requests -> {"new", "waiting", "running", "finished"}]
        BY <1>1, <2>1
    <2>6. Range(running') = {r \in Requests : status'[r] = "running"}
        BY <2>1, <2>2, <2>4
    <2>7. Range(waiting') = {r \in Requests : status'[r] = "waiting"}
        BY <2>1, <2>3, <2>4
    <2>8. computed' = computed /\ Prompt' = Prompt
        BY <1>1, SameConfig
    <2> QED BY <2>1, <2>2, <2>3, <2>5, <2>6, <2>7, <2>8 DEF QueuesRight
<1>12. Books(mgr, Unfinished)'
    BY <1>1, <1>8, SameBooks
<1>13. PhasesRight'
    BY <1>1, <1>2 DEF PhasesRight
<1>14. Range(<<>>) = {} /\ Of(<<>>) = {} /\ EncodedBy(<<>>) = {}
    BY DEF Of, Range, EncodedBy
<1>15. BatchRight'
    <2>1. BatchIn(<<>>, x, Range(running'))
        <3>1. <<>> \in Seq(Frames)
            OBVIOUS
        <3> QED BY <1>14, <3>1 DEF BatchIn, FramesRight
    <2> QED BY <1>1, <1>2, <2>1, SameFrames
<1>16. StepsRight'
    <2>1. \A k \in DOMAIN queue' : FramesRight(queue[k].frames)'
        BY <1>1, <1>3, <1>10, SameFrames
    <2>2. Depth' = Depth /\ Depth \in Nat /\ Len(queue) \in Nat
        BY <1>1, <1>3, SetUp, SameConfig
    <2>3. Len(queue') < Depth'
        BY <1>3, <1>10, <2>2
    <2>4. Len(queue') <= Depth'
        BY <1>10, <2>2, <2>3
    <2> QED BY <1>1, <1>10, <2>1, <2>3, <2>4 DEF StepsRight, Steps
<1>17. WorkerFits'
    <2>1. \A k \in 0..l : /\ OutputsAfter(k) \subseteq Hashes /\ IsFiniteSet(OutputsAfter(k))
                          /\ Sizes(OutputsAfter(k)) <= CacheSize
        BY <1>2, <1>9 DEF WorkerFits
    <2>2. Accounted(mgr, batch)'
        <3>1. EncodedBy(batch)' = EncodedBy(batch)
            BY <1>1, SameFrames
        <3> QED BY <1>1, <1>2, <1>5, <1>10, <3>1 DEF Accounted
    <2>3. CacheSize' = CacheSize
        BY <1>1, SameConfig
    <2>4. \A k : /\ IsFiniteSet(OutputsAfter(k))' <=> IsFiniteSet(OutputsAfter(k)')
                 /\ Sizes(OutputsAfter(k))' = Sizes(OutputsAfter(k)')
        OBVIOUS
    <2>5. \A k \in 0..(Len(queue') - ran') :
              /\ OutputsAfter(k)' \subseteq Hashes /\ IsFiniteSet(OutputsAfter(k))'
              /\ Sizes(OutputsAfter(k))' <= CacheSize'
        BY <1>10, <2>1, <2>3, <2>4
    <2> QED BY <2>2, <2>5 DEF WorkerFits
<1>18. ASSUME OutputsInv PROVE OutputsInv'
    <2>1. PlanCovers'
        BY <1>1, <1>2, SameCovers
    <2>2. BatchCovered(batch, mgr)'
        <3>1. BatchCovered(<<>>, x)
            BY <1>14 DEF BatchCovered
        <3> QED BY <1>1, <1>2, <3>1, SameCovers
    <2>3. BatchBefore'
        BY <1>1, <1>2 DEF BatchBefore
    <2>4. Promised(mgr, batch)'
        <3>1. EncodedBy(batch)' = EncodedBy(batch)
            BY <1>1, SameFrames
        <3> QED BY <1>1, <1>5, <1>10, <1>18, <3>1 DEF OutputsInv, WorkerFollows, Promised
    <2>5. ASSUME NEW k \in 1..l, NEW f \in Range(queue'[ran' + k].frames)
          PROVE  HashesOf(f.req, Window(f.req, f.from, f.to)) \subseteq OutputsAfter(k)'
        <3>1. OutputsAfter(k)' = OutputsAfter(k) /\ queue'[ran' + k] = queue[ran + k]
            BY <1>10
        <3>2. f \in Range(queue[ran + k].frames)
            BY <2>5, <3>1
        <3>3. k \in 1..(Len(queue) - ran)
            BY <1>9
        <3> QED BY <1>18, <3>1, <3>2, <3>3 DEF OutputsInv, WorkerFollows
    <2>6. \A k : \A f : HashesOf(f.req, Window(f.req, f.from, f.to))'
                      = HashesOf(f.req, Window(f.req, f.from, f.to))
        BY <1>1, SameConfig DEF HashesOf, HashOf, Window, To, From
    <2>7. WorkerFollows'
        BY <1>10, <2>4, <2>5, <2>6 DEF WorkerFollows
    <2> QED BY <2>1, <2>2, <2>3, <2>7 DEF OutputsInv
<1> QED BY <1>11, <1>12, <1>13, <1>15, <1>16, <1>17, <1>18 DEF CacheInv
-----------------------------------------------------------------------------
(* The worker, and the calls between two steps.                            *)

LEMMA RunKept ==
    ASSUME Decoding, CacheInv, Run
    PROVE  CacheInv' /\ (OutputsInv => OutputsInv')
<1>1. /\ UNCHANGED <<config, phase, idx, tokens, compute, batch, plan, queue, reqVars, mgr>>
      /\ ran < Len(queue) /\ outputs' = Execute(outputs, queue[ran + 1]) /\ ran' = ran + 1
    BY DEF Run, schedVars
<1>2. /\ running' = running /\ computed' = computed
    BY <1>1 DEF reqVars
<1>3. QueuesRight' /\ Unfinished' = Unfinished
    BY <1>1, SameQueues DEF CacheInv
<1>4. Books(mgr, Unfinished)'
    BY <1>1, <1>3, SameBooks DEF CacheInv
<1>5. BatchRight'
    BY <1>1, <1>2, SameFrames DEF CacheInv, BatchRight
<1>6. PhasesRight'
    <2>1. RoomFor(mgr, plan.req, plan.inputs)' <=> RoomFor(mgr, plan.req, plan.inputs)
        BY <1>1, SameRoom
    <2>2. Prompt' = Prompt
        BY <1>1, SameConfig
    <2>3. Of(batch)' = Of(batch)
        BY <1>1
    <2> QED BY <1>1, <1>2, <2>1, <2>2, <2>3 DEF CacheInv, PhasesRight
<1>7. /\ StepsRight /\ WorkerFits /\ Accounted(mgr, batch)
      /\ ran \in Nat /\ Len(queue) \in Nat /\ ran < Len(queue) /\ Len(queue) <= Depth
    BY <1>1 DEF CacheInv, WorkerFits, StepsRight
<1>8. PICK l : l = Len(queue) - ran
    OBVIOUS
<1>9. l \in {1, 2} /\ Len(queue') - ran' = l - 1
    <2>1. Depth \in {1, 2}
        BY SetUp
    <2> QED BY <1>1, <1>7, <1>8, <2>1
<1>10. StepsRight'
    <2>1. \A k : FramesRight(queue[k].frames)' <=> FramesRight(queue[k].frames)
        BY <1>1, SameFrames
    <2>2. Depth' = Depth /\ ran' \in 0..Len(queue)
        BY <1>1, <1>7, SameConfig
    <2> QED BY <1>1, <1>7, <2>1, <2>2 DEF StepsRight
<1>11. ASSUME NEW k \in 0..(l - 1)
       PROVE  /\ OutputsAfter(k)' = OutputsAfter(k + 1) /\ k + 1 \in 0..l
              /\ k # 0 => queue'[ran' + k] = queue[ran + (k + 1)]
    <2>1. k = 0 \/ k = 1
        BY <1>9
    <2>2. CASE k = 0
        BY <1>1, <1>9, <2>2, ExecuteSame, AfterWhich
    <2>3. CASE k = 1
        <3>1. ran' + 1 = ran + 2 /\ queue' = queue /\ k + 1 = 2
            BY <1>1, <1>7, <2>3
        <3> QED BY <1>1, <1>9, <2>3, <3>1, ExecuteSame, AfterWhich
    <2> QED BY <2>1, <2>2, <2>3
<1>12. AtLast' = AtLast
    <2> DEFINE k == l - 1
    <2>1. k \in 0..(l - 1) /\ k + 1 = l
        BY <1>9
    <2>2. AtLast' = OutputsAfter(k)'
        BY <1>9 DEF AtLast, OutputsAfter
    <2>3. AtLast = OutputsAfter(l)
        BY <1>8 DEF AtLast
    <2> HIDE DEF k
    <2> QED BY <1>11, <2>1, <2>2, <2>3
<1>13. WorkerFits'
    <2>1. \A k \in 0..l : /\ OutputsAfter(k) \subseteq Hashes /\ IsFiniteSet(OutputsAfter(k))
                          /\ Sizes(OutputsAfter(k)) <= CacheSize
        BY <1>7, <1>8 DEF WorkerFits
    <2>2. Accounted(mgr, batch)'
        <3>1. EncodedBy(batch)' = EncodedBy(batch)
            BY <1>1, SameFrames
        <3> QED BY <1>1, <1>7, <1>12, <3>1 DEF Accounted
    <2>3. CacheSize' = CacheSize
        BY <1>1, SameConfig
    <2>4. \A k : /\ IsFiniteSet(OutputsAfter(k))' <=> IsFiniteSet(OutputsAfter(k)')
                 /\ Sizes(OutputsAfter(k))' = Sizes(OutputsAfter(k)')
        OBVIOUS
    <2>5. \A k \in 0..(l - 1) : /\ OutputsAfter(k)' \subseteq Hashes /\ IsFiniteSet(OutputsAfter(k)')
                                /\ Sizes(OutputsAfter(k)') <= CacheSize
        BY <1>11, <2>1
    <2>6. \A k \in 0..(Len(queue') - ran') :
              /\ OutputsAfter(k)' \subseteq Hashes /\ IsFiniteSet(OutputsAfter(k))'
              /\ Sizes(OutputsAfter(k))' <= CacheSize'
        BY <1>9, <2>3, <2>4, <2>5
    <2> QED BY <2>2, <2>6 DEF WorkerFits
<1>14. ASSUME OutputsInv PROVE OutputsInv'
    <2>1. PlanCovers' /\ BatchCovered(batch, mgr)'
        BY <1>1, <1>2, <1>14, SameCovers DEF OutputsInv, PlanCovers
    <2>2. BatchBefore'
        BY <1>1, <1>2, <1>14 DEF OutputsInv, BatchBefore
    <2>3. Promised(mgr, batch)'
        <3>1. EncodedBy(batch)' = EncodedBy(batch)
            BY <1>1, SameFrames
        <3> QED BY <1>1, <1>12, <1>14, <3>1 DEF OutputsInv, WorkerFollows, Promised
    <2>4. ASSUME NEW k \in 1..(l - 1), NEW f \in Range(queue'[ran' + k].frames)
          PROVE  HashesOf(f.req, Window(f.req, f.from, f.to)) \subseteq OutputsAfter(k)'
        <3>1. k \in 0..(l - 1) /\ k # 0 /\ k + 1 \in 1..l
            BY <1>9
        <3>2. OutputsAfter(k)' = OutputsAfter(k + 1) /\ queue'[ran' + k] = queue[ran + (k + 1)]
            BY <1>11, <3>1
        <3> DEFINE j == k + 1
        <3>3. f \in Range(queue[ran + j].frames) /\ j \in 1..(Len(queue) - ran)
            BY <1>8, <2>4, <3>1, <3>2
        <3> HIDE DEF j
        <3>4. HashesOf(f.req, Window(f.req, f.from, f.to)) \subseteq OutputsAfter(j)
            BY <1>14, <3>3 DEF OutputsInv, WorkerFollows
        <3> QED BY <3>2, <3>4 DEF j
    <2>5. \A k : \A f : HashesOf(f.req, Window(f.req, f.from, f.to))'
                      = HashesOf(f.req, Window(f.req, f.from, f.to))
        BY <1>1, SameConfig DEF HashesOf, HashOf, Window, To, From
    <2>6. WorkerFollows'
        BY <1>9, <2>3, <2>4, <2>5 DEF WorkerFollows
    <2> QED BY <2>1, <2>2, <2>6 DEF OutputsInv
<1> QED BY <1>3, <1>4, <1>5, <1>6, <1>10, <1>13, <1>14 DEF CacheInv

LEMMA EmptyBooks == ASSUME Decoding PROVE \A live : Books(EmptyManager, live)
<1> SUFFICES ASSUME NEW live PROVE Books(EmptyManager, live)
    OBVIOUS
<1> DEFINE m == EmptyManager
<1>1. /\ m.cached = {} /\ m.refs = [h \in Hashes |-> {}] /\ m.ids = [r \in Requests |-> {}]
      /\ m.freeable = <<>> /\ m.freed = {} /\ m.allocated = {} /\ m.free = CacheSize
      /\ m.spare = CacheSize
    BY DEF EmptyManager
<1>2. CacheSize \in Nat
    BY SetUp
<1>3. m \in Managers
    <2>1. <<>> \in Seq(Hashes)
        OBVIOUS
    <2> QED BY <1>2, <2>1 DEF Managers, EmptyManager
<1>4. Sizes({}) = 0 /\ IsFiniteSet({})
    BY SizesNone
<1>5. Range(<<>>) = {} /\ IsInjective(<<>>)
    BY DEF Range, IsInjective
<1> HIDE DEF m
<1>6. Range(m.freeable) = {} /\ IsInjective(m.freeable)
    BY <1>1, <1>5
<1>7. Sizes(m.cached) = 0 /\ Sizes(Range(m.freeable)) = 0 /\ IsFiniteSet(m.cached)
    BY <1>1, <1>4, <1>6
<1>8. \A h \in Hashes : m.refs[h] = {}
    BY <1>1
<1>9. \A r \in Requests : m.ids[r] = {}
    BY <1>1
<1>10. Sizes(m.cached) <= CacheSize /\ m.free = CacheSize - Sizes(m.cached)
       /\ m.spare = m.free + Sizes(Range(m.freeable))
    BY <1>1, <1>2, <1>7
<1>11. Books(m, live)
    BY <1>1, <1>3, <1>6, <1>7, <1>8, <1>9, <1>10 DEF Books
<1> QED BY <1>11 DEF m

LEMMA ResetKept ==
    ASSUME Decoding, CacheInv, Reset
    PROVE  CacheInv' /\ (OutputsInv => OutputsInv')
<1>1. /\ UNCHANGED <<config, phase, idx, tokens, compute, batch, plan, queue, ran, reqVars>>
      /\ phase = "idle" /\ ran = Len(queue) /\ mgr' = EmptyManager /\ outputs' = {}
    BY DEF Reset, schedVars
<1>2. /\ running' = running /\ computed' = computed /\ batch = <<>> /\ plan = NoPlan
      /\ StepsRight /\ Len(queue) \in Nat
    BY <1>1 DEF reqVars, CacheInv, PhasesRight, StepsRight
<1>3. QueuesRight' /\ Unfinished' = Unfinished
    BY <1>1, SameQueues DEF CacheInv
<1>4. Books(mgr, Unfinished)'
    BY <1>1, EmptyBooks, SameBooks
<1>5. Range(<<>>) = {} /\ Of(<<>>) = {} /\ EncodedBy(<<>>) = {}
    BY DEF Of, Range, EncodedBy
<1>6. BatchRight'
    <2>1. BatchIn(<<>>, EmptyManager, Range(running'))
        <3>1. <<>> \in Seq(Frames)
            OBVIOUS
        <3> QED BY <1>5, <3>1 DEF BatchIn, FramesRight
    <2> QED BY <1>1, <1>2, <2>1, SameFrames
<1>7. PhasesRight'
    BY <1>1, <1>2 DEF CacheInv, PhasesRight
<1>8. StepsRight'
    BY <1>1, <1>2, SameSteps
<1>9. Len(queue') - ran' = 0 /\ \A k \in 0..0 : OutputsAfter(k)' = {}
    BY <1>1, <1>2, ExecuteSame
<1>10. AtLast' = {}
    <2>1. AtLast' = OutputsAfter(0)'
        BY <1>9 DEF AtLast, OutputsAfter
    <2> QED BY <1>9, <2>1
<1>11. EncodedBy(batch)' = {}
    BY <1>1, <1>2, <1>5, SameFrames
<1>12. WorkerFits'
    <2>1. Sizes({}) = 0 /\ IsFiniteSet({}) /\ CacheSize \in Nat /\ CacheSize' = CacheSize
        BY <1>1, SizesNone, SetUp, SameConfig
    <2>2. \A k : /\ IsFiniteSet(OutputsAfter(k))' <=> IsFiniteSet(OutputsAfter(k)')
                 /\ Sizes(OutputsAfter(k))' = Sizes(OutputsAfter(k)')
        OBVIOUS
    <2>3. \A k \in 0..(Len(queue') - ran') :
              /\ OutputsAfter(k)' \subseteq Hashes /\ IsFiniteSet(OutputsAfter(k))'
              /\ Sizes(OutputsAfter(k))' <= CacheSize'
        <3> TAKE k \in 0..(Len(queue') - ran')
        <3>1. OutputsAfter(k)' = {}
            BY <1>9
        <3>2. Sizes(OutputsAfter(k)') = 0 /\ IsFiniteSet(OutputsAfter(k)')
            BY <2>1, <3>1
        <3> QED BY <2>1, <2>2, <3>1, <3>2
    <2> QED BY <1>10, <1>11, <2>3 DEF WorkerFits, Accounted
<1>13. ASSUME OutputsInv PROVE OutputsInv'
    <2>1. PlanCovers'
        BY <1>1, <1>2, SameCovers
    <2>2. BatchCovered(batch, mgr)'
        <3>1. BatchCovered(<<>>, mgr')
            BY <1>5 DEF BatchCovered
        <3> QED BY <1>1, <1>2, <3>1, SameCovers
    <2>3. BatchBefore'
        BY <1>1, <1>2 DEF BatchBefore
    <2>4. mgr'.cached = {}
        BY <1>1 DEF EmptyManager
    <2>5. WorkerFollows'
        BY <1>9, <2>4 DEF WorkerFollows, Promised
    <2> QED BY <2>1, <2>2, <2>3, <2>5 DEF OutputsInv
<1> QED BY <1>3, <1>4, <1>6, <1>7, <1>8, <1>12, <1>13 DEF CacheInv

\* A request comes or goes between two steps.
LEMMA BetweenKept ==
    ASSUME Decoding, CacheInv, phase \in {"idle", "process"}, QueuesRight', Books(mgr', Unfinished'),
           UNCHANGED <<config, phase, schedVars, queue, ran, outputs>>,
           mgr'.cached = mgr.cached, mgr'.freed = mgr.freed
    PROVE  CacheInv' /\ (OutputsInv => OutputsInv')
<1>1. /\ UNCHANGED <<idx, tokens, compute, batch, plan>>
      /\ batch = <<>> /\ plan = NoPlan /\ StepsRight /\ WorkerFits /\ Accounted(mgr, batch)
    BY DEF schedVars, CacheInv, PhasesRight, WorkerFits
<1>2. Books(mgr, Unfinished)'
    BY SameBooks
<1>3. Range(<<>>) = {} /\ Of(<<>>) = {}
    BY DEF Of, Range
<1>4. BatchRight'
    <2>1. BatchIn(<<>>, mgr', Range(running'))
        <3>1. <<>> \in Seq(Frames)
            OBVIOUS
        <3> QED BY <1>3, <3>1 DEF BatchIn, FramesRight
    <2> QED BY <1>1, <2>1, SameFrames
<1>5. PhasesRight'
    BY <1>1 DEF CacheInv, PhasesRight
<1>6. StepsRight'
    BY <1>1, SameSteps
<1>7. WorkerFits'
    <2>1. Accounted(mgr', batch')
        BY <1>1 DEF Accounted
    <2> QED BY <1>1, <2>1, SameWorker
<1>8. ASSUME OutputsInv PROVE OutputsInv'
    <2>1. PlanCovers'
        BY <1>1, SameCovers
    <2>2. BatchCovered(batch, mgr)'
        <3>1. BatchCovered(<<>>, mgr')
            BY <1>3 DEF BatchCovered
        <3> QED BY <1>1, <3>1, SameCovers
    <2>3. BatchBefore'
        BY <1>1 DEF BatchBefore
    <2>4. WorkerFollows'
        <3>1. Promised(mgr', batch')
            BY <1>1, <1>8 DEF OutputsInv, WorkerFollows, Promised
        <3> QED BY <1>8, <3>1, SameFollower DEF OutputsInv
    <2> QED BY <2>1, <2>2, <2>3, <2>4 DEF OutputsInv
<1> QED BY <1>2, <1>4, <1>5, <1>6, <1>7, <1>8 DEF CacheInv

LEMMA AddRequestKept ==
    ASSUME Decoding, CacheInv, NEW r \in Requests, AddRequest(r)
    PROVE  CacheInv' /\ (OutputsInv => OutputsInv')
<1>1. /\ UNCHANGED <<config, phase, schedVars, queue, ran, running, computed, mgr, outputs>>
      /\ phase = "idle" /\ status[r] = "new"
      /\ status' = [status EXCEPT ![r] = "waiting"]
      /\ waiting' = IF ByPriority THEN Prepended(waiting, r) ELSE Append(waiting, r)
    BY DEF AddRequest
<1>2. Books(mgr, Unfinished) /\ QueuesRight
    BY DEF CacheInv
<1>3. /\ waiting \in Seq(Requests) /\ IsInjective(waiting)
      /\ Range(waiting) = {q \in Requests : status[q] = "waiting"}
      /\ status \in [Requests -> {"new", "waiting", "running", "finished"}]
      /\ Range(running) = {q \in Requests : status[q] = "running"}
    BY <1>2 DEF QueuesRight
<1>4. r \notin Range(waiting)
    BY <1>1, <1>3
<1>5. /\ waiting' \in Seq(Requests) /\ IsInjective(waiting')
      /\ Range(waiting') = Range(waiting) \cup {r}
    BY <1>1, <1>3, <1>4, PrependedKept, InjectiveAppend
<1>6. \A q \in Requests : status'[q] = IF q = r THEN "waiting" ELSE status[q]
    BY <1>1, <1>3
<1>7. QueuesRight'
    <2>1. status' \in [Requests -> {"new", "waiting", "running", "finished"}]
        BY <1>1, <1>3
    <2>2. Range(waiting') = {q \in Requests : status'[q] = "waiting"}
        BY <1>3, <1>5, <1>6
    <2>3. Range(running') = {q \in Requests : status'[q] = "running"}
        BY <1>1, <1>3, <1>6
    <2>4. Prompt' = Prompt
        BY <1>1, SameConfig
    <2> QED BY <1>1, <1>2, <1>5, <2>1, <2>2, <2>3, <2>4 DEF QueuesRight
<1>8. Books(mgr', Unfinished')
    <2>1. Unfinished \subseteq Unfinished'
        BY <1>6 DEF Unfinished
    <2> DEFINE live == Unfinished
               more == Unfinished'
    <2>2. Books(mgr, live) /\ live \subseteq more
        BY <1>2, <2>1
    <2> HIDE DEF live, more
    <2>3. \A h \in Hashes : mgr.refs[h] \subseteq more
        BY <2>2 DEF Books
    <2>4. Books(mgr, more)
        BY <2>2, <2>3, BooksFewer
    <2> QED BY <1>1, <2>4 DEF more
<1> QED BY <1>1, <1>7, <1>8, BetweenKept

LEMMA AbortKept ==
    ASSUME Decoding, CacheInv, NEW r \in Requests, Abort(r)
    PROVE  CacheInv' /\ (OutputsInv => OutputsInv')
<1>1. /\ UNCHANGED <<config, phase, schedVars, queue, ran, computed, outputs>>
      /\ phase \in {"idle", "process"} /\ r \in Unfinished
      /\ status' = [status EXCEPT ![r] = "finished"] /\ mgr' = Free(mgr, r)
      /\ running' = Without(running, r) /\ waiting' = Without(waiting, r)
    BY DEF Abort
<1>2. Books(mgr, Unfinished) /\ QueuesRight
    BY DEF CacheInv
<1>3. /\ waiting \in Seq(Requests) /\ IsInjective(waiting)
      /\ Range(waiting) = {q \in Requests : status[q] = "waiting"}
      /\ running \in Seq(Requests) /\ IsInjective(running)
      /\ Range(running) = {q \in Requests : status[q] = "running"}
      /\ status \in [Requests -> {"new", "waiting", "running", "finished"}]
    BY <1>2 DEF QueuesRight
<1>4. /\ waiting' \in Seq(Requests) /\ IsInjective(waiting')
      /\ Range(waiting') = Range(waiting) \ {r}
      /\ running' \in Seq(Requests) /\ IsInjective(running')
      /\ Range(running') = Range(running) \ {r}
    BY <1>1, <1>3, WithoutFacts
<1>5. \A q \in Requests : status'[q] = IF q = r THEN "finished" ELSE status[q]
    BY <1>1, <1>3
<1>6. QueuesRight'
    <2>1. status' \in [Requests -> {"new", "waiting", "running", "finished"}]
        BY <1>1, <1>3
    <2>2. Range(waiting') = {q \in Requests : status'[q] = "waiting"}
        BY <1>3, <1>4, <1>5
    <2>3. Range(running') = {q \in Requests : status'[q] = "running"}
        BY <1>3, <1>4, <1>5
    <2>4. Prompt' = Prompt
        BY <1>1, SameConfig
    <2> QED BY <1>1, <1>2, <1>4, <2>1, <2>2, <2>3, <2>4 DEF QueuesRight
<1>7. GivenUp(mgr', mgr, Unfinished, r)
    BY <1>1, <1>2, FreeGivesUp
<1>8. Unfinished' = Unfinished \ {r}
    BY <1>5 DEF Unfinished
<1>9. Books(mgr', Unfinished') /\ mgr'.cached = mgr.cached /\ mgr'.freed = mgr.freed
    BY <1>7, <1>8 DEF GivenUp
<1> QED BY <1>1, <1>6, <1>9, BetweenKept
-----------------------------------------------------------------------------
(* The specification.                                                      *)

\* What every state of the model satisfies.
Inv ==
    /\ config \in Configs
    /\ ~EncDec => CacheInv
    /\ ~EncDec /\ ~ByPriority => OutputsInv

LEMMA CacheInit == Init => Inv
<1> SUFFICES ASSUME Init PROVE Inv
    OBVIOUS
<1>1. /\ config \in Configs /\ phase = "idle" /\ batch = <<>> /\ plan = NoPlan
      /\ idx = 1 /\ tokens = 0 /\ compute = 0 /\ queue = <<>> /\ ran = 0
      /\ running = <<>> /\ waiting = <<>> /\ status = [r \in Requests |-> "new"]
      /\ computed = [r \in Requests |-> 0] /\ mgr = EmptyManager /\ outputs = {}
    BY DEF Init
<1> SUFFICES ASSUME ~EncDec PROVE CacheInv /\ OutputsInv
    BY <1>1 DEF Inv
<1>2. Decoding
    BY <1>1 DEF Decoding
<1>3. Range(<<>>) = {} /\ Of(<<>>) = {} /\ EncodedBy(<<>>) = {} /\ IsInjective(<<>>)
    BY DEF Of, Range, EncodedBy, IsInjective
<1>4. Books(mgr, Unfinished)
    BY <1>1, <1>2, EmptyBooks
<1>5. QueuesRight
    <2>1. /\ running \in Seq(Requests) /\ waiting \in Seq(Requests)
          /\ Range(running) = {} /\ Range(waiting) = {}
          /\ IsInjective(running) /\ IsInjective(waiting)
        BY <1>1, <1>3
    <2>2. computed \in [Requests -> Nat] /\ \A r \in Requests : computed[r] <= Prompt[r]
        BY <1>1, <1>2, SetUp
    <2>3. /\ status \in [Requests -> {"new", "waiting", "running", "finished"}]
          /\ \A r \in Requests : status[r] = "new"
        BY <1>1
    <2> QED BY <2>1, <2>2, <2>3 DEF QueuesRight
<1>6. PhasesRight
    BY <1>1 DEF PhasesRight
<1>7. BatchRight
    <2>1. batch \in Seq(Frames)
        BY <1>1
    <2> QED BY <1>1, <1>3, <2>1 DEF BatchRight, BatchIn, FramesRight
<1>8. StepsRight
    <2>1. Depth \in {1, 2} /\ Len(queue) = 0 /\ DOMAIN queue = {}
        BY <1>1, <1>2, SetUp
    <2>2. queue \in Seq([frames : Seq(Frames), freed : SUBSET Hashes])
        BY <1>1
    <2> QED BY <1>1, <2>1, <2>2 DEF StepsRight
<1>9. Len(queue) - ran = 0 /\ \A k \in 0..0 : OutputsAfter(k) = {}
    BY <1>1, AfterWhich
<1>10. AtLast = {}
    BY <1>9 DEF AtLast
<1>11. WorkerFits
    <2>1. Sizes({}) = 0 /\ IsFiniteSet({}) /\ CacheSize \in Nat
        BY <1>2, SizesNone, SetUp
    <2>2. \A k \in 0..(Len(queue) - ran) :
              /\ OutputsAfter(k) \subseteq Hashes /\ IsFiniteSet(OutputsAfter(k))
              /\ Sizes(OutputsAfter(k)) <= CacheSize
        BY <1>9, <2>1
    <2> QED BY <1>1, <1>3, <1>10, <2>2 DEF WorkerFits, Accounted
<1>12. OutputsInv
    <2>1. mgr.cached = {}
        BY <1>1 DEF EmptyManager
    <2>2. WorkerFollows
        BY <1>9, <2>1 DEF WorkerFollows, Promised
    <2>3. BatchCovered(batch, mgr)
        BY <1>1, <1>3 DEF BatchCovered
    <2> QED BY <1>1, <2>2, <2>3 DEF OutputsInv, PlanCovers, BatchBefore
<1> QED BY <1>4, <1>5, <1>6, <1>7, <1>8, <1>11, <1>12 DEF CacheInv

LEMMA StutterKept ==
    ASSUME CacheInv, UNCHANGED vars
    PROVE  CacheInv' /\ (OutputsInv => OutputsInv')
<1>1. UNCHANGED <<config, phase, idx, tokens, compute, batch, plan, queue, ran, reqVars, mgr, outputs>>
    BY DEF vars, schedVars
<1>2. /\ running' = running /\ computed' = computed
    BY <1>1 DEF reqVars
<1>3. QueuesRight' /\ Unfinished' = Unfinished
    BY <1>1, SameQueues DEF CacheInv
<1>4. Books(mgr, Unfinished)'
    BY <1>1, <1>3, SameBooks DEF CacheInv
<1>5. BatchRight'
    BY <1>1, <1>2, SameFrames DEF CacheInv, BatchRight
<1>6. PhasesRight'
    <2>1. RoomFor(mgr, plan.req, plan.inputs)' <=> RoomFor(mgr, plan.req, plan.inputs)
        BY <1>1, SameRoom
    <2>2. Prompt' = Prompt
        BY <1>1, SameConfig
    <2>3. Of(batch)' = Of(batch)
        BY <1>1
    <2> QED BY <1>1, <1>2, <2>1, <2>2, <2>3 DEF CacheInv, PhasesRight
<1>7. StepsRight'
    BY <1>1, SameSteps DEF CacheInv
<1>8. WorkerFits'
    BY <1>1, SameWorker DEF CacheInv, WorkerFits
<1>9. ASSUME OutputsInv PROVE OutputsInv'
    <2>1. PlanCovers' /\ BatchCovered(batch, mgr)'
        BY <1>1, <1>2, <1>9, SameCovers DEF OutputsInv, PlanCovers
    <2>2. BatchBefore'
        BY <1>1, <1>2, <1>9 DEF OutputsInv, BatchBefore
    <2>3. WorkerFollows'
        BY <1>1, <1>9, SameFollower DEF OutputsInv, WorkerFollows
    <2> QED BY <2>1, <2>2, <2>3 DEF OutputsInv
<1> QED BY <1>3, <1>4, <1>5, <1>6, <1>7, <1>8, <1>9 DEF CacheInv

\* The configuration never changes, whatever the step.
LEMMA ConfigKept == [Next]_vars => UNCHANGED config
<1> SUFFICES ASSUME [Next]_vars PROVE UNCHANGED config
    OBVIOUS
<1>1. CASE EngineStep
    BY <1>1 DEF EngineStep, BeginSchedule, PlanRunning, ScheduleRunning, PreemptFor, EndRunning,
                Admit, EndSchedule, Process
<1>2. CASE Run \/ Reset
    BY <1>2 DEF Run, Reset
<1>3. CASE \E r \in Requests : AddRequest(r) \/ Abort(r)
    BY <1>3 DEF AddRequest, Abort
<1>4. CASE UNCHANGED vars
    BY <1>4 DEF vars
<1> QED BY <1>1, <1>2, <1>3, <1>4 DEF Next

LEMMA CacheStep == Inv /\ [Next]_vars => Inv'
<1> SUFFICES ASSUME Inv, [Next]_vars PROVE Inv'
    OBVIOUS
<1>1. UNCHANGED config
    BY ConfigKept
<1>2. config' \in Configs /\ EncDec' = EncDec /\ ByPriority' = ByPriority
    BY <1>1, SameConfig DEF Inv
<1> SUFFICES ASSUME ~EncDec PROVE CacheInv' /\ (~ByPriority /\ OutputsInv => OutputsInv')
    BY <1>2 DEF Inv
<1>3. Decoding /\ CacheInv
    BY DEF Decoding, Inv
<1>4. CASE BeginSchedule
    BY <1>3, <1>4, BeginKept
<1>5. CASE PlanRunning
    BY <1>3, <1>5, PlanRunningKept
<1>6. CASE ScheduleRunning
    BY <1>3, <1>6, ScheduleRunningKept
<1>7. CASE PreemptFor
    BY <1>3, <1>7, PreemptKept
<1>8. CASE EndRunning
    BY <1>3, <1>8, EndRunningKept
<1>9. CASE Admit
    BY <1>3, <1>9, AdmitKept
<1>10. CASE EndSchedule
    BY <1>3, <1>10, EndScheduleKept
<1>11. CASE Process
    BY <1>3, <1>11, ProcessKept
<1>12. CASE Run
    BY <1>3, <1>12, RunKept
<1>13. CASE Reset
    BY <1>3, <1>13, ResetKept
<1>14. CASE \E r \in Requests : AddRequest(r) \/ Abort(r)
    BY <1>3, <1>14, AddRequestKept, AbortKept
<1>15. CASE UNCHANGED vars
    BY <1>3, <1>15, StutterKept
<1> QED BY <1>4, <1>5, <1>6, <1>7, <1>8, <1>9, <1>10, <1>11, <1>12, <1>13, <1>14, <1>15
        DEF Next, EngineStep

LEMMA CacheInvariant == Spec => []Inv
BY CacheInit, CacheStep, PTL DEF Spec

\* The books of EncoderCacheManager are exact in every state (num_free_slots,
\* num_freeable_slots, freeable, cached): check_and_update_cache, can_allocate,
\* allocate, free_encoder_input and free keep them so, through every schedule,
\* preemption and abort, for every set of requests, items and sizes.
THEOREM SlotsStayExact == Spec => [](~EncDec => SlotsExact)
<1>1. Inv => (~EncDec => SlotsExact)
    BY DEF Inv, CacheInv, Books, SlotsExact
<1> QED BY <1>1, CacheInvariant, PTL

\* The worker's encoder outputs never outgrow the encoder cache, although it
\* frees what the manager evicted only with a later step, up to two behind.
THEOREM OutputsStayBounded == Spec => [](~EncDec => MemoryBounded)
<1>1. Inv => (~EncDec => MemoryBounded)
    <2> SUFFICES ASSUME Inv, ~EncDec PROVE MemoryBounded
        OBVIOUS
    <2>1. WorkerFits /\ StepsRight
        BY DEF Inv, CacheInv
    <2>2. 0 \in 0..(Len(queue) - ran)
        BY <2>1 DEF StepsRight
    <2>3. Sizes(OutputsAfter(0)) <= CacheSize
        BY <2>1, <2>2 DEF WorkerFits
    <2> QED BY <2>3, AfterWhich DEF MemoryBounded
<1> QED BY <1>1, CacheInvariant, PTL

\* Under the FCFS policy the worker never meets "Encoder cache miss": the output
\* of every item a step computes tokens of is there when the step runs. The
\* hypothesis is needed: under the priority policy _schedule_running preempts a
\* request it has already planned an image for, and that image stays cached in
\* the manager though no step encodes it (scheduler.py:631, 1490).
THEOREM NeverMisses == Spec => [](~EncDec /\ ~ByPriority => NoMiss)
<1>1. Inv => (~EncDec /\ ~ByPriority => NoMiss)
    <2> SUFFICES ASSUME Inv, ~EncDec, ~ByPriority, ran < Len(queue),
                        NEW f \in Range(queue[ran + 1].frames), NEW i \in Window(f.req, f.from, f.to)
                 PROVE  HashOf(f.req, i) \in Execute(outputs, queue[ran + 1])
        BY DEF NoMiss
    <2>1. WorkerFollows /\ StepsRight
        BY DEF Inv, CacheInv, OutputsInv
    <2>2. 1 \in 1..(Len(queue) - ran)
        BY <2>1 DEF StepsRight
    <2>3. HashesOf(f.req, Window(f.req, f.from, f.to)) \subseteq OutputsAfter(1)
        BY <2>1, <2>2 DEF WorkerFollows
    <2>4. HashOf(f.req, i) \in OutputsAfter(1)
        BY <2>3 DEF HashesOf
    <2> QED BY <2>4, AfterWhich
<1> QED BY <1>1, CacheInvariant, PTL
=============================================================================
