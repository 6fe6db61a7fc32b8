--------------------------- MODULE FreeListProofs ---------------------------
(***************************************************************************)
(* Proofs about FreeList for any number of blocks: the links always form   *)
(* one list, and the list implements the queue of BlockQueue.              *)
(***************************************************************************)
EXTENDS FreeList, FiniteSetTheorems, SequenceTheorems, WellFoundedInduction, TLAPS

-----------------------------------------------------------------------------
(* Induction, stated for sets, which every prover can use.                 *)

\* A nonempty set of naturals has a least element.
LEMMA LeastElement ==
  ASSUME NEW T, T \subseteq Nat, T # {}
  PROVE  \E x \in T : \A y \in T : x <= y
<1> DEFINE R == OpToRel(<, Nat)
<1>1. IsWellFoundedOn(R, Nat)
  BY NatLessThanWellFounded
<1>2. \E x \in T : \A y \in T : ~ (<<y, x>> \in R)
  <2> HIDE DEF R
  <2> QED BY <1>1, WFMin
<1>3. PICK x \in T : \A y \in T : ~ (<<y, x>> \in R)
  BY <1>2
<1>4. \A y \in T : ~ (y < x)
  <2> SUFFICES ASSUME NEW y \in T, y < x PROVE FALSE
    OBVIOUS
  <2>1. <<y, x>> \notin OpToRel(<, Nat)
    BY <1>3
  <2>2. ~ (<<y, x>> \in Nat \X Nat /\ <<y, x>>[1] < <<y, x>>[2])
    BY <2>1 DEF OpToRel
  <2> HIDE DEF R
  <2>3. x \in Nat /\ y \in Nat
    OBVIOUS
  <2>4. <<y, x>> \in Nat \X Nat /\ <<y, x>>[1] = y /\ <<y, x>>[2] = x
    BY <2>3
  <2> QED BY <2>2, <2>4
<1> HIDE DEF R
<1> QED BY <1>4

\* A set with 0 and the successor of each of its members holds every natural.
LEMMA SetInduction ==
  ASSUME NEW T, 0 \in T, \A n \in Nat : n \in T => n + 1 \in T
  PROVE  Nat \subseteq T
<1> SUFFICES ASSUME Nat \ T # {} PROVE FALSE
  OBVIOUS
<1>1. PICK x \in Nat \ T : \A y \in Nat \ T : x <= y
  BY LeastElement
<1>2. x # 0 
  BY <1>1
<1>3. x - 1 \in Nat /\ x - 1 \notin Nat \ T
  BY <1>1, <1>2
<1> QED BY <1>1, <1>3

\* The i-th node of a list of the blocks s, the sentinels included.
At(s, i) == IF i = 0 THEN Head0 ELSE IF i = Len(s) + 1 THEN Tail0 ELSE s[i]
Distinct(s) == \A i, j \in 1..Len(s) : s[i] = s[j] => i = j

\* The links nx and pv are those of the list s and of no other block.
Links(nx, pv, s) ==
    /\ nx \in [Nodes -> Nodes \cup {None}] /\ pv \in [Nodes -> Nodes \cup {None}]
    /\ \A i \in 0..Len(s) : nx[At(s, i)] = At(s, i + 1) /\ pv[At(s, i + 1)] = At(s, i)
    /\ nx[Tail0] = None /\ pv[Head0] = None
    /\ \A b \in Blocks \ Members(s) : nx[b] = None /\ pv[b] = None

\* The state is that of the list s.
Listed(s) == /\ s \in Seq(Blocks) /\ Distinct(s)
             /\ Links(next, prev, s)
             /\ linked = Members(s) /\ num = Len(s)

Inv == \E s \in Seq(Blocks) : Listed(s)

-----------------------------------------------------------------------------
(* Lists of distinct blocks.                                               *)

LEMMA NodeFacts ==
    /\ Head0 \in Nodes /\ Tail0 \in Nodes /\ Blocks \subseteq Nodes
    /\ Head0 # Tail0 /\ Head0 \notin Blocks /\ Tail0 \notin Blocks
    /\ None \notin Nodes /\ Nodes = Blocks \cup {Head0, Tail0}
    /\ NumBlocks \in Nat
BY ListAssumption DEF Head0, Tail0, Nodes, Blocks, None

LEMMA AtFacts ==
    ASSUME NEW s \in Seq(Blocks), Distinct(s)
    PROVE  /\ Len(s) \in Nat /\ At(s, 0) = Head0 /\ At(s, Len(s) + 1) = Tail0
           /\ Members(s) = {s[i] : i \in 1..Len(s)} /\ Members(s) \subseteq Blocks
           /\ \A i \in 1..Len(s) : At(s, i) = s[i] /\ s[i] \in Members(s)
           /\ \A i \in 0..Len(s) + 1 : At(s, i) \in Nodes
           /\ \A i, j \in 0..Len(s) + 1 : At(s, i) = At(s, j) => i = j
<1>1. Len(s) \in Nat /\ DOMAIN s = 1..Len(s) /\ \A i \in 1..Len(s) : s[i] \in Blocks
    OBVIOUS
<1>2. Members(s) = {s[i] : i \in 1..Len(s)} /\ Members(s) \subseteq Blocks
    BY <1>1 DEF Members
<1>3. \A i \in 1..Len(s) : At(s, i) = s[i] /\ s[i] \in Members(s)
    BY <1>1, <1>2 DEF At
<1>4. At(s, 0) = Head0 /\ At(s, Len(s) + 1) = Tail0
    BY <1>1 DEF At
<1>5. \A i \in 0..Len(s) + 1 : At(s, i) \in Nodes
    BY <1>1, <1>3, <1>4, NodeFacts
<1>6. ASSUME NEW i \in 0..Len(s) + 1, NEW j \in 0..Len(s) + 1, At(s, i) = At(s, j)
      PROVE  i = j
    BY <1>1, <1>3, <1>4, <1>6, NodeFacts DEF Distinct
<1> QED BY <1>1, <1>2, <1>3, <1>4, <1>5, <1>6

LEMMA DistinctCount ==
    ASSUME NEW s \in Seq(Blocks), Distinct(s)
    PROVE  Cardinality(Members(s)) = Len(s) /\ Len(s) <= NumBlocks
<1>1. /\ Len(s) \in Nat /\ s \in [1..Len(s) -> Members(s)]
      /\ Members(s) = {s[i] : i \in 1..Len(s)} /\ Members(s) \subseteq Blocks
    BY AtFacts
<1>2. s \in Bijection(1..Len(s), Members(s))
    BY <1>1 DEF Distinct, Bijection, Injection, Surjection, IsInjective
<1>3. ExistsBijection(1..Len(s), Members(s))
    BY <1>2 DEF ExistsBijection
<1>4. IsFiniteSet(1..Len(s)) /\ Cardinality(1..Len(s)) = Len(s)
    <2>1. 1 \in Int /\ Len(s) \in Int /\ (1 > Len(s) => Len(s) = 0)
        BY <1>1
    <2>2. /\ IsFiniteSet(1..Len(s))
          /\ Cardinality(1..Len(s)) = IF 1 > Len(s) THEN 0 ELSE Len(s) - 1 + 1
        BY <2>1, FS_Interval
    <2> QED BY <1>1, <2>1, <2>2
<1>5. IsFiniteSet(Blocks) /\ Cardinality(Blocks) = NumBlocks
    BY ListAssumption, FS_Interval DEF Blocks
<1>6. Cardinality(Members(s)) = Len(s)
    BY <1>3, <1>4, FS_Bijection
<1> QED BY <1>1, <1>5, <1>6, FS_Subset

-----------------------------------------------------------------------------
(* Walking the list.                                                       *)

\* The walk from the head: the list, the sentinel at its end, nothing more.
Trail(s) == [i \in Nat |-> IF i <= Len(s) + 1 THEN At(s, i) ELSE None]

LEMMA PathIsTrail ==
    ASSUME NEW nx, NEW pv, NEW s \in Seq(Blocks), Distinct(s), Links(nx, pv, s)
    PROVE  Path(nx) = Trail(s)
<1> DEFINE Step(f) == [i \in Nat |-> IF i = 0 THEN Head0
                                     ELSE IF f[i - 1] = None THEN None
                                     ELSE nx[f[i - 1]]]
           g == Trail(s)
<1>1. g = Step(g)
    <2> SUFFICES ASSUME NEW i \in Nat PROVE g[i] = Step(g)[i]
        BY DEF Trail
    <2>1. CASE i = 0
        BY <2>1, AtFacts DEF Trail
    <2>2. CASE i \in 1..Len(s) + 1
        <3>1. /\ i - 1 \in 0..Len(s) /\ i - 1 \in Nat /\ (i - 1) + 1 = i /\ i # 0
              /\ i - 1 <= Len(s) + 1 /\ i <= Len(s) + 1 /\ i - 1 \in 0..Len(s) + 1
            BY <2>2, AtFacts
        <3>2. g[i - 1] = At(s, i - 1) /\ g[i] = At(s, i)
            BY <3>1 DEF Trail
        <3>3. At(s, i - 1) # None /\ nx[At(s, i - 1)] = At(s, i)
            BY <3>1, AtFacts, NodeFacts DEF Links
        <3> HIDE DEF g
        <3> QED BY <3>1, <3>2, <3>3
    <2>3. CASE i = Len(s) + 2
        <3>1. i - 1 = Len(s) + 1 /\ i - 1 \in Nat /\ i # 0 /\ ~(i <= Len(s) + 1)
            BY <2>3, AtFacts
        <3>2. g[i - 1] = Tail0 /\ g[i] = None
            BY <3>1, AtFacts DEF Trail
        <3>3. Tail0 # None /\ nx[Tail0] = None
            BY NodeFacts DEF Links
        <3> HIDE DEF g
        <3> QED BY <3>1, <3>2, <3>3
    <2>4. CASE i > Len(s) + 2
        <3>1. i - 1 \in Nat /\ i # 0 /\ ~(i - 1 <= Len(s) + 1) /\ ~(i <= Len(s) + 1)
            BY <2>4, AtFacts
        <3>2. g[i - 1] = None /\ g[i] = None
            BY <3>1 DEF Trail
        <3> HIDE DEF g
        <3> QED BY <3>1, <3>2
    <2>5. Len(s) \in Nat
        BY AtFacts
    <2> QED BY <2>1, <2>2, <2>3, <2>4, <2>5
<1>2. Path(nx) = Step(Path(nx))
    BY <1>1 DEF Path
<1>3. Path(nx) = [i \in Nat |-> Path(nx)[i]] /\ g = [i \in Nat |-> g[i]]
    <2> DEFINE f == Path(nx)
    <2>1. f = Step(f)
        BY <1>2
    <2> HIDE DEF f
    <2>2. DOMAIN f = Nat /\ f = [i \in Nat |-> f[i]]
        BY <2>1
    <2> QED BY <2>2 DEF f, Trail
<1>4. Nat \subseteq {i \in Nat : Path(nx)[i] = g[i]}
    <2> DEFINE f == Path(nx)
               T == {i \in Nat : f[i] = g[i]}
    <2>1. f = Step(f)
        BY <1>2
    <2> HIDE DEF f, g
    <2>2. 0 \in T
        <3>1. f[0] = Head0 /\ g[0] = Head0
            BY <1>1, <2>1
        <3> QED BY <3>1
    <2>3. ASSUME NEW n \in Nat, n \in T PROVE n + 1 \in T
        <3>1. n + 1 \in Nat /\ n + 1 # 0 /\ (n + 1) - 1 = n /\ f[n] = g[n]
            BY <2>3
        <3>2. /\ f[n + 1] = IF f[n] = None THEN None ELSE nx[f[n]]
              /\ g[n + 1] = IF g[n] = None THEN None ELSE nx[g[n]]
            BY <1>1, <2>1, <3>1
        <3> QED BY <3>1, <3>2
    <2> HIDE DEF T
    <2>4. Nat \subseteq T
        BY <2>2, <2>3, SetInduction
    <2> QED BY <2>4 DEF T, f
<1> HIDE DEF g
<1> QED BY <1>3, <1>4 DEF g

\* The walk of the abstract queue is the list itself.
WalkedIn(links) ==
    LET len == CHOOSE i \in 0..NumBlocks : Path(links)[i + 1] = Tail0
    IN  [i \in 1..len |-> Path(links)[i]]

LEMMA WalkIsList ==
    ASSUME NEW nx, NEW pv, NEW s \in Seq(Blocks), Distinct(s), Links(nx, pv, s)
    PROVE  /\ WalkedIn(nx) = s
           /\ \A i \in 0..Len(s) + 1 : Path(nx)[i] = At(s, i)
<1>1. /\ Len(s) \in 0..NumBlocks /\ Len(s) \in Nat
      /\ \A i \in 0..Len(s) + 1 : Path(nx)[i] = At(s, i)
      /\ \A i \in Nat : i > Len(s) + 1 => Path(nx)[i] = None
    BY PathIsTrail, AtFacts, DistinctCount DEF Trail
<1>2. Path(nx)[Len(s) + 1] = Tail0
    BY <1>1, AtFacts
<1>3. ASSUME NEW i \in 0..NumBlocks, Path(nx)[i + 1] = Tail0 PROVE i = Len(s)
    <2>1. CASE i > Len(s)
        <3>1. i + 1 \in Nat /\ i + 1 > Len(s) + 1
            BY <1>1, <2>1
        <3> QED BY <1>1, <1>3, <3>1, NodeFacts
    <2>2. CASE i <= Len(s)
        <3>1. i + 1 \in 0..Len(s) + 1 /\ Len(s) + 1 \in 0..Len(s) + 1
            BY <1>1, <2>2
        <3>2. At(s, i + 1) = At(s, Len(s) + 1)
            BY <1>1, <1>2, <1>3, <3>1
        <3>3. i + 1 = Len(s) + 1
            BY <3>1, <3>2, AtFacts
        <3> QED BY <1>1, <3>3
    <2> QED BY <1>1, <2>1, <2>2
<1>4. (CHOOSE i \in 0..NumBlocks : Path(nx)[i + 1] = Tail0) = Len(s)
    BY <1>1, <1>2, <1>3
<1>5. WalkedIn(nx) = [i \in 1..Len(s) |-> Path(nx)[i]]
    BY <1>4 DEF WalkedIn
<1>6. \A i \in 1..Len(s) : Path(nx)[i] = s[i]
    BY <1>1, AtFacts
<1>7. s = [i \in 1..Len(s) |-> s[i]]
    OBVIOUS
<1> QED BY <1>1, <1>5, <1>6, <1>7

LEMMA ListedWalk ==
    ASSUME NEW s, Listed(s)
    PROVE  /\ Walked = s /\ s \in Seq(Blocks) /\ Len(s) \in Nat
           /\ Checked
           /\ \A i \in 0..Len(s) + 1 : Nth[i] = At(s, i)
<1>1. Walked = WalkedIn(next)
    BY DEF Walked, WalkedIn, Nth
<1>2. s \in Seq(Blocks) /\ Distinct(s) /\ Links(next, prev, s)
      /\ linked = Members(s) /\ num = Len(s)
    BY DEF Listed
<1>3. Checked
    BY <1>2, DistinctCount DEF Checked
<1> QED BY <1>1, <1>2, <1>3, WalkIsList, AtFacts DEF Nth

-----------------------------------------------------------------------------
(* The calls.                                                              *)

\* What pop takes from the front of s.
LEMMA PopLists ==
    ASSUME NEW s, Listed(s), NEW n \in 1..Len(s), PopLeftN(n)
    PROVE  /\ Listed(SubSeq(s, n + 1, Len(s)))'
           /\ given' = SubSeq(s, 1, n)
<1> DEFINE t == SubSeq(s, n + 1, Len(s))
           gone == {s[i] : i \in 1..n}
<1>1. /\ s \in Seq(Blocks) /\ Distinct(s) /\ Links(next, prev, s)
      /\ linked = Members(s) /\ num = Len(s) /\ Len(s) \in Nat /\ n \in Nat
    BY ListedWalk DEF Listed
<1>2. /\ t \in Seq(Blocks) /\ Len(t) = Len(s) - n /\ Len(t) \in Nat
      /\ \A i \in 1..Len(t) : t[i] = s[n + i]
    BY <1>1
<1> HIDE DEF t
<1>3. \A i \in 1..n : Nth[i] = s[i]
    BY <1>1, ListedWalk, AtFacts
<1>4. {Nth[i] : i \in 1..n} = gone
    BY <1>3
<1>5. n + 1 \in 0..Len(s) + 1 /\ Nth[n + 1] = At(s, n + 1)
    BY <1>1, ListedWalk
<1>6. /\ num' = num - n /\ linked' = linked \ gone
      /\ given' = [i \in 1..n |-> s[i]]
      /\ next' = [x \in Nodes |-> IF x = Head0 THEN At(s, n + 1)
                                  ELSE IF x \in gone THEN None ELSE next[x]]
      /\ prev' = [x \in Nodes |-> IF x = At(s, n + 1) THEN Head0
                                  ELSE IF x \in gone THEN None ELSE prev[x]]
    BY <1>3, <1>4, <1>5 DEF PopLeftN
<1>7. \A i \in 0..Len(t) + 1 : At(t, i) = IF i = 0 THEN Head0 ELSE At(s, n + i)
    <2> SUFFICES ASSUME NEW i \in 0..Len(t) + 1, i # 0 PROVE At(t, i) = At(s, n + i)
        BY DEF At
    <2>1. CASE i = Len(t) + 1
        <3>1. n + i = Len(s) + 1 /\ n + i # 0
            BY <1>1, <1>2, <2>1
        <3> QED BY <2>1, <3>1 DEF At
    <2>2. CASE i \in 1..Len(t)
        <3>1. n + i # Len(s) + 1 /\ n + i # 0 /\ i # Len(t) + 1
            BY <1>1, <1>2, <2>2
        <3>2. At(t, i) = t[i] /\ At(s, n + i) = s[n + i]
            BY <2>2, <3>1 DEF At
        <3> QED BY <1>2, <2>2, <3>2
    <2>3. i = Len(t) + 1 \/ i \in 1..Len(t)
        BY <1>2
    <2> QED BY <2>1, <2>2, <2>3
<1>8. Distinct(t)
    <2> SUFFICES ASSUME NEW i \in 1..Len(t), NEW j \in 1..Len(t), t[i] = t[j]
                 PROVE  i = j
        BY DEF Distinct
    <2>1. n + i \in 1..Len(s) /\ n + j \in 1..Len(s) /\ s[n + i] = s[n + j]
        BY <1>1, <1>2
    <2> QED BY <1>1, <2>1 DEF Distinct
<1>9. \A i \in 0..Len(s) + 1 : At(s, i) \in gone <=> i \in 1..n
    <2> SUFFICES ASSUME NEW i \in 0..Len(s) + 1
                 PROVE  At(s, i) \in gone <=> i \in 1..n
        OBVIOUS
    <2>1. \A j \in 1..n : s[j] = At(s, j) /\ j \in 0..Len(s) + 1
        BY <1>1, AtFacts
    <2>2. i \in 1..n => At(s, i) \in gone
        BY <2>1
    <2>3. ASSUME At(s, i) \in gone PROVE i \in 1..n
        <3>1. PICK j \in 1..n : At(s, i) = s[j]
            BY <2>3
        <3> QED BY <1>1, <2>1, <3>1, AtFacts
    <2> QED BY <2>2, <2>3
<1>10. Members(t) = Members(s) \ gone
    <2>1. ASSUME NEW b \in Members(t) PROVE b \in Members(s) \ gone
        <3>1. PICK i \in 1..Len(t) : b = t[i]
            BY <1>2, <1>8, AtFacts
        <3>2. n + i \in 1..Len(s) /\ b = s[n + i] /\ n + i \notin 1..n
            BY <1>1, <1>2, <3>1
        <3>3. b \in Members(s) /\ b = At(s, n + i) /\ n + i \in 0..Len(s) + 1
            BY <1>1, <3>2, AtFacts
        <3> QED BY <1>9, <3>2, <3>3
    <2>2. ASSUME NEW b \in Members(s), b \notin gone PROVE b \in Members(t)
        <3>1. PICK i \in 1..Len(s) : b = s[i]
            BY <1>1, AtFacts
        <3>2. i \notin 1..n
            BY <1>1, <2>2, <3>1, <1>9, AtFacts
        <3>3. i - n \in 1..Len(t) /\ n + (i - n) = i
            BY <1>1, <1>2, <3>2
        <3>4. b = t[i - n]
            BY <1>2, <3>1, <3>3
        <3> QED BY <1>2, <1>8, <3>3, <3>4, AtFacts
    <2> QED BY <2>1, <2>2
<1>11. Links(next', prev', t)
    <2>1. At(s, n + 1) \in Nodes /\ \A i \in 0..Len(s) + 1 : At(s, i) \in Nodes
        BY <1>1, <1>5, AtFacts
    <2>2. /\ next' \in [Nodes -> Nodes \cup {None}]
          /\ prev' \in [Nodes -> Nodes \cup {None}]
        BY <1>1, <1>6, <2>1, NodeFacts DEF Links
    <2>3. ASSUME NEW i \in 0..Len(t)
          PROVE  next'[At(t, i)] = At(t, i + 1) /\ prev'[At(t, i + 1)] = At(t, i)
        <3>1. /\ n + i \in 0..Len(s) /\ n + i + 1 \in 0..Len(s) + 1
              /\ n + i \in 0..Len(s) + 1 /\ i \in 0..Len(t) + 1 /\ i + 1 \in 0..Len(t) + 1
              /\ n + i + 1 \notin 1..n /\ i + 1 # 0 /\ n + (i + 1) = n + i + 1
            BY <1>1, <1>2
        <3>2. At(t, i + 1) = At(s, n + i + 1)
            BY <1>7, <3>1
        <3>3. CASE i = 0
            <4>1. At(t, i) = Head0 /\ At(t, i + 1) = At(s, n + 1)
                BY <1>1, <1>7, <3>1, <3>2, <3>3
            <4> QED BY <1>6, <2>1, <4>1, NodeFacts
        <3>4. CASE i # 0
            <4>1. /\ At(t, i) = At(s, n + i) /\ n + i \notin 1..n
                  /\ n + i # 0 /\ n + i + 1 # n + 1
                BY <1>1, <1>7, <3>1, <3>4
            <4>2. /\ At(s, n + i) # Head0 /\ At(s, n + i) \notin gone
                  /\ At(s, n + i + 1) # At(s, n + 1) /\ At(s, n + i + 1) \notin gone
                <5>1. 0 \in 0..Len(s) + 1 /\ At(s, 0) = Head0
                    BY <1>1, AtFacts
                <5>2. /\ At(s, n + i) # At(s, 0)
                      /\ At(s, n + i + 1) # At(s, n + 1)
                    BY <1>1, <1>5, <3>1, <4>1, <5>1, AtFacts
                <5> QED BY <1>9, <3>1, <4>1, <5>1, <5>2
            <4>3. next'[At(s, n + i)] = next[At(s, n + i)]
                  /\ prev'[At(s, n + i + 1)] = prev[At(s, n + i + 1)]
                BY <1>6, <2>1, <3>1, <4>2
            <4>4. next[At(s, n + i)] = At(s, n + i + 1)
                  /\ prev[At(s, n + i + 1)] = At(s, n + i)
                BY <1>1, <3>1 DEF Links
            <4> QED BY <3>2, <4>1, <4>3, <4>4
        <3> QED BY <3>3, <3>4
    <2>4. next'[Tail0] = None /\ prev'[Head0] = None
        <3>1. /\ Tail0 \notin gone /\ Head0 \notin gone /\ At(s, n + 1) # Head0
            <4>1. n + 1 # 0 /\ 0 \in 0..Len(s) + 1
                BY <1>1
            <4>2. gone \subseteq Blocks
                BY <1>1
            <4> QED BY <1>1, <1>5, <4>1, <4>2, AtFacts, NodeFacts
        <3> QED BY <1>1, <1>6, <3>1, NodeFacts DEF Links
    <2>5. ASSUME NEW b \in Blocks \ Members(t) PROVE next'[b] = None /\ prev'[b] = None
        <3>1. b \in Nodes /\ b # Head0 /\ b # Tail0
            BY NodeFacts
        <3>2. b # At(s, n + 1)
            <4>1. CASE n = Len(s)
                BY <1>1, <3>1, <4>1, AtFacts
            <4>2. CASE n # Len(s)
                <5>1. n + 1 \in 1..Len(s) /\ n + 1 \notin 1..n
                    BY <1>1, <4>2
                <5>2. At(s, n + 1) \in Members(s) \ gone
                    BY <1>1, <1>5, <1>9, <5>1, AtFacts
                <5> QED BY <1>10, <5>2
            <4> QED BY <4>1, <4>2
        <3>3. b \in gone \/ b \notin Members(s)
            BY <1>10
        <3>4. b \notin Members(s) => next[b] = None /\ prev[b] = None
            BY <1>1 DEF Links
        <3> QED BY <1>6, <3>1, <3>2, <3>3, <3>4
    <2> QED BY <2>2, <2>3, <2>4, <2>5 DEF Links
<1>12. Listed(t)'
    BY <1>1, <1>2, <1>6, <1>8, <1>10, <1>11 DEF Listed, t
<1>13. SubSeq(s, 1, n) = [i \in 1..n |-> s[i]]
    BY <1>1
<1> QED BY <1>6, <1>12, <1>13 DEF t

\* The list s without its k-th block.
Without(s, k) == SubSeq(s, 1, k - 1) \o SubSeq(s, k + 1, Len(s))

\* What remove leaves of s: the list without one of its blocks.
LEMMA RemoveLists ==
    ASSUME NEW s, Listed(s), NEW b \in Blocks, Remove(b)
    PROVE  \E k \in DOMAIN s : Listed(Without(s, k))' /\ given' = <<>>
<1>1. /\ s \in Seq(Blocks) /\ Distinct(s) /\ Links(next, prev, s)
      /\ linked = Members(s) /\ num = Len(s) /\ Len(s) \in Nat
      /\ DOMAIN s = 1..Len(s)
    BY ListedWalk DEF Listed
<1>2. b \in Members(s)
    BY <1>1 DEF Remove, Links
<1>3. PICK k \in 1..Len(s) : b = s[k]
    BY <1>1, <1>2, AtFacts
<1> DEFINE t == Without(s, k)
<1>4. /\ t \in Seq(Blocks) /\ Len(t) = Len(s) - 1 /\ Len(t) \in Nat
      /\ \A i \in 1..Len(t) : t[i] = IF i < k THEN s[i] ELSE s[i + 1]
    <2>1. /\ SubSeq(s, 1, k - 1) \in Seq(Blocks) /\ Len(SubSeq(s, 1, k - 1)) = k - 1
          /\ \A i \in 1..k - 1 : SubSeq(s, 1, k - 1)[i] = s[i]
        BY <1>1
    <2>2. /\ SubSeq(s, k + 1, Len(s)) \in Seq(Blocks)
          /\ Len(SubSeq(s, k + 1, Len(s))) = Len(s) - k
          /\ \A i \in 1..Len(s) - k : SubSeq(s, k + 1, Len(s))[i] = s[k + i]
        BY <1>1
    <2> DEFINE u == SubSeq(s, 1, k - 1)
               v == SubSeq(s, k + 1, Len(s))
    <2>3. t = u \o v
        BY DEF Without
    <2> HIDE DEF u, v, t
    <2>4. /\ t \in Seq(Blocks) /\ Len(t) = Len(s) - 1
          /\ \A i \in 1..Len(t) : t[i] = IF i <= k - 1 THEN u[i] ELSE v[i - (k - 1)]
        <3>1. u \in Seq(Blocks) /\ v \in Seq(Blocks) /\ Len(u) = k - 1 /\ Len(v) = Len(s) - k
            BY <2>1, <2>2 DEF u, v
        <3>2. Len(u) + Len(v) = Len(s) - 1
            BY <1>1, <3>1
        <3>3. t \in Seq(Blocks) /\ Len(t) = Len(u) + Len(v)
            BY <2>3, <3>1, ConcatProperties
        <3>4. \A i \in 1..Len(u) + Len(v) :
                  t[i] = IF i <= Len(u) THEN u[i] ELSE v[i - Len(u)]
            BY <2>3, <3>1, ConcatProperties
        <3> QED BY <3>1, <3>2, <3>3, <3>4
    <2>5. ASSUME NEW i \in 1..Len(t) PROVE t[i] = IF i < k THEN s[i] ELSE s[i + 1]
        <3>1. CASE i < k
            <4>1. i \in 1..k - 1 /\ i <= k - 1
                BY <1>1, <2>4, <3>1
            <4> QED BY <2>1, <2>4, <3>1, <4>1 DEF u
        <3>2. CASE ~(i < k)
            <4>1. /\ ~(i <= k - 1) /\ i - (k - 1) \in 1..Len(s) - k
                  /\ k + (i - (k - 1)) = i + 1
                BY <1>1, <2>4, <3>2
            <4>2. t[i] = v[i - (k - 1)]
                BY <2>4, <4>1
            <4>3. v[i - (k - 1)] = s[k + (i - (k - 1))]
                BY <2>2, <4>1 DEF v
            <4> QED BY <3>2, <4>1, <4>2, <4>3
        <3> QED BY <3>1, <3>2
    <2> QED BY <1>1, <2>4, <2>5
<1> HIDE DEF t
<1>5. \A i \in 0..Len(t) + 1 : At(t, i) = IF i < k THEN At(s, i) ELSE At(s, i + 1)
    <2> SUFFICES ASSUME NEW i \in 0..Len(t) + 1
                 PROVE  At(t, i) = IF i < k THEN At(s, i) ELSE At(s, i + 1)
        OBVIOUS
    <2>1. CASE i = 0
        BY <1>1, <2>1 DEF At
    <2>2. CASE i = Len(t) + 1
        <3>1. ~(i < k) /\ i + 1 = Len(s) + 1 /\ i # 0 /\ i + 1 # 0
            BY <1>1, <1>4, <2>2
        <3> QED BY <2>2, <3>1 DEF At
    <2>3. CASE i \in 1..Len(t)
        <3>1. i # 0 /\ i # Len(t) + 1 /\ i # Len(s) + 1 /\ i + 1 # Len(s) + 1 /\ i + 1 # 0
            BY <1>1, <1>4, <2>3
        <3>2. At(t, i) = t[i] /\ At(s, i) = s[i] /\ At(s, i + 1) = s[i + 1]
            BY <3>1 DEF At
        <3> QED BY <1>4, <2>3, <3>2
    <2> QED BY <1>4, <2>1, <2>2, <2>3
<1>6. /\ k - 1 \in 0..Len(s) /\ k \in 0..Len(s) /\ (k - 1) + 1 = k /\ k \in 0..Len(s) + 1
      /\ k - 1 \in 0..Len(s) + 1 /\ k + 1 \in 0..Len(s) + 1
      /\ At(s, k) = b
    BY <1>1, <1>3, AtFacts
<1>7. /\ prev[b] = At(s, k - 1) /\ next[b] = At(s, k + 1)
      /\ At(s, k - 1) # b /\ At(s, k + 1) # b
      /\ At(s, k - 1) \in Nodes /\ At(s, k + 1) \in Nodes /\ b \in Nodes
    <2>1. prev[At(s, (k - 1) + 1)] = At(s, k - 1) /\ next[At(s, k)] = At(s, k + 1)
        BY <1>1, <1>6 DEF Links
    <2>2. k - 1 # k /\ k + 1 # k
        BY <1>1
    <2> QED BY <1>1, <1>6, <2>1, <2>2, AtFacts
<1>8. /\ next' = [next EXCEPT ![At(s, k - 1)] = At(s, k + 1), ![b] = None]
      /\ prev' = [prev EXCEPT ![At(s, k + 1)] = At(s, k - 1), ![b] = None]
      /\ linked' = Members(s) \ {b} /\ num' = Len(s) - 1 /\ given' = <<>>
    BY <1>1, <1>7 DEF Remove
<1>9. /\ next' \in [Nodes -> Nodes \cup {None}] /\ prev' \in [Nodes -> Nodes \cup {None}]
      /\ next'[b] = None /\ prev'[b] = None
      /\ next'[At(s, k - 1)] = At(s, k + 1) /\ prev'[At(s, k + 1)] = At(s, k - 1)
      /\ \A x \in Nodes : x # b /\ x # At(s, k - 1) => next'[x] = next[x]
      /\ \A x \in Nodes : x # b /\ x # At(s, k + 1) => prev'[x] = prev[x]
    BY <1>1, <1>7, <1>8 DEF Links
<1>10. Distinct(t)
    <2> SUFFICES ASSUME NEW i \in 1..Len(t), NEW j \in 1..Len(t), t[i] = t[j]
                 PROVE  i = j
        BY DEF Distinct
    <2> DEFINE i1 == IF i < k THEN i ELSE i + 1
               j1 == IF j < k THEN j ELSE j + 1
    <2>1. i1 \in 1..Len(s) /\ j1 \in 1..Len(s)
        BY <1>1, <1>4
    <2>2. s[i1] = s[j1]
        BY <1>4
    <2>3. i1 = j1
        BY <1>1, <2>1, <2>2 DEF Distinct
    <2> QED BY <1>1, <1>4, <2>3
<1>11. Members(t) = Members(s) \ {b}
    <2>1. ASSUME NEW c \in Members(t) PROVE c \in Members(s) \ {b}
        <3>1. PICK i \in 1..Len(t) : c = t[i]
            BY <1>4, <1>10, AtFacts
        <3> DEFINE j == IF i < k THEN i ELSE i + 1
        <3>2. j \in 1..Len(s) /\ j # k
            BY <1>1, <1>4
        <3>3. c = s[j]
            BY <1>4, <3>1
        <3> HIDE DEF j
        <3> QED BY <1>1, <1>3, <3>2, <3>3, AtFacts DEF Distinct
    <2>2. ASSUME NEW c \in Members(s), c # b PROVE c \in Members(t)
        <3>1. PICK i \in 1..Len(s) : c = s[i] /\ i # k
            BY <1>1, <1>3, <2>2, AtFacts
        <3> DEFINE j == IF i < k THEN i ELSE i - 1
        <3>2. j \in 1..Len(t) /\ (IF j < k THEN j ELSE j + 1) = i
            BY <1>1, <1>4, <3>1
        <3>3. t[j] = c
            BY <1>4, <3>1, <3>2
        <3> HIDE DEF j
        <3> QED BY <1>4, <1>10, <3>2, <3>3, AtFacts
    <2> QED BY <2>1, <2>2
<1>12. Links(next', prev', t)
    <2>1. ASSUME NEW i \in 0..Len(t)
          PROVE  next'[At(t, i)] = At(t, i + 1) /\ prev'[At(t, i + 1)] = At(t, i)
        <3>1. /\ i \in 0..Len(t) + 1 /\ i + 1 \in 0..Len(t) + 1
              /\ i \in 0..Len(s) /\ i + 1 \in 0..Len(s) /\ i \in 0..Len(s) + 1
              /\ i + 1 \in 0..Len(s) + 1 /\ i + 2 \in 0..Len(s) + 1 /\ (i + 1) + 1 = i + 2
            BY <1>1, <1>4
        <3>2. CASE i + 1 < k
            <4>1. At(t, i) = At(s, i) /\ At(t, i + 1) = At(s, i + 1)
                BY <1>5, <3>1, <3>2
            <4>2. i # k /\ i # k - 1 /\ i + 1 # k /\ i + 1 # k + 1
                BY <1>1, <3>2
            <4>3. /\ At(s, i) # b /\ At(s, i) # At(s, k - 1)
                  /\ At(s, i + 1) # b /\ At(s, i + 1) # At(s, k + 1)
                  /\ At(s, i) \in Nodes /\ At(s, i + 1) \in Nodes
                BY <1>1, <1>6, <3>1, <4>2, AtFacts
            <4>4. next[At(s, i)] = At(s, i + 1) /\ prev[At(s, i + 1)] = At(s, i)
                BY <1>1, <3>1 DEF Links
            <4> QED BY <1>9, <4>1, <4>3, <4>4
        <3>3. CASE i + 1 = k
            <4>1. i = k - 1 /\ (i + 1) + 1 = k + 1 /\ i < k /\ ~(i + 1 < k)
                BY <3>3
            <4>2. At(t, i) = At(s, k - 1) /\ At(t, i + 1) = At(s, k + 1)
                BY <1>5, <3>1, <4>1
            <4> QED BY <1>9, <4>2
        <3>4. CASE i + 1 > k
            <4>1. ~(i < k) /\ ~(i + 1 < k)
                BY <1>1, <3>4
            <4>2. At(t, i) = At(s, i + 1) /\ At(t, i + 1) = At(s, i + 2)
                BY <1>5, <3>1, <4>1
            <4>3. i + 1 # k /\ i + 1 # k - 1 /\ i + 2 # k /\ i + 2 # k + 1
                BY <1>1, <3>4
            <4>4. /\ At(s, i + 1) # b /\ At(s, i + 1) # At(s, k - 1)
                  /\ At(s, i + 2) # b /\ At(s, i + 2) # At(s, k + 1)
                  /\ At(s, i + 1) \in Nodes /\ At(s, i + 2) \in Nodes
                BY <1>1, <1>6, <3>1, <4>3, AtFacts
            <4>5. next[At(s, i + 1)] = At(s, i + 2) /\ prev[At(s, i + 2)] = At(s, i + 1)
                BY <1>1, <3>1 DEF Links
            <4> QED BY <1>9, <4>2, <4>4, <4>5
        <3> QED BY <1>1, <3>2, <3>3, <3>4
    <2>2. next'[Tail0] = None /\ prev'[Head0] = None
        <3>1. /\ Len(s) + 1 # k - 1 /\ 0 # k + 1
              /\ 0 \in 0..Len(s) + 1 /\ Len(s) + 1 \in 0..Len(s) + 1
            BY <1>1
        <3>2. Tail0 # At(s, k - 1) /\ Head0 # At(s, k + 1)
            BY <1>1, <1>6, <3>1, AtFacts
        <3>3. Tail0 # b /\ Head0 # b
            BY NodeFacts
        <3> QED BY <1>1, <1>9, <3>2, <3>3, NodeFacts DEF Links
    <2>3. ASSUME NEW c \in Blocks \ Members(t) PROVE next'[c] = None /\ prev'[c] = None
        <3>1. c = b \/ c \notin Members(s)
            BY <1>11
        <3>2. ASSUME c \notin Members(s), c # b PROVE next'[c] = None /\ prev'[c] = None
            <4>1. next[c] = None /\ prev[c] = None /\ c \in Nodes
                BY <1>1, <3>2, NodeFacts DEF Links
            <4>2. \A i \in 0..Len(s) + 1 : At(s, i) # c
                BY <1>1, <3>2, AtFacts, NodeFacts
            <4> QED BY <1>6, <1>9, <3>2, <4>1, <4>2
        <3> QED BY <1>9, <3>1, <3>2
    <2> QED BY <1>9, <2>1, <2>2, <2>3 DEF Links
<1>13. Listed(t)'
    BY <1>1, <1>4, <1>8, <1>10, <1>11, <1>12 DEF Listed, t
<1> QED BY <1>1, <1>8, <1>13 DEF t

\* The list s with the blocks of l after its k-th node.
Inserted(s, l, k) == [i \in 1..Len(s) + Len(l) |->
                          IF i <= k THEN s[i]
                          ELSE IF i <= k + Len(l) THEN l[i - k] ELSE s[i - Len(l)]]

\* What the splice of distinct unlinked blocks makes of s.
LEMMA SpliceLists ==
    ASSUME NEW s, Listed(s), NEW k \in 0..Len(s),
           NEW l \in Seq(Blocks), Distinct(l), l # <<>>,
           Splice(l, At(s, k), At(s, k + 1))
    PROVE  /\ Listed(Inserted(s, l, k))' /\ given' = <<>>
           /\ Members(l) \cap Members(s) = {}
<1> DEFINE t == Inserted(s, l, k)
           m == Len(l)
<1>1. /\ s \in Seq(Blocks) /\ Distinct(s) /\ Links(next, prev, s)
      /\ linked = Members(s) /\ num = Len(s) /\ Len(s) \in Nat
    BY ListedWalk DEF Listed
<1>2. m \in Nat /\ m >= 1 /\ \A i \in 1..m : l[i] \in Blocks /\ l[i] \in Members(l)
    BY AtFacts
<1>3. Members(l) \cap Members(s) = {} /\ Members(l) = {l[i] : i \in 1..m}
      /\ Members(l) \subseteq Blocks
    BY <1>1, AtFacts DEF Splice, MayLink
<1>4. \A i \in 1..m : Place(l, l[i]) = i
    <2> SUFFICES ASSUME NEW i \in 1..m PROVE Place(l, l[i]) = i
        OBVIOUS
    <2>1. \A j \in DOMAIN l : l[j] = l[i] => j = i
        BY <1>2 DEF Distinct
    <2>2. i \in DOMAIN l
        BY <1>2
    <2> QED BY <2>1, <2>2 DEF Place
<1>5. /\ t \in Seq(Blocks) /\ Len(t) = Len(s) + m /\ Len(t) \in Nat
      /\ \A i \in 1..Len(t) : t[i] = IF i <= k THEN s[i]
                                     ELSE IF i <= k + m THEN l[i - k] ELSE s[i - m]
    <2>1. \A i \in 1..Len(s) + m : (IF i <= k THEN s[i]
                                    ELSE IF i <= k + m THEN l[i - k] ELSE s[i - m]) \in Blocks
        <3> SUFFICES ASSUME NEW i \in 1..Len(s) + m
                     PROVE  (IF i <= k THEN s[i]
                             ELSE IF i <= k + m THEN l[i - k] ELSE s[i - m]) \in Blocks
            OBVIOUS
        <3>1. CASE i <= k
            <4>1. i \in 1..Len(s)
                BY <1>1, <1>2, <3>1
            <4> QED BY <1>1, <3>1, <4>1
        <3>2. CASE ~(i <= k) /\ i <= k + m
            <4>1. i - k \in 1..m
                BY <1>1, <1>2, <3>2
            <4> QED BY <1>2, <3>2, <4>1
        <3>3. CASE ~(i <= k) /\ ~(i <= k + m)
            <4>1. i - m \in 1..Len(s)
                BY <1>1, <1>2, <3>3
            <4> QED BY <1>1, <3>3, <4>1
        <3> QED BY <3>1, <3>2, <3>3
    <2>2. t \in [1..Len(s) + m -> Blocks] /\ Len(s) + m \in Nat
        BY <1>1, <1>2, <2>1 DEF Inserted
    <2>3. t \in Seq(Blocks) /\ Len(t) = Len(s) + m
        <3> DEFINE n == Len(s) + m
        <3>1. t \in [1..n -> Blocks] /\ n \in Nat
            BY <2>2
        <3> HIDE DEF t, m, n
        <3>2. t \in Seq(Blocks) /\ Len(t) = n
            BY <3>1
        <3> QED BY <3>2 DEF n
    <2> QED BY <2>2, <2>3 DEF Inserted
<1> HIDE DEF t
<1>6. \A i \in 0..Len(t) + 1 :
          At(t, i) = IF i <= k THEN At(s, i)
                     ELSE IF i <= k + m THEN l[i - k] ELSE At(s, i - m)
    <2> SUFFICES ASSUME NEW i \in 0..Len(t) + 1
                 PROVE  At(t, i) = IF i <= k THEN At(s, i)
                                   ELSE IF i <= k + m THEN l[i - k] ELSE At(s, i - m)
        OBVIOUS
    <2>1. CASE i = 0
        <3>1. i <= k
            BY <1>1, <2>1
        <3> QED BY <2>1, <3>1 DEF At
    <2>2. CASE i = Len(t) + 1
        <3>1. ~(i <= k) /\ ~(i <= k + m) /\ i - m = Len(s) + 1 /\ i # 0 /\ i - m # 0
            BY <1>1, <1>2, <1>5, <2>2
        <3> QED BY <2>2, <3>1 DEF At
    <2>3. CASE i \in 1..Len(t)
        <3>1. i # 0 /\ i # Len(t) + 1
            BY <1>5, <2>3
        <3>2. At(t, i) = t[i]
            BY <3>1 DEF At
        <3>3. CASE i <= k
            <4>1. i # Len(s) + 1
                BY <1>1, <3>3
            <4> QED BY <1>5, <2>3, <3>1, <3>2, <3>3, <4>1 DEF At
        <3>4. CASE ~(i <= k) /\ i <= k + m
            BY <1>5, <2>3, <3>2, <3>4
        <3>5. CASE ~(i <= k) /\ ~(i <= k + m)
            <4>1. i - m # 0 /\ i - m # Len(s) + 1
                BY <1>1, <1>2, <1>5, <2>3, <3>5
            <4> QED BY <1>5, <2>3, <3>2, <3>5, <4>1 DEF At
        <3> QED BY <3>3, <3>4, <3>5
    <2>4. i = 0 \/ i = Len(t) + 1 \/ i \in 1..Len(t)
        <3>1. Len(t) \in Nat
            BY <1>5
        <3> QED BY <3>1
    <2> QED BY <2>1, <2>2, <2>3, <2>4
<1>7. /\ k \in 0..Len(s) + 1 /\ k + 1 \in 0..Len(s) + 1
      /\ \A i \in 0..Len(s) + 1 : At(s, i) \in Nodes /\ At(s, i) \notin Members(l)
    <2>1. \A i \in 0..Len(s) + 1 : At(s, i) \in Nodes
        BY <1>1, AtFacts
    <2>2. ASSUME NEW i \in 0..Len(s) + 1 PROVE At(s, i) \notin Members(l)
        <3>1. CASE i \in 1..Len(s)
            BY <1>1, <1>3, <3>1, AtFacts
        <3>2. CASE i = 0 \/ i = Len(s) + 1
            BY <1>1, <1>3, <3>2, AtFacts, NodeFacts
        <3> QED BY <1>1, <3>1, <3>2
    <2> QED BY <1>1, <2>1, <2>2
<1>8. /\ next' = [x \in Nodes |->
                     IF x = At(s, k) THEN l[1]
                     ELSE IF x \notin Members(l) THEN next[x]
                     ELSE IF Place(l, x) = m THEN At(s, k + 1) ELSE l[Place(l, x) + 1]]
      /\ prev' = [x \in Nodes |->
                     IF x = At(s, k + 1) THEN l[m]
                     ELSE IF x \notin Members(l) THEN prev[x]
                     ELSE IF Place(l, x) = 1 THEN At(s, k) ELSE l[Place(l, x) - 1]]
      /\ linked' = Members(s) \cup Members(l) /\ num' = Len(s) + m /\ given' = <<>>
    BY <1>1 DEF Splice
<1>9. /\ next'[At(s, k)] = l[1] /\ prev'[At(s, k + 1)] = l[m]
      /\ \A i \in 0..Len(s) + 1 : i # k => next'[At(s, i)] = next[At(s, i)]
      /\ \A i \in 0..Len(s) + 1 : i # k + 1 => prev'[At(s, i)] = prev[At(s, i)]
      /\ \A i \in 1..m : /\ next'[l[i]] = IF i = m THEN At(s, k + 1) ELSE l[i + 1]
                         /\ prev'[l[i]] = IF i = 1 THEN At(s, k) ELSE l[i - 1]
    <2>1. next'[At(s, k)] = l[1] /\ prev'[At(s, k + 1)] = l[m]
        BY <1>7, <1>8
    <2>2. ASSUME NEW i \in 0..Len(s) + 1
          PROVE  /\ i # k => next'[At(s, i)] = next[At(s, i)]
                 /\ i # k + 1 => prev'[At(s, i)] = prev[At(s, i)]
        <3>1. /\ i # k => At(s, i) # At(s, k)
              /\ i # k + 1 => At(s, i) # At(s, k + 1)
            BY <1>1, <1>7, AtFacts
        <3> QED BY <1>7, <1>8, <3>1
    <2>3. ASSUME NEW i \in 1..m
          PROVE  /\ next'[l[i]] = IF i = m THEN At(s, k + 1) ELSE l[i + 1]
                 /\ prev'[l[i]] = IF i = 1 THEN At(s, k) ELSE l[i - 1]
        <3>1. l[i] \in Nodes /\ l[i] \in Members(l) /\ l[i] # At(s, k) /\ l[i] # At(s, k + 1)
            BY <1>2, <1>7, NodeFacts
        <3> QED BY <1>4, <1>8, <3>1
    <2> QED BY <2>1, <2>2, <2>3
<1>10. Members(t) = Members(s) \cup Members(l)
    <2>0. \A i \in 1..Len(t) : t[i] \in Members(t)
        <3>1. t \in Seq(Blocks)
            BY <1>5
        <3>2. DOMAIN t = 1..Len(t)
            BY <3>1
        <3> QED BY <3>2 DEF Members
    <2>1. ASSUME NEW b \in Members(t) PROVE b \in Members(s) \cup Members(l)
        <3>1. PICK i \in 1..Len(t) : b = t[i]
            BY <1>5 DEF Members
        <3>2. CASE i <= k
            <4>1. i \in 1..Len(s) /\ b = s[i]
                BY <1>1, <1>5, <3>1, <3>2
            <4> QED BY <1>1, <4>1, AtFacts
        <3>3. CASE ~(i <= k) /\ i <= k + m
            <4>1. i - k \in 1..m /\ b = l[i - k]
                BY <1>1, <1>2, <1>5, <3>1, <3>3
            <4> QED BY <1>2, <4>1
        <3>4. CASE ~(i <= k) /\ ~(i <= k + m)
            <4>1. i - m \in 1..Len(s) /\ b = s[i - m]
                BY <1>1, <1>2, <1>5, <3>1, <3>4
            <4> QED BY <1>1, <4>1, AtFacts
        <3> QED BY <3>2, <3>3, <3>4
    <2>2. ASSUME NEW b \in Members(s) PROVE b \in Members(t)
        <3>1. PICK i \in 1..Len(s) : b = s[i]
            BY <1>1, AtFacts
        <3> DEFINE j == IF i <= k THEN i ELSE i + m
        <3>2. j \in 1..Len(t) /\ t[j] = b
            <4>1. CASE i <= k
                BY <1>1, <1>2, <1>5, <3>1, <4>1
            <4>2. CASE ~(i <= k)
                <5>1. /\ i + m \in 1..Len(t) /\ ~(i + m <= k) /\ ~(i + m <= k + m)
                      /\ (i + m) - m = i
                    BY <1>1, <1>2, <1>5, <4>2
                <5> QED BY <1>5, <3>1, <4>2, <5>1
            <4> QED BY <4>1, <4>2
        <3> HIDE DEF j
        <3> QED BY <2>0, <3>2
    <2>3. ASSUME NEW b \in Members(l) PROVE b \in Members(t)
        <3>1. PICK i \in 1..m : b = l[i]
            BY <1>3
        <3>2. i + k \in 1..Len(t) /\ ~(i + k <= k) /\ i + k <= k + m /\ (i + k) - k = i
            BY <1>1, <1>2, <1>5
        <3>3. t[i + k] = b
            BY <1>5, <3>1, <3>2
        <3> QED BY <2>0, <3>2, <3>3
    <2> QED BY <2>1, <2>2, <2>3
<1>11. Distinct(t)
    <2> DEFINE Src(i) == IF i <= k THEN i ELSE i - m
    <2> SUFFICES ASSUME NEW i \in 1..Len(t), NEW j \in 1..Len(t), t[i] = t[j]
                 PROVE  i = j
        BY DEF Distinct
    <2>1. ASSUME NEW h \in 1..Len(t)
          PROVE  \/ h <= k + m /\ ~(h <= k) /\ h - k \in 1..m /\ t[h] = l[h - k]
                    /\ t[h] \in Members(l)
                 \/ (h <= k \/ ~(h <= k + m)) /\ Src(h) \in 1..Len(s) /\ t[h] = s[Src(h)]
                    /\ t[h] \in Members(s)
        <3>1. CASE h <= k
            <4>1. h \in 1..Len(s) /\ t[h] = s[h]
                BY <1>1, <1>5, <3>1
            <4> QED BY <1>1, <3>1, <4>1, AtFacts
        <3>2. CASE ~(h <= k) /\ h <= k + m
            <4>1. h - k \in 1..m /\ t[h] = l[h - k]
                BY <1>1, <1>2, <1>5, <3>2
            <4> QED BY <1>2, <3>2, <4>1
        <3>3. CASE ~(h <= k) /\ ~(h <= k + m)
            <4>1. h - m \in 1..Len(s) /\ t[h] = s[h - m]
                BY <1>1, <1>2, <1>5, <3>3
            <4> QED BY <1>1, <3>3, <4>1, AtFacts
        <3> QED BY <3>1, <3>2, <3>3
    <2>2. CASE t[i] \in Members(l)
        <3>1. /\ i - k \in 1..m /\ j - k \in 1..m /\ l[i - k] = l[j - k]
            BY <1>3, <2>1, <2>2
        <3>2. i - k = j - k
            BY <3>1 DEF Distinct
        <3> QED BY <1>5, <3>2
    <2>3. CASE t[i] \in Members(s)
        <3>1. /\ Src(i) \in 1..Len(s) /\ Src(j) \in 1..Len(s) /\ s[Src(i)] = s[Src(j)]
              /\ (i <= k \/ ~(i <= k + m)) /\ (j <= k \/ ~(j <= k + m))
            BY <1>3, <2>1, <2>3
        <3>2. Src(i) = Src(j)
            <4> HIDE DEF Src
            <4> QED BY <1>1, <3>1 DEF Distinct
        <3> QED BY <1>1, <1>2, <1>5, <3>1, <3>2
    <2> QED BY <2>1, <2>2, <2>3
<1>12. Links(next', prev', t)
    <2>1. /\ next' \in [Nodes -> Nodes \cup {None}]
          /\ prev' \in [Nodes -> Nodes \cup {None}]
        <3>1. /\ l[1] \in Nodes /\ l[m] \in Nodes /\ At(s, k) \in Nodes /\ At(s, k + 1) \in Nodes
            BY <1>2, <1>7, NodeFacts
        <3>2. ASSUME NEW x \in Nodes
              PROVE  next'[x] \in Nodes \cup {None} /\ prev'[x] \in Nodes \cup {None}
            <4>1. CASE x \notin Members(l)
                BY <1>1, <1>8, <3>1, <4>1 DEF Links
            <4>2. CASE x \in Members(l)
                <5>1. PICK i \in 1..m : x = l[i]
                    BY <1>3, <4>2
                <5>2. /\ i = m \/ (i + 1 \in 1..m /\ l[i + 1] \in Nodes)
                      /\ i = 1 \/ (i - 1 \in 1..m /\ l[i - 1] \in Nodes)
                    BY <1>2, NodeFacts
                <5> QED BY <1>9, <3>1, <5>1, <5>2
            <4> QED BY <4>1, <4>2
        <3>3. /\ next' = [x \in Nodes |-> next'[x]] /\ prev' = [x \in Nodes |-> prev'[x]]
            BY <1>8
        <3> QED BY <3>2, <3>3
    <2>2. ASSUME NEW i \in 0..Len(t)
          PROVE  next'[At(t, i)] = At(t, i + 1) /\ prev'[At(t, i + 1)] = At(t, i)
        <3>1. i \in 0..Len(t) + 1 /\ i + 1 \in 0..Len(t) + 1 /\ i \in Nat
            BY <1>5
        <3>2. CASE i < k
            <4>1. /\ i <= k /\ i + 1 <= k /\ i \in 0..Len(s) /\ i # k /\ i + 1 # k + 1
                  /\ i \in 0..Len(s) + 1 /\ i + 1 \in 0..Len(s) + 1
                BY <1>1, <3>1, <3>2
            <4>2. At(t, i) = At(s, i) /\ At(t, i + 1) = At(s, i + 1)
                BY <1>6, <3>1, <4>1
            <4>3. next[At(s, i)] = At(s, i + 1) /\ prev[At(s, i + 1)] = At(s, i)
                BY <1>1, <4>1 DEF Links
            <4> QED BY <1>9, <4>1, <4>2, <4>3
        <3>3. CASE i = k
            <4>1. i <= k /\ ~(i + 1 <= k) /\ i + 1 <= k + m /\ (i + 1) - k = 1 /\ 1 \in 1..m
                BY <1>1, <1>2, <3>3
            <4>2. At(t, i) = At(s, k) /\ At(t, i + 1) = l[1]
                BY <1>6, <3>1, <3>3, <4>1
            <4> QED BY <1>9, <4>1, <4>2
        <3>4. CASE k < i /\ i < k + m
            <4>1. /\ ~(i <= k) /\ i <= k + m /\ ~(i + 1 <= k) /\ i + 1 <= k + m
                  /\ i - k \in 1..m /\ i - k # m /\ (i + 1) - k = (i - k) + 1
                  /\ (i - k) + 1 \in 1..m /\ (i - k) + 1 # 1 /\ ((i - k) + 1) - 1 = i - k
                BY <1>1, <1>2, <3>1, <3>4
            <4>2. At(t, i) = l[i - k] /\ At(t, i + 1) = l[(i - k) + 1]
                BY <1>6, <3>1, <4>1
            <4> QED BY <1>9, <4>1, <4>2
        <3>5. CASE i = k + m
            <4>1. /\ ~(i <= k) /\ i <= k + m /\ ~(i + 1 <= k) /\ ~(i + 1 <= k + m)
                  /\ i - k = m /\ (i + 1) - m = k + 1 /\ m \in 1..m
                BY <1>1, <1>2, <3>5
            <4>2. At(t, i) = l[m] /\ At(t, i + 1) = At(s, k + 1)
                BY <1>6, <3>1, <4>1
            <4> QED BY <1>9, <4>1, <4>2
        <3>6. CASE i > k + m
            <4> DEFINE j == i - m
            <4>1. /\ ~(i <= k) /\ ~(i <= k + m) /\ ~(i + 1 <= k) /\ ~(i + 1 <= k + m)
                  /\ j \in 0..Len(s) /\ (i + 1) - m = j + 1 /\ j # k /\ j + 1 # k + 1
                  /\ j \in 0..Len(s) + 1 /\ j + 1 \in 0..Len(s) + 1
                BY <1>1, <1>2, <1>5, <3>1, <3>6
            <4>2. At(t, i) = At(s, j) /\ At(t, i + 1) = At(s, j + 1)
                BY <1>6, <3>1, <4>1
            <4>3. next[At(s, j)] = At(s, j + 1) /\ prev[At(s, j + 1)] = At(s, j)
                BY <1>1, <4>1 DEF Links
            <4>4. /\ next'[At(s, j)] = next[At(s, j)]
                  /\ prev'[At(s, j + 1)] = prev[At(s, j + 1)]
                BY <1>9, <4>1
            <4> QED BY <4>2, <4>3, <4>4
        <3> QED BY <1>1, <1>2, <3>1, <3>2, <3>3, <3>4, <3>5, <3>6
    <2>3. next'[Tail0] = None /\ prev'[Head0] = None
        <3>1. /\ Len(s) + 1 # k /\ 0 # k + 1
              /\ 0 \in 0..Len(s) + 1 /\ Len(s) + 1 \in 0..Len(s) + 1
            BY <1>1
        <3> QED BY <1>1, <1>9, <3>1, AtFacts DEF Links
    <2>4. ASSUME NEW b \in Blocks \ Members(t) PROVE next'[b] = None /\ prev'[b] = None
        <3>1. /\ b \notin Members(l) /\ b \notin Members(s) /\ b \in Nodes
              /\ next[b] = None /\ prev[b] = None
            BY <1>1, <1>10, NodeFacts DEF Links
        <3>2. ASSUME NEW i \in 0..Len(s) + 1 PROVE At(s, i) # b
            <4>1. CASE i \in 1..Len(s)
                BY <1>1, <3>1, <4>1, AtFacts
            <4>2. CASE i = 0 \/ i = Len(s) + 1
                BY <1>1, <4>2, AtFacts, NodeFacts
            <4> QED BY <1>1, <4>1, <4>2
        <3> QED BY <1>7, <1>8, <3>1, <3>2
    <2> QED BY <2>1, <2>2, <2>3, <2>4 DEF Links
<1>13. Listed(t)'
    BY <1>1, <1>5, <1>8, <1>10, <1>11, <1>12 DEF Listed, t
<1> QED BY <1>3, <1>8, <1>13 DEF t

\* append_n links at the last node, prepend_n at the head.
LEMMA AppendLists ==
    ASSUME NEW s, Listed(s), NEW l \in Seq(Blocks), Distinct(l), l # <<>>, AppendN(l)
    PROVE  /\ Listed(s \o l)' /\ given' = <<>> /\ Members(l) \cap Members(s) = {}
<1>1. /\ s \in Seq(Blocks) /\ Distinct(s) /\ Links(next, prev, s) /\ Len(s) \in Nat
      /\ Len(l) \in Nat
    BY ListedWalk DEF Listed
<1>2. /\ Len(s) \in 0..Len(s) /\ At(s, Len(s) + 1) = Tail0
      /\ prev[Tail0] = At(s, Len(s))
    BY <1>1, AtFacts DEF Links
<1>3. Splice(l, At(s, Len(s)), At(s, Len(s) + 1))
    BY <1>2 DEF AppendN
<1>4. /\ Listed(Inserted(s, l, Len(s)))' /\ given' = <<>>
      /\ Members(l) \cap Members(s) = {}
    BY <1>2, <1>3, SpliceLists
<1>5. Inserted(s, l, Len(s)) = s \o l
    <2>1. \A i \in 1..Len(s) + Len(l) : i <= Len(s) + Len(l)
        BY <1>1
    <2>2. Inserted(s, l, Len(s)) = [i \in 1..Len(s) + Len(l) |->
                                        IF i <= Len(s) THEN s[i] ELSE l[i - Len(s)]]
        BY <2>1 DEF Inserted
    <2>3. /\ s \o l \in Seq(Blocks) /\ Len(s \o l) = Len(s) + Len(l)
          /\ \A i \in 1..Len(s) + Len(l) :
                 (s \o l)[i] = IF i <= Len(s) THEN s[i] ELSE l[i - Len(s)]
        BY <1>1, ConcatProperties
    <2>4. s \o l = [i \in 1..Len(s) + Len(l) |-> (s \o l)[i]]
        <3> DEFINE c == s \o l
        <3>1. c \in Seq(Blocks) /\ Len(c) = Len(s) + Len(l)
            BY <2>3
        <3> HIDE DEF c
        <3>2. c = [i \in 1..Len(s) + Len(l) |-> c[i]]
            BY <3>1
        <3> QED BY <3>2 DEF c
    <2> QED BY <2>2, <2>3, <2>4
<1> QED BY <1>4, <1>5

LEMMA PrependLists ==
    ASSUME NEW s, Listed(s), NEW l \in Seq(Blocks), Distinct(l), l # <<>>, PrependN(l)
    PROVE  /\ Listed(l \o s)' /\ given' = <<>> /\ Members(l) \cap Members(s) = {}
<1>1. /\ s \in Seq(Blocks) /\ Distinct(s) /\ Links(next, prev, s) /\ Len(s) \in Nat
      /\ Len(l) \in Nat
    BY ListedWalk DEF Listed
<1>2. 0 \in 0..Len(s) /\ At(s, 0) = Head0 /\ next[Head0] = At(s, 0 + 1)
    <2>1. 0 \in 0..Len(s)
        BY <1>1
    <2> QED BY <1>1, <2>1, AtFacts DEF Links
<1>3. Splice(l, At(s, 0), At(s, 0 + 1))
    BY <1>2 DEF PrependN
<1>4. /\ Listed(Inserted(s, l, 0))' /\ given' = <<>>
      /\ Members(l) \cap Members(s) = {}
    BY <1>2, <1>3, SpliceLists
<1>5. Inserted(s, l, 0) = l \o s
    <2>1. \A i \in 1..Len(s) + Len(l) : ~(i <= 0) /\ i - 0 = i /\ 0 + Len(l) = Len(l)
        BY <1>1
    <2>2. Inserted(s, l, 0) = [i \in 1..Len(s) + Len(l) |->
                                   IF i <= Len(l) THEN l[i] ELSE s[i - Len(l)]]
        BY <2>1 DEF Inserted
    <2>3. /\ l \o s \in Seq(Blocks) /\ Len(l \o s) = Len(l) + Len(s)
          /\ \A i \in 1..Len(l) + Len(s) :
                 (l \o s)[i] = IF i <= Len(l) THEN l[i] ELSE s[i - Len(l)]
        BY <1>1, ConcatProperties
    <2>4. Len(l) + Len(s) = Len(s) + Len(l)
        BY <1>1
    <2>5. l \o s = [i \in 1..Len(s) + Len(l) |-> (l \o s)[i]]
        <3> DEFINE c == l \o s
        <3>1. c \in Seq(Blocks) /\ Len(c) = Len(s) + Len(l)
            BY <2>3, <2>4
        <3> HIDE DEF c
        <3>2. c = [i \in 1..Len(s) + Len(l) |-> c[i]]
            BY <3>1
        <3> QED BY <3>2 DEF c
    <2> QED BY <2>2, <2>3, <2>4, <2>5
<1> QED BY <1>4, <1>5

-----------------------------------------------------------------------------
(* The steps of the list are those of the queue.                           *)

LEMMA ListsFacts ==
    ASSUME NEW l \in Lists
    PROVE  l \in Seq(Blocks) /\ Distinct(l) /\ l # <<>>
<1>1. PICK n \in 1..MaxBatch : l \in [1..n -> Blocks]
    BY DEF Lists
<1>2. n \in Nat /\ n >= 1
    BY <1>1, ListAssumption
<1>3. l \in Seq(Blocks) /\ Len(l) = n
    BY <1>1, <1>2
<1> QED BY <1>1, <1>2, <1>3 DEF Lists, Distinct

\* The queue holds s and, one call later, t.
QueueStep(s, t) ==
    \/ \E n \in 1..Len(s) : /\ t = SubSeq(s, n + 1, Len(s))
                            /\ given' = SubSeq(s, 1, n)
    \/ \E k \in DOMAIN s : t = Without(s, k) /\ given' = <<>>
    \/ \E l \in Lists : /\ Members(l) \cap Members(s) = {}
                        /\ t = s \o l \/ t = l \o s
                        /\ given' = <<>>

LEMMA InitLists ==
    ASSUME Init
    PROVE  Listed([i \in 1..NumBlocks |-> i - 1])
<1> DEFINE s == [i \in 1..NumBlocks |-> i - 1]
<1>1. NumBlocks \in Nat /\ NumBlocks >= 1
    BY ListAssumption
<1>2. /\ s \in Seq(Blocks) /\ Len(s) = NumBlocks /\ \A i \in 1..NumBlocks : s[i] = i - 1
      /\ DOMAIN s = 1..NumBlocks
    <2>1. s \in [1..NumBlocks -> Blocks]
        BY <1>1 DEF Blocks
    <2> HIDE DEF s
    <2>2. s \in Seq(Blocks) /\ Len(s) = NumBlocks
        BY <1>1, <2>1
    <2> QED BY <2>1, <2>2 DEF s
<1> HIDE DEF s
<1>3. Distinct(s)
    BY <1>1, <1>2 DEF Distinct
<1>4. Members(s) = Blocks
    <2>1. ASSUME NEW b \in Blocks PROVE b \in Members(s)
        <3>1. b + 1 \in 1..NumBlocks /\ (b + 1) - 1 = b
            BY <1>1 DEF Blocks
        <3> QED BY <1>2, <3>1 DEF Members
    <2> QED BY <1>2, <1>3, <2>1, AtFacts
<1>5. ASSUME NEW i \in 0..NumBlocks
      PROVE  /\ At(s, i) = IF i = 0 THEN Head0 ELSE i - 1
             /\ At(s, i + 1) = IF i = NumBlocks THEN Tail0 ELSE i
    <2>1. i + 1 # 0 /\ i # NumBlocks + 1 /\ (i + 1 = NumBlocks + 1 <=> i = NumBlocks)
        BY <1>1
    <2>2. i # 0 => i \in 1..NumBlocks
        BY <1>1
    <2>3. i # NumBlocks => i + 1 \in 1..NumBlocks /\ (i + 1) - 1 = i
        BY <1>1
    <2> QED BY <1>2, <2>1, <2>2, <2>3 DEF At
<1>6. next[Head0] = 0 /\ next[Tail0] = None
      /\ \A b \in Blocks : next[b] = IF b = NumBlocks - 1 THEN Tail0 ELSE b + 1
    BY <1>1 DEF Init, Head0, Tail0, Blocks, Nodes
<1>7. prev[Head0] = None /\ prev[Tail0] = NumBlocks - 1
      /\ \A b \in Blocks : prev[b] = IF b = 0 THEN Head0 ELSE b - 1
    BY <1>1 DEF Init, Head0, Tail0, Blocks, Nodes
<1>8. next \in [Nodes -> Nodes \cup {None}] /\ prev \in [Nodes -> Nodes \cup {None}]
    BY <1>1 DEF Init, Head0, Tail0, Nodes
<1>9. Links(next, prev, s)
    <2>1. ASSUME NEW i \in 0..Len(s)
          PROVE  next[At(s, i)] = At(s, i + 1) /\ prev[At(s, i + 1)] = At(s, i)
        <3>1. next[At(s, i)] = At(s, i + 1)
            <4>1. CASE i = 0
                BY <1>1, <1>2, <1>5, <1>6, <4>1
            <4>2. CASE i # 0
                <5>1. i - 1 \in Blocks /\ (i - 1 = NumBlocks - 1 <=> i = NumBlocks)
                      /\ (i - 1) + 1 = i
                    BY <1>1, <1>2, <4>2 DEF Blocks
                <5> QED BY <1>2, <1>5, <1>6, <4>2, <5>1
            <4> QED BY <4>1, <4>2
        <3>2. prev[At(s, i + 1)] = At(s, i)
            <4>1. CASE i = NumBlocks
                BY <1>1, <1>2, <1>5, <1>7, <4>1
            <4>2. CASE i # NumBlocks
                <5>1. i \in Blocks
                    BY <1>1, <1>2, <4>2 DEF Blocks
                <5> QED BY <1>2, <1>5, <1>7, <4>2, <5>1
            <4> QED BY <4>1, <4>2
        <3> QED BY <3>1, <3>2
    <2> QED BY <1>4, <1>6, <1>7, <1>8, <2>1 DEF Links
<1>10. Listed(s)
    BY <1>2, <1>3, <1>4, <1>9 DEF Listed, Init
<1> QED BY <1>10 DEF s

LEMMA StepLists ==
    ASSUME NEW s, Listed(s), Next
    PROVE  \E t \in Seq(Blocks) : Listed(t)' /\ QueueStep(s, t)
<1>1. num = Len(s)
    BY DEF Listed
<1>2. ASSUME NEW n \in 1..num, PopLeftN(n)
      PROVE  \E t \in Seq(Blocks) : Listed(t)' /\ QueueStep(s, t)
    <2>1. /\ Listed(SubSeq(s, n + 1, Len(s)))' /\ given' = SubSeq(s, 1, n)
        BY <1>1, <1>2, PopLists
    <2>2. SubSeq(s, n + 1, Len(s)) \in Seq(Blocks)
        BY <2>1 DEF Listed
    <2> QED BY <1>1, <2>1, <2>2 DEF QueueStep
<1>3. ASSUME NEW b \in Blocks, Remove(b)
      PROVE  \E t \in Seq(Blocks) : Listed(t)' /\ QueueStep(s, t)
    <2>1. PICK k \in DOMAIN s : Listed(Without(s, k))' /\ given' = <<>>
        BY <1>3, RemoveLists
    <2>2. Without(s, k) \in Seq(Blocks)
        BY <2>1 DEF Listed
    <2> QED BY <2>1, <2>2 DEF QueueStep
<1>4. ASSUME NEW l \in Lists, AppendN(l) \/ PrependN(l)
      PROVE  \E t \in Seq(Blocks) : Listed(t)' /\ QueueStep(s, t)
    <2>1. PICK t : /\ t = s \o l \/ t = l \o s
                   /\ Listed(t)' /\ given' = <<>> /\ Members(l) \cap Members(s) = {}
        <3>1. CASE AppendN(l)
            BY <3>1, ListsFacts, AppendLists
        <3>2. CASE PrependN(l)
            BY <3>2, ListsFacts, PrependLists
        <3> QED BY <1>4, <3>1, <3>2
    <2>2. t \in Seq(Blocks)
        BY <2>1 DEF Listed
    <2> QED BY <2>1, <2>2 DEF QueueStep
<1> QED BY <1>2, <1>3, <1>4 DEF Next

\* The invariant: after any sequence of calls the links, the count and the
\* shadow set are those of some list of distinct blocks.
THEOREM ListKept == Spec => []Inv
<1>1. Init => Inv
    BY InitLists DEF Inv, Listed
<1>2. Inv /\ [Next]_vars => Inv'
    <2> SUFFICES ASSUME Inv, [Next]_vars PROVE Inv'
        OBVIOUS
    <2>1. PICK s \in Seq(Blocks) : Listed(s)
        BY DEF Inv
    <2>2. CASE Next
        BY <2>1, <2>2, StepLists DEF Inv
    <2>3. CASE UNCHANGED vars
        <3>1. Listed(s)'
            BY <2>1, <2>3 DEF Listed, vars
        <3> QED BY <2>1, <3>1 DEF Inv
    <2> QED BY <2>2, <2>3
<1> QED BY <1>1, <1>2, PTL DEF Spec

\* A listed state can be walked both ways and agrees with what _check compares.
LEMMA ListedBothWays ==
    ASSUME NEW s, Listed(s)
    PROVE  BothWays
<1>1. /\ s \in Seq(Blocks) /\ Distinct(s) /\ Links(next, prev, s)
      /\ linked = Members(s) /\ num = Len(s) /\ Len(s) \in Nat
      /\ \A i \in 0..Len(s) + 1 : Nth[i] = At(s, i)
    BY ListedWalk DEF Listed
<1>2. Len(s) \in 0..NumBlocks /\ Nth[Len(s) + 1] = Tail0
    <2>1. Len(s) + 1 \in 0..Len(s) + 1
        BY <1>1
    <2> QED BY <1>1, <2>1, DistinctCount, AtFacts, NodeFacts
<1>3. ASSUME NEW x \in Nodes
      PROVE  /\ x # Tail0 /\ next[x] # None => prev[next[x]] = x
             /\ x # Head0 /\ prev[x] # None => next[prev[x]] = x
    <2>1. CASE x \in Blocks \ Members(s)
        BY <1>1, <2>1 DEF Links
    <2>2. CASE x \in Members(s)
        <3>1. PICK i \in 1..Len(s) : x = s[i]
            BY <1>1, <2>2, AtFacts
        <3>2. i \in 0..Len(s) /\ i - 1 \in 0..Len(s) /\ (i - 1) + 1 = i /\ x = At(s, i)
            BY <1>1, <3>1, AtFacts
        <3>3. /\ next[x] = At(s, i + 1) /\ prev[At(s, i + 1)] = x
            BY <1>1, <3>2 DEF Links
        <3>4. /\ prev[x] = At(s, i - 1) /\ next[At(s, i - 1)] = x
            BY <1>1, <3>2 DEF Links
        <3> QED BY <3>3, <3>4
    <2>3. CASE x = Head0
        <3>1. 0 \in 0..Len(s) /\ At(s, 0) = Head0
            BY <1>1, AtFacts
        <3> QED BY <1>1, <2>3, <3>1 DEF Links
    <2>4. CASE x = Tail0
        <3>1. Len(s) \in 0..Len(s) /\ At(s, Len(s) + 1) = Tail0
            BY <1>1, AtFacts
        <3> QED BY <1>1, <2>4, <3>1 DEF Links
    <2> QED BY <2>1, <2>2, <2>3, <2>4, NodeFacts
<1>4. \A b \in Blocks \ linked : prev[b] = None /\ next[b] = None
    BY <1>1 DEF Links
<1>5. linked = {Nth[i] : i \in 1..num} /\ num = Cardinality(linked)
    <2>1. \A i \in 1..Len(s) : i \in 0..Len(s) + 1 /\ Nth[i] = s[i]
        BY <1>1, AtFacts
    <2>2. Members(s) = {s[i] : i \in 1..Len(s)} /\ Cardinality(Members(s)) = Len(s)
        BY <1>1, AtFacts, DistinctCount
    <2> QED BY <1>1, <2>1, <2>2
<1> QED BY <1>2, <1>3, <1>4, <1>5 DEF BothWays

\* FreeKVCacheBlockQueue for every number of blocks and every batch size: the
\* list ends, can be walked both ways, and _check never raises.
THEOREM LinksBothWays == Spec => []BothWays
<1>1. Inv => BothWays
    BY ListedBothWays DEF Inv
<1> QED BY <1>1, ListKept, PTL

\* Every call of the list is a call of the queue, or leaves it as it was.
LEMMA QueueStepTaken ==
    ASSUME Inv, [Next]_vars
    PROVE  [Queue!QNext]_(Queue!qvars)
<1>1. PICK s \in Seq(Blocks) : Listed(s)
    BY DEF Inv
<1>2. Walked = s
    BY <1>1, ListedWalk
<1>3. CASE Next
    <2>1. PICK t \in Seq(Blocks) : Listed(t)' /\ QueueStep(s, t)
        BY <1>1, <1>3, StepLists
    <2>2. Distinct(t) /\ Links(next', prev', t)
        BY <2>1 DEF Listed
    <2>3. WalkedIn(next') = t
        BY <2>2, WalkIsList
    <2>4. Walked' = t
        BY <2>3 DEF Walked, WalkedIn, Nth, Path
    <2>5. CASE \E n \in 1..Len(s) : /\ t = SubSeq(s, n + 1, Len(s))
                                    /\ given' = SubSeq(s, 1, n)
        <3>1. \E n \in 1..Len(Walked) : Queue!Pop(n)
            BY <1>2, <2>4, <2>5 DEF Queue!Pop
        <3> QED BY <3>1 DEF Queue!QNext
    <2>6. CASE \E k \in DOMAIN s : t = Without(s, k) /\ given' = <<>>
        <3>1. \E k \in DOMAIN Walked : Queue!Drop(k)
            BY <1>2, <2>4, <2>6 DEF Queue!Drop, Without
        <3> QED BY <3>1 DEF Queue!QNext
    <2>7. CASE \E l \in Lists : /\ Members(l) \cap Members(s) = {}
                                /\ t = s \o l \/ t = l \o s
                                /\ given' = <<>>
        <3>1. PICK l \in Lists : /\ Members(l) \cap Members(s) = {}
                                 /\ t = s \o l \/ t = l \o s
                                 /\ given' = <<>>
            BY <2>7
        <3>2. l \in Queue!Lists
            BY DEF Queue!Lists, Lists, Blocks
        <3>3. Queue!Members(l) \cap Queue!Members(Walked) = {}
            BY <1>2, <3>1 DEF Queue!Members, Members
        <3>4. Queue!PutBack(l, TRUE) \/ Queue!PutBack(l, FALSE)
            BY <1>2, <2>4, <3>1, <3>3 DEF Queue!PutBack
        <3> QED BY <3>2, <3>4 DEF Queue!QNext
    <2> QED BY <2>1, <2>5, <2>6, <2>7 DEF QueueStep
<1>4. CASE UNCHANGED vars
    <2>1. Walked' = Walked /\ given' = given
        BY <1>4 DEF vars, Walked, Nth, Path
    <2> QED BY <2>1 DEF Queue!qvars
<1> QED BY <1>3, <1>4

LEMMA QueueStart ==
    ASSUME Init
    PROVE  Queue!QInit
<1> DEFINE s == [i \in 1..NumBlocks |-> i - 1]
<1>1. Listed(s)
    BY InitLists
<1> HIDE DEF s
<1>2. Walked = s
    BY <1>1, ListedWalk
<1> QED BY <1>2 DEF Queue!QInit, Init, s

\* popleft, remove, append, prepend and their batches implement the queue that
\* BlockPool allocates from: what is handed out comes from the front, in the
\* order in which the blocks were put back at either end.
THEOREM QueueImplemented == Spec => ImplementsQueue
<1>1. Init => Queue!QInit
    BY QueueStart
<1>2. Inv /\ [Next]_vars => [Queue!QNext]_(Queue!qvars)
    BY QueueStepTaken
<1> QED BY <1>1, <1>2, ListKept, PTL DEF Spec, ImplementsQueue, Queue!QSpec
=============================================================================
