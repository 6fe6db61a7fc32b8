--------------------------- MODULE KVPagesProofs ---------------------------
(***************************************************************************)
(* Proofs about KVPages: the invariants of the page pool and of the        *)
(* all-rank barrier hold for any number of keys, slots, ranks, pages,      *)
(* leases, tickets and batches.                                            *)
(***************************************************************************)
EXTENDS KVPages, FiniteSetTheorems, TLAPS

\* The strengthening the byte-level invariants need: what a rank reports as
\* copied is in the destination slot of a ticket for as long as the ticket lives.
IoMeansWritten ==
    \A t \in DOMAIN io, r \in Ranks :
        LET dst == DestTier(pending[t].operation)
        IN  io[t][r] = "ok" /\ dst # NoTier =>
                bytes[dst][pending[t].destination][r] = pending[t].page

\* The inductive invariant: what the runs check, and IoMeansWritten.
IInv ==
    /\ TypeOK
    /\ SlotsPartition
    /\ CountsExact
    /\ PagesNeeded
    /\ TicketsStable
    /\ ReadyMeansWritten
    /\ IoMeansWritten
    /\ BatchesOwnTickets
    /\ NeverRaises

-----------------------------------------------------------------------------
(* Constants and dictionaries                                              *)

\* The slots of a tier are natural numbers, never NoSlot.
LEMMA SlotFacts ==
    ASSUME NEW tier \in Tier
    PROVE  Slots(tier) \subseteq Nat /\ NoSlot \notin Slots(tier) /\ IsFiniteSet(Slots(tier))
<1>1. Slots(tier) \subseteq Nat /\ NoSlot \notin Slots(tier)
    BY CapacityAssumption DEF Tier, Slots, NoSlot
<1>2. IsFiniteSet(Slots(tier))
    BY CapacityAssumption, FS_Interval DEF Tier, Slots
<1> QED BY <1>1, <1>2

\* Every operation pins a copy of its page, and reads and writes different tiers.
LEMMA OperationTiers ==
    ASSUME NEW op \in Operation
    PROVE  /\ SourceTier(op) \in Tier \union {NoTier}
           /\ DestTier(op) \in Tier \union {NoTier}
           /\ SourceTier(op) \in Tier \/ DestTier(op) \in Tier
           /\ SourceTier(op) \in Tier => SourceTier(op) # DestTier(op)
<1>1. CASE op = "offload" BY <1>1 DEF Tier, NoTier, SourceTier, DestTier
<1>2. CASE op = "writeback" BY <1>2 DEF Tier, NoTier, SourceTier, DestTier
<1>3. CASE op = "promote" BY <1>3 DEF Tier, NoTier, SourceTier, DestTier
<1>4. CASE op = "restore" BY <1>4 DEF Tier, NoTier, SourceTier, DestTier
<1> QED BY <1>1, <1>2, <1>3, <1>4 DEF Operation

\* "none" is no tier.
LEMMA NoTierFact == NoTier \notin Tier
BY DEF NoTier, Tier

-----------------------------------------------------------------------------
(* Counting                                                                *)

\* The entries of a dictionary that map to p.
Preimage(f, p) == {x \in DOMAIN f : f[x] = p}

\* Adding a new entry counts one more for the page it maps to.
LEMMA CountWith ==
    ASSUME NEW f, IsFiniteSet(DOMAIN f), NEW k, k \notin DOMAIN f, NEW v, NEW p
    PROVE  Cardinality(Preimage(With(f, k, v), p)) =
             IF v = p THEN Cardinality(Preimage(f, p)) + 1 ELSE Cardinality(Preimage(f, p))
<1>1. IsFiniteSet(Preimage(f, p)) /\ k \notin Preimage(f, p)
    BY FS_Subset DEF Preimage
<1>2. CASE v = p
  <2>1. Preimage(With(f, k, v), p) = Preimage(f, p) \union {k}
      BY <1>2 DEF Preimage, With
  <2> QED BY <1>1, <1>2, <2>1, FS_AddElement
<1>3. CASE v # p
  <2>1. Preimage(With(f, k, v), p) = Preimage(f, p)
      BY <1>3 DEF Preimage, With
  <2> QED BY <1>3, <2>1
<1> QED BY <1>2, <1>3

\* Removing an entry counts one less for the page it mapped to.
LEMMA CountWithout ==
    ASSUME NEW f, IsFiniteSet(DOMAIN f), NEW k \in DOMAIN f, NEW p
    PROVE  Cardinality(Preimage(Without(f, {k}), p)) =
             IF f[k] = p THEN Cardinality(Preimage(f, p)) - 1 ELSE Cardinality(Preimage(f, p))
<1>1. IsFiniteSet(Preimage(f, p))
    BY FS_Subset DEF Preimage
<1>2. CASE f[k] = p
  <2>1. Preimage(Without(f, {k}), p) = Preimage(f, p) \ {k} /\ k \in Preimage(f, p)
      BY <1>2 DEF Preimage, Without
  <2> QED BY <1>1, <1>2, <2>1, FS_RemoveElement
<1>3. CASE f[k] # p
  <2>1. Preimage(Without(f, {k}), p) = Preimage(f, p)
      BY <1>3 DEF Preimage, Without
  <2> QED BY <1>3, <2>1
<1> QED BY <1>2, <1>3

\* The dictionaries are finite.
LEMMA FiniteDomains ==
    ASSUME TypeOK
    PROVE  IsFiniteSet(DOMAIN leases) /\ IsFiniteSet(DOMAIN pending)
<1>1. nextId.lease \in Nat /\ nextId.ticket \in Nat
    BY DEF TypeOK
<1>2. \A n \in Nat : IsFiniteSet(0 .. n - 1)
    BY FS_Interval
<1> QED BY <1>1, <1>2, FS_Subset DEF TypeOK

\* The empty pool satisfies the invariant.
LEMMA InitIInv == Init => IInv
<1> SUFFICES ASSUME Init PROVE IInv
    OBVIOUS
<1>1. TypeOK
  <2>1. /\ free \in [Tier -> SUBSET Int]
        /\ \A tier \in Tier : free[tier] \subseteq Slots(tier)
      BY SlotFacts DEF Init
  <2>2. /\ DOMAIN copies = Tier
        /\ \A tier \in Tier : copies[tier] \in [Slots(tier) -> Nat \union {NoPage}]
      BY DEF Init, NoPage
  <2>3. /\ DOMAIN bytes = Tier
        /\ \A tier \in Tier : bytes[tier] \in [Slots(tier) -> [Ranks -> Nat \union {Garbage}]]
      BY DEF Init, Garbage
  <2>4. /\ nextId \in [page : Nat, lease : Nat, ticket : Nat, batch : Nat]
        /\ raised \in BOOLEAN
      BY DEF Init
  <2>5. /\ DOMAIN pages = {} /\ DOMAIN canonical = {} /\ DOMAIN leases = {}
        /\ DOMAIN pending = {} /\ DOMAIN batches = {} /\ DOMAIN io = {}
      BY DEF Init
  <2>6. /\ pages \in [DOMAIN pages -> Page] /\ canonical \in [DOMAIN canonical -> DOMAIN pages]
        /\ leases \in [DOMAIN leases -> DOMAIN pages]
        /\ pending \in [DOMAIN pending -> Ticket]
        /\ io \in [DOMAIN io -> [Ranks -> {"todo", "ok", "failed"}]]
      BY <2>5 DEF Init
  <2> QED BY <2>1, <2>2, <2>3, <2>4, <2>5, <2>6 DEF TypeOK
<1>2. SlotsPartition
    BY DEF Init, SlotsPartition, NoPage
<1>3. CountsExact /\ PagesNeeded /\ TicketsStable /\ ReadyMeansWritten
    BY DEF Init, CountsExact, PagesNeeded, TicketsStable, ReadyMeansWritten
<1>4. IoMeansWritten /\ BatchesOwnTickets /\ NeverRaises
    BY DEF Init, IoMeansWritten, BatchesOwnTickets, NeverRaises
<1> QED BY <1>1, <1>2, <1>3, <1>4 DEF IInv

-----------------------------------------------------------------------------
(* Collecting pages, over any page table                                   *)

\* The parts of the invariant that _collect must leave in place, of a page
\* table pg, a free list fr, slot owners cp, keys cn, leases ls and tickets pd.
Partitioned(pg, fr, cp) ==
    \A tier \in Tier : \A s \in Slots(tier) :
        /\ s \in fr[tier] <=> cp[tier][s] = NoPage
        /\ \A p \in DOMAIN pg : pg[p].copy[tier].slot = s <=> cp[tier][s] = p
        /\ cp[tier][s] \in DOMAIN pg \union {NoPage}

Counted(pg, ls, pd) ==
    \A p \in DOMAIN pg :
        /\ pg[p].references = Cardinality(Preimage(ls, p))
        /\ \A tier \in Tier : pg[p].copy[tier].pins = Cardinality(Uses(pd, p, tier))

Keyed(pg, cn) ==
    /\ \A p \in DOMAIN pg : pg[p].key # NoKey => pg[p].key \in DOMAIN cn /\ cn[pg[p].key] = p
    /\ DOMAIN cn \subseteq Keys /\ cn \in [DOMAIN cn -> DOMAIN pg]
    /\ \A k \in DOMAIN cn : pg[cn[k]].key = k

Needed(pg, pd, p) == pg[p].references # 0 \/ \E t \in DOMAIN pd : pd[t].page = p

Typed(pg, ls, pd) ==
    /\ DOMAIN pg \subseteq Nat
    /\ pg \in [DOMAIN pg -> Page]
    /\ \A p \in DOMAIN pg, tier \in Tier :
          pg[p].copy[tier].slot \in Slots(tier) \union {NoSlot}
    /\ ls \in [DOMAIN ls -> DOMAIN pg]
    /\ \A t \in DOMAIN pd : pd[t].page \in DOMAIN pg /\ pd[t].operation \in Operation
    /\ IsFiniteSet(DOMAIN ls) /\ IsFiniteSet(DOMAIN pd)

\* All of them, with every page needed but perhaps the ones of `touched'.
Books(pg, fr, cp, cn, ls, pd, touched) ==
    /\ touched \subseteq DOMAIN pg
    /\ Typed(pg, ls, pd)
    /\ Counted(pg, ls, pd)
    /\ Partitioned(pg, fr, cp)
    /\ Keyed(pg, cn)
    /\ \A p \in DOMAIN pg \ touched : Needed(pg, pd, p)

\* A page no lease and no ticket names has no references and no pins, and the
\* other way round: what _collect removes is named by nobody.
LEMMA CollectableUnnamed ==
    ASSUME NEW pg, NEW ls, NEW pd, Typed(pg, ls, pd), Counted(pg, ls, pd),
           NEW p \in DOMAIN pg
    PROVE  Collectable(pg, p) <=> /\ \A l \in DOMAIN ls : ls[l] # p
                                  /\ \A t \in DOMAIN pd : pd[t].page # p
<1>1. IsFiniteSet(Preimage(ls, p))
    BY FS_Subset DEF Preimage, Typed
<1>2. pg[p].references = 0 <=> \A l \in DOMAIN ls : ls[l] # p
  <2>1. pg[p].references = 0 <=> Preimage(ls, p) = {}
      BY <1>1, FS_EmptySet DEF Counted
  <2> QED BY <2>1 DEF Preimage
<1>3. ASSUME NEW tier \in Tier
      PROVE  pg[p].copy[tier].pins = 0 <=> Uses(pd, p, tier) = {}
  <2>1. IsFiniteSet(Uses(pd, p, tier))
      BY FS_Subset DEF Uses, Typed
  <2> QED BY <2>1, FS_EmptySet DEF Counted
<1>4. ~Pinned(pg[p]) <=> \A tier \in Tier : Uses(pd, p, tier) = {}
    BY <1>3 DEF Pinned
<1>5. (\A tier \in Tier : Uses(pd, p, tier) = {}) <=> \A t \in DOMAIN pd : pd[t].page # p
  <2>1. ASSUME NEW t \in DOMAIN pd, pd[t].page = p
        PROVE  \E tier \in Tier : t \in Uses(pd, p, tier)
      BY <2>1, OperationTiers DEF Typed, Uses
  <2>2. ASSUME NEW tier \in Tier, NEW t \in Uses(pd, p, tier)
        PROVE  t \in DOMAIN pd /\ pd[t].page = p
      BY <2>2 DEF Uses
  <2> QED BY <2>1, <2>2
<1> QED BY <1>2, <1>4, <1>5 DEF Collectable

\* What Collect computes: the pages it removes, their slots, and the free list
\* and the slot owners once some slots are released.
Gone(pg, touched) == {p \in touched : Collectable(pg, p)}
GoneSlots(pg, touched) ==
    [tier \in Tier |-> {pg[p].copy[tier].slot : p \in Gone(pg, touched)} \ {NoSlot}]
GoneKeys(pg, touched) == {pg[p].key : p \in Gone(pg, touched)}
Freed(fr, slots) == [tier \in Tier |-> fr[tier] \union slots[tier]]
Disowned(cp, slots) ==
    [tier \in Tier |-> [s \in Slots(tier) |-> IF s \in slots[tier] THEN NoPage ELSE cp[tier][s]]]

\* The slots of the pages to be removed are unpinned and theirs.
Droppable(pg, cp, touched) ==
    \A p \in Gone(pg, touched), tier \in Tier :
        Exists(pg[p].copy[tier]) =>
            pg[p].copy[tier].pins = 0 /\ cp[tier][pg[p].copy[tier].slot] = p

\* Collecting from any page table keeps the books: slots partitioned, counts
\* exact, keys carried by one page, and every page left is needed.
LEMMA CollectBooks ==
    ASSUME NEW pg, NEW fr, NEW cp, NEW cn, NEW ls, NEW pd, NEW touched,
           Books(pg, fr, cp, cn, ls, pd, touched)
    PROVE  /\ Books(Without(pg, Gone(pg, touched)),
                    Freed(fr, GoneSlots(pg, touched)), Disowned(cp, GoneSlots(pg, touched)),
                    Without(cn, GoneKeys(pg, touched)), ls, pd, {})
           /\ Droppable(pg, cp, touched)
<1> SUFFICES ASSUME touched \subseteq DOMAIN pg,
                    Typed(pg, ls, pd), Counted(pg, ls, pd), Partitioned(pg, fr, cp),
                    Keyed(pg, cn), \A p \in DOMAIN pg \ touched : Needed(pg, pd, p)
             PROVE  /\ Books(Without(pg, Gone(pg, touched)),
                         Freed(fr, GoneSlots(pg, touched)), Disowned(cp, GoneSlots(pg, touched)),
                         Without(cn, GoneKeys(pg, touched)), ls, pd, {})
                    /\ Droppable(pg, cp, touched)
    BY DEF Books
<1> DEFINE gone == Gone(pg, touched)
           slots == GoneSlots(pg, touched)
           pg2 == Without(pg, gone)
           fr2 == Freed(fr, slots)
           cp2 == Disowned(cp, slots)
           cn2 == Without(cn, GoneKeys(pg, touched))
<1>0. /\ gone \subseteq DOMAIN pg
      /\ \A p \in gone : Collectable(pg, p)
      /\ \A p \in touched \ gone : ~Collectable(pg, p)
    BY DEF Gone
<1>1. /\ DOMAIN pg2 = DOMAIN pg \ gone
      /\ \A p \in DOMAIN pg2 : pg2[p] = pg[p]
    BY <1>0 DEF Without
<1>2. \A p \in gone : (\A l \in DOMAIN ls : ls[l] # p) /\ (\A t \in DOMAIN pd : pd[t].page # p)
    BY <1>0, CollectableUnnamed
<1> HIDE DEF gone
<1>3. Typed(pg2, ls, pd)
  <2>1. pg2 \in [DOMAIN pg2 -> Page]
      BY <1>1 DEF Typed, Without
  <2>2. ls \in [DOMAIN ls -> DOMAIN pg2]
      BY <1>1, <1>2 DEF Typed
  <2>3. \A t \in DOMAIN pd : pd[t].page \in DOMAIN pg2
      BY <1>1, <1>2 DEF Typed
  <2> QED BY <1>1, <2>1, <2>2, <2>3 DEF Typed
<1>4. Counted(pg2, ls, pd)
    BY <1>1 DEF Counted
<1>5. Partitioned(pg2, fr2, cp2)
  <2> SUFFICES ASSUME NEW tier \in Tier, NEW s \in Slots(tier)
               PROVE  /\ s \in fr2[tier] <=> cp2[tier][s] = NoPage
                      /\ \A p \in DOMAIN pg2 : pg2[p].copy[tier].slot = s <=> cp2[tier][s] = p
                      /\ cp2[tier][s] \in DOMAIN pg2 \union {NoPage}
      BY DEF Partitioned
  <2>1. s \in slots[tier] <=> \E p \in gone : pg[p].copy[tier].slot = s
      BY SlotFacts DEF GoneSlots, gone
  <2>2. s \in slots[tier] <=> cp[tier][s] \in gone
      BY <1>0, <2>1 DEF Partitioned
  <2>3. /\ cp2[tier][s] = IF s \in slots[tier] THEN NoPage ELSE cp[tier][s]
        /\ s \in fr2[tier] <=> s \in fr[tier] \/ s \in slots[tier]
      BY DEF Freed, Disowned
  <2>4. NoPage \notin DOMAIN pg
      BY DEF Typed, NoPage
  <2>5. /\ s \in fr[tier] <=> cp[tier][s] = NoPage
        /\ \A p \in DOMAIN pg : pg[p].copy[tier].slot = s <=> cp[tier][s] = p
        /\ cp[tier][s] \in DOMAIN pg \union {NoPage}
      BY DEF Partitioned
  <2>7. CASE cp[tier][s] \in gone
    <3>1. cp2[tier][s] = NoPage /\ s \in fr2[tier]
        BY <2>2, <2>3, <2>7
    <3>2. \A p \in DOMAIN pg2 : pg2[p].copy[tier].slot # s
        BY <1>0, <1>1, <2>5, <2>7
    <3> QED BY <1>1, <2>4, <3>1, <3>2
  <2>8. CASE cp[tier][s] \notin gone
    <3>1. cp2[tier][s] = cp[tier][s] /\ (s \in fr2[tier] <=> s \in fr[tier])
        BY <2>2, <2>3, <2>8
    <3>2. \A p \in DOMAIN pg2 : pg2[p].copy[tier].slot = s <=> cp[tier][s] = p
        BY <1>1, <2>5
    <3>3. cp[tier][s] \in DOMAIN pg2 \union {NoPage}
        BY <1>1, <2>5, <2>8
    <3> QED BY <2>5, <3>1, <3>2, <3>3
  <2> QED BY <2>7, <2>8
<1>6. Keyed(pg2, cn2)
  <2>1. \A k \in DOMAIN cn : k \in DOMAIN cn2 <=> cn[k] \notin gone
      BY <1>0, NoKeyAssumption DEF Keyed, Without, GoneKeys, gone
  <2>2. DOMAIN cn2 \subseteq DOMAIN cn /\ \A k \in DOMAIN cn2 : cn2[k] = cn[k]
      BY DEF Without
  <2>3. cn2 \in [DOMAIN cn2 -> DOMAIN pg2]
      BY <1>1, <2>1, <2>2 DEF Keyed, Without
  <2>4. ASSUME NEW p \in DOMAIN pg2, pg2[p].key # NoKey
        PROVE  pg2[p].key \in DOMAIN cn2 /\ cn2[pg2[p].key] = p
      BY <1>1, <2>1, <2>2, <2>4 DEF Keyed
  <2>5. \A k \in DOMAIN cn2 : pg2[cn2[k]].key = k
      BY <1>1, <2>1, <2>2 DEF Keyed
  <2> QED BY <2>2, <2>3, <2>4, <2>5 DEF Keyed
<1>7. \A p \in DOMAIN pg2 : Needed(pg2, pd, p)
  <2> SUFFICES ASSUME NEW p \in DOMAIN pg2 PROVE Needed(pg2, pd, p)
      OBVIOUS
  <2>1. CASE p \notin touched
      BY <1>1, <2>1 DEF Needed
  <2>2. CASE p \in touched
    <3>1. ~Collectable(pg, p)
        BY <1>0, <1>1, <2>2
    <3>2. pg[p].references # 0 \/ \E t \in DOMAIN pd : pd[t].page = p
      <4>1. pg[p].references = 0 => \A l \in DOMAIN ls : ls[l] # p
        <5>1. IsFiniteSet(Preimage(ls, p))
            BY FS_Subset DEF Preimage, Typed
        <5>2. pg[p].references = 0 => Preimage(ls, p) = {}
            BY <1>1, <5>1, FS_EmptySet DEF Counted
        <5> QED BY <5>2 DEF Preimage
      <4> QED BY <1>1, <3>1, <4>1, CollectableUnnamed
    <3> QED BY <1>1, <3>2 DEF Needed
  <2> QED BY <2>1, <2>2
<1>8. ASSUME NEW p \in gone, NEW tier \in Tier, Exists(pg[p].copy[tier])
      PROVE  pg[p].copy[tier].pins = 0 /\ cp[tier][pg[p].copy[tier].slot] = p
  <2>1. p \in DOMAIN pg /\ pg[p].copy[tier].slot \in Slots(tier)
      BY <1>0, <1>8 DEF Typed, Exists
  <2> QED BY <1>0, <2>1 DEF Partitioned, Collectable, Pinned
<1> QED BY <1>3, <1>4, <1>5, <1>6, <1>7, <1>8 DEF gone, Books, Droppable

-----------------------------------------------------------------------------
(* From the invariant to the books and back                                *)

\* The invariant, read as facts about the books.
LEMMA BooksOfIInv ==
    ASSUME IInv
    PROVE  Books(pages, free, copies, canonical, leases, pending, {})
<1>1. Typed(pages, leases, pending)
  <2>1. IsFiniteSet(DOMAIN leases) /\ IsFiniteSet(DOMAIN pending)
      BY FiniteDomains DEF IInv
  <2>2. \A t \in DOMAIN pending : pending[t].page \in DOMAIN pages /\ pending[t].operation \in Operation
      BY DEF IInv, TypeOK, Ticket
  <2>3. DOMAIN pages \subseteq Nat
      BY DEF IInv, TypeOK
  <2> QED BY <2>1, <2>2, <2>3 DEF IInv, TypeOK, Typed
<1>2. Counted(pages, leases, pending)
    BY DEF IInv, CountsExact, Counted, Preimage
<1>3. Partitioned(pages, free, copies)
    BY DEF IInv, SlotsPartition, Partitioned
<1>4. Keyed(pages, canonical)
    BY DEF IInv, TypeOK, PagesNeeded, Keyed
<1>5. \A p \in DOMAIN pages : Needed(pages, pending, p)
    BY DEF IInv, PagesNeeded, Needed
<1> QED BY <1>1, <1>2, <1>3, <1>4, <1>5 DEF Books

\* The books after a step, read as the invariants they stand for.
LEMMA InvariantsOfBooks ==
    ASSUME Books(pages', free', copies', canonical', leases', pending', {})
    PROVE  SlotsPartition' /\ CountsExact' /\ PagesNeeded'
<1>1. CountsExact'
    BY DEF Books, CountsExact, Counted, Preimage
<1>2. SlotsPartition'
    BY DEF Books, SlotsPartition, Partitioned
<1>3. PagesNeeded'
    BY DEF Books, PagesNeeded, Keyed, Needed
<1> QED BY <1>1, <1>2, <1>3

\* Collect, as an action: from a page table that fits the new leases and
\* tickets it leaves the books in order and raises nothing.
LEMMA CollectStep ==
    ASSUME TypeOK, NeverRaises, NEW now, NEW touched, NEW dropped, NEW failed, ~failed,
           \A tier \in Tier : dropped[tier] \subseteq Slots(tier),
           Collect(now, touched, dropped, failed),
           Books(now, Freed(free, dropped), Disowned(copies, dropped), canonical,
                 leases', pending', touched)
    PROVE  /\ Books(pages', free', copies', canonical', leases', pending', {})
           /\ NeverRaises' /\ raised' \in BOOLEAN
           /\ DOMAIN pages' \subseteq DOMAIN now
           /\ \A p \in DOMAIN pages' : pages'[p] = now[p]
           /\ free' \in [Tier -> SUBSET Int]
           /\ \A tier \in Tier : free'[tier] \subseteq Slots(tier)
           /\ DOMAIN copies' = Tier
           /\ \A tier \in Tier : copies'[tier] \in [Slots(tier) -> Nat \union {NoPage}]
<1> DEFINE gone == Gone(now, touched)
           slots == GoneSlots(now, touched)
<1>1. /\ pages' = Without(now, gone)
      /\ canonical' = Without(canonical, GoneKeys(now, touched))
    BY DEF Collect, Gone, GoneKeys
<1>2. free' = Freed(Freed(free, dropped), slots)
    BY DEF Collect, FreeSlots, Freed, GoneSlots, Gone
<1>3. copies' = Disowned(Disowned(copies, dropped), slots)
    BY DEF Collect, FreeSlots, Disowned, GoneSlots, Gone
<1>4. /\ Books(pages', free', copies', canonical', leases', pending', {})
      /\ Droppable(now, Disowned(copies, dropped), touched)
    BY <1>1, <1>2, <1>3, CollectBooks
<1>5. gone \subseteq DOMAIN now /\ Typed(now, leases', pending')
    BY DEF Gone, Books
<1>6. NeverRaises' /\ raised' \in BOOLEAN
  <2>1. ASSUME NEW p \in gone, NEW tier \in Tier, Exists(now[p].copy[tier])
        PROVE  ~DropFails(p, now[p].copy[tier], tier)
    <3>1. /\ p \in Nat
          /\ now[p].copy[tier].slot \in Slots(tier)
        BY <1>5, <2>1 DEF Typed, Exists
    <3>2. /\ now[p].copy[tier].pins = 0
          /\ Disowned(copies, dropped)[tier][now[p].copy[tier].slot] = p
        BY <1>4, <2>1 DEF Droppable
    <3>3. copies[tier][now[p].copy[tier].slot] = p
        BY <3>1, <3>2 DEF Disowned, NoPage
    <3> QED BY <2>1, <3>2, <3>3 DEF DropFails
  <2>2. ~raised'
      BY <2>1 DEF Collect, NeverRaises, Gone
  <2>3. raised' \in BOOLEAN
      BY DEF Collect
  <2> QED BY <2>2, <2>3 DEF NeverRaises
<1>7. /\ DOMAIN pages' \subseteq DOMAIN now
      /\ \A p \in DOMAIN pages' : pages'[p] = now[p]
    BY <1>1 DEF Without
<1>8. /\ free' \in [Tier -> SUBSET Int]
      /\ \A tier \in Tier : free'[tier] \subseteq Slots(tier)
  <2>1. \A tier \in Tier : slots[tier] \subseteq Slots(tier)
      BY <1>5 DEF GoneSlots, Typed
  <2>2. \A tier \in Tier : free'[tier] = free[tier] \union dropped[tier] \union slots[tier]
      BY <1>2 DEF Freed
  <2>3. \A tier \in Tier : free'[tier] \subseteq Slots(tier)
      BY <2>1, <2>2 DEF TypeOK
  <2> QED BY <1>2, <2>3, SlotFacts DEF Freed
<1>9. /\ DOMAIN copies' = Tier
      /\ \A tier \in Tier : copies'[tier] \in [Slots(tier) -> Nat \union {NoPage}]
    BY <1>3 DEF TypeOK, Disowned
<1> QED BY <1>4, <1>6, <1>7, <1>8, <1>9

-----------------------------------------------------------------------------
(* Finishing tickets                                                       *)

\* A copy some ticket writes is written by that ticket alone and not ready.
LEMMA DestinationFacts ==
    ASSUME IInv, NEW S, S \subseteq DOMAIN pending, NEW tier \in Tier,
           NEW p \in Destinations(S, tier)
    PROVE  \E t \in S : /\ pending[t].page = p
                        /\ tier = DestTier(pending[t].operation)
                        /\ Uses(pending, p, tier) = {t}
                        /\ pages[p].copy[tier].slot = pending[t].destination
                        /\ pages[p].copy[tier].slot \in Slots(tier)
                        /\ ~pages[p].copy[tier].ready
                        /\ pages[p].copy[tier].pins = 1
<1>1. PICK t \in S : pending[t].page = p /\ DestTier(pending[t].operation) = tier
    BY DEF Destinations
<1>2. /\ Uses(pending, p, tier) = {t}
      /\ pages[p].copy[tier].slot = pending[t].destination
      /\ pages[p].copy[tier].slot \in Slots(tier)
      /\ ~pages[p].copy[tier].ready
    BY <1>1, NoTierFact DEF IInv, TicketsStable
<1>3. p \in DOMAIN pages
    BY DEF Destinations
<1>4. pages[p].copy[tier].pins = Cardinality(Uses(pending, p, tier))
    BY <1>3 DEF IInv, CountsExact
<1>5. pages[p].copy[tier].pins = 1
    BY <1>2, <1>4, FS_Singleton
<1> QED BY <1>1, <1>2, <1>5

\* The tickets left after S use what they used before.
LEMMA UsesWithout ==
    ASSUME NEW pd, NEW S, NEW p, NEW tier
    PROVE  Uses(Without(pd, S), p, tier) = Uses(pd, p, tier) \ S
BY DEF Uses, Without

\* The page table a finish hands to Collect.
FinishedPages(S, success) ==
    [p \in DOMAIN pages |->
        IF \E t \in S : pending[t].page = p THEN Finished(S, success, p) ELSE pages[p]]

\* The pages whose copy in a tier is dropped: the failed destinations.
Lost(S, success, tier) == IF success THEN {} ELSE Destinations(S, tier)

\* What finishing S does to page p: a failed destination is dropped, any other
\* copy keeps its slot, loses the pins of S and is ready if it was, or if S
\* wrote it successfully.
FinishesTo(S, success, p, now) ==
    /\ now.key = pages[p].key /\ now.references = pages[p].references
    /\ now \in Page
    /\ \A tier \in Tier :
          /\ now.copy[tier].pins = Cardinality(Uses(pending, p, tier) \ S)
          /\ p \in Lost(S, success, tier) =>
                now.copy[tier].slot = NoSlot /\ ~now.copy[tier].ready
          /\ p \notin Lost(S, success, tier) =>
                /\ now.copy[tier].slot = pages[p].copy[tier].slot
                /\ now.copy[tier].ready <=>
                      pages[p].copy[tier].ready \/ p \in Destinations(S, tier)

\* Finish treats every page that way, the ones its tickets do not name included.
LEMMA FinishedFacts ==
    ASSUME IInv, NEW S, S \subseteq DOMAIN pending, NEW success \in BOOLEAN,
           NEW p \in DOMAIN pages
    PROVE  FinishesTo(S, success, p, FinishedPages(S, success)[p])
<1> DEFINE now == FinishedPages(S, success)[p]
           left(tier) == Cardinality(Uses(pending, p, tier) \ S)
<1>1. pages[p] \in Page
    BY DEF IInv, TypeOK
<1>2. ASSUME NEW tier \in Tier
      PROVE  PinsLeft(S, p, tier) = left(tier) /\ left(tier) \in Nat
  <2>1. IsFiniteSet(Uses(pending, p, tier))
      BY FiniteDomains, FS_Subset DEF IInv, Uses
  <2>2. IsFiniteSet(Uses(pending, p, tier) \ S)
      BY <2>1, FS_Difference
  <2>3. pages[p].copy[tier].pins = Cardinality(Uses(pending, p, tier))
      BY DEF IInv, CountsExact
  <2>4. left(tier) = Cardinality(Uses(pending, p, tier))
                       - Cardinality(Uses(pending, p, tier) \intersect S)
      BY <2>1, FS_Difference
  <2>5. left(tier) \in Nat
      BY <2>2, FS_CardinalityType
  <2> QED BY <2>3, <2>4, <2>5 DEF PinsLeft
<1>3. ASSUME NEW tier \in Tier, p \in Destinations(S, tier)
      PROVE  left(tier) = 0
  <2>1. Uses(pending, p, tier) \ S = {}
      BY <1>3, DestinationFacts
  <2> QED BY <2>1, FS_EmptySet
<1>4. CASE \E t \in S : pending[t].page = p
  <2>1. now = Finished(S, success, p)
      BY <1>4 DEF FinishedPages
  <2>2. /\ now.key = pages[p].key /\ now.references = pages[p].references
        /\ now = [key |-> pages[p].key, references |-> pages[p].references, copy |-> now.copy]
      BY <1>1, <2>1 DEF Finished, Page
  <2>3. now.copy = [tier \in Tier |->
            CASE p \in Destinations(S, tier) /\ ~success -> NoCopy
              [] p \in Destinations(S, tier) /\ success ->
                    [pages[p].copy[tier] EXCEPT !.pins = PinsLeft(S, p, tier), !.ready = TRUE]
              [] OTHER -> [pages[p].copy[tier] EXCEPT !.pins = PinsLeft(S, p, tier)]]
      BY <1>1, <2>1 DEF Finished, Page
  <2>4. ASSUME NEW tier \in Tier
        PROVE  /\ now.copy[tier] \in Copy
               /\ now.copy[tier].pins = left(tier)
               /\ p \in Lost(S, success, tier) =>
                     now.copy[tier].slot = NoSlot /\ ~now.copy[tier].ready
               /\ p \notin Lost(S, success, tier) =>
                     /\ now.copy[tier].slot = pages[p].copy[tier].slot
                     /\ now.copy[tier].ready <=>
                           pages[p].copy[tier].ready \/ p \in Destinations(S, tier)
    <3>1. pages[p].copy[tier] \in Copy
        BY <1>1 DEF Page
    <3>2. CASE p \in Destinations(S, tier) /\ ~success
        BY <1>3, <2>3, <3>2 DEF NoCopy, Copy, NoSlot, Lost
    <3>3. CASE p \in Destinations(S, tier) /\ success
      <4>1. now.copy[tier] = [pages[p].copy[tier] EXCEPT !.pins = PinsLeft(S, p, tier), !.ready = TRUE]
          BY <2>3, <3>3
      <4>2. now.copy[tier] = [slot |-> pages[p].copy[tier].slot, ready |-> TRUE, pins |-> left(tier)]
          BY <1>2, <3>1, <4>1 DEF Copy
      <4>3. left(tier) \in Nat /\ pages[p].copy[tier].slot \in Int
          BY <1>2, <3>1 DEF Copy
      <4> HIDE DEF now, left
      <4> QED BY <3>3, <4>2, <4>3 DEF Copy, Lost
    <3>4. CASE p \notin Destinations(S, tier)
        BY ZenonT(40), <1>2, <2>3, <3>1, <3>4 DEF Copy, Lost
    <3> QED BY <3>2, <3>3, <3>4
  <2>5. now \in Page
      BY <1>1, <2>2, <2>3, <2>4 DEF Page
  <2> QED BY <2>2, <2>4, <2>5 DEF FinishesTo
<1>5. CASE ~\E t \in S : pending[t].page = p
  <2>1. now = pages[p]
      BY <1>5 DEF FinishedPages
  <2>2. ASSUME NEW tier \in Tier
        PROVE  /\ p \notin Destinations(S, tier) /\ p \notin Lost(S, success, tier)
               /\ now.copy[tier].pins = left(tier)
    <3>1. Uses(pending, p, tier) \ S = Uses(pending, p, tier)
        BY <1>5 DEF Uses
    <3>2. pages[p].copy[tier].pins = Cardinality(Uses(pending, p, tier))
        BY DEF IInv, CountsExact
    <3> QED BY <1>5, <2>1, <3>1, <3>2 DEF Destinations, Lost
  <2> QED BY <1>1, <2>1, <2>2 DEF FinishesTo
<1> QED BY <1>4, <1>5


\* The slots a finish drops: those of the failed destinations.
FinishedSlots(S, success) ==
    [tier \in Tier |-> {pages[p].copy[tier].slot : p \in Lost(S, success, tier)}]

\* Before the collection a finish leaves the books in order, up to the pages
\* whose last need may have gone.
LEMMA FinishBooks ==
    ASSUME IInv, NEW S, S \subseteq DOMAIN pending, NEW success \in BOOLEAN
    PROVE  /\ Books(FinishedPages(S, success),
                    Freed(free, FinishedSlots(S, success)),
                    Disowned(copies, FinishedSlots(S, success)),
                    canonical, leases, Without(pending, S),
                    {p \in DOMAIN pages : \E t \in S : pending[t].page = p})
           /\ \A tier \in Tier : FinishedSlots(S, success)[tier] \subseteq Slots(tier)
<1> DEFINE now == FinishedPages(S, success)
           dropped == FinishedSlots(S, success)
           pd == Without(pending, S)
           touched == {p \in DOMAIN pages : \E t \in S : pending[t].page = p}
<1>1. /\ Typed(pages, leases, pending) /\ Counted(pages, leases, pending)
      /\ Partitioned(pages, free, copies) /\ Keyed(pages, canonical)
      /\ \A p \in DOMAIN pages : Needed(pages, pending, p)
    BY BooksOfIInv DEF Books
<1>2. /\ DOMAIN now = DOMAIN pages
      /\ \A p \in DOMAIN pages \ touched : now[p] = pages[p]
    BY DEF FinishedPages
<1>3. \A p \in DOMAIN pages : FinishesTo(S, success, p, now[p])
    BY FinishedFacts
<1>4. DOMAIN pd = DOMAIN pending \ S /\ \A t \in DOMAIN pd : pd[t] = pending[t]
    BY DEF Without
<1>5. now \in [DOMAIN now -> Page]
    BY <1>2, <1>3 DEF FinishedPages, FinishesTo
<1> HIDE DEF now, pd, touched
<1>6. Typed(now, leases, pd)
  <2>1. IsFiniteSet(DOMAIN pd)
      BY <1>1, <1>4, FS_Subset DEF Typed
  <2>2. \A p \in DOMAIN now, tier \in Tier : now[p].copy[tier].slot \in Slots(tier) \union {NoSlot}
      BY <1>1, <1>2, <1>3 DEF Typed, FinishesTo
  <2> QED BY <1>1, <1>2, <1>4, <1>5, <2>1, <2>2 DEF Typed
<1>7. Counted(now, leases, pd)
  <2> SUFFICES ASSUME NEW p \in DOMAIN pages
               PROVE  /\ now[p].references = Cardinality(Preimage(leases, p))
                      /\ \A tier \in Tier : now[p].copy[tier].pins = Cardinality(Uses(pd, p, tier))
      BY <1>2 DEF Counted
  <2>1. now[p].references = Cardinality(Preimage(leases, p))
      BY <1>1, <1>3 DEF Counted, FinishesTo
  <2>2. \A tier \in Tier : now[p].copy[tier].pins = Cardinality(Uses(pd, p, tier))
      BY <1>3, UsesWithout DEF pd, FinishesTo
  <2> QED BY <2>1, <2>2
<1>8. ASSUME NEW tier \in Tier, NEW s \in Slots(tier)
      PROVE  s \in dropped[tier] <=> copies[tier][s] \in Lost(S, success, tier)
  <2>1. s \in dropped[tier] <=>
            \E p \in Lost(S, success, tier) : pages[p].copy[tier].slot = s
      BY DEF FinishedSlots
  <2>2. Lost(S, success, tier) \subseteq DOMAIN pages
      BY DEF Destinations, Lost
  <2> QED BY <1>1, <2>1, <2>2 DEF Partitioned
<1>9. \A tier \in Tier : dropped[tier] \subseteq Slots(tier)
  <2>1. \A tier \in Tier : \A p \in Lost(S, success, tier) : pages[p].copy[tier].slot \in Slots(tier)
      BY DestinationFacts DEF Lost
  <2> QED BY <2>1 DEF FinishedSlots
<1> HIDE DEF dropped
<1>10. Partitioned(now, Freed(free, dropped), Disowned(copies, dropped))
  <2> SUFFICES ASSUME NEW tier \in Tier, NEW s \in Slots(tier)
               PROVE  /\ s \in Freed(free, dropped)[tier]
                            <=> Disowned(copies, dropped)[tier][s] = NoPage
                      /\ \A p \in DOMAIN now : now[p].copy[tier].slot = s
                            <=> Disowned(copies, dropped)[tier][s] = p
                      /\ Disowned(copies, dropped)[tier][s] \in DOMAIN now \union {NoPage}
      BY DEF Partitioned
  <2>1. /\ s \in Freed(free, dropped)[tier] <=> s \in free[tier] \/ s \in dropped[tier]
        /\ Disowned(copies, dropped)[tier][s] =
              IF s \in dropped[tier] THEN NoPage ELSE copies[tier][s]
      BY DEF Freed, Disowned
  <2>2. /\ s \in free[tier] <=> copies[tier][s] = NoPage
        /\ \A p \in DOMAIN pages : pages[p].copy[tier].slot = s <=> copies[tier][s] = p
        /\ copies[tier][s] \in DOMAIN pages \union {NoPage}
      BY <1>1 DEF Partitioned
  <2>3. NoPage \notin DOMAIN pages /\ NoSlot # s
      BY <1>1, SlotFacts DEF Typed, NoPage
  <2>4. ASSUME NEW p \in DOMAIN pages
        PROVE  now[p].copy[tier].slot = s <=>
                  pages[p].copy[tier].slot = s /\ p \notin Lost(S, success, tier)
      BY <1>3, <2>3, <2>4 DEF FinishesTo
  <2>5. CASE s \in dropped[tier]
      BY <1>2, <1>8, <2>1, <2>2, <2>3, <2>4, <2>5
  <2>6. CASE s \notin dropped[tier]
      BY <1>2, <1>8, <2>1, <2>2, <2>4, <2>6
  <2> QED BY <2>5, <2>6
<1>11. Keyed(now, canonical)
    BY <1>1, <1>2, <1>3 DEF Keyed, FinishesTo
<1>12. \A p \in DOMAIN now \ touched : Needed(now, pd, p)
    BY <1>1, <1>2, <1>4 DEF Needed, touched
<1>13. touched \subseteq DOMAIN now
    BY <1>2 DEF touched
<1> QED BY <1>6, <1>7, <1>9, <1>10, <1>11, <1>12, <1>13 DEF Books, now, dropped, pd, touched

\* Finishing any tickets keeps the invariant: those whose transfer succeeded on
\* every rank become ready, the others give their destinations back, and no
\* batch that is left has lost a ticket.
LEMMA FinishStep ==
    ASSUME IInv, NEW S, S \subseteq DOMAIN pending, NEW success \in BOOLEAN,
           Finish(S, success), UNCHANGED <<leases, nextId, bytes>>,
           success => \A t \in S : t \in DOMAIN io /\ \A r \in Ranks : io[t][r] = "ok",
           DOMAIN batches' \subseteq DOMAIN batches,
           \A b \in DOMAIN batches' : /\ batches'[b] = batches[b]
                                      /\ batches[b].tickets \intersect S = {}
    PROVE  IInv'
<1> DEFINE now == FinishedPages(S, success)
           dropped == FinishedSlots(S, success)
           touched == {p \in DOMAIN pages : \E t \in S : pending[t].page = p}
           failed == ~success /\ \E tier \in Tier : \E p \in Destinations(S, tier) :
                       DropFails(p, [pages[p].copy[tier] EXCEPT !.pins = PinsLeft(S, p, tier)], tier)
<1>1. /\ pending' = Without(pending, S)
      /\ io' = Without(io, S)
    BY DEF Finish
<1>2. Collect(now, touched, dropped, failed)
    BY DEF Finish, FinishedPages, FinishedSlots, Lost
<1>3. /\ Books(now, Freed(free, dropped), Disowned(copies, dropped), canonical,
               leases', pending', touched)
      /\ \A tier \in Tier : dropped[tier] \subseteq Slots(tier)
    BY <1>1, FinishBooks
<1>4. ~failed
  <2> SUFFICES ASSUME NEW tier \in Tier, NEW p \in Destinations(S, tier)
               PROVE  ~DropFails(p, [pages[p].copy[tier] EXCEPT !.pins = PinsLeft(S, p, tier)], tier)
      OBVIOUS
  <2>1. PICK t \in S : /\ Uses(pending, p, tier) = {t}
                       /\ pages[p].copy[tier].slot \in Slots(tier)
                       /\ pages[p].copy[tier].pins = 1
      BY DestinationFacts
  <2>2. p \in DOMAIN pages /\ pages[p].copy[tier] \in Copy
      BY DEF Destinations, IInv, TypeOK, Page
  <2>3. PinsLeft(S, p, tier) = 0
    <3>1. Uses(pending, p, tier) \intersect S = {t}
        BY <2>1
    <3>2. Cardinality(Uses(pending, p, tier) \intersect S) = 1
        BY <3>1, FS_Singleton
    <3> QED BY <2>1, <3>2 DEF PinsLeft
  <2>4. copies[tier][pages[p].copy[tier].slot] = p
      BY <2>1, <2>2 DEF IInv, SlotsPartition
  <2> QED BY <2>1, <2>2, <2>3, <2>4, SlotFacts DEF DropFails, Exists, Copy
<1> HIDE DEF now, dropped, touched, failed
<1>5. /\ Books(pages', free', copies', canonical', leases', pending', {})
      /\ NeverRaises' /\ raised' \in BOOLEAN
      /\ DOMAIN pages' \subseteq DOMAIN now
      /\ \A p \in DOMAIN pages' : pages'[p] = now[p]
      /\ free' \in [Tier -> SUBSET Int]
      /\ \A tier \in Tier : free'[tier] \subseteq Slots(tier)
      /\ DOMAIN copies' = Tier
      /\ \A tier \in Tier : copies'[tier] \in [Slots(tier) -> Nat \union {NoPage}]
    BY <1>2, <1>3, <1>4, CollectStep DEF IInv
<1>6. /\ DOMAIN pending' = DOMAIN pending \ S /\ \A t \in DOMAIN pending' : pending'[t] = pending[t]
      /\ DOMAIN io' = DOMAIN io \ S /\ \A t \in DOMAIN io' : io'[t] = io[t]
    BY <1>1 DEF Without
<1>7. /\ Typed(pages', leases', pending')
      /\ Keyed(pages', canonical')
    BY <1>5 DEF Books
<1>8. /\ DOMAIN pages' \subseteq DOMAIN pages
      /\ \A p \in DOMAIN pages' : FinishesTo(S, success, p, pages'[p])
  <2>1. DOMAIN now = DOMAIN pages
      BY DEF now, FinishedPages
  <2>2. \A p \in DOMAIN pages : FinishesTo(S, success, p, now[p])
      BY FinishedFacts DEF now
  <2> QED BY <1>5, <2>1, <2>2
<1>9. TypeOK'
  <2>1. /\ pending' \in [DOMAIN pending' -> Ticket]
        /\ io' \in [DOMAIN io' -> [Ranks -> {"todo", "ok", "failed"}]]
      BY <1>1 DEF IInv, TypeOK, Without
  <2>2. \A b \in DOMAIN batches' :
          /\ batches'[b] = [tickets |-> batches'[b].tickets, ranks |-> batches'[b].ranks]
          /\ batches'[b].tickets \subseteq DOMAIN pending'
          /\ DOMAIN batches'[b].ranks \subseteq Ranks
          /\ batches'[b].ranks \in [DOMAIN batches'[b].ranks -> BOOLEAN]
      BY <1>6 DEF IInv, TypeOK
  <2>3. /\ nextId' = nextId /\ bytes' = bytes
        /\ DOMAIN pages' \subseteq 0 .. nextId.page - 1
        /\ DOMAIN leases' \subseteq 0 .. nextId.lease - 1
        /\ DOMAIN pending' \subseteq 0 .. nextId.ticket - 1
        /\ DOMAIN batches' \subseteq 0 .. nextId.batch - 1
        /\ DOMAIN io' \subseteq DOMAIN pending'
      BY <1>6, <1>8 DEF IInv, TypeOK
  <2>4. /\ nextId \in [page : Nat, lease : Nat, ticket : Nat, batch : Nat]
        /\ DOMAIN bytes = Tier
        /\ \A tier \in Tier : bytes[tier] \in [Slots(tier) -> [Ranks -> Nat \union {Garbage}]]
      BY DEF IInv, TypeOK
  <2> QED BY <1>5, <1>7, <2>1, <2>2, <2>3, <2>4 DEF TypeOK, Typed, Keyed
\* The tickets that are left use copies that no finished ticket wrote.
<1>10. ASSUME NEW t \in DOMAIN pending', NEW tier \in Tier,
              tier \in {SourceTier(pending[t].operation), DestTier(pending[t].operation)}
       PROVE  pending[t].page \notin Destinations(S, tier)
  <2>1. t \in Uses(pending, pending[t].page, tier) /\ t \notin S
      BY <1>6, <1>10 DEF Uses
  <2> QED BY <2>1, DestinationFacts
<1>11. TicketsStable'
  <2> SUFFICES ASSUME NEW t \in DOMAIN pending'
      PROVE  LET copy == pages'[pending[t].page].copy
                 src == SourceTier(pending[t].operation)
                 dst == DestTier(pending[t].operation)
             IN  /\ src # NoTier => /\ pending[t].source \in Slots(src)
                                    /\ copy[src].slot = pending[t].source
                                    /\ copy[src].ready
                 /\ dst # NoTier => /\ pending[t].destination \in Slots(dst)
                                    /\ copy[dst].slot = pending[t].destination
                                    /\ ~copy[dst].ready
                                    /\ Uses(pending', pending[t].page, dst) = {t}
      BY <1>6 DEF TicketsStable
  <2> DEFINE p == pending[t].page
             src == SourceTier(pending[t].operation)
             dst == DestTier(pending[t].operation)
  <2>1. /\ t \in DOMAIN pending /\ t \notin S
        /\ p \in DOMAIN pages' /\ p \in DOMAIN pages
        /\ src \in Tier \union {NoTier} /\ dst \in Tier \union {NoTier}
      BY <1>6, <1>7, <1>8, OperationTiers DEF Typed
  <2>2. /\ src # NoTier => /\ pending[t].source \in Slots(src)
                           /\ pages[p].copy[src].slot = pending[t].source
                           /\ pages[p].copy[src].ready
        /\ dst # NoTier => /\ pending[t].destination \in Slots(dst)
                           /\ pages[p].copy[dst].slot = pending[t].destination
                           /\ ~pages[p].copy[dst].ready
                           /\ Uses(pending, p, dst) = {t}
      BY <2>1 DEF IInv, TicketsStable
  <2>3. \A tier \in {src, dst} \intersect Tier :
           /\ pages'[p].copy[tier].slot = pages[p].copy[tier].slot
           /\ pages'[p].copy[tier].ready <=> pages[p].copy[tier].ready
      BY <1>8, <1>10, <2>1 DEF FinishesTo, Lost
  <2>4. dst # NoTier => Uses(pending', p, dst) = {t}
      BY <1>1, <2>1, <2>2, UsesWithout
  <2> QED BY <2>1, <2>2, <2>3, <2>4
<1>12. ReadyMeansWritten'
  <2> SUFFICES ASSUME NEW p \in DOMAIN pages', NEW tier \in Tier, NEW r \in Ranks,
                      pages'[p].copy[tier].ready
               PROVE  /\ Exists(pages'[p].copy[tier])
                      /\ bytes[tier][pages'[p].copy[tier].slot][r] = p
      BY DEF ReadyMeansWritten
  <2>1. /\ p \in DOMAIN pages /\ p \notin Lost(S, success, tier)
        /\ pages'[p].copy[tier].slot = pages[p].copy[tier].slot
        /\ pages[p].copy[tier].ready \/ p \in Destinations(S, tier)
      BY <1>8 DEF FinishesTo
  <2>2. CASE pages[p].copy[tier].ready
      BY <2>1, <2>2 DEF IInv, ReadyMeansWritten, Exists
  <2>3. CASE p \in Destinations(S, tier)
    <3>1. success
        BY <2>1, <2>3 DEF Lost
    <3>2. PICK t \in S : /\ pending[t].page = p
                         /\ tier = DestTier(pending[t].operation)
                         /\ pages[p].copy[tier].slot = pending[t].destination
                         /\ pages[p].copy[tier].slot \in Slots(tier)
        BY <2>3, DestinationFacts
    <3>3. t \in DOMAIN io /\ io[t][r] = "ok"
        BY <3>1
    <3>4. bytes[tier][pending[t].destination][r] = p
        BY <3>2, <3>3, NoTierFact DEF IInv, IoMeansWritten
    <3> QED BY <2>1, <3>2, <3>4, SlotFacts DEF Exists
  <2> QED BY <2>1, <2>2, <2>3
<1>13. IoMeansWritten'
  <2>1. \A t \in DOMAIN io' : t \in DOMAIN io /\ io'[t] = io[t] /\ pending'[t] = pending[t]
      BY <1>6, <1>9 DEF TypeOK
  <2>2. bytes' = bytes
      OBVIOUS
  <2> QED BY <2>1, <2>2 DEF IInv, IoMeansWritten
<1>14. BatchesOwnTickets'
    BY <1>6, <1>9 DEF IInv, BatchesOwnTickets, RankDone, RankOutcome, TypeOK
<1> QED BY <1>5, <1>9, <1>11, <1>12, <1>13, <1>14, InvariantsOfBooks DEF IInv

-----------------------------------------------------------------------------
(* Leases                                                                  *)

\* Taking or giving back a lease touches no copy: what is known of tickets,
\* batches and bytes carries over.
LEMMA CopiesCarry ==
    ASSUME IInv, UNCHANGED <<pending, io, bytes, batches>>,
           \A p \in DOMAIN pages' : \/ p \in DOMAIN pages /\ pages'[p].copy = pages[p].copy
                                    \/ \A tier \in Tier : ~pages'[p].copy[tier].ready,
           \A t \in DOMAIN pending : pages'[pending[t].page].copy = pages[pending[t].page].copy
    PROVE  TicketsStable' /\ ReadyMeansWritten' /\ IoMeansWritten' /\ BatchesOwnTickets'
<1>1. TicketsStable'
  <2>1. pending' = pending
      OBVIOUS
  <2> QED BY <2>1 DEF IInv, TicketsStable
<1>2. ReadyMeansWritten'
    BY DEF IInv, ReadyMeansWritten
<1>3. IoMeansWritten'
    BY DEF IInv, IoMeansWritten
<1>4. BatchesOwnTickets'
    BY DEF IInv, BatchesOwnTickets, RankDone, RankOutcome
<1> QED BY <1>1, <1>2, <1>3, <1>4

\* acquire_attention on a live key keeps the invariant.
LEMMA AcquireSharedStep ==
    ASSUME IInv, NEW k \in Keys, AcquireShared(k)
    PROVE  IInv'
<1> DEFINE q == canonical[k]
<1>1. /\ q \in DOMAIN pages
      /\ leases' = With(leases, nextId.lease, q)
      /\ pages' = [pages EXCEPT ![q].references = @ + 1]
      /\ nextId' = [nextId EXCEPT !.lease = @ + 1]
      /\ UNCHANGED <<free, copies, canonical, pending, batches, raised, io, bytes>>
    BY DEF IInv, TypeOK, AcquireShared, NewLease, workerVars
<1>2. /\ DOMAIN pages' = DOMAIN pages
      /\ \A p \in DOMAIN pages : /\ pages'[p].copy = pages[p].copy
                                 /\ pages'[p].key = pages[p].key
                                 /\ pages'[p].references = IF p = q THEN pages[p].references + 1
                                                           ELSE pages[p].references
                                 /\ pages'[p] \in Page
    BY <1>1 DEF IInv, TypeOK, Page
<1>3. TypeOK'
    BY SMTT(40), <1>1, <1>2 DEF IInv, TypeOK, With
<1>4. Books(pages', free', copies', canonical', leases', pending', {})
  <2>1. /\ Typed(pages, leases, pending) /\ Counted(pages, leases, pending)
        /\ Partitioned(pages, free, copies) /\ Keyed(pages, canonical)
        /\ \A p \in DOMAIN pages : Needed(pages, pending, p)
      BY BooksOfIInv DEF Books
  <2>2. Typed(pages', leases', pending')
    <3>1. IsFiniteSet(DOMAIN leases')
        BY <1>1, <2>1, FS_AddElement DEF With, Typed
    <3>2. pages' \in [DOMAIN pages' -> Page] /\ leases' \in [DOMAIN leases' -> DOMAIN pages']
        BY <1>3 DEF TypeOK
    <3> QED BY <1>1, <1>2, <2>1, <3>1, <3>2 DEF Typed
  <2>3. Counted(pages', leases', pending')
    <3> SUFFICES ASSUME NEW p \in DOMAIN pages
                 PROVE  /\ pages'[p].references = Cardinality(Preimage(leases', p))
                        /\ \A tier \in Tier : pages'[p].copy[tier].pins = Cardinality(Uses(pending', p, tier))
        BY <1>2 DEF Counted
    <3>1. nextId.lease \notin DOMAIN leases
        BY DEF IInv, TypeOK
    <3>2. Cardinality(Preimage(leases', p)) =
             IF q = p THEN Cardinality(Preimage(leases, p)) + 1 ELSE Cardinality(Preimage(leases, p))
        BY <1>1, <2>1, <3>1, CountWith DEF Typed
    <3>3. pages'[p].references = Cardinality(Preimage(leases', p))
        BY <1>2, <2>1, <3>2 DEF Counted
    <3>4. pending' = pending /\ pages'[p].copy = pages[p].copy
        BY <1>1, <1>2
    <3> QED BY <2>1, <3>3, <3>4 DEF Counted
  <2>4. Partitioned(pages', free', copies') /\ Keyed(pages', canonical')
      BY <1>1, <1>2, <2>1 DEF Partitioned, Keyed
  <2>5. \A p \in DOMAIN pages' : Needed(pages', pending', p)
    <3>1. \A p \in DOMAIN pages : pages[p].references \in Nat
        BY DEF IInv, TypeOK, Page
    <3> QED BY <1>1, <1>2, <2>1, <3>1 DEF Needed
  <2> QED BY <2>2, <2>3, <2>4, <2>5 DEF Books
<1>5. TicketsStable' /\ ReadyMeansWritten' /\ IoMeansWritten' /\ BatchesOwnTickets'
  <2>1. \A t \in DOMAIN pending : pending[t].page \in DOMAIN pages
      BY DEF IInv, TypeOK
  <2> QED BY <1>1, <1>2, <2>1, CopiesCarry
<1> QED BY <1>1, <1>3, <1>4, <1>5, InvariantsOfBooks DEF IInv, NeverRaises

\* acquire_attention on a new key and acquire_private keep the invariant.
LEMMA AcquireNewStep ==
    ASSUME IInv, NEW k \in Keys \union {NoKey}, AcquireNew(k)
    PROVE  IInv'
<1> DEFINE n == nextId.page
           page == [key |-> k, references |-> 1, copy |-> [tier \in Tier |-> NoCopy]]
<1>1. /\ k \notin DOMAIN canonical
      /\ leases' = With(leases, nextId.lease, n)
      /\ pages' = With(pages, n, page)
      /\ canonical' = IF k = NoKey THEN canonical ELSE With(canonical, k, n)
      /\ nextId' = [nextId EXCEPT !.lease = @ + 1, !.page = @ + 1]
      /\ UNCHANGED <<free, copies, pending, batches, raised, io, bytes>>
    BY DEF AcquireNew, NewLease, workerVars
<1>2. /\ n \in Nat /\ n \notin DOMAIN pages
      /\ nextId.lease \in Nat /\ nextId.lease \notin DOMAIN leases
    BY DEF IInv, TypeOK
<1>3. /\ DOMAIN pages' = DOMAIN pages \union {n}
      /\ pages'[n] = page
      /\ \A p \in DOMAIN pages : pages'[p] = pages[p]
    BY <1>1, <1>2 DEF With
<1>4. page \in Page /\ \A tier \in Tier : page.copy[tier] = NoCopy
    BY DEF Page, Copy, NoCopy, NoSlot
<1>5. /\ Typed(pages, leases, pending) /\ Counted(pages, leases, pending)
      /\ Partitioned(pages, free, copies) /\ Keyed(pages, canonical)
      /\ \A p \in DOMAIN pages : Needed(pages, pending, p)
    BY BooksOfIInv DEF Books
<1> HIDE DEF page
<1>6. Keyed(pages', canonical')
  <2>1. CASE k = NoKey
      BY <1>1, <1>3, <1>5, <2>1 DEF Keyed, page
  <2>2. CASE k # NoKey
    <3>1. /\ DOMAIN canonical' = DOMAIN canonical \union {k} /\ canonical'[k] = n
          /\ \A j \in DOMAIN canonical : canonical'[j] = canonical[j]
        BY <1>1, <2>2 DEF With
    <3>2. canonical' \in [DOMAIN canonical' -> DOMAIN pages']
        BY <1>1, <1>3, <1>5, <2>2, <3>1 DEF Keyed, With
    <3>3. \A j \in DOMAIN canonical' : pages'[canonical'[j]].key = j
        BY <1>2, <1>3, <1>5, <3>1 DEF Keyed, page
    <3>4. \A p \in DOMAIN pages' : pages'[p].key # NoKey =>
              pages'[p].key \in DOMAIN canonical' /\ canonical'[pages'[p].key] = p
        BY <1>1, <1>3, <1>5, <2>2, <3>1 DEF Keyed, page
    <3> QED BY <1>5, <2>2, <3>1, <3>2, <3>3, <3>4 DEF Keyed
  <2> QED BY <2>1, <2>2
<1>7. Typed(pages', leases', pending')
  <2>1. IsFiniteSet(DOMAIN leases')
      BY <1>1, <1>5, FS_AddElement DEF With, Typed
  <2>2. pages' \in [DOMAIN pages' -> Page]
      BY <1>1, <1>3, <1>4, <1>5 DEF Typed, With
  <2>3. leases' \in [DOMAIN leases' -> DOMAIN pages']
      BY <1>1, <1>3, <1>5 DEF Typed, With
  <2>4. \A p \in DOMAIN pages', tier \in Tier :
           pages'[p].copy[tier].slot \in Slots(tier) \union {NoSlot}
      BY <1>3, <1>4, <1>5 DEF Typed, NoCopy
  <2> QED BY <1>1, <1>2, <1>3, <1>5, <2>1, <2>2, <2>3, <2>4 DEF Typed
<1>8. Counted(pages', leases', pending')
  <2>1. ASSUME NEW p
        PROVE  Cardinality(Preimage(leases', p)) =
                 IF n = p THEN Cardinality(Preimage(leases, p)) + 1 ELSE Cardinality(Preimage(leases, p))
      BY <1>1, <1>2, <1>5, CountWith DEF Typed
  <2>2. ASSUME NEW p \in DOMAIN pages
        PROVE  /\ pages'[p].references = Cardinality(Preimage(leases', p))
               /\ \A tier \in Tier : pages'[p].copy[tier].pins = Cardinality(Uses(pending', p, tier))
    <3>1. pages'[p].references = Cardinality(Preimage(leases', p))
        BY <1>2, <1>3, <1>5, <2>1 DEF Counted
    <3>2. pending' = pending /\ pages'[p] = pages[p]
        BY <1>1, <1>3
    <3> QED BY <1>5, <3>1, <3>2 DEF Counted
  <2>3. pages'[n].references = Cardinality(Preimage(leases', n))
    <3>1. Preimage(leases, n) = {}
        BY <1>2, <1>5 DEF Typed, Preimage
    <3>2. Cardinality(Preimage(leases', n)) = 0 + 1
        BY <2>1, <3>1, FS_EmptySet
    <3> QED BY <1>3, <3>2 DEF page
  <2>4. ASSUME NEW tier \in Tier
        PROVE  pages'[n].copy[tier].pins = Cardinality(Uses(pending', n, tier))
    <3>1. Uses(pending', n, tier) = {}
        BY <1>1, <1>2, <1>5 DEF Typed, Uses
    <3>2. pages'[n].copy[tier].pins = 0
        BY <1>3, <1>4 DEF NoCopy
    <3> QED BY <3>1, <3>2, FS_EmptySet
  <2> QED BY <1>3, <2>2, <2>3, <2>4 DEF Counted
<1>9. Partitioned(pages', free', copies')
  <2> SUFFICES ASSUME NEW tier \in Tier, NEW s \in Slots(tier)
               PROVE  /\ s \in free[tier] <=> copies[tier][s] = NoPage
                      /\ \A p \in DOMAIN pages' : pages'[p].copy[tier].slot = s <=> copies[tier][s] = p
                      /\ copies[tier][s] \in DOMAIN pages' \union {NoPage}
      BY <1>1 DEF Partitioned
  <2>1. /\ s \in free[tier] <=> copies[tier][s] = NoPage
        /\ \A p \in DOMAIN pages : pages[p].copy[tier].slot = s <=> copies[tier][s] = p
        /\ copies[tier][s] \in DOMAIN pages \union {NoPage}
      BY <1>5 DEF Partitioned
  <2>2. pages'[n].copy[tier].slot # s /\ copies[tier][s] # n
      BY <1>2, <1>3, <1>4, <2>1, SlotFacts DEF NoCopy, NoPage
  <2> QED BY <1>3, <2>1, <2>2
<1>10. \A p \in DOMAIN pages' : Needed(pages', pending', p)
    BY <1>1, <1>3, <1>5 DEF Needed, page
<1>11. TypeOK'
  <2>1. /\ nextId' \in [page : Nat, lease : Nat, ticket : Nat, batch : Nat]
        /\ nextId'.page = n + 1 /\ nextId'.lease = nextId.lease + 1
        /\ nextId'.ticket = nextId.ticket /\ nextId'.batch = nextId.batch
    <3>1. nextId \in [page : Nat, lease : Nat, ticket : Nat, batch : Nat]
        BY DEF IInv, TypeOK
    <3>2. nextId' = [page |-> n + 1, lease |-> nextId.lease + 1,
                     ticket |-> nextId.ticket, batch |-> nextId.batch]
        BY <1>1, <3>1
    <3> QED BY <3>1, <3>2
  <2>2. /\ DOMAIN pages' \subseteq 0 .. nextId'.page - 1
        /\ DOMAIN leases' \subseteq 0 .. nextId'.lease - 1
      BY <1>1, <1>2, <1>3, <2>1 DEF IInv, TypeOK, With
  <2> QED BY <1>1, <1>6, <1>7, <2>1, <2>2 DEF IInv, TypeOK, Typed, Keyed
<1>12. TicketsStable' /\ ReadyMeansWritten' /\ IoMeansWritten' /\ BatchesOwnTickets'
  <2>1. \A tier \in Tier : ~pages'[n].copy[tier].ready
      BY <1>3, <1>4 DEF NoCopy
  <2>2. \A t \in DOMAIN pending : pending[t].page \in DOMAIN pages
      BY DEF IInv, TypeOK
  <2> QED BY <1>1, <1>3, <2>1, <2>2, CopiesCarry
<1>13. Books(pages', free', copies', canonical', leases', pending', {})
    BY <1>6, <1>7, <1>8, <1>9, <1>10 DEF Books
<1> QED BY <1>1, <1>11, <1>12, <1>13, InvariantsOfBooks DEF IInv, NeverRaises

\* Without(leases, {l}) and the page table with one reference less: the books
\* are in order up to that page.
LEMMA ReleaseBooks ==
    ASSUME IInv, NEW l \in DOMAIN leases, NEW none, none = [tier \in Tier |-> {}]
    PROVE  Books([pages EXCEPT ![leases[l]].references = @ - 1], Freed(free, none),
                 Disowned(copies, none), canonical, Without(leases, {l}), pending, {leases[l]})
<1> DEFINE q == leases[l]
           now == [pages EXCEPT ![q].references = @ - 1]
           ls == Without(leases, {l})
<1>1. /\ Typed(pages, leases, pending) /\ Counted(pages, leases, pending)
      /\ Partitioned(pages, free, copies) /\ Keyed(pages, canonical)
      /\ \A p \in DOMAIN pages : Needed(pages, pending, p)
    BY BooksOfIInv DEF Books
<1>2. q \in DOMAIN pages
    BY <1>1 DEF Typed
<1>3. pages[q].references - 1 \in Nat
  <2>1. IsFiniteSet(Preimage(leases, q)) /\ l \in Preimage(leases, q)
      BY <1>1, FS_Subset DEF Preimage, Typed
  <2>2. Cardinality(Preimage(leases, q)) # 0 /\ Cardinality(Preimage(leases, q)) \in Nat
      BY <2>1, FS_EmptySet, FS_CardinalityType
  <2> QED BY <1>1, <1>2, <2>2 DEF Counted
<1>4. /\ DOMAIN now = DOMAIN pages /\ now \in [DOMAIN now -> Page]
      /\ \A p \in DOMAIN pages : /\ now[p].copy = pages[p].copy /\ now[p].key = pages[p].key
                                 /\ now[p].references = IF p = q THEN pages[p].references - 1
                                                        ELSE pages[p].references
    BY <1>1, <1>2, <1>3 DEF Typed, Page
<1>5. /\ ls \in [DOMAIN ls -> DOMAIN pages] /\ IsFiniteSet(DOMAIN ls)
  <2>1. IsFiniteSet(DOMAIN leases \ {l})
      BY <1>1, FS_RemoveElement DEF Typed
  <2> QED BY <1>1, <2>1 DEF Typed, Without
<1> HIDE DEF now
<1>6. Typed(now, ls, pending)
    BY <1>1, <1>4, <1>5 DEF Typed
<1>7. Counted(now, ls, pending)
  <2> SUFFICES ASSUME NEW p \in DOMAIN pages
               PROVE  /\ now[p].references = Cardinality(Preimage(ls, p))
                      /\ \A tier \in Tier : now[p].copy[tier].pins = Cardinality(Uses(pending, p, tier))
      BY <1>4 DEF Counted
  <2>1. Cardinality(Preimage(ls, p)) =
          IF leases[l] = p THEN Cardinality(Preimage(leases, p)) - 1 ELSE Cardinality(Preimage(leases, p))
      BY <1>1, CountWithout DEF Typed
  <2>2. now[p].references = Cardinality(Preimage(ls, p))
      BY <1>1, <1>4, <2>1 DEF Counted
  <2>3. now[p].copy = pages[p].copy
      BY <1>4
  <2> QED BY <1>1, <2>2, <2>3 DEF Counted
<1>8. Partitioned(now, Freed(free, none), Disowned(copies, none))
  <2> SUFFICES ASSUME NEW tier \in Tier, NEW s \in Slots(tier)
               PROVE  /\ s \in Freed(free, none)[tier] <=> Disowned(copies, none)[tier][s] = NoPage
                      /\ \A p \in DOMAIN now : now[p].copy[tier].slot = s
                            <=> Disowned(copies, none)[tier][s] = p
                      /\ Disowned(copies, none)[tier][s] \in DOMAIN now \union {NoPage}
      BY DEF Partitioned
  <2>1. Freed(free, none)[tier] = free[tier] /\ Disowned(copies, none)[tier][s] = copies[tier][s]
      BY DEF Freed, Disowned
  <2>2. /\ s \in free[tier] <=> copies[tier][s] = NoPage
        /\ \A p \in DOMAIN now : now[p].copy[tier].slot = s <=> copies[tier][s] = p
        /\ copies[tier][s] \in DOMAIN now \union {NoPage}
      BY <1>1, <1>4 DEF Partitioned
  <2> QED BY <2>1, <2>2
<1>9. Keyed(now, canonical)
    BY <1>1, <1>4 DEF Keyed
<1>10. \A p \in DOMAIN now \ {q} : Needed(now, pending, p)
    BY <1>1, <1>4 DEF Needed
<1> QED BY <1>2, <1>4, <1>6, <1>7, <1>8, <1>9, <1>10 DEF Books, now

\* release keeps the invariant.
LEMMA ReleaseStep ==
    ASSUME IInv, NEW l \in DOMAIN leases, Release(l)
    PROVE  IInv'
<1> DEFINE q == leases[l]
           now == [pages EXCEPT ![q].references = @ - 1]
           none == [tier \in Tier |-> {}]
<1>1. /\ leases' = Without(leases, {l})
      /\ Collect(now, {q}, none, FALSE)
      /\ UNCHANGED <<pending, batches, nextId, io, bytes>>
    BY DEF Release, workerVars
<1>2. Books(now, Freed(free, none), Disowned(copies, none), canonical, leases', pending', {q})
    BY <1>1, ReleaseBooks
<1>3. \A tier \in Tier : none[tier] \subseteq Slots(tier)
    OBVIOUS
<1>4. DOMAIN now = DOMAIN pages /\ \A p \in DOMAIN pages : now[p].copy = pages[p].copy
    BY DEF IInv, TypeOK, Page
<1> HIDE DEF now, none, q
<1>5. /\ Books(pages', free', copies', canonical', leases', pending', {})
      /\ NeverRaises' /\ raised' \in BOOLEAN
      /\ DOMAIN pages' \subseteq DOMAIN now
      /\ \A p \in DOMAIN pages' : pages'[p] = now[p]
      /\ free' \in [Tier -> SUBSET Int]
      /\ \A tier \in Tier : free'[tier] \subseteq Slots(tier)
      /\ DOMAIN copies' = Tier
      /\ \A tier \in Tier : copies'[tier] \in [Slots(tier) -> Nat \union {NoPage}]
    BY <1>1, <1>2, <1>3, CollectStep DEF IInv
<1>6. Typed(pages', leases', pending') /\ Keyed(pages', canonical')
    BY <1>5 DEF Books
<1>7. TypeOK'
  <2>1. /\ DOMAIN pages' \subseteq DOMAIN pages
        /\ DOMAIN leases' \subseteq DOMAIN leases
      BY <1>1, <1>4, <1>5 DEF Without
  <2>2. DOMAIN pages' \subseteq 0 .. nextId.page - 1 /\ DOMAIN leases' \subseteq 0 .. nextId.lease - 1
      BY <2>1 DEF IInv, TypeOK
  <2> QED BY <1>1, <1>5, <1>6, <2>2 DEF IInv, TypeOK, Typed, Keyed
<1>8. TicketsStable' /\ ReadyMeansWritten' /\ IoMeansWritten' /\ BatchesOwnTickets'
  <2>1. \A p \in DOMAIN pages' : p \in DOMAIN pages /\ pages'[p].copy = pages[p].copy
      BY <1>4, <1>5
  <2>2. \A t \in DOMAIN pending : pending[t].page \in DOMAIN pages'
      BY <1>1, <1>6 DEF Typed
  <2> QED BY <1>1, <2>1, <2>2, CopiesCarry
<1> QED BY <1>5, <1>7, <1>8, InvariantsOfBooks DEF IInv

-----------------------------------------------------------------------------
(* Reserving transfers                                                     *)

\* A copy that does not exist, or that is ready and unpinned, is in no
\* ticket's way.
LEMMA NoUses ==
    ASSUME IInv, NEW p \in DOMAIN pages, NEW tier \in Tier,
           ~Exists(pages[p].copy[tier]) \/ pages[p].copy[tier].pins = 0
    PROVE  Uses(pending, p, tier) = {}
<1>1. CASE pages[p].copy[tier].pins = 0
  <2>1. IsFiniteSet(Uses(pending, p, tier))
      BY FiniteDomains, FS_Subset DEF IInv, Uses
  <2>2. Cardinality(Uses(pending, p, tier)) = 0
      BY <1>1 DEF IInv, CountsExact
  <2> QED BY <2>1, <2>2, FS_EmptySet
<1>2. CASE ~Exists(pages[p].copy[tier])
  <2> SUFFICES ASSUME NEW t \in Uses(pending, p, tier) PROVE FALSE
      OBVIOUS
  <2>1. /\ t \in DOMAIN pending /\ pending[t].page = p
        /\ tier = SourceTier(pending[t].operation) \/ tier = DestTier(pending[t].operation)
      BY DEF Uses
  <2>2. pages[p].copy[tier].slot \in Slots(tier)
      BY <2>1, NoTierFact DEF IInv, TicketsStable
  <2> QED BY <1>2, <2>2, SlotFacts DEF Exists
<1> QED BY <1>1, <1>2

\* The guards of the begin_* methods: no copy where the operation writes, a
\* ready one where it reads.
LEMMA BeginFacts ==
    ASSUME NEW op \in Operation, NEW p, MayBegin(op, p)
    PROVE  /\ DestTier(op) \in Tier => ~Exists(pages[p].copy[DestTier(op)])
           /\ SourceTier(op) \in Tier => /\ Exists(pages[p].copy[SourceTier(op)])
                                         /\ pages[p].copy[SourceTier(op)].ready
<1>1. CASE op = "offload" BY <1>1, NoTierFact DEF MayBegin, SourceTier, DestTier
<1>2. CASE op = "writeback" BY <1>2, NoTierFact DEF MayBegin, SourceTier, DestTier
<1>3. CASE op = "promote" BY <1>3, NoTierFact DEF MayBegin, SourceTier, DestTier
<1>4. CASE op = "restore" BY <1>4, NoTierFact DEF MayBegin, SourceTier, DestTier
<1> QED BY <1>1, <1>2, <1>3, <1>4 DEF Operation

\* What a reservation does to its page's copy in a tier.
ReservedCopy(op, p, slot, tier) ==
    LET now == Reserved(op, p, slot).copy[tier]
        old == pages[p].copy[tier]
    IN  /\ tier = DestTier(op) => now.slot = slot /\ ~now.ready /\ now.pins = 1
        /\ tier # DestTier(op) => now.slot = old.slot
        /\ tier = SourceTier(op) => now.ready = old.ready /\ now.pins = old.pins + 1
        /\ tier \notin {SourceTier(op), DestTier(op)} => now = old

\* A reservation yields a page, with copies as above.
LEMMA ReservedFacts ==
    ASSUME TypeOK, NEW op \in Operation, NEW p \in DOMAIN pages, NEW slot \in Int
    PROVE  /\ Reserved(op, p, slot) \in Page
           /\ Reserved(op, p, slot).key = pages[p].key
           /\ Reserved(op, p, slot).references = pages[p].references
           /\ \A tier \in Tier : ReservedCopy(op, p, slot, tier)
<1> DEFINE src == SourceTier(op)
           dst == DestTier(op)
           now == Reserved(op, p, slot)
           new == [tier \in Tier |->
                     CASE tier = dst -> [slot |-> slot, ready |-> FALSE, pins |-> 1]
                       [] tier = src -> [pages[p].copy[tier] EXCEPT !.pins = @ + 1]
                       [] OTHER      -> pages[p].copy[tier]]
<1>1. pages[p] \in Page /\ \A tier \in Tier : pages[p].copy[tier] \in Copy
    BY DEF TypeOK, Page
<1>2. now = [pages[p] EXCEPT !.copy = new]
    BY DEF Reserved
<1> HIDE DEF new, now
<1>3. /\ now = [key |-> pages[p].key, references |-> pages[p].references, copy |-> new]
      /\ now.copy = new /\ now.key = pages[p].key /\ now.references = pages[p].references
    BY <1>1, <1>2 DEF Page
<1>4. src \in Tier => src # dst
    BY OperationTiers
<1>5. ASSUME NEW tier \in Tier
      PROVE  new[tier] = IF tier = dst THEN [slot |-> slot, ready |-> FALSE, pins |-> 1]
                         ELSE IF tier = src THEN [pages[p].copy[tier] EXCEPT !.pins = @ + 1]
                         ELSE pages[p].copy[tier]
  <2>1. CASE tier = dst
      BY <1>4, <2>1 DEF new
  <2>2. CASE tier # dst /\ tier = src
      BY <2>2 DEF new
  <2>3. CASE tier # dst /\ tier # src
      BY <2>3 DEF new
  <2> QED BY <2>1, <2>2, <2>3
<1>6. ASSUME NEW tier \in Tier
      PROVE  /\ new[tier] \in Copy
             /\ tier = dst => new[tier].slot = slot /\ ~new[tier].ready /\ new[tier].pins = 1
             /\ tier # dst => new[tier].slot = pages[p].copy[tier].slot
             /\ tier = src => /\ new[tier].ready = pages[p].copy[tier].ready
                              /\ new[tier].pins = pages[p].copy[tier].pins + 1
             /\ tier \notin {src, dst} => new[tier] = pages[p].copy[tier]
  <2>1. CASE tier = dst
    <3>1. new[tier] = [slot |-> slot, ready |-> FALSE, pins |-> 1]
        BY <1>5, <2>1
    <3>2. new[tier] \in Copy
        BY <3>1 DEF Copy
    <3>3. new[tier].slot = slot /\ ~new[tier].ready /\ new[tier].pins = 1
        BY <3>1
    <3>4. tier # src
        BY <1>4, <2>1
    <3> QED BY <2>1, <3>2, <3>3, <3>4
  <2>2. CASE tier # dst /\ tier = src
    <3>1. new[tier] = [pages[p].copy[tier] EXCEPT !.pins = @ + 1]
        BY <1>5, <2>2
    <3> QED BY <1>1, <2>2, <3>1 DEF Copy
  <2>3. CASE tier # dst /\ tier # src
    <3>1. new[tier] = pages[p].copy[tier]
        BY <1>5, <2>3
    <3> QED BY <1>1, <2>3, <3>1
  <2> QED BY <2>1, <2>2, <2>3
<1>7. new \in [Tier -> Copy]
    BY <1>6 DEF new
<1>8. now \in Page
    BY <1>1, <1>3, <1>7 DEF Page
<1>9. \A tier \in Tier : ReservedCopy(op, p, slot, tier)
    BY <1>3, <1>6 DEF ReservedCopy, now
<1> QED BY <1>3, <1>8, <1>9 DEF now

\* Once the slot is in place, reserving a ticket keeps the invariant.  Page p
\* gets its reserved copies; another page may have lost a copy nobody uses.
LEMMA ReserveStep ==
    ASSUME IInv, NEW op \in Operation, NEW p \in DOMAIN pages, NEW slot \in Int,
           MayBegin(op, p), Reserve(op, p, slot),
           DestTier(op) # NoTier => slot \in Slots(DestTier(op)),
           DOMAIN pages' = DOMAIN pages, pages' \in [DOMAIN pages' -> Page],
           pages'[p] = Reserved(op, p, slot),
           \A q \in DOMAIN pages \ {p} :
              /\ pages'[q].key = pages[q].key /\ pages'[q].references = pages[q].references
              /\ \A tier \in Tier : \/ pages'[q].copy[tier] = pages[q].copy[tier]
                                    \/ /\ pages'[q].copy[tier] = NoCopy
                                       /\ Uses(pending, q, tier) = {},
           Partitioned(pages', free', copies'),
           free' \in [Tier -> SUBSET Int],
           \A tier \in Tier : free'[tier] \subseteq Slots(tier),
           DOMAIN copies' = Tier,
           \A tier \in Tier : copies'[tier] \in [Slots(tier) -> Nat \union {NoPage}],
           raised' = FALSE
    PROVE  IInv'
<1> DEFINE n == nextId.ticket
           src == SourceTier(op)
           dst == DestTier(op)
           tk == NewTicket(op, p, slot)
<1>1. /\ pending' = With(pending, n, tk)
      /\ nextId' = [nextId EXCEPT !.ticket = @ + 1]
      /\ UNCHANGED <<canonical, leases, batches, io, bytes>>
    BY DEF Reserve, workerVars
<1>2. /\ n \in Nat /\ n \notin DOMAIN pending /\ n \notin DOMAIN io
    BY DEF IInv, TypeOK
<1>3. /\ DOMAIN pending' = DOMAIN pending \union {n}
      /\ pending'[n] = tk
      /\ \A t \in DOMAIN pending : pending'[t] = pending[t]
    BY <1>1, <1>2 DEF With
<1>4. /\ src \in Tier \union {NoTier} /\ dst \in Tier \union {NoTier}
      /\ src \in Tier => src # dst
    BY OperationTiers
<1>5. /\ dst \in Tier => ~Exists(pages[p].copy[dst])
      /\ src \in Tier => Exists(pages[p].copy[src]) /\ pages[p].copy[src].ready
    BY BeginFacts
<1>6. /\ pages[p] \in Page
      /\ \A tier \in Tier : pages[p].copy[tier].slot \in Slots(tier) \union {NoSlot}
    BY DEF IInv, TypeOK
<1>7. /\ pages'[p].key = pages[p].key /\ pages'[p].references = pages[p].references
      /\ dst \in Tier => /\ pages'[p].copy[dst].slot = slot
                         /\ ~pages'[p].copy[dst].ready
                         /\ pages'[p].copy[dst].pins = 1
      /\ src \in Tier => /\ pages'[p].copy[src].slot = pages[p].copy[src].slot
                         /\ pages'[p].copy[src].ready = pages[p].copy[src].ready
                         /\ pages'[p].copy[src].pins = pages[p].copy[src].pins + 1
      /\ \A tier \in Tier \ {src, dst} : pages'[p].copy[tier] = pages[p].copy[tier]
    BY <1>4, ReservedFacts DEF IInv, ReservedCopy
<1>8. tk \in Ticket /\ tk.page = p /\ tk.operation = op /\ tk.destination = slot /\ ~tk.submitted
  <2>1. tk.source \in Int
      BY <1>4, <1>6 DEF NewTicket, NoSlot, Page, Copy
  <2> QED BY <2>1 DEF NewTicket, Ticket, IInv, TypeOK
<1>9. src # NoTier => tk.source = pages[p].copy[src].slot /\ tk.source \in Slots(src)
    BY <1>4, <1>5, <1>6, NoTierFact DEF NewTicket, Exists
<1> HIDE DEF tk, src, dst, n
\* Who uses what, with the new ticket.
<1>10. \A q, tier : Uses(pending', q, tier) =
           IF q = p /\ tier \in {src, dst} THEN Uses(pending, q, tier) \union {n}
           ELSE Uses(pending, q, tier)
    BY <1>2, <1>3, <1>8 DEF Uses, src, dst
<1>11. dst \in Tier => Uses(pending, p, dst) = {}
    BY <1>5, NoUses
<1>12. Typed(pages', leases', pending')
  <2>1. IsFiniteSet(DOMAIN pending')
      BY <1>3, FiniteDomains, FS_AddElement DEF IInv
  <2>2. \A t \in DOMAIN pending' : pending'[t].page \in DOMAIN pages' /\ pending'[t].operation \in Operation
      BY <1>3, <1>8 DEF IInv, TypeOK, Ticket
  <2>3. ASSUME NEW q \in DOMAIN pages', NEW tier \in Tier
        PROVE  pages'[q].copy[tier].slot \in Slots(tier) \union {NoSlot}
    <3>1. CASE q = p
      <4>1. CASE tier = dst BY <1>7, <3>1, <4>1, NoTierFact DEF dst
      <4>2. CASE tier = src BY <1>6, <1>7, <3>1, <4>2
      <4>3. CASE tier \notin {src, dst} BY <1>6, <1>7, <3>1, <4>3
      <4> QED BY <4>1, <4>2, <4>3
    <3>2. CASE q # p
        BY <3>2 DEF IInv, TypeOK, NoCopy
    <3> QED BY <3>1, <3>2
  <2>4. DOMAIN pages' \subseteq Nat /\ IsFiniteSet(DOMAIN leases')
      BY <1>1, BooksOfIInv DEF Books, Typed
  <2>5. leases' \in [DOMAIN leases' -> DOMAIN pages']
      BY <1>1 DEF IInv, TypeOK
  <2> QED BY <2>1, <2>2, <2>3, <2>4, <2>5 DEF Typed
<1>13. Counted(pages', leases', pending')
  <2> SUFFICES ASSUME NEW q \in DOMAIN pages
               PROVE  /\ pages'[q].references = Cardinality(Preimage(leases', q))
                      /\ \A tier \in Tier : pages'[q].copy[tier].pins = Cardinality(Uses(pending', q, tier))
      BY DEF Counted
  <2>1. /\ pages[q].references = Cardinality(Preimage(leases, q))
        /\ \A tier \in Tier : pages[q].copy[tier].pins = Cardinality(Uses(pending, q, tier))
      BY BooksOfIInv DEF Books, Counted
  <2>2. pages'[q].references = Cardinality(Preimage(leases', q))
    <3>1. pages'[q].references = pages[q].references /\ leases' = leases
        BY <1>1, <1>7
    <3> QED BY <2>1, <3>1
  <2>3. ASSUME NEW tier \in Tier
        PROVE  pages'[q].copy[tier].pins = Cardinality(Uses(pending', q, tier))
    <3>1. IsFiniteSet(Uses(pending, q, tier)) /\ n \notin Uses(pending, q, tier)
        BY <1>2, FiniteDomains, FS_Subset DEF IInv, Uses
    <3>2. CASE q = p /\ tier = dst
      <4>1. Uses(pending', q, tier) = {n}
          BY <1>10, <1>11, <3>2
      <4>2. pages'[q].copy[tier].pins = 1
          BY <1>7, <3>2
      <4> QED BY <4>1, <4>2, FS_Singleton
    <3>3. CASE q = p /\ tier = src
      <4>1. Uses(pending', q, tier) = Uses(pending, q, tier) \union {n}
          BY <1>10, <3>3
      <4>2. Cardinality(Uses(pending', q, tier)) = Cardinality(Uses(pending, q, tier)) + 1
          BY <3>1, <4>1, FS_AddElement
      <4> QED BY <1>7, <2>1, <3>3, <4>2
    <3>4. CASE q # p \/ tier \notin {src, dst}
      <4>1. Uses(pending', q, tier) = Uses(pending, q, tier)
          BY <1>10, <3>4
      <4>2. CASE pages'[q].copy[tier] = pages[q].copy[tier]
          BY <2>1, <4>1, <4>2
      <4>3. CASE pages'[q].copy[tier] = NoCopy /\ Uses(pending, q, tier) = {}
          BY <4>1, <4>3, FS_EmptySet DEF NoCopy
      <4> QED BY <1>7, <3>4, <4>2, <4>3
    <3> QED BY <3>2, <3>3, <3>4
  <2> QED BY <2>2, <2>3
<1>14. Keyed(pages', canonical')
  <2>1. Keyed(pages, canonical)
      BY BooksOfIInv DEF Books
  <2>2. \A q \in DOMAIN pages : pages'[q].key = pages[q].key
      BY <1>7
  <2> QED BY <1>1, <2>1, <2>2 DEF Keyed
<1>15. \A q \in DOMAIN pages' : Needed(pages', pending', q)
  <2>1. \A q \in DOMAIN pages : pages'[q].references = pages[q].references
      BY <1>7
  <2> QED BY <1>3, <2>1, BooksOfIInv DEF Books, Needed
<1>16. Books(pages', free', copies', canonical', leases', pending', {})
    BY <1>12, <1>13, <1>14, <1>15 DEF Books
<1>17. TypeOK'
  <2>1. /\ nextId' \in [page : Nat, lease : Nat, ticket : Nat, batch : Nat]
        /\ nextId'.ticket = n + 1 /\ nextId'.page = nextId.page
        /\ nextId'.lease = nextId.lease /\ nextId'.batch = nextId.batch
      BY <1>1 DEF IInv, TypeOK, n
  <2>2. pending' \in [DOMAIN pending' -> Ticket]
      BY <1>1, <1>3, <1>8 DEF IInv, TypeOK, With
  <2>3. /\ DOMAIN pending' \subseteq 0 .. nextId'.ticket - 1
        /\ DOMAIN pending \subseteq DOMAIN pending'
      BY <1>2, <1>3, <2>1 DEF IInv, TypeOK, n
  <2> QED BY <1>1, <1>12, <1>14, <2>1, <2>2, <2>3 DEF IInv, TypeOK, Typed, Keyed
\* An old ticket's copies keep their slots and their state.
<1>18. ASSUME NEW t \in DOMAIN pending, NEW tier \in Tier,
              tier \in {SourceTier(pending[t].operation), DestTier(pending[t].operation)}
       PROVE  /\ pages'[pending[t].page].copy[tier].slot = pages[pending[t].page].copy[tier].slot
              /\ pages'[pending[t].page].copy[tier].ready = pages[pending[t].page].copy[tier].ready
  <2>1. t \in Uses(pending, pending[t].page, tier) /\ pending[t].page \in DOMAIN pages
      BY <1>18 DEF Uses, IInv, TypeOK
  <2>2. CASE pending[t].page = p
    <3>1. tier # dst
        BY <1>11, <2>1, <2>2
    <3>2. CASE tier = src BY <1>7, <2>2, <3>2
    <3>3. CASE tier # src BY <1>7, <2>2, <3>1, <3>3
    <3> QED BY <3>2, <3>3
  <2>3. CASE pending[t].page # p
      BY <2>1, <2>3
  <2> QED BY <2>2, <2>3
<1>19. TicketsStable'
  <2> SUFFICES ASSUME NEW t \in DOMAIN pending'
      PROVE  LET copy == pages'[pending'[t].page].copy
                 srct == SourceTier(pending'[t].operation)
                 dstt == DestTier(pending'[t].operation)
             IN  /\ srct # NoTier => /\ pending'[t].source \in Slots(srct)
                                     /\ copy[srct].slot = pending'[t].source
                                     /\ copy[srct].ready
                 /\ dstt # NoTier => /\ pending'[t].destination \in Slots(dstt)
                                     /\ copy[dstt].slot = pending'[t].destination
                                     /\ ~copy[dstt].ready
                                     /\ Uses(pending', pending'[t].page, dstt) = {t}
      BY DEF TicketsStable
  <2>1. CASE t = n
    <3>1. src # NoTier => /\ tk.source \in Slots(src)
                          /\ pages'[p].copy[src].slot = tk.source
                          /\ pages'[p].copy[src].ready
        BY <1>4, <1>5, <1>7, <1>9
    <3>2. dst # NoTier => /\ slot \in Slots(dst)
                          /\ pages'[p].copy[dst].slot = slot
                          /\ ~pages'[p].copy[dst].ready
        BY <1>4, <1>7 DEF dst
    <3>3. dst # NoTier => Uses(pending', p, dst) = {n}
        BY <1>4, <1>10, <1>11
    <3> QED BY <1>3, <1>8, <2>1, <3>1, <3>2, <3>3 DEF src, dst
  <2>2. CASE t # n
    <3> DEFINE q == pending[t].page
               srct == SourceTier(pending[t].operation)
               dstt == DestTier(pending[t].operation)
    <3>1. /\ t \in DOMAIN pending /\ pending'[t] = pending[t]
          /\ srct \in Tier \union {NoTier} /\ dstt \in Tier \union {NoTier}
        BY <1>3, <2>2, OperationTiers DEF IInv, TypeOK, Ticket
    <3>2. /\ srct # NoTier => /\ pending[t].source \in Slots(srct)
                              /\ pages[q].copy[srct].slot = pending[t].source
                              /\ pages[q].copy[srct].ready
          /\ dstt # NoTier => /\ pending[t].destination \in Slots(dstt)
                              /\ pages[q].copy[dstt].slot = pending[t].destination
                              /\ ~pages[q].copy[dstt].ready
                              /\ Uses(pending, q, dstt) = {t}
        BY <3>1 DEF IInv, TicketsStable
    <3>3. \A tier \in {srct, dstt} \intersect Tier :
             /\ pages'[q].copy[tier].slot = pages[q].copy[tier].slot
             /\ pages'[q].copy[tier].ready = pages[q].copy[tier].ready
        BY <1>18, <3>1
    <3>4. ASSUME dstt # NoTier PROVE Uses(pending', q, dstt) = {t}
      <4>1. ~(q = p /\ dstt \in {src, dst})
          BY <1>5, <1>11, <3>1, <3>2, <3>4
      <4> QED BY <1>10, <3>2, <3>4, <4>1
    <3> QED BY <3>1, <3>2, <3>3, <3>4
  <2> QED BY <2>1, <2>2
<1>20. ReadyMeansWritten'
  <2> SUFFICES ASSUME NEW q \in DOMAIN pages, NEW tier \in Tier, NEW r \in Ranks,
                      pages'[q].copy[tier].ready
               PROVE  /\ pages[q].copy[tier].ready
                      /\ pages'[q].copy[tier].slot = pages[q].copy[tier].slot
      BY <1>1 DEF IInv, ReadyMeansWritten, Exists
  <2>1. CASE q = p
    <3>1. tier # dst
        BY <1>7, <2>1
    <3>2. CASE tier = src BY <1>7, <2>1, <3>2
    <3>3. CASE tier # src BY <1>7, <2>1, <3>1, <3>3
    <3> QED BY <3>2, <3>3
  <2>2. CASE q # p
      BY <2>2 DEF NoCopy
  <2> QED BY <2>1, <2>2
<1>21. IoMeansWritten'
  <2>1. \A t \in DOMAIN io : pending'[t] = pending[t]
      BY <1>3 DEF IInv, TypeOK
  <2> QED BY <1>1, <2>1 DEF IInv, IoMeansWritten
<1>22. BatchesOwnTickets'
    BY <1>1, <1>2, <1>3, <1>8 DEF IInv, BatchesOwnTickets, RankDone, RankOutcome
<1> QED BY <1>16, <1>17, <1>19, <1>20, <1>21, <1>22, InvariantsOfBooks DEF IInv, NeverRaises

\* begin_offload, begin_writeback and begin_promotion into a free slot.
LEMMA BeginWithFreeSlotStep ==
    ASSUME IInv, NEW l \in DOMAIN leases, NEW op \in Operation, BeginWithFreeSlot(l, op)
    PROVE  IInv'
<1> DEFINE p == leases[l]
           dst == DestTier(op)
<1>1. PICK slot \in free[dst] :
        /\ free' = [free EXCEPT ![dst] = @ \ {slot}]
        /\ raised' = (raised \/ copies[dst][slot] # NoPage)
        /\ copies' = [copies EXCEPT ![dst][slot] = p]
        /\ pages' = [pages EXCEPT ![p] = Reserved(op, p, slot)]
        /\ Reserve(op, p, slot)
    BY DEF BeginWithFreeSlot
<1>2. /\ p \in DOMAIN pages /\ dst \in Tier /\ dst # NoTier /\ MayBegin(op, p)
    BY OperationTiers DEF BeginWithFreeSlot, IInv, TypeOK
<1>3. slot \in Slots(dst) /\ slot \in Int /\ slot # NoSlot /\ copies[dst][slot] = NoPage
    BY <1>1, <1>2, SlotFacts DEF IInv, TypeOK, SlotsPartition
<1>4. /\ DOMAIN pages' = DOMAIN pages /\ pages'[p] = Reserved(op, p, slot)
      /\ \A q \in DOMAIN pages \ {p} : pages'[q] = pages[q]
    BY <1>1, <1>2 DEF IInv, TypeOK
<1>5. Reserved(op, p, slot) \in Page
    BY <1>2, <1>3, ReservedFacts DEF IInv
<1>6. pages' \in [DOMAIN pages' -> Page]
    BY <1>1, <1>4, <1>5 DEF IInv, TypeOK
<1>7. /\ Reserved(op, p, slot).copy[dst].slot = slot
      /\ \A tier \in Tier \ {dst} : Reserved(op, p, slot).copy[tier].slot = pages[p].copy[tier].slot
    BY <1>2, <1>3, ReservedFacts DEF IInv, ReservedCopy
<1>8. /\ free' \in [Tier -> SUBSET Int]
      /\ \A tier \in Tier : free'[tier] = IF tier = dst THEN free[tier] \ {slot} ELSE free[tier]
    BY <1>1, <1>2 DEF IInv, TypeOK
<1>9. /\ DOMAIN copies' = Tier
      /\ \A tier \in Tier : copies'[tier] \in [Slots(tier) -> Nat \union {NoPage}]
      /\ \A tier \in Tier : \A s \in Slots(tier) :
            copies'[tier][s] = IF tier = dst /\ s = slot THEN p ELSE copies[tier][s]
    BY <1>1, <1>2, <1>3 DEF IInv, TypeOK
<1>10. Partitioned(pages', free', copies')
  <2> SUFFICES ASSUME NEW tier \in Tier, NEW s \in Slots(tier)
               PROVE  /\ s \in free'[tier] <=> copies'[tier][s] = NoPage
                      /\ \A q \in DOMAIN pages : pages'[q].copy[tier].slot = s <=> copies'[tier][s] = q
                      /\ copies'[tier][s] \in DOMAIN pages \union {NoPage}
      BY <1>4 DEF Partitioned
  <2>1. /\ s \in free[tier] <=> copies[tier][s] = NoPage
        /\ \A q \in DOMAIN pages : pages[q].copy[tier].slot = s <=> copies[tier][s] = q
        /\ copies[tier][s] \in DOMAIN pages \union {NoPage}
      BY DEF IInv, SlotsPartition
  <2>2. NoPage \notin DOMAIN pages
      BY DEF IInv, TypeOK, NoPage
  <2>3. CASE tier = dst /\ s = slot
      BY <1>2, <1>3, <1>4, <1>7, <1>8, <1>9, <2>1, <2>2, <2>3
  <2>4. CASE tier = dst /\ s # slot
    <3>1. pages[p].copy[tier].slot # s
      <4>1. pages[p].copy[dst].slot = NoSlot
          BY <1>2, BeginFacts DEF Exists
      <4> QED BY <2>4, <4>1, SlotFacts
    <3> QED BY <1>2, <1>4, <1>7, <1>8, <1>9, <2>1, <2>4, <3>1
  <2>5. CASE tier # dst
      BY <1>2, <1>4, <1>7, <1>8, <1>9, <2>1, <2>5
  <2> QED BY <2>3, <2>4, <2>5
<1>11. raised' = FALSE
    BY <1>1, <1>3 DEF IInv, NeverRaises, TypeOK
<1>12. \A tier \in Tier : free'[tier] \subseteq Slots(tier)
    BY <1>8 DEF IInv, TypeOK
<1> QED BY <1>1, <1>2, <1>3, <1>4, <1>6, <1>8, <1>9, <1>10, <1>11, <1>12, ReserveStep

\* The same when the tier is full and a redundant copy makes room.
LEMMA BeginWithEvictionStep ==
    ASSUME IInv, NEW l \in DOMAIN leases, NEW op \in Operation, BeginWithEviction(l, op)
    PROVE  IInv'
<1> DEFINE p == leases[l]
           dst == DestTier(op)
<1>1. PICK v \in DOMAIN pages :
        /\ Evictable(v, dst)
        /\ raised' = (raised \/ DropFails(v, pages[v].copy[dst], dst))
        /\ copies' = [copies EXCEPT ![dst][pages[v].copy[dst].slot] = p]
        /\ pages' = [pages EXCEPT ![v].copy[dst] = NoCopy,
                                  ![p] = Reserved(op, p, pages[v].copy[dst].slot)]
        /\ UNCHANGED free
        /\ Reserve(op, p, pages[v].copy[dst].slot)
    BY DEF BeginWithEviction
<1> DEFINE slot == pages[v].copy[dst].slot
<1>2. /\ p \in DOMAIN pages /\ dst \in Tier /\ dst # NoTier /\ MayBegin(op, p)
    BY OperationTiers DEF BeginWithEviction, IInv, TypeOK
<1>3. /\ slot \in Slots(dst) /\ slot \in Int /\ slot # NoSlot
      /\ copies[dst][slot] = v /\ pages[v].copy[dst].pins = 0
  <2>1. Exists(pages[v].copy[dst]) /\ pages[v].copy[dst].pins = 0
      BY <1>1 DEF Evictable
  <2>2. slot \in Slots(dst)
      BY <1>1, <1>2, <2>1 DEF Exists, IInv, TypeOK
  <2> QED BY <1>1, <1>2, <2>1, <2>2, SlotFacts DEF IInv, SlotsPartition, Exists
<1>4. v # p /\ pages[p].copy[dst].slot = NoSlot
    BY <1>1, <1>2, <1>3, BeginFacts DEF Exists
<1>5. pages[v] \in Page /\ pages[p] \in Page
    BY <1>1, <1>2 DEF IInv, TypeOK
<1>6. Reserved(op, p, slot) \in Page
    BY <1>2, <1>3, ReservedFacts DEF IInv
<1>7. /\ Reserved(op, p, slot).copy[dst].slot = slot
      /\ \A tier \in Tier \ {dst} : Reserved(op, p, slot).copy[tier].slot = pages[p].copy[tier].slot
    BY <1>2, <1>3, ReservedFacts DEF IInv, ReservedCopy
<1> DEFINE victim == [pages[v] EXCEPT !.copy[dst] = NoCopy]
<1>8. /\ DOMAIN pages' = DOMAIN pages
      /\ pages'[p] = Reserved(op, p, slot)
      /\ pages'[v] = victim
      /\ \A q \in DOMAIN pages \ {p, v} : pages'[q] = pages[q]
    BY <1>1, <1>2, <1>4 DEF IInv, TypeOK
<1>9. /\ victim \in Page
      /\ victim.key = pages[v].key /\ victim.references = pages[v].references
      /\ victim.copy[dst] = NoCopy
      /\ \A tier \in Tier \ {dst} : victim.copy[tier] = pages[v].copy[tier]
  <2>1. NoCopy \in Copy
      BY DEF NoCopy, Copy, NoSlot
  <2>2. victim = [key |-> pages[v].key, references |-> pages[v].references,
                  copy |-> [pages[v].copy EXCEPT ![dst] = NoCopy]]
      BY <1>5 DEF Page
  <2>3. [pages[v].copy EXCEPT ![dst] = NoCopy] \in [Tier -> Copy]
      BY <1>5, <2>1 DEF Page
  <2> QED BY <1>2, <1>5, <2>2, <2>3 DEF Page
<1> HIDE DEF victim
<1>10. pages' \in [DOMAIN pages' -> Page]
  <2>1. \A q \in DOMAIN pages : pages'[q] \in Page
      BY <1>6, <1>8, <1>9 DEF IInv, TypeOK
  <2> QED BY <1>1, <1>8, <2>1
<1>11. /\ DOMAIN copies' = Tier
       /\ \A tier \in Tier : copies'[tier] \in [Slots(tier) -> Nat \union {NoPage}]
       /\ \A tier \in Tier : \A s \in Slots(tier) :
             copies'[tier][s] = IF tier = dst /\ s = slot THEN p ELSE copies[tier][s]
    BY <1>1, <1>2, <1>3 DEF IInv, TypeOK
<1>12. Partitioned(pages', free', copies')
  <2> SUFFICES ASSUME NEW tier \in Tier, NEW s \in Slots(tier)
               PROVE  /\ s \in free[tier] <=> copies'[tier][s] = NoPage
                      /\ \A q \in DOMAIN pages : pages'[q].copy[tier].slot = s <=> copies'[tier][s] = q
                      /\ copies'[tier][s] \in DOMAIN pages \union {NoPage}
      BY SMTT(40), <1>1, <1>8 DEF Partitioned
  <2>1. /\ s \in free[tier] <=> copies[tier][s] = NoPage
        /\ \A q \in DOMAIN pages : pages[q].copy[tier].slot = s <=> copies[tier][s] = q
        /\ copies[tier][s] \in DOMAIN pages \union {NoPage}
      BY DEF IInv, SlotsPartition
  <2>2. NoPage \notin DOMAIN pages /\ s # NoSlot
      BY SlotFacts DEF IInv, TypeOK, NoPage
  <2>3. CASE tier # dst
      BY <1>2, <1>7, <1>8, <1>9, <1>11, <2>1, <2>3
  <2>4. CASE tier = dst /\ s = slot
    <3>1. s \notin free[tier] /\ copies'[tier][s] = p
        BY <1>1, <1>3, <1>11, <2>1, <2>2, <2>4
    <3>2. \A q \in DOMAIN pages : pages'[q].copy[tier].slot = s <=> q = p
      <4>1. pages'[p].copy[tier].slot = s
          BY <1>7, <1>8, <2>4
      <4>2. pages'[v].copy[tier].slot # s
          BY <1>8, <1>9, <2>2, <2>4 DEF NoCopy
      <4>3. \A q \in DOMAIN pages \ {p, v} : pages'[q].copy[tier].slot # s
          BY <1>3, <1>8, <2>1, <2>4
      <4> QED BY <4>1, <4>2, <4>3
    <3> QED BY <1>2, <2>2, <3>1, <3>2
  <2>5. CASE tier = dst /\ s # slot
    <3>1. copies'[tier][s] = copies[tier][s] /\ copies[tier][s] # v /\ copies[tier][s] # p
        BY <1>1, <1>2, <1>4, <1>11, <2>1, <2>2, <2>5
    <3>2. pages'[p].copy[tier].slot # s /\ pages'[v].copy[tier].slot # s
        BY <1>7, <1>8, <1>9, <2>2, <2>5 DEF NoCopy
    <3> QED BY <1>8, <2>1, <3>1, <3>2
  <2> QED BY <2>3, <2>4, <2>5
<1>13. raised' = FALSE
    BY <1>1, <1>3 DEF IInv, NeverRaises, TypeOK, DropFails, Exists
<1>14. Uses(pending, v, dst) = {}
    BY <1>1, <1>2, <1>3, NoUses
<1>15. /\ free' \in [Tier -> SUBSET Int]
       /\ \A tier \in Tier : free'[tier] \subseteq Slots(tier)
    BY <1>1 DEF IInv, TypeOK
<1>16. \A q \in DOMAIN pages \ {p} :
          /\ pages'[q].key = pages[q].key /\ pages'[q].references = pages[q].references
          /\ \A tier \in Tier : \/ pages'[q].copy[tier] = pages[q].copy[tier]
                                \/ /\ pages'[q].copy[tier] = NoCopy
                                   /\ Uses(pending, q, tier) = {}
    BY <1>8, <1>9, <1>14
<1> QED BY <1>1, <1>2, <1>3, <1>8, <1>10, <1>11, <1>12, <1>13, <1>15, <1>16, ReserveStep

\* begin_restore keeps the invariant.
LEMMA BeginRestoreStep ==
    ASSUME IInv, NEW l \in DOMAIN leases, BeginRestore(l)
    PROVE  IInv'
<1> DEFINE p == leases[l]
           op == "restore"
<1>1. /\ MayBegin(op, p) /\ Reserve(op, p, NoSlot)
      /\ pages' = [pages EXCEPT ![p] = Reserved(op, p, NoSlot)]
      /\ UNCHANGED <<free, copies, raised>>
    BY DEF BeginRestore
<1>2. /\ p \in DOMAIN pages /\ op \in Operation /\ NoSlot \in Int
      /\ DestTier(op) = NoTier
    BY DEF IInv, TypeOK, Operation, NoSlot, DestTier
<1>3. /\ DOMAIN pages' = DOMAIN pages /\ pages'[p] = Reserved(op, p, NoSlot)
      /\ \A q \in DOMAIN pages \ {p} : pages'[q] = pages[q]
    BY <1>1, <1>2 DEF IInv, TypeOK
<1>4. /\ Reserved(op, p, NoSlot) \in Page
      /\ \A tier \in Tier : Reserved(op, p, NoSlot).copy[tier].slot = pages[p].copy[tier].slot
    BY <1>2, ReservedFacts, NoTierFact DEF IInv, ReservedCopy
<1>5. pages' \in [DOMAIN pages' -> Page]
    BY <1>1, <1>3, <1>4 DEF IInv, TypeOK
<1>6. Partitioned(pages', free', copies')
    BY <1>1, <1>3, <1>4 DEF IInv, SlotsPartition, Partitioned
<1>7. /\ free' \in [Tier -> SUBSET Int]
      /\ \A tier \in Tier : free'[tier] \subseteq Slots(tier)
      /\ DOMAIN copies' = Tier
      /\ \A tier \in Tier : copies'[tier] \in [Slots(tier) -> Nat \union {NoPage}]
      /\ raised' = FALSE
    BY <1>1 DEF IInv, TypeOK, NeverRaises
<1> HIDE DEF op
<1> QED BY <1>1, <1>2, <1>3, <1>5, <1>6, <1>7, ReserveStep

\* evict_host and evict_disk keep the invariant.
LEMMA EvictStep ==
    ASSUME IInv, NEW l \in DOMAIN leases, NEW t0 \in Tier, Evict(l, t0)
    PROVE  IInv'
<1> DEFINE p == leases[l]
           slot == pages[p].copy[t0].slot
           dropped == [x \in Tier |-> IF x = t0 THEN {slot} ELSE {}]
           page == [pages[p] EXCEPT !.copy[t0] = NoCopy]
<1>1. /\ Evictable(p, t0)
      /\ FreeSlots(dropped)
      /\ pages' = [pages EXCEPT ![p].copy[t0] = NoCopy]
      /\ raised' = (raised \/ DropFails(p, pages[p].copy[t0], t0))
      /\ UNCHANGED <<canonical, leases, pending, batches, nextId, io, bytes>>
    BY DEF Evict, workerVars
<1>2. p \in DOMAIN pages /\ pages[p] \in Page
    BY DEF IInv, TypeOK
<1>3. /\ slot \in Slots(t0) /\ slot # NoSlot
      /\ copies[t0][slot] = p /\ pages[p].copy[t0].pins = 0
  <2>1. Exists(pages[p].copy[t0]) /\ pages[p].copy[t0].pins = 0
      BY <1>1 DEF Evictable
  <2>2. slot \in Slots(t0)
      BY <1>2, <2>1 DEF Exists, IInv, TypeOK
  <2> QED BY <1>2, <2>1, <2>2 DEF IInv, SlotsPartition, Exists
<1>4. Uses(pending, p, t0) = {}
    BY <1>2, <1>3, NoUses
<1>5. /\ DOMAIN pages' = DOMAIN pages /\ pages'[p] = page
      /\ \A q \in DOMAIN pages \ {p} : pages'[q] = pages[q]
    BY <1>1, <1>2 DEF IInv, TypeOK
<1>6. /\ page \in Page
      /\ page.key = pages[p].key /\ page.references = pages[p].references
      /\ page.copy[t0] = NoCopy
      /\ \A tier \in Tier \ {t0} : page.copy[tier] = pages[p].copy[tier]
  <2>1. NoCopy \in Copy
      BY DEF NoCopy, Copy, NoSlot
  <2>2. page = [key |-> pages[p].key, references |-> pages[p].references,
                copy |-> [pages[p].copy EXCEPT ![t0] = NoCopy]]
      BY <1>2 DEF Page
  <2>3. [pages[p].copy EXCEPT ![t0] = NoCopy] \in [Tier -> Copy]
      BY <1>2, <2>1 DEF Page
  <2> QED BY <1>2, <2>2, <2>3 DEF Page
<1> HIDE DEF page
<1>7. /\ \A q \in DOMAIN pages : /\ pages'[q] \in Page
                                 /\ pages'[q].key = pages[q].key
                                 /\ pages'[q].references = pages[q].references
      /\ pages' \in [DOMAIN pages' -> Page]
  <2>1. \A q \in DOMAIN pages : /\ pages'[q] \in Page
                                /\ pages'[q].key = pages[q].key
                                /\ pages'[q].references = pages[q].references
      BY <1>5, <1>6 DEF IInv, TypeOK
  <2> QED BY <1>1, <1>5, <2>1
<1>8. /\ free' \in [Tier -> SUBSET Int]
      /\ \A tier \in Tier : free'[tier] = IF tier = t0 THEN free[tier] \union {slot} ELSE free[tier]
      /\ \A tier \in Tier : free'[tier] \subseteq Slots(tier)
  <2>1. \A tier \in Tier : free'[tier] = IF tier = t0 THEN free[tier] \union {slot} ELSE free[tier]
      BY <1>1 DEF FreeSlots
  <2>2. ASSUME NEW tier \in Tier PROVE free'[tier] \subseteq Slots(tier)
    <3>1. free[tier] \subseteq Slots(tier)
        BY DEF IInv, TypeOK
    <3>2. CASE tier = t0 BY <1>3, <2>1, <3>1, <3>2
    <3>3. CASE tier # t0 BY <2>1, <3>1, <3>3
    <3> QED BY <3>2, <3>3
  <2>3. free' = [tier \in Tier |-> free'[tier]]
      BY <1>1 DEF FreeSlots
  <2> QED BY <2>1, <2>2, <2>3, SlotFacts
<1>9. /\ DOMAIN copies' = Tier
      /\ \A tier \in Tier : copies'[tier] \in [Slots(tier) -> Nat \union {NoPage}]
      /\ \A tier \in Tier : \A s \in Slots(tier) :
            copies'[tier][s] = IF tier = t0 /\ s = slot THEN NoPage ELSE copies[tier][s]
    BY <1>1 DEF FreeSlots, IInv, TypeOK
<1>10. Partitioned(pages', free', copies')
  <2> SUFFICES ASSUME NEW tier \in Tier, NEW s \in Slots(tier)
               PROVE  /\ s \in free'[tier] <=> copies'[tier][s] = NoPage
                      /\ \A q \in DOMAIN pages : pages'[q].copy[tier].slot = s <=> copies'[tier][s] = q
                      /\ copies'[tier][s] \in DOMAIN pages \union {NoPage}
      BY <1>5 DEF Partitioned
  <2>1. /\ s \in free[tier] <=> copies[tier][s] = NoPage
        /\ \A q \in DOMAIN pages : pages[q].copy[tier].slot = s <=> copies[tier][s] = q
        /\ copies[tier][s] \in DOMAIN pages \union {NoPage}
      BY DEF IInv, SlotsPartition
  <2>2. NoPage \notin DOMAIN pages /\ s # NoSlot
      BY SlotFacts DEF IInv, TypeOK, NoPage
  <2>3. CASE tier # t0
      BY <1>5, <1>6, <1>8, <1>9, <2>1, <2>3
  <2>4. CASE tier = t0 /\ s = slot
    <3>1. s \in free'[tier] /\ copies'[tier][s] = NoPage
        BY <1>8, <1>9, <2>4
    <3>2. \A q \in DOMAIN pages : pages'[q].copy[tier].slot # s
        BY <1>3, <1>5, <1>6, <2>1, <2>2, <2>4 DEF NoCopy
    <3> QED BY <2>2, <3>1, <3>2
  <2>5. CASE tier = t0 /\ s # slot
    <3>1. copies'[tier][s] = copies[tier][s] /\ copies[tier][s] # p
        BY <1>2, <1>9, <2>1, <2>2, <2>5
    <3>2. pages'[p].copy[tier].slot # s
        BY <1>5, <1>6, <2>2, <2>5 DEF NoCopy
    <3> QED BY <1>5, <1>8, <2>1, <2>5, <3>1, <3>2
  <2> QED BY <2>3, <2>4, <2>5
<1>11. /\ Typed(pages, leases, pending) /\ Counted(pages, leases, pending)
       /\ Keyed(pages, canonical) /\ \A q \in DOMAIN pages : Needed(pages, pending, q)
    BY BooksOfIInv DEF Books
<1>12. \A q \in DOMAIN pages, tier \in Tier :
          \/ pages'[q].copy[tier] = pages[q].copy[tier]
          \/ pages'[q].copy[tier] = NoCopy /\ Uses(pending, q, tier) = {}
    BY <1>4, <1>5, <1>6
<1>13. Typed(pages', leases', pending')
    BY <1>1, <1>5, <1>7, <1>11, <1>12 DEF Typed, NoCopy
<1>14. Counted(pages', leases', pending')
  <2> SUFFICES ASSUME NEW q \in DOMAIN pages
               PROVE  /\ pages'[q].references = Cardinality(Preimage(leases, q))
                      /\ \A tier \in Tier : pages'[q].copy[tier].pins = Cardinality(Uses(pending, q, tier))
      BY <1>1, <1>5 DEF Counted
  <2>1. pages'[q].references = Cardinality(Preimage(leases, q))
      BY <1>7, <1>11 DEF Counted
  <2>2. ASSUME NEW tier \in Tier
        PROVE  pages'[q].copy[tier].pins = Cardinality(Uses(pending, q, tier))
    <3>1. CASE pages'[q].copy[tier] = pages[q].copy[tier]
        BY <1>11, <3>1 DEF Counted
    <3>2. CASE pages'[q].copy[tier] = NoCopy /\ Uses(pending, q, tier) = {}
        BY <3>2, FS_EmptySet DEF NoCopy
    <3> QED BY <1>12, <3>1, <3>2
  <2> QED BY <2>1, <2>2
<1>15. Keyed(pages', canonical') /\ \A q \in DOMAIN pages' : Needed(pages', pending', q)
    BY <1>1, <1>5, <1>7, <1>11 DEF Keyed, Needed
<1>16. raised' = FALSE
    BY <1>1, <1>3 DEF IInv, NeverRaises, TypeOK, DropFails, Exists
<1>17. TypeOK'
    BY <1>1, <1>5, <1>8, <1>9, <1>13, <1>15, <1>16 DEF IInv, TypeOK, Typed, Keyed
<1>18. TicketsStable'
  <2>1. ASSUME NEW t \in DOMAIN pending, NEW tier \in Tier,
               tier \in {SourceTier(pending[t].operation), DestTier(pending[t].operation)}
        PROVE  pages'[pending[t].page].copy[tier] = pages[pending[t].page].copy[tier]
    <3>1. t \in Uses(pending, pending[t].page, tier) /\ pending[t].page \in DOMAIN pages
        BY <2>1 DEF Uses, IInv, TypeOK
    <3> QED BY <1>12, <3>1
  <2>2. \A t \in DOMAIN pending :
           /\ SourceTier(pending[t].operation) \in Tier \union {NoTier}
           /\ DestTier(pending[t].operation) \in Tier \union {NoTier}
      BY <1>11, OperationTiers DEF Typed
  <2>3. pending' = pending
      BY <1>1
  <2> QED BY <2>1, <2>2, <2>3 DEF IInv, TicketsStable
<1>19. ReadyMeansWritten'
    BY <1>1, <1>5, <1>12 DEF IInv, ReadyMeansWritten, NoCopy
<1>20. IoMeansWritten' /\ BatchesOwnTickets'
    BY <1>1 DEF IInv, IoMeansWritten, BatchesOwnTickets, RankDone, RankOutcome
<1>21. Books(pages', free', copies', canonical', leases', pending', {})
    BY <1>10, <1>13, <1>14, <1>15 DEF Books
<1> QED BY <1>16, <1>17, <1>18, <1>19, <1>20, <1>21, InvariantsOfBooks DEF IInv, NeverRaises

-----------------------------------------------------------------------------
(* Workers and the barrier                                                 *)

\* Handing tickets to the ranks, alone or as a batch, keeps the invariant.
LEMMA DispatchStep ==
    ASSUME IInv, NEW S, S \subseteq Unsubmitted, Dispatch(S),
           UNCHANGED <<free, copies, pages, canonical, leases, raised, bytes>>,
           \/ UNCHANGED <<batches, nextId>>
           \/ /\ batches' = With(batches, nextId.batch,
                                 [tickets |-> S, ranks |-> [r \in {} |-> FALSE]])
              /\ nextId' = [nextId EXCEPT !.batch = @ + 1]
    PROVE  IInv'
<1>1. /\ S \subseteq DOMAIN pending /\ \A t \in S : ~pending[t].submitted /\ t \notin DOMAIN io
    BY DEF Unsubmitted, IInv, BatchesOwnTickets
<1>2. /\ DOMAIN pending' = DOMAIN pending
      /\ \A t \in DOMAIN pending :
            /\ pending'[t].operation = pending[t].operation
            /\ pending'[t].page = pending[t].page
            /\ pending'[t].source = pending[t].source
            /\ pending'[t].destination = pending[t].destination
            /\ pending'[t].submitted <=> pending[t].submitted \/ t \in S
            /\ pending'[t] \in Ticket
    BY ZenonT(40) DEF Dispatch, IInv, TypeOK, Ticket
<1>3. /\ DOMAIN io' = DOMAIN io \union S
      /\ \A t \in S : io'[t] = [r \in Ranks |-> "todo"]
      /\ \A t \in DOMAIN io : io'[t] = io[t]
    BY <1>1 DEF Dispatch
<1>4. \A p, tier : Uses(pending', p, tier) = Uses(pending, p, tier)
    BY <1>2 DEF Uses
<1>5. /\ nextId' \in [page : Nat, lease : Nat, ticket : Nat, batch : Nat]
      /\ nextId'.page = nextId.page /\ nextId'.lease = nextId.lease
      /\ nextId'.ticket = nextId.ticket /\ nextId'.batch >= nextId.batch
    BY DEF IInv, TypeOK
<1>6. \A b \in DOMAIN batches' :
         \/ /\ b \in DOMAIN batches /\ batches'[b] = batches[b]
         \/ /\ b \notin DOMAIN batches
            /\ b = nextId.batch /\ b < nextId'.batch
            /\ batches'[b] = [tickets |-> S, ranks |-> [r \in {} |-> FALSE]]
    BY DEF With, IInv, TypeOK
<1>7. TypeOK'
  <2>1. /\ pending' \in [DOMAIN pending' -> Ticket]
        /\ io' \in [DOMAIN io' -> [Ranks -> {"todo", "ok", "failed"}]]
        /\ DOMAIN io' \subseteq DOMAIN pending'
      BY <1>1, <1>2, <1>3 DEF Dispatch, IInv, TypeOK
  <2>2. DOMAIN batches' \subseteq 0 .. nextId'.batch - 1
      BY <1>5, <1>6 DEF IInv, TypeOK
  <2>3. ASSUME NEW b \in DOMAIN batches'
        PROVE  /\ batches'[b] = [tickets |-> batches'[b].tickets, ranks |-> batches'[b].ranks]
               /\ batches'[b].tickets \subseteq DOMAIN pending'
               /\ DOMAIN batches'[b].ranks \subseteq Ranks
               /\ batches'[b].ranks \in [DOMAIN batches'[b].ranks -> BOOLEAN]
    <3>1. CASE b \in DOMAIN batches /\ batches'[b] = batches[b]
        BY <1>2, <3>1 DEF IInv, TypeOK
    <3>2. CASE batches'[b] = [tickets |-> S, ranks |-> [r \in {} |-> FALSE]]
        BY <1>1, <1>2, <3>2
    <3> QED BY <1>6, <3>1, <3>2
  <2> QED BY <1>2, <1>5, <2>1, <2>2, <2>3 DEF IInv, TypeOK
<1>8. SlotsPartition' /\ PagesNeeded' /\ ReadyMeansWritten' /\ NeverRaises'
    BY <1>2 DEF IInv, SlotsPartition, PagesNeeded, ReadyMeansWritten, NeverRaises
<1>9. CountsExact'
  <2> SUFFICES ASSUME NEW p \in DOMAIN pages
               PROVE  /\ pages[p].references = Cardinality({l \in DOMAIN leases : leases[l] = p})
                      /\ \A tier \in Tier : pages[p].copy[tier].pins = Cardinality(Uses(pending', p, tier))
      BY DEF CountsExact
  <2>1. \A tier \in Tier : Uses(pending', p, tier) = Uses(pending, p, tier)
      BY <1>4
  <2> QED BY <2>1 DEF IInv, CountsExact
<1>10. TicketsStable'
    BY <1>2, <1>4 DEF IInv, TicketsStable
<1>11. IoMeansWritten'
  <2> SUFFICES ASSUME NEW t \in DOMAIN io', NEW r \in Ranks, io'[t][r] = "ok",
                      DestTier(pending'[t].operation) # NoTier
               PROVE  bytes[DestTier(pending'[t].operation)][pending'[t].destination][r] = pending'[t].page
      BY DEF IoMeansWritten
  <2>1. t \in DOMAIN io /\ io'[t] = io[t]
      BY <1>3
  <2>2. t \in DOMAIN pending
      BY <2>1 DEF IInv, TypeOK
  <2> QED BY <1>2, <2>1, <2>2 DEF IInv, IoMeansWritten
<1>12. BatchesOwnTickets'
  <2>1. ASSUME NEW b \in DOMAIN batches'
        PROVE  /\ \A t \in batches'[b].tickets : t \in DOMAIN io'
               /\ \A c \in DOMAIN batches' \ {b} :
                     batches'[b].tickets \intersect batches'[c].tickets = {}
               /\ \A r \in DOMAIN batches'[b].ranks :
                     /\ \A t \in batches'[b].tickets : io'[t][r] # "todo"
                     /\ batches'[b].ranks[r] <=> \A t \in batches'[b].tickets : io'[t][r] = "ok"
    <3>1. \A c \in DOMAIN batches : batches[c].tickets \subseteq DOMAIN io
        BY DEF IInv, BatchesOwnTickets
    <3>2. CASE b \in DOMAIN batches /\ batches'[b] = batches[b]
      <4>1. \A c \in DOMAIN batches' \ {b} : batches'[b].tickets \intersect batches'[c].tickets = {}
          BY <1>1, <1>6, <3>1, <3>2 DEF IInv, BatchesOwnTickets
      <4>2. \A r \in DOMAIN batches[b].ranks :
               /\ \A t \in batches[b].tickets : io[t][r] # "todo"
               /\ batches[b].ranks[r] <=> \A t \in batches[b].tickets : io[t][r] = "ok"
          BY <3>2 DEF IInv, BatchesOwnTickets, RankDone, RankOutcome
      <4> QED BY <1>3, <3>1, <3>2, <4>1, <4>2
    <3>3. CASE /\ b \notin DOMAIN batches /\ b = nextId.batch
               /\ batches'[b] = [tickets |-> S, ranks |-> [r \in {} |-> FALSE]]
      <4>1. batches'[b].tickets = S /\ DOMAIN batches'[b].ranks = {}
          BY <3>3
      <4>2. \A c \in DOMAIN batches' \ {b} : c \in DOMAIN batches /\ batches'[c] = batches[c]
          BY <1>6, <3>3
      <4> QED BY <1>1, <1>3, <3>1, <4>1, <4>2
    <3> QED BY <1>6, <3>2, <3>3
  <2>2. \A t \in DOMAIN pending' : pending'[t].submitted <=> t \in DOMAIN io'
      BY <1>2, <1>3 DEF IInv, BatchesOwnTickets
  <2> QED BY <2>1, <2>2 DEF BatchesOwnTickets, RankDone, RankOutcome
<1> QED BY <1>7, <1>8, <1>9, <1>10, <1>11, <1>12 DEF IInv

\* An ACK that is not the last keeps the invariant.
LEMMA AcknowledgeOneStep ==
    ASSUME IInv, NEW b \in DOMAIN batches, NEW r \in Ranks, AcknowledgeOne(b, r)
    PROVE  IInv'
<1> DEFINE ranks == With(batches[b].ranks, r, RankOutcome(b, r))
<1>1. /\ RankDone(b, r)
      /\ batches' = [batches EXCEPT ![b].ranks = ranks]
      /\ UNCHANGED <<free, copies, pages, canonical, leases, pending, raised, nextId, io, bytes>>
    BY DEF AcknowledgeOne, poolVars, workerVars
<1>2. /\ DOMAIN batches[b].ranks \subseteq Ranks
      /\ batches[b].ranks \in [DOMAIN batches[b].ranks -> BOOLEAN]
      /\ batches[b] = [tickets |-> batches[b].tickets, ranks |-> batches[b].ranks]
    BY DEF IInv, TypeOK
<1>3. /\ DOMAIN ranks = DOMAIN batches[b].ranks \union {r}
      /\ ranks \in [DOMAIN ranks -> BOOLEAN]
      /\ ranks[r] = RankOutcome(b, r)
      /\ \A q \in DOMAIN batches[b].ranks \ {r} : ranks[q] = batches[b].ranks[q]
    BY <1>2 DEF With, RankOutcome
<1> HIDE DEF ranks
<1>4. /\ DOMAIN batches' = DOMAIN batches
      /\ batches'[b] = [tickets |-> batches[b].tickets, ranks |-> ranks]
      /\ \A c \in DOMAIN batches \ {b} : batches'[c] = batches[c]
  <2>1. /\ DOMAIN batches' = DOMAIN batches
        /\ batches'[b] = [batches[b] EXCEPT !.ranks = ranks]
        /\ \A c \in DOMAIN batches \ {b} : batches'[c] = batches[c]
      BY <1>1
  <2>2. [batches[b] EXCEPT !.ranks = ranks] = [tickets |-> batches[b].tickets, ranks |-> ranks]
      BY <1>2
  <2> QED BY <2>1, <2>2
<1>5. batches'[b].tickets = batches[b].tickets /\ batches'[b].ranks = ranks
    BY <1>4
<1>6. TypeOK'
  <2>1. \A c \in DOMAIN batches' :
          /\ batches'[c] = [tickets |-> batches'[c].tickets, ranks |-> batches'[c].ranks]
          /\ batches'[c].tickets \subseteq DOMAIN pending
          /\ DOMAIN batches'[c].ranks \subseteq Ranks
          /\ batches'[c].ranks \in [DOMAIN batches'[c].ranks -> BOOLEAN]
    <3> SUFFICES ASSUME NEW c \in DOMAIN batches
          PROVE  /\ batches'[c] = [tickets |-> batches'[c].tickets, ranks |-> batches'[c].ranks]
                 /\ batches'[c].tickets \subseteq DOMAIN pending
                 /\ DOMAIN batches'[c].ranks \subseteq Ranks
                 /\ batches'[c].ranks \in [DOMAIN batches'[c].ranks -> BOOLEAN]
        BY <1>4
    <3>1. CASE c = b
        BY <1>2, <1>3, <1>4, <1>5, <3>1 DEF IInv, TypeOK
    <3>2. CASE c # b
        BY <1>4, <3>2 DEF IInv, TypeOK
    <3> QED BY <3>1, <3>2
  <2> QED BY <1>1, <1>4, <2>1 DEF IInv, TypeOK
<1>7. SlotsPartition' /\ PagesNeeded' /\ ReadyMeansWritten' /\ NeverRaises' /\ IoMeansWritten'
    BY <1>1 DEF IInv, SlotsPartition, PagesNeeded, ReadyMeansWritten, NeverRaises, IoMeansWritten
<1>8. CountsExact' /\ TicketsStable'
    BY ZenonT(40), <1>1 DEF IInv, CountsExact, TicketsStable
<1>9. BatchesOwnTickets'
  <2>1. \A c \in DOMAIN batches : batches'[c].tickets = batches[c].tickets
      BY <1>4, <1>5
  <2>2. ASSUME NEW c \in DOMAIN batches, NEW q \in DOMAIN batches'[c].ranks
        PROVE  RankDone(c, q) /\ (batches'[c].ranks[q] <=> RankOutcome(c, q))
    <3>1. CASE c = b /\ q = r
        BY <1>1, <1>3, <1>5, <3>1
    <3>2. CASE c # b \/ q # r
      <4>1. q \in DOMAIN batches[c].ranks /\ batches'[c].ranks[q] = batches[c].ranks[q]
          BY <1>3, <1>4, <1>5, <2>2, <3>2
      <4> QED BY <4>1 DEF IInv, BatchesOwnTickets
    <3> QED BY <3>1, <3>2
  <2>3. \A c \in DOMAIN batches : \A q :
          /\ RankDone(c, q)' <=> RankDone(c, q)
          /\ RankOutcome(c, q)' <=> RankOutcome(c, q)
      BY <1>1, <2>1 DEF RankDone, RankOutcome
  <2> QED BY <1>1, <1>4, <2>1, <2>2, <2>3 DEF IInv, BatchesOwnTickets
<1> QED BY <1>6, <1>7, <1>8, <1>9 DEF IInv

\* The last ACK keeps the invariant: the batch completes, and only its tickets.
LEMMA AcknowledgeLastStep ==
    ASSUME IInv, NEW b \in DOMAIN batches, NEW r \in Ranks, AcknowledgeLast(b, r)
    PROVE  IInv'
<1> DEFINE ranks == With(batches[b].ranks, r, RankOutcome(b, r))
           S == batches[b].tickets
           success == \A q \in DOMAIN ranks : ranks[q]
<1>1. /\ DOMAIN ranks = Ranks
      /\ Finish(S, success)
      /\ batches' = Without(batches, {b})
      /\ UNCHANGED <<leases, nextId, bytes>>
    BY DEF AcknowledgeLast
<1>2. S \subseteq DOMAIN pending /\ S \subseteq DOMAIN io
    BY DEF IInv, TypeOK, BatchesOwnTickets
<1>3. ASSUME success, NEW t \in S, NEW q \in Ranks PROVE io[t][q] = "ok"
  <2>1. ranks[q]
      BY <1>1, <1>3
  <2>2. CASE q = r
    <3>1. RankOutcome(b, r)
        BY <2>1, <2>2 DEF With
    <3> QED BY <2>2, <3>1 DEF RankOutcome
  <2>3. CASE q # r
    <3>1. q \in DOMAIN batches[b].ranks /\ batches[b].ranks[q]
        BY <1>1, <2>1, <2>3 DEF With
    <3> QED BY <3>1 DEF IInv, BatchesOwnTickets, RankOutcome
  <2> QED BY <2>2, <2>3
<1>4. /\ DOMAIN batches' \subseteq DOMAIN batches
      /\ \A c \in DOMAIN batches' : /\ batches'[c] = batches[c]
                                    /\ batches[c].tickets \intersect S = {}
    BY <1>1 DEF Without, IInv, BatchesOwnTickets
<1>5. success \in BOOLEAN
    OBVIOUS
<1> HIDE DEF success, S
<1> QED BY <1>1, <1>2, <1>3, <1>4, <1>5, FinishStep

\* complete keeps the invariant.
LEMMA CompleteStep ==
    ASSUME IInv, NEW t \in DOMAIN pending, Complete(t)
    PROVE  IInv'
<1> DEFINE success == \A r \in Ranks : io[t][r] = "ok"
<1>1. /\ pending[t].submitted /\ t \notin Batched
      /\ Finish({t}, success)
      /\ UNCHANGED <<leases, batches, nextId, bytes>>
    BY DEF Complete
<1>2. t \in DOMAIN io
    BY <1>1 DEF IInv, BatchesOwnTickets
<1>3. \A c \in DOMAIN batches : batches[c].tickets \intersect {t} = {}
    BY <1>1 DEF Batched
<1>4. success \in BOOLEAN
    OBVIOUS
<1>5. success => \A u \in {t} : u \in DOMAIN io /\ \A r \in Ranks : io[u][r] = "ok"
    BY <1>2
<1> HIDE DEF success
<1>6. {t} \subseteq DOMAIN pending
    OBVIOUS
<1> QED BY <1>1, <1>3, <1>4, <1>5, <1>6, FinishStep

\* cancel and cancel_all keep the invariant.
LEMMA CancelStep ==
    ASSUME IInv, NEW S, Cancel(S)
    PROVE  IInv'
<1>1. /\ S \subseteq Unsubmitted /\ Finish(S, FALSE)
      /\ UNCHANGED <<leases, batches, nextId, bytes>>
    BY DEF Cancel
<1>2. S \subseteq DOMAIN pending /\ \A t \in S : t \notin DOMAIN io
    BY <1>1 DEF Unsubmitted, IInv, BatchesOwnTickets
<1>3. \A c \in DOMAIN batches : batches[c].tickets \intersect S = {}
    BY <1>2 DEF IInv, BatchesOwnTickets
<1>4. DOMAIN batches' = DOMAIN batches /\ \A c \in DOMAIN batches' : batches'[c] = batches[c]
    BY <1>1
<1> QED BY <1>1, <1>2, <1>3, <1>4, FinishStep

\* A rank's own step keeps the invariant: it writes the destination of its
\* ticket, which no ready copy and no other ticket's destination shares, and
\* reads a source that still holds its page.
LEMMA RankIOStep ==
    ASSUME IInv, NEW t \in DOMAIN io, NEW r \in Ranks, NEW outcome \in {"ok", "failed"},
           RankIO(t, r, outcome)
    PROVE  IInv'
<1> DEFINE op == pending[t].operation
           src == SourceTier(op)
           dst == DestTier(op)
           p == pending[t].page
           d == pending[t].destination
           moved == IF src = NoTier THEN p ELSE bytes[src][pending[t].source][r]
           wrote == IF outcome = "ok" THEN moved ELSE Garbage
<1>1. /\ io[t][r] = "todo"
      /\ io' = [io EXCEPT ![t][r] = outcome]
      /\ bytes' = IF dst = NoTier THEN bytes ELSE [bytes EXCEPT ![dst][d][r] = wrote]
      /\ UNCHANGED <<free, copies, pages, canonical, leases, pending, raised, batches, nextId>>
    BY DEF RankIO, poolVars
<1>2. /\ t \in DOMAIN pending /\ p \in DOMAIN pages /\ p \in Nat
      /\ op \in Operation
    BY DEF IInv, TypeOK, Ticket
<1>3. src \in Tier \union {NoTier} /\ dst \in Tier \union {NoTier}
    BY <1>2, OperationTiers
<1>4. moved = p
  <2>1. CASE src = NoTier BY <2>1
  <2>2. CASE src # NoTier
      BY <1>2, <1>3, <2>2 DEF IInv, TicketsStable, ReadyMeansWritten
  <2> QED BY <2>1, <2>2
<1>5. dst # NoTier => /\ d \in Slots(dst) /\ pages[p].copy[dst].slot = d
                      /\ ~pages[p].copy[dst].ready /\ Uses(pending, p, dst) = {t}
    BY <1>2 DEF IInv, TicketsStable
<1>6. wrote \in Nat \union {Garbage} /\ (outcome = "ok" => wrote = p)
    BY <1>2, <1>4
<1> HIDE DEF moved, wrote
<1>7. /\ DOMAIN bytes' = Tier
      /\ \A tier \in Tier : bytes'[tier] \in [Slots(tier) -> [Ranks -> Nat \union {Garbage}]]
      /\ \A tier \in Tier : \A s \in Slots(tier) : \A q \in Ranks :
            bytes'[tier][s][q] = IF tier = dst /\ s = d /\ q = r THEN wrote ELSE bytes[tier][s][q]
  <2>1. CASE dst = NoTier
      BY <1>1, <2>1, NoTierFact DEF IInv, TypeOK
  <2>2. CASE dst # NoTier
    <3>1. /\ DOMAIN bytes = Tier /\ dst \in Tier /\ d \in Slots(dst)
          /\ \A tier \in Tier : bytes[tier] \in [Slots(tier) -> [Ranks -> Nat \union {Garbage}]]
        BY <1>3, <1>5, <2>2 DEF IInv, TypeOK
    <3>2. bytes' = [bytes EXCEPT ![dst] = [bytes[dst] EXCEPT ![d] = [bytes[dst][d] EXCEPT ![r] = wrote]]]
        BY <1>1, <2>2
    <3>3. [bytes[dst][d] EXCEPT ![r] = wrote] \in [Ranks -> Nat \union {Garbage}]
        BY <1>6, <3>1
    <3>4. [bytes[dst] EXCEPT ![d] = [bytes[dst][d] EXCEPT ![r] = wrote]]
            \in [Slots(dst) -> [Ranks -> Nat \union {Garbage}]]
        BY <3>1, <3>3
    <3> QED BY <3>1, <3>2, <3>3, <3>4
  <2> QED BY <2>1, <2>2
<1>8. /\ DOMAIN io' = DOMAIN io /\ io' \in [DOMAIN io' -> [Ranks -> {"todo", "ok", "failed"}]]
      /\ \A u \in DOMAIN io : \A q \in Ranks :
            io'[u][q] = IF u = t /\ q = r THEN outcome ELSE io[u][q]
    BY <1>1 DEF IInv, TypeOK
<1>9. TypeOK'
    BY <1>1, <1>7, <1>8 DEF IInv, TypeOK
<1>10. SlotsPartition' /\ PagesNeeded' /\ NeverRaises'
    BY <1>1 DEF IInv, SlotsPartition, PagesNeeded, NeverRaises
<1>11. CountsExact' /\ TicketsStable'
    BY SMTT(40), <1>1 DEF IInv, CountsExact, TicketsStable
<1>12. ReadyMeansWritten'
  <2> SUFFICES ASSUME NEW q \in DOMAIN pages, NEW tier \in Tier, NEW k \in Ranks,
                      pages[q].copy[tier].ready
               PROVE  /\ Exists(pages[q].copy[tier])
                      /\ bytes'[tier][pages[q].copy[tier].slot][k] = q
      BY SMTT(40), <1>1 DEF ReadyMeansWritten, Exists
  <2>1. /\ Exists(pages[q].copy[tier]) /\ pages[q].copy[tier].slot \in Slots(tier)
        /\ bytes[tier][pages[q].copy[tier].slot][k] = q
      BY DEF IInv, ReadyMeansWritten, TypeOK, Exists
  <2>2. ~(tier = dst /\ pages[q].copy[tier].slot = d)
    <3> SUFFICES ASSUME tier = dst, pages[q].copy[tier].slot = d PROVE FALSE
        OBVIOUS
    <3>1. dst # NoTier
        BY NoTierFact
    <3>2. copies[dst][d] = p /\ copies[dst][d] = q
        BY <1>2, <1>5, <3>1 DEF IInv, SlotsPartition
    <3> QED BY <1>5, <3>1, <3>2
  <2> QED BY <1>7, <2>1, <2>2
<1>13. IoMeansWritten'
  <2> SUFFICES ASSUME NEW u \in DOMAIN io, NEW k \in Ranks, io'[u][k] = "ok",
                      DestTier(pending[u].operation) # NoTier
               PROVE  bytes'[DestTier(pending[u].operation)][pending[u].destination][k]
                        = pending[u].page
      BY SMTT(40), <1>1, <1>8 DEF IoMeansWritten
  <2> DEFINE dt == DestTier(pending[u].operation)
  <2>1. /\ u \in DOMAIN pending /\ pending[u].operation \in Operation
        /\ pending[u].page \in DOMAIN pages
      BY DEF IInv, TypeOK, Ticket
  <2>2. /\ dt \in Tier /\ pending[u].destination \in Slots(dt)
        /\ pages[pending[u].page].copy[dt].slot = pending[u].destination
      BY <2>1, OperationTiers DEF IInv, TicketsStable
  <2>3. CASE u = t
    <3>1. CASE k = r
        BY <1>6, <1>7, <1>8, <2>2, <2>3, <3>1
    <3>2. CASE k # r
        BY <1>7, <1>8, <2>2, <2>3, <3>2 DEF IInv, IoMeansWritten
    <3> QED BY <3>1, <3>2
  <2>4. CASE u # t
    <3>1. bytes[dt][pending[u].destination][k] = pending[u].page
        BY <1>8, <2>4 DEF IInv, IoMeansWritten
    <3>2. ~(dt = dst /\ pending[u].destination = d)
      <4> SUFFICES ASSUME dt = dst, pending[u].destination = d PROVE FALSE
          OBVIOUS
      <4>1. dst # NoTier
          OBVIOUS
      <4>2. copies[dst][d] = p /\ copies[dst][d] = pending[u].page
          BY <1>2, <1>5, <2>1, <2>2, <4>1 DEF IInv, SlotsPartition
      <4>3. u \in Uses(pending, p, dst)
          BY <2>1, <4>2 DEF Uses
      <4> QED BY <1>5, <2>4, <4>1, <4>3
    <3> QED BY <1>7, <2>2, <3>1, <3>2
  <2> QED BY <2>3, <2>4
<1>14. BatchesOwnTickets'
  <2>1. \A c \in DOMAIN batches :
           /\ batches[c].tickets \subseteq DOMAIN io
           /\ DOMAIN batches[c].ranks \subseteq Ranks
      BY DEF IInv, BatchesOwnTickets, TypeOK
  <2>2. ASSUME NEW c \in DOMAIN batches, NEW q \in DOMAIN batches[c].ranks
        PROVE  \A u \in batches[c].tickets : io'[u][q] = io[u][q]
    <3>1. \A u \in batches[c].tickets : io[u][q] # "todo"
        BY DEF IInv, BatchesOwnTickets, RankDone
    <3> QED BY <1>1, <1>8, <2>1, <3>1
  <2> QED BY <1>1, <1>8, <2>2 DEF IInv, BatchesOwnTickets, RankDone, RankOutcome
<1> QED BY <1>9, <1>10, <1>11, <1>12, <1>13, <1>14 DEF IInv

-----------------------------------------------------------------------------
(* The theorems                                                            *)

\* The invariant is inductive: every step of the pool, the barrier and the
\* ranks preserves it.
LEMMA NextIInv == IInv /\ [Next]_vars => IInv'
<1> SUFFICES ASSUME IInv, [Next]_vars PROVE IInv'
    OBVIOUS
<1>1. CASE \E k \in Keys : AcquireShared(k)
    BY <1>1, AcquireSharedStep
<1>2. CASE \E k \in Keys \union {NoKey} : AcquireNew(k)
    BY <1>2, AcquireNewStep
<1>3. CASE \E l \in DOMAIN leases : Release(l)
    BY <1>3, ReleaseStep
<1>4. CASE \E l \in DOMAIN leases, op \in Operation : BeginWithFreeSlot(l, op)
    BY <1>4, BeginWithFreeSlotStep
<1>5. CASE \E l \in DOMAIN leases, op \in Operation : BeginWithEviction(l, op)
    BY <1>5, BeginWithEvictionStep
<1>6. CASE \E l \in DOMAIN leases : BeginRestore(l)
    BY <1>6, BeginRestoreStep
<1>7. CASE \E l \in DOMAIN leases, tier \in Tier : Evict(l, tier)
    BY <1>7, EvictStep
<1>8. CASE \E t \in DOMAIN pending : Submit(t)
  <2>1. PICK t \in DOMAIN pending : Submit(t)
      BY <1>8
  <2>2. /\ {t} \subseteq Unsubmitted /\ Dispatch({t})
        /\ UNCHANGED <<free, copies, pages, canonical, leases, raised, bytes>>
        /\ UNCHANGED <<batches, nextId>>
      BY <2>1 DEF Submit, Unsubmitted
  <2> QED BY <2>2, DispatchStep
<1>9. CASE \E t \in DOMAIN pending : Complete(t)
    BY <1>9, CompleteStep
<1>10. CASE \E S \in SUBSET Unsubmitted : Cancel(S)
    BY <1>10, CancelStep
<1>11. CASE \E S \in SUBSET Unsubmitted : SubmitBatch(S)
    BY <1>11, DispatchStep DEF SubmitBatch
<1>12. CASE \E b \in DOMAIN batches, r \in Ranks : AcknowledgeOne(b, r)
    BY <1>12, AcknowledgeOneStep
<1>13. CASE \E b \in DOMAIN batches, r \in Ranks : AcknowledgeLast(b, r)
    BY <1>13, AcknowledgeLastStep
<1>14. CASE \E t \in DOMAIN io, r \in Ranks, outcome \in {"ok", "failed"} :
               RankIO(t, r, outcome)
    BY <1>14, RankIOStep
<1>15. CASE UNCHANGED vars
  <2>1. UNCHANGED <<free, copies, pages, canonical, leases, pending, batches, nextId,
                    raised, io, bytes>>
      BY <1>15 DEF vars
  <2>2. TypeOK' /\ SlotsPartition' /\ PagesNeeded' /\ ReadyMeansWritten' /\ NeverRaises'
      BY <2>1 DEF IInv, TypeOK, SlotsPartition, PagesNeeded, ReadyMeansWritten, NeverRaises
  <2>3. CountsExact' /\ TicketsStable' /\ IoMeansWritten'
      BY <2>1 DEF IInv, CountsExact, TicketsStable, IoMeansWritten
  <2>4. BatchesOwnTickets'
      BY <2>1 DEF IInv, BatchesOwnTickets, RankDone, RankOutcome
  <2> QED BY <2>2, <2>3, <2>4 DEF IInv
<1> QED BY <1>1, <1>2, <1>3, <1>4, <1>5, <1>6, <1>7, <1>8, <1>9, <1>10, <1>11, <1>12,
           <1>13, <1>14, <1>15 DEF Next

\* The inductive invariant holds in every reachable state.
THEOREM InductiveInvariant == Spec => []IInv
BY InitIInv, NextIInv, PTL DEF Spec

\* The pool's and the barrier's variables keep their types, for any number of
\* keys, slots, ranks and ids.
THEOREM TypeCorrect == Spec => []TypeOK
<1>1. IInv => TypeOK
    BY DEF IInv
<1> QED BY <1>1, InductiveInvariant, PTL

\* check_invariants never fails: slots are free or owned by exactly one copy,
\* references and pins are exact, pages live as long as they are needed, and
\* the locations of a ticket are stable; and _allocate's and _drop_copy's
\* RuntimeErrors are unreachable.
THEOREM SelfChecksHold == Spec => []SelfChecks
<1>1. IInv => SelfChecks
    BY DEF IInv, SelfChecks
<1> QED BY <1>1, InductiveInvariant, PTL

\* A copy the pool calls ready holds its page's bytes on every rank.
THEOREM ReadyCopiesWritten == Spec => []ReadyMeansWritten
<1>1. IInv => ReadyMeansWritten
    BY DEF IInv
<1> QED BY <1>1, InductiveInvariant, PTL

\* A source slot keeps its page's bytes on a rank that has yet to read it.
THEOREM SourcesHeld == Spec => []SourceBytesHeld
<1>1. IInv => SourceBytesHeld
  <2> SUFFICES ASSUME IInv, NEW t \in DOMAIN io, NEW r \in Ranks, io[t][r] = "todo",
                      SourceTier(pending[t].operation) # NoTier
               PROVE  bytes[SourceTier(pending[t].operation)][pending[t].source][r]
                        = pending[t].page
      BY DEF SourceBytesHeld
  <2>1. /\ t \in DOMAIN pending /\ pending[t].page \in DOMAIN pages
        /\ pending[t].operation \in Operation
      BY DEF IInv, TypeOK, Ticket
  <2>2. SourceTier(pending[t].operation) \in Tier
      BY <2>1, OperationTiers
  <2> QED BY <2>1, <2>2 DEF IInv, TicketsStable, ReadyMeansWritten
<1> QED BY <1>1, InductiveInvariant, PTL

\* The barrier's batches own their tickets and remember each rank's outcome.
THEOREM BarrierBooks == Spec => []BatchesOwnTickets
<1>1. IInv => BatchesOwnTickets
    BY DEF IInv
<1> QED BY <1>1, InductiveInvariant, PTL

\* The body of NoEarlyFinish.
FinishesOnlyWhenDone ==
    \A t \in DOMAIN io : t \notin DOMAIN pending' => \A r \in Ranks : io[t][r] # "todo"

\* A submitted ticket leaves the pool only after every rank is done with it:
\* complete waits for them all, a batch for all ACKs, and cancel takes none.
LEMMA NoEarlyFinishStep == IInv /\ [Next]_vars => FinishesOnlyWhenDone
<1> SUFFICES ASSUME IInv, [Next]_vars, NEW t \in DOMAIN io, t \notin DOMAIN pending'
             PROVE  \A r \in Ranks : io[t][r] # "todo"
    BY DEF FinishesOnlyWhenDone
<1>1. t \in DOMAIN pending
    BY DEF IInv, TypeOK
<1>2. CASE pending' = pending
    BY <1>1, <1>2
<1>3. ASSUME NEW S, Dispatch(S) PROVE FALSE
    BY <1>1, <1>3 DEF Dispatch
<1>4. ASSUME NEW op, NEW p, NEW slot, Reserve(op, p, slot) PROVE FALSE
    BY <1>1, <1>4 DEF Reserve, With
<1>5. CASE \E u \in DOMAIN pending : Complete(u)
    BY <1>1, <1>5 DEF Complete, Finish, Without
<1>6. CASE \E S \in SUBSET Unsubmitted : Cancel(S)
    BY <1>1, <1>6 DEF Cancel, Finish, Without, Unsubmitted, IInv, BatchesOwnTickets
<1>7. CASE \E b \in DOMAIN batches, r \in Ranks : AcknowledgeLast(b, r)
  <2>1. PICK b \in DOMAIN batches, r \in Ranks : AcknowledgeLast(b, r)
      BY <1>7
  <2>2. /\ RankDone(b, r)
        /\ DOMAIN batches[b].ranks \union {r} = Ranks
        /\ pending' = Without(pending, batches[b].tickets)
      BY <2>1 DEF AcknowledgeLast, Finish, With
  <2>3. t \in batches[b].tickets
      BY <1>1, <2>2 DEF Without
  <2>4. \A q \in Ranks : RankDone(b, q)
      BY <2>2 DEF IInv, BatchesOwnTickets
  <2> QED BY <2>3, <2>4 DEF RankDone
<1> QED BY <1>2, <1>3, <1>4, <1>5, <1>6, <1>7
        DEF Next, vars, AcquireShared, AcquireNew, Release, BeginWithFreeSlot, BeginWithEviction,
            BeginRestore, Evict, Submit, SubmitBatch, AcknowledgeOne, RankIO, poolVars

\* "Submitted tickets cannot be cancelled early", for any number of ranks.
THEOREM TicketsFinishLate == Spec => NoEarlyFinish
<1>1. IInv /\ [Next]_vars => [FinishesOnlyWhenDone]_vars
    BY NoEarlyFinishStep
<1>2. Spec => [][FinishesOnlyWhenDone]_vars
    BY <1>1, InductiveInvariant, PTL DEF Spec
<1> QED BY <1>2 DEF NoEarlyFinish, FinishesOnlyWhenDone


\* The body of LastCopyKept, as an action.
KeepsReadyCopies ==
    \A p \in DOMAIN pages :
        HasReadyCopy(p) /\ (\E l \in DOMAIN leases' : leases'[l] = p)
        => p \in DOMAIN pages' /\ HasReadyCopy(p)'

\* A step that leaves some ready copy of p where it is keeps one.
LEMMA CopyStays ==
    ASSUME NEW p, NEW tier \in Tier, pages[p].copy[tier].ready,
           pages'[p].copy[tier] = pages[p].copy[tier]
    PROVE  HasReadyCopy(p)'
BY DEF HasReadyCopy

\* A ready copy has a slot.
LEMMA ReadyExists ==
    ASSUME IInv, NEW p \in DOMAIN pages, NEW tier \in Tier, pages[p].copy[tier].ready
    PROVE  Exists(pages[p].copy[tier])
BY RanksAssumption DEF IInv, ReadyMeansWritten

\* Reserving for page p, in place of a copy that is not there, keeps p's ready copy.
LEMMA ReservingKeeps ==
    ASSUME IInv, NEW p \in DOMAIN pages, NEW op \in Operation, NEW slot, MayBegin(op, p),
           pages'[p] = Reserved(op, p, slot), HasReadyCopy(p)
    PROVE  HasReadyCopy(p)'
<1>1. PICK tier \in Tier : pages[p].copy[tier].ready
    BY DEF HasReadyCopy
<1>2. Exists(pages[p].copy[tier])
    BY <1>1, ReadyExists
<1>3. tier # DestTier(op)
    BY <1>2 DEF MayBegin, DestTier, Operation, Tier, NoTier
<1>4. pages[p] \in Page
    BY DEF IInv, TypeOK
<1>5. pages'[p].copy[tier].ready
    BY <1>1, <1>3, <1>4 DEF Reserved, Page, Copy
<1> QED BY <1>5 DEF HasReadyCopy

\* A finish drops only copies that were never ready.
LEMMA FinishKeeps ==
    ASSUME IInv, NEW S, S \subseteq DOMAIN pending, NEW success \in BOOLEAN, Finish(S, success),
           NEW p \in DOMAIN pages, p \in DOMAIN pages', HasReadyCopy(p)
    PROVE  HasReadyCopy(p)'
<1>1. PICK tier \in Tier : pages[p].copy[tier].ready
    BY DEF HasReadyCopy
<1>2. pages'[p] = FinishedPages(S, success)[p]
    BY DEF Finish, Collect, Without, FinishedPages
<1>3. FinishesTo(S, success, p, pages'[p])
    BY <1>2, FinishedFacts
<1>4. p \notin Lost(S, success, tier)
    BY <1>1, DestinationFacts DEF Lost
<1>5. pages'[p].copy[tier].ready
    BY <1>1, <1>3, <1>4 DEF FinishesTo
<1> QED BY <1>5 DEF HasReadyCopy

\* No step takes the last ready copy of a page that a lease still holds.
LEMMA LastCopyStep == IInv /\ [Next]_vars => KeepsReadyCopies
<1> SUFFICES ASSUME IInv, [Next]_vars, IInv',
                    NEW p \in DOMAIN pages, HasReadyCopy(p),
                    NEW l \in DOMAIN leases', leases'[l] = p
             PROVE  p \in DOMAIN pages' /\ HasReadyCopy(p)'
    BY NextIInv DEF KeepsReadyCopies
<1>1. p \in DOMAIN pages'
    BY DEF IInv, TypeOK
<1>2. /\ pages[p] \in Page
      /\ \A m \in DOMAIN leases : leases[m] \in DOMAIN pages
      /\ \A k \in DOMAIN canonical : canonical[k] \in DOMAIN pages
    BY DEF IInv, TypeOK
<1>3. ASSUME NEW k \in Keys, AcquireShared(k) PROVE HasReadyCopy(p)'
    BY <1>2, <1>3 DEF AcquireShared, HasReadyCopy, Page
<1>4. ASSUME NEW k \in Keys \union {NoKey}, AcquireNew(k) PROVE HasReadyCopy(p)'
  <2>1. p # nextId.page
      BY DEF IInv, TypeOK
  <2> QED BY <1>4, <2>1 DEF AcquireNew, With, HasReadyCopy
<1>5. ASSUME NEW m \in DOMAIN leases, Release(m) PROVE HasReadyCopy(p)'
  <2>1. pages'[p] = [pages EXCEPT ![leases[m]].references = @ - 1][p]
      BY <1>1, <1>5 DEF Release, Collect, Without
  <2> QED BY <1>2, <2>1 DEF HasReadyCopy, Page
<1>6. ASSUME NEW m \in DOMAIN leases, NEW op \in Operation, BeginWithFreeSlot(m, op)
      PROVE  HasReadyCopy(p)'
  <2>1. PICK slot : pages' = [pages EXCEPT ![leases[m]] = Reserved(op, leases[m], slot)]
      BY <1>6 DEF BeginWithFreeSlot
  <2>2. CASE p = leases[m]
      BY <1>2, <1>6, <2>1, <2>2, ReservingKeeps DEF BeginWithFreeSlot
  <2>3. CASE p # leases[m]
      BY <2>1, <2>3 DEF HasReadyCopy
  <2> QED BY <2>2, <2>3
<1>7. ASSUME NEW m \in DOMAIN leases, NEW op \in Operation, BeginWithEviction(m, op)
      PROVE  HasReadyCopy(p)'
  <2> DEFINE q == leases[m]
             dst == DestTier(op)
  <2>1. PICK victim \in DOMAIN pages :
           /\ Evictable(victim, dst)
           /\ pages' = [pages EXCEPT ![victim].copy[dst] = NoCopy,
                                     ![q] = Reserved(op, q, pages[victim].copy[dst].slot)]
      BY <1>7 DEF BeginWithEviction
  <2>2. dst \in Tier /\ Other(dst) \in Tier /\ Other(dst) # dst
      BY <1>7 DEF BeginWithEviction, DestTier, Operation, Tier, NoTier, Other
  <2>3. CASE p = q
      BY <1>2, <1>7, <2>1, <2>3, ReservingKeeps DEF BeginWithEviction
  <2>4. CASE p # q /\ p = victim
    <3>1. pages'[p] = [pages[p] EXCEPT !.copy[dst] = NoCopy]
        BY <2>1, <2>4
    <3>2. pages'[p].copy[Other(dst)] = pages[p].copy[Other(dst)]
        BY <1>2, <2>2, <3>1 DEF Page
    <3> QED BY <2>1, <2>2, <2>4, <3>2, CopyStays DEF Evictable
  <2>5. CASE p # q /\ p # victim
      BY <2>1, <2>5 DEF HasReadyCopy
  <2> QED BY <2>3, <2>4, <2>5
<1>8. ASSUME NEW m \in DOMAIN leases, BeginRestore(m) PROVE HasReadyCopy(p)'
  <2>1. CASE p = leases[m]
      BY <1>2, <1>8, <2>1, ReservingKeeps DEF BeginRestore, Operation
  <2>2. CASE p # leases[m]
      BY <1>8, <2>2 DEF BeginRestore, HasReadyCopy
  <2> QED BY <2>1, <2>2
<1>9. ASSUME NEW m \in DOMAIN leases, NEW tier \in Tier, Evict(m, tier) PROVE HasReadyCopy(p)'
  <2>1. CASE p = leases[m]
    <3>1. pages'[p] = [pages[p] EXCEPT !.copy[tier] = NoCopy]
        BY <1>2, <1>9, <2>1 DEF Evict
    <3>2. Other(tier) \in Tier /\ Other(tier) # tier
        BY DEF Tier, Other
    <3>3. pages'[p].copy[Other(tier)] = pages[p].copy[Other(tier)]
        BY <1>2, <3>1, <3>2 DEF Page
    <3> QED BY <1>9, <2>1, <3>2, <3>3, CopyStays DEF Evict, Evictable
  <2>2. CASE p # leases[m]
      BY <1>9, <2>2 DEF Evict, HasReadyCopy
  <2> QED BY <2>1, <2>2
<1>10. ASSUME NEW t \in DOMAIN pending, Complete(t) PROVE HasReadyCopy(p)'
  <2>1. Finish({t}, \A r \in Ranks : io[t][r] = "ok")
      BY <1>10 DEF Complete
  <2> QED BY <1>1, <2>1, FinishKeeps
<1>11. ASSUME NEW S \in SUBSET Unsubmitted, Cancel(S) PROVE HasReadyCopy(p)'
    BY <1>1, <1>11, FinishKeeps DEF Cancel, Unsubmitted
<1>12. ASSUME NEW b \in DOMAIN batches, NEW r \in Ranks, AcknowledgeLast(b, r)
       PROVE  HasReadyCopy(p)'
  <2>1. batches[b].tickets \subseteq DOMAIN pending
      BY DEF IInv, TypeOK
  <2>2. PICK ok \in BOOLEAN : Finish(batches[b].tickets, ok)
      BY <1>12 DEF AcknowledgeLast
  <2> QED BY <1>1, <2>1, <2>2, FinishKeeps
<1>13. ASSUME UNCHANGED pages PROVE HasReadyCopy(p)'
    BY <1>13 DEF HasReadyCopy
<1> QED
  <2>1. CASE UNCHANGED vars
      BY <1>1, <1>13, <2>1 DEF vars
  <2>2. CASE \E t \in DOMAIN pending : Submit(t)
      BY <1>1, <1>13, <2>2 DEF Submit
  <2>3. CASE \E S \in SUBSET Unsubmitted : SubmitBatch(S)
      BY <1>1, <1>13, <2>3 DEF SubmitBatch
  <2>4. CASE \E b \in DOMAIN batches, r \in Ranks : AcknowledgeOne(b, r)
      BY <1>1, <1>13, <2>4 DEF AcknowledgeOne, poolVars
  <2>5. CASE \E t \in DOMAIN io, r \in Ranks, outcome \in {"ok", "failed"} : RankIO(t, r, outcome)
      BY <1>1, <1>13, <2>5 DEF RankIO, poolVars
  <2> QED BY <1>1, <1>3, <1>4, <1>5, <1>6, <1>7, <1>8, <1>9, <1>10, <1>11, <1>12,
             <2>1, <2>2, <2>3, <2>4, <2>5 DEF Next

\* "Capacity reclaim drops only an unpinned, ready redundant copy": while a
\* lease holds a page, no reclaim, cancellation or failure takes its last ready
\* copy.
THEOREM LeasedCopiesKept == Spec => LastCopyKept
<1>1. IInv /\ [Next]_vars => [KeepsReadyCopies]_vars
    BY LastCopyStep
<1>2. Spec => [][KeepsReadyCopies]_vars
    BY <1>1, InductiveInvariant, PTL DEF Spec
<1> QED BY <1>2 DEF LastCopyKept, KeepsReadyCopies

=============================================================================
