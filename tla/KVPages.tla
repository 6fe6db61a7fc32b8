------------------------------ MODULE KVPages ------------------------------
(***************************************************************************)
(* Physical KV pages of the host and NVMe tiers, and the all-rank barrier  *)
(* that completes their transfers: vllm/v1/core/immutable_kv_pages.py,     *)
(* classes ImmutableKVPagePool and PageCompletionBarrier.                  *)
(*                                                                         *)
(* The pool's methods run on the scheduler thread, so each is one atomic   *)
(* action.  The ranks move the bytes at their own pace: RankIO is one rank *)
(* finishing its part of one submitted ticket, and `bytes' records, rank   *)
(* by rank, whose page a slot really holds.  The pool never sees `bytes';  *)
(* the properties compare its books with them.                             *)
(*                                                                         *)
(* Abstracted: the free list is a set and the reclaim victim is any        *)
(* evictable page (the code pops the last slot and scans pages in LRU      *)
(* order); owners' names, and the ValueErrors for misused handles, which   *)
(* change nothing, are left out.                                           *)
(***************************************************************************)
EXTENDS Integers, FiniteSets

CONSTANTS
    Keys,         \* attention page keys (group id, chain hash)
    NoKey,        \* the key of a private page
    HostSlots,    \* capacity of the host tier
    DiskSlots,    \* capacity of the disk tier, 0 when there is no NVMe
    Ranks,        \* the workers of the completion group
    MaxPages, MaxLeases, MaxTickets, MaxBatches   \* bounds of the id counters

ASSUME CapacityAssumption == HostSlots \in Nat \ {0} /\ DiskSlots \in Nat
ASSUME RanksAssumption == IsFiniteSet(Ranks) /\ Ranks # {}
ASSUME NoKeyAssumption == NoKey \notin Keys
ASSUME BoundsAssumption ==
    MaxPages \in Nat /\ MaxLeases \in Nat /\ MaxTickets \in Nat /\ MaxBatches \in Nat

Tier == {"host", "disk"}
Operation == {"offload", "writeback", "promote", "restore"}

NoSlot == -1
NoPage == -1
Garbage == -1
NoTier == "none"

Slots(tier) == 0 .. (IF tier = "host" THEN HostSlots ELSE DiskSlots) - 1
Other(tier) == IF tier = "host" THEN "disk" ELSE "host"

\* Where an operation reads and where it writes; "none" is the GPU side.
SourceTier(op) ==
    CASE op = "writeback" -> "host" [] op = "restore" -> "host"
      [] op = "promote" -> "disk"   [] OTHER -> NoTier
DestTier(op) ==
    CASE op = "offload" -> "host" [] op = "promote" -> "host"
      [] op = "writeback" -> "disk" [] OTHER -> NoTier

VARIABLES
    free,         \* _free: per tier, the slots nobody owns
    copies,       \* _copies: per tier and slot, the page whose copy owns it
    pages,        \* _pages: live page id -> its key, references and copies
    canonical,    \* _canonical: key -> the page that carries it
    leases,       \* _leases: live lease id -> page id
    pending,      \* _pending: live ticket id -> its operation
    batches,      \* the barrier's _batches: batch id -> tickets and rank ACKs
    nextId,       \* _next_page, _next_lease, _next_ticket, _next_batch
    raised,       \* a RuntimeError of the pool's self-checks was raised
    io,           \* per submitted ticket and rank: "todo", "ok" or "failed"
    bytes         \* per tier, slot and rank: the page whose bytes are there

poolVars == <<free, copies, pages, canonical, leases, pending, raised>>
workerVars == <<io, bytes>>
vars == <<free, copies, pages, canonical, leases, pending, batches, nextId, raised,
          io, bytes>>

NoCopy == [slot |-> NoSlot, ready |-> FALSE, pins |-> 0]
Copy == [slot : Int, ready : BOOLEAN, pins : Nat]
Page == [key : Keys \union {NoKey}, references : Nat, copy : [Tier -> Copy]]
Ticket == [operation : Operation, page : Nat, source : Int, destination : Int,
           submitted : BOOLEAN]

Init ==
    /\ free = [tier \in Tier |-> Slots(tier)]
    /\ copies = [tier \in Tier |-> [s \in Slots(tier) |-> NoPage]]
    /\ pages = [p \in {} |-> 0]
    /\ canonical = [k \in {} |-> 0]
    /\ leases = [l \in {} |-> 0]
    /\ pending = [t \in {} |-> 0]
    /\ batches = [b \in {} |-> 0]
    /\ nextId = [page |-> 0, lease |-> 0, ticket |-> 0, batch |-> 0]
    /\ raised = FALSE
    /\ io = [t \in {} |-> 0]
    /\ bytes = [tier \in Tier |-> [s \in Slots(tier) |-> [r \in Ranks |-> Garbage]]]

-----------------------------------------------------------------------------
(* Helpers on the pool's dictionaries                                      *)

\* A dictionary without the entries S, and with the entry k set to v.
Without(f, S) == [x \in DOMAIN f \ S |-> f[x]]
With(f, k, v) == [x \in DOMAIN f \union {k} |-> IF x = k THEN v ELSE f[x]]

Exists(copy) == copy.slot # NoSlot
Pinned(page) == \E tier \in Tier : page.copy[tier].pins # 0

\* The tickets of a dictionary that pin page p's copy in a tier.
Uses(tickets, p, tier) ==
    {t \in DOMAIN tickets :
        /\ tickets[t].page = p
        /\ tier \in {SourceTier(tickets[t].operation), DestTier(tickets[t].operation)}}

\* _drop_copy's two self-checks: the copy must be there, unpinned and registered.
DropFails(p, copy, tier) ==
    \/ ~Exists(copy)
    \/ copy.pins # 0
    \/ copies[tier][copy.slot] # p

\* Mutant: the slot is freed and its copy stays registered.
FreeSlotsKeepingOwner(dropped) ==
    /\ free' = [tier \in Tier |-> free[tier] \union dropped[tier]]
    /\ UNCHANGED copies

\* Slots leave `copies' and join the free list.
FreeSlots(dropped) ==
    /\ free' = [tier \in Tier |-> free[tier] \union dropped[tier]]
    /\ copies' = [tier \in Tier |-> [s \in Slots(tier) |->
                    IF s \in dropped[tier] THEN NoPage ELSE copies[tier][s]]]

\* Mutant: a page is collected on its last release although a transfer runs.
CollectableWhilePinned(now, p) == now[p].references = 0

\* Mutant: a page that still has copies is kept when nobody needs it.
CollectableWhenEmpty(now, p) ==
    now[p].references = 0 /\ \A tier \in Tier : ~Exists(now[p].copy[tier])

\* _collect's early return.
Collectable(now, p) == now[p].references = 0 /\ ~Pinned(now[p])

\* Mutant: the canonical entry of a collected page stays.
CollectKeepingKey(now, touched, dropped, failed) ==
    LET gone == {p \in touched : Collectable(now, p)}
        slots(tier) == {now[p].copy[tier].slot : p \in gone} \ {NoSlot}
    IN  /\ FreeSlots([tier \in Tier |-> dropped[tier] \union slots(tier)])
        /\ pages' = Without(now, gone)
        /\ UNCHANGED <<canonical, raised>>

\* _collect over every page of `touched': one that has neither references nor
\* pins loses its copies, its canonical entry and its place.  `now' is the
\* page table as the caller left it, `dropped' the slots the caller dropped.
Collect(now, touched, dropped, failed) ==
    LET gone == {p \in touched : Collectable(now, p)}
        slots(tier) == {now[p].copy[tier].slot : p \in gone} \ {NoSlot}
    IN  /\ FreeSlots([tier \in Tier |-> dropped[tier] \union slots(tier)])
        /\ pages' = Without(now, gone)
        /\ canonical' = Without(canonical, {now[p].key : p \in gone})
        /\ raised' = (raised \/ failed
              \/ \E p \in gone, tier \in Tier :
                    /\ Exists(now[p].copy[tier])
                    /\ DropFails(p, now[p].copy[tier], tier))

-----------------------------------------------------------------------------
(* Leases                                                                  *)

NewLease(p) ==
    /\ nextId.lease < MaxLeases
    /\ leases' = With(leases, nextId.lease, p)

\* Mutant: a second attachment to a page is not counted.
AcquireSharedUncounted(k) ==
    /\ k \in DOMAIN canonical
    /\ NewLease(canonical[k])
    /\ nextId' = [nextId EXCEPT !.lease = @ + 1]
    /\ UNCHANGED <<free, copies, pages, canonical, pending, batches, raised, workerVars>>

\* acquire_attention on a key that some live page carries.
AcquireShared(k) ==
    /\ k \in DOMAIN canonical
    /\ NewLease(canonical[k])
    /\ pages' = [pages EXCEPT ![canonical[k]].references = @ + 1]
    /\ nextId' = [nextId EXCEPT !.lease = @ + 1]
    /\ UNCHANGED <<free, copies, canonical, pending, batches, raised, workerVars>>

\* acquire_attention on a new key, or acquire_private (k = NoKey): a new page.
AcquireNew(k) ==
    /\ k \notin DOMAIN canonical
    /\ nextId.page < MaxPages
    /\ NewLease(nextId.page)
    /\ pages' = With(pages, nextId.page,
            [key |-> k, references |-> 1, copy |-> [tier \in Tier |-> NoCopy]])
    /\ canonical' = IF k = NoKey THEN canonical
                    ELSE With(canonical, k, nextId.page)
    /\ nextId' = [nextId EXCEPT !.lease = @ + 1, !.page = @ + 1]
    /\ UNCHANGED <<free, copies, pending, batches, raised, workerVars>>

\* release: a second release of the same lease finds no entry and does nothing.
Release(l) ==
    LET p == leases[l]
        now == [pages EXCEPT ![p].references = @ - 1]
    IN  /\ leases' = Without(leases, {l})
        /\ Collect(now, {p}, [tier \in Tier |-> {}], FALSE)
        /\ UNCHANGED <<pending, batches, nextId, workerVars>>

-----------------------------------------------------------------------------
(* Reserving transfers                                                     *)

\* Mutant: a redundant copy may go while a transfer reads it.
EvictableWhilePinned(p, tier) ==
    LET copy == pages[p].copy[tier]
        other == pages[p].copy[Other(tier)]
    IN  Exists(copy) /\ copy.ready /\ Exists(other) /\ other.ready

\* Mutant: any ready unpinned copy may go, the only one of its page too.
EvictableSoleCopy(p, tier) ==
    LET copy == pages[p].copy[tier]
    IN  Exists(copy) /\ copy.ready /\ copy.pins = 0

\* _evict_copy's test: only a ready, unpinned copy with a ready twin may go.
Evictable(p, tier) ==
    LET copy == pages[p].copy[tier]
        other == pages[p].copy[Other(tier)]
    IN  Exists(copy) /\ copy.ready /\ copy.pins = 0 /\ Exists(other) /\ other.ready

\* The early returns of the four begin_* methods.
MayBegin(op, p) ==
    LET host == pages[p].copy["host"]
        disk == pages[p].copy["disk"]
    IN  CASE op = "offload"   -> ~Exists(host)
          [] op = "writeback" -> ~Exists(disk) /\ Exists(host) /\ host.ready
          [] op = "promote"   -> ~Exists(host) /\ Exists(disk) /\ disk.ready
          [] OTHER            -> Exists(host) /\ host.ready

\* _reserve: the ticket, its id and the pin on its source.
NewTicket(op, p, destination) ==
    [operation |-> op, page |-> p, submitted |-> FALSE, destination |-> destination,
     source |-> IF SourceTier(op) = NoTier THEN NoSlot
                ELSE pages[p].copy[SourceTier(op)].slot]

Reserve(op, p, destination) ==
    /\ nextId.ticket < MaxTickets
    /\ pending' = With(pending, nextId.ticket, NewTicket(op, p, destination))
    /\ nextId' = [nextId EXCEPT !.ticket = @ + 1]
    /\ UNCHANGED <<canonical, leases, batches, workerVars>>

\* Page p with its copies as _allocate and _reserve leave them: the source
\* pinned, the new destination registered, not ready and pinned once.
Reserved(op, p, slot) ==
    [pages[p] EXCEPT !.copy = [tier \in Tier |->
        CASE tier = DestTier(op)   -> [slot |-> slot, ready |-> FALSE, pins |-> 1]
          [] tier = SourceTier(op) -> [pages[p].copy[tier] EXCEPT !.pins = @ + 1]
          [] OTHER                 -> pages[p].copy[tier]]]

\* begin_offload, begin_writeback, begin_promotion when a slot is free.
BeginWithFreeSlot(l, op) ==
    LET p == leases[l]
        dst == DestTier(op)
    IN  /\ dst # NoTier
        /\ MayBegin(op, p)
        /\ \E slot \in free[dst] :
              /\ free' = [free EXCEPT ![dst] = @ \ {slot}]
              /\ raised' = (raised \/ copies[dst][slot] # NoPage)
              /\ copies' = [copies EXCEPT ![dst][slot] = p]
              /\ pages' = [pages EXCEPT ![p] = Reserved(op, p, slot)]
              /\ Reserve(op, p, slot)

\* The same when the tier is full: _allocate drops one redundant copy and its
\* slot changes hands.
BeginWithEviction(l, op) ==
    LET p == leases[l]
        dst == DestTier(op)
    IN  /\ dst # NoTier
        /\ MayBegin(op, p)
        /\ free[dst] = {}
        /\ \E victim \in DOMAIN pages :
              LET copy == pages[victim].copy[dst]
              IN  /\ Evictable(victim, dst)
                  /\ raised' = (raised \/ DropFails(victim, copy, dst))
                  /\ copies' = [copies EXCEPT ![dst][copy.slot] = p]
                  /\ pages' = [pages EXCEPT ![victim].copy[dst] = NoCopy,
                                            ![p] = Reserved(op, p, copy.slot)]
                  /\ UNCHANGED free
                  /\ Reserve(op, p, copy.slot)

\* begin_restore: pin the ready host copy; the destination is a GPU block.
BeginRestore(l) ==
    LET p == leases[l]
    IN  /\ MayBegin("restore", p)
        /\ pages' = [pages EXCEPT ![p] = Reserved("restore", p, NoSlot)]
        /\ Reserve("restore", p, NoSlot)
        /\ UNCHANGED <<free, copies, raised>>

\* evict_host and evict_disk.
Evict(l, tier) ==
    LET p == leases[l]
        copy == pages[p].copy[tier]
    IN  /\ Evictable(p, tier)
        /\ FreeSlots([x \in Tier |-> IF x = tier THEN {copy.slot} ELSE {}])
        /\ pages' = [pages EXCEPT ![p].copy[tier] = NoCopy]
        /\ raised' = (raised \/ DropFails(p, copy, tier))
        /\ UNCHANGED <<canonical, leases, pending, batches, nextId, workerVars>>

-----------------------------------------------------------------------------
(* Finishing tickets                                                       *)

\* _finish over the distinct tickets S: unpin, make the destinations ready or
\* drop them, collect.  A batch finishes in one call of complete_all or
\* cancel_all, and its tickets are distinct, so their order is immaterial.
PinsLeft(S, p, tier) ==
    pages[p].copy[tier].pins - Cardinality(Uses(pending, p, tier) \intersect S)

Destinations(S, tier) ==
    {p \in DOMAIN pages :
        \E t \in S : pending[t].page = p /\ DestTier(pending[t].operation) = tier}

\* Page p's copies after the tickets S unpinned them and made or dropped theirs.
Finished(S, success, p) ==
    [pages[p] EXCEPT !.copy = [tier \in Tier |->
        CASE p \in Destinations(S, tier) /\ ~success -> NoCopy
          [] p \in Destinations(S, tier) /\ success ->
                [pages[p].copy[tier] EXCEPT !.pins = PinsLeft(S, p, tier),
                                            !.ready = TRUE]
          [] OTHER -> [pages[p].copy[tier] EXCEPT !.pins = PinsLeft(S, p, tier)]]]

Finish(S, success) ==
    LET touched == {p \in DOMAIN pages : \E t \in S : pending[t].page = p}
        now == [p \in DOMAIN pages |->
                  IF p \in touched THEN Finished(S, success, p) ELSE pages[p]]
        dropped(tier) == IF success THEN {}
                         ELSE {pages[p].copy[tier].slot : p \in Destinations(S, tier)}
        failed == ~success /\ \E tier \in Tier : \E p \in Destinations(S, tier) :
                     DropFails(p, [pages[p].copy[tier] EXCEPT
                                     !.pins = PinsLeft(S, p, tier)], tier)
    IN  /\ pending' = Without(pending, S)
        /\ io' = Without(io, S)
        /\ Collect(now, touched, [tier \in Tier |-> dropped(tier)], failed)

Batched == UNION {batches[b].tickets : b \in DOMAIN batches}

\* _validate_many, submitted=False.
Unsubmitted == {t \in DOMAIN pending : ~pending[t].submitted}

\* The work of the tickets S is handed to every rank.
Dispatch(S) ==
    /\ pending' = [t \in DOMAIN pending |->
                     [pending[t] EXCEPT !.submitted = @ \/ t \in S]]
    /\ io' = [t \in DOMAIN io \union S |->
                IF t \in S THEN [r \in Ranks |-> "todo"] ELSE io[t]]

\* submit: a single ticket, completed by its caller rather than the barrier.
Submit(t) ==
    /\ ~pending[t].submitted
    /\ Dispatch({t})
    /\ UNCHANGED <<free, copies, pages, canonical, leases, batches, nextId, raised, bytes>>

\* cancel and cancel_all: reservations that never reached a worker.
Cancel(S) ==
    /\ S # {} /\ S \subseteq Unsubmitted
    /\ Finish(S, FALSE)
    /\ UNCHANGED <<leases, batches, nextId, bytes>>

\* complete: the caller has heard from every relevant worker.
Complete(t) ==
    /\ pending[t].submitted
    /\ t \notin Batched
    /\ \A r \in Ranks : io[t][r] # "todo"
    /\ Finish({t}, \A r \in Ranks : io[t][r] = "ok")
    /\ UNCHANGED <<leases, batches, nextId, bytes>>

-----------------------------------------------------------------------------
(* The all-rank barrier                                                    *)

\* PageCompletionBarrier.submit.
SubmitBatch(S) ==
    /\ S # {} /\ S \subseteq Unsubmitted
    /\ nextId.batch < MaxBatches
    /\ Dispatch(S)
    /\ batches' = With(batches, nextId.batch,
                       [tickets |-> S, ranks |-> [r \in {} |-> FALSE]])
    /\ nextId' = [nextId EXCEPT !.batch = @ + 1]
    /\ UNCHANGED <<free, copies, pages, canonical, leases, raised, bytes>>

\* Mutant: a rank acknowledges a batch only when all of it succeeded.
RankDoneIfOk(b, r) == \A t \in batches[b].tickets : io[t][r] = "ok"

\* What a rank reports of a batch once its own part of every ticket is over.
RankDone(b, r) == \A t \in batches[b].tickets : io[t][r] # "todo"

RankOutcome(b, r) == \A t \in batches[b].tickets : io[t][r] = "ok"

\* acknowledge, not the last rank: the outcome is kept and nothing is released.
\* A repeated ACK rewrites what is there, and one for a retired batch finds
\* none: both change nothing, so they are stuttering steps.
AcknowledgeOne(b, r) ==
    /\ r \notin DOMAIN batches[b].ranks
    /\ RankDone(b, r)
    /\ DOMAIN batches[b].ranks \union {r} # Ranks
    /\ batches' = [batches EXCEPT ![b].ranks = With(@, r, RankOutcome(b, r))]
    /\ UNCHANGED <<poolVars, nextId, workerVars>>

\* Mutant: the batch completes on its first ACK, before the other ranks are done.
AcknowledgeFirst(b, r) ==
    /\ r \notin DOMAIN batches[b].ranks
    /\ RankDone(b, r)
    /\ Finish(batches[b].tickets, RankOutcome(b, r))
    /\ batches' = Without(batches, {b})
    /\ UNCHANGED <<leases, nextId, bytes>>

\* Mutant: the last ACK alone decides, the failure of an earlier rank is lost.
AcknowledgeLastWins(b, r) ==
    /\ r \notin DOMAIN batches[b].ranks
    /\ RankDone(b, r)
    /\ DOMAIN batches[b].ranks \union {r} = Ranks
    /\ Finish(batches[b].tickets, RankOutcome(b, r))
    /\ batches' = Without(batches, {b})
    /\ UNCHANGED <<leases, nextId, bytes>>

\* acknowledge, the last rank: the batch completes with the AND of all outcomes.
AcknowledgeLast(b, r) ==
    LET ranks == With(batches[b].ranks, r, RankOutcome(b, r))
    IN  /\ r \notin DOMAIN batches[b].ranks
        /\ RankDone(b, r)
        /\ DOMAIN ranks = Ranks
        /\ Finish(batches[b].tickets, \A q \in DOMAIN ranks : ranks[q])
        /\ batches' = Without(batches, {b})
        /\ UNCHANGED <<leases, nextId, bytes>>

\* A rank finishes (or fails) its part of a submitted ticket: it copies what
\* the source slot holds, or a GPU block, into the destination slot.
RankIO(t, r, outcome) ==
    LET op == pending[t].operation
        moved == IF SourceTier(op) = NoTier THEN pending[t].page
                 ELSE bytes[SourceTier(op)][pending[t].source][r]
    IN  /\ io[t][r] = "todo"
        /\ io' = [io EXCEPT ![t][r] = outcome]
        /\ bytes' = IF DestTier(op) = NoTier THEN bytes
                    ELSE [bytes EXCEPT ![DestTier(op)][pending[t].destination][r] =
                            IF outcome = "ok" THEN moved ELSE Garbage]
        /\ UNCHANGED <<poolVars, batches, nextId>>

-----------------------------------------------------------------------------

Next ==
    \/ \E k \in Keys : AcquireShared(k)
    \/ \E k \in Keys \union {NoKey} : AcquireNew(k)
    \/ \E l \in DOMAIN leases : Release(l)
    \/ \E l \in DOMAIN leases, op \in Operation : BeginWithFreeSlot(l, op)
    \/ \E l \in DOMAIN leases, op \in Operation : BeginWithEviction(l, op)
    \/ \E l \in DOMAIN leases : BeginRestore(l)
    \/ \E l \in DOMAIN leases, tier \in Tier : Evict(l, tier)
    \/ \E t \in DOMAIN pending : Submit(t)
    \/ \E t \in DOMAIN pending : Complete(t)
    \/ \E S \in SUBSET Unsubmitted : Cancel(S)
    \/ \E S \in SUBSET Unsubmitted : SubmitBatch(S)
    \/ \E b \in DOMAIN batches, r \in Ranks : AcknowledgeOne(b, r)
    \/ \E b \in DOMAIN batches, r \in Ranks : AcknowledgeLast(b, r)
    \/ \E t \in DOMAIN io, r \in Ranks, outcome \in {"ok", "failed"} :
          RankIO(t, r, outcome)

Spec == Init /\ [][Next]_vars
-----------------------------------------------------------------------------
(* Invariants                                                              *)

\* Every variable stays in its type: the one shape check of the module.
TypeOK ==
    /\ free \in [Tier -> SUBSET Int]
    /\ \A tier \in Tier : free[tier] \subseteq Slots(tier)
    /\ DOMAIN copies = Tier
    /\ \A tier \in Tier : copies[tier] \in [Slots(tier) -> Nat \union {NoPage}]
    /\ nextId \in [page : Nat, lease : Nat, ticket : Nat, batch : Nat]
    /\ DOMAIN pages \subseteq 0 .. nextId.page - 1
    /\ pages \in [DOMAIN pages -> Page]
    /\ \A p \in DOMAIN pages, tier \in Tier :
          pages[p].copy[tier].slot \in Slots(tier) \union {NoSlot}
    /\ canonical \in [DOMAIN canonical -> DOMAIN pages]
    /\ DOMAIN canonical \subseteq Keys
    /\ DOMAIN leases \subseteq 0 .. nextId.lease - 1
    /\ leases \in [DOMAIN leases -> DOMAIN pages]
    /\ DOMAIN pending \subseteq 0 .. nextId.ticket - 1
    /\ pending \in [DOMAIN pending -> Ticket]
    /\ \A t \in DOMAIN pending : pending[t].page \in DOMAIN pages
    /\ DOMAIN batches \subseteq 0 .. nextId.batch - 1
    /\ \A b \in DOMAIN batches :
          /\ batches[b] = [tickets |-> batches[b].tickets, ranks |-> batches[b].ranks]
          /\ batches[b].tickets \subseteq DOMAIN pending
          /\ DOMAIN batches[b].ranks \subseteq Ranks
          /\ batches[b].ranks \in [DOMAIN batches[b].ranks -> BOOLEAN]
    /\ raised \in BOOLEAN
    /\ DOMAIN io \subseteq DOMAIN pending
    /\ io \in [DOMAIN io -> [Ranks -> {"todo", "ok", "failed"}]]
    /\ DOMAIN bytes = Tier
    /\ \A tier \in Tier : bytes[tier] \in [Slots(tier) -> [Ranks -> Nat \union {Garbage}]]

\* check_invariants, slots: in each tier every slot is either free or owned by
\* exactly the page whose copy names it.  A slot freed twice, lost, or given to
\* two pages by any order of reserve, evict, finish and release breaks it.
SlotsPartition ==
    \A tier \in Tier : \A s \in Slots(tier) :
        /\ s \in free[tier] <=> copies[tier][s] = NoPage
        /\ \A p \in DOMAIN pages :
              pages[p].copy[tier].slot = s <=> copies[tier][s] = p
        /\ copies[tier][s] \in DOMAIN pages \union {NoPage}

\* check_invariants, counters: a page's references are its leases and a copy's
\* pins are the pending tickets that read or write it.
CountsExact ==
    \A p \in DOMAIN pages :
        /\ pages[p].references = Cardinality({l \in DOMAIN leases : leases[l] = p})
        /\ \A tier \in Tier :
              pages[p].copy[tier].pins = Cardinality(Uses(pending, p, tier))

\* check_invariants, lifetimes: a page lives exactly as long as a lease or an
\* active ticket needs it ("Active tickets survive their last lease"), and one
\* page at most carries a key.
PagesNeeded ==
    /\ \A p \in DOMAIN pages :
          pages[p].references # 0 \/ \E t \in DOMAIN pending : pending[t].page = p
    /\ \A p \in DOMAIN pages :
          pages[p].key # NoKey =>
             pages[p].key \in DOMAIN canonical /\ canonical[pages[p].key] = p
    /\ \A k \in DOMAIN canonical : pages[canonical[k]].key = k

\* check_invariants, tickets: "Locations stay stable until finish/cancel".  A
\* pending ticket's slots belong to its page throughout, its source readable
\* and its destination not yet; and no two tickets write one copy.
TicketsStable ==
    \A t \in DOMAIN pending :
        LET copy == pages[pending[t].page].copy
            src == SourceTier(pending[t].operation)
            dst == DestTier(pending[t].operation)
        IN  /\ src # NoTier => /\ pending[t].source \in Slots(src)
                               /\ copy[src].slot = pending[t].source
                               /\ copy[src].ready
            /\ dst # NoTier => /\ pending[t].destination \in Slots(dst)
                               /\ copy[dst].slot = pending[t].destination
                               /\ ~copy[dst].ready
                               /\ Uses(pending, pending[t].page, dst) = {t}

\* A copy the pool calls ready really holds its page's bytes on every rank: no
\* early completion, no failed rank hidden by the others, no slot reused while
\* a rank still writes it.
ReadyMeansWritten ==
    \A p \in DOMAIN pages, tier \in Tier, r \in Ranks :
        pages[p].copy[tier].ready =>
            /\ Exists(pages[p].copy[tier])
            /\ bytes[tier][pages[p].copy[tier].slot][r] = p

\* What a rank has yet to read is still there: a submitted transfer's source
\* slot keeps its page's bytes on each rank until that rank is done with it,
\* whatever leases go and whichever other ranks fail meanwhile.
SourceBytesHeld ==
    \A t \in DOMAIN io, r \in Ranks :
        LET src == SourceTier(pending[t].operation)
        IN  io[t][r] = "todo" /\ src # NoTier =>
                bytes[src][pending[t].source][r] = pending[t].page

\* The pool's own RuntimeErrors (a slot allocated twice, a pinned or foreign
\* copy freed) are never raised.
NeverRaises == ~raised

\* The pool passes its own checks: all that check_invariants asserts, and the
\* RuntimeErrors of its methods, after any sequence of calls.
SelfChecks == SlotsPartition /\ CountsExact /\ PagesNeeded /\ TicketsStable /\ NeverRaises

\* Barrier bookkeeping: a batch's tickets are submitted and in no other batch,
\* and a recorded ACK is that rank's final outcome.
BatchesOwnTickets ==
    /\ \A b \in DOMAIN batches :
          /\ \A t \in batches[b].tickets : t \in DOMAIN io
          /\ \A c \in DOMAIN batches \ {b} :
                batches[b].tickets \intersect batches[c].tickets = {}
          /\ \A r \in DOMAIN batches[b].ranks :
                RankDone(b, r) /\ (batches[b].ranks[r] <=> RankOutcome(b, r))
    /\ \A t \in DOMAIN pending : pending[t].submitted <=> t \in DOMAIN io

-----------------------------------------------------------------------------
(* Action and liveness properties                                          *)

HasReadyCopy(p) == \E tier \in Tier : pages[p].copy[tier].ready

\* "Capacity reclaim drops only an unpinned, ready redundant copy": a page that
\* has a ready copy keeps one for as long as some lease holds it, whatever is
\* reclaimed, cancelled or failed around it.
LastCopyKept ==
    [][\A p \in DOMAIN pages :
         HasReadyCopy(p) /\ (\E l \in DOMAIN leases' : leases'[l] = p)
         => p \in DOMAIN pages' /\ HasReadyCopy(p)']_vars

\* "Submitted tickets cannot be cancelled early": a submitted ticket leaves
\* `pending' only once every rank has finished its part of it.
NoEarlyFinish ==
    [][\A t \in DOMAIN io : t \notin DOMAIN pending' =>
          \A r \in Ranks : io[t][r] # "todo"]_vars

\* Workers finish what they are given, their ACKs arrive and the caller of a
\* single submit completes it.
Acknowledged(b) == b \in DOMAIN batches
                   /\ \E r \in Ranks : AcknowledgeOne(b, r) \/ AcknowledgeLast(b, r)
Worked(t) == t \in DOMAIN io
             /\ \E r \in Ranks, outcome \in {"ok", "failed"} : RankIO(t, r, outcome)
Completed(t) == t \in DOMAIN pending /\ Complete(t)

FairSpec ==
    /\ Spec
    /\ \A b \in 0 .. MaxBatches - 1 : WF_vars(Acknowledged(b))
    /\ \A t \in 0 .. MaxTickets - 1 : WF_vars(Worked(t) \/ Completed(t))

\* Every submitted ticket is finished in the end, through the barrier or by its
\* caller, with failed ranks too: its slots never stay pinned for ever.
SubmittedFinishes ==
    \A t \in 0 .. MaxTickets - 1 : t \in DOMAIN io ~> t \notin DOMAIN pending

=============================================================================
