----------------------------- MODULE TierIndex -----------------------------
(***************************************************************************)
(* The scheduler-side index of the host KV tier:                           *)
(* vllm/v1/core/kv_tier_index.py, classes Trajectory and HostKVTierIndex.  *)
(*                                                                         *)
(* The index is one value, a record `ix'; each method is an operator from  *)
(* an index to the index it leaves behind (with a result where the method  *)
(* returns one), because the connector calls several methods within one    *)
(* scheduler step.  HostTier composes them with the connector, the copy    *)
(* stream and the disk.                                                    *)
(*                                                                         *)
(* Modelled layout: one attention group and one state group, one hash      *)
(* block per KV block (every group is due at every position), no main-KV   *)
(* tier.  Positions are counted from 1 and 0 stands for "no slot".  The     *)
(* free lists are LIFO as in the code; slots freed by one call enter them  *)
(* in a fixed order that need not be the order of the code's loop.         *)
(***************************************************************************)
EXTENDS Integers, FiniteSets, Sequences, SequencesExt

CONSTANT NoHash   \* _EMPTY_HASH

None == 0

\* Trajectory(): nothing bound, staged or saved.
NewTrajectory ==
    [hashes |-> <<>>, attn |-> <<>>, diskAttn |-> <<>>,
     tail |-> None, boundary |-> 0, tailHash |-> NoHash, tailPending |-> FALSE,
     diskTail |-> None, diskBoundary |-> 0]

Descending(n) == [i \in 1 .. n |-> n + 1 - i]

EmptyIndex(numSlots, numDiskSlots) ==
    [numSlots |-> numSlots,               \* of the pinned arena
     numDiskSlots |-> numDiskSlots,       \* of the NVMe file, 0 without one
     free |-> Descending(numSlots),       \* _free, a LIFO list
     diskFree |-> Descending(numDiskSlots), \* _disk_free, a LIFO list
     order |-> <<>>,                      \* _trajectories' order, coldest first
     traj |-> [o \in {} |-> NewTrajectory],
     pendingWrite |-> {},                 \* _pending_write
     orphanedPending |-> {},              \* _orphaned_pending
     orphanedBusy |-> {},                 \* _orphaned_busy
     orphanedDisk |-> {},                 \* _orphaned_disk_pending
     diskPending |-> {},                  \* _disk_pending
     diskOfHost |-> [s \in {} |-> None],  \* _disk_of_host
     hostBusy |-> [s \in {} |-> None],    \* _host_busy
     promotions |-> [o \in {} |-> {}]]    \* _promotions

-----------------------------------------------------------------------------
(* Small helpers                                                           *)

Drop(f, S) == [x \in DOMAIN f \ S |-> f[x]]
Put(f, k, v) == [x \in DOMAIN f \union {k} |-> IF x = k THEN v ELSE f[x]]
Push(list, S) == list \o SetToSeq(S)
Present(seq) == ToSet(seq) \ {None}

AttnSlots(t) == Present(t.attn)
HostSlots(t) == (AttnSlots(t) \union {t.tail}) \ {None}
DiskSlots(t) == (Present(t.diskAttn) \union {t.diskTail}) \ {None}

\* touch: the owner's trajectory becomes the hottest.
Touch(ix, o) ==
    [ix EXCEPT !.order = Append(RemoveFirst(@, o), o)]

\* _trajectories.setdefault(owner, Trajectory()), then touch.
Open(ix, o) ==
    Touch([ix EXCEPT !.traj = IF o \in DOMAIN @ THEN @ ELSE Put(@, o, NewTrajectory)], o)

\* _free_disk_slot, over a set of slots.
FreeDisk(ix, S) ==
    [ix EXCEPT !.diskPending = @ \ S, !.diskFree = Push(@, S)]

-----------------------------------------------------------------------------
(* Reclamation                                                             *)

\* _attn_complete: the position is on the host, or on disk and written.
AttnComplete(ix, t, i) ==
    \/ t.attn[i] # None
    \/ t.diskAttn[i] # None /\ t.diskAttn[i] \notin ix.diskPending

\* _tail_available.
TailAvailable(ix, t) ==
    \/ t.tail # None /\ ~t.tailPending
    \/ /\ t.diskTail # None
       /\ t.diskBoundary = t.boundary
       /\ t.diskTail \notin ix.diskPending

\* resumable_blocks, which is the tail boundary or nothing.
Resumable(ix, t) ==
    /\ t.boundary > 0
    /\ TailAvailable(ix, t)
    /\ t.tailHash # NoHash
    /\ t.boundary <= Len(t.hashes)
    /\ t.hashes[t.boundary] = t.tailHash
    /\ \A i \in 1 .. t.boundary : AttnComplete(ix, t, i)

\* fully_on_disk: the host copies may go without losing resumability.
FullyOnDisk(ix, t) ==
    /\ t.boundary > 0
    /\ t.diskBoundary = t.boundary
    /\ t.diskTail # None /\ t.diskTail \notin ix.diskPending
    /\ \A i \in 1 .. t.boundary :
          /\ i <= Len(t.diskAttn)
          /\ t.diskAttn[i] # None
          /\ t.diskAttn[i] \notin ix.diskPending

\* Mutant: a host row that the IO threads are reading does not hold up reclaim.
BusyIgnoringDisk(ix, t) == HostSlots(t) \intersect ix.pendingWrite # {}

\* _busy.
Busy(ix, t) ==
    HostSlots(t) \intersect (ix.pendingWrite \union DOMAIN ix.hostBusy) # {}

\* _delete: every slot of the trajectory goes back, and the trajectory goes.
Delete(ix, o) ==
    LET t == ix.traj[o]
        freed == [ix EXCEPT !.pendingWrite = @ \ HostSlots(t),
                            !.diskOfHost = Drop(@, HostSlots(t)),
                            !.free = Push(@, HostSlots(t)),
                            !.traj = Drop(@, {o}),
                            !.order = RemoveFirst(@, o)]
    IN  FreeDisk(freed, DiskSlots(t))

\* Mutant: the whole tail record is reset, the boundary of its disk copy too.
DemoteResettingTail(ix, o) ==
    LET t == ix.traj[o]
    IN  [ix EXCEPT
           !.diskOfHost = Drop(@, HostSlots(t)),
           !.free = Push(@, HostSlots(t)),
           !.traj[o].attn = [i \in 1 .. Len(t.attn) |-> None],
           !.traj[o].tail = None,
           !.traj[o].tailPending = FALSE,
           !.traj[o].diskBoundary = 0]

\* The host copies of a trajectory that is fully on disk are released.
Demote(ix, o) ==
    LET t == ix.traj[o]
    IN  [ix EXCEPT
           !.diskOfHost = Drop(@, HostSlots(t)),
           !.free = Push(@, HostSlots(t)),
           !.traj[o].attn = [i \in 1 .. Len(t.attn) |-> None],
           !.traj[o].tail = None,
           !.traj[o].tailPending = FALSE]

\* The coldest trajectory that satisfies a test, or the whole order's end.
Coldest(ix, Test(_)) == SelectInSeq(ix.order, Test)

\* _reclaim, the trajectory found: demoted if that loses nothing, or deleted.
GiveUpHost(ix, o) ==
    IF FullyOnDisk(ix, ix.traj[o]) THEN Demote(ix, o) ELSE Delete(ix, o)

\* _reclaim: demote or delete the coldest trajectory with host slots to give.
Reclaim(ix, protect) ==
    LET may(o) == /\ o # protect
                  /\ o \notin DOMAIN ix.promotions
                  /\ HostSlots(ix.traj[o]) # {}
                  /\ ~Busy(ix, ix.traj[o])
        k == Coldest(ix, may)
    IN  IF k = 0 THEN ix ELSE GiveUpHost(ix, ix.order[k])

\* A trajectory loses its disk copies and keeps its host ones.
DropDiskCopies(ix, o) ==
    LET t == ix.traj[o]
        disk == DiskSlots(t)
    IN  [FreeDisk(ix, disk) EXCEPT
           !.diskOfHost = Drop(@, {s \in DOMAIN @ : @[s] \in disk}),
           !.traj[o] = [t EXCEPT !.diskAttn = [i \in 1 .. Len(t.diskAttn) |-> None],
                                 !.diskTail = None, !.diskBoundary = 0]]

\* _reclaim_disk, the trajectory found: one that lives on disk only dies.
GiveUpDisk(ix, o) ==
    IF HostSlots(ix.traj[o]) = {} THEN Delete(ix, o) ELSE DropDiskCopies(ix, o)

\* _reclaim_disk: the coldest trajectory all of whose disk copies are settled.
ReclaimDisk(ix, protect) ==
    LET may(o) ==
          LET disk == DiskSlots(ix.traj[o])
          IN  /\ o # protect
              /\ o \notin DOMAIN ix.promotions
              /\ disk # {}
              /\ disk \intersect (ix.diskPending \union Range(ix.hostBusy)) = {}
        k == Coldest(ix, may)
    IN  IF k = 0 THEN ix ELSE GiveUpDisk(ix, ix.order[k])

\* Mutant: an allocated slot is not marked as being written.
TakeSlotNotPending(ix) ==
    IF ix.free = <<>> THEN [ix |-> ix, slot |-> None]
    ELSE [ix |-> [ix EXCEPT !.free = Front(@)], slot |-> Last(ix.free)]

\* _alloc_slot, after any reclaim: the last free slot, which is to be written.
TakeSlot(ix) ==
    IF ix.free = <<>> THEN [ix |-> ix, slot |-> None]
    ELSE [ix |-> [ix EXCEPT !.free = Front(@),
                            !.pendingWrite = @ \union {Last(ix.free)}],
          slot |-> Last(ix.free)]

\* _alloc_slot.  Result: the index and the slot, None when there is no room.
AllocSlot(ix, protect) ==
    LET stuck == /\ ix.free = <<>>
                 /\ \/ Cardinality(DOMAIN ix.hostBusy) = ix.numSlots
                    \/ Cardinality(ix.pendingWrite) = ix.numSlots
    IN  TakeSlot(IF ix.free # <<>> \/ stuck THEN ix ELSE Reclaim(ix, protect))

\* _alloc_disk_slot, after any reclaim.
TakeDiskSlot(ix) ==
    IF ix.diskFree = <<>> THEN [ix |-> ix, slot |-> None]
    ELSE [ix |-> [ix EXCEPT !.diskFree = Front(@),
                            !.diskPending = @ \union {Last(ix.diskFree)}],
          slot |-> Last(ix.diskFree)]

\* _alloc_disk_slot.
AllocDiskSlot(ix, protect) ==
    TakeDiskSlot(IF ix.diskFree # <<>> \/ ix.numDiskSlots = 0 THEN ix
                 ELSE ReclaimDisk(ix, protect))

-----------------------------------------------------------------------------
(* Staging                                                                 *)

\* _release_host_slot, over a set of slots.
ReleaseHost(ix, S) ==
    LET tied == {ix.diskOfHost[s] : s \in S \intersect DOMAIN ix.diskOfHost}
        inFlight == S \intersect ix.pendingWrite
        freed == FreeDisk(ix, tied)
    IN  [freed EXCEPT !.diskOfHost = Drop(@, S),
                      !.orphanedPending = @ \union inFlight,
                      !.free = Push(@, S \ inFlight)]

Cleared(seq, i, v) == [j \in 1 .. Len(seq) |-> IF j >= i THEN v ELSE seq[j]]

\* The divergent suffix [i, end] of a lineage is released for restaging.
Supersede(ix, o, i) ==
    LET t == ix.traj[o]
        suffix == i .. Len(t.attn)
        host == {t.attn[j] : j \in suffix} \ {None}
        disk == {t.diskAttn[j] : j \in suffix} \ {None}
    IN  [FreeDisk(ReleaseHost(ix, host), disk)
           EXCEPT !.traj[o].attn = Cleared(@, i, None),
                  !.traj[o].diskAttn = Cleared(@, i, None),
                  !.traj[o].hashes = Cleared(@, i, NoHash)]

\* _ensure_position, the lists of a lineage made long enough for position i.
Grown(seq, i, v) ==
    [j \in 1 .. IF Len(seq) > i THEN Len(seq) ELSE i |-> IF j <= Len(seq) THEN seq[j] ELSE v]
Long(ix, o, i) ==
    [ix EXCEPT !.traj[o].attn = Grown(@, i, None),
               !.traj[o].diskAttn = Grown(@, i, None),
               !.traj[o].hashes = Grown(@, i, NoHash)]

\* _ensure_position.  `ok' is FALSE when the position carries another hash and
\* superseding is not allowed.
EnsurePosition(ix, o, i, h, supersede) ==
    LET long == Long(Open(ix, o), o, i)
        clash == long.traj[o].hashes[i] \notin {NoHash, h}
        fit == IF clash /\ supersede THEN Supersede(long, o, i) ELSE long
    IN  IF clash /\ ~supersede THEN [ix |-> long, ok |-> FALSE]
        ELSE [ix |-> [fit EXCEPT !.traj[o].hashes[i] = h], ok |-> TRUE]

\* stage_attention, the disk slot that a fresh host slot will be written to:
\* without room on disk the block is staged on the host only.
PairAttention(disk, o, i, slot) ==
    [ix |-> IF disk.slot = None THEN disk.ix
            ELSE [disk.ix EXCEPT !.traj[o].diskAttn[i] = disk.slot,
                                 !.diskOfHost = Put(@, slot, disk.slot)],
     slot |-> slot]

\* stage_attention, a host slot for the position, if there was one to be had.
PlaceAttention(got, o, i) ==
    LET host == [got.ix EXCEPT !.traj[o].attn[i] = got.slot]
    IN  CASE got.slot = None -> got
          [] got.slot # None /\ got.ix.traj[o].diskAttn[i] # None ->
                [ix |-> host, slot |-> got.slot]
          [] OTHER -> PairAttention(AllocDiskSlot(host, o), o, i, got.slot)

\* stage_attention, the position ensured (or refused): it is staged only once.
StageAt(at, o, i) ==
    IF ~at.ok \/ at.ix.traj[o].attn[i] # None THEN [ix |-> at.ix, slot |-> None]
    ELSE PlaceAttention(AllocSlot(at.ix, o), o, i)

\* note_hash followed by stage_attention, as the connector calls them for a
\* filled block.  Result: the index and the slot to offload into.
StageAttention(ix, o, i, h, supersede) ==
    StageAt(EnsurePosition(ix, o, i, h, supersede), o, i)

\* stage_tail_states, retiring the previous tail: a host slot that a disk
\* write reads, a slot still being filled, and a disk slot whose write is not
\* confirmed are orphaned, not freed.
RetireTail(ix, o) ==
    LET t == ix.traj[o]
        old == {t.tail} \ {None}
        tied == {ix.diskOfHost[s] : s \in old \intersect DOMAIN ix.diskOfHost}
        oldDisk == tied \union ({t.diskTail} \ {None})
        busy == old \intersect DOMAIN ix.hostBusy
        filling == (old \ busy) \intersect ix.pendingWrite
        unconfirmed == oldDisk \intersect ix.diskPending
        cut == [ix EXCEPT !.diskOfHost = Drop(@, old),
                          !.orphanedBusy = @ \union busy,
                          !.orphanedPending = @ \union filling,
                          !.free = Push(@, old \ (busy \union filling)),
                          !.orphanedDisk = @ \union unconfirmed]
    IN  FreeDisk(cut, oldDisk \ unconfirmed)

\* stage_tail_states, the disk slot the new tail will be written to.
PairTail(disk, o, boundary, slot) ==
    [ix |-> IF disk.slot = None THEN disk.ix
            ELSE [disk.ix EXCEPT !.traj[o].diskTail = disk.slot,
                                 !.traj[o].diskBoundary = boundary,
                                 !.diskOfHost = Put(@, slot, disk.slot)],
     slot |-> slot]

\* stage_tail_states, the old tail gives way to the new one.
NewTail(ix, o, boundary, h, slot) ==
    [RetireTail(ix, o) EXCEPT
       !.traj[o] = [@ EXCEPT !.diskTail = None, !.diskBoundary = 0,
                             !.tail = slot, !.boundary = boundary,
                             !.tailHash = h, !.tailPending = TRUE]]

\* stage_tail_states, a slot for the new tail, if there was one to be had.
PlaceTail(got, o, boundary, h) ==
    IF got.slot = None THEN got
    ELSE PairTail(AllocDiskSlot(NewTail(got.ix, o, boundary, h, got.slot), o),
                  o, boundary, got.slot)

\* stage_tail_states.  Result: the index and the slot to save the tail into.
StageTail(ix, o, boundary, h) == PlaceTail(AllocSlot(Open(ix, o), o), o, boundary, h)

\* A tail is pending as long as its slot is still to be written.
TailSettled(t, left) == [t EXCEPT !.tailPending = @ /\ t.tail \in left]

\* Mutant: a superseded slot whose write confirms is never freed.
ConfirmWritesLosingOrphans(ix, slots) ==
    LET left == ix.pendingWrite \ slots
    IN  [ix EXCEPT
           !.pendingWrite = left,
           !.orphanedPending = @ \ slots,
           !.traj = [o \in DOMAIN @ |-> TailSettled(@[o], left)]]

\* confirm_writes.
ConfirmWrites(ix, slots) ==
    LET left == ix.pendingWrite \ slots
    IN  [ix EXCEPT
           !.pendingWrite = left,
           !.free = Push(@, slots \intersect ix.orphanedPending),
           !.orphanedPending = @ \ slots,
           !.traj = [o \in DOMAIN @ |-> TailSettled(@[o], left)]]

-----------------------------------------------------------------------------
(* The disk tier                                                           *)

\* take_disk_writes.  Result: the index and the set of <<host, disk>> writes.
TakeDiskWrites(ix, confirmed) ==
    LET due == confirmed \intersect DOMAIN ix.diskOfHost
    IN  [ix |-> [ix EXCEPT
                   !.diskOfHost = Drop(@, due),
                   !.hostBusy = [s \in DOMAIN @ \union due |->
                                   IF s \in due THEN ix.diskOfHost[s] ELSE @[s]]],
         writes |-> {<<s, ix.diskOfHost[s]>> : s \in due}]

\* Mutant: the disk slot of a superseded tail is forgotten instead of freed.
ConfirmDiskLosingOrphans(ix, writes) ==
    LET host == {w[1] : w \in writes}
        disk == {w[2] : w \in writes}
        done == {w[1] : w \in {x \in writes : x[1] \in DOMAIN ix.hostBusy
                                             /\ ix.hostBusy[x[1]] = x[2]}}
        freeHost == host \intersect ix.orphanedBusy
    IN  [ix EXCEPT !.hostBusy = Drop(@, done),
                   !.diskPending = @ \ disk,
                   !.orphanedBusy = @ \ freeHost,
                   !.orphanedDisk = @ \ disk,
                   !.free = Push(@, freeHost)]

\* confirm_disk_writes: the writes of one batch are on disk on every rank.
ConfirmDiskWrites(ix, writes) ==
    LET host == {w[1] : w \in writes}
        disk == {w[2] : w \in writes}
        done == {w[1] : w \in {x \in writes : x[1] \in DOMAIN ix.hostBusy
                                             /\ ix.hostBusy[x[1]] = x[2]}}
        freeHost == host \intersect ix.orphanedBusy
        freeDisk == {w[2] : w \in {x \in writes : x[1] \in ix.orphanedBusy
                                                 \/ x[2] \in ix.orphanedDisk}}
    IN  FreeDisk([ix EXCEPT !.hostBusy = Drop(@, done),
                            !.diskPending = @ \ disk,
                            !.orphanedBusy = @ \ freeHost,
                            !.orphanedDisk = @ \ disk,
                            !.free = Push(@, freeHost)], freeDisk)

\* needs_promotion.
NeedsPromotion(ix, o) ==
    LET t == ix.traj[o]
    IN  \/ \E i \in 1 .. t.boundary : t.attn[i] = None
        \/ (t.tail = None \/ t.tailPending) /\ t.diskTail # None

\* _rollback_promotion.
RollbackPromotion(ix, o, slots) ==
    [ix EXCEPT
       !.traj[o].attn = [i \in 1 .. Len(@) |-> IF @[i] \in slots THEN None ELSE @[i]],
       !.traj[o].tail = IF @ \in slots THEN None ELSE @,
       !.pendingWrite = @ \ slots,
       !.free = Push(@, slots)]

\* promote, one position, the slot that _alloc_slot gave: to be read from disk.
FillPosition(acc, got, o, i) ==
    IF got.slot = None THEN [acc EXCEPT !.ix = got.ix, !.ok = FALSE]
    ELSE [acc EXCEPT !.ix = [got.ix EXCEPT !.traj[o].attn[i] = got.slot],
                     !.reads = @ \union {<<acc.ix.traj[o].diskAttn[i], got.slot>>}]

\* promote, one position: a host slot for a copy that is only on disk.
PromotePosition(acc, o, i) ==
    IF ~acc.ok \/ acc.ix.traj[o].attn[i] # None THEN acc
    ELSE FillPosition(acc, AllocSlot(acc.ix, o), o, i)

\* promote, the tail's slot.
FillTail(acc, got, o) ==
    IF got.slot = None THEN [acc EXCEPT !.ix = got.ix, !.ok = FALSE]
    ELSE [acc EXCEPT !.ix = [got.ix EXCEPT !.traj[o].tail = got.slot,
                                           !.traj[o].tailPending = TRUE],
                     !.reads = @ \union {<<acc.ix.traj[o].diskTail, got.slot>>}]

\* promote, the tail.
PromoteTail(acc, o) ==
    LET t == acc.ix.traj[o]
    IN  IF ~acc.ok \/ (t.tail # None /\ ~t.tailPending) \/ t.diskTail = None THEN acc
        ELSE FillTail(acc, AllocSlot(acc.ix, o), o)

\* promote, the end: the promotion is recorded, or undone for want of room.
Promoting(ix, o, slots) ==
    IF slots = {} THEN ix ELSE [ix EXCEPT !.promotions = Put(@, o, slots)]
SettlePromotion(all, o) ==
    LET new == {r[2] : r \in all.reads}
    IN  IF all.ok THEN [all EXCEPT !.ix = Promoting(@, o, new)]
        ELSE [ix |-> RollbackPromotion(all.ix, o, new), reads |-> {}, ok |-> FALSE]

\* promote: every disk-only copy gets a host slot to be filled, or none does.
\* Result: the index, the reads <<disk, host>>, and whether there was room.
Promote(ix, o) ==
    LET attn == FoldLeft(LAMBDA acc, i : PromotePosition(acc, o, i),
                         [ix |-> ix, reads |-> {}, ok |-> TRUE],
                         [i \in 1 .. ix.traj[o].boundary |-> i])
    IN  SettlePromotion(PromoteTail(attn, o), o)

\* confirm_promotion.
ConfirmPromotion(ix, o) ==
    IF o \notin DOMAIN ix.promotions THEN ix
    ELSE ConfirmWrites([ix EXCEPT !.promotions = Drop(@, {o})], ix.promotions[o])

-----------------------------------------------------------------------------
(* Lookup                                                                  *)

\* Mutant: a trajectory of the right length matches whatever its hashes.
MatchesByLength(ix, o, chain) ==
    LET t == ix.traj[o]
        n == t.boundary
    IN  /\ o \notin DOMAIN ix.promotions
        /\ n > 0 /\ n <= Len(chain)
        /\ n <= Len(t.hashes)
        /\ Resumable(ix, t)
        /\ {t.attn[i] : i \in 1 .. n} \intersect ix.pendingWrite = {}

\* The tests of lookup's loop for a hybrid model: the whole chain up to the
\* tail boundary matches, is resumable, and no copy of it is still being written.
Matches(ix, o, chain) ==
    LET t == ix.traj[o]
        n == t.boundary
    IN  /\ o \notin DOMAIN ix.promotions
        /\ n > 0 /\ n <= Len(chain)
        /\ n <= Len(t.hashes)
        /\ \A i \in 1 .. n : t.hashes[i] = chain[i]
        /\ Resumable(ix, t)
        /\ {t.attn[i] : i \in 1 .. n} \intersect ix.pendingWrite = {}

\* lookup: the deepest match, the coldest of equally deep ones; None for a miss.
Lookup(ix, chain) ==
    LET hits == {k \in 1 .. Len(ix.order) : Matches(ix, ix.order[k], chain)}
        depth(k) == ix.traj[ix.order[k]].boundary
        best == CHOOSE k \in hits : \A j \in hits :
                   depth(j) < depth(k) \/ (depth(j) = depth(k) /\ k <= j)
    IN  IF hits = {} THEN [ix |-> ix, hit |-> FALSE]
        ELSE [ix |-> Touch(ix, ix.order[best]), hit |-> TRUE, owner |-> ix.order[best]]

\* Mutant: the partial match compares lengths, not hashes.
PartialDepthAnyHash(ix, o, chain) ==
    LET t == ix.traj[o]
        fits(i) == i <= Len(t.attn) /\ i <= Len(chain) /\ t.attn[i] # None
    IN  Cardinality({i \in 1 .. Len(chain) : \A j \in 1 .. i : fits(j)})

\* lookup with allow_partial (attention-only models): the common prefix of the
\* gap-free host-staged span, up to the first slot still being written.
PartialDepth(ix, o, chain) ==
    LET t == ix.traj[o]
        fits(i) == /\ i <= Len(t.attn) /\ i <= Len(chain)
                   /\ t.attn[i] # None
                   /\ t.hashes[i] = chain[i]
                   /\ t.attn[i] \notin ix.pendingWrite
    IN  Cardinality({i \in 1 .. Len(chain) : \A j \in 1 .. i : fits(j)})

LookupPartial(ix, chain) ==
    LET depth(k) == IF ix.order[k] \in DOMAIN ix.promotions THEN 0
                    ELSE PartialDepth(ix, ix.order[k], chain)
        hits == {k \in 1 .. Len(ix.order) : depth(k) > 0}
        best == CHOOSE k \in hits : \A j \in hits :
                   depth(j) < depth(k) \/ (depth(j) = depth(k) /\ k <= j)
    IN  IF hits = {} THEN [ix |-> ix, hit |-> FALSE]
        ELSE [ix |-> Touch(ix, ix.order[best]), hit |-> TRUE,
              owner |-> ix.order[best], n |-> depth(best)]

=============================================================================
