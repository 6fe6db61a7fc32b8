------------------------------ MODULE HostTier ------------------------------
(***************************************************************************)
(* The host KV tier at work: the connector's scheduler side and worker     *)
(* side (host_tier_connector.py), the copy stream and IO bookkeeping of    *)
(* KVTierDMA (kv_tier_dma.py) and the NVMe IO threads (kv_tier_nvme.py),   *)
(* around the index of TierIndex.                                          *)
(*                                                                         *)
(* Step is one engine step on the scheduler thread together with the issue *)
(* of its metadata by the worker (start_load_kv).  CopyStep is the CUDA    *)
(* copy stream running its next copy, DiskIO an IO thread finishing an     *)
(* operation, in any order; ReportDisk and ReportRecv are the completions  *)
(* the worker reports with a later step.                                   *)
(*                                                                         *)
(* `arena' and `disk' hold the real contents of the slots, which the       *)
(* scheduler never sees; a block's content is named by its chain hash.     *)
(* The GPU's blocks are modelled where somebody still reads them: a queued *)
(* save names the block it will copy from, which holds its KV for as long  *)
(* as a request's table or a pin keeps it, and may be written by the       *)
(* forward pass of any later step after that.                              *)
(*                                                                         *)
(* One rank; at most one waiting request is tried per step, and each of    *)
(* the running ones scheduled in it fills one block; a restore is staged   *)
(* whole, not clipped to the token budget; a request has a token behind    *)
(* its last full block and finds no attention blocks in the GPU's cache.   *)
(***************************************************************************)
EXTENDS TierIndex

CONSTANT Configs   \* the configurations to check: records of the fields below

ASSUME TierCapacity ==
    \A c \in Configs : c.numHost \in Nat \ {0} /\ c.numDisk \in Nat

\* A request has finitely many block hashes.
ASSUME FiniteChains ==
    \A c \in Configs : \A r \in DOMAIN c.chain : Len(c.chain[r]) \in Nat

NoReq == "none"
Garbage == <<"garbage", NoHash>>
Reused == <<"reused", NoHash>>   \* what another request wrote into a freed block
Attn(h) == <<"attn", h>>
State(h) == <<"state", h>>

VARIABLES
    config,      \* how the server was started; never changes
    ix,          \* the index
    req,         \* per request: scheduler status and _ReqTrack
    promoted,    \* _promoted: request -> owner it promotes
    saves,       \* _staged_offloads between steps: tail saves
    lastWrites,  \* _last_step_write_slots
    stream,      \* the copy stream's queue
    diskOps,     \* operations handed to the IO threads
    batches,     \* _disk_write_batches: unconfirmed write-through batches
    writing,     \* _write_remaining, _write_failed per unfinished batch
    written,     \* _disk_done: write batches to report
    deferred,    \* _deferred, _read_remaining, _read_failed per request
    received,    \* restores to report as finished_recving
    invalid,     \* requests whose target blocks are reported as failed loads
    arena,       \* real content of each host slot
    disk,        \* real content of each disk slot
    misread      \* tables with a block that does not hold its request's own KV

vars == <<config, ix, req, promoted, saves, lastWrites, batches, stream, diskOps, writing,
          written, deferred, received, invalid, arena, disk, misread>>
workerVars == <<stream, diskOps, writing, written, deferred, received, invalid,
                arena, disk, misread>>

Chain == config.chain                    \* block hashes of each request's tokens
AttentionOnly == config.attentionOnly    \* no state group: partial resume
HasRing == config.hasRing                \* some ring or window group is zeroed
Recompute == config.recompute            \* kv_load_failure_policy is not "fail"
MayFailIO == config.mayFailIO            \* disk operations may fail
MayMissBlock == config.mayMissBlock      \* a restore may find no target block
MayReuse == config.mayReuse              \* freed blocks are soon written again
V1Runner == config.v1Runner              \* not vllm_config.use_v2_model_runner
MaxBatch == config.maxBatch              \* bound on the requests in one step
MaxPreemptions == config.maxPreemptions  \* bound on preemptions of one request
HostSlot == 1 .. config.numHost
DiskSlot == 1 .. config.numDisk
Req == DOMAIN Chain                      \* request ids, which name trajectories

NoPlan == [n |-> 0, ops |-> <<>>, reads |-> {}]
NewTrack(r) == [status |-> "waiting", computed |-> 0, staged |-> 0, owner |-> r,
                plan |-> NoPlan, failed |-> FALSE, preempted |-> 0, doubled |-> 0]

Init ==
    /\ config \in Configs
    /\ ix = EmptyIndex(config.numHost, config.numDisk)
    /\ req = [r \in Req |-> NewTrack(r)]
    /\ promoted = [r \in {} |-> NoReq]
    /\ saves = <<>>
    /\ lastWrites = {}
    /\ stream = <<>>
    /\ diskOps = {}
    /\ batches = [b \in {} |-> {}]
    /\ writing = [b \in {} |-> 0]
    /\ written = {}
    /\ deferred = [r \in {} |-> 0]
    /\ received = {}
    /\ invalid = {}
    /\ arena = [s \in HostSlot |-> Garbage]
    /\ disk = [d \in DiskSlot |-> Garbage]
    /\ misread = {}

WithStatus(S) == {r \in Req : req[r].status \in S}

-----------------------------------------------------------------------------
(* Blocks of the GPU that are to be saved                                  *)

\* A block is what it holds, and who keeps it from being given out again: the
\* table of a request since its last preemption, a pin (_pins_staged,
\* _pins_issued), or nobody.
Block(kv, of) == [kv |-> kv, of |-> of]
Table(r) == <<r, req[r].preempted>>
Pinned == <<NoReq, 0>>
Unpinned == <<NoReq, 1>>

Held(block) ==
    block.of = Pinned \/ \E r \in WithStatus({"running"}) : block.of = Table(r)

\* What r computes is the KV of its tokens, unless it computes from other KV.
Computed(r, kv) == IF Table(r) \in misread THEN Garbage ELSE kv

\* The position of the block that r's group_blocks lists at position i: its first
\* `doubled' blocks are there twice.
ListedAt(r, i) == IF i <= req[r].doubled THEN i ELSE i - req[r].doubled

\* update_state_after_alloc takes down the whole table of an admitted request,
\* n blocks and the one it fills next, and _absorb_block_allocations extends it
\* by what scheduled_cached_reqs has. For the V1 runner that is, of a request
\* resumed after a preemption, the whole table again.
Doubled(track, n) == IF V1Runner /\ track.preempted > 0 THEN n + 1 ELSE 0

-----------------------------------------------------------------------------
(* get_num_new_matched_tokens                                              *)

\* What the request will copy: attention blocks [1, n], then the tail state.
RestoreOps(t, r, n) ==
    [i \in 1 .. n |-> <<t.attn[i], Attn(Chain[r][i])>>]
    \o (IF AttentionOnly THEN <<>> ELSE <<<<t.tail, State(Chain[r][n])>>>>)

\* Result: the index, the request's track, and the owner it promotes, if any.
Planned(x, r, owner, n, reads) ==
    [ix |-> x,
     track |-> [req[r] EXCEPT !.owner = owner,
                  !.plan = [n |-> n, ops |-> RestoreOps(x.traj[owner], r, n),
                            reads |-> reads]],
     promotes |-> IF reads = {} THEN NoReq ELSE owner]
NotPlanned(x, r) == [ix |-> x, track |-> req[r], promotes |-> NoReq]

\* promote's result: without room for the disk-only copies it is a miss.
PlanPromoted(moved, r, owner, n) ==
    IF moved.ok THEN Planned(moved.ix, r, owner, n, moved.reads)
    ELSE NotPlanned(moved.ix, r)

\* The match is restored from the host, its disk-only copies promoted first.
PlanWhole(found, r) ==
    LET n == found.ix.traj[found.owner].boundary
    IN  CASE ~found.hit -> NotPlanned(found.ix, r)
          [] found.hit /\ ~NeedsPromotion(found.ix, found.owner) ->
                Planned(found.ix, r, found.owner, n, {})
          [] OTHER -> PlanPromoted(Promote(found.ix, found.owner), r, found.owner, n)

\* An attention-only model resumes from any prefix that is on the host.
PlanPrefix(found, r) ==
    IF found.hit THEN Planned(found.ix, r, found.owner, found.n, {})
    ELSE NotPlanned(found.ix, r)

Match(r) == IF AttentionOnly THEN PlanPrefix(LookupPartial(ix, Chain[r]), r)
            ELSE PlanWhole(Lookup(ix, Chain[r]), r)

\* A request that already has a plan is answered from it ("re-query").
GetMatched(r) == IF req[r].plan.n > 0 THEN NotPlanned(ix, r) ELSE Match(r)

-----------------------------------------------------------------------------
(* build_connector_meta                                                    *)

\* One filled block is offered to the index: an offload if a slot is granted.
Offload(ops, got, r, i) ==
    [ix |-> got.ix,
     ops |-> IF got.slot = None THEN ops
             ELSE Append(ops, <<Block(Computed(r, Attn(Chain[r][ListedAt(r, i)])), Table(r)),
                                got.slot>>)]
StageBlock(acc, r, i) ==
    Offload(acc.ops, StageAttention(acc.ix, req[r].owner, i, Chain[r][i], AttentionOnly), r, i)

\* _stage_filled_attention_blocks for one request, over what the requests
\* before it have staged: its filled blocks beyond staged_upto, one offload
\* per slot the index grants.
StageRequest(acc, r) ==
    LET track == req[r]
        todo == [k \in 1 .. track.computed - track.staged |-> track.staged + k]
    IN  FoldLeft(LAMBDA a, i : StageBlock(a, r, i), acc, todo)

\* The same for the scheduled requests, in the order of num_scheduled_tokens.
StageFilled(x, run) == FoldLeft(StageRequest, [ix |-> x, ops |-> <<>>], run)

\* The requests after the step: each scheduled one staged as far as it had
\* filled (a preempted one starts over), and one block further on.
Ran(run) ==
    [r \in Req |->
       IF r \in ToSet(run)
       THEN [req[r] EXCEPT !.staged = req[r].computed,
                           !.computed = IF @ < Len(Chain[r]) THEN @ + 1 ELSE @]
       ELSE req[r]]

-----------------------------------------------------------------------------
(* start_load_kv: the worker issues a step's metadata                      *)

Save(op) == [kind |-> "save", slot |-> op[2], block |-> op[1]]
Restore(r, ops) == [kind |-> "restore", req |-> r, ops |-> ops]

\* Queued saves of blocks that nobody holds any more and that a step's forward
\* pass may overtake: it waits for the queued restores (fence_restores), and so
\* for the saves in front of them, but for no other.
Exposed ==
    {k \in DOMAIN stream :
       /\ stream[k].kind = "save" /\ ~Held(stream[k].block)
       /\ \A j \in DOMAIN stream : stream[j].kind = "restore" => j < k}

\* What the pass may write of them: which free blocks a request gets is the
\* pool's choice.
Overwritten(run, r, plan) ==
    IF MayReuse /\ (run # <<>> \/ (r # NoReq /\ plan.n = 0)) THEN SUBSET Exposed
    ELSE {{}}

\* The queue after the pass wrote `given'; build_connector_meta drops the pins
\* of the saves issued in the step before.
AfterPass(given) ==
    [k \in DOMAIN stream |->
       IF stream[k].kind = "restore" THEN stream[k]
       ELSE LET b == stream[k].block
            IN  [stream[k] EXCEPT !.block =
                   Block(IF k \in given THEN Reused ELSE b.kv,
                         IF b.of = Pinned THEN Unpinned ELSE b.of)]]

\* The stream position whose event a disk write of slot s waits for.
LastSave(queue, s) ==
    SelectLastInSeq(queue, LAMBDA c : c.kind = "save" /\ c.slot = s)

\* Mutant: the IO thread reads the host row without waiting for its copy.
DiskWriteUnordered(queue, w, batch) ==
    [write |-> TRUE, host |-> w[1], disk |-> w[2], key |-> batch, wait |-> 0]

\* _submit_disk of a write-through.
DiskWrite(queue, w, batch) ==
    [write |-> TRUE, host |-> w[1], disk |-> w[2], key |-> batch,
     wait |-> LastSave(queue, w[1])]

\* _submit_disk of a promotion read.
DiskRead(rd, r) ==
    [write |-> FALSE, host |-> rd[2], disk |-> rd[1], key |-> r, wait |-> 0]

\* _offload_seq for a batch of writes: ids of confirmed batches are used again.
FreshBatch ==
    CHOOSE b \in 1 .. Cardinality(DOMAIN batches) + 1 : b \notin DOMAIN batches

\* issue: offloads first, then the write-through batch, then restores; a
\* restore that needs disk reads is held back until they have landed.
Issue(queue, offloads, writes, r, plan) ==
    LET queued == queue \o [k \in 1 .. Len(offloads) |-> Save(offloads[k])]
        restoring == r # NoReq /\ plan.n > 0
    IN  /\ stream' = IF restoring /\ plan.reads = {}
                     THEN Append(queued, Restore(r, plan.ops)) ELSE queued
        /\ diskOps' = diskOps
              \union {DiskWrite(queued, w, FreshBatch) : w \in writes}
              \union (IF restoring THEN {DiskRead(rd, r) : rd \in plan.reads} ELSE {})
        /\ writing' = IF writes = {} THEN writing
                      ELSE Put(writing, FreshBatch,
                               [left |-> Cardinality(writes), failed |-> FALSE])
        /\ deferred' = IF restoring /\ plan.reads # {}
                       THEN Put(deferred, r, [ops |-> plan.ops, failed |-> FALSE,
                                              left |-> Cardinality(plan.reads)])
                       ELSE deferred

-----------------------------------------------------------------------------
(* One engine step                                                         *)

\* The step's offloads (the tail saves first) and disk writes are recorded and
\* issued with `r''s restore, behind what is queued already.
Dispatch(queue, filled, writes, r, plan) ==
    LET offloads == saves \o filled.ops
    IN  /\ ix' = filled.ix
        /\ lastWrites' = {offloads[k][2] : k \in 1 .. Len(offloads)}
        /\ saves' = <<>>
        /\ batches' = IF writes = {} THEN batches ELSE Put(batches, FreshBatch, writes)
        /\ Issue(queue, offloads, writes, r, plan)
        /\ UNCHANGED <<written, arena, disk, misread>>

\* Confirm the previous step's host writes, hand their rows on to the disk,
\* stage what `run' has filled, and issue it all; then the step computes.
Build(x, run, r, plan) ==
    LET taken == TakeDiskWrites(ConfirmWrites(x, lastWrites), lastWrites)
    IN  \E given \in Overwritten(run, r, plan) :
          Dispatch(AfterPass(given), StageFilled(taken.ix, run), taken.writes, r, plan)

\* What a step may schedule of the running requests, in any order.
Schedulable == {run \in BoundedSeq(WithStatus({"running"}), MaxBatch) : IsInjective(run)}

\* A step that tries no waiting request.
StepRun(run) ==
    /\ Build(ix, run, NoReq, NoPlan)
    /\ req' = Ran(run)
    /\ UNCHANGED <<config, promoted, received, invalid>>

NotePromotion(r, got) ==
    promoted' = IF got.promotes = NoReq THEN promoted ELSE Put(promoted, r, got.promotes)

\* A waiting request is looked up, with result `got', and there is no room for its blocks: a plan
\* it may have made is kept for the next try.
StepNoRoom(run, r, got) ==
    /\ Build(got.ix, run, NoReq, NoPlan)
    /\ req' = [Ran(run) EXCEPT ![r] = got.track]
    /\ NotePromotion(r, got)
    /\ UNCHANGED <<config, received, invalid>>

\* A waiting request is admitted: with a plan it waits for the restore
\* (update_state_after_alloc stages it), without one it starts to compute.
StepAdmit(run, r, got) ==
    /\ Build(got.ix, run, r, got.track.plan)
    /\ req' = [Ran(run) EXCEPT ![r] =
          [got.track EXCEPT !.status = IF got.track.plan.n > 0 THEN "remote"
                                       ELSE "running",
                            !.computed = got.track.plan.n,
                            !.doubled = IF got.track.plan.n > 0 THEN 0
                                        ELSE Doubled(got.track, 0)]]
    /\ NotePromotion(r, got)
    /\ UNCHANGED <<config, received, invalid>>

\* Mutant: a plan that cannot be restored is only reported by its invalid blocks.
StepFailRestoreSilently(run, r, got) ==
    /\ MayMissBlock
    /\ got.track.plan.n > 0
    /\ Build(got.ix, run, NoReq, NoPlan)
    /\ req' = [Ran(run) EXCEPT ![r] =
          [got.track EXCEPT !.status = "remote", !.plan = NoPlan,
                            !.computed = got.track.plan.n]]
    /\ NotePromotion(r, got)
    /\ invalid' = invalid \union {r}
    /\ UNCHANGED <<config, received>>

\* The same when the block table has no target for the restore: _fail_restore
\* drops the plan and its disk reads, and the worker reports the request
\* received and its blocks invalid.
StepFailRestore(run, r, got) ==
    /\ MayMissBlock
    /\ got.track.plan.n > 0
    /\ Build(got.ix, run, NoReq, NoPlan)
    /\ req' = [Ran(run) EXCEPT ![r] =
          [got.track EXCEPT !.status = "remote", !.plan = NoPlan,
                            !.computed = got.track.plan.n]]
    /\ NotePromotion(r, got)
    /\ received' = received \union {r}
    /\ invalid' = invalid \union {r}
    /\ UNCHANGED config

-----------------------------------------------------------------------------
(* Request ends                                                            *)

\* request_finished_all_groups with no boundary state in reach, an abort of a
\* waiting request, or a finish in an attention-only model: the track goes.
Closed(r, status) == [NewTrack(r) EXCEPT !.status = status]

FinishPlain(r) ==
    /\ req[r].status \in {"waiting", "running"}
    /\ req' = [req EXCEPT ![r] = Closed(r, "done")]
    /\ UNCHANGED <<config, ix, promoted, saves, lastWrites, batches, workerVars>>

\* Aborted while its restore is in flight: the scheduler keeps the blocks
\* until the worker reports the restore.
AbortRemote(r) ==
    /\ req[r].status = "remote"
    /\ req' = [req EXCEPT ![r] = Closed(r, "aborted")]
    /\ UNCHANGED <<config, ix, promoted, saves, lastWrites, batches, workerVars>>

\* request_finished_all_groups with the deepest boundary whose frozen state is
\* still in the GPU prefix cache; a request that still waits for its restore
\* counts the restored tokens as computed.  `got' is what stage_tail_states gave.
\* The state's block is pinned; every other block of the request is freed.
FinishSavingTail(r, boundary, got) ==
    /\ ~AttentionOnly
    /\ req[r].status \in {"running", "remote"}
    /\ boundary <= req[r].computed
    /\ ix' = got.ix
    /\ saves' = IF got.slot = None THEN saves
                ELSE Append(saves, <<Block(Computed(r, State(Chain[r][boundary])), Pinned),
                                     got.slot>>)
    /\ req' = [req EXCEPT ![r] = Closed(r, IF req[r].status = "remote"
                                          THEN "aborted" ELSE "done")]
    /\ UNCHANGED <<config, promoted, lastWrites, batches, workerVars>>

\* The scheduler preempts a running request: it starts over and is looked up again.
Preempt(r) ==
    /\ req[r].status = "running"
    /\ req[r].preempted < MaxPreemptions
    /\ req' = [req EXCEPT ![r].status = "waiting", ![r].computed = 0,
                          ![r].preempted = @ + 1]
    /\ UNCHANGED <<config, ix, promoted, saves, lastWrites, batches, workerVars>>

-----------------------------------------------------------------------------
(* The worker's asynchronous parts                                         *)

\* The copy stream runs its next copy, which reads what its source holds by now;
\* disk writes wait one copy less for theirs.
CopyStep ==
    /\ stream # <<>>
    /\ stream' = Tail(stream)
    /\ diskOps' = {[op EXCEPT !.wait = IF @ > 0 THEN @ - 1 ELSE 0] : op \in diskOps}
    /\ LET c == Head(stream)
       IN  IF c.kind = "save"
           THEN /\ arena' = [arena EXCEPT ![c.slot] = c.block.kv]
                /\ UNCHANGED <<received, misread>>
           ELSE /\ received' = received \union {c.req}
                /\ misread' =
                     IF /\ req[c.req].status = "remote"
                        /\ \E k \in 1 .. Len(c.ops) : arena[c.ops[k][1]] # c.ops[k][2]
                     THEN misread \union {Table(c.req)} ELSE misread
                /\ UNCHANGED arena
    /\ UNCHANGED <<config, ix, req, promoted, saves, lastWrites, batches, writing, written,
                   deferred, invalid, disk>>

\* Mutant: a write batch with a failed write is reported as written.
AccountWriteIgnoringFailure(op, ok) ==
    LET b == writing[op.key]
    IN  /\ writing' = IF b.left = 1 THEN Drop(writing, {op.key})
                      ELSE [writing EXCEPT ![op.key].left = @ - 1]
        /\ written' = IF b.left = 1 THEN written \union {op.key} ELSE written

\* pump, a write finished: the batch is reported once all its writes are done
\* and none failed.
AccountWrite(op, ok) ==
    LET b == writing[op.key]
        now == [left |-> b.left - 1, failed |-> b.failed \/ ~ok]
    IN  /\ writing' = IF now.left = 0 THEN Drop(writing, {op.key})
                      ELSE [writing EXCEPT ![op.key] = now]
        /\ written' = IF now.left = 0 /\ ~now.failed THEN written \union {op.key}
                      ELSE written

\* pump, a read finished: with the last one the held-back restore is issued;
\* after a failure its target blocks are reported invalid and only the zeroing
\* of ring blocks is left of it, if there are any.
AccountRead(op, ok) ==
    LET d == deferred[op.key]
        now == [d EXCEPT !.left = @ - 1, !.failed = @ \/ ~ok]
    IN  IF now.left > 0
        THEN /\ deferred' = [deferred EXCEPT ![op.key] = now]
             /\ UNCHANGED <<stream, invalid>>
        ELSE /\ deferred' = Drop(deferred, {op.key})
             /\ invalid' = IF now.failed THEN invalid \union {op.key} ELSE invalid
             /\ stream' = CASE ~now.failed -> Append(stream, Restore(op.key, now.ops))
                            [] now.failed /\ HasRing -> Append(stream, Restore(op.key, <<>>))
                            [] OTHER -> stream

\* An IO thread finishes one operation whose copy event has fired.
DiskIO(op, ok) ==
    /\ op.wait = 0
    /\ ok \/ MayFailIO
    /\ diskOps' = diskOps \ {op}
    /\ IF op.write
       THEN /\ disk' = [disk EXCEPT ![op.disk] = IF ok THEN arena[op.host] ELSE Garbage]
            /\ AccountWrite(op, ok)
            /\ UNCHANGED <<arena, deferred, stream, invalid>>
       ELSE /\ arena' = [arena EXCEPT ![op.host] = IF ok THEN disk[op.disk] ELSE Garbage]
            /\ AccountRead(op, ok)
            /\ UNCHANGED <<disk, writing, written>>
    /\ UNCHANGED <<config, ix, req, promoted, saves, lastWrites, batches, received, misread>>

\* update_connector_output, disk_done of a batch.
ReportDisk(b) ==
    /\ written' = written \ {b}
    /\ batches' = Drop(batches, {b})
    /\ ix' = ConfirmDiskWrites(ix, batches[b])
    /\ UNCHANGED <<config, req, promoted, saves, lastWrites, stream, diskOps, writing, deferred,
                   received, invalid, arena, disk, misread>>

\* _handle_invalid_blocks, which an output's finished_recving never precedes:
\* a request that waits for the blocks is failed, or marked for another try.
ReportInvalid(r) ==
    /\ invalid' = invalid \ {r}
    /\ req' = IF req[r].status # "remote" THEN req
              ELSE [req EXCEPT ![r] = IF Recompute
                                      THEN [@ EXCEPT !.failed = TRUE, !.computed = 0]
                                      ELSE Closed(r, "aborted")]
    /\ UNCHANGED <<config, ix, promoted, saves, lastWrites, batches, stream, diskOps, writing,
                   written, deferred, received, arena, disk, misread>>

\* update_connector_output, finished_recving, and the scheduler's answer
\* (_update_waiting_for_remote_kv): the request resumes behind the restored
\* span, or from scratch after a failed load, or is gone if it was aborted.
ReportRecv(r) ==
    /\ r \notin invalid
    /\ received' = received \ {r}
    /\ ix' = IF r \in DOMAIN promoted THEN ConfirmPromotion(ix, promoted[r]) ELSE ix
    /\ promoted' = Drop(promoted, {r})
    /\ req' = [req EXCEPT ![r] =
          CASE @.status = "aborted" -> Closed(r, "done")
            [] @.status = "remote" /\ @.failed ->
                  [@ EXCEPT !.status = "waiting", !.plan = NoPlan, !.failed = FALSE]
            [] OTHER -> [@ EXCEPT !.status = "running", !.plan = NoPlan,
                                  !.doubled = Doubled(req[r], req[r].computed)]]
    /\ UNCHANGED <<config, saves, lastWrites, batches, stream, diskOps, writing, written,
                   deferred, invalid, arena, disk, misread>>

-----------------------------------------------------------------------------

Next ==
    \/ \E run \in Schedulable : StepRun(run)
    \/ \E run \in Schedulable, r \in WithStatus({"waiting"}) :
          StepNoRoom(run, r, GetMatched(r))
    \/ \E run \in Schedulable, r \in WithStatus({"waiting"}) :
          StepAdmit(run, r, GetMatched(r))
    \/ \E run \in Schedulable, r \in WithStatus({"waiting"}) :
          StepFailRestore(run, r, GetMatched(r))
    \/ \E r \in Req : FinishPlain(r)
    \/ \E r \in Req : AbortRemote(r)
    \/ \E r \in Req : \E boundary \in 1 .. Len(Chain[r]) :
          FinishSavingTail(r, boundary,
                           StageTail(ix, req[r].owner, boundary, Chain[r][boundary]))
    \/ \E r \in Req : Preempt(r)
    \/ CopyStep
    \/ \E op \in diskOps, ok \in BOOLEAN : DiskIO(op, ok)
    \/ \E b \in written : ReportDisk(b)
    \/ \E r \in invalid : ReportInvalid(r)
    \/ \E r \in received : ReportRecv(r)

Spec == Init /\ [][Next]_vars

-----------------------------------------------------------------------------
(* Invariants                                                              *)

\* The shape of the state: slots are slots of their tier, every list of the
\* index covers the same positions, requests are where the scheduler has them.
TypeOK ==
    /\ ToSet(ix.free) \subseteq HostSlot
    /\ ToSet(ix.diskFree) \subseteq DiskSlot
    /\ ToSet(ix.order) = DOMAIN ix.traj
    /\ \A o \in DOMAIN ix.traj :
          LET t == ix.traj[o]
          IN  /\ HostSlots(t) \subseteq HostSlot
              /\ DiskSlots(t) \subseteq DiskSlot
              /\ Len(t.attn) = Len(t.hashes) /\ Len(t.diskAttn) = Len(t.hashes)
    /\ \A r \in Req : /\ req[r].status \in {"waiting", "remote", "running",
                                           "aborted", "done"}
                      /\ req[r].computed \in 0 .. Len(Chain[r])
                      /\ req[r].staged \in 0 .. Len(Chain[r])
    /\ DOMAIN ix.hostBusy \subseteq HostSlot
    /\ DOMAIN writing \subseteq DOMAIN batches /\ written \subseteq DOMAIN batches

\* Every place a host slot, or a disk slot, can be.
HostPlaces(s) ==
    {<<"free", k>> : k \in {j \in 1 .. Len(ix.free) : ix.free[j] = s}}
    \union {<<"orphan", 1>> : x \in {s} \intersect ix.orphanedPending}
    \union {<<"orphan", 2>> : x \in {s} \intersect ix.orphanedBusy}
    \union (UNION {{<<o, k>> : k \in {j \in 1 .. Len(ix.traj[o].attn) :
                                        ix.traj[o].attn[j] = s}} : o \in DOMAIN ix.traj})
    \union {<<o, 0>> : o \in {p \in DOMAIN ix.traj : ix.traj[p].tail = s}}
DiskPlaces(d) ==
    {<<"free", k>> : k \in {j \in 1 .. Len(ix.diskFree) : ix.diskFree[j] = d}}
    \union {<<"orphan", 0>> : x \in {d} \intersect ix.orphanedDisk}
    \union (UNION {{<<o, k>> : k \in {j \in 1 .. Len(ix.traj[o].diskAttn) :
                                        ix.traj[o].diskAttn[j] = d}} : o \in DOMAIN ix.traj})
    \union {<<o, 0>> : o \in {p \in DOMAIN ix.traj : ix.traj[p].diskTail = d}}

\* _free, _orphaned_* and the trajectories together hold every host slot of
\* the arena exactly once: staging, superseding, retiring a tail, promoting,
\* demoting, and completions in any order neither lose nor share a slot.
HostSlotsOnce == \A s \in HostSlot : Cardinality(HostPlaces(s)) = 1

\* The same for the slots of the NVMe file (_disk_free, _orphaned_disk_pending).
DiskSlotsOnce == \A d \in DiskSlot : Cardinality(DiskPlaces(d)) = 1

\* Neither tier loses a slot or gives one away twice.
SlotsOnce == HostSlotsOnce /\ DiskSlotsOnce

\* take_disk_writes: "The host slot stays busy (never freed) until
\* confirm_disk_writes reports the disk copy complete": the row is neither
\* free nor handed out again to be written.
BusyRowsHeld ==
    DOMAIN ix.hostBusy \intersect (ToSet(ix.free) \union ix.pendingWrite) = {}

\* Every disk copy the index takes for written (not in _disk_pending) holds the
\* KV of the position it stands for, or something `excused'.
DiskCopies(excused) ==
    \A o \in DOMAIN ix.traj :
        LET t == ix.traj[o]
            settled(d) == d # None /\ d \notin ix.diskPending
        IN  /\ \A i \in 1 .. Len(t.diskAttn) :
                  settled(t.diskAttn[i]) =>
                      disk[t.diskAttn[i]] \in {Attn(t.hashes[i])} \union excused
            /\ settled(t.diskTail) =>
                  disk[t.diskTail] \in {State(t.tailHash)} \union excused

\* What the copy stream will have left in a host slot once it has caught up.
CaughtUp(s) ==
    LET k == LastSave(stream, s)
    IN  IF k = 0 THEN arena[s] ELSE stream[k].block.kv

\* The same of every host copy the index takes for written (not in
\* _pending_write), for the restores that are queued from now on.
HostCopies(excused) ==
    \A o \in DOMAIN ix.traj :
        LET t == ix.traj[o]
            settled(s) == s # None /\ s \notin ix.pendingWrite
        IN  /\ \A i \in 1 .. Len(t.attn) :
                  settled(t.attn[i]) =>
                      CaughtUp(t.attn[i]) \in {Attn(t.hashes[i])} \union excused
            /\ settled(t.tail) => CaughtUp(t.tail) \in {State(t.tailHash)} \union excused

\* What the index takes for a copy on either tier, filled by the GPU or by a
\* promotion, holds the KV of its position: although rows and slots are used
\* again by copies and IO threads that finish in any order, the only thing
\* that can go wrong with it is that its block was given out again before the
\* stream came to it. (As long as no disk read fails and nobody has computed
\* from wrong KV.)
CopiesRight ==
    misread = {} => DiskCopies({Reused}) /\ (~MayFailIO => HostCopies({Reused}))

\* The offload's contract: a block to be saved keeps its KV until it has been
\* copied ("blocks stay alive until the worker reports the save complete"), so
\* what the index takes for a copy is one.
CopiesHold == misread = {} => DiskCopies({}) /\ HostCopies({})

\* No request resumes on another trajectory's KV: what a restore copies into
\* its GPU blocks is the KV of its own tokens ("correctness is guarded by
\* full-chain hash comparison at lookup plus the tail_hash check").
NoMisread == misread = {}

-----------------------------------------------------------------------------
(* Action properties                                                       *)

\* get_num_new_matched_tokens never plans a restore of the wrong bytes: when a
\* plan is made, each of its slots holds the KV of the request's own tokens,
\* or is to be filled from a disk slot that does, with the exceptions of
\* CopiesRight.
PlansRight ==
    [][\A r \in Req :
         misread = {} /\ ~MayFailIO /\ req[r].plan = NoPlan /\ req'[r].plan # NoPlan =>
           \A k \in 1 .. Len(req'[r].plan.ops) :
              LET slot == req'[r].plan.ops[k][1]
                  wanted == req'[r].plan.ops[k][2]
                  from == {rd[1] : rd \in {x \in req'[r].plan.reads : x[2] = slot}}
                  right == {wanted, Reused}
              IN  IF from = {} THEN CaughtUp(slot) \in right
                  ELSE \A d \in from : disk[d] \in right]_vars

\* "its host slots are released, the disk copies stay, and the trajectory
\* remains resumable": one that loses its host copies and lives on can still
\* be resumed.
DemotionKeepsResumable ==
    [][\A o \in DOMAIN ix.traj \intersect DOMAIN ix'.traj :
         /\ Resumable(ix, ix.traj[o])
         /\ HostSlots(ix.traj[o]) # {} /\ HostSlots(ix'.traj[o]) = {}
         => Resumable(ix', ix'.traj[o])]_vars

-----------------------------------------------------------------------------
(* Liveness                                                                *)

\* While a request waits for its restore the engine keeps stepping, so the
\* copy stream, the IO threads and the worker's reports all make progress.
ReadFor(r) == \E op \in diskOps, ok \in BOOLEAN :
                 ~op.write /\ op.key = r /\ DiskIO(op, ok)
AnyReq == UNION {DOMAIN c.chain : c \in Configs}
FairSpec ==
    /\ Spec
    /\ WF_vars(CopyStep)
    /\ \A r \in AnyReq : /\ WF_vars(ReadFor(r))
                         /\ WF_vars(r \in invalid /\ ReportInvalid(r))
                         /\ WF_vars(r \in received /\ ReportRecv(r))

\* No request stays in WAITING_FOR_REMOTE_KVS for ever: its restore, or the
\* report of its failure ("so the scheduler recomputes them"), arrives.
RestoreResolves ==
    \A r \in AnyReq : r \in WithStatus({"remote"}) ~> r \notin WithStatus({"remote"})

\* A request aborted while its restore was in flight gives its blocks back: the
\* worker's report that the scheduler waits for before it frees them arrives.
AbortedReleased ==
    \A r \in AnyReq : r \in WithStatus({"aborted"}) ~> r \in WithStatus({"done"})

\* Every restore handed to the worker is answered, whoever still waits for it.
RestoresEnd == RestoreResolves /\ AbortedReleased

=============================================================================
