---------------------------- MODULE AsyncSched ----------------------------
(***************************************************************************)
(* The scheduler (vllm/v1/core/sched/scheduler.py, async_scheduler.py)     *)
(* with the full-attention KV manager and the block pool, driven by        *)
(* EngineCore.step_with_batch_queue: schedule() runs ahead of the results  *)
(* by up to Depth steps, so preemptions, aborts and resets meet frames in  *)
(* flight.                                                                 *)
(*                                                                         *)
(* schedule() and update_from_output() are run by one thread; they are     *)
(* split here at the requests they visit, and phase keeps everything else  *)
(* out until they are done. The step counters are kept relative to         *)
(* processed_step_seq. Text[r] is what the model makes of request r, the   *)
(* prompt first.                                                           *)
(***************************************************************************)
EXTENDS BlockPool, FiniteSetsExt, Functions

CONSTANTS Requests,      \* 1..n, in the order of arrival_time
          Text,
          BlockSize,
          Configs        \* the configurations to check: records of the fields below

ASSUME SchedAssumption ==
    /\ BlockSize = HashSize /\ Groups = {0}
    /\ IsFiniteSet(Requests) /\ Requests = 1..Cardinality(Requests)
    /\ \A r \in Requests :
          /\ Text[r] \in Seq(Range(Text[r]))
          /\ \A i \in 1..(Len(Text[r]) \div BlockSize) :
                SubSeq(Text[r], 1, i * BlockSize) \in AllPrefixes
    /\ \A c \in Configs :
          /\ {c.numBlocks, c.budget, c.maxRunning, c.ppSize} \subseteq Nat \ {0}
          /\ {c.longPrefill, c.drafts, c.maxResets} \subseteq Nat
          /\ \A r \in Requests :
                /\ {c.prompt[r], c.maxTokens[r]} \subseteq Nat \ {0} /\ c.priority[r] \in Int
                /\ Len(Text[r]) >= c.prompt[r] + c.maxTokens[r] + c.drafts

VARIABLES
    config,    \* how the engine and its requests are set up; never changes
    phase,     \* "idle", "running", "waiting", "process", "update"
    idx, budget, batch, preempted,                 \* locals of schedule()
    turn,      \* the request that blocks are still asked for after a preemption
    out,                                           \* frames left to update
    queue,     \* batch_queue, oldest step first; a step is a sequence of frames
    running, waiting, status,
    computed, holders, drafted, discard, wait, outputs,
    lastSeq, deferred,
    pool, table, cachedN,
    prefillLen, content, gen,                      \* the worker and its GPU
    epoch, resets                                  \* forced preemptions so far

schedVars == <<idx, budget, batch, preempted, turn>>
reqVars == <<computed, holders, drafted, discard, wait, outputs>>
blockVars == <<lastSeq, deferred, pool, table, cachedN>>
gpuVars == <<prefillLen, content, gen>>
vars == <<config, phase, schedVars, out, queue, running, waiting, status, reqVars,
          blockVars, gpuVars, epoch, resets>>

Prompt == config.prompt
MaxTokens == config.maxTokens
Priority == config.priority
Budget == config.budget            \* max_num_scheduled_tokens
LongPrefill == config.longPrefill  \* long_prefill_token_threshold, 0 for none
MaxRunning == config.maxRunning    \* max_num_running_reqs
PPSize == config.ppSize            \* pipeline_parallel_size
Drafts == config.drafts            \* num_spec_tokens
ByPriority == config.byPriority    \* policy is PRIORITY, not FCFS
DeferFree == config.deferFree      \* defer_block_free
Aborts == config.aborts            \* clients may abort
MaxResets == config.maxResets      \* bound on forced calls of reset_prefix_cache
Depth == PPSize + 1                \* max_concurrent_batches under async scheduling
Blocks == BlocksOf(pool)

NoTurn == [req |-> 0, n |-> 0]

Init ==
    /\ config \in Configs
    /\ phase = "idle" /\ idx = 1 /\ budget = 0 /\ batch = <<>> /\ preempted = FALSE
    /\ turn = NoTurn
    /\ out = <<>> /\ queue = <<>> /\ running = <<>> /\ waiting = <<>>
    /\ status = [r \in Requests |-> "new"]
    /\ computed = [r \in Requests |-> 0]
    /\ holders = [r \in Requests |-> 0]      \* num_output_placeholders
    /\ drafted = [r \in Requests |-> 0]         \* len(spec_token_ids)
    /\ discard = [r \in Requests |-> 0]      \* async_tokens_to_discard
    /\ wait = [r \in Requests |-> 0]         \* steps to next_decode_eligible_step
    /\ outputs = [r \in Requests |-> <<>>]   \* positions of the output tokens
    /\ lastSeq = [r \in Requests |-> 0]      \* last_sched_seq
    /\ deferred = <<>>                       \* deferred_frees
    /\ pool = NewPool(config.numBlocks)
    /\ table = [r \in Requests |-> <<>>]     \* req_to_blocks
    /\ cachedN = [r \in Requests |-> 0]      \* num_cached_block
    /\ prefillLen = [r \in Requests |-> 0]
    /\ content = [b \in Blocks |-> [j \in 1..BlockSize |-> <<>>]]
    /\ gen = [r \in Requests |-> 0]
    /\ epoch = [r \in Requests |-> 0] /\ resets = 0

NumTokens(r) == Prompt[r] + Len(outputs[r])
CDiv(a, b) == (a + b - 1) \div b
Key(r, n) == <<0, SubSeq(Text[r], 1, n)>>
InBatch(r) == \E i \in DOMAIN batch : batch[i].req = r
Ahead == Cardinality({i \in DOMAIN queue : queue[i] # <<>>})   \* sched_step_seq

-----------------------------------------------------------------------------
(* KVCacheManager.                                                         *)

\* FullAttentionManager.find_longest_cache_hit, for all but the last token.
Hits(p, r) ==
    LET most == (NumTokens(r) - 1) \div BlockSize
        hit(i) == GetOne(p, Key(r, i * BlockSize))
        n == Max({m \in 0..most : \A i \in 1..m : hit(i) # NoBlock})
    IN  [i \in 1..n |-> hit(i)]

\* The blocks that total tokens need beyond the table and the hits; a hit in
\* the free queue is no longer there to be allocated.
Needed(p, r, hits, total) ==
    Max({0, CDiv(total, BlockSize) - Len(table[r]) - Len(hits)})
      + Cardinality({i \in DOMAIN hits : p.ref[hits[i]] = 0})

\* cache_blocks up to total tokens, of the blocks bs.
Cached(q, e) == CacheFull(q, e.key, e.block, TRUE)
CacheBlocks(p, r, bs, from, total) ==
    FoldLeft(Cached, p, [i \in 1..Max({0, total \div BlockSize - from}) |->
                            [key |-> Key(r, (from + i) * BlockSize), block |-> bs[from + i]]])

\* allocate_slots, once the blocks are known to fit.
Allocate(r, hits, n) ==
    LET start == computed[r] + Len(hits) * BlockSize
        more == Max({0, CDiv(start + n + Drafts, BlockSize) - Len(table[r]) - Len(hits)})
        touched == Touch(pool, hits)
        bs == table[r] \o hits \o SubSeq(touched.free, 1, more)
        from == IF hits = <<>> THEN cachedN[r] ELSE Len(hits)
        total == Min({start + n, NumTokens(r)})
    IN  /\ pool' = CacheBlocks(GetNew(touched, more), r, bs, from, total)
        /\ table' = [table EXCEPT ![r] = bs]
        /\ cachedN' = [cachedN EXCEPT ![r] = Max({from, total \div BlockSize})]

\* _free_request_blocks: at once, or behind the last step that may write them.
\* mutant: the fence is not needed for a request that was scheduled before
MayFreeNowAlways(r) == TRUE
MayFreeNow(r) == ~DeferFree \/ lastSeq[r] <= 0

FreeRequestBlocks(p, r) ==
    /\ IF MayFreeNow(r)
       THEN pool' = FreeTable(p, table[r]) /\ UNCHANGED deferred
       ELSE /\ deferred' = IF table[r] = <<>> THEN deferred
                           ELSE Append(deferred, [fence |-> Ahead, blocks |-> table[r]])
            /\ pool' = p
    /\ table' = [table EXCEPT ![r] = <<>>]
    /\ cachedN' = [cachedN EXCEPT ![r] = 0]

-----------------------------------------------------------------------------
(* schedule().                                                             *)

Unfinished == {r \in Requests : status[r] \in {"waiting", "running"}}

BeginSchedule ==
    /\ phase = "idle" /\ Unfinished # {}
    /\ phase' = "running" /\ idx' = 1 /\ budget' = Budget
    /\ batch' = <<>> /\ preempted' = FALSE /\ turn' = NoTurn
    /\ wait' = [r \in Requests |-> Max({0, wait[r] - 1})]
    /\ UNCHANGED <<config, out, queue, running, waiting, status, computed, holders, drafted,
                   discard, outputs, blockVars, gpuVars, epoch, resets>>

\* The frame of n tokens of r, of which s are drafts. The scheduler expects a
\* token from it unless it is a prefill chunk; the worker samples when it has
\* reached the tokens the request was handed over with. known: the scheduler
\* knows every token that is fed.
Frame(r, start, n, s, bs, prefill) ==
    [req |-> r, start |-> start, n |-> n, spec |-> s, blocks |-> bs,
     known |-> start + n - s <= NumTokens(r),
     sample |-> start + n >= NumTokens(r) + holders[r],
     emits |-> start + n >= prefill, epoch |-> epoch[r]]

Chunk(n) == IF LongPrefill \in 1..n THEN Min({LongPrefill, budget}) ELSE Min({n, budget})
NewTokens(r) == Chunk(NumTokens(r) + drafted[r] + holders[r] - computed[r])

\* The placeholder guard: the steps in flight already reach max_tokens.
\* mutant: also when nothing is in flight
ReachesMaxAlways(r) == computed[r] + 2 - holders[r] >= Prompt[r] + MaxTokens[r]
ReachesMax(r) == holders[r] > 0 /\ computed[r] + 2 - holders[r] >= Prompt[r] + MaxTokens[r]

Skipped(r) == ReachesMax(r) \/ wait[r] > 0 \/ NewTokens(r) = 0

InLoop == phase = "running" /\ turn = NoTurn /\ idx <= Len(running) /\ budget > 0

SkipRunning ==
    /\ InLoop /\ Skipped(running[idx])
    /\ idx' = idx + 1
    /\ UNCHANGED <<config, phase, budget, batch, preempted, turn, out, queue, running, waiting,
                   status, reqVars, blockVars, gpuVars, epoch, resets>>

Fits(r, hits, total) == Needed(pool, r, hits, total) <= NumFree(pool)

\* The request and its tokens are taken once; allocate_slots is called again for
\* them after every preemption, which may move the list and give tokens back.
InTurn == (InLoop /\ ~Skipped(running[idx])) \/ (phase = "running" /\ turn # NoTurn)
Turn == IF turn # NoTurn THEN turn
        ELSE [req |-> running[idx], n |-> NewTokens(running[idx])]

ScheduleRunning ==
    /\ InTurn
    /\ LET r == Turn.req
           n == Turn.n
           s == Max({0, n + computed[r] - NumTokens(r) - holders[r]})
       IN  /\ Fits(r, <<>>, computed[r] + n + Drafts)
           /\ Allocate(r, <<>>, n)
           /\ batch' = Append(batch, Frame(r, computed[r], n, s, table'[r], prefillLen[r]))
           /\ budget' = budget - n
           /\ drafted' = [drafted EXCEPT ![r] = 0]
    /\ idx' = idx + 1 /\ turn' = NoTurn
    /\ UNCHANGED <<config, phase, preempted, out, queue, running, waiting, status, computed,
                   holders, discard, wait, outputs, lastSeq, deferred, gpuVars,
                   epoch, resets>>

\* Which request gives way: the last one, or the least urgent of all.
Less(r, q) == Priority[r] < Priority[q] \/ (Priority[r] = Priority[q] /\ r < q)
Victim == IF ByPriority
          THEN CHOOSE v \in Range(running) : \A q \in Range(running) : q = v \/ Less(q, v)
          ELSE Last(running)

\* The waiting queue: FCFS in front, or the order of the heap.
Prepended(w, r) ==
    IF ByPriority
    THEN LET sooner == {q \in Range(w) : Less(q, r)}
         IN  Filter(w, sooner) \o <<r>> \o Filter(w, Range(w) \ sooner)
    ELSE <<r>> \o w

\* _preempt_request, with the step's share of a victim that has one given back.
\* mutant: a preempted request keeps its computed tokens
ComputedKept(v) == computed
ComputedAfterPreempt(v) == [computed EXCEPT ![v] = 0]

PreemptFor ==
    /\ InTurn
    /\ LET r == Turn.req
           v == Victim
       IN  /\ ~Fits(r, <<>>, computed[r] + Turn.n + Drafts)
           /\ running' = Without(running, v)
           /\ waiting' = Prepended(waiting, v)
           /\ status' = [status EXCEPT ![v] = "waiting"]
           /\ FreeRequestBlocks(pool, v)
           /\ computed' = ComputedAfterPreempt(v)
           /\ drafted' = [drafted EXCEPT ![v] = 0]
           /\ batch' = Filter(batch, {f \in Range(batch) : f.req # v})
           /\ budget' = budget + (IF InBatch(v)
                                  THEN (CHOOSE f \in Range(batch) : f.req = v).n ELSE 0)
           /\ idx' = IF InBatch(v) THEN idx - 1 ELSE idx
           /\ IF v = r THEN phase' = "waiting" /\ turn' = NoTurn
              ELSE turn' = Turn /\ UNCHANGED phase
    /\ preempted' = TRUE
    /\ UNCHANGED <<config, out, queue, holders, discard, wait, outputs, lastSeq, gpuVars,
                   epoch, resets>>

EndRunning ==
    /\ phase = "running" /\ turn = NoTurn /\ (idx > Len(running) \/ budget = 0)
    /\ phase' = "waiting"
    /\ UNCHANGED <<config, schedVars, out, queue, running, waiting, status, reqVars,
                   blockVars, gpuVars, epoch, resets>>

\* The head of the waiting queue is admitted when its first chunk and the whole
\* sequence fit.
HitsOf(r) == IF computed[r] = 0 THEN Hits(pool, r) ELSE <<>>
StartOf(r) == computed[r] + Len(HitsOf(r)) * BlockSize
MayAdmit ==
    /\ phase = "waiting" /\ ~preempted /\ waiting # <<>> /\ budget > 0
    /\ Len(running) < MaxRunning
    /\ LET r == Head(waiting)
       IN  /\ Fits(r, HitsOf(r), NumTokens(r))
           /\ Fits(r, HitsOf(r),
                   StartOf(r) + Chunk(NumTokens(r) - StartOf(r)) + Drafts)

Admit ==
    /\ MayAdmit
    /\ LET r == Head(waiting)
           start == StartOf(r)
           n == Chunk(NumTokens(r) - start)
       IN  /\ Allocate(r, HitsOf(r), n)
           /\ batch' = Append(batch, Frame(r, start, n, 0, table'[r], NumTokens(r)))
           /\ budget' = budget - n
           /\ computed' = [computed EXCEPT ![r] = start]
           /\ prefillLen' = [prefillLen EXCEPT ![r] = NumTokens(r)]
           /\ running' = Append(running, r)
           /\ status' = [status EXCEPT ![r] = "running"]
    /\ waiting' = Tail(waiting)
    /\ UNCHANGED <<config, phase, idx, preempted, turn, out, queue, holders, drafted, discard, wait,
                   outputs, lastSeq, deferred, content, gen, epoch, resets>>

\* _update_after_schedule, and back to the engine: the queue is filled before a
\* result is awaited.
EndSchedule ==
    /\ phase = "waiting" /\ ~MayAdmit
    /\ LET FrameOf(r) == CHOOSE f \in Range(batch) : f.req = r
           Sampled(r) == InBatch(r) /\ FrameOf(r).sample
       IN  /\ computed' = [r \in Requests |->
                              computed[r] + (IF InBatch(r) THEN FrameOf(r).n ELSE 0)]
           /\ holders' = [r \in Requests |->
                             holders[r] + (IF Sampled(r) THEN 1 + FrameOf(r).spec ELSE 0)]
           /\ drafted' = [r \in Requests |-> IF Sampled(r) THEN Drafts ELSE drafted[r]]
           /\ wait' = [r \in Requests |-> IF Sampled(r) THEN PPSize ELSE wait[r]]
           /\ lastSeq' = [r \in Requests |-> IF InBatch(r) THEN Ahead + 1 ELSE lastSeq[r]]
    /\ queue' = Append(queue, batch)
    /\ batch' = <<>>
    /\ phase' = IF Len(queue) + 1 < Depth THEN "idle" ELSE "process"
    /\ UNCHANGED <<config, idx, budget, preempted, turn, out, running, waiting, status, discard,
                   outputs, deferred, pool, table, cachedN, gpuVars, epoch, resets>>

-----------------------------------------------------------------------------
(* The GPU executes the oldest step, then update_from_output.              *)

\* A frame writes the KV of its tokens, up to the last accepted draft, and
\* leaves that of the rejected ones behind. The worker knows what it generated.
SlotIn(f, pos) == [block |-> f.blocks[CDiv(pos, BlockSize)],
                   slot |-> ((pos - 1) % BlockSize) + 1]
Written(c, f, first, good, end) ==
    [b \in Blocks |-> [j \in 1..BlockSize |->
        LET at == {pos \in first..end : SlotIn(f, pos) = [block |-> b, slot |-> j]}
        IN  IF at = {} THEN c[b][j]
            ELSE IF Max(at) <= good THEN SubSeq(Text[f.req], 1, Max(at)) ELSE <<>>]]
Base(g, f) == IF f.known THEN f.start + f.n - f.spec ELSE g[f.req]
First(g, f) == IF f.known THEN f.start + 1 ELSE g[f.req]
Execute(gpu, f, acc) ==
    LET base == Base(gpu.gen, f)
    IN  [content |-> Written(gpu.content, f, First(gpu.gen, f), base + acc, base + f.spec),
         gen |-> [gpu.gen EXCEPT ![f.req] = base + (IF f.emits THEN acc + 1 ELSE 0)]]
Executed(s, acc) ==
    FoldLeft(LAMBDA gpu, i : Execute(gpu, s[i], acc[i]),
             [content |-> content, gen |-> gen], [i \in DOMAIN s |-> i])

\* _drain_deferred_frees.
\* mutant: nothing is drained
DrainedNone(d) == 0
DrainedCount(d) == Max({m \in 0..Len(d) : \A i \in 1..m : d[i].fence <= 0})
Drained(p, d) == FreeTables(p, [i \in 1..DrainedCount(d) |-> d[i].blocks])

\* The result of the oldest step arrives; deferred frees whose fence it was are
\* drained before anything else. The accepted drafts are up to the model.
Process ==
    /\ phase = "process" \/ (phase = "idle" /\ Unfinished = {})
    /\ queue # <<>>
    /\ LET s == Head(queue)
           past == [i \in DOMAIN deferred |-> [deferred[i] EXCEPT !.fence = @ - 1]]
       IN  /\ \E acc \in [DOMAIN s -> 0..Drafts] :
                /\ \A i \in DOMAIN s : acc[i] <= s[i].spec
                /\ out' = [i \in DOMAIN s |->
                             [req |-> s[i].req, emits |-> s[i].emits,
                              sample |-> s[i].sample, spec |-> s[i].spec,
                              base |-> Base(gen, s[i]), acc |-> acc[i]]]
                /\ content' = Executed(s, acc).content
                /\ gen' = Executed(s, acc).gen
           /\ IF s = <<>> THEN UNCHANGED <<lastSeq, deferred, pool>>
              ELSE /\ lastSeq' = [r \in Requests |-> Max({0, lastSeq[r] - 1})]
                   /\ pool' = Drained(pool, past)
                   /\ deferred' = SubSeq(past, DrainedCount(past) + 1, Len(past))
    /\ queue' = Tail(queue)
    /\ phase' = "update"
    /\ UNCHANGED <<config, schedVars, running, waiting, status, reqVars, table, cachedN,
                   prefillLen, epoch, resets>>

Updating(f) == phase = "update" /\ out # <<>> /\ f = Head(out)

\* Nothing to do for a request that is finished or is still prefilling.
UpdateSkip ==
    \E f \in Range(out) :
        /\ Updating(f) /\ (status[f.req] = "finished" \/ ~f.emits)
        /\ out' = Tail(out)
        /\ UNCHANGED <<config, phase, schedVars, queue, running, waiting, status, reqVars,
                       blockVars, gpuVars, epoch, resets>>

\* A stale frame of a forcibly preempted request is dropped.
UpdateDiscard ==
    \E f \in Range(out) :
        /\ Updating(f) /\ status[f.req] # "finished" /\ f.emits
        /\ discard[f.req] > 0
        /\ discard' = [discard EXCEPT ![f.req] = @ - 1]
        /\ out' = Tail(out)
        /\ UNCHANGED <<config, phase, schedVars, queue, running, waiting, status, computed,
                       holders, drafted, wait, outputs, blockVars, gpuVars, epoch, resets>>

\* The rejected drafts are taken back, the tokens appended, the placeholders
\* given back, the blocks that are now full cached, and the request ended when
\* it has all its tokens or one of them stops it.
\* mutant: every draft counts as accepted
RejectedNone(f) == 0
Rejected(f) == f.spec - f.acc

\* mutant: the tokens still to come are taken for computed
CommittedAll(n, h) == n
Committed(n, h) == n - h

UpdateAppend ==
    \E f \in Range(out), m \in 1..(Drafts + 1) :
        LET r == f.req
            most == Min({f.acc + 1, MaxTokens[r] - Len(outputs[r])})
            rest == computed[r] - (IF computed[r] > 0 THEN Rejected(f) ELSE 0)
            left == holders[r] - (IF holders[r] > 0 THEN Rejected(f) ELSE 0) - m
            old == status[r]
            p == IF old = "running"
                 THEN CacheBlocks(pool, r, table[r], cachedN[r], Committed(rest, left))
                 ELSE pool
            full == IF old = "running"
                    THEN Max({cachedN[r], Committed(rest, left) \div BlockSize})
                    ELSE cachedN[r]
        IN  /\ Updating(f) /\ status[r] # "finished" /\ f.emits
            /\ discard[r] = 0 /\ m <= most
            /\ left >= 0                       \* asserted; the engine ends otherwise
            /\ outputs' = [outputs EXCEPT ![r] = @ \o [i \in 1..m |-> f.base + i]]
            /\ computed' = [computed EXCEPT ![r] = rest]
            /\ holders' = [holders EXCEPT ![r] = left]
            /\ \E ended \in BOOLEAN :
                 /\ Len(outputs'[r]) = MaxTokens[r] \/ m < most => ended
                 /\ IF ended
                    THEN /\ FreeRequestBlocks(p, r)
                         /\ status' = [status EXCEPT ![r] = "finished"]
                         /\ running' = Without(running, r)
                         /\ waiting' = Without(waiting, r)
                    ELSE /\ pool' = p /\ cachedN' = [cachedN EXCEPT ![r] = full]
                         /\ UNCHANGED <<status, running, waiting, table, deferred>>
            /\ out' = Tail(out)
            /\ UNCHANGED <<config, phase, schedVars, queue, drafted, discard, wait, lastSeq,
                           gpuVars, epoch, resets>>

EndUpdate ==
    /\ phase = "update" /\ out = <<>>
    /\ phase' = "idle"
    /\ UNCHANGED <<config, schedVars, out, queue, running, waiting, status, reqVars,
                   blockVars, gpuVars, epoch, resets>>

-----------------------------------------------------------------------------
(* Calls between two steps.                                                *)

AddRequest(r) ==
    /\ phase = "idle" /\ status[r] = "new"
    /\ \A q \in Requests : q < r => status[q] # "new"
    /\ status' = [status EXCEPT ![r] = "waiting"]
    /\ waiting' = IF ByPriority THEN Prepended(waiting, r) ELSE Append(waiting, r)
    /\ UNCHANGED <<config, phase, schedVars, out, queue, running, reqVars, blockVars,
                   gpuVars, epoch, resets>>

\* finish_requests; aborts are also taken just before a result is processed.
Abort(r) ==
    /\ Aborts /\ phase \in {"idle", "process"} /\ r \in Unfinished
    /\ status' = [status EXCEPT ![r] = "finished"]
    /\ running' = Without(running, r) /\ waiting' = Without(waiting, r)
    /\ FreeRequestBlocks(pool, r)
    /\ UNCHANGED <<config, phase, schedVars, out, queue, reqVars, lastSeq, gpuVars, epoch, resets>>

\* Every running request is preempted, the last first, and its frames in
\* flight become stale.
\* mutant: the stale frames are not counted
DiscardNone(r) == 0
DiscardCount(r) == holders[r]

Preempting == Reverse(running)
ResetBlocks ==
    LET mayFree == {r \in Range(running) : MayFreeNow(r)}
        now == Filter(Preempting, mayFree)
        later == Filter(Preempting, {r \in Range(running) \ mayFree : table[r] # <<>>})
    IN  [pool |-> FreeTables(pool, [i \in DOMAIN now |-> table[now[i]]]),
         deferred |-> deferred \o [i \in DOMAIN later |->
                          [fence |-> Ahead, blocks |-> table[later[i]]]]]

\* reset_prefix_cache(reset_running_requests=True). It raises when blocks are
\* still in use, with the requests preempted all the same.
Reset ==
    /\ phase = "idle" /\ resets < MaxResets
    /\ LET rs == Range(running)
           after == ResetBlocks
       IN  /\ pool' = IF MayReset(after.pool) THEN ResetHashes(after.pool) ELSE after.pool
           /\ deferred' = after.deferred
           /\ table' = [r \in Requests |-> IF r \in rs THEN <<>> ELSE table[r]]
           /\ cachedN' = [r \in Requests |-> IF r \in rs THEN 0 ELSE cachedN[r]]
           /\ computed' = [r \in Requests |-> IF r \in rs THEN 0 ELSE computed[r]]
           /\ drafted' = [r \in Requests |-> IF r \in rs THEN 0 ELSE drafted[r]]
           /\ discard' = [r \in Requests |-> IF r \in rs THEN DiscardCount(r) ELSE discard[r]]
           /\ holders' = [r \in Requests |-> IF r \in rs THEN 0 ELSE holders[r]]
           /\ status' = [r \in Requests |-> IF r \in rs THEN "waiting" ELSE status[r]]
           /\ epoch' = [r \in Requests |-> IF r \in rs THEN epoch[r] + 1 ELSE epoch[r]]
    /\ waiting' = FoldLeft(Prepended, waiting, Preempting)
    /\ running' = <<>>
    /\ resets' = resets + 1
    /\ UNCHANGED <<config, phase, schedVars, out, queue, wait, outputs, lastSeq, gpuVars>>

-----------------------------------------------------------------------------
EngineStep == \/ BeginSchedule \/ SkipRunning \/ ScheduleRunning \/ PreemptFor
              \/ EndRunning \/ Admit \/ EndSchedule \/ Process
              \/ UpdateSkip \/ UpdateDiscard \/ UpdateAppend \/ EndUpdate
Calls == \/ \E r \in Requests : AddRequest(r) \/ Abort(r)
         \/ Reset
Next == EngineStep \/ Calls
Spec == Init /\ [][Next]_vars

\* The engine's loop keeps running; clients owe nothing. Fairness is only asked
\* for, and progress only claimed, where no call interrupts a request.
Undisturbed == ~Aborts /\ MaxResets = 0
FairSpec == Spec /\ WF_vars(Undisturbed /\ EngineStep)

-----------------------------------------------------------------------------
(* Properties.                                                             *)

\* The types of the scheduler's state; a placeholder count below zero is the
\* assertion of _update_request_with_output.
TypeOK ==
    /\ phase \in {"idle", "running", "waiting", "process", "update"}
    /\ computed \in [Requests -> Nat] /\ holders \in [Requests -> Nat]
    /\ discard \in [Requests -> Nat] /\ lastSeq \in [Requests -> 0..Depth]
    /\ Len(queue) <= Depth
    /\ Range(running) = {r \in Requests : status[r] = "running"}
    /\ Range(waiting) = {r \in Requests : status[r] = "waiting"}
    /\ PoolType(pool)

\* The references of every block are those of the tables and of the deferred
\* frees, the free queue holds exactly the blocks without one, and the hash
\* index leads to the blocks that know it, after any sequence of allocations,
\* hits, preemptions, aborts and resets.
BlocksAccounted ==
    /\ \A b \in Blocks \ {Null} :
          pool.ref[b] = Cardinality(AllPlaces(b, table))
                        + Cardinality(AllPlaces(b, [i \in DOMAIN deferred |-> deferred[i].blocks]))
    /\ FreeExact(pool) /\ IndexExact(pool)

Pending == FlattenSeq(queue) \o batch
FinalContent == Executed(Pending, [i \in DOMAIN Pending |-> 0]).content
Covers(slots, k) ==
    \A j \in 1..BlockSize : slots[j] = SubSeq(PrefixOf(k), 1, Tokens(k) - BlockSize + j)

\* A block that a lookup can find holds the KV its hash stands for, or will
\* once the steps already scheduled have run.
CachedRight ==
    \A k \in Keys : pool.index[k] # <<>> =>
        \A b \in Range(pool.index[k]) : Covers(FinalContent[b], k)

\* With deferred frees, what a step in flight writes fits into the blocks of its
\* frames, and none of these can be given to somebody else: each keeps a
\* reference until the step has run, whatever was preempted or aborted or reset
\* since it was scheduled.
InFlightBlocksKept ==
    DeferFree => \A i \in DOMAIN queue : \A f \in Range(queue[i]) :
        /\ f.start + f.n <= BlockSize * Len(f.blocks)
        /\ \A b \in Range(f.blocks) : b # Null /\ pool.ref[b] > 0

\* Every output token of a request is delivered once and in order, whatever was
\* preempted, resumed or reset on the way.
OutputsInOrder ==
    \A r \in Requests : \A i \in DOMAIN outputs[r] : outputs[r][i] = Prompt[r] + i

FramesOf(r, fresh) ==
    {x \in UNION {{<<i, j>> : j \in DOMAIN queue[i]} : i \in DOMAIN queue} :
        LET f == queue[x[1]][x[2]]
        IN  f.req = r /\ f.sample /\ (f.epoch = epoch[r]) = fresh}

\* "num_output_placeholders is exactly that count" (scheduler.py): between two
\* steps the frames to discard are the stale ones in flight, and the
\* placeholders are what the others can still deliver; a result never finds
\* fewer of them than it takes (the assertion of _update_request_with_output).
FramesCounted ==
    /\ phase = "idle" => \A r \in Unfinished :
          /\ discard[r] = Cardinality(FramesOf(r, FALSE))
          /\ holders[r] = SumFunction([x \in FramesOf(r, TRUE) |-> 1 + queue[x[1]][x[2]].spec])
    /\ \A f \in Range(out) :
          Updating(f) /\ f.req \in Unfinished /\ f.emits /\ discard[f.req] = 0
              => f.spec < holders[f.req]

\* "if a request is still being prefilled, we expect the model runner to return
\* empty token ids" (scheduler.py): no token comes from a frame that was
\* scheduled as a prefill chunk.
PrefillsReturnEmpty == \A i \in DOMAIN out : out[i].emits => out[i].sample

\* A forced reset "can reduce the ref count of all the kv blocks to 0 and thus
\* we can make sure the reset is successful" (scheduler.py).
ResetSucceeds == phase = "idle" => MayReset(ResetBlocks.pool)

\* A request that was added finishes, through any number of preemptions, and
\* once all have finished their blocks come back, the deferred ones too.
Served ==
    /\ \A r \in Requests : (Undisturbed /\ status[r] = "waiting") ~> status[r] = "finished"
    /\ (Undisturbed /\ \A r \in Requests : status[r] = "finished") ~> MayReset(pool)
=============================================================================
