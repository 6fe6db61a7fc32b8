# TLA+ specifications of SlimServe

SlimServe is a command line and server for a curated set of models on a fork of
the vLLM v1 engine. This project specifies the parts of it whose correctness
depends on the order in which several actors act: the tiers of the KV cache, the
scheduler with steps in flight, the queues between its processes, the request
waves of data-parallel engines, the encoder cache and the resumable downloads.
Numeric code (models, kernels) is out of a model checker's reach.

Paths below are relative to `src/`.

## Inventory

| Part | State it keeps | Operations | Hard because |
| --- | --- | --- | --- |
| Immutable KV pages, `vllm/v1/core/immutable_kv_pages.py` | per tier a free list and the copies by slot; pages with references; keys; leases; pending tickets; batches with acknowledgements | acquire, release, begin, submit, complete, cancel, evict, collect; acknowledge | leases end while transfers run; a full tier drops another page's copy and reuses its slot at once; ranks finish and fail apart |
| Host tier index, `vllm/v1/core/kv_tier_index.py` | trajectories (hash chain, host and disk slots, tail state) in LRU order, free lists, pending, busy and orphaned slots, promotions | stage, confirm, take and confirm disk writes, promote, lookup, reclaim | completions arrive steps later, when the slot may have been superseded |
| Host tier connector, `vllm/distributed/kv_transfer/kv_connector/v1/host_tier_connector.py` | per-request tracks with restore plans, staged operations, unconfirmed batches | lookup, allocation, step metadata, reports, finish; worker: start_load_kv, get_finished | plans outlive the step that made them; order of issue within a step |
| Tier DMA and NVMe file, `vllm/v1/worker/gpu/kv_tier_dma.py`, `kv_tier_nvme.py` | copy stream with events, deferred restores, outstanding reads and writes; IO queues | issue, pump, poll_done; submit, transfer | the disk reads a row the stream may not have filled; IO fails; threads finish in any order |
| Scheduler, `vllm/v1/core/sched/` | waiting and running queues, computed counts, output placeholders, frames to discard, deferred frees | schedule, update_from_output, finish_requests, reset_prefix_cache | steps in flight meet preemptions, aborts and resets |
| Block pool, free queue and KV managers, `vllm/v1/core/block_pool.py`, `kv_cache_*.py` | reference counts, a linked list of free blocks, hash index, block tables | allocate, touch, cache, free, evict, reset | long legal sequences that unbalance counts; hashes entered before the block is written |
| Encoder cache, `vllm/v1/core/encoder_cache_manager.py` | cached items with the requests that use them, freeable items in order, two slot counters; on the worker the tensors | check, allocate, free, evict, reset | free and freeable counted apart; the worker learns of evictions a step later |
| Engine core and data-parallel waves, `vllm/v1/engine/core.py`, `core_client.py`, `coordinator.py` | wave and step counters, running flags in engine, coordinator and front end, queues between them, pause state | busy loop, add, abort, start wave, all-reduce, pause, resume | nobody knows for certain who is asleep |
| Shared-memory queue, `vllm/distributed/device_communicators/shm_broadcast.py` | per-chunk written and read flags, indices, sockets for overflow, wake-ups and remote readers | enqueue, dequeue, shutdown | lock-free single-byte flags; conflated wake-ups; timeouts |
| Multiprocess executor, `vllm/v1/executor/multiproc_executor.py` | response queues, queue of futures, worker processes, monitor thread | collective_rpc, result, worker loop, monitor, shutdown | responses are matched to calls by order only; workers die |
| Model files, `slimserve/fetch.py` | files, `.part` files, staging file on disk | ensure, download, finalize, assemble | killed and rerun at any point; the server changes |
| Main-KV residency, Metal tier, sentinel, output processor, structured output, speculative decoding, multimodal processor cache, expert-parallel balancing, weight transfer, profiles and CLI | | | see "Not modelled" |

How they interact: front ends give requests to engines (waves decide which
engines run); in an engine the scheduler builds a step from the block pool, the
encoder cache and what the tier connector can restore; the executor sends the
step to the workers over the shared-memory queue and collects the answers; up
to two or three steps are in flight while the scheduler plans the next. The
connector's operations travel with the step to the worker, whose DMA object
copies on one stream and gives disk operations to IO threads; completions come
back with some later step's output. The immutable-page pool is the replacement
bookkeeping for the same tiers, shared by content.

What makes each part correct: no slot or block is lost or owned twice; what a
transfer or a step in flight touches stays where it is; what the books call
ready or cached is there on every rank; messages and responses reach the right
receiver once and in order; every token is delivered once; nobody waits for
ever; only whole files are installed.

## Modules

| Module | Models |
| --- | --- |
| `KVPages`, `KVPagesProofs` | the page pool and the barrier with the ranks' copies and the real bytes of every slot; the inductive invariant and its proofs |
| `TierIndex`, `HostTier`, `HostTierProofs` | the index as operators from an index value to the index a method leaves; connector, DMA, NVMe threads and the scheduler's part in them around it; the inductive invariant of the tier and its proofs |
| `BlockPool` | the pool as operators on a pool value |
| `AsyncSched`, `AsyncSchedProofs` | the scheduler with steps in flight and the worker that runs them, around the pool; what each operation of the pool returns and keeps, the inductive invariants of the scheduler, and the proofs |
| `FreeList`, `BlockQueue`, `FreeListProofs` | the linked list of free blocks; the queue without duplicates it implements; the invariant of the links and the refinement with their proofs |
| `EncoderCache`, `EncoderCacheProofs` | both encoder cache managers, the scheduling of encoder inputs, the worker's tensors; the inductive invariant of the books and of the worker, and its proofs |
| `ShmRing`, `Broadcast`, `ShmRingProofs` | the message queue; the bounded in-order broadcast it implements; the inductive invariant, the refinement and their proofs |
| `ExecutorRPC`, `ExecutorRPCProofs` | collective_rpc and its futures, worker loops, monitor and shutdown; the invariant of the queues and its proofs |
| `DPWaves`, `DPWavesProofs` | front ends, coordinator and engines with their waves, pauses and aborts; the invariant of waves, pauses and wake-ups and its proofs |
| `Fetch` | ensure() against a faulty server, with kills at every point |
| `Lists` | lists whose entries are taken out, for the modules above |
| `MC*` | instances for TLC |

Several modules check more than one configuration of the program in one run.
They have a constant `Configs` (in `Fetch`: `Plans`), a set of records, and a
variable `config` that `Init` picks from it and no action changes; one operator
per field carries the program's name of the option (`Budget == config.budget`).
The records are in the `MC` modules.

### KVPages

The variables are the pool's dictionaries under their own names (`free`,
`copies`, `pages`, `canonical`, `leases`, `pending`, `batches`). Pool methods
run on the scheduler thread and take no locks, so each is one atomic action;
`_allocate` is split in two actions by whether a slot is free. `raised` records
whether one of the pool's RuntimeErrors would have been raised.

The ranks are not in the file. From the contract of `submit`, `complete` and
`acknowledge` the model gives each submitted ticket an entry in `io`, one field
per rank, and `RankIO` moves the bytes: it reads what the source slot holds at
that moment on that rank and writes it into the destination slot. `bytes`
therefore tells what a slot really holds, and the properties compare the books
with it. A repeated acknowledgement, one for a retired batch, and a second
release change nothing in the code and are stuttering steps.

Abstracted: the free list is a set, the reclaim victim is any evictable page
(the code scans in LRU order), owners' names and the ValueErrors for misused
handles are left out.

### TierIndex and HostTier

The index is a single record value because the connector calls several of its
methods within one step. Positions count from 1; the layout is one attention
group and one state group with one hash block per KV block, and no main-KV
slots. The free lists are LIFO sequences as in the code.

One engine step is one action (`StepRun`, `StepNoRoom`, `StepAdmit`,
`StepFailRestore`): the lookup of at most one waiting request, confirmation of
the previous step's writes, hand-over of write-throughs, staging of what the
scheduled requests filled, and the worker's issue of all of it, offloads first.
Within it the order of calls is the code's. Between steps run the copy stream
(`CopyStep`, FIFO), the IO threads (`DiskIO`, any order, after the event the
write waits for), and the reports of finished disk batches, failed blocks and
finished restores, each possibly many steps late. `arena` and `disk` hold the
real content of the slots, named by chain hash.

A copy reads what its source holds when the stream comes to it, not what it held
when the copy was issued. So a queued save names its GPU block, and the block
what it holds and who keeps it: the table of a running request, a pin (state
blocks, until the build after the one that issues the save), or nobody
(`Held`). Where `mayReuse` is set, the forward pass of every step may write any of
the blocks nobody keeps (`Overwritten`), except those whose save is queued before
a restore, for which the compute stream waits (`Exposed`). Which blocks the pool
gives out, and so whether one is written soon or late, is left open. Requests
that resumed on KV that is not theirs (`misread`) go on to compute, and save,
garbage; with the V1 model runner (`v1Runner`) a request resumed after a
preemption has its table in `group_blocks` twice, so that its saves read the wrong
blocks (`ListedAt`).

A request is `waiting`, `remote` (WAITING_FOR_REMOTE_KVS), `running`,
`aborted` (finished while its restore is in flight, blocks still held) or
`done`. Where the code promotes a received request back to WAITING and
schedules it without another lookup, the model goes to `running` in one step.

### BlockPool and AsyncSched

A pool value holds reference counts, the order of the free queue, each block's
hash and the hash index. `AsyncSched` runs `schedule()` as one action per
iteration of its two loops (`SkipRunning`, `ScheduleRunning`, `PreemptFor`,
`Admit`), because the state between iterations is what later ones read; then
`EndSchedule` puts the step in the batch queue, and `Process` with the
`Update*` actions is one `update_from_output`. The engine
alternates as `step_with_batch_queue` does, with up to `Depth` steps in flight.

The worker (external) executes the oldest step: `Written` puts the KV of the
scheduled positions in the blocks of the frame's table, so `content` tells what
a block really holds; a token is its position in the request's text, and a
block's KV is the sequence of tokens up to it, so wrong prefixes show.
Speculative tokens are accepted in any number. Requests may be added, aborted
and, in `Reset`, forcibly preempted at any idle point, as calls reach the engine
between its steps.

Blocks are asked for in a loop: when they do not fit a request gives way and
`allocate_slots` is called again, for the request and the number of tokens that
`schedule()` has in its local variables. `turn` keeps the two from one preemption
to the next. Under the FCFS policy they could be read again from `running[idx]`; under the
priority policy a preemption may move the list and give tokens back to the budget,
and the loop goes on with the old ones.

One full-attention group, no external KV; `HostTier` has the paths of requests
that wait for remote KV.

### FreeList

Nodes and the `prev`/`next` links of `FreeKVCacheBlockQueue` with its fake head
and tail, its count and the shadow set of its self-check; the methods splice as
the code does. `Path` follows the `next` links from the head and `Walked`, the
nodes it meets before the tail, is the refinement mapping to `BlockQueue`, the
sequence its callers think of.

### EncoderCache

The manager's dictionaries and counters, the scheduler's
`_try_schedule_encoder_inputs` with its window, budgets and look-ahead, freeing
as outputs arrive, and `Run`, the worker's encoder cache: it drops what the step
says, encodes what the step lists and reads what the scheduled tokens need.
Whether `allocate_slots` succeeds and
how long a prefix hit is are free choices within bounds. `plan` is what
`schedule()` has decided for the request that blocks are asked for, and names the
request, as `turn` does in `AsyncSched`.

### ShmRing and Broadcast

One action per flag access: the writer checks, writes data, clears read flags
one by one, sets the written flag; a reader loads the read flag and the written
flag apart, reads, marks. Program order is kept (`memory_fence` in the code); between any two accesses the other side may act. Wake-ups are conflated
or dropped; a sleeping reader rechecks after an interval. Overflow messages and
messages to remote readers go through FIFO sockets. Timeouts, failing
serialisation (`WriteRaises`, which leaves the chunk torn) and failing
deserialisation are included. `Broadcast` is the abstract queue: a log, and for
every reader how much of it was returned, bounded for the readers of the ring.

### ExecutorRPC

The caller's thread, each worker's loop and output thread, and the monitor
thread are processes; a response carries the call it answers, which the code
does not send, so that the properties can see a mismatch. `MaxDeaths` workers
may die at any point.

### DPWaves

Front ends believe the engines run or not from the coordinator's publications;
a request to sleeping engines also sends a first-request notice. An engine in
the wrong state tells the coordinator, which broadcasts START_DP_WAVE. The
engines' forward passes and the all-reduce are collectives: an action of all
engines that are there together. Every channel is FIFO and arbitrarily slow.
Which engine gets a request is a free choice (load balancing only chooses).

Two things of the code are left out. The coordinator repeats its last publication
when the statistics change or every five seconds (`coordinator.py:260-279`); a
front end that has just sent a first-request notice may take from it that the
engines still sleep, and sends another notice, which a running coordinator
ignores (`CoordWake`). And `resume_scheduler` raises when a pause is in flight and
does nothing when the engines run (`core.py:2021-2029`); the clients modelled
resume only after the pause was answered, and the guard of `HandleResume` says so.

### Fetch

Every write, rename and unlink is a step after which a process may be killed. A
file is a sequence of chunks with the version they came from; inodes are
separate from names because a process goes on writing to a file that was
renamed. The server may change a file, hashed or not, once (`maxVersions`), at any
moment, also between two attempts on one `.part`. Every version has the same
length and the header byte that assembly corrects; a version with another byte
there would be refused by every run until somebody removes the parts.

## Runs

| Run | Instance | Shows |
| --- | --- | --- |
| `KVPages_pages` | 1 key, 1 host and 1 disk slot, 2 ranks, 2 pages, 2 leases, 3 tickets, 1 batch; 93 thousand states | the pool passes its own checks, ready copies are written on every rank, sources are held, the last copy is kept, tickets finish late and in the end |
| `HostTier_tiers` | hybrid model with 2 or 3 host and 3 or 4 disk slots, repeated, long and forked prompts, a failing disk; attention-only model with forks, preemption and missing target blocks; a hybrid model with forks on a GPU whose freed blocks are written again; 485 thousand states | slots once each, copies right but for blocks given out again, busy rows held, plans right, demotion keeps a trajectory resumable, restores are answered |
| `ShmRing_queue` | 1 local and 1 remote reader, 2 chunks, 5 messages (one overflows, one enqueue may time out), faults and shutdown; 383 thousand states | readers see their message whole, the queue implements `Broadcast`, messages are delivered, the writer proceeds, shutdown wakes a local reader |
| `ExecutorRPC_calls` | 2 workers, 2 calls, asynchronous output, a failing call, a timeout, a death; 78 thousand states | responses are paired with their calls, futures resolve in order, callers return, deaths are reported |
| `AsyncSched_sched` | 3 requests with shared prefixes, blocks of 2 tokens, 5 or 6 blocks; a forced reset, deferred frees, drafts, no aborts, two pipeline stages; 327 thousand states | blocks accounted, cached KV right, in-flight blocks kept, outputs in order, frames counted, requests served and blocks returned |
| `EncoderCache_engines` | 3 requests with shared images in a cache of 3 or 4; asynchronous, look-ahead with whole items, quiet, synchronous; 271 thousand states | no cache miss, the worker's memory bounded, counters exact, requests served |
| `DPWaves_waves` | 2 or 3 engines, 1 or 2 front ends, 1 or 2 requests; replicated MoE, aborts, pauses in every mode, an all-reduce every second step; 344 thousand states | wake-ups arrive, waves align, paused engines are quiet, requests served |
| `FreeList_queue` | 5 blocks, splices of up to 2; 1,600 states | the list is sound both ways and implements `BlockQueue` |
| `Fetch_plans` | 2 files of 3 chunks, 4 faults; hashed and not, assembled and not, a server that changes them; 7,700 states | only complete files, and of hashed ones only the right version, are installed; fetching succeeds in the end |
| `HostTier_stale_plan` | violation | a restore can copy another conversation's block |
| `AsyncSched_priority` | violation | a block that is never written stays in the prefix cache |
| `DPWaves_pause_lost` | violation | engines sleep through a collective after a pause |

### Bounds

Resources are few so that they are contended; actors are as many as it takes to
disagree.

- `KVPages` has one slot per tier, for which two pages compete: that forces
  eviction, slot reuse and refusal. Three tickets are an offload, a writeback and
  one transfer more. Ids are never reused in the code, so their counters
  (`MaxPages`, `MaxLeases`, `MaxTickets`, `MaxBatches`) bound the run. The
  theorems have no such bounds on slots, keys and ranks.
- `HostTier`: a conversation needs a host slot per block and one for its tail, so
  two or three host slots make each new conversation reclaim an older one, and
  three or four disk slots let one be demoted while another is written through.
  `r2` repeats or forks `r1`'s prompt, `r3` needs room. `MaxBatch` bounds the
  requests of a step, `MaxPreemptions` the preemptions of a request. Freed blocks
  are written again in one configuration (`FullGPU`), which has the end of a
  request before its last save is copied; the others have `mayReuse` off, and in
  them `CopiesRight` has no exception.
- `ShmRing`: five messages go more than twice round a ring of two chunks, so the
  flags of an earlier lap are met. One local reader suffices for the lock-free
  protocol, since readers share nothing but the writer; the theorems are for any
  readers.
- `AsyncSched`: two running requests need more blocks than there are (one of the
  five or six is the null block), so they preempt each other; the budget of three tokens splits
  prompts; three requests let one be resumed while two others run.
- `EncoderCache`: the first request's images do not fit in the cache together, and
  the second has one of them twice.
  `MaxFull` bounds failures of `allocate_slots`.
- `DPWaves`: two requests are enough for one to end a wave while the other is on
  its way; the third engine adds one that is neither the first to wake nor the
  one that reports. Requests are sent in a fixed order. `SyncEvery` is 1 or 2
  where the code has 32.
- `ExecutorRPC`: a blocking call after a non-blocking one shows all pairings of
  responses; the failing call is the last (see the disagreements for why).
- `Fetch`: `MaxFaults` bounds kills, refusals and short transfers. Two versions
  are enough for one file to be of both; one process, since two of them on one
  `.part` are among the disagreements.

Runs whose instances come to rest (all requests served, all ids used) switch
deadlock checking off; `HostTier` and `FreeList` never stop and check it.

### Fairness

- `KVPages`: workers finish what they are given, and a finished ticket is
  acknowledged or completed, weakly fair per ticket or batch. Failures are
  allowed outcomes, so fairness does not mean success.
- `HostTier`: the copy stream runs, IO threads finish the reads of a restore, and
  the worker's reports arrive, because `start_load_kv` and `get_finished` run in
  every step and the engine keeps stepping while a request is unfinished.
  Nothing is assumed of the scheduler's choices.
- `ShmRing`: weak fairness of the writer's and each reader's steps, and strong
  fairness of a reader's turn to find nothing to read, since the recheck interval
  of `SpinCondition` always ends. Wake-ups may be lost for ever.
- `ExecutorRPC`: every thread of a living process runs.
- `AsyncSched`, `EncoderCache`: the engine loop runs and the worker finishes its
  steps, in configurations where clients neither abort nor reset (`Undisturbed`).
- `DPWaves`: every process runs, messages arrive, and an engine empties its input
  queue in every turn of its loop, which is why handling a message is strongly
  fair. Claimed in the configuration marked `live`. Clients owe no request.
- `Fetch`: a process that stopped is run again and the faults end.

## Proofs

TLAPS checks eight modules, one for each component that has theorems; together
that is about 27,000 obligations.
No theorem assumes more of the constants than the named assumptions of the module
it is about, which TLC evaluates on the instances above.

### KVPagesProofs

For all capacities, key sets, finite sets of ranks and bounds
(`CapacityAssumption`, `RanksAssumption`, `NoKeyAssumption`,
`BoundsAssumption`), `Spec` implies

- `TypeCorrect`: `[]TypeOK`;
- `SelfChecksHold`: `[]SelfChecks`, all that `check_invariants` asserts and that
  the RuntimeErrors are unreachable;
- `ReadyCopiesWritten`: `[]ReadyMeansWritten`; `SourcesHeld`: `[]SourceBytesHeld`;
- `BarrierBooks`: `[]BatchesOwnTickets`;
- `TicketsFinishLate`: `NoEarlyFinish`;
- `LeasedCopiesKept`: `LastCopyKept`, the last ready copy of a page with a
  reference is never dropped. It follows from the same invariant step by step:
  only making room and collecting drop copies, and the first needs another ready
  copy or no reference, the second no reference.

The properties are not inductive one by one. That a ready copy was written
depends on the acknowledgements being each rank's true outcome
(`BatchesOwnTickets`), on a ticket's destination staying its own
(`TicketsStable`), and on what a rank has reported `ok` still being in the slot;
the last is no property of the code's books and is the added conjunct
`IoMeansWritten`. That a pending ticket keeps its slots depends on pins being
exact counts (`CountsExact`), which is also why a page with a pending ticket is
never collected. `IInv` is the conjunction of all of them.

Most of the work is about `_finish` and `_collect`, which rewrite several pages
at once. They are proved on a predicate `Books` over an arbitrary page table,
lease table and ticket table: `FinishBooks` says that unpinning, publishing or
dropping the destinations of a set of tickets keeps the books, `CollectBooks`
that removing every page without references and pins does. Exactness of pins
and references rests on lemmas on the cardinality of finite sets. Each action
then has a lemma, `NextIInv` joins them, and the temporal theorems follow.

### ShmRingProofs

For any number of chunks, local and remote readers and messages
(`RingAssumption`), `Spec` implies

- `RingTypes`: `[]TypeOK`;
- `ReadsRight`: `[]ReadsItsMessage`, a reader inside a chunk sees the message
  that is its next one, whole, and the writer is elsewhere;
- `WriterBounded`: `[]WriterWaits`, the writer is at most the ring ahead of the
  slowest local reader;
- `RefinesBroadcast`: `ImplementsBroadcast`, that every step of ring and sockets
  is a step or a stutter of `Broadcast`, when no dequeue gives up between a chunk
  and its overflow message (`~LateOverflow`; the code allows it, with the
  consequence described below).

The invariant `RingInv` says where the two indices are (the number of chunks
passed, modulo the ring), that the writer is at most a ring ahead and less while
it holds a chunk, that an unread message is in its chunk with its flags in the
unread state, and that a chunk of the current lap a reader is done with is
marked read or being rewritten. The conjunct that makes it inductive is
`FlagFresh`: the reader loads the read flag and the written flag apart, and a
read flag loaded as "unread" must not meet a written flag of an earlier lap.
`SocketInv` adds what the sockets hold: exactly the messages a reader is due and
has not received, in order. Modular arithmetic (two of any `MaxChunks`
consecutive messages have different chunks) is proved in a few lemmas first.

### ExecutorRPCProofs

For any number of workers, calls and deaths and any choice of failing and timed
calls (`ExecutorAssumption`), `Spec` implies

- `RPCTypes`: `[]TypeOK`;
- `FuturesResolveInOrder`: `[]FuturesInOrder`;
- `MispairingsFollowAbandonment`: `[]PairedUnlessAbandoned`, a response reaches a
  call it does not answer only at a rank with an earlier call that failed, timed
  out or was dropped before the rank's response was taken;
- `ResponsesStayPaired`: `NoneAbandoned => ResponsesPaired` always, so that the
  pairing by order alone is right for as long as nothing is abandoned.

In the run only a death abandons a call that another follows, which with the first
rank as output rank does no harm; the theorems say for every instance that
abandonment is the only reason for a mismatch. The invariant
says of each rank that what is at the worker, in its output thread and in its
response queue are the calls of the rank in the order of the broadcast, without
gaps, and that a caller who waits for the rank is due exactly the first of them.

### FreeListProofs

For any number of blocks and any batch size (`ListAssumption`), `Spec` implies

- `ListKept`: there is always a sequence of distinct blocks whose links, count
  and shadow set are the ones kept;
- `LinksBothWays`: `[]BothWays`, the list ends, can be walked both ways, and
  `_check` never raises;
- `QueueImplemented`: `ImplementsQueue`, every method is the queue operation its
  callers expect.

The invariant of `ListKept` has the abstract list under an existential
quantifier; each method gives the list that witnesses it afterwards (`Append`,
`Tail`, removal by index, concatenation). That walking the links meets the blocks
of that list, in order, is an induction on the number of steps. The provers have no induction
rule that takes a predicate; `SetInduction` states it for the set of the numbers for
which a claim holds, from the existence of a least element.

### AsyncSchedProofs: the pool

For any set of prefixes, any cache groups and any hash size,
and any pool `p` over blocks `B` that is kept (`PoolKept`: the types, the free
queue that holds the blocks without a reference once each, the index and the
keys of the blocks that agree both ways):

- `NewPoolKept`: a new pool is kept;
- `NewBlocksExact`: `get_new_blocks(n)` refers once more to the first `n` blocks
  of the free queue, and to nothing else;
- `TouchExact`: `touch` refers once more to a block for every time it is named,
  and takes no more blocks out of the free queue than it found there;
- `FreeExactly`, `TablesFreed`: freeing takes back as many references as the
  tables have places of a block, provided there are that many;
- `PoolPromises`: a kept pool has the properties `AsyncSched` checks of one
  (`PoolType`, `FreeExact`, `IndexExact`);

and each of these leaves the pool kept. So do eviction, caching a block and
clearing the hashes (`EvictKept`, `InsertKept`, `ResetKept`), which leave the free
queue and the references alone.

The operators fold over sequences. A fold is proved about through its partial
results: `TakenSteps`, `TouchedSteps`, `DroppedSteps` and `FreeTableSteps` give
the sequence of the pools on the way, each made from the one before by one step,
and a claim about the last follows by `SetInduction` over the positions. What is
counted is the places of a block in sequences (`Places`, `AllPlaces`), so that a
block that a call names twice counts twice.

### AsyncSchedProofs: the scheduler

For any number of requests, any texts, block size and configurations
(`SchedAssumption`: caches of one group, prompts and outputs of at least a token
that the texts cover), with drafts, priorities, pipeline stages, deferred
frees, aborts and resets as the configurations say, `Spec` implies

- `SchedulerKept`: `[]IInv`, the inductive invariant;
- `ReferencesExact`: `[]BlocksAccounted`, every block is referred to as often as
  the tables and the deferred frees hold it, and the free queue and the hash
  index are exact;
- `FlightHeld`: `[](IInv /\ FlightInv)`, the invariant with the steps in flight;
- `BlocksInFlight`: `[]InFlightBlocksKept`, with deferred frees what a step in
  flight writes fits its blocks, and each of them keeps a reference until the
  step has run.

Of an exact pool alone nothing follows: that a caller frees only what it holds,
and allocates only what is free, depends on the scheduler. `IInv` says of it

- `PoolInv`: the pool is kept, and its references are the places of a block in the
  tables and in the deferred frees. A request's table names no block that it does
  not hold, so a free never takes back more than there is;
- `ListInv`: a request is in the list of its status, once. A victim is therefore
  taken out of `running` and put into `waiting` once, and a reset frees each
  table once;
- `CountInv`: the computed tokens of a request that is not finished are covered by
  its table, and they are tokens it has or expects as placeholders. Caching full
  blocks stays within the table and the text because of it: without it
  `cache_full_blocks` could be asked for a block that the table does not have;
- `BatchInv`: a frame of the step being scheduled belongs to a running request,
  starts where its computed tokens end and fits its table. It is needed at the end
  of `schedule()`, which advances all the computed tokens at once, after frames of
  preempted requests have been withdrawn;
- `FrameInv`, `NumberInv`: the types of steps, results and counts;
- `TurnInv`: the request that blocks are still asked for after a preemption is
  still running.

`InFlightBlocksKept` does not follow from exact references: that the holder of a
block is still there when the step runs depends on the fences. `FlightInv` says
how. Steps in flight are ranked by counting the non-empty ones up to each, which
is what a fence counts down. A frame fits its blocks (`Sized`), and its blocks
are held in one of two places (`Kept`): in the table of its request, whose
`lastSeq` is then at least the frame's rank, or in a deferred free whose fence is.

- With deferred frees a table is freed at once only when `lastSeq` of its request
  is 0, and then it holds for no frame in flight. Otherwise it is put behind all the steps in
  flight (`StillHeld`), and what was held by the table is held by the free.
- A result that arrives lowers every rank, every `lastSeq` and every fence by one,
  unless its step was empty, when it lowers none. A free is drained at fence 0,
  below the rank of any step left.
- While a step is being scheduled a table only grows, and a frame that is
  withdrawn by a preemption leaves the step before its rank is given out.

A step that updates a request assumes what the code asserts, that placeholders
do not become negative; that the assertion holds in the configurations checked
is the second part of `FramesCounted`, which is not proved (see below).

### HostTierProofs

For any capacities, requests and conversations of finite length (`TierCapacity`,
`FiniteChains`), any order of completions and any failures of the disk, `Spec`
implies

- `TierKept`: `[]Inv`, the inductive invariant;
- `SlotsStayOnce`: `[](HostOnlyIfPartial => SlotsOnce)`;
- `RowsStayHeld`: `[](HostOnlyIfPartial => BusyRowsHeld)`;
- `BatchesReported`: `[](HostOnlyIfPartial => ReportsFound)`, what the worker
  reports as written is a batch the scheduler still has, with all its writes in
  flight.

`HostOnlyIfPartial` says that a model without state groups, for which partial
prefixes are resumed, has no disk tier. Without it the properties are false: the
suffix that `_ensure_position` supersedes is freed although its rows are being
written to disk (the row on `BusyRowsHeld` in the table below). For models with
state groups nothing is assumed.

That each slot has one place says nothing of an operation that frees: it
must know that what it frees is not free already. `IndexOK` therefore says more:

- `HostParted`, `DiskParted`: the free list, the orphans and the slots that each
  trajectory holds are disjoint and together all there are; the free lists name no
  slot twice (`ListsOK`), and no trajectory uses a slot at two places (`Once`);
- `PendingOK`: a slot that is entered as being written is not free, and an orphan
  is entered as being written or read. A row an IO thread reads is not free,
  which is `BusyRowsHeld`;
- `WritesOK`: a disk write in flight goes from a row that is an orphan to a disk
  slot that is one, or the two are still the copies of one block. Hence a
  completion, however late, finds the pair it is about or two orphans, never the
  row's next user;
- `TailOK`: a tail that is not settled is being written, or read from the disk.

Within a step the slots an operation has taken and not yet given to anybody are
in neither place; the second and third argument of `IndexOK` are these slots, so
that each operator of `TierIndex` (allocate, place, supersede, retire, demote,
promote, roll back, confirm) has a lemma of its own from which the next
starts. Staging, promotion and lookup fold over positions; as for the pool, each
fold has its sequence of partial results.

`BatchesReported` needs the worker's side: `Batched` says that unconfirmed batches
hold disjoint sets of writes in flight, and `Counted` that an unfinished batch
counts the operations left of it. So a batch is reported once, after its last
write, and no write it confirms is a later one of the same slots.

One thing the proof brought up: when a tail whose offload is pending is
superseded, `stage_tail_states` drops the disk write that was to follow
(`kv_tier_index.py:434`) and makes its disk slot an orphan until that write
reports (`:445`), which it never does. The slot stays an orphan for good. It has
one place all the while, so `SlotsOnce` holds.

### EncoderCacheProofs

For any requests, items, sizes, budgets and depths (`RequestAssumption`),
under any order of schedules, preemptions, aborts, resets and results, `Spec` implies

- `SlotsStayExact`: `[](~EncDec => SlotsExact)`, the manager's two counters are
  what the cached and the freeable items leave;
- `OutputsStayBounded`: `[](~EncDec => MemoryBounded)`, the tensors the worker
  holds fit the cache;
- `NeverMisses`: `[](~EncDec /\ ~ByPriority => NoMiss)`, no step reads an output
  that the worker does not have.

The hypotheses are needed. The encoder-decoder manager (`EncDec`) gives slots back
more than once, and under the priority policy a step can miss an output: both are
rows of the table below.

`CacheInv` holds under both policies.

- `Books`: the counters, the freeable list, and that an item is referenced by
  unfinished requests only and under an identifier they have. `SlotsExact` is
  not inductive without the last: `free` gives back what `cached_input_ids` says,
  and a reference it does not say would stay for ever.
- `QueuesRight`, `PhasesRight`, `BatchRight`, `StepsRight`: requests are in the
  queue of their status, the plan is for a running request and has room
  (`RoomFor`: what `can_allocate` found free is still free when `allocate` is
  called, whatever a preemption gave back in between), and what a request of the batch
  encodes it references.
- `WorkerFits`: what the worker holds now and what it will hold after each step in
  flight fits the cache, and what it will hold in the end is accounted for: it is
  cached by the manager, or evicted and about to be told (`freed`). `MemoryBounded`
  is its first case. That the manager evicts at once while the worker drops with
  a later step is harmless because a step's list of evictions travels with the
  encodings that need their room.

`OutputsInv` is for the FCFS policy and is what `NoMiss` needs. Every item in the
window of a frame is referenced by its request or planned for it (`PlanCovers`,
`BatchCovered`), so that nothing evicts it. What is cached will be on the worker
after the steps in flight and the step being built (`WorkerFollows`); a preemption
that took back a frame of that step would break this, and `BatchBefore` says there
is none: the batch's requests come before the one blocks are asked for, and the
victim after it.

The proofs brought up two things the model had left unsaid: that a prompt's items
are sorted by position, which `get_mm_features_in_window` relies on and
`RequestAssumption` now states, and whose plan `plan` is after a preemption, which
under the priority policy need not be the request at `running[idx]`.

### DPWavesProofs

For every deployment (`WavesAssumption`: at least two engines, and requests go to
front ends and engines that exist), `Spec` implies

- `WavesKept`: `[]Inv`, the inductive invariant;
- `WavesStayAligned`: `[]WavesAlign`;
- `PausesStayQuiet`: `[]PausedQuiet`;
- `NoWakeupLost`: `[]WakeupsArrive`, which is about deployments that were never
  paused (what happens after a pause is the third disagreement below).

`Inv` has four parts besides the types.

- `WavesAgree`: all engines are in the same wave `Now`, if one that the
  all-reduce has told of its end counts as being past it; the coordinator, the
  front ends and every message are in that wave or an earlier one. Engines do
  change their wave apart, but only after the step that ends it for all.
- `StepsAgree`: engines that run forward passes together have the same step
  counter. With `WavesAgree` this is `WavesAlign`.
- `PauseInv`, per engine: which states can go with a pause that is being waited
  for (`Settling`), and where the engine is in a pause and in the resume after it
  (`Phase`): at most one such call is on its way to it, and once it has answered
  it is quiet.
- `WakeInv`, while nobody has paused: an engine that is awake is so in a wave that
  the coordinator has started or will hear of (`Woken`: a start message from an
  engine or a notice from a front end is on its way); when the coordinator has
  started it every engine runs or has the start on its way (`Told`); an engine's
  notice means that it runs itself; and no front end takes a wave for started
  that is not. The last three are not in the property, and without them a front end's
  silence about a request to "running" engines could not be excused.

### Only model-checked

Liveness, for all modules (fairness and ENABLED are out of the prover's reach).
`InstalledRight` of `Fetch`. The encoder-decoder manager of `EncoderCache` has neither a
theorem nor a passing run: the table below says what its counter does.
`CachedRight`, `OutputsInOrder` and `FramesCounted` of `AsyncSched`: they relate
the steps in flight to what the worker's memory holds and to the placeholders,
of which the invariants have only the types so far; `FramesCounted` is moreover
not true of every configuration (see the table below), and neither is that the
computed tokens stay at zero or above, which is why `CountInv` takes them as integers.
`CopiesRight` of `HostTier`: it needs, besides the books that `HostTierProofs` is
about, what every operation on the copy stream will find in the block or slot it
reads when its turn comes.

## Disagreements between the code and what it says of itself

Three are runs of the project:

1. `HostTier_stale_plan`: a restore plan does not hold its slots. The index
   module's head says hash comparison at lookup guards correctness; the plan is
   used after the lookup, and offloads of the same step are issued before it.
2. `AsyncSched_priority`: under the priority policy a request already scheduled
   in this step can be preempted for a later one. Its tokens leave the step, but
   `allocate_slots` has entered the hashes of the blocks they would have filled;
   a later request with the same prefix is served from a block nobody wrote
   (`scheduler.py:619-642`; `block_pool.py:42-43`, "A cached block is a full
   block").
3. `DPWaves_pause_lost`: paused engines ignore START_DP_WAVE, but the coordinator
   has noted them as running. If the request that caused it is aborted, nobody
   ever tells the coordinator otherwise, and the next request wakes only its own
   engine (`core.py:2055`; `coordinator.py:37`, "The engines alternate between a
   global running/paused state").

Two more limit what the passing runs may claim:

- `HostTier!CopiesHold`, with `Configs = {FullGPU}`: an offload reads its GPU block
  when the copy stream gets to it. The end of the request frees the block at once,
  compute is not fenced against offloads, and the index takes the copy for written
  one step later whatever the stream has done (`kv_tier_dma.py:376-380`, `:410-422`;
  `host_tier_connector.py:1324-1326`, "the copy stream waits on compute, so
  pre-forward issuance is safe"; `:18-19`, "blocks stay alive until the worker
  reports the save complete"). TLC needs six states: a request's block is filled
  and its save queued, the request ends, the next one is given the block and
  computes, and the build after that settles the slot. State blocks are pinned,
  but only until the build after the one that issues their save. `base.py:285-289`
  has a hook for this, `handle_preemptions`, which the connector does not
  implement. `CopiesRight`, in the passing run, says what is true: the reuse of
  its block is all that can go wrong with a copy.
- `Fetch!OneVersion`, with `Plans = {Unhashed}`, one file of two chunks and
  `MaxFaults = 1`: a file without a hash is resumed with a plain Range request
  (no If-Range, no ETag), so a `.part` begun on one version is completed from
  another, has the right length, and is installed and valid from then on
  (`fetch.py:278-302`, `:324-325`; `:5-6`, "Every download is resumable and
  idempotent"; `:296`, "start over rather than corrupt the file"). Most entries
  of `profiles.json` have no hash and its URLs name the branch `main`.
  `InstalledRight`, in the passing run, whose server changes files without a
  hash too, claims that every chunk is in its place, and one version only of
  hashed files.

Further disagreements, each reproduced by replacing constants of a run as given
(record names are those of the `MC` modules):

| Property | Constants | What happens |
| --- | --- | --- |
| `HostTier!CopiesHold` | `Configs = {[Failing EXCEPT !.recompute = FALSE]}` | A failed disk read still confirms the promotion: slots never filled count as copies (`host_tier_connector.py:1032`; `kv_tier_index.py:697`). |
| `HostTier!CopiesRight` | `{[Partial EXCEPT !.v1Runner = TRUE]}` | With the V1 model runner a request resumed after a preemption is among `scheduled_cached_reqs` with its whole table, by which `group_blocks`, set to the whole table at its admission, is extended: later blocks are saved from the blocks of earlier positions (`host_tier_connector.py:883`; `:695`, "Full current allocation; keep nulls (-1) to preserve positions"; `scheduler.py:1103-1130`). |
| `HostTier!RestoreResolves` | `{[Failing EXCEPT !.hasRing = FALSE]}` | A failed read without ring groups leaves nothing on the stream and is never reported (`kv_tier_dma.py:332`; `:328-329`). |
| `HostTier!BusyRowsHeld`, `DiskSlotsOnce` | `{[Hybrid EXCEPT !.numHost = 4, !.numDisk = 4, !.chain = ForkedPrompt, !.attentionOnly = TRUE, !.maxBatch = 2]}` | Superseding a suffix frees a busy host row, and frees a disk slot twice (`kv_tier_index.py:308`, `:341`; `:600-601` and `test_kv_tier_index_disk.py:227`). |
| `AsyncSched!PrefillsReturnEmpty` | `Requests = {1, 2}`, `{[Pipelined EXCEPT !.numBlocks = 4, !.maxResets = 0]}` | A request resumed while its own frame is in flight is taken for a prefill by the scheduler and sampled by the worker (`scheduler.py:2042-2044`). |
| `AsyncSched!TypeOK` | `Requests = {1, 2}`, `{[Drafting EXCEPT !.prompt = <<1, 1, 1>>, !.maxTokens = <<6, 6, 6>>, !.numBlocks = 9, !.budget = 6, !.ppSize = 2, !.drafts = 3]}` | A request preempted for want of blocks while a step with its drafts is in flight, and admitted again before that step's result, has the rejected drafts taken from its new count of computed tokens, which falls below zero; only forced resets are guarded against it (`scheduler.py:1718`; `:1701-1702`). |
| `AsyncSched!FramesCounted` | `Requests = {1}`, `{[Drafting EXCEPT !.maxResets = 1]}`, or `{[Pipelined EXCEPT !.maxResets = 2]}` | Frames to discard are set to a count of tokens, and overwritten by a second reset (`scheduler.py:2386`; `:2380-2382`). |
| `AsyncSched!ResetSucceeds` | `Requests = {1}`, `{[Quiet EXCEPT !.maxResets = 1]}` | With deferred frees a forced reset finds blocks in use (`scheduler.py:2294`; `:2373-2374`). |
| `EncoderCache!NoMiss` | `Requests = {1, 2}`, `Async` with `byPriority`, without aborts and resets, features `<<<<Item(0,"a"), Item(2,"d"), Item(4,"b")>>, <<Item(0,"c"), Item(1,"b")>>>>`, cache 5, budget 6 | A request preempted in the step that scheduled its image leaves the image cached although nobody encodes it (`scheduler.py:631`; `:1490-1491`). |
| `EncoderCache!Served` | `Requests = {1}`, `{[Quiet EXCEPT !.eagle = TRUE, !.maxFull = 0]}` | With look-ahead the last token of an image waits for the next image, which waits for its room (`scheduler.py:1517`; `:1428-1430`). |
| `EncoderCache!Served` | the same with `wholeItems`, budget 2, features `<<<<Item(2, "b")>>>>` | An unsplittable item as long as the budget never fits with the look-ahead (`scheduler.py:1496`; `encoder_cache_manager.py:302-310`). |
| `EncoderCache!FreeWithinSize` | `Requests = {1}`, `{[Async EXCEPT !.encDec = TRUE, !.features = <<<<Item(0, "a")>>>>]}` | The encoder-decoder manager gives slots back at every output (`encoder_cache_manager.py:383`; `:54`). |
| `ShmRing!InOrder` | `LateOverflow = TRUE`, `Overflowing = {1, 3}`, `MaxMsgs = 3`, no shutdowns | A dequeue that times out between a chunk and its overflow message shifts all later overflow messages (`shm_broadcast.py:793`; `:231`). |
| `ShmRing!ShutdownWakes` | `Shutdowns = {q}`, `MaxMsgs = 1` | A remote reader is not woken by shutdown (`shm_broadcast.py:550`; `:547`). |
| `ExecutorRPC!ResponsesPaired` | `CallsFail = {1}` | After a failure on one worker the others' responses stay and the next call takes them (`multiproc_executor.py:408`; `abstract.py:179`). |
| `ExecutorRPC!ResponsesPaired` | `N = 2, Output = 2`, `CallsFail = {}, Timed = {}`, `MaxCalls = 3, MaxDeaths = 1` | With a pipeline the output rank is not the first: a call to all ranks that ends at rank 1's death leaves rank 2's response, which the next call for the output rank takes (`multiproc_executor.py:408`; `abstract.py:179`). |
| `ExecutorRPC!ResultsFromEachWorker` | `CallsFail = {}` | A call sent just before the monitor drops the queues returns an empty list (`multiproc_executor.py:394`, `:505`; `abstract.py:179`). |
| `Fetch!PartsRemoved` | `Plans = {Unhashed}`, `NumChunks = 2`, `MaxFaults = 3` | A kill between the unlinks leaves parts no later run removes (`fetch.py:340`; `profiles.json:348`). |
| `Fetch!ReadyMeansPresent`, `InstalledRight` | two processes, one file, `{[Unhashed EXCEPT !.assembly = FALSE]}`, `NumChunks = 2`, `MaxFaults = 3` | Two processes append to one `.part`, and a file of the wrong size is installed (`fetch.py:319`; `:389`). |

The passing runs leave these out only by configuration, or check what holds in
spite of them.

## Not modelled, and why

- Model code, kernels, quantisation, attention backends, the model runner's
  tensors and most of the 588 thousand lines of the repository: numeric code,
  about which a model checker has nothing to say.
- In `HostTier`: main-KV homes and residency, groups wider than the hash block,
  several ranks (disk completions are counted, not attributed, over ranks at
  `host_tier_connector.py:1024`), digests. A request aborted between `promote`
  and its restore leaves its owner in `_promotions` (`kv_tier_index.py:702`) and
  a batch with a failed write is never reported (`kv_tier_dma.py:310`): both are
  in the model, and no property forbids them.
- In the scheduler: hybrid coordinators, sliding-window and Mamba managers,
  partial-block copies, LoRA limits, structured output, streaming input, pooling.
- The Metal variant of the tier, which repeats most of the CUDA one.
- The fault-tolerance sentinel (an external supervisor decides), the output
  processor and transport, the Ray and uniprocess executors, process start-up.
- Multimodal processor cache and shared-memory object store, expert-parallel
  balancing and elastic scaling, weight transfer and sleep mode: not reached.
- Structured-output backends, speculative proposers: external or numeric; the
  scheduler sees the number of accepted tokens, which `AsyncSched` leaves free.
- Profiles, chat, command line, weight conversion: configuration, input and
  output.

## Plan

1. Proofs: `CachedRight` of `AsyncSched`, from `FlightInv` and what the worker
   has written of each block; `CopiesRight` of `HostTier`; `InstalledRight` of `Fetch`.
2. Mirrored multimodal caches (`vllm/multimodal/cache.py`): that front end and
   engine evict the same items.
3. Main-KV slots with residency and several ranks in `HostTier`.
4. The hybrid coordinator and the sliding-window manager over `BlockPool`.
