---------------------------- MODULE EncoderCache ----------------------------
(***************************************************************************)
(* The encoder cache: EncoderCacheManager (encoder_cache_manager.py), the  *)
(* part of the scheduler that plans encoder inputs, and the worker's cache *)
(* of encoder outputs, which follows the manager by the freed hashes and   *)
(* the scheduled inputs of each step. Steps are sent ahead of their        *)
(* results, so the manager's books are up to Depth steps ahead of the      *)
(* worker's tensors.                                                       *)
(*                                                                         *)
(* schedule() is split at the requests it visits; phase keeps everything   *)
(* else out meanwhile. Whether KV blocks can be had, and how much of a     *)
(* prompt the prefix cache holds, is left open. Requests produce one       *)
(* token, so their computed tokens are those of the prompt.                *)
(***************************************************************************)
EXTENDS Lists, FiniteSets, FiniteSetsExt

CONSTANTS Requests,      \* 1..n, in the order of arrival_time
          Size,          \* of a hash: tokens and embeddings of the item
          Configs        \* the configurations to check: records of the fields below

Hashes == DOMAIN Size
\* The slots that hashes take in the cache, and their number.
Slots(hs) == UNION {{h} \X (1..Size[h]) : h \in hs}
Sizes(hs) == Cardinality(Slots(hs))

\* Requests are numbered as they arrive; a prompt's items are sorted by position.
ASSUME RequestAssumption ==
    /\ Requests \subseteq Nat
    /\ Size \in [DOMAIN Size -> Nat \ {0}]
    /\ \A c \in Configs :
        /\ c.prefixHits \subseteq Nat /\ c.cacheSize \in Nat /\ c.computeBudget \in Nat
        /\ \A r \in Requests :
              /\ c.prompt[r] \in Nat /\ c.priority[r] \in Int
              /\ c.features[r] \in Seq([at : Nat, hash : DOMAIN Size])
              /\ \A i, j \in DOMAIN c.features[r] :
                    i < j => c.features[r][i].at <= c.features[r][j].at

\* compute_mm_encoder_budget; the batch queue holds at most two steps here.
ASSUME BudgetAssumption ==
    \A c \in Configs :
        /\ c.depth \in {1, 2} /\ c.budget \in Nat \ {0}
        /\ c.maxFull \in Nat /\ c.maxResets \in Nat
        /\ \A h \in Hashes : Size[h] \in 1..c.cacheSize /\ Size[h] <= c.computeBudget
        /\ c.wholeItems => \A h \in Hashes : Size[h] <= c.budget

VARIABLES
    config,    \* how the engine and its requests are set up; never changes
    phase,     \* "idle", "running", "waiting", "process"
    idx, tokens, compute, batch,               \* locals of schedule()
    closed,    \* no waiting request is admitted any more in this step
    plan,      \* the request blocks are asked for, and what
               \* _try_schedule_encoder_inputs gave it
    queue, ran,                                \* steps in flight, those executed
    running, waiting, status, computed,
    mgr,       \* the EncoderCacheManager
    outputs,   \* hashes of the worker's encoder_outputs
    full, resets

schedVars == <<idx, tokens, compute, batch, closed, plan>>
reqVars == <<running, waiting, status, computed>>
vars == <<config, phase, schedVars, queue, ran, reqVars, mgr, outputs, full, resets>>

Prompt == config.prompt
Priority == config.priority
Features == config.features            \* mm_features: [at, hash], by position
CacheSize == config.cacheSize          \* encoder_cache_size
ComputeBudget == config.computeBudget  \* max_num_encoder_input_tokens
Budget == config.budget                \* max_num_scheduled_tokens
Depth == config.depth                  \* max_concurrent_batches
PrefixHits == config.prefixHits        \* lengths of prefix cache hits
ByPriority == config.byPriority        \* policy is PRIORITY, not FCFS
Eagle == config.eagle                  \* use_eagle
WholeItems == config.wholeItems        \* disable_chunked_mm_input
EncDec == config.encDec                \* is_encoder_decoder
Aborts == config.aborts                \* clients may abort
MaxFull == config.maxFull              \* bound on the failures of allocate_slots
MaxResets == config.maxResets          \* bound on calls of reset_encoder_cache
Shift == IF Eagle THEN 1 ELSE 0

NoPlan == [req |-> 0, n |-> 0, inputs |-> <<>>, budget |-> 0]
EmptyManager == [cached |-> {}, refs |-> [h \in Hashes |-> {}],
                 ids |-> [r \in Requests |-> {}],     \* request_cached_ids
                 freeable |-> <<>>, freed |-> {}, allocated |-> {},
                 free |-> CacheSize, spare |-> CacheSize]   \* num_freeable_slots

Init ==
    /\ config \in Configs
    /\ phase = "idle" /\ idx = 1 /\ tokens = 0 /\ compute = 0
    /\ batch = <<>> /\ closed = FALSE /\ plan = NoPlan
    /\ queue = <<>> /\ ran = 0 /\ running = <<>> /\ waiting = <<>>
    /\ status = [r \in Requests |-> "new"]
    /\ computed = [r \in Requests |-> 0]
    /\ mgr = EmptyManager /\ outputs = {}
    /\ full = 0 /\ resets = 0

-----------------------------------------------------------------------------
(* EncoderCacheManager, or EncoderDecoderCacheManager.                     *)

HashOf(r, i) == Features[r][i].hash
From(r, i) == Features[r][i].at
To(r, i) == From(r, i) + Size[HashOf(r, i)]
Items(r) == [i \in DOMAIN Features[r] |-> i]

\* check_and_update_cache of a cached hash.
\* mutant: the entry stays freeable
ReferenceKeeping(m, r, i) ==
    [m EXCEPT !.refs[HashOf(r, i)] = @ \cup {r}, !.ids[r] = @ \cup {i}]
Reference(m, r, i) ==
    LET h == HashOf(r, i)
        idle == m.refs[h] = {}
    IN  [m EXCEPT !.freeable = IF idle THEN Without(@, h) ELSE @,
                  !.spare = @ - (IF idle THEN Size[h] ELSE 0),
                  !.refs[h] = @ \cup {r}, !.ids[r] = @ \cup {i}]

CanAllocate(m, h, budget, planned) ==
    Size[h] <= budget /\ Size[h] + planned <= (IF EncDec THEN m.free ELSE m.spare)

\* can_allocate evicts the oldest freeable entries until the new ones fit.
\* mutant: the worker is not told
EvictSilently(m, gone, k) ==
    [m EXCEPT !.cached = @ \ gone, !.free = @ + Sizes(gone),
              !.freeable = SubSeq(@, k + 1, Len(@))]
Evict(m, gone, k) ==
    [m EXCEPT !.cached = @ \ gone, !.free = @ + Sizes(gone), !.freed = @ \cup gone,
              !.freeable = SubSeq(@, k + 1, Len(@))]
MakeRoom(m, need) ==
    LET first(k) == Range(SubSeq(m.freeable, 1, k))
        count == Min({k \in 0..Len(m.freeable) : m.free + Sizes(first(k)) >= need})
    IN  Evict(m, first(count), count)

Allocate(m, r, i) ==
    LET h == HashOf(r, i)
    IN  IF EncDec THEN [m EXCEPT !.free = @ - Size[h], !.allocated = @ \cup {h}]
        ELSE [m EXCEPT !.cached = @ \cup {h}, !.refs[h] = @ \cup {r}, !.ids[r] = @ \cup {i},
                       !.free = @ - Size[h], !.spare = @ - Size[h]]

\* get_freed_mm_hashes; an encoder-decoder model drops what it has used one step
\* after the step that encoded it.
TakeFreed(m) == [m EXCEPT !.freed = m.allocated, !.allocated = {}]

\* get_cached_input_ids
CachedIds(m, r) == IF EncDec THEN DOMAIN Features[r] ELSE m.ids[r]

\* free_encoder_input; a second item with the same hash finds nothing to give up.
\* mutant: the entry becomes freeable again
FreesAlways(m, r, i) == m.refs[HashOf(r, i)] \subseteq {r}
Frees(m, r, i) == m.refs[HashOf(r, i)] = {r}
FreeInput(m, r, i) ==
    LET h == HashOf(r, i)
    IN  IF EncDec THEN [m EXCEPT !.free = @ + Size[h]]
        ELSE [m EXCEPT !.ids[r] = @ \ {i}, !.refs[h] = @ \ {r},
                       !.freeable = IF Frees(m, r, i) THEN Append(@, h) ELSE @,
                       !.spare = @ + (IF Frees(m, r, i) THEN Size[h] ELSE 0)]
FreeInputs(m, r, is) ==
    FoldLeft(LAMBDA x, i : IF i \in is THEN FreeInput(x, r, i) ELSE x, m, Items(r))
Free(m, r) == FreeInputs(m, r, CachedIds(m, r))

-----------------------------------------------------------------------------
(* _try_schedule_encoder_inputs, for n tokens of r after the first c.      *)

\* get_mm_features_in_window
Window(r, a, b) == {i \in DOMAIN Features[r] : To(r, i) > a /\ From(r, i) < b}

Stop(acc, n) == [acc EXCEPT !.stopped = TRUE, !.n = n]

\* An item that is neither cached nor planned: no part of it may be scheduled
\* unless all of it can be, and fits.
PlanNew(acc, r, i, c) ==
    LET h == HashOf(r, i)
        at == From(r, i)
        ready == [acc EXCEPT !.m = IF EncDec THEN @ ELSE MakeRoom(@, Size[h] + acc.planned)]
    IN  IF WholeItems /\ c < at /\ c + acc.n < To(r, i)
        THEN Stop(acc, Max({0, at - (c + Shift)}))
        ELSE IF ~CanAllocate(acc.m, h, acc.budget, acc.planned)
        THEN Stop(acc, IF c + Shift < at THEN at - (c + Shift) ELSE 0)
        ELSE IF Min({To(r, i), c + acc.n}) <= Max({at, c})
        THEN ready                     \* nothing of it in the range
        ELSE [ready EXCEPT !.planned = @ + Size[h], !.budget = @ - Size[h],
                           !.inputs = Append(@, i)]

PlanItem(acc, r, i, c) ==
    IF acc.stopped \/ (EncDec /\ c > 0) THEN acc
    ELSE IF EncDec THEN PlanNew(acc, r, i, c)
    ELSE IF \E j \in Range(acc.inputs) : HashOf(r, j) = HashOf(r, i) THEN acc
    ELSE IF HashOf(r, i) \in acc.m.cached
    THEN [acc EXCEPT !.m = Reference(@, r, i)]
    ELSE PlanNew(acc, r, i, c)

TrySchedule(r, c, n) ==
    LET none == [m |-> mgr, n |-> n, inputs |-> <<>>, budget |-> compute,
                 planned |-> 0, stopped |-> FALSE]
        items == IF EncDec THEN {i \in DOMAIN Features[r] : From(r, i) < c + n + Shift}
                           ELSE Window(r, c, c + n + Shift)
    IN  IF n = 0 THEN none
        ELSE FoldLeft(LAMBDA acc, i : IF i \in items THEN PlanItem(acc, r, i, c) ELSE acc,
                      none, Items(r))

-----------------------------------------------------------------------------
(* schedule().                                                             *)

Unfinished == {r \in Requests : status[r] \in {"waiting", "running"}}
Less(r, q) == Priority[r] < Priority[q] \/ (Priority[r] = Priority[q] /\ r < q)
Victim == IF ByPriority
          THEN CHOOSE v \in Range(running) : \A q \in Range(running) : q = v \/ Less(q, v)
          ELSE Last(running)
\* The waiting queue: FCFS in front, or the order of the heap.
Prepended(w, r) ==
    IF ByPriority
    THEN LET sooner == {q \in Range(w) : Less(q, r)}
         IN  Filter(w, sooner) \o <<r>> \o Filter(w, Range(w) \ sooner)
    ELSE <<r>> \o w

BeginSchedule ==
    /\ phase = "idle" /\ Unfinished # {}
    /\ phase' = "running" /\ idx' = 1 /\ tokens' = Budget /\ compute' = ComputeBudget
    /\ batch' = <<>> /\ closed' = FALSE /\ plan' = NoPlan
    /\ UNCHANGED <<config, queue, ran, reqVars, mgr, outputs, full, resets>>

InLoop == phase = "running" /\ idx <= Len(running) /\ tokens > 0

\* Encoder inputs are planned before KV blocks are asked for; a request left
\* with no token is passed over.
PlanRunning ==
    /\ InLoop /\ plan = NoPlan
    /\ LET r == running[idx]
       IN  \E t \in {TrySchedule(r, computed[r], Min({Prompt[r] - computed[r], tokens}))} :
             /\ mgr' = t.m
             /\ plan' = IF t.n = 0 THEN NoPlan
                        ELSE [req |-> r, n |-> t.n, inputs |-> t.inputs, budget |-> t.budget]
             /\ idx' = IF t.n = 0 THEN idx + 1 ELSE idx
    /\ UNCHANGED <<config, phase, tokens, compute, batch, closed, queue, ran, reqVars,
                   outputs, full, resets>>

Frame(r, c, n, inputs) == [req |-> r, from |-> c, to |-> c + n, inputs |-> inputs]
AllocateAll(m, r, inputs) == FoldLeft(LAMBDA x, i : Allocate(x, r, i), m, inputs)

ScheduleRunning ==
    /\ phase = "running" /\ plan # NoPlan
    /\ LET r == plan.req
       IN  /\ batch' = Append(batch, Frame(r, computed[r], plan.n, plan.inputs))
           /\ mgr' = AllocateAll(mgr, r, plan.inputs)
    /\ tokens' = tokens - plan.n
    /\ compute' = IF plan.inputs = <<>> THEN compute ELSE plan.budget
    /\ plan' = NoPlan /\ idx' = idx + 1
    /\ UNCHANGED <<config, phase, closed, queue, ran, reqVars, outputs, full, resets>>

\* No KV blocks: a victim is preempted, and what this step had planned for it
\* is taken back.
PreemptFor ==
    /\ phase = "running" /\ plan # NoPlan /\ full < MaxFull
    /\ LET v == Victim
           mine == {f \in Range(batch) : f.req = v}
           back == IF mine = {} THEN Frame(v, 0, 0, <<>>) ELSE CHOOSE f \in mine : TRUE
       IN  /\ running' = Without(running, v) /\ waiting' = Prepended(waiting, v)
           /\ status' = [status EXCEPT ![v] = "waiting"]
           /\ computed' = [computed EXCEPT ![v] = 0]
           /\ mgr' = Free(mgr, v)
           /\ batch' = Filter(batch, Range(batch) \ mine)
           /\ tokens' = tokens + back.to - back.from
           /\ compute' = compute + Sizes({HashOf(v, i) : i \in Range(back.inputs)})
           /\ idx' = IF mine # {} THEN idx - 1 ELSE idx
           /\ IF v = plan.req THEN phase' = "waiting" /\ plan' = NoPlan
                                  ELSE UNCHANGED <<phase, plan>>
    /\ closed' = TRUE /\ full' = full + 1
    /\ UNCHANGED <<config, queue, ran, outputs, resets>>

EndRunning ==
    /\ phase = "running" /\ ~InLoop /\ plan = NoPlan
    /\ phase' = "waiting"
    /\ UNCHANGED <<config, schedVars, queue, ran, reqVars, mgr, outputs, full, resets>>

\* The head of the waiting queue. It is the end of schedule() when no token is
\* left for it, or no KV block; only in the second case are the references it
\* took given back.
Admit ==
    /\ phase = "waiting" /\ ~closed /\ waiting # <<>> /\ tokens > 0
    /\ \E r \in {Head(waiting)} : \E c \in {x \in PrefixHits : x < Prompt[r]} :
         \E t \in {TrySchedule(r, c, Min({Prompt[r] - c, tokens}))} :
           \/ /\ t.n = 0
              /\ mgr' = t.m /\ closed' = TRUE
              /\ UNCHANGED <<tokens, compute, batch, reqVars, full>>
           \/ /\ t.n > 0 /\ full < MaxFull
              /\ mgr' = Free(t.m, r) /\ closed' = TRUE /\ full' = full + 1
              /\ UNCHANGED <<tokens, compute, batch, reqVars>>
           \/ /\ t.n > 0
              /\ batch' = Append(batch, Frame(r, c, t.n, t.inputs))
              /\ mgr' = AllocateAll(t.m, r, t.inputs)
              /\ tokens' = tokens - t.n
              /\ compute' = IF t.inputs = <<>> THEN compute ELSE t.budget
              /\ computed' = [computed EXCEPT ![r] = c]
              /\ status' = [status EXCEPT ![r] = "running"]
              /\ running' = Append(running, r) /\ waiting' = Tail(waiting)
              /\ UNCHANGED <<closed, full>>
    /\ UNCHANGED <<config, phase, idx, plan, queue, ran, outputs, resets>>

\* The step takes along the hashes freed since the last one.
EndSchedule ==
    /\ phase = "waiting" /\ (closed \/ waiting = <<>> \/ tokens = 0)
    /\ LET FrameOf(r) == {f \in Range(batch) : f.req = r}
       IN  computed' = [r \in Requests |-> IF FrameOf(r) = {} THEN computed[r]
                                           ELSE (CHOOSE f \in FrameOf(r) : TRUE).to]
    /\ queue' = Append(queue, [frames |-> batch, freed |-> mgr.freed])
    /\ mgr' = TakeFreed(mgr)
    /\ batch' = <<>>
    /\ phase' = IF Len(queue) + 1 < Depth THEN "idle" ELSE "process"
    /\ UNCHANGED <<config, idx, tokens, compute, closed, plan, ran, running, waiting, status,
                   outputs, full, resets>>

-----------------------------------------------------------------------------
(* The worker: frees, then encodes, then gathers the embeddings.           *)

Encoded(s) == UNION {{HashOf(f.req, i) : i \in Range(f.inputs)} : f \in Range(s.frames)}
Execute(outs, s) == (outs \ s.freed) \cup Encoded(s)

Run ==
    /\ ran < Len(queue)
    /\ outputs' = Execute(outputs, queue[ran + 1])
    /\ ran' = ran + 1
    /\ UNCHANGED <<config, phase, schedVars, queue, reqVars, mgr, full, resets>>

-----------------------------------------------------------------------------
(* update_from_output of the oldest step.                                  *)

\* _free_encoder_inputs: the items the computed tokens are past. Placeholders
\* of tokens still to come do not count, under asynchronous scheduling.
Settled(r) == computed[r] - (IF Depth > 1 /\ computed[r] = Prompt[r] THEN 1 ELSE 0)
\* mutant: one token more
PassedLater(r, i) == To(r, i) + Shift < Settled(r)
Passed(r, i) == To(r, i) + Shift <= Settled(r)
FreePassed(m, r) ==
    FreeInputs(m, r, {i \in CachedIds(m, r) : (EncDec /\ computed[r] > 0) \/ Passed(r, i)})

\* The last chunk of a prompt yields the token that ends the request.
Update(m, f) ==
    IF status[f.req] = "finished" THEN m
    ELSE IF f.to < Prompt[f.req] THEN FreePassed(m, f.req)
    ELSE Free(FreePassed(m, f.req), f.req)

Process ==
    /\ phase = "process" \/ (phase = "idle" /\ Unfinished = {})
    /\ ran > 0
    /\ LET fs == Head(queue).frames
           ended == {f.req : f \in {g \in Range(fs) : g.to = Prompt[g.req]}}
       IN  /\ mgr' = FoldLeft(Update, mgr, fs)
           /\ status' = [r \in Requests |-> IF r \in ended THEN "finished" ELSE status[r]]
           /\ running' = Filter(running, Range(running) \ ended)
           /\ waiting' = Filter(waiting, Range(waiting) \ ended)
    /\ queue' = Tail(queue) /\ ran' = ran - 1
    /\ phase' = "idle"
    /\ UNCHANGED <<config, schedVars, computed, outputs, full, resets>>

-----------------------------------------------------------------------------
(* Calls between two steps.                                                *)

AddRequest(r) ==
    /\ phase = "idle" /\ status[r] = "new"
    /\ \A q \in Requests : q < r => status[q] # "new"
    /\ status' = [status EXCEPT ![r] = "waiting"]
    /\ waiting' = IF ByPriority THEN Prepended(waiting, r) ELSE Append(waiting, r)
    /\ UNCHANGED <<config, phase, schedVars, queue, ran, running, computed, mgr, outputs, full, resets>>

Abort(r) ==
    /\ Aborts /\ phase \in {"idle", "process"} /\ r \in Unfinished
    /\ status' = [status EXCEPT ![r] = "finished"]
    /\ running' = Without(running, r) /\ waiting' = Without(waiting, r)
    /\ mgr' = Free(mgr, r)
    /\ UNCHANGED <<config, phase, schedVars, queue, ran, computed, outputs, full, resets>>

\* reset_encoder_cache blocks until the worker, behind the steps in flight, has
\* cleared its outputs too.
Reset ==
    /\ phase = "idle" /\ resets < MaxResets /\ ran = Len(queue)
    /\ mgr' = EmptyManager /\ outputs' = {} /\ resets' = resets + 1
    /\ UNCHANGED <<config, phase, schedVars, queue, ran, reqVars, full>>

EngineStep == \/ BeginSchedule \/ PlanRunning \/ ScheduleRunning \/ PreemptFor
              \/ EndRunning \/ Admit \/ EndSchedule \/ Process
Next == \/ EngineStep \/ Run \/ Reset
        \/ \E r \in Requests : AddRequest(r) \/ Abort(r)
Spec == Init /\ [][Next]_vars

\* The engine's and the worker's loops keep running. Fairness is only asked for,
\* and progress only claimed, where no call interrupts a request.
Undisturbed == ~Aborts /\ MaxResets = 0
FairSpec ==
    Spec /\ WF_vars(Undisturbed /\ EngineStep) /\ WF_vars(Undisturbed /\ Run)

-----------------------------------------------------------------------------
(* Properties.                                                             *)

\* The worker never meets "Encoder cache miss": when a step runs, the output of
\* every item that overlaps the tokens it computes is there, although the
\* manager that promised it has since preempted, freed and evicted.
NoMiss ==
    ran < Len(queue) =>
        LET s == queue[ran + 1]
        IN  \A f \in Range(s.frames) : \A i \in Window(f.req, f.from, f.to) :
                HashOf(f.req, i) \in Execute(outputs, s)

\* The worker's encoder outputs never take more than the cache size, counted
\* after each step, whatever the manager evicted on their behalf meanwhile.
MemoryBounded == Sizes(outputs) <= CacheSize

\* num_free_slots and num_freeable_slots are exact, the freeable entries are
\* the cached ones without a reference, once each, and a request that is gone
\* holds none.
SlotsExact ==
    /\ mgr.free = CacheSize - Sizes(mgr.cached)
    /\ mgr.spare = mgr.free + Sizes(Range(mgr.freeable))
    /\ IsInjective(mgr.freeable)
    /\ Range(mgr.freeable) = {h \in mgr.cached : mgr.refs[h] = {}}
    /\ \A h \in Hashes : mgr.refs[h] \subseteq Unfinished
    /\ \A h \in Hashes \ mgr.cached : mgr.refs[h] = {}

\* num_free_slots is never more than the cache holds.
FreeWithinSize == mgr.free <= CacheSize

\* Every request gets its token, though the encoder cache is too small for all
\* its items at once.
Served ==
    \A r \in Requests : (Undisturbed /\ status[r] = "waiting") ~> status[r] = "finished"
=============================================================================
