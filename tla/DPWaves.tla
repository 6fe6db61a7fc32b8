------------------------------ MODULE DPWaves ------------------------------
(***************************************************************************)
(* Data-parallel request waves: the coordinator                            *)
(* (vllm/v1/engine/coordinator.py), the engines (DPEngineCoreProc in       *)
(* core.py) and the front ends (DPAsyncMPClient in core_client.py).        *)
(*                                                                         *)
(* All engines step together or not at all: a forward pass is a collective *)
(* of all of them (unless the experts are replicated) and every SyncEvery  *)
(* steps an all-reduce decides whether the wave goes on. An engine that    *)
(* has work while the others sleep waits in the collective, so somebody    *)
(* must wake the others: the front end through the coordinator when it     *)
(* believes the engines idle, or the engine itself when the request        *)
(* carries an old wave.                                                    *)
(*                                                                         *)
(* Every message channel is a FIFO queue; channels are independent. Load   *)
(* statistics are left out: the engine of a request is any engine.         *)
(***************************************************************************)
EXTENDS Integers, Sequences, SequencesExt, Functions, FiniteSets, FiniteSetsExt

CONSTANT Configs   \* the deployments to check: records of the fields below

ASSUME WavesAssumption ==
    \A c \in Configs :
        /\ c.numEngines \in Nat \ {0, 1} /\ c.syncEvery \in Nat \ {0}
        /\ c.front \in Seq(ToSet(c.front)) /\ c.front # <<>>
        /\ Len(c.length) = Len(c.front) /\ Len(c.targets) = Len(c.front)
        /\ \A r \in DOMAIN c.front : c.targets[r] \subseteq 0..(c.numEngines - 1)
        /\ c.maxPauses \in Nat /\ c.modes \subseteq {"abort", "wait", "keep"}

VARIABLES
    config,      \* how the deployment was started; never changes
    pc,          \* "poll", "forward", "sync", "synced", "resume"
    wave, running, step,               \* step is step_counter % SyncEvery
    paused, pending, ignore,           \* pause_state, pending_pause, ignore_start_dp_wave
    waitQ, runQ, left,                 \* the scheduler's requests, steps left
    reduced,                           \* result of the last all-reduce
    toEngine,    \* [Fronts \X Engines -> messages], input sockets
    starts,      \* START_DP_WAVE messages from the coordinator
    toCoord,     \* wave_complete and start_wave messages of an engine
    cWave, cRunning,                   \* the coordinator
    fWave, fRunning, news,             \* a front end and its inbox
    first,       \* FIRST_REQ messages in its pair socket
    wakes,       \* waves it asked the coordinator to start
    status,      \* of a request, for its client
    pauses, calls                      \* pauses and resumes, engines yet to answer

engineVars == <<pc, wave, running, step, paused, pending, ignore, waitQ, runQ, left, reduced>>
coordVars == <<cWave, cRunning>>
frontVars == <<fWave, fRunning, first, news>>
channels == <<toEngine, starts, toCoord, wakes>>
clientVars == <<status, pauses, calls>>
vars == <<config, engineVars, coordVars, frontVars, channels, clientVars>>

NumEngines == config.numEngines  \* data_parallel_size
Requests == DOMAIN config.front  \* in the order clients send them
FrontOf == config.front          \* the API server a request is sent to
Fronts == ToSet(FrontOf)
Targets == config.targets        \* the engines it may be given to
Length == config.length          \* steps a request takes
SyncEvery == config.syncEvery    \* 32 in the code
Replicated == config.replicated  \* data_parallel_replicate_moe
Modes == config.modes            \* the modes clients pause with
MaxPauses == config.maxPauses    \* bound on pauses
Aborts == config.aborts          \* clients may abort
Engines == 0..(NumEngines - 1)
Pauser == FrontOf[1]

NoResult == [unfinished |-> FALSE, agreed |-> FALSE]

Init ==
    /\ config \in Configs
    /\ pc = [e \in Engines |-> "poll"]
    /\ wave = [e \in Engines |-> 0] /\ running = [e \in Engines |-> FALSE]
    /\ step = [e \in Engines |-> 0]
    /\ paused = [e \in Engines |-> "no"]
    /\ pending = [e \in Engines |-> FALSE] /\ ignore = [e \in Engines |-> FALSE]
    /\ waitQ = [e \in Engines |-> {}] /\ runQ = [e \in Engines |-> {}]
    /\ left = Length
    /\ reduced = NoResult
    /\ toEngine = [c \in Fronts \X Engines |-> <<>>]
    /\ starts = [e \in Engines |-> <<>>] /\ toCoord = [e \in Engines |-> <<>>]
    /\ cWave = 0 /\ cRunning = FALSE
    /\ fWave = [f \in Fronts |-> 0] /\ fRunning = [f \in Fronts |-> FALSE]
    /\ first = [f \in Fronts |-> 0] /\ news = [f \in Fronts |-> <<>>]
    /\ wakes = [f \in Fronts |-> <<>>]
    /\ status = [r \in Requests |-> "new"] /\ pauses = 0 /\ calls = {}

-----------------------------------------------------------------------------
(* The front end.                                                          *)

\* add_request_async.
AddRequest(f, e, r) ==
    /\ status[r] = "new" /\ \A q \in Requests : q < r => status[q] # "new"
    /\ status' = [status EXCEPT ![r] = "sent"]
    /\ toEngine' = [toEngine EXCEPT ![<<f, e>>] =
                        Append(@, [type |-> "add", req |-> r, wave |-> fWave[f]])]
    /\ first' = IF fRunning[f] THEN first ELSE [first EXCEPT ![f] = @ + 1]
    /\ UNCHANGED <<config, engineVars, coordVars, fWave, fRunning, news, starts, toCoord, wakes,
                   pauses, calls>>

\* abort_requests_async.
AbortRequest(f, e, r) ==
    /\ Aborts /\ status[r] = "sent" /\ status' = [status EXCEPT ![r] = "aborting"]
    /\ \/ \E i \in DOMAIN toEngine[f, e] :
             toEngine[f, e][i].type = "add" /\ toEngine[f, e][i].req = r
       \/ r \in waitQ[e] \cup runQ[e]
    /\ toEngine' = [toEngine EXCEPT ![<<f, e>>] = Append(@, [type |-> "abort", req |-> r])]
    /\ UNCHANGED <<config, engineVars, coordVars, frontVars, starts, toCoord, wakes, pauses, calls>>

\* run_engine_stats_update_task: a first request is passed on with the wave the
\* front end knows of by now.
SendFirst(f) ==
    /\ first[f] > 0
    /\ wakes' = [wakes EXCEPT ![f] = Append(@, fWave[f])]
    /\ first' = [first EXCEPT ![f] = @ - 1]
    /\ fRunning' = [fRunning EXCEPT ![f] = TRUE]
    /\ UNCHANGED <<config, engineVars, coordVars, fWave, news, toEngine, starts, toCoord, clientVars>>

\* The same task reads the news. It drains what has arrived and keeps the
\* latest, which is to read them one by one.
ReadNews(f) ==
    /\ news[f] # <<>> /\ news' = [news EXCEPT ![f] = Tail(@)]
    /\ fWave' = [fWave EXCEPT ![f] = Head(news[f]).wave]
    /\ fRunning' = [fRunning EXCEPT ![f] = Head(news[f]).running]
    /\ UNCHANGED <<config, engineVars, coordVars, first, channels, clientVars>>

-----------------------------------------------------------------------------
(* The coordinator.                                                        *)

Start(w, excluded) == [e \in Engines |-> Append(starts[e], [wave |-> w, exclude |-> excluded])]
Publish(w, on) == [f \in Fronts |-> Append(news[f], [wave |-> w, running |-> on])]

\* A front end sent a request while it believed the engines paused. The engine
\* to leave out is named by its identity, which never equals the index the
\* engines compare it with, so none is left out.
CoordWake(f) ==
    /\ wakes[f] # <<>> /\ wakes' = [wakes EXCEPT ![f] = Tail(@)]
    /\ IF cRunning
       THEN UNCHANGED <<cRunning, starts, news>>
       ELSE /\ cRunning' = TRUE /\ starts' = Start(cWave, -1) /\ news' = Publish(cWave, TRUE)
    /\ UNCHANGED <<config, engineVars, cWave, fWave, fRunning, first, toEngine, toCoord, clientVars>>

\* Rank 0 reports that the wave is over.
CoordComplete(e) ==
    /\ toCoord[e] # <<>> /\ Head(toCoord[e]).type = "complete"
    /\ toCoord' = [toCoord EXCEPT ![e] = Tail(@)]
    /\ LET w == Head(toCoord[e]).wave
       IN  IF cWave <= w
           THEN cWave' = w + 1 /\ cRunning' = FALSE /\ news' = Publish(w + 1, FALSE)
           ELSE UNCHANGED <<coordVars, news>>
    /\ UNCHANGED <<config, engineVars, fWave, fRunning, first, toEngine, starts, wakes, clientVars>>

\* An engine got a request for a wave that is over.
\* mutant: only a wave the coordinator does not know of is started
StartsLater(w) == w > cWave
StartsWave(w) == w > cWave \/ (w = cWave /\ ~cRunning)
CoordStart(e) ==
    /\ toCoord[e] # <<>> /\ Head(toCoord[e]).type = "start"
    /\ toCoord' = [toCoord EXCEPT ![e] = Tail(@)]
    /\ LET w == Head(toCoord[e]).wave
       IN  IF StartsWave(w)
           THEN /\ cWave' = w /\ cRunning' = TRUE
                /\ starts' = Start(w, e) /\ news' = Publish(w, TRUE)
           ELSE UNCHANGED <<coordVars, starts, news>>
    /\ UNCHANGED <<config, engineVars, fWave, fRunning, first, toEngine, wakes, clientVars>>

-----------------------------------------------------------------------------
(* An engine: run_busy_loop. Messages are handled while it polls.          *)

Unfinished(e) == CASE paused[e] = "all" -> {}
                   [] paused[e] = "new" -> runQ[e]
                   [] paused[e] = "no"  -> waitQ[e] \cup runQ[e]
HasWork(e) == running[e] \/ Unfinished(e) # {}

Take(f, e, type) ==
    /\ pc[e] = "poll" /\ toEngine[f, e] # <<>> /\ Head(toEngine[f, e]).type = type
    /\ toEngine' = [toEngine EXCEPT ![<<f, e>>] = Tail(@)]

\* add_request.
\* mutant: a request for an old wave is left to the front end
NoticesNever(e, w) == FALSE
Notices(e, w) == w < wave[e] /\ ~running[e] /\ paused[e] = "no"
HandleAdd(f, e) ==
    /\ Take(f, e, "add")
    /\ LET msg == Head(toEngine[f, e])
       IN  /\ waitQ' = [waitQ EXCEPT ![e] = @ \cup {msg.req}]
           /\ wave' = [wave EXCEPT ![e] = Max({@, msg.wave})]
           /\ IF Notices(e, msg.wave)
              THEN /\ running' = [running EXCEPT ![e] = TRUE]
                   /\ toCoord' = [toCoord EXCEPT ![e] =
                                     Append(@, [type |-> "start", wave |-> wave[e]])]
              ELSE UNCHANGED <<running, toCoord>>
    /\ UNCHANGED <<config, pc, step, paused, pending, ignore, runQ, left, reduced, coordVars,
                   frontVars, starts, wakes, clientVars>>

Ended(rs) == [r \in Requests |-> IF r \in rs THEN "finished" ELSE status[r]]

HandleAbort(f, e) ==
    /\ Take(f, e, "abort")
    /\ LET r == Head(toEngine[f, e]).req
       IN  /\ waitQ' = [waitQ EXCEPT ![e] = @ \ {r}]
           /\ runQ' = [runQ EXCEPT ![e] = @ \ {r}]
           /\ status' = Ended({r})
    /\ UNCHANGED <<config, pc, wave, running, step, paused, pending, ignore, left, reduced, coordVars,
                   frontVars, starts, toCoord, wakes, pauses, calls>>

\* _handle_client_request of START_DP_WAVE.
\* mutant: a start of an old wave is taken
AcceptsOld(e, msg) == ~ignore[e] /\ msg.exclude # e
\* mutant: a start is taken while the engines are paused
AcceptsPaused(e, msg) == msg.exclude # e /\ msg.wave >= wave[e]
Accepts(e, msg) == ~ignore[e] /\ msg.exclude # e /\ msg.wave >= wave[e]
HandleStart(e) ==
    /\ pc[e] = "poll" /\ starts[e] # <<>>
    /\ starts' = [starts EXCEPT ![e] = Tail(@)]
    /\ LET msg == Head(starts[e])
       IN  IF Accepts(e, msg)
           THEN /\ wave' = [wave EXCEPT ![e] = msg.wave]
                /\ running' = [running EXCEPT ![e] = TRUE]
           ELSE UNCHANGED <<wave, running>>
    /\ UNCHANGED <<config, pc, step, paused, pending, ignore, waitQ, runQ, left, reduced, coordVars,
                   frontVars, toEngine, toCoord, wakes, clientVars>>

\* One engine step up to the forward pass: schedule.
Begin(e) ==
    /\ pc[e] = "poll" /\ HasWork(e)
    /\ pc' = [pc EXCEPT ![e] = "forward"]
    /\ IF paused[e] = "no"
       THEN /\ runQ' = [runQ EXCEPT ![e] = @ \cup waitQ[e]]
            /\ waitQ' = [waitQ EXCEPT ![e] = {}]
       ELSE UNCHANGED <<runQ, waitQ>>
    /\ UNCHANGED <<config, wave, running, step, paused, pending, ignore, left, reduced, coordVars,
                   frontVars, channels, clientVars>>

\* The forward pass of the engines es, a dummy one where nothing was scheduled,
\* and _has_global_unfinished_reqs up to its all-reduce.
Forward(es) ==
    LET batch == UNION {IF paused[e] = "all" THEN {} ELSE runQ[e] : e \in es}
        done == {r \in batch : left[r] = 1}
    IN  /\ \A e \in es : pc[e] = "forward"
        /\ left' = [r \in Requests |-> IF r \in batch THEN left[r] - 1 ELSE left[r]]
        /\ runQ' = [e \in Engines |-> runQ[e] \ done]
        /\ status' = Ended(done)
        /\ step' = [e \in Engines |-> IF e \in es THEN (step[e] + 1) % SyncEvery ELSE step[e]]
        /\ pc' = [e \in Engines |-> IF e \notin es THEN pc[e]
                                    ELSE IF step'[e] = 0 THEN "sync" ELSE "poll"]
        /\ running' = [e \in Engines |-> running[e] \/ (e \in es /\ pc'[e] = "poll")]
        /\ UNCHANGED <<config, wave, paused, pending, ignore, waitQ, reduced, coordVars, frontVars,
                       channels, pauses, calls>>

\* sync_dp_state: the all-reduce of all engines.
SyncState ==
    [unfinished |-> \/ \E e \in Engines : Unfinished(e) # {}
                    \/ (\E e \in Engines : pending[e]) /\ (\E e \in Engines : ~pending[e]),
     agreed |-> \A e \in Engines : pending[e]]
AllReduce ==
    /\ \A e \in Engines : pc[e] = "sync"
    /\ reduced' = SyncState
    /\ pc' = [e \in Engines |-> "synced"]
    /\ UNCHANGED <<config, wave, running, step, paused, pending, ignore, waitQ, runQ, left, coordVars,
                   frontVars, channels, clientVars>>

\* The rest of the loop: the wave is over, or goes on.
EndLoop(e) ==
    /\ pc[e] = "synced" /\ pc' = [pc EXCEPT ![e] = "poll"]
    /\ ignore' = [ignore EXCEPT ![e] = @ \/ reduced.agreed]
    /\ pending' = [pending EXCEPT ![e] = @ /\ ~reduced.agreed]
    /\ running' = [running EXCEPT ![e] = reduced.unfinished]
    /\ IF reduced.unfinished THEN UNCHANGED <<wave, step, toCoord>>
       ELSE /\ wave' = [wave EXCEPT ![e] = @ + 1]
            /\ step' = [step EXCEPT ![e] = 0]
            /\ toCoord' = IF e # 0 THEN toCoord
                          ELSE [toCoord EXCEPT ![0] =
                                    Append(@, [type |-> "complete", wave |-> wave[0]])]
    /\ reduced' = IF \E d \in Engines \ {e} : pc[d] = "synced" THEN reduced ELSE NoResult
    /\ UNCHANGED <<config, paused, waitQ, runQ, left, coordVars, frontVars, toEngine, starts,
                   wakes, clientVars>>

-----------------------------------------------------------------------------
(* Pause and resume: a call to every engine, awaited by the client.        *)

Call(msg) == [c \in Fronts \X Engines |->
                 IF c[1] = Pauser THEN Append(toEngine[c], msg) ELSE toEngine[c]]

\* pauses counts both calls: it is odd while a pause is in force.
PauseGeneration ==
    /\ pauses < 2 * MaxPauses /\ pauses % 2 = 0 /\ calls = {}
    /\ \E m \in Modes : toEngine' = Call([type |-> "pause", mode |-> m])
    /\ pauses' = pauses + 1 /\ calls' = Engines
    /\ UNCHANGED <<config, engineVars, coordVars, frontVars, starts, toCoord, wakes, status>>

ResumeGeneration ==
    /\ pauses % 2 = 1 /\ calls = {}
    /\ toEngine' = Call([type |-> "resume"])
    /\ pauses' = pauses + 1 /\ calls' = Engines
    /\ UNCHANGED <<config, engineVars, coordVars, frontVars, starts, toCoord, wakes, status>>

\* pause_scheduler, _pause_complete.
HandlePause(f, e) ==
    /\ Take(f, e, "pause")
    /\ LET mode == Head(toEngine[f, e]).mode
       IN  /\ IF mode = "abort"
              THEN /\ status' = Ended(waitQ[e] \cup runQ[e])
                   /\ waitQ' = [waitQ EXCEPT ![e] = {}] /\ runQ' = [runQ EXCEPT ![e] = {}]
              ELSE UNCHANGED <<status, waitQ, runQ>>
           /\ paused' = [paused EXCEPT ![e] = IF mode = "keep" THEN "all" ELSE "new"]
    /\ pending' = [pending EXCEPT ![e] = TRUE]
    /\ running' = [running EXCEPT ![e] = TRUE]
    /\ UNCHANGED <<config, pc, wave, step, ignore, left, reduced, coordVars, frontVars, starts,
                   toCoord, wakes, pauses, calls>>

\* The idle callback resolves the future of the pause.
PauseDone(e) ==
    /\ pc[e] = "poll" /\ ~HasWork(e) /\ pauses % 2 = 1 /\ paused[e] # "no" /\ e \in calls
    /\ calls' = calls \ {e}
    /\ UNCHANGED <<config, engineVars, coordVars, frontVars, channels, status, pauses>>

\* resume_scheduler, up to its barrier.
HandleResume(f, e) ==
    /\ Take(f, e, "resume")
    /\ ~pending[e] /\ ~running[e]
    /\ paused' = [paused EXCEPT ![e] = "no"]
    /\ ignore' = [ignore EXCEPT ![e] = FALSE]
    /\ pc' = [pc EXCEPT ![e] = "resume"]
    /\ UNCHANGED <<config, wave, running, step, pending, waitQ, runQ, left, reduced, coordVars,
                   frontVars, starts, toCoord, wakes, clientVars>>

\* has_unfinished_dp over all engines.
ResumeBarrier ==
    /\ \A e \in Engines : pc[e] = "resume"
    /\ pc' = [e \in Engines |-> "poll"]
    /\ running' = [e \in Engines |-> \E d \in Engines : Unfinished(d) # {}]
    /\ calls' = {}
    /\ UNCHANGED <<config, wave, step, paused, pending, ignore, waitQ, runQ, left, reduced, coordVars,
                   frontVars, channels, status, pauses>>

-----------------------------------------------------------------------------
FrontStep(f) == SendFirst(f) \/ ReadNews(f)
CoordStep == \/ \E f \in Fronts : CoordWake(f)
             \/ \E e \in Engines : CoordComplete(e) \/ CoordStart(e)
HandleInput(f, e) == \/ HandleAdd(f, e) \/ HandleAbort(f, e)
                     \/ HandlePause(f, e) \/ HandleResume(f, e)
EngineStep(e) ==
    \/ HandleStart(e) \/ Begin(e) \/ EndLoop(e) \/ PauseDone(e)
    \/ \E f \in Fronts : HandleInput(f, e)
Collective == \/ IF Replicated THEN \E e \in Engines : Forward({e}) ELSE Forward(Engines)
              \/ AllReduce
              \/ ResumeBarrier
ClientStep == \/ \E r \in Requests : \E e \in Targets[r] :
                    AddRequest(FrontOf[r], e, r) \/ AbortRequest(FrontOf[r], e, r)
              \/ PauseGeneration
Next == \/ \E f \in Fronts : FrontStep(f)
        \/ CoordStep
        \/ \E e \in Engines : EngineStep(e)
        \/ Collective \/ ClientStep \/ ResumeGeneration
Spec == Init /\ [][Next]_vars

\* Every process keeps running, every message arrives and an engine empties its
\* input queue in every turn of its loop. Clients owe no request. Fairness is
\* only asked for, and progress only claimed, in the deployments marked so.
Live(A) == config.live /\ A
LiveConfigs == {c \in Configs : c.live}
AnyFront == UNION {ToSet(c.front) : c \in LiveConfigs}
AnyEngine == UNION {0..(c.numEngines - 1) : c \in LiveConfigs}
FairSpec ==
    /\ Spec
    /\ \A f \in AnyFront :
         /\ WF_vars(Live(f \in Fronts /\ SendFirst(f)))
         /\ WF_vars(Live(f \in Fronts /\ ReadNews(f)))
         /\ WF_vars(Live(f \in Fronts /\ CoordWake(f)))
    /\ \A e \in AnyEngine :
         /\ WF_vars(Live(e \in Engines /\ (Begin(e) \/ EndLoop(e))))
         /\ WF_vars(Live(e \in Engines /\ CoordComplete(e)))
         /\ WF_vars(Live(e \in Engines /\ CoordStart(e)))
         /\ SF_vars(Live(e \in Engines /\ HandleStart(e)))
         /\ \A f \in AnyFront :
               SF_vars(Live(e \in Engines /\ f \in Fronts /\ HandleInput(f, e)))
    /\ WF_vars(Live(Collective))

-----------------------------------------------------------------------------
(* Properties.                                                             *)

AnyRequest == UNION {DOMAIN c.front : c \in LiveConfigs}
InStatus(r, what) == r \in Requests /\ status[r] = what

\* A request that was sent is answered: whichever engines sleep when it arrives
\* are woken, although nobody knows for certain who is asleep.
Served ==
    \A r \in AnyRequest : (config.live /\ InStatus(r, "sent")) ~> InStatus(r, "finished")

Arrived == /\ \A c \in Fronts \X Engines : toEngine[c] = <<>>
           /\ \A e \in Engines : starts[e] = <<>> /\ toCoord[e] = <<>>
           /\ \A f \in Fronts : first[f] = 0 /\ wakes[f] = <<>> /\ news[f] = <<>>
Awake(e) == pc[e] # "poll" \/ HasWork(e)

\* "The engines alternate between a global running/paused state" (coordinator.py):
\* once every message has arrived, either all engines take part or none has
\* anything to do, so no engine waits for ever in a collective that the others
\* sleep through.
NobodySleeps ==
    Arrived /\ (\A e \in Engines : pc[e] \notin {"synced", "resume"}) =>
        \A d, e \in Engines : Awake(d) => Awake(e)

\* No wake-up is lost as long as nobody has paused the engines.
WakeupsArrive == pauses = 0 => NobodySleeps

\* Engines that meet in a collective are in the same wave and at the same step:
\* each keeps its own counters, and had they drifted apart one would run the
\* all-reduce while the other runs a forward pass.
WavesAlign ==
    \A at \in {"forward", "sync"} : (\A e \in Engines : pc[e] = at) =>
        \A d, e \in Engines : wave[d] = wave[e] /\ (Replicated \/ step[d] = step[e])

\* From the moment a pause has been answered until it is resumed from, no
\* engine runs a step, whatever start messages are still on their way.
PausedQuiet ==
    pauses % 2 = 1 /\ calls = {} =>
        \A e \in Engines : pc[e] = "poll" /\ ~HasWork(e)
=============================================================================
