---------------------------- MODULE ExecutorRPC ----------------------------
(***************************************************************************)
(* collective_rpc of vllm/v1/executor/multiproc_executor.py: one broadcast *)
(* queue of calls, one queue of responses per worker, and futures that are *)
(* resolved by whoever asks first, in the order of the calls. Nothing in a *)
(* response names its call: the two are paired by position alone.          *)
(*                                                                         *)
(* The queues are the ordered, lossless ones that ShmRing is shown to      *)
(* implement (Broadcast). Three threads of the engine process and the      *)
(* workers take part: the engine's main thread (calls and results), the    *)
(* worker monitor (death and shutdown), and in every worker its main loop  *)
(* and, with asynchronous scheduling, its output thread.                   *)
(***************************************************************************)
EXTENDS Integers, Sequences, FiniteSets, SequencesExt

CONSTANTS N,           \* world_size: workers are the ranks 1..N
          Output,      \* output_rank
          MaxCalls,    \* bound on the calls of collective_rpc
          AsyncOutput, \* use_async_scheduling
          CallsFail,   \* calls that may fail although every rank is to answer
          Timed,       \* the calls that are given a timeout
          MaxDeaths    \* bound on workers that die unexpectedly

ASSUME ExecutorAssumption ==
    /\ N \in Nat \ {0} /\ Output \in 1..N
    /\ MaxCalls \in Nat /\ MaxDeaths \in Nat
    /\ AsyncOutput \in BOOLEAN /\ Timed \subseteq 1..MaxCalls
    /\ CallsFail \subseteq 1..MaxCalls

Workers == 1..N
Calls == 1..MaxCalls
None == 0
Statuses == {"new", "pending", "value", "failed", "timeout", "cancelled"}

VARIABLES
    main,     \* where the main thread is: "free", "checked", "sent", "waiting"
    last,     \* calls begun so far; the call in the main thread's hands
    reply,    \* reply[c]: the ranks whose response call c reads
    status,   \* status[c]: the state of c's FutureWrapper
    left,     \* left[c]: ranks whose response c has still to read
    got,      \* got[c]: the responses c has read, by rank
    futures,  \* futures_queue, oldest first
    target,   \* the call whose result() the main thread is in
    cur,      \* the future in _wait_for_response
    calls,    \* calls[w]: the broadcast queue as rank w sees it
    running,  \* running[w]: the call rank w executes
    outputs,  \* outputs[w]: async_output_queue
    responses,\* responses[w]: worker_response_mq
    alive,    \* the worker processes alive
    deaths,   \* workers that died by themselves
    monitor,  \* where the monitor thread is in monitor_workers and shutdown
    isFailed, cancelled, rpcUp, mqsUp, told
vars == <<main, last, reply, status, left, got, futures, target, cur, calls,
          running, outputs, responses, alive, deaths, monitor, isFailed,
          cancelled, rpcUp, mqsUp, told>>

mainVars == <<main, last, reply, status, left, got, futures, target, cur>>
workerVars == <<running, outputs, alive, deaths>>
monitorVars == <<monitor, isFailed, cancelled, rpcUp, mqsUp, told>>

NoResponse == [call |-> None, ok |-> FALSE]

Init ==
    /\ main = "free" /\ last = 0
    /\ reply = [c \in Calls |-> {}]
    /\ status = [c \in Calls |-> "new"]
    /\ left = [c \in Calls |-> {}]
    /\ got = [c \in Calls |-> [w \in Workers |-> NoResponse]]
    /\ futures = <<>> /\ target = None /\ cur = None
    /\ calls = [w \in Workers |-> <<>>]
    /\ running = [w \in Workers |-> None]
    /\ outputs = [w \in Workers |-> <<>>]
    /\ responses = [w \in Workers |-> <<>>]
    /\ alive = Workers /\ deaths = 0
    /\ monitor = "watch" /\ isFailed = FALSE
    /\ cancelled = FALSE   \* shutdown() was called on the response queues
    /\ rpcUp = TRUE        \* rpc_broadcast_mq is not None
    /\ mqsUp = TRUE        \* response_mqs is not []
    /\ told = FALSE        \* failure_callback was invoked

-----------------------------------------------------------------------------
(* The main thread: collective_rpc.                                        *)

\* The assertion and the is_failed test at the top.
Begin ==
    /\ main = "free" /\ last < MaxCalls
    /\ rpcUp /\ ~isFailed
    /\ last' = last + 1
    /\ \E ranks \in {Workers, {Output}} : reply' = [reply EXCEPT ![last + 1] = ranks]
    /\ main' = "checked"
    /\ UNCHANGED <<status, left, got, futures, target, cur, calls, responses,
                   workerVars, monitorVars>>

\* rpc_broadcast_mq.enqueue; AttributeError once the monitor has dropped it.
Broadcast ==
    /\ main = "checked"
    /\ IF rpcUp
       THEN /\ calls' = [w \in Workers |-> Append(calls[w], last)]
            /\ main' = "sent"
       ELSE main' = "free" /\ UNCHANGED calls
    /\ UNCHANGED <<last, reply, status, left, got, futures, target, cur,
                   responses, workerVars, monitorVars>>

\* The response queues captured by get_response: none once response_mqs is [].
Asked(c) == IF mqsUp THEN reply[c] ELSE {}

\* The FutureWrapper, and result() unless non_block. Once response_mqs is [], a
\* call with a reply rank raises IndexError and a call to all ranks has no
\* response to wait for.
MakeFuture ==
    /\ main = "sent"
    /\ IF mqsUp \/ reply[last] = Workers
       THEN /\ status' = [status EXCEPT ![last] = "pending"]
            /\ left' = [left EXCEPT ![last] = Asked(last)]
            /\ futures' = Append(futures, last)
            /\ \/ target' = last /\ main' = "waiting"
               \/ target' = None /\ main' = "free"
       ELSE main' = "free" /\ UNCHANGED <<status, left, futures, target>>
    /\ UNCHANGED <<last, reply, got, cur, calls, responses, workerVars,
                   monitorVars>>

\* result() of a future kept by the caller (the batch queue of the engine).
Result(c) ==
    /\ main = "free" /\ status[c] = "pending"
    /\ target' = c /\ main' = "waiting"
    /\ UNCHANGED <<last, reply, status, left, got, futures, cur, calls,
                   responses, workerVars, monitorVars>>

\* result(): drain the futures ahead of this one, the oldest first.
\* mutant: result() takes its own future out of turn
NextPlaceOwn == CHOOSE i \in DOMAIN futures : futures[i] = target
NextPlace == 1

PopFuture ==
    /\ main = "waiting" /\ cur = None
    /\ status[target] = "pending"
    /\ cur' = futures[NextPlace]
    /\ futures' = RemoveAt(futures, NextPlace)
    /\ UNCHANGED <<main, last, reply, status, left, got, target, calls,
                   responses, workerVars, monitorVars>>

ReturnResult ==
    /\ main = "waiting" /\ cur = None
    /\ status[target] # "pending"
    /\ main' = "free" /\ target' = None
    /\ UNCHANGED <<last, reply, status, left, got, futures, cur, calls,
                   responses, workerVars, monitorVars>>

NextRank(c) == CHOOSE w \in left[c] : \A v \in left[c] : w <= v

\* get_response: one response queue after the other; a FAILURE raises before
\* the queues after it are read.
ReadResponse ==
    /\ cur # None /\ left[cur] # {}
    /\ LET w == NextRank(cur)
           r == Head(responses[w])
       IN  /\ responses[w] # <<>>
           /\ responses' = [responses EXCEPT ![w] = Tail(@)]
           /\ got' = [got EXCEPT ![cur][w] = r]
           /\ left' = [left EXCEPT ![cur] = @ \ {w}]
           /\ IF r.ok THEN UNCHANGED <<status, cur>>
                      ELSE /\ status' = [status EXCEPT ![cur] = "failed"]
                           /\ cur' = None
    /\ UNCHANGED <<main, last, reply, futures, target, calls, workerVars,
                   monitorVars>>

SetResult ==
    /\ cur # None /\ left[cur] = {}
    /\ status' = [status EXCEPT ![cur] = "value"]
    /\ cur' = None
    /\ UNCHANGED <<main, last, reply, left, got, futures, target, calls,
                   responses, workerVars, monitorVars>>

\* dequeue raises: TimeoutError, or "cancelled" after shutdown(). Either way
\* _wait_for_response stores the exception in the future.
DequeueRaises(s) ==
    /\ cur # None /\ left[cur] # {}
    /\ responses[NextRank(cur)] = <<>>
    /\ \/ s = "timeout" /\ cur \in Timed
       \/ s = "cancelled" /\ cancelled
    /\ status' = [status EXCEPT ![cur] = s]
    /\ cur' = None
    /\ UNCHANGED <<main, last, reply, left, got, futures, target, calls,
                   responses, workerVars, monitorVars>>

-----------------------------------------------------------------------------
(* The workers: worker_busy_loop and async_output_busy_loop.               *)

Take(w) ==
    /\ w \in alive /\ running[w] = None /\ calls[w] # <<>>
    /\ running' = [running EXCEPT ![w] = Head(calls[w])]
    /\ calls' = [calls EXCEPT ![w] = Tail(@)]
    /\ UNCHANGED <<mainVars, responses, outputs, alive, deaths, monitorVars>>

\* A call with one reply rank may fail at any time.
MayFail(c) == c \in CallsFail \/ reply[c] # Workers

\* handle_output: through the output thread with asynchronous scheduling, and
\* so does the exception of a failed call.
\* mutant: an exception is answered at once, ahead of the outputs in the queue
HandleFailureFirst(w, r) ==
    IF AsyncOutput /\ r.ok
    THEN outputs' = [outputs EXCEPT ![w] = Append(@, r)] /\ UNCHANGED responses
    ELSE responses' = [responses EXCEPT ![w] = Append(@, r)] /\ UNCHANGED outputs
HandleOutput(w, r) ==
    IF AsyncOutput
    THEN outputs' = [outputs EXCEPT ![w] = Append(@, r)] /\ UNCHANGED responses
    ELSE responses' = [responses EXCEPT ![w] = Append(@, r)] /\ UNCHANGED outputs

\* The call returns or raises; only the reply ranks answer.
Finish(w, ok) ==
    /\ w \in alive /\ running[w] # None
    /\ ok \/ MayFail(running[w])
    /\ running' = [running EXCEPT ![w] = None]
    /\ IF w \in reply[running[w]]
       THEN HandleOutput(w, [call |-> running[w], ok |-> ok])
       ELSE UNCHANGED <<responses, outputs>>
    /\ UNCHANGED <<mainVars, calls, alive, deaths, monitorVars>>

\* enqueue_output in the output thread; get_output may raise there.
SendOutput(w, ok) ==
    /\ w \in alive /\ outputs[w] # <<>>
    /\ ok \/ MayFail(Head(outputs[w]).call)
    /\ responses' = [responses EXCEPT ![w] =
                        Append(@, [Head(outputs[w]) EXCEPT !.ok = @ /\ ok])]
    /\ outputs' = [outputs EXCEPT ![w] = Tail(@)]
    /\ UNCHANGED <<mainVars, calls, running, alive, deaths, monitorVars>>

Die(w) ==
    /\ w \in alive /\ deaths < MaxDeaths /\ monitor = "watch"
    /\ alive' = alive \ {w}
    /\ deaths' = deaths + 1
    /\ UNCHANGED <<mainVars, calls, responses, running, outputs, monitorVars>>

-----------------------------------------------------------------------------
(* The monitor thread: monitor_workers, then shutdown().                   *)

Step(from, to) == monitor = from /\ monitor' = to

\* connection.wait(sentinels) returns as soon as one process has ended.
\* mutant: it returns when all have
AllDied == alive = {}
AnyDied == alive # Workers

NoticeDeath ==
    /\ AnyDied /\ Step("watch", "failed")
    /\ isFailed' = TRUE
    /\ UNCHANGED <<mainVars, calls, responses, workerVars, cancelled, rpcUp,
                   mqsUp, told>>

TerminateWorkers ==
    /\ Step("failed", "terminated")
    /\ alive' = {}
    /\ UNCHANGED <<mainVars, calls, responses, running, outputs, deaths,
                   isFailed, cancelled, rpcUp, mqsUp, told>>

\* mutant: the response queues are dropped without waking their reader
CancelResponsesNever == cancelled' = cancelled
CancelResponses == cancelled' = TRUE

ShutdownResponses ==
    /\ Step("terminated", "cancelled")
    /\ CancelResponses
    /\ UNCHANGED <<mainVars, calls, responses, workerVars, isFailed, rpcUp,
                   mqsUp, told>>

DropRpcQueue ==
    /\ Step("cancelled", "dropped") /\ rpcUp' = FALSE
    /\ UNCHANGED <<mainVars, calls, responses, workerVars, isFailed, cancelled,
                   mqsUp, told>>

DropResponseQueues ==
    /\ Step("dropped", "down") /\ mqsUp' = FALSE
    /\ UNCHANGED <<mainVars, calls, responses, workerVars, isFailed, cancelled,
                   rpcUp, told>>

FailureCallback ==
    /\ Step("down", "done") /\ told' = TRUE
    /\ UNCHANGED <<mainVars, calls, responses, workerVars, isFailed, cancelled,
                   rpcUp, mqsUp>>

-----------------------------------------------------------------------------
MainStep == \/ Broadcast \/ MakeFuture \/ PopFuture \/ ReturnResult
            \/ ReadResponse \/ SetResult
            \/ \E s \in {"timeout", "cancelled"} : DequeueRaises(s)
WorkerStep(w) == \/ Take(w)
                 \/ \E ok \in BOOLEAN : Finish(w, ok)
OutputStep(w) == \E ok \in BOOLEAN : SendOutput(w, ok)
MonitorStep == \/ NoticeDeath \/ TerminateWorkers \/ ShutdownResponses
               \/ DropRpcQueue \/ DropResponseQueues \/ FailureCallback

Next == \/ Begin \/ (\E c \in Calls : Result(c)) \/ MainStep
        \/ \E w \in Workers : WorkerStep(w) \/ OutputStep(w) \/ Die(w)
        \/ MonitorStep

Spec == Init /\ [][Next]_vars

\* Threads that can run do; a call of a worker returns or raises in the end.
\* Nobody is obliged to call or to ask for a result.
FairSpec == /\ Spec /\ WF_vars(MainStep) /\ WF_vars(MonitorStep)
            /\ \A w \in Workers : WF_vars(WorkerStep(w)) /\ WF_vars(OutputStep(w))

-----------------------------------------------------------------------------
(* Properties.                                                             *)

Response == [call : 0..MaxCalls, ok : BOOLEAN]

\* The types of the threads' variables and of the queues between them; a call
\* waits only for ranks that were asked to answer it.
TypeOK ==
    /\ main \in {"free", "checked", "sent", "waiting"} /\ last \in 0..MaxCalls
    /\ reply \in [Calls -> SUBSET Workers] /\ left \in [Calls -> SUBSET Workers]
    /\ \A c \in Calls : left[c] \subseteq reply[c]
    /\ status \in [Calls -> Statuses]
    /\ got \in [Calls -> [Workers -> Response]]
    /\ futures \in Seq(Calls)
    /\ target \in 0..MaxCalls /\ cur \in 0..MaxCalls
    /\ calls \in [Workers -> Seq(Calls)]
    /\ running \in [Workers -> 0..MaxCalls]
    /\ outputs \in [Workers -> Seq(Response)]
    /\ responses \in [Workers -> Seq(Response)]
    /\ alive \subseteq Workers /\ deaths \in 0..MaxDeaths
    /\ monitor \in {"watch", "failed", "terminated", "cancelled", "dropped",
                    "down", "done"}
    /\ {isFailed, cancelled, rpcUp, mqsUp, told} \subseteq BOOLEAN

\* No response is given to another call: every response a future has read, the
\* failing one included, is its own.
ResponsesPaired ==
    \A c \in Calls, w \in Workers : got[c][w].call \in {None, c}

\* collective_rpc returns "A list containing the results from each worker"
\* (executor/abstract.py:179): of this call, and of every rank asked.
ResultsFromEachWorker ==
    \A c \in Calls : status[c] = "value" =>
        \A w \in reply[c] : got[c][w] = [call |-> c, ok |-> TRUE]

\* The futures resolve in the order of the calls, whoever asks first, and a
\* future that is not resolved can still be reached: it is in the queue or in
\* the main thread's hands, so result() never pops an empty queue.
FuturesInOrder ==
    /\ \A c, d \in Calls : c < d /\ status[c] = "pending" =>
           status[d] \in {"new", "pending"}
    /\ \A c \in Calls : status[c] = "pending" =>
           c = cur \/ \E i \in DOMAIN futures : futures[i] = c

\* result() returns or raises, whatever the workers do: a dead worker's queue
\* is cancelled under the reader.
CallsReturn == \A c \in Calls : target = c ~> target = None

\* A worker's death reaches the engine.
DeathReported == alive # Workers ~> told
=============================================================================
