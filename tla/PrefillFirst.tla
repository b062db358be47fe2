---------------------------- MODULE PrefillFirst ----------------------------
(***************************************************************************)
(* PrefillFirstScheduler (router/scheduler.py), the part of engine_client  *)
(* it calls, and the streaming clients it feeds.                           *)
(*                                                                         *)
(* The router is one asyncio event loop: a task runs without interruption  *)
(* from one await that suspends to the next, so an action is the code      *)
(* between two such awaits, or a part of it: where a run of code is cut    *)
(* (the items of one answer, the way from there to the top of the decode   *)
(* loop, from one batch of prefills to the next), the model has every      *)
(* interleaving of the program and a few more.  Closing an aiohttp session *)
(* is folded into the step before it, except where the decode loop ends.   *)
(* Per engine there are two long-lived tasks,                              *)
(* the worker (_processing_loop_worker) and the decode loop (decode_loop), *)
(* whose positions are the variables worker and loop.  Awaiting an engine  *)
(* call is a position; the answer, or the exception that stands for it     *)
(* (time-out, connection error, HTTP 500), is a parameter of the action    *)
(* that consumes it, so that this module says nothing of the engine.       *)
(* token_queue.put and request_queues.put never suspend: both queues are   *)
(* unbounded.                                                              *)
(***************************************************************************)
EXTENDS Naturals, Sequences, Functions

CONSTANTS Req,         \* the requests of the run; a request_id is unique
          NumEngines,  \* number of engine instances, and of workers
          Token,       \* the tokens an engine may produce
          Output,      \* the token lists one answer may carry for a request
          MaxTokens,   \* bound: a request goes on only below this length
          NoReq        \* stands for "no request"

ASSUME EngineAssumption == NumEngines \in Nat \ {0}
ASSUME OutputAssumption == Output \subseteq Seq(Token) /\ MaxTokens \in Nat
ASSUME NoReqAssumption == NoReq \notin Req

Engines == 0 .. NumEngines - 1

VARIABLES
  current_engine_index, \* round-robin position
  assigned,             \* assigned[r]: Request.assigned_engine_index
  request_queues,       \* per engine, the asyncio.Queue of its worker
  active_requests,      \* ids the status endpoint knows
  cancelled_requests,   \* ids whose stream was cancelled by the client
  decode_queues,        \* per engine, the ids being decoded
  stop_events,          \* per engine, whether the stop event is set
  worker,               \* per engine, the position of the worker task
  pending,              \* per engine, the requests the worker drained
  loop,                 \* per engine, the position of the decode loop
  scan,                 \* per engine, cancelled ids left of this round
  results,              \* per engine, items left of the /step answer
  target,               \* per engine, the request the loop is removing
  cleanups,             \* requests with a scheduled _cleanup_request task
  status,               \* status[r]: RequestStatus, or "new"
  tokens,               \* tokens[r]: every token put into token_queue
  marks,                \* marks[r]: every "ERROR" and None ("END") put there
  client                \* client[r]: the reader of the stream

routing == <<current_engine_index, assigned>>
workerVars == <<worker, pending, request_queues>>
loopVars == <<loop, scan, results, target>>
requestVars == <<status, tokens, marks>>
vars == <<routing, workerVars, loopVars, requestVars, active_requests,
          cancelled_requests, decode_queues, stop_events, cleanups, client>>

-----------------------------------------------------------------------------
(* Positions and values                                                    *)

WorkerPos == {"idle",        \* await worker_queue.get()
              "stopping",    \* stop_decode_loop: await the decode task
              "prefilling",  \* perform_prefill: await POST /step
              "clearing",    \* perform_prefill: await POST /remove_sequence
             "waiting", "asking", "decoding", "removing"} \* Iterative's

LoopPos == {"none",          \* _decode_tasks[worker_id] is None
            "top",           \* at "while self.decode_queues[worker_id]"
            "clearing",      \* _clear_cancelled_request: await the POST
            "stepping",      \* decode_step: await POST /step
            "applying",      \* decode_step: between two items of result_data
            "finalizing",    \* _finalize_decode_request: await the POST
            "failing",       \* the whole batch is being finalized as ERROR
            "failclearing",  \* the same, awaiting the POST
            "leaving"}       \* closing the session, then "finally"

Status == {"new", "queued", "processing", "completed", "error"}
Concluded == {"completed", "error"}
ItemStatus == {"PROGRESS", "COMPLETED", "ERROR"}
Item == [status : ItemStatus, tokens : Seq(Token)]
Client == {"none", "open", "closed", "gone"}

TypeOK ==
  /\ current_engine_index \in Engines
  /\ assigned \in [Req -> Engines]
  /\ request_queues \in [Engines -> Seq(Req)]
  /\ active_requests \subseteq Req
  /\ cancelled_requests \subseteq Req
  /\ decode_queues \in [Engines -> SUBSET Req]
  /\ stop_events \in [Engines -> BOOLEAN]
  /\ worker \in [Engines -> WorkerPos]
  /\ pending \in [Engines -> Seq(Req)]
  /\ loop \in [Engines -> LoopPos]
  /\ scan \in [Engines -> SUBSET Req]
  /\ DOMAIN results = Engines
  /\ \A e \in Engines : /\ DOMAIN results[e] \subseteq Req
                        /\ results[e] \in [DOMAIN results[e] -> Item]
  /\ target \in [Engines -> Req \union {NoReq}]
  /\ cleanups \subseteq Req
  /\ status \in [Req -> Status]
  /\ tokens \in [Req -> Seq(Token)]
  /\ marks \in [Req -> Seq({"ERROR", "END"})]
  /\ client \in [Req -> Client]

NoResults == [r \in {} |-> NoReq]

(* Scheduler.__init__ and PrefillFirstScheduler.__init__. *)
SchedulerInit ==
  /\ current_engine_index = 0
  /\ assigned = [r \in Req |-> 0]
  /\ request_queues = [e \in Engines |-> <<>>]
  /\ active_requests = {}
  /\ cancelled_requests = {}
  /\ decode_queues = [e \in Engines |-> {}]
  /\ stop_events = [e \in Engines |-> FALSE]
  /\ pending = [e \in Engines |-> <<>>]
  /\ loop = [e \in Engines |-> "none"]
  /\ scan = [e \in Engines |-> {}]
  /\ results = [e \in Engines |-> NoResults]
  /\ target = [e \in Engines |-> NoReq]
  /\ cleanups = {}
  /\ status = [r \in Req |-> "new"]
  /\ tokens = [r \in Req |-> <<>>]
  /\ marks = [r \in Req |-> <<>>]
  /\ client = [r \in Req |-> "none"]

(* start: every worker waits for its first request, no decode loop exists. *)
Init == SchedulerInit /\ worker = [e \in Engines |-> "idle"]

-----------------------------------------------------------------------------
(* The client side: request_handler.completions and stream_generator       *)

(* get_next_engine_url and the queue it selects. *)
NextIndexNoWrap == current_engine_index + 1 \* mutant: no modulo

NextIndex == (current_engine_index + 1) % NumEngines

EnqueuedAtNext(r) == \* mutant: the index is read after it has moved on
  [request_queues EXCEPT ![NextIndex] = Append(@, r)]

Enqueued(r) == [request_queues EXCEPT ![current_engine_index] = Append(@, r)]

(* submit_request: register, pick the next engine, enqueue. *)
Submit(r) ==
  /\ status[r] = "new"
  /\ status' = [status EXCEPT ![r] = "queued"]
  /\ client' = [client EXCEPT ![r] = "open"]
  /\ assigned' = [assigned EXCEPT ![r] = current_engine_index]
  /\ current_engine_index' = NextIndex
  /\ active_requests' = active_requests \union {r}
  /\ request_queues' = Enqueued(r)
  /\ UNCHANGED <<worker, pending, loopVars, tokens, marks,
                 cancelled_requests, decode_queues, stop_events, cleanups>>

(* The reader drains token_queue up to the first "ERROR" or None. *)
ReadToEnd(r) ==
  /\ client[r] = "open"
  /\ marks[r] # <<>>
  /\ client' = [client EXCEPT ![r] = "closed"]
  /\ UNCHANGED <<routing, workerVars, loopVars, requestVars, active_requests,
                 cancelled_requests, decode_queues, stop_events, cleanups>>

(* The client disconnects while the generator awaits token_queue.get():    *)
(* the except asyncio.CancelledError branch of stream_generator.           *)
Cancel(r) ==
  /\ client[r] = "open"
  /\ client' = [client EXCEPT ![r] = "gone"]
  /\ cancelled_requests' = cancelled_requests \union {r}
  /\ active_requests' = active_requests \ {r}
  /\ UNCHANGED <<routing, workerVars, loopVars, requestVars, decode_queues,
                 stop_events, cleanups>>

(* The client disconnects while a chunk is being sent: the generator is    *)
(* closed at its yield (GeneratorExit) and only the finally branch runs.   *)
Drop(r) ==
  /\ client[r] = "open"
  /\ client' = [client EXCEPT ![r] = "gone"]
  /\ UNCHANGED <<routing, workerVars, loopVars, requestVars, active_requests,
                 cancelled_requests, decode_queues, stop_events, cleanups>>

(* A scheduled _cleanup_request task runs: SchedulerMetrics.cleanup_request *)
(* forgets the request unless it is already forgotten.                     *)
Cleanup(r) ==
  /\ r \in cleanups
  /\ cleanups' = cleanups \ {r}
  /\ active_requests' = active_requests \ {r}
  /\ UNCHANGED <<routing, workerVars, loopVars, requestVars,
                 cancelled_requests, decode_queues, stop_events, client>>

-----------------------------------------------------------------------------
(* The worker of engine e: _processing_loop_worker and perform_prefill     *)

PrefillFlushing(e, batch, rest, st) == \* mutant: the queue is always emptied
  /\ pending' = [pending EXCEPT ![e] = batch]
  /\ request_queues' = [request_queues EXCEPT ![e] = <<>>]
  /\ worker' = [worker EXCEPT ![e] = "prefilling"]
  /\ status' = [st EXCEPT ![Head(batch)] = "processing"]

(* "for r in pending": the first of batch is PROCESSING and its prefill is *)
(* on the wire; rest stays in the worker's queue.                          *)
Prefill(e, batch, rest, st) ==
  /\ pending' = [pending EXCEPT ![e] = batch]
  /\ request_queues' = [request_queues EXCEPT ![e] = rest]
  /\ worker' = [worker EXCEPT ![e] = "prefilling"]
  /\ status' = [st EXCEPT ![Head(batch)] = "processing"]

DecodeTaskAssumedDone(e) == TRUE \* mutant: the task is not looked at

(* "_decode_tasks[worker_id] and not ....done()" is false. *)
DecodeTaskDone(e) == loop[e] = "none"

(* worker_queue.get() returns and no decode loop runs: drain the queue. *)
Take(e) ==
  /\ worker[e] = "idle"
  /\ request_queues[e] # <<>>
  /\ DecodeTaskDone(e)
  /\ Prefill(e, request_queues[e], <<>>, status)
  /\ UNCHANGED <<routing, loopVars, tokens, marks, active_requests, client,
                 cancelled_requests, decode_queues, stop_events, cleanups>>

(* worker_queue.get() returns while a decode loop runs: stop_decode_loop   *)
(* sets the event and awaits the task.                                     *)
StopDecode(e) ==
  /\ worker[e] = "idle"
  /\ request_queues[e] # <<>>
  /\ loop[e] # "none"
  /\ stop_events' = [stop_events EXCEPT ![e] = TRUE]
  /\ pending' = [pending EXCEPT ![e] = <<Head(request_queues[e])>>]
  /\ request_queues' = [request_queues EXCEPT ![e] = Tail(@)]
  /\ worker' = [worker EXCEPT ![e] = "stopping"]
  /\ UNCHANGED <<routing, loopVars, requestVars, active_requests, client,
                 cancelled_requests, decode_queues, cleanups>>

(* The decode task is over: drain what came in the meantime. *)
Resume(e) ==
  /\ worker[e] = "stopping"
  /\ DecodeTaskDone(e)
  /\ Prefill(e, pending[e] \o request_queues[e], <<>>, status)
  /\ UNCHANGED <<routing, loopVars, tokens, marks, active_requests, client,
                 cancelled_requests, decode_queues, stop_events, cleanups>>

StartDecodeStopped(e) == \* mutant: the stop event is not cleared
  /\ loop' = [loop EXCEPT ![e] = IF @ = "none" THEN "top" ELSE @]
  /\ UNCHANGED stop_events

(* The stop event is cleared and start_decode_loop creates the task. *)
StartDecode(e) ==
  /\ loop' = [loop EXCEPT ![e] = IF @ = "none" THEN "top" ELSE @]
  /\ stop_events' = [stop_events EXCEPT ![e] = FALSE]

(* The prefill of Head(pending[e]) is over, with the statuses st and the   *)
(* decode queue dq it leaves: the next of the batch, or, after the last,   *)
(* start_decode_loop when there is something to decode.                    *)
Advance(e, st, dq) ==
  /\ decode_queues' = [decode_queues EXCEPT ![e] = dq]
  /\ \/ /\ Tail(pending[e]) # <<>>
        /\ Prefill(e, Tail(pending[e]), request_queues[e], st)
        /\ UNCHANGED <<stop_events, loop>>
     \/ /\ Tail(pending[e]) = <<>>
        /\ pending' = [pending EXCEPT ![e] = <<>>]
        /\ worker' = [worker EXCEPT ![e] = "idle"]
        /\ status' = st
        /\ IF dq = {} THEN UNCHANGED <<stop_events, loop>>
                      ELSE StartDecode(e)
        /\ UNCHANGED request_queues

(* PREFILL_COMPLETED with the tokens ts: the request joins the decoding. *)
PrefillOk(e, ts) ==
  /\ worker[e] = "prefilling"
  /\ LET r == Head(pending[e]) IN
       /\ tokens' = [tokens EXCEPT ![r] = @ \o ts]
       /\ Advance(e, status, decode_queues[e] \union {r})
  /\ UNCHANGED <<routing, scan, results, target, marks, active_requests,
                 cancelled_requests, cleanups, client>>

(* COMPLETED: the first token was the last.  The stream is closed; no      *)
(* cleanup task is created on this path.                                   *)
PrefillCompleted(e, ts) ==
  /\ worker[e] = "prefilling"
  /\ LET r == Head(pending[e]) IN
       /\ tokens' = [tokens EXCEPT ![r] = @ \o ts]
       /\ marks' = [marks EXCEPT ![r] = Append(@, "END")]
       /\ Advance(e, [status EXCEPT ![r] = "completed"], decode_queues[e])
  /\ UNCHANGED <<routing, scan, results, target, active_requests,
                 cancelled_requests, cleanups, client>>

(* The worker's branch for result == "ERROR". *)
PrefillError(e) ==
  /\ LET r == Head(pending[e]) IN
       /\ marks' = [marks EXCEPT ![r] = @ \o <<"ERROR", "END">>]
       /\ cleanups' = cleanups \union {r}
       /\ Advance(e, [status EXCEPT ![r] = "error"], decode_queues[e])
  /\ UNCHANGED <<routing, scan, results, target, tokens, active_requests,
                 cancelled_requests, client>>

PrefillRaisedSilently(e) == \* mutant: the request is left as it is
  /\ worker[e] = "prefilling"
  /\ Advance(e, status, decode_queues[e])
  /\ UNCHANGED <<routing, scan, results, target, tokens, marks, cleanups,
                 active_requests, cancelled_requests, client>>

(* The POST raised (time-out, connection, HTTP error): nothing is removed  *)
(* from the engine.                                                        *)
PrefillRaised(e) == worker[e] = "prefilling" /\ PrefillError(e)

PrefillRejectedEarly(e) == \* mutant: the cleanup task does not wait
  /\ worker[e] = "prefilling"
  /\ worker' = [worker EXCEPT ![e] = "clearing"]
  /\ cleanups' = cleanups \union {Head(pending[e])}
  /\ UNCHANGED <<routing, pending, request_queues, loopVars, requestVars,
                 active_requests, cancelled_requests, decode_queues,
                 stop_events, client>>

(* The answer says the prefill failed: remove the sequence first. *)
PrefillRejected(e) ==
  /\ worker[e] = "prefilling"
  /\ worker' = [worker EXCEPT ![e] = "clearing"]
  /\ UNCHANGED <<routing, pending, request_queues, loopVars, requestVars,
                 active_requests, cancelled_requests, decode_queues,
                 stop_events, cleanups, client>>

PrefillCleared(e) == worker[e] = "clearing" /\ PrefillError(e)

-----------------------------------------------------------------------------
(* The decode loop of engine e: decode_loop, decode_step and               *)
(* _finalize_decode_request                                                *)

(* The cancelled requests todo are removed one by one, then the step is    *)
(* sent (even when nothing is left to decode).                             *)
ClearOrStep(e, todo) ==
  \/ \E r \in todo :
       /\ decode_queues' = [decode_queues EXCEPT ![e] = @ \ {r}]
       /\ target' = [target EXCEPT ![e] = r]
       /\ scan' = [scan EXCEPT ![e] = todo \ {r}]
       /\ loop' = [loop EXCEPT ![e] = "clearing"]
  \/ /\ todo = {}
     /\ target' = [target EXCEPT ![e] = NoReq]
     /\ scan' = [scan EXCEPT ![e] = {}]
     /\ loop' = [loop EXCEPT ![e] = "stepping"]
     /\ UNCHANGED decode_queues

CancelledNowhere(e) == {} \* mutant: cancellations are not looked up

(* The ids of cancelled_requests that are in this decode queue.  The queue *)
(* does not grow while the loop runs, so one look is as good as one each.  *)
CancelledHere(e) == cancelled_requests \intersect decode_queues[e]

LoopTop(e) ==
  /\ loop[e] = "top"
  /\ IF decode_queues[e] = {} \/ stop_events[e]
       THEN /\ loop' = [loop EXCEPT ![e] = "leaving"]
            /\ UNCHANGED <<scan, target, decode_queues>>
       ELSE ClearOrStep(e, CancelledHere(e))
  /\ UNCHANGED <<routing, workerVars, results, requestVars, active_requests,
                 cancelled_requests, stop_events, cleanups, client>>

(* /remove_sequence is over, well or badly: clear_concluded_request does   *)
(* not tell.                                                               *)
CancelledCleared(e) ==
  /\ loop[e] = "clearing"
  /\ cancelled_requests' = cancelled_requests \ {target[e]}
  /\ ClearOrStep(e, scan[e])
  /\ UNCHANGED <<routing, workerVars, results, requestVars, active_requests,
                 stop_events, cleanups, client>>

(* The answer to the step: an item per sequence; those of sequences that   *)
(* are not in the decode queue are skipped.                                *)
StepAnswered(e, answer) ==
  /\ loop[e] = "stepping"
  /\ results' = [results EXCEPT ![e] =
       Restrict(answer, DOMAIN answer \intersect decode_queues[e])]
  /\ loop' = [loop EXCEPT ![e] = "applying"]
  /\ UNCHANGED <<routing, workerVars, scan, target, requestVars, client,
                 active_requests, cancelled_requests, decode_queues,
                 stop_events, cleanups>>

FinalizeInPlace(e, r, outcome, final_token, pos) == \* mutant: no pop
  /\ status' = [status EXCEPT ![r] = outcome]
  /\ marks' = [marks EXCEPT ![r] = Append(@, final_token)]
  /\ target' = [target EXCEPT ![e] = r]
  /\ loop' = [loop EXCEPT ![e] = pos]
  /\ UNCHANGED decode_queues

(* _finalize_decode_request up to its await, which is position pos. *)
Finalize(e, r, outcome, final_token, pos) ==
  /\ decode_queues' = [decode_queues EXCEPT ![e] = @ \ {r}]
  /\ status' = [status EXCEPT ![r] = outcome]
  /\ marks' = [marks EXCEPT ![r] = Append(@, final_token)]
  /\ target' = [target EXCEPT ![e] = r]
  /\ loop' = [loop EXCEPT ![e] = pos]

(* One item of result_data: its tokens, then its status. *)
Apply(e, r) ==
  /\ loop[e] = "applying"
  /\ r \in DOMAIN results[e]
  /\ LET item == results[e][r] IN
       /\ tokens' = [tokens EXCEPT ![r] = @ \o item.tokens]
       /\ \/ /\ item.status = "PROGRESS"
             /\ UNCHANGED <<decode_queues, status, marks, target, loop>>
          \/ /\ item.status = "COMPLETED"
             /\ Finalize(e, r, "completed", "END", "finalizing")
          \/ /\ item.status = "ERROR"
             /\ Finalize(e, r, "error", "ERROR", "finalizing")
  /\ results' = [results EXCEPT ![e] = Restrict(@, DOMAIN @ \ {r})]
  /\ UNCHANGED <<routing, workerVars, scan, active_requests, client,
                 cancelled_requests, stop_events, cleanups>>

StepDone(e) ==
  /\ loop[e] = "applying"
  /\ DOMAIN results[e] = {}
  /\ loop' = [loop EXCEPT ![e] = "top"]
  /\ UNCHANGED <<routing, workerVars, scan, results, target, requestVars,
                 active_requests, cancelled_requests, decode_queues,
                 stop_events, cleanups, client>>

BatchAbandoned(e) == \* mutant: nobody finalizes the requests of the batch
  /\ loop[e] = "stepping"
  /\ loop' = [loop EXCEPT ![e] = "leaving"]
  /\ UNCHANGED <<routing, workerVars, scan, results, target, requestVars,
                 active_requests, cancelled_requests, decode_queues,
                 stop_events, cleanups, client>>

(* The step raised or its status is not "success": every request of the    *)
(* decode queue is finalized as an error and the loop ends.                *)
BatchFailed(e) ==
  /\ loop[e] = "stepping"
  /\ loop' = [loop EXCEPT ![e] = "failing"]
  /\ UNCHANGED <<routing, workerVars, scan, results, target, requestVars,
                 active_requests, cancelled_requests, decode_queues,
                 stop_events, cleanups, client>>

FailOne(e, r) ==
  /\ loop[e] = "failing"
  /\ r \in decode_queues[e]
  /\ Finalize(e, r, "error", "END", "failclearing")
  /\ UNCHANGED <<routing, workerVars, scan, results, tokens, active_requests,
                 cancelled_requests, stop_events, cleanups, client>>

FailDone(e) ==
  /\ loop[e] = "failing"
  /\ decode_queues[e] = {}
  /\ loop' = [loop EXCEPT ![e] = "leaving"]
  /\ UNCHANGED <<routing, workerVars, scan, results, target, requestVars,
                 active_requests, cancelled_requests, decode_queues,
                 stop_events, cleanups, client>>

(* _finalize_decode_request after its await. *)
Finalized(e) ==
  /\ loop[e] \in {"finalizing", "failclearing"}
  /\ loop' = [loop EXCEPT ![e] =
                IF @ = "finalizing" THEN "applying" ELSE "failing"]
  /\ cleanups' = cleanups \union {target[e]}
  /\ target' = [target EXCEPT ![e] = NoReq]
  /\ UNCHANGED <<routing, workerVars, scan, results, requestVars, client,
                 active_requests, cancelled_requests, decode_queues,
                 stop_events>>

(* The session is closed; "finally: _decode_tasks[worker_id] = None". *)
Leave(e) ==
  /\ loop[e] = "leaving"
  /\ loop' = [loop EXCEPT ![e] = "none"]
  /\ UNCHANGED <<routing, workerVars, scan, results, target, requestVars,
                 active_requests, cancelled_requests, decode_queues,
                 stop_events, cleanups, client>>

-----------------------------------------------------------------------------
(* What an engine answers: an item for every sequence it decodes, going on *)
(* only below the bound.  Every call ends, by its answer or its time-out.  *)

Answers(e) ==
  {answer \in [decode_queues[e] -> [status : ItemStatus, tokens : Output]] :
     \A r \in decode_queues[e] :
       answer[r].status = "PROGRESS" => Len(tokens[r]) < MaxTokens}

PrefillAnswer(e) ==
  \/ \E ts \in Output : PrefillOk(e, ts) \/ PrefillCompleted(e, ts)
  \/ PrefillRaised(e)
  \/ PrefillRejected(e)

StepAnswer(e) == \/ \E answer \in Answers(e) : StepAnswered(e, answer)
                 \/ BatchFailed(e)

Worker(e) == \/ Take(e) \/ StopDecode(e) \/ Resume(e)
             \/ PrefillAnswer(e) \/ PrefillCleared(e)

DecodeLoop(e) == \/ LoopTop(e) \/ CancelledCleared(e) \/ StepAnswer(e)
                 \/ (\E r \in Req : Apply(e, r) \/ FailOne(e, r))
                 \/ StepDone(e) \/ FailDone(e) \/ Finalized(e) \/ Leave(e)

Reader(r) == Submit(r) \/ ReadToEnd(r) \/ Cancel(r) \/ Drop(r)

Next == \/ \E r \in Req : Reader(r) \/ Cleanup(r)
        \/ \E e \in Engines : Worker(e) \/ DecodeLoop(e)

Spec == Init /\ [][Next]_vars

(* The event loop runs every ready task, and HTTPConfig bounds every call. *)
Fairness == /\ \A e \in Engines : WF_vars(Worker(e)) /\ WF_vars(DecodeLoop(e))
            /\ \A r \in Req : WF_vars(Cleanup(r)) /\ WF_vars(ReadToEnd(r))

LiveSpec == Spec /\ Fairness

-----------------------------------------------------------------------------
(* Safety                                                                  *)

Prefilling(e) == worker[e] \in {"prefilling", "clearing"}

(* A stream is terminated exactly when its request is concluded, and the   *)
(* terminator says what became of it; a batch that failed as a whole ends  *)
(* its streams with None (decode_loop, decode_step).  No second terminator *)
(* is put by the other task, by a retry or by a late answer.               *)
StreamEndsOnce ==
  \A r \in Req :
    marks[r] \in CASE status[r] = "completed" -> {<<"END">>}
                   [] status[r] = "error" -> {<<"END">>, <<"ERROR">>,
                                              <<"ERROR", "END">>}
                   [] OTHER -> {<<>>}

(* The worker prefills only while no decode loop runs on its engine: the   *)
(* engine gets one /step at a time.                                        *)
LoopExclusion == \A e \in Engines : Prefilling(e) => loop[e] = "none"

(* A request that may still produce tokens is in the hands of some task:   *)
(* queued ones wait in the line of their engine, processing ones are at    *)
(* the head of the batch its worker works on or in its decode queue,       *)
(* unless the client left and the loop cleared them.                       *)
NoRequestLost ==
  \A r \in Req :
    LET e == assigned[r]
        line == pending[e] \o request_queues[e]
    IN /\ status[r] = "queued" => r \in Range(line)
       /\ status[r] = "processing" =>
            \/ r \in decode_queues[e]
            \/ /\ worker[e] \notin {"idle", "waiting", "stopping"}
               /\ pending[e] # <<>> /\ r = Head(pending[e])
            \/ client[r] = "gone"

(* Whenever there is something to decode, a decode loop runs or the worker *)
(* is on its way to start one: an idle worker never leaves a decode queue  *)
(* behind (the "if self.decode_queues[worker_id]" at the end of a batch).  *)
DecodeHasDriver ==
  \A e \in Engines :
    decode_queues[e] # {} /\ loop[e] = "none" => worker[e] # "idle"

(* A set stop event is never left over from an earlier stop: a loop that   *)
(* runs with the event set is being awaited by its worker.                 *)
StopEventFresh ==
  \A e \in Engines :
    stop_events[e] /\ loop[e] # "none" => worker[e] = "stopping"

(* A live request whose client is there is known to the status endpoint.   *)
LiveIsTracked ==
  \A r \in Req :
    status[r] \in {"queued", "processing"} /\ client[r] # "gone"
      => r \in active_requests

(* Every request lives the life the router promises: accepted, started and *)
(* concluded once, its tokens growing only in between.                     *)
Lifecycle == INSTANCE RequestLifecycle WITH phase <- status, output <- tokens
LifecycleSpec == Lifecycle!Spec

-----------------------------------------------------------------------------
(* Liveness, under LiveSpec                                                *)

(* Every stream a client keeps reading ends, through stops of the decode   *)
(* loop, failed batches and rejected prefills.                             *)
EveryStreamEnds ==
  \A r \in Req : client[r] = "open" ~> client[r] \in {"closed", "gone"}

(* A request cancelled while it decodes leaves the decode queue, even if   *)
(* the engine would go on with it for ever.                                *)
CancelledIsCleared ==
  \A e \in Engines : \A r \in Req :
    r \in decode_queues[e] /\ r \in cancelled_requests
      ~> r \notin decode_queues[e]

(* docs/InferenceServer.md:250: "Completed requests are removed from the   *)
(* scheduler's tracking and will return 404."                              *)
CompletedIsUntracked ==
  \A r \in Req : status[r] = "completed" ~> r \notin active_requests
=============================================================================
