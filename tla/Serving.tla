------------------------------ MODULE Serving -------------------------------
(***************************************************************************)
(* One engine process (Engine) and the router that serves it               *)
(* (PrefillFirst), joined by the HTTP calls of engine_client.              *)
(*                                                                         *)
(* PrefillFirst takes an answer, or an exception, where one of its tasks   *)
(* awaits an engine call.  Here the calls are real: a task that comes to   *)
(* such a position sends the call, and goes on when the engine has         *)
(* answered it, when it is lost before the engine has seen it, or when its *)
(* time is up (HTTPConfig).  In the last case the engine goes on with the  *)
(* call.  At most one task of the router awaits this engine at a time, so  *)
(* that one variable, awaited, tells whose answer is awaited.              *)
(***************************************************************************)
EXTENDS Engine, Sequences, FiniteSets

CONSTANTS NoReq,    \* stands for "no request"
          NoThread, \* no call is awaited
          Network   \* what may happen to a call: "timeout", "lost"

ASSUME NetworkAssumption == Network \subseteq {"timeout", "lost"}
ASSUME NoThreadAssumption == NoThread \notin Thread
ASSUME NoReqAssumption == NoReq \notin Req

VARIABLES
  current_engine_index, assigned, request_queues, active_requests,
  cancelled_requests, decode_queues, stop_events, worker, pending, loop,
  scan, results, target, cleanups, status, tokens, marks, client,
  awaited \* the thread whose answer the router awaits

(* A token is its place in the sequence; an item carries one or none. *)
Places == 1 .. MaxNewTokens
Router == INSTANCE PrefillFirst
            WITH NumEngines <- 1, Token <- Places, MaxTokens <- MaxNewTokens,
                 Output <- {<<>>} \union {<<k>> : k \in Places}

routerVars ==
  <<current_engine_index, assigned, request_queues, active_requests,
    cancelled_requests, decode_queues, stop_events, worker, pending, loop,
    scan, results, target, cleanups, status, tokens, marks, client>>
vars == <<routerVars, engineVars, awaited>>

Init == Router!Init /\ EngineInit /\ awaited = NoThread

-----------------------------------------------------------------------------
(* Calls                                                                   *)

(* The call the router awaits at its present positions. *)
Wanted ==
  CASE worker[0] = "prefilling" -> Call("prefill", {Head(pending[0])})
    [] worker[0] = "clearing" -> Call("remove", {Head(pending[0])})
    [] loop[0] = "stepping" -> Call("decode", {})
    [] loop[0] \in {"clearing", "finalizing", "failclearing"} ->
         Call("remove", {target[0]})
    [] OTHER -> Unused

(* The threads over are free again, and the call that the router's step    *)
(* has led to, if any, takes a free thread.                                *)
Exchange(over) ==
  LET left == [t \in Thread |-> IF t \in over THEN Unused ELSE call[t]] IN
    \/ /\ Wanted' = Unused
       /\ call' = left
       /\ awaited' = NoThread
    \/ /\ Wanted' # Unused
       /\ \E t \in Thread :
            /\ left[t] = Unused
            /\ call' = [left EXCEPT ![t] = Wanted']
            /\ awaited' = t

(* A router step that consumes no answer, and may send a call. *)
Alone(A) ==
  /\ A
  /\ IF Wanted' = Wanted THEN UNCHANGED <<call, awaited>> ELSE Exchange({})
  /\ UNCHANGED <<queues, generated>>

(* A router step that consumes the answer to the awaited call. *)
Answered(A) ==
  /\ awaited # NoThread
  /\ call[awaited].at = "answered"
  /\ A
  /\ Exchange({awaited})
  /\ UNCHANGED <<queues, generated>>

(* The await raises: the call came to nothing, or takes too long. *)
Raised(A) ==
  /\ awaited # NoThread
  /\ A
  /\ \/ call[awaited].at = "raised" /\ Exchange({awaited})
     \/ "timeout" \in Network /\ Exchange({})
  /\ UNCHANGED <<queues, generated>>

(* The connection fails before the engine has the call. *)
Lost(t) ==
  /\ "lost" \in Network
  /\ call[t] # Unused /\ call[t].at = "sent"
  /\ call' = [call EXCEPT ![t].at = "raised"]
  /\ UNCHANGED <<queues, generated, routerVars, awaited>>

EngineStep(t) ==
  /\ CallStep(t) \/ (t # awaited /\ CallEnds(t))
  /\ UNCHANGED <<routerVars, awaited>>

-----------------------------------------------------------------------------
(* The router's tasks                                                      *)

(* perform_prefill on the answer: what it does depends on the item of the  *)
(* request; no item is a failed prefill.                                   *)
PrefillAnswered ==
  LET answer == call[awaited].answer
      r == Head(pending[0])
      st == IF r \in DOMAIN answer THEN answer[r].status ELSE "ERROR"
  IN \/ st = "PREFILL_COMPLETED" /\ Router!PrefillOk(0, answer[r].tokens)
     \/ st = "COMPLETED" /\ Router!PrefillCompleted(0, answer[r].tokens)
     \/ st = "ERROR" /\ Router!PrefillRejected(0)

(* clear_concluded_request returns: its answer and its failure are only    *)
(* logged.                                                                 *)
WorkerCleared == Router!PrefillCleared(0)
LoopCleared == Router!CancelledCleared(0) \/ Router!Finalized(0)

WorkerTurn ==
  \/ Alone(Router!Take(0)) \/ Alone(Router!StopDecode(0))
  \/ Alone(Router!Resume(0))
  \/ worker[0] = "prefilling" /\ Answered(PrefillAnswered)
  \/ Raised(Router!PrefillRaised(0))
  \/ Answered(WorkerCleared) \/ Raised(WorkerCleared)

LoopTurn ==
  \/ Alone(Router!LoopTop(0)) \/ Alone(Router!StepDone(0))
  \/ Alone(Router!FailDone(0)) \/ Alone(Router!Leave(0))
  \/ \E r \in Req : Alone(Router!Apply(0, r)) \/ Alone(Router!FailOne(0, r))
  \/ loop[0] = "stepping" /\ Answered(Router!StepAnswered(0, call[awaited].answer))
  \/ Raised(Router!BatchFailed(0))
  \/ Answered(LoopCleared) \/ Raised(LoopCleared)

Next ==
  \/ \E r \in Req : Alone(Router!Reader(r)) \/ Alone(Router!Cleanup(r))
  \/ WorkerTurn \/ LoopTurn
  \/ \E t \in Thread : EngineStep(t) \/ Lost(t)

Spec == Init /\ [][Next]_vars

(* The event loop runs every ready task, the engine every call. *)
Fairness ==
  /\ WF_vars(WorkerTurn) /\ WF_vars(LoopTurn)
  /\ \A r \in Req : WF_vars(Alone(Router!ReadToEnd(r)))
  /\ \A t \in Thread : WF_vars(EngineStep(t))

LiveSpec == Spec /\ Fairness

-----------------------------------------------------------------------------
(* Safety                                                                  *)

TypeOK == EngineTypeOK /\ Router!TypeOK /\ awaited \in Thread \union {NoThread}

Running(t) == call[t] # Unused /\ call[t].at \notin Over

(* pace/llm/attention/paged/cache.py:303-306: "The current server          *)
(* architecture guarantees single-threaded access per engine process       *)
(* (prefill and decode run sequentially in the scheduler loop".            *)
SingleThreaded == Cardinality({t \in Thread : Running(t)}) <= 1

Quiet == \A t \in Thread : call[t] = Unused

(* What the router decodes, without those whose last item has come. *)
Shared == {r \in decode_queues[0] :
             r \in DOMAIN results[0] => results[0][r].status = "PROGRESS"}

(* Between two calls the router and the engine decode the same sequences,  *)
(* but for those whose last item the router has still to apply.  When a    *)
(* batch has failed at the router, whose failure may have come of a        *)
(* removal that raised half way, the engine decodes no others than these.  *)
QueuesAgree ==
  Quiet => /\ decode_queue \subseteq Shared
           /\ loop[0] # "failing" => decode_queue = Shared

(* What calls that came late or never leave in the engine's decode queue   *)
(* is nobody's any more: between two calls a sequence there that the       *)
(* router does not decode has had its conclusion, or its client is gone.   *)
StrayIsConcluded ==
  Quiet => \A r \in decode_queue \ decode_queues[0] :
             status[r] \in Router!Concluded \/ client[r] = "gone"

(* Between two calls every sequence being decoded has its context, no      *)
(* sequence is left in the prefill queue, and a context without a sequence *)
(* is one whose removal raised because its layers held different lengths:  *)
(* stops, failures, cancellations and rejected prefills, also in the loops *)
(* that such a removal cuts short, leave none behind.                      *)
NoOrphanContext ==
  Quiet => /\ prefill_queue = {}
           /\ decode_queue \subseteq contexts
           /\ contexts \ decode_queue \subseteq uneven

(* docs/SlabAttention.md:55: "When a sequence is removed, all its blocks   *)
(* are pushed back."  Between two calls the contexts are those of the      *)
(* sequences being decoded: true, and proved, when no forward fails        *)
(* between two layers, and false with the fault "layers".                  *)
RemovedIsReleased == Quiet => contexts = decode_queue

(* The tokens of a stream are those of its sequence, in order, none left   *)
(* out and none twice, through every item that is skipped or fails.        *)
TokensInOrder ==
  \A r \in Req : tokens[r] = [k \in 1 .. Len(tokens[r]) |-> k]

(* Serving implements the router's model: the answers of the engine are    *)
(* those that PrefillFirst expects, an item for each sequence of the       *)
(* decode queue, after any number of failed calls and removals.            *)
RouterSpec == Router!Spec

(* The router keeps its promise to every request (RequestLifecycle) also   *)
(* when calls are lost or abandoned and go on in the engine: no second     *)
(* conclusion and no token after it comes of a late or a stale answer.     *)
LifecycleUnderTimeouts == Router!LifecycleSpec

(* Every stream ends, by what the engine does.  Under LiveSpec. *)
EveryStreamEnds == Router!EveryStreamEnds
=============================================================================
