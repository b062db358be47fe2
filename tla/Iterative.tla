------------------------------ MODULE Iterative ------------------------------
(***************************************************************************)
(* IterativeScheduler (router/scheduler.py) and iterative_generate_tokens  *)
(* (router/engine_client.py): the worker of an engine takes one request of *)
(* its queue after the other and decodes it to its end.  The base class    *)
(* Scheduler, its queues and its clients are those of PrefillFirst; the    *)
(* request in hand is Head(pending[e]), and there is no decode loop.       *)
(***************************************************************************)
EXTENDS PrefillFirst

IterativeInit == SchedulerInit /\ worker = [e \in Engines |-> "waiting"]

(* What only the other scheduler changes. *)
unused == <<routing, loopVars, decode_queues, stop_events, cancelled_requests>>

(* worker_queue.get() returns: the prefill is sent, unless the client has  *)
(* left in the meantime.                                                   *)
TakeOne(e) ==
  /\ worker[e] = "waiting" /\ request_queues[e] # <<>>
  /\ LET r == Head(request_queues[e]) IN
       /\ pending' = [pending EXCEPT ![e] = <<r>>]
       /\ request_queues' = [request_queues EXCEPT ![e] = Tail(@)]
       /\ status' = [status EXCEPT ![r] = "processing"]
       /\ worker' = [worker EXCEPT ![e] =
                       IF r \in active_requests THEN "asking" ELSE "removing"]
  /\ UNCHANGED <<unused, tokens, marks, active_requests, cleanups, client>>

(* An answer with tokens, or without the request: the next step is sent,   *)
(* unless the request is no longer tracked.                                *)
OneProgress(e, ts) ==
  /\ worker[e] \in {"asking", "decoding"}
  /\ LET r == Head(pending[e]) IN
       /\ tokens' = [tokens EXCEPT ![r] = @ \o ts]
       /\ worker' = [worker EXCEPT ![e] =
                       IF r \in active_requests THEN "decoding" ELSE "removing"]
  /\ UNCHANGED <<unused, pending, request_queues, status, marks, client,
                 active_requests, cleanups>>

OneCompleted(e, ts) ==
  /\ worker[e] \in {"asking", "decoding"}
  /\ tokens' = [tokens EXCEPT ![Head(pending[e])] = @ \o ts]
  /\ worker' = [worker EXCEPT ![e] = "removing"]
  /\ UNCHANGED <<unused, pending, request_queues, status, marks, client,
                 active_requests, cleanups>>

(* The call raised, or its answer has an error. *)
OneError(e) ==
  /\ worker[e] \in {"asking", "decoding"}
  /\ LET r == Head(pending[e]) IN
       /\ status' = [status EXCEPT ![r] = "error"]
       /\ marks' = [marks EXCEPT ![r] = Append(@, "ERROR")]
  /\ worker' = [worker EXCEPT ![e] = "removing"]
  /\ UNCHANGED <<unused, pending, request_queues, tokens, active_requests,
                 cleanups, client>>

OutcomeAlways(r) == "completed" \* mutant: the status ERROR is overwritten
Outcome(r) == IF status[r] = "error" THEN "error" ELSE "completed"

(* /remove_sequence is over: the end of _process_request. *)
OneRemoved(e) ==
  /\ worker[e] = "removing"
  /\ LET r == Head(pending[e]) IN
       /\ marks' = [marks EXCEPT ![r] = Append(@, "END")]
       /\ status' = [status EXCEPT ![r] = Outcome(r)]
       /\ cleanups' = cleanups \union {r}
  /\ worker' = [worker EXCEPT ![e] = "waiting"]
  /\ pending' = [pending EXCEPT ![e] = <<>>]
  /\ UNCHANGED <<unused, request_queues, tokens, active_requests, client>>

IterativeWorker(e) ==
  \/ TakeOne(e) \/ OneError(e) \/ OneRemoved(e)
  \/ \E ts \in Output \union {<<>>} : OneCompleted(e, ts)
  \/ \E ts \in Output \union {<<>>} :
       /\ pending[e] # <<>> /\ Len(tokens[Head(pending[e])]) < MaxTokens
       /\ OneProgress(e, ts)

IterativeNext == \/ \E r \in Req : Reader(r) \/ Cleanup(r)
                 \/ \E e \in Engines : IterativeWorker(e)

IterativeSpec == IterativeInit /\ [][IterativeNext]_vars
=============================================================================
