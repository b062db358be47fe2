------------------------------- MODULE Engine -------------------------------
(***************************************************************************)
(* ModelExecutor (engine/server.py) behind the endpoints /step and         *)
(* /remove_sequence (engine/frontend.py), with standard decoding.          *)
(*                                                                         *)
(* The endpoints are plain functions, so every HTTP call runs in a thread  *)
(* of its own on executor state that no lock protects; a call goes on      *)
(* when its caller has given up.  Each read and each write of what the     *)
(* threads share (the two queues, _all_greedy) is a step; neighbours are   *)
(* one step where nothing in between can be seen.  The tokens of a decode  *)
(* step are one step too: calls that overlap only number them otherwise.   *)
(*                                                                         *)
(* A request_id is used for one prefill only, so it stands for its         *)
(* Sequence object.  The token a sequence produces is its place in the     *)
(* sequence: 1, 2, ...                                                     *)
(***************************************************************************)
EXTENDS Naturals, Functions

CONSTANTS Req,           \* request ids
          Greedy,        \* those whose sampler has _greedy_fast_path
          Thread,        \* bound: calls in the engine at a time
          MaxNewTokens,  \* bound: max_new_tokens of every request
          Faults         \* what may go wrong, of Fault below

Fault == {"config",  \* Sequence.__init__ raises before it has a context
          "stop",    \* Sequence.__init__ raises after it
          "model",   \* a forward raises, or yields NaN
          "layers",  \* a forward raises between two layers
          "sample"}  \* prefill raises between the forward and the queue

ASSUME BoundAssumption == MaxNewTokens \in Nat \ {0}
ASSUME SubsetAssumption == Greedy \subseteq Req /\ Faults \subseteq Fault

VARIABLES
  prefill_queue, \* ids being prefilled
  decode_queue,  \* ids being decoded
  all_greedy,    \* _all_greedy
  contexts,      \* ids that have a cache context
  uneven,        \* those whose layers hold different lengths
  generated,     \* id -> number of tokens it has produced
  call           \* thread -> its call

queues == <<prefill_queue, decode_queue, all_greedy, contexts, uneven>>
engineVars == <<queues, generated, call>>

(* A call: what it is, where it is, the ids it is about (the keys of the   *)
(* decode queue it saw), the flag it has read or is about to write, and    *)
(* its answer, an item per id.  A "raised" call is answered by HTTP 500.   *)
(* Of a loop over ids that is under way: those the handler of a failed     *)
(* decode has still to look at (todo), those remove_sequences has still to *)
(* come to (left), and what it has found and not used yet (seen).          *)
ItemStatus == {"PREFILL_COMPLETED", "PROGRESS", "COMPLETED", "ERROR"}
Operation == {"prefill", "decode", "remove"}
Over == {"answered", "raised"}
Position == {"sent", "keys", "forward", "popped", "inserted", "joined",
             "failing", "removing", "pop_prefill", "pop_decode", "recount",
             "counted"} \union Over
NoItems == [r \in {} |-> "ERROR"]
Unused == [op |-> "none"]
Call(op, ids) == [op |-> op, at |-> "sent", batch |-> ids, greedy |-> FALSE,
                  answer |-> NoItems, todo |-> {}, seen |-> {},
                  left |-> IF op = "remove" THEN ids ELSE {}]

IsCall(c) ==
  \/ c = Unused
  \/ /\ c.op \in Operation /\ c.at \in Position
     /\ c.batch \subseteq Req /\ c.greedy \in BOOLEAN
     /\ c.todo \subseteq Req /\ c.left \subseteq Req /\ c.seen \subseteq Req
     /\ DOMAIN c.answer \subseteq Req
     /\ \A r \in DOMAIN c.answer : c.answer[r].status \in ItemStatus

EngineTypeOK ==
  /\ prefill_queue \subseteq Req /\ decode_queue \subseteq Req
  /\ prefill_queue \intersect decode_queue = {}
  /\ all_greedy \in BOOLEAN
  /\ contexts \subseteq Req /\ uneven \subseteq Req
  /\ generated \in [Req -> 0 .. MaxNewTokens]
  /\ DOMAIN call = Thread /\ \A t \in Thread : IsCall(call[t])

EngineInit ==
  /\ prefill_queue = {}
  /\ decode_queue = {}
  /\ all_greedy = TRUE
  /\ contexts = {} /\ uneven = {}
  /\ generated = [r \in Req |-> 0]
  /\ call = [t \in Thread |-> Unused]

-----------------------------------------------------------------------------
(* Helpers                                                                 *)

Runs(t, op, at) == call[t].op = op /\ call[t].at = at
At(t, at) == call[t] # Unused /\ call[t].at = at

(* The one id of a prefill. *)
Prefilled(t) == CHOOSE r \in call[t].batch : TRUE

Goes(t, at) == call' = [call EXCEPT ![t].at = at]

Answer(t, answer) ==
  call' = [call EXCEPT ![t].at = "answered", ![t].answer = answer]

(* The item of r: the token it has just produced, or none. *)
Produced(r, status) == [status |-> status, tokens |-> <<generated[r] + 1>>]
Failed(ids) == [r \in ids |-> [status |-> "ERROR", tokens |-> <<>>]]

(* The model raises for these ids.  Between two layers, some of them have  *)
(* a longer cache in the layers it has passed.                             *)
ForwardFails(ids) ==
  \/ "model" \in Faults /\ UNCHANGED uneven
  \/ /\ "layers" \in Faults
     /\ \E s \in SUBSET ids \ {{}} : uneven' = uneven \union s

(* The call of t goes on in remove_sequences(ids). *)
Removes(t, ids, answer) ==
  call' = [call EXCEPT ![t].at = "removing", ![t].left = ids,
                       ![t].answer = answer]

FailsQuietly(t) == \* mutant: no item for the sequences of the batch
  call' = [call EXCEPT ![t].at = "failing", ![t].todo = call[t].batch,
                       ![t].answer = NoItems, ![t].left = {}, ![t].seen = {}]

(* The handler of a failed decode step: every sequence of the batch is an  *)
(* error, whatever its item was, and leaves.                               *)
Fails(t) ==
  call' = [call EXCEPT ![t].at = "failing", ![t].todo = call[t].batch,
                       ![t].answer = Failed(call[t].batch),
                       ![t].left = {}, ![t].seen = {}]

(* remove_sequences returns to the call it is part of. *)
Return(t) == IF call[t].todo = {} THEN "answered" ELSE "failing"

(* remove_sequences raises.  A prefill is answered by an error without an  *)
(* item, a decode step runs its handler, and everything else is answered   *)
(* by HTTP 500: the handler too, whose remaining sequences stay.           *)
Raises(t) ==
  LET handling == call[t].answer = Failed(call[t].batch) IN
  IF call[t].op = "decode" /\ ~handling
    THEN Fails(t)
    ELSE call' = [call EXCEPT
           ![t].at = IF call[t].op = "prefill" THEN "answered" ELSE "raised",
           ![t].answer = NoItems, ![t].todo = {}, ![t].left = {}, ![t].seen = {}]

-----------------------------------------------------------------------------
(* remove_sequences                                                        *)

Looking(t) == At(t, "removing") \/ Runs(t, "remove", "sent")

(* The next id is found in a queue, or skipped. *)
RemoveFinds(t) ==
  /\ Looking(t)
  /\ \E r \in call[t].left :
       call' = [call EXCEPT
         ![t].left = @ \ {r},
         ![t].seen = {r} \intersect (prefill_queue \union decode_queue),
         ![t].at = IF r \in prefill_queue THEN "pop_prefill"
                   ELSE IF r \in decode_queue THEN "pop_decode" ELSE "removing"]
  /\ UNCHANGED <<queues, generated>>

RemovePopsKeepingContext(t) == \* mutant: remove_context is not called
  /\ \/ /\ At(t, "pop_prefill")
        /\ call[t].seen \subseteq prefill_queue
        /\ prefill_queue' = prefill_queue \ call[t].seen
        /\ UNCHANGED decode_queue
     \/ /\ At(t, "pop_decode")
        /\ call[t].seen \subseteq decode_queue
        /\ decode_queue' = decode_queue \ call[t].seen
        /\ UNCHANGED prefill_queue
  /\ call' = [call EXCEPT ![t].at = "removing", ![t].seen = {}]
  /\ UNCHANGED <<all_greedy, contexts, uneven, generated>>

(* It is popped and its cache released.  When its layers hold different    *)
(* lengths remove_cache raises first, and the context stays.               *)
RemovePops(t) ==
  /\ \/ /\ At(t, "pop_prefill")
        /\ call[t].seen \subseteq prefill_queue
        /\ prefill_queue' = prefill_queue \ call[t].seen
        /\ UNCHANGED decode_queue
     \/ /\ At(t, "pop_decode")
        /\ call[t].seen \subseteq decode_queue
        /\ decode_queue' = decode_queue \ call[t].seen
        /\ UNCHANGED prefill_queue
  /\ IF call[t].seen \subseteq uneven
       THEN Raises(t) /\ UNCHANGED contexts
       ELSE /\ contexts' = contexts \ call[t].seen
            /\ call' = [call EXCEPT ![t].at = "removing", ![t].seen = {}]
  /\ UNCHANGED <<all_greedy, uneven, generated>>

(* Another call has popped it in between: KeyError. *)
RemoveMisses(t) ==
  /\ \/ At(t, "pop_prefill") /\ ~(call[t].seen \subseteq prefill_queue)
     \/ At(t, "pop_decode") /\ ~(call[t].seen \subseteq decode_queue)
  /\ Raises(t)
  /\ UNCHANGED <<queues, generated>>

(* All ids are done: "if not self._all_greedy". *)
RemoveReads(t) ==
  /\ Looking(t) /\ call[t].left = {}
  /\ Goes(t, IF all_greedy THEN Return(t) ELSE "recount")
  /\ UNCHANGED <<queues, generated>>

RemoveScans(t) ==
  /\ At(t, "recount")
  /\ call' = [call EXCEPT ![t].at = "counted", ![t].seen = decode_queue]
  /\ UNCHANGED <<queues, generated>>

RemoveSettingFlag(t) == \* mutant: _all_greedy is set, not computed
  /\ At(t, "counted")
  /\ all_greedy' = TRUE
  /\ call' = [call EXCEPT ![t].at = Return(t), ![t].seen = {}]
  /\ UNCHANGED <<prefill_queue, decode_queue, contexts, uneven, generated>>

(* What was seen is written, or the dictionary has changed under the scan. *)
RemoveCounts(t) ==
  /\ At(t, "counted")
  /\ \/ /\ all_greedy' = (call[t].seen \subseteq Greedy)
        /\ call' = [call EXCEPT ![t].at = Return(t), ![t].seen = {}]
     \/ /\ call[t].seen # decode_queue /\ Raises(t)
        /\ UNCHANGED all_greedy
  /\ UNCHANGED <<prefill_queue, decode_queue, contexts, uneven, generated>>

RemoveStep(t) ==
  RemoveFinds(t) \/ RemovePops(t) \/ RemoveMisses(t)
    \/ RemoveReads(t) \/ RemoveScans(t) \/ RemoveCounts(t)

-----------------------------------------------------------------------------
(* /step with a prefill_batch of one request                               *)

(* Sequence.__init__ raises; with a context nobody will ever release if it *)
(* has come as far as the stopping criteria.                               *)
PrefillInvalid(t) ==
  /\ Runs(t, "prefill", "sent")
  /\ \/ "config" \in Faults /\ UNCHANGED contexts
     \/ "stop" \in Faults /\ contexts' = contexts \union {Prefilled(t)}
  /\ Answer(t, NoItems)
  /\ UNCHANGED <<prefill_queue, decode_queue, all_greedy, uneven, generated>>

(* The Sequence is made and queued; the model is about to run. *)
PrefillStart(t) ==
  /\ Runs(t, "prefill", "sent")
  /\ contexts' = contexts \union {Prefilled(t)}
  /\ prefill_queue' = prefill_queue \union {Prefilled(t)}
  /\ Goes(t, "forward")
  /\ UNCHANGED <<decode_queue, all_greedy, uneven, generated>>

(* The model raised: the sequence is removed, the answer is an item. *)
PrefillFails(t) ==
  /\ Runs(t, "prefill", "forward") /\ ForwardFails(call[t].batch)
  /\ Removes(t, call[t].batch, Failed(call[t].batch))
  /\ UNCHANGED <<prefill_queue, decode_queue, all_greedy, contexts, generated>>

(* Something after the model raised (draft prefill, sampler, token buffer, *)
(* stopping criteria): the sequence stays in prefill_queue, and /step      *)
(* answers with an error instead of an item.                               *)
PrefillBreaks(t) ==
  /\ Runs(t, "prefill", "forward") /\ "sample" \in Faults
  /\ Answer(t, NoItems)
  /\ UNCHANGED <<queues, generated>>

(* The first token is the last. *)
PrefillStops(t) ==
  /\ Runs(t, "prefill", "forward")
  /\ LET r == Prefilled(t) IN
       /\ generated' = [generated EXCEPT ![r] = @ + 1]
       /\ Removes(t, {r}, [q \in {r} |-> Produced(r, "COMPLETED")])
  /\ UNCHANGED queues

PrefillMovesUncounted(t) == \* mutant: the first token is not appended
  /\ Runs(t, "prefill", "forward")
  /\ LET r == Prefilled(t) IN
       /\ generated[r] + 1 < MaxNewTokens
       /\ prefill_queue' = prefill_queue \ {r}
       /\ call' = [call EXCEPT
            ![t].at = "popped",
            ![t].answer = [q \in {r} |-> Produced(r, "PREFILL_COMPLETED")]]
  /\ UNCHANGED <<decode_queue, all_greedy, contexts, uneven, generated>>

(* It goes on: the first token is appended, and move_to_decode_queue pops. *)
PrefillMoves(t) ==
  /\ Runs(t, "prefill", "forward")
  /\ LET r == Prefilled(t) IN
       /\ generated[r] + 1 < MaxNewTokens
       /\ generated' = [generated EXCEPT ![r] = @ + 1]
       /\ prefill_queue' = prefill_queue \ {r}
       /\ call' = [call EXCEPT
            ![t].at = "popped",
            ![t].answer = [q \in {r} |-> Produced(r, "PREFILL_COMPLETED")]]
  /\ UNCHANGED <<decode_queue, all_greedy, contexts, uneven>>

(* The rest of move_to_decode_queue: the insertion, the two reads of the   *)
(* new flag, its write.                                                    *)
MoveToDecodeQueue(t) ==
  /\ \/ /\ Runs(t, "prefill", "popped") /\ Goes(t, "inserted")
        /\ decode_queue' = decode_queue \union call[t].batch
        /\ UNCHANGED all_greedy
     \/ /\ Runs(t, "prefill", "inserted")
        /\ call' = [call EXCEPT ![t].at = "joined",
                      ![t].greedy = (all_greedy /\ call[t].batch \subseteq Greedy)]
        /\ UNCHANGED <<decode_queue, all_greedy>>
     \/ /\ Runs(t, "prefill", "joined") /\ Goes(t, "answered")
        /\ all_greedy' = call[t].greedy
        /\ UNCHANGED decode_queue
  /\ UNCHANGED <<prefill_queue, contexts, uneven, generated>>

-----------------------------------------------------------------------------
(* /step with is_decode                                                    *)

(* The keys are read; without keys there is nothing to do. *)
DecodeStart(t) ==
  /\ Runs(t, "decode", "sent")
  /\ call' = [call EXCEPT ![t].batch = decode_queue,
                          ![t].at = IF decode_queue = {} THEN "answered" ELSE "keys"]
  /\ UNCHANGED <<queues, generated>>

(* The flag is read and the sequences are looked up; one that is gone      *)
(* raises outside the handler.                                             *)
DecodePrepares(t) ==
  /\ Runs(t, "decode", "keys")
  /\ IF call[t].batch \subseteq decode_queue
       THEN call' = [call EXCEPT ![t].at = "forward", ![t].greedy = all_greedy]
       ELSE Goes(t, "raised")
  /\ UNCHANGED <<queues, generated>>

(* The model raises, a sequence is gone by now, or another call has filled *)
(* its token buffer.                                                       *)
DecodeFails(t) ==
  /\ Runs(t, "decode", "forward")
  /\ \/ ForwardFails(call[t].batch)
     \/ /\ \/ ~(call[t].batch \subseteq decode_queue)
           \/ \E r \in call[t].batch : generated[r] = MaxNewTokens
        /\ UNCHANGED uneven
  /\ Fails(t)
  /\ UNCHANGED <<prefill_queue, decode_queue, all_greedy, contexts, generated>>

(* One sequence of the failed batch, removed if it is still queued. *)
DecodeHandles(t) ==
  /\ Runs(t, "decode", "failing")
  /\ \E r \in call[t].todo :
       call' = [call EXCEPT
         ![t].todo = @ \ {r}, ![t].left = {r} \intersect decode_queue,
         ![t].at = IF r \in decode_queue THEN "removing"
                   ELSE IF call[t].todo = {r} THEN "answered" ELSE "failing"]
  /\ UNCHANGED <<queues, generated>>

DecodeKeeping(t, stopped) == \* mutant: completed_ids are not removed
  /\ Runs(t, "decode", "forward")
  /\ LET batch == call[t].batch IN
       /\ batch \subseteq decode_queue /\ stopped \subseteq batch
       /\ \A r \in batch : generated[r] + 1 <= MaxNewTokens
                             /\ (generated[r] + 1 = MaxNewTokens => r \in stopped)
       /\ generated' = [r \in Req |-> generated[r] + IF r \in batch THEN 1 ELSE 0]
       /\ Answer(t, [r \in batch |->
            Produced(r, IF r \in stopped THEN "COMPLETED" ELSE "PROGRESS")])
  /\ UNCHANGED queues

(* Every sequence of the batch gets a token; those that stop leave. *)
DecodeDone(t, stopped) ==
  /\ Runs(t, "decode", "forward")
  /\ LET batch == call[t].batch
         items == [r \in batch |->
                     Produced(r, IF r \in stopped THEN "COMPLETED" ELSE "PROGRESS")]
     IN /\ batch \subseteq decode_queue /\ stopped \subseteq batch
        /\ \A r \in batch : generated[r] + 1 <= MaxNewTokens
                              /\ (generated[r] + 1 = MaxNewTokens => r \in stopped)
        /\ generated' = [r \in Req |-> generated[r] + IF r \in batch THEN 1 ELSE 0]
        /\ IF stopped = {} THEN Answer(t, items) ELSE Removes(t, stopped, items)
  /\ UNCHANGED queues

-----------------------------------------------------------------------------

(* A step of the call of t.  /remove_sequence is remove_sequences alone. *)
CallStep(t) ==
  \/ PrefillInvalid(t) \/ PrefillStart(t) \/ PrefillFails(t)
  \/ PrefillBreaks(t) \/ PrefillStops(t) \/ PrefillMoves(t)
  \/ MoveToDecodeQueue(t)
  \/ DecodeStart(t) \/ DecodePrepares(t) \/ DecodeFails(t) \/ DecodeHandles(t)
  \/ /\ Runs(t, "decode", "forward")
     /\ \E stopped \in SUBSET call[t].batch : DecodeDone(t, stopped)
  \/ RemoveStep(t)

(* A call that nobody waits for any more leaves its thread. *)
CallEnds(t) ==
  /\ call[t] # Unused /\ call[t].at \in Over
  /\ call' = [call EXCEPT ![t] = Unused]
  /\ UNCHANGED <<queues, generated>>

-----------------------------------------------------------------------------

(* A decode step skips sampling only when all of its sequences are greedy: *)
(* _all_greedy, kept by hand over joins, stops, failures and removals that *)
(* may raise half way, never lags behind the decode queue.  It is about    *)
(* calls that follow each other: two that overlap may lose an update.      *)
GreedyBatch ==
  \A t \in Thread : Runs(t, "decode", "forward") /\ call[t].greedy
    => call[t].batch \subseteq Greedy
=============================================================================
