--------------------------- MODULE ServingProofs ---------------------------
(***************************************************************************)
(* Proofs about Serving: one engine and its router, for any set of         *)
(* requests, any number of threads and any bound on the tokens.            *)
(***************************************************************************)
EXTENDS Serving, SequenceTheorems, FiniteSetTheorems, TLAPS

-----------------------------------------------------------------------------
(* The router's model and its proofs                                       *)

Outputs == {<<>>} \union {<<k>> : k \in Places}

(* PrefillFirst once more, with what is proved about it. *)
P == INSTANCE PrefillFirstProofs
       WITH NumEngines <- 1, Token <- Places, MaxTokens <- MaxNewTokens,
            Output <- {<<>>} \union {<<k>> : k \in Places}

(* The assumptions of PrefillFirst. *)
LEMMA Instance ==
  /\ 1 \in Nat \ {0}
  /\ {<<>>} \union {<<k>> : k \in Places} \subseteq Seq(Places)
  /\ MaxNewTokens \in Nat
  /\ NoReq \notin Req
<1>1. <<>> \in Seq(Places)
  OBVIOUS
<1>2. ASSUME NEW k \in Places PROVE <<k>> \in Seq(Places)
  OBVIOUS
<1>3. {<<>>} \union {<<k>> : k \in Places} \subseteq Seq(Places)
  BY <1>1, <1>2
<1> QED
  BY <1>3, BoundAssumption, NoReqAssumption

LEMMA TheEngine == P!Engines = {0} /\ 0 \in P!Engines
  BY DEF P!Engines

(* The two instances of PrefillFirst are the same. *)
LEMMA SameVars ==
  /\ UNCHANGED P!vars <=> UNCHANGED routerVars
  /\ UNCHANGED Router!vars <=> UNCHANGED routerVars
  BY DEF routerVars, P!vars, Router!vars, P!routing, Router!routing, P!workerVars,
         Router!workerVars, P!loopVars, Router!loopVars, P!requestVars,
         Router!requestVars

LEMMA SameInit == P!Init <=> Router!Init
  BY DEF P!Init, Router!Init, P!SchedulerInit, Router!SchedulerInit, P!Engines,
         Router!Engines, P!NoResults, Router!NoResults

LEMMA SameTypes == P!TypeOK <=> Router!TypeOK
  BY DEF P!TypeOK, Router!TypeOK, P!Engines, Router!Engines, P!WorkerPos,
         Router!WorkerPos, P!LoopPos, Router!LoopPos, P!Status, Router!Status,
         P!Item, Router!Item, P!ItemStatus, Router!ItemStatus, P!Client,
         Router!Client

LEMMA SameLifecycle ==
  /\ P!Lifecycle!Init <=> Router!Lifecycle!Init
  /\ P!Lifecycle!Next <=> Router!Lifecycle!Next
  /\ P!Lifecycle!vars = Router!Lifecycle!vars
  BY DEF P!Lifecycle!vars, Router!Lifecycle!vars, P!Lifecycle!Init,
         Router!Lifecycle!Init, P!Lifecycle!Next, Router!Lifecycle!Next,
         P!Lifecycle!Move, Router!Lifecycle!Move, P!Lifecycle!Accept,
         Router!Lifecycle!Accept, P!Lifecycle!Start, Router!Lifecycle!Start,
         P!Lifecycle!Emit, Router!Lifecycle!Emit, P!Lifecycle!Conclude,
         Router!Lifecycle!Conclude, P!Lifecycle!Stay, Router!Lifecycle!Stay,
         P!Lifecycle!Keeps, Router!Lifecycle!Keeps, P!Lifecycle!Grows,
         Router!Lifecycle!Grows, P!Lifecycle!Concluded,
         Router!Lifecycle!Concluded

LEMMA SameActions ==
  /\ \A r \in Req : P!Reader(r) <=> Router!Reader(r)
  /\ \A r \in Req : P!Cleanup(r) <=> Router!Cleanup(r)
  /\ P!Take(0) <=> Router!Take(0)
  /\ P!StopDecode(0) <=> Router!StopDecode(0)
  /\ P!Resume(0) <=> Router!Resume(0)
  /\ \A ts : P!PrefillOk(0, ts) <=> Router!PrefillOk(0, ts)
  /\ \A ts : P!PrefillCompleted(0, ts) <=> Router!PrefillCompleted(0, ts)
  /\ P!PrefillRejected(0) <=> Router!PrefillRejected(0)
  /\ P!PrefillRaised(0) <=> Router!PrefillRaised(0)
  /\ P!PrefillCleared(0) <=> Router!PrefillCleared(0)
  /\ P!LoopTop(0) <=> Router!LoopTop(0)
  /\ P!CancelledCleared(0) <=> Router!CancelledCleared(0)
  /\ \A a : P!StepAnswered(0, a) <=> Router!StepAnswered(0, a)
  /\ P!StepDone(0) <=> Router!StepDone(0)
  /\ P!BatchFailed(0) <=> Router!BatchFailed(0)
  /\ \A r \in Req : P!Apply(0, r) <=> Router!Apply(0, r)
  /\ \A r \in Req : P!FailOne(0, r) <=> Router!FailOne(0, r)
  /\ P!FailDone(0) <=> Router!FailDone(0)
  /\ P!Finalized(0) <=> Router!Finalized(0)
  /\ P!Leave(0) <=> Router!Leave(0)
<1>1. \A r \in Req : P!Reader(r) <=> Router!Reader(r)
  BY DEF P!Reader, Router!Reader, P!Submit, Router!Submit, P!NextIndex,
         Router!NextIndex, P!Enqueued, Router!Enqueued, P!ReadToEnd,
         Router!ReadToEnd, P!Cancel, Router!Cancel, P!Drop, Router!Drop,
         P!routing, Router!routing, P!workerVars, Router!workerVars,
         P!loopVars, Router!loopVars, P!requestVars, Router!requestVars
<1>2. \A r \in Req : P!Cleanup(r) <=> Router!Cleanup(r)
  BY DEF P!Cleanup, Router!Cleanup, P!routing, Router!routing, P!workerVars,
         Router!workerVars, P!loopVars, Router!loopVars, P!requestVars,
         Router!requestVars
<1>3. P!Take(0) <=> Router!Take(0)
  BY DEF P!Take, Router!Take, P!DecodeTaskDone, Router!DecodeTaskDone,
         P!Prefill, Router!Prefill, P!routing, Router!routing, P!workerVars,
         Router!workerVars, P!loopVars, Router!loopVars, P!requestVars,
         Router!requestVars
<1>4. P!StopDecode(0) <=> Router!StopDecode(0)
  BY DEF P!StopDecode, Router!StopDecode, P!routing, Router!routing,
         P!workerVars, Router!workerVars, P!loopVars, Router!loopVars,
         P!requestVars, Router!requestVars
<1>5. P!Resume(0) <=> Router!Resume(0)
  BY DEF P!Resume, Router!Resume, P!DecodeTaskDone, Router!DecodeTaskDone,
         P!Prefill, Router!Prefill, P!routing, Router!routing, P!workerVars,
         Router!workerVars, P!loopVars, Router!loopVars, P!requestVars,
         Router!requestVars
<1>6. \A ts : P!PrefillOk(0, ts) <=> Router!PrefillOk(0, ts)
  BY DEF P!PrefillOk, Router!PrefillOk, P!Advance, Router!Advance, P!Prefill,
         Router!Prefill, P!StartDecode, Router!StartDecode, P!routing,
         Router!routing, P!workerVars, Router!workerVars, P!loopVars,
         Router!loopVars, P!requestVars, Router!requestVars
<1>7. \A ts : P!PrefillCompleted(0, ts) <=> Router!PrefillCompleted(0, ts)
  BY DEF P!PrefillCompleted, Router!PrefillCompleted, P!Advance,
         Router!Advance, P!Prefill, Router!Prefill, P!StartDecode,
         Router!StartDecode, P!routing, Router!routing, P!workerVars,
         Router!workerVars, P!loopVars, Router!loopVars, P!requestVars,
         Router!requestVars
<1>8. P!PrefillRejected(0) <=> Router!PrefillRejected(0)
  BY DEF P!PrefillRejected, Router!PrefillRejected, P!routing, Router!routing,
         P!workerVars, Router!workerVars, P!loopVars, Router!loopVars,
         P!requestVars, Router!requestVars
<1>9. P!PrefillRaised(0) <=> Router!PrefillRaised(0)
  BY DEF P!PrefillRaised, Router!PrefillRaised, P!PrefillError,
         Router!PrefillError, P!Advance, Router!Advance, P!Prefill,
         Router!Prefill, P!StartDecode, Router!StartDecode, P!routing,
         Router!routing, P!workerVars, Router!workerVars, P!loopVars,
         Router!loopVars, P!requestVars, Router!requestVars
<1>10. P!PrefillCleared(0) <=> Router!PrefillCleared(0)
  BY DEF P!PrefillCleared, Router!PrefillCleared, P!PrefillError,
         Router!PrefillError, P!Advance, Router!Advance, P!Prefill,
         Router!Prefill, P!StartDecode, Router!StartDecode, P!routing,
         Router!routing, P!workerVars, Router!workerVars, P!loopVars,
         Router!loopVars, P!requestVars, Router!requestVars
<1>11. P!LoopTop(0) <=> Router!LoopTop(0)
  BY DEF P!LoopTop, Router!LoopTop, P!CancelledHere, Router!CancelledHere,
         P!ClearOrStep, Router!ClearOrStep, P!routing, Router!routing,
         P!workerVars, Router!workerVars, P!loopVars, Router!loopVars,
         P!requestVars, Router!requestVars
<1>12. P!CancelledCleared(0) <=> Router!CancelledCleared(0)
  BY DEF P!CancelledCleared, Router!CancelledCleared, P!ClearOrStep,
         Router!ClearOrStep, P!routing, Router!routing, P!workerVars,
         Router!workerVars, P!loopVars, Router!loopVars, P!requestVars,
         Router!requestVars
<1>13. \A a : P!StepAnswered(0, a) <=> Router!StepAnswered(0, a)
  BY DEF P!StepAnswered, Router!StepAnswered, P!Restrict, Router!Restrict,
         P!routing, Router!routing,
         P!workerVars, Router!workerVars, P!loopVars, Router!loopVars,
         P!requestVars, Router!requestVars
<1>14. P!StepDone(0) <=> Router!StepDone(0)
  BY DEF P!StepDone, Router!StepDone, P!routing, Router!routing, P!workerVars,
         Router!workerVars, P!loopVars, Router!loopVars, P!requestVars,
         Router!requestVars
<1>15. P!BatchFailed(0) <=> Router!BatchFailed(0)
  BY DEF P!BatchFailed, Router!BatchFailed, P!routing, Router!routing,
         P!workerVars, Router!workerVars, P!loopVars, Router!loopVars,
         P!requestVars, Router!requestVars
<1>16. \A r \in Req : P!Apply(0, r) <=> Router!Apply(0, r)
  BY DEF P!Apply, Router!Apply, P!Restrict, Router!Restrict,
         P!Finalize, Router!Finalize, P!routing,
         Router!routing, P!workerVars, Router!workerVars, P!loopVars,
         Router!loopVars, P!requestVars, Router!requestVars
<1>17. \A r \in Req : P!FailOne(0, r) <=> Router!FailOne(0, r)
  BY DEF P!FailOne, Router!FailOne, P!Finalize, Router!Finalize, P!routing,
         Router!routing, P!workerVars, Router!workerVars, P!loopVars,
         Router!loopVars, P!requestVars, Router!requestVars
<1>18. P!FailDone(0) <=> Router!FailDone(0)
  BY DEF P!FailDone, Router!FailDone, P!routing, Router!routing, P!workerVars,
         Router!workerVars, P!loopVars, Router!loopVars, P!requestVars,
         Router!requestVars
<1>19. P!Finalized(0) <=> Router!Finalized(0)
  BY DEF P!Finalized, Router!Finalized, P!routing, Router!routing,
         P!workerVars, Router!workerVars, P!loopVars, Router!loopVars,
         P!requestVars, Router!requestVars
<1>20. P!Leave(0) <=> Router!Leave(0)
  BY DEF P!Leave, Router!Leave, P!routing, Router!routing, P!workerVars,
         Router!workerVars, P!loopVars, Router!loopVars, P!requestVars,
         Router!requestVars
<1> QED
  BY <1>1, <1>2, <1>3, <1>4, <1>5, <1>6, <1>7, <1>8, <1>9, <1>10, <1>11,
     <1>12, <1>13, <1>14, <1>15, <1>16, <1>17, <1>18, <1>19, <1>20


-----------------------------------------------------------------------------
(* The engine                                                              *)

(* What a call may be answered, and what a call may be. *)
Statuses(op) ==
  IF op = "prefill" THEN {"PREFILL_COMPLETED", "COMPLETED", "ERROR"}
                    ELSE {"PROGRESS", "COMPLETED", "ERROR"}
Items(op) == [status : Statuses(op), tokens : Outputs]
Answered_(op) == UNION {[ids -> Items(op)] : ids \in SUBSET Req}
CallsOf(op) ==
  [op : {op}, at : Position, batch : SUBSET Req, greedy : BOOLEAN,
   answer : Answered_(op), todo : SUBSET Req, seen : SUBSET Req,
   left : SUBSET Req]
Calls == UNION {CallsOf(op) : op \in Operation}

QueueTypes ==
  /\ prefill_queue \subseteq Req /\ decode_queue \subseteq Req
  /\ prefill_queue \intersect decode_queue = {}
  /\ all_greedy \in BOOLEAN
  /\ contexts \subseteq Req /\ uneven \subseteq Req
  /\ generated \in [Req -> 0 .. MaxNewTokens]

(* Up to the first token, up to the decode queue, and in no queue at all   *)
(* on the way from one to the other.                                       *)
Early(c) ==
  \A r \in c.batch :
    /\ c.at \in {"sent", "forward"} => generated[r] = 0
    /\ c.at \in {"sent", "forward", "popped"} => r \notin decode_queue
    /\ c.at = "popped" => r \notin prefill_queue

CallInv(t) ==
  call[t].op = "prefill" =>
    /\ \E r \in Req : call[t].batch = {r}
    /\ Early(call[t])

(* Two prefills are of two requests. *)
Apart(t, u) ==
  t # u /\ call[t].op = "prefill" /\ call[u].op = "prefill"
    => call[t].batch \intersect call[u].batch = {}

EngineInv ==
  /\ QueueTypes
  /\ call \in [Thread -> Calls \union {Unused}]
  /\ \A t \in Thread : CallInv(t)
  /\ \A t, u \in Thread : Apart(t, u)

(* A step of the call of t spares the requests that are neither decoded    *)
(* nor being prefilled by it.                                              *)
Spares(t) ==
  \A r \in Req :
    r \notin decode_queue /\ (call[t].op = "prefill" => r \notin call[t].batch) =>
      /\ generated'[r] = generated[r] /\ r \notin decode_queue'
      /\ r \in prefill_queue' => r \in prefill_queue

(* It leaves alone what its call is, the other calls and those requests.   *)
Others(t) ==
  /\ call[t] # Unused /\ call'[t] # Unused /\ call'[t].op = call[t].op
  /\ call[t].op # "decode" => call'[t].batch = call[t].batch
  /\ \A u \in Thread : u # t => call'[u] = call[u]
  /\ Spares(t)

(* A call goes on: c takes the place of the call of t. *)
LEMMA CallGoesOn ==
  ASSUME EngineInv, NEW t \in Thread, NEW c \in CallsOf(call[t].op),
         call[t] # Unused, call' = [call EXCEPT ![t] = c],
         c.op # "decode" => c.batch = call[t].batch,
         c.op = "prefill" => Early(c)',
         QueueTypes', Spares(t)
  PROVE  EngineInv' /\ Others(t)
<1>1. /\ call[t].op \in Operation /\ c.op = call[t].op
      /\ call[t].batch \subseteq Req
      /\ c \in Calls
  BY DEF EngineInv, Calls, CallsOf
<1>2. /\ call' \in [Thread -> Calls \union {Unused}]
      /\ call'[t] = c
      /\ \A u \in Thread : u # t => call'[u] = call[u]
  BY <1>1 DEF EngineInv
<1>3. ASSUME NEW u \in Thread, u # t, call[u].op = "prefill" PROVE Early(call[u])'
  <2>1. Early(call[u]) /\ call[u].batch \subseteq Req /\ call'[u] = call[u]
    BY <1>2, <1>3 DEF EngineInv, CallInv
  <2>2. \A r \in call[u].batch : call[t].op = "prefill" => r \notin call[t].batch
    BY <1>3 DEF EngineInv, Apart
  <2> QED
    BY <2>1, <2>2 DEF Early, Spares
<1>4. ASSUME NEW u \in Thread PROVE CallInv(u)'
  <2>1. CASE u = t
    <3>1. Early(c)' => Early(call[t])'
      BY <1>2 DEF Early
    <3> QED
      BY <1>1, <1>2, <2>1, <3>1 DEF EngineInv, CallInv
  <2>2. CASE u # t
    BY <1>2, <1>3, <2>2 DEF EngineInv, CallInv
  <2> QED
    BY <2>1, <2>2
<1>5. ASSUME NEW u \in Thread, NEW v \in Thread PROVE Apart(u, v)'
  <2>1. \A w \in {u, v} : /\ call'[w].op = call[w].op
                          /\ call[w].op = "prefill" => call'[w].batch = call[w].batch
    BY <1>1, <1>2
  <2> QED
    BY <2>1 DEF EngineInv, Apart
<1>6. Others(t)
  BY <1>1, <1>2 DEF Others, Unused, Operation
<1> QED
  BY <1>2, <1>4, <1>5, <1>6 DEF EngineInv

(* Nothing was answered, or an error per request. *)
LEMMA NoItemsFit == \A op : NoItems \in Answered_(op)
<1> SUFFICES ASSUME NEW op PROVE NoItems \in Answered_(op)
  OBVIOUS
<1>1. NoItems \in [{} -> Items(op)]
  BY DEF NoItems
<1> QED
  BY <1>1 DEF Answered_

LEMMA FailedFit == \A op : \A ids \in SUBSET Req : Failed(ids) \in Answered_(op)
<1> SUFFICES ASSUME NEW op, NEW ids \in SUBSET Req PROVE Failed(ids) \in Answered_(op)
  OBVIOUS
<1>1. Failed(ids) \in [ids -> Items(op)]
  BY DEF Failed, Items, Statuses, Outputs
<1> QED
  BY <1>1 DEF Answered_

(* An item with the next token, for every id of a set. *)
LEMMA ProducedFit ==
  ASSUME NEW op, NEW ids \in SUBSET Req, NEW st \in [ids -> Statuses(op)],
         \A r \in ids : generated[r] + 1 \in 1 .. MaxNewTokens
  PROVE  [r \in ids |-> Produced(r, st[r])] \in Answered_(op)
<1>1. ASSUME NEW r \in ids PROVE Produced(r, st[r]) \in Items(op)
  BY DEF Produced, Items, Outputs, Places
<1>2. [r \in ids |-> Produced(r, st[r])] \in [ids -> Items(op)]
  BY <1>1
<1> QED
  BY <1>2 DEF Answered_

(* What is left of a call whose removal has raised. *)
LEMMA RaisesTo ==
  ASSUME call \in [Thread -> Calls \union {Unused}], NEW t \in Thread,
         call[t] # Unused, Raises(t)
  PROVE  \E c \in CallsOf(call[t].op) :
           /\ call' = [call EXCEPT ![t] = c] /\ c.batch = call[t].batch
           /\ c.left = {} /\ c.seen = {}
           /\ IF c.op = "decode" /\ call[t].answer # Failed(call[t].batch)
                THEN c.at = "failing" /\ c.todo = c.batch /\ c.answer = Failed(c.batch)
                ELSE /\ c.at = IF c.op = "prefill" THEN "answered" ELSE "raised"
                     /\ c.todo = {} /\ c.answer = NoItems
<1>1. call[t] \in CallsOf(call[t].op) /\ call[t].batch \subseteq Req
  BY DEF Calls, CallsOf
<1>2. CASE call[t].op = "decode" /\ call[t].answer # Failed(call[t].batch)
  <2> DEFINE c == [call[t] EXCEPT !.at = "failing", !.todo = call[t].batch,
                     !.answer = Failed(call[t].batch), !.left = {}, !.seen = {}]
  <2>1. Failed(call[t].batch) \in Answered_(call[t].op)
    BY <1>1, FailedFit
  <2>2. c \in CallsOf(call[t].op) /\ c.batch = call[t].batch /\ c.op = "decode"
    BY <1>1, <1>2, <2>1 DEF CallsOf, Position
  <2>3. call' = [call EXCEPT ![t] = c]
    BY <1>2 DEF Raises, Fails
  <2> QED
    BY <1>1, <1>2, <2>2, <2>3 DEF CallsOf
<1>3. CASE ~ (call[t].op = "decode" /\ call[t].answer # Failed(call[t].batch))
  <2> DEFINE c == [call[t] EXCEPT
               !.at = IF call[t].op = "prefill" THEN "answered" ELSE "raised",
               !.answer = NoItems, !.todo = {}, !.left = {}, !.seen = {}]
  <2>1. c \in CallsOf(call[t].op) /\ c.batch = call[t].batch /\ c.op = call[t].op
    BY <1>1, NoItemsFit DEF CallsOf, Position, Over
  <2>2. call' = [call EXCEPT ![t] = c]
    BY <1>3 DEF Raises
  <2> QED
    BY <1>1, <1>3, <2>1, <2>2 DEF CallsOf
<1> QED
  BY <1>2, <1>3

(* What the invariant says of the call of t. *)
LEMMA TheCall ==
  ASSUME EngineInv, NEW t \in Thread, call[t] # Unused
  PROVE  /\ call[t] \in CallsOf(call[t].op) /\ call[t].op \in Operation
         /\ call[t].batch \subseteq Req /\ call[t].left \subseteq Req
         /\ call \in [Thread -> Calls \union {Unused}] /\ QueueTypes
         /\ call[t].op = "prefill" =>
              /\ Prefilled(t) \in Req /\ call[t].batch = {Prefilled(t)}
              /\ Early(call[t])
<1>1. call \in [Thread -> Calls \union {Unused}] /\ QueueTypes /\ CallInv(t)
  BY DEF EngineInv
<1>2. call[t] \in CallsOf(call[t].op) /\ call[t].op \in Operation
  BY <1>1 DEF Calls, CallsOf
<1>3. call[t].batch \subseteq Req /\ call[t].left \subseteq Req
  BY <1>2 DEF CallsOf
<1> QED
  BY <1>1, <1>2, <1>3 DEF CallInv, Prefilled

(* The steps that leave the queues alone. *)
LEMMA NothingMoves ==
  ASSUME EngineInv, NEW t \in Thread, UNCHANGED <<prefill_queue, decode_queue>>,
         UNCHANGED generated, all_greedy' \in BOOLEAN, contexts' \subseteq Req,
         uneven' \subseteq Req
  PROVE  QueueTypes' /\ Spares(t)
  BY DEF EngineInv, QueueTypes, Spares

LEMMA RemoveStepInv ==
  ASSUME EngineInv, NEW t \in Thread, RemoveStep(t)
  PROVE  EngineInv' /\ Others(t) /\ UNCHANGED generated
<1>0. \/ Looking(t) \/ At(t, "pop_prefill") \/ At(t, "pop_decode")
      \/ At(t, "recount") \/ At(t, "counted")
  BY DEF RemoveStep, RemoveFinds, RemovePops, RemoveMisses, RemoveReads,
     RemoveScans, RemoveCounts
<1>1. call[t] # Unused
  BY <1>0 DEF Looking, At, Runs, Unused
<1>2. /\ call[t] \in CallsOf(call[t].op) /\ call[t].op \in Operation
      /\ call[t].batch \subseteq Req
      /\ call \in [Thread -> Calls \union {Unused}] /\ QueueTypes
  BY <1>1, TheCall, ZenonT(30)
<1>3. UNCHANGED generated
  BY DEF RemoveStep, RemoveFinds, RemovePops, RemoveMisses, RemoveReads,
     RemoveScans, RemoveCounts
<1> SUFFICES EngineInv' /\ Others(t)
  BY <1>3
<1>G. ASSUME NEW c \in CallsOf(call[t].op), call' = [call EXCEPT ![t] = c],
             c.batch = call[t].batch, c.at \in {"removing", "pop_prefill", "pop_decode", "recount",
                      "counted", "failing"} \union Over,
             QueueTypes', Spares(t)
      PROVE  EngineInv' /\ Others(t)
  BY <1>1, <1>G, CallGoesOn DEF Early, Over
<1>R. ASSUME Raises(t), QueueTypes', Spares(t)
      PROVE  EngineInv' /\ Others(t)
  <2>1. PICK c \in CallsOf(call[t].op) :
          /\ call' = [call EXCEPT ![t] = c] /\ c.batch = call[t].batch
          /\ c.at \in {"failing", "answered", "raised"}
    BY <1>1, <1>2, <1>R, RaisesTo
  <2> QED
    BY <1>G, <1>R, <2>1 DEF Over
<1>4. CASE RemoveFinds(t)
  <2>1. PICK r \in call[t].left :
          call' = [call EXCEPT
            ![t].left = @ \ {r},
            ![t].seen = {r} \intersect (prefill_queue \union decode_queue),
            ![t].at = IF r \in prefill_queue THEN "pop_prefill"
                      ELSE IF r \in decode_queue THEN "pop_decode" ELSE "removing"]
    BY <1>4 DEF RemoveFinds
  <2> DEFINE c == [call[t] EXCEPT
               !.left = @ \ {r},
               !.seen = {r} \intersect (prefill_queue \union decode_queue),
               !.at = IF r \in prefill_queue THEN "pop_prefill"
                      ELSE IF r \in decode_queue THEN "pop_decode" ELSE "removing"]
  <2>2. call' = [call EXCEPT ![t] = c]
    BY <1>2, <2>1
  <2>3. c \in CallsOf(call[t].op) /\ c.batch = call[t].batch
        /\ c.at \in {"pop_prefill", "pop_decode", "removing"}
    BY <1>2 DEF CallsOf, Position, QueueTypes
  <2>4. QueueTypes' /\ Spares(t)
    BY <1>2, <1>4, NothingMoves DEF RemoveFinds, queues, QueueTypes
  <2> HIDE DEF c
  <2>5. PICK d \in CallsOf(call[t].op) :
          /\ call' = [call EXCEPT ![t] = d] /\ d.batch = call[t].batch
          /\ d.at \in {"pop_prefill", "pop_decode", "removing"}
    BY <2>2, <2>3
  <2> QED
    BY <1>G, <2>4, <2>5
<1>5. CASE RemovePops(t)
  <2>1. /\ decode_queue' \subseteq decode_queue /\ prefill_queue' \subseteq prefill_queue
        /\ contexts' \subseteq contexts /\ UNCHANGED <<all_greedy, uneven, generated>>
    BY <1>5 DEF RemovePops
  <2>2. QueueTypes' /\ Spares(t)
    BY <1>2, <2>1 DEF QueueTypes, Spares
  <2>3. CASE call' = [call EXCEPT ![t].at = "removing", ![t].seen = {}]
    <3> DEFINE c == [call[t] EXCEPT !.at = "removing", !.seen = {}]
    <3>1. /\ call' = [call EXCEPT ![t] = c] /\ c \in CallsOf(call[t].op)
          /\ c.batch = call[t].batch /\ c.at = "removing"
      BY <1>2, <2>3 DEF CallsOf, Position
    <3>2. PICK d \in CallsOf(call[t].op) :
            /\ call' = [call EXCEPT ![t] = d] /\ d.batch = call[t].batch
            /\ d.at = "removing"
      BY <3>1
    <3> QED
      BY <1>G, <2>2, <3>2
  <2> QED
    BY <1>5, <1>R, <2>2, <2>3 DEF RemovePops
<1>6. CASE RemoveMisses(t)
  <2>1. QueueTypes' /\ Spares(t)
    BY <1>2, <1>6, NothingMoves DEF RemoveMisses, queues, QueueTypes
  <2> QED
    BY <1>6, <1>R, <2>1 DEF RemoveMisses
<1>7. CASE RemoveReads(t)
  <2> DEFINE c == [call[t] EXCEPT !.at = IF all_greedy THEN Return(t) ELSE "recount"]
  <2>1. /\ call' = [call EXCEPT ![t] = c] /\ c \in CallsOf(call[t].op)
        /\ c.batch = call[t].batch /\ c.at \in {"answered", "failing", "recount"}
    BY <1>2, <1>7 DEF RemoveReads, Goes, Return, CallsOf, Position, Over
  <2>2. QueueTypes' /\ Spares(t)
    BY <1>2, <1>7, NothingMoves DEF RemoveReads, queues, QueueTypes
  <2> HIDE DEF c
  <2>3. PICK d \in CallsOf(call[t].op) :
          /\ call' = [call EXCEPT ![t] = d] /\ d.batch = call[t].batch
          /\ d.at \in {"answered", "failing", "recount"}
    BY <2>1
  <2> QED
    BY <1>G, <2>2, <2>3 DEF Over
<1>8. CASE RemoveScans(t)
  <2> DEFINE c == [call[t] EXCEPT !.at = "counted", !.seen = decode_queue]
  <2>1. /\ call' = [call EXCEPT ![t] = c] /\ c \in CallsOf(call[t].op)
        /\ c.batch = call[t].batch /\ c.at = "counted"
    BY <1>2, <1>8 DEF RemoveScans, CallsOf, Position, QueueTypes
  <2>2. QueueTypes' /\ Spares(t)
    BY <1>2, <1>8, NothingMoves DEF RemoveScans, queues, QueueTypes
  <2> HIDE DEF c
  <2>3. PICK d \in CallsOf(call[t].op) :
          /\ call' = [call EXCEPT ![t] = d] /\ d.batch = call[t].batch
          /\ d.at = "counted"
    BY <2>1
  <2> QED
    BY <1>G, <2>2, <2>3 DEF Over
<1>9. CASE RemoveCounts(t)
  <2>1. QueueTypes' /\ Spares(t)
    BY <1>2, <1>9, NothingMoves DEF RemoveCounts, QueueTypes
  <2>2. CASE call' = [call EXCEPT ![t].at = Return(t), ![t].seen = {}]
    <3> DEFINE c == [call[t] EXCEPT !.at = Return(t), !.seen = {}]
    <3>1. /\ call' = [call EXCEPT ![t] = c] /\ c \in CallsOf(call[t].op)
          /\ c.batch = call[t].batch /\ c.at \in {"answered", "failing"}
      BY <1>2, <2>2 DEF Return, CallsOf, Position, Over
    <3> HIDE DEF c
    <3>2. PICK d \in CallsOf(call[t].op) :
            /\ call' = [call EXCEPT ![t] = d] /\ d.batch = call[t].batch
            /\ d.at \in {"answered", "failing"}
      BY <3>1
    <3> QED
      BY <1>G, <2>1, <3>2 DEF Over
  <2> QED
    BY <1>9, <1>R, <2>1, <2>2 DEF RemoveCounts
<1> QED
  BY <1>4, <1>5, <1>6, <1>7, <1>8, <1>9, ZenonT(30) DEF RemoveStep

LEMMA PrefillStepInv ==
  ASSUME EngineInv, NEW t \in Thread,
         \/ PrefillInvalid(t) \/ PrefillStart(t) \/ PrefillFails(t)
         \/ PrefillBreaks(t) \/ PrefillStops(t) \/ PrefillMoves(t)
         \/ MoveToDecodeQueue(t)
  PROVE  EngineInv' /\ Others(t)
<1> DEFINE r == Prefilled(t)
<1>1. call[t] # Unused /\ call[t].op = "prefill"
  BY DEF PrefillInvalid, PrefillStart, PrefillFails, PrefillBreaks, PrefillStops,
     PrefillMoves, MoveToDecodeQueue, Runs, Unused
<1>2. /\ call[t] \in CallsOf("prefill")
      /\ call \in [Thread -> Calls \union {Unused}] /\ QueueTypes
      /\ r \in Req /\ call[t].batch = {r} /\ Early(call[t])
      /\ MaxNewTokens \in Nat \ {0}
  BY <1>1, TheCall, BoundAssumption
<1>G. ASSUME NEW c \in CallsOf("prefill"), call' = [call EXCEPT ![t] = c],
             c.batch = {r}, Early(c)', QueueTypes', Spares(t)
      PROVE  EngineInv' /\ Others(t)
  BY <1>1, <1>2, <1>G, CallGoesOn
<1>A. ASSUME NEW answer \in Answered_("prefill"),
             NEW at \in Position, at \notin {"sent", "forward"},
             NEW left \in SUBSET Req,
             call' = [call EXCEPT ![t].at = at, ![t].left = left, ![t].answer = answer],
             at = "popped" => r \notin decode_queue' /\ r \notin prefill_queue',
             QueueTypes', Spares(t)
      PROVE  EngineInv' /\ Others(t)
  <2> DEFINE c == [call[t] EXCEPT !.at = at, !.left = left, !.answer = answer]
  <2>1. /\ call' = [call EXCEPT ![t] = c] /\ c \in CallsOf("prefill")
        /\ c.batch = {r} /\ c.at = at
    BY <1>2, <1>A DEF CallsOf
  <2> HIDE DEF c
  <2>2. PICK d \in CallsOf("prefill") :
          call' = [call EXCEPT ![t] = d] /\ d.batch = {r} /\ d.at = at
    BY <2>1
  <2>3. Early(d)'
    BY <1>A, <2>2 DEF Early
  <2> QED
    BY <1>A, <1>G, <2>2, <2>3
<1>B. ASSUME NEW answer \in Answered_("prefill"), Answer(t, answer),
             QueueTypes', Spares(t)
      PROVE  EngineInv' /\ Others(t)
  <2>1. call' = [call EXCEPT ![t].at = "answered", ![t].left = call[t].left,
                             ![t].answer = answer]
    BY <1>2, <1>B DEF Answer, CallsOf
  <2>2. call[t].left \in SUBSET Req /\ "answered" \in Position
    BY <1>2 DEF CallsOf, Position, Over
  <2> QED
    BY <1>A, <1>B, <2>1, <2>2
<1>C. ASSUME NEW answer \in Answered_("prefill"), Removes(t, {r}, answer),
             QueueTypes', Spares(t)
      PROVE  EngineInv' /\ Others(t)
  <2>1. {r} \in SUBSET Req /\ "removing" \in Position
    BY <1>2 DEF Position
  <2> QED
    BY <1>A, <1>C, <2>1 DEF Removes
<1>F. ASSUME call[t].at = "forward", NEW st \in Statuses("prefill"),
             generated' = [generated EXCEPT ![r] = @ + 1]
      PROVE  /\ [q \in {r} |-> Produced(r, st)] \in Answered_("prefill")
             /\ generated' \in [Req -> 0 .. MaxNewTokens]
             /\ \A q \in Req : q # r => generated'[q] = generated[q]
  <2>1. generated[r] = 0 /\ generated[r] + 1 \in 1 .. MaxNewTokens
    BY <1>2, <1>F DEF Early
  <2>2. [q \in {r} |-> st] \in [{r} -> Statuses("prefill")] /\ {r} \in SUBSET Req
    BY <1>2
  <2>3. [q \in {r} |-> Produced(q, [p \in {r} |-> st][q])] \in Answered_("prefill")
    BY <2>1, <2>2, ProducedFit
  <2>4. [q \in {r} |-> Produced(q, [p \in {r} |-> st][q])]
          = [q \in {r} |-> Produced(r, st)]
    OBVIOUS
  <2>5. /\ generated' \in [Req -> 0 .. MaxNewTokens]
        /\ \A q \in Req : q # r => generated'[q] = generated[q]
    BY <1>2, <1>F, <2>1 DEF QueueTypes
  <2> QED
    BY <2>3, <2>4, <2>5
<1> HIDE DEF r
<1>3. CASE PrefillInvalid(t)
  <2>1. QueueTypes' /\ Spares(t)
    BY <1>2, <1>3, NothingMoves DEF PrefillInvalid, QueueTypes, r
  <2> QED
    BY <1>3, <1>B, <2>1, NoItemsFit DEF PrefillInvalid
<1>4. CASE PrefillStart(t)
  <2> DEFINE c == [call[t] EXCEPT !.at = "forward"]
  <2>1. /\ call[t].at = "sent" /\ UNCHANGED <<decode_queue, all_greedy, uneven, generated>>
        /\ prefill_queue' = prefill_queue \union {r} /\ contexts' = contexts \union {r}
    BY <1>4 DEF PrefillStart, Runs, r
  <2>2. call' = [call EXCEPT ![t] = c] /\ c \in CallsOf("prefill") /\ c.batch = {r}
        /\ c.at = "forward"
    BY <1>2, <1>4 DEF PrefillStart, Goes, CallsOf, Position
  <2> HIDE DEF c
  <2>3. generated[r] = 0 /\ r \notin decode_queue
    BY <1>2, <2>1 DEF Early
  <2>4. PICK d \in CallsOf("prefill") :
          call' = [call EXCEPT ![t] = d] /\ d.batch = {r} /\ d.at = "forward"
    BY <2>2
  <2>5. Early(d)'
    BY <2>1, <2>3, <2>4 DEF Early
  <2>6. QueueTypes' /\ Spares(t)
    BY <1>1, <1>2, <2>1, <2>3 DEF QueueTypes, Spares
  <2> QED
    BY <1>G, <2>4, <2>5, <2>6
<1>5. CASE PrefillFails(t)
  <2>1. uneven' \subseteq Req
    BY <1>2, <1>5 DEF PrefillFails, ForwardFails, QueueTypes
  <2>2. QueueTypes' /\ Spares(t)
    BY <1>2, <1>5, <2>1, NothingMoves DEF PrefillFails, QueueTypes
  <2>3. Failed({r}) \in Answered_("prefill")
    BY <1>2, FailedFit
  <2> QED
    BY <1>2, <1>5, <1>C, <2>2, <2>3 DEF PrefillFails
<1>6. CASE PrefillBreaks(t)
  <2>1. QueueTypes' /\ Spares(t)
    BY <1>2, <1>6, NothingMoves DEF PrefillBreaks, queues, QueueTypes
  <2> QED
    BY <1>6, <1>B, <2>1, NoItemsFit DEF PrefillBreaks
<1>7. CASE PrefillStops(t)
  <2>1. /\ call[t].at = "forward" /\ generated' = [generated EXCEPT ![r] = @ + 1]
        /\ Removes(t, {r}, [q \in {r} |-> Produced(r, "COMPLETED")])
        /\ UNCHANGED queues
    BY <1>7 DEF PrefillStops, Runs, r
  <2>2. /\ [q \in {r} |-> Produced(r, "COMPLETED")] \in Answered_("prefill")
        /\ generated' \in [Req -> 0 .. MaxNewTokens]
        /\ \A q \in Req : q # r => generated'[q] = generated[q]
    BY <1>F, <2>1 DEF Statuses
  <2>3. QueueTypes' /\ Spares(t)
    BY <1>1, <1>2, <2>1, <2>2 DEF QueueTypes, Spares, queues
  <2> QED
    BY <1>C, <2>1, <2>2, <2>3
<1>8. CASE PrefillMoves(t)
  <2> DEFINE answer == [q \in {r} |-> Produced(r, "PREFILL_COMPLETED")]
  <2>1. /\ call[t].at = "forward" /\ generated' = [generated EXCEPT ![r] = @ + 1]
        /\ call' = [call EXCEPT ![t].at = "popped", ![t].answer = answer]
        /\ prefill_queue' = prefill_queue \ {r}
        /\ UNCHANGED <<decode_queue, all_greedy, contexts, uneven>>
    BY <1>8 DEF PrefillMoves, Runs, r
  <2>2. /\ answer \in Answered_("prefill")
        /\ generated' \in [Req -> 0 .. MaxNewTokens]
        /\ \A q \in Req : q # r => generated'[q] = generated[q]
    BY <1>F, <2>1 DEF Statuses
  <2> HIDE DEF answer
  <2>3. QueueTypes' /\ Spares(t)
    BY <1>1, <1>2, <2>1, <2>2 DEF QueueTypes, Spares
  <2>4. r \notin decode_queue' /\ r \notin prefill_queue'
    BY <1>2, <2>1 DEF Early
  <2>5. call' = [call EXCEPT ![t].at = "popped", ![t].left = call[t].left,
                             ![t].answer = answer]
    BY <1>2, <2>1 DEF CallsOf
  <2>6. call[t].left \in SUBSET Req /\ "popped" \in Position
    BY <1>2 DEF CallsOf, Position
  <2> QED
    BY <1>A, <2>2, <2>3, <2>4, <2>5, <2>6
<1>9. CASE MoveToDecodeQueue(t)
  <2>1. /\ call[t].at \in {"popped", "inserted", "joined"}
        /\ UNCHANGED <<prefill_queue, contexts, uneven, generated>>
        /\ \/ call[t].at = "popped" /\ decode_queue' = decode_queue \union {r}
           \/ UNCHANGED decode_queue
        /\ UNCHANGED all_greedy \/ all_greedy' = call[t].greedy
    BY <1>2, <1>9 DEF MoveToDecodeQueue, Runs
  <2>2. call[t].greedy \in BOOLEAN /\ (call[t].at = "popped" => r \notin prefill_queue)
    BY <1>2 DEF CallsOf, Early
  <2>3. QueueTypes' /\ Spares(t)
    BY <1>1, <1>2, <2>1, <2>2 DEF QueueTypes, Spares
  <2>4. \E c \in CallsOf("prefill") :
          /\ call' = [call EXCEPT ![t] = c]
          /\ c.batch = {r} /\ c.at \in {"inserted", "joined", "answered"}
    <3> DEFINE i == [call[t] EXCEPT !.at = "inserted"]
               a == [call[t] EXCEPT !.at = "answered"]
               g == all_greedy /\ call[t].batch \subseteq Greedy
               j == [call[t] EXCEPT !.at = "joined", !.greedy = g]
    <3>1. i \in CallsOf("prefill") /\ i.batch = {r} /\ i.at = "inserted"
      BY <1>2 DEF CallsOf, Position
    <3>2. a \in CallsOf("prefill") /\ a.batch = {r} /\ a.at = "answered"
      BY <1>2 DEF CallsOf, Position, Over
    <3>3. j \in CallsOf("prefill") /\ j.batch = {r} /\ j.at = "joined"
      BY <1>2 DEF CallsOf, Position, QueueTypes
    <3>4. \E x \in {i, j, a} : call' = [call EXCEPT ![t] = x]
      BY <1>2, <1>9 DEF MoveToDecodeQueue, Goes, Runs
    <3> HIDE DEF i, j, a
    <3> QED
      BY <3>1, <3>2, <3>3, <3>4
  <2> QED
    BY <1>G, <2>3, <2>4 DEF Early
<1> QED
  BY <1>3, <1>4, <1>5, <1>6, <1>7, <1>8, <1>9

LEMMA DecodeStepInv ==
  ASSUME EngineInv, NEW t \in Thread,
         \/ DecodeStart(t) \/ DecodePrepares(t) \/ DecodeFails(t) \/ DecodeHandles(t)
         \/ \E stopped \in SUBSET call[t].batch : DecodeDone(t, stopped)
  PROVE  EngineInv' /\ Others(t)
<1>0. call[t].op = "decode"
  BY DEF DecodeStart, DecodePrepares, DecodeFails, DecodeHandles, DecodeDone, Runs
<1>1. call[t] # Unused /\ call[t].op = "decode"
  BY <1>0 DEF Unused
<1>2. /\ call[t] \in CallsOf("decode") /\ call[t].batch \subseteq Req
      /\ call \in [Thread -> Calls \union {Unused}] /\ QueueTypes
      /\ MaxNewTokens \in Nat \ {0}
  BY <1>1, TheCall, BoundAssumption
<1>G. ASSUME NEW c \in CallsOf("decode"), call' = [call EXCEPT ![t] = c],
             QueueTypes', Spares(t)
      PROVE  EngineInv' /\ Others(t)
  <2>1. c.op = "decode"
    BY DEF CallsOf
  <2> QED
    BY <1>1, <1>2, <1>G, <2>1, CallGoesOn
<1>3. CASE DecodeStart(t)
  <2> DEFINE c == [call[t] EXCEPT
               !.batch = decode_queue,
               !.at = IF decode_queue = {} THEN "answered" ELSE "keys"]
  <2>1. call' = [call EXCEPT ![t] = c] /\ c \in CallsOf("decode")
    BY <1>2, <1>3 DEF DecodeStart, CallsOf, Position, Over, QueueTypes
  <2>2. QueueTypes' /\ Spares(t)
    BY <1>2, <1>3, NothingMoves DEF DecodeStart, queues, QueueTypes
  <2> HIDE DEF c
  <2> QED
    BY <1>G, <2>1, <2>2
<1>4. CASE DecodePrepares(t)
  <2> DEFINE f == [call[t] EXCEPT !.at = "forward", !.greedy = all_greedy]
             x == [call[t] EXCEPT !.at = "raised"]
  <2>1. f \in CallsOf("decode") /\ x \in CallsOf("decode")
    <3>1. f \in CallsOf("decode")
      BY <1>2 DEF CallsOf, Position, QueueTypes
    <3>2. x \in CallsOf("decode")
      BY <1>2 DEF CallsOf, Position, Over
    <3> QED
      BY <3>1, <3>2
  <2>2. \E c \in {f, x} : call' = [call EXCEPT ![t] = c]
    BY <1>2, <1>4 DEF DecodePrepares, Goes
  <2>3. QueueTypes' /\ Spares(t)
    BY <1>2, <1>4, NothingMoves DEF DecodePrepares, queues, QueueTypes
  <2> HIDE DEF f, x
  <2> QED
    BY <1>G, <2>1, <2>2, <2>3
<1>5. CASE DecodeFails(t)
  <2> DEFINE c == [call[t] EXCEPT !.at = "failing", !.todo = call[t].batch,
                     !.answer = Failed(call[t].batch), !.left = {}, !.seen = {}]
  <2>1. Failed(call[t].batch) \in Answered_("decode")
    BY <1>2, FailedFit
  <2>2. call' = [call EXCEPT ![t] = c] /\ c \in CallsOf("decode")
    BY <1>2, <1>5, <2>1 DEF DecodeFails, Fails, CallsOf, Position
  <2>3. uneven' \subseteq Req
    BY <1>2, <1>5 DEF DecodeFails, ForwardFails, QueueTypes
  <2>4. QueueTypes' /\ Spares(t)
    BY <1>2, <1>5, <2>3, NothingMoves DEF DecodeFails, QueueTypes
  <2> HIDE DEF c
  <2> QED
    BY <1>G, <2>2, <2>4
<1>6. CASE DecodeHandles(t)
  <2>1. PICK r \in call[t].todo :
          call' = [call EXCEPT
            ![t].todo = @ \ {r}, ![t].left = {r} \intersect decode_queue,
            ![t].at = IF r \in decode_queue THEN "removing"
                      ELSE IF call[t].todo = {r} THEN "answered" ELSE "failing"]
    BY <1>6 DEF DecodeHandles
  <2> DEFINE c == [call[t] EXCEPT
               !.todo = @ \ {r}, !.left = {r} \intersect decode_queue,
               !.at = IF r \in decode_queue THEN "removing"
                      ELSE IF call[t].todo = {r} THEN "answered" ELSE "failing"]
  <2>2. call' = [call EXCEPT ![t] = c] /\ c \in CallsOf("decode")
    BY <1>2, <2>1 DEF CallsOf, Position, Over, QueueTypes
  <2>3. QueueTypes' /\ Spares(t)
    BY <1>2, <1>6, NothingMoves DEF DecodeHandles, queues, QueueTypes
  <2> HIDE DEF c
  <2> QED
    BY <1>G, <2>2, <2>3
<1>7. ASSUME NEW stopped \in SUBSET call[t].batch, DecodeDone(t, stopped)
      PROVE  EngineInv' /\ Others(t)
  <2> DEFINE batch == call[t].batch
             st == [r \in batch |-> IF r \in stopped THEN "COMPLETED" ELSE "PROGRESS"]
             items == [r \in batch |->
               Produced(r, IF r \in stopped THEN "COMPLETED" ELSE "PROGRESS")]
  <2>1. /\ batch \subseteq decode_queue /\ UNCHANGED queues
        /\ \A r \in batch : generated[r] + 1 <= MaxNewTokens
        /\ generated' = [r \in Req |-> generated[r] + IF r \in batch THEN 1 ELSE 0]
        /\ IF stopped = {} THEN Answer(t, items) ELSE Removes(t, stopped, items)
    BY <1>7 DEF DecodeDone
  <2>2. \A r \in Req : generated[r] \in 0 .. MaxNewTokens
    BY <1>2 DEF QueueTypes
  <2>3. \A r \in batch : r \in Req /\ generated[r] + 1 \in 1 .. MaxNewTokens
    BY <1>2, <2>1, <2>2
  <2>4. items \in Answered_("decode")
    <3>1. st \in [batch -> Statuses("decode")]
      BY DEF Statuses
    <3>2. [r \in batch |-> Produced(r, st[r])] \in Answered_("decode")
      BY <1>2, <2>3, <3>1, ProducedFit
    <3>3. [r \in batch |-> Produced(r, st[r])] = items
      OBVIOUS
    <3> QED
      BY <3>2, <3>3
  <2>5. /\ generated' \in [Req -> 0 .. MaxNewTokens]
        /\ \A r \in Req : r \notin batch => generated'[r] = generated[r]
    <3>1. \A r \in Req : generated[r] + (IF r \in batch THEN 1 ELSE 0) \in 0 .. MaxNewTokens
      BY <1>2, <2>2, <2>3
    <3> QED
      BY <1>2, <2>1, <2>2, <3>1
  <2>6. QueueTypes' /\ Spares(t)
    BY <1>2, <2>1, <2>5 DEF QueueTypes, Spares, queues
  <2> DEFINE a == [call[t] EXCEPT !.at = "answered", !.answer = items]
             x == [call[t] EXCEPT !.at = "removing", !.left = stopped, !.answer = items]
  <2> HIDE DEF items, batch
  <2>7. stopped \in SUBSET Req
    BY <1>2
  <2>8. a \in CallsOf("decode") /\ x \in CallsOf("decode")
    <3>1. a \in CallsOf("decode")
      BY <1>2, <2>4 DEF CallsOf, Position, Over
    <3>2. x \in CallsOf("decode")
      BY <1>2, <2>4, <2>7 DEF CallsOf, Position
    <3> QED
      BY <3>1, <3>2
  <2>9. \E c \in {a, x} : call' = [call EXCEPT ![t] = c]
    BY <1>2, <2>1 DEF Answer, Removes
  <2> HIDE DEF a, x
  <2> QED
    BY <1>G, <2>6, <2>8, <2>9
<1> QED
  BY <1>3, <1>4, <1>5, <1>6, <1>7

LEMMA CallStepInv ==
  ASSUME EngineInv, NEW t \in Thread, CallStep(t)
  PROVE  EngineInv' /\ Others(t)
  BY RemoveStepInv, PrefillStepInv, DecodeStepInv DEF CallStep


-----------------------------------------------------------------------------
(* The steps of the router                                                 *)

(* Those between two calls, and those that take an answer or an exception. *)
AloneMove ==
  \/ P!Take(0) \/ P!StopDecode(0) \/ P!Resume(0)
  \/ P!LoopTop(0) \/ P!StepDone(0) \/ P!FailDone(0) \/ P!Leave(0)
  \/ \E r \in Req : P!Apply(0, r) \/ P!FailOne(0, r) \/ P!Reader(r) \/ P!Cleanup(r)

ReplyMove ==
  \/ \E ts \in Outputs : P!PrefillOk(0, ts) \/ P!PrefillCompleted(0, ts)
  \/ P!PrefillRejected(0) \/ P!PrefillRaised(0) \/ P!PrefillCleared(0)
  \/ P!CancelledCleared(0) \/ P!Finalized(0) \/ P!BatchFailed(0)
  \/ \E answer \in Answered_("decode") : P!StepAnswered(0, answer)

LEMMA MovesKeep ==
  ASSUME P!PlacesInv, AloneMove \/ ReplyMove
  PROVE  P!PlacesInv' /\ \A r \in Req : P!RequestStep(r)
<1>1. ASSUME NEW answer \in Answered_("decode"), P!StepAnswered(0, answer)
      PROVE  P!PlacesInv' /\ \A r \in Req : P!RequestStep(r)
  <2>1. PICK ids \in SUBSET Req : answer \in [ids -> Items("decode")]
    BY <1>1 DEF Answered_
  <2>2. Outputs \subseteq Seq(Places)
    BY Instance DEF Outputs
  <2>3. Items("decode") \subseteq P!Item
    BY <2>2 DEF Items, Statuses, P!Item, P!ItemStatus
  <2>4. DOMAIN answer \subseteq Req /\ answer \in [DOMAIN answer -> P!Item]
    BY <2>1, <2>3
  <2> QED
    BY <1>1, <2>4, Instance, TheEngine, P!AnyAnswerStep
<1>2. ASSUME [P!Next]_(P!vars)
      PROVE  P!PlacesInv' /\ \A r \in Req : P!RequestStep(r)
  BY <1>2, Instance, P!PlacesStep, P!RequestSteps
<1>3. P!Worker(0) \/ P!DecodeLoop(0) \/ (\E r \in Req : P!Reader(r) \/ P!Cleanup(r))
        => P!Next
  BY TheEngine DEF P!Next
<1>4. AloneMove => P!Next
  BY <1>3 DEF AloneMove, P!Worker, P!DecodeLoop
<1>5. ReplyMove => P!Next \/ \E answer \in Answered_("decode") : P!StepAnswered(0, answer)
  BY <1>3 DEF ReplyMove, Outputs, P!Worker, P!DecodeLoop, P!PrefillAnswer, P!StepAnswer
<1> QED
  BY <1>1, <1>2, <1>4, <1>5

(* A request whose prefill is sent was waiting. *)
LEMMA NewPrefill ==
  ASSUME P!PlacesInv, worker'[0] = "prefilling",
         ReplyMove \/ (AloneMove /\ ~ UNCHANGED <<worker, pending>>)
  PROVE  /\ status[Head(pending'[0])] = "queued"
         /\ status'[Head(pending'[0])] = "processing"
<1>0. /\ P!Places(0) /\ P!Control(0) /\ 0 \in P!Engines
      /\ worker \in [P!Engines -> P!WorkerPos]
      /\ pending \in [P!Engines -> Seq(Req)] /\ pending[0] \in Seq(Req)
      /\ request_queues[0] \in Seq(Req)
      /\ status \in [Req -> P!Status]
  BY TheEngine DEF P!PlacesInv, P!TypeInv, P!TypeOK
<1>1. ASSUME NEW q \in Seq(Req), q # <<>>, P!IsInjective(q)
      PROVE  /\ P!IsInjective(Tail(q)) /\ Head(q) \in Req
             /\ Head(q) \in P!Range(q) 
             /\ P!Range(Tail(q)) = P!Range(q) \ {Head(q)}
             /\ Tail(q) \in Seq(Req)
  BY <1>1, Instance, P!RangeTail
<1>P. ASSUME NEW batch, NEW rest, NEW st, Head(batch) \in Req, st \in [Req -> P!Status], P!Prefill(0, batch, rest, st)
      PROVE  Head(pending'[0]) = Head(batch) /\ status'[Head(batch)] = "processing"
  BY <1>0, <1>P DEF P!Prefill
<1>2. CASE P!Take(0)
  <2>1. /\ request_queues[0] # <<>> /\ ~ P!Prefilling(0)
        /\ P!Prefill(0, request_queues[0], <<>>, status)
    BY <1>2 DEF P!Take, P!Prefilling
  <2>2. Head(request_queues[0]) \in P!Range(request_queues[0]) /\ Head(request_queues[0]) \in Req
    BY <1>0, <1>1, <2>1 DEF P!Places
  <2> QED
    BY <1>0, <1>P, <2>1, <2>2 DEF P!Places, P!InPrefill
<1>3. CASE P!Resume(0)
  <2>1. /\ pending[0] # <<>> /\ ~ P!Prefilling(0)
        /\ P!Prefill(0, pending[0] \o request_queues[0], <<>>, status)
    BY <1>0, <1>3 DEF P!Resume, P!Prefilling, P!Control
  <2>2. Head(pending[0] \o request_queues[0]) = Head(pending[0])
    BY <1>0, <2>1
  <2>3. Head(pending[0]) \in P!Range(pending[0]) /\ Head(pending[0]) \in Req
    BY <1>0, <1>1, <2>1 DEF P!Places
  <2> QED
    BY <1>0, <1>P, <2>1, <2>2, <2>3 DEF P!Places, P!InPrefill
<1>4. ASSUME NEW st, NEW dq, P!Advance(0, st, dq), st \in [Req -> P!Status], worker[0] \in {"prefilling", "clearing"}
      PROVE  /\ status[Head(pending'[0])] = "queued"
             /\ status'[Head(pending'[0])] = "processing"
  <2>1. pending[0] # <<>>
    BY <1>0, <1>4 DEF P!Control
  <2>2. /\ Tail(pending[0]) # <<>>
        /\ P!Prefill(0, Tail(pending[0]), request_queues[0], st)
    BY <1>0, <1>4 DEF P!Advance
  <2>3. /\ Head(Tail(pending[0])) \in P!Range(pending[0]) \ {Head(pending[0])}
        /\ Head(Tail(pending[0])) \in Req
    BY <1>0, <1>1, <2>1, <2>2 DEF P!Places
  <2> QED
    BY <1>0, <1>P, <1>4, <2>2, <2>3 DEF P!Places, P!InPrefill
<1>5. CASE \E ts \in Outputs : P!PrefillOk(0, ts)
  BY <1>0, <1>4, <1>5 DEF P!PrefillOk
<1>6. CASE \E ts \in Outputs : P!PrefillCompleted(0, ts)
  <2>1. \A r : [status EXCEPT ![r] = "completed"] \in [Req -> P!Status]
    BY <1>0 DEF P!Status
  <2> QED
    BY <1>4, <1>6, <2>1 DEF P!PrefillCompleted
<1>7. CASE P!PrefillRaised(0) \/ P!PrefillCleared(0)
  <2>1. \A r : [status EXCEPT ![r] = "error"] \in [Req -> P!Status]
    BY <1>0 DEF P!Status
  <2> QED
    BY <1>4, <1>7, <2>1 DEF P!PrefillRaised, P!PrefillCleared, P!PrefillError
<1>8. CASE P!PrefillRejected(0) \/ P!StopDecode(0)
  BY <1>0, <1>8 DEF P!PrefillRejected, P!StopDecode
<1>9. CASE \/ P!CancelledCleared(0) \/ P!Finalized(0) \/ P!BatchFailed(0)
           \/ \E answer \in Answered_("decode") : P!StepAnswered(0, answer)
  <2>1. loop[0] \in {"clearing", "finalizing", "failclearing", "stepping"} /\ UNCHANGED <<worker, pending>>
    BY <1>9 DEF P!CancelledCleared, P!Finalized, P!BatchFailed, P!StepAnswered, P!workerVars
  <2> QED
    BY <1>0, <2>1 DEF P!Control, P!Prefilling
<1>10. ASSUME P!LoopTop(0) \/ P!StepDone(0) \/ P!FailDone(0) \/ P!Leave(0)
       PROVE  UNCHANGED <<worker, pending>>
  BY <1>10 DEF P!LoopTop, P!StepDone, P!FailDone, P!Leave, P!workerVars
<1>11. ASSUME \E r \in Req : P!Apply(0, r) \/ P!FailOne(0, r) \/ P!Cleanup(r)
       PROVE  UNCHANGED <<worker, pending>>
  BY <1>11 DEF P!Apply, P!FailOne, P!Cleanup, P!workerVars
<1>12. ASSUME \E r \in Req : P!Reader(r)
       PROVE  UNCHANGED <<worker, pending>>
  BY <1>12 DEF P!Reader, P!Submit, P!ReadToEnd, P!Cancel, P!Drop, P!workerVars
<1> QED
  BY <1>2, <1>3, <1>5, <1>6, <1>7, <1>8, <1>9, <1>10, <1>11, <1>12 DEF AloneMove, ReplyMove


-----------------------------------------------------------------------------
(* The router and its calls                                                *)

(* The positions that await a call, and which. *)
WantedOK ==
  /\ worker[0] = "prefilling" =>
       Head(pending[0]) \in Req /\ Wanted = Call("prefill", {Head(pending[0])})
  /\ worker[0] = "clearing" =>
       Head(pending[0]) \in Req /\ Wanted = Call("remove", {Head(pending[0])})
  /\ loop[0] = "stepping" => Wanted = Call("decode", {})
  /\ loop[0] \in {"clearing", "finalizing", "failclearing"} =>
       target[0] \in Req /\ Wanted = Call("remove", {target[0]})
  /\ \/ worker[0] \in {"prefilling", "clearing"}
     \/ loop[0] \in {"stepping", "clearing", "finalizing", "failclearing"}
     \/ Wanted = Unused

LEMMA WantedIs == P!TypeInv => WantedOK
<1> SUFFICES ASSUME P!TypeInv PROVE WantedOK
  OBVIOUS
<1>1. P!Control(0) /\ pending[0] \in Seq(Req)
  BY TheEngine DEF P!TypeInv, P!TypeOK
<1>2. worker[0] \in {"prefilling", "clearing"} =>
        Head(pending[0]) \in Req /\ loop[0] = "none"
  BY <1>1 DEF P!Control, P!Prefilling
<1>3. loop[0] \in {"clearing", "finalizing", "failclearing"} => target[0] \in Req
  BY <1>1 DEF P!Control
<1> QED
  BY <1>2, <1>3 DEF WantedOK, Wanted

LEMMA WantedWillBe == P!TypeInv' => WantedOK'
  BY WantedIs, PTL

(* A call is sent as WantedOK says, with an empty answer. *)
Sendable ==
  \/ Wanted = Unused
  \/ /\ Wanted.op \in Operation /\ Wanted \in CallsOf(Wanted.op)
     /\ Wanted.at = "sent" /\ Wanted.greedy = FALSE /\ Wanted.answer = NoItems
     /\ Wanted.todo = {} /\ Wanted.seen = {}
     /\ Wanted.left = IF Wanted.op = "remove" THEN Wanted.batch ELSE {}

LEMMA WantedIsCall == WantedOK => Sendable
<1> SUFFICES ASSUME WantedOK, Wanted # Unused PROVE Sendable
  BY DEF Sendable
<1>1. PICK op \in Operation, ids \in SUBSET Req : Wanted = Call(op, ids)
  BY DEF WantedOK, Operation
<1>2. NoItems \in Answered_(op)
  BY NoItemsFit
<1>3. Call(op, ids) \in CallsOf(op)
  BY <1>2 DEF Call, CallsOf, Position
<1> QED
  BY <1>1, <1>3 DEF Call, Sendable

LEMMA WantedWillBeCall == WantedOK' => Sendable'
  BY WantedIsCall, PTL

(* The awaited call is the one that is wanted. *)
Conn ==
  IF Wanted = Unused
  THEN awaited = NoThread
  ELSE /\ awaited \in Thread /\ call[awaited] # Unused
       /\ call[awaited].op = Wanted.op
       /\ Wanted.op # "decode" => call[awaited].batch = Wanted.batch

(* The engine knows nothing of a request that still waits for its prefill. *)
Fresh(r) ==
  status[r] \in {"new", "queued"} =>
    /\ generated[r] = 0 /\ r \notin prefill_queue \union decode_queue
    /\ \A t \in Thread : call[t].op = "prefill" => r \notin call[t].batch

ServingInv == P!PlacesInv /\ EngineInv /\ Conn /\ \A r \in Req : Fresh(r)

LEMMA ServingInit == Init => ServingInv
<1> SUFFICES ASSUME Init PROVE ServingInv
  OBVIOUS
<1>1. P!PlacesInv
  BY Instance, P!PlacesInit, SameInit DEF Init
<1>2. EngineInv
  BY BoundAssumption DEF Init, EngineInit, EngineInv, QueueTypes, CallInv, Apart,
     Unused
<1>3. worker[0] = "idle" /\ loop[0] = "none"
  BY TheEngine, SameInit DEF Init, P!Init, P!SchedulerInit
<1>4. Conn
  BY <1>3 DEF Conn, Wanted, Init
<1>5. ASSUME NEW r \in Req PROVE Fresh(r)
  BY DEF Init, EngineInit, Fresh, Unused
<1> QED
  BY <1>1, <1>2, <1>4, <1>5 DEF ServingInv

(* After a step of the router that consumed the answers of the threads     *)
(* over, and perhaps sent a call: a prefill is of a request that waited.   *)
LEMMA ExchangeInv ==
  ASSUME EngineInv, \A r \in Req : Fresh(r), NEW over \in SUBSET Thread,
         Exchange(over), UNCHANGED <<queues, generated>>, Sendable',
         Wanted'.op = "prefill" =>
           \E r \in Req : Wanted'.batch = {r} /\ status[r] = "queued",
         \A r \in Req : status'[r] \in {"new", "queued"} =>
           /\ status[r] \in {"new", "queued"}
           /\ Wanted'.op = "prefill" => r \notin Wanted'.batch
  PROVE  EngineInv' /\ Conn' /\ \A r \in Req : Fresh(r)'
<1> DEFINE left == [t \in Thread |-> IF t \in over THEN Unused ELSE call[t]]
<1>0. /\ QueueTypes /\ call \in [Thread -> Calls \union {Unused}]
      /\ Unused.op \notin Operation /\ \A x \in Calls : x # Unused
  BY DEF EngineInv, Unused, Operation, Calls, CallsOf
<1>1. QueueTypes'
  BY <1>0 DEF QueueTypes, queues
<1>2. ASSUME call' \in [Thread -> Calls \union {Unused}],
             \A t \in Thread :
               \/ call'[t] = call[t] \/ call'[t] = Unused
               \/ t = awaited' /\ call'[t] = Wanted' /\ Wanted' # Unused
      PROVE  EngineInv' /\ \A r \in Req : Fresh(r)'
  <2>1. Wanted'.op = "prefill" =>
          \E r \in Req :
            /\ Wanted'.batch = {r} /\ generated[r] = 0 /\ r \notin decode_queue
            /\ \A t \in Thread : call[t].op = "prefill" => r \notin call[t].batch
    BY DEF Fresh
  <2>2. Wanted' # Unused => Wanted'.at = "sent"
    BY <1>2 DEF Sendable
  <2>3. ASSUME NEW t \in Thread PROVE CallInv(t)'
    <3>1. CASE call'[t] = call[t]
      BY <3>1 DEF EngineInv, CallInv, Early, queues
    <3>2. CASE call'[t] = Unused
      BY <3>2 DEF CallInv, Unused
    <3>3. CASE call'[t] = Wanted' /\ Wanted' # Unused
      BY <2>1, <2>2, <3>3 DEF CallInv, Early, queues
    <3> QED
      BY <1>2, <3>1, <3>2, <3>3
  <2>4. ASSUME NEW t \in Thread, NEW v \in Thread PROVE Apart(t, v)'
    <3>1. \A w \in Thread : call'[w].op = "prefill" =>
            \/ call'[w] = call[w]
            \/ w = awaited' /\ call'[w] = Wanted' /\ Wanted'.op = "prefill"
      BY <1>2 DEF Unused
    <3> QED
      BY <2>1, <3>1 DEF EngineInv, Apart
  <2>5. ASSUME NEW r \in Req PROVE Fresh(r)'
    <3> SUFFICES ASSUME status'[r] \in {"new", "queued"}
                 PROVE  /\ generated'[r] = 0 /\ r \notin prefill_queue' \union decode_queue'
                        /\ \A t \in Thread : call'[t].op = "prefill" => r \notin call'[t].batch
      BY DEF Fresh
    <3>1. Fresh(r) /\ status[r] \in {"new", "queued"}
      OBVIOUS
    <3>2. ASSUME NEW t \in Thread, call'[t].op = "prefill" PROVE r \notin call'[t].batch
      BY <1>2, <2>1, <3>1, <3>2 DEF Fresh, Unused
    <3> QED
      BY <3>1, <3>2 DEF Fresh, queues
  <2> QED
    BY <1>1, <1>2, <2>3, <2>4, <2>5 DEF EngineInv
<1>3. CASE Wanted' = Unused /\ call' = left /\ awaited' = NoThread
  BY <1>0, <1>2, <1>3 DEF Conn
<1>4. ASSUME Wanted' # Unused, NEW u \in Thread, left[u] = Unused,
             call' = [left EXCEPT ![u] = Wanted'], awaited' = u
      PROVE  EngineInv' /\ Conn' /\ \A r \in Req : Fresh(r)'
  <2>1. Wanted' \in Calls
    BY <1>4 DEF Sendable, Calls
  <2>2. EngineInv' /\ \A r \in Req : Fresh(r)'
    BY <1>0, <1>2, <1>4, <2>1
  <2>3. Conn'
    BY <1>0, <1>4 DEF Conn
  <2> QED
    BY <2>2, <2>3
<1> QED
  BY <1>3, <1>4 DEF Exchange


-----------------------------------------------------------------------------
(* The two together                                                        *)

(* The kinds of steps; over is empty when the time of a call is up.        *)
QuietStep ==
  /\ AloneMove
  /\ IF Wanted' = Wanted THEN UNCHANGED <<call, awaited>> ELSE Exchange({})
  /\ UNCHANGED <<queues, generated>>

ReplyStep ==
  /\ ReplyMove /\ awaited \in Thread
  /\ Exchange({}) \/ Exchange({awaited})
  /\ UNCHANGED <<queues, generated>>

(* What the awaited call is answered is what its position may be answered. *)
LEMMA AnswerFits ==
  ASSUME ServingInv, awaited # NoThread
  PROVE  /\ awaited \in Thread /\ call[awaited] # Unused
         /\ worker[0] = "prefilling" =>
              /\ call[awaited].op = "prefill"
              /\ Head(pending[0]) \in Req /\ call[awaited].batch = {Head(pending[0])}
         /\ loop[0] = "stepping" => call[awaited].op = "decode"
         /\ call[awaited].answer \in Answered_(call[awaited].op)
<1>1. WantedOK
  BY WantedIs DEF ServingInv, P!PlacesInv
<1>2. Wanted # Unused /\ awaited \in Thread /\ call[awaited] # Unused
  BY DEF ServingInv, Conn
<1>3. call[awaited].answer \in Answered_(call[awaited].op)
  BY <1>2 DEF ServingInv, EngineInv, Calls, CallsOf
<1> QED
  BY <1>1, <1>2, <1>3 DEF ServingInv, Conn, WantedOK, Call

LEMMA StepKinds ==
  ASSUME ServingInv, Next
  PROVE  QuietStep \/ ReplyStep \/ \E t \in Thread : Lost(t) \/ EngineStep(t)
<1>1. ASSUME NEW r \in Req, Alone(Router!Reader(r)) \/ Alone(Router!Cleanup(r))
      PROVE  QuietStep
  BY <1>1, SameActions DEF Alone, AloneMove, QuietStep
<1>2. ASSUME \/ Alone(Router!Take(0)) \/ Alone(Router!StopDecode(0))
             \/ Alone(Router!Resume(0)) \/ Alone(Router!LoopTop(0))
             \/ Alone(Router!StepDone(0)) \/ Alone(Router!FailDone(0))
             \/ Alone(Router!Leave(0))
      PROVE  QuietStep
  BY <1>2, SameActions DEF Alone, AloneMove, QuietStep
<1>3. ASSUME NEW r \in Req, Alone(Router!Apply(0, r)) \/ Alone(Router!FailOne(0, r))
      PROVE  QuietStep
  BY <1>3, SameActions DEF Alone, AloneMove, QuietStep
<1>4. ASSUME \/ Raised(Router!PrefillRaised(0)) \/ Raised(Router!BatchFailed(0))
             \/ Raised(WorkerCleared) \/ Raised(LoopCleared)
             \/ Answered(WorkerCleared) \/ Answered(LoopCleared)
      PROVE  ReplyStep
  BY <1>4, AnswerFits, SameActions
     DEF Raised, Answered, WorkerCleared, LoopCleared, ReplyMove, ReplyStep
<1>5. CASE worker[0] = "prefilling" /\ Answered(PrefillAnswered)
  <2> DEFINE answer == call[awaited].answer
             r == Head(pending[0])
  <2>1. awaited \in Thread /\ answer \in Answered_("prefill") /\ Exchange({awaited})
        /\ UNCHANGED <<queues, generated>> /\ PrefillAnswered
    BY <1>5, AnswerFits DEF Answered
  <2>2. r \in DOMAIN answer => answer[r].tokens \in Outputs
    BY <2>1 DEF Answered_, Items
  <2>3. \/ \E ts \in Outputs : Router!PrefillOk(0, ts) \/ Router!PrefillCompleted(0, ts)
        \/ Router!PrefillRejected(0)
    BY <2>1, <2>2 DEF PrefillAnswered
  <2>4. ReplyMove
    BY <2>3, SameActions DEF ReplyMove
  <2> QED
    BY <2>1, <2>4 DEF ReplyStep
<1>6. CASE loop[0] = "stepping" /\ Answered(Router!StepAnswered(0, call[awaited].answer))
  <2>1. awaited \in Thread /\ call[awaited].answer \in Answered_("decode")
    BY <1>6, AnswerFits DEF Answered
  <2> QED
    BY <1>6, <2>1, SameActions DEF Answered, ReplyMove, ReplyStep
<1> QED
  BY <1>1, <1>2, <1>3, <1>4, <1>5, <1>6 DEF Next, WorkerTurn, LoopTurn

LEMMA EngineStays ==
  ASSUME EngineInv, UNCHANGED engineVars
  PROVE  EngineInv'
<1>1. UNCHANGED <<prefill_queue, decode_queue, all_greedy, contexts, uneven>>
      /\ UNCHANGED generated /\ UNCHANGED call
  BY DEF engineVars, queues
<1>2. QueueTypes'
  BY <1>1 DEF EngineInv, QueueTypes
<1>3. ASSUME NEW t \in Thread PROVE CallInv(t)'
  BY <1>1 DEF EngineInv, CallInv, Early
<1> QED
  BY <1>1, <1>2, <1>3 DEF EngineInv, Apart

LEMMA ServingStep == ServingInv /\ [Next]_vars => ServingInv'
<1> SUFFICES ASSUME ServingInv, [Next]_vars PROVE ServingInv'
  OBVIOUS
<1>0. P!PlacesInv /\ EngineInv /\ Conn /\ \A r \in Req : Fresh(r)
  BY DEF ServingInv
<1>1. ASSUME AloneMove \/ ReplyMove
      PROVE  /\ P!PlacesInv' /\ WantedOK' /\ Sendable'
             /\ \A r \in Req : status'[r] \in {"new", "queued"}
                                 => status[r] \in {"new", "queued"}
  <2>1. P!PlacesInv' /\ \A r \in Req : P!RequestStep(r)
    BY <1>0, <1>1, MovesKeep
  <2>2. P!TypeInv'
    BY <2>1 DEF P!PlacesInv
  <2> QED
    BY <2>1, <2>2, WantedWillBe, WantedWillBeCall DEF P!RequestStep
<1>2. ASSUME ReplyMove \/ (AloneMove /\ Wanted' # Wanted),
             NEW over \in SUBSET Thread, Exchange(over),
             UNCHANGED <<queues, generated>>
      PROVE  ServingInv'
  <2>1. P!PlacesInv' /\ WantedOK' /\ Sendable' /\ P!TypeInv
    BY <1>0, <1>1, <1>2 DEF P!PlacesInv
  <2>2. WantedOK
    BY <2>1, WantedIs
  <2>3. ASSUME Wanted'.op = "prefill"
        PROVE  /\ Head(pending'[0]) \in Req /\ Wanted'.batch = {Head(pending'[0])}
               /\ status[Head(pending'[0])] = "queued"
               /\ status'[Head(pending'[0])] = "processing"
    <3>1. worker'[0] = "prefilling"
      BY <2>1, <2>3 DEF WantedOK, Call, Unused
    <3>2. Wanted' = Call("prefill", {Head(pending'[0])}) /\ Head(pending'[0]) \in Req
      BY <2>1, <3>1 DEF WantedOK
    <3>3. UNCHANGED <<worker, pending>> => Wanted' = Wanted
      BY <2>2, <3>1, <3>2 DEF WantedOK
    <3> QED
      BY <1>0, <1>2, <3>1, <3>2, <3>3, NewPrefill DEF Call
  <2>4. EngineInv' /\ Conn' /\ \A r \in Req : Fresh(r)'
    BY <1>0, <1>1, <1>2, <2>1, <2>3, ExchangeInv
  <2> QED
    BY <2>1, <2>4 DEF ServingInv
<1>3. CASE QuietStep
  <2>1. CASE Wanted' # Wanted
    BY <1>2, <1>3, <2>1 DEF QuietStep
  <2>2. CASE Wanted' = Wanted /\ UNCHANGED <<call, awaited>>
    <3>1. UNCHANGED engineVars /\ UNCHANGED awaited
      BY <1>3, <2>2 DEF QuietStep, engineVars, queues
    <3>2. EngineInv' /\ Conn'
      <4>1. EngineInv'
        BY <1>0, <3>1, EngineStays
      <4>2. Wanted' = Wanted /\ call' = call /\ awaited' = awaited
        BY <2>2
      <4>3. Conn'
        BY <1>0, <4>2, ZenonT(30) DEF Conn
      <4> QED
        BY <4>1, <4>3
    <3>3. \A r \in Req : Fresh(r)'
      BY <1>0, <1>1, <1>3, <3>1 DEF QuietStep, Fresh, engineVars, queues
    <3> QED
      BY <1>1, <1>3, <3>2, <3>3 DEF QuietStep, ServingInv
  <2> QED
    BY <1>3, <2>1, <2>2 DEF QuietStep
<1>4. CASE ReplyStep
  BY <1>2, <1>4 DEF ReplyStep
<1>R. ASSUME UNCHANGED routerVars
      PROVE  P!PlacesInv' /\ Wanted' = Wanted /\ UNCHANGED status
  <2>1. UNCHANGED P!vars
    BY <1>R, SameVars
  <2> QED
    BY <1>0, <1>R, <2>1, Instance, P!PlacesStep DEF routerVars, Wanted
<1>5. ASSUME NEW t \in Thread, Lost(t) PROVE ServingInv'
  <2> DEFINE c == [call[t] EXCEPT !.at = "raised"]
  <2>1. UNCHANGED routerVars
    BY <1>5 DEF Lost
  <2>2. /\ call \in [Thread -> Calls \union {Unused}] /\ call[t] # Unused
        /\ call[t].op \in Operation /\ call[t] \in CallsOf(call[t].op)
    BY <1>0, <1>5 DEF EngineInv, Lost, Calls, CallsOf
  <2>3. /\ c \in CallsOf(call[t].op) /\ call' = [call EXCEPT ![t] = c]
        /\ c.op = call[t].op /\ c.batch = call[t].batch /\ c.at = "raised"
    BY <1>5, <2>2 DEF Lost, CallsOf, Position, Over
  <2>4. UNCHANGED <<queues, generated, awaited>> /\ QueueTypes' /\ Spares(t)
    BY <1>0, <1>5 DEF Lost, EngineInv, QueueTypes, Spares, queues
  <2> HIDE DEF c
  <2>5. EngineInv' /\ Others(t)
    <3>1. PICK d \in CallsOf(call[t].op) :
            call' = [call EXCEPT ![t] = d] /\ d.batch = call[t].batch /\ d.at = "raised"
      BY <2>3
    <3> QED
      BY <1>0, <2>2, <2>4, <3>1, CallGoesOn DEF Early
  <2>6. call'[t] = c /\ c # Unused /\ \A u \in Thread : u # t => call'[u] = call[u]
    BY <2>2, <2>3 DEF Unused, Operation
  <2>7. Conn'
    BY <1>0, <1>R, <2>1, <2>3, <2>4, <2>6 DEF Conn
  <2>8. \A r \in Req : Fresh(r)'
    BY <1>0, <1>R, <2>1, <2>3, <2>4, <2>6 DEF Fresh, queues
  <2> QED
    BY <1>R, <2>1, <2>5, <2>7, <2>8 DEF ServingInv
<1>6. ASSUME NEW t \in Thread, EngineStep(t) PROVE ServingInv'
  <2>1. UNCHANGED routerVars /\ UNCHANGED awaited
    BY <1>6 DEF EngineStep
  <2>2. CASE CallStep(t)
    <3>1. EngineInv' /\ Others(t)
      BY <1>0, <2>2, CallStepInv
    <3>2. Conn'
      BY <1>0, <1>R, <2>1, <3>1 DEF Conn, Others
    <3>3. ASSUME NEW r \in Req PROVE Fresh(r)'
      BY <1>0, <1>R, <2>1, <3>1 DEF Fresh, Others, Spares
    <3> QED
      BY <1>R, <2>1, <3>1, <3>2, <3>3 DEF ServingInv
  <2>3. CASE t # awaited /\ CallEnds(t)
    <3>1. /\ call \in [Thread -> Calls \union {Unused}]
          /\ call' = [call EXCEPT ![t] = Unused]
          /\ UNCHANGED <<queues, generated>>
      BY <1>0, <2>3 DEF EngineInv, CallEnds
    <3>2. /\ call'[t] = Unused /\ \A u \in Thread : u # t => call'[u] = call[u]
          /\ call' \in [Thread -> Calls \union {Unused}]
      BY <3>1
    <3>3. EngineInv'
      <4>1. QueueTypes'
        BY <1>0, <3>1 DEF EngineInv, QueueTypes, queues
      <4>2. ASSUME NEW u \in Thread PROVE CallInv(u)'
        <5>1. CASE u = t
          BY <3>2, <5>1 DEF CallInv, Unused
        <5>2. CASE u # t
          BY <1>0, <3>1, <3>2, <5>2 DEF EngineInv, CallInv, Early, queues
        <5> QED
          BY <5>1, <5>2
      <4>3. \A u, v \in Thread : Apart(u, v)'
        BY <1>0, <3>2 DEF EngineInv, Apart, Unused
      <4> QED
        BY <3>2, <4>1, <4>2, <4>3 DEF EngineInv
    <3>4. Conn'
      BY <1>0, <1>R, <2>1, <2>3, <3>2 DEF Conn
    <3>5. \A r \in Req : Fresh(r)'
      BY <1>0, <1>R, <2>1, <3>1, <3>2 DEF Fresh, queues, Unused
    <3> QED
      BY <1>R, <2>1, <3>3, <3>4, <3>5 DEF ServingInv
  <2> QED
    BY <1>6, <2>2, <2>3 DEF EngineStep
<1>7. CASE UNCHANGED vars
  <2>1. UNCHANGED routerVars /\ UNCHANGED engineVars /\ UNCHANGED awaited
    BY <1>7 DEF vars
  <2>2. EngineInv' /\ Conn' /\ \A r \in Req : Fresh(r)'
    BY <1>0, <1>R, <2>1, EngineStays DEF engineVars, queues, Conn, Fresh
  <2> QED
    BY <1>R, <2>1, <2>2 DEF ServingInv
<1> QED
  BY <1>3, <1>4, <1>5, <1>6, <1>7, StepKinds

(* Engine and router together: every call in the engine is well formed and *)
(* every queue holds requests, whatever becomes of the calls on their way. *)
THEOREM ServingTypeCorrect == Spec => []TypeOK
<1>1. ServingInv => TypeOK
  <2> SUFFICES ASSUME ServingInv PROVE TypeOK
    OBVIOUS
  <2>1. Router!TypeOK
    BY SameTypes DEF ServingInv, P!PlacesInv, P!TypeInv
  <2>2. awaited \in Thread \union {NoThread}
    BY DEF ServingInv, Conn
  <2>3. ASSUME NEW c \in Calls \union {Unused} PROVE IsCall(c)
    <3>1. CASE c = Unused
      BY <3>1 DEF IsCall
    <3>2. CASE c \in Calls
      <4>1. PICK op \in Operation : c \in CallsOf(op)
        BY <3>2 DEF Calls
      <4>2. PICK ids \in SUBSET Req : c.answer \in [ids -> Items(op)]
        BY <4>1 DEF CallsOf, Answered_
      <4>3. \A r \in DOMAIN c.answer : c.answer[r].status \in ItemStatus
        BY <4>2 DEF Items, Statuses, ItemStatus
      <4> QED
        BY <4>1, <4>2, <4>3 DEF CallsOf, IsCall
    <3> QED
      BY <3>1, <3>2
  <2>4. EngineTypeOK
    BY <2>3 DEF ServingInv, EngineInv, QueueTypes, EngineTypeOK
  <2> QED
    BY <2>1, <2>2, <2>4 DEF TypeOK
<1> QED
  BY <1>1, ServingInit, ServingStep, PTL DEF Spec

(* The router's promise to a request holds against lost, abandoned and     *)
(* late calls: LifecycleSpec is implemented by router and engine together. *)
THEOREM LifecycleUnderTimeoutsImplemented == Spec => LifecycleUnderTimeouts
<1>1. Init => Router!Lifecycle!Init
  BY DEF Init, Router!Init, Router!SchedulerInit, Router!Lifecycle!Init
<1>2. ServingInv /\ [Next]_vars
        => [Router!Lifecycle!Next]_(Router!Lifecycle!vars)
  <2> SUFFICES ASSUME ServingInv, [Next]_vars
               PROVE  [Router!Lifecycle!Next]_(Router!Lifecycle!vars)
    OBVIOUS
  <2>1. CASE AloneMove \/ ReplyMove
    <3>1. P!TypeInv /\ \A r \in Req : P!RequestStep(r)
      BY <2>1, MovesKeep DEF ServingInv, P!PlacesInv
    <3> QED
      BY <3>1, Instance, P!RequestMoves, SameLifecycle
  <2>2. CASE UNCHANGED routerVars
    BY <2>2 DEF routerVars, Router!Lifecycle!vars
  <2> QED
    BY <2>1, <2>2, StepKinds
       DEF QuietStep, ReplyStep, Lost, EngineStep, vars
<1> QED
  BY <1>1, <1>2, ServingInit, ServingStep, PTL
     DEF Spec, LifecycleUnderTimeouts, Router!LifecycleSpec, Router!Lifecycle!Spec



-----------------------------------------------------------------------------
(* Calls that arrive and are waited for                                    *)

(* Without lost or abandoned calls, and without a Sequence.__init__ that   *)
(* raises after it has its context (the fault "stop"), the engine is       *)
(* exactly as far as the router knows.                                     *)
Reliable == Network = {} /\ "stop" \notin Faults

(* The contexts are those of the sequences that are queued, or on the way  *)
(* from one queue to the other, and of some that a removal has kept.       *)
Held(moving) ==
  /\ decode_queue \union prefill_queue \union moving \subseteq contexts
  /\ contexts \ (decode_queue \union prefill_queue \union moving) \subseteq uneven

(* The flag is right, but for the sequences that have just joined. *)
Tracked(joining) == all_greedy => decode_queue \ joining \subseteq Greedy

Tidy == Held({}) /\ Tracked({})

(* A call in remove_sequences; what it has still to remove, or to handle.  *)
Popping == {"pop_prefill", "pop_decode"}
Cleaning == {"removing", "recount", "counted"} \union Popping
Doomed(c) ==
  c.left \union c.todo \union IF c.at \in Popping THEN c.seen ELSE {}

(* The loops of a call, and what it remembers. *)
Loops(c) ==
  /\ c.op # "decode" \/ c.at \notin Cleaning \union {"failing"} => c.todo = {}
  /\ IF c.at = "sent" THEN c.left = IF c.op = "remove" THEN c.batch ELSE {}
     ELSE c.at \in {"removing"} \union Popping \/ c.left = {}
  /\ Doomed(c) \subseteq c.batch
  /\ c.at \in Popping /\ c.op # "decode" => c.seen = c.batch

(* What it remembers of the queues is so: no other call changes them. *)
Sees(c) ==
  /\ c.at = "pop_prefill" => c.seen \subseteq prefill_queue
  /\ c.at = "pop_decode" => c.seen \subseteq decode_queue
  /\ c.at = "counted" => c.seen = decode_queue
  /\ c.op = "prefill" /\ c.at = "forward" => c.batch \subseteq prefill_queue
  /\ c.op = "decode" /\ c.at \in {"keys", "forward"} => c.batch = decode_queue

(* The contexts and the flag while it is at work. *)
Keeps(c) ==
  /\ Held(IF c.at = "popped" THEN c.batch ELSE {})
  /\ Tracked(IF c.at \in {"inserted", "joined"} THEN c.batch ELSE {})
  /\ c.at = "joined" /\ c.greedy => decode_queue \subseteq Greedy
  /\ c.op = "decode" /\ c.at = "forward" /\ c.greedy => c.batch \subseteq Greedy

(* c is the only call in the engine. *)
Solo(c) == Loops(c) /\ Sees(c) /\ Keeps(c)

(* The router has given up the batch. *)
Failing == loop[0] \in {"failing", "failclearing"}

(* ids are the sequences the router goes on decoding; when it has given up *)
(* the batch some may have left the engine already.                        *)
Same(ids) == ids \subseteq Shared /\ (~ Failing => ids = Shared)

Clean == Same(decode_queue) /\ prefill_queue = {}

(* What the engine holds at the stages of the awaited call c. *)
Moved(c, r) == r \in DOMAIN c.answer /\ c.answer[r].status = "PREFILL_COMPLETED"

PrefillSync(c, r) ==
  /\ decode_queue =
       Shared \union IF Moved(c, r) /\ c.at # "popped" THEN {r} ELSE {}
  /\ prefill_queue \subseteq
       IF c.at = "forward" \/ (c.at = "answered" /\ r \notin DOMAIN c.answer)
       THEN {r} ELSE Doomed(c)
  /\ c.at \in {"sent", "forward"} => c.answer = NoItems
  /\ c.at \in {"popped", "inserted", "joined"} => Moved(c, r)
  /\ c.at \in Cleaning => r \in DOMAIN c.answer /\ ~ Moved(c, r)

RemoveReady(r) == Same(decode_queue \ {r}) /\ prefill_queue \subseteq {r}

RemoveSync(c) == Same(decode_queue \ Doomed(c)) /\ prefill_queue \subseteq Doomed(c)

DecodeSync(c) ==
  /\ prefill_queue = {}
  /\ c.at \notin {"sent", "answered", "raised"} => c.batch = decode_queues[0]
  /\ CASE c.at \in {"sent", "keys", "forward"} ->
            decode_queue = decode_queues[0] /\ c.answer = NoItems
       [] c.at = "raised" -> decode_queue \subseteq decode_queues[0]
       [] OTHER ->
            /\ DOMAIN c.answer = decode_queues[0]
            /\ decode_queue \ Doomed(c) =
                 {r \in decode_queues[0] : c.answer[r].status = "PROGRESS"}

(* No call but the awaited one is in the engine; a prefill is answered. *)
Lone ==
  \A t \in Thread : call[t] # Unused =>
    t = awaited /\ (call[t].op = "prefill" => call[t].at # "raised")

InSync ==
  IF awaited = NoThread THEN Clean /\ Tidy
  ELSE LET c == call[awaited] IN
         /\ Solo(c)
         /\ c.op = "prefill" => PrefillSync(c, Head(pending[0]))
         /\ c.op = "remove" => RemoveSync(c)
         /\ c.op = "decode" => DecodeSync(c)

(* An item brings r no token or the next one; a sequence that goes on has  *)
(* produced exactly the tokens in its stream and that one.                 *)
Continues(r, item) ==
  /\ item.tokens \in {<<>>, <<Len(tokens[r]) + 1>>}
  /\ item.status \in {"PROGRESS", "PREFILL_COMPLETED"} =>
       /\ item.tokens # <<>> /\ generated[r] = Len(tokens[r]) + 1
       /\ Len(tokens[r]) + 1 < MaxNewTokens

(* The awaited step has its items, or has raised. *)
StepHasItems ==
  /\ awaited # NoThread /\ call[awaited].op = "decode"
  /\ call[awaited].at \notin {"sent", "keys", "forward", "raised"}
StepHasRaised ==
  awaited # NoThread /\ call[awaited].op = "decode" /\ call[awaited].at = "raised"

Counted(r) ==
  /\ tokens[r] = [k \in 1 .. Len(tokens[r]) |-> k]
  /\ \/ status[r] \in {"new", "queued"}
     \/ worker[0] = "prefilling" /\ r = Head(pending[0])
     => tokens[r] = <<>>
  /\ /\ worker[0] = "prefilling" /\ r = Head(pending[0]) /\ awaited # NoThread
     /\ r \in DOMAIN call[awaited].answer
     => Continues(r, call[awaited].answer[r])
  /\ r \in decode_queues[0] /\ ~ Failing /\ ~ StepHasRaised =>
       IF r \in DOMAIN results[0] THEN Continues(r, results[0][r])
       ELSE IF StepHasItems THEN Continues(r, call[awaited].answer[r])
       ELSE generated[r] = Len(tokens[r])

SyncInv == ServingInv /\ Lone /\ InSync /\ \A r \in Req : Counted(r)
(* Which position of the router awaits a call, seen from the call. *)
LEMMA Awaiting ==
  ASSUME ServingInv, awaited # NoThread
  PROVE  /\ awaited \in Thread /\ call[awaited] \in CallsOf(call[awaited].op)
         /\ call[awaited].op \in Operation
         /\ call[awaited].op = "prefill" =>
              /\ worker[0] = "prefilling" /\ loop[0] = "none"
              /\ Head(pending[0]) \in Req /\ call[awaited].batch = {Head(pending[0])}
              /\ Head(pending[0]) \notin decode_queues[0]
              /\ DOMAIN results[0] = {}
         /\ call[awaited].op = "decode" => loop[0] = "stepping" /\ DOMAIN results[0] = {}
         /\ call[awaited].op = "remove" =>
              \/ /\ worker[0] = "clearing" /\ Head(pending[0]) \in Req
                 /\ call[awaited].batch = {Head(pending[0])}
              \/ /\ loop[0] \in {"clearing", "finalizing", "failclearing"}
                 /\ target[0] \in Req /\ call[awaited].batch = {target[0]}
<1>1. WantedOK
  BY WantedIs DEF ServingInv, P!PlacesInv
<1>2. /\ Wanted # Unused /\ awaited \in Thread /\ call[awaited] # Unused
      /\ call[awaited].op = Wanted.op
      /\ Wanted.op # "decode" => call[awaited].batch = Wanted.batch
  BY DEF ServingInv, Conn
<1>3. call[awaited] \in CallsOf(call[awaited].op) /\ call[awaited].op \in Operation
  BY <1>2 DEF ServingInv, EngineInv, Calls, CallsOf
<1>4. P!Control(0) /\ P!Places(0)
  BY TheEngine DEF ServingInv, P!PlacesInv, P!TypeInv
<1>5. worker[0] \in {"prefilling", "clearing"} =>
        /\ loop[0] = "none" /\ DOMAIN results[0] = {}
        /\ Head(pending[0]) \notin decode_queues[0]
  BY <1>4 DEF P!Control, P!Places, P!InPrefill, P!Prefilling
<1>6. loop[0] = "stepping" => DOMAIN results[0] = {}
  BY <1>4 DEF P!Control
<1>7. CASE worker[0] = "prefilling"
  BY <1>1, <1>2, <1>3, <1>5, <1>7 DEF WantedOK, Call
<1>8. CASE worker[0] = "clearing"
  BY <1>1, <1>2, <1>3, <1>8 DEF WantedOK, Call
<1>9. CASE loop[0] = "stepping"
  BY <1>1, <1>2, <1>3, <1>6, <1>9 DEF WantedOK, Call
<1>10. CASE loop[0] \in {"clearing", "finalizing", "failclearing"}
  BY <1>1, <1>2, <1>3, <1>10 DEF WantedOK, Call
<1> QED
  BY <1>1, <1>2, <1>7, <1>8, <1>9, <1>10 DEF WantedOK

(* The engine makes no call but the awaited one go on. *)
LEMMA LoneStep ==
  ASSUME SyncInv, NEW t \in Thread, EngineStep(t)
  PROVE  /\ t = awaited /\ awaited # NoThread /\ CallStep(t)
         /\ UNCHANGED <<routerVars, awaited>> /\ Others(t) /\ EngineInv'
<1>1. CallStep(t)
  BY DEF SyncInv, Lone, EngineStep, CallEnds
<1>2. Others(t) /\ EngineInv'
  BY <1>1, CallStepInv DEF SyncInv, ServingInv
<1>3. t = awaited
  BY <1>2 DEF SyncInv, Lone, Others
<1> QED
  BY <1>1, <1>2, <1>3, NoThreadAssumption DEF EngineStep

(* What is counted changes only with the produced tokens and the answer.   *)
LEMMA CountedFrame ==
  ASSUME NEW r \in Req, Counted(r), UNCHANGED routerVars, UNCHANGED awaited,
         generated'[r] = generated[r],
         awaited # NoThread => call'[awaited].answer = call[awaited].answer,
         StepHasItems' <=> StepHasItems, StepHasRaised' <=> StepHasRaised
  PROVE  Counted(r)'
<1>1. UNCHANGED <<tokens, status, worker, pending, decode_queues, results, loop>>
  BY DEF routerVars
<1>2. Failing' <=> Failing
  BY <1>1 DEF Failing
<1>3. ASSUME NEW item PROVE Continues(r, item)' <=> Continues(r, item)
  BY <1>1 DEF Continues
<1>4. \/ status[r] \in {"new", "queued"}
      \/ worker[0] = "prefilling" /\ r = Head(pending[0])
      => tokens[r] = <<>>
  BY DEF Counted
<1>5. /\ worker[0] = "prefilling" /\ r = Head(pending[0]) /\ awaited # NoThread
      /\ r \in DOMAIN call[awaited].answer
      => Continues(r, call[awaited].answer[r])
  BY DEF Counted
<1>6. r \in decode_queues[0] /\ ~ Failing /\ ~ StepHasRaised =>
        IF r \in DOMAIN results[0] THEN Continues(r, results[0][r])
        ELSE IF StepHasItems THEN Continues(r, call[awaited].answer[r])
        ELSE generated[r] = Len(tokens[r])
  BY DEF Counted
<1>7. StepHasItems => awaited # NoThread
  BY DEF StepHasItems
<1>8. r \in decode_queues'[0] /\ ~ Failing' /\ ~ StepHasRaised' =>
        IF r \in DOMAIN results'[0] THEN Continues(r, results[0][r])'
        ELSE IF StepHasItems' THEN Continues(r, call[awaited].answer[r])'
        ELSE generated'[r] = Len(tokens'[r])
  BY <1>1, <1>2, <1>3, <1>6, <1>7 DEF Continues
<1>9. /\ worker'[0] = "prefilling" /\ r = Head(pending'[0]) /\ awaited' # NoThread
      /\ r \in DOMAIN call'[awaited'].answer
      => Continues(r, call[awaited].answer[r])'
  BY <1>1, <1>5 DEF Continues
<1>10. tokens'[r] = [k \in 1 .. Len(tokens'[r]) |-> k]
  BY <1>1 DEF Counted
<1> QED
  BY <1>1, <1>4, <1>8, <1>9, <1>10 DEF Counted

LEMMA RouterFrame ==
  UNCHANGED routerVars =>
    /\ Shared' = Shared /\ Failing' = Failing
    /\ UNCHANGED <<pending, worker, decode_queues, results, tokens, status>>
  BY DEF routerVars, Shared, Failing

(* What a removal leaves of the queues, but for what is still to be removed. *)
Leaves(t) ==
  /\ decode_queue' \ Doomed(call'[t]) = decode_queue \ Doomed(call[t])
  /\ prefill_queue' \ Doomed(call'[t]) = prefill_queue \ Doomed(call[t])

(* How a call goes on that removes: it keeps its answer, or it raises.     *)
GoesOn(t) ==
  \/ /\ Leaves(t) /\ call'[t].answer = call[t].answer
     /\ \/ call'[t].at \in Cleaning \union {"answered"}
        \/ call'[t].at = "failing" /\ call[t].op = "decode"
  \/ /\ Leaves(t) /\ call[t].op # "decode" /\ call'[t].answer = NoItems
     /\ call'[t].at = IF call[t].op = "prefill" THEN "answered" ELSE "raised"
  \/ /\ call[t].op = "decode" /\ call'[t].at = "failing"
     /\ call'[t].todo = call[t].batch
     /\ call'[t].answer = Failed(call[t].batch)
  \/ call[t].op = "decode" /\ call'[t].at = "raised"

LEMMA SoloRemove ==
  ASSUME EngineInv, NEW t \in Thread, Solo(call[t]), RemoveStep(t),
         call[t].op # "decode" => \E r \in Req : call[t].batch = {r}
  PROVE  /\ Solo(call[t])' /\ GoesOn(t)
         /\ decode_queue' \subseteq decode_queue
         /\ prefill_queue' \subseteq prefill_queue
         /\ call'[t].batch = call[t].batch /\ call'[t].op = call[t].op
         /\ UNCHANGED <<generated, uneven>>
         /\ call[t].at \in Cleaning \/ (call[t].op = "remove" /\ call[t].at = "sent")
<1>0. /\ call[t].at \in Cleaning \/ (call[t].op = "remove" /\ call[t].at = "sent")
      /\ call[t] # Unused
  <2>1. \/ Looking(t) \/ At(t, "pop_prefill") \/ At(t, "pop_decode")
        \/ At(t, "recount") \/ At(t, "counted")
    BY DEF RemoveStep, RemoveFinds, RemovePops, RemoveMisses, RemoveReads,
       RemoveScans, RemoveCounts
  <2> QED
    BY <2>1 DEF Looking, At, Runs, Cleaning, Popping, Unused
<1>1. /\ call[t] \in CallsOf(call[t].op) /\ call[t].op \in Operation
      /\ call \in [Thread -> Calls \union {Unused}] /\ QueueTypes
  BY <1>0, TheCall
<1>2. Loops(call[t]) /\ Sees(call[t]) /\ Keeps(call[t])
  BY DEF Solo
<1>3. Held({}) /\ Tracked({})
  BY <1>0, <1>2 DEF Keeps, Cleaning, Popping
<1>R. ASSUME Raises(t), call[t].at \in Popping \union {"counted"},
             UNCHANGED <<generated, uneven, all_greedy>>,
             decode_queue' \subseteq decode_queue,
             prefill_queue' \subseteq prefill_queue, Held({})',
             call[t].op # "decode" =>
               /\ decode_queue' = decode_queue \ Doomed(call[t])
               /\ prefill_queue' = prefill_queue \ Doomed(call[t])
      PROVE  /\ Solo(call[t])' /\ GoesOn(t)
             /\ call'[t].batch = call[t].batch /\ call'[t].op = call[t].op
  <2>1. PICK d \in CallsOf(call[t].op) :
          /\ call' = [call EXCEPT ![t] = d] /\ d.batch = call[t].batch
          /\ d.left = {} /\ d.seen = {}
          /\ IF d.op = "decode" /\ call[t].answer # Failed(call[t].batch)
               THEN d.at = "failing" /\ d.todo = d.batch /\ d.answer = Failed(d.batch)
               ELSE /\ d.at = IF d.op = "prefill" THEN "answered" ELSE "raised"
                    /\ d.todo = {} /\ d.answer = NoItems
    BY <1>0, <1>1, <1>R, RaisesTo
  <2>2. call'[t] = d /\ d.op = call[t].op
    BY <1>1, <2>1 DEF CallsOf
  <2>3. d.at \in {"failing", "answered", "raised"}
    BY <2>1
  <2>4. Doomed(d) = d.todo
    BY <2>1, <2>3 DEF Doomed, Popping
  <2>5. Loops(d)
    BY <2>1, <2>3, <2>4 DEF Loops, Cleaning, Popping
  <2>6. Sees(d)'
    BY <2>3 DEF Sees
  <2>7. Tracked({})'
    BY <1>3, <1>R DEF Tracked
  <2>8. Keeps(d)'
    BY <1>R, <2>3, <2>7 DEF Keeps
  <2>9. Solo(call[t])'
    BY <2>2, <2>5, <2>6, <2>8 DEF Solo, Loops, Sees, Keeps
  <2>10. GoesOn(t)
    BY <1>R, <2>1, <2>2, <2>4 DEF GoesOn, Leaves
  <2> QED
    BY <2>1, <2>2, <2>9, <2>10
<1>G. ASSUME NEW d \in CallsOf(call[t].op), call' = [call EXCEPT ![t] = d],
             d.batch = call[t].batch, d.answer = call[t].answer,
             d.at \in Cleaning \union {"answered"}
               \/ (d.at = "failing" /\ call[t].op = "decode"),
             Loops(d), Sees(d)', Held({})', Tracked({})',
             decode_queue' \ Doomed(d) = decode_queue \ Doomed(call[t]),
             prefill_queue' \ Doomed(d) = prefill_queue \ Doomed(call[t])
      PROVE  /\ Solo(call[t])' /\ GoesOn(t)
             /\ call'[t].batch = call[t].batch /\ call'[t].op = call[t].op
  <2>1. call'[t] = d /\ d.op = call[t].op
    BY <1>1, <1>G DEF CallsOf
  <2>2. Keeps(d)'
    BY <1>G DEF Keeps, Cleaning, Popping
  <2>3. Solo(call[t])'
    BY <1>G, <2>1, <2>2 DEF Solo, Loops, Sees, Keeps
  <2>4. GoesOn(t)
    BY <1>G, <2>1 DEF GoesOn, Leaves
  <2> QED
    BY <1>G, <2>1, <2>3, <2>4
<1>2a. CASE RemoveFinds(t)
  <2>1. PICK r \in call[t].left :
          call' = [call EXCEPT
            ![t].left = @ \ {r},
            ![t].seen = {r} \intersect (prefill_queue \union decode_queue),
            ![t].at = IF r \in prefill_queue THEN "pop_prefill"
                      ELSE IF r \in decode_queue THEN "pop_decode" ELSE "removing"]
    BY <1>2a DEF RemoveFinds
  <2>2. UNCHANGED <<queues, generated>> /\ r \in call[t].batch
        /\ call[t].at \in {"removing", "sent"}
    BY <1>2, <1>2a DEF RemoveFinds, Loops, Doomed, Looking, At, Runs
  <2>3. PICK d \in CallsOf(call[t].op) :
          /\ call' = [call EXCEPT ![t] = d] /\ d.op = call[t].op
          /\ d.batch = call[t].batch /\ d.answer = call[t].answer
          /\ d.left = call[t].left \ {r} /\ d.todo = call[t].todo
          /\ d.seen = {r} \intersect (prefill_queue \union decode_queue)
          /\ d.at = IF r \in prefill_queue THEN "pop_prefill"
                    ELSE IF r \in decode_queue THEN "pop_decode" ELSE "removing"
    <3> DEFINE c == [call[t] EXCEPT
                 !.left = @ \ {r},
                 !.seen = {r} \intersect (prefill_queue \union decode_queue),
                 !.at = IF r \in prefill_queue THEN "pop_prefill"
                        ELSE IF r \in decode_queue THEN "pop_decode" ELSE "removing"]
    <3>1. call' = [call EXCEPT ![t] = c]
      BY <1>1, <2>1
    <3>2. c \in CallsOf(call[t].op)
      BY <1>1 DEF CallsOf, Position, QueueTypes
    <3> QED
      BY <1>1, <3>1, <3>2 DEF CallsOf
  <2>4. d.at \in {"pop_prefill", "pop_decode", "removing"}
    BY <2>3
  <2>5. Doomed(call[t]) = call[t].left \union call[t].todo
    BY <2>2 DEF Doomed, Popping
  <2>6. Doomed(d) = (call[t].left \ {r}) \union call[t].todo
                      \union IF d.at = "removing" THEN {} ELSE {r}
    BY <2>3, <2>4 DEF Doomed, Popping
  <2>7. /\ decode_queue \ Doomed(d) = decode_queue \ Doomed(call[t])
        /\ prefill_queue \ Doomed(d) = prefill_queue \ Doomed(call[t])
        /\ Doomed(d) \subseteq Doomed(call[t])
    BY <2>1, <2>3, <2>5, <2>6
  <2>8. Loops(d)
    <3>1. call[t].op # "decode" \/ call[t].at = "sent" => call[t].todo = {}
      BY <1>2 DEF Loops, Cleaning, Popping
    <3>2. call[t].op # "decode" => call[t].batch = {r}
      BY <2>2
    <3>3. Doomed(d) \subseteq d.batch
      BY <1>2, <2>3, <2>7 DEF Loops
    <3>4. d.at \in Popping => d.seen = {r}
      BY <2>3 DEF Popping
    <3>5. call[t].at = "sent" => call[t].op = "remove"
      BY <1>0 DEF Cleaning, Popping
    <3> QED
      BY <1>1, <2>3, <2>4, <3>1, <3>2, <3>3, <3>4 DEF Loops, Cleaning, Popping
  <2>9. Sees(d)'
    BY <2>2, <2>3, <2>4 DEF Sees, queues
  <2>10. Held({})' /\ Tracked({})'
    BY <1>3, <2>2 DEF Held, Tracked, queues
  <2>11. Solo(call[t])' /\ GoesOn(t)
         /\ call'[t].batch = call[t].batch /\ call'[t].op = call[t].op
    BY <1>G, <2>2, <2>3, <2>4, <2>7, <2>8, <2>9, <2>10 DEF queues, Cleaning, Popping
  <2> QED
    BY <1>0, <2>2, <2>11 DEF queues
<1>2b. CASE RemovePops(t)
  <2>1. /\ call[t].at \in Popping /\ UNCHANGED <<all_greedy, uneven, generated>>
        /\ decode_queue' = decode_queue \ call[t].seen
        /\ prefill_queue' = prefill_queue \ call[t].seen
    <3>1. call[t].at = "pop_prefill" => call[t].seen \subseteq prefill_queue
      BY <1>2 DEF Sees
    <3>2. call[t].at = "pop_decode" => call[t].seen \subseteq decode_queue
      BY <1>2 DEF Sees
    <3> QED
      BY <1>1, <1>2b, <3>1, <3>2 DEF RemovePops, At, Popping, QueueTypes
  <2>2. Tracked({})'
    BY <1>3, <2>1 DEF Tracked
  <2>3. /\ Doomed(call[t]) = call[t].left \union call[t].todo \union call[t].seen
        /\ call[t].seen \subseteq call[t].batch
    BY <1>2, <2>1 DEF Doomed, Loops
  <2>4. CASE call[t].seen \subseteq uneven /\ Raises(t) /\ UNCHANGED contexts
    <3>1. Held({})'
      BY <1>3, <2>1, <2>4 DEF Held
    <3>2. call[t].op # "decode" => Doomed(call[t]) = call[t].seen
      BY <1>2, <2>1, <2>3 DEF Loops, Cleaning, Popping
    <3> QED
      BY <1>0, <1>R, <2>1, <2>4, <3>1, <3>2
  <2>5. CASE /\ contexts' = contexts \ call[t].seen
             /\ call' = [call EXCEPT ![t].at = "removing", ![t].seen = {}]
    <3>1. Held({})'
      BY <1>3, <2>1, <2>5 DEF Held
    <3>2. PICK d \in CallsOf(call[t].op) :
            /\ call' = [call EXCEPT ![t] = d] /\ d.op = call[t].op
            /\ d.batch = call[t].batch /\ d.answer = call[t].answer
            /\ d.left = call[t].left /\ d.todo = call[t].todo
            /\ d.seen = {} /\ d.at = "removing"
      <4> DEFINE c == [call[t] EXCEPT !.at = "removing", !.seen = {}]
      <4>1. call' = [call EXCEPT ![t] = c] /\ c \in CallsOf(call[t].op)
        BY <1>1, <2>5 DEF CallsOf, Position
      <4> QED
        BY <1>1, <4>1 DEF CallsOf
    <3>3. Doomed(d) = call[t].left \union call[t].todo
      BY <3>2 DEF Doomed, Popping
    <3>4. /\ decode_queue' \ Doomed(d) = decode_queue \ Doomed(call[t])
          /\ prefill_queue' \ Doomed(d) = prefill_queue \ Doomed(call[t])
          /\ Doomed(d) \subseteq Doomed(call[t])
      BY <2>1, <2>3, <3>3
    <3>5. Loops(d)
      BY <1>2, <2>1, <3>2, <3>4 DEF Loops, Cleaning, Popping
    <3>6. Sees(d)'
      BY <3>2 DEF Sees
    <3> QED
      BY <1>0, <1>G, <2>1, <2>2, <3>1, <3>2, <3>4, <3>5, <3>6 DEF Cleaning
  <2> QED
    BY <1>2b, <2>4, <2>5 DEF RemovePops
<1>2c. CASE RemoveMisses(t)
  BY <1>2, <1>2c DEF RemoveMisses, Sees, At
<1>2d. CASE RemoveReads(t)
  <2>1. /\ call[t].left = {} /\ call[t].at = "removing"
        /\ UNCHANGED <<queues, generated>>
    <3>1. call[t].op = "remove" /\ call[t].at = "sent" => call[t].left # {}
      BY <1>2 DEF Loops
    <3> QED
      BY <1>2d, <3>1 DEF RemoveReads, Looking, At, Runs
  <2>2. PICK d \in CallsOf(call[t].op) :
          /\ call' = [call EXCEPT ![t] = d] /\ d.op = call[t].op
          /\ d.batch = call[t].batch /\ d.answer = call[t].answer
          /\ d.left = {} /\ d.todo = call[t].todo
          /\ d.at \in {"answered", "failing", "recount"}
          /\ d.at = "answered" => call[t].todo = {}
          /\ d.at = "failing" => call[t].todo # {}
    <3> DEFINE c == [call[t] EXCEPT !.at = IF all_greedy THEN Return(t) ELSE "recount"]
    <3>1. call' = [call EXCEPT ![t] = c] /\ c \in CallsOf(call[t].op)
      BY <1>1, <1>2d DEF RemoveReads, Goes, Return, CallsOf, Position, Over
    <3> QED
      BY <1>1, <2>1, <3>1 DEF CallsOf, Return
  <2>3. call[t].todo # {} => call[t].op = "decode"
    BY <1>2 DEF Loops
  <2>4. Doomed(d) = Doomed(call[t])
    BY <2>1, <2>2 DEF Doomed, Popping
  <2>5. Loops(d)
    BY <1>2, <2>1, <2>2, <2>4 DEF Loops, Cleaning, Popping
  <2>6. Sees(d)'
    BY <2>2 DEF Sees
  <2>7. Held({})' /\ Tracked({})'
    BY <1>3, <2>1 DEF Held, Tracked, queues
  <2> QED
    BY <1>0, <1>G, <2>1, <2>2, <2>3, <2>4, <2>5, <2>6, <2>7 DEF queues, Cleaning
<1>2e. CASE RemoveScans(t)
  <2>1. call[t].at = "recount" /\ UNCHANGED <<queues, generated>>
    BY <1>2e DEF RemoveScans, At
  <2>2. PICK d \in CallsOf(call[t].op) :
          /\ call' = [call EXCEPT ![t] = d] /\ d.op = call[t].op
          /\ d.batch = call[t].batch /\ d.answer = call[t].answer
          /\ d.left = call[t].left /\ d.todo = call[t].todo
          /\ d.seen = decode_queue /\ d.at = "counted"
    <3> DEFINE c == [call[t] EXCEPT !.at = "counted", !.seen = decode_queue]
    <3>1. call' = [call EXCEPT ![t] = c] /\ c \in CallsOf(call[t].op)
      BY <1>1, <1>2e DEF RemoveScans, CallsOf, Position, QueueTypes
    <3> QED
      BY <1>1, <3>1 DEF CallsOf
  <2>3. Doomed(d) = Doomed(call[t])
    BY <2>1, <2>2 DEF Doomed, Popping
  <2>4. Loops(d)
    BY <1>2, <2>1, <2>2, <2>3 DEF Loops, Cleaning, Popping
  <2>5. Sees(d)'
    BY <2>1, <2>2 DEF Sees, queues
  <2>6. Held({})' /\ Tracked({})'
    BY <1>3, <2>1 DEF Held, Tracked, queues
  <2> QED
    BY <1>0, <1>G, <2>1, <2>2, <2>3, <2>4, <2>5, <2>6 DEF queues, Cleaning
<1>2f. CASE RemoveCounts(t)
  <2>1. /\ call[t].at = "counted" /\ call[t].seen = decode_queue
        /\ UNCHANGED <<prefill_queue, decode_queue, contexts, uneven, generated>>
    BY <1>2, <1>2f DEF RemoveCounts, At, Sees
  <2>2. /\ all_greedy' = (decode_queue \subseteq Greedy)
        /\ call' = [call EXCEPT ![t].at = Return(t), ![t].seen = {}]
    BY <1>2f, <2>1 DEF RemoveCounts
  <2>3. PICK d \in CallsOf(call[t].op) :
          /\ call' = [call EXCEPT ![t] = d] /\ d.op = call[t].op
          /\ d.batch = call[t].batch /\ d.answer = call[t].answer
          /\ d.left = call[t].left /\ d.todo = call[t].todo
          /\ d.at \in {"answered", "failing"}
          /\ d.at = "answered" => call[t].todo = {}
          /\ d.at = "failing" => call[t].todo # {}
    <3> DEFINE c == [call[t] EXCEPT !.at = Return(t), !.seen = {}]
    <3>1. call' = [call EXCEPT ![t] = c] /\ c \in CallsOf(call[t].op)
      BY <1>1, <2>2 DEF Return, CallsOf, Position, Over
    <3> QED
      BY <1>1, <3>1 DEF CallsOf, Return
  <2>4. call[t].todo # {} => call[t].op = "decode"
    BY <1>2 DEF Loops
  <2>5. Doomed(d) = Doomed(call[t])
    BY <2>1, <2>3 DEF Doomed, Popping
  <2>6. Loops(d)
    BY <1>2, <2>1, <2>3, <2>5 DEF Loops, Cleaning, Popping
  <2>7. Sees(d)'
    BY <2>3 DEF Sees
  <2>8. Held({})' /\ Tracked({})'
    BY <1>3, <2>1, <2>2 DEF Held, Tracked
  <2> QED
    BY <1>0, <1>G, <2>1, <2>3, <2>4, <2>5, <2>6, <2>7, <2>8 DEF Cleaning
<1> QED
  BY <1>2a, <1>2b, <1>2c, <1>2d, <1>2e, <1>2f DEF RemoveStep

(* The steps of a prefill in the engine. *)
LEMMA PrefillStepSync ==
  ASSUME Reliable, SyncInv, NEW t \in Thread, EngineStep(t), call[t].op = "prefill"
  PROVE  /\ InSync' /\ call'[t].at # "raised"
         /\ \A r \in Req : Counted(r)'
<1> DEFINE r == Head(pending[0])
<1>1. /\ t = awaited /\ awaited # NoThread /\ CallStep(t)
      /\ UNCHANGED <<routerVars, awaited>> /\ Others(t)
  BY LoneStep
<1>2. /\ call[t] \in CallsOf("prefill") /\ worker[0] = "prefilling"
      /\ loop[0] = "none" /\ r \in Req
      /\ call[t].batch = {r} /\ r \notin decode_queues[0] /\ DOMAIN results[0] = {}
  BY <1>1, Awaiting DEF SyncInv
<1>3. Prefilled(t) = r
  BY <1>2 DEF Prefilled
<1>4. /\ call \in [Thread -> Calls \union {Unused}] /\ r \notin Shared
      /\ call[t] # Unused /\ EngineInv
  BY <1>2 DEF SyncInv, ServingInv, EngineInv, Shared, Unused
<1>5. /\ UNCHANGED <<pending, worker, decode_queues, results, tokens, status>>
      /\ Shared' = Shared /\ r' = r
  BY <1>1, RouterFrame DEF routerVars
<1>6. /\ PrefillSync(call[t], r) /\ Solo(call[t])
      /\ Loops(call[t]) /\ Sees(call[t]) /\ Keeps(call[t])
  BY <1>1, <1>2 DEF SyncInv, InSync, Solo
<1>7. /\ call'[t].op = "prefill" /\ call'[t].batch = {r}
  BY <1>1, <1>2 DEF Others
<1>8. /\ generated[r] \in Nat /\ MaxNewTokens \in Nat
      /\ call[t].at \in {"sent", "forward"} => generated[r] = 0
      /\ generated \in [Req -> 0 .. MaxNewTokens]
      /\ prefill_queue \intersect decode_queue = {}
  BY <1>2, <1>4, BoundAssumption DEF EngineInv, QueueTypes, CallInv, Early
<1>9. /\ tokens[r] = <<>> /\ \A q \in Req : Counted(q)
  BY <1>2 DEF SyncInv, Counted
<1> HIDE DEF r
<1>B. ASSUME \A q \in Req : q # r => generated'[q] = generated[q],
             r \in DOMAIN call'[t].answer => Continues(r, call[t].answer[r])'
      PROVE  \A q \in Req : Counted(q)'
  <2> SUFFICES ASSUME NEW q \in Req PROVE Counted(q)'
    OBVIOUS
  <2>1. Counted(q)
    BY <1>9
  <2>2. ~ StepHasItems /\ ~ StepHasItems' /\ ~ StepHasRaised /\ ~ StepHasRaised'
    BY <1>1, <1>2, <1>7 DEF StepHasItems, StepHasRaised
  <2>3. q \in decode_queues[0] => generated'[q] = generated[q]
    BY <1>2, <1>B
  <2>4. ~ Failing /\ ~ Failing'
    BY <1>1, <1>2, RouterFrame DEF Failing
  <2> QED
    BY <1>1, <1>2, <1>5, <1>7, <1>B, <2>1, <2>2, <2>3, <2>4 DEF Counted, r
<1>C. PrefillSync(call[t], r)' /\ Solo(call[t])' => InSync'
  BY <1>1, <1>5, <1>7 DEF InSync, r
<1>S. ASSUME call'[t].at \in {"answered", "forward", "popped", "inserted", "joined",
                              "removing"},
             call'[t].todo = {},
             call'[t].left = IF call'[t].at = "removing" THEN {r} ELSE {},
             call'[t].at = "forward" => r \in prefill_queue', Keeps(call[t])'
      PROVE  Solo(call[t])' /\ Doomed(call'[t]) = call'[t].left
  <2>1. Doomed(call'[t]) = call'[t].left
    BY <1>S DEF Doomed, Popping
  <2>2. Loops(call'[t])
    BY <1>7, <1>S, <2>1 DEF Loops, Cleaning, Popping
  <2>3. Sees(call[t])'
    BY <1>7, <1>S DEF Sees
  <2> QED
    BY <1>S, <2>1, <2>2, <2>3 DEF Solo, Loops
<1>L. ASSUME call[t].at \in {"sent", "forward", "popped", "inserted", "joined"}
      PROVE  /\ call[t].left = {} /\ call[t].todo = {} /\ Doomed(call[t]) = {}
             /\ call[t].at # "popped" => Held({})
             /\ call[t].at \notin {"inserted", "joined"} => Tracked({})
  BY <1>2, <1>6, <1>L DEF Loops, Doomed, Popping, Keeps, CallsOf
<1>N. ASSUME call'[t].at = "answered", call'[t].answer = NoItems,
             call'[t].todo = {}, call'[t].left = {}, Held({})', Tracked({})',
             prefill_queue' \subseteq {r}, decode_queue' = Shared,
             UNCHANGED generated
      PROVE  /\ InSync' /\ call'[t].at # "raised"
             /\ \A q \in Req : Counted(q)'
  <2>1. Keeps(call[t])'
    BY <1>N DEF Keeps
  <2>2. Solo(call[t])'
    BY <1>N, <1>S, <2>1
  <2>3. r \notin DOMAIN call'[t].answer
    BY <1>N DEF NoItems
  <2>4. PrefillSync(call[t], r)'
    BY <1>5, <1>N, <2>3 DEF PrefillSync, Moved, Cleaning, Popping
  <2> QED
    BY <1>B, <1>C, <1>N, <2>2, <2>3, <2>4
<1>T. ASSUME call[t].at = "forward", call'[t].at = "removing",
             call'[t].todo = {}, call'[t].left = {r},
             DOMAIN call'[t].answer = {r},
             call'[t].answer[r].status \in {"COMPLETED", "ERROR"},
             call'[t].answer[r].tokens \in {<<>>, << 1 >>},
             UNCHANGED <<prefill_queue, decode_queue, all_greedy, contexts>>,
             uneven \subseteq uneven',
             \A q \in Req : q # r => generated'[q] = generated[q]
      PROVE  /\ InSync' /\ call'[t].at # "raised"
             /\ \A q \in Req : Counted(q)'
  <2>1. Keeps(call[t])'
    <3>1. Held({})' /\ Tracked({})'
      BY <1>L, <1>T DEF Held, Tracked
    <3> QED
      BY <1>7, <1>T, <3>1 DEF Keeps
  <2>2. Solo(call[t])' /\ Doomed(call'[t]) = {r}
    BY <1>S, <1>T, <2>1
  <2>3. ~ Moved(call'[t], r)
    BY <1>T DEF Moved
  <2>4. PrefillSync(call[t], r)'
    <3>1. decode_queue = Shared /\ prefill_queue \subseteq {r}
      BY <1>6, <1>T, NoItemsFit DEF PrefillSync, Moved, NoItems
    <3> QED
      BY <1>5, <1>T, <2>2, <2>3, <3>1 DEF PrefillSync, Moved
  <2>5. Continues(r, call[t].answer[r])'
    BY <1>5, <1>9, <1>T DEF Continues
  <2> QED
    BY <1>B, <1>C, <1>T, <2>2, <2>4, <2>5
<1>10. CASE PrefillInvalid(t)
  <2>1. /\ call[t].at = "sent" /\ call'[t].at = "answered" /\ call'[t].answer = NoItems
        /\ call'[t].left = call[t].left /\ call'[t].todo = call[t].todo
        /\ UNCHANGED <<queues, generated>>
    BY <1>2, <1>4, <1>10 DEF PrefillInvalid, Answer, Runs, Reliable, CallsOf, queues
  <2>2. Held({})' /\ Tracked({})'
    BY <1>L, <2>1 DEF Held, Tracked, queues
  <2>3. decode_queue = Shared /\ prefill_queue = {}
    BY <1>6, <1>L, <2>1 DEF PrefillSync, Moved, NoItems
  <2> QED
    BY <1>L, <1>N, <2>1, <2>2, <2>3 DEF queues
<1>11. CASE PrefillStart(t)
  <2>1. /\ call[t].at = "sent" /\ call'[t].at = "forward"
        /\ call'[t].answer = call[t].answer
        /\ call'[t].left = call[t].left /\ call'[t].todo = call[t].todo
        /\ UNCHANGED <<decode_queue, all_greedy, uneven, generated>>
        /\ contexts' = contexts \union {r} /\ prefill_queue' = prefill_queue \union {r}
    BY <1>2, <1>3, <1>4, <1>11 DEF PrefillStart, Goes, Runs, CallsOf
  <2>2. Held({})' /\ Tracked({})'
    BY <1>L, <2>1 DEF Held, Tracked
  <2>3. Keeps(call[t])'
    BY <1>7, <2>1, <2>2 DEF Keeps
  <2>4. Solo(call[t])' /\ Doomed(call'[t]) = {}
    BY <1>L, <1>S, <2>1, <2>3
  <2>5. decode_queue = Shared /\ prefill_queue = {} /\ call[t].answer = NoItems
    BY <1>6, <1>L, <2>1 DEF PrefillSync, Moved, NoItems
  <2>6. PrefillSync(call[t], r)'
    BY <1>5, <2>1, <2>4, <2>5 DEF PrefillSync, Moved, NoItems, Cleaning, Popping
  <2> QED
    BY <1>B, <1>C, <2>1, <2>4, <2>5, <2>6 DEF NoItems
<1>12. CASE PrefillFails(t)
  <2>1. /\ call[t].at = "forward" /\ call'[t].at = "removing"
        /\ call'[t].answer = Failed({r}) /\ call'[t].left = {r}
        /\ call'[t].todo = call[t].todo
        /\ UNCHANGED <<prefill_queue, decode_queue, all_greedy, contexts, generated>>
        /\ ForwardFails({r})
    BY <1>2, <1>4, <1>12 DEF PrefillFails, Removes, Runs, CallsOf
  <2>2. /\ DOMAIN call'[t].answer = {r}
        /\ call'[t].answer[r].status = "ERROR" /\ call'[t].answer[r].tokens = <<>>
    BY <2>1 DEF Failed
  <2>3. uneven \subseteq uneven'
    BY <2>1 DEF ForwardFails
  <2> QED
    BY <1>L, <1>T, <2>1, <2>2, <2>3
<1>13. CASE PrefillBreaks(t)
  <2>1. /\ call[t].at = "forward" /\ call'[t].at = "answered" /\ call'[t].answer = NoItems
        /\ call'[t].left = call[t].left /\ call'[t].todo = call[t].todo
        /\ UNCHANGED <<queues, generated>>
    BY <1>2, <1>4, <1>13 DEF PrefillBreaks, Answer, Runs, CallsOf
  <2>2. Held({})' /\ Tracked({})'
    BY <1>L, <2>1 DEF Held, Tracked, queues
  <2>3. decode_queue = Shared /\ prefill_queue \subseteq {r}
    BY <1>6, <2>1 DEF PrefillSync, Moved, NoItems
  <2> QED
    BY <1>L, <1>N, <2>1, <2>2, <2>3 DEF queues
<1>14. CASE PrefillStops(t)
  <2>1. /\ call[t].at = "forward" /\ call'[t].at = "removing"
        /\ call'[t].answer = [q \in {r} |-> Produced(r, "COMPLETED")]
        /\ call'[t].left = {r} /\ call'[t].todo = call[t].todo
        /\ UNCHANGED queues /\ generated' = [generated EXCEPT ![r] = @ + 1]
    BY <1>2, <1>3, <1>4, <1>14 DEF PrefillStops, Removes, Runs, CallsOf
  <2>2. /\ DOMAIN call'[t].answer = {r}
        /\ call'[t].answer[r].status = "COMPLETED" /\ call'[t].answer[r].tokens = <<1>>
    BY <1>8, <2>1 DEF Produced
  <2>3. \A q \in Req : q # r => generated'[q] = generated[q]
    BY <1>8, <2>1
  <2> QED
    BY <1>L, <1>T, <2>1, <2>2, <2>3 DEF queues
<1>15. CASE PrefillMoves(t)
  <2>1. /\ call[t].at = "forward" /\ call'[t].at = "popped"
        /\ call'[t].answer = [q \in {r} |-> Produced(r, "PREFILL_COMPLETED")]
        /\ call'[t].left = call[t].left /\ call'[t].todo = call[t].todo
        /\ generated[r] + 1 < MaxNewTokens
        /\ UNCHANGED <<decode_queue, all_greedy, contexts, uneven>>
        /\ prefill_queue' = prefill_queue \ {r}
        /\ generated' = [generated EXCEPT ![r] = @ + 1]
    BY <1>2, <1>3, <1>4, <1>15 DEF PrefillMoves, Runs, CallsOf
  <2>2. /\ DOMAIN call'[t].answer = {r} /\ 1 < MaxNewTokens
        /\ call'[t].answer[r].status = "PREFILL_COMPLETED"
        /\ call'[t].answer[r].tokens = <<1>>
        /\ generated'[r] = 1
    BY <1>2, <1>8, <2>1 DEF Produced
  <2>3. decode_queue = Shared /\ prefill_queue \subseteq {r} /\ r \in prefill_queue
    BY <1>2, <1>6, <2>1 DEF PrefillSync, Moved, NoItems, Sees
  <2>4. Held({r})' /\ Tracked({})'
    BY <1>5, <1>L, <2>1, <2>3 DEF Held, Tracked
  <2>5. Keeps(call[t])'
    BY <1>5, <1>7, <2>1, <2>4 DEF Keeps
  <2>6. Solo(call[t])' /\ Doomed(call'[t]) = {}
    BY <1>L, <1>S, <2>1, <2>5
  <2>7. PrefillSync(call[t], r)'
    BY <1>5, <2>1, <2>2, <2>3, <2>6 DEF PrefillSync, Moved, Cleaning, Popping
  <2>8. Continues(r, call[t].answer[r])'
    BY <1>5, <1>9, <2>2 DEF Continues
  <2>9. \A q \in Req : q # r => generated'[q] = generated[q]
    BY <1>8, <2>1
  <2> QED
    BY <1>B, <1>C, <2>1, <2>6, <2>7, <2>8, <2>9
<1>16. CASE MoveToDecodeQueue(t)
  <2>1. /\ call[t].at \in {"popped", "inserted", "joined"}
        /\ call'[t].answer = call[t].answer
        /\ call'[t].left = call[t].left /\ call'[t].todo = call[t].todo
        /\ UNCHANGED <<prefill_queue, contexts, uneven, generated>>
        /\ \/ /\ call[t].at = "popped" /\ call'[t].at = "inserted"
              /\ decode_queue' = decode_queue \union {r} /\ UNCHANGED all_greedy
           \/ /\ call[t].at = "inserted" /\ call'[t].at = "joined"
              /\ UNCHANGED <<decode_queue, all_greedy>>
              /\ call'[t].greedy = (all_greedy /\ r \in Greedy)
           \/ /\ call[t].at = "joined" /\ call'[t].at = "answered"
              /\ UNCHANGED decode_queue /\ all_greedy' = call[t].greedy
    BY <1>2, <1>4, <1>16 DEF MoveToDecodeQueue, Goes, Runs, CallsOf
  <2>2. Keeps(call[t])'
    <3>1. CASE call[t].at = "popped" /\ call'[t].at = "inserted"
      <4>1. Held({r}) /\ Tracked({})
        BY <1>2, <1>6, <3>1 DEF Keeps
      <4>2. Held({})' /\ Tracked({r})'
        BY <1>5, <2>1, <3>1, <4>1 DEF Held, Tracked
      <4> QED
        BY <1>5, <1>7, <3>1, <4>2 DEF Keeps
    <3>2. CASE call[t].at = "inserted" /\ call'[t].at = "joined"
      <4>1. Held({}) /\ Tracked({r})
        BY <1>2, <1>6, <3>2 DEF Keeps
      <4>2. Held({})' /\ Tracked({r})'
        BY <1>5, <2>1, <3>2, <4>1 DEF Held, Tracked
      <4>3. call'[t].greedy => decode_queue' \subseteq Greedy
        BY <2>1, <3>2, <4>1 DEF Tracked
      <4> QED
        BY <1>5, <1>7, <3>2, <4>2, <4>3 DEF Keeps
    <3>3. CASE call[t].at = "joined" /\ call'[t].at = "answered"
      <4>1. Held({}) /\ (call[t].greedy => decode_queue \subseteq Greedy)
        BY <1>2, <1>6, <3>3 DEF Keeps
      <4>2. Held({})' /\ Tracked({})'
        BY <2>1, <3>3, <4>1 DEF Held, Tracked
      <4> QED
        BY <1>7, <3>3, <4>2 DEF Keeps
    <3> QED
      BY <2>1, <3>1, <3>2, <3>3
  <2>3. Solo(call[t])' /\ Doomed(call'[t]) = {}
    BY <1>L, <1>S, <2>1, <2>2
  <2>4. /\ r \in DOMAIN call[t].answer /\ Moved(call[t], r) /\ prefill_queue = {}
        /\ decode_queue = Shared \union IF call[t].at # "popped" THEN {r} ELSE {}
    BY <1>6, <1>L, <2>1 DEF PrefillSync, Moved
  <2>5. Moved(call[t], r)'
    BY <1>5, <2>1, <2>4 DEF Moved
  <2>6. PrefillSync(call[t], r)'
    BY <1>5, <2>1, <2>3, <2>4, <2>5 DEF PrefillSync, Cleaning, Popping
  <2>7. Continues(r, call[t].answer[r])
    BY <1>1, <1>2, <1>9, <2>4 DEF Counted, r
  <2>8. Continues(r, call[t].answer[r])'
    BY <1>5, <2>1, <2>7 DEF Continues
  <2> QED
    BY <1>B, <1>C, <2>1, <2>3, <2>6, <2>8
<1>17. CASE RemoveStep(t)
  <2>1. /\ Solo(call[t])' /\ GoesOn(t)
        /\ decode_queue' \subseteq decode_queue
        /\ prefill_queue' \subseteq prefill_queue
        /\ UNCHANGED <<generated, uneven>> /\ call[t].at \in Cleaning
    BY <1>2, <1>4, <1>6, <1>17, SoloRemove
  <2>2. /\ Leaves(t)
        /\ \/ /\ call'[t].answer = call[t].answer
              /\ call'[t].at \in Cleaning \union {"answered"}
           \/ call'[t].answer = NoItems /\ call'[t].at = "answered"
    BY <1>2, <2>1 DEF GoesOn
  <2>3. /\ r \in DOMAIN call[t].answer /\ ~ Moved(call[t], r)
        /\ decode_queue = Shared /\ prefill_queue \subseteq Doomed(call[t])
    BY <1>6, <2>1 DEF PrefillSync, Cleaning, Popping
  <2>4. ~ Moved(call'[t], r)
    BY <2>2, <2>3 DEF Moved, NoItems
  <2>5. Doomed(call[t]) \subseteq {r}
    BY <1>2, <1>6 DEF Loops
  <2>6. decode_queue' = Shared /\ prefill_queue' \subseteq Doomed(call'[t])
        /\ prefill_queue' \subseteq {r}
    BY <1>4, <2>1, <2>2, <2>3, <2>5 DEF Leaves
  <2>7. PrefillSync(call[t], r)'
    BY <1>5, <2>2, <2>3, <2>4, <2>6 DEF PrefillSync, Moved, Cleaning, Popping, NoItems
  <2>8. Continues(r, call[t].answer[r])
    BY <1>1, <1>2, <1>9, <2>3 DEF Counted, r
  <2>9. r \in DOMAIN call'[t].answer => Continues(r, call[t].answer[r])'
    BY <1>5, <2>1, <2>2, <2>8 DEF Continues, NoItems
  <2> QED
    BY <1>B, <1>C, <2>1, <2>2, <2>7, <2>9 DEF Cleaning, Popping
<1> QED
  BY <1>1, <1>2, <1>10, <1>11, <1>12, <1>13, <1>14, <1>15, <1>16, <1>17
     DEF CallStep, DecodeStart, DecodePrepares, DecodeFails, DecodeHandles, Runs

(* The steps of a decode step in the engine. *)
LEMMA DecodeStepSync ==
  ASSUME Reliable, SyncInv, NEW t \in Thread, EngineStep(t), call[t].op = "decode"
  PROVE  InSync' /\ \A r \in Req : Counted(r)'
<1>1. /\ t = awaited /\ awaited # NoThread /\ CallStep(t)
      /\ UNCHANGED <<routerVars, awaited>> /\ Others(t)
  BY LoneStep
<1>2. /\ call[t] \in CallsOf("decode") /\ loop[0] = "stepping"
      /\ DOMAIN results[0] = {} /\ worker[0] # "prefilling"
  <2>1. P!Control(0)
    BY TheEngine DEF SyncInv, ServingInv, P!PlacesInv, P!TypeInv
  <2> QED
    BY <1>1, <2>1, Awaiting DEF SyncInv, P!Control, P!Prefilling
<1>3. /\ call \in [Thread -> Calls \union {Unused}] /\ Shared = decode_queues[0]
      /\ generated \in [Req -> 0 .. MaxNewTokens] /\ MaxNewTokens \in Nat
      /\ call[t] # Unused /\ EngineInv /\ decode_queue \subseteq Req
  BY <1>2, BoundAssumption
     DEF SyncInv, ServingInv, EngineInv, QueueTypes, Shared, Unused
<1>4. /\ UNCHANGED <<pending, worker, decode_queues, results, tokens, status>>
      /\ Shared' = Shared
  BY <1>1, RouterFrame
<1>5. /\ DecodeSync(call[t]) /\ Solo(call[t])
      /\ Loops(call[t]) /\ Sees(call[t]) /\ Keeps(call[t])
  BY <1>1, <1>2 DEF SyncInv, InSync, Solo
<1>6. call'[t].op = "decode"
  BY <1>1, <1>2 DEF Others
<1>7. /\ \A r \in Req : Counted(r)
      /\ ~ Failing /\ ~ Failing'
  BY <1>1, <1>2, RouterFrame DEF SyncInv, Failing
<1>E. call[t].at \in {"sent", "keys", "forward"} =>
        \A r \in Req : r \in decode_queues[0] => generated[r] = Len(tokens[r])
  <2>1. call[t].at \in {"sent", "keys", "forward"} => ~ StepHasItems /\ ~ StepHasRaised
    BY <1>1 DEF StepHasItems, StepHasRaised
  <2> QED
    BY <1>2, <1>7, <2>1 DEF Counted
<1>F. ASSUME call[t].at \notin {"sent", "keys", "forward", "raised"}
      PROVE  \A r \in Req : r \in decode_queues[0] => Continues(r, call[t].answer[r])
  <2>1. StepHasItems /\ ~ StepHasRaised
    BY <1>1, <1>2, <1>F DEF StepHasItems, StepHasRaised, CallsOf
  <2> QED
    BY <1>1, <1>2, <1>7, <2>1 DEF Counted
<1>B. ASSUME call'[t].at \notin {"sent", "keys", "forward", "raised"},
             \A r \in Req : r \in decode_queues[0] => Continues(r, call[t].answer[r])'
      PROVE  \A r \in Req : Counted(r)'
  <2> SUFFICES ASSUME NEW r \in Req PROVE Counted(r)'
    OBVIOUS
  <2>1. Counted(r)
    BY <1>7
  <2>2. StepHasItems'
    BY <1>1, <1>6, <1>B DEF StepHasItems
  <2> QED
    BY <1>1, <1>2, <1>4, <1>B, <2>1, <2>2 DEF Counted
<1>M. ASSUME call[t].at \in {"sent", "keys"}, call'[t].at \in {"keys", "forward"},
             call'[t].answer = call[t].answer, UNCHANGED generated
      PROVE  \A r \in Req : Counted(r)'
  <2>1. /\ ~ StepHasItems /\ ~ StepHasItems' /\ ~ StepHasRaised /\ ~ StepHasRaised'
    BY <1>1, <1>M DEF StepHasItems, StepHasRaised
  <2> QED
    BY <1>1, <1>7, <1>M, <2>1, CountedFrame
<1>R. ASSUME call'[t].at = "raised" PROVE \A r \in Req : Counted(r)'
  <2>1. StepHasRaised'
    BY <1>1, <1>6, <1>R DEF StepHasRaised
  <2> QED
    BY <1>2, <1>4, <1>7, <2>1 DEF Counted
<1>C. DecodeSync(call[t])' /\ Solo(call[t])' => InSync'
  BY <1>1, <1>6 DEF InSync
<1>S. ASSUME call'[t].at \in {"keys", "forward", "answered", "failing", "removing"},
             call'[t].at \in {"failing", "removing"} \/ call'[t].todo = {},
             call'[t].at = "removing" \/ call'[t].left = {},
             call'[t].left \union call'[t].todo \subseteq call'[t].batch,
             call'[t].at \in {"keys", "forward"} => call'[t].batch = decode_queue',
             Held({})', Tracked({})',
             call'[t].at = "forward" /\ call'[t].greedy => call'[t].batch \subseteq Greedy
      PROVE  /\ Solo(call[t])'
             /\ Doomed(call'[t]) = call'[t].left \union call'[t].todo
  <2>1. Doomed(call'[t]) = call'[t].left \union call'[t].todo
    BY <1>S DEF Doomed, Popping
  <2>2. Loops(call'[t])
    BY <1>6, <1>S, <2>1 DEF Loops, Cleaning, Popping
  <2>3. Sees(call[t])'
    BY <1>6, <1>S DEF Sees
  <2>4. Keeps(call[t])'
    BY <1>S DEF Keeps
  <2> QED
    BY <2>1, <2>2, <2>3, <2>4 DEF Solo, Loops
<1>L. ASSUME call[t].at \in {"sent", "keys", "forward", "failing"}
      PROVE  /\ call[t].left = {} /\ Doomed(call[t]) = call[t].todo
             /\ call[t].at # "failing" => call[t].todo = {}
             /\ Held({}) /\ Tracked({})
  BY <1>2, <1>5, <1>L DEF Loops, Doomed, Cleaning, Popping, Keeps, CallsOf
<1>Q. UNCHANGED <<decode_queue, prefill_queue, contexts>> /\ uneven \subseteq uneven'
      /\ UNCHANGED all_greedy /\ Held({}) /\ Tracked({})
      => Held({})' /\ Tracked({})'
  BY DEF Held, Tracked
<1>8. CASE DecodeStart(t)
  <2>1. /\ call[t].at = "sent" /\ UNCHANGED <<queues, generated>>
        /\ call'[t].at = IF decode_queue = {} THEN "answered" ELSE "keys"
        /\ call'[t].batch = decode_queue /\ call'[t].answer = call[t].answer
        /\ call'[t].left = call[t].left /\ call'[t].todo = call[t].todo
    BY <1>2, <1>3, <1>8 DEF DecodeStart, Runs, CallsOf
  <2>2. /\ call[t].answer = NoItems /\ decode_queue = decode_queues[0]
        /\ prefill_queue = {}
    BY <1>5, <2>1 DEF DecodeSync
  <2>3. Solo(call[t])' /\ Doomed(call'[t]) = {}
    BY <1>L, <1>Q, <1>S, <2>1 DEF queues
  <2>4. DecodeSync(call[t])'
    BY <1>4, <2>1, <2>2, <2>3 DEF DecodeSync, queues, NoItems
  <2>5. CASE decode_queue = {}
    BY <1>B, <1>C, <2>1, <2>2, <2>3, <2>4, <2>5
  <2>6. CASE decode_queue # {}
    BY <1>C, <1>M, <2>1, <2>3, <2>4, <2>6
  <2> QED
    BY <2>5, <2>6
<1>9. CASE DecodePrepares(t)
  <2>1. call[t].at = "keys" /\ UNCHANGED <<queues, generated>>
    BY <1>9 DEF DecodePrepares, Runs
  <2>2. call[t].batch = decode_queue
    BY <1>2, <1>5, <2>1 DEF Sees, CallsOf
  <2>3. /\ call'[t].at = "forward" /\ call'[t].greedy = all_greedy
        /\ call'[t].batch = call[t].batch /\ call'[t].answer = call[t].answer
        /\ call'[t].left = call[t].left /\ call'[t].todo = call[t].todo
    BY <1>2, <1>3, <1>9, <2>2 DEF DecodePrepares, CallsOf
  <2>4. call'[t].greedy => call'[t].batch \subseteq Greedy
    BY <1>L, <2>1, <2>2, <2>3 DEF Tracked
  <2>5. Solo(call[t])'
    BY <1>L, <1>Q, <1>S, <2>1, <2>2, <2>3, <2>4 DEF queues
  <2>6. DecodeSync(call[t])'
    BY <1>4, <1>5, <2>1, <2>3 DEF DecodeSync, queues
  <2> QED
    BY <1>C, <1>M, <2>1, <2>3, <2>5, <2>6
<1>10. CASE DecodeFails(t)
  <2>1. /\ call[t].at = "forward" /\ call'[t].at = "failing"
        /\ call'[t].answer = Failed(call[t].batch)
        /\ call'[t].batch = call[t].batch /\ call'[t].todo = call[t].batch
        /\ call'[t].left = {}
        /\ UNCHANGED <<prefill_queue, decode_queue, all_greedy, contexts, generated>>
    BY <1>2, <1>3, <1>10 DEF DecodeFails, Fails, Runs, CallsOf
  <2>2. /\ call[t].batch = decode_queues[0] /\ decode_queue = decode_queues[0]
        /\ prefill_queue = {}
    BY <1>5, <2>1 DEF DecodeSync
  <2>3. /\ DOMAIN call'[t].answer = decode_queues[0]
        /\ \A r \in decode_queues[0] : /\ call'[t].answer[r].status = "ERROR"
                                      /\ call'[t].answer[r].tokens = <<>>
    BY <2>1, <2>2 DEF Failed
  <2>4. uneven \subseteq uneven'
    BY <1>10 DEF DecodeFails, ForwardFails
  <2>5. Solo(call[t])' /\ Doomed(call'[t]) = decode_queues[0]
    BY <1>L, <1>Q, <1>S, <2>1, <2>2, <2>4
  <2>6. DecodeSync(call[t])'
    BY <1>4, <2>1, <2>2, <2>3, <2>5 DEF DecodeSync
  <2>7. \A r \in Req : r \in decode_queues[0] => Continues(r, call[t].answer[r])'
    BY <2>3 DEF Continues
  <2> QED
    BY <1>B, <1>C, <2>1, <2>5, <2>6, <2>7
<1>11. CASE DecodeHandles(t)
  <2>1. PICK r \in call[t].todo :
          call' = [call EXCEPT
            ![t].todo = @ \ {r}, ![t].left = {r} \intersect decode_queue,
            ![t].at = IF r \in decode_queue THEN "removing"
                      ELSE IF call[t].todo = {r} THEN "answered" ELSE "failing"]
    BY <1>11 DEF DecodeHandles
  <2>2. /\ call[t].at = "failing" /\ UNCHANGED <<queues, generated>>
        /\ call'[t].at = IF r \in decode_queue THEN "removing"
                         ELSE IF call[t].todo = {r} THEN "answered" ELSE "failing"
        /\ call'[t].answer = call[t].answer /\ call'[t].batch = call[t].batch
        /\ call'[t].todo = call[t].todo \ {r}
        /\ call'[t].left = {r} \intersect decode_queue
    BY <1>2, <1>3, <1>11, <2>1 DEF DecodeHandles, Runs, CallsOf
  <2>3. call[t].todo \subseteq call[t].batch
    BY <1>5, <1>L, <2>2 DEF Loops
  <2>4. /\ Solo(call[t])'
        /\ Doomed(call'[t]) = ({r} \intersect decode_queue) \union (call[t].todo \ {r})
    <3>1. /\ call'[t].at \in {"removing", "answered", "failing"}
          /\ call'[t].at = "answered" => call'[t].todo = {}
          /\ call'[t].at = "removing" \/ call'[t].left = {}
          /\ call'[t].left \union call'[t].todo \subseteq call'[t].batch
      <4>1. r \in call[t].batch /\ call[t].todo \ {r} \subseteq call[t].batch
        BY <2>3
      <4>2. CASE r \in decode_queue
        BY <2>2, <4>1, <4>2
      <4>3. CASE r \notin decode_queue
        BY <2>2, <4>1, <4>3
      <4> QED
        BY <4>2, <4>3
    <3>2. Held({})' /\ Tracked({})'
      BY <1>L, <1>Q, <2>2 DEF queues
    <3> QED
      BY <1>S, <2>2, <3>1, <3>2
  <2>5. decode_queue' \ Doomed(call'[t]) = decode_queue \ Doomed(call[t])
    BY <1>L, <2>2, <2>4 DEF queues
  <2>6. DecodeSync(call[t])'
    BY <1>4, <1>5, <2>2, <2>5 DEF DecodeSync, queues
  <2>7. \A r_1 \in Req : r_1 \in decode_queues[0] => Continues(r_1, call[t].answer[r_1])'
    BY <1>4, <1>F, <2>2 DEF Continues
  <2> QED
    BY <1>B, <1>C, <2>2, <2>4, <2>6, <2>7
<1>12. ASSUME NEW stopped \in SUBSET call[t].batch, DecodeDone(t, stopped)
       PROVE  InSync' /\ \A r \in Req : Counted(r)'
  <2> DEFINE batch == call[t].batch
  <2>1. /\ call[t].at = "forward"
        /\ call'[t].at = IF stopped = {} THEN "answered" ELSE "removing"
        /\ call'[t].answer = [r \in batch |->
              Produced(r, IF r \in stopped THEN "COMPLETED" ELSE "PROGRESS")]
        /\ \A r \in batch : generated[r] + 1 <= MaxNewTokens
        /\ \A r \in batch : generated[r] + 1 = MaxNewTokens => r \in stopped
        /\ generated' = [r \in Req |-> generated[r] + IF r \in batch THEN 1 ELSE 0]
        /\ UNCHANGED queues
    BY <1>2, <1>3, <1>12 DEF DecodeDone, Answer, Removes, Runs, CallsOf
  <2>2. /\ call'[t].batch = batch /\ call'[t].left = stopped
        /\ call'[t].todo = call[t].todo
    <3>1. call[t].left = {}
      BY <1>L, <2>1
    <3>2. CASE stopped = {}
      BY <1>2, <1>3, <1>12, <3>1, <3>2 DEF DecodeDone, Answer, CallsOf
    <3>3. CASE stopped # {}
      BY <1>2, <1>3, <1>12, <3>3 DEF DecodeDone, Removes, CallsOf
    <3> QED
      BY <3>2, <3>3
  <2>3. batch = decode_queues[0] /\ decode_queue = decode_queues[0]
        /\ prefill_queue = {}
    BY <1>5, <2>1 DEF DecodeSync
  <2>4. /\ DOMAIN call'[t].answer = decode_queues[0]
        /\ \A r \in decode_queues[0] :
             /\ call'[t].answer[r].status = IF r \in stopped THEN "COMPLETED" ELSE "PROGRESS"
             /\ call'[t].answer[r].tokens = <<generated[r] + 1>>
    BY <2>1, <2>3 DEF Produced
  <2>5. Solo(call[t])' /\ Doomed(call'[t]) = stopped
    BY <1>L, <1>Q, <1>S, <2>1, <2>2 DEF queues
  <2>6. decode_queue' \ Doomed(call'[t])
          = {r \in decode_queues[0] : call'[t].answer[r].status = "PROGRESS"}
    BY <2>1, <2>3, <2>4, <2>5 DEF queues
  <2>7. DecodeSync(call[t])'
    BY <1>4, <2>1, <2>2, <2>3, <2>4, <2>6 DEF DecodeSync, queues
  <2>8. ASSUME NEW r \in Req, r \in decode_queues[0]
        PROVE  Continues(r, call[t].answer[r])'
    <3>1. /\ generated[r] = Len(tokens[r]) /\ generated[r] \in Nat
          /\ generated'[r] = generated[r] + 1 /\ generated[r] + 1 <= MaxNewTokens
      BY <1>3, <1>E, <2>1, <2>3, <2>8
    <3>2. r \notin stopped => generated[r] + 1 < MaxNewTokens
      BY <1>3, <2>1, <2>3, <2>8, <3>1
    <3> DEFINE item == call'[t].answer[r]
    <3>3. /\ item.tokens = <<Len(tokens[r]) + 1>>
          /\ item.status = IF r \in stopped THEN "COMPLETED" ELSE "PROGRESS"
      BY <2>4, <2>8, <3>1
    <3>4. /\ item.tokens # <<>> /\ generated'[r] = Len(tokens[r]) + 1
          /\ r \notin stopped => Len(tokens[r]) + 1 < MaxNewTokens
      BY <3>1, <3>2, <3>3
    <3> HIDE DEF item
    <3> QED
      BY <1>4, <3>3, <3>4 DEF Continues, item
  <2> QED
    BY <1>4, <1>B, <1>C, <2>1, <2>5, <2>7, <2>8
<1>13. CASE RemoveStep(t)
  <2>1. /\ Solo(call[t])' /\ GoesOn(t)
        /\ decode_queue' \subseteq decode_queue
        /\ prefill_queue' \subseteq prefill_queue
        /\ UNCHANGED <<generated, uneven>> /\ call[t].at \in Cleaning
        /\ call'[t].batch = call[t].batch
    BY <1>2, <1>3, <1>5, <1>13, SoloRemove
  <2>2. /\ prefill_queue = {} /\ call[t].batch = decode_queues[0]
        /\ DOMAIN call[t].answer = decode_queues[0]
        /\ decode_queue \ Doomed(call[t]) =
             {r \in decode_queues[0] : call[t].answer[r].status = "PROGRESS"}
    BY <1>5, <2>1 DEF DecodeSync, Cleaning, Popping
  <2>3. decode_queue \subseteq decode_queues[0]
    BY <1>5, <2>2 DEF Loops
  <2>4. \A r \in Req : r \in decode_queues[0] => Continues(r, call[t].answer[r])
    BY <1>F, <2>1 DEF Cleaning, Popping
  <2>5. CASE /\ Leaves(t) /\ call'[t].answer = call[t].answer
             /\ call'[t].at \in Cleaning \union {"answered", "failing"}
    <3>1. DecodeSync(call[t])'
      BY <1>4, <2>1, <2>2, <2>5 DEF DecodeSync, Leaves, Cleaning, Popping
    <3>2. \A r \in Req : r \in decode_queues[0] => Continues(r, call[t].answer[r])'
      BY <1>4, <2>1, <2>4, <2>5 DEF Continues
    <3> QED
      BY <1>B, <1>C, <2>1, <2>5, <3>1, <3>2 DEF Cleaning, Popping
  <2>6. CASE /\ call'[t].at = "failing" /\ call'[t].todo = call[t].batch
             /\ call'[t].answer = Failed(call[t].batch)
    <3>1. /\ DOMAIN call'[t].answer = decode_queues[0]
          /\ \A r \in decode_queues[0] : /\ call'[t].answer[r].status = "ERROR"
                                        /\ call'[t].answer[r].tokens = <<>>
      BY <2>2, <2>6 DEF Failed
    <3>2. decode_queues[0] \subseteq Doomed(call'[t])
      BY <2>2, <2>6 DEF Doomed
    <3>3. DecodeSync(call[t])'
      BY <1>4, <2>1, <2>2, <2>3, <2>6, <3>1, <3>2 DEF DecodeSync
    <3>4. \A r \in Req : r \in decode_queues[0] => Continues(r, call[t].answer[r])'
      BY <3>1 DEF Continues
    <3> QED
      BY <1>B, <1>C, <2>1, <2>6, <3>3, <3>4
  <2>7. CASE call'[t].at = "raised"
    <3>1. DecodeSync(call[t])'
      BY <1>4, <2>1, <2>2, <2>3, <2>7 DEF DecodeSync
    <3> QED
      BY <1>C, <1>R, <2>1, <2>7, <3>1
  <2> QED
    BY <1>2, <2>1, <2>5, <2>6, <2>7 DEF GoesOn, CallsOf
<1> QED
  BY <1>1, <1>2, <1>8, <1>9, <1>10, <1>11, <1>12, <1>13
     DEF CallStep, PrefillInvalid, PrefillStart, PrefillFails, PrefillBreaks,
         PrefillStops, PrefillMoves, MoveToDecodeQueue, Runs

(* The removal of a sequence in the engine. *)
LEMMA RemoveStepSync ==
  ASSUME Reliable, SyncInv, NEW t \in Thread, EngineStep(t), call[t].op = "remove"
  PROVE  InSync' /\ \A r \in Req : Counted(r)'
<1>1. /\ t = awaited /\ awaited # NoThread /\ CallStep(t)
      /\ UNCHANGED <<routerVars, awaited>> /\ Others(t)
  BY LoneStep
<1>2. PICK r \in Req : call[t].batch = {r}
  BY <1>1, Awaiting DEF SyncInv
<1>3. /\ call \in [Thread -> Calls \union {Unused}] /\ call[t] \in CallsOf("remove")
      /\ worker[0] # "prefilling" /\ EngineInv
  <2>1. P!Control(0)
    BY TheEngine DEF SyncInv, ServingInv, P!PlacesInv, P!TypeInv
  <2> QED
    BY <1>1, <2>1, Awaiting
       DEF SyncInv, ServingInv, EngineInv, P!Control, P!Prefilling
<1>4. RemoveStep(t)
  BY <1>1
     DEF CallStep, PrefillInvalid, PrefillStart, PrefillFails, PrefillBreaks,
         PrefillStops, PrefillMoves, MoveToDecodeQueue, DecodeStart, DecodePrepares,
         DecodeFails, DecodeHandles, Runs
<1>5. Solo(call[t]) /\ RemoveSync(call[t])
  BY <1>1 DEF SyncInv, InSync
<1>6. /\ Solo(call[t])' /\ GoesOn(t) /\ UNCHANGED generated
      /\ call'[t].op = "remove"
  BY <1>2, <1>3, <1>4, <1>5, SoloRemove
<1>7. Leaves(t)
  BY <1>6 DEF GoesOn
<1>8. UNCHANGED <<pending, worker, decode_queues, results, tokens, status>>
      /\ Shared' = Shared /\ Failing' = Failing
  BY <1>1, RouterFrame
<1>9. InSync'
  <2>1. RemoveSync(call[t])'
    BY <1>5, <1>7, <1>8 DEF RemoveSync, Same, Leaves
  <2> QED
    BY <1>1, <1>6, <2>1 DEF InSync
<1>10. ASSUME NEW q \in Req PROVE Counted(q)'
  <2>1. Counted(q)
    BY DEF SyncInv
  <2>2. /\ ~ StepHasItems /\ ~ StepHasItems' /\ ~ StepHasRaised /\ ~ StepHasRaised'
    BY <1>1, <1>6 DEF StepHasItems, StepHasRaised
  <2> QED
    BY <1>1, <1>3, <1>6, <1>8, <2>1, <2>2 DEF Counted, Continues
<1> QED
  BY <1>9, <1>10

(* The engine is ready for the call that is wanted next. *)
Settled ==
  /\ Tidy
  /\ Wanted.op # "remove" => Clean
  /\ \A r \in Req : Wanted = Call("remove", {r}) => RemoveReady(r)

(* Counted between two calls. *)
Told(r) ==
  /\ tokens[r] = [k \in 1 .. Len(tokens[r]) |-> k]
  /\ \/ status[r] \in {"new", "queued"}
     \/ worker[0] = "prefilling" /\ r = Head(pending[0])
     => tokens[r] = <<>>
  /\ r \in decode_queues[0] /\ ~ Failing =>
       IF r \in DOMAIN results[0] THEN Continues(r, results[0][r])
                                  ELSE generated[r] = Len(tokens[r])

(* Without a step of the engine what it keeps is as it was. *)
LEMMA TidyFrame ==
  UNCHANGED queues => (Tidy' <=> Tidy)
  BY DEF queues, Tidy, Held, Tracked

LEMMA SoloFrame ==
  ASSUME NEW t \in Thread, UNCHANGED queues, call'[t] = call[t], Solo(call[t])
  PROVE  Solo(call[t])'
<1>1. Loops(call'[t])
  BY DEF Solo
<1>2. Sees(call[t])'
  BY DEF Solo, Sees, queues
<1>3. Keeps(call[t])'
  BY DEF Solo, Keeps, queues, Held, Tracked
<1> QED
  BY <1>1, <1>2, <1>3 DEF Solo

(* A call that is sent knows nothing yet. *)
LEMMA SentSolo ==
  ASSUME NEW t, Tidy', call'[t].at = "sent", call'[t].todo = {}, call'[t].seen = {},
         call'[t].left = IF call'[t].op = "remove" THEN call'[t].batch ELSE {}
  PROVE  Solo(call[t])' /\ Doomed(call'[t]) = call'[t].left
<1>1. Doomed(call'[t]) = call'[t].left
  BY DEF Doomed, Popping
<1>2. Loops(call'[t])
  BY <1>1 DEF Loops, Popping, Cleaning
<1>3. Sees(call[t])' /\ Keeps(call[t])'
  BY DEF Sees, Keeps, Tidy
<1> QED
  BY <1>1, <1>2, <1>3 DEF Solo

(* Nothing is left to do for a call that is over. *)
LEMMA OverSolo ==
  ASSUME NEW c, Solo(c), c.at \in Over
  PROVE  Doomed(c) = {} /\ Tidy
  BY DEF Solo, Loops, Keeps, Doomed, Popping, Cleaning, Over, Tidy

(* The answered call leaves, and the wanted one is sent. *)
LEMMA SentSync ==
  ASSUME SyncInv, WantedOK', P!Control(0)', Settled',
         UNCHANGED <<queues, generated>>,
         \/ awaited = NoThread /\ Exchange({})
         \/ awaited # NoThread /\ Exchange({awaited}),
         \A r \in Req : Told(r)'
  PROVE  Lone' /\ InSync' /\ \A r \in Req : Counted(r)'
<1> DEFINE over == IF awaited = NoThread THEN {} ELSE {awaited}
           left == [t \in Thread |-> IF t \in over THEN Unused ELSE call[t]]
<1>0. call \in [Thread -> Calls \union {Unused}] /\ Sendable'
  BY WantedWillBeCall DEF SyncInv, ServingInv, EngineInv
<1>1. left = [t \in Thread |-> Unused]
  BY <1>0, NoThreadAssumption DEF SyncInv, Lone
<1>2. Exchange(over)
  OBVIOUS
<1>3. \/ Wanted' = Unused /\ call' = left /\ awaited' = NoThread
      \/ \E u \in Thread : /\ Wanted' # Unused
                           /\ call' = [left EXCEPT ![u] = Wanted'] /\ awaited' = u
  BY <1>2 DEF Exchange
<1>4. /\ \A t \in Thread : call'[t] # Unused => t = awaited' /\ call'[t] = Wanted'
      /\ awaited' # NoThread => call'[awaited'] = Wanted' /\ Wanted' # Unused
      /\ awaited' = NoThread => Wanted' = Unused
  BY <1>1, <1>3, NoThreadAssumption
<1> HIDE DEF left, over
<1>5. Wanted' # Unused =>
        /\ Wanted'.at = "sent" /\ Wanted'.answer = NoItems
        /\ Wanted'.todo = {} /\ Wanted'.seen = {} /\ Wanted'.op \in Operation
        /\ Wanted'.left = IF Wanted'.op = "remove" THEN Wanted'.batch ELSE {}
  BY <1>0 DEF Sendable
<1>6. Lone'
  BY <1>4, <1>5 DEF Lone
<1>S. ASSUME NEW u \in Thread, awaited' = u
      PROVE  /\ Solo(call[u])' /\ Doomed(call'[u]) = Wanted'.left
             /\ call'[u] = Wanted' /\ Wanted' # Unused /\ u # NoThread
  <2>1. call'[u] = Wanted' /\ Wanted' # Unused /\ u # NoThread
    BY <1>4, <1>S, NoThreadAssumption
  <2> QED
    BY <1>5, <1>S, <2>1, SentSolo DEF Settled
<1>W. /\ Wanted'.op = "prefill" => loop'[0] = "none"
      /\ Wanted'.op = "decode" => loop'[0] = "stepping" /\ DOMAIN results'[0] = {}
  BY DEF WantedOK, P!Control, P!Prefilling, Call, Unused
<1>7. InSync'
  <2>1. CASE awaited' = NoThread
    BY <1>4, <2>1 DEF InSync, Settled, Unused
  <2>2. ASSUME NEW u \in Thread, awaited' = u PROVE InSync'
    <3>1. /\ Solo(call[u])' /\ Doomed(call'[u]) = Wanted'.left
          /\ call'[u] = Wanted' /\ Wanted' # Unused /\ u # NoThread
      BY <1>S, <2>2
    <3>2. CASE Wanted'.op = "remove"
      <4>1. PICK r \in Req : Wanted' = Call("remove", {r})
        BY <3>1, <3>2 DEF WantedOK, Call
      <4>2. RemoveReady(r)'
        BY <4>1 DEF Settled
      <4>3. Doomed(call'[u]) = {r}
        BY <3>1, <4>1 DEF Call
      <4>4. RemoveSync(call[u])'
        BY <4>2, <4>3 DEF RemoveSync, RemoveReady, Same
      <4> QED
        BY <2>2, <3>1, <3>2, <4>4 DEF InSync
    <3>3. CASE Wanted'.op = "prefill"
      <4>1. decode_queue' = Shared' /\ prefill_queue' = {}
        BY <1>W, <3>3 DEF Settled, Clean, Same, Failing
      <4>2. PrefillSync(call[u], Head(pending[0]))'
        BY <1>5, <3>1, <3>3, <4>1 DEF PrefillSync, Moved, NoItems, Cleaning, Popping
      <4> QED
        BY <2>2, <3>1, <3>3, <4>2 DEF InSync
    <3>4. CASE Wanted'.op = "decode"
      <4>1. decode_queue' = Shared' /\ prefill_queue' = {}
        BY <1>W, <3>4 DEF Settled, Clean, Same, Failing
      <4>2. Shared' = decode_queues'[0]
        BY <1>W, <3>4 DEF Shared
      <4>3. DecodeSync(call[u])'
        BY <1>5, <3>1, <3>4, <4>1, <4>2 DEF DecodeSync
      <4> QED
        BY <2>2, <3>1, <3>4, <4>3 DEF InSync
    <3> QED
      BY <1>5, <3>1, <3>2, <3>3, <3>4 DEF Operation
  <2>3. awaited' = NoThread \/ awaited' \in Thread
    BY <1>3
  <2> QED
    BY <2>1, <2>2, <2>3
<1>8. ASSUME NEW r \in Req PROVE Counted(r)'
  <2>1. ~ StepHasItems' /\ ~ StepHasRaised'
    BY <1>4, <1>5 DEF StepHasItems, StepHasRaised
  <2>2. awaited' # NoThread => DOMAIN call'[awaited'].answer = {}
    BY <1>4, <1>5 DEF NoItems
  <2> QED
    BY <2>1, <2>2 DEF Told, Counted
<1> QED
  BY <1>6, <1>7, <1>8

LEMMA SettledClean ==
  ASSUME WantedOK', Clean', Tidy', worker'[0] # "clearing",
         loop'[0] \notin {"clearing", "finalizing", "failclearing"}
  PROVE  Settled'
<1>1. \A r : Wanted' # Call("remove", {r})
  BY DEF WantedOK, Call, Unused
<1> QED
  BY <1>1 DEF Settled

LEMMA SettledRemove ==
  ASSUME WantedOK', Tidy',
         \/ worker'[0] = "clearing" /\ RemoveReady(Head(pending[0]))'
         \/ /\ loop'[0] \in {"clearing", "finalizing", "failclearing"}
            /\ RemoveReady(target[0])'
  PROVE  Settled'
<1>1. ASSUME NEW q, NEW r, Call("remove", {q}) = Call("remove", {r}) PROVE q = r
  <2>1. {q} = {r}
    BY <1>1 DEF Call
  <2> QED
    BY <2>1
<1>2. CASE worker'[0] = "clearing" /\ RemoveReady(Head(pending[0]))'
  <2>1. Wanted' = Call("remove", {Head(pending'[0])})
    BY <1>2 DEF WantedOK
  <2>2. Wanted'.op = "remove"
    BY <2>1 DEF Call
  <2> QED
    BY <1>1, <1>2, <2>1, <2>2 DEF Settled
<1>3. CASE /\ loop'[0] \in {"clearing", "finalizing", "failclearing"}
           /\ RemoveReady(target[0])'
  <2>1. Wanted' = Call("remove", {target'[0]})
    BY <1>3 DEF WantedOK
  <2>2. Wanted'.op = "remove"
    BY <2>1 DEF Call
  <2> QED
    BY <1>1, <1>3, <2>1, <2>2 DEF Settled
<1> QED
  BY <1>2, <1>3

(* No token before the prefill is answered. *)
LEMMA EmptyStart ==
  ASSUME SyncInv, NEW r \in Req, AloneMove \/ ReplyMove,
         \/ status'[r] \in {"new", "queued"}
         \/ worker'[0] = "prefilling" /\ r = Head(pending'[0])
  PROVE  tokens'[r] = <<>>
<1>0. P!PlacesInv /\ Counted(r) /\ P!Control(0)
  BY TheEngine DEF SyncInv, ServingInv, P!PlacesInv, P!TypeInv
<1>1. P!RequestStep(r)
  BY <1>0, MovesKeep
<1>2. status[r] \in {"new", "queued"} => tokens'[r] = <<>>
  BY <1>0, <1>1 DEF Counted, P!RequestStep
<1>3. CASE status'[r] \in {"new", "queued"}
  BY <1>1, <1>2, <1>3 DEF P!RequestStep
<1>4. CASE /\ worker'[0] = "prefilling" /\ r = Head(pending'[0])
           /\ ReplyMove \/ ~ UNCHANGED <<worker, pending>>
  BY <1>0, <1>2, <1>4, NewPrefill
<1>5. CASE /\ worker'[0] = "prefilling" /\ r = Head(pending'[0])
           /\ AloneMove /\ UNCHANGED <<worker, pending>>
  <2>1. loop[0] = "none" /\ tokens[r] = <<>>
    BY <1>0, <1>5 DEF P!Control, P!Prefilling, Counted
  <2>2. UNCHANGED tokens
    BY <1>5, <2>1
       DEF AloneMove, P!Take, P!StopDecode, P!Resume, P!LoopTop, P!StepDone,
           P!FailDone, P!Leave, P!Apply, P!FailOne, P!Reader, P!Submit,
           P!ReadToEnd, P!Cancel, P!Drop, P!Cleanup, P!requestVars
  <2> QED
    BY <2>1, <2>2
<1> QED
  BY <1>3, <1>4, <1>5

LEMMA Joined ==
  ASSUME NEW p \in Seq(Nat), NEW q \in Seq(Nat)
  PROVE  /\ p \o q \in Seq(Nat)
         /\ Len(p \o q) = Len(p) + Len(q)
         /\ \A i \in 1 .. Len(p) + Len(q) :
              (p \o q)[i] = IF i <= Len(p) THEN p[i] ELSE q[i - Len(p)]
  BY ConcatProperties, SMTT(30)

(* A stream in order stays in order by its next token. *)
LEMMA NextToken ==
  ASSUME NEW q \in Seq(Nat), q = [k \in 1 .. Len(q) |-> k],
         NEW ts, ts \in {<<>>, <<Len(q) + 1>>}
  PROVE  /\ q \o ts = [k \in 1 .. Len(q \o ts) |-> k]
         /\ ts # <<>> => Len(q \o ts) = Len(q) + 1
         /\ ts = <<>> => q \o ts = q
<1>1. CASE ts = <<>>
  BY <1>1, ConcatEmptySeq
<1>2. CASE ts = <<Len(q) + 1>>
  <2>1. /\ Len(q) \in Nat /\ ts \in Seq(Nat) /\ Len(ts) = 1 /\ ts[1] = Len(q) + 1
        /\ \A k \in 1 .. Len(q) : q[k] = k
    BY <1>2
  <2>2. /\ q \o ts \in Seq(Nat)
        /\ Len(q \o ts) = Len(q) + Len(ts)
        /\ \A i \in 1 .. Len(q) + Len(ts) :
             (q \o ts)[i] = IF i <= Len(q) THEN q[i] ELSE ts[i - Len(q)]
    BY <2>1, Joined
  <2> DEFINE s == q \o ts
  <2> HIDE DEF s
  <2>3. s \in Seq(Nat) /\ Len(s) = Len(q) + 1
    BY <2>1, <2>2 DEF s
  <2>4. ASSUME NEW k \in 1 .. Len(q) + 1 PROVE s[k] = k
    <3>1. s[k] = IF k <= Len(q) THEN q[k] ELSE ts[k - Len(q)]
      BY <2>1, <2>2 DEF s
    <3>2. CASE k <= Len(q)
      BY <2>1, <3>1, <3>2
    <3>3. CASE k = Len(q) + 1
      <4>1. k - Len(q) = 1 /\ ~ (k <= Len(q))
        BY <2>1, <3>3
      <4> QED
        BY <2>1, <3>1, <3>3, <4>1
    <3> QED
      BY <2>1, <3>2, <3>3
  <2>5. s = [k \in 1 .. Len(s) |-> s[k]]
    BY <2>3
  <2>6. s = [k \in 1 .. Len(s) |-> k]
    BY <2>3, <2>4, <2>5
  <2> QED
    BY <1>2, <2>3, <2>6 DEF s
<1> QED
  BY <1>1, <1>2


(* What the proofs below know of the router. *)
Router0 ==
  /\ P!PlacesInv /\ P!Control(0) /\ 0 \in P!Engines /\ WantedOK
  /\ decode_queues \in [P!Engines -> SUBSET Req] /\ DOMAIN results = P!Engines
  /\ worker \in [P!Engines -> P!WorkerPos] /\ loop \in [P!Engines -> P!LoopPos]
  /\ target \in [P!Engines -> Req \union {NoReq}]
  /\ tokens \in [Req -> Seq(Nat)] /\ DOMAIN results[0] \subseteq decode_queues[0]

LEMMA Known == SyncInv => Router0
<1> SUFFICES ASSUME SyncInv PROVE Router0
  OBVIOUS
<1>1. P!PlacesInv /\ P!TypeInv
  BY DEF SyncInv, ServingInv, P!PlacesInv
<1>2. P!Control(0) /\ 0 \in P!Engines /\ WantedOK
  BY <1>1, TheEngine, WantedIs DEF P!TypeInv
<1>3. ASSUME NEW r \in Req PROVE tokens[r] \in Seq(Nat)
  <2>1. tokens[r] \in Seq(Places)
    BY <1>1 DEF P!TypeInv, P!TypeOK
  <2>2. Places \subseteq Nat
    BY DEF Places
  <2>3. Len(tokens[r]) \in Nat /\ tokens[r] \in [1 .. Len(tokens[r]) -> Places]
    BY <2>1
  <2>4. tokens[r] \in [1 .. Len(tokens[r]) -> Nat]
    BY <2>2, <2>3
  <2> QED
    BY <2>3, <2>4
<1>4. tokens \in [Req -> Seq(Nat)]
  BY <1>1, <1>3 DEF P!TypeInv, P!TypeOK
<1> QED
  BY <1>1, <1>2, <1>4 DEF Router0, P!TypeInv, P!TypeOK, P!Control

(* Between two calls the engine is clean, and so are the threads. *)
LEMMA Between ==
  ASSUME SyncInv, Wanted = Unused
  PROVE  /\ awaited = NoThread /\ Clean /\ Tidy
         /\ \A r \in Req : Told(r)
         /\ worker[0] \notin {"prefilling", "clearing"}
         /\ loop[0] \notin {"stepping", "clearing", "finalizing", "failclearing"}
<1>1. awaited = NoThread
  BY DEF SyncInv, ServingInv, Conn
<1>2. \A r \in Req : Told(r)
  <2>1. ~ StepHasItems /\ ~ StepHasRaised
    BY <1>1 DEF StepHasItems, StepHasRaised
  <2> QED
    BY <1>1, <2>1 DEF SyncInv, Counted, Told
<1>3. WantedOK
  BY Known DEF Router0
<1> QED
  BY <1>1, <1>2, <1>3 DEF SyncInv, InSync, WantedOK, Call, Unused

LEMMA QuietExchange ==
  ASSUME SyncInv, Wanted = Unused, QuietStep
  PROVE  Exchange({})
<1>1. awaited = NoThread
  BY Between
<1>2. CASE Wanted' = Wanted /\ UNCHANGED <<call, awaited>>
  <2>1. call = [t \in Thread |-> IF t \in {} THEN Unused ELSE call[t]]
    BY DEF SyncInv, ServingInv, EngineInv
  <2> QED
    BY <1>1, <1>2, <2>1 DEF Exchange
<1> QED
  BY <1>2 DEF QuietStep

(* While a call is awaited the router's own steps change nothing it is about. *)
LEMMA AloneWanted ==
  ASSUME SyncInv, Wanted # Unused, AloneMove
  PROVE  /\ UNCHANGED <<decode_queues, results, tokens, loop, target>>
         /\ worker[0] \in {"prefilling", "clearing"} => UNCHANGED <<worker, pending>>
         /\ worker'[0] \in {"prefilling", "clearing"} <=> worker[0] \in {"prefilling", "clearing"}
<1>0. P!Control(0) /\ WantedOK /\ worker \in [P!Engines -> P!WorkerPos] /\ 0 \in P!Engines
  BY Known DEF Router0
<1>1. /\ loop[0] # "none" => worker[0] \notin {"prefilling", "clearing"}
      /\ \/ worker[0] \in {"prefilling", "clearing"}
         \/ loop[0] \in {"stepping", "clearing", "finalizing", "failclearing"}
  BY <1>0 DEF WantedOK, P!Control, P!Prefilling
<1>2. CASE P!StopDecode(0)
  BY <1>0, <1>1, <1>2 DEF P!StopDecode, P!loopVars, P!requestVars
<1>3. CASE \E r \in Req : P!Reader(r)
  BY <1>3 DEF P!Reader, P!Submit, P!ReadToEnd, P!Cancel, P!Drop, P!loopVars,
              P!requestVars, P!workerVars
<1>4. CASE \E r \in Req : P!Cleanup(r)
  BY <1>4 DEF P!Cleanup, P!loopVars, P!requestVars, P!workerVars
<1> QED
  BY <1>1, <1>2, <1>3, <1>4
     DEF AloneMove, P!Take, P!Resume, P!LoopTop, P!StepDone, P!FailDone, P!Leave,
         P!Apply, P!FailOne, P!DecodeTaskDone

LEMMA QuietWanted ==
  ASSUME SyncInv, Wanted # Unused, QuietStep, Wanted' = Wanted
  PROVE  Lone' /\ InSync' /\ \A r \in Req : Counted(r)'
<1>1. /\ UNCHANGED <<decode_queues, results, tokens, call, awaited, queues, generated>>
      /\ UNCHANGED <<loop, target>>
      /\ worker[0] \in {"prefilling", "clearing"} => UNCHANGED <<worker, pending>>
      /\ worker'[0] \in {"prefilling", "clearing"} <=> worker[0] \in {"prefilling", "clearing"}
  BY AloneWanted DEF QuietStep
<1>2. Lone'
  BY <1>1 DEF SyncInv, Lone
<1>3. Shared' = Shared /\ Failing' = Failing
  BY <1>1 DEF Shared, Failing
<1>4. awaited # NoThread
  BY NoThreadAssumption DEF SyncInv, ServingInv, Conn
<1>5. call[awaited].op = "prefill" => UNCHANGED <<worker, pending>>
  BY <1>1, <1>4, Awaiting DEF SyncInv
<1>6. InSync'
  <2>1. PICK u \in Thread : awaited = u
    BY <1>4, Awaiting DEF SyncInv
  <2>2. /\ Solo(call[u])
        /\ call[u].op = "prefill" => PrefillSync(call[u], Head(pending[0]))
        /\ call[u].op = "remove" => RemoveSync(call[u])
        /\ call[u].op = "decode" => DecodeSync(call[u])
    BY <1>4, <2>1 DEF SyncInv, InSync
  <2>3. Solo(call[u])'
    BY <1>1, <2>2, SoloFrame
  <2>4. call[u].op = "prefill" => PrefillSync(call[u], Head(pending[0]))'
    BY <1>1, <1>3, <1>5, <2>1, <2>2 DEF PrefillSync, queues
  <2>5. call[u].op = "remove" => RemoveSync(call[u])'
    BY <1>1, <1>3, <2>2 DEF RemoveSync, Same, queues
  <2>6. call[u].op = "decode" => DecodeSync(call[u])'
    BY <1>1, <2>2 DEF DecodeSync, queues
  <2>7. awaited' = u /\ u # NoThread /\ call' = call
    BY <1>1, <1>4, <2>1
  <2> QED
    BY <2>3, <2>4, <2>5, <2>6, <2>7 DEF InSync
<1>7. ASSUME NEW r \in Req PROVE Counted(r)'
  <2>1. Counted(r)
    BY DEF SyncInv
  <2>2. \/ status'[r] \in {"new", "queued"}
        \/ worker'[0] = "prefilling" /\ r = Head(pending'[0])
        => tokens'[r] = <<>>
    BY EmptyStart DEF QuietStep
  <2>3. worker'[0] = "prefilling" => UNCHANGED <<worker, pending>>
    BY <1>1
  <2>4. /\ StepHasItems' = StepHasItems /\ StepHasRaised' = StepHasRaised
        /\ Failing' = Failing
    BY <1>1, <1>3 DEF StepHasItems, StepHasRaised
  <2> QED
    BY <1>1, <2>1, <2>2, <2>3, <2>4 DEF Counted, Continues
<1> QED
  BY <1>2, <1>6, <1>7

(* What a move owes a stream it adds no token to. *)
LEMMA ToldSame ==
  ASSUME SyncInv, NEW r \in Req, Told(r), AloneMove \/ ReplyMove,
         Failing => Failing' \/ r \notin decode_queues'[0],
         tokens'[r] = tokens[r], generated'[r] = generated[r],
         r \in decode_queues'[0] => r \in decode_queues[0],
         r \in DOMAIN results'[0] <=> r \in DOMAIN results[0],
         r \in DOMAIN results[0] => results'[0][r] = results[0][r]
  PROVE  Told(r)'
<1>1. \/ status'[r] \in {"new", "queued"}
      \/ worker'[0] = "prefilling" /\ r = Head(pending'[0])
      => tokens'[r] = <<>>
  BY EmptyStart
<1> QED
  BY <1>1 DEF Told, Continues

(* It gets the next token, or none, with the item that was owed. *)
LEMMA ToldMore ==
  ASSUME SyncInv, NEW r \in Req, Told(r), AloneMove \/ ReplyMove, NEW item,
         Continues(r, item), tokens'[r] = tokens[r] \o item.tokens,
         generated'[r] = generated[r],
         r \in decode_queues'[0] => item.status \in {"PROGRESS", "PREFILL_COMPLETED"},
         r \notin DOMAIN results'[0]
  PROVE  Told(r)'
<1>1. \/ status'[r] \in {"new", "queued"}
      \/ worker'[0] = "prefilling" /\ r = Head(pending'[0])
      => tokens'[r] = <<>>
  BY EmptyStart
<1>2. tokens[r] \in Seq(Nat)
  BY Known DEF Router0
<1>3. /\ tokens'[r] = [k \in 1 .. Len(tokens'[r]) |-> k]
      /\ item.tokens # <<>> => Len(tokens'[r]) = Len(tokens[r]) + 1
  <2> DEFINE q == tokens[r]
             ts == item.tokens
  <2>1. /\ q \in Seq(Nat) /\ q = [k \in 1 .. Len(q) |-> k]
        /\ ts \in {<<>>, <<Len(q) + 1>>}
    BY <1>2 DEF Told, Continues
  <2> HIDE DEF q, ts
  <2>2. /\ q \o ts = [k \in 1 .. Len(q \o ts) |-> k]
        /\ ts # <<>> => Len(q \o ts) = Len(q) + 1
    BY <2>1, NextToken
  <2>3. tokens'[r] = q \o ts
    BY DEF q, ts
  <2> QED
    BY <2>2, <2>3 DEF q, ts
<1> QED
  BY <1>1, <1>3 DEF Told, Continues


(* The cancelled are cleared one by one before the step is sent. *)
LEMMA ClearStepSync ==
  ASSUME SyncInv, AloneMove \/ ReplyMove, WantedOK', Clean, Tidy,
         \A r \in Req : Told(r),
         loop[0] \in {"top", "clearing"},
         NEW todo \in SUBSET Req, P!ClearOrStep(0, todo),
         UNCHANGED <<results, tokens, worker, queues, generated>>
  PROVE  Settled' /\ \A r \in Req : Told(r)'
<1>0. /\ Router0 /\ DOMAIN results[0] = {} /\ worker[0] # "clearing"
      /\ ~ Failing /\ Tidy'
  BY Known, TidyFrame DEF Router0, P!Control, P!Prefilling, Failing
<1>1. ASSUME decode_queues'[0] \subseteq decode_queues[0]
      PROVE  \A r \in Req : Told(r)'
  BY <1>0, <1>1, ToldSame
<1>2. ASSUME NEW q \in todo, decode_queues' = [decode_queues EXCEPT ![0] = @ \ {q}],
             target' = [target EXCEPT ![0] = q], loop' = [loop EXCEPT ![0] = "clearing"]
      PROVE  Settled' /\ \A r \in Req : Told(r)'
  <2>1. /\ decode_queues'[0] = decode_queues[0] \ {q} /\ target'[0] = q
        /\ loop'[0] = "clearing"
    BY <1>0, <1>2 DEF Router0
  <2>2. Shared' = Shared \ {q}
    BY <1>0, <2>1 DEF Shared
  <2>3. RemoveReady(target[0])'
    BY <1>0, <2>1, <2>2 DEF RemoveReady, Clean, Same, queues
  <2> QED
    BY <1>0, <1>1, <2>1, <2>3, SettledRemove
<1>3. CASE /\ loop' = [loop EXCEPT ![0] = "stepping"] /\ UNCHANGED decode_queues
  <2>1. loop'[0] = "stepping"
    BY <1>0, <1>3 DEF Router0
  <2>2. Clean'
    <3>1. Shared' = Shared
      BY <1>3 DEF Shared
    <3> QED
      BY <1>0, <3>1 DEF Clean, Same, queues
  <2> QED
    BY <1>0, <1>1, <1>3, <2>1, <2>2, SettledClean
<1> QED
  BY <1>2, <1>3 DEF P!ClearOrStep

(* A request leaves the decode queue, and its removal is sent. *)
LEMMA FinalizeSync ==
  ASSUME SyncInv, NEW r \in Req, NEW outcome, NEW mark,
         NEW pos \in {"finalizing", "failclearing"},
         P!Finalize(0, r, outcome, mark, pos), Clean, Tidy, WantedOK',
         Failing <=> pos = "failclearing",
         r \in DOMAIN results[0] => results[0][r].status # "PROGRESS",
         \A q \in Req : q # r =>
           /\ q \in DOMAIN results'[0] <=> q \in DOMAIN results[0]
           /\ q \in DOMAIN results[0] => results'[0][q] = results[0][q],
         UNCHANGED queues
  PROVE  Settled' /\ decode_queues'[0] = decode_queues[0] \ {r}
<1>1. Router0
  BY Known
<1>2. /\ decode_queues'[0] = decode_queues[0] \ {r} /\ target'[0] = r
      /\ loop'[0] = pos
  BY <1>1 DEF Router0, P!Finalize
<1>3. Shared' = Shared \ {r}
  BY <1>1, <1>2 DEF Shared, Router0
<1>4. RemoveReady(target[0])'
  <2>1. Failing' = Failing
    BY <1>2 DEF Failing
  <2> QED
    BY <1>2, <1>3, <2>1 DEF RemoveReady, Clean, Same, queues
<1> QED
  BY <1>2, <1>4, SettledRemove, TidyFrame

(* The steps of the router between two calls. *)
LEMMA QuietSettled ==
  ASSUME SyncInv, Wanted = Unused, AloneMove, WantedOK', UNCHANGED <<queues, generated>>
  PROVE  Settled' /\ \A r \in Req : Told(r)'
<1>0. /\ Router0 /\ Clean /\ Tidy /\ Tidy' /\ \A r \in Req : Told(r)
      /\ worker[0] \notin {"prefilling", "clearing"}
      /\ loop[0] \notin {"stepping", "clearing", "finalizing", "failclearing"}
  BY Known, Between, TidyFrame
<1>1. ASSUME UNCHANGED <<decode_queues, results, tokens>>, worker'[0] # "clearing",
             loop'[0] \notin {"clearing", "finalizing", "failclearing"},
             Failing => Failing' \/ decode_queues[0] = {}
      PROVE  Settled' /\ \A r \in Req : Told(r)'
  <2>1. Shared' = Shared /\ (decode_queues[0] = {} => Shared = {})
    BY <1>1 DEF Shared
  <2>2. Clean'
    BY <1>0, <1>1, <2>1 DEF Clean, Same, queues
  <2>3. \A r \in Req : Told(r)'
    BY <1>0, <1>1, ToldSame
  <2> QED
    BY <1>0, <1>1, <2>2, <2>3, SettledClean
<1>2. CASE P!Take(0) \/ P!StopDecode(0) \/ P!Resume(0)
  <2>1. /\ UNCHANGED <<loop, decode_queues, results, tokens>>
        /\ worker'[0] \in {"stopping", "prefilling"}
    BY <1>0, <1>2 DEF Router0, P!Take, P!StopDecode, P!Resume, P!Prefill,
       P!loopVars, P!requestVars
  <2> QED
    BY <1>0, <1>1, <2>1 DEF Failing
<1>3. CASE P!StepDone(0) \/ P!FailDone(0) \/ P!Leave(0)
  <2>1. /\ UNCHANGED <<worker, decode_queues, results, tokens>>
        /\ loop'[0] \in {"top", "leaving", "none"}
        /\ loop[0] = "failing" => decode_queues[0] = {}
    BY <1>0, <1>3 DEF Router0, P!StepDone, P!FailDone, P!Leave, P!workerVars,
       P!requestVars
  <2> QED
    BY <1>0, <1>1, <2>1 DEF Failing
<1>4. CASE \E r \in Req : P!Reader(r) \/ P!Cleanup(r)
  <2>1. UNCHANGED <<worker, loop, decode_queues, results, tokens>>
    BY <1>4 DEF P!Reader, P!Submit, P!ReadToEnd, P!Cancel, P!Drop, P!Cleanup,
       P!workerVars, P!loopVars, P!requestVars
  <2> QED
    BY <1>0, <1>1, <2>1 DEF Failing
<1>5. CASE P!LoopTop(0)
  <2>1. UNCHANGED <<worker, results, tokens>> /\ loop[0] = "top"
    BY <1>5 DEF P!LoopTop, P!workerVars, P!requestVars
  <2>2. CASE loop' = [loop EXCEPT ![0] = "leaving"] /\ UNCHANGED decode_queues
    <3>1. loop'[0] = "leaving"
      BY <1>0, <2>2 DEF Router0
    <3> QED
      BY <1>0, <1>1, <2>1, <2>2, <3>1 DEF Failing
  <2>3. CASE P!ClearOrStep(0, P!CancelledHere(0))
    <3>1. P!CancelledHere(0) \in SUBSET Req
      BY <1>0 DEF Router0, P!CancelledHere
    <3> QED
      BY <1>0, <2>1, <2>3, <3>1, ClearStepSync
  <2> QED
    BY <1>5, <2>2, <2>3 DEF P!LoopTop
<1>6. ASSUME NEW r \in Req, P!Apply(0, r)
      PROVE  Settled' /\ \A q \in Req : Told(q)'
  <2> DEFINE item == results[0][r]
  <2>1. /\ loop[0] = "applying" /\ r \in DOMAIN results[0] /\ r \in decode_queues[0]
        /\ Told(r) /\ UNCHANGED worker /\ ~ Failing
    BY <1>0, <1>6 DEF P!Apply, Router0, P!workerVars, Failing
  <2>2. Continues(r, item)
    BY <2>1 DEF Told
  <2>3. /\ tokens'[r] = tokens[r] \o item.tokens
        /\ \A q \in Req : q # r => tokens'[q] = tokens[q]
    BY <1>0, <1>6 DEF P!Apply, Router0
  <2>4. /\ DOMAIN results'[0] = DOMAIN results[0] \ {r}
        /\ \A q \in DOMAIN results'[0] : results'[0][q] = results[0][q]
    BY <1>0, <1>6 DEF P!Apply, P!Restrict, Router0
  <2>5. ASSUME decode_queues'[0] \subseteq decode_queues[0],
               r \in decode_queues'[0] => item.status = "PROGRESS"
        PROVE  \A q \in Req : Told(q)'
    <3> SUFFICES ASSUME NEW q \in Req PROVE Told(q)'
      OBVIOUS
    <3>1. CASE q = r
      BY <2>1, <2>2, <2>3, <2>4, <2>5, <3>1, ToldMore
    <3>2. CASE q # r
      BY <1>0, <2>1, <2>3, <2>4, <2>5, <3>2, ToldSame
    <3> QED
      BY <3>1, <3>2
  <2>6. CASE item.status = "PROGRESS" /\ UNCHANGED <<decode_queues, loop>>
    <3>1. Shared' = Shared
      BY <2>1, <2>4, <2>6 DEF Shared
    <3>2. Clean'
      BY <1>0, <2>1, <3>1 DEF Clean, Same, queues
    <3>3. worker'[0] # "clearing" /\ loop'[0] = "applying"
      BY <1>0, <2>1, <2>6
    <3>4. \A q \in Req : Told(q)'
      BY <2>5, <2>6
    <3> QED
      BY <1>0, <3>2, <3>3, <3>4, SettledClean
  <2>7. ASSUME NEW outcome, NEW mark, item.status # "PROGRESS",
               P!Finalize(0, r, outcome, mark, "finalizing")
        PROVE  Settled' /\ \A q \in Req : Told(q)'
    <3>1. Settled' /\ decode_queues'[0] = decode_queues[0] \ {r}
      BY <1>0, <2>1, <2>4, <2>7, FinalizeSync
    <3> QED
      BY <2>5, <3>1
  <2>8. \/ item.status = "PROGRESS" /\ UNCHANGED <<decode_queues, loop>>
        \/ item.status # "PROGRESS" /\ P!Finalize(0, r, "completed", "END", "finalizing")
        \/ item.status # "PROGRESS" /\ P!Finalize(0, r, "error", "ERROR", "finalizing")
    BY <1>6 DEF P!Apply
  <2> QED
    BY <2>6, <2>7, <2>8
<1>7. ASSUME NEW r \in Req, P!FailOne(0, r)
      PROVE  Settled' /\ \A q \in Req : Told(q)'
  <2>1. /\ loop[0] = "failing" /\ UNCHANGED <<worker, results, tokens>>
        /\ P!Finalize(0, r, "error", "END", "failclearing")
    BY <1>7 DEF P!FailOne, P!workerVars
  <2>2. DOMAIN results[0] = {}
    BY <1>0, <2>1 DEF Router0, P!Control
  <2>3. /\ Settled' /\ decode_queues'[0] = decode_queues[0] \ {r}
        /\ Failing /\ Failing'
    <3>1. Failing /\ Failing'
      BY <1>0, <2>1 DEF Failing, P!Finalize, Router0
    <3> QED
      BY <1>0, <2>1, <2>2, <3>1, FinalizeSync
  <2>4. \A q \in Req : Told(q)'
    BY <1>0, <2>1, <2>3, ToldSame
  <2> QED
    BY <2>3, <2>4
<1> QED
  BY <1>2, <1>3, <1>4, <1>5, <1>6, <1>7 DEF AloneMove


(* The answers the router consumes when no call fails on its way. *)
PrefillReply ==
  LET answer == call[awaited].answer
      r == Head(pending[0])
  IN \/ /\ r \in DOMAIN answer /\ answer[r].status = "PREFILL_COMPLETED"
        /\ P!PrefillOk(0, answer[r].tokens)
     \/ /\ r \in DOMAIN answer /\ answer[r].status = "COMPLETED"
        /\ P!PrefillCompleted(0, answer[r].tokens)
     \/ /\ r \in DOMAIN answer => answer[r].status = "ERROR"
        /\ P!PrefillRejected(0)

AnswerMove ==
  \/ P!PrefillCleared(0) \/ P!CancelledCleared(0) \/ P!Finalized(0)
  \/ /\ call[awaited].at = "answered"
     /\ PrefillReply \/ P!StepAnswered(0, call[awaited].answer)
  \/ call[awaited].at = "raised" /\ P!BatchFailed(0)

AnswerStep ==
  /\ ReplyMove /\ AnswerMove
  /\ awaited # NoThread /\ call[awaited].at \in Over
  /\ Exchange({awaited}) /\ UNCHANGED <<queues, generated>>

LEMMA ReliableSteps ==
  ASSUME Reliable, SyncInv, Next
  PROVE  QuietStep \/ AnswerStep \/ \E t \in Thread : EngineStep(t)
<1>1. ASSUME \/ Raised(Router!PrefillRaised(0)) \/ Raised(Router!BatchFailed(0))
             \/ Raised(WorkerCleared) \/ Raised(LoopCleared)
      PROVE  AnswerStep
  <2>1. /\ awaited # NoThread /\ call[awaited].at = "raised" /\ Exchange({awaited})
        /\ UNCHANGED <<queues, generated>>
        /\ \/ Router!PrefillRaised(0) \/ Router!BatchFailed(0)
           \/ WorkerCleared \/ LoopCleared
    BY <1>1 DEF Raised, Reliable
  <2>2. ~ Router!PrefillRaised(0)
    <3>1. SUFFICES ASSUME P!PrefillRaised(0) PROVE FALSE
      BY SameActions
    <3>2. worker[0] = "prefilling"
      BY <3>1 DEF P!PrefillRaised
    <3>3. awaited \in Thread /\ call[awaited] # Unused /\ call[awaited].op = "prefill"
      BY <2>1, <3>2, AnswerFits DEF SyncInv
    <3> QED
      BY <2>1, <3>3 DEF SyncInv, Lone
  <2>3. P!BatchFailed(0) \/ P!PrefillCleared(0) \/ P!CancelledCleared(0) \/ P!Finalized(0)
    BY <2>1, <2>2, SameActions DEF WorkerCleared, LoopCleared
  <2> QED
    BY <2>1, <2>3 DEF ReplyMove, AnswerMove, AnswerStep, Over
<1>2. ASSUME NEW r \in Req, Alone(Router!Reader(r)) \/ Alone(Router!Cleanup(r))
      PROVE  QuietStep
  BY <1>2, SameActions DEF Alone, AloneMove, QuietStep
<1>3. ASSUME \/ Alone(Router!Take(0)) \/ Alone(Router!StopDecode(0))
             \/ Alone(Router!Resume(0)) \/ Alone(Router!LoopTop(0))
             \/ Alone(Router!StepDone(0)) \/ Alone(Router!FailDone(0))
             \/ Alone(Router!Leave(0))
      PROVE  QuietStep
  BY <1>3, SameActions DEF Alone, AloneMove, QuietStep
<1>4. ASSUME NEW r \in Req, Alone(Router!Apply(0, r)) \/ Alone(Router!FailOne(0, r))
      PROVE  QuietStep
  BY <1>4, SameActions DEF Alone, AloneMove, QuietStep
<1>5. ASSUME Answered(WorkerCleared) \/ Answered(LoopCleared)
      PROVE  AnswerStep
  BY <1>5, SameActions
     DEF Answered, WorkerCleared, LoopCleared, ReplyMove, AnswerMove, AnswerStep, Over
<1>6. CASE worker[0] = "prefilling" /\ Answered(PrefillAnswered)
  <2> DEFINE answer == call[awaited].answer
             r == Head(pending[0])
  <2>1. awaited # NoThread /\ call[awaited].at = "answered" /\ Exchange({awaited})
        /\ UNCHANGED <<queues, generated>> /\ PrefillAnswered
    BY <1>6 DEF Answered
  <2>2. call[awaited].op = "prefill" /\ answer \in Answered_("prefill")
    BY <1>6, <2>1, AnswerFits DEF SyncInv
  <2>3. r \in DOMAIN answer => answer[r].tokens \in Outputs
    BY <2>2 DEF Answered_, Items
  <2>4. PrefillReply
    BY <2>1, SameActions DEF PrefillAnswered, PrefillReply
  <2>5. ReplyMove
    BY <2>3, <2>4 DEF PrefillReply, ReplyMove
  <2> QED
    BY <2>1, <2>4, <2>5 DEF AnswerStep, AnswerMove, Over
<1>7. CASE loop[0] = "stepping" /\ Answered(Router!StepAnswered(0, call[awaited].answer))
  <2>1. call[awaited].answer \in Answered_("decode")
    BY <1>7, AnswerFits DEF Answered, SyncInv
  <2> QED
    BY <1>7, <2>1, SameActions DEF Answered, ReplyMove, AnswerMove, AnswerStep, Over
<1>8. \A t \in Thread : ~ Lost(t)
  BY DEF Lost, Reliable
<1> QED
  BY <1>1, <1>2, <1>3, <1>4, <1>5, <1>6, <1>7, <1>8 DEF Next, WorkerTurn, LoopTurn

(* What a call that is over says of the engine. *)
LEMMA AnswerAwaited ==
  ASSUME SyncInv, awaited # NoThread, call[awaited].at \in Over
  PROVE  /\ Tidy /\ Doomed(call[awaited]) = {}
         /\ worker[0] = "prefilling" =>
              /\ call[awaited].at = "answered"
              /\ Head(pending[0]) \in Req /\ Head(pending[0]) \notin decode_queues[0]
              /\ DOMAIN results[0] = {} /\ loop[0] = "none"
              /\ PrefillSync(call[awaited], Head(pending[0]))
              /\ Head(pending[0]) \in DOMAIN call[awaited].answer =>
                   Continues(Head(pending[0]), call[awaited].answer[Head(pending[0])])
              /\ tokens[Head(pending[0])] = <<>>
         /\ loop[0] = "stepping" =>
              /\ DOMAIN results[0] = {} /\ DecodeSync(call[awaited])
              /\ call[awaited].at = "answered" =>
                   \A r \in Req : r \in decode_queues[0] =>
                     Continues(r, call[awaited].answer[r])
         /\ worker[0] = "clearing"
            \/ loop[0] \in {"clearing", "finalizing", "failclearing"} => Clean
         /\ loop[0] # "stepping" => \A r \in Req : Told(r)
         /\ loop[0] # "none" => worker[0] \notin {"prefilling", "clearing"}
<1>1. Router0
  BY Known
<1>2. loop[0] # "none" => worker[0] \notin {"prefilling", "clearing"}
  BY <1>1 DEF Router0, P!Control, P!Prefilling
<1>3. /\ call[awaited].op \in Operation
      /\ call[awaited].op = "prefill" => worker[0] = "prefilling"
      /\ call[awaited].op = "decode" => loop[0] = "stepping"
      /\ call[awaited].op = "remove" =>
           \/ worker[0] = "clearing"
           \/ loop[0] \in {"clearing", "finalizing", "failclearing"}
  BY Awaiting DEF SyncInv
<1>4. (\A r \in Req : Counted(r)) /\ Solo(call[awaited])
  BY DEF SyncInv, InSync
<1>S. Tidy /\ Doomed(call[awaited]) = {}
  BY <1>4, OverSolo
<1>T. call[awaited].op # "decode" => \A r \in Req : Told(r)
  <2>1. call[awaited].op # "decode" => ~ StepHasItems /\ ~ StepHasRaised
    BY DEF StepHasItems, StepHasRaised
  <2> QED
    BY <1>4, <2>1 DEF Counted, Told
<1>5. CASE call[awaited].op = "prefill"
  <2>1. /\ worker[0] = "prefilling" /\ loop[0] = "none"
        /\ Head(pending[0]) \in Req /\ Head(pending[0]) \notin decode_queues[0]
        /\ DOMAIN results[0] = {}
    BY <1>5, Awaiting DEF SyncInv
  <2>2. PrefillSync(call[awaited], Head(pending[0]))
    BY <1>5 DEF SyncInv, InSync
  <2>3. /\ Head(pending[0]) \in DOMAIN call[awaited].answer =>
            Continues(Head(pending[0]), call[awaited].answer[Head(pending[0])])
        /\ tokens[Head(pending[0])] = <<>>
    BY <1>4, <2>1 DEF Counted
  <2>4. call[awaited].at = "answered"
    BY <1>5, AnswerFits DEF SyncInv, Lone, Over
  <2> QED
    BY <1>5, <1>S, <1>T, <2>1, <2>2, <2>3, <2>4
<1>6. CASE call[awaited].op = "decode"
  <2>1. /\ loop[0] = "stepping" /\ DOMAIN results[0] = {} /\ ~ Failing
        /\ call[awaited].at = "answered" => StepHasItems /\ ~ StepHasRaised
    BY <1>6, Awaiting DEF SyncInv, StepHasItems, StepHasRaised, Failing
  <2>2. DecodeSync(call[awaited])
    BY <1>6 DEF SyncInv, InSync
  <2>3. call[awaited].at = "answered" =>
          \A r \in Req : r \in decode_queues[0] => Continues(r, call[awaited].answer[r])
    BY <1>4, <2>1 DEF Counted
  <2> QED
    BY <1>2, <1>S, <2>1, <2>2, <2>3
<1>7. CASE call[awaited].op = "remove"
  <2>1. \/ worker[0] = "clearing"
        \/ loop[0] \in {"clearing", "finalizing", "failclearing"}
    BY <1>3, <1>7
  <2>2. Clean
    <3>1. RemoveSync(call[awaited])
      BY <1>7 DEF SyncInv, InSync
    <3>2. decode_queue \ {} = decode_queue
      OBVIOUS
    <3> QED
      BY <1>S, <3>1, <3>2 DEF RemoveSync, Clean
  <2> QED
    BY <1>2, <1>7, <1>S, <1>T, <2>1, <2>2
<1> QED
  BY <1>3, <1>5, <1>6, <1>7 DEF Operation

(* The steps of the router that consume an answer. *)
LEMMA AnswerSettled ==
  ASSUME SyncInv, AnswerStep, WantedOK'
  PROVE  Settled' /\ \A r \in Req : Told(r)'
<1>0. /\ Router0 /\ ReplyMove /\ UNCHANGED <<queues, generated>>
      /\ awaited # NoThread /\ call[awaited].at \in Over
  BY Known DEF AnswerStep
<1>A. /\ Tidy /\ Doomed(call[awaited]) = {}
      /\ worker[0] = "prefilling" =>
              /\ call[awaited].at = "answered"
              /\ Head(pending[0]) \in Req /\ Head(pending[0]) \notin decode_queues[0]
              /\ DOMAIN results[0] = {} /\ loop[0] = "none"
              /\ PrefillSync(call[awaited], Head(pending[0]))
              /\ Head(pending[0]) \in DOMAIN call[awaited].answer =>
                   Continues(Head(pending[0]), call[awaited].answer[Head(pending[0])])
              /\ tokens[Head(pending[0])] = <<>>
      /\ loop[0] = "stepping" =>
              /\ DOMAIN results[0] = {} /\ DecodeSync(call[awaited])
              /\ call[awaited].at = "answered" =>
                   \A r \in Req : r \in decode_queues[0] =>
                     Continues(r, call[awaited].answer[r])
      /\ worker[0] = "clearing"
            \/ loop[0] \in {"clearing", "finalizing", "failclearing"} => Clean
      /\ loop[0] # "stepping" => \A r \in Req : Told(r)
      /\ loop[0] # "none" => worker[0] \notin {"prefilling", "clearing"}
  BY <1>0, AnswerAwaited
<1>T. Tidy'
  BY <1>0, <1>A, TidyFrame
<1>B. ASSUME NEW st, NEW dq, P!Advance(0, st, dq), worker[0] \in {"prefilling", "clearing"}
      PROVE  /\ decode_queues'[0] = dq
             /\ worker'[0] \in {"prefilling", "idle"} /\ loop'[0] \in {"none", "top"}
  <2>1. loop[0] = "none"
    BY <1>A, <1>B
  <2> QED
    BY <1>0, <1>B, <2>1 DEF P!Advance, P!Prefill, P!StartDecode, Router0
<1>1. CASE PrefillReply /\ worker[0] = "prefilling"
  <2> DEFINE r == Head(pending[0])
             answer == call[awaited].answer
  <2>1. /\ r \in Req /\ r \notin decode_queues[0] /\ DOMAIN results[0] = {}
        /\ loop[0] = "none" /\ PrefillSync(call[awaited], r) /\ tokens[r] = <<>>
        /\ r \in DOMAIN answer => Continues(r, answer[r])
        /\ \A q \in Req : Told(q)
        /\ ~ Failing /\ call[awaited].at = "answered" /\ Doomed(call[awaited]) = {}
    BY <1>1, <1>A DEF Failing
  <2>2. r \notin Shared
    BY <2>1 DEF Shared
  <2>3. ASSUME r \in DOMAIN answer, UNCHANGED results,
               tokens' = [tokens EXCEPT ![r] = @ \o answer[r].tokens],
               decode_queues'[0] = decode_queues[0] \union
                 IF answer[r].status = "PREFILL_COMPLETED" THEN {r} ELSE {}
        PROVE  \A q \in Req : Told(q)'
    <3> SUFFICES ASSUME NEW q \in Req PROVE Told(q)'
      OBVIOUS
    <3>1. /\ tokens'[r] = tokens[r] \o answer[r].tokens
          /\ q # r => tokens'[q] = tokens[q]
      BY <1>0, <2>1, <2>3, SMTT(30) DEF Router0
    <3>2. CASE q = r
      <4> HIDE DEF answer, r
      <4> QED
        BY <1>0, <2>1, <2>3, <3>1, <3>2, ToldMore
    <3>3. CASE q # r
      <4>1. q \in decode_queues'[0] => q \in decode_queues[0]
        BY <2>3, <3>3, ZenonT(30)
      <4> QED
        BY <1>0, <2>1, <2>3, <3>1, <3>3, <4>1, ToldSame
    <3> QED
      BY <3>2, <3>3
  <2>4. CASE /\ r \in DOMAIN answer /\ answer[r].status = "PREFILL_COMPLETED"
             /\ P!PrefillOk(0, answer[r].tokens)
    <3>1. /\ decode_queues'[0] = decode_queues[0] \union {r} /\ UNCHANGED results
          /\ worker'[0] \in {"prefilling", "idle"} /\ loop'[0] \in {"none", "top"}
          /\ tokens' = [tokens EXCEPT ![r] = @ \o answer[r].tokens]
      BY <1>1, <1>B, <2>4 DEF P!PrefillOk
    <3>2. Shared' = Shared \union {r}
      BY <2>1, <3>1 DEF Shared
    <3>3. Clean'
      <4>1. decode_queue = Shared \union {r} /\ prefill_queue = {}
        BY <2>1, <2>4 DEF PrefillSync, Moved
      <4> QED
        BY <1>0, <3>2, <4>1 DEF Clean, Same, queues
    <3>4. \A q \in Req : Told(q)'
      BY <2>3, <2>4, <3>1, ZenonT(30)
    <3> QED
      BY <1>T, <3>1, <3>3, <3>4, SettledClean, SMTT(30)
  <2>5. CASE /\ r \in DOMAIN answer /\ answer[r].status = "COMPLETED"
             /\ P!PrefillCompleted(0, answer[r].tokens)
    <3>1. /\ decode_queues'[0] = decode_queues[0] /\ UNCHANGED results
          /\ worker'[0] \in {"prefilling", "idle"} /\ loop'[0] \in {"none", "top"}
          /\ tokens' = [tokens EXCEPT ![r] = @ \o answer[r].tokens]
      BY <1>1, <1>B, <2>5 DEF P!PrefillCompleted
    <3>2. Shared' = Shared
      BY <3>1 DEF Shared
    <3>3. Clean'
      <4>1. ~ Moved(call[awaited], r)
        BY <2>5 DEF Moved
      <4>2. decode_queue = Shared /\ prefill_queue = {}
        BY <2>1, <2>5, <4>1 DEF PrefillSync
      <4> QED
        BY <1>0, <3>2, <4>2 DEF Clean, Same, queues
    <3>4. \A q \in Req : Told(q)'
      BY <2>3, <2>5, <3>1
    <3> QED
      BY <1>T, <3>1, <3>3, <3>4, SettledClean, SMTT(30)
  <2>6. CASE /\ r \in DOMAIN answer => answer[r].status = "ERROR"
             /\ P!PrefillRejected(0)
    <3>1. /\ UNCHANGED <<decode_queues, results, tokens, pending>>
          /\ worker'[0] = "clearing"
      BY <1>0, <2>6 DEF P!PrefillRejected, Router0, P!loopVars, P!requestVars
    <3>2. Shared' = Shared
      BY <3>1 DEF Shared
    <3>3. RemoveReady(Head(pending[0]))'
      <4>1. decode_queue = Shared /\ prefill_queue \subseteq {r}
        BY <2>1, <2>6 DEF PrefillSync, Moved
      <4>2. decode_queue' = Shared' /\ prefill_queue' \subseteq {r}
        BY <1>0, <3>2, <4>1 DEF queues
      <4>3. decode_queue' \ {r} = Shared' /\ Head(pending'[0]) = r
        BY <2>2, <3>1, <3>2, <4>2
      <4> QED
        BY <4>2, <4>3 DEF RemoveReady, Same
    <3>4. \A q \in Req : Told(q)'
      BY <1>0, <2>1, <3>1, ToldSame, SMTT(30)
    <3> QED
      BY <1>T, <3>1, <3>3, <3>4, SettledRemove
  <2> QED
    BY <1>1, <2>4, <2>5, <2>6 DEF PrefillReply
<1>2. PrefillReply => worker[0] = "prefilling"
  BY DEF PrefillReply, P!PrefillOk, P!PrefillCompleted, P!PrefillRejected
<1>3. ASSUME Clean, \A r \in Req : Told(r), decode_queues'[0] = decode_queues[0],
             UNCHANGED <<results, tokens>>, worker'[0] # "clearing",
             loop'[0] \notin {"clearing", "finalizing", "failclearing"},
             Failing => Failing'
      PROVE  Settled' /\ \A r \in Req : Told(r)'
  <2>1. Clean'
    <3>1. Shared' = Shared
      BY <1>3 DEF Shared
    <3> QED
      BY <1>0, <1>3, <3>1 DEF Clean, Same, queues
  <2>2. \A r \in Req : Told(r)'
    BY <1>0, <1>3, ToldSame
  <2> QED
    BY <1>3, <1>T, <2>1, <2>2, SettledClean
<1>4. CASE P!PrefillCleared(0)
  <2>1. /\ worker[0] = "clearing" /\ UNCHANGED <<results, tokens>>
        /\ \E st : P!Advance(0, st, decode_queues[0])
    BY <1>4 DEF P!PrefillCleared, P!PrefillError
  <2>2. /\ decode_queues'[0] = decode_queues[0]
        /\ worker'[0] \in {"prefilling", "idle"} /\ loop'[0] \in {"none", "top"}
    BY <1>B, <2>1
  <2>3. loop[0] # "stepping" /\ ~ Failing
    BY <1>A, <2>1 DEF Failing
  <2> QED
    BY <1>3, <1>A, <2>1, <2>2, <2>3
<1>5. CASE P!CancelledCleared(0)
  <2>1. /\ loop[0] = "clearing" /\ UNCHANGED <<worker, results, tokens>>
        /\ P!ClearOrStep(0, scan[0])
    BY <1>5 DEF P!CancelledCleared, P!workerVars, P!requestVars
  <2>2. scan[0] \in SUBSET Req
    BY <1>0 DEF Router0, P!PlacesInv, P!TypeInv, P!TypeOK
  <2> QED
    BY <1>0, <1>A, <2>1, <2>2, ClearStepSync
<1>6. CASE P!Finalized(0)
  <2>1. /\ loop[0] \in {"finalizing", "failclearing"}
        /\ UNCHANGED <<worker, results, tokens, decode_queues>>
        /\ loop'[0] = IF loop[0] = "finalizing" THEN "applying" ELSE "failing"
    BY <1>0, <1>6 DEF P!Finalized, Router0, P!workerVars, P!requestVars
  <2>2. Failing => Failing'
    BY <2>1 DEF Failing
  <2> QED
    BY <1>3, <1>A, <2>1, <2>2
<1>7. CASE call[awaited].at = "answered" /\ P!StepAnswered(0, call[awaited].answer)
  <2> DEFINE answer == call[awaited].answer
  <2>1. /\ loop[0] = "stepping" /\ UNCHANGED <<worker, tokens, decode_queues>>
        /\ loop'[0] = "applying"
        /\ results'[0] = P!Restrict(answer, DOMAIN answer \intersect decode_queues[0])
    BY <1>0, <1>7 DEF P!StepAnswered, Router0, P!workerVars, P!requestVars
  <2>2. /\ worker[0] # "clearing" /\ prefill_queue = {}
        /\ DOMAIN answer = decode_queues[0]
        /\ decode_queue = {r \in decode_queues[0] : answer[r].status = "PROGRESS"}
    <3>1. DecodeSync(call[awaited]) /\ worker[0] # "clearing"
      BY <1>A, <2>1
    <3>2. decode_queue \ {} = decode_queue
      OBVIOUS
    <3> QED
      BY <1>7, <1>A, <3>1, <3>2 DEF DecodeSync
  <2>3. /\ DOMAIN results'[0] = decode_queues[0]
        /\ \A r \in decode_queues[0] : results'[0][r] = answer[r]
    BY <1>0, <2>1, <2>2 DEF P!Restrict
  <2>4. Clean'
    <3>1. Shared' = {r \in decode_queues[0] : answer[r].status = "PROGRESS"}
      BY <2>1, <2>3 DEF Shared
    <3> QED
      BY <1>0, <2>2, <3>1 DEF Clean, Same, queues
  <2>5. ASSUME NEW r \in Req PROVE Told(r)'
    <3>1. \/ status'[r] \in {"new", "queued"}
          \/ worker'[0] = "prefilling" /\ r = Head(pending'[0])
          => tokens'[r] = <<>>
      BY <1>0, EmptyStart
    <3>2. tokens[r] = [k \in 1 .. Len(tokens[r]) |-> k]
      BY DEF SyncInv, Counted
    <3>3. r \in decode_queues[0] => Continues(r, answer[r])
      BY <1>7, <1>A, <2>1
    <3> HIDE DEF answer
    <3> QED
      BY <1>0, <2>1, <2>3, <3>1, <3>2, <3>3 DEF Told, Continues
  <2> QED
    BY <1>T, <2>1, <2>2, <2>4, <2>5, SettledClean
<1>8. CASE call[awaited].at = "raised" /\ P!BatchFailed(0)
  <2>1. /\ loop[0] = "stepping" /\ UNCHANGED <<worker, tokens, decode_queues, results>>
        /\ loop'[0] = "failing"
    BY <1>0, <1>8 DEF P!BatchFailed, Router0, P!workerVars, P!requestVars
  <2>2. /\ DecodeSync(call[awaited]) /\ worker[0] # "clearing"
        /\ DOMAIN results[0] = {} /\ Failing'
    BY <1>A, <2>1 DEF Failing
  <2>3. Clean'
    <3>1. Shared' = decode_queues[0]
      BY <2>1, <2>2 DEF Shared
    <3>2. decode_queue \subseteq decode_queues[0] /\ prefill_queue = {}
      BY <1>8, <2>2 DEF DecodeSync
    <3> QED
      BY <1>0, <2>2, <3>1, <3>2 DEF Clean, Same, queues
  <2>4. ASSUME NEW r \in Req PROVE Told(r)'
    <3>1. \/ status'[r] \in {"new", "queued"}
          \/ worker'[0] = "prefilling" /\ r = Head(pending'[0])
          => tokens'[r] = <<>>
      BY <1>0, EmptyStart
    <3>2. tokens[r] = [k \in 1 .. Len(tokens[r]) |-> k]
      BY DEF SyncInv, Counted
    <3> QED
      BY <2>1, <2>2, <3>1, <3>2 DEF Told
  <2> QED
    BY <1>T, <2>1, <2>2, <2>3, <2>4, SettledClean
<1> QED
  BY <1>1, <1>2, <1>4, <1>5, <1>6, <1>7, <1>8 DEF AnswerStep, AnswerMove


LEMMA SyncInit == Init => SyncInv
<1> SUFFICES ASSUME Init PROVE SyncInv
  OBVIOUS
<1>1. ServingInv
  BY ServingInit
<1>2. /\ decode_queues[0] = {} /\ results[0] = P!NoResults
      /\ worker[0] = "idle"
      /\ \A r \in Req : tokens[r] = <<>>
  BY TheEngine, SameInit DEF Init, P!Init, P!SchedulerInit
<1>3. Lone /\ InSync
  BY <1>2 DEF Init, EngineInit, Lone, InSync, Clean, Same, Shared, Tidy, Held, Tracked
<1>4. ASSUME NEW r \in Req PROVE Counted(r)
  BY <1>2 DEF Counted
<1> QED
  BY <1>1, <1>3, <1>4 DEF SyncInv

LEMMA SyncStep == Reliable /\ SyncInv /\ [Next]_vars => SyncInv'
<1> SUFFICES ASSUME Reliable, SyncInv, [Next]_vars PROVE SyncInv'
  OBVIOUS
<1>1. ServingInv' /\ WantedOK' /\ P!Control(0)'
  <2>1. ServingInv'
    BY ServingStep DEF SyncInv
  <2>2. P!TypeInv'
    BY <2>1 DEF ServingInv, P!PlacesInv
  <2>3. P!Control(0)'
    BY <2>2, TheEngine DEF P!TypeInv
  <2> QED
    BY <2>1, <2>2, <2>3, WantedWillBe
<1>2. CASE QuietStep
  <2>1. CASE Wanted = Unused
    <3>1. Exchange({}) /\ awaited = NoThread
      BY <1>2, <2>1, QuietExchange, Between
    <3>2. Settled' /\ \A r \in Req : Told(r)'
      BY <1>1, <1>2, <2>1, QuietSettled DEF QuietStep
    <3> QED
      BY <1>1, <1>2, <3>1, <3>2, SentSync DEF QuietStep, SyncInv
  <2>2. CASE Wanted # Unused /\ Wanted' = Wanted
    BY <1>1, <1>2, <2>2, QuietWanted DEF SyncInv
  <2>3. CASE Wanted # Unused /\ Wanted' # Wanted
    <3>1. /\ UNCHANGED <<decode_queues, results, tokens, loop, target>>
          /\ worker[0] \in {"prefilling", "clearing"} => UNCHANGED <<worker, pending>>
          /\ worker'[0] \in {"prefilling", "clearing"}
               <=> worker[0] \in {"prefilling", "clearing"}
      BY <1>2, <2>3, AloneWanted DEF QuietStep
    <3>2. WantedOK
      BY Known DEF Router0
    <3>3. Wanted' = Wanted
      BY <1>1, <2>3, <3>1, <3>2 DEF WantedOK
    <3> QED
      BY <2>3, <3>3
  <2> QED
    BY <2>1, <2>2, <2>3
<1>3. CASE AnswerStep
  <2>1. Settled' /\ \A r \in Req : Told(r)'
    BY <1>1, <1>3, AnswerSettled
  <2> QED
    BY <1>1, <1>3, <2>1, SentSync DEF AnswerStep, SyncInv
<1>4. ASSUME NEW t \in Thread, EngineStep(t) PROVE SyncInv'
  <2>1. /\ t = awaited /\ awaited # NoThread /\ CallStep(t)
        /\ UNCHANGED awaited /\ Others(t)
    BY <1>4, LoneStep
  <2>2. call[t].op \in Operation
    BY <2>1, Awaiting DEF SyncInv
  <2>3. /\ InSync' /\ \A r \in Req : Counted(r)'
        /\ call[t].op = "prefill" => call'[t].at # "raised"
    BY <1>4, <2>2, PrefillStepSync, DecodeStepSync, RemoveStepSync DEF Operation
  <2>4. \A u \in Thread : u # t => call'[u] = Unused
    BY <2>1 DEF Others, SyncInv, Lone
  <2>5. Lone'
    BY <2>1, <2>3, <2>4 DEF Lone, Others
  <2> QED
    BY <1>1, <2>3, <2>5 DEF SyncInv
<1>5. CASE UNCHANGED vars
  <2>1. /\ UNCHANGED routerVars /\ UNCHANGED engineVars /\ UNCHANGED awaited
    BY <1>5 DEF vars
  <2>2. /\ Shared' = Shared /\ Failing' = Failing
        /\ UNCHANGED <<pending, decode_queues>>
        /\ UNCHANGED queues /\ UNCHANGED generated /\ call' = call /\ awaited' = awaited
    BY <2>1, RouterFrame DEF engineVars
  <2>3. Lone'
    BY <2>2 DEF SyncInv, Lone
  <2>4. InSync'
    <3>1. CASE awaited = NoThread
      BY <2>2, <3>1, TidyFrame DEF SyncInv, InSync, Clean, Same, queues
    <3>2. CASE awaited # NoThread
      <4>1. PICK u \in Thread : awaited = u
        BY <3>2, Awaiting DEF SyncInv
      <4>2. /\ Solo(call[u])
            /\ call[u].op = "prefill" => PrefillSync(call[u], Head(pending[0]))
            /\ call[u].op = "remove" => RemoveSync(call[u])
            /\ call[u].op = "decode" => DecodeSync(call[u])
        BY <3>2, <4>1 DEF SyncInv, InSync
      <4>3. Solo(call[u])'
        BY <2>2, <4>2, SoloFrame
      <4>4. call[u].op = "prefill" => PrefillSync(call[u], Head(pending[0]))'
        BY <2>2, <4>2 DEF PrefillSync, queues
      <4>5. call[u].op = "remove" => RemoveSync(call[u])'
        BY <2>2, <4>2 DEF RemoveSync, Same, queues
      <4>6. call[u].op = "decode" => DecodeSync(call[u])'
        BY <2>2, <4>2 DEF DecodeSync, queues
      <4> QED
        BY <2>2, <3>2, <4>1, <4>3, <4>4, <4>5, <4>6 DEF InSync
    <3> QED
      BY <3>1, <3>2
  <2>5. ASSUME NEW r \in Req PROVE Counted(r)'
    <3>1. StepHasItems' = StepHasItems /\ StepHasRaised' = StepHasRaised
      BY <2>2 DEF StepHasItems, StepHasRaised
    <3> QED
      BY <2>1, <2>2, <3>1, CountedFrame DEF SyncInv
  <2> QED
    BY <1>1, <2>3, <2>4, <2>5 DEF SyncInv
<1> QED
  BY <1>2, <1>3, <1>4, <1>5, ReliableSteps

(* With calls that arrive and are waited for, at most one call is at work  *)
(* in the engine, as paged/cache.py relies on: the worker and the decode   *)
(* loop never call at the same time.                                       *)
THEOREM EngineIsSingleThreaded == Reliable => (Spec => []SingleThreaded)
<1>1. SyncInv => SingleThreaded
  <2> SUFFICES ASSUME SyncInv PROVE SingleThreaded
    OBVIOUS
  <2> DEFINE running == {t \in Thread : Running(t)}
  <2>1. running \subseteq {awaited}
    BY DEF SyncInv, Lone, Running
  <2>2. running = {} \/ running = {awaited}
    BY <2>1
  <2>3. Cardinality({}) = 0 /\ Cardinality({awaited}) = 1
    BY FS_EmptySet, FS_Singleton
  <2> QED
    BY <2>2, <2>3 DEF SingleThreaded
<1> SUFFICES ASSUME Reliable PROVE Spec => []SingleThreaded
  OBVIOUS
<1>2. SyncInv /\ [Next]_vars => SyncInv'
  BY SyncStep
<1> QED
  BY <1>1, <1>2, SyncInit, PTL DEF Spec

(* Between two calls, with the router's failed batch told apart. *)
LEMMA BetweenCalls ==
  ASSUME SyncInv, Quiet
  PROVE  /\ Clean /\ Tidy
         /\ loop[0] # "failing" => ~ Failing
<1>1. awaited = NoThread /\ Wanted = Unused
  BY DEF SyncInv, ServingInv, Conn, Quiet
<1>2. loop[0] # "failclearing"
  BY <1>1, Between
<1> QED
  BY <1>1, <1>2 DEF SyncInv, InSync, Failing

(* Between two calls the router and the engine decode the same sequences,  *)
(* but for those whose last item the router has still to apply: joins,     *)
(* stops, failures and removals, also those that raise half way, leave no  *)
(* difference behind that is not settled when the batch has failed.        *)
THEOREM QueuesAlwaysAgree == Reliable => (Spec => []QueuesAgree)
<1>1. SyncInv => QueuesAgree
  BY BetweenCalls DEF QueuesAgree, Clean, Same
<1> SUFFICES ASSUME Reliable PROVE Spec => []QueuesAgree
  OBVIOUS
<1>2. SyncInv /\ [Next]_vars => SyncInv'
  BY SyncStep
<1> QED
  BY <1>1, <1>2, SyncInit, PTL DEF Spec

(* Between two calls every decoded sequence has its context, no sequence   *)
(* is left in the prefill queue, and a context that is left without a      *)
(* sequence is that of one whose removal raised, its layers holding        *)
(* different lengths (remove_cache before remove_context).                 *)
THEOREM NoContextIsLeft == Reliable => (Spec => []NoOrphanContext)
<1>1. SyncInv => NoOrphanContext
  BY BetweenCalls DEF NoOrphanContext, Clean, Tidy, Held
<1> SUFFICES ASSUME Reliable PROVE Spec => []NoOrphanContext
  OBVIOUS
<1>2. SyncInv /\ [Next]_vars => SyncInv'
  BY SyncStep
<1> QED
  BY <1>1, <1>2, SyncInit, PTL DEF Spec

(* A forward that fails leaves no layer behind another. *)
Level == "layers" \notin Faults
AllEven == uneven = {}

LEMMA LevelStep == Level /\ AllEven /\ [Next]_vars => AllEven'
<1> SUFFICES ASSUME Level, uneven = {}, [Next]_vars PROVE uneven' = {}
  BY DEF AllEven
<1>1. ASSUME NEW t \in Thread, CallStep(t) PROVE uneven' = {}
  <2>1. \A ids : ForwardFails(ids) => UNCHANGED uneven
    BY ZenonT(30) DEF ForwardFails, Level
  <2>2. RemoveStep(t) => UNCHANGED uneven
    BY DEF RemoveStep, RemoveFinds, RemovePops, RemoveMisses, RemoveReads,
       RemoveScans, RemoveCounts, queues
  <2>3. PrefillBreaks(t) \/ PrefillStops(t) => UNCHANGED uneven
    BY DEF PrefillBreaks, PrefillStops, queues
  <2>7. PrefillInvalid(t) \/ PrefillStart(t) => UNCHANGED uneven
    BY ZenonT(30) DEF PrefillInvalid, PrefillStart
  <2>8. PrefillMoves(t) \/ MoveToDecodeQueue(t) => UNCHANGED uneven
    BY ZenonT(30) DEF PrefillMoves, MoveToDecodeQueue
  <2>4. PrefillFails(t) \/ DecodeFails(t) => UNCHANGED uneven
    BY <2>1 DEF PrefillFails, DecodeFails
  <2>5. DecodeStart(t) \/ DecodePrepares(t) \/ DecodeHandles(t) => UNCHANGED uneven
    BY DEF DecodeStart, DecodePrepares, DecodeHandles, queues
  <2>6. \A stopped : DecodeDone(t, stopped) => UNCHANGED uneven
    BY DEF DecodeDone, queues
  <2> QED
    BY <1>1, <2>2, <2>3, <2>4, <2>5, <2>6, <2>7, <2>8, ZenonT(30) DEF CallStep
<1>2. ASSUME NEW t \in Thread, EngineStep(t) \/ Lost(t) PROVE uneven' = {}
  BY <1>1, <1>2 DEF EngineStep, CallEnds, Lost, queues
<1>3. (\E r \in Req : Alone(Router!Reader(r)) \/ Alone(Router!Cleanup(r)))
        => UNCHANGED uneven
  BY DEF Alone, queues
<1>4. WorkerTurn => UNCHANGED uneven
  BY DEF WorkerTurn, Alone, Answered, Raised, queues
<1>5. LoopTurn => UNCHANGED uneven
  BY DEF LoopTurn, Alone, Answered, Raised, queues
<1>6. UNCHANGED vars => UNCHANGED uneven
  BY DEF vars, engineVars, queues
<1> QED
  BY <1>2, <1>3, <1>4, <1>5, <1>6 DEF Next

(* Where no forward fails between two layers, every removed sequence has   *)
(* given back its context: between two calls the contexts are exactly      *)
(* those of the sequences being decoded, after any failures, cancellations *)
(* and rejected prefills.                                                  *)
THEOREM EveryContextReleased ==
  Reliable /\ Level => (Spec => []RemovedIsReleased)
<1>1. SyncInv /\ AllEven => RemovedIsReleased
  BY BetweenCalls DEF RemovedIsReleased, Clean, Tidy, Held, AllEven
<1> SUFFICES ASSUME Reliable, Level PROVE Spec => []RemovedIsReleased
  OBVIOUS
<1>2. SyncInv /\ [Next]_vars => SyncInv'
  BY SyncStep
<1>3. AllEven /\ [Next]_vars => AllEven'
  BY LevelStep
<1>4. Init => AllEven
  BY DEF Init, EngineInit, AllEven
<1> QED
  BY <1>1, <1>2, <1>3, <1>4, SyncInit, PTL DEF Spec

(* While calls arrive and are waited for, a decode step skips sampling     *)
(* only if every sequence of its batch is greedy.  The flag is no better   *)
(* protected than the queues: this holds because the calls come one at a   *)
(* time, and fails when a call is given up and goes on beside the next.    *)
THEOREM GreedyBatchSafe == Reliable => (Spec => []GreedyBatch)
<1>1. SyncInv => GreedyBatch
  <2> SUFFICES ASSUME SyncInv, NEW t \in Thread, Runs(t, "decode", "forward"),
                      call[t].greedy
               PROVE  call[t].batch \subseteq Greedy
    BY DEF GreedyBatch
  <2>1. call[t] # Unused
    BY DEF Runs, Unused
  <2>2. t = awaited /\ awaited # NoThread
    BY <2>1, NoThreadAssumption DEF SyncInv, Lone
  <2>3. Solo(call[t])
    BY <2>2 DEF SyncInv, InSync
  <2> QED
    BY <2>3 DEF Solo, Keeps, Runs
<1> SUFFICES ASSUME Reliable PROVE Spec => []GreedyBatch
  OBVIOUS
<1>2. SyncInv /\ [Next]_vars => SyncInv'
  BY SyncStep
<1> QED
  BY <1>1, <1>2, SyncInit, PTL DEF Spec

(* Every stream holds the tokens of its sequence in order, none left out   *)
(* and none twice.                                                         *)
THEOREM TokensStayInOrder == Reliable => (Spec => []TokensInOrder)
<1>1. SyncInv => TokensInOrder
  BY DEF SyncInv, Counted, TokensInOrder
<1> SUFFICES ASSUME Reliable PROVE Spec => []TokensInOrder
  OBVIOUS
<1>2. SyncInv /\ [Next]_vars => SyncInv'
  BY SyncStep
<1> QED
  BY <1>1, <1>2, SyncInit, PTL DEF Spec


(* The moves of the two instances once more, together. *)
LEMMA SameNext ==
  ASSUME \/ AloneMove
         \/ \E ts \in Outputs : P!PrefillOk(0, ts) \/ P!PrefillCompleted(0, ts)
         \/ P!PrefillRejected(0) \/ P!PrefillCleared(0)
         \/ P!CancelledCleared(0) \/ P!Finalized(0) \/ P!BatchFailed(0)
         \/ \E answer \in Router!Answers(0) : P!StepAnswered(0, answer)
  PROVE  Router!Next
<1>0. 0 \in Router!Engines
  BY DEF Router!Engines
<1>1. Router!Worker(0) \/ Router!DecodeLoop(0) => Router!Next
  BY <1>0 DEF Router!Next
<1>2. ASSUME NEW r \in Req, P!Reader(r) \/ P!Cleanup(r) PROVE Router!Next
  BY <1>2, SameActions DEF Router!Next
<1>3. CASE P!Take(0) \/ P!StopDecode(0) \/ P!Resume(0) \/ P!PrefillCleared(0)
  BY <1>1, <1>3, SameActions DEF Router!Worker
<1>4. CASE \/ \E ts \in Outputs : P!PrefillOk(0, ts) \/ P!PrefillCompleted(0, ts)
           \/ P!PrefillRejected(0)
  <2>1. Router!PrefillAnswer(0)
    BY <1>4, SameActions DEF Router!PrefillAnswer, Outputs
  <2> QED
    BY <1>1, <2>1 DEF Router!Worker
<1>5. CASE \/ P!LoopTop(0) \/ P!StepDone(0) \/ P!FailDone(0) \/ P!Leave(0)
           \/ P!CancelledCleared(0) \/ P!Finalized(0)
  BY <1>1, <1>5, SameActions DEF Router!DecodeLoop
<1>6. ASSUME NEW r \in Req, P!Apply(0, r) \/ P!FailOne(0, r) PROVE Router!Next
  BY <1>1, <1>6, SameActions DEF Router!DecodeLoop
<1>7. ASSUME NEW answer \in Router!Answers(0), P!StepAnswered(0, answer)
      PROVE  Router!Next
  <2>1. Router!StepAnswer(0)
    BY <1>7, SameActions DEF Router!StepAnswer
  <2> QED
    BY <1>1, <2>1 DEF Router!DecodeLoop
<1>8. CASE P!BatchFailed(0)
  BY <1>1, <1>8, SameActions DEF Router!DecodeLoop, Router!StepAnswer
<1> QED
  BY <1>2, <1>3, <1>4, <1>5, <1>6, <1>7, <1>8 DEF AloneMove

(* An answer to a step is one the router's model expects. *)
LEMMA ExpectedAnswer ==
  ASSUME SyncInv, awaited # NoThread, call[awaited].at = "answered",
         loop[0] = "stepping"
  PROVE  call[awaited].answer \in Router!Answers(0)
<1> DEFINE answer == call[awaited].answer
<1>1. /\ answer \in Answered_("decode") /\ DOMAIN answer = decode_queues[0]
      /\ \A r \in Req : r \in decode_queues[0] => Continues(r, answer[r])
  <2>1. /\ DecodeSync(call[awaited])
        /\ \A r \in Req : r \in decode_queues[0] => Continues(r, answer[r])
    BY AnswerAwaited DEF Over
  <2>2. answer \in Answered_("decode")
    BY AnswerFits DEF SyncInv
  <2> QED
    BY <2>1, <2>2 DEF DecodeSync
<1>2. PICK ids \in SUBSET Req : answer \in [ids -> Items("decode")]
  BY <1>1 DEF Answered_
<1>3. ids = decode_queues[0]
  BY <1>1, <1>2
<1>4. Items("decode") = [status : Router!ItemStatus,
                         tokens : {<<>>} \union {<<k>> : k \in Places}]
  BY DEF Items, Statuses, Outputs, Router!ItemStatus
<1>5. \A r \in Req : Len(tokens[r]) \in Nat /\ MaxNewTokens \in Nat
  BY Known, BoundAssumption DEF Router0
<1>6. \A r \in decode_queues[0] : answer[r].status = "PROGRESS"
                                    => Len(tokens[r]) < MaxNewTokens
  BY <1>1, <1>2, <1>3, <1>5 DEF Continues
<1> HIDE DEF answer
<1>7. answer \in Router!Answers(0)
  BY <1>2, <1>3, <1>4, <1>6 DEF Router!Answers
<1> QED
  BY <1>7 DEF answer

(* The engine implements what the router's model assumes of it: every      *)
(* answer has an item for each sequence of the decode queue, that goes on  *)
(* only below the bound, after any number of failures and removals.        *)
THEOREM RouterModelImplemented == Reliable => (Spec => RouterSpec)
<1> SUFFICES ASSUME Reliable PROVE Spec => RouterSpec
  OBVIOUS
<1>1. Init => Router!Init
  BY DEF Init
<1>2. SyncInv /\ [Next]_vars => [Router!Next]_(Router!vars)
  <2> SUFFICES ASSUME SyncInv, [Next]_vars PROVE [Router!Next]_(Router!vars)
    OBVIOUS
  <2>1. CASE QuietStep
    BY <2>1, SameNext DEF QuietStep
  <2>2. CASE AnswerStep
    <3>1. awaited # NoThread /\ AnswerMove
      BY <2>2 DEF AnswerStep
    <3>2. CASE PrefillReply
      <4>1. worker[0] = "prefilling"
        BY <3>2 DEF PrefillReply, P!PrefillOk, P!PrefillCompleted, P!PrefillRejected
      <4>2. call[awaited].answer \in Answered_("prefill")
        BY <3>1, <4>1, AnswerFits DEF SyncInv
      <4>3. \A r \in DOMAIN call[awaited].answer : call[awaited].answer[r].tokens \in Outputs
        BY <4>2 DEF Answered_, Items
      <4> QED
        BY <3>2, <4>3, SameNext, SMTT(30) DEF PrefillReply
    <3>3. CASE \/ P!PrefillCleared(0) \/ P!CancelledCleared(0) \/ P!Finalized(0)
               \/ P!BatchFailed(0)
      BY <3>3, SameNext
    <3>4. CASE call[awaited].at = "answered" /\ P!StepAnswered(0, call[awaited].answer)
      <4>1. loop[0] = "stepping"
        BY <3>4 DEF P!StepAnswered
      <4> QED
        BY <3>1, <3>4, <4>1, ExpectedAnswer, SameNext
    <3> QED
      BY <3>1, <3>2, <3>3, <3>4 DEF AnswerMove
  <2>3. CASE \E t \in Thread : EngineStep(t)
    BY <2>3, SameVars DEF EngineStep
  <2>4. CASE UNCHANGED vars
    BY <2>4, SameVars DEF vars
  <2> QED
    BY <2>1, <2>2, <2>3, <2>4, ReliableSteps
<1>3. SyncInv /\ [Next]_vars => SyncInv'
  BY SyncStep
<1> QED
  BY <1>1, <1>2, <1>3, SyncInit, PTL DEF Spec, RouterSpec, Router!Spec
=============================================================================
