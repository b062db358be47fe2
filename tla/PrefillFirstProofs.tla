------------------------- MODULE PrefillFirstProofs -------------------------
(***************************************************************************)
(* Proofs about PrefillFirst and, at the end, Iterative for any set of     *)
(* requests, any number of engines and any answers of the engines.         *)
(***************************************************************************)
EXTENDS Iterative, SequenceTheorems, TLAPS

-----------------------------------------------------------------------------
(* The positions of the two tasks of an engine                             *)

(* How the positions of the worker and of the decode loop of engine e bind *)
(* the data between them.                                                  *)
Control(e) ==
  /\ worker[e] = "idle" <=> pending[e] = <<>>
  /\ Prefilling(e) => loop[e] = "none"
  /\ stop_events[e] /\ loop[e] # "none" => worker[e] = "stopping"
  /\ decode_queues[e] # {} /\ loop[e] = "none" => worker[e] # "idle"
  /\ loop[e] = "leaving" => decode_queues[e] = {} \/ stop_events[e]
  /\ DOMAIN results[e] \subseteq decode_queues[e]
  /\ loop[e] \notin {"applying", "finalizing"} => DOMAIN results[e] = {}
  /\ scan[e] # {} => loop[e] = "clearing"
  /\ loop[e] \in {"clearing", "finalizing", "failclearing"}
       => target[e] \in Req

TypeInv == TypeOK /\ \A e \in Engines : Control(e)

LEMMA TypeInit == Init => TypeInv
<1> SUFFICES ASSUME Init PROVE TypeInv
  OBVIOUS
<1>1. TypeOK
  BY EngineAssumption DEF Init, SchedulerInit, TypeOK, Engines, WorkerPos,
     LoopPos, Status, Client, NoResults
<1>2. ASSUME NEW e \in Engines PROVE Control(e)
  BY DEF Init, SchedulerInit, Control, Prefilling, NoResults
<1> QED
  BY <1>1, <1>2 DEF TypeInv

(* Two facts about sequences that the provers do not find by themselves.   *)
LEMMA HeadTail ==
  ASSUME NEW S, NEW q \in Seq(S), q # <<>>
  PROVE  Head(q) \in S /\ Tail(q) \in Seq(S)
  OBVIOUS

LEMMA Concat ==
  ASSUME NEW S, NEW p \in Seq(S), NEW q \in Seq(S), p # <<>>
  PROVE  p \o q \in Seq(S) /\ p \o q # <<>>
<1>1. p \o q \in Seq(S) /\ Len(p \o q) = Len(p) + Len(q)
  OBVIOUS
<1>2. Len(p) > 0 /\ Len(q) >= 0
  OBVIOUS
<1> QED
  BY <1>1, <1>2

(* The worker between two prefills. *)
LEMMA AdvanceInv ==
  ASSUME TypeInv, NEW e \in Engines, Prefilling(e),
         NEW st \in [Req -> Status], NEW dq \in SUBSET Req,
         Advance(e, st, dq), UNCHANGED <<scan, results, target>>
  PROVE  /\ pending' \in [Engines -> Seq(Req)]
         /\ request_queues' \in [Engines -> Seq(Req)]
         /\ worker' \in [Engines -> WorkerPos]
         /\ status' \in [Req -> Status]
         /\ decode_queues' \in [Engines -> SUBSET Req]
         /\ stop_events' \in [Engines -> BOOLEAN]
         /\ loop' \in [Engines -> LoopPos]
         /\ \A f \in Engines : Control(f)'
<1>1. /\ pending \in [Engines -> Seq(Req)]
      /\ request_queues \in [Engines -> Seq(Req)]
      /\ worker \in [Engines -> WorkerPos]
      /\ decode_queues \in [Engines -> SUBSET Req]
      /\ stop_events \in [Engines -> BOOLEAN]
      /\ loop \in [Engines -> LoopPos]
  BY DEF TypeInv, TypeOK
<1>2. /\ pending[e] # <<>>
      /\ loop[e] = "none"
      /\ DOMAIN results[e] = {}
      /\ scan[e] = {}
  BY DEF TypeInv, Control, Prefilling
<1>3. Tail(pending[e]) \in Seq(Req)
  BY <1>1, <1>2, HeadTail
<1>4. ASSUME NEW f \in Engines PROVE Control(f)
  BY DEF TypeInv
<1>5. CASE Tail(pending[e]) # <<>>
  <2>1. /\ pending' = [pending EXCEPT ![e] = Tail(pending[e])]
        /\ request_queues' = [request_queues EXCEPT ![e] = request_queues[e]]
        /\ worker' = [worker EXCEPT ![e] = "prefilling"]
        /\ status' = [st EXCEPT ![Head(Tail(pending[e]))] = "processing"]
        /\ decode_queues' = [decode_queues EXCEPT ![e] = dq]
        /\ UNCHANGED <<stop_events, loop>>
    BY <1>5 DEF Advance, Prefill
  <2>2. status' \in [Req -> Status]
    BY <1>3, <1>5, <2>1, HeadTail DEF Status
  <2>3. ASSUME NEW f \in Engines, f # e PROVE Control(f)'
    BY <1>1, <1>4, <2>1, <2>3 DEF Control, Prefilling
  <2>4. Control(e)'
    BY <1>1, <1>2, <1>5, <2>1 DEF Control, Prefilling
  <2> QED
    BY <1>1, <1>3, <2>1, <2>2, <2>3, <2>4 DEF WorkerPos
<1>6. CASE Tail(pending[e]) = <<>>
  <2>1. /\ pending' = [pending EXCEPT ![e] = <<>>]
        /\ request_queues' = request_queues
        /\ worker' = [worker EXCEPT ![e] = "idle"]
        /\ status' = st
        /\ decode_queues' = [decode_queues EXCEPT ![e] = dq]
    BY <1>6 DEF Advance
  <2>2. \/ dq = {} /\ UNCHANGED <<stop_events, loop>>
        \/ /\ dq # {}
           /\ stop_events' = [stop_events EXCEPT ![e] = FALSE]
           /\ loop' = [loop EXCEPT ![e] = "top"]
    BY <1>1, <1>2, <1>6 DEF Advance, StartDecode
  <2>3. ASSUME NEW f \in Engines, f # e PROVE Control(f)'
    BY <1>1, <1>4, <2>1, <2>2, <2>3 DEF Control, Prefilling
  <2>4. Control(e)'
    BY <1>1, <1>2, <2>1, <2>2 DEF Control, Prefilling
  <2>5. /\ stop_events' \in [Engines -> BOOLEAN]
        /\ loop' \in [Engines -> LoopPos]
    BY <1>1, <2>2 DEF LoopPos
  <2>6. /\ pending' \in [Engines -> Seq(Req)]
        /\ request_queues' \in [Engines -> Seq(Req)]
        /\ worker' \in [Engines -> WorkerPos]
        /\ status' \in [Req -> Status]
        /\ decode_queues' \in [Engines -> SUBSET Req]
    BY <1>1, <2>1 DEF WorkerPos
  <2> QED
    BY <2>3, <2>4, <2>5, <2>6
<1> QED
  BY <1>5, <1>6

(* The decode loop on its way to the next step. *)
LEMMA ClearOrStepInv ==
  ASSUME TypeInv, NEW e \in Engines, loop[e] \in {"top", "clearing"},
         NEW todo \in SUBSET Req, ClearOrStep(e, todo),
         UNCHANGED <<worker, pending, stop_events, results>>
  PROVE  /\ decode_queues' \in [Engines -> SUBSET Req]
         /\ target' \in [Engines -> Req \union {NoReq}]
         /\ scan' \in [Engines -> SUBSET Req]
         /\ loop' \in [Engines -> LoopPos]
         /\ \A f \in Engines : Control(f)'
<1>1. /\ decode_queues \in [Engines -> SUBSET Req]
      /\ target \in [Engines -> Req \union {NoReq}]
      /\ scan \in [Engines -> SUBSET Req]
      /\ loop \in [Engines -> LoopPos]
  BY DEF TypeInv, TypeOK
<1>2. ASSUME NEW f \in Engines PROVE Control(f)
  BY DEF TypeInv
<1>3. DOMAIN results[e] = {} /\ ~ Prefilling(e)
  BY <1>2 DEF Control
<1>4. ASSUME NEW r \in todo,
             decode_queues' = [decode_queues EXCEPT ![e] = @ \ {r}],
             target' = [target EXCEPT ![e] = r],
             scan' = [scan EXCEPT ![e] = todo \ {r}],
             loop' = [loop EXCEPT ![e] = "clearing"]
      PROVE  /\ decode_queues' \in [Engines -> SUBSET Req]
             /\ target' \in [Engines -> Req \union {NoReq}]
             /\ scan' \in [Engines -> SUBSET Req]
             /\ loop' \in [Engines -> LoopPos]
             /\ \A f \in Engines : Control(f)'
  <2>1. ASSUME NEW f \in Engines, f # e PROVE Control(f)'
    BY <1>1, <1>2, <1>4, <2>1 DEF Control, Prefilling
  <2>2. Control(e)'
    BY <1>1, <1>2, <1>3, <1>4 DEF Control, Prefilling
  <2> QED
    BY <1>1, <1>4, <2>1, <2>2 DEF LoopPos
<1>5. CASE /\ target' = [target EXCEPT ![e] = NoReq]
           /\ scan' = [scan EXCEPT ![e] = {}]
           /\ loop' = [loop EXCEPT ![e] = "stepping"]
           /\ UNCHANGED decode_queues
  <2>1. ASSUME NEW f \in Engines, f # e PROVE Control(f)'
    BY <1>1, <1>2, <1>5, <2>1 DEF Control, Prefilling
  <2>2. Control(e)'
    BY <1>1, <1>2, <1>3, <1>5 DEF Control, Prefilling
  <2> QED
    BY <1>1, <1>5, <2>1, <2>2 DEF LoopPos
<1> QED
  BY <1>4, <1>5 DEF ClearOrStep

(* A request leaves the decode queue: _finalize_decode_request. *)
LEMMA FinalizeInv ==
  ASSUME TypeInv, NEW e \in Engines, NEW r \in Req,
         NEW outcome \in Concluded, NEW mark \in {"ERROR", "END"},
         NEW pos \in {"finalizing", "failclearing"},
         loop[e] = (IF pos = "finalizing" THEN "applying" ELSE "failing"),
         Finalize(e, r, outcome, mark, pos),
         UNCHANGED <<worker, pending, stop_events, scan>>,
         DOMAIN results'[e] = DOMAIN results[e] \ {r},
         \A f \in Engines \ {e} : results'[f] = results[f]
  PROVE  /\ decode_queues' \in [Engines -> SUBSET Req]
         /\ target' \in [Engines -> Req \union {NoReq}]
         /\ status' \in [Req -> Status]
         /\ marks' \in [Req -> Seq({"ERROR", "END"})]
         /\ loop' \in [Engines -> LoopPos]
         /\ \A f \in Engines : Control(f)'
<1>1. /\ decode_queues \in [Engines -> SUBSET Req]
      /\ target \in [Engines -> Req \union {NoReq}]
      /\ status \in [Req -> Status]
      /\ marks \in [Req -> Seq({"ERROR", "END"})]
      /\ loop \in [Engines -> LoopPos]
      /\ DOMAIN results = Engines
  BY DEF TypeInv, TypeOK
<1>2. ASSUME NEW f \in Engines PROVE Control(f)
  BY DEF TypeInv
<1>3. /\ decode_queues' = [decode_queues EXCEPT ![e] = @ \ {r}]
      /\ status' = [status EXCEPT ![r] = outcome]
      /\ marks' = [marks EXCEPT ![r] = Append(@, mark)]
      /\ target' = [target EXCEPT ![e] = r]
      /\ loop' = [loop EXCEPT ![e] = pos]
  BY DEF Finalize
<1>4. ASSUME NEW f \in Engines, f # e PROVE Control(f)'
  <2>1. /\ decode_queues'[f] = decode_queues[f] /\ target'[f] = target[f]
        /\ loop'[f] = loop[f] /\ results'[f] = results[f]
    BY <1>1, <1>3, <1>4
  <2> QED
    BY <1>2, <2>1 DEF Control, Prefilling
<1>5. Control(e)'
  <2>1. /\ decode_queues'[e] = decode_queues[e] \ {r} /\ target'[e] = r
        /\ loop'[e] = pos /\ DOMAIN results'[e] = DOMAIN results[e] \ {r}
    BY <1>1, <1>3
  <2> QED
    BY <1>2, <2>1 DEF Control, Prefilling
<1> QED
  BY <1>1, <1>3, <1>4, <1>5 DEF Concluded, Status, LoopPos

(* Every step keeps TypeOK and the control invariant. *)
LEMMA TypeStep == TypeInv /\ [Next]_vars => TypeInv'
<1> SUFFICES ASSUME TypeInv, [Next]_vars PROVE TypeInv'
  OBVIOUS
<1> USE EngineAssumption DEF Engines
<1>0. TypeOK /\ \A f \in Engines : Control(f)
  BY DEF TypeInv
<1>1. ASSUME NEW r \in Req, Submit(r) PROVE TypeInv'
  <2>a. current_engine_index \in 0 .. NumEngines - 1
    BY <1>0 DEF TypeOK
  <2>b. (current_engine_index + 1) % NumEngines \in 0 .. NumEngines - 1
    BY <2>a
  <2>1. /\ current_engine_index' \in Engines
        /\ request_queues' \in [Engines -> Seq(Req)]
    BY <1>0, <1>1, <2>b DEF Submit, NextIndex, Enqueued, TypeOK
  <2>2. TypeOK'
    BY <1>0, <1>1, <2>1
       DEF TypeOK, Submit, loopVars, Status, Client
  <2>3. ASSUME NEW f \in Engines PROVE Control(f)'
    BY <1>0, <1>1 DEF Control, Prefilling, Submit, loopVars
  <2> QED
    BY <2>2, <2>3 DEF TypeInv
<1>2. ASSUME NEW r \in Req, ReadToEnd(r) \/ Cancel(r) \/ Drop(r)
      PROVE TypeInv'
  <2>1. CASE ReadToEnd(r)
    BY <1>0, <2>1 DEF TypeInv, TypeOK, Control, Prefilling, ReadToEnd,
       Client, routing, workerVars, loopVars, requestVars
  <2>2. CASE Cancel(r)
    BY <1>0, <2>2 DEF TypeInv, TypeOK, Control, Prefilling, Cancel,
       Client, routing, workerVars, loopVars, requestVars
  <2>3. CASE Drop(r)
    BY <1>0, <2>3 DEF TypeInv, TypeOK, Control, Prefilling, Drop,
       Client, routing, workerVars, loopVars, requestVars
  <2> QED
    BY <1>2, <2>1, <2>2, <2>3
<1>3. ASSUME NEW r \in Req, Cleanup(r) PROVE TypeInv'
  BY <1>0, <1>3 DEF TypeInv, TypeOK, Control, Prefilling, Cleanup,
     routing, workerVars, loopVars, requestVars
<1>4. ASSUME NEW e \in Engines, Take(e) PROVE TypeInv'
  <2>1. Head(request_queues[e]) \in Req
    BY <1>0, <1>4, HeadTail DEF TypeOK, Take
  <2>2. /\ pending' \in [Engines -> Seq(Req)]
        /\ request_queues' \in [Engines -> Seq(Req)]
        /\ worker' \in [Engines -> WorkerPos]
        /\ status' \in [Req -> Status]
    <3>1. /\ pending \in [Engines -> Seq(Req)]
          /\ request_queues \in [Engines -> Seq(Req)]
          /\ worker \in [Engines -> WorkerPos]
          /\ status \in [Req -> Status]
      BY <1>0 DEF TypeOK
    <3>2. Prefill(e, request_queues[e], <<>>, status)
      BY <1>4 DEF Take
    <3>3. worker' \in [Engines -> WorkerPos] /\ status' \in [Req -> Status]
      BY <2>1, <3>1, <3>2 DEF Prefill, WorkerPos, Status
    <3>4. pending' \in [Engines -> Seq(Req)]
      BY <3>1, <3>2 DEF Prefill
    <3>5. request_queues' \in [Engines -> Seq(Req)]
      BY <3>1, <3>2 DEF Prefill
    <3> QED
      BY <3>3, <3>4, <3>5
  <2>3. TypeOK'
    BY <1>0, <1>4, <2>2 DEF TypeOK, Take, routing, loopVars
  <2>4. ASSUME NEW f \in Engines PROVE Control(f)'
    BY <1>0, <1>4 DEF TypeOK, Control, Prefilling, Take, Prefill,
       DecodeTaskDone, loopVars
  <2> QED
    BY <2>3, <2>4 DEF TypeInv
<1>5. ASSUME NEW e \in Engines, StopDecode(e) PROVE TypeInv'
  <2>1. /\ Head(request_queues[e]) \in Req
        /\ Tail(request_queues[e]) \in Seq(Req)
    BY <1>0, <1>5, HeadTail DEF TypeOK, StopDecode
  <2>a. <<Head(request_queues[e])>> \in Seq(Req)
    BY <2>1
  <2>b. /\ worker' \in [Engines -> WorkerPos]
        /\ stop_events' \in [Engines -> BOOLEAN]
    BY <1>0, <1>5 DEF TypeOK, StopDecode, WorkerPos
  <2>c. /\ pending' \in [Engines -> Seq(Req)]
        /\ request_queues' \in [Engines -> Seq(Req)]
    BY <1>0, <1>5, <2>1, <2>a DEF TypeOK, StopDecode
  <2>2. /\ pending' \in [Engines -> Seq(Req)]
        /\ request_queues' \in [Engines -> Seq(Req)]
        /\ worker' \in [Engines -> WorkerPos]
        /\ stop_events' \in [Engines -> BOOLEAN]
    BY <2>b, <2>c
  <2>3. TypeOK'
    BY <1>0, <1>5, <2>2 DEF TypeOK, StopDecode, routing, loopVars, requestVars
  <2>4. ASSUME NEW f \in Engines PROVE Control(f)'
    <3>1. CASE f = e
      BY <1>0, <1>5, <3>1 DEF TypeOK, Control, Prefilling, StopDecode, loopVars
    <3>2. CASE f # e
      BY <1>0, <1>5, <3>2 DEF TypeOK, Control, Prefilling, StopDecode, loopVars
    <3> QED
      BY <3>1, <3>2
  <2> QED
    BY <2>3, <2>4 DEF TypeInv
<1>6. ASSUME NEW e \in Engines, Resume(e) PROVE TypeInv'
  <2> DEFINE q == pending[e] \o request_queues[e]
  <2>1. q \in Seq(Req) /\ q # <<>>
    BY <1>0, <1>6, Concat DEF TypeOK, Control, Resume
  <2>2. Head(q) \in Req
    BY <2>1, HeadTail
  <2>3. /\ pending' = [pending EXCEPT ![e] = q]
        /\ request_queues' = [request_queues EXCEPT ![e] = <<>>]
        /\ worker' = [worker EXCEPT ![e] = "prefilling"]
        /\ status' = [status EXCEPT ![Head(q)] = "processing"]
        /\ loop[e] = "none"
    BY <1>6 DEF Resume, Prefill, DecodeTaskDone
  <2> HIDE DEF q
  <2>t. /\ pending \in [Engines -> Seq(Req)]
        /\ request_queues \in [Engines -> Seq(Req)]
        /\ worker \in [Engines -> WorkerPos] /\ status \in [Req -> Status]
    BY <1>0 DEF TypeOK
  <2>a. /\ pending' \in [Engines -> Seq(Req)]
        /\ request_queues' \in [Engines -> Seq(Req)]
    BY <2>1, <2>3, <2>t
  <2>b. worker' \in [Engines -> WorkerPos]
    BY <2>3, <2>t DEF WorkerPos
  <2>c. status' \in [Req -> Status]
    BY <2>2, <2>3, <2>t DEF Status
  <2>4. /\ pending' \in [Engines -> Seq(Req)]
        /\ request_queues' \in [Engines -> Seq(Req)]
        /\ worker' \in [Engines -> WorkerPos]
        /\ status' \in [Req -> Status]
    BY <2>a, <2>b, <2>c
  <2>5. TypeOK'
    BY <1>0, <1>6, <2>4 DEF TypeOK, Resume, routing, loopVars
  <2>6. ASSUME NEW f \in Engines PROVE Control(f)'
    BY <1>0, <1>6, <2>1, <2>3 DEF TypeOK, Control, Prefilling, Resume, loopVars
  <2> QED
    BY <2>5, <2>6 DEF TypeInv
<1>7. ASSUME NEW e \in Engines, NEW ts \in Output, PrefillOk(e, ts)
      PROVE TypeInv'
  <2>1. pending[e] # <<>> /\ Head(pending[e]) \in Req
    BY <1>0, <1>7, HeadTail DEF TypeOK, Control, PrefillOk
  <2>2. decode_queues[e] \union {Head(pending[e])} \in SUBSET Req
    BY <1>0, <2>1 DEF TypeOK
  <2>a. tokens' = [tokens EXCEPT ![Head(pending[e])] = @ \o ts]
    BY <1>7 DEF PrefillOk
  <2>b. ts \in Seq(Token) /\ tokens \in [Req -> Seq(Token)]
    BY <1>0, OutputAssumption DEF TypeOK
  <2>3. tokens' \in [Req -> Seq(Token)]
    BY <2>1, <2>a, <2>b
  <2> QED
    BY <1>0, <1>7, <2>2, <2>3, AdvanceInv
       DEF TypeInv, TypeOK, PrefillOk, Prefilling, routing
<1>8. ASSUME NEW e \in Engines, NEW ts \in Output, PrefillCompleted(e, ts)
      PROVE TypeInv'
  <2>1. pending[e] # <<>> /\ Head(pending[e]) \in Req
    BY <1>0, <1>8, HeadTail DEF TypeOK, Control, PrefillCompleted
  <2>2. [status EXCEPT ![Head(pending[e])] = "completed"] \in [Req -> Status]
    BY <1>0, <2>1 DEF TypeOK, Status
  <2>a. /\ tokens' = [tokens EXCEPT ![Head(pending[e])] = @ \o ts]
        /\ marks' = [marks EXCEPT ![Head(pending[e])] = Append(@, "END")]
    BY <1>8 DEF PrefillCompleted
  <2>b. /\ ts \in Seq(Token)
        /\ tokens \in [Req -> Seq(Token)]
        /\ marks \in [Req -> Seq({"ERROR", "END"})]
    BY <1>0, OutputAssumption DEF TypeOK
  <2>3. tokens' \in [Req -> Seq(Token)]
    BY <2>1, <2>a, <2>b
  <2>4. marks' \in [Req -> Seq({"ERROR", "END"})]
    BY <2>1, <2>a, <2>b
  <2> QED
    BY <1>0, <1>8, <2>2, <2>3, <2>4, AdvanceInv, ZenonT(30)
      DEF TypeInv, TypeOK, PrefillCompleted, Prefilling, routing
<1>9. ASSUME NEW e \in Engines, PrefillRaised(e) \/ PrefillCleared(e)
      PROVE TypeInv'
  <2>0. Prefilling(e) /\ PrefillError(e)
    BY <1>9 DEF PrefillRaised, PrefillCleared, Prefilling
  <2>1. pending[e] # <<>> /\ Head(pending[e]) \in Req
    BY <1>0, <2>0, HeadTail DEF TypeOK, Control, Prefilling
  <2>2. [status EXCEPT ![Head(pending[e])] = "error"] \in [Req -> Status]
    BY <1>0, <2>1 DEF TypeOK, Status
  <2>a. marks' = [marks EXCEPT ![Head(pending[e])] = @ \o <<"ERROR", "END">>]
    BY <2>0 DEF PrefillError
  <2>b. marks \in [Req -> Seq({"ERROR", "END"})]
    BY <1>0 DEF TypeOK
  <2>c. marks[Head(pending[e])] \o <<"ERROR", "END">> \in Seq({"ERROR", "END"})
    BY <2>1, <2>b
  <2>3. marks' \in [Req -> Seq({"ERROR", "END"})]
    BY <2>1, <2>a, <2>b, <2>c
  <2> DEFINE st == [status EXCEPT ![Head(pending[e])] = "error"]
  <2>4. /\ decode_queues[e] \in SUBSET Req
        /\ Advance(e, st, decode_queues[e])
        /\ UNCHANGED <<scan, results, target>>
    BY <1>0, <2>0 DEF TypeOK, PrefillError
  <2>5. /\ UNCHANGED <<active_requests, cancelled_requests, client, tokens>>
        /\ UNCHANGED routing /\ cleanups' \subseteq Req
    BY <1>0, <2>0, <2>1 DEF PrefillError, TypeOK
  <2>6. st \in [Req -> Status]
    BY <2>2
  <2> HIDE DEF st
  <2>7. /\ pending' \in [Engines -> Seq(Req)]
        /\ request_queues' \in [Engines -> Seq(Req)]
        /\ worker' \in [Engines -> WorkerPos]
        /\ status' \in [Req -> Status]
        /\ decode_queues' \in [Engines -> SUBSET Req]
        /\ stop_events' \in [Engines -> BOOLEAN]
        /\ loop' \in [Engines -> LoopPos]
        /\ \A f \in Engines : Control(f)'
    BY <2>0, <2>4, <2>6, AdvanceInv
  <2> QED
    BY <1>0, <2>3, <2>4, <2>5, <2>7 DEF TypeInv, TypeOK, routing
<1>10. ASSUME NEW e \in Engines, PrefillRejected(e) PROVE TypeInv'
  BY <1>0, <1>10 DEF TypeInv, TypeOK, Control, Prefilling, PrefillRejected,
     WorkerPos, routing, loopVars, requestVars
<1>11. ASSUME NEW e \in Engines, LoopTop(e) PROVE TypeInv'
  <2>1. CASE decode_queues[e] = {} \/ stop_events[e]
    <3>1. /\ loop[e] = "top" /\ loop' = [loop EXCEPT ![e] = "leaving"]
          /\ UNCHANGED <<worker, pending, stop_events, decode_queues, scan, results, target>>
      BY <1>11, <2>1 DEF LoopTop, workerVars
    <3>2. TypeOK'
      BY <1>0, <1>11, <3>1 DEF TypeOK, LoopTop, LoopPos, routing, workerVars, requestVars
    <3>3. ASSUME NEW f \in Engines PROVE Control(f)'
      <4>1. loop \in [Engines -> LoopPos] /\ Control(f)
        BY <1>0 DEF TypeOK
      <4> QED
        BY <2>1, <3>1, <4>1 DEF Control, Prefilling
    <3> QED
      BY <3>2, <3>3 DEF TypeInv
  <2>2. CASE ~ (decode_queues[e] = {} \/ stop_events[e])
    <3>1. CancelledHere(e) \in SUBSET Req
      BY <1>0 DEF TypeOK, CancelledHere
    <3> QED
      BY <1>0, <1>11, <2>2, <3>1, ClearOrStepInv
         DEF TypeInv, TypeOK, LoopTop, routing, workerVars, requestVars
  <2> QED
    BY <2>1, <2>2
<1>12. ASSUME NEW e \in Engines, CancelledCleared(e) PROVE TypeInv'
  <2>1. scan[e] \in SUBSET Req
    BY <1>0 DEF TypeOK
  <2> QED
    BY <1>0, <1>12, <2>1, ClearOrStepInv
       DEF TypeInv, TypeOK, CancelledCleared, routing, workerVars, requestVars
<1>13. ASSUME NEW e \in Engines, NEW answer \in Answers(e),
              StepAnswered(e, answer)
       PROVE TypeInv'
  <2> DEFINE items == Restrict(answer, DOMAIN answer \intersect decode_queues[e])
  <2>1. /\ DOMAIN items \subseteq decode_queues[e]
        /\ DOMAIN items \subseteq Req
        /\ items \in [DOMAIN items -> Item]
    BY <1>0, OutputAssumption DEF TypeOK, Answers, Item, Restrict
  <2>2. /\ results' = [results EXCEPT ![e] = items]
        /\ loop[e] = "stepping"
        /\ loop' = [loop EXCEPT ![e] = "applying"]
    BY <1>13 DEF StepAnswered
  <2> HIDE DEF items
  <2>3. /\ DOMAIN results' = Engines
        /\ \A f \in Engines : /\ DOMAIN results'[f] \subseteq Req
                              /\ results'[f] \in [DOMAIN results'[f] -> Item]
        /\ loop' \in [Engines -> LoopPos]
    BY <1>0, <2>1, <2>2 DEF TypeOK, LoopPos
  <2>4. TypeOK'
    BY <1>0, <1>13, <2>3
       DEF TypeOK, StepAnswered, routing, workerVars, requestVars
  <2>5. ASSUME NEW f \in Engines PROVE Control(f)'
    <3>1. DOMAIN results = Engines /\ loop \in [Engines -> LoopPos] /\ Control(f)
      BY <1>0 DEF TypeOK
    <3>2. UNCHANGED <<worker, pending, stop_events, decode_queues, scan, target>>
      BY <1>13 DEF StepAnswered, workerVars
    <3>3. CASE f = e
      <4>1. results'[f] = items /\ loop[f] = "stepping" /\ loop'[f] = "applying"
        BY <2>2, <3>1, <3>3
      <4> QED
        BY <2>1, <3>1, <3>2, <3>3, <4>1 DEF Control, Prefilling
    <3>4. CASE f # e
      <4>1. results'[f] = results[f] /\ loop'[f] = loop[f]
        BY <2>2, <3>1, <3>4
      <4> QED
        BY <3>1, <3>2, <4>1 DEF Control, Prefilling
    <3> QED
      BY <3>3, <3>4
  <2> QED
    BY <2>4, <2>5 DEF TypeInv
<1>14. ASSUME NEW e \in Engines, NEW r \in Req, Apply(e, r) PROVE TypeInv'
  <2> DEFINE rest == Restrict(results[e], DOMAIN results[e] \ {r})
  <2>1. /\ results[e][r] \in Item
        /\ DOMAIN results = Engines
        /\ DOMAIN rest = DOMAIN results[e] \ {r}
        /\ DOMAIN rest \subseteq Req
        /\ rest \in [DOMAIN rest -> Item]
    BY <1>0, <1>14 DEF TypeOK, Apply, Restrict
  <2>2. /\ results' = [results EXCEPT ![e] = rest]
        /\ loop[e] = "applying"
    BY <1>14 DEF Apply
  <2> HIDE DEF rest
  <2>3. /\ DOMAIN results' = Engines
        /\ \A f \in Engines : /\ DOMAIN results'[f] \subseteq Req
                              /\ results'[f] \in [DOMAIN results'[f] -> Item]
        /\ DOMAIN results'[e] = DOMAIN results[e] \ {r}
        /\ \A f \in Engines \ {e} : results'[f] = results[f]
    BY <1>0, <2>1, <2>2 DEF TypeOK
  <2>4. tokens' \in [Req -> Seq(Token)]
    BY <1>0, <1>14, <2>1 DEF TypeOK, Apply, Item
  <2>5. CASE UNCHANGED <<decode_queues, status, marks, target, loop>>
    <3>1. TypeOK'
      BY <1>0, <1>14, <2>3, <2>4, <2>5 DEF TypeOK, Apply, routing, workerVars
    <3>2. ASSUME NEW f \in Engines PROVE Control(f)'
      BY <1>0, <1>14, <2>3, <2>5 DEF Control, Prefilling, Apply, workerVars
    <3> QED
      BY <3>1, <3>2 DEF TypeInv
  <2>6. ASSUME NEW outcome \in Concluded, NEW mark \in {"ERROR", "END"},
               Finalize(e, r, outcome, mark, "finalizing")
        PROVE  TypeInv'
    <3>1. UNCHANGED <<routing, workerVars, scan, active_requests, client,
                      cancelled_requests, stop_events, cleanups>>
      BY <1>14 DEF Apply
    <3>2. /\ decode_queues' \in [Engines -> SUBSET Req]
          /\ target' \in [Engines -> Req \union {NoReq}]
          /\ status' \in [Req -> Status]
          /\ marks' \in [Req -> Seq({"ERROR", "END"})]
          /\ loop' \in [Engines -> LoopPos]
          /\ \A f \in Engines : Control(f)'
      BY <2>2, <2>3, <2>6, <3>1, FinalizeInv DEF workerVars
    <3> QED
      BY <1>0, <2>3, <2>4, <3>1, <3>2 DEF TypeInv, TypeOK, routing, workerVars
  <2> QED
    BY <1>14, <2>5, <2>6 DEF Apply, Concluded
<1>15. ASSUME NEW e \in Engines, NEW r \in Req, FailOne(e, r) PROVE TypeInv'
  <2>1. /\ loop[e] = "failing"
        /\ Finalize(e, r, "error", "END", "failclearing")
        /\ results' = results
        /\ DOMAIN results[e] = {}
    BY <1>0, <1>15 DEF FailOne, Control
  <2>2. DOMAIN results'[e] = DOMAIN results[e] \ {r}
    BY <2>1
  <2> QED
    BY <1>0, <1>15, <2>1, <2>2, FinalizeInv
       DEF TypeInv, TypeOK, FailOne, Concluded, routing, workerVars
<1>16. ASSUME NEW e \in Engines, Finalized(e) PROVE TypeInv'
  <2>1. target[e] \in Req
    BY <1>0, <1>16 DEF Control, Finalized
  <2>2. /\ loop' \in [Engines -> LoopPos]
        /\ target' \in [Engines -> Req \union {NoReq}]
        /\ cleanups' \subseteq Req
    BY <1>0, <1>16, <2>1 DEF TypeOK, Finalized, LoopPos
  <2>3. TypeOK'
    BY <1>0, <1>16, <2>2
       DEF TypeOK, Finalized, routing, workerVars, requestVars
  <2>4. ASSUME NEW f \in Engines PROVE Control(f)'
    BY <1>0, <1>16 DEF TypeOK, Control, Prefilling, Finalized, workerVars
  <2> QED
    BY <2>3, <2>4 DEF TypeInv
<1>17. ASSUME NEW e \in Engines,
              BatchFailed(e) \/ StepDone(e) \/ FailDone(e) \/ Leave(e)
       PROVE TypeInv'
  <2>1. TypeOK'
    <3>1. CASE BatchFailed(e)
      BY <1>0, <3>1 DEF TypeOK, BatchFailed, LoopPos, routing, workerVars, requestVars
    <3>2. CASE StepDone(e)
      BY <1>0, <3>2 DEF TypeOK, StepDone, LoopPos, routing, workerVars, requestVars
    <3>3. CASE FailDone(e)
      BY <1>0, <3>3 DEF TypeOK, FailDone, LoopPos, routing, workerVars, requestVars
    <3>4. CASE Leave(e)
      BY <1>0, <3>4 DEF TypeOK, Leave, LoopPos, routing, workerVars, requestVars
    <3> QED
      BY <1>17, <3>1, <3>2, <3>3, <3>4
  <2>2. ASSUME NEW f \in Engines PROVE Control(f)'
    <3>1. /\ loop \in [Engines -> LoopPos] /\ Control(f)
          /\ UNCHANGED <<worker, pending, stop_events, decode_queues, scan, results, target>>
      BY <1>0, <1>17 DEF TypeOK, BatchFailed, StepDone, FailDone, Leave, workerVars
    <3>2. CASE BatchFailed(e)
      BY <3>1, <3>2 DEF BatchFailed, Control, Prefilling
    <3>3. CASE StepDone(e)
      BY <3>1, <3>3 DEF StepDone, Control, Prefilling
    <3>4. CASE FailDone(e)
      BY <3>1, <3>4 DEF FailDone, Control, Prefilling
    <3>5. CASE Leave(e)
      BY <3>1, <3>5 DEF Leave, Control, Prefilling
    <3> QED
      BY <1>17, <3>2, <3>3, <3>4, <3>5
  <2> QED
    BY <2>1, <2>2 DEF TypeInv
<1>18. CASE UNCHANGED vars
  BY <1>0, <1>18 DEF TypeInv, TypeOK, Control, Prefilling, vars, routing,
     workerVars, loopVars, requestVars
<1> QED
  BY <1>1, <1>2, <1>3, <1>4, <1>5, <1>6, <1>7, <1>8, <1>9, <1>10, <1>11,
     <1>12, <1>13, <1>14, <1>15, <1>16, <1>17, <1>18
     DEF Next, Reader, Worker, DecodeLoop, PrefillAnswer, StepAnswer

(* Type correctness: every variable keeps the values the code can give it. *)
THEOREM TypeCorrect == Spec => []TypeOK
<1>1. TypeInv => TypeOK
  BY DEF TypeInv
<1> QED
  BY <1>1, TypeInit, TypeStep, PTL DEF Spec

(* One /step at a time: the worker prefills only without a decode loop.    *)
THEOREM PrefillExcludesDecode == Spec => []LoopExclusion
<1>1. TypeInv => LoopExclusion
  BY DEF TypeInv, Control, LoopExclusion
<1> QED
  BY <1>1, TypeInit, TypeStep, PTL DEF Spec

(* A running loop whose stop event is set is one its worker waits for.     *)
THEOREM StopEventNeverStale == Spec => []StopEventFresh
<1>1. TypeInv => StopEventFresh
  BY DEF TypeInv, Control, StopEventFresh
<1> QED
  BY <1>1, TypeInit, TypeStep, PTL DEF Spec

(* No idle worker beside a decode queue that no loop works on.             *)
THEOREM DecodeIsDriven == Spec => []DecodeHasDriver
<1>1. TypeInv => DecodeHasDriver
  BY DEF TypeInv, Control, DecodeHasDriver
<1> QED
  BY <1>1, TypeInit, TypeStep, PTL DEF Spec

-----------------------------------------------------------------------------
(* Where the requests are                                                  *)

(* The request engine e is prefilling. *)
InPrefill(e, r) == Prefilling(e) /\ r = Head(pending[e])

(* Every request is at most at one place, of the engine it was assigned    *)
(* to, and its status says at which.                                       *)
Places(e) ==
  /\ IsInjective(pending[e])
  /\ IsInjective(request_queues[e])
  /\ Range(pending[e]) \intersect Range(request_queues[e]) = {}
  /\ \A r \in Range(pending[e]) \union Range(request_queues[e]) :
       /\ assigned[r] = e
       /\ status[r] = IF InPrefill(e, r) THEN "processing" ELSE "queued"
  /\ \A r \in decode_queues[e] :
       /\ assigned[r] = e
       /\ status[r] = "processing"
       /\ ~ InPrefill(e, r)

PlacesInv == TypeInv /\ \A e \in Engines : Places(e)

LEMMA RangeTail ==
  ASSUME NEW S, NEW q \in Seq(S), q # <<>>, IsInjective(q)
  PROVE  /\ IsInjective(Tail(q))
         /\ Head(q) \in Range(q)
         /\ Range(Tail(q)) = Range(q) \ {Head(q)}
<1>1. /\ Tail(q) \in Seq(S)
      /\ Len(Tail(q)) = Len(q) - 1
      /\ \A i \in 1 .. Len(Tail(q)) : Tail(q)[i] = q[i + 1]
      /\ Head(q) = q[1]
      /\ Len(q) \in Nat \ {0}
  BY HeadTailProperties, EmptySeq
<1>2. DOMAIN q = 1 .. Len(q) /\ DOMAIN Tail(q) = 1 .. Len(Tail(q))
  BY <1>1
<1>3. ASSUME NEW i \in DOMAIN Tail(q)
      PROVE  i + 1 \in DOMAIN q /\ i + 1 # 1 /\ Tail(q)[i] = q[i + 1]
  BY <1>1, <1>2
<1>4. IsInjective(Tail(q))
  BY <1>1, <1>2, <1>3 DEF IsInjective
<1>5. Head(q) \in Range(q)
  BY <1>1, <1>2 DEF Range
<1>6. ASSUME NEW x \in Range(Tail(q)) PROVE x \in Range(q) /\ x # Head(q)
  BY <1>1, <1>2, <1>3 DEF Range, IsInjective
<1>7. ASSUME NEW x \in Range(q), x # Head(q) PROVE x \in Range(Tail(q))
  <2>1. PICK i \in DOMAIN q : x = q[i]
    BY DEF Range
  <2>2. i - 1 \in DOMAIN Tail(q) /\ Tail(q)[i - 1] = q[i]
    BY <1>1, <1>2, <1>7, <2>1
  <2> QED
    BY <2>1, <2>2 DEF Range
<1> QED
  BY <1>4, <1>5, <1>6, <1>7

LEMMA RangeAppend ==
  ASSUME NEW S, NEW q \in Seq(S), NEW x \in S
  PROVE  /\ Range(Append(q, x)) = Range(q) \union {x}
         /\ IsInjective(q) /\ x \notin Range(q) => IsInjective(Append(q, x))
<1>1. /\ Append(q, x) \in Seq(S)
      /\ Len(Append(q, x)) = Len(q) + 1
      /\ \A i \in 1 .. Len(q) : Append(q, x)[i] = q[i]
      /\ Append(q, x)[Len(q) + 1] = x
      /\ Len(q) \in Nat
  BY AppendProperties
<1>2. DOMAIN q = 1 .. Len(q) /\ DOMAIN Append(q, x) = 1 .. Len(q) + 1
  BY <1>1
<1>3. \A i \in DOMAIN Append(q, x) : i \in DOMAIN q \/ i = Len(q) + 1
  BY <1>1, <1>2
<1>4. DOMAIN q \subseteq DOMAIN Append(q, x)
      /\ Len(q) + 1 \in DOMAIN Append(q, x)
  BY <1>1, <1>2
<1>5. Range(Append(q, x)) = Range(q) \union {x}
  BY <1>1, <1>2, <1>3, <1>4 DEF Range
<1>6. IsInjective(q) /\ x \notin Range(q) => IsInjective(Append(q, x))
  BY <1>1, <1>2, <1>3, <1>4 DEF Range, IsInjective
<1> QED
  BY <1>5, <1>6

LEMMA RangeConcat ==
  ASSUME NEW S, NEW p \in Seq(S), NEW q \in Seq(S)
  PROVE  /\ Range(p \o q) = Range(p) \union Range(q)
         /\ /\ IsInjective(p) /\ IsInjective(q)
            /\ Range(p) \intersect Range(q) = {}
            => IsInjective(p \o q)
<1>1. /\ p \o q \in Seq(S)
      /\ Len(p \o q) = Len(p) + Len(q)
      /\ \A i \in 1 .. Len(p) + Len(q) :
           (p \o q)[i] = IF i <= Len(p) THEN p[i] ELSE q[i - Len(p)]
      /\ Len(p) \in Nat /\ Len(q) \in Nat
  BY ConcatProperties
<1>2. /\ DOMAIN p = 1 .. Len(p) /\ DOMAIN q = 1 .. Len(q)
      /\ DOMAIN (p \o q) = 1 .. Len(p) + Len(q)
  BY <1>1
<1>3. ASSUME NEW i \in DOMAIN (p \o q)
      PROVE  \/ i \in DOMAIN p /\ (p \o q)[i] = p[i]
             \/ i - Len(p) \in DOMAIN q /\ (p \o q)[i] = q[i - Len(p)]
  BY <1>1, <1>2
<1>4. ASSUME IsInjective(p), IsInjective(q), Range(p) \intersect Range(q) = {},
             NEW i \in DOMAIN (p \o q), NEW j \in DOMAIN (p \o q),
             (p \o q)[i] = (p \o q)[j]
      PROVE  i = j
  <2>1. CASE i \in DOMAIN p /\ (p \o q)[i] = p[i]
    <3>1. p[i] \in Range(p)
      BY <2>1 DEF Range
    <3>2. CASE j \in DOMAIN p /\ (p \o q)[j] = p[j]
      BY <1>4, <2>1, <3>2 DEF IsInjective
    <3>3. CASE j - Len(p) \in DOMAIN q /\ (p \o q)[j] = q[j - Len(p)]
      <4>1. q[j - Len(p)] \in Range(q)
        BY <3>3 DEF Range
      <4> QED
        BY <1>4, <2>1, <3>1, <3>3, <4>1
    <3> QED
      BY <1>3, <3>2, <3>3
  <2>2. CASE i - Len(p) \in DOMAIN q /\ (p \o q)[i] = q[i - Len(p)]
    <3>1. q[i - Len(p)] \in Range(q)
      BY <2>2 DEF Range
    <3>2. CASE j \in DOMAIN p /\ (p \o q)[j] = p[j]
      <4>1. p[j] \in Range(p)
        BY <3>2 DEF Range
      <4> QED
        BY <1>4, <2>2, <3>1, <3>2, <4>1
    <3>3. CASE j - Len(p) \in DOMAIN q /\ (p \o q)[j] = q[j - Len(p)]
      <4>1. i - Len(p) = j - Len(p)
        BY <1>4, <2>2, <3>3 DEF IsInjective
      <4> QED
        BY <1>1, <1>2, <4>1
    <3> QED
      BY <1>3, <3>2, <3>3
  <2> QED
    BY <1>3, <2>1, <2>2
<1> QED
  BY <1>4, RangeConcatenation DEF IsInjective

(* What leaves the places of engine f alone. *)
LEMMA PlacesFrame ==
  ASSUME NEW f \in Engines, Places(f),
         UNCHANGED <<pending[f], request_queues[f]>>,
         Prefilling(f)' <=> Prefilling(f),
         decode_queues'[f] \subseteq decode_queues[f],
         \A r \in Range(pending[f]) \union Range(request_queues[f])
                    \union decode_queues'[f] :
           UNCHANGED <<assigned[r], status[r]>>
  PROVE  Places(f)'
  BY DEF Places, InPrefill

(* The worker of e starts the first prefill of batch; rest waits. *)
LEMMA PrefillPlaces ==
  ASSUME TypeInv, NEW e \in Engines, NEW st \in [Req -> Status],
         NEW batch \in Seq(Req), NEW rest \in Seq(Req), batch # <<>>,
         IsInjective(batch), IsInjective(rest),
         Range(batch) \intersect Range(rest) = {},
         \A r \in Range(batch) \union Range(rest) :
           assigned[r] = e /\ st[r] = "queued",
         \A r \in decode_queues'[e] : assigned[r] = e /\ st[r] = "processing",
         Prefill(e, batch, rest, st), UNCHANGED assigned
  PROVE  Places(e)' /\ assigned[Head(batch)] = e
<1>1. /\ pending'[e] = batch
      /\ request_queues'[e] = rest
      /\ Prefilling(e)'
      /\ status' = [st EXCEPT ![Head(batch)] = "processing"]
  BY DEF TypeInv, TypeOK, Prefill, Prefilling
<1>2. Head(batch) \in Range(batch)
  BY RangeTail
<1>3. /\ Range(batch) \subseteq Req /\ Range(rest) \subseteq Req
      /\ Head(batch) \in Req
  BY RangeOfSeq, <1>2
<1>4. ASSUME NEW r \in Range(batch) \union Range(rest)
      PROVE  status'[r] = IF r = Head(batch) THEN "processing" ELSE "queued"
  BY <1>1, <1>3
<1>5. ASSUME NEW r \in decode_queues'[e]
      PROVE  r # Head(batch) /\ status'[r] = "processing"
  <2>1. r # Head(batch)
    BY <1>2
  <2>2. st[r] = "processing" /\ status'[r] = st[r]
    BY <1>1, <2>1
  <2> QED
    BY <2>1, <2>2
<1> QED
  BY <1>1, <1>2, <1>4, <1>5 DEF Places, InPrefill

(* The same when nothing is left to wait. *)
LEMMA DrainPlaces ==
  ASSUME TypeInv, NEW e \in Engines,
         NEW batch \in Seq(Req), batch # <<>>, IsInjective(batch),
         \A r \in Range(batch) : assigned[r] = e /\ status[r] = "queued",
         \A r \in decode_queues'[e] :
           assigned[r] = e /\ status[r] = "processing",
         Prefill(e, batch, <<>>, status), UNCHANGED assigned
  PROVE  Places(e)' /\ assigned[Head(batch)] = e
<1> DEFINE rest == <<>>
<1>1. rest \in Seq(Req) /\ IsInjective(rest) /\ Range(rest) = {}
  BY DEF Range, IsInjective
<1>2. Prefill(e, batch, rest, status)
  OBVIOUS
<1> HIDE DEF rest
<1>3. /\ Range(batch) \intersect Range(rest) = {}
      /\ \A r \in Range(batch) \union Range(rest) :
           assigned[r] = e /\ status[r] = "queued"
  BY <1>1
<1>4. status \in [Req -> Status]
  BY DEF TypeInv, TypeOK
<1> QED
  BY <1>1, <1>2, <1>3, <1>4, PrefillPlaces

(* The prefill of Head(pending[e]) is over: its status may have changed,   *)
(* and it may have joined the decode queue.                                *)
LEMMA AdvancePlaces ==
  ASSUME PlacesInv, NEW e \in Engines, Prefilling(e),
         NEW st \in [Req -> Status], NEW dq \in SUBSET Req,
         \A r \in Req : r # Head(pending[e]) => st[r] = status[r],
         \/ dq = decode_queues[e]
         \/ /\ dq = decode_queues[e] \union {Head(pending[e])}
            /\ st[Head(pending[e])] = "processing",
         Advance(e, st, dq), UNCHANGED assigned
  PROVE  \A f \in Engines : Places(f)'
<1> DEFINE h == Head(pending[e])
<1>1. /\ TypeInv
      /\ pending[e] \in Seq(Req)
      /\ request_queues[e] \in Seq(Req)
      /\ pending[e] # <<>>
  BY DEF PlacesInv, TypeInv, TypeOK, Control, Prefilling
<1>2. /\ Tail(pending[e]) \in Seq(Req)
      /\ IsInjective(Tail(pending[e]))
      /\ h \in Range(pending[e])
      /\ h \in Req
      /\ Range(Tail(pending[e])) = Range(pending[e]) \ {h}
  BY <1>1, HeadTail, RangeTail DEF PlacesInv, Places
<1>3. /\ Range(pending[e]) \subseteq Req
      /\ Range(request_queues[e]) \subseteq Req
      /\ decode_queues[e] \subseteq Req
  BY <1>1, RangeOfSeq DEF TypeInv, TypeOK
<1>4. /\ assigned[h] = e
      /\ h \notin Range(request_queues[e])
      /\ h \notin decode_queues[e]
  BY <1>2 DEF PlacesInv, Places, InPrefill
<1>5. /\ decode_queues' = [decode_queues EXCEPT ![e] = dq]
      /\ decode_queues'[e] = dq
      /\ \A r \in dq : assigned[r] = e /\ st[r] = "processing"
  <2>1. decode_queues' = [decode_queues EXCEPT ![e] = dq]
    BY DEF Advance
  <2>2. decode_queues'[e] = dq
    BY <1>1, <2>1 DEF TypeInv, TypeOK
  <2>3. \A r \in decode_queues[e] : assigned[r] = e /\ st[r] = "processing"
    BY <1>3, <1>4 DEF PlacesInv, Places
  <2> QED
    BY <1>4, <2>1, <2>2, <2>3
<1>6. \A r \in Range(Tail(pending[e])) \union Range(request_queues[e]) :
        assigned[r] = e /\ st[r] = "queued"
  BY <1>2, <1>3, <1>4 DEF PlacesInv, Places, InPrefill
<1>7. CASE Tail(pending[e]) # <<>>
  <2>1. Prefill(e, Tail(pending[e]), request_queues[e], st)
    BY <1>7 DEF Advance
  <2>2. /\ Places(e)'
        /\ assigned[Head(Tail(pending[e]))] = e
        /\ status' = [st EXCEPT ![Head(Tail(pending[e]))] = "processing"]
    <3>1. /\ IsInjective(request_queues[e])
          /\ Range(Tail(pending[e])) \intersect Range(request_queues[e]) = {}
      BY <1>2 DEF PlacesInv, Places
    <3>2. \A r \in decode_queues'[e] : assigned[r] = e /\ st[r] = "processing"
      BY <1>5
    <3> DEFINE batch == Tail(pending[e])
               rest == request_queues[e]
    <3>3. batch \in Seq(Req) /\ IsInjective(batch) /\ batch # <<>>
      BY <1>2, <1>7
    <3>4. rest \in Seq(Req) /\ IsInjective(rest)
          /\ Range(batch) \intersect Range(rest) = {}
      BY <1>1, <3>1
    <3>5. \A r \in Range(batch) \union Range(rest) :
            assigned[r] = e /\ st[r] = "queued"
      BY <1>6
    <3>6. Prefill(e, batch, rest, st)
      BY <2>1
    <3>7. TypeInv
      BY <1>1
    <3> HIDE DEF batch, rest
    <3>8. Places(e)' /\ assigned[Head(batch)] = e
      BY <3>2, <3>3, <3>4, <3>5, <3>6, <3>7, PrefillPlaces
    <3>9. status' = [st EXCEPT ![Head(batch)] = "processing"]
      BY <3>6 DEF Prefill
    <3> QED
      BY <3>8, <3>9 DEF batch
  <2>3. ASSUME NEW f \in Engines, f # e PROVE Places(f)'
    <3>1. /\ UNCHANGED <<pending[f], request_queues[f], decode_queues[f]>>
          /\ Prefilling(f)' <=> Prefilling(f)
      BY <1>1, <1>5, <2>1, <2>3 DEF TypeInv, TypeOK, Prefill, Prefilling
    <3>2. ASSUME NEW r \in Req, assigned[r] # e PROVE status'[r] = status[r]
      BY <1>4, <2>2, <3>2
    <3>3. \A r \in Range(pending[f]) \union Range(request_queues[f])
                     \union decode_queues[f] : r \in Req /\ assigned[r] # e
      BY <1>1, <2>3, RangeOfSeq DEF PlacesInv, Places, TypeInv, TypeOK
    <3> QED
      BY <3>1, <3>2, <3>3, PlacesFrame DEF PlacesInv
  <2> QED
    BY <2>2, <2>3
<1>8. CASE Tail(pending[e]) = <<>>
  <2>1. /\ pending' = [pending EXCEPT ![e] = <<>>]
        /\ request_queues' = request_queues
        /\ worker' = [worker EXCEPT ![e] = "idle"]
        /\ status' = st
    BY <1>8 DEF Advance
  <2>2. Places(e)'
    <3>1. pending'[e] = <<>> /\ ~ Prefilling(e)'
      BY <1>1, <2>1 DEF TypeInv, TypeOK, Prefilling
    <3>2. Range(<<>>) = {} /\ IsInjective(<<>>)
      BY DEF Range, IsInjective
    <3> QED
      BY <1>5, <1>6, <2>1, <3>1, <3>2 DEF PlacesInv, Places, InPrefill
  <2>3. ASSUME NEW f \in Engines, f # e PROVE Places(f)'
    <3>1. /\ UNCHANGED <<pending[f], request_queues[f], decode_queues[f]>>
          /\ Prefilling(f)' <=> Prefilling(f)
      BY <1>1, <1>5, <2>1, <2>3 DEF TypeInv, TypeOK, Prefilling
    <3>2. ASSUME NEW r \in Req, assigned[r] # e PROVE status'[r] = status[r]
      BY <1>4, <2>1, <3>2
    <3>3. \A r \in Range(pending[f]) \union Range(request_queues[f])
                     \union decode_queues[f] : r \in Req /\ assigned[r] # e
      BY <1>1, <2>3, RangeOfSeq DEF PlacesInv, Places, TypeInv, TypeOK
    <3> QED
      BY <3>1, <3>2, <3>3, PlacesFrame DEF PlacesInv
  <2> QED
    BY <2>2, <2>3
<1> QED
  BY <1>7, <1>8

(* A request that leaves the decode queue of e was nowhere else. *)
LEMMA FinalizePlaces ==
  ASSUME PlacesInv, NEW e \in Engines, NEW r \in decode_queues[e],
         NEW outcome, NEW mark, NEW pos,
         Finalize(e, r, outcome, mark, pos),
         UNCHANGED <<assigned, worker, pending, request_queues>>
  PROVE  \A f \in Engines : Places(f)'
<1>1. /\ decode_queues \in [Engines -> SUBSET Req]
      /\ status \in [Req -> Status]
      /\ pending \in [Engines -> Seq(Req)]
      /\ request_queues \in [Engines -> Seq(Req)]
  BY DEF PlacesInv, TypeInv, TypeOK
<1>2. /\ decode_queues' = [decode_queues EXCEPT ![e] = @ \ {r}]
      /\ status' = [status EXCEPT ![r] = outcome]
  BY DEF Finalize
<1> SUFFICES ASSUME NEW f \in Engines PROVE Places(f)'
  OBVIOUS
<1>3. Places(f) /\ Places(e)
  BY DEF PlacesInv
<1>4. r \notin decode_queues'[f] /\ decode_queues'[f] \subseteq decode_queues[f]
  BY <1>1, <1>2, <1>3 DEF Places
<1>5. r \notin Range(pending[f]) \union Range(request_queues[f])
  BY <1>3 DEF Places
<1>6. \A q \in Range(pending[f]) \union Range(request_queues[f])
                 \union decode_queues'[f] : q \in Req /\ q # r
  BY <1>1, <1>4, <1>5, RangeOfSeq
<1>7. Prefilling(f)' <=> Prefilling(f)
  BY DEF Prefilling
<1> QED
  BY <1>1, <1>2, <1>3, <1>4, <1>6, <1>7, PlacesFrame

LEMMA PlacesInit == Init => PlacesInv
<1> SUFFICES ASSUME Init PROVE PlacesInv
  OBVIOUS
<1>1. ASSUME NEW e \in Engines PROVE Places(e)
  BY DEF Init, SchedulerInit, Places, InPrefill, Prefilling, Range, IsInjective
<1> QED
  BY <1>1, TypeInit DEF PlacesInv

LEMMA PlacesStep == PlacesInv /\ [Next]_vars => PlacesInv'
<1> SUFFICES ASSUME PlacesInv, [Next]_vars PROVE \A f \in Engines : Places(f)'
  BY TypeStep DEF PlacesInv
<1>0. /\ TypeInv
      /\ \A f \in Engines : Places(f)
      /\ \A f \in Engines : Control(f)
      /\ assigned \in [Req -> Engines]
      /\ request_queues \in [Engines -> Seq(Req)]
      /\ pending \in [Engines -> Seq(Req)]
      /\ worker \in [Engines -> WorkerPos]
      /\ decode_queues \in [Engines -> SUBSET Req]
      /\ status \in [Req -> Status]
  BY DEF PlacesInv, TypeInv, TypeOK
<1>R. \A f \in Engines : \A r \in Range(pending[f])
        \union Range(request_queues[f]) \union decode_queues[f] :
          r \in Req /\ assigned[r] = f /\ status[r] \in {"queued", "processing"}
  BY <1>0, RangeOfSeq DEF Places
<1>F. ASSUME UNCHANGED <<assigned, pending, request_queues, worker, status>>,
             \A f \in Engines : decode_queues'[f] \subseteq decode_queues[f]
      PROVE  \A f \in Engines : Places(f)'
  BY <1>0, <1>F, PlacesFrame DEF Prefilling
<1>S. ASSUME NEW e \in Engines, NEW f \in Engines, f # e,
             UNCHANGED assigned, UNCHANGED decode_queues,
             UNCHANGED <<pending[f], request_queues[f], worker[f]>>,
             \A r \in Req : assigned[r] # e => status'[r] = status[r]
      PROVE  Places(f)'
  <2>1. Prefilling(f)' <=> Prefilling(f)
    BY <1>S DEF Prefilling
  <2> QED
    BY <1>0, <1>R, <1>S, <2>1, PlacesFrame
<1>1. ASSUME NEW r \in Req, Submit(r) PROVE \A f \in Engines : Places(f)'
  <2>0. PICK e \in Engines : e = current_engine_index
    BY <1>0 DEF TypeInv, TypeOK
  <2>1. /\ e \in Engines
        /\ status[r] = "new"
        /\ status' = [status EXCEPT ![r] = "queued"]
        /\ assigned' = [assigned EXCEPT ![r] = e]
        /\ request_queues' = [request_queues EXCEPT ![e] = Append(@, r)]
        /\ UNCHANGED <<worker, pending, decode_queues>>
    BY <1>0, <1>1, <2>0 DEF Submit, Enqueued
  <2>2. ASSUME NEW f \in Engines,
               NEW q \in Range(pending[f]) \union Range(request_queues[f])
                           \union decode_queues[f]
        PROVE  q # r /\ UNCHANGED <<assigned[q], status[q]>>
    BY <1>0, <1>R, <2>1
  <2>3. ASSUME NEW f \in Engines PROVE Prefilling(f)' <=> Prefilling(f)
    BY <2>1 DEF Prefilling
  <2>4. ASSUME NEW f \in Engines, f # e PROVE Places(f)'
    <3>1. UNCHANGED <<pending[f], request_queues[f], decode_queues[f]>>
      BY <1>0, <2>1, <2>4
    <3> QED
      BY <1>0, <2>2, <2>3, <2>4, <3>1, PlacesFrame
  <2>5. Places(e)'
    <3>1. /\ request_queues'[e] = Append(request_queues[e], r)
          /\ UNCHANGED <<pending[e], decode_queues[e]>>
          /\ assigned'[r] = e /\ status'[r] = "queued"
      BY <1>0, <2>1
    <3>2. r \notin Range(request_queues[e]) /\ r \notin Range(pending[e])
      BY <2>1, <2>2
    <3>3. /\ Range(Append(request_queues[e], r))
               = Range(request_queues[e]) \union {r}
          /\ IsInjective(Append(request_queues[e], r))
      BY <1>0, <2>1, <3>2, RangeAppend DEF Places
    <3>4. Prefilling(e)' => Head(pending[e]) \in Range(pending[e])
      BY <1>0, <2>1, <2>3, RangeTail DEF Control, Prefilling, Places
    <3> QED
      BY <1>0, <2>1, <2>2, <2>3, <3>1, <3>2, <3>3, <3>4 DEF Places, InPrefill
  <2> QED
    BY <2>4, <2>5
<1>2. ASSUME NEW r \in Req,
             ReadToEnd(r) \/ Cancel(r) \/ Drop(r) \/ Cleanup(r)
      PROVE  \A f \in Engines : Places(f)'
  BY <1>F, <1>2 DEF ReadToEnd, Cancel, Drop, Cleanup, routing, workerVars,
     requestVars
<1>3. ASSUME NEW e \in Engines, Take(e) PROVE \A f \in Engines : Places(f)'
  <2> DEFINE batch == request_queues[e]
  <2>1. /\ worker[e] = "idle" /\ batch # <<>> /\ pending[e] = <<>>
        /\ Prefill(e, batch, <<>>, status)
        /\ UNCHANGED <<assigned, decode_queues>>
        /\ ~ Prefilling(e)
    BY <1>0, <1>3 DEF Take, Control, routing, Prefilling
  <2>2. /\ batch \in Seq(Req) /\ IsInjective(batch)
        /\ \A r \in Range(batch) : assigned[r] = e /\ status[r] = "queued"
        /\ \A r \in decode_queues'[e] :
             assigned[r] = e /\ status[r] = "processing"
    BY <1>0, <2>1 DEF Places, InPrefill
  <2> HIDE DEF batch
  <2>3. Places(e)' /\ assigned[Head(batch)] = e
    BY <1>0, <2>1, <2>2, DrainPlaces
  <2>4. ASSUME NEW f \in Engines, f # e PROVE Places(f)'
    <3>1. UNCHANGED <<pending[f], request_queues[f], worker[f]>>
      BY <1>0, <2>1, <2>4 DEF Prefill
    <3>2. \A r \in Req : assigned[r] # e => status'[r] = status[r]
      BY <1>0, <2>1, <2>3 DEF Prefill
    <3> QED
      BY <1>S, <2>1, <2>4, <3>1, <3>2
  <2> QED
    BY <2>3, <2>4
<1>4. ASSUME NEW e \in Engines, StopDecode(e)
      PROVE  \A f \in Engines : Places(f)'
  <2> DEFINE q == request_queues[e]
  <2>1. /\ worker[e] = "idle" /\ q # <<>>
        /\ pending' = [pending EXCEPT ![e] = <<Head(q)>>]
        /\ request_queues' = [request_queues EXCEPT ![e] = Tail(q)]
        /\ worker' = [worker EXCEPT ![e] = "stopping"]
        /\ UNCHANGED <<assigned, status, decode_queues>>
    BY <1>4 DEF StopDecode, routing, requestVars
  <2>2. /\ q \in Seq(Req)
        /\ IsInjective(Tail(q)) /\ Head(q) \in Range(q)
        /\ Range(Tail(q)) = Range(q) \ {Head(q)}
    BY <1>0, <2>1, RangeTail DEF Places
  <2>3. /\ pending'[e] = <<Head(q)>> /\ request_queues'[e] = Tail(q)
        /\ ~ Prefilling(e) /\ ~ Prefilling(e)'
    BY <1>0, <2>1 DEF Prefilling
  <2>4. Range(<<Head(q)>>) = {Head(q)} /\ IsInjective(<<Head(q)>>)
    BY DEF Range, IsInjective
  <2>5. Places(e)'
    <3>1. /\ \A r \in Range(q) : assigned[r] = e /\ status[r] = "queued"
          /\ \A r \in decode_queues[e] :
               assigned[r] = e /\ status[r] = "processing"
      BY <1>0, <2>3 DEF Places, InPrefill
    <3> HIDE DEF q
    <3> QED
      BY <2>1, <2>2, <2>3, <2>4, <3>1 DEF Places, InPrefill
  <2>6. ASSUME NEW f \in Engines, f # e PROVE Places(f)'
    <3>1. UNCHANGED <<pending[f], request_queues[f], worker[f]>>
      BY <1>0, <2>1, <2>6
    <3> QED
      BY <1>S, <2>1, <2>6, <3>1
  <2> QED
    BY <2>5, <2>6
<1>5. ASSUME NEW e \in Engines, Resume(e) PROVE \A f \in Engines : Places(f)'
  <2> DEFINE batch == pending[e] \o request_queues[e]
  <2>1. /\ worker[e] = "stopping" /\ pending[e] # <<>>
        /\ Prefill(e, batch, <<>>, status)
        /\ UNCHANGED <<assigned, decode_queues>>
        /\ ~ Prefilling(e)
    BY <1>0, <1>5 DEF Resume, Control, routing, Prefilling
  <2>2. /\ batch \in Seq(Req) /\ batch # <<>> /\ IsInjective(batch)
        /\ Range(batch) = Range(pending[e]) \union Range(request_queues[e])
    BY <1>0, <2>1, Concat, RangeConcat DEF Places
  <2> HIDE DEF batch
  <2>3. /\ \A r \in Range(batch) : assigned[r] = e /\ status[r] = "queued"
        /\ \A r \in decode_queues'[e] :
             assigned[r] = e /\ status[r] = "processing"
    BY <1>0, <2>1, <2>2 DEF Places, InPrefill
  <2>4. Places(e)' /\ assigned[Head(batch)] = e
    BY <1>0, <2>1, <2>2, <2>3, DrainPlaces
  <2>5. ASSUME NEW f \in Engines, f # e PROVE Places(f)'
    <3>1. UNCHANGED <<pending[f], request_queues[f], worker[f]>>
      BY <1>0, <2>1, <2>5 DEF Prefill
    <3>2. \A r \in Req : assigned[r] # e => status'[r] = status[r]
      BY <1>0, <2>1, <2>4 DEF Prefill
    <3> QED
      BY <1>S, <2>1, <2>5, <3>1, <3>2
  <2> QED
    BY <2>4, <2>5
<1>6. ASSUME NEW e \in Engines, NEW ts \in Output, PrefillOk(e, ts)
      PROVE  \A f \in Engines : Places(f)'
  <2>1. /\ Prefilling(e)
        /\ Advance(e, status, decode_queues[e] \union {Head(pending[e])})
        /\ UNCHANGED assigned
    BY <1>6 DEF PrefillOk, Prefilling, routing
  <2>2. /\ Head(pending[e]) \in Range(pending[e])
        /\ Head(pending[e]) \in Req
        /\ status[Head(pending[e])] = "processing"
    BY <1>0, <1>R, <2>1, RangeTail DEF Control, Prefilling, Places, InPrefill
  <2> QED
    BY <1>0, <2>1, <2>2, AdvancePlaces
<1>7. ASSUME NEW e \in Engines, Prefilling(e), NEW outcome \in Concluded,
             Advance(e, [status EXCEPT ![Head(pending[e])] = outcome],
                     decode_queues[e]),
             UNCHANGED assigned
      PROVE  \A f \in Engines : Places(f)'
  <2> DEFINE st == [status EXCEPT ![Head(pending[e])] = outcome]
  <2>1. /\ st \in [Req -> Status]
        /\ \A r \in Req : r # Head(pending[e]) => st[r] = status[r]
    BY <1>0 DEF Concluded, Status
  <2>2. Advance(e, st, decode_queues[e])
    BY <1>7
  <2> HIDE DEF st
  <2> QED
    BY <1>0, <1>7, <2>1, <2>2, AdvancePlaces
<1>8. ASSUME NEW e \in Engines, NEW ts \in Output, PrefillCompleted(e, ts)
      PROVE  \A f \in Engines : Places(f)'
  BY <1>7, <1>8 DEF PrefillCompleted, Prefilling, Concluded, routing
<1>9. ASSUME NEW e \in Engines, PrefillRaised(e) \/ PrefillCleared(e)
      PROVE  \A f \in Engines : Places(f)'
  BY <1>7, <1>9 DEF PrefillRaised, PrefillCleared, PrefillError, Prefilling,
     Concluded, routing
<1>10. ASSUME NEW e \in Engines, PrefillRejected(e)
       PROVE  \A f \in Engines : Places(f)'
  <2>1. /\ UNCHANGED <<assigned, pending, request_queues, status,
                       decode_queues>>
        /\ \A f \in Engines : Prefilling(f)' <=> Prefilling(f)
    BY <1>0, <1>10 DEF PrefillRejected, Prefilling, routing, requestVars
  <2> QED
    BY <1>0, <2>1, PlacesFrame
<1>11. ASSUME NEW e \in Engines, LoopTop(e) \/ CancelledCleared(e)
       PROVE  \A f \in Engines : Places(f)'
  <2>1. /\ UNCHANGED <<assigned, pending, request_queues, worker, status>>
        /\ \/ UNCHANGED decode_queues
           \/ \E r \in Req :
                decode_queues' = [decode_queues EXCEPT ![e] = @ \ {r}]
    BY <1>0, <1>11 DEF LoopTop, CancelledCleared, ClearOrStep, CancelledHere,
       routing, workerVars, requestVars, TypeInv, TypeOK
  <2>2. \A f \in Engines : decode_queues'[f] \subseteq decode_queues[f]
    BY <1>0, <2>1
  <2> QED
    BY <1>F, <2>1, <2>2
<1>12. ASSUME NEW e \in Engines, NEW r \in Req, Apply(e, r) \/ FailOne(e, r)
       PROVE  \A f \in Engines : Places(f)'
  <2>1. r \in decode_queues[e]
    BY <1>0, <1>12 DEF Apply, FailOne, Control
  <2>2. UNCHANGED <<assigned, worker, pending, request_queues>>
    BY <1>12 DEF Apply, FailOne, routing, workerVars
  <2>3. CASE UNCHANGED <<decode_queues, status>>
    BY <1>F, <2>2, <2>3
  <2>4. ASSUME NEW outcome, NEW mark, NEW pos,
               Finalize(e, r, outcome, mark, pos)
        PROVE  \A f \in Engines : Places(f)'
    BY <1>0, <2>1, <2>2, <2>4, FinalizePlaces
  <2> QED
    BY <1>12, <2>3, <2>4 DEF Apply, FailOne
<1>13. ASSUME NEW e \in Engines,
              \/ (\E answer \in Answers(e) : StepAnswered(e, answer))
              \/ BatchFailed(e) \/ StepDone(e) \/ FailDone(e)
              \/ Finalized(e) \/ Leave(e)
       PROVE  \A f \in Engines : Places(f)'
  BY <1>F, <1>13 DEF StepAnswered, BatchFailed, StepDone, FailDone, Finalized,
     Leave, routing, workerVars, requestVars
<1>14. CASE UNCHANGED vars
  BY <1>F, <1>14 DEF vars, routing, workerVars, requestVars
<1> QED
  BY <1>1, <1>2, <1>3, <1>4, <1>5, <1>6, <1>8, <1>9, <1>10, <1>11, <1>12,
     <1>13, <1>14
     DEF Next, Reader, Worker, DecodeLoop, PrefillAnswer, StepAnswer

-----------------------------------------------------------------------------
(* What one step does to one request                                       *)

Grown(r) == \E ts \in Seq(Token) : tokens'[r] = tokens[r] \o ts

RequestStep(r) ==
  \/ UNCHANGED <<status[r], tokens[r], marks[r]>>
  \/ /\ status[r] = "new" /\ status'[r] = "queued"
     /\ UNCHANGED <<tokens[r], marks[r]>>
  \/ /\ status[r] = "queued" /\ status'[r] = "processing"
     /\ UNCHANGED <<tokens[r], marks[r]>>
  \/ /\ status[r] = "processing" /\ Grown(r)
     /\ \/ status'[r] = "processing" /\ UNCHANGED marks[r]
        \/ status'[r] = "completed" /\ marks'[r] = Append(marks[r], "END")
        \/ /\ status'[r] = "error"
           /\ \/ marks'[r] = Append(marks[r], "END")
              \/ marks'[r] = Append(marks[r], "ERROR")
              \/ marks'[r] = marks[r] \o <<"ERROR", "END">>

LEMMA GrownByNothing ==
  ASSUME TypeInv, NEW r \in Req, UNCHANGED tokens[r]
  PROVE  Grown(r)
<1>1. tokens[r] \in Seq(Token) /\ <<>> \in Seq(Token)
  BY DEF TypeInv, TypeOK
<1>2. tokens[r] \o <<>> = tokens[r]
  BY <1>1, ConcatEmptySeq
<1> QED
  BY <1>1, <1>2 DEF Grown

(* The worker starts a batch of waiting requests. *)
LEMMA PrefillRequest ==
  ASSUME TypeInv, NEW e \in Engines, NEW batch, NEW rest,
         Prefill(e, batch, rest, status), status[Head(batch)] = "queued",
         UNCHANGED <<tokens, marks>>, NEW r \in Req
  PROVE  RequestStep(r)
  BY DEF TypeInv, TypeOK, Prefill, RequestStep

(* The request the worker was prefilling is processed according to st; the *)
(* next one of the batch, if any, was queued.                              *)
LEMMA AdvanceRequest ==
  ASSUME PlacesInv, NEW e \in Engines, Prefilling(e),
         NEW st \in [Req -> Status], NEW dq,
         \A r \in Req : r # Head(pending[e]) => st[r] = status[r],
         Advance(e, st, dq)
  PROVE  /\ Head(pending[e]) \in Req
         /\ status[Head(pending[e])] = "processing"
         /\ status'[Head(pending[e])] = st[Head(pending[e])]
         /\ \A r \in Req : r # Head(pending[e]) =>
              \/ status'[r] = status[r]
              \/ status[r] = "queued" /\ status'[r] = "processing"
<1> DEFINE h == Head(pending[e])
           next == Head(Tail(pending[e]))
<1>1. /\ pending[e] \in Seq(Req) /\ pending[e] # <<>>
      /\ Range(pending[e]) \subseteq Req
      /\ Places(e)
  BY RangeOfSeq DEF PlacesInv, TypeInv, TypeOK, Control, Prefilling
<1>2. /\ Tail(pending[e]) \in Seq(Req) /\ IsInjective(Tail(pending[e]))
      /\ h \in Range(pending[e])
      /\ Range(Tail(pending[e])) = Range(pending[e]) \ {h}
  BY <1>1, HeadTail, RangeTail DEF Places
<1>3. h \in Req /\ status[h] = "processing"
  BY <1>1, <1>2 DEF Places, InPrefill
<1>4. CASE Tail(pending[e]) # <<>>
  <2>1. next \in Range(Tail(pending[e]))
    BY <1>2, <1>4, RangeTail
  <2>2. next \in Req /\ next # h /\ status[next] = "queued"
    BY <1>1, <1>2, <2>1 DEF Places, InPrefill
  <2>3. status' = [st EXCEPT ![next] = "processing"]
    BY <1>4 DEF Advance, Prefill
  <2> QED
    BY <1>3, <2>2, <2>3
<1>5. CASE Tail(pending[e]) = <<>>
  <2>1. status' = st
    BY <1>5 DEF Advance
  <2> QED
    BY <1>3, <2>1
<1> QED
  BY <1>4, <1>5

LEMMA FinalizeRequest ==
  ASSUME PlacesInv, NEW e \in Engines, NEW q \in decode_queues[e],
         NEW outcome, NEW mark, NEW pos,
         Finalize(e, q, outcome, mark, pos),
         \/ outcome = "completed" /\ mark = "END"
         \/ outcome = "error" /\ mark \in {"END", "ERROR"},
         Grown(q), \A r \in Req \ {q} : UNCHANGED tokens[r],
         NEW r \in Req
  PROVE  RequestStep(r)
<1>1. q \in Req /\ status[q] = "processing"
  BY DEF PlacesInv, Places, TypeInv, TypeOK
<1>2. /\ status' = [status EXCEPT ![q] = outcome]
      /\ marks' = [marks EXCEPT ![q] = Append(@, mark)]
  BY DEF Finalize
<1>3. status \in [Req -> Status] /\ marks \in [Req -> Seq({"ERROR", "END"})]
  BY DEF PlacesInv, TypeInv, TypeOK
<1>4. CASE r = q
  BY <1>1, <1>2, <1>3, <1>4 DEF RequestStep
<1>5. CASE r # q
  BY <1>1, <1>2, <1>3, <1>5 DEF RequestStep
<1> QED
  BY <1>4, <1>5

LEMMA RequestSteps == PlacesInv /\ [Next]_vars => \A r \in Req : RequestStep(r)
<1> SUFFICES ASSUME PlacesInv, [Next]_vars, NEW r \in Req PROVE RequestStep(r)
  OBVIOUS
<1>0. /\ TypeInv
      /\ \A e \in Engines : Places(e) /\ Control(e)
      /\ request_queues \in [Engines -> Seq(Req)]
      /\ pending \in [Engines -> Seq(Req)]
      /\ status \in [Req -> Status]
      /\ tokens \in [Req -> Seq(Token)]
      /\ marks \in [Req -> Seq({"ERROR", "END"})]
      /\ Output \subseteq Seq(Token)
  BY OutputAssumption DEF PlacesInv, TypeInv, TypeOK
<1>F. ASSUME UNCHANGED <<status, tokens, marks>> PROVE RequestStep(r)
  BY <1>F DEF RequestStep
<1>1. ASSUME NEW q \in Req, Submit(q) PROVE RequestStep(r)
  BY <1>0, <1>1 DEF Submit, RequestStep
<1>2. ASSUME NEW q \in Req,
             ReadToEnd(q) \/ Cancel(q) \/ Drop(q) \/ Cleanup(q)
      PROVE  RequestStep(r)
  BY <1>F, <1>2 DEF ReadToEnd, Cancel, Drop, Cleanup, requestVars
<1>3. ASSUME NEW e \in Engines, Take(e) PROVE RequestStep(r)
  <2>1. /\ request_queues[e] # <<>> /\ ~ Prefilling(e)
        /\ Prefill(e, request_queues[e], <<>>, status)
        /\ UNCHANGED <<tokens, marks>>
    BY <1>3 DEF Take, Prefilling
  <2>2. status[Head(request_queues[e])] = "queued"
    BY <1>0, <2>1, RangeTail DEF Places, InPrefill
  <2> QED
    BY <1>0, <2>1, <2>2, PrefillRequest
<1>4. ASSUME NEW e \in Engines, Resume(e) PROVE RequestStep(r)
  <2> DEFINE batch == pending[e] \o request_queues[e]
  <2>1. /\ pending[e] # <<>> /\ ~ Prefilling(e)
        /\ Prefill(e, batch, <<>>, status)
        /\ UNCHANGED <<tokens, marks>>
    BY <1>0, <1>4 DEF Resume, Control, Prefilling
  <2>2. /\ batch \in Seq(Req) /\ batch # <<>> /\ IsInjective(batch)
        /\ Range(batch) = Range(pending[e]) \union Range(request_queues[e])
    BY <1>0, <2>1, Concat, RangeConcat DEF Places
  <2> HIDE DEF batch
  <2>3. Head(batch) \in Range(batch)
    BY <2>2, RangeTail
  <2>4. status[Head(batch)] = "queued"
    BY <1>0, <2>1, <2>2, <2>3 DEF Places, InPrefill
  <2> QED
    BY <1>0, <2>1, <2>4, PrefillRequest
<1>5. ASSUME NEW e \in Engines, NEW ts \in Output, PrefillOk(e, ts)
      PROVE  RequestStep(r)
  <2> DEFINE h == Head(pending[e])
  <2>1. /\ Prefilling(e)
        /\ Advance(e, status, decode_queues[e] \union {h})
        /\ tokens' = [tokens EXCEPT ![h] = @ \o ts]
        /\ UNCHANGED marks
    BY <1>5 DEF PrefillOk, Prefilling
  <2>2. /\ h \in Req /\ status[h] = "processing" /\ status'[h] = status[h]
        /\ r # h => \/ status'[r] = status[r]
                    \/ status[r] = "queued" /\ status'[r] = "processing"
    BY <1>0, <2>1, AdvanceRequest
  <2>3. Grown(h) /\ (r # h => UNCHANGED tokens[r])
    BY <1>0, <2>1, <2>2 DEF Grown
  <2> QED
    BY <2>1, <2>2, <2>3 DEF RequestStep
<1>6. ASSUME NEW e \in Engines, Prefilling(e), NEW outcome \in Concluded,
             Advance(e, [status EXCEPT ![Head(pending[e])] = outcome],
                     decode_queues[e])
      PROVE  /\ Head(pending[e]) \in Req
             /\ status[Head(pending[e])] = "processing"
             /\ status'[Head(pending[e])] = outcome
             /\ r # Head(pending[e]) =>
                  \/ status'[r] = status[r]
                  \/ status[r] = "queued" /\ status'[r] = "processing"
  <2> DEFINE st == [status EXCEPT ![Head(pending[e])] = outcome]
  <2>1. /\ st \in [Req -> Status]
        /\ \A q \in Req : q # Head(pending[e]) => st[q] = status[q]
        /\ Head(pending[e]) \in Req => st[Head(pending[e])] = outcome
    BY <1>0 DEF Concluded, Status
  <2>2. Advance(e, st, decode_queues[e])
    BY <1>6
  <2> HIDE DEF st
  <2> QED
    BY <1>6, <2>1, <2>2, AdvanceRequest
<1>7. ASSUME NEW e \in Engines, NEW ts \in Output, PrefillCompleted(e, ts)
      PROVE  RequestStep(r)
  <2> DEFINE h == Head(pending[e])
  <2>1. /\ Prefilling(e)
        /\ Advance(e, [status EXCEPT ![h] = "completed"], decode_queues[e])
        /\ tokens' = [tokens EXCEPT ![h] = @ \o ts]
        /\ marks' = [marks EXCEPT ![h] = Append(@, "END")]
    BY <1>7 DEF PrefillCompleted, Prefilling
  <2>2. /\ h \in Req /\ status[h] = "processing" /\ status'[h] = "completed"
        /\ r # h => \/ status'[r] = status[r]
                    \/ status[r] = "queued" /\ status'[r] = "processing"
    BY <1>6, <2>1 DEF Concluded
  <2> HIDE DEF h
  <2>3. Grown(h) /\ (r # h => UNCHANGED <<tokens[r], marks[r]>>)
    BY <1>0, <2>1, <2>2 DEF Grown
  <2>4. marks'[h] = Append(marks[h], "END")
    BY <1>0, <2>1, <2>2
  <2> QED
    BY <2>2, <2>3, <2>4 DEF RequestStep
<1>8. ASSUME NEW e \in Engines, PrefillRaised(e) \/ PrefillCleared(e)
      PROVE  RequestStep(r)
  <2> DEFINE h == Head(pending[e])
  <2>1. /\ Prefilling(e)
        /\ Advance(e, [status EXCEPT ![h] = "error"], decode_queues[e])
        /\ marks' = [marks EXCEPT ![h] = @ \o <<"ERROR", "END">>]
        /\ UNCHANGED tokens
    BY <1>8 DEF PrefillRaised, PrefillCleared, PrefillError, Prefilling
  <2>2. /\ h \in Req /\ status[h] = "processing" /\ status'[h] = "error"
        /\ r # h => \/ status'[r] = status[r]
                    \/ status[r] = "queued" /\ status'[r] = "processing"
    BY <1>6, <2>1 DEF Concluded
  <2> HIDE DEF h
  <2>3. Grown(h)
    BY <1>0, <2>1, <2>2, GrownByNothing
  <2>4. /\ marks'[h] = marks[h] \o <<"ERROR", "END">>
        /\ r # h => UNCHANGED <<tokens[r], marks[r]>>
    BY <1>0, <2>1, <2>2
  <2> QED
    BY <2>2, <2>3, <2>4 DEF RequestStep
<1>9. ASSUME NEW e \in Engines, NEW q \in Req, Apply(e, q)
      PROVE  RequestStep(r)
  <2>1. /\ q \in decode_queues[e] /\ status[q] = "processing"
        /\ results[e][q] \in Item
    BY <1>0, <1>9 DEF Apply, Control, Places, TypeInv, TypeOK
  <2>2. tokens' = [tokens EXCEPT ![q] = @ \o results[e][q].tokens]
    BY <1>9 DEF Apply
  <2>3. Grown(q) /\ \A p \in Req \ {q} : UNCHANGED tokens[p]
    BY <1>0, <2>1, <2>2 DEF Grown, Item
  <2>4. CASE UNCHANGED <<status, marks>>
    <3>1. CASE r = q
      BY <2>1, <2>3, <2>4, <3>1 DEF RequestStep
    <3>2. CASE r # q
      BY <2>3, <2>4, <3>2 DEF RequestStep
    <3> QED
      BY <3>1, <3>2
  <2>5. ASSUME NEW outcome, NEW mark, Finalize(e, q, outcome, mark, "finalizing"),
               \/ outcome = "completed" /\ mark = "END"
               \/ outcome = "error" /\ mark \in {"END", "ERROR"}
        PROVE  RequestStep(r)
    BY <2>1, <2>3, <2>5, FinalizeRequest
  <2> QED
    BY <1>9, <2>4, <2>5 DEF Apply
<1>10. ASSUME NEW e \in Engines, NEW q \in Req, FailOne(e, q)
       PROVE  RequestStep(r)
  <2>1. /\ q \in decode_queues[e]
        /\ Finalize(e, q, "error", "END", "failclearing")
        /\ UNCHANGED tokens
    BY <1>10 DEF FailOne
  <2>2. Grown(q)
    BY <1>0, <2>1, GrownByNothing
  <2> QED
    BY <2>1, <2>2, FinalizeRequest
<1>11. ASSUME NEW e \in Engines,
              \/ StopDecode(e) \/ PrefillRejected(e) \/ LoopTop(e)
              \/ CancelledCleared(e)
              \/ (\E answer \in Answers(e) : StepAnswered(e, answer))
              \/ BatchFailed(e) \/ StepDone(e) \/ FailDone(e)
              \/ Finalized(e) \/ Leave(e)
       PROVE  RequestStep(r)
  BY <1>F, <1>11 DEF StopDecode, PrefillRejected, LoopTop, CancelledCleared,
     StepAnswered, BatchFailed, StepDone, FailDone, Finalized, Leave,
     requestVars
<1>12. CASE UNCHANGED vars
  BY <1>F, <1>12 DEF vars, requestVars
<1> QED
  BY <1>1, <1>2, <1>3, <1>4, <1>5, <1>7, <1>8, <1>9, <1>10, <1>11, <1>12
     DEF Next, Reader, Worker, DecodeLoop, PrefillAnswer, StepAnswer

(* A stream gets its one terminator when its request is concluded.         *)
LEMMA StreamStep == StreamEndsOnce /\ PlacesInv /\ [Next]_vars => StreamEndsOnce'
<1> SUFFICES ASSUME StreamEndsOnce, PlacesInv, [Next]_vars, NEW r \in Req
             PROVE  (marks[r] \in CASE status[r] = "completed" -> {<<"END">>}
                       [] status[r] = "error" -> {<<"END">>, <<"ERROR">>,
                                                  <<"ERROR", "END">>}
                       [] OTHER -> {<<>>})'
  BY DEF StreamEndsOnce
<1>1. RequestStep(r)
  BY RequestSteps
<1>2. marks[r] \in CASE status[r] = "completed" -> {<<"END">>}
                     [] status[r] = "error" -> {<<"END">>, <<"ERROR">>,
                                                <<"ERROR", "END">>}
                     [] OTHER -> {<<>>}
  BY DEF StreamEndsOnce
<1>3. CASE status[r] # "processing"
  BY <1>1, <1>2, <1>3 DEF RequestStep
<1>4. CASE status[r] = "processing"
  <2>1. marks[r] = <<>>
    BY <1>2, <1>4
  <2>2. /\ Append(<<>>, "END") = <<"END">>
        /\ Append(<<>>, "ERROR") = <<"ERROR">>
        /\ <<>> \o <<"ERROR", "END">> = <<"ERROR", "END">>
    OBVIOUS
  <2> QED
    BY <1>1, <1>4, <2>1, <2>2 DEF RequestStep
<1> QED
  BY <1>3, <1>4

(* Every stream ends once, with a terminator that agrees with its status.  *)
THEOREM StreamsEndOnce == Spec => []StreamEndsOnce
<1>1. Init => StreamEndsOnce
  BY DEF Init, SchedulerInit, StreamEndsOnce
<1> QED
  BY <1>1, PlacesInit, PlacesStep, StreamStep, PTL DEF Spec

-----------------------------------------------------------------------------
(* The scheduler implements the life of a request                          *)

LEMMA GrownIsPrefix ==
  ASSUME NEW r \in Req, tokens[r] \in Seq(Token), Grown(r)
  PROVE  Lifecycle!Grows(r)
<1>1. PICK ts \in Seq(Token) : tokens'[r] = tokens[r] \o ts
  BY DEF Grown
<1>2. /\ Len(tokens'[r]) = Len(tokens[r]) + Len(ts)
      /\ SubSeq(tokens[r] \o ts, 1, Len(tokens[r])) = tokens[r]
      /\ Len(tokens[r]) \in Nat /\ Len(ts) \in Nat
  BY <1>1, ConcatProperties, SubSeqOfConcat1, SubSeqFull
<1> QED
  BY <1>1, <1>2 DEF Lifecycle!Grows

LEMMA RequestMoves ==
  ASSUME TypeInv, \A r \in Req : RequestStep(r)
  PROVE  Lifecycle!Next
<1> SUFFICES ASSUME NEW r \in Req PROVE Lifecycle!Move(r)
  BY DEF Lifecycle!Next
<1>1. RequestStep(r) /\ tokens[r] \in Seq(Token)
  BY DEF TypeInv, TypeOK
<1>2. Grown(r) => Lifecycle!Grows(r)
  BY <1>1, GrownIsPrefix
<1> QED
  BY <1>1, <1>2 DEF RequestStep, Lifecycle!Move, Lifecycle!Accept,
     Lifecycle!Start, Lifecycle!Emit, Lifecycle!Conclude, Lifecycle!Stay,
     Lifecycle!Keeps, Lifecycle!Concluded

(* Every step of the scheduler is a step of the abstract specification.    *)
THEOREM LifecycleImplemented == Spec => LifecycleSpec
<1>1. Init => Lifecycle!Init
  BY DEF Init, SchedulerInit, Lifecycle!Init
<1>2. PlacesInv /\ [Next]_vars => [Lifecycle!Next]_(Lifecycle!vars)
  BY RequestSteps, RequestMoves DEF PlacesInv
<1> QED
  BY <1>1, <1>2, PlacesInit, PlacesStep, PTL
     DEF Spec, LifecycleSpec, Lifecycle!Spec

-----------------------------------------------------------------------------
(* What the router knows of a request                                      *)

(* What is kept about a request elsewhere than in its status agrees with   *)
(* it: only a submitted one has a reader, a cleanup is scheduled only for  *)
(* a concluded one, and only one whose client left is cancelled.           *)
Tracks ==
  /\ \A r \in Req : status[r] = "new" <=> client[r] = "none"
  /\ \A r \in cleanups : status[r] \in Concluded
  /\ \A r \in cancelled_requests : client[r] = "gone"
  /\ \A e \in Engines :
       /\ \A r \in scan[e] : client[r] = "gone"
       /\ loop[e] \in {"finalizing", "failclearing"}
            => status[target[e]] \in Concluded
  /\ LiveIsTracked

(* The steps that leave the readers alone and start no request's life.     *)
LEMMA TracksFrame ==
  ASSUME PlacesInv, Tracks, [Next]_vars,
         UNCHANGED <<active_requests, client>>,
         cancelled_requests' \subseteq cancelled_requests,
         \A r \in Req : status'[r] = "new" <=> status[r] = "new",
         \A r \in cleanups' : r \in cleanups \/ status'[r] \in Concluded,
         \A e \in Engines :
           /\ \A r \in scan'[e] : client[r] = "gone"
           /\ \/ loop'[e] \notin {"finalizing", "failclearing"}
              \/ status'[target'[e]] \in Concluded
              \/ UNCHANGED <<loop[e], target[e]>>
  PROVE  Tracks'
<1>0. /\ TypeInv
      /\ \A r \in Req : RequestStep(r)
      /\ cleanups \subseteq Req
      /\ LiveIsTracked
  BY RequestSteps DEF PlacesInv, TypeInv, TypeOK, Tracks
<1>1. ASSUME NEW r \in Req, status[r] \in Concluded
      PROVE  status'[r] \in Concluded
  BY <1>0, <1>1 DEF RequestStep, Concluded
<1>2. \A r \in Req : status'[r] = "new" <=> client'[r] = "none"
  BY DEF Tracks
<1>3. \A r \in cleanups' : status'[r] \in Concluded
  BY <1>0, <1>1 DEF Tracks
<1>4. \A r \in cancelled_requests' : client'[r] = "gone"
  BY DEF Tracks
<1>5. ASSUME NEW e \in Engines, loop'[e] \in {"finalizing", "failclearing"}
      PROVE  status'[target'[e]] \in Concluded
  <2>1. CASE UNCHANGED <<loop[e], target[e]>>
    <3>1. target[e] \in Req /\ status[target[e]] \in Concluded
      BY <1>0, <1>5, <2>1 DEF Tracks, TypeInv, Control
    <3> QED
      BY <1>1, <2>1, <3>1
  <2> QED
    BY <1>5, <2>1
<1>6. LiveIsTracked'
  BY <1>0 DEF LiveIsTracked, RequestStep
<1> QED
  BY <1>2, <1>3, <1>4, <1>5, <1>6 DEF Tracks

LEMMA TracksInit == Init => Tracks
BY DEF Init, SchedulerInit, Tracks, LiveIsTracked

LEMMA TracksStep == PlacesInv /\ Tracks /\ [Next]_vars => Tracks'
<1> SUFFICES ASSUME PlacesInv, Tracks, [Next]_vars PROVE Tracks'
  OBVIOUS
<1>0. /\ TypeInv
      /\ TypeOK
      /\ \A e \in Engines : Control(e) /\ Places(e)
      /\ \A r \in Req : RequestStep(r)
  BY RequestSteps DEF PlacesInv, TypeInv
<1>T. /\ status \in [Req -> Status]
      /\ client \in [Req -> Client]
      /\ loop \in [Engines -> LoopPos]
      /\ target \in [Engines -> Req \union {NoReq}]
      /\ scan \in [Engines -> SUBSET Req]
      /\ decode_queues \in [Engines -> SUBSET Req]
      /\ pending \in [Engines -> Seq(Req)]
      /\ cleanups \subseteq Req
  BY <1>0 DEF TypeOK
<1>N. ASSUME \A r \in Req : status'[r] \in {status[r], "processing"}
                                             \union Concluded
      PROVE  \A r \in Req : status'[r] = "new" <=> status[r] = "new"
  <2> SUFFICES ASSUME NEW r \in Req
               PROVE  status'[r] = "new" <=> status[r] = "new"
    OBVIOUS
  <2>1. RequestStep(r) /\ status'[r] \in {status[r], "processing"}
                                          \union Concluded
    BY <1>0, <1>N
  <2> QED
    BY <2>1 DEF RequestStep, Concluded
<1>1. ASSUME NEW r \in Req, Submit(r) PROVE Tracks'
  <2>1. /\ status[r] = "new"
        /\ status' = [status EXCEPT ![r] = "queued"]
        /\ client' = [client EXCEPT ![r] = "open"]
        /\ active_requests' = active_requests \union {r}
        /\ UNCHANGED <<loop, scan, target, cancelled_requests, cleanups>>
    BY <1>1 DEF Submit, loopVars
  <2>2. client[r] = "none"
    BY <2>1 DEF Tracks
  <2>3. ASSUME NEW q \in Req
        PROVE  IF q = r THEN status'[q] = "queued" /\ client'[q] = "open"
                        ELSE UNCHANGED <<status[q], client[q]>>
    BY <1>T, <2>1
  <2>4. \A q \in Req : status'[q] = "new" <=> client'[q] = "none"
    BY <2>3 DEF Tracks
  <2>5. \A q \in cleanups' : status'[q] \in Concluded
    BY <1>T, <2>1, <2>3 DEF Tracks, Concluded
  <2>6. \A q \in cancelled_requests' : client'[q] = "gone"
    BY <1>0, <2>1, <2>2, <2>3 DEF Tracks, TypeOK
  <2>7. ASSUME NEW e \in Engines
        PROVE  /\ \A q \in scan'[e] : client'[q] = "gone"
               /\ loop'[e] \in {"finalizing", "failclearing"}
                    => status'[target'[e]] \in Concluded
    <3>1. \A q \in scan'[e] : client'[q] = "gone"
      BY <1>T, <2>1, <2>2, <2>3 DEF Tracks
    <3>2. ASSUME loop'[e] \in {"finalizing", "failclearing"}
          PROVE  status'[target'[e]] \in Concluded
      <4>1. target[e] \in Req /\ status[target[e]] \in Concluded
        BY <1>0, <2>1, <3>2 DEF Tracks, Control
      <4> QED
        BY <2>1, <2>3, <4>1 DEF Concluded
    <3> QED
      BY <3>1, <3>2
  <2>8. LiveIsTracked'
    BY <2>1, <2>3 DEF LiveIsTracked, Tracks
  <2> QED
    BY <2>4, <2>5, <2>6, <2>7, <2>8 DEF Tracks
<1>2. ASSUME NEW r \in Req, ReadToEnd(r) \/ Cancel(r) \/ Drop(r)
      PROVE  Tracks'
  <2>1. /\ client[r] = "open"
        /\ \/ client' = [client EXCEPT ![r] = "closed"] /\ marks[r] # <<>>
           \/ client' = [client EXCEPT ![r] = "gone"]
        /\ UNCHANGED <<status, loop, scan, target, cleanups>>
        /\ \/ UNCHANGED <<active_requests, cancelled_requests>>
           \/ /\ client' = [client EXCEPT ![r] = "gone"]
              /\ active_requests' = active_requests \ {r}
              /\ cancelled_requests' = cancelled_requests \union {r}
    BY <1>2 DEF ReadToEnd, Cancel, Drop, loopVars, requestVars
  <2>2. /\ \A q \in Req \ {r} : client'[q] = client[q]
        /\ client'[r] \in {"closed", "gone"}
    BY <1>T, <2>1
  <2>3. \A q \in Req : client[q] = "gone" => client'[q] = "gone"
    BY <2>1, <2>2
  <2>4. \A q \in cancelled_requests' : client'[q] = "gone"
    BY <1>0, <1>T, <2>1, <2>3 DEF Tracks, TypeOK
  <2>5. LiveIsTracked'
    BY <1>T, <2>1, <2>2 DEF LiveIsTracked, Tracks
  <2>6. \A q \in Req : status'[q] = "new" <=> client'[q] = "none"
    BY <2>1, <2>2 DEF Tracks
  <2> QED
    BY <1>T, <2>1, <2>3, <2>4, <2>5, <2>6 DEF Tracks
<1>3. ASSUME NEW r \in Req, Cleanup(r) PROVE Tracks'
  <2>1. /\ r \in cleanups
        /\ cleanups' = cleanups \ {r}
        /\ active_requests' = active_requests \ {r}
        /\ UNCHANGED <<status, loop, scan, target, cancelled_requests, client>>
    BY <1>3 DEF Cleanup, loopVars, requestVars
  <2>2. status[r] \in Concluded
    BY <2>1 DEF Tracks
  <2>3. LiveIsTracked'
    BY <2>1, <2>2 DEF LiveIsTracked, Tracks, Concluded
  <2> QED
    BY <2>1, <2>3 DEF Tracks
<1>4. ASSUME UNCHANGED <<active_requests, cancelled_requests, client, scan>>,
             \A r \in Req : status'[r] = "new" <=> status[r] = "new",
             \A r \in cleanups' : r \in cleanups \/ status'[r] \in Concluded,
             \A e \in Engines :
               \/ loop'[e] \notin {"finalizing", "failclearing"}
               \/ status'[target'[e]] \in Concluded
               \/ UNCHANGED <<loop[e], target[e]>>
      PROVE  Tracks'
  BY <1>4, TracksFrame DEF Tracks
<1>5. ASSUME NEW e \in Engines,
             Take(e) \/ StopDecode(e) \/ Resume(e) \/ PrefillRejected(e)
      PROVE  Tracks'
  <2>1. UNCHANGED <<active_requests, cancelled_requests, client, loop, scan,
                    target, cleanups>>
    BY <1>5 DEF Take, StopDecode, Resume, PrefillRejected, loopVars
  <2>2. \A r \in Req : status'[r] \in {status[r], "processing"}
    BY <1>5, <1>T DEF Take, StopDecode, Resume, PrefillRejected, Prefill,
       requestVars
  <2> QED
    BY <1>4, <1>N, <2>1, <2>2
<1>6. ASSUME NEW e \in Engines, NEW st \in [Req -> Status], NEW dq,
             \A r \in Req : st[r] \in {status[r]} \union Concluded,
             Advance(e, st, dq),
             UNCHANGED <<scan, target, active_requests, cancelled_requests,
                         client>>,
             \A r \in cleanups' : r \in cleanups \/ status'[r] \in Concluded
      PROVE  Tracks'
  <2>1. \A r \in Req : status'[r] \in {st[r], "processing"}
    BY <1>6, <1>T DEF Advance, Prefill
  <2>2. ASSUME NEW f \in Engines
        PROVE  \/ loop'[f] \notin {"finalizing", "failclearing"}
               \/ UNCHANGED <<loop[f], target[f]>>
    BY <1>6, <1>T DEF Advance, StartDecode
  <2>3. \A r \in Req : status'[r] \in {status[r], "processing"}
                                       \union Concluded
    BY <1>6, <2>1
  <2> QED
    BY <1>4, <1>N, <1>6, <2>2, <2>3
<1>7. ASSUME NEW e \in Engines, NEW ts \in Output, PrefillOk(e, ts)
      PROVE  Tracks'
  <2>1. /\ Advance(e, status, decode_queues[e] \union {Head(pending[e])})
        /\ UNCHANGED <<scan, target, active_requests, cancelled_requests,
                       client, cleanups>>
    BY <1>7 DEF PrefillOk
  <2> QED
    BY <1>6, <1>T, <2>1
<1>8. ASSUME NEW e \in Engines, NEW outcome \in Concluded, Prefilling(e),
             Advance(e, [status EXCEPT ![Head(pending[e])] = outcome],
                     decode_queues[e]),
             UNCHANGED <<scan, target, active_requests, cancelled_requests,
                         client>>,
             \/ UNCHANGED cleanups
             \/ cleanups' = cleanups \union {Head(pending[e])}
      PROVE  Tracks'
  <2> DEFINE st == [status EXCEPT ![Head(pending[e])] = outcome]
             h == Head(pending[e])
  <2>1. /\ st \in [Req -> Status]
        /\ \A r \in Req : st[r] \in {status[r]} \union Concluded
        /\ \A r \in Req : r # h => st[r] = status[r]
        /\ h \in Req => st[h] = outcome
    BY <1>8, <1>T DEF Concluded, Status
  <2>2. Advance(e, st, decode_queues[e])
    BY <1>8
  <2> HIDE DEF st
  <2>3. h \in Req /\ status'[h] \in Concluded
    BY <1>8, <2>1, <2>2, AdvanceRequest
  <2>4. \A r \in cleanups' : r \in cleanups \/ status'[r] \in Concluded
    BY <1>8, <2>3
  <2> QED
    BY <1>6, <1>8, <2>1, <2>2, <2>4
<1>9. ASSUME NEW e \in Engines,
             \/ \E ts \in Output : PrefillCompleted(e, ts)
             \/ PrefillRaised(e) \/ PrefillCleared(e)
      PROVE  Tracks'
  <2>1. CASE \E ts \in Output : PrefillCompleted(e, ts)
    BY <1>8, <2>1 DEF PrefillCompleted, Prefilling, Concluded
  <2>2. CASE PrefillRaised(e) \/ PrefillCleared(e)
    BY <1>8, <2>2 DEF PrefillRaised, PrefillCleared, PrefillError, Prefilling,
       Concluded
  <2> QED
    BY <1>9, <2>1, <2>2
<1>10. ASSUME NEW e \in Engines, LoopTop(e) \/ CancelledCleared(e)
       PROVE  Tracks'
  <2>1. /\ UNCHANGED <<active_requests, client, status, cleanups>>
        /\ cancelled_requests' \subseteq cancelled_requests
    BY <1>10 DEF LoopTop, CancelledCleared, requestVars
  <2>2. ASSUME NEW todo \in SUBSET Req, ClearOrStep(e, todo),
               \A r \in todo : client[r] = "gone"
        PROVE  \A f \in Engines :
                 /\ \A r \in scan'[f] : client[r] = "gone"
                 /\ \/ loop'[f] \notin {"finalizing", "failclearing"}
                    \/ UNCHANGED <<loop[f], target[f]>>
    BY <1>T, <2>2 DEF ClearOrStep, Tracks
  <2>3. \A f \in Engines :
          /\ \A r \in scan'[f] : client[r] = "gone"
          /\ \/ loop'[f] \notin {"finalizing", "failclearing"}
             \/ UNCHANGED <<loop[f], target[f]>>
    <3>1. CASE LoopTop(e) /\ ClearOrStep(e, CancelledHere(e))
      <4>1. /\ CancelledHere(e) \in SUBSET Req
            /\ \A r \in CancelledHere(e) : client[r] = "gone"
        BY <1>T DEF CancelledHere, Tracks
      <4> QED
        BY <2>2, <3>1, <4>1
    <3>2. CASE /\ loop' = [loop EXCEPT ![e] = "leaving"]
               /\ UNCHANGED <<scan, target>>
      BY <1>T, <3>2 DEF Tracks
    <3>3. CASE CancelledCleared(e)
      <4>1. /\ scan[e] \in SUBSET Req
            /\ \A r \in scan[e] : client[r] = "gone"
        BY <1>T DEF Tracks
      <4> QED
        BY <2>2, <3>3, <4>1 DEF CancelledCleared
    <3> QED
      BY <1>10, <3>1, <3>2, <3>3 DEF LoopTop
  <2> QED
    BY <2>1, <2>3, TracksFrame
<1>11. ASSUME NEW e \in Engines, NEW r \in Req, Apply(e, r) \/ FailOne(e, r)
       PROVE  Tracks'
  <2>1. /\ UNCHANGED <<active_requests, cancelled_requests, client, scan,
                       cleanups>>
        /\ \/ UNCHANGED <<status, target, loop>>
           \/ \E outcome \in Concluded :
                /\ status' = [status EXCEPT ![r] = outcome]
                /\ target' = [target EXCEPT ![e] = r]
                /\ \E pos \in LoopPos : loop' = [loop EXCEPT ![e] = pos]
    BY <1>11 DEF Apply, FailOne, Finalize, Concluded, LoopPos
  <2>2. /\ \A q \in Req : status'[q] \in {status[q]} \union Concluded
        /\ \A f \in Engines : \/ status'[target'[f]] \in Concluded
                              \/ UNCHANGED <<loop[f], target[f]>>
    <3>1. CASE UNCHANGED <<status, target, loop>>
      BY <3>1
    <3>2. ASSUME NEW outcome \in Concluded, NEW pos \in LoopPos,
                 status' = [status EXCEPT ![r] = outcome],
                 target' = [target EXCEPT ![e] = r],
                 loop' = [loop EXCEPT ![e] = pos]
          PROVE  /\ \A q \in Req : status'[q] \in {status[q]} \union Concluded
                 /\ \A f \in Engines : \/ status'[target'[f]] \in Concluded
                                       \/ UNCHANGED <<loop[f], target[f]>>
      BY <1>T, <3>2
    <3> QED
      BY <2>1, <3>1, <3>2
  <2> QED
    BY <1>4, <1>N, <2>1, <2>2
<1>12. ASSUME NEW e \in Engines, Finalized(e) PROVE Tracks'
  <2>1. /\ loop[e] \in {"finalizing", "failclearing"}
        /\ loop' = [loop EXCEPT ![e] =
                       IF @ = "finalizing" THEN "applying" ELSE "failing"]
        /\ cleanups' = cleanups \union {target[e]}
        /\ target' = [target EXCEPT ![e] = NoReq]
        /\ UNCHANGED <<active_requests, cancelled_requests, client, scan,
                       status>>
    BY <1>12 DEF Finalized, requestVars
  <2>2. status'[target[e]] \in Concluded
    BY <2>1 DEF Tracks
  <2>3. \A f \in Engines : \/ loop'[f] \notin {"finalizing", "failclearing"}
                          \/ UNCHANGED <<loop[f], target[f]>>
    BY <1>T, <2>1
  <2> QED
    BY <1>4, <2>1, <2>2, <2>3
<1>13. ASSUME NEW e \in Engines,
              \/ \E answer \in Answers(e) : StepAnswered(e, answer)
              \/ BatchFailed(e) \/ StepDone(e) \/ FailDone(e) \/ Leave(e)
       PROVE  Tracks'
  <2>1. /\ UNCHANGED <<active_requests, cancelled_requests, client, scan,
                       target, status, cleanups>>
        /\ \E pos \in {"applying", "failing", "top", "leaving", "none"} :
             loop' = [loop EXCEPT ![e] = pos]
    BY <1>13 DEF StepAnswered, BatchFailed, StepDone, FailDone, Leave,
       requestVars
  <2>2. \A f \in Engines : \/ loop'[f] \notin {"finalizing", "failclearing"}
                          \/ UNCHANGED <<loop[f], target[f]>>
    BY <1>T, <2>1
  <2> QED
    BY <1>4, <2>1, <2>2
<1>14. CASE UNCHANGED vars
  BY <1>4, <1>14 DEF vars, loopVars, requestVars
<1> QED
  BY <1>1, <1>2, <1>3, <1>5, <1>7, <1>9, <1>10, <1>11, <1>12, <1>13, <1>14
     DEF Next, Reader, Worker, DecodeLoop, PrefillAnswer, StepAnswer

(* A live request whose client is there is in active_requests, whatever    *)
(* cleanups and cancellations run in between.                              *)
THEOREM LiveRequestsAreTracked == Spec => []LiveIsTracked
<1>1. Tracks => LiveIsTracked
  BY DEF Tracks
<1> QED
  BY <1>1, PlacesInit, PlacesStep, TracksInit, TracksStep, PTL DEF Spec

-----------------------------------------------------------------------------
(* Every live request is in the hands of a task                            *)

(* Where request r must be, by its status.                                 *)
Held(r) ==
  LET e == assigned[r]
  IN /\ status[r] = "queued"
          => r \in Range(pending[e]) \union Range(request_queues[e])
     /\ status[r] = "processing"
          => r \in decode_queues[e] \/ InPrefill(e, r) \/ client[r] = "gone"

AllHeld == \A r \in Req : Held(r)

(* The worker of e starts the first prefill of batch: nothing is lost.     *)
LEMMA PrefillHeld ==
  ASSUME TypeInv, NEW e \in Engines, NEW st \in [Req -> Status],
         NEW batch \in Seq(Req), NEW rest, batch # <<>>,
         Prefill(e, batch, rest, st), UNCHANGED <<assigned, client>>,
         NEW r \in Req, assigned[r] = e,
         st[r] = "queued" => r \in Range(batch) \union Range(rest),
         st[r] = "processing" =>
           r \in decode_queues'[e] \/ r = Head(batch) \/ client[r] = "gone"
  PROVE  Held(r)'
<1>1. /\ pending'[e] = batch
      /\ request_queues'[e] = rest
      /\ Prefilling(e)'
      /\ status' = [st EXCEPT ![Head(batch)] = "processing"]
  BY DEF TypeInv, TypeOK, Prefill, Prefilling
<1>2. r = Head(batch) \/ status'[r] = st[r]
  BY <1>1
<1>3. CASE r = Head(batch)
  <2>1. status'[r] = "processing" /\ InPrefill(e, r)'
    BY <1>1, <1>3 DEF InPrefill
  <2> QED
    BY <2>1 DEF Held
<1>4. CASE r # Head(batch)
  BY <1>1, <1>2, <1>4 DEF Held
<1> QED
  BY <1>3, <1>4

(* What leaves a request where it is.                                      *)
LEMMA HeldFrame ==
  ASSUME NEW r \in Req, Held(r), assigned[r] \in Engines,
         UNCHANGED <<assigned[r], status[r], pending[assigned[r]],
                     request_queues[assigned[r]]>>,
         client[r] = "gone" => client'[r] = "gone",
         Prefilling(assigned[r])' <=> Prefilling(assigned[r]),
         \/ r \in decode_queues[assigned[r]]
              => r \in decode_queues'[assigned[r]]
         \/ client'[r] = "gone"
  PROVE  Held(r)'
BY DEF Held, InPrefill

LEMMA HeldStep == PlacesInv /\ Tracks /\ AllHeld /\ [Next]_vars => AllHeld'
<1> SUFFICES ASSUME PlacesInv, Tracks, AllHeld, [Next]_vars, NEW r \in Req
             PROVE  Held(r)'
  BY DEF AllHeld
<1>0. /\ TypeInv
      /\ \A e \in Engines : Control(e) /\ Places(e)
      /\ RequestStep(r)
      /\ Held(r)
  BY RequestSteps DEF PlacesInv, TypeInv, AllHeld
<1>T. /\ status \in [Req -> Status]
      /\ client \in [Req -> Client]
      /\ assigned \in [Req -> Engines]
      /\ request_queues \in [Engines -> Seq(Req)]
      /\ pending \in [Engines -> Seq(Req)]
      /\ worker \in [Engines -> WorkerPos]
      /\ decode_queues \in [Engines -> SUBSET Req]
      /\ scan \in [Engines -> SUBSET Req]
  BY <1>0 DEF TypeInv, TypeOK
<1>C. Concluded \intersect {"queued", "processing"} = {}
  BY DEF Concluded
<1>F. ASSUME UNCHANGED <<assigned, pending, request_queues, worker, client>>,
             UNCHANGED status[r],
             \/ UNCHANGED decode_queues[assigned[r]]
             \/ client[r] = "gone"
      PROVE  Held(r)'
  <2>1. Prefilling(assigned[r])' <=> Prefilling(assigned[r])
    BY <1>F DEF Prefilling
  <2> QED
    BY <1>0, <1>F, <1>T, <2>1, HeldFrame
<1>S. ASSUME NEW e \in Engines, assigned[r] # e,
             UNCHANGED <<assigned, client>>, UNCHANGED status[r],
             \A f \in Engines \ {e} :
               UNCHANGED <<pending[f], request_queues[f], worker[f],
                           decode_queues[f]>>
      PROVE  Held(r)'
  <2>1. Prefilling(assigned[r])' <=> Prefilling(assigned[r])
    BY <1>S, <1>T DEF Prefilling
  <2> QED
    BY <1>0, <1>S, <1>T, <2>1, HeldFrame
<1>1. ASSUME NEW q \in Req, Submit(q) PROVE Held(r)'
  <2>0. PICK e \in Engines : e = current_engine_index
    BY <1>0 DEF TypeInv, TypeOK
  <2>1. /\ status' = [status EXCEPT ![q] = "queued"]
        /\ client' = [client EXCEPT ![q] = "open"]
        /\ assigned' = [assigned EXCEPT ![q] = e]
        /\ request_queues' = [request_queues EXCEPT ![e] = Append(@, q)]
        /\ UNCHANGED <<worker, pending, decode_queues>>
    BY <1>1, <2>0 DEF Submit, Enqueued
  <2>2. Range(Append(request_queues[e], q)) = Range(request_queues[e])
                                                \union {q}
    BY <1>T, RangeAppend
  <2>3. CASE r = q
    <3>1. /\ assigned'[r] = e /\ status'[r] = "queued"
          /\ q \in Range(request_queues'[e])
      BY <1>T, <2>1, <2>2, <2>3
    <3> QED
      BY <2>3, <3>1 DEF Held
  <2>4. CASE r # q
    <3>1. UNCHANGED <<assigned[r], status[r], client[r]>>
      BY <1>T, <2>1, <2>4
    <3>2. Range(request_queues[assigned[r]])
            \subseteq Range(request_queues'[assigned[r]])
      BY <1>T, <2>1, <2>2
    <3> QED
      BY <1>0, <2>1, <3>1, <3>2 DEF Held, InPrefill, Prefilling
  <2> QED
    BY <2>3, <2>4
<1>2. ASSUME NEW q \in Req,
             ReadToEnd(q) \/ Cancel(q) \/ Drop(q) \/ Cleanup(q)
      PROVE  Held(r)'
  <2>1. /\ UNCHANGED <<assigned, status, pending, request_queues, worker,
                       decode_queues>>
        /\ client[r] = "gone" => client'[r] = "gone"
    BY <1>2, <1>T DEF ReadToEnd, Cancel, Drop, Cleanup, routing, workerVars,
       requestVars
  <2> QED
    BY <1>0, <2>1 DEF Held, InPrefill, Prefilling
<1>3. ASSUME NEW e \in Engines, NEW batch \in Seq(Req), batch # <<>>,
             ~ Prefilling(e), Prefill(e, batch, <<>>, status),
             UNCHANGED <<assigned, client, decode_queues>>,
             Range(batch) = Range(pending[e]) \union Range(request_queues[e])
      PROVE  Held(r)'
  <2>1. CASE assigned[r] = e
    <3>1. /\ status[r] = "queued" => r \in Range(batch) \union Range(<<>>)
          /\ status[r] = "processing" =>
               \/ r \in decode_queues'[e] \/ r = Head(batch)
               \/ client[r] = "gone"
      BY <1>0, <1>3, <2>1 DEF Held, InPrefill
    <3> QED
      BY <1>0, <1>3, <1>T, <2>1, <3>1, PrefillHeld
  <2>2. CASE assigned[r] # e
    <3>1. Head(batch) \in Range(batch) /\ Range(batch) \subseteq Req
      BY <1>3, RangeOfSeq, EmptySeq, HeadTailProperties DEF Range
    <3>2. assigned[Head(batch)] = e
      BY <1>0, <1>3, <3>1 DEF Places
    <3>3. UNCHANGED status[r]
      BY <1>3, <1>T, <2>2, <3>2 DEF Prefill
    <3>4. \A f \in Engines \ {e} :
            UNCHANGED <<pending[f], request_queues[f], worker[f],
                        decode_queues[f]>>
      BY <1>3, <1>T DEF Prefill
    <3> QED
      BY <1>3, <1>S, <2>2, <3>3, <3>4
  <2> QED
    BY <2>1, <2>2
<1>4. ASSUME NEW e \in Engines, Take(e) PROVE Held(r)'
  <2>1. /\ ~ Prefilling(e) /\ pending[e] = <<>> /\ request_queues[e] # <<>>
        /\ Prefill(e, request_queues[e], <<>>, status)
        /\ UNCHANGED <<assigned, client, decode_queues>>
    BY <1>0, <1>4 DEF Take, Control, Prefilling, routing
  <2>2. Range(request_queues[e]) = Range(pending[e])
                                     \union Range(request_queues[e])
    BY <2>1 DEF Range
  <2> QED
    BY <1>3, <1>T, <2>1, <2>2
<1>5. ASSUME NEW e \in Engines, Resume(e) PROVE Held(r)'
  <2> DEFINE batch == pending[e] \o request_queues[e]
  <2>1. /\ ~ Prefilling(e) /\ pending[e] # <<>>
        /\ Prefill(e, batch, <<>>, status)
        /\ UNCHANGED <<assigned, client, decode_queues>>
    BY <1>0, <1>5 DEF Resume, Control, Prefilling, routing
  <2>2. /\ batch \in Seq(Req) /\ batch # <<>>
        /\ Range(batch) = Range(pending[e]) \union Range(request_queues[e])
    BY <1>T, <2>1, Concat, RangeConcat
  <2> HIDE DEF batch
  <2> QED
    BY <1>3, <2>1, <2>2
<1>6. ASSUME NEW e \in Engines, StopDecode(e) PROVE Held(r)'
  <2> DEFINE q == request_queues[e]
  <2>1. /\ worker[e] = "idle" /\ q # <<>>
        /\ pending' = [pending EXCEPT ![e] = <<Head(q)>>]
        /\ request_queues' = [request_queues EXCEPT ![e] = Tail(q)]
        /\ worker' = [worker EXCEPT ![e] = "stopping"]
        /\ UNCHANGED <<assigned, client, status, decode_queues>>
    BY <1>6 DEF StopDecode, routing, requestVars
  <2>2. CASE assigned[r] = e
    <3>0. Range(<<Head(q)>>) = {Head(q)}
      BY DEF Range
    <3>1. /\ Range(Tail(q)) = Range(q) \ {Head(q)}
          /\ Range(<<Head(q)>>) = {Head(q)}
      BY <1>0, <1>T, <2>1, <3>0, RangeTail DEF Places
    <3>2. pending[e] = <<>> /\ ~ Prefilling(e)
      BY <1>0, <2>1 DEF Control, Prefilling
    <3>3. /\ pending'[e] = <<Head(q)>> /\ request_queues'[e] = Tail(q)
          /\ Range(pending[e]) = {}
      BY <1>T, <2>1, <3>2 DEF Range
    <3> HIDE DEF q
    <3>4. status[r] = "queued" => r \in Range(q)
      BY <1>0, <2>2, <3>3 DEF Held, q
    <3>5. status[r] = "processing"
            => r \in decode_queues[e] \/ client[r] = "gone"
      BY <1>0, <2>2, <3>2 DEF Held, InPrefill
    <3> QED
      BY <2>1, <2>2, <3>1, <3>3, <3>4, <3>5 DEF Held
  <2>3. CASE assigned[r] # e
    BY <1>S, <1>T, <2>1, <2>3
  <2> QED
    BY <2>2, <2>3
<1>7. ASSUME NEW e \in Engines, Prefilling(e),
             NEW st \in [Req -> Status], NEW dq \in SUBSET Req,
             \A q \in Req : q # Head(pending[e]) => st[q] = status[q],
             \/ /\ st[Head(pending[e])] \in Concluded
                /\ dq = decode_queues[e]
             \/ /\ st[Head(pending[e])] = "processing"
                /\ dq = decode_queues[e] \union {Head(pending[e])},
             Advance(e, st, dq), UNCHANGED <<assigned, client>>
      PROVE  Held(r)'
  <2> DEFINE h == Head(pending[e])
             batch == Tail(pending[e])
  <2>1. /\ pending[e] \in Seq(Req) /\ pending[e] # <<>>
        /\ batch \in Seq(Req) /\ IsInjective(batch)
        /\ h \in Range(pending[e]) /\ h \in Req
        /\ Range(batch) = Range(pending[e]) \ {h}
    BY <1>0, <1>7, <1>T, HeadTail, RangeTail DEF Places, Control, Prefilling
  <2>2. /\ decode_queues' = [decode_queues EXCEPT ![e] = dq]
        /\ decode_queues'[e] = dq
    BY <1>7, <1>T DEF Advance
  <2>3. assigned[h] = e /\ status[h] = "processing" /\ InPrefill(e, h)
    BY <1>0, <1>7, <2>1 DEF Places, InPrefill
  <2>4. ASSUME assigned[r] = e
        PROVE  /\ st[r] = "queued"
                    => r \in Range(batch) \union Range(request_queues[e])
               /\ st[r] = "processing" => r \in dq \/ client[r] = "gone"
    <3>1. CASE r = h
      BY <1>7, <1>C, <3>1
    <3>2. CASE r # h
      <4>1. st[r] = status[r] /\ decode_queues[e] \subseteq dq
        BY <1>7, <3>2
      <4> QED
        BY <1>0, <2>1, <2>4, <3>2, <4>1 DEF Held, InPrefill
    <3> QED
      BY <3>1, <3>2
  <2>5. CASE assigned[r] = e /\ batch # <<>>
    <3>1. Prefill(e, batch, request_queues[e], st)
      BY <1>7, <2>5 DEF Advance
    <3> HIDE DEF batch
    <3> QED
      BY <1>0, <1>7, <2>1, <2>2, <2>4, <2>5, <3>1, PrefillHeld
  <2>6. CASE assigned[r] = e /\ batch = <<>>
    <3>1. /\ request_queues' = request_queues
          /\ status' = st
      BY <1>7, <2>6 DEF Advance
    <3>2. Range(batch) = {}
      BY <2>6 DEF Range
    <3> HIDE DEF batch
    <3> QED
      BY <1>7, <2>2, <2>4, <2>6, <3>1, <3>2 DEF Held
  <2>7. CASE assigned[r] # e
    <3>1. \A f \in Engines \ {e} :
            UNCHANGED <<pending[f], request_queues[f], worker[f],
                        decode_queues[f]>>
      BY <1>7, <1>T, <2>2 DEF Advance, Prefill
    <3>2. UNCHANGED status[r]
      <4>1. r # h
        BY <2>3, <2>7
      <4>2. CASE batch # <<>>
        <5>1. Head(batch) \in Range(batch)
          BY <2>1, <4>2, RangeTail
        <5>2. assigned[Head(batch)] = e
          BY <1>0, <2>1, <5>1 DEF Places
        <5>3. status' = [st EXCEPT ![Head(batch)] = "processing"]
          BY <1>7, <4>2 DEF Advance, Prefill
        <5> QED
          BY <1>7, <2>7, <4>1, <5>2, <5>3
      <4>3. CASE batch = <<>>
        BY <1>7, <4>1, <4>3 DEF Advance
      <4> QED
        BY <4>2, <4>3
    <3> QED
      BY <1>7, <1>S, <2>7, <3>1, <3>2
  <2> QED
    BY <2>5, <2>6, <2>7
<1>8. ASSUME NEW e \in Engines, NEW ts \in Output, PrefillOk(e, ts)
      PROVE  Held(r)'
  <2>1. /\ Prefilling(e)
        /\ Advance(e, status, decode_queues[e] \union {Head(pending[e])})
        /\ UNCHANGED <<assigned, client>>
    BY <1>8 DEF PrefillOk, Prefilling, routing
  <2>2. /\ Head(pending[e]) \in Range(pending[e])
        /\ Head(pending[e]) \in Req
    BY <1>0, <1>T, <2>1, HeadTail, RangeTail DEF Control, Prefilling, Places
  <2>3. status[Head(pending[e])] = "processing"
    BY <1>0, <2>1, <2>2 DEF Places, InPrefill
  <2>4. decode_queues[e] \union {Head(pending[e])} \in SUBSET Req
    BY <1>T, <2>2
  <2> QED
    BY <1>7, <1>T, <2>1, <2>3, <2>4
<1>9. ASSUME NEW e \in Engines, Prefilling(e), NEW outcome \in Concluded,
             Advance(e, [status EXCEPT ![Head(pending[e])] = outcome],
                     decode_queues[e]),
             UNCHANGED <<assigned, client>>
      PROVE  Held(r)'
  <2> DEFINE st == [status EXCEPT ![Head(pending[e])] = outcome]
  <2>1. Head(pending[e]) \in Req
    BY <1>0, <1>9, <1>T, HeadTail DEF Control, Prefilling
  <2>2. /\ st \in [Req -> Status]
        /\ \A q \in Req : q # Head(pending[e]) => st[q] = status[q]
        /\ st[Head(pending[e])] \in Concluded
    BY <1>9, <1>T, <2>1 DEF Concluded, Status
  <2>3. Advance(e, st, decode_queues[e])
    BY <1>9
  <2> HIDE DEF st
  <2> QED
    BY <1>7, <1>9, <1>T, <2>2, <2>3
<1>10. ASSUME NEW e \in Engines,
              \/ \E ts \in Output : PrefillCompleted(e, ts)
              \/ PrefillRaised(e) \/ PrefillCleared(e)
       PROVE  Held(r)'
  <2>1. CASE \E ts \in Output : PrefillCompleted(e, ts)
    BY <1>9, <2>1 DEF PrefillCompleted, Prefilling, Concluded, routing
  <2>2. CASE PrefillRaised(e) \/ PrefillCleared(e)
    BY <1>9, <2>2 DEF PrefillRaised, PrefillCleared, PrefillError, Prefilling,
       Concluded, routing
  <2> QED
    BY <1>10, <2>1, <2>2
<1>11. ASSUME NEW e \in Engines, PrefillRejected(e) PROVE Held(r)'
  <2>1. /\ UNCHANGED <<assigned, pending, request_queues, status, client,
                       decode_queues>>
        /\ \A f \in Engines : Prefilling(f)' <=> Prefilling(f)
    BY <1>T, <1>11 DEF PrefillRejected, Prefilling, routing, requestVars
  <2> QED
    BY <1>0, <1>T, <2>1, HeldFrame
<1>12. ASSUME NEW e \in Engines, LoopTop(e) \/ CancelledCleared(e)
       PROVE  Held(r)'
  <2>1. UNCHANGED <<assigned, pending, request_queues, worker, client, status>>
    BY <1>12 DEF LoopTop, CancelledCleared, routing, workerVars, requestVars
  <2>2. ASSUME NEW todo \in SUBSET Req, ClearOrStep(e, todo),
               \A q \in todo : client[q] = "gone"
        PROVE  Held(r)'
    <3>1. CASE UNCHANGED decode_queues
      BY <1>F, <2>1, <3>1
    <3>2. ASSUME NEW q \in todo,
                 decode_queues' = [decode_queues EXCEPT ![e] = @ \ {q}]
          PROVE  Held(r)'
      <4>1. r # q \/ client[r] = "gone"
        BY <2>2
      <4> QED
        BY <1>0, <1>T, <2>1, <3>2, <4>1 DEF Held, InPrefill, Prefilling
    <3> QED
      BY <2>2, <3>1, <3>2 DEF ClearOrStep
  <2>3. CASE UNCHANGED decode_queues
    BY <1>F, <2>1, <2>3
  <2>4. /\ CancelledHere(e) \in SUBSET Req /\ scan[e] \in SUBSET Req
        /\ \A q \in CancelledHere(e) \union scan[e] : client[q] = "gone"
    BY <1>T DEF CancelledHere, Tracks
  <2> QED
    BY <1>12, <2>2, <2>3, <2>4 DEF LoopTop, CancelledCleared
<1>13. ASSUME NEW e \in Engines, NEW q \in Req, Apply(e, q) \/ FailOne(e, q)
       PROVE  Held(r)'
  <2>1. UNCHANGED <<assigned, pending, request_queues, worker, client>>
    BY <1>13 DEF Apply, FailOne, routing, workerVars
  <2>2. CASE UNCHANGED <<decode_queues, status>>
    BY <1>F, <2>1, <2>2
  <2>3. ASSUME NEW outcome \in Concluded,
               decode_queues' = [decode_queues EXCEPT ![e] = @ \ {q}],
               status' = [status EXCEPT ![q] = outcome]
        PROVE  Held(r)'
    <3>1. CASE r = q
      <4>1. status'[r] \in Concluded
        BY <1>T, <2>3, <3>1
      <4> QED
        BY <1>C, <4>1 DEF Held
    <3>2. CASE r # q
      BY <1>0, <1>T, <2>1, <2>3, <3>2 DEF Held, InPrefill, Prefilling
    <3> QED
      BY <3>1, <3>2
  <2> QED
    BY <1>13, <2>2, <2>3 DEF Apply, FailOne, Finalize, Concluded
<1>14. ASSUME NEW e \in Engines,
              \/ \E answer \in Answers(e) : StepAnswered(e, answer)
              \/ BatchFailed(e) \/ StepDone(e) \/ FailDone(e)
              \/ Finalized(e) \/ Leave(e)
       PROVE  Held(r)'
  BY <1>F, <1>14 DEF StepAnswered, BatchFailed, StepDone, FailDone, Finalized,
     Leave, routing, workerVars, requestVars
<1>15. CASE UNCHANGED vars
  BY <1>F, <1>15 DEF vars, routing, workerVars, requestVars
<1> QED
  BY <1>1, <1>2, <1>4, <1>5, <1>6, <1>8, <1>10, <1>11, <1>12, <1>13, <1>14,
     <1>15 DEF Next, Reader, Worker, DecodeLoop, PrefillAnswer, StepAnswer

(* No accepted request falls out of the queues while its client waits: it  *)
(* is in the line of its engine, at the head of the batch being prefilled, *)
(* or in the decode queue.                                                 *)
THEOREM NoRequestIsLost == Spec => []NoRequestLost
<1>1. Init => AllHeld
  BY DEF Init, SchedulerInit, AllHeld, Held
<1>2. PlacesInv /\ AllHeld => NoRequestLost
  <2> SUFFICES ASSUME PlacesInv, NEW r \in Req, Held(r),
                      NEW e \in Engines, e = assigned[r]
               PROVE  /\ status[r] = "queued"
                           => r \in Range(pending[e] \o request_queues[e])
                      /\ status[r] = "processing" =>
                           \/ r \in decode_queues[e]
                           \/ /\ worker[e] \notin {"idle", "waiting",
                                                   "stopping"}
                              /\ pending[e] # <<>> /\ r = Head(pending[e])
                           \/ client[r] = "gone"
    BY DEF NoRequestLost, AllHeld, PlacesInv, TypeInv, TypeOK
  <2>1. /\ pending[e] \in Seq(Req) /\ request_queues[e] \in Seq(Req)
        /\ Prefilling(e) => pending[e] # <<>>
    BY DEF PlacesInv, TypeInv, TypeOK, Control, Prefilling
  <2>2. Range(pending[e] \o request_queues[e])
          = Range(pending[e]) \union Range(request_queues[e])
    BY <2>1, RangeConcat
  <2> QED
    BY <2>1, <2>2 DEF Held, InPrefill, Prefilling
<1> QED
  BY <1>1, <1>2, PlacesInit, PlacesStep, TracksInit, TracksStep, HeldStep, PTL
     DEF Spec


-----------------------------------------------------------------------------
(* A late or incomplete answer                                             *)

(* An answer that misses items or has items of other requests, as a call   *)
(* leaves it that met an engine still busy with an abandoned one, breaks   *)
(* nothing either: only the items of the decode queue are looked at.       *)
LEMMA AnyAnswerStep ==
  ASSUME PlacesInv, NEW e \in Engines, NEW answer,
         DOMAIN answer \subseteq Req, answer \in [DOMAIN answer -> Item],
         StepAnswered(e, answer)
  PROVE  PlacesInv' /\ \A r \in Req : RequestStep(r)
<1>0. /\ TypeInv /\ TypeOK
      /\ \A f \in Engines : Places(f) /\ Control(f)
  BY DEF PlacesInv, TypeInv
<1>1. /\ UNCHANGED <<status, tokens, marks, assigned, pending, request_queues,
                     worker, decode_queues>>
      /\ loop[e] = "stepping"
      /\ loop' = [loop EXCEPT ![e] = "applying"]
  BY DEF StepAnswered, routing, workerVars, requestVars
<1>2. TypeInv'
  <2> DEFINE items == Restrict(answer, DOMAIN answer \intersect decode_queues[e])
  <2>1. /\ DOMAIN items \subseteq decode_queues[e]
        /\ DOMAIN items \subseteq Req
        /\ items \in [DOMAIN items -> Item]
    BY DEF Restrict
  <2>2. results' = [results EXCEPT ![e] = items]
    BY DEF StepAnswered
  <2> HIDE DEF items
  <2>3. /\ DOMAIN results' = Engines
        /\ \A f \in Engines : /\ DOMAIN results'[f] \subseteq Req
                              /\ results'[f] \in [DOMAIN results'[f] -> Item]
        /\ loop' \in [Engines -> LoopPos]
    BY <1>0, <1>1, <2>1, <2>2 DEF TypeOK, LoopPos
  <2>4. TypeOK'
    BY <1>0, <2>3
       DEF TypeOK, StepAnswered, routing, workerVars, requestVars
  <2>5. ASSUME NEW f \in Engines PROVE Control(f)'
    BY <1>0, <1>1, <2>1, <2>2, SMTT(30)
      DEF TypeOK, Control, Prefilling, StepAnswered, workerVars
  <2> QED
    BY <2>4, <2>5 DEF TypeInv
<1>3. ASSUME NEW f \in Engines PROVE Places(f)'
  BY <1>0, <1>1, PlacesFrame DEF Prefilling
<1> QED
  BY <1>1, <1>2, <1>3 DEF PlacesInv, RequestStep

-----------------------------------------------------------------------------
(* The other scheduler                                                     *)

(* The worker of e has one request in hand, or none; the requests in its   *)
(* queue wait and are its own.                                             *)
InHand(e, r) ==
  /\ pending[e] = <<r>> /\ assigned[r] = e
  /\ \/ status[r] = "processing"
     \/ worker[e] = "removing" /\ status[r] = "error" /\ marks[r] = <<"ERROR">>

OneAtATime(e) ==
  /\ \/ worker[e] = "waiting" /\ pending[e] = <<>>
     \/ /\ worker[e] \in {"asking", "decoding", "removing"}
        /\ \E r \in Req : InHand(e, r)
  /\ worker[e] \in {"asking", "decoding"} => status[Head(pending[e])] = "processing"
  /\ IsInjective(request_queues[e])
  /\ \A r \in Range(request_queues[e]) : assigned[r] = e /\ status[r] = "queued"

(* A live request is in the queue or the hand of its engine's worker.      *)
InLine(r) ==
  /\ status[r] = "queued" => r \in Range(request_queues[assigned[r]])
  /\ status[r] = "processing" => pending[assigned[r]] = <<r>>

Recorded(r) ==
  /\ status[r] = "new" <=> client[r] = "none"
  /\ r \in cleanups => status[r] \in Concluded
  /\ status[r] \in {"queued", "processing"} /\ client[r] # "gone" => r \in active_requests

Terminated(r) ==
  marks[r] \in CASE status[r] = "completed" -> {<<"END">>}
                 [] status[r] = "error" -> {<<"END">>, <<"ERROR">>, <<"ERROR", "END">>}
                 [] OTHER -> {<<>>}

IterativeInv ==
  /\ TypeOK
  /\ \A e \in Engines : OneAtATime(e)
  /\ \A r \in Req : InLine(r) /\ Recorded(r) /\ Terminated(r)

LEMMA IterativeStart == IterativeInit => IterativeInv
<1> SUFFICES ASSUME IterativeInit PROVE IterativeInv
  OBVIOUS
<1>1. TypeOK
  BY EngineAssumption DEF IterativeInit, SchedulerInit, TypeOK, Engines, WorkerPos,
     LoopPos, Status, Client, NoResults
<1>2. ASSUME NEW e \in Engines PROVE OneAtATime(e)
  BY DEF IterativeInit, SchedulerInit, OneAtATime, IsInjective, Range
<1>3. ASSUME NEW r \in Req PROVE InLine(r) /\ Recorded(r) /\ Terminated(r)
  BY DEF IterativeInit, SchedulerInit, InLine, Recorded, Terminated
<1> QED
  BY <1>1, <1>2, <1>3 DEF IterativeInv

(* What one worker's step leaves alone, and what it does to the request it *)
(* has in hand.                                                            *)
LEMMA HandIs ==
  ASSUME IterativeInv, NEW e \in Engines, worker[e] # "waiting"
  PROVE  /\ Head(pending[e]) \in Req /\ InHand(e, Head(pending[e]))
         /\ pending[e] = <<Head(pending[e])>>
<1>1. PICK r \in Req : InHand(e, r)
  BY DEF IterativeInv, OneAtATime
<1>2. Head(pending[e]) = r
  BY <1>1 DEF InHand
<1> QED
  BY <1>1, <1>2 DEF InHand

LEMMA OthersStay ==
  ASSUME IterativeInv, NEW e \in Engines, NEW f \in Engines \ {e}, NEW h \in Req,
         assigned[h] = e, UNCHANGED assigned,
         UNCHANGED <<pending[f], request_queues[f], worker[f]>>,
         \A r \in Req \ {h} : UNCHANGED <<status[r], marks[r]>>
  PROVE  OneAtATime(f)'
<1>1. OneAtATime(f) /\ assigned[h] # f
  BY DEF IterativeInv
<1>2. Range(request_queues[f]) \subseteq Req
  BY RangeOfSeq DEF IterativeInv, TypeOK
<1>3. \A r \in Req : InHand(f, r) => InHand(f, r)' /\ r # h
  BY <1>1 DEF InHand
<1>4. \A r \in Range(request_queues[f]) : r # h /\ r \in Req
  BY <1>1, <1>2 DEF OneAtATime
<1>5. ASSUME worker[f] \in {"asking", "decoding"} PROVE status'[Head(pending[f])] = "processing"
  <2>1. PICK r \in Req : InHand(f, r)
    BY <1>1, <1>5 DEF OneAtATime
  <2>2. Head(pending[f]) = r /\ r # h
    BY <1>3, <2>1 DEF InHand
  <2> QED
    BY <1>1, <1>5, <2>1, <2>2 DEF OneAtATime
<1> QED
  BY <1>1, <1>3, <1>4, <1>5 DEF OneAtATime

(* The clients and the cleanups. *)
LEMMA IterativeReaders ==
  ASSUME IterativeInv, NEW q \in Req, Reader(q) \/ Cleanup(q)
  PROVE  IterativeInv'
<1>0. /\ TypeOK /\ \A e \in Engines : OneAtATime(e)
      /\ \A r \in Req : InLine(r) /\ Recorded(r) /\ Terminated(r)
  BY DEF IterativeInv
<1>1. CASE Submit(q)
  <2> DEFINE e == current_engine_index
             was == request_queues[e]
  <2>1. /\ status[q] = "new" /\ e \in Engines /\ was \in Seq(Req)
        /\ status' = [status EXCEPT ![q] = "queued"]
        /\ client' = [client EXCEPT ![q] = "open"]
        /\ assigned' = [assigned EXCEPT ![q] = e]
        /\ active_requests' = active_requests \union {q}
        /\ request_queues' = [request_queues EXCEPT ![e] = Append(was, q)]
        /\ UNCHANGED <<worker, pending, tokens, marks, cleanups>>
    BY <1>0, <1>1 DEF Submit, Enqueued, TypeOK
  <2>2. TypeOK'
    <3>1. current_engine_index' \in Engines
      BY <1>0, <1>1, EngineAssumption DEF Submit, NextIndex, TypeOK, Engines
    <3>2. Append(was, q) \in Seq(Req)
      BY <2>1
    <3> QED
      BY <1>0, <1>1, <2>1, <3>1, <3>2, SMTT(30) DEF Submit, TypeOK, loopVars, Status, Client
  <2>3. ASSUME NEW r \in Req, r # q
        PROVE  UNCHANGED <<status[r], assigned[r], client[r]>>
    BY <1>0, <2>1, <2>3 DEF TypeOK
  <2>4. status'[q] = "queued" /\ assigned'[q] = e /\ client'[q] = "open"
    BY <1>0, <2>1 DEF TypeOK
  <2>5. \A f \in Engines : /\ Range(request_queues[f]) \subseteq Req \ {q}
                           /\ request_queues[f] \in Seq(Req)
    BY <1>0, <2>1, RangeOfSeq DEF OneAtATime, TypeOK
  <2>6. \A f \in Engines : request_queues'[f] = IF f = e THEN Append(was, q) ELSE request_queues[f]
    BY <1>0, <2>1 DEF TypeOK
  <2>7. Range(Append(was, q)) = Range(was) \union {q}
        /\ (IsInjective(was) => IsInjective(Append(was, q)))
    BY <2>1, <2>5, RangeAppend
  <2>8. ASSUME NEW f \in Engines PROVE OneAtATime(f)'
    <3>1. \A r \in Req : InHand(f, r) => InHand(f, r)' /\ r # q
      BY <2>1, <2>3 DEF InHand
    <3>2. /\ IsInjective(request_queues'[f])
          /\ \A r \in Range(request_queues'[f]) : assigned'[r] = f /\ status'[r] = "queued"
      BY <1>0, <2>3, <2>4, <2>5, <2>6, <2>7 DEF OneAtATime
    <3>3. ASSUME worker[f] \in {"asking", "decoding"} PROVE status'[Head(pending[f])] = "processing"
      <4>1. PICK r \in Req : InHand(f, r)
        BY <1>0, <3>3 DEF OneAtATime
      <4>2. Head(pending[f]) = r /\ r # q
        BY <3>1, <4>1 DEF InHand
      <4> QED
        BY <1>0, <2>3, <3>3, <4>2 DEF OneAtATime
    <3> QED
      BY <1>0, <2>1, <3>1, <3>2, <3>3 DEF OneAtATime
  <2>9. ASSUME NEW r \in Req PROVE (InLine(r) /\ Recorded(r) /\ Terminated(r))'
    <3>1. CASE r = q
      <4>1. InLine(q)'
        BY <2>1, <2>4, <2>6, <2>7 DEF InLine
      <4>2. Recorded(q)'
        BY <1>0, <2>1, <2>4 DEF Recorded, Concluded
      <4>3. Terminated(q)'
        BY <1>0, <2>1, <2>4 DEF Terminated
      <4> QED
        BY <3>1, <4>1, <4>2, <4>3
    <3>2. CASE r # q
      <4>1. assigned[r] \in Engines
        BY <1>0 DEF TypeOK
      <4>2. InLine(r)'
        BY <1>0, <2>1, <2>3, <2>6, <2>7, <3>2, <4>1 DEF InLine
      <4>3. Recorded(r)'
        BY <1>0, <2>1, <2>3, <3>2 DEF Recorded
      <4>4. Terminated(r)'
        BY <1>0, <2>1, <2>3, <3>2 DEF Terminated
      <4> QED
        BY <4>2, <4>3, <4>4
    <3> QED
      BY <3>1, <3>2
  <2> QED
    BY <2>2, <2>8, <2>9 DEF IterativeInv
<1>2. CASE ReadToEnd(q) \/ Cancel(q) \/ Drop(q) \/ Cleanup(q)
  <2>1. /\ UNCHANGED <<routing, workerVars, loopVars, requestVars, decode_queues, stop_events>>
        /\ cancelled_requests' \subseteq Req /\ client' \in [Req -> Client]
        /\ cleanups' \subseteq cleanups /\ active_requests' \subseteq active_requests
    BY <1>0, <1>2 DEF ReadToEnd, Cancel, Drop, Cleanup, TypeOK, Client
  <2>2. TypeOK'
    BY <1>0, <2>1 DEF TypeOK, routing, workerVars, loopVars, requestVars
  <2>3. \A e \in Engines : OneAtATime(e)'
    BY <1>0, <2>1 DEF OneAtATime, InHand, routing, workerVars, requestVars
  <2>4. ASSUME NEW r \in Req PROVE (InLine(r) /\ Recorded(r) /\ Terminated(r))'
    <3>1. InLine(r)' /\ Terminated(r)'
      BY <1>0, <2>1 DEF InLine, Terminated, routing, workerVars, requestVars
    <3>2. Recorded(r)
      BY <1>0
    <3>3. status'[r] = status[r] /\ client \in [Req -> Client]
      BY <1>0, <2>1 DEF requestVars, TypeOK
    <3>4. Recorded(r)'
      BY <1>2, <3>2, <3>3 DEF Recorded, ReadToEnd, Cancel, Drop, Cleanup, Concluded
    <3> QED
      BY <3>1, <3>4
  <2> QED
    BY <2>2, <2>3, <2>4 DEF IterativeInv
<1> QED
  BY <1>1, <1>2 DEF Reader

(* A step of the worker of e is about one request h. *)
LEMMA IterativeFrame ==
  ASSUME IterativeInv, TypeOK', NEW e \in Engines, NEW h \in Req, assigned[h] = e,
         pending[e] \in {<<>>, <<h>>},
         UNCHANGED <<assigned, client, active_requests>>, cleanups' \subseteq cleanups \union {h},
         \A f \in Engines \ {e} : UNCHANGED <<pending[f], request_queues[f], worker[f]>>,
         \A r \in Req \ {h} : UNCHANGED <<status[r], marks[r]>>,
         Range(request_queues[e]) \ {h} \subseteq Range(request_queues'[e]),
         OneAtATime(e)', InLine(h)', Recorded(h)', Terminated(h)'
  PROVE  IterativeInv'
<1>1. \A f \in Engines : OneAtATime(f)'
  BY OthersStay
<1>2. ASSUME NEW r \in Req, r # h PROVE (InLine(r) /\ Recorded(r) /\ Terminated(r))'
  <2>1. InLine(r) /\ Recorded(r) /\ Terminated(r) /\ assigned[r] \in Engines
    BY DEF IterativeInv, TypeOK
  <2>2. status'[r] = status[r] /\ marks'[r] = marks[r]
    BY <1>2
  <2>3. InLine(r)'
    <3>1. pending[e] # <<r>>
      BY <1>2
    <3> QED
      BY <1>2, <2>1, <2>2, <3>1 DEF InLine
  <2>4. Recorded(r)'
    BY <1>2, <2>1, <2>2 DEF Recorded
  <2>5. Terminated(r)'
    BY <2>1, <2>2 DEF Terminated
  <2> QED
    BY <2>3, <2>4, <2>5
<1> QED
  BY <1>1, <1>2 DEF IterativeInv

LEMMA Taken ==
  ASSUME IterativeInv, NEW e \in Engines, TakeOne(e)
  PROVE  IterativeInv' /\ Lifecycle!Next
<1> DEFINE was == request_queues[e]
<1>0. PICK h : h = Head(was)
  OBVIOUS
<1>1. /\ worker[e] = "waiting" /\ was # <<>> /\ was \in Seq(Req) /\ TypeOK /\ OneAtATime(e)
      /\ pending' = [pending EXCEPT ![e] = <<h>>]
      /\ request_queues' = [request_queues EXCEPT ![e] = Tail(was)]
      /\ status' = [status EXCEPT ![h] = "processing"]
      /\ worker' = [worker EXCEPT ![e] = IF h \in active_requests THEN "asking" ELSE "removing"]
      /\ UNCHANGED <<unused, tokens, marks, active_requests, cleanups, client>>
  BY <1>0 DEF TakeOne, IterativeInv, TypeOK
<1>2. /\ Tail(was) \in Seq(Req) /\ h \in Req /\ IsInjective(Tail(was)) /\ h \in Range(was)
      /\ Range(Tail(was)) = Range(was) \ {h}
  BY <1>0, <1>1, HeadTail, RangeTail DEF OneAtATime
<1>3. assigned[h] = e /\ status[h] = "queued" /\ pending[e] = <<>>
  BY <1>1, <1>2 DEF OneAtATime
<1>4. TypeOK'
  <2>1. <<h>> \in Seq(Req)
    BY <1>2
  <2> QED
    BY <1>1, <1>2, <2>1 DEF TypeOK, unused, routing, loopVars, Status, WorkerPos
<1>5. /\ pending'[e] = <<h>> /\ request_queues'[e] = Tail(was)
      /\ worker'[e] = (IF h \in active_requests THEN "asking" ELSE "removing")
      /\ status'[h] = "processing" /\ assigned' = assigned
      /\ \A r \in Req \ {h} : UNCHANGED <<status[r], marks[r]>>
      /\ \A f \in Engines \ {e} : UNCHANGED <<pending[f], request_queues[f], worker[f]>>
  BY <1>1, <1>2 DEF TypeOK, unused, routing
<1>6. OneAtATime(e)'
  <2>1. InHand(e, h)'
    BY <1>3, <1>5 DEF InHand
  <2>2. Head(pending'[e]) = h
    BY <1>5
  <2>3. \A r \in Range(Tail(was)) : r \in Req /\ r # h /\ assigned[r] = e /\ status[r] = "queued"
    BY <1>1, <1>2, RangeOfSeq DEF OneAtATime
  <2> QED
    BY <1>2, <1>5, <2>1, <2>2, <2>3 DEF OneAtATime
<1>7. InLine(h)' /\ Recorded(h)' /\ Terminated(h)'
  <2>1. Recorded(h) /\ Terminated(h)
    BY <1>2 DEF IterativeInv
  <2> QED
    BY <1>1, <1>2, <1>3, <1>5, <2>1 DEF InLine, Recorded, Terminated, Concluded
<1>8. IterativeInv'
  BY <1>1, <1>2, <1>3, <1>4, <1>5, <1>6, <1>7, IterativeFrame
<1>9. Lifecycle!Next
  BY <1>1, <1>2, <1>3, <1>5 DEF Lifecycle!Next, Lifecycle!Move, Lifecycle!Start, Lifecycle!Stay, Lifecycle!Keeps
<1> QED
  BY <1>8, <1>9

(* Tokens of an answer, whatever it says of the request. *)
LEMMA Answered ==
  ASSUME IterativeInv, NEW e \in Engines, NEW ts \in Seq(Token), OneProgress(e, ts) \/ OneCompleted(e, ts)
  PROVE  IterativeInv' /\ Lifecycle!Next
<1>0. PICK h : h = Head(pending[e])
  OBVIOUS
<1>1. /\ worker[e] \in {"asking", "decoding"} /\ TypeOK /\ OneAtATime(e)
      /\ tokens' = [tokens EXCEPT ![h] = @ \o ts]
      /\ \E p \in {"decoding", "removing"} : worker' = [worker EXCEPT ![e] = p]
      /\ UNCHANGED <<unused, pending, request_queues, status, marks, client, active_requests, cleanups>>
  BY <1>0 DEF OneProgress, OneCompleted, IterativeInv
<1>2. h \in Req /\ InHand(e, h) /\ pending[e] = <<h>> /\ assigned[h] = e /\ status[h] = "processing"
  BY <1>0, <1>1, HandIs DEF InHand, OneAtATime
<1>3. tokens[h] \in Seq(Token) /\ tokens'[h] = tokens[h] \o ts /\ tokens[h] \o ts \in Seq(Token)
  BY <1>1, <1>2 DEF TypeOK
<1>4. TypeOK'
  <2>1. tokens' \in [Req -> Seq(Token)]
    BY <1>1, <1>2, <1>3 DEF TypeOK
  <2>2. worker' \in [Engines -> WorkerPos]
    BY <1>1 DEF TypeOK, WorkerPos
  <2> QED
    BY <1>1, <2>1, <2>2 DEF TypeOK, unused, routing, loopVars
<1>5. /\ assigned' = assigned /\ worker'[e] \in {"decoding", "removing"}
      /\ \A f \in Engines \ {e} : worker'[f] = worker[f]
  BY <1>1 DEF TypeOK, unused, routing
<1>6. OneAtATime(e)'
  <2>1. InHand(e, h)'
    BY <1>1, <1>2, <1>5 DEF InHand
  <2>2. Head(pending[e]) = h
    BY <1>0
  <2> QED
    BY <1>1, <1>2, <1>5, <2>1, <2>2 DEF OneAtATime
<1>7. InLine(h)' /\ Recorded(h)' /\ Terminated(h)'
  BY <1>1, <1>2, <1>5 DEF IterativeInv, InLine, Recorded, Terminated
<1>8. IterativeInv'
  BY <1>1, <1>2, <1>4, <1>5, <1>6, <1>7, IterativeFrame
<1>9. Grown(h)
  BY <1>3 DEF Grown
<1>10. ASSUME NEW r \in Req PROVE Lifecycle!Move(r)
  <2>1. CASE r = h
    BY <1>1, <1>2, <1>3, <1>9, <2>1, GrownIsPrefix DEF Lifecycle!Move, Lifecycle!Emit
  <2>2. CASE r # h
    BY <1>1, <2>2 DEF TypeOK, Lifecycle!Move, Lifecycle!Stay, Lifecycle!Keeps
  <2> QED
    BY <2>1, <2>2
<1> QED
  BY <1>8, <1>10 DEF Lifecycle!Next

LEMMA Failed ==
  ASSUME IterativeInv, NEW e \in Engines, OneError(e)
  PROVE  IterativeInv' /\ Lifecycle!Next
<1>0. PICK h : h = Head(pending[e])
  OBVIOUS
<1>1. /\ worker[e] \in {"asking", "decoding"} /\ TypeOK /\ OneAtATime(e)
      /\ status' = [status EXCEPT ![h] = "error"]
      /\ marks' = [marks EXCEPT ![h] = Append(@, "ERROR")]
      /\ worker' = [worker EXCEPT ![e] = "removing"]
      /\ UNCHANGED <<unused, pending, request_queues, tokens, active_requests, cleanups, client>>
  BY <1>0 DEF OneError, IterativeInv
<1>2. h \in Req /\ InHand(e, h) /\ pending[e] = <<h>> /\ assigned[h] = e /\ status[h] = "processing"
  BY <1>0, <1>1, HandIs DEF InHand, OneAtATime
<1>3. marks[h] = <<>> /\ marks'[h] = <<"ERROR">>
  <2>1. marks[h] = <<>>
    BY <1>2 DEF IterativeInv, Terminated
  <2>2. Append(<<>>, "ERROR") = <<"ERROR">>
    OBVIOUS
  <2> QED
    BY <1>1, <1>2, <2>1, <2>2 DEF TypeOK
<1>4. TypeOK'
  <2>1. Append(marks[h], "ERROR") \in Seq({"ERROR", "END"})
    BY <1>1, <1>2 DEF TypeOK
  <2> QED
    BY <1>1, <1>2, <2>1 DEF TypeOK, unused, routing, loopVars, WorkerPos, Status
<1>5. /\ assigned' = assigned /\ worker'[e] = "removing" /\ status'[h] = "error"
      /\ \A f \in Engines \ {e} : worker'[f] = worker[f]
      /\ \A r \in Req \ {h} : UNCHANGED <<status[r], marks[r]>>
  BY <1>1, <1>2 DEF TypeOK, unused, routing
<1>6. OneAtATime(e)'
  <2>1. InHand(e, h)'
    BY <1>1, <1>2, <1>3, <1>5 DEF InHand
  <2>2. \A r \in Range(request_queues[e]) : r \in Req /\ r # h
    BY <1>1, <1>2, RangeOfSeq DEF OneAtATime, TypeOK
  <2> QED
    BY <1>1, <1>2, <1>5, <2>1, <2>2 DEF OneAtATime
<1>7. InLine(h)' /\ Recorded(h)' /\ Terminated(h)'
  BY <1>1, <1>2, <1>3, <1>5 DEF IterativeInv, InLine, Recorded, Terminated, Concluded
<1>8. IterativeInv'
  BY <1>1, <1>2, <1>4, <1>5, <1>6, <1>7, IterativeFrame
<1>9. ASSUME NEW r \in Req PROVE Lifecycle!Move(r)
  <2>1. CASE r = h
    <3>1. tokens[h] \in Seq(Token) /\ tokens'[h] = tokens[h] \o <<>> /\ <<>> \in Seq(Token)
      BY <1>1, <1>2, ConcatEmptySeq DEF TypeOK
    <3>2. Lifecycle!Grows(h)
      BY <1>2, <3>1, GrownIsPrefix DEF Grown
    <3> QED
      BY <1>2, <1>5, <2>1, <3>2 DEF Lifecycle!Move, Lifecycle!Conclude, Lifecycle!Concluded
  <2>2. CASE r # h
    BY <1>1, <1>5, <2>2 DEF Lifecycle!Move, Lifecycle!Stay, Lifecycle!Keeps
  <2> QED
    BY <2>1, <2>2
<1> QED
  BY <1>8, <1>9 DEF Lifecycle!Next

LEMMA Removed ==
  ASSUME IterativeInv, NEW e \in Engines, OneRemoved(e)
  PROVE  IterativeInv' /\ Lifecycle!Next
<1>0. PICK h : h = Head(pending[e])
  OBVIOUS
<1>1. /\ worker[e] = "removing" /\ TypeOK /\ OneAtATime(e)
      /\ marks' = [marks EXCEPT ![h] = Append(@, "END")]
      /\ status' = [status EXCEPT ![h] = Outcome(h)]
      /\ cleanups' = cleanups \union {h}
      /\ worker' = [worker EXCEPT ![e] = "waiting"]
      /\ pending' = [pending EXCEPT ![e] = <<>>]
      /\ UNCHANGED <<unused, request_queues, tokens, active_requests, client>>
  BY <1>0 DEF OneRemoved, IterativeInv
<1>2. h \in Req /\ InHand(e, h) /\ pending[e] = <<h>> /\ assigned[h] = e
  BY <1>0, <1>1, HandIs DEF InHand
<1>3. \/ status[h] = "processing" /\ status'[h] = "completed" /\ marks'[h] = <<"END">>
      \/ status[h] = "error" /\ status'[h] = "error" /\ marks'[h] = <<"ERROR", "END">>
  <2>1. \/ status[h] = "processing" /\ marks[h] = <<>>
        \/ status[h] = "error" /\ marks[h] = <<"ERROR">>
    BY <1>1, <1>2 DEF InHand, IterativeInv, Terminated
  <2>2. Append(<<>>, "END") = <<"END">>
    OBVIOUS
  <2>3. Append(<<"ERROR">>, "END") = <<"ERROR", "END">>
    <3>1. /\ <<"ERROR">> \in Seq({"ERROR", "END"}) /\ "END" \in {"ERROR", "END"}
          /\ <<"ERROR", "END">> \in Seq({"ERROR", "END"})
      OBVIOUS
    <3>2. Append(<<"ERROR">>, "END") \in Seq({"ERROR", "END"})
      BY <3>1
    <3>3. Len(Append(<<"ERROR">>, "END")) = 2 /\ Len(<<"ERROR", "END">>) = 2
      OBVIOUS
    <3>4. /\ Append(<<"ERROR">>, "END")[1] = <<"ERROR", "END">>[1]
          /\ Append(<<"ERROR">>, "END")[2] = <<"ERROR", "END">>[2]
      OBVIOUS
    <3>5. \A i \in 1 .. 2 : Append(<<"ERROR">>, "END")[i] = <<"ERROR", "END">>[i]
      <4>1. \A i \in 1 .. 2 : i = 1 \/ i = 2
        OBVIOUS
      <4> QED
        BY <3>4, <4>1
    <3> DEFINE a == Append(<<"ERROR">>, "END")
               b == <<"ERROR", "END">>
    <3>6. /\ a \in Seq({"ERROR", "END"}) /\ b \in Seq({"ERROR", "END"})
          /\ Len(a) = Len(b) /\ \A i \in 1 .. Len(a) : a[i] = b[i]
      BY <3>1, <3>2, <3>3, <3>5
    <3> HIDE DEF a, b
    <3>7. a = b
      BY <3>6, SeqEqual
    <3> QED
      BY <3>7 DEF a, b
  <2> QED
    BY <1>1, <1>2, <2>1, <2>2, <2>3 DEF TypeOK, Outcome
<1>4. TypeOK'
  <2>1. Append(marks[h], "END") \in Seq({"ERROR", "END"}) /\ Outcome(h) \in Status
    BY <1>1, <1>2 DEF TypeOK, Outcome, Status
  <2>2. /\ status' \in [Req -> Status] /\ marks' \in [Req -> Seq({"ERROR", "END"})]
        /\ cleanups' \subseteq Req /\ worker' \in [Engines -> WorkerPos]
    BY <1>1, <1>2, <2>1 DEF TypeOK, WorkerPos
  <2>3. pending' \in [Engines -> Seq(Req)]
    <3>1. <<>> \in Seq(Req)
      OBVIOUS
    <3> QED
      BY <1>1, <3>1 DEF TypeOK
  <2> QED
    BY <1>1, <2>2, <2>3 DEF TypeOK, unused, routing, loopVars
<1>5. /\ assigned' = assigned /\ worker'[e] = "waiting" /\ pending'[e] = <<>>
      /\ \A f \in Engines \ {e} : UNCHANGED <<pending[f], request_queues[f], worker[f]>>
      /\ \A r \in Req \ {h} : UNCHANGED <<status[r], marks[r]>>
  BY <1>1, <1>2 DEF TypeOK, unused, routing
<1>6. OneAtATime(e)'
  <2>1. \A r \in Range(request_queues[e]) : r \in Req /\ r # h
    BY <1>1, <1>3, RangeOfSeq DEF OneAtATime, TypeOK
  <2> QED
    BY <1>1, <1>5, <2>1 DEF OneAtATime
<1>7. InLine(h)' /\ Recorded(h)' /\ Terminated(h)'
  <2>1. InLine(h)'
    BY <1>3 DEF InLine
  <2>2. Recorded(h)'
    BY <1>1, <1>2, <1>3 DEF IterativeInv, Recorded, Concluded
  <2>3. Terminated(h)'
    BY <1>3 DEF Terminated
  <2> QED
    BY <2>1, <2>2, <2>3
<1>8. IterativeInv'
  BY <1>1, <1>2, <1>4, <1>5, <1>6, <1>7, IterativeFrame
<1>9. ASSUME NEW r \in Req PROVE Lifecycle!Move(r)
  <2>1. CASE r = h /\ status[h] = "processing"
    <3>1. tokens[h] \in Seq(Token) /\ tokens'[h] = tokens[h] \o <<>> /\ <<>> \in Seq(Token)
      BY <1>1, <1>2, ConcatEmptySeq DEF TypeOK
    <3>2. Lifecycle!Grows(h)
      BY <1>2, <3>1, GrownIsPrefix DEF Grown
    <3> QED
      BY <1>3, <2>1, <3>2 DEF Lifecycle!Move, Lifecycle!Conclude, Lifecycle!Concluded
  <2>2. CASE r # h \/ status[h] = "error"
    BY <1>1, <1>3, <1>5, <2>2 DEF Lifecycle!Move, Lifecycle!Stay, Lifecycle!Keeps
  <2> QED
    BY <1>3, <2>1, <2>2
<1> QED
  BY <1>8, <1>9 DEF Lifecycle!Next

LEMMA IterativeStep ==
  ASSUME IterativeInv, [IterativeNext]_vars
  PROVE  IterativeInv' /\ [Lifecycle!Next]_(Lifecycle!vars)
<1>1. ASSUME NEW r \in Req, Reader(r) \/ Cleanup(r)
      PROVE  IterativeInv' /\ [Lifecycle!Next]_(Lifecycle!vars)
  <2>1. IterativeInv'
    BY <1>1, IterativeReaders
  <2>2. CASE Submit(r)
    <3>1. /\ status[r] = "new" /\ status' = [status EXCEPT ![r] = "queued"]
          /\ tokens' = tokens /\ status \in [Req -> Status]
      BY <2>2 DEF Submit, IterativeInv, TypeOK
    <3>2. \A q \in Req : Lifecycle!Move(q)
      BY <3>1 DEF Lifecycle!Move, Lifecycle!Accept, Lifecycle!Stay, Lifecycle!Keeps
    <3> QED
      BY <2>1, <3>2 DEF Lifecycle!Next
  <2>3. CASE ReadToEnd(r) \/ Cancel(r) \/ Drop(r) \/ Cleanup(r)
    BY <2>1, <2>3 DEF ReadToEnd, Cancel, Drop, Cleanup, requestVars, Lifecycle!vars
  <2> QED
    BY <1>1, <2>2, <2>3 DEF Reader
<1>2. ASSUME NEW e \in Engines, IterativeWorker(e) PROVE IterativeInv' /\ Lifecycle!Next
  <2>1. Output \union {<<>>} \subseteq Seq(Token)
    <3>1. <<>> \in Seq(Token)
      OBVIOUS
    <3> QED
      BY <3>1, OutputAssumption
  <2> QED
    BY <1>2, <2>1, Taken, Answered, Failed, Removed DEF IterativeWorker
<1>3. CASE UNCHANGED vars
  <2>1. Lifecycle!vars' = Lifecycle!vars
    BY <1>3 DEF vars, requestVars, Lifecycle!vars
  <2>2. IterativeInv'
    BY <1>3 DEF vars, routing, workerVars, loopVars, requestVars, IterativeInv, TypeOK,
       OneAtATime, InHand, InLine, Recorded, Terminated
  <2> QED
    BY <2>1, <2>2
<1> QED
  BY <1>1, <1>2, <1>3 DEF IterativeNext

LEMMA IterativeInvariant == IterativeSpec => []IterativeInv
BY IterativeStart, IterativeStep, PTL DEF IterativeSpec

(* IterativeScheduler: every variable keeps its type, and the worker of an *)
(* engine never takes the positions of the other scheduler's.              *)
THEOREM IterativeTypeCorrect == IterativeSpec => []TypeOK
<1>1. IterativeInv => TypeOK
  BY DEF IterativeInv
<1> QED
  BY <1>1, IterativeInvariant, PTL

(* IterativeScheduler: every stream ends once, with a terminator that      *)
(* agrees with its status, also when an error is followed by the END of    *)
(* _process_request.                                                       *)
THEOREM IterativeStreamsEndOnce == IterativeSpec => []StreamEndsOnce
<1>1. IterativeInv => StreamEndsOnce
  BY DEF IterativeInv, StreamEndsOnce, Terminated
<1> QED
  BY <1>1, IterativeInvariant, PTL

(* IterativeScheduler: a live request waits in the queue of its own engine *)
(* or is in the hands of its worker.                                       *)
THEOREM NoRequestIsLostIteratively == IterativeSpec => []NoRequestLost
<1>1. IterativeInv => NoRequestLost
  <2> SUFFICES ASSUME IterativeInv, NEW r \in Req
               PROVE  LET e == assigned[r]
                          line == pending[e] \o request_queues[e]
                      IN /\ status[r] = "queued" => r \in Range(line)
                         /\ status[r] = "processing" =>
                              \/ r \in decode_queues[e]
                              \/ /\ worker[e] \notin {"idle", "waiting", "stopping"}
                                 /\ pending[e] # <<>> /\ r = Head(pending[e])
                              \/ client[r] = "gone"
    BY DEF NoRequestLost
  <2> DEFINE e == assigned[r]
  <2>1. e \in Engines /\ pending[e] \in Seq(Req) /\ request_queues[e] \in Seq(Req)
    BY DEF IterativeInv, TypeOK
  <2>2. Range(pending[e] \o request_queues[e]) = Range(pending[e]) \union Range(request_queues[e])
    BY <2>1, RangeConcat
  <2>3. InLine(r) /\ OneAtATime(e)
    BY <2>1 DEF IterativeInv
  <2>4. ASSUME status[r] = "processing"
        PROVE  /\ worker[e] \in {"asking", "decoding", "removing"}
               /\ pending[e] # <<>> /\ r = Head(pending[e])
    <3>1. pending[e] = <<r>>
      BY <2>3, <2>4 DEF InLine
    <3>2. pending[e] # <<>> /\ Head(pending[e]) = r
      BY <3>1
    <3> QED
      BY <2>3, <3>2 DEF OneAtATime
  <2> QED
    BY <2>2, <2>3, <2>4 DEF InLine
<1> QED
  BY <1>1, IterativeInvariant, PTL

(* IterativeScheduler: a live request whose client is there is known to    *)
(* the status endpoint.                                                    *)
THEOREM LiveAreTrackedIteratively == IterativeSpec => []LiveIsTracked
<1>1. IterativeInv => LiveIsTracked
  BY DEF IterativeInv, LiveIsTracked, Recorded
<1> QED
  BY <1>1, IterativeInvariant, PTL

(* IterativeScheduler implements the life of a request as well.            *)
THEOREM LifecycleImplementedIteratively == IterativeSpec => LifecycleSpec
<1>1. IterativeInit => Lifecycle!Init
  BY DEF IterativeInit, SchedulerInit, Lifecycle!Init
<1> QED
  BY <1>1, IterativeStart, IterativeStep, PTL DEF IterativeSpec, LifecycleSpec, Lifecycle!Spec
=============================================================================
