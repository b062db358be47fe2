------------------------------ MODULE MCRouter ------------------------------
(***************************************************************************)
(* For TLC, one part of the router process at a time, where something must *)
(* eventually happen: the scheduler, the streams of a request, the start   *)
(* and the end of the server; and its statistics.  The parts not chosen    *)
(* are at rest.                                                            *)
(***************************************************************************)
EXTENDS Integers, Sequences, FiniteSets

CONSTANTS Req, NoReq, tok, Prompts, MaxChunks, Instances, MaxRequests, MaxTime

ASSUME InstancesAssumption == Instances \in Nat

VARIABLES
  part,
  current_engine_index, assigned, request_queues, active_requests,
  cancelled_requests, decode_queues, stop_events, worker, pending, loop,
  scan, results, target, cleanups, status, tokens, marks, client,
  mode, put, taken, generator, task, chunk, turn, response, sent, last,
  active_streams, cancelled,
  at, process, config, load, loaded, partial,
  now, stage, created_at, prefill_finished_at, finished_at, intervals, total,
  history, flushed, straddled

(* Tokens are not recorded: decoding need never end by itself. *)
Scheduler == INSTANCE PrefillFirst
  WITH NumEngines <- 1, Token <- {tok}, Output <- {<<>>}, MaxTokens <- 1
Stream == INSTANCE Streams WITH cancelled_requests <- cancelled
Server == INSTANCE Launcher WITH NumEngines <- Instances
Statistics == INSTANCE Metrics

scheduler ==
  <<current_engine_index, assigned, request_queues, active_requests,
    cancelled_requests, decode_queues, stop_events, worker, pending, loop,
    scan, results, target, cleanups, status, tokens, marks, client>>
stream ==
  <<mode, put, taken, generator, task, chunk, turn, response, sent, last,
    active_streams, cancelled>>
server == <<at, process, config, load, loaded, partial>>
statistics ==
  <<now, stage, created_at, prefill_finished_at, finished_at, intervals, total,
    history, flushed, straddled>>

(* At rest: no action that is fair can be taken. *)
NoStream ==
  /\ mode = "gather" /\ response = "closed" /\ last = "200" /\ turn = {}
  /\ put = [r \in Prompts |-> <<0>>] /\ taken = [r \in Prompts |-> 1]
  /\ generator = [r \in Prompts |-> "over"] /\ task = [r \in Prompts |-> "done"]
  /\ chunk = [r \in Prompts |-> <<0>>] /\ sent = [r \in Prompts |-> <<0>>]
  /\ active_streams = {} /\ cancelled = {}
NoServer ==
  /\ at = "exited" /\ config = 0 /\ partial = {}
  /\ process = [p \in Server!Process |-> "dead"]
  /\ load = [i \in Server!Engines |-> Server!NoLoads]
  /\ loaded = [i \in Server!Engines |-> {}]

(* The lists that any three requests leave behind, in any order. *)
Interval == {i \in (1 .. 4) \X (1 .. 4) : i[1] <= i[2]}
Lists == UNION {[1 .. n -> Interval] : n \in 0 .. 3}
ThreeGone ==
  /\ now = 4 /\ flushed = 0 /\ straddled = {}
  /\ stage = [r \in 1 .. MaxRequests |-> "gone"]
  /\ created_at = [r \in 1 .. MaxRequests |-> 0]
  /\ prefill_finished_at = created_at /\ finished_at = created_at
  /\ \E list \in Lists :
       /\ intervals = [k \in Statistics!Kind |-> list]
       /\ history = [k \in Statistics!Kind |-> {list[i] : i \in DOMAIN list}]
  /\ total = [k \in Statistics!Kind |-> 0]

Init ==
  /\ part \in {"scheduler", "stream", "server", "statistics"}
  /\ Statistics!Init \/ (part = "statistics" /\ ThreeGone)
  /\ Scheduler!Init
  /\ IF part = "stream" THEN Stream!Init ELSE NoStream
  /\ IF part = "server" THEN Server!Init ELSE NoServer

Next ==
  \/ /\ part = "scheduler" /\ Scheduler!Next
     /\ UNCHANGED <<part, stream, server, statistics>>
  \/ /\ part = "stream" /\ Stream!Next
     /\ UNCHANGED <<part, scheduler, server, statistics>>
  \/ /\ part = "server" /\ Server!Next
     /\ UNCHANGED <<part, scheduler, stream, statistics>>
  \/ /\ part = "statistics" /\ Statistics!Next
     /\ UNCHANGED <<part, scheduler, stream, server>>

Spec == /\ Init /\ [][Next]_<<part, scheduler, stream, server, statistics>>
        /\ Scheduler!Fairness /\ Stream!Fairness /\ Server!Fairness
-----------------------------------------------------------------------------
(* PrefillFirst: a request cancelled while it decodes leaves the queue. *)
CancelledIsCleared == Scheduler!CancelledIsCleared

(* Streams: every chunk is delivered once, in order, and none is missing   *)
(* from a response that is complete.                                       *)
Delivered == Stream!Delivered

(* Streams: every response ends and gives its streams back. *)
StreamsEnd == Stream!StreamsEnd

(* Metrics: every busy instant counts, and counts once. *)
ActiveTimeExact == Statistics!ActiveTimeExact

(* Launcher: it gets to its last wait or gives up, and leaves no process   *)
(* behind when it gives up.                                                *)
NothingLeftRunning == Server!NothingLeftRunning

(* Launcher: an engine that said it is configured is, but for one where a  *)
(* load failed half-way.                                                   *)
ConfiguredIsUsable == Server!ConfiguredIsUsable
=============================================================================
