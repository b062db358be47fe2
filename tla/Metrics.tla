------------------------------ MODULE Metrics ------------------------------
(***************************************************************************)
(* The server's own statistics (SchedulerMetrics of router/metrics.py):    *)
(* the time during which some request waited for its first token, and the  *)
(* time during which some request was in the server at all.  A request     *)
(* adds its two intervals when it is cleaned up; every 30 seconds, when    *)
(* nobody is queued, the merged length of the intervals is added to the    *)
(* totals and the lists start anew.                                        *)
(*                                                                         *)
(* The life of a request is told by its time stamps; averages and          *)
(* histograms are left out.                                                *)
(***************************************************************************)
EXTENDS Naturals, Sequences, SequencesExt, FiniteSets, TLC

CONSTANTS MaxRequests, \* bound: requests, numbered in the order they arrive
          MaxTime      \* bound: the last instant

VARIABLES
  now,
  stage,     \* where the request is
  created_at, prefill_finished_at, finished_at,  \* 0: not yet
  intervals, \* ttft_intervals and processing_intervals
  total,     \* ttft_active_time and active_time
  history,   \* all intervals ever added
  flushed,   \* when the totals last took intervals in
  straddled  \* the lists that got an interval begun before that

vars == <<now, stage, created_at, prefill_finished_at, finished_at, intervals, total,
          history, flushed, straddled>>

Request == 1 .. MaxRequests
Kind == {"ttft", "processing"}

Init ==
  /\ now = 1 /\ flushed = 0
  /\ stage = [r \in Request |-> "new"]
  /\ created_at = [r \in Request |-> 0]
  /\ prefill_finished_at = [r \in Request |-> 0]
  /\ finished_at = [r \in Request |-> 0]
  /\ intervals = [k \in Kind |-> <<>>] /\ total = [k \in Kind |-> 0]
  /\ history = [k \in Kind |-> {}] /\ straddled = {}

stamps == <<created_at, prefill_finished_at, finished_at>>
sums == <<intervals, total, history, flushed, straddled>>
-----------------------------------------------------------------------------
(* _calculate_active_time: the intervals by their start, one that begins   *)
(* before the last one is over joined with it.                             *)

Later(a, b) == IF b > a THEN b ELSE a

Merge(merged, next) ==
  IF merged # <<>> /\ next[1] <= Last(merged)[2]
  THEN Append(Front(merged), <<Last(merged)[1], Later(Last(merged)[2], next[2])>>)
  ELSE Append(merged, next)

ActiveTime(list) ==
  LET sorted == SortSeq(list, LAMBDA a, b : a[1] < b[1])
  IN FoldLeft(LAMBDA sum, i : sum + i[2] - i[1], 0, FoldLeft(Merge, <<>>, sorted))
-----------------------------------------------------------------------------
Tick == now < MaxTime /\ now' = now + 1 /\ UNCHANGED <<stage, stamps, sums>>

Goes(r, from, to) ==
  stage[r] \in from /\ stage' = [stage EXCEPT ![r] = to] /\ UNCHANGED <<now, sums>>

Submit(r) ==
  /\ \A q \in 1 .. r - 1 : stage[q] # "new"
  /\ Goes(r, {"new"}, "queued")
  /\ created_at' = [created_at EXCEPT ![r] = now]
  /\ UNCHANGED <<prefill_finished_at, finished_at>>

Take(r) == Goes(r, {"queued"}, "prefill") /\ UNCHANGED stamps

(* The engine's answer to the prefill, be it an error. *)
Prefilled(r) ==
  /\ Goes(r, {"prefill"}, "prefilled")
  /\ prefill_finished_at' = [prefill_finished_at EXCEPT ![r] = now]
  /\ UNCHANGED <<created_at, finished_at>>

(* A request that ends with its first token is not cleaned up. *)
CompletedInPrefill(r) ==
  /\ Goes(r, {"prefilled"}, "kept")
  /\ finished_at' = [finished_at EXCEPT ![r] = now]
  /\ UNCHANGED <<created_at, prefill_finished_at>>

(* With tokens, or without: an error, before the answer or after it. *)
Finish(r) ==
  /\ Goes(r, {"prefill"}, "failed")
       \/ Goes(r, {"prefilled"}, "failed") \/ Goes(r, {"prefilled"}, "finished")
  /\ finished_at' = [finished_at EXCEPT ![r] = now]
  /\ UNCHANGED <<created_at, prefill_finished_at>>

(* cleanup_request, a task of its own.  TTFT needs an answer, and more     *)
(* than no time; TPOT needs a token.                                       *)
Cleanup(r) ==
  LET end == [k \in Kind |-> IF k = "ttft" THEN prefill_finished_at[r] ELSE finished_at[r]]
      counts == {k \in Kind : IF k = "ttft" THEN end[k] > created_at[r]
                                            ELSE stage[r] = "finished"}
      interval(k) == <<created_at[r], end[k]>>
  IN /\ stage[r] \in {"failed", "finished"}
     /\ stage' = [stage EXCEPT ![r] = "gone"]
     /\ intervals' = [k \in Kind |-> IF k \in counts THEN Append(intervals[k], interval(k))
                                     ELSE intervals[k]]
     /\ history' = [k \in Kind |-> history[k] \union {interval(x) : x \in counts \intersect {k}}]
     /\ straddled' = straddled \union {k \in counts : created_at[r] < flushed}
     /\ created_at' = [created_at EXCEPT ![r] = 0]
     /\ prefill_finished_at' = [prefill_finished_at EXCEPT ![r] = 0]
     /\ finished_at' = [finished_at EXCEPT ![r] = 0]
     /\ UNCHANGED <<now, total, flushed>>

ClearedTtft == [intervals EXCEPT !["ttft"] = <<>>] \* mutant: one list is kept
Cleared == [k \in Kind |-> <<>>]

(* server_metrics_loop.  Only the requests not yet taken are waited for. *)
Flush ==
  /\ \A r \in Request : stage[r] # "queued"
  /\ total' = [k \in Kind |-> total[k] + ActiveTime(intervals[k])]
  /\ intervals' = Cleared
  /\ flushed' = IF \A k \in Kind : intervals[k] = <<>> THEN flushed ELSE now
  /\ UNCHANGED <<now, stage, stamps, history, straddled>>

Next ==
  \/ Tick \/ Flush
  \/ \E r \in Request : \/ Submit(r) \/ Take(r) \/ Prefilled(r) \/ CompletedInPrefill(r)
                        \/ Finish(r) \/ Cleanup(r)

Spec == Init /\ [][Next]_vars
-----------------------------------------------------------------------------
(* The instants at which some counted request was there, however requests  *)
(* overlap, nest, fail, are cleaned up late and in any order, and wherever *)
(* the totals are computed in between: they are counted once, and only a   *)
(* request that was there when the totals were computed (metrics.py:98     *)
(* waits for the queue, not for it) makes an instant count twice.          *)
ActiveTimeExact ==
  \A k \in Kind :
    LET covered == UNION {i[1] .. i[2] - 1 : i \in history[k]}
        counted == total[k] + ActiveTime(intervals[k])
    IN /\ counted >= Cardinality(covered)
       /\ k \notin straddled => counted = Cardinality(covered)
=============================================================================
