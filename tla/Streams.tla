------------------------------ MODULE Streams ------------------------------
(***************************************************************************)
(* One completion request with several prompts, from the token queues of   *)
(* its sub-requests to the client (router/streaming.py and the handlers of *)
(* router/request_handler.py): the merged stream, the stream of a single   *)
(* prompt, and the answer that is not streamed.                            *)
(*                                                                         *)
(* merge_stream_generators keeps a task per sub-request that advances its  *)
(* stream_generator by one chunk, waits for the first of them, and writes  *)
(* the chunks there are.  It is suspended while it waits for a chunk       *)
(* (asyncio.wait) and while it sends one (at its yield); the client may    *)
(* leave at either, with different consequences.                           *)
(*                                                                         *)
(* The scheduler is whatever puts tokens, and in the end "ERROR", None or  *)
(* both, into the queues.  Detokenizing and the format of a chunk are left *)
(* out.                                                                    *)
(***************************************************************************)
EXTENDS Integers, Sequences, SequencesExt

CONSTANTS Prompts,   \* the sub-requests
          MaxChunks  \* bound: token chunks of a sub-request

VARIABLES
  mode,      \* "merge", "single" or "gather" (not streamed)
  put,       \* put[r]: all that the scheduler has put into the queue of r
  taken,     \* taken[r]: how much of it was taken
  generator, \* generator[r]: "new", "yielded", "ending" or "over"
  task,      \* task[r]: "none", "pending" or "done"
  chunk,     \* chunk[r]: the result of the task; <<>> is None
  turn,      \* "done" of asyncio.wait: the sub-requests left of this round
  response,  \* "new", "waiting", "looping", "sending", "closed" by itself,
             \* "cancelled" or "dropped": the client left while it waited, or
             \* at a yield or before it ran
  sent,      \* sent[r]: what was written to the client
  last,      \* what ended the response: "[DONE]", "200", "500" or ""
  active_streams, cancelled_requests

queues == <<put, taken>>
vars == <<mode, queues, generator, task, chunk, turn, response, sent, last,
          active_streams, cancelled_requests>>

END == 0
ERROR == -1
Token == 1 .. MaxChunks
Queued(r) == Len(put[r]) - taken[r]
Ended(r) == put[r] # <<>> /\ Last(put[r]) \in {END, ERROR}

(* The sub-requests: a stream of one prompt has the first. *)
Group == IF mode = "single" THEN {CHOOSE r \in Prompts : TRUE} ELSE Prompts

(* completions, _handle_streaming: the queues are registered and the       *)
(* requests submitted; the response is still to run.  _handle_non_         *)
(* streaming: a task per sub-request drains its queue.                     *)
Init ==
  /\ mode \in {"merge", "single", "gather"}
  /\ put = [r \in Prompts |-> <<>>] /\ taken = [r \in Prompts |-> 0]
  /\ generator = [r \in Prompts |-> "new"]
  /\ task = [r \in Prompts |-> IF mode = "gather" THEN "pending" ELSE "none"]
  /\ chunk = [r \in Prompts |-> <<>>] /\ turn = {}
  /\ response = IF mode = "gather" THEN "waiting" ELSE "new"
  /\ sent = [r \in Prompts |-> <<>>] /\ last = ""
  /\ active_streams = IF mode = "gather" THEN {} ELSE Group
  /\ cancelled_requests = {}
-----------------------------------------------------------------------------
(* The scheduler                                                           *)

PutInto(r, item) ==
  /\ put' = [put EXCEPT ![r] = Append(@, item)]
  /\ UNCHANGED <<mode, taken, generator, task, chunk, turn, response, sent,
                 last, active_streams, cancelled_requests>>

PutTokens(r) == /\ ~Ended(r) /\ Len(put[r]) < MaxChunks
                /\ PutInto(r, Len(put[r]) + 1)

(* None, "ERROR", or "ERROR" and then None. *)
PutEnd(r) == \/ ~Ended(r) /\ \E item \in {END, ERROR} : PutInto(r, item)
             \/ put[r] # <<>> /\ Last(put[r]) = ERROR /\ PutInto(r, END)
-----------------------------------------------------------------------------
(* stream_generator and the tasks that advance it                          *)

Resumable(r) == Queued(r) > 0 /\ generator[r] \in {"new", "yielded"}
Item(r) == put[r][taken[r] + 1]

TerminalNone == {END} \* mutant: "ERROR" does not end the stream
Terminal == {END, ERROR}

(* The next item is taken and becomes a chunk; the last one ends the loop. *)
Taken(r) ==
  /\ taken' = [taken EXCEPT ![r] = @ + 1]
  /\ generator' = [generator EXCEPT ![r] =
                     IF Item(r) \in Terminal THEN "ending" ELSE "yielded"]

(* The generator ends, by itself or closed by whoever held it: "finally".  *)
(* One that never ran is closed without it.                                *)
Finished(rs) ==
  /\ generator' = [r \in Prompts |-> IF r \in rs THEN "over" ELSE generator[r]]
  /\ active_streams' = active_streams \ rs

(* _anext_or_none *)
Fetch(r) ==
  /\ mode = "merge" /\ task[r] = "pending"
  /\ \/ /\ Resumable(r)
        /\ Taken(r)
        /\ chunk' = [chunk EXCEPT ![r] = <<Item(r)>>]
        /\ UNCHANGED active_streams
     \/ /\ generator[r] = "ending"
        /\ Finished({r})
        /\ chunk' = [chunk EXCEPT ![r] = <<>>]
        /\ UNCHANGED taken
  /\ task' = [task EXCEPT ![r] = "done"]
  /\ UNCHANGED <<mode, put, turn, response, sent, last, cancelled_requests>>
-----------------------------------------------------------------------------
(* merge_stream_generators                                                 *)

Start ==
  /\ response = "new"
  /\ response' = "waiting"
  /\ task' = [r \in Prompts |-> IF mode = "merge" THEN "pending" ELSE task[r]]
  /\ UNCHANGED <<mode, queues, generator, chunk, turn, sent, last,
                 active_streams, cancelled_requests>>

(* asyncio.wait returns. *)
Round ==
  /\ mode = "merge" /\ response = "waiting"
  /\ turn' = {r \in Prompts : task[r] = "done"}
  /\ turn' # {}
  /\ response' = "looping"
  /\ UNCHANGED <<mode, queues, generator, task, chunk, sent, last,
                 active_streams, cancelled_requests>>

(* The next task of "done": nothing more, or a chunk that is yielded. *)
Look(r) ==
  /\ response = "looping" /\ r \in turn
  /\ turn' = turn \ {r}
  /\ sent' = [sent EXCEPT ![r] = @ \o chunk[r]]
  /\ task' = [task EXCEPT ![r] = "none"]
  /\ response' = IF chunk[r] = <<>> THEN "looping" ELSE "sending"
  /\ UNCHANGED <<mode, queues, generator, chunk, last,
                 active_streams, cancelled_requests>>

(* Resumed after the yield: the generator gets its next task. *)
Resume ==
  /\ mode = "merge" /\ response = "sending"
  /\ task' = [r \in Prompts |-> IF task[r] = "none" /\ generator[r] # "over"
                                THEN "pending" ELSE task[r]]
  /\ response' = "looping"
  /\ UNCHANGED <<mode, queues, generator, chunk, turn, sent, last,
                 active_streams, cancelled_requests>>

ExhaustedEarly == \E r \in Prompts : generator[r] = "over" \* mutant: break, not continue
Exhausted == \A r \in Prompts : task[r] = "none"

LoopEnd ==
  /\ response = "looping" /\ turn = {}
  /\ IF Exhausted THEN response' = "closed" /\ last' = "[DONE]"
     ELSE response' = "waiting" /\ UNCHANGED last
  /\ UNCHANGED <<mode, queues, generator, task, chunk, turn, sent,
                 active_streams, cancelled_requests>>
-----------------------------------------------------------------------------
(* A single prompt: "async for chunk in generators[0]"                     *)

SingleChunk(r) ==
  /\ mode = "single" /\ response = "waiting" /\ r \in Group /\ Resumable(r)
  /\ Taken(r)
  /\ sent' = [sent EXCEPT ![r] = Append(@, Item(r))]
  /\ response' = "sending"
  /\ UNCHANGED <<mode, put, task, chunk, turn, last, active_streams,
                 cancelled_requests>>

SingleResume(r) ==
  /\ mode = "single" /\ response = "sending" /\ r \in Group
  /\ IF generator[r] = "ending"
     THEN Finished({r}) /\ response' = "closed" /\ last' = "[DONE]"
     ELSE response' = "waiting" /\ UNCHANGED <<generator, active_streams, last>>
  /\ UNCHANGED <<mode, queues, task, chunk, turn, sent, cancelled_requests>>
-----------------------------------------------------------------------------
(* The client leaves                                                       *)

(* While the response waits for a chunk, CancelledError is raised there:   *)
(* it is passed to the tasks still pending, whose generators note their    *)
(* request as cancelled.  A task that is done cannot be cancelled.         *)
Cancel ==
  /\ mode # "gather" /\ response = "waiting"
  /\ response' = "cancelled"
  /\ LET reached == {r \in Group : /\ mode = "single" \/ task[r] = "pending"
                                   /\ generator[r] # "ending"}
     IN /\ cancelled_requests' = cancelled_requests \union reached
        /\ Finished(reached)
        /\ task' = [r \in Prompts |-> IF r \in reached THEN "none" ELSE task[r]]
  /\ UNCHANGED <<mode, queues, chunk, turn, sent, last>>

(* Before the response runs, or while it sends: it is closed at its yield, *)
(* and the tasks that are pending go on to their next chunk.               *)
Drop ==
  /\ response = "sending" \/ response = "new"
  /\ response' = "dropped"
  /\ UNCHANGED <<mode, queues, generator, task, chunk, turn, sent, last,
                 active_streams, cancelled_requests>>

(* A suspended generator that nothing refers to any more is closed. *)
Collect(r) ==
  /\ response \in {"cancelled", "dropped"} /\ task[r] # "pending"
  /\ generator[r] \in {"yielded", "ending"}
  /\ Finished({r})
  /\ UNCHANGED <<mode, queues, task, chunk, turn, response, sent, last,
                 cancelled_requests>>
-----------------------------------------------------------------------------
(* _handle_non_streaming                                                   *)

(* _collect_token_ids; it raises at "ERROR". *)
Drain(r) ==
  /\ mode = "gather" /\ task[r] = "pending" /\ Resumable(r)
  /\ Taken(r)
  /\ chunk' = [chunk EXCEPT ![r] = Append(@, Item(r))]
  /\ task' = [task EXCEPT ![r] = IF Item(r) \in Terminal THEN "done" ELSE "pending"]
  /\ UNCHANGED <<mode, put, turn, response, sent, last, active_streams,
                 cancelled_requests>>

Failed(r) == task[r] = "done" /\ Last(chunk[r]) = ERROR

(* asyncio.gather: the first exception, or all results.  On an exception   *)
(* the other tasks go on.                                                  *)
Answer ==
  /\ mode = "gather" /\ response = "waiting"
  /\ \/ /\ \E r \in Prompts : Failed(r)
        /\ last' = "500" /\ UNCHANGED sent
     \/ /\ \A r \in Prompts : task[r] = "done" /\ ~Failed(r)
        /\ last' = "200" /\ sent' = chunk
  /\ response' = "closed"
  /\ UNCHANGED <<mode, queues, generator, task, chunk, turn, active_streams,
                 cancelled_requests>>
-----------------------------------------------------------------------------
Merge == Start \/ Round \/ Resume \/ LoopEnd \/ \E r \in Prompts : Look(r)
Single(r) == SingleChunk(r) \/ SingleResume(r)

Next ==
  \/ Merge \/ Cancel \/ Drop \/ Answer
  \/ \E r \in Prompts : \/ PutTokens(r) \/ PutEnd(r) \/ Fetch(r) \/ Single(r)
                        \/ Collect(r) \/ Drain(r)

(* The event loop runs what is ready, the schedulers end every request     *)
(* (EveryStreamEnds), and a client takes what is sent or leaves.           *)
Fairness ==
  /\ WF_vars(Merge) /\ WF_vars(Answer)
  /\ \A r \in Prompts :
       /\ WF_vars(~Ended(r) /\ PutEnd(r)) /\ WF_vars(Fetch(r))
       /\ WF_vars(Single(r)) /\ WF_vars(Collect(r)) /\ WF_vars(Drain(r))

Spec == Init /\ [][Next]_vars /\ Fairness
-----------------------------------------------------------------------------
(* What the queue of r has for the client: up to its first mark. *)
Marks(r) == {i \in DOMAIN put[r] : put[r][i] \in {END, ERROR}}
Due(r) == IF Marks(r) = {} THEN put[r] ELSE SubSeq(put[r], 1, Min(Marks(r)))

(* However the tasks of several prompts end, chunk by chunk and round by   *)
(* round, every chunk is written once and in the order it was produced,    *)
(* and a response that says it is complete has all of every prompt; an     *)
(* answer that is not streamed is 200 only without an error.               *)
Delivered ==
  /\ \A r \in Prompts : IsPrefix(sent[r], Due(r))
  /\ last \in {"[DONE]", "200"} => \A r \in Group : Ended(r) /\ sent[r] = Due(r)
  /\ last = "200" => \A r \in Prompts : ERROR \notin ToSet(sent[r])
  /\ last = "500" => \E r \in Prompts : ERROR \in ToSet(Due(r))

(* A response ends, or its client has left; and its streams leave          *)
(* active_streams whichever way it ended, unless they never ran.           *)
StreamsEnd ==
  /\ response # "new" ~> response \in {"closed", "cancelled", "dropped"}
  /\ \A r \in Prompts :
       r \in active_streams /\ generator[r] # "new" ~> r \notin active_streams
=============================================================================
