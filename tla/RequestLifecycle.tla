-------------------------- MODULE RequestLifecycle --------------------------
(***************************************************************************)
(* What the router promises about one completion request, whatever the     *)
(* scheduler behind it: a request is accepted once, is processed once, its *)
(* output only ever grows, and only while it is being processed, and it is *)
(* concluded at most once, as completed or as failed, for good.            *)
(*                                                                         *)
(* phase is RequestStatus (router/utils.py) with "new" for a request that  *)
(* has not been submitted yet; output is the sequence of tokens put into   *)
(* the request's token_queue.  One scheduler step may move several         *)
(* requests at once, so a step is a move of every request, where each may  *)
(* also stay as it is.                                                     *)
(***************************************************************************)
EXTENDS Naturals, Sequences

CONSTANTS Req,    \* the requests of the run
          Token   \* the tokens an engine may produce

VARIABLES phase,  \* phase[r]: where request r stands
          output  \* output[r]: the tokens its client can read

vars == <<phase, output>>

Phase == {"new", "queued", "processing", "completed", "error"}

Concluded == {"completed", "error"}

TypeOK == /\ phase \in [Req -> Phase]
          /\ output \in [Req -> Seq(Token)]

Init == /\ phase = [r \in Req |-> "new"]
        /\ output = [r \in Req |-> <<>>]

(* The tokens already readable are a prefix of the new output. *)
Grows(r) == /\ Len(output[r]) <= Len(output'[r])
            /\ SubSeq(output'[r], 1, Len(output[r])) = output[r]

Keeps(r) == output'[r] = output[r]

Accept(r) == phase[r] = "new" /\ phase'[r] = "queued" /\ Keeps(r)

Start(r) == phase[r] = "queued" /\ phase'[r] = "processing" /\ Keeps(r)

Emit(r) == phase[r] = "processing" /\ phase'[r] = "processing" /\ Grows(r)

Conclude(r) == phase[r] = "processing" /\ phase'[r] \in Concluded /\ Grows(r)

Stay(r) == phase'[r] = phase[r] /\ Keeps(r)

Move(r) == Accept(r) \/ Start(r) \/ Emit(r) \/ Conclude(r) \/ Stay(r)

Next == \A r \in Req : Move(r)

Spec == Init /\ [][Next]_vars
=============================================================================
