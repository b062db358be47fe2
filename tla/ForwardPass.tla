----------------------------- MODULE ForwardPass -----------------------------
(***************************************************************************)
(* One pass of a model over its layers: the forward methods of the models  *)
(* and of their decoder layers.  Llama, Phi, Qwen 2, Gemma 3, GPT-OSS and  *)
(* OPT keep the residual stream in two tensors that the fused norms add    *)
(* up; OPT with do_layer_norm_before off and GPT-J wire it differently,    *)
(* and GPT-OSS has experts in place of the MLP.                            *)
(*                                                                         *)
(* A tensor of the stream is the number of times each term went into it:   *)
(* the embeddings are terms, and so is what each block computed.  A norm   *)
(* is a function of the sum it is given, whatever its backend.             *)
(***************************************************************************)
EXTENDS Naturals, FiniteSets

CONSTANTS Nets,  \* [wiring, layers, learned, final, strict, experts, top]
          InputTokens \* the tokens of the pass, for the experts

(* wiring:  "pre", "post" or "parallel": where a layer has its norms       *)
(* learned: the positions are embedded (OPT)                               *)
(* final:   there is a norm after the last layer                           *)
(* strict:  forward counts the caches it is given                          *)
(* experts: GPT-OSS has so many, and the router picks top of them          *)
NetsAreWired ==
  \A n \in Nets :
    /\ n.wiring \in {"pre", "post", "parallel"} /\ n.layers \in Nat \ {0}
    /\ n.learned \in BOOLEAN /\ n.strict \in BOOLEAN
    /\ n.final \in BOOLEAN /\ (n.wiring = "parallel" => n.final)
    /\ n.wiring = "post" => ~n.final
    /\ n.experts \in Nat /\ n.top \in 0 .. n.experts
    /\ n.experts > 0 => n.wiring = "pre"

VARIABLES net,
          caches,   \* "fit", or "short": a list that is not as long as the batch
          point,    \* the next thing forward does
          layer,
          hidden, residual,
          given,    \* history: the sum each block was given
          routed,   \* the experts of each token in this layer
          active,   \* experts that have yet to compute
          mixed,    \* what the experts of this layer made so far
          final_sum \* what goes to the output projection

forwardVars == <<net, caches, point, layer, hidden, residual, given, routed, active, mixed, final_sum>>

TokenEmbedding == <<"embed", 0>>
PositionEmbedding == <<"position", 0>>
AttnBlock(l) == <<"attn", l>>
MlpBlock(l) == <<"mlp", l>>

Embedded(n) == {TokenEmbedding} \union (IF n.learned THEN {PositionEmbedding} ELSE {})
Blocks(n) == {"attn", "mlp"} \X (1 .. n.layers)
Terms(n) == {TokenEmbedding, PositionEmbedding} \union Blocks(n)

Once(S) == [t \in Terms(net) |-> IF t \in S THEN 1 ELSE 0] \* each term of S once
Plus(a, b) == [t \in Terms(net) |-> a[t] + b[t]]
Give(b, sum) == given' = [given EXCEPT ![b] = sum]
NoneMixed(n) == [t \in InputTokens |-> [e \in 1 .. n.experts |-> 0]]

-----------------------------------------------------------------------------
ForwardInit ==
  /\ net \in Nets
  /\ caches \in {"fit", "short"}
  /\ point = "embed" /\ layer = 1
  /\ hidden = Once({}) /\ residual = Once({}) /\ final_sum = Once({})
  /\ given = [b \in Blocks(net) |-> Once({})]
  /\ routed = [t \in InputTokens |-> {}] /\ active = {} /\ mixed = NoneMixed(net)

ToLayer(l) ==
  /\ layer' = IF l <= net.layers THEN l ELSE layer
  /\ point' = IF l <= net.layers THEN "attn" ELSE "norm"

(* The ValueError of the models that count their caches.                   *)
Refuse ==
  /\ point = "embed" /\ caches = "short" /\ net.strict
  /\ point' = "refused"
  /\ UNCHANGED <<net, caches, layer, hidden, residual, given, routed, active, mixed, final_sum>>

EmbedTokens ==
  /\ point = "embed" /\ ~(caches = "short" /\ net.strict)
  /\ hidden' = Once(Embedded(net)) /\ residual' = Once({})
  /\ point' = "attn"
  /\ UNCHANGED <<net, caches, layer, given, routed, active, mixed, final_sum>>

FusedNormAlone == [normed |-> Plus(hidden, residual), residual |-> residual] \* mutant
FusedNorm == [normed |-> Plus(hidden, residual), residual |-> Plus(hidden, residual)]

AttentionPre ==
  /\ point = "attn" /\ net.wiring = "pre"
  /\ Give(AttnBlock(layer), FusedNorm.normed)
  /\ residual' = FusedNorm.residual
  /\ hidden' = Once({AttnBlock(layer)})
  /\ point' = IF net.experts > 0 THEN "route" ELSE "mlp"
  /\ UNCHANGED <<net, caches, layer, routed, active, mixed, final_sum>>

MlpPre ==
  /\ point = "mlp" /\ net.wiring = "pre"
  /\ Give(MlpBlock(layer), FusedNorm.normed)
  /\ residual' = FusedNorm.residual
  /\ hidden' = Once({MlpBlock(layer)})
  /\ ToLayer(layer + 1)
  /\ UNCHANGED <<net, caches, routed, active, mixed, final_sum>>

(* GptOssMLP: the router picks, then the experts that were picked compute  *)
(* one after the other, each for the tokens that picked it.                *)
Route ==
  /\ point = "route"
  /\ Give(MlpBlock(layer), FusedNorm.normed)
  /\ residual' = FusedNorm.residual
  /\ \E pick \in [InputTokens -> {S \in SUBSET (1 .. net.experts) : Cardinality(S) = net.top}] :
       /\ routed' = pick
       /\ active' = UNION {pick[t] : t \in InputTokens}
  /\ mixed' = NoneMixed(net)
  /\ point' = "experts"
  /\ UNCHANGED <<net, caches, layer, hidden, final_sum>>

ExpertForAll(e) == \* mutant: token_mask left out
  /\ point = "experts" /\ e \in active /\ \A f \in active : e <= f
  /\ mixed' = [t \in InputTokens |-> [mixed[t] EXCEPT ![e] = @ + 1]]
  /\ active' = active \ {e}
  /\ UNCHANGED <<net, caches, point, layer, hidden, residual, given, routed, final_sum>>
Expert_(e) ==
  /\ point = "experts" /\ e \in active /\ \A f \in active : e <= f
  /\ mixed' = [t \in InputTokens |->
                 IF e \in routed[t] THEN [mixed[t] EXCEPT ![e] = @ + 1] ELSE mixed[t]]
  /\ active' = active \ {e}
  /\ UNCHANGED <<net, caches, point, layer, hidden, residual, given, routed, final_sum>>

ExpertsDone ==
  /\ point = "experts" /\ active = {}
  /\ hidden' = Once({MlpBlock(layer)})
  /\ ToLayer(layer + 1)
  /\ UNCHANGED <<net, caches, residual, given, routed, active, mixed, final_sum>>

(* OPT without do_layer_norm_before: what is saved goes around each block  *)
(* before the norm, and the next layer finds no residual.                  *)
AttentionPost ==
  /\ point = "attn" /\ net.wiring = "post"
  /\ LET saved == Plus(hidden, residual)
     IN /\ Give(AttnBlock(layer), saved)
        /\ hidden' = Plus(saved, Once({AttnBlock(layer)}))
  /\ point' = "mlp"
  /\ UNCHANGED <<net, caches, layer, residual, routed, active, mixed, final_sum>>

MlpPost ==
  /\ point = "mlp" /\ net.wiring = "post"
  /\ Give(MlpBlock(layer), hidden)
  /\ hidden' = Plus(hidden, Once({MlpBlock(layer)}))
  /\ residual' = Once({})
  /\ ToLayer(layer + 1)
  /\ UNCHANGED <<net, caches, routed, active, mixed, final_sum>>

(* GPT-J: attention and MLP of the same input.                             *)
BothBlocks ==
  /\ point = "attn" /\ net.wiring = "parallel"
  /\ given' = [given EXCEPT ![AttnBlock(layer)] = FusedNorm.normed,
                            ![MlpBlock(layer)] = FusedNorm.normed]
  /\ residual' = FusedNorm.residual
  /\ hidden' = Plus(Once({AttnBlock(layer)}), Once({MlpBlock(layer)}))
  /\ ToLayer(layer + 1)
  /\ UNCHANGED <<net, caches, routed, active, mixed, final_sum>>

FinalNorm ==
  /\ point = "norm"
  /\ final_sum' = IF net.final THEN Plus(hidden, residual) ELSE hidden
  /\ point' = "done"
  /\ UNCHANGED <<net, caches, layer, hidden, residual, given, routed, active, mixed>>

ForwardNext ==
  \/ Refuse \/ EmbedTokens
  \/ AttentionPre \/ MlpPre \/ Route \/ ExpertsDone
  \/ \E e \in active : Expert_(e)
  \/ AttentionPost \/ MlpPost \/ BothBlocks
  \/ FinalNorm

ForwardSpec == ForwardInit /\ [][ForwardNext]_forwardVars

-----------------------------------------------------------------------------
(* What a block ought to be given: the embeddings and every block before.  *)
LayersBefore(l) == Embedded(net) \union {b \in Blocks(net) : b[2] < l}
Before(b) ==
  LayersBefore(b[2]) \union
    (IF b[1] = "mlp" /\ net.wiring # "parallel" THEN {AttnBlock(b[2])} ELSE {})

(* The blocks that were computed by now. *)
Ran ==
  CASE point \in {"embed", "refused"} -> {}
    [] point = "attn" -> {b \in Blocks(net) : b[2] < layer}
    [] point \in {"mlp", "route"} -> {b \in Blocks(net) : b[2] < layer} \union {AttnBlock(layer)}
    [] point = "experts" -> {b \in Blocks(net) : b[2] <= layer}
    [] point \in {"norm", "done"} -> Blocks(net)

(* OPT with _remove_final_layer_norm has no norm to add the residual up:   *)
(* what the output projection is given is the last MLP alone.              *)
DropsResidual == net.wiring = "pre" /\ ~net.final

(* No block reads a sum that lacks what an earlier block computed or has   *)
(* it twice, the output projection is given all of it, and each token gets *)
(* the answer of each of its experts once and of no other.                 *)
ForwardExact ==
  /\ \A b \in Ran : given[b] = Once(Before(b))
  /\ point = "done" =>
       final_sum = Once(IF DropsResidual THEN {MlpBlock(net.layers)}
                     ELSE Embedded(net) \union Blocks(net))
  /\ point = "experts" /\ active = {} =>
       \A t \in InputTokens, e \in 1 .. net.experts :
         mixed[t][e] = IF e \in routed[t] THEN 1 ELSE 0
=============================================================================
