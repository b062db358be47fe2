---------------------------- MODULE ModelLoading ----------------------------
(***************************************************************************)
(* How a model gets its weights: load_weights of models/model_utils.py and *)
(* of the model classes.  The tensors of a checkpoint come in the order of *)
(* its files, which may be any; the projections of attention are put       *)
(* together from three tensors (FusedQKVLinear), the experts of GPT-OSS    *)
(* from blocks and scales, Phi's gate and up projection are taken apart,   *)
(* and a tied output projection is the embedding itself.                   *)
(*                                                                         *)
(* A tensor of a checkpoint is <<kind, layer>>, layer 0 for those outside  *)
(* of the layers, and so is a parameter of the model.  The value of a      *)
(* parameter is the sequence of the tensors it was made from.              *)
(***************************************************************************)
EXTENDS Naturals, Sequences

CONSTANT Models \* [arch, layers, tied, bias, checkpoint]

(* Gemma 3 loads like Qwen 2, Phi 3 like Llama.                            *)
(* A checkpoint has projections or what was fused from them, not both.     *)
WellFormed ==
  \A m \in Models :
    /\ m.arch \in {"llama", "qwen2", "opt", "gptj", "gpt_oss"}
    /\ m.tied \in BOOLEAN /\ m.bias \in BOOLEAN /\ (m.arch = "gptj" => ~m.bias)
    /\ m.layers \in Nat /\ m.checkpoint \subseteq STRING \X (0 .. m.layers)
    /\ \A l \in 0 .. m.layers :
         /\ {<<"qkv", l>>, <<"qkv_bias", l>>} \intersect m.checkpoint # {} =>
              ~ {<<"q", l>>, <<"k", l>>, <<"v", l>>} \subseteq m.checkpoint
         /\ <<"gate_up", l>> \in m.checkpoint /\ m.arch = "llama" =>
              <<"gate", l>> \notin m.checkpoint /\ <<"up", l>> \notin m.checkpoint

VARIABLES model,
          unread,    \* tensors the weight iterator has yet to yield
          params,    \* the parameters as they were allocated
          alias,     \* lm_head.weight is the Parameter of the embedding
          qkv_cache, \* projections waiting for the end of the checkpoint
          pending,   \* expert tensors waiting for their counterpart
          loading    \* "reading", "loaded" or "failed"

loadVars == <<model, unread, params, alias, qkv_cache, pending, loading>>

Embed == <<"embed", 0>>
LmHead == <<"head", 0>>

QkvWeights == <<"q", "k", "v">>
QkvBiases == <<"q_bias", "k_bias", "v_bias">>
Projections == {QkvWeights[i] : i \in 1 .. 3} \union {QkvBiases[i] : i \in 1 .. 3}
Quantized == [gate_up |-> <<"gate_up_blocks", "gate_up_scales">>,
              down |-> <<"down_blocks", "down_scales">>]
ExpertParts == UNION {{Quantized[e][1], Quantized[e][2]} : e \in DOMAIN Quantized}

(* "norm" stands for every parameter that is read under its own name. *)
LayerParams(m) ==
  {"norm"}
  \union (IF m.arch = "gptj" THEN {"q", "k", "v"} ELSE {"qkv"})
  \union (IF m.bias THEN {"qkv_bias"} ELSE {})
  \union (CASE m.arch = "gpt_oss" -> {"gate_up", "gate_up_bias", "down", "down_bias"}
            [] m.arch \in {"opt", "gptj"} -> {"up", "down"}
            [] OTHER -> {"gate", "up", "down"})
Params(m) == {Embed, LmHead} \union (LayerParams(m) \X (1 .. m.layers))

Empty == <<>> \* torch.empty: whatever the memory held
Zeros == <<"zeros", 0>>
Half(n, i) == <<n, <<"half", i>>>>

-----------------------------------------------------------------------------
(* What becomes of a tensor                                                *)

(* Buffers of rotary embeddings and masks, the vision tower, biases that   *)
(* the model has not, and an output projection that is tied; GPT-OSS skips *)
(* experts that are not quantized.                                         *)
Skipped(m, n) ==
  \/ n[1] \in {"buffer", "stray_bias"}
  \/ n = LmHead /\ m.tied /\ m.arch \in {"llama", "qwen2"}
  \/ n[1] \in DOMAIN Quantized /\ m.arch = "gpt_oss"
Collected(m, n) == n[1] \in Projections /\ m.arch # "gptj"
Expert(m, n) == n[1] \in ExpertParts /\ m.arch = "gpt_oss"

(* Phi's gate_up_proj. *)
SplitSwapped(n, p) == Half(n, IF p[1] = "gate" THEN 2 ELSE 1) \* mutant
Split(n, p) == Half(n, IF p[1] = "gate" THEN 1 ELSE 2)
IsSplit(m, n) == n[1] = "gate_up" /\ m.arch = "llama"

(* copy_ into the parameter of the name, or into the two it is split into. *)
Copied(n) ==
  [p \in Params(model) |->
     IF IsSplit(model, n) /\ p \in {<<"gate", n[2]>>, <<"up", n[2]>>} THEN Split(n, p)
     ELSE IF p = n THEN <<n>> ELSE params[p]]

(* _maybe_load_expert_weight: dequantized when the second of the two came. *)
PairOf(p) == {<<Quantized[p[1]][1], p[2]>>, <<Quantized[p[1]][2], p[2]>>}
Dequantized(p) == <<<<Quantized[p[1]][1], p[2]>>, <<Quantized[p[1]][2], p[2]>>>>
Ready(p, have) == p[1] \in DOMAIN Quantized /\ PairOf(p) \subseteq have

(* load_from_unfused: a bias the checkpoint has not is zero. *)
Fused(l) == [i \in 1 .. 3 |-> <<QkvWeights[i], l>>]
FusedBias(l, have) ==
  [i \in 1 .. 3 |-> IF <<QkvBiases[i], l>> \in have THEN <<QkvBiases[i], l>> ELSE Zeros]
Complete(l, have) == \A i \in 1 .. 3 : <<QkvWeights[i], l>> \in have

-----------------------------------------------------------------------------
LoadInit ==
  /\ model \in Models
  /\ unread = model.checkpoint
  /\ params = [p \in Params(model) |-> Empty]
  /\ alias = (model.tied /\ model.arch = "qwen2")
  /\ qkv_cache = {} /\ pending = {} /\ loading = "reading"

Unknown(n) == model.arch = "gptj" /\ n \notin Params(model) /\ ~Skipped(model, n)

Skip(n) ==
  /\ Skipped(model, n)
  /\ UNCHANGED <<params, qkv_cache, pending>>

Collect(n) ==
  /\ Collected(model, n)
  /\ qkv_cache' = qkv_cache \union {n}
  /\ UNCHANGED <<params, pending>>

CollectExpertAlone(n) == \* mutant: the first of the two is not kept
  /\ Expert(model, n)
  /\ LET ready == {p \in Params(model) : Ready(p, {n})}
     IN params' = [p \in Params(model) |-> IF p \in ready THEN Dequantized(p) ELSE params[p]]
  /\ UNCHANGED <<pending, qkv_cache>>
CollectExpert(n) ==
  /\ Expert(model, n)
  /\ LET have == pending \union {n}
         ready == {p \in Params(model) : Ready(p, have)}
     IN /\ params' = [p \in Params(model) |->
                        IF p \in ready THEN Dequantized(p) ELSE params[p]]
        /\ pending' = have \ UNION {PairOf(p) : p \in ready}
  /\ UNCHANGED qkv_cache

Copy(n) ==
  /\ ~Skipped(model, n) /\ ~Collected(model, n) /\ ~Expert(model, n) /\ ~Unknown(n)
  /\ params' = Copied(n)
  /\ UNCHANGED <<qkv_cache, pending>>

LoadTensor(n) ==
  /\ loading = "reading" /\ n \in unread
  /\ Skip(n) \/ Collect(n) \/ CollectExpert(n) \/ Copy(n)
  /\ unread' = unread \ {n}
  /\ UNCHANGED <<model, alias, loading>>

(* GPT-J has no name to spare: params_dict[name] raises. *)
LoadFails(n) ==
  /\ loading = "reading" /\ n \in unread /\ Unknown(n)
  /\ loading' = "failed"
  /\ UNCHANGED <<model, unread, params, alias, qkv_cache, pending>>

(* After the last tensor: the projections of each layer are fused, Llama   *)
(* and OPT tie the output projection.                                      *)
Finish ==
  /\ loading = "reading" /\ unread = {}
  /\ params' = [p \in Params(model) |->
       IF p[1] = "qkv" /\ Complete(p[2], qkv_cache) THEN Fused(p[2])
       ELSE IF p[1] = "qkv_bias" /\ Complete(p[2], qkv_cache)
       THEN FusedBias(p[2], qkv_cache) ELSE params[p]]
  /\ alias' = CASE model.arch = "llama" -> model.tied
                [] model.arch = "opt" -> LmHead \notin model.checkpoint
                [] OTHER -> alias
  /\ qkv_cache' = {} /\ loading' = "loaded"
  /\ UNCHANGED <<model, unread, pending>>

LoadNext ==
  \/ \E n \in unread : LoadTensor(n) \/ LoadFails(n)
  \/ Finish

LoadSpec == LoadInit /\ [][LoadNext]_loadVars

-----------------------------------------------------------------------------
Value(p) == IF p = LmHead /\ alias THEN params[Embed] ELSE params[p]

(* What a parameter is made from once so many tensors were read: of a      *)
(* tensor that is missing nothing, and load_weights does not ask for it.   *)
Tied(m) ==
  IF m.arch = "opt" THEN LmHead \notin m.checkpoint
  ELSE m.tied /\ m.arch \in {"llama", "qwen2"}
Made(m, have, p) ==
  CASE p[1] \in {"qkv", "qkv_bias"} /\ p \in have -> <<p>>
    [] p[1] = "qkv" /\ p \notin have ->
         IF Complete(p[2], have) THEN Fused(p[2]) ELSE Empty
    [] p[1] = "qkv_bias" /\ p \notin have ->
         IF Complete(p[2], have) THEN FusedBias(p[2], have) ELSE Empty
    [] m.arch = "gpt_oss" /\ p[1] \in DOMAIN Quantized ->
         IF PairOf(p) \subseteq have THEN Dequantized(p) ELSE Empty
    [] m.arch = "llama" /\ p[1] \in {"gate", "up"} /\ <<"gate_up", p[2]>> \in have ->
         Half(<<"gate_up", p[2]>>, IF p[1] = "gate" THEN 1 ELSE 2)
    [] OTHER -> IF p \in have THEN <<p>> ELSE Empty
Wanted(m, p) ==
  IF p = LmHead /\ Tied(m) THEN Made(m, m.checkpoint, Embed) ELSE Made(m, m.checkpoint, p)

(* In whatever order the tensors come, a parameter is never made from      *)
(* anything but its own tensors, and at the end every parameter whose      *)
(* tensors are there has them: all three projections in their order, each  *)
(* expert its own blocks and scales, a tied projection the embedding.      *)
WeightsLoaded ==
  \A p \in Params(model) :
    /\ Value(p) \in {Empty, Wanted(model, p)}
    /\ loading = "loaded" => Value(p) = Wanted(model, p)
=============================================================================
