----------------------------- MODULE MCDecoding -----------------------------
(***************************************************************************)
(* Decoding for TLC, and what an engine does before it decodes and in each *)
(* step: loading a checkpoint, choosing operators and laying their weights *)
(* out, one forward pass.  A behaviour is of one of the four parts, the    *)
(* others rest.                                                            *)
(*                                                                         *)
(* Decoding: prompts of one and two tokens, texts of up to three, two      *)
(* guesses a round.  The engine decodes a batch of two with and without    *)
(* speculation, the Generator rows of different length without it and one  *)
(* row with it.                                                            *)
(***************************************************************************)
EXTENDS Decoding, ModelLoading, ForwardPass, Operators

CONSTANTS s1, s2, word

MCPromptLen == [s \in Seqs |-> IF s = s1 THEN 1 ELSE 2]

C(rows, offline, spec, paged, min, ignore) ==
  [rows |-> rows, offline |-> offline, spec |-> spec, paged |-> paged,
   min |-> min, ignore_eos |-> ignore]

NoRows == C({}, FALSE, FALSE, FALSE, 0, FALSE)
MCConfigs ==
  {C({s1, s2}, FALSE, FALSE, FALSE, min, FALSE) : min \in {0, 1}}
  \union {C({s1, s2}, FALSE, TRUE, FALSE, 1, FALSE)}
  \union {C({s2}, FALSE, TRUE, TRUE, 0, ignore) : ignore \in BOOLEAN}
  \union {C({s1, s2}, TRUE, FALSE, paged, min, FALSE) : paged \in BOOLEAN, min \in {0, 2}}
  \union {C({s1}, TRUE, TRUE, paged, 0, ignore) : paged, ignore \in BOOLEAN}
  \union {NoRows}

ASSUME ConfigsAreLossless == Lossless

-----------------------------------------------------------------------------
(* Loading: each architecture with tensors tied, missing, fused already,   *)
(* quantized or unknown, one layer or two.                                 *)
M(arch, layers, tied, bias, outer, kinds) ==
  [arch |-> arch, layers |-> layers, tied |-> tied, bias |-> bias,
   checkpoint |-> (outer \X {0}) \union (kinds \X (1 .. layers))]
Qkv == {"q", "k", "v"}
ExpertTensors == {"gate_up_blocks", "gate_up_scales", "down_blocks", "down_scales"}
LlamaModel == M("llama", 2, FALSE, FALSE, {"embed"}, Qkv)
MCModels ==
  {LlamaModel, M("llama", 2, FALSE, TRUE, {"embed", "head"}, {"qkv", "qkv_bias", "gate_up", "down"})}
  \union {M("llama", 1, tied, FALSE, {"embed", "head", "buffer"},
            Qkv \union {"norm", "gate", "up", "down"}) : tied \in BOOLEAN}
  \union {M("qwen2", 1, tied, TRUE, {"embed", "head"},
            Qkv \union {"q_bias", "v_bias", "gate", "up"}) : tied \in BOOLEAN}
  \union {M("qwen2", 1, FALSE, TRUE, {"embed", "head"}, {"q", "v", "q_bias", "down"})}
  \union {M("opt", 1, FALSE, TRUE, outer, Qkv \union {"q_bias", "k_bias", "v_bias", "up"}) :
            outer \in {{"embed"}, {"embed", "head"}}}
  \union {M("gptj", 1, FALSE, FALSE, outer, Qkv \union {"up", "down"}) :
            outer \in {{"embed", "head", "stray_bias"}, {"embed", "rotary"}}}
  \union {M("gpt_oss", 2, FALSE, FALSE, {"embed"}, ExpertTensors),
          M("gpt_oss", 1, FALSE, TRUE, {"embed", "head"},
            Qkv \union {"q_bias", "gate_up_bias", "down"} \union ExpertTensors)}

ASSUME CheckpointsAreWellFormed == WellFormed

-----------------------------------------------------------------------------
(* A forward pass: each wiring, three layers, three experts of which two.  *)
N(wiring, layers, learned, final, strict, experts) ==
  [wiring |-> wiring, layers |-> layers, learned |-> learned, final |-> final,
   strict |-> strict, experts |-> experts, top |-> IF experts > 0 THEN 2 ELSE 0]
LlamaNet == N("pre", 3, FALSE, TRUE, TRUE, 0)
MCNets ==
  {LlamaNet, N("pre", 2, FALSE, TRUE, TRUE, 3),
   N("parallel", 3, FALSE, TRUE, FALSE, 0), N("post", 3, TRUE, FALSE, FALSE, 0)}
  \union {N("pre", 2, TRUE, final, FALSE, 0) : final \in BOOLEAN}

MCInputTokens == {1, 2}

ASSUME PassesAreWired == NetsAreWired

-----------------------------------------------------------------------------
(* Operators: every backend and activation, gated or not, weights that fit *)
(* the blocks or do not, five columns in pieces of five, three and two.    *)
B(backend, head, dtype, gated, act, fits, chunks, attention, cache) ==
  [backend |-> backend, head |-> head, dtype |-> dtype, gated |-> gated, act |-> act,
   bias |-> gated, width |-> 5, chunks |-> chunks, fits |-> fits,
   fused |-> chunks = 1, reshape |-> chunks # 2, attention |-> attention, cache |-> cache,
   draft |-> gated, reused |-> FALSE]
BackendNames == {"native", "jit", "tpp", "imbps", "aocldlp"}
PlainBuild == B("native", "native", "float32", TRUE, "silu", {}, 1, "none", "bmc")
MCBuilds ==
  {B(backend, "tpp", "bfloat16", gated, act, fits, chunks, "jit", "paged") :
     backend \in BackendNames, gated \in BOOLEAN,
     act \in {"relu", "silu", "gelu", "gelu_new", "tanh"},
     fits \in {{}, {"down"}, {"up.linear", "gate.linear", "down", "head"}}, chunks \in 1 .. 3}
  \union {B(backend, "aocldlp", "float32", TRUE, "silu", {"head"}, 3, "slab", "bmc") :
            backend \in BackendNames}
  \union {[PlainBuild EXCEPT !.attention = attention, !.cache = cache] :
            attention \in {"jit", "native", "slab", "paged", "none"},
            cache \in {"dynamic", "bmc", "slab_pool", "paged"}}
  \union {[PlainBuild EXCEPT !.reused = TRUE]}

ASSUME OperatorsMakeSense == BuildsMakeSense

-----------------------------------------------------------------------------
VARIABLE part

allVars == <<part, vars, loadVars, forwardVars, opVars>>

MCInit ==
  /\ part \in {"decoding", "loading", "pass", "operators"}
  /\ config \in IF part = "decoding" THEN Configs ELSE {NoRows}
  /\ Init
  /\ model \in IF part = "loading" THEN Models ELSE {LlamaModel}
  /\ LoadInit
  /\ net \in IF part = "pass" THEN Nets ELSE {LlamaNet}
  /\ ForwardInit /\ (part # "pass" => caches = "fit")
  /\ build \in IF part = "operators" THEN Builds ELSE {PlainBuild}
  /\ OpInit

MCNext ==
  \/ part = "decoding" /\ Next /\ UNCHANGED <<part, loadVars, forwardVars, opVars>>
  \/ part = "loading" /\ LoadNext /\ UNCHANGED <<part, vars, forwardVars, opVars>>
  \/ part = "pass" /\ ForwardNext /\ UNCHANGED <<part, vars, loadVars, opVars>>
  \/ part = "operators" /\ OpNext /\ UNCHANGED <<part, vars, loadVars, forwardVars>>

(* Only decoding has to go on; the others are finished by their callers.   *)
MCSpec == MCInit /\ [][MCNext]_allVars /\ WF_vars(Next)
=============================================================================
