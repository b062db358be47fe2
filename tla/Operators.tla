------------------------------ MODULE Operators ------------------------------
(***************************************************************************)
(* Which kernels a model ends up with: OperatorConfig, the registry of     *)
(* backends, the operators of an MLP (MergedMLP and what it is made of)    *)
(* and of a plain projection, and the weights that each backend changes    *)
(* into its own layout after they were loaded.  A kernel that reads        *)
(* weights in a layout that is not its own computes garbage; nothing       *)
(* stops it from doing so.                                                 *)
(*                                                                         *)
(* What a kernel computes is a record of the columns of the inner layer it *)
(* went over, the activation, and whether it added the bias.               *)
(***************************************************************************)
EXTENDS Naturals, Sequences, FiniteSets

CONSTANT Builds

None == "none" \* also the backend_impl that a fused operator hands down

(* backend, head: what the OperatorConfig has for the MLP and the output   *)
(*                projection                                               *)
(* gated, act, bias, width: the MLP of the model; fits: the weights whose  *)
(*                sizes are multiples of the blocks                        *)
(* fused, reshape, chunks: PACE_FUSED_MLP, PACE_USE_AOCL_DLP_RESHAPE,      *)
(*                IMBPS_BLOCK_SIZE                                         *)
(* attention, cache: what the user asks for; draft: there is a draft model *)
(* reused: the OperatorConfig was given to another model before            *)
Gelus == {"gelu", "gelu_new", "gelu_pytorch_tanh"}
Dtypes == {"float32", "bfloat16"}
Backends == {"native", "jit", "tpp", "imbps", "aocldlp"}
Compatible ==
  [dynamic |-> {"jit", "native"}, bmc |-> {"jit", "native"},
   slab_pool |-> {"slab"}, paged |-> {"paged"}]
DefaultAttention ==
  [dynamic |-> "jit", bmc |-> "jit", slab_pool |-> "slab", paged |-> "paged"]
Weights == {"up.linear", "gate.linear", "down", "head"}

(* "mul" names the operator that multiplies with a gate: no configuration  *)
(* of a model has it as an activation.                                     *)
BuildsMakeSense ==
  \A b \in Builds :
    /\ {b.backend, b.head} \subseteq Backends /\ b.dtype \in Dtypes
    /\ b.act \in STRING \ {"mul"} /\ b.width \in Nat \ {0} /\ b.chunks \in Nat \ {0}
    /\ {b.gated, b.bias, b.fused, b.reshape, b.draft, b.reused} \subseteq BOOLEAN
    /\ b.fits \subseteq Weights
    /\ b.cache \in DOMAIN Compatible
    /\ b.attention \in {"jit", "native", "slab", "paged", None}

VARIABLES build,
          phase,    \* "finalize", "construct", "preprocess", "execute", "done", "raised"
          attends,  \* the attention backend of the target and of the draft model
          turn,     \* the module that is constructed or preprocessed next
          impl,     \* the backend each module was asked to have
          cls,      \* and the one it has
          weight,   \* the layout of each weight
          pieces,   \* *_weight_chunks: the inner columns of each piece
          rounds    \* what was computed

opVars == <<build, phase, attends, turn, impl, cls, weight, pieces, rounds>>

Modules == <<"mlp", "up", "up.linear", "up.act", "down",
             "gate", "gate.linear", "gate.act", "head">> \* as named_modules yields them
Names == {Modules[i] : i \in 1 .. 9}
Parent(m) ==
  CASE m \in {"up", "down", "gate"} -> "mlp"
    [] m \in {"up.linear", "up.act"} -> "up"
    [] OTHER -> "gate"
Exists(m) ==
  /\ m \in {"gate", "gate.linear", "gate.act"} => build.gated
  /\ m = "up.act" => ~build.gated
LinearOf(m) == CASE m = "up" -> "up.linear" [] m = "gate" -> "gate.linear" [] OTHER -> m

-----------------------------------------------------------------------------
(* The registry                                                            *)

Family(a) == IF a \in Gelus THEN "gelu" ELSE a
FusedLinear(a) ==
  CASE a = "relu" -> "linear_relu" [] a = "gelu" -> "linear_gelu"
    [] a = "silu" -> "linear_silu" [] a = "mul" -> "linear_mul"
FusedLinears == {"linear_relu", "linear_gelu", "linear_silu", "linear_mul"}
FusedTypes == FusedLinears \union {"mlp"}

ActOf(m) == IF m = "up" /\ build.gated THEN "mul" ELSE Family(build.act)
TypeOf(m) ==
  CASE m = "mlp" -> "mlp"
    [] m \in {"up", "gate"} -> FusedLinear(ActOf(m))
    [] m \in {"up.act", "gate.act"} -> Family(build.act)
    [] OTHER -> "linear"

Registered ==
  ({"linear", "relu", "gelu", "silu"} \X {"native"} \X Dtypes)
  \union ({"linear"} \X {"jit"} \X Dtypes)
  \union (({"linear", "mlp"} \union FusedLinears) \X {"tpp"} \X {"bfloat16"})
  \union (({"linear"} \union FusedLinears) \X {"aocldlp"} \X {"bfloat16"})
  \union ({"mlp"} \X {"imbps"} \X Dtypes)
Fallback == <<"native", "jit", "tpp", "imbps", "aocldlp">>

(* A fused operator that is not registered has no backend and falls back   *)
(* to its parts, any other takes the first backend that has it.            *)
Get(type, asked, dtype) ==
  IF <<type, asked, dtype>> \in Registered THEN asked
  ELSE IF type \in FusedTypes THEN None
  ELSE Fallback[CHOOSE i \in 1 .. 5 :
                  /\ <<type, Fallback[i], dtype>> \in Registered
                  /\ \A j \in 1 .. (i - 1) : <<type, Fallback[j], dtype>> \notin Registered]

-----------------------------------------------------------------------------
OpInit ==
  /\ build \in Builds
  /\ phase = "finalize" /\ turn = 1
  /\ attends = [target |-> None, draft |-> None]
  /\ impl = [m \in Names |-> None] /\ cls = [m \in Names |-> None]
  /\ weight = [w \in Weights \union {"embed"} |-> "rows"]
  /\ pieces = [w \in {"up.linear", "gate.linear", "down"} |-> <<1 .. build.width>>]
  /\ rounds = <<>>

Raise == phase' = "raised" /\ UNCHANGED <<turn, attends, impl, cls, weight, pieces, rounds>>

(* OperatorConfig.finalize with the cache, by the Generator; the draft     *)
(* model takes the configuration as it was finalized.                      *)
Finalize ==
  /\ phase = "finalize" /\ UNCHANGED build
  /\ \/ build.reused /\ Raise
     \/ /\ ~build.reused
        /\ LET asked == IF build.attention = None THEN "jit" ELSE build.attention
               attn == IF asked \in Compatible[build.cache] THEN asked
                       ELSE DefaultAttention[build.cache]
           IN attends' = [target |-> attn, draft |-> IF build.draft THEN attn ELSE None]
        /\ phase' = "construct"
        /\ UNCHANGED <<turn, impl, cls, weight, pieces, rounds>>

(* What the constructors ask the registry for.                             *)
AskedAlways(m) == \* mutant: the parts of a fused operator have its backend as well
  CASE m = "mlp" -> build.backend [] m = "head" -> build.head [] OTHER -> impl[Parent(m)]
Asked(m) ==
  CASE m = "mlp" -> build.backend
    [] m = "head" -> build.head
    [] OTHER -> IF cls[Parent(m)] = None THEN impl[Parent(m)] ELSE None

Step(last) == \* to the next module, or from the last one to the next phase
  /\ turn' = IF turn < 9 THEN turn + 1 ELSE 1
  /\ phase' = IF turn < 9 THEN phase ELSE last

Unsupported(m) == m \in {"up", "gate"} /\ ActOf(m) \notin {"relu", "gelu", "silu", "mul"}

Construct ==
  /\ phase = "construct" /\ UNCHANGED build
  /\ LET m == Modules[turn]
     IN \/ Exists(m) /\ Unsupported(m) /\ Raise
        \/ /\ Exists(m) /\ ~Unsupported(m)
           /\ impl' = [impl EXCEPT ![m] = Asked(m)]
           /\ cls' = [cls EXCEPT ![m] = Get(TypeOf(m), Asked(m), build.dtype)]
           /\ Step("preprocess") /\ UNCHANGED <<attends, weight, pieces, rounds>>
        \/ /\ ~Exists(m) /\ Step("preprocess")
           /\ UNCHANGED <<attends, impl, cls, weight, pieces, rounds>>

(* Each backend changes the weights of its operator; the new Parameter is  *)
(* the operator's own, a tied embedding keeps the old one.                 *)
Changed(w, layout) == IF weight[w] = "rows" THEN layout ELSE "garbled"
PackedByTpp(w) == IF w \in build.fits THEN Changed(w, "packed") ELSE weight[w]
Reordered(w) == Changed(w, IF build.reshape THEN "reordered" ELSE "columns")

(* torch.chunk *)
Cut(n, k) == (n + k - 1) \div k
Chunks(n, k) ==
  LET size == Cut(n, k)
  IN [i \in 1 .. Cut(n, size) |-> {c \in 1 .. n : (i - 1) * size < c /\ c <= i * size}]

Preprocess ==
  /\ phase = "preprocess" /\ UNCHANGED build
  /\ LET m == Modules[turn]
         mine == IF m = "mlp" THEN Weights \ {"head"} ELSE {LinearOf(m)}
     IN /\ weight' = [w \in DOMAIN weight |->
                        IF w \notin mine THEN weight[w]
                        ELSE CASE cls[m] = "tpp" -> PackedByTpp(w)
                               [] cls[m] = "aocldlp" -> Reordered(w)
                               [] OTHER -> weight[w]]
        /\ pieces' = IF cls[m] = "imbps"
                     THEN [w \in DOMAIN pieces |-> Chunks(build.width, build.chunks)]
                     ELSE pieces
  /\ Step("execute")
  /\ UNCHANGED <<attends, impl, cls, rounds>>

(* The kernel that multiplies with a weight, and the activation it applies. *)
UsedWeights == {w \in Weights \ {"head"} : w = "gate.linear" => build.gated}
OneKernel ==
  build.fused /\ Family(build.act) \in {"silu", "gelu", "relu"}
  /\ \A w \in UsedWeights : weight[w] = "packed"
Kernel(w) ==
  CASE cls["mlp"] = "imbps" -> "imbps"
    [] cls["mlp"] = "tpp" -> IF OneKernel THEN "tpp_fused" ELSE "tpp"
    [] OTHER -> IF w # "down" /\ cls[Parent(w)] # None THEN cls[Parent(w)] ELSE cls[w]
Activation ==
  IF cls["mlp"] = "tpp" /\ Family(build.act) \notin {"silu", "gelu", "relu"}
  THEN IF build.gated THEN "silu" ELSE None
  ELSE ActOf(IF build.gated THEN "gate" ELSE "up")

(* mlp_mlp_fusion knows silu for a gated MLP and gelu and relu for others. *)
Refused ==
  cls["mlp"] = "imbps" /\ build.act \notin (IF build.gated THEN {"silu"} ELSE {"gelu", "relu"})

(* The bias of the down projection goes into the last piece of full size.  *)
DownBiasOften(i) == build.bias \* mutant
DownBias(i) ==
  build.bias /\
    LET n == Len(pieces["up.linear"])
        fringe == Cardinality(pieces["up.linear"][1]) # Cardinality(pieces["up.linear"][n])
    IN i = (IF fringe THEN n - 1 ELSE n)

Execute ==
  /\ phase = "execute" /\ UNCHANGED <<build, turn, attends, impl, cls, weight, pieces>>
  /\ \/ Refused /\ phase' = "raised" /\ UNCHANGED rounds
     \/ /\ ~Refused
        /\ LET i == Len(rounds) + 1
           IN /\ rounds' = Append(rounds,
                   [kernel |-> [w \in UsedWeights |-> Kernel(w)],
                    cols |-> [w \in UsedWeights |-> pieces[w][i]],
                    act |-> Activation, bias |-> DownBias(i)])
              /\ phase' = IF i = Len(pieces["up.linear"]) THEN "done" ELSE phase

OpNext == Finalize \/ Construct \/ Preprocess \/ Execute
OpSpec == OpInit /\ [][OpNext]_opVars

-----------------------------------------------------------------------------
Reads(kernel) ==
  CASE kernel \in {"native", "jit", "imbps"} -> {"rows"}
    [] kernel = "tpp" -> {"rows", "packed"}
    [] kernel = "tpp_fused" -> {"packed"}
    [] kernel = "aocldlp" -> {IF build.reshape THEN "reordered" ELSE "columns"}

(* Whatever is asked for, every kernel reads the weights in the layout they *)
(* were left in, every inner column is computed in one piece with its own   *)
(* gate and multiplied once, the bias is added once, the activation is the  *)
(* model's up to the kinds of GELU, and a tied embedding stays as it was.   *)
KernelsCompute ==
  /\ \A i \in DOMAIN rounds :
       /\ \A w \in UsedWeights :
            /\ weight[w] \in Reads(rounds[i].kernel[w])
            /\ rounds[i].cols[w] = rounds[i].cols["down"]
       /\ rounds[i].act = Family(build.act)
  /\ phase = "done" =>
       /\ \A c \in 1 .. build.width :
            \E i \in DOMAIN rounds :
              /\ c \in rounds[i].cols["down"]
              /\ \A j \in DOMAIN rounds : c \in rounds[j].cols["down"] => j = i
       /\ Cardinality({i \in DOMAIN rounds : rounds[i].bias}) = IF build.bias THEN 1 ELSE 0
       /\ weight["head"] \in Reads(cls["head"])
  /\ weight["embed"] = "rows"

(* Models and caches of one engine belong together, the draft's too, and   *)
(* what the user asked for is kept where the cache allows it.              *)
CacheClass ==
  [dynamic |-> "contiguous", bmc |-> "contiguous", slab_pool |-> "slab", paged |-> "paged"]
AttentionClass(a) == IF a \in {"jit", "native"} THEN "contiguous" ELSE a
BackendFitsCache ==
  phase \notin {"finalize", "raised"} =>
    /\ \A m \in {"target", "draft"} :
         attends[m] # None => AttentionClass(attends[m]) = CacheClass[build.cache]
    /\ attends["target"] # None
    /\ build.attention # None /\ AttentionClass(build.attention) = CacheClass[build.cache] =>
         attends["target"] = build.attention

OperatorsCompute == KernelsCompute /\ BackendFitsCache
=============================================================================
