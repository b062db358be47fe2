---------------------------- MODULE MCAttention ----------------------------
(***************************************************************************)
(* What a step of the model rests on, for TLC, one part at a time: the     *)
(* cache backends (an engine has one of them, and the draft model of       *)
(* speculative decoding has its own), the cache of the vLLM plug-in, the   *)
(* masks of the contiguous backend, the work items of the kernels, their   *)
(* softmax, and the sampler.                                               *)
(***************************************************************************)
EXTENDS Integers, Sequences, FiniteSets, TLC

CONSTANTS Ctx, NumLayers, BlockSize, Zero, Blocks, Engine, PoolTokens, MaxManagers,
          MaxLen, SegmentColumns, Draft, BrgemmMin, MtdMaxQ, QTile, MaxSplits, Budget,
          Vocab, EosToken

ASSUME SizesAssumption ==
  /\ BlockSize \in Nat \ {0} /\ QTile \in Nat \ {0}
  /\ MtdMaxQ \in Nat /\ MaxSplits \in Nat
ASSUME LayersAssumption == NumLayers \in Nat \ {0}
ASSUME EngineAssumption == Engine \notin Ctx
(* The tiled prefill is for long queries, never for a speculative round. *)
ASSUME MaskAssumption ==
  /\ MaxLen \in Nat /\ SegmentColumns \in Nat \ {0} /\ Draft \in Nat
  /\ BrgemmMin \in Nat /\ Draft + 1 < BrgemmMin

VARIABLES kind, broken, forward, objects,
          max, seq_len, pools, tensor,
          max_total_tokens, managers, manager, context, stuck,
          scheduled, dead,
          setup, cache, pool, buffers, attended,
          job, output, row, sample

paged == <<max, seq_len, tensor>>
slab == <<max_total_tokens, managers, manager, context, stuck>>
masks == <<cache, pool, buffers, attended>>
vllm == <<scheduled, dead>>
kernels == <<job, output, row, sample>>

Entries == {<<1>>, <<2, 1>>}
Symmetry == Permutations(Ctx) \union Permutations(Blocks)

(* Engines: one or two mask buffers; SDPA with and without the JIT; a      *)
(* layer without a window and one with; sinks; the offline generator.      *)
Setup(entries, type, variant, offline) ==
  [entries |-> entries, cache |-> type, jit |-> variant[1], windows |-> variant[2],
   sinks |-> variant[3], offline |-> offline]
Plain == <<TRUE, <<0>>, FALSE>>
Native == <<FALSE, <<0>>, FALSE>>
Window == <<FALSE, <<0, 2>>, FALSE>>
Sinks == <<TRUE, <<0, 2>>, TRUE>>
Variants == {Plain, Native, Window, Sinks}
Setups ==
  {Setup(1, "dynamic", v, FALSE) : v \in Variants} \union
  {Setup(1, "bmc", v, FALSE) : v \in Variants} \union
  {Setup(1, "bmc", Sinks, TRUE), Setup(1, "dynamic", Window, TRUE),
   Setup(2, "dynamic", Sinks, FALSE)}

(* Layers of one geometry and of two, without followers. *)
Layouts == {[target |-> [l \in 1 .. NumLayers |-> l], bytes |-> b] :
              b \in {[l \in 1 .. NumLayers |-> 1], [l \in 1 .. NumLayers |-> l]}}

(* Calls of one sequence and of two, padded to the longer one, new or with *)
(* entries already in the cache.                                           *)
Longest(q) == IF Len(q) = 2 /\ q[2] > q[1] THEN q[2] ELSE q[1]
Job(bmc, q, kv, heads, threads, window, sinks) ==
  [bmc |-> bmc, q_len |-> q, kv_len |-> kv, rows |-> Longest(q),
   num_kv |-> heads[1], n_rep |-> heads[2], threads |-> threads,
   window |-> window, sinks |-> sinks]
Lengths ==
  {<<<<q>>, <<q + n>>>> : q \in 1 .. 5, n \in {0, 1, 3}} \union
  {<<<<q, r>>, <<q + n, r + m>>>> : q \in 1 .. 4, r \in {1, 2, 4}, n \in {0, 3}, m \in {0, 3}}
Jobs ==
  {Job(FALSE, l[1], l[2], heads, threads, window, TRUE) :
     l \in Lengths, heads \in {<<1, 1>>, <<2, 2>>}, threads \in {1, 4, 6},
     window \in {0, 2, 3}} \union
  {Job(TRUE, q, q, heads, 1, 0, FALSE) :
     q \in {<<5>>, <<3, 1>>, <<2, 4>>}, heads \in {<<1, 1>>, <<2, 2>>}}

(* Rows with every order of three scores, at every place in a window, a    *)
(* tile and a block, with sinks among them and above them; Split-K rows of *)
(* three parts, the last one empty for seven entries.                      *)
Row(kernel, scores, q_len, tile, q_pos, window, sink) ==
  [kernel |-> kernel, scores |-> scores, kv_len |-> Len(scores), q_len |-> q_len,
   tile |-> tile, q_pos |-> q_pos, window |-> window, sink |-> sink, splits |-> 3]
Scores(n) == [1 .. n -> 0 .. 2]
Windows == {0, 2, 3}
NoSink == -1
Rows ==
  {Row("decode", s, 1, 0, Len(s) - 1, w, k) :
     s \in Scores(3) \union Scores(4), w \in Windows, k \in {NoSink, 1, 3}} \union
  {Row("mtd", s, 2, 0, p, w, k) :
     s \in Scores(4), p \in 2 .. 3, w \in Windows, k \in {NoSink, 1, 3}} \union
  {Row("prefill", s, 4, r \div 2, 1 + r, w, k) :
     s \in Scores(5), r \in 0 .. 3, w \in Windows, k \in {NoSink, 3}} \union
  {Row("splitk", s, 1, 0, Len(s) - 1, w, NoSink) :
     s \in Scores(5) \union [1 .. 7 -> 0 .. 1], w \in Windows} \union
  {Row("bmc", s, 5, r \div 2, r, 0, NoSink) : s \in Scores(5), r \in 0 .. 4}

(* Every order of three logits, positive and negative, of a token in the   *)
(* prompt, one in the output and one in neither; filters off, mild and so  *)
(* strict that one token is left.                                          *)
Config(sampling, temperature, k, p, m, repetition, frequency, min) ==
  [do_sample |-> sampling, temperature |-> temperature, top_k |-> k, top_p |-> p,
   min_p |-> m, repetition |-> repetition, frequency |-> frequency, min |-> min]
Samples ==
  {[logits |-> l, prompt |-> <<1>>, output |-> o, config |-> c] :
     l \in [Vocab -> {-2, 0, 2}], o \in {<<>>, <<2, 2>>},
     c \in {Config(s, t, k, p, m, r, f, n) :
              s \in BOOLEAN, t \in 0 .. 2, k \in {0, 1, 2}, p \in {0, 2, 4}, m \in {0, 2},
              r \in {1, 2}, f \in {0, 1}, n \in {0, 1}}}

Contiguous == INSTANCE ContiguousCache WITH MaxLens <- {4}
Paged == INSTANCE PagedCache WITH MaxLens <- {3}
Slab == INSTANCE SlabCache WITH MaxLens <- {2, 3}
Plugin == INSTANCE PaceKVCache WITH Setups <- Layouts, MaxLen <- 3
Mask == INSTANCE AttentionMask
Kernels == INSTANCE AttentionKernels
Online == INSTANCE OnlineSoftmax WITH Scale <- 8
Sampling == INSTANCE Sampler

NoObjects == objects = <<>>
NoPaged == max = <<>> /\ seq_len = <<>> /\ tensor = <<>>
NoSlab == /\ max_total_tokens = 0 /\ managers = <<>> /\ manager = 0
          /\ context = <<>> /\ stuck = {}
NoPlugin == scheduled = <<>> /\ dead = FALSE
NoMask == cache = <<>> /\ pool = <<>> /\ buffers = <<>> /\ attended = <<>>
NoItems == job = <<>> /\ output = {}
NoRow == row = <<>>
NoSample == sample = <<>>
NoKernel == NoItems /\ NoRow /\ NoSample
NoStore == NoObjects /\ NoPaged /\ NoSlab
Unused == setup = <<>> /\ pools = <<>>

Init ==
  \/ /\ Contiguous!Init
     /\ NoPaged /\ NoSlab /\ NoPlugin /\ NoMask /\ NoKernel /\ Unused
  \/ /\ Paged!Init
     /\ NoObjects /\ NoSlab /\ NoPlugin /\ NoMask /\ NoKernel /\ setup = <<>>
  \/ /\ Slab!Init
     /\ NoObjects /\ NoPaged /\ NoPlugin /\ NoMask /\ NoKernel /\ Unused
  \/ /\ kind = "vllm" /\ broken = {} /\ Plugin!Init
     /\ NoStore /\ NoMask /\ NoKernel
  \/ /\ kind = "masks" /\ broken = {} /\ Mask!Init
     /\ NoStore /\ NoPlugin /\ NoKernel /\ pools = <<>>
  \/ /\ kind = "kernels" /\ broken = {} /\ Kernels!Init /\ forward = Mask!Idle
     /\ NoStore /\ NoPlugin /\ NoMask /\ NoRow /\ NoSample /\ Unused
  \/ /\ kind = "softmax" /\ broken = {} /\ Online!InitRow /\ forward = Mask!Idle
     /\ NoStore /\ NoPlugin /\ NoMask /\ NoItems /\ NoSample /\ Unused
  \/ /\ kind = "sampler" /\ broken = {} /\ Sampling!InitSample /\ forward = Mask!Idle
     /\ NoStore /\ NoPlugin /\ NoMask /\ NoItems /\ NoRow /\ Unused

ContiguousNext ==
  Contiguous!Next /\ UNCHANGED <<paged, pools, slab, vllm, setup, masks, kernels>>
PagedNext == Paged!Next /\ UNCHANGED <<objects, slab, vllm, setup, masks, kernels>>
SlabNext == Slab!Next /\ UNCHANGED <<objects, paged, pools, vllm, setup, masks, kernels>>
PluginNext == Plugin!Next /\ UNCHANGED <<kind, broken, objects, paged, slab, masks, kernels>>
MaskNext ==
  Mask!Next /\ UNCHANGED <<kind, broken, objects, paged, pools, slab, vllm, kernels>>
KernelsNext ==
  /\ Kernels!Dispatch
  /\ UNCHANGED <<kind, broken, forward, objects, paged, pools, slab, vllm, setup, masks,
                 row, sample>>
SoftmaxNext ==
  /\ Online!NextRow
  /\ UNCHANGED <<kind, broken, forward, objects, paged, pools, slab, vllm, setup, masks,
                 job, output, sample>>
SamplerNext ==
  /\ Sampling!Sample
  /\ UNCHANGED <<kind, broken, forward, objects, paged, pools, slab, vllm, setup, masks,
                 job, output, row>>

Next ==
  \/ kind \in {"dynamic", "bmc"} /\ ContiguousNext
  \/ kind \in {"shared", "own"} /\ PagedNext
  \/ kind \in {"eager", "lazy"} /\ SlabNext
  \/ kind = "vllm" /\ PluginNext
  \/ kind = "masks" /\ MaskNext
  \/ kind = "kernels" /\ KernelsNext
  \/ kind = "softmax" /\ SoftmaxNext
  \/ kind = "sampler" /\ SamplerNext

Spec == Init /\ [][Next]_<<kind, broken, forward, objects, paged, pools, slab, vllm, setup,
                          masks, kernels>>
-----------------------------------------------------------------------------
(* Every part keeps its types.  PagedCache: no block of a pool is lost or  *)
(* given out twice.  SlabCache: the pools know the contexts alive in every *)
(* layer, and no other but those whose removal raised.                     *)
MemoryAccounted ==
  CASE kind \in {"dynamic", "bmc"} -> Contiguous!TypeOK
    [] kind \in {"shared", "own"} -> Paged!TypeOK /\ Paged!BlocksAccounted
    [] kind \in {"eager", "lazy"} -> Slab!TypeOK /\ Slab!SequencesAccounted
    [] kind = "vllm" -> Plugin!TypeOK
    [] kind = "masks" -> Mask!TypeOK
    [] OTHER -> kind \in {"kernels", "softmax", "sampler"}

Kv ==
  CASE kind \in {"dynamic", "bmc"} -> Contiguous!View
    [] kind \in {"shared", "own"} -> Paged!View
    [] kind \in {"eager", "lazy"} -> Slab!View
    [] kind = "vllm" -> Plugin!View
    [] OTHER -> <<>>
Fwd ==
  IF kind \in {"masks", "kernels", "softmax", "sampler"} THEN Contiguous!Idle ELSE forward

Store == INSTANCE KVStore WITH kv <- Kv, forward <- Fwd

(* Whichever backend an engine has, attention finds the entries of each    *)
(* context in order in every layer: through growth, trims, failures        *)
(* between two layers, removals, preemptions, and blocks or managers used  *)
(* again.                                                                  *)
StoreSpec == Store!Spec

(* The masks: outside the three cases named in AttentionMask every query   *)
(* attends to exactly the entries it should.                               *)
AttendsExactlyElsewhere == kind = "masks" => Mask!AttendsExactlyElsewhere

(* The same without the exceptions, as backend.py:237-239 has it.          *)
AttendsExactly == kind = "masks" => Mask!AttendsExactly

(* The kernels: every query row is computed once, from the right entries.  *)
WorkDoneOnce == kind = "kernels" => Kernels!WorkDoneOnce

(* OnlineSoftmax: a row ends with the softmax over what it attends to.     *)
SoftmaxExact == kind = "softmax" => Online!SoftmaxExact

(* Sampler: a token comes out that all parameters allow.                   *)
SampleExact == kind = "sampler" => Sampling!SampleExact
=============================================================================
