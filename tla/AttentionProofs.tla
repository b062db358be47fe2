-------------------------- MODULE AttentionProofs --------------------------
(***************************************************************************)
(* Theorems about MCAttention: each query row is computed once (from       *)
(* AttentionKernelsProofs, for the kernels within the composition), the    *)
(* cache backends implement KVStore, the masks show each query what it     *)
(* should attend to, and the memory of all of them is accounted for.       *)
(*                                                                         *)
(* The caches go backend by backend: contiguous, slab, vLLM plug-in,       *)
(* paged.  Each part has the backend's inductive invariant, what its View  *)
(* is under it, and one lemma per action: the invariant is kept and the    *)
(* View makes a step of KVStore.  The masks have an invariant and a lemma  *)
(* per action as well.  The last part puts them together.                  *)
(***************************************************************************)
EXTENDS MCAttention, FiniteSetTheorems, SequenceTheorems, WellFoundedInduction, TLAPS

K == INSTANCE AttentionKernelsProofs

(* The two instances of AttentionKernels are the same. *)
LEMMA SameKernels ==
  /\ Kernels!Init <=> K!Init
  /\ Kernels!Dispatch <=> K!Dispatch
  /\ Kernels!WorkDoneOnce <=> K!WorkDoneOnce
<1>1. Kernels!Init <=> K!Init
  BY DEF Kernels!Init, K!Init
<1>0. \A S : Kernels!Cardinality(S) = K!Cardinality(S)
  BY DEF Kernels!Cardinality, K!Cardinality
<1>2. /\ \A a, b : Kernels!Least(a, b) = K!Least(a, b)
      /\ \A a, b : Kernels!Most(a, b) = K!Most(a, b)
      /\ \A a, b : Kernels!Ceil(a, b) = K!Ceil(a, b)
      /\ \A j : Kernels!Seqs(j) = K!Seqs(j) /\ Kernels!QHeads(j) = K!QHeads(j)
      /\ \A a, b : Kernels!InBlocks(a, b) = K!InBlocks(a, b)
      /\ \A j, i : Kernels!QOffset(j, i) = K!QOffset(j, i)
      /\ \A i, r : Kernels!Expected(i, r) = K!Expected(i, r)
  BY DEF Kernels!Least, K!Least, Kernels!Most, K!Most, Kernels!Ceil, K!Ceil, Kernels!Seqs,
     K!Seqs, Kernels!QHeads, K!QHeads, Kernels!InBlocks, K!InBlocks, Kernels!QOffset,
     K!QOffset, Kernels!Expected, K!Expected
<1>3. /\ \A n : Kernels!NumBlocks(n) = K!NumBlocks(n)
      /\ \A j : Kernels!GqaItems(j) = K!GqaItems(j)
  <2>1. \A n : Kernels!NumBlocks(n) = K!NumBlocks(n)
    BY <1>2 DEF Kernels!NumBlocks, K!NumBlocks
  <2>2. ASSUME NEW j PROVE Kernels!GqaItems(j) = K!GqaItems(j)
    <3> DEFINE ours == {i \in Kernels!Seqs(j) : j.q_len[i] = 1}
               theirs == {i \in K!Seqs(j) : j.q_len[i] = 1}
    <3>1. ours = theirs
      BY <1>2
    <3>2. /\ Kernels!GqaItems(j) = j.num_kv * Kernels!Cardinality(ours)
          /\ K!GqaItems(j) = j.num_kv * K!Cardinality(theirs)
      BY DEF Kernels!GqaItems, K!GqaItems
    <3> HIDE DEF ours, theirs
    <3> QED
      BY <1>0, <3>1, <3>2
  <2> QED
    BY <2>1, <2>2
<1>4. \A g, t, b : Kernels!Splits(g, t, b) = K!Splits(g, t, b)
  BY <1>2 DEF Kernels!Splits, K!Splits
<1>5. \A g, t, b : Kernels!SplitK(g, t, b) <=> K!SplitK(g, t, b)
  BY <1>4 DEF Kernels!SplitK, K!SplitK
<1>6. \A j, i : Kernels!NumSplits(j, i) = K!NumSplits(j, i)
  BY <1>3, <1>4 DEF Kernels!NumSplits, K!NumSplits
<1>7. \A j, i : Kernels!Type(j, i) = K!Type(j, i)
  BY <1>3, <1>5 DEF Kernels!Type, K!Type
<1>8. \A j, i : Kernels!WorkItems(j, i) = K!WorkItems(j, i)
  BY <1>2, <1>6, <1>7 DEF Kernels!WorkItems, K!WorkItems
<1>9. \A j : Kernels!AllItems(j) = K!AllItems(j)
  BY <1>2, <1>8 DEF Kernels!AllItems, K!AllItems
<1>10. \A kv, w : /\ Kernels!DecodeReads(kv, w) = K!DecodeReads(kv, w)
                  /\ Kernels!GroupReads(kv, w) = K!GroupReads(kv, w)
  BY <1>2, <1>3 DEF Kernels!DecodeReads, K!DecodeReads, Kernels!GroupReads, K!GroupReads
<1>11. \A kv, p, w : Kernels!MtdReads(kv, p, w) = K!MtdReads(kv, p, w)
  BY <1>2, <1>3 DEF Kernels!MtdReads, K!MtdReads
<1>12. \A kv, q, n, p, w : Kernels!TileReads(kv, q, n, p, w) = K!TileReads(kv, q, n, p, w)
  BY <1>2, <1>3 DEF Kernels!TileReads, K!TileReads
<1>13. \A q, n, p : Kernels!BmcTileReads(q, n, p) = K!BmcTileReads(q, n, p)
  BY <1>12 DEF Kernels!BmcTileReads, K!BmcTileReads
<1>14. \A j, x : Kernels!Written(j, x) = K!Written(j, x)
  <2> SUFFICES ASSUME NEW j, NEW x PROVE Kernels!Written(j, x) = K!Written(j, x)
    OBVIOUS
  <2> DEFINE i == x[1]
             aq == Kernels!Least(j.q_len[i], j.kv_len[i])
             reps == x[2] * j.n_rep .. (x[2] + 1) * j.n_rep - 1
             heads == IF Kernels!Type(j, i) \in {"DECODE_HEAD", "MTD"} THEN {x[2]} ELSE reps
             rows == CASE Kernels!Type(j, i) = "MTD" -> {x[3]} \intersect 0 .. aq - 1
                       [] Kernels!Type(j, i) = "PREFILL" ->
                            x[3] * QTile .. Kernels!Least((x[3] + 1) * QTile, aq) - 1
                       [] OTHER -> {0}
             q_pos(r) == r + j.kv_len[i] - aq
             reads(r) ==
               CASE Kernels!Type(j, i) = "MTD" ->
                      Kernels!MtdReads(j.kv_len[i], q_pos(r), j.window)
                 [] j.bmc -> Kernels!BmcTileReads(j.q_len[i], x[3], q_pos(r))
                 [] ~j.bmc /\ Kernels!Type(j, i) = "PREFILL" ->
                      Kernels!TileReads(j.kv_len[i], j.q_len[i], x[3], q_pos(r), j.window)
                 [] Kernels!Type(j, i) = "DECODE_HEAD" ->
                      Kernels!DecodeReads(j.kv_len[i], j.window)
                 [] OTHER -> Kernels!GroupReads(j.kv_len[i], j.window)
             out(r, h) ==
               [row |-> Kernels!QOffset(j, i) + r, head |-> h, item |-> x,
                kv_head |-> IF heads = reps THEN x[2] ELSE h \div j.n_rep,
                read |-> reads(r) \union IF j.sinks THEN {-1} ELSE {}]
             kept == K!Least(j.q_len[i], j.kv_len[i])
             at(r) == r + j.kv_len[i] - kept
             theirs == IF K!Type(j, i) \in {"DECODE_HEAD", "MTD"} THEN {x[2]} ELSE reps
             lines == CASE K!Type(j, i) = "MTD" -> {x[3]} \intersect 0 .. kept - 1
                        [] K!Type(j, i) = "PREFILL" ->
                             x[3] * QTile .. K!Least((x[3] + 1) * QTile, kept) - 1
                        [] OTHER -> {0}
             finds(r) ==
               CASE K!Type(j, i) = "MTD" ->
                      K!MtdReads(j.kv_len[i], at(r), j.window)
                 [] j.bmc -> K!BmcTileReads(j.q_len[i], x[3], at(r))
                 [] ~j.bmc /\ K!Type(j, i) = "PREFILL" ->
                      K!TileReads(j.kv_len[i], j.q_len[i], x[3], at(r), j.window)
                 [] K!Type(j, i) = "DECODE_HEAD" ->
                      K!DecodeReads(j.kv_len[i], j.window)
                 [] OTHER -> K!GroupReads(j.kv_len[i], j.window)
             cell(r, h) ==
               [row |-> K!QOffset(j, i) + r, head |-> h, item |-> x,
                kv_head |-> IF theirs = reps THEN x[2] ELSE h \div j.n_rep,
                read |-> finds(r) \union IF j.sinks THEN {-1} ELSE {}]
  <2>1. Kernels!Written(j, x) =
          IF j.kv_len[i] = 0 THEN {} ELSE {out(r, h) : r \in rows, h \in heads}
    BY DEF Kernels!Written
  <2>2. K!Written(j, x) =
          IF j.kv_len[i] = 0 THEN {} ELSE {cell(r, h) : r \in lines, h \in theirs}
    BY DEF K!Written
  <2>3. aq = kept /\ heads = theirs
    BY <1>2, <1>7
  <2>4. rows = lines
    BY <1>2, <1>7
  <2>5. \A r : reads(r) = finds(r)
    BY <1>2, <1>7, <1>10, <1>11, <1>12, <1>13
  <2> HIDE DEF aq, kept, heads, theirs, rows, lines, reads, finds
  <2>6. \A r, h : out(r, h) = cell(r, h)
    BY <1>2, <2>3, <2>5
  <2> HIDE DEF out, cell
  <2> QED
    BY <2>1, <2>2, <2>3, <2>4, <2>6, SMTT(30)
<1>15. Kernels!Dispatch <=> K!Dispatch
  BY <1>9, <1>14 DEF Kernels!Dispatch, K!Dispatch
<1>16. Kernels!WorkDoneOnce <=> K!WorkDoneOnce
  <2> DEFINE real == {<<i, r>> : i \in Kernels!Seqs(job), r \in 0 .. job.rows - 1}
             pairs == {<<i, r>> : i \in K!Seqs(job), r \in 0 .. job.rows - 1}
             query(i, r) == r - (job.rows - job.q_len[i])
             done(p, h) ==
               {w \in output : w.row = (p[1] - 1) * job.rows + p[2] /\ w.head = h}
             ours(p, h) ==
               IF query(p[1], p[2]) < 0 THEN done(p, h) = {}
               ELSE /\ Kernels!Cardinality(done(p, h)) = 1
                    /\ \A w \in done(p, h) :
                         /\ w.kv_head = h \div job.n_rep
                         /\ w.read = Kernels!Expected(p[1], query(p[1], p[2]))
             theirs(p, h) ==
               IF query(p[1], p[2]) < 0 THEN done(p, h) = {}
               ELSE /\ K!Cardinality(done(p, h)) = 1
                    /\ \A w \in done(p, h) :
                         /\ w.kv_head = h \div job.n_rep
                         /\ w.read = K!Expected(p[1], query(p[1], p[2]))
  <2>1. Kernels!WorkDoneOnce <=>
          (output # {} => \A p \in real, h \in 0 .. Kernels!QHeads(job) - 1 : ours(p, h))
    BY DEF Kernels!WorkDoneOnce
  <2>2. K!WorkDoneOnce <=>
          (output # {} => \A p \in pairs, h \in 0 .. K!QHeads(job) - 1 : theirs(p, h))
    BY DEF K!WorkDoneOnce
  <2>3. real = pairs /\ Kernels!QHeads(job) = K!QHeads(job)
    BY <1>2
  <2> HIDE DEF done, query
  <2>4. \A p, h : ours(p, h) <=> theirs(p, h)
    BY <1>0, <1>2
  <2> HIDE DEF ours, theirs, real, pairs
  <2> QED
    BY <2>1, <2>2, <2>3, <2>4
<1> QED
  BY <1>1, <1>15, <1>16

(* The calls of the instance are calls of the backend. *)
LEMMA JobIsWellFormed ==
  ASSUME NEW bmc \in BOOLEAN, NEW l \in Lengths, NEW heads \in {<<1, 1>>, <<2, 2>>},
         NEW threads \in Nat \ {0}, NEW window \in Nat, NEW sinks \in BOOLEAN,
         bmc => l[2] = l[1] /\ window = 0
  PROVE  K!WellFormed(Job(bmc, l[1], l[2], heads, threads, window, sinks))
<1> DEFINE q == l[1]
           kv == l[2]
           j == Job(bmc, q, kv, heads, threads, window, sinks)
<1>1. /\ j.bmc = bmc /\ j.q_len = q /\ j.kv_len = kv /\ j.rows = Longest(q)
      /\ j.num_kv = heads[1] /\ j.n_rep = heads[2] /\ j.threads = threads
      /\ j.window = window /\ j.sinks = sinks
  BY DEF Job
<1>2. /\ q \in Seq(Nat \ {0}) /\ Longest(q) \in Nat
      /\ \A i \in DOMAIN q : kv[i] \in Nat /\ q[i] <= kv[i] /\ q[i] <= Longest(q)
  <2>1. CASE \E a \in 1 .. 5, n \in {0, 1, 3} : l = <<<<a>>, <<a + n>>>>
    <3>1. PICK a \in 1 .. 5, n \in {0, 1, 3} : l = <<<<a>>, <<a + n>>>>
      BY <2>1
    <3>2. q = <<a>> /\ kv = <<a + n>>
      BY <3>1
    <3> HIDE DEF q, kv
    <3>3. Len(q) = 1 /\ DOMAIN q = {1} /\ q[1] = a /\ kv[1] = a + n
      BY <3>2
    <3>4. q \in Seq(Nat \ {0})
      BY <3>2
    <3> QED
      BY <3>3, <3>4 DEF Longest
  <2>2. CASE \E a \in 1 .. 4, b \in {1, 2, 4}, n \in {0, 3}, m \in {0, 3} :
               l = <<<<a, b>>, <<a + n, b + m>>>>
    <3>1. PICK a \in 1 .. 4, b \in {1, 2, 4}, n \in {0, 3}, m \in {0, 3} :
            l = <<<<a, b>>, <<a + n, b + m>>>>
      BY <2>2
    <3>2. q = <<a, b>> /\ kv = <<a + n, b + m>>
      BY <3>1
    <3> HIDE DEF q, kv
    <3>3. /\ Len(q) = 2 /\ DOMAIN q = {1, 2} /\ q[1] = a /\ q[2] = b
          /\ kv[1] = a + n /\ kv[2] = b + m
      BY <3>2
    <3>4. q \in Seq(Nat \ {0})
      BY <3>2
    <3> QED
      BY <3>3, <3>4 DEF Longest
  <2> QED
    BY <2>1, <2>2 DEF Lengths
<1>3. heads[1] \in Nat \ {0} /\ heads[2] \in Nat \ {0}
  OBVIOUS
<1>4. bmc => kv = q /\ window = 0
  OBVIOUS
<1> HIDE DEF q, kv, j
<1>5. K!WellFormed(j)
  BY <1>1, <1>2, <1>3, <1>4 DEF K!WellFormed, K!Seqs
<1> QED
  BY <1>5 DEF j, q, kv

LEMMA JobsAreWellFormed == \A j \in Jobs : K!WellFormed(j)
<1>1. ASSUME NEW l \in Lengths, NEW heads \in {<<1, 1>>, <<2, 2>>},
             NEW threads \in {1, 4, 6}, NEW window \in {0, 2, 3}
      PROVE  K!WellFormed(Job(FALSE, l[1], l[2], heads, threads, window, TRUE))
  <2>1. threads \in Nat \ {0} /\ window \in Nat
    OBVIOUS
  <2> QED
    BY <2>1, JobIsWellFormed
<1> DEFINE Q == {<<5>>, <<3, 1>>, <<2, 4>>}
<1>2. ASSUME NEW q \in Q, NEW heads \in {<<1, 1>>, <<2, 2>>}
      PROVE  K!WellFormed(Job(TRUE, q, q, heads, 1, 0, FALSE))
  <2> DEFINE l == <<q, q>>
  <2>1. l \in Lengths
    <3>1. CASE q = <<5>>
      <4>1. <<<<5>>, <<5 + 0>>>> \in Lengths
        BY DEF Lengths
      <4>2. 5 + 0 = 5
        OBVIOUS
      <4> QED
        BY <3>1, <4>1, <4>2
    <3>2. CASE q = <<3, 1>>
      <4>1. <<<<3, 1>>, <<3 + 0, 1 + 0>>>> \in Lengths
        BY DEF Lengths
      <4>2. 3 + 0 = 3 /\ 1 + 0 = 1
        OBVIOUS
      <4> QED
        BY <3>2, <4>1, <4>2
    <3>3. CASE q = <<2, 4>>
      <4>1. <<<<2, 4>>, <<2 + 0, 4 + 0>>>> \in Lengths
        BY DEF Lengths
      <4>2. 2 + 0 = 2 /\ 4 + 0 = 4
        OBVIOUS
      <4> QED
        BY <3>3, <4>1, <4>2
    <3> QED
      BY <3>1, <3>2, <3>3
  <2>2. l[1] = q /\ l[2] = q /\ 1 \in Nat \ {0} /\ 0 \in Nat
    OBVIOUS
  <2> HIDE DEF l
  <2>3. K!WellFormed(Job(TRUE, l[1], l[2], heads, 1, 0, FALSE))
    BY <2>1, <2>2, JobIsWellFormed
  <2> QED
    BY <2>2, <2>3
<1> DEFINE f(l, heads, threads, window) ==
             Job(FALSE, l[1], l[2], heads, threads, window, TRUE)
           g(q, heads) == Job(TRUE, q, q, heads, 1, 0, FALSE)
           H == {<<1, 1>>, <<2, 2>>}
           T == {1, 4, 6}
           W == {0, 2, 3}
<1>3. Jobs = {f(l, heads, threads, window) :
                l \in Lengths, heads \in H, threads \in T, window \in W}
               \union {g(q, heads) : q \in Q, heads \in H}
  BY DEF Jobs
<1>4. /\ \A l \in Lengths, heads \in H, threads \in T, window \in W :
           K!WellFormed(f(l, heads, threads, window))
      /\ \A q \in Q, heads \in H : K!WellFormed(g(q, heads))
  BY <1>1, <1>2
<1> HIDE DEF f, g, H, T, W, Q
<1>5. ASSUME NEW j \in Jobs PROVE K!WellFormed(j)
  <2>1. CASE j \in {f(l, heads, threads, window) :
                      l \in Lengths, heads \in H, threads \in T, window \in W}
    BY <1>4, <2>1
  <2>2. CASE j \in {g(q, heads) : q \in Q, heads \in H}
    BY <1>4, <2>2
  <2> QED
    BY <1>3, <2>1, <2>2
<1> QED
  BY <1>5

-----------------------------------------------------------------------------
(* The parts of MCAttention                                                *)

(* A part stays the part it is, and only the kernels' has work items. *)
LEMMA OtherPartsKeep ==
  ASSUME kind # "kernels", Next
  PROVE  kind' = kind
<1>1. CASE kind \in {"dynamic", "bmc"} /\ ContiguousNext
  BY <1>1, Zenon DEF ContiguousNext, Contiguous!Next, Contiguous!Create, Contiguous!Begin,
     Contiguous!Layer, Contiguous!Abandon, Contiguous!RemoveContext, Contiguous!Trim
<1>2. CASE kind \in {"shared", "own"} /\ PagedNext
  BY <1>2, Zenon DEF PagedNext, Paged!Next, Paged!Create, Paged!Begin,
     Paged!Layer, Paged!Abandon, Paged!RemoveContext, Paged!Trim
<1>3. CASE kind \in {"eager", "lazy"} /\ SlabNext
  BY <1>3, Zenon DEF SlabNext, Slab!Next, Slab!Create, Slab!Begin,
     Slab!Layer, Slab!Abandon, Slab!RemoveContext, Slab!Trim
<1>4. CASE \/ PluginNext \/ MaskNext \/ SoftmaxNext \/ SamplerNext
  BY <1>4, Zenon DEF PluginNext, MaskNext, SoftmaxNext, SamplerNext
<1> QED
  BY <1>1, <1>2, <1>3, <1>4, Zenon DEF Next

Inv == kind = "kernels" => K!KernelsInv

LEMMA SizesHold == K!Sizes
BY SizesAssumption DEF K!Sizes

LEMMA InitInv ==
  ASSUME Init PROVE Inv
<1>1. CASE kind = "kernels"
  <2>1. Kernels!Init
    BY <1>1, Zenon DEF Init, Contiguous!Init, Paged!Init, Slab!Init
  <2>2. job \in Jobs /\ output = {}
    BY <2>1 DEF Kernels!Init
  <2> QED
    BY <2>2, JobsAreWellFormed DEF Inv, K!KernelsInv
<1> QED
  BY <1>1 DEF Inv

LEMMA NextInv ==
  ASSUME Inv, [Next]_<<kind, broken, forward, objects, paged, pools, slab, vllm, setup,
                       masks, kernels>>
  PROVE  Inv'
<1>1. CASE kind # "kernels"
  <2>1. kind' = kind
    BY <1>1, OtherPartsKeep
  <2> QED
    BY <1>1, <2>1 DEF Inv
<1>2. CASE kind = "kernels"
  <2>1. K!KernelsInv
    BY <1>2 DEF Inv
  <2>2. K!Dispatch \/ UNCHANGED K!vars
    <3>1. CASE Next
      <4>1. Kernels!Dispatch
        BY <1>2, <3>1, Zenon DEF Next, KernelsNext
      <4> QED
        BY <4>1, SameKernels
    <3>2. CASE UNCHANGED <<kind, broken, forward, objects, paged, pools, slab, vllm, setup,
                           masks, kernels>>
      BY <3>2 DEF kernels, K!vars
    <3> QED
      BY <3>1, <3>2
  <2>3. K!KernelsInv'
    BY <2>1, <2>2, SizesHold, K!KernelsKeep
  <2> QED
    BY <2>3 DEF Inv
<1> QED
  BY <1>1, <1>2

(* In MCAttention, where the kernels are one part beside the caches, the   *)
(* masks, the softmax and the sampler: every query row is computed once    *)
(* from the right entries, for any block, tile and split size.             *)
THEOREM QueriesAreComputedOnce == Spec => []WorkDoneOnce
<1>1. Inv => WorkDoneOnce
  <2>1. K!KernelsInv => K!WorkDoneOnce
    BY SizesHold, K!KernelsDone
  <2> QED
    BY <2>1, SameKernels DEF Inv, WorkDoneOnce
<1>2. Init => Inv
  BY InitInv
<1>3. Inv /\ [Next]_<<kind, broken, forward, objects, paged, pools, slab, vllm, setup,
                      masks, kernels>> => Inv'
  BY NextInv
<1> QED
  BY <1>1, <1>2, <1>3, PTL DEF Spec

-----------------------------------------------------------------------------
(* The store                                                               *)

Values == Nat \union {Zero}
Layers == 1 .. NumLayers

(* What a layer holds more than those the forward has not reached. *)
Ahead(c, l) == IF c \in DOMAIN Fwd.new /\ l < Fwd.at THEN Len(Fwd.new[c]) ELSE 0
InStep(c, base) == \A l \in Layers : Len(Kv[c][l]) = base + Ahead(c, l)

(* A forward is between two layers and about contexts that are alive. *)
Forwarding ==
  /\ Fwd.at \in Layers /\ Fwd = [at |-> Fwd.at, new |-> Fwd.new]
  /\ Fwd.new \in [DOMAIN Fwd.new -> Entries] /\ DOMAIN Fwd.new \subseteq DOMAIN Kv

StoreInv ==
  /\ Kv \in [DOMAIN Kv -> [Layers -> Seq(Values)]]
  /\ Fwd = Store!NoForward \/ Forwarding
  /\ \A c \in DOMAIN Kv : \E base \in Nat : InStep(c, base)

LEMMA EntriesAre == \A e \in Entries : e \in Seq(Values) /\ Len(e) \in Nat
<1>1. <<1>> \in Seq(Values) /\ <<2, 1>> \in Seq(Values)
  <2>1. 1 \in Values /\ 2 \in Values
    BY DEF Values
  <2> HIDE DEF Values
  <2> QED
    BY <2>1
<1> QED
  BY <1>1 DEF Entries

LEMMA NoForwardIs ==
  /\ Store!NoForward.at = 0 /\ DOMAIN Store!NoForward.new = {}
  /\ \A c, l : Fwd = Store!NoForward => Ahead(c, l) = 0
  /\ Contiguous!Idle = Store!NoForward /\ Paged!Idle = Store!NoForward
  /\ Slab!Idle = Store!NoForward /\ Plugin!Idle = Store!NoForward
BY DEF Store!NoForward, Ahead, Contiguous!Idle, Paged!Idle, Slab!Idle, Plugin!Idle

LEMMA StoreKeeps ==
  ASSUME StoreInv, Store!Next
  PROVE  StoreInv'
<1> USE LayersAssumption
<1>1. ASSUME NEW c, Store!Create(c)
      PROVE  StoreInv'
  <2>1. /\ c \notin DOMAIN Kv /\ Fwd' = Fwd
        /\ Kv' = [d \in DOMAIN Kv \union {c} |->
                    IF d = c THEN [l \in Layers |-> <<>>] ELSE Kv[d]]
    BY <1>1 DEF Store!Create, Store!Layers, Layers
  <2>2. Kv' \in [DOMAIN Kv' -> [Layers -> Seq(Values)]]
    BY <2>1 DEF StoreInv
  <2>3. Fwd' = Store!NoForward \/ Forwarding'
    BY <2>1 DEF StoreInv, Forwarding
  <2>4. ASSUME NEW d \in DOMAIN Kv' PROVE \E base \in Nat : InStep(d, base)'
    <3>1. CASE d = c
      <4>1. \A l \in Layers : Kv'[d][l] = <<>> /\ Ahead(d, l)' = 0
        BY <2>1, <3>1, NoForwardIs DEF StoreInv, Forwarding, Ahead
      <4>2. InStep(d, 0)'
        BY <4>1 DEF InStep
      <4> QED
        BY <4>2
    <3>2. CASE d # c
      <4>1. d \in DOMAIN Kv /\ Kv'[d] = Kv[d]
        BY <2>1, <3>2
      <4>2. PICK base \in Nat : InStep(d, base)
        BY <4>1 DEF StoreInv
      <4>3. InStep(d, base)'
        BY <2>1, <4>1, <4>2 DEF InStep, Ahead
      <4> QED
        BY <4>3
    <3> QED
      BY <3>1, <3>2
  <2> QED
    BY <2>2, <2>3, <2>4 DEF StoreInv
<1>2. ASSUME Store!Begin
      PROVE  StoreInv'
  <2>1. PICK batch \in SUBSET DOMAIN Kv : \E new \in [batch -> Entries] :
          Fwd' = [at |-> 1, new |-> new]
    BY <1>2 DEF Store!Begin
  <2>2. PICK new \in [batch -> Entries] : Fwd' = [at |-> 1, new |-> new]
    BY <2>1
  <2>3. Kv' = Kv /\ Fwd = Store!NoForward
    BY <1>2 DEF Store!Begin
  <2>4. Forwarding'
    BY <2>1, <2>2, <2>3 DEF Forwarding, Layers
  <2>5. ASSUME NEW d \in DOMAIN Kv' PROVE \E base \in Nat : InStep(d, base)'
    <3>1. PICK base \in Nat : InStep(d, base)
      BY <2>3 DEF StoreInv
    <3>2. \A l \in Layers : Ahead(d, l)' = 0 /\ Ahead(d, l) = 0
      BY <2>2, <2>3, NoForwardIs DEF Ahead, Layers
    <3>3. InStep(d, base)'
      BY <2>3, <3>1, <3>2 DEF InStep
    <3> QED
      BY <3>3
  <2> QED
    BY <2>3, <2>4, <2>5 DEF StoreInv
<1>3. ASSUME Store!Layer
      PROVE  StoreInv'
  <2> DEFINE n == Fwd.at
             new == Fwd.new
  <2>1. /\ n \in Layers
        /\ Kv' = [c \in DOMAIN Kv |->
             IF c \in DOMAIN new THEN [Kv[c] EXCEPT ![n] = @ \o new[c]] ELSE Kv[c]]
        /\ Fwd' = IF n = NumLayers THEN Store!NoForward ELSE [Fwd EXCEPT !.at = @ + 1]
    BY <1>3 DEF Store!Layer, Store!Layers, Layers
  <2>2. Forwarding
    BY <2>1, NoForwardIs DEF StoreInv, Layers
  <2>3. \A c \in DOMAIN new : new[c] \in Seq(Values) /\ Len(new[c]) \in Nat
    BY <2>2, EntriesAre DEF Forwarding
  <2>4. \A c \in DOMAIN Kv : Kv[c] \in [Layers -> Seq(Values)]
    BY DEF StoreInv
  <2>5. \/ Fwd' = Store!NoForward /\ n = NumLayers
        \/ Fwd' = [at |-> n + 1, new |-> new] /\ n + 1 \in Layers /\ n # NumLayers
    BY <2>1, <2>2 DEF Forwarding, Layers
  <2> HIDE DEF n, new
  <2>6. Kv' \in [DOMAIN Kv' -> [Layers -> Seq(Values)]]
    <3>1. ASSUME NEW c \in DOMAIN Kv PROVE Kv'[c] \in [Layers -> Seq(Values)]
      <4>1. CASE c \in DOMAIN new
        <5>1. Kv'[c] = [Kv[c] EXCEPT ![n] = Kv[c][n] \o new[c]]
          BY <2>1, <4>1
        <5>2. Kv[c][n] \o new[c] \in Seq(Values)
          BY <2>1, <2>3, <2>4, <4>1
        <5> QED
          BY <2>4, <5>1, <5>2
      <4>2. CASE c \notin DOMAIN new
        BY <2>1, <2>4, <4>2
      <4> QED
        BY <4>1, <4>2
    <3> QED
      BY <2>1, <3>1
  <2>7. Fwd' = Store!NoForward \/ Forwarding'
    <3>1. CASE Fwd' = [at |-> n + 1, new |-> new] /\ n + 1 \in Layers
      BY <2>1, <2>2, <3>1 DEF Forwarding, new
    <3> QED
      BY <2>5, <3>1
  <2>8. ASSUME NEW d \in DOMAIN Kv' PROVE \E base \in Nat : InStep(d, base)'
    <3>1. d \in DOMAIN Kv
      BY <2>1
    <3>2. PICK base \in Nat : InStep(d, base)
      BY <3>1 DEF StoreInv
    <3>3. CASE d \notin DOMAIN new
      <4>1. \A l \in Layers : Ahead(d, l)' = 0 /\ Ahead(d, l) = 0
        BY <2>5, <3>3, NoForwardIs DEF Ahead, new
      <4>2. Kv'[d] = Kv[d]
        BY <2>1, <3>1, <3>3
      <4>3. InStep(d, base)'
        BY <3>2, <4>1, <4>2 DEF InStep
      <4> QED
        BY <4>3
    <3>4. CASE d \in DOMAIN new
      <4> DEFINE k == Len(new[d])
      <4>1. k \in Nat
        BY <2>3, <3>4
      <4>2. \A l \in Layers : Len(Kv[d][l]) = base + IF l < n THEN k ELSE 0
        BY <3>2, <3>4 DEF InStep, Ahead, n, new
      <4>3. ASSUME NEW l \in Layers
            PROVE  Len(Kv'[d][l]) = base + IF l < n + 1 THEN k ELSE 0
        <5>1. Kv'[d] = [Kv[d] EXCEPT ![n] = Kv[d][n] \o new[d]]
          BY <2>1, <3>1, <3>4
        <5>2. CASE l = n
          <6>1. Kv'[d][l] = Kv[d][n] \o new[d]
            BY <2>1, <2>4, <3>1, <5>1, <5>2
          <6>2. Len(Kv'[d][l]) = Len(Kv[d][n]) + k
            <7>1. Kv[d][n] \in Seq(Values) /\ new[d] \in Seq(Values)
              BY <2>1, <2>3, <2>4, <3>1, <3>4
            <7> QED
              BY <6>1, <7>1 DEF k
          <6> QED
            <7>1. Len(Kv[d][n]) = base /\ n \in Nat
              BY <2>1, <4>2 DEF Layers
            <7> QED
              BY <4>1, <5>2, <6>2, <7>1
        <5>3. CASE l # n
          <6>1. Kv'[d][l] = Kv[d][l]
            BY <2>1, <2>4, <3>1, <5>1, <5>3
          <6> QED
            BY <2>1, <4>1, <4>2, <5>3, <6>1 DEF Layers
        <5> QED
          BY <5>2, <5>3
      <4> HIDE DEF k
      <4>4. CASE Fwd' = Store!NoForward /\ n = NumLayers
        <5>1. \A l \in Layers : Ahead(d, l)' = 0 /\ l < n + 1
          BY <4>4, NoForwardIs DEF Ahead, Layers
        <5>2. \A l \in Layers : Len(Kv'[d][l]) = base + k + Ahead(d, l)'
          BY <4>1, <4>3, <5>1
        <5>3. PICK b \in Nat : b = base + k
          BY <4>1
        <5>4. InStep(d, b)'
          BY <5>2, <5>3 DEF InStep
        <5> QED
          BY <5>4
      <4>5. CASE Fwd' = [at |-> n + 1, new |-> new]
        <5>1. InStep(d, base)'
          BY <3>4, <4>3, <4>5 DEF InStep, Ahead, k
        <5> QED
          BY <5>1
      <4> QED
        BY <2>5, <4>4, <4>5
    <3> QED
      BY <3>3, <3>4
  <2> QED
    BY <2>6, <2>7, <2>8 DEF StoreInv
<1>4. ASSUME NEW s \in SUBSET DOMAIN Kv, Kv' = [c \in s |-> Kv[c]],
             Fwd' = Store!NoForward, \A c \in s, l \in Layers : Ahead(c, l) = 0
      PROVE  StoreInv'
  <2>1. Kv' \in [DOMAIN Kv' -> [Layers -> Seq(Values)]]
    BY <1>4 DEF StoreInv
  <2>2. ASSUME NEW d \in DOMAIN Kv' PROVE \E base \in Nat : InStep(d, base)'
    <3>1. PICK base \in Nat : InStep(d, base)
      BY <1>4 DEF StoreInv
    <3>2. \A l \in Layers : Ahead(d, l)' = 0 /\ Ahead(d, l) = 0
      BY <1>4, NoForwardIs DEF Ahead
    <3>3. InStep(d, base)'
      BY <1>4, <3>1, <3>2 DEF InStep
    <3> QED
      BY <3>3
  <2> QED
    BY <1>4, <2>1, <2>2 DEF StoreInv
<1>5. ASSUME Store!Abandon
      PROVE  StoreInv'
  <2>1. /\ Kv' = [c \in DOMAIN Kv \ DOMAIN Fwd.new |-> Kv[c]]
        /\ Fwd' = Store!NoForward
    BY <1>5 DEF Store!Abandon, Store!Restrict
  <2>2. \A c \in DOMAIN Kv \ DOMAIN Fwd.new, l \in Layers : Ahead(c, l) = 0
    BY DEF Ahead
  <2> QED
    BY <1>4, <2>1, <2>2
<1>6. ASSUME NEW c, Store!Remove(c)
      PROVE  StoreInv'
  <2>1. /\ Kv' = [d \in DOMAIN Kv \ {c} |-> Kv[d]]
        /\ Fwd' = Store!NoForward /\ Fwd = Store!NoForward
    BY <1>6 DEF Store!Remove, Store!Restrict
  <2> QED
    BY <1>4, <2>1, NoForwardIs
<1>7. ASSUME NEW c \in DOMAIN Kv, NEW n \in Nat, Store!Trim(c, n)
      PROVE  StoreInv'
  <2>1. /\ Fwd = Store!NoForward /\ Fwd' = Fwd
        /\ \A l \in Layers : n <= Len(Kv[c][l])
        /\ Kv' = [Kv EXCEPT ![c] =
             [l \in Layers |-> SubSeq(Kv[c][l], 1, Len(Kv[c][l]) - n)]]
    BY <1>7 DEF Store!Trim, Store!Layers, Layers
  <2>2. \A d \in DOMAIN Kv : Kv[d] \in [Layers -> Seq(Values)]
    BY DEF StoreInv
  <2>3. ASSUME NEW l \in Layers
        PROVE  /\ SubSeq(Kv[c][l], 1, Len(Kv[c][l]) - n) \in Seq(Values)
               /\ Len(SubSeq(Kv[c][l], 1, Len(Kv[c][l]) - n)) = Len(Kv[c][l]) - n
    <3> DEFINE q == Kv[c][l]
    <3>1. q \in Seq(Values) /\ n <= Len(q)
      BY <2>1, <2>2
    <3> HIDE DEF q
    <3>2. Len(q) \in Nat /\ Len(q) - n \in 0 .. Len(q)
      BY <3>1
    <3>3. SubSeq(q, 1, Len(q) - n) \in Seq(Values)
      BY <3>1, <3>2
    <3>4. Len(SubSeq(q, 1, Len(q) - n)) = Len(q) - n
      BY <3>1, <3>2
    <3> QED
      BY <3>3, <3>4 DEF q
  <2>4. Kv' \in [DOMAIN Kv' -> [Layers -> Seq(Values)]]
    BY <2>1, <2>2, <2>3
  <2>5. ASSUME NEW d \in DOMAIN Kv' PROVE \E base \in Nat : InStep(d, base)'
    <3>1. PICK base \in Nat : InStep(d, base)
      BY <2>1 DEF StoreInv
    <3>2. \A l \in Layers : Ahead(d, l)' = 0 /\ Ahead(d, l) = 0
      BY <2>1, NoForwardIs DEF Ahead
    <3>3. CASE d # c
      <4>1. Kv'[d] = Kv[d]
        BY <2>1, <3>3
      <4>2. InStep(d, base)'
        BY <3>1, <3>2, <4>1 DEF InStep
      <4> QED
        BY <4>2
    <3>4. CASE d = c
      <4>1. \A l \in Layers : Len(Kv'[d][l]) = base - n
        BY <2>1, <2>3, <3>1, <3>2, <3>4 DEF InStep
      <4>2. base - n \in Nat
        <5>1. 1 \in Layers
          BY DEF Layers
        <5> QED
          BY <2>1, <3>1, <3>2, <3>4, <5>1 DEF InStep
      <4>3. InStep(d, base - n)'
        BY <3>2, <4>1, <4>2 DEF InStep
      <4> QED
        BY <4>2, <4>3
    <3> QED
      BY <3>3, <3>4
  <2> QED
    BY <2>1, <2>4, <2>5 DEF StoreInv
<1> QED
  <2>1. \A c \in DOMAIN Kv : \A n \in 1 .. Len(Kv[c][1]) : n \in Nat
    OBVIOUS
  <2> QED
    BY <1>1, <1>2, <1>3, <1>5, <1>6, <1>7, <2>1 DEF Store!Next

-----------------------------------------------------------------------------
(* The contiguous caches                                                   *)

Objects(k) ==
  {o \in [key : Seq(Values), seq_len : Nat, max : {4}] :
     o.seq_len <= Len(o.key) /\ (k # "bmc" => o.seq_len = Len(o.key))}

LEMMA HeldIs ==
  ASSUME NEW k, NEW o \in Objects(k)
  PROVE  /\ Contiguous!Held(o) \in Seq(Values)
         /\ Len(Contiguous!Held(o)) = o.seq_len
         /\ \A i \in 1 .. o.seq_len : Contiguous!Held(o)[i] = o.key[i]
<1> DEFINE key == o.key
           n == o.seq_len
<1>1. key \in Seq(Values) /\ n \in Nat /\ n <= Len(key)
  BY DEF Objects
<1>2. Contiguous!Held(o) = SubSeq(key, 1, n)
  BY DEF Contiguous!Held
<1> HIDE DEF key, n
<1>3. /\ SubSeq(key, 1, n) \in Seq(Values)
      /\ Len(SubSeq(key, 1, n)) = n
      /\ \A i \in 1 .. n : SubSeq(key, 1, n)[i] = key[i]
  BY <1>1
<1> QED
  BY <1>2, <1>3 DEF key, n

LEMMA SplitsOfFour == Contiguous!TokensPerSplit(4) = 2
<1>1. \A s \in 0 .. 4 : s * s <= 4 /\ 4 < (s + 1) * (s + 1) <=> s = 2
  <2>1. \A s \in 0 .. 4 : s = 0 \/ s = 1 \/ s = 2 \/ s = 3 \/ s = 4
    OBVIOUS
  <2> QED
    BY <2>1
<1>2. Contiguous!NumSplits(4) = 2
  BY <1>1 DEF Contiguous!NumSplits
<1> QED
  BY <1>2 DEF Contiguous!TokensPerSplit

(* A tensor that has grown has room, and holds what it held. *)
LEMMA GrownIs ==
  ASSUME NEW k, NEW o \in Objects(k), NEW len \in Nat
  PROVE  /\ Contiguous!Grown(o, len) \in Seq(Values)
         /\ Len(Contiguous!Grown(o, len)) >= len
         /\ Len(Contiguous!Grown(o, len)) >= Len(o.key)
         /\ \A i \in 1 .. Len(o.key) : Contiguous!Grown(o, len)[i] = o.key[i]
<1> DEFINE key == o.key
           old == Len(key)
           size == ((len - 1) \div 2 + 1) * 2
           more == [i \in 1 .. size - old |-> Zero]
<1>1. key \in Seq(Values) /\ old \in Nat /\ o.max = 4 /\ Zero \in Values
  BY DEF Objects, Values
<1>2. Contiguous!Grown(o, len) = IF len <= old THEN key ELSE key \o more
  BY <1>1, SplitsOfFour DEF Contiguous!Grown
<1>3. CASE len <= old
  BY <1>1, <1>2, <1>3
<1>4. CASE ~(len <= old)
  <2>1. size \in Nat /\ size >= len /\ size - old \in Nat
    BY <1>1, <1>4
  <2>2. more \in Seq(Values) /\ Len(more) = size - old
    <3> HIDE DEF size, old
    <3> QED
      BY <1>1, <2>1
  <2> HIDE DEF size, old, more
  <2>3. /\ key \o more \in Seq(Values)
        /\ Len(key \o more) = Len(key) + Len(more)
        /\ \A i \in 1 .. Len(key) : (key \o more)[i] = key[i]
    <3> HIDE DEF key
    <3> QED
      BY <1>1, <2>2
  <2>4. Len(key) = old
    BY DEF old
  <2> QED
    BY <1>1, <1>2, <1>4, <2>1, <2>2, <2>3, <2>4
<1> QED
  BY <1>3, <1>4

(* An update appends to what is held. *)
LEMMA UpdateIs ==
  ASSUME kind \in {"dynamic", "bmc"}, NEW o \in Objects(kind), NEW new \in Seq(Values)
  PROVE  /\ Contiguous!Update(o, new) \in Objects(kind)
         /\ Contiguous!Held(Contiguous!Update(o, new)) = Contiguous!Held(o) \o new
         /\ Contiguous!Update(o, new).seq_len = o.seq_len + Len(new)
<1> DEFINE at == o.seq_len
           n == Len(new)
           len == at + n
           grown == Contiguous!Grown(o, len)
           written == Contiguous!Write(grown, at, new)
           key == IF kind = "bmc" THEN written ELSE o.key \o new
           u == Contiguous!Update(o, new)
<1>1. /\ at \in Nat /\ n \in Nat /\ len \in Nat /\ o.key \in Seq(Values) /\ at <= Len(o.key)
      /\ o = [key |-> o.key, seq_len |-> at, max |-> 4]
      /\ kind # "bmc" => at = Len(o.key)
  BY DEF Objects
<1>2. /\ u = [o EXCEPT !.seq_len = len, !.key = key]
      /\ u.key = key /\ u.seq_len = len /\ u.max = 4
  BY <1>1 DEF Contiguous!Update
<1>3. /\ grown \in Seq(Values) /\ Len(grown) >= len
      /\ \A i \in 1 .. at : grown[i] = o.key[i]
  <2> HIDE DEF len, grown
  <2>1. /\ grown \in Seq(Values) /\ Len(grown) >= len
        /\ \A i \in 1 .. Len(o.key) : grown[i] = o.key[i]
    BY <1>1, GrownIs DEF grown
  <2> QED
    BY <1>1, <2>1
<1>4. /\ key \in Seq(Values) /\ Len(key) >= len /\ (kind # "bmc" => Len(key) = len)
      /\ \A i \in 1 .. at : key[i] = o.key[i]
      /\ \A i \in 1 .. n : key[at + i] = new[i]
  <2>1. CASE kind = "bmc"
    <3>1. written = [i \in 1 .. Len(grown) |->
             IF i > at /\ i <= at + n THEN new[i - at] ELSE grown[i]]
      BY DEF Contiguous!Write
    <3> HIDE DEF grown, written
    <3>2. \A i \in 1 .. Len(grown) : written[i] \in Values
      BY <1>1, <1>3, <3>1
    <3>3. written \in Seq(Values) /\ Len(written) = Len(grown)
      BY <1>3, <3>1, <3>2
    <3>4. \A i \in 1 .. at : written[i] = o.key[i]
      BY <1>1, <1>3, <3>1
    <3>5. \A i \in 1 .. n : written[at + i] = new[i]
      BY <1>1, <1>3, <3>1
    <3> QED
      BY <1>3, <2>1, <3>3, <3>4, <3>5
  <2>2. CASE kind # "bmc"
    <3> DEFINE old == o.key
    <3>1. old \in Seq(Values) /\ Len(old) = at
      BY <1>1, <2>2
    <3> HIDE DEF old
    <3>2. /\ old \o new \in Seq(Values) /\ Len(old \o new) = at + n
          /\ \A i \in 1 .. at : (old \o new)[i] = old[i]
          /\ \A i \in 1 .. n : (old \o new)[at + i] = new[i]
      BY <3>1, SMTT(30)
    <3>3. key = old \o new
      BY <2>2 DEF old
    <3> HIDE DEF key
    <3>4. kind # "bmc" => Len(key) = len
      BY <3>2, <3>3
    <3>5. \A i \in 1 .. at : key[i] = o.key[i]
      BY <3>2, <3>3 DEF old
    <3> QED
      BY <1>1, <3>2, <3>3, <3>4, <3>5
  <2> QED
    BY <2>1, <2>2
<1> HIDE DEF key
<1>5. u \in Objects(kind)
  <2>1. u = [key |-> key, seq_len |-> len, max |-> 4]
    BY <1>1, <1>2
  <2> QED
    BY <1>1, <1>4, <2>1 DEF Objects
<1>6. Contiguous!Held(u) = Contiguous!Held(o) \o new
  <2> DEFINE was == Contiguous!Held(o)
             is == Contiguous!Held(u)
  <2>1. /\ was \in Seq(Values) /\ Len(was) = at
        /\ \A i \in 1 .. at : was[i] = o.key[i]
    BY HeldIs
  <2>2. /\ is \in Seq(Values) /\ Len(is) = len
        /\ \A i \in 1 .. len : is[i] = key[i]
    <3>1. /\ is \in Seq(Values) /\ Len(is) = u.seq_len
          /\ \A i \in 1 .. u.seq_len : is[i] = u.key[i]
      <4> HIDE DEF u
      <4> QED
        BY <1>5, HeldIs
    <3>2. u.key = key /\ u.seq_len = len
      BY <1>2
    <3> HIDE DEF u, is, len
    <3> QED
      BY <3>1, <3>2
  <2> HIDE DEF was, is
  <2>3. /\ was \o new \in Seq(Values) /\ Len(was \o new) = len
        /\ \A i \in 1 .. at : (was \o new)[i] = was[i]
        /\ \A i \in 1 .. n : (was \o new)[at + i] = new[i]
    BY <1>1, <2>1
  <2>4. ASSUME NEW i \in 1 .. len PROVE is[i] = (was \o new)[i]
    <3>1. CASE i <= at
      BY <1>1, <1>4, <2>1, <2>2, <2>3, <3>1, SMTT(30)
    <3>2. CASE i > at
      <4>1. PICK k \in Int : k = i - at
        BY <1>1
      <4>2. k \in 1 .. n /\ at + k = i
        BY <1>1, <3>2, <4>1
      <4>3. key[at + k] = new[k] /\ (was \o new)[at + k] = new[k]
        BY <1>4, <2>3, <4>2
      <4>4. is[i] = key[i]
        BY <2>2
      <4> QED
        BY <4>2, <4>3, <4>4
    <3>3. i <= at \/ i > at
      BY <1>1
    <3> QED
      BY <3>1, <3>2, <3>3
  <2> HIDE DEF len
  <2>5. is = was \o new
    BY <2>2, <2>3, <2>4
  <2> QED
    BY <2>5 DEF was, is
<1> QED
  BY <1>2, <1>5, <1>6

LEMMA RemoveCacheIs ==
  ASSUME kind \in {"dynamic", "bmc"}, NEW o \in Objects(kind), NEW n \in Nat,
         n <= o.seq_len
  PROVE  /\ Contiguous!RemoveCache(o, n) \in Objects(kind)
         /\ Contiguous!Held(Contiguous!RemoveCache(o, n))
              = SubSeq(Contiguous!Held(o), 1, Len(Contiguous!Held(o)) - n)
<1> DEFINE at == o.seq_len
           len == at - n
           old == o.key
           key == IF kind = "bmc" THEN old ELSE SubSeq(old, 1, len)
           u == Contiguous!RemoveCache(o, n)
<1>1. /\ at \in Nat /\ len \in Nat /\ len <= at /\ old \in Seq(Values) /\ at <= Len(old)
      /\ o = [key |-> old, seq_len |-> at, max |-> 4]
      /\ kind # "bmc" => at = Len(old)
  BY DEF Objects
<1>2. u = [key |-> key, seq_len |-> len, max |-> 4]
  <2>1. u = [o EXCEPT !.seq_len = len, !.key = key]
    BY DEF Contiguous!RemoveCache
  <2> HIDE DEF u, len, key, old, at
  <2> QED
    BY <1>1, <2>1
<1> HIDE DEF len, old
<1>3. /\ key \in Seq(Values) /\ Len(key) >= len /\ (kind # "bmc" => Len(key) = len)
      /\ \A i \in 1 .. len : key[i] = old[i]
  BY <1>1
<1> HIDE DEF key
<1>4. u \in Objects(kind)
  BY <1>1, <1>2, <1>3 DEF Objects
<1>5. Contiguous!Held(u) = SubSeq(Contiguous!Held(o), 1, Len(Contiguous!Held(o)) - n)
  <2> DEFINE was == Contiguous!Held(o)
             is == Contiguous!Held(u)
  <2>1. /\ was \in Seq(Values) /\ Len(was) = at
        /\ \A i \in 1 .. at : was[i] = old[i]
    BY HeldIs DEF old
  <2>2. /\ is \in Seq(Values) /\ Len(is) = len
        /\ \A i \in 1 .. len : is[i] = key[i]
    <3> HIDE DEF u
    <3> QED
      BY <1>2, <1>4, HeldIs
  <2>3. len = Len(was) - n
    BY <2>1 DEF len
  <2> HIDE DEF was, is
  <2>4. /\ SubSeq(was, 1, len) \in Seq(Values) /\ Len(SubSeq(was, 1, len)) = len
        /\ \A i \in 1 .. len : SubSeq(was, 1, len)[i] = was[i]
    BY <1>1, <2>1
  <2>5. ASSUME NEW i \in 1 .. len PROVE is[i] = SubSeq(was, 1, len)[i]
    <3>1. i \in 1 .. at
      BY <1>1
    <3> QED
      BY <1>3, <2>1, <2>2, <2>4, <3>1
  <2>6. is = SubSeq(was, 1, len)
    BY <2>2, <2>4, <2>5
  <2> QED
    BY <2>3, <2>6 DEF was, is
<1> QED
  BY <1>4, <1>5

ContiguousInv ==
  /\ kind \in {"dynamic", "bmc"}
  /\ DOMAIN objects \subseteq Ctx /\ broken \subseteq DOMAIN objects
  /\ objects \in [DOMAIN objects -> [Layers -> Objects(kind)]]

StoreStep == Store!Next \/ (Kv' = Kv /\ Fwd' = Fwd)

LEMMA NewObjectIs ==
  ASSUME NEW k
  PROVE  /\ Contiguous!NewObject(4) \in Objects(k)
         /\ Contiguous!Held(Contiguous!NewObject(4)) = <<>>
<1>1. Contiguous!NewObject(4) = [key |-> <<>>, seq_len |-> 0, max |-> 4]
  BY DEF Contiguous!NewObject
<1>2. Contiguous!NewObject(4) \in Objects(k)
  <2>1. <<>> \in Seq(Values) /\ Len(<<>>) = 0
    BY DEF Values
  <2> DEFINE none == <<>>
  <2> HIDE DEF none
  <2>2. none \in Seq(Values) /\ Len(none) = 0
    BY <2>1 DEF none
  <2>3. [key |-> none, seq_len |-> 0, max |-> 4] \in Objects(k)
    BY <2>2 DEF Objects
  <2> QED
    BY <1>1, <2>3 DEF none
<1>3. Contiguous!Held(Contiguous!NewObject(4)) = SubSeq(<<>>, 1, 0)
  BY <1>1 DEF Contiguous!Held
<1> QED
  BY <1>2, <1>3

LEMMA ContiguousView ==
  ASSUME ContiguousInv
  PROVE  /\ Kv = [c \in DOMAIN objects \ broken |->
                    [l \in Layers |-> Contiguous!Held(objects[c][l])]]
         /\ Fwd = forward
BY DEF ContiguousInv, Kv, Fwd, Contiguous!View, Contiguous!Layers, Layers

LEMMA ContiguousStep ==
  ASSUME ContiguousInv, StoreInv, Contiguous!Next
  PROVE  ContiguousInv' /\ StoreStep
<1> DEFINE Alive == DOMAIN objects \ broken
           Lists(c) == [l \in Layers |-> Contiguous!Held(objects[c][l])]
<1> USE LayersAssumption
<1>0. /\ kind \in {"dynamic", "bmc"}
      /\ DOMAIN objects \subseteq Ctx /\ broken \subseteq DOMAIN objects
      /\ \A c \in DOMAIN objects : objects[c] \in [Layers -> Objects(kind)]
  BY DEF ContiguousInv
<1>1. /\ Kv = [c \in Alive |-> Lists(c)] /\ Fwd = forward /\ DOMAIN Kv = Alive
      /\ \A c \in Alive : Kv[c] = Lists(c)
  BY ContiguousView
<1>2. ContiguousInv' => /\ Kv' = [c \in Alive' |-> Lists(c)'] /\ Fwd' = forward'
                        /\ DOMAIN Kv' = Alive' /\ \A c \in Alive' : Kv'[c] = Lists(c)'
  BY DEF ContiguousInv, Kv, Fwd, Contiguous!View, Contiguous!Layers, Layers
<1>3. /\ forward = Store!NoForward \/ Forwarding
      /\ Contiguous!Idle = Store!NoForward
  BY <1>1, NoForwardIs DEF StoreInv
<1>4. ASSUME NEW c \in Ctx, Contiguous!Create(c, 4)
      PROVE  ContiguousInv' /\ StoreStep
  <2>1. /\ c \notin DOMAIN objects
        /\ objects' = [d \in DOMAIN objects \union {c} |->
             IF d = c THEN [l \in Layers |-> Contiguous!NewObject(4)] ELSE objects[d]]
        /\ kind' = kind /\ broken' = broken /\ forward' = forward
    BY <1>4 DEF Contiguous!Create, Contiguous!Layers, Layers
  <2>2. ContiguousInv'
    BY <1>0, <2>1, NewObjectIs DEF ContiguousInv
  <2>3. Kv' = [d \in DOMAIN Kv \union {c} |->
                 IF d = c THEN [l \in Layers |-> <<>>] ELSE Kv[d]]
    <3>1. Alive' = Alive \union {c} /\ c \notin Alive
      BY <1>0, <2>1
    <3>2. Lists(c)' = [l \in Layers |-> <<>>]
      BY <2>1, NewObjectIs
    <3>3. \A d \in Alive : Lists(d)' = Lists(d)
      BY <2>1
    <3> HIDE DEF Alive, Lists
    <3> QED
      BY <1>1, <1>2, <2>2, <3>1, <3>2, <3>3
  <2>4. Store!Create(c)
    BY <1>0, <1>1, <1>2, <2>1, <2>2, <2>3 DEF Store!Create, Store!Layers, Layers
  <2> QED
    BY <2>2, <2>4 DEF StoreStep, Store!Next
<1>5. ASSUME NEW batch \in SUBSET Alive, Contiguous!Begin(batch)
      PROVE  ContiguousInv' /\ StoreStep
  <2>1. /\ forward = Contiguous!Idle
        /\ \E new \in [batch -> Entries] : forward' = [at |-> 1, new |-> new]
        /\ kind' = kind /\ objects' = objects /\ broken' = broken
    BY <1>5 DEF Contiguous!Begin
  <2>2. ContiguousInv'
    BY <1>0, <2>1 DEF ContiguousInv
  <2>3. Kv' = Kv
    BY <1>1, <1>2, <2>1, <2>2
  <2>4. Store!Begin
    BY <1>1, <1>2, <1>3, <2>1, <2>2, <2>3 DEF Store!Begin
  <2> QED
    BY <2>2, <2>4 DEF StoreStep, Store!Next
<1>6. ASSUME Contiguous!Layer
      PROVE  ContiguousInv' /\ StoreStep
  <2> DEFINE n == forward.at
             new == forward.new
  <2>1. /\ n # 0
        /\ objects' = [c \in DOMAIN objects |->
             IF c \in DOMAIN new
             THEN [objects[c] EXCEPT ![n] = Contiguous!Update(objects[c][n], new[c])]
             ELSE objects[c]]
        /\ forward' = IF n = NumLayers THEN Contiguous!Idle
                                       ELSE [forward EXCEPT !.at = @ + 1]
        /\ kind' = kind /\ broken' = broken
    BY <1>6 DEF Contiguous!Layer
  <2>2. Forwarding
    BY <1>3, <2>1, NoForwardIs
  <2>3. /\ n \in Layers /\ DOMAIN new \subseteq Alive
        /\ \A c \in DOMAIN new : new[c] \in Seq(Values)
    BY <1>1, <2>2, EntriesAre DEF Forwarding
  <2> HIDE DEF n, new
  <2>4. \A c \in DOMAIN new : LET u == Contiguous!Update(objects[c][n], new[c]) IN
          /\ u \in Objects(kind)
          /\ Contiguous!Held(u) = Contiguous!Held(objects[c][n]) \o new[c]
    BY <1>0, <2>3, UpdateIs
  <2>5. ContiguousInv'
    <3>1. \A c \in DOMAIN objects : objects'[c] \in [Layers -> Objects(kind)]
      BY <1>0, <2>1, <2>3, <2>4
    <3> QED
      BY <1>0, <2>1, <3>1 DEF ContiguousInv
  <2>6. Alive' = Alive
    BY <2>1
  <2>7. ASSUME NEW c \in Alive
        PROVE  Lists(c)' = IF c \in DOMAIN new THEN [Lists(c) EXCEPT ![n] = @ \o new[c]]
                                               ELSE Lists(c)
    <3>1. CASE c \in DOMAIN new
      <4>1. objects'[c] = [objects[c] EXCEPT ![n] = Contiguous!Update(objects[c][n], new[c])]
        BY <2>1, <3>1
      <4>2. ASSUME NEW l \in Layers
            PROVE  Contiguous!Held(objects'[c][l])
                     = IF l = n THEN Contiguous!Held(objects[c][n]) \o new[c]
                       ELSE Contiguous!Held(objects[c][l])
        <5>1. objects[c] \in [Layers -> Objects(kind)]
          BY <1>0
        <5>2. CASE l = n
          <6>1. objects'[c][l] = Contiguous!Update(objects[c][n], new[c])
            BY <2>3, <4>1, <5>1, <5>2
          <6> QED
            BY <2>4, <3>1, <5>2, <6>1
        <5>3. CASE l # n
          <6>1. objects'[c][l] = objects[c][l]
            BY <4>1, <5>1, <5>3
          <6> QED
            BY <5>3, <6>1
        <5> QED
          BY <5>2, <5>3
      <4>3. Lists(c)' = [l \in Layers |-> Contiguous!Held(objects'[c][l])]
        OBVIOUS
      <4> QED
        BY <2>3, <3>1, <4>2, <4>3
    <3>2. CASE c \notin DOMAIN new
      BY <2>1, <3>2
    <3> QED
      BY <3>1, <3>2
  <2> HIDE DEF Alive, Lists
  <2>8. Kv' = [c \in DOMAIN Kv |->
                 IF c \in DOMAIN new THEN [Kv[c] EXCEPT ![n] = @ \o new[c]] ELSE Kv[c]]
    BY <1>1, <1>2, <2>5, <2>6, <2>7
  <2>9. Fwd' = IF n = NumLayers THEN Store!NoForward ELSE [Fwd EXCEPT !.at = @ + 1]
    BY <1>1, <1>2, <1>3, <2>1, <2>5
  <2>10. Store!Layer
    BY <1>1, <2>3, <2>8, <2>9 DEF Store!Layer, Store!Layers, Layers, n, new
  <2> QED
    BY <2>5, <2>10 DEF StoreStep, Store!Next
<1>7. ASSUME Contiguous!Abandon
      PROVE  ContiguousInv' /\ StoreStep
  <2>1. /\ forward # Contiguous!Idle /\ forward' = Contiguous!Idle
        /\ broken' = broken \union DOMAIN forward.new
        /\ kind' = kind /\ objects' = objects
    BY <1>7 DEF Contiguous!Abandon
  <2>2. DOMAIN forward.new \subseteq Alive
    BY <1>1, <1>3, <2>1 DEF Forwarding
  <2>3. ContiguousInv'
    BY <1>0, <2>1, <2>2 DEF ContiguousInv
  <2>4. Alive' = Alive \ DOMAIN forward.new /\ \A c \in Alive' : Lists(c)' = Lists(c)
    BY <2>1
  <2> HIDE DEF Alive, Lists
  <2>5. Kv' = [c \in DOMAIN Kv \ DOMAIN Fwd.new |-> Kv[c]]
    BY <1>1, <1>2, <2>3, <2>4
  <2>6. Store!Abandon
    BY <1>1, <1>2, <1>3, <2>1, <2>3, <2>5 DEF Store!Abandon, Store!Restrict
  <2> QED
    BY <2>3, <2>6 DEF StoreStep, Store!Next
<1>8. ASSUME NEW c \in DOMAIN objects, Contiguous!RemoveContext(c)
      PROVE  ContiguousInv' /\ StoreStep
  <2>1. /\ forward = Contiguous!Idle /\ forward' = forward
        /\ objects' = [d \in DOMAIN objects \ {c} |-> objects[d]]
        /\ broken' = broken \ {c} /\ kind' = kind
    BY <1>8 DEF Contiguous!RemoveContext, Contiguous!Restrict
  <2>2. ContiguousInv'
    BY <1>0, <2>1 DEF ContiguousInv
  <2>3. Alive' = Alive \ {c} /\ \A d \in Alive' : Lists(d)' = Lists(d)
    BY <1>0, <2>1
  <2>4. c \in Ctx
    BY <1>0
  <2> HIDE DEF Alive, Lists
  <2>5. Kv' = [d \in DOMAIN Kv \ {c} |-> Kv[d]] /\ Fwd' = Fwd /\ Fwd = Store!NoForward
    BY <1>1, <1>2, <1>3, <2>1, <2>2, <2>3
  <2>6. CASE c \in Alive
    <3>1. Store!Remove(c)
      BY <1>1, <2>5, <2>6 DEF Store!Remove, Store!Restrict
    <3> QED
      BY <2>2, <2>4, <3>1 DEF StoreStep, Store!Next
  <2>7. CASE c \notin Alive
    <3>1. Kv' = Kv
      BY <1>1, <2>5, <2>7
    <3> QED
      BY <2>2, <2>5, <3>1 DEF StoreStep
  <2> QED
    BY <2>6, <2>7
<1>9. ASSUME NEW c \in DOMAIN objects, NEW n \in 1 .. objects[c][1].seq_len,
             Contiguous!Trim(c, n)
      PROVE  ContiguousInv' /\ StoreStep
  <2>1. /\ c \in Alive /\ forward = Contiguous!Idle /\ forward' = forward
        /\ n <= objects[c][1].seq_len
        /\ objects' = [objects EXCEPT ![c] =
             [l \in Layers |-> Contiguous!RemoveCache(objects[c][l], n)]]
        /\ kind' = kind /\ broken' = broken
    BY <1>9 DEF Contiguous!Trim, Contiguous!Layers, Layers
  <2>2. 1 \in Layers /\ n \in Nat /\ objects[c] \in [Layers -> Objects(kind)]
    BY <1>0 DEF Layers
  <2>3. \A l \in Layers : Len(Kv[c][l]) = objects[c][l].seq_len
    BY <1>1, <2>1, <2>2, HeldIs
  <2>4. PICK base \in Nat : InStep(c, base)
    BY <1>1, <2>1 DEF StoreInv
  <2>5. \A l \in Layers : Len(Kv[c][l]) = base
    BY <1>1, <1>3, <2>1, <2>4, NoForwardIs DEF InStep
  <2>6. \A l \in Layers : n <= objects[c][l].seq_len /\ objects[c][l] \in Objects(kind)
    BY <2>1, <2>2, <2>3, <2>5
  <2>7. \A l \in Layers : LET u == Contiguous!RemoveCache(objects[c][l], n) IN
          /\ u \in Objects(kind)
          /\ Contiguous!Held(u) = SubSeq(Kv[c][l], 1, Len(Kv[c][l]) - n)
    <3>1. \A l \in Layers : Kv[c][l] = Contiguous!Held(objects[c][l])
      BY <1>1, <2>1
    <3> QED
      BY <1>0, <2>2, <2>6, <3>1, RemoveCacheIs
  <2>8. ContiguousInv'
    BY <1>0, <2>1, <2>7 DEF ContiguousInv
  <2>9. Alive' = Alive /\ \A d \in Alive \ {c} : Lists(d)' = Lists(d)
    BY <2>1
  <2>10. Lists(c)' = [l \in Layers |-> SubSeq(Kv[c][l], 1, Len(Kv[c][l]) - n)]
    BY <1>0, <2>1, <2>7
  <2> HIDE DEF Alive, Lists
  <2>11. Kv' = [Kv EXCEPT ![c] = [l \in Layers |-> SubSeq(Kv[c][l], 1, Len(Kv[c][l]) - n)]]
    BY <1>1, <1>2, <2>1, <2>8, <2>9, <2>10
  <2>12. Fwd' = Fwd /\ Fwd = Store!NoForward
    BY <1>1, <1>2, <1>3, <2>1, <2>8
  <2>13. Store!Trim(c, n)
    BY <1>1, <2>1, <2>3, <2>6, <2>11, <2>12 DEF Store!Trim, Store!Layers, Layers
  <2>14. n \in 1 .. Len(Kv[c][1])
    BY <2>2, <2>3
  <2> QED
    BY <1>1, <2>1, <2>8, <2>13, <2>14 DEF StoreStep, Store!Next
<1> QED
  <2> HIDE DEF Alive
  <2>1. \A batch \in SUBSET (DOMAIN objects \ broken) \ {{}} : batch \in SUBSET Alive
    BY DEF Alive
  <2> QED
    BY <1>4, <1>5, <1>6, <1>7, <1>8, <1>9, <2>1 DEF Contiguous!Next

-----------------------------------------------------------------------------
(* The slab cache                                                          *)

(* A manager has a pool for every layer. *)
IsManager(m) ==
  /\ m = [tokens |-> m.tokens, pools |-> m.pools]
  /\ m.pools = [l \in Layers |-> m.pools[l]]
  /\ \A l \in Layers : m.pools[l] = [c \in DOMAIN m.pools[l] |-> m.pools[l][c]]

IsPools(ps) ==
  /\ ps = [l \in Layers |-> ps[l]]
  /\ \A l \in Layers : ps[l] = [c \in DOMAIN ps[l] |-> ps[l][c]]

LEMMA PoolsReplaced ==
  ASSUME NEW m, IsManager(m), NEW ps, IsPools(ps)
  PROVE  IsManager([m EXCEPT !.pools = ps]) /\ [m EXCEPT !.pools = ps].pools = ps
<1> DEFINE u == [m EXCEPT !.pools = ps]
<1>1. u = [tokens |-> m.tokens, pools |-> ps]
  BY DEF IsManager
<1> HIDE DEF u
<1>2. u.tokens = m.tokens /\ u.pools = ps
  BY <1>1
<1>3. IsManager(u)
  BY <1>1, <1>2 DEF IsManager, IsPools
<1> QED
  BY <1>2, <1>3 DEF u

LEMMA CreateSequenceIs ==
  ASSUME NEW m, IsManager(m), NEW c
  PROVE  LET u == Slab!CreateSequence(m, c) IN
    /\ IsManager(u)
    /\ \A l \in Layers : /\ DOMAIN u.pools[l] = DOMAIN m.pools[l] \union {c}
                         /\ u.pools[l][c] = <<>>
                         /\ \A d \in DOMAIN m.pools[l] \ {c} :
                              u.pools[l][d] = m.pools[l][d]
<1> DEFINE u == Slab!CreateSequence(m, c)
           one(l) == [d \in DOMAIN m.pools[l] \union {c} |->
                        IF d = c THEN <<>> ELSE m.pools[l][d]]
           ps == [l \in Layers |-> one(l)]
<1>1. u = [m EXCEPT !.pools = ps]
  BY DEF Slab!CreateSequence, Slab!Put, Slab!Layers, Layers
<1>2. \A l \in Layers : one(l) = [d \in DOMAIN one(l) |-> one(l)[d]]
  OBVIOUS
<1>3. \A l \in Layers : ps[l] = one(l)
  OBVIOUS
<1>4. \A l \in Layers : /\ DOMAIN one(l) = DOMAIN m.pools[l] \union {c}
                        /\ one(l)[c] = <<>>
                        /\ \A d \in DOMAIN m.pools[l] \ {c} : one(l)[d] = m.pools[l][d]
  OBVIOUS
<1> HIDE DEF one
<1>5. IsPools(ps)
  BY <1>2, <1>3 DEF IsPools
<1> HIDE DEF ps, u
<1>6. IsManager(u) /\ u.pools = ps
  BY <1>1, <1>5, PoolsReplaced
<1> QED
  BY <1>3, <1>4, <1>6 DEF u

LEMMA UpdateLayerIs ==
  ASSUME NEW m, IsManager(m), NEW n \in Layers, NEW new
  PROVE  LET u == Slab!UpdateLayer(m, n, new) IN
    /\ IsManager(u)
    /\ \A l \in Layers :
         /\ DOMAIN u.pools[l] = DOMAIN m.pools[l]
         /\ \A d \in DOMAIN m.pools[l] :
              u.pools[l][d] = IF l = n /\ d \in DOMAIN new THEN m.pools[l][d] \o new[d]
                                                           ELSE m.pools[l][d]
<1> DEFINE u == Slab!UpdateLayer(m, n, new)
           one == [c \in DOMAIN m.pools[n] |->
                     IF c \in DOMAIN new THEN m.pools[n][c] \o new[c] ELSE m.pools[n][c]]
           ps == [m.pools EXCEPT ![n] = one]
<1>1. u = [m EXCEPT !.pools = ps]
  BY DEF Slab!UpdateLayer
<1>2. /\ one = [c \in DOMAIN one |-> one[c]] /\ DOMAIN one = DOMAIN m.pools[n]
      /\ \A c \in DOMAIN m.pools[n] :
           one[c] = IF c \in DOMAIN new THEN m.pools[n][c] \o new[c] ELSE m.pools[n][c]
  OBVIOUS
<1> HIDE DEF one
<1>3. /\ ps = [l \in Layers |-> ps[l]]
      /\ \A l \in Layers : ps[l] = IF l = n THEN one ELSE m.pools[l]
  BY DEF IsManager
<1>4. IsPools(ps)
  BY <1>2, <1>3 DEF IsManager, IsPools
<1> HIDE DEF ps, u
<1>5. IsManager(u) /\ u.pools = ps
  BY <1>1, <1>4, PoolsReplaced
<1> QED
  BY <1>2, <1>3, <1>5 DEF u

LEMMA TruncateSequenceIs ==
  ASSUME NEW m, IsManager(m), NEW c, NEW k,
         \A l \in Layers : c \in DOMAIN m.pools[l]
  PROVE  LET u == Slab!TruncateSequence(m, c, k) IN
    /\ IsManager(u)
    /\ \A l \in Layers :
         /\ DOMAIN u.pools[l] = DOMAIN m.pools[l]
         /\ \A d \in DOMAIN m.pools[l] \ {c} : u.pools[l][d] = m.pools[l][d]
         /\ (\A j \in Layers : k <= Len(m.pools[j][c])) =>
              u.pools[l][c] = SubSeq(m.pools[l][c], 1, Len(m.pools[l][c]) - k)
<1> DEFINE u == Slab!TruncateSequence(m, c, k)
           cut(l) == \A j \in 1 .. l : k <= Len(m.pools[j][c])
           one(l) == IF cut(l)
                     THEN Slab!Truncated(m.pools[l], c, k) ELSE m.pools[l]
           ps == [l \in Layers |-> one(l)]
<1>1. u = [m EXCEPT !.pools = ps]
  BY DEF Slab!TruncateSequence, Slab!Layers, Layers
<1>2. \A l \in Layers : /\ one(l) = [d \in DOMAIN one(l) |-> one(l)[d]]
                        /\ DOMAIN one(l) = DOMAIN m.pools[l]
  BY DEF IsManager, Slab!Truncated
<1>3. \A l \in Layers : \A d \in DOMAIN m.pools[l] \ {c} : one(l)[d] = m.pools[l][d]
  BY DEF IsManager, Slab!Truncated
<1>4. \A l \in Layers : cut(l) =>
        one(l)[c] = SubSeq(m.pools[l][c], 1, Len(m.pools[l][c]) - k)
  BY DEF IsManager, Slab!Truncated
<1>5. (\A j \in Layers : k <= Len(m.pools[j][c])) => \A l \in Layers : cut(l)
  <2>1. \A l \in Layers : \A j \in 1 .. l : j \in Layers
    BY LayersAssumption DEF Layers
  <2> QED
    BY <2>1
<1>6. \A l \in Layers : ps[l] = one(l)
  OBVIOUS
<1> HIDE DEF one, cut
<1>7. IsPools(ps)
  BY <1>2, <1>6 DEF IsPools
<1> HIDE DEF ps, u
<1>8. IsManager(u) /\ u.pools = ps
  BY <1>1, <1>7, PoolsReplaced
<1> QED
  BY <1>2, <1>3, <1>4, <1>5, <1>6, <1>8 DEF u

LEMMA RemoveSequenceIs ==
  ASSUME NEW m, IsManager(m), NEW c
  PROVE  LET u == Slab!RemoveSequence(m, c) IN
    /\ IsManager(u)
    /\ \A l \in Layers : /\ DOMAIN u.pools[l] = DOMAIN m.pools[l] \ {c}
                         /\ \A d \in DOMAIN m.pools[l] \ {c} :
                              u.pools[l][d] = m.pools[l][d]
<1> DEFINE u == Slab!RemoveSequence(m, c)
           one(l) == [d \in DOMAIN m.pools[l] \ {c} |-> m.pools[l][d]]
           ps == [l \in Layers |-> one(l)]
<1>1. u = [m EXCEPT !.pools = ps]
  BY DEF Slab!RemoveSequence, Slab!Restrict, Slab!Layers, Layers
<1>2. \A l \in Layers : /\ one(l) = [d \in DOMAIN one(l) |-> one(l)[d]]
                        /\ DOMAIN one(l) = DOMAIN m.pools[l] \ {c}
                        /\ \A d \in DOMAIN m.pools[l] \ {c} : one(l)[d] = m.pools[l][d]
  OBVIOUS
<1>3. \A l \in Layers : ps[l] = one(l)
  OBVIOUS
<1> HIDE DEF one
<1>4. IsPools(ps)
  BY <1>2, <1>3 DEF IsPools
<1> HIDE DEF ps, u
<1>5. IsManager(u) /\ u.pools = ps
  BY <1>1, <1>4, PoolsReplaced
<1> QED
  BY <1>2, <1>3, <1>5 DEF u

LEMMA NewManagerIs ==
  ASSUME NEW t
  PROVE  /\ IsManager(Slab!NewManager(t))
         /\ \A l \in Layers : DOMAIN Slab!NewManager(t).pools[l] = {}
<1> DEFINE ps == [l \in Layers |-> Slab!Empty]
<1>1. Slab!NewManager(t) = [tokens |-> t, pools |-> ps]
  BY DEF Slab!NewManager, Slab!Layers, Layers
<1>2. Slab!Empty = [c \in DOMAIN Slab!Empty |-> Slab!Empty[c]] /\ DOMAIN Slab!Empty = {}
  BY DEF Slab!Empty
<1> HIDE DEF ps
<1>3. Slab!NewManager(t).tokens = t /\ Slab!NewManager(t).pools = ps
  BY <1>1
<1>4. \A l \in Layers : ps[l] = Slab!Empty
  BY DEF ps
<1>5. ps = [l \in Layers |-> ps[l]]
  BY DEF ps
<1> QED
  BY <1>1, <1>2, <1>3, <1>4, <1>5 DEF IsManager

LEMMA ReferencedIs ==
  ASSUME NEW ms, NEW current, NEW ctxs
  PROVE  LET rs == Slab!Referenced(ms, current, ctxs) IN
    /\ DOMAIN rs = DOMAIN ms \intersect ({current} \union {ctxs[c].of : c \in DOMAIN ctxs})
    /\ \A k \in DOMAIN rs : rs[k] = ms[k]
    /\ rs = [k \in DOMAIN rs |-> rs[k]]
BY DEF Slab!Referenced, Slab!Restrict

SlabInv ==
  /\ kind \in {"eager", "lazy"}
  /\ DOMAIN context \subseteq Ctx /\ broken \subseteq DOMAIN context
  /\ stuck \subseteq Ctx \ DOMAIN context
  /\ managers = [k \in DOMAIN managers |-> managers[k]]
  /\ \A k \in DOMAIN managers : IsManager(managers[k])
  /\ context = [c \in DOMAIN context |-> context[c]]
  /\ \A c \in DOMAIN context :
       /\ context[c].of \in DOMAIN managers
       /\ \A l \in Layers : c \in DOMAIN managers[context[c].of].pools[l]
  /\ manager \in {0} \union DOMAIN managers
  /\ kind = "eager" => manager # 0 /\ \A c \in DOMAIN context : context[c].of = manager
  /\ \A c, d \in DOMAIN forward.new : context[c].of = context[d].of
  /\ Slab!SequencesAccounted

LEMMA SlabView ==
  ASSUME kind \in {"eager", "lazy"}
  PROVE  /\ Kv = [c \in DOMAIN context \ broken |->
                    [l \in Layers |-> managers[context[c].of].pools[l][c]]]
         /\ Fwd = forward
BY DEF Kv, Fwd, Slab!View, Slab!PoolsOf, Slab!Layers, Layers

LEMMA SlabCreates ==
  ASSUME SlabInv, StoreInv, NEW c \in Ctx, NEW n \in {2, 3}, Slab!Create(c, n)
  PROVE  SlabInv' /\ StoreStep
<1> DEFINE Alive == DOMAIN context \ broken
           Lists(d) == [l \in Layers |-> managers[context[d].of].pools[l][d]]
           tokens == IF max_total_tokens = 0 THEN n * 2 ELSE max_total_tokens
           keep == manager # 0 /\ (\/ kind = "eager"
                                   \/ managers[manager].tokens >= Slab!NeededTokens(n))
           names == 1 .. MaxManagers \ DOMAIN managers
           ms(m) == IF keep THEN managers
                    ELSE Slab!Put(managers, m, Slab!NewManager(tokens))
           u(m) == Slab!CreateSequence(ms(m)[m], c)
           all(m) == Slab!Put(ms(m), m, u(m))
<1>1. /\ c \notin DOMAIN context \union stuck
      /\ kind' = kind /\ broken' = broken /\ forward' = forward /\ stuck' = stuck
  BY DEF Slab!Create
<1>2. PICK m \in IF keep THEN {manager} ELSE {k \in names : \A j \in names : k <= j} :
        /\ manager' = m
        /\ context' = Slab!Put(context, c, [of |-> m, max |-> n])
        /\ managers' = Slab!Referenced(all(m), m, context')
  BY DEF Slab!Create
<1>3. /\ keep => m = manager /\ m \in DOMAIN managers
      /\ ~keep => m \notin DOMAIN managers /\ kind = "lazy"
  BY <1>2 DEF SlabInv
<1> HIDE DEF keep, names
<1>4. /\ DOMAIN ms(m) = DOMAIN managers \union {m}
      /\ \A k \in DOMAIN managers : ms(m)[k] = managers[k]
      /\ IsManager(ms(m)[m])
      /\ ~keep => \A l \in Layers : DOMAIN ms(m)[m].pools[l] = {}
  <2>1. CASE keep
    BY <1>3, <2>1 DEF SlabInv
  <2>2. CASE ~keep
    <3> DEFINE new == Slab!NewManager(tokens)
    <3>1. IsManager(new) /\ \A l \in Layers : DOMAIN new.pools[l] = {}
      BY NewManagerIs
    <3> HIDE DEF new
    <3>2. ms(m) = [k \in DOMAIN managers \union {m} |-> IF k = m THEN new ELSE managers[k]]
      BY <2>2 DEF Slab!Put, new
    <3> HIDE DEF ms
    <3> QED
      BY <1>3, <2>2, <3>1, <3>2
  <2> QED
    BY <2>1, <2>2
<1> HIDE DEF ms
<1>5. /\ IsManager(u(m))
      /\ \A l \in Layers : /\ DOMAIN u(m).pools[l] = DOMAIN ms(m)[m].pools[l] \union {c}
                           /\ u(m).pools[l][c] = <<>>
                           /\ \A d \in DOMAIN ms(m)[m].pools[l] \ {c} :
                                u(m).pools[l][d] = ms(m)[m].pools[l][d]
  BY <1>4, CreateSequenceIs
<1> HIDE DEF u
<1>6. /\ DOMAIN all(m) = DOMAIN managers \union {m}
      /\ all(m)[m] = u(m)
      /\ \A k \in DOMAIN managers \ {m} : all(m)[k] = managers[k]
  BY <1>4 DEF Slab!Put
<1> HIDE DEF all
<1>7. /\ DOMAIN context' = DOMAIN context \union {c}
      /\ context'[c].of = m
      /\ \A d \in DOMAIN context : context'[d] = context[d]
      /\ context' = [d \in DOMAIN context' |-> context'[d]]
  <2>1. context' = [d \in DOMAIN context \union {c} |->
                      IF d = c THEN [of |-> m, max |-> n] ELSE context[d]]
    BY <1>2 DEF Slab!Put
  <2>2. DOMAIN context' = DOMAIN context \union {c}
    BY <2>1
  <2>3. context'[c] = [of |-> m, max |-> n]
    BY <2>1
  <2>4. \A d \in DOMAIN context : context'[d] = context[d]
    BY <1>1, <2>1
  <2> QED
    BY <2>1, <2>2, <2>3, <2>4
<1>8. /\ DOMAIN managers' = (DOMAIN managers \union {m})
                              \intersect ({m} \union {context'[d].of : d \in DOMAIN context'})
      /\ \A k \in DOMAIN managers' : managers'[k] = all(m)[k]
      /\ managers' = [k \in DOMAIN managers' |-> managers'[k]]
  <2> DEFINE used == {m} \union {context'[d].of : d \in DOMAIN context'}
             dom == DOMAIN all(m) \intersect used
  <2>1. managers' = [k \in dom |-> all(m)[k]]
    BY <1>2 DEF Slab!Referenced, Slab!Restrict
  <2>2. dom = (DOMAIN managers \union {m}) \intersect used
    BY <1>6
  <2> HIDE DEF dom, used
  <2>3. DOMAIN managers' = dom /\ \A k \in dom : managers'[k] = all(m)[k]
    BY <2>1
  <2>4. managers' = [k \in DOMAIN managers' |-> managers'[k]]
    BY <2>1
  <2> QED
    BY <2>2, <2>3, <2>4 DEF used
<1>9. /\ m \in DOMAIN managers' /\ managers'[m] = u(m)
      /\ \A k \in DOMAIN managers' \ {m} : k \in DOMAIN managers /\ managers'[k] = managers[k]
  BY <1>6, <1>8
<1>10. \A d \in DOMAIN context :
         context[d].of \in DOMAIN managers /\ context[d].of \in DOMAIN managers'
  BY <1>7, <1>8 DEF SlabInv
<1>11. ASSUME NEW d \in DOMAIN context, NEW l \in Layers
       PROVE  /\ d \in DOMAIN managers'[context[d].of].pools[l]
              /\ managers'[context[d].of].pools[l][d] = managers[context[d].of].pools[l][d]
  <2>1. d \in DOMAIN managers[context[d].of].pools[l] /\ d # c
    BY <1>1 DEF SlabInv
  <2>2. CASE context[d].of = m
    BY <1>3, <1>4, <1>5, <1>9, <1>10, <2>1, <2>2
  <2>3. CASE context[d].of # m
    BY <1>9, <1>10, <2>1, <2>3
  <2> QED
    BY <2>2, <2>3
<1>12. SlabInv'
  <2>1. \A k \in DOMAIN managers' : IsManager(managers'[k])
    BY <1>5, <1>9 DEF SlabInv
  <2>2. \A d \in DOMAIN context' :
          /\ context'[d].of \in DOMAIN managers'
          /\ \A l \in Layers : d \in DOMAIN managers'[context'[d].of].pools[l]
    BY <1>5, <1>7, <1>9, <1>10, <1>11
  <2>3. kind = "eager" => m # 0 /\ \A d \in DOMAIN context' : context'[d].of = m
    BY <1>3, <1>7 DEF SlabInv, keep
  <2>4. \A d, e \in DOMAIN forward'.new : context'[d].of = context'[e].of
    <3>1. DOMAIN forward.new \subseteq DOMAIN context
      BY NoForwardIs, SlabView DEF StoreInv, Forwarding, SlabInv
    <3> QED
      BY <1>1, <1>7, <3>1 DEF SlabInv
  <2>5. ASSUME NEW l \in Layers
        PROVE  DOMAIN u(m).pools[l] \ stuck = {d \in DOMAIN context' : context'[d].of = m}
    <3>1. CASE keep
      <4>1. DOMAIN managers[m].pools[l] \ stuck = {d \in DOMAIN context : context[d].of = m}
        BY <1>3, <3>1 DEF SlabInv, Slab!SequencesAccounted, keep, Slab!Layers, Layers
      <4> QED
        BY <1>1, <1>3, <1>4, <1>5, <1>7, <3>1, <4>1
    <3>2. CASE ~keep
      <4>1. DOMAIN u(m).pools[l] = {c}
        BY <1>4, <1>5, <3>2
      <4>2. \A d \in DOMAIN context : context[d].of # m
        BY <1>3, <1>10, <3>2
      <4> QED
        BY <1>1, <1>7, <4>1, <4>2
    <3> QED
      BY <3>1, <3>2
  <2>6. Slab!SequencesAccounted'
    BY <1>1, <1>2, <1>9, <2>5 DEF Slab!SequencesAccounted, Slab!Layers, Layers
  <2>7. /\ kind' \in {"eager", "lazy"}
        /\ DOMAIN context' \subseteq Ctx /\ broken' \subseteq DOMAIN context'
        /\ stuck' \subseteq Ctx \ DOMAIN context'
    BY <1>1, <1>7 DEF SlabInv
  <2>8. manager' \in {0} \union DOMAIN managers'
    BY <1>2, <1>9
  <2>9. kind' = "eager" => manager' # 0 /\ \A d \in DOMAIN context' : context'[d].of = manager'
    BY <1>1, <1>2, <2>3
  <2> QED
    BY <1>7, <1>8, <2>1, <2>2, <2>4, <2>6, <2>7, <2>8, <2>9 DEF SlabInv
<1>13. /\ Kv = [d \in Alive |-> Lists(d)] /\ Fwd = forward
       /\ Kv' = [d \in Alive' |-> Lists(d)'] /\ Fwd' = forward'
  <2>1. kind \in {"eager", "lazy"} /\ kind' \in {"eager", "lazy"}
    BY <1>1 DEF SlabInv
  <2>2. Kv' = [d \in Alive' |-> Lists(d)'] /\ Fwd' = forward'
    BY <2>1 DEF Kv, Fwd, Slab!View, Slab!PoolsOf, Slab!Layers, Layers
  <2> QED
    BY <2>1, <2>2, SlabView
<1>14. Alive' = Alive \union {c} /\ c \notin Alive
  BY <1>1, <1>7 DEF SlabInv
<1>15. Lists(c)' = [l \in Layers |-> <<>>]
  BY <1>5, <1>7, <1>9
<1>16. \A d \in Alive : Lists(d)' = Lists(d)
  BY <1>7, <1>11
<1> HIDE DEF Alive, Lists
<1>17. Kv' = [d \in DOMAIN Kv \union {c} |->
                IF d = c THEN [l \in Layers |-> <<>>] ELSE Kv[d]]
  BY <1>13, <1>14, <1>15, <1>16
<1>18. Store!Create(c)
  BY <1>1, <1>13, <1>14, <1>17 DEF Store!Create, Store!Layers, Layers
<1> QED
  BY <1>12, <1>18 DEF StoreStep, Store!Next

(* A step that leaves the contexts alone, and the pools as many as they are. *)
LEMMA SlabKeeps ==
  ASSUME SlabInv, kind' = kind, context' = context, manager' = manager, stuck' = stuck,
         broken' \subseteq DOMAIN context,
         managers' = [k \in DOMAIN managers |-> managers'[k]],
         \A k \in DOMAIN managers :
           /\ IsManager(managers'[k])
           /\ \A l \in Layers : DOMAIN managers'[k].pools[l] = DOMAIN managers[k].pools[l],
         \A c, d \in DOMAIN forward'.new : context[c].of = context[d].of
  PROVE  SlabInv'
<1>1. DOMAIN managers' = DOMAIN managers
  OBVIOUS
<1>2. Slab!SequencesAccounted'
  <2>1. ASSUME manager # 0, NEW l \in Layers
        PROVE  DOMAIN managers'[manager].pools[l] \ stuck
                 = {c \in DOMAIN context : context[c].of = manager}
    <3>1. manager \in DOMAIN managers
      BY <2>1 DEF SlabInv
    <3>2. DOMAIN managers'[manager].pools[l] = DOMAIN managers[manager].pools[l]
      BY <3>1
    <3>3. DOMAIN managers[manager].pools[l] \ stuck
            = {c \in DOMAIN context : context[c].of = manager}
      BY <2>1 DEF SlabInv, Slab!SequencesAccounted, Slab!Layers, Layers
    <3> QED
      BY <3>2, <3>3
  <2> QED
    BY <2>1 DEF Slab!SequencesAccounted, Slab!Layers, Layers
<1>3. \A c \in DOMAIN context :
        /\ context[c].of \in DOMAIN managers'
        /\ \A l \in Layers : c \in DOMAIN managers'[context[c].of].pools[l]
  BY <1>1 DEF SlabInv
<1> QED
  BY <1>1, <1>2, <1>3 DEF SlabInv

LEMMA SlabForwards ==
  ASSUME SlabInv, StoreInv,
         \/ \E batch \in Slab!Batches : Slab!Begin(batch)
         \/ Slab!Layer
         \/ Slab!Abandon
  PROVE  SlabInv' /\ StoreStep
<1> DEFINE Alive == DOMAIN context \ broken
           Lists(d) == [l \in Layers |-> managers[context[d].of].pools[l][d]]
<1> USE LayersAssumption
<1>1. /\ Kv = [d \in Alive |-> Lists(d)] /\ Fwd = forward
      /\ kind' = kind => Kv' = [d \in Alive' |-> Lists(d)'] /\ Fwd' = forward'
  <2>1. kind \in {"eager", "lazy"}
    BY DEF SlabInv
  <2>2. kind' = kind => Kv' = [d \in Alive' |-> Lists(d)'] /\ Fwd' = forward'
    BY <2>1 DEF Kv, Fwd, Slab!View, Slab!PoolsOf, Slab!Layers, Layers
  <2> QED
    BY <2>1, <2>2, SlabView
<1>2. /\ forward = Store!NoForward \/ Forwarding
      /\ Slab!Idle = Store!NoForward /\ DOMAIN Slab!Idle.new = {}
  BY <1>1, NoForwardIs DEF StoreInv
<1>3. ASSUME NEW batch \in Slab!Batches, Slab!Begin(batch)
      PROVE  SlabInv' /\ StoreStep
  <2>1. /\ forward = Slab!Idle
        /\ \E new \in [batch -> Entries] : forward' = [at |-> 1, new |-> new]
        /\ kind' = kind /\ managers' = managers /\ manager' = manager
        /\ context' = context /\ broken' = broken /\ stuck' = stuck
    BY <1>3 DEF Slab!Begin
  <2>2. PICK new \in [batch -> Entries] : forward' = [at |-> 1, new |-> new]
    BY <2>1
  <2>3. batch \subseteq Alive /\ (kind = "lazy" => \E c \in batch : batch = {c})
    BY DEF Slab!Batches
  <2>4. \A c, d \in DOMAIN forward'.new : context[c].of = context[d].of
    <3>1. DOMAIN forward'.new = batch
      BY <2>2
    <3> QED
      BY <2>3, <3>1 DEF SlabInv
  <2>5. /\ managers' = [k \in DOMAIN managers |-> managers'[k]]
        /\ \A k \in DOMAIN managers : IsManager(managers'[k])
    BY <2>1 DEF SlabInv
  <2>6. SlabInv'
    BY <2>1, <2>4, <2>5, SlabKeeps DEF SlabInv
  <2>7. Kv' = Kv
    BY <1>1, <2>1
  <2>8. Store!Begin
    <3>1. batch \in SUBSET DOMAIN Kv
      BY <1>1, <2>3
    <3> QED
      BY <1>1, <1>2, <2>1, <2>2, <2>7, <3>1 DEF Store!Begin
  <2> QED
    BY <2>6, <2>8 DEF StoreStep, Store!Next
<1>4. ASSUME Slab!Layer
      PROVE  SlabInv' /\ StoreStep
  <2> DEFINE n == forward.at
             new == forward.new
             u(m) == Slab!UpdateLayer(managers[m], n, new)
  <2>1. /\ n # 0
        /\ \E m \in {context[c].of : c \in DOMAIN new} : managers' = [managers EXCEPT ![m] = u(m)]
        /\ forward' = IF n = NumLayers THEN Slab!Idle ELSE [forward EXCEPT !.at = @ + 1]
        /\ kind' = kind /\ manager' = manager
        /\ context' = context /\ broken' = broken /\ stuck' = stuck
    BY <1>4 DEF Slab!Layer
  <2>2. Forwarding
    BY <1>2, <2>1, NoForwardIs
  <2>3. n \in Layers /\ DOMAIN new \subseteq Alive
    BY <1>1, <2>2 DEF Forwarding
  <2>4. PICK c0 \in DOMAIN new : managers' = [managers EXCEPT ![context[c0].of] = u(context[c0].of)]
    BY <2>1
  <2> DEFINE m == context[c0].of
  <2>5. /\ m \in DOMAIN managers /\ IsManager(managers[m])
        /\ \A c \in DOMAIN new : context[c].of = m
    BY <2>3 DEF SlabInv
  <2>6. DOMAIN forward'.new \subseteq DOMAIN new
    BY <1>2, <2>1, <2>2 DEF Forwarding
  <2> HIDE DEF n, new
  <2>7. /\ IsManager(u(m))
        /\ \A l \in Layers :
             /\ DOMAIN u(m).pools[l] = DOMAIN managers[m].pools[l]
             /\ \A d \in DOMAIN managers[m].pools[l] :
                  u(m).pools[l][d] = IF l = n /\ d \in DOMAIN new
                                     THEN managers[m].pools[l][d] \o new[d]
                                     ELSE managers[m].pools[l][d]
    BY <2>3, <2>5, UpdateLayerIs
  <2> HIDE DEF u, m
  <2>8. /\ managers' = [managers EXCEPT ![m] = u(m)]
        /\ \A k \in DOMAIN managers : managers'[k] = IF k = m THEN u(m) ELSE managers[k]
        /\ managers' = [k \in DOMAIN managers |-> managers'[k]]
    BY <2>4, <2>5, ZenonT(30) DEF m, SlabInv
  <2>9. SlabInv'
    <3>1. \A k \in DOMAIN managers :
            /\ IsManager(managers'[k])
            /\ \A l \in Layers : DOMAIN managers'[k].pools[l] = DOMAIN managers[k].pools[l]
      BY <2>7, <2>8 DEF SlabInv
    <3>2. \A c, d \in DOMAIN forward'.new : context[c].of = context[d].of
      BY <2>5, <2>6
    <3> QED
      BY <2>1, <2>8, <3>1, <3>2, SlabKeeps DEF SlabInv
  <2>10. ASSUME NEW c \in Alive
         PROVE  Lists(c)' = IF c \in DOMAIN new THEN [Lists(c) EXCEPT ![n] = @ \o new[c]]
                                                ELSE Lists(c)
    <3>1. context[c].of \in DOMAIN managers
      BY DEF SlabInv
    <3>2. ASSUME NEW l \in Layers
          PROVE  managers'[context[c].of].pools[l][c]
                   = IF l = n /\ c \in DOMAIN new THEN Lists(c)[l] \o new[c] ELSE Lists(c)[l]
      <4>1. c \in DOMAIN managers[context[c].of].pools[l]
        BY DEF SlabInv
      <4> QED
        BY <2>5, <2>7, <2>8, <3>1, <4>1
    <3>3. Lists(c)' = [l \in Layers |-> managers'[context[c].of].pools[l][c]]
      BY <2>1
    <3>4. Lists(c) = [l \in Layers |-> Lists(c)[l]]
      OBVIOUS
    <3> HIDE DEF Lists
    <3> QED
      BY <2>3, <3>2, <3>3, <3>4
  <2>11. Alive' = Alive
    BY <2>1
  <2> HIDE DEF Alive, Lists
  <2>12. Kv' = [c \in DOMAIN Kv |->
                  IF c \in DOMAIN new THEN [Kv[c] EXCEPT ![n] = @ \o new[c]] ELSE Kv[c]]
    BY <1>1, <2>1, <2>10, <2>11
  <2>13. Fwd' = IF n = NumLayers THEN Store!NoForward ELSE [Fwd EXCEPT !.at = @ + 1]
    BY <1>1, <1>2, <2>1
  <2>14. Store!Layer
    BY <1>1, <2>3, <2>12, <2>13 DEF Store!Layer, Store!Layers, Layers, n, new
  <2> QED
    BY <2>9, <2>14 DEF StoreStep, Store!Next
<1>5. ASSUME Slab!Abandon
      PROVE  SlabInv' /\ StoreStep
  <2>1. /\ forward # Slab!Idle /\ forward' = Slab!Idle
        /\ broken' = broken \union DOMAIN forward.new
        /\ kind' = kind /\ managers' = managers /\ manager' = manager
        /\ context' = context /\ stuck' = stuck
    BY <1>5 DEF Slab!Abandon
  <2>2. DOMAIN forward.new \subseteq Alive
    BY <1>1, <1>2, <2>1 DEF Forwarding
  <2>3. broken' \subseteq DOMAIN context /\ DOMAIN forward'.new = {}
    BY <1>2, <2>1, <2>2 DEF SlabInv
  <2>4. /\ managers' = [k \in DOMAIN managers |-> managers'[k]]
        /\ \A k \in DOMAIN managers : IsManager(managers'[k])
    BY <2>1 DEF SlabInv
  <2>5. SlabInv'
    BY <2>1, <2>3, <2>4, SlabKeeps
  <2>6. Alive' = Alive \ DOMAIN forward.new /\ \A c \in Alive' : Lists(c)' = Lists(c)
    BY <2>1
  <2> HIDE DEF Alive, Lists
  <2>7. Kv' = [c \in DOMAIN Kv \ DOMAIN Fwd.new |-> Kv[c]]
    BY <1>1, <2>1, <2>6
  <2>8. Store!Abandon
    BY <1>1, <1>2, <2>1, <2>7 DEF Store!Abandon, Store!Restrict
  <2> QED
    BY <2>5, <2>8 DEF StoreStep, Store!Next
<1> QED
  BY <1>3, <1>4, <1>5

LEMMA SlabTrims ==
  ASSUME SlabInv, StoreInv, NEW c \in DOMAIN context,
         NEW n \in 1 .. Len(Slab!PoolsOf(c)[1][c]), Slab!Trim(c, n)
  PROVE  SlabInv' /\ StoreStep
<1> DEFINE Alive == DOMAIN context \ broken
           Lists(d) == [l \in Layers |-> managers[context[d].of].pools[l][d]]
           m == context[c].of
           u == Slab!TruncateSequence(managers[m], c, n)
<1> USE LayersAssumption
<1>1. /\ c \in Alive /\ forward = Slab!Idle /\ forward' = forward
      /\ n <= Len(managers[m].pools[1][c])
      /\ managers' = [managers EXCEPT ![m] = u]
      /\ kind' = kind /\ manager' = manager /\ context' = context
      /\ broken' = broken /\ stuck' = stuck
  BY DEF Slab!Trim, Slab!PoolsOf
<1>2. /\ Kv = [d \in Alive |-> Lists(d)] /\ Fwd = forward
      /\ Kv' = [d \in Alive' |-> Lists(d)'] /\ Fwd' = forward'
  <2>1. kind \in {"eager", "lazy"}
    BY DEF SlabInv
  <2>2. Kv' = [d \in Alive' |-> Lists(d)'] /\ Fwd' = forward'
    BY <1>1, <2>1 DEF Kv, Fwd, Slab!View, Slab!PoolsOf, Slab!Layers, Layers
  <2> QED
    BY <2>1, <2>2, SlabView
<1>3. forward = Store!NoForward /\ DOMAIN forward'.new = {}
  BY <1>1, NoForwardIs
<1>4. 1 \in Layers /\ n \in Nat /\ \A l \in Layers : Kv[c][l] = managers[m].pools[l][c]
  BY <1>1, <1>2 DEF Layers
<1>5. PICK base \in Nat : InStep(c, base)
  BY <1>1, <1>2 DEF StoreInv
<1>6. \A l \in Layers : Len(Kv[c][l]) = base
  <2>1. \A l \in Layers : Ahead(c, l) = 0
    BY <1>2, <1>3, NoForwardIs
  <2> QED
    BY <1>5, <2>1 DEF InStep
<1>7. /\ \A l \in Layers : n <= Len(managers[m].pools[l][c])
      /\ n \in 1 .. Len(Kv[c][1])
  BY <1>1, <1>4, <1>6
<1>8. /\ m \in DOMAIN managers /\ IsManager(managers[m])
      /\ \A l \in Layers : c \in DOMAIN managers[m].pools[l]
  BY DEF SlabInv
<1>9. /\ IsManager(u)
      /\ \A l \in Layers :
           /\ DOMAIN u.pools[l] = DOMAIN managers[m].pools[l]
           /\ \A d \in DOMAIN managers[m].pools[l] \ {c} :
                u.pools[l][d] = managers[m].pools[l][d]
           /\ u.pools[l][c]
                = SubSeq(managers[m].pools[l][c], 1, Len(managers[m].pools[l][c]) - n)
  <2> HIDE DEF m
  <2>1. \A l \in Layers : c \in DOMAIN managers[m].pools[l]
    BY <1>8
  <2>2. /\ IsManager(u)
        /\ \A l \in Layers :
             /\ DOMAIN u.pools[l] = DOMAIN managers[m].pools[l]
             /\ \A d \in DOMAIN managers[m].pools[l] \ {c} :
                  u.pools[l][d] = managers[m].pools[l][d]
             /\ (\A j \in Layers : n <= Len(managers[m].pools[j][c])) =>
                  u.pools[l][c]
                    = SubSeq(managers[m].pools[l][c], 1, Len(managers[m].pools[l][c]) - n)
    BY <1>8, <2>1, TruncateSequenceIs
  <2> HIDE DEF u
  <2>3. \A j \in Layers : n <= Len(managers[m].pools[j][c])
    BY <1>7
  <2> QED
    BY <2>2, <2>3
<1> HIDE DEF u, m
<1>10. /\ \A k \in DOMAIN managers : managers'[k] = IF k = m THEN u ELSE managers[k]
       /\ managers' = [k \in DOMAIN managers |-> managers'[k]]
  <2>1. managers = [k \in DOMAIN managers |-> managers[k]]
    BY DEF SlabInv
  <2> QED
    BY <1>1, <1>8, <2>1
<1>11. SlabInv'
  <2>1. \A k \in DOMAIN managers :
          /\ IsManager(managers'[k])
          /\ \A l \in Layers : DOMAIN managers'[k].pools[l] = DOMAIN managers[k].pools[l]
    BY <1>9, <1>10 DEF SlabInv
  <2> QED
    BY <1>1, <1>3, <1>10, <2>1, SlabKeeps DEF SlabInv
<1>12. Lists(c)' = [l \in Layers |-> SubSeq(Kv[c][l], 1, Len(Kv[c][l]) - n)]
  <2>1. Lists(c)' = [l \in Layers |-> managers'[m].pools[l][c]]
    BY <1>1 DEF m
  <2>2. managers'[m] = u
    BY <1>8, <1>10
  <2>3. \A l \in Layers : managers'[m].pools[l][c]
                           = SubSeq(Kv[c][l], 1, Len(Kv[c][l]) - n)
    BY <1>4, <1>9, <2>2
  <2> HIDE DEF Lists
  <2> QED
    BY <2>1, <2>3
<1>13. ASSUME NEW d \in Alive \ {c} PROVE Lists(d)' = Lists(d)
  <2>1. context[d].of \in DOMAIN managers
    BY DEF SlabInv
  <2>2. ASSUME NEW l \in Layers
        PROVE  managers'[context[d].of].pools[l][d] = managers[context[d].of].pools[l][d]
    <3>1. d \in DOMAIN managers[context[d].of].pools[l]
      BY DEF SlabInv
    <3> QED
      BY <1>9, <1>10, <2>1, <3>1
  <2> QED
    BY <1>1, <2>2
<1>14. Alive' = Alive
  BY <1>1
<1> HIDE DEF Alive, Lists
<1>15. Kv' = [Kv EXCEPT ![c] = [l \in Layers |-> SubSeq(Kv[c][l], 1, Len(Kv[c][l]) - n)]]
  BY <1>1, <1>2, <1>12, <1>13, <1>14
<1>16. Store!Trim(c, n)
  BY <1>1, <1>2, <1>3, <1>4, <1>7, <1>15 DEF Store!Trim, Store!Layers, Layers
<1> QED
  BY <1>1, <1>2, <1>7, <1>11, <1>16 DEF StoreStep, Store!Next

LEMMA SlabRemoves ==
  ASSUME SlabInv, StoreInv, NEW c \in DOMAIN context, Slab!RemoveContext(c)
  PROVE  SlabInv' /\ StoreStep
<1> DEFINE Alive == DOMAIN context \ broken
           Lists(d) == [l \in Layers |-> managers[context[d].of].pools[l][d]]
           m == context[c].of
           len == Len(managers[m].pools[1][c])
           short == \E l \in Layers : Len(managers[m].pools[l][c]) < len
           u == Slab!TruncateSequence(managers[m], c, len)
           cut == [managers EXCEPT ![m] = u]
           v == Slab!RemoveSequence(cut[manager], c)
           all == IF short THEN cut ELSE [cut EXCEPT ![manager] = v]
<1> USE LayersAssumption
<1>1. /\ forward = Slab!Idle /\ forward' = forward
      /\ context' = [d \in DOMAIN context \ {c} |-> context[d]]
      /\ managers' = Slab!Referenced(all, manager, context')
      /\ stuck' = stuck \union IF short /\ m \in DOMAIN managers' THEN {c} ELSE {}
      /\ broken' = broken \ {c}
      /\ kind' = kind /\ manager' = manager
  BY ZenonT(30) DEF Slab!RemoveContext, Slab!Restrict, Slab!PoolsOf, Slab!Layers, Layers
<1>2. /\ Kv = [d \in Alive |-> Lists(d)] /\ Fwd = forward
      /\ Kv' = [d \in Alive' |-> Lists(d)'] /\ Fwd' = forward'
  <2>1. kind \in {"eager", "lazy"}
    BY SMTT(30) DEF SlabInv
  <2>2. Kv' = [d \in Alive' |-> Lists(d)'] /\ Fwd' = forward'
    BY <1>1, <2>1, ZenonT(30) DEF Kv, Fwd, Slab!View, Slab!PoolsOf, Slab!Layers, Layers
  <2> QED
    BY <2>1, <2>2, SlabView, SMTT(30)
<1>3. forward = Store!NoForward /\ DOMAIN forward'.new = {}
  BY <1>1, NoForwardIs
<1>4. /\ m \in DOMAIN managers /\ IsManager(managers[m]) /\ c \in Ctx /\ c \notin stuck
      /\ \A l \in Layers : c \in DOMAIN managers[m].pools[l]
  BY DEF SlabInv
<1>5. /\ IsManager(u)
      /\ \A l \in Layers :
           /\ DOMAIN u.pools[l] = DOMAIN managers[m].pools[l]
           /\ \A d \in DOMAIN managers[m].pools[l] \ {c} :
                u.pools[l][d] = managers[m].pools[l][d]
  <2> HIDE DEF m, len
  <2> QED
    BY <1>4, TruncateSequenceIs
<1>6. /\ DOMAIN cut = DOMAIN managers
      /\ \A k \in DOMAIN managers :
           /\ IsManager(cut[k])
           /\ \A l \in Layers :
                /\ DOMAIN cut[k].pools[l] = DOMAIN managers[k].pools[l]
                /\ \A d \in DOMAIN managers[k].pools[l] \ {c} :
                     cut[k].pools[l][d] = managers[k].pools[l][d]
  <2>1. \A k \in DOMAIN managers : cut[k] = IF k = m THEN u ELSE managers[k]
    BY DEF SlabInv
  <2>2. DOMAIN cut = DOMAIN managers
    BY DEF SlabInv
  <2> HIDE DEF cut, u, m
  <2> QED
    BY <1>4, <1>5, <2>1, <2>2 DEF SlabInv
<1> HIDE DEF cut, u
<1>7. manager \in DOMAIN managers =>
        /\ IsManager(v)
        /\ \A l \in Layers :
             /\ DOMAIN v.pools[l] = DOMAIN managers[manager].pools[l] \ {c}
             /\ \A d \in DOMAIN managers[manager].pools[l] \ {c} :
                  v.pools[l][d] = managers[manager].pools[l][d]
  <2> SUFFICES ASSUME manager \in DOMAIN managers
               PROVE  /\ IsManager(v)
                      /\ \A l \in Layers :
                           /\ DOMAIN v.pools[l] = DOMAIN managers[manager].pools[l] \ {c}
                           /\ \A d \in DOMAIN managers[manager].pools[l] \ {c} :
                                v.pools[l][d] = managers[manager].pools[l][d]
    OBVIOUS
  <2>1. IsManager(cut[manager])
    BY <1>6
  <2>2. /\ IsManager(v)
        /\ \A l \in Layers :
             /\ DOMAIN v.pools[l] = DOMAIN cut[manager].pools[l] \ {c}
             /\ \A d \in DOMAIN cut[manager].pools[l] \ {c} :
                  v.pools[l][d] = cut[manager].pools[l][d]
    BY <2>1, RemoveSequenceIs
  <2> HIDE DEF v
  <2> QED
    BY <1>6, <2>2
<1> HIDE DEF v, short
<1>8. /\ DOMAIN all = DOMAIN managers
      /\ \A k \in DOMAIN managers :
           /\ IsManager(all[k])
           /\ \A l \in Layers :
                /\ DOMAIN all[k].pools[l]
                     = DOMAIN managers[k].pools[l] \ IF k = manager /\ ~short THEN {c} ELSE {}
                /\ \A d \in DOMAIN managers[k].pools[l] \ {c} :
                     all[k].pools[l][d] = managers[k].pools[l][d]
  <2>1. CASE short
    <3>1. all = cut
      BY <2>1
    <3> HIDE DEF all
    <3> QED
      BY <1>6, <2>1, <3>1
  <2>2. CASE ~short
    <3>1. /\ DOMAIN all = DOMAIN cut
          /\ \A k \in DOMAIN cut : all[k] = IF k = manager THEN v ELSE cut[k]
      BY <2>2
    <3> HIDE DEF all
    <3>2. ASSUME NEW k \in DOMAIN managers, k = manager
          PROVE  /\ IsManager(all[k])
                 /\ \A l \in Layers :
                      /\ DOMAIN all[k].pools[l] = DOMAIN managers[k].pools[l] \ {c}
                      /\ \A d \in DOMAIN managers[k].pools[l] \ {c} :
                           all[k].pools[l][d] = managers[k].pools[l][d]
      BY <1>6, <1>7, <3>1, <3>2
    <3>3. ASSUME NEW k \in DOMAIN managers, k # manager
          PROVE  /\ IsManager(all[k])
                 /\ \A l \in Layers :
                      /\ DOMAIN all[k].pools[l] = DOMAIN managers[k].pools[l]
                      /\ \A d \in DOMAIN managers[k].pools[l] \ {c} :
                           all[k].pools[l][d] = managers[k].pools[l][d]
      BY <1>6, <3>1, <3>3
    <3> QED
      BY <1>6, <2>2, <3>1, <3>2, <3>3
  <2> QED
    BY <2>1, <2>2
<1> HIDE DEF all
<1>9. /\ DOMAIN context' = DOMAIN context \ {c}
      /\ \A d \in DOMAIN context' : context'[d] = context[d]
      /\ context' = [d \in DOMAIN context' |-> context'[d]]
  BY <1>1
<1>10. /\ DOMAIN managers' = DOMAIN managers
                               \intersect ({manager} \union {context'[d].of : d \in DOMAIN context'})
       /\ \A k \in DOMAIN managers' : managers'[k] = all[k]
       /\ managers' = [k \in DOMAIN managers' |-> managers'[k]]
  <2> DEFINE used == {manager} \union {context'[d].of : d \in DOMAIN context'}
             dom == DOMAIN all \intersect used
  <2>1. managers' = [k \in dom |-> all[k]]
    BY <1>1 DEF Slab!Referenced, Slab!Restrict
  <2>2. dom = DOMAIN managers \intersect used
    BY <1>8
  <2> HIDE DEF dom, used
  <2>3. DOMAIN managers' = dom /\ \A k \in dom : managers'[k] = all[k]
    BY <2>1
  <2>4. managers' = [k \in DOMAIN managers' |-> managers'[k]]
    BY <2>1
  <2> QED
    BY <2>2, <2>3, <2>4 DEF used
<1>11. \A d \in DOMAIN context' :
         /\ context'[d].of = context[d].of /\ d \in DOMAIN context /\ d # c
         /\ context'[d].of \in DOMAIN managers'
  BY <1>9, <1>10 DEF SlabInv
<1>12. \A d \in DOMAIN context', l \in Layers :
         /\ d \in DOMAIN managers'[context[d].of].pools[l]
         /\ managers'[context[d].of].pools[l][d] = managers[context[d].of].pools[l][d]
  <2> TAKE d \in DOMAIN context', l \in Layers
  <2>1. /\ context[d].of \in DOMAIN managers /\ d \in DOMAIN managers[context[d].of].pools[l]
        /\ d # c
    BY <1>11 DEF SlabInv
  <2>2. managers'[context[d].of] = all[context[d].of]
    BY <1>10, <1>11
  <2> QED
    BY <1>8, <2>1, <2>2
<1>13. SlabInv'
  <2>1. \A k \in DOMAIN managers' : IsManager(managers'[k])
    BY <1>8, <1>10
  <2>2. manager \in {0} \union DOMAIN managers'
    BY <1>10 DEF SlabInv
  <2>3. /\ DOMAIN context' \subseteq Ctx /\ broken' \subseteq DOMAIN context'
        /\ stuck' \subseteq Ctx \ DOMAIN context'
    BY <1>1, <1>4, <1>9 DEF SlabInv
  <2>4. ASSUME manager # 0, NEW l \in Layers
        PROVE  DOMAIN managers'[manager].pools[l] \ stuck'
                 = {d \in DOMAIN context' : context'[d].of = manager}
    <3> DEFINE was == DOMAIN managers[manager].pools[l]
               is == DOMAIN managers'[manager].pools[l]
    <3>1. was \ stuck = {d \in DOMAIN context : context[d].of = manager}
      BY <2>4 DEF SlabInv, Slab!SequencesAccounted, Slab!Layers, Layers
    <3>2. manager \in DOMAIN managers /\ manager \in DOMAIN managers'
      BY <1>10, <2>4 DEF SlabInv
    <3>3. is = was \ IF short THEN {} ELSE {c}
      BY <1>8, <1>10, <3>2
    <3>4. short /\ m = manager => stuck' = stuck \union {c}
      BY <1>1, <3>2
    <3>5. stuck' = stuck \/ stuck' = stuck \union {c}
      BY <1>1
    <3>6. {d \in DOMAIN context' : context'[d].of = manager}
            = {d \in DOMAIN context : context[d].of = manager} \ {c}
      BY <1>9
    <3>7. m # manager => c \notin was
      <4>1. c \notin {d \in DOMAIN context : context[d].of = manager} \/ m = manager
        OBVIOUS
      <4> HIDE DEF was, m
      <4> QED
        BY <1>4, <3>1, <4>1
    <3> DEFINE theirs == {d \in DOMAIN context : context[d].of = manager}
               left == {d \in DOMAIN context' : context'[d].of = manager}
    <3>8. was \ stuck = theirs /\ left = theirs \ {c}
      BY <3>1, <3>6
    <3> HIDE DEF was, is, m, theirs, left
    <3>9. is \ stuck' = left
      <4>1. CASE short /\ m = manager
        BY <3>3, <3>4, <3>8, <4>1
      <4>2. CASE short /\ m # manager
        BY <3>3, <3>5, <3>7, <3>8, <4>2
      <4>3. CASE ~short
        BY <3>3, <3>5, <3>8, <4>3
      <4> QED
        BY <4>1, <4>2, <4>3
    <3> QED
      BY <3>9 DEF is, left
  <2>5. Slab!SequencesAccounted'
    BY <1>1, <2>4 DEF Slab!SequencesAccounted, Slab!Layers, Layers
  <2>6. kind' = "eager" =>
          manager' # 0 /\ \A d \in DOMAIN context' : context'[d].of = manager'
    BY <1>1, <1>11 DEF SlabInv
  <2>7. \A d \in DOMAIN context' :
          /\ context'[d].of \in DOMAIN managers'
          /\ \A l \in Layers : d \in DOMAIN managers'[context'[d].of].pools[l]
    BY <1>11, <1>12
  <2>8. kind' \in {"eager", "lazy"}
    BY <1>1 DEF SlabInv
  <2> QED
    BY <1>1, <1>3, <1>9, <1>10, <2>1, <2>2, <2>3, <2>5, <2>6, <2>7, <2>8 DEF SlabInv
<1>14. \A d \in DOMAIN context' : Lists(d)' = Lists(d)
  BY <1>11, <1>12
<1>15. Alive' = Alive \ {c} /\ Alive' \subseteq DOMAIN context'
  BY <1>1, <1>9
<1> HIDE DEF Alive, Lists
<1>16. Kv' = [d \in DOMAIN Kv \ {c} |-> Kv[d]] /\ Fwd' = Fwd /\ Fwd = Store!NoForward
  BY <1>1, <1>2, <1>3, <1>14, <1>15
<1>17. CASE c \in Alive
  <2>1. Store!Remove(c)
    BY <1>2, <1>16, <1>17 DEF Store!Remove, Store!Restrict
  <2> QED
    BY <1>4, <1>13, <2>1 DEF StoreStep, Store!Next
<1>18. CASE c \notin Alive
  <2>1. Kv' = Kv
    BY <1>2, <1>16, <1>18
  <2> QED
    BY <1>13, <1>16, <2>1 DEF StoreStep
<1> QED
  BY <1>17, <1>18, SMTT(30)

LEMMA SlabStep ==
  ASSUME SlabInv, StoreInv, Slab!Next
  PROVE  SlabInv' /\ StoreStep
BY SlabCreates, SlabForwards, SlabTrims, SlabRemoves DEF Slab!Next

-----------------------------------------------------------------------------
(* The cache of the plug-in                                                *)

(* Every layer has a pool of its own, and all pools know the same requests. *)
Known == DOMAIN pools[1]
IsScheduled(s) ==
  /\ s = [new |-> s.new, preempted |-> s.preempted, finished |-> s.finished,
          batch |-> s.batch]
  /\ s.new \subseteq Ctx /\ DOMAIN s.batch \subseteq Ctx
  /\ s.batch \in [DOMAIN s.batch -> Entries]

PluginInv ==
  /\ kind = "vllm"
  /\ setup.target = [l \in Layers |-> l]
  /\ pools = [l \in Layers |-> [r \in Known |-> pools[l][r]]]
  /\ Known \subseteq Ctx
  /\ IsScheduled(scheduled)
  /\ scheduled.preempted \subseteq Known /\ scheduled.finished \subseteq Known
  /\ scheduled.preempted \intersect scheduled.finished = {}
  /\ scheduled # Plugin!Nothing => forward = Plugin!Idle
  /\ dead \in BOOLEAN

LEMMA PluginOwners ==
  ASSUME setup.target = [l \in Layers |-> l]
  PROVE  /\ Plugin!Owners(setup) = Layers /\ Plugin!Layers = Layers
         /\ Plugin!Min(Plugin!Owners(setup)) = 1 /\ Plugin!Requests = Known
         /\ Len(setup.target) = NumLayers
         /\ \A l \in Layers : setup.target[l] = l
         /\ 1 \in Layers
<1>1. 1 \in Layers /\ \A l \in Layers : l \in Nat /\ 1 <= l
  BY LayersAssumption DEF Layers
<1>2. DOMAIN setup.target = Layers /\ \A l \in Layers : setup.target[l] = l
  OBVIOUS
<1>3. Plugin!Owners(setup) = Layers /\ Plugin!Layers = Layers
  BY <1>2 DEF Plugin!Owners, Plugin!Layers
<1>4. Plugin!Min(Layers) = 1
  <2>1. \A x \in Layers : (\A y \in Layers : x <= y) => x = 1
    BY <1>1
  <2> HIDE DEF Layers
  <2> QED
    BY <1>1, <2>1 DEF Plugin!Min
<1>5. Len(setup.target) = NumLayers
  BY LayersAssumption DEF Layers
<1> QED
  BY <1>1, <1>2, <1>3, <1>4, <1>5 DEF Plugin!Requests, Known

LEMMA PluginView ==
  ASSUME kind = "vllm", setup.target = [l \in Layers |-> l]
  PROVE  /\ Kv = [r \in Known |-> [l \in Layers |-> pools[l][r]]]
         /\ Fwd = forward
<1>1. Kv = Plugin!View /\ Fwd = forward
  BY DEF Kv, Fwd
<1>2. Plugin!View = [r \in Known |-> [l \in Layers |-> pools[setup.target[l]][r]]]
  BY PluginOwners DEF Plugin!View
<1> QED
  BY <1>1, <1>2, PluginOwners

(* A step that leaves the pools alone. *)
LEMMA PluginKeeps ==
  ASSUME PluginInv, StoreInv, kind' = kind, setup' = setup, pools' = pools,
         IsScheduled(scheduled'), dead' \in BOOLEAN,
         scheduled'.preempted \subseteq Known, scheduled'.finished \subseteq Known,
         scheduled'.preempted \intersect scheduled'.finished = {},
         scheduled' # Plugin!Nothing => forward' = Plugin!Idle
  PROVE  PluginInv' /\ Kv' = Kv
<1>1. Known' = Known /\ PluginInv'
  BY DEF PluginInv, Known, IsScheduled, Plugin!Nothing, Plugin!Idle
<1>2. Kv' = [r \in Known' |-> [l \in Layers |-> pools'[l][r]]]
  <2>1. kind' = "vllm" /\ setup'.target = [l \in Layers |-> l]
    BY DEF PluginInv
  <2>2. Plugin!Layers' = Layers /\ Plugin!Requests' = Known'
    <3>1. Plugin!Layers' = Plugin!Layers /\ Plugin!Requests' = Plugin!Requests
      BY DEF Plugin!Layers, Plugin!Requests
    <3> QED
      BY <1>1, <3>1, PluginOwners DEF PluginInv
  <2>3. Kv' = Plugin!View'
    BY <2>1 DEF Kv
  <2>4. Plugin!View' = [r \in Known' |-> [l \in Layers |-> pools'[setup'.target[l]][r]]]
    BY <2>2 DEF Plugin!View
  <2> QED
    BY <2>1, <2>3, <2>4
<1> QED
  BY <1>1, <1>2, PluginView DEF PluginInv

(* The pools a step leaves, and what the model sees of them. *)
LEMMA PluginPools ==
  ASSUME PluginInv, kind' = kind, setup' = setup, dead' \in BOOLEAN, NEW S \in SUBSET Ctx,
         pools' = [l \in Layers |-> [r \in S |-> pools'[l][r]]],
         IsScheduled(scheduled'),
         scheduled'.preempted \subseteq S, scheduled'.finished \subseteq S,
         scheduled'.preempted \intersect scheduled'.finished = {},
         scheduled' # Plugin!Nothing => forward' = Plugin!Idle
  PROVE  PluginInv' /\ Kv' = [r \in S |-> [l \in Layers |-> pools'[l][r]]]
<1>1. /\ kind' = "vllm" /\ setup'.target = [l \in Layers |-> l]
      /\ 1 \in Layers
  BY PluginOwners DEF PluginInv
<1>2. DOMAIN pools'[1] = S
  BY <1>1
<1>3. Known' = S
  BY <1>2 DEF Known
<1>4. pools' = [l \in Layers |-> [r \in Known' |-> pools'[l][r]]]
  BY <1>3
<1>5. PluginInv'
  BY <1>1, <1>3, <1>4 DEF PluginInv, IsScheduled, Plugin!Nothing, Plugin!Idle
<1>6. Plugin!Layers' = Layers /\ Plugin!Requests' = S
  <2>1. Plugin!Layers' = Plugin!Layers
    BY DEF Plugin!Layers
  <2>2. Plugin!Requests' = DOMAIN pools'[Plugin!Min(Plugin!Owners(setup))]
    BY DEF Plugin!Requests
  <2> QED
    BY <1>2, <2>1, <2>2, PluginOwners DEF PluginInv
<1>7. Kv' = Plugin!View'
  BY <1>1 DEF Kv
<1>8. Plugin!View' = [r \in S |-> [l \in Layers |-> pools'[setup'.target[l]][r]]]
  BY <1>6 DEF Plugin!View
<1> QED
  BY <1>1, <1>2, <1>5, <1>7, <1>8

LEMMA PluginStep ==
  ASSUME PluginInv, StoreInv, Plugin!Next, kind' = kind
  PROVE  PluginInv' /\ StoreStep
<1> DEFINE sch == scheduled
<1> USE LayersAssumption
<1>0. /\ Plugin!Owners(setup) = Layers /\ Plugin!Min(Layers) = 1 /\ Plugin!Requests = Known
      /\ Len(setup.target) = NumLayers /\ \A l \in Layers : setup.target[l] = l
      /\ 1 \in Layers
  BY PluginOwners DEF PluginInv
<1>1. /\ Kv = [r \in Known |-> [l \in Layers |-> pools[l][r]]] /\ Fwd = forward
      /\ Fwd' = forward' /\ DOMAIN Kv = Known
  BY PluginView DEF PluginInv, Fwd
<1>2. /\ forward = Store!NoForward \/ Forwarding
      /\ Plugin!Idle = Store!NoForward
  BY <1>1, NoForwardIs DEF StoreInv
<1>3. /\ pools = [l \in Layers |-> [r \in Known |-> pools[l][r]]] /\ Known \subseteq Ctx
      /\ IsScheduled(sch) /\ sch.preempted \subseteq Known /\ sch.finished \subseteq Known
      /\ sch.preempted \intersect sch.finished = {} /\ dead \in BOOLEAN
      /\ sch # Plugin!Nothing => forward = Plugin!Idle
  BY DEF PluginInv
<1>4. ASSUME Plugin!Schedule
      PROVE  PluginInv' /\ StoreStep
  <2>0. PICK new \in SUBSET (Ctx \ Plugin!Requests), preempted \in SUBSET Plugin!Requests,
             finished \in SUBSET Plugin!Requests :
          \E batch \in SUBSET ((new \union Plugin!Requests) \ (preempted \union finished)) :
            \E entries \in [batch -> Entries] :
              /\ preempted \intersect finished = {}
              /\ scheduled' = [new |-> new, preempted |-> preempted,
                               finished |-> finished, batch |-> entries]
    BY <1>4 DEF Plugin!Schedule
  <2>1. /\ new \in SUBSET (Ctx \ Known) /\ preempted \in SUBSET Known
        /\ finished \in SUBSET Known
        /\ \E batch \in SUBSET ((new \union Known) \ (preempted \union finished)) :
            \E entries \in [batch -> Entries] :
              /\ preempted \intersect finished = {}
              /\ scheduled' = [new |-> new, preempted |-> preempted,
                               finished |-> finished, batch |-> entries]
    BY <1>0, <2>0
  <2>2. PICK batch \in SUBSET ((new \union Known) \ (preempted \union finished)) :
          \E entries \in [batch -> Entries] :
            /\ preempted \intersect finished = {}
            /\ scheduled' = [new |-> new, preempted |-> preempted,
                             finished |-> finished, batch |-> entries]
    BY <2>1
  <2>3. PICK entries \in [batch -> Entries] :
          /\ preempted \intersect finished = {}
          /\ scheduled' = [new |-> new, preempted |-> preempted,
                           finished |-> finished, batch |-> entries]
    BY <2>2
  <2>4. /\ setup' = setup /\ pools' = pools /\ forward' = forward /\ dead' = dead
        /\ forward = Plugin!Idle
    BY <1>4 DEF Plugin!Schedule
  <2>5. /\ IsScheduled(scheduled')
        /\ scheduled'.preempted \subseteq Known /\ scheduled'.finished \subseteq Known
        /\ scheduled'.preempted \intersect scheduled'.finished = {}
    <3>1. /\ scheduled'.new = new /\ scheduled'.preempted = preempted
          /\ scheduled'.finished = finished /\ scheduled'.batch = entries
      BY <2>3
    <3>2. DOMAIN entries = batch /\ batch \subseteq Ctx /\ new \subseteq Ctx
      BY <1>3, <2>1
    <3> QED
      BY <2>1, <2>3, <3>1, <3>2 DEF IsScheduled
  <2>6. PluginInv' /\ Kv' = Kv
    BY <1>3, <2>4, <2>5, PluginKeeps
  <2> QED
    BY <1>1, <2>4, <2>6 DEF StoreStep
<1>5. ASSUME NEW q \in Ctx, Plugin!CreateSequence(q)
      PROVE  PluginInv' /\ StoreStep
  <2>1. /\ q \in sch.new /\ scheduled' = [sch EXCEPT !.new = @ \ {q}]
        /\ setup' = setup /\ forward' = forward /\ dead' = dead
        /\ q \in Known => pools' = pools
        /\ q \notin Known => pools' = [l \in Layers |->
             [r \in Known \union {q} |-> IF r = q THEN <<>> ELSE pools[l][r]]]
    BY <1>0, <1>5 DEF Plugin!CreateSequence
  <2>2. /\ IsScheduled(scheduled') /\ scheduled'.preempted = sch.preempted
        /\ scheduled'.finished = sch.finished
    BY <1>3, <2>1 DEF IsScheduled
  <2>3. forward = Plugin!Idle
    BY <1>3, <2>1 DEF Plugin!Nothing
  <2>4. CASE q \in Known
    <3>1. PluginInv' /\ Kv' = Kv
      BY <1>3, <2>1, <2>2, <2>3, <2>4, PluginKeeps
    <3> QED
      BY <1>1, <2>1, <3>1 DEF StoreStep
  <2>5. CASE q \notin Known
    <3> DEFINE S == Known \union {q}
               value(l, r) == IF r = q THEN <<>> ELSE pools[l][r]
    <3>1. S \in SUBSET Ctx /\ pools' = [l \in Layers |-> [r \in S |-> value(l, r)]]
      BY <1>3, <2>1, <2>5
    <3>2. sch.preempted \subseteq S /\ sch.finished \subseteq S
      BY <1>3
    <3> HIDE DEF S, value
    <3>6. /\ pools' = [l \in Layers |-> [r \in S |-> pools'[l][r]]]
          /\ \A l \in Layers, r \in S : pools'[l][r] = value(l, r)
      BY <3>1
    <3>3. PluginInv' /\ Kv' = [r \in S |-> [l \in Layers |-> value(l, r)]]
      <4>1. /\ IsScheduled(scheduled') /\ scheduled'.preempted \subseteq S
            /\ scheduled'.finished \subseteq S /\ dead' \in BOOLEAN
            /\ scheduled'.preempted \intersect scheduled'.finished = {}
            /\ forward' = Plugin!Idle
        BY <1>3, <2>1, <2>2, <2>3, <3>2
      <4>2. PluginInv' /\ Kv' = [r \in S |-> [l \in Layers |-> pools'[l][r]]]
        BY <2>1, <3>1, <3>6, <4>1, PluginPools
      <4> QED
        BY <3>6, <4>2
    <3>4. Kv' = [r \in DOMAIN Kv \union {q} |->
                   IF r = q THEN [l \in Layers |-> <<>>] ELSE Kv[r]]
      BY <1>1, <2>5, <3>3 DEF S, value
    <3>5. Store!Create(q)
      BY <1>1, <2>1, <2>5, <3>4 DEF Store!Create, Store!Layers, Layers
    <3> QED
      BY <3>3, <3>5 DEF StoreStep, Store!Next
  <2> QED
    BY <2>4, <2>5
<1>6. ASSUME NEW q \in Ctx, Plugin!ResetSequence(q)
      PROVE  PluginInv' /\ StoreStep
  <2> DEFINE n == Len(pools[1][q])
             raises == \E l \in Layers : Len(pools[l][q]) < n
  <2>1. /\ q \in sch.preempted /\ scheduled' = [sch EXCEPT !.preempted = @ \ {q}]
        /\ setup' = setup /\ forward' = forward
        /\ raises => dead' = TRUE /\ pools' = pools
        /\ ~raises => dead' = dead /\ pools' = [l \in Layers |->
             [pools[l] EXCEPT ![q] = SubSeq(@, 1, Len(@) - n)]]
    BY <1>0, <1>6 DEF Plugin!ResetSequence
  <2>2. /\ IsScheduled(scheduled') /\ scheduled'.preempted \subseteq sch.preempted
        /\ scheduled'.finished = sch.finished
    BY <1>3, <2>1 DEF IsScheduled
  <2>3. forward = Plugin!Idle /\ q \in Known
    BY <1>3, <2>1 DEF Plugin!Nothing
  <2>4. PICK base \in Nat : InStep(q, base)
    BY <1>1, <2>3 DEF StoreInv
  <2>5. \A l \in Layers : Kv[q][l] = pools[l][q] /\ Len(pools[l][q]) = base
    <3>1. \A l \in Layers : Ahead(q, l) = 0 /\ Kv[q][l] = pools[l][q]
      BY <1>1, <1>2, <2>3, NoForwardIs
    <3> QED
      BY <2>4, <3>1 DEF InStep
  <2>6. ~raises /\ n = base
    BY <1>0, <2>5
  <2> HIDE DEF raises, n
  <2>7. CASE n = 0
    <3>1. \A l \in Layers : SubSeq(pools[l][q], 1, Len(pools[l][q]) - n) = pools[l][q]
      <4> SUFFICES ASSUME NEW l \in Layers
                   PROVE  SubSeq(pools[l][q], 1, Len(pools[l][q]) - n) = pools[l][q]
        OBVIOUS
      <4>1. Kv[q][l] \in Seq(Values)
        BY <1>1, <2>3 DEF StoreInv
      <4> DEFINE s == pools[l][q]
      <4>2. s \in Seq(Values) /\ Len(s) = 0
        BY <2>5, <2>6, <2>7, <4>1
      <4> HIDE DEF s
      <4>3. SubSeq(s, 1, Len(s) - 0) = s
        BY <4>2
      <4> QED
        BY <2>7, <4>3 DEF s
    <3>2. pools' = pools
      <4>1. \A l \in Layers : [pools[l] EXCEPT ![q] = SubSeq(@, 1, Len(@) - n)] = pools[l]
        <5> SUFFICES ASSUME NEW l \in Layers
                     PROVE  [pools[l] EXCEPT ![q] = SubSeq(@, 1, Len(@) - n)] = pools[l]
          OBVIOUS
        <5> DEFINE p == pools[l]
                   x == SubSeq(p[q], 1, Len(p[q]) - n)
        <5>1. p = [r \in Known |-> p[r]] /\ q \in Known /\ x = p[q]
          BY <1>3, <2>3, <3>1
        <5>2. [p EXCEPT ![q] = SubSeq(@, 1, Len(@) - n)] = [p EXCEPT ![q] = x]
          OBVIOUS
        <5> HIDE DEF p, x
        <5>3. [p EXCEPT ![q] = x] = p
          <6>1. DOMAIN p = Known
            BY <5>1
          <6>2. [p EXCEPT ![q] = x] = [r \in Known |-> IF r = q THEN x ELSE p[r]]
            BY <6>1, Zenon
          <6>3. \A r \in Known : (IF r = q THEN x ELSE p[r]) = p[r]
            BY <5>1
          <6>4. [r \in Known |-> IF r = q THEN x ELSE p[r]] = [r \in Known |-> p[r]]
            BY <6>3, Zenon
          <6> QED
            BY <5>1, <6>2, <6>4, Zenon
        <5> QED
          BY <5>2, <5>3, Zenon DEF p
      <4>2. pools' = [l \in Layers |-> [pools[l] EXCEPT ![q] = SubSeq(@, 1, Len(@) - n)]]
        BY <2>1, <2>6
      <4>3. pools = [l \in Layers |-> pools[l]]
        BY <1>3
      <4>4. [l \in Layers |-> [pools[l] EXCEPT ![q] = SubSeq(@, 1, Len(@) - n)]]
              = [l \in Layers |-> pools[l]]
        BY <4>1, Zenon
      <4> QED
        BY <4>2, <4>3, <4>4, Zenon
    <3>3. PluginInv' /\ Kv' = Kv
      <4>1. /\ scheduled'.preempted \subseteq Known /\ scheduled'.finished \subseteq Known
            /\ scheduled'.preempted \intersect scheduled'.finished = {}
            /\ dead' \in BOOLEAN /\ forward' = Plugin!Idle
        BY <1>3, <2>1, <2>2, <2>3, <2>6
      <4> QED
        BY <2>1, <2>2, <3>2, <4>1, PluginKeeps
    <3> QED
      BY <1>1, <2>1, <3>3 DEF StoreStep
  <2>8. CASE n # 0
    <3> DEFINE value(l, r) == IF r = q THEN SubSeq(pools[l][q], 1, Len(pools[l][q]) - n)
                                       ELSE pools[l][r]
    <3>1. pools' = [l \in Layers |-> [r \in Known |-> value(l, r)]]
      <4>1. \A l \in Layers : pools[l] = [r \in Known |-> pools[l][r]]
        BY <1>3
      <4> QED
        BY <2>1, <2>3, <2>6, <4>1
    <3> HIDE DEF value
    <3>2. PluginInv' /\ Kv' = [r \in Known |-> [l \in Layers |-> value(l, r)]]
      <4>1. /\ scheduled'.preempted \subseteq Known /\ scheduled'.finished \subseteq Known
            /\ scheduled'.preempted \intersect scheduled'.finished = {}
            /\ dead' \in BOOLEAN /\ forward' = Plugin!Idle /\ Known \in SUBSET Ctx
        BY <1>3, <2>1, <2>2, <2>3, <2>6
      <4>2. /\ pools' = [l \in Layers |-> [r \in Known |-> pools'[l][r]]]
            /\ \A l \in Layers, r \in Known : pools'[l][r] = value(l, r)
        BY <3>1
      <4>3. PluginInv' /\ Kv' = [r \in Known |-> [l \in Layers |-> pools'[l][r]]]
        BY <2>1, <2>2, <4>1, <4>2, PluginPools
      <4> QED
        BY <4>2, <4>3
    <3>3. Kv' = [Kv EXCEPT ![q] = [l \in Layers |-> SubSeq(Kv[q][l], 1, Len(Kv[q][l]) - n)]]
      BY <1>1, <2>3, <2>5, <3>2 DEF value
    <3>4. Store!Trim(q, n)
      <4>1. \A l \in Layers : n <= Len(Kv[q][l])
        BY <2>5, <2>6
      <4> QED
        BY <1>1, <1>2, <2>1, <2>3, <3>3, <4>1 DEF Store!Trim, Store!Layers, Layers
    <3>5. n \in 1 .. Len(Kv[q][1])
      BY <1>0, <2>5, <2>6, <2>8
    <3> QED
      BY <1>1, <2>3, <3>2, <3>4, <3>5 DEF StoreStep, Store!Next
  <2> QED
    BY <2>7, <2>8
<1>7. ASSUME NEW q \in Ctx, Plugin!RemoveSequence(q)
      PROVE  PluginInv' /\ StoreStep
  <2> DEFINE S == Known \ {q}
             value(l, r) == pools[l][r]
  <2>1. /\ q \in sch.finished /\ scheduled' = [sch EXCEPT !.finished = @ \ {q}]
        /\ sch.preempted = {}
        /\ setup' = setup /\ forward' = forward /\ dead' = dead
        /\ pools' = [l \in Layers |-> [r \in S |-> value(l, r)]]
    BY <1>0, <1>7 DEF Plugin!RemoveSequence, Plugin!Restrict
  <2>2. /\ IsScheduled(scheduled') /\ scheduled'.preempted \subseteq S
        /\ scheduled'.finished \subseteq S
        /\ scheduled'.preempted \intersect scheduled'.finished = {}
    BY <1>3, <2>1 DEF IsScheduled
  <2>3. forward = Plugin!Idle
    BY <1>3, <2>1 DEF Plugin!Nothing
  <2>4. S \in SUBSET Ctx
    BY <1>3
  <2> HIDE DEF S, value
  <2>5. PluginInv' /\ Kv' = [r \in S |-> [l \in Layers |-> value(l, r)]]
    <3>1. dead' \in BOOLEAN /\ forward' = Plugin!Idle
      BY <1>3, <2>1, <2>3
    <3>2. /\ pools' = [l \in Layers |-> [r \in S |-> pools'[l][r]]]
          /\ \A l \in Layers, r \in S : pools'[l][r] = value(l, r)
      BY <2>1
    <3>3. PluginInv' /\ Kv' = [r \in S |-> [l \in Layers |-> pools'[l][r]]]
      BY <2>1, <2>2, <2>4, <3>1, <3>2, PluginPools
    <3> QED
      BY <3>2, <3>3
  <2>6. Kv' = [r \in DOMAIN Kv \ {q} |-> Kv[r]]
    BY <1>1, <2>5 DEF S, value
  <2>7. Store!Remove(q)
    BY <1>1, <1>2, <1>3, <2>1, <2>3, <2>6 DEF Store!Remove, Store!Restrict
  <2> QED
    BY <2>5, <2>7 DEF StoreStep, Store!Next
<1>8. ASSUME Plugin!Build
      PROVE  PluginInv' /\ StoreStep
  <2>1. /\ forward = Plugin!Idle /\ scheduled' = Plugin!Nothing
        /\ setup' = setup /\ pools' = pools
        /\ IF DOMAIN sch.batch \subseteq Known
           THEN forward' = [at |-> 1, new |-> sch.batch] /\ dead' = dead
           ELSE dead' = TRUE /\ forward' = forward
    BY <1>0, <1>8 DEF Plugin!Build
  <2>2. /\ IsScheduled(Plugin!Nothing) /\ Plugin!Nothing.preempted = {}
        /\ Plugin!Nothing.finished = {}
    BY DEF IsScheduled, Plugin!Nothing, Plugin!Idle
  <2>3. PluginInv' /\ Kv' = Kv
    <3>1. dead' \in BOOLEAN
      BY <1>3, <2>1
    <3> QED
      BY <2>1, <2>2, <3>1, PluginKeeps
  <2>4. CASE DOMAIN sch.batch \subseteq Known
    <3>1. Store!Begin
      <4>1. sch.batch \in [DOMAIN sch.batch -> Entries]
        BY <1>3 DEF IsScheduled
      <4> QED
        BY <1>1, <1>2, <2>1, <2>3, <2>4, <4>1 DEF Store!Begin
    <3> QED
      BY <2>3, <3>1 DEF StoreStep, Store!Next
  <2>5. CASE ~(DOMAIN sch.batch \subseteq Known)
    BY <1>1, <2>1, <2>3, <2>5 DEF StoreStep
  <2> QED
    BY <2>4, <2>5
<1>9. ASSUME Plugin!Layer
      PROVE  PluginInv' /\ StoreStep
  <2> DEFINE n == forward.at
             new == forward.new
             held(r) == pools[n][r] \o IF r \in DOMAIN new THEN new[r] ELSE <<>>
  <2>1. /\ forward # Plugin!Idle /\ setup' = setup /\ scheduled' = sch
        /\ \/ dead' = TRUE /\ pools' = pools /\ forward' = forward
           \/ /\ dead' = dead
              /\ LET owner == setup.target[n] IN
                   pools' = [pools EXCEPT ![owner] = [r \in Known |->
                     pools[owner][r] \o IF r \in DOMAIN new THEN new[r] ELSE <<>>]]
              /\ forward' = IF n = NumLayers THEN Plugin!Idle
                                             ELSE [forward EXCEPT !.at = @ + 1]
    BY <1>0, <1>9 DEF Plugin!Layer
  <2>2. Forwarding
    BY <1>2, <2>1, ZenonT(30)
  <2>3. n \in Layers /\ DOMAIN new \subseteq Known
    BY <1>1, <2>2, SMTT(30) DEF Forwarding
  <2>4. sch = Plugin!Nothing
    BY <1>3, <2>1
  <2>5. CASE dead' = TRUE /\ pools' = pools /\ forward' = forward
    <3>1. PluginInv' /\ Kv' = Kv
      BY <1>3, <2>1, <2>4, <2>5, PluginKeeps
    <3> QED
      BY <1>1, <2>5, <3>1 DEF StoreStep
  <2>6. CASE /\ dead' = dead
             /\ pools' = [pools EXCEPT ![n] = [r \in Known |-> held(r)]]
             /\ forward' = IF n = NumLayers THEN Plugin!Idle
                                            ELSE [forward EXCEPT !.at = @ + 1]
    <3> DEFINE value(l, r) == IF l = n THEN held(r) ELSE pools[l][r]
    <3>1. pools' = [l \in Layers |-> [r \in Known |-> value(l, r)]]
      BY <1>3, <2>3, <2>6
    <3> HIDE DEF n, new
    <3>2. ASSUME NEW r \in Known, NEW l \in Layers
          PROVE  value(l, r) = IF l = n /\ r \in DOMAIN new THEN Kv[r][l] \o new[r] ELSE Kv[r][l]
      <4>1. Kv[r][l] = pools[l][r] /\ Kv[r][l] \in Seq(Values)
        BY <1>1 DEF StoreInv
      <4>2. pools[l][r] \o <<>> = pools[l][r]
        <5> DEFINE s == pools[l][r]
        <5>1. s \in Seq(Values)
          BY <4>1
        <5> HIDE DEF s
        <5>2. s \o <<>> = s
          BY <5>1
        <5> QED
          BY <5>2 DEF s
      <4> QED
        BY <4>1, <4>2
    <3> HIDE DEF value, held
    <3>3. PluginInv' /\ Kv' = [r \in Known |-> [l \in Layers |-> value(l, r)]]
      <4>1. Known \in SUBSET Ctx /\ dead' \in BOOLEAN
        BY <1>3, <2>6
      <4>2. /\ pools' = [l \in Layers |-> [r \in Known |-> pools'[l][r]]]
            /\ \A l \in Layers, r \in Known : pools'[l][r] = value(l, r)
        BY <3>1
      <4>3. /\ IsScheduled(scheduled') /\ scheduled'.preempted \subseteq Known
            /\ scheduled'.finished \subseteq Known /\ scheduled' = Plugin!Nothing
            /\ scheduled'.preempted \intersect scheduled'.finished = {}
        BY <1>3, <2>1, <2>4
      <4>4. PluginInv' /\ Kv' = [r \in Known |-> [l \in Layers |-> pools'[l][r]]]
        BY <2>1, <4>1, <4>2, <4>3, PluginPools
      <4> QED
        BY <4>2, <4>4
    <3>4. Kv' = [r \in DOMAIN Kv |->
                   IF r \in DOMAIN new THEN [Kv[r] EXCEPT ![n] = @ \o new[r]] ELSE Kv[r]]
      <4>1. ASSUME NEW r \in Known
            PROVE  [l \in Layers |-> value(l, r)]
                     = IF r \in DOMAIN new THEN [Kv[r] EXCEPT ![n] = @ \o new[r]] ELSE Kv[r]
        <5>1. Kv[r] = [l \in Layers |-> Kv[r][l]]
          BY <1>1
        <5> QED
          BY <2>3, <3>2, <5>1
      <4> QED
        BY <1>1, <3>3, <4>1
    <3>5. Fwd' = IF n = NumLayers THEN Store!NoForward ELSE [Fwd EXCEPT !.at = @ + 1]
      BY <1>1, <1>2, <2>6
    <3>6. Store!Layer
      BY <1>1, <2>3, <3>4, <3>5 DEF Store!Layer, Store!Layers, Layers, n, new
    <3> QED
      BY <3>3, <3>6, SMTT(30) DEF StoreStep, Store!Next
  <2>7. setup.target[n] = n
    BY <1>0, <2>3
  <2> QED
    BY <2>1, <2>5, <2>6, <2>7
<1> QED
  BY <1>4, <1>5, <1>6, <1>7, <1>8, <1>9 DEF Plugin!Next, Plugin!UpdateStates

-----------------------------------------------------------------------------
(* The paged caches: pools                                                 *)

Bl(p, c) == Paged!BlocksOf(p, c)

(* No block is free and used, or used twice. *)
Proper(p) ==
  /\ p = [free |-> p.free, owned |-> p.owned]
  /\ p.free \subseteq Blocks
  /\ p.owned = [c \in DOMAIN p.owned |-> p.owned[c]]
  /\ \A c : Bl(p, c) \in Seq(Blocks)
  /\ \A c : \A i \in 1 .. Len(Bl(p, c)) : Bl(p, c)[i] \notin p.free
  /\ \A c, d : \A i \in 1 .. Len(Bl(p, c)), j \in 1 .. Len(Bl(p, d)) :
       Bl(p, c)[i] = Bl(p, d)[j] => c = d /\ i = j

Uses(p, b) == \E c : \E i \in 1 .. Len(Bl(p, c)) : Bl(p, c)[i] = b

LEMMA BlocksAre ==
  ASSUME NEW p, NEW c
  PROVE  /\ c \in DOMAIN p.owned => Bl(p, c) = p.owned[c]
         /\ c \notin DOMAIN p.owned => Bl(p, c) = <<>> /\ Len(Bl(p, c)) = 0
BY DEF Bl, Paged!BlocksOf

LEMMA RangeIs ==
  ASSUME NEW f
  PROVE  Paged!Range(f) = {f[x] : x \in DOMAIN f}
BY DEF Paged!Range

LEMMA AllBlocksIs ==
  ASSUME NEW p, Proper(p), NEW b
  PROVE  b \in Paged!AllBlocks(p) <=> b \in p.free \/ Uses(p, b)
<1> DEFINE held(c) == {p.owned[c][x] : x \in DOMAIN p.owned[c]}
<1>1. Paged!AllBlocks(p) = p.free \union UNION {held(c) : c \in DOMAIN p.owned}
  BY RangeIs DEF Paged!AllBlocks, Paged!Held
<1>2. b \in UNION {held(c) : c \in DOMAIN p.owned} <=> \E c \in DOMAIN p.owned : b \in held(c)
  OBVIOUS
<1>3. \A c \in DOMAIN p.owned : b \in held(c) <=> \E i \in 1 .. Len(Bl(p, c)) : Bl(p, c)[i] = b
  <2> SUFFICES ASSUME NEW c \in DOMAIN p.owned
               PROVE  b \in held(c) <=> \E i \in 1 .. Len(Bl(p, c)) : Bl(p, c)[i] = b
    OBVIOUS
  <2>1. Bl(p, c) = p.owned[c] /\ Bl(p, c) \in Seq(Blocks)
    BY BlocksAre DEF Proper
  <2>2. DOMAIN Bl(p, c) = 1 .. Len(Bl(p, c))
    BY <2>1
  <2> QED
    BY <2>1, <2>2
<1>4. \A c : c \notin DOMAIN p.owned => ~\E i \in 1 .. Len(Bl(p, c)) : Bl(p, c)[i] = b
  BY BlocksAre
<1> HIDE DEF held
<1> QED
  BY <1>1, <1>2, <1>3, <1>4 DEF Uses

(* Two pools of the same blocks. *)
LEMMA SameBlocks ==
  ASSUME NEW p, NEW q, Proper(p), Proper(q),
         \A b : b \in p.free \/ Uses(p, b) <=> b \in q.free \/ Uses(q, b)
  PROVE  Paged!AllBlocks(q) = Paged!AllBlocks(p)
BY AllBlocksIs

LEMMA NewPoolIs ==
  ASSUME NEW bs \in SUBSET Blocks
  PROVE  /\ Proper(Paged!NewPool(bs)) /\ Paged!AllBlocks(Paged!NewPool(bs)) = bs
         /\ DOMAIN Paged!NewPool(bs).owned = {}
<1> DEFINE p == Paged!NewPool(bs)
<1>1. p.free = bs /\ DOMAIN p.owned = {} /\ p = [free |-> p.free, owned |-> p.owned]
      /\ p.owned = [c \in DOMAIN p.owned |-> p.owned[c]]
  BY DEF Paged!NewPool
<1>2. \A c : Bl(p, c) = <<>> /\ Len(Bl(p, c)) = 0
  <2> HIDE DEF p
  <2> QED
    BY <1>1, BlocksAre
<1>3. <<>> \in Seq(Blocks)
  OBVIOUS
<1> HIDE DEF p
<1>4. \A c : Bl(p, c) \in Seq(Blocks) /\ \A i : i \notin 1 .. Len(Bl(p, c))
  <2> DEFINE none == <<>>
  <2>1. none \in Seq(Blocks) /\ \A c : Bl(p, c) = none /\ Len(Bl(p, c)) = 0
    BY <1>2, <1>3
  <2>2. \A i : i \notin 1 .. 0
    OBVIOUS
  <2> HIDE DEF none
  <2> QED
    BY <2>1, <2>2
<1>5. Proper(p)
  BY <1>1, <1>4 DEF Proper
<1>6. \A b : b \in Paged!AllBlocks(p) <=> b \in bs
  BY <1>1, <1>4, <1>5, AllBlocksIs DEF Uses
<1>7. Paged!AllBlocks(p) = bs
  BY <1>6
<1> QED
  BY <1>1, <1>5, <1>7 DEF p

(* A pool in which every context holds what it held and then some blocks   *)
(* that were free, no block twice.                                         *)
LEMMA GrantedIs ==
  ASSUME NEW p, Proper(p), NEW cs, NEW need, \A c \in cs : need[c] \in Nat,
         NEW take \in Paged!Injection(Paged!Wanted(p, cs, need), p.free)
  PROVE  LET q == Paged!Granted(p, cs, need, take) IN
         /\ Proper(q) /\ Paged!AllBlocks(q) = Paged!AllBlocks(p)
         /\ DOMAIN q.owned \subseteq DOMAIN p.owned \union cs
         /\ \A c \in cs : Paged!Cover(need[c]) <= Len(Bl(q, c))
         /\ \A c : /\ Len(Bl(p, c)) <= Len(Bl(q, c))
                   /\ \A i \in 1 .. Len(Bl(p, c)) : Bl(q, c)[i] = Bl(p, c)[i]
<1> DEFINE q == Paged!Granted(p, cs, need, take)
           n(c) == IF c \in cs THEN Paged!Missing(p, c, need[c]) ELSE 0
           len(c) == Len(Bl(p, c))
           more(c) == [i \in 1 .. n(c) |-> take[<<c, i>>]]
           W == Paged!Wanted(p, cs, need)
<1>1. \A c : Bl(p, c) \in Seq(Blocks) /\ len(c) \in Nat
  BY DEF Proper
<1>2. \A c : n(c) \in Nat /\ (c \in cs => Paged!Cover(need[c]) <= len(c) + n(c))
  <2>1. \A c \in cs : Paged!Cover(need[c]) \in Int
    BY SizesAssumption DEF Paged!Cover
  <2> QED
    BY <1>1, <2>1 DEF Paged!Missing, Bl
<1>3. \A c, i : <<c, i>> \in W <=> c \in cs /\ i \in 1 .. n(c)
  <2> DEFINE each(c) == {c} \X (1 .. n(c))
  <2>1. W = UNION {{c} \X (1 .. Paged!Missing(p, c, need[c])) : c \in cs}
    BY DEF Paged!Wanted
  <2>2. W = UNION {each(c) : c \in cs}
    BY <2>1
  <2>3. \A c, d, i : <<c, i>> \in each(d) <=> c = d /\ i \in 1 .. n(d)
    OBVIOUS
  <2> HIDE DEF each, W
  <2>4. \A x : x \in W <=> \E d \in cs : x \in each(d)
    BY <2>2
  <2> QED
    BY <2>3, <2>4
<1> HIDE DEF n
<1>4. /\ take \in [W -> p.free] /\ \A x, y \in W : take[x] = take[y] => x = y
  BY DEF Paged!Injection, Paged!IsInjective
<1> HIDE DEF W
<1>5. /\ \A c \in cs : \A i \in 1 .. n(c) : take[<<c, i>>] \in p.free
      /\ \A c, d \in cs : \A i \in 1 .. n(c), j \in 1 .. n(d) :
           take[<<c, i>>] = take[<<d, j>>] => c = d /\ i = j
  <2>1. ASSUME NEW c \in cs, NEW d \in cs, NEW i \in 1 .. n(c), NEW j \in 1 .. n(d),
               take[<<c, i>>] = take[<<d, j>>]
        PROVE  c = d /\ i = j
    <3>1. <<c, i>> = <<d, j>>
      BY <1>3, <1>4, <2>1
    <3> QED
      BY <3>1
  <2>2. ASSUME NEW c \in cs, NEW i \in 1 .. n(c) PROVE take[<<c, i>>] \in p.free
    BY <1>3, <1>4
  <2> QED
    BY <2>1, <2>2
<1>6. \A b : b \in Paged!Range(take) <=> \E c \in cs : \E i \in 1 .. n(c) : take[<<c, i>>] = b
  <2> DEFINE pairs(c) == {c} \X (1 .. n(c))
  <2>1. Paged!Range(take) = {take[x] : x \in W}
    BY <1>4, RangeIs
  <2>2. \A x \in W : \E c \in cs : \E i \in 1 .. n(c) : x = <<c, i>>
    <3>1. W = UNION {{c} \X (1 .. Paged!Missing(p, c, need[c])) : c \in cs}
      BY DEF Paged!Wanted, W
    <3>2. \A c \in cs : n(c) = Paged!Missing(p, c, need[c])
      BY DEF n
    <3> QED
      BY <3>1, <3>2
  <2>3. ASSUME NEW c \in cs, NEW i \in 1 .. n(c) PROVE take[<<c, i>>] \in Paged!Range(take)
    <3>1. <<c, i>> \in W
      BY <1>3
    <3> QED
      BY <2>1, <3>1
  <2>4. ASSUME NEW b \in Paged!Range(take)
        PROVE  \E c \in cs : \E i \in 1 .. n(c) : take[<<c, i>>] = b
    <3>1. PICK x \in W : take[x] = b
      BY <2>1
    <3> QED
      BY <2>2, <3>1
  <2> QED
    BY <2>3, <2>4
<1>7. /\ q.free = p.free \ Paged!Range(take)
      /\ DOMAIN q.owned \subseteq DOMAIN p.owned \union cs
      /\ q = [free |-> q.free, owned |-> q.owned]
      /\ q.owned = [c \in DOMAIN q.owned |-> q.owned[c]]
  BY DEF Paged!Granted
<1>8. \A c : /\ more(c) \in Seq(Blocks) /\ Len(more(c)) = n(c)
             /\ \A i \in 1 .. n(c) : more(c)[i] = take[<<c, i>>]
  <2> SUFFICES ASSUME NEW c
               PROVE  /\ more(c) \in Seq(Blocks) /\ Len(more(c)) = n(c)
                      /\ \A i \in 1 .. n(c) : more(c)[i] = take[<<c, i>>]
    OBVIOUS
  <2>1. \A i \in 1 .. n(c) : take[<<c, i>>] \in Blocks
    <3>1. c \notin cs => n(c) = 0
      BY DEF n
    <3> QED
      BY <1>5, <3>1 DEF Proper
  <2> DEFINE m == n(c)
             value(i) == take[<<c, i>>]
  <2>2. m \in Nat /\ \A i \in 1 .. m : value(i) \in Blocks
    BY <1>2, <2>1
  <2> HIDE DEF m, value
  <2>3. LET t == [i \in 1 .. m |-> value(i)] IN
          t \in Seq(Blocks) /\ Len(t) = m /\ \A i \in 1 .. m : t[i] = value(i)
    BY <2>2
  <2> QED
    BY <2>3 DEF m, value
<1>9. \A c : Bl(q, c) = Bl(p, c) \o more(c)
  <2> SUFFICES ASSUME NEW c PROVE Bl(q, c) = Bl(p, c) \o more(c)
    OBVIOUS
  <2> DEFINE old == Bl(p, c)
  <2>1. n(c) = 0 => old \o more(c) = old
    <3>1. more(c) \in Seq(Blocks) /\ Len(more(c)) = n(c) /\ old \in Seq(Blocks)
      BY <1>1, <1>8
    <3> DEFINE t == more(c)
    <3> HIDE DEF t, old
    <3> QED
      BY <3>1 DEF t
  <2>2. DOMAIN q.owned = DOMAIN p.owned \union {d \in cs : Paged!Missing(p, d, need[d]) > 0}
    BY DEF Paged!Granted
  <2>3. c \in cs /\ c \in DOMAIN q.owned => q.owned[c] = old \o more(c)
    <3>1. c \in cs => n(c) = Paged!Missing(p, c, need[c])
      BY DEF n
    <3> QED
      BY <3>1 DEF Paged!Granted, Bl
  <2>4. c \notin cs /\ c \in DOMAIN q.owned => q.owned[c] = p.owned[c] /\ c \in DOMAIN p.owned
    BY DEF Paged!Granted
  <2> HIDE DEF q, more
  <2>5. CASE c \in cs
    <3>1. c \notin DOMAIN q.owned => n(c) = 0 /\ c \notin DOMAIN p.owned
      <4>1. n(c) = Paged!Missing(p, c, need[c]) /\ n(c) \in Nat
        BY <1>2, <2>5 DEF n
      <4> QED
        BY <2>2, <2>5, <4>1
    <3> QED
      BY <2>1, <2>3, <2>5, <3>1, BlocksAre
  <2>6. CASE c \notin cs
    <3>1. n(c) = 0
      BY <2>6 DEF n
    <3> QED
      BY <2>1, <2>2, <2>4, <2>6, <3>1, BlocksAre
  <2> QED
    BY <2>5, <2>6
<1> HIDE DEF q, more
<1>10. \A c : /\ Bl(q, c) \in Seq(Blocks) /\ Len(Bl(q, c)) = len(c) + n(c)
              /\ \A i \in 1 .. len(c) : Bl(q, c)[i] = Bl(p, c)[i]
              /\ \A i \in len(c) + 1 .. len(c) + n(c) :
                   i - len(c) \in 1 .. n(c) /\ Bl(q, c)[i] = take[<<c, i - len(c)>>]
  <2> SUFFICES ASSUME NEW c
               PROVE  /\ Bl(q, c) \in Seq(Blocks) /\ Len(Bl(q, c)) = len(c) + n(c)
                      /\ \A i \in 1 .. len(c) : Bl(q, c)[i] = Bl(p, c)[i]
                      /\ \A i \in len(c) + 1 .. len(c) + n(c) :
                           i - len(c) \in 1 .. n(c) /\ Bl(q, c)[i] = take[<<c, i - len(c)>>]
    OBVIOUS
  <2> DEFINE s == Bl(p, c)
             t == more(c)
             m == n(c)
  <2>1. s \in Seq(Blocks) /\ t \in Seq(Blocks) /\ Len(t) = m /\ Bl(q, c) = s \o t /\ m \in Nat
        /\ \A i \in 1 .. m : t[i] = take[<<c, i>>]
    BY <1>1, <1>2, <1>8, <1>9
  <2> HIDE DEF s, t, m
  <2>2. /\ s \o t \in Seq(Blocks) /\ Len(s \o t) = Len(s) + m
        /\ \A i \in 1 .. Len(s) : (s \o t)[i] = s[i]
    <3>1. s \in Seq(Blocks) /\ t \in Seq(Blocks) /\ Len(t) = m
      BY <2>1
    <3>2. s \o t \in Seq(Blocks) /\ Len(s \o t) = Len(s) + Len(t)
      BY <3>1
    <3>3. \A i \in 1 .. Len(s) : (s \o t)[i] = s[i]
      BY <3>1
    <3> QED
      BY <3>1, <3>2, <3>3
  <2>3. ASSUME NEW i \in Len(s) + 1 .. Len(s) + m
        PROVE  i - Len(s) \in 1 .. m /\ (s \o t)[i] = t[i - Len(s)]
    <3>1. Len(s) \in Nat /\ i \in 1 .. Len(s) + Len(t) /\ i > Len(s)
      BY <2>1
    <3> QED
      BY <2>1, <3>1
  <2>4. \A i \in Len(s) + 1 .. Len(s) + m :
          i - Len(s) \in 1 .. m /\ Bl(q, c)[i] = take[<<c, i - Len(s)>>]
    BY <2>1, <2>3
  <2> QED
    BY <2>1, <2>2, <2>4 DEF s, m
<1>11. \A c : n(c) # 0 => c \in cs
  BY DEF n
<1>12. Proper(q)
  <2>1. ASSUME NEW c, NEW i \in 1 .. Len(Bl(q, c)) PROVE Bl(q, c)[i] \notin q.free
    <3>1. CASE i \in 1 .. len(c)
      BY <1>7, <1>10, <3>1, SMTT(30) DEF Proper
    <3>2. CASE i \in len(c) + 1 .. len(c) + n(c)
      <4>1. c \in cs /\ i - len(c) \in 1 .. n(c) /\ Bl(q, c)[i] = take[<<c, i - len(c)>>]
        BY <1>1, <1>2, <1>10, <1>11, <3>2
      <4> QED
        BY <1>6, <1>7, <4>1
    <3> QED
      BY <1>1, <1>2, <1>10, <3>1, <3>2
  <2>2. ASSUME NEW c, NEW d, NEW i \in 1 .. Len(Bl(q, c)), NEW j \in 1 .. Len(Bl(q, d)),
               Bl(q, c)[i] = Bl(q, d)[j]
        PROVE  c = d /\ i = j
    <3>1. ASSUME NEW e, NEW k \in len(e) + 1 .. len(e) + n(e)
          PROVE  /\ e \in cs /\ k - len(e) \in 1 .. n(e) /\ k \in Nat
                 /\ Bl(q, e)[k] = take[<<e, k - len(e)>>] /\ Bl(q, e)[k] \in p.free
      <4>1. len(e) \in Nat /\ n(e) \in Nat /\ n(e) # 0
        BY <1>1, <1>2
      <4>2. /\ e \in cs /\ k - len(e) \in 1 .. n(e) /\ k \in Nat
            /\ Bl(q, e)[k] = take[<<e, k - len(e)>>]
        BY <1>10, <1>11, <4>1
      <4> QED
        BY <1>5, <4>2
    <3>2. \A e, k : k \in 1 .. len(e) => Bl(q, e)[k] = Bl(p, e)[k] /\ Bl(q, e)[k] \notin p.free
      BY <1>10 DEF Proper
    <3>3. CASE i \in 1 .. len(c) /\ j \in 1 .. len(d)
      BY <2>2, <3>2, <3>3 DEF Proper
    <3>4. CASE i \in len(c) + 1 .. len(c) + n(c) /\ j \in len(d) + 1 .. len(d) + n(d)
      <4>1. /\ c \in cs /\ i - len(c) \in 1 .. n(c) /\ d \in cs /\ j - len(d) \in 1 .. n(d)
            /\ take[<<c, i - len(c)>>] = take[<<d, j - len(d)>>]
        BY <2>2, <3>1, <3>4
      <4>2. c = d /\ i - len(c) = j - len(d)
        BY <1>5, <4>1
      <4> QED
        BY <1>1, <3>1, <3>4, <4>2
    <3>5. (i \in 1 .. len(c) \/ i \in len(c) + 1 .. len(c) + n(c))
          /\ (j \in 1 .. len(d) \/ j \in len(d) + 1 .. len(d) + n(d))
      BY <1>1, <1>2, <1>10
    <3> QED
      BY <2>2, <3>1, <3>2, <3>3, <3>4, <3>5
  <2> QED
    BY <1>7, <1>10, <2>1, <2>2 DEF Proper
<1>13. Paged!AllBlocks(q) = Paged!AllBlocks(p)
  <2>1. ASSUME NEW b, Uses(p, b) PROVE Uses(q, b)
    <3>1. PICK c : \E i \in 1 .. Len(Bl(p, c)) : Bl(p, c)[i] = b
      BY <2>1 DEF Uses
    <3>2. PICK i \in 1 .. Len(Bl(p, c)) : Bl(p, c)[i] = b
      BY <3>1
    <3>3. i \in 1 .. Len(Bl(q, c)) /\ Bl(q, c)[i] = b
      BY <1>1, <1>2, <1>10, <3>2
    <3> QED
      BY <3>3 DEF Uses
  <2>2. ASSUME NEW b \in Paged!Range(take) PROVE Uses(q, b) /\ b \in p.free
    <3>1. PICK c \in cs : \E i \in 1 .. n(c) : take[<<c, i>>] = b
      BY <1>6
    <3>2. PICK i \in 1 .. n(c) : take[<<c, i>>] = b
      BY <3>1
    <3>3. len(c) + i \in 1 .. Len(Bl(q, c)) /\ Bl(q, c)[len(c) + i] = b
      <4> DEFINE x == len(c) + i
      <4>1. /\ x \in len(c) + 1 .. len(c) + n(c) /\ x - len(c) = i
            /\ x \in 1 .. len(c) + n(c)
        BY <1>1, <1>2
      <4>2. Len(Bl(q, c)) = len(c) + n(c)
        BY <1>10
      <4> HIDE DEF x
      <4>3. Bl(q, c)[x] = take[<<c, x - len(c)>>]
        BY <1>10, <4>1
      <4> QED
        BY <3>2, <4>1, <4>2, <4>3 DEF x
    <3> QED
      BY <1>5, <3>2, <3>3 DEF Uses
  <2>3. ASSUME NEW b, Uses(q, b) PROVE Uses(p, b) \/ b \in Paged!Range(take)
    <3>1. PICK c : \E i \in 1 .. Len(Bl(q, c)) : Bl(q, c)[i] = b
      BY <2>3 DEF Uses
    <3>2. PICK i \in 1 .. Len(Bl(q, c)) : Bl(q, c)[i] = b
      BY <3>1
    <3>3. CASE i \in 1 .. len(c)
      BY <1>10, <3>2, <3>3 DEF Uses
    <3>4. CASE i \in len(c) + 1 .. len(c) + n(c)
      <4>1. c \in cs /\ i - len(c) \in 1 .. n(c) /\ take[<<c, i - len(c)>>] = b
        BY <1>1, <1>2, <1>10, <1>11, <3>2, <3>4
      <4> QED
        BY <1>6, <4>1
    <3> QED
      BY <1>1, <1>2, <1>10, <3>3, <3>4
  <2>4. \A b : b \in p.free \/ Uses(p, b) <=> b \in q.free \/ Uses(q, b)
    BY <1>7, <2>1, <2>2, <2>3
  <2> QED
    BY <1>12, <2>4, SameBlocks
<1>14. \A c \in cs : Paged!Cover(need[c]) <= Len(Bl(q, c))
  BY <1>2, <1>10
<1>15. \A c : /\ Len(Bl(p, c)) <= Len(Bl(q, c))
              /\ \A i \in 1 .. Len(Bl(p, c)) : Bl(q, c)[i] = Bl(p, c)[i]
  BY <1>1, <1>2, <1>10
<1> QED
  BY <1>7, <1>12, <1>13, <1>14, <1>15 DEF q

(* A pool in which a context has given back all but its first k blocks. *)
LEMMA CutIs ==
  ASSUME NEW p, Proper(p), NEW c, NEW k \in 0 .. Len(Bl(p, c)), NEW q,
         q = [free |-> q.free, owned |-> q.owned],
         q.owned = [d \in DOMAIN q.owned |-> q.owned[d]],
         \A b : b \in q.free <=>
           b \in p.free \/ \E i \in k + 1 .. Len(Bl(p, c)) : Bl(p, c)[i] = b,
         \A d : d # c => Bl(q, d) = Bl(p, d),
         Bl(q, c) \in Seq(Blocks), Len(Bl(q, c)) = k,
         \A i \in 1 .. k : Bl(q, c)[i] = Bl(p, c)[i]
  PROVE  Proper(q) /\ Paged!AllBlocks(q) = Paged!AllBlocks(p)
<1>1. \A d : Bl(p, d) \in Seq(Blocks) /\ Len(Bl(p, d)) \in Nat
  BY DEF Proper
<1>2. k \in Nat /\ \A i \in 1 .. k : i \in 1 .. Len(Bl(p, c))
  BY <1>1
<1>3. \A d : \A i \in 1 .. Len(Bl(q, d)) :
        i \in 1 .. Len(Bl(p, d)) /\ Bl(q, d)[i] = Bl(p, d)[i] /\ (d = c => i <= k)
  <2> SUFFICES ASSUME NEW d, NEW i \in 1 .. Len(Bl(q, d))
               PROVE  /\ i \in 1 .. Len(Bl(p, d)) /\ Bl(q, d)[i] = Bl(p, d)[i]
                      /\ (d = c => i <= k)
    OBVIOUS
  <2>1. CASE d = c
    BY <1>2, <2>1
  <2>2. CASE d # c
    BY <2>2
  <2> QED
    BY <2>1, <2>2
<1>4. Proper(q)
  <2>1. q.free \subseteq Blocks
    BY <1>1, <1>2, SMTT(30) DEF Proper
  <2>2. \A d : Bl(q, d) \in Seq(Blocks)
    BY <1>1
  <2>3. ASSUME NEW d, NEW i \in 1 .. Len(Bl(q, d)) PROVE Bl(q, d)[i] \notin q.free
    <3>1. /\ i \in 1 .. Len(Bl(p, d)) /\ Bl(q, d)[i] = Bl(p, d)[i] /\ (d = c => i <= k)
          /\ Bl(p, d)[i] \notin p.free
      BY <1>3 DEF Proper
    <3>2. \A j \in k + 1 .. Len(Bl(p, c)) : Bl(p, c)[j] # Bl(p, d)[i]
      <4> SUFFICES ASSUME NEW j \in k + 1 .. Len(Bl(p, c)), Bl(p, c)[j] = Bl(p, d)[i]
                   PROVE  FALSE
        OBVIOUS
      <4>1. j \in 1 .. Len(Bl(p, c)) /\ j > k
        BY <1>1, <1>2
      <4>2. c = d /\ j = i
        BY <3>1, <4>1 DEF Proper
      <4> QED
        BY <1>2, <3>1, <4>1, <4>2
    <3> QED
      BY <3>1, <3>2
  <2>4. \A d, e : \A i \in 1 .. Len(Bl(q, d)), j \in 1 .. Len(Bl(q, e)) :
          Bl(q, d)[i] = Bl(q, e)[j] => d = e /\ i = j
    <3> SUFFICES ASSUME NEW d, NEW e, NEW i \in 1 .. Len(Bl(q, d)),
                        NEW j \in 1 .. Len(Bl(q, e)), Bl(q, d)[i] = Bl(q, e)[j]
                 PROVE  d = e /\ i = j
      OBVIOUS
    <3>1. /\ i \in 1 .. Len(Bl(p, d)) /\ j \in 1 .. Len(Bl(p, e))
          /\ Bl(p, d)[i] = Bl(p, e)[j]
      BY <1>3
    <3> QED
      BY <3>1 DEF Proper
  <2> QED
    BY <2>1, <2>2, <2>3, <2>4 DEF Proper
<1>5. \A b : b \in p.free \/ Uses(p, b) <=> b \in q.free \/ Uses(q, b)
  <2>1. ASSUME NEW b, Uses(q, b) PROVE Uses(p, b)
    BY <1>3, <2>1 DEF Uses
  <2>2. ASSUME NEW b, Uses(p, b) PROVE b \in q.free \/ Uses(q, b)
    <3>1. PICK d : \E i \in 1 .. Len(Bl(p, d)) : Bl(p, d)[i] = b
      BY <2>2 DEF Uses
    <3>2. PICK i \in 1 .. Len(Bl(p, d)) : Bl(p, d)[i] = b
      BY <3>1
    <3>3. CASE d # c
      BY <3>2, <3>3 DEF Uses
    <3>4. CASE d = c /\ i \in 1 .. k
      BY <3>2, <3>4 DEF Uses
    <3>5. CASE d = c /\ i \in k + 1 .. Len(Bl(p, c))
      BY <3>2, <3>5
    <3> QED
      BY <1>1, <1>2, <3>3, <3>4, <3>5
  <2>3. ASSUME NEW b \in q.free PROVE b \in p.free \/ Uses(p, b)
    <3>1. CASE b \in p.free
      BY <3>1
    <3>2. CASE \E i \in k + 1 .. Len(Bl(p, c)) : Bl(p, c)[i] = b
      <4>1. PICK i \in k + 1 .. Len(Bl(p, c)) : Bl(p, c)[i] = b
        BY <3>2
      <4>2. i \in 1 .. Len(Bl(p, c))
        BY <1>1, <1>2
      <4> QED
        BY <4>1, <4>2 DEF Uses
    <3> QED
      BY <3>1, <3>2
  <2> QED
    BY <2>1, <2>2, <2>3
<1>6. Paged!AllBlocks(q) = Paged!AllBlocks(p)
  BY <1>4, <1>5, SameBlocks
<1> QED
  BY <1>4, <1>6

LEMMA FreeBlocksIs ==
  ASSUME NEW p, Proper(p), NEW c
  PROVE  LET q == Paged!FreeBlocks(p, c) IN
         /\ Proper(q) /\ Paged!AllBlocks(q) = Paged!AllBlocks(p)
         /\ DOMAIN q.owned = DOMAIN p.owned \ {c}
         /\ \A d : d # c => Bl(q, d) = Bl(p, d)
<1> DEFINE q == Paged!FreeBlocks(p, c)
           s == Bl(p, c)
<1>1. s \in Seq(Blocks) /\ Len(s) \in Nat /\ DOMAIN s = 1 .. Len(s)
  BY DEF Proper
<1>2. /\ q.free = p.free \union {s[i] : i \in 1 .. Len(s)}
      /\ q.owned = [d \in DOMAIN p.owned \ {c} |-> p.owned[d]]
      /\ q = [free |-> q.free, owned |-> q.owned]
  BY <1>1, RangeIs DEF Paged!FreeBlocks, Paged!Restrict, Bl
<1> HIDE DEF q, s
<1>3. DOMAIN q.owned = DOMAIN p.owned \ {c} /\ q.owned = [d \in DOMAIN q.owned |-> q.owned[d]]
  BY <1>2
<1>4. \A d : d # c => Bl(q, d) = Bl(p, d)
  <2> SUFFICES ASSUME NEW d, d # c PROVE Bl(q, d) = Bl(p, d)
    OBVIOUS
  <2>1. d \in DOMAIN p.owned => q.owned[d] = p.owned[d]
    BY <1>2
  <2> QED
    BY <1>3, <2>1, BlocksAre
<1>5. Bl(q, c) \in Seq(Blocks) /\ Len(Bl(q, c)) = 0
  <2>1. Bl(q, c) = <<>> /\ Len(Bl(q, c)) = 0
    BY <1>3, BlocksAre
  <2>2. <<>> \in Seq(Blocks)
    OBVIOUS
  <2> DEFINE none == <<>>
  <2>3. Bl(q, c) = none /\ none \in Seq(Blocks)
    BY <2>1, <2>2
  <2> HIDE DEF none
  <2> QED
    BY <2>1, <2>3
<1>6. PICK k : k = 0
  OBVIOUS
<1>7. /\ k \in 0 .. Len(Bl(p, c)) /\ Len(Bl(q, c)) = k
      /\ \A i \in 1 .. k : Bl(q, c)[i] = Bl(p, c)[i]
      /\ \A b : b \in q.free <=>
           b \in p.free \/ \E i \in k + 1 .. Len(Bl(p, c)) : Bl(p, c)[i] = b
  <2>1. k + 1 = 1
    BY <1>6
  <2>2. \A b : b \in q.free <=>
          b \in p.free \/ \E i \in k + 1 .. Len(Bl(p, c)) : Bl(p, c)[i] = b
    BY <1>2, <2>1 DEF s
  <2> QED
    BY <1>1, <1>5, <1>6, <2>2 DEF s
<1>8. Proper(q) /\ Paged!AllBlocks(q) = Paged!AllBlocks(p)
  <2>1. q = [free |-> q.free, owned |-> q.owned]
    BY <1>2
  <2>2. q.owned = [d \in DOMAIN q.owned |-> q.owned[d]]
    BY <1>3
  <2>3. Bl(q, c) \in Seq(Blocks)
    BY <1>5
  <2> QED
    BY <1>4, <1>7, <2>1, <2>2, <2>3, CutIs
<1> QED
  BY <1>3, <1>4, <1>8 DEF q

LEMMA ShrunkIs ==
  ASSUME NEW p, Proper(p), NEW c, NEW n \in Nat
  PROVE  LET q == Paged!Shrunk(p, c, n) IN
         /\ Proper(q) /\ Paged!AllBlocks(q) = Paged!AllBlocks(p)
         /\ DOMAIN q.owned \subseteq DOMAIN p.owned
         /\ \A d : d # c => Bl(q, d) = Bl(p, d)
         /\ Len(Bl(q, c)) <= Len(Bl(p, c))
         /\ Paged!Cover(n) <= Len(Bl(p, c)) => Paged!Cover(n) <= Len(Bl(q, c))
         /\ \A i \in 1 .. Len(Bl(q, c)) : Bl(q, c)[i] = Bl(p, c)[i]
<1> DEFINE q == Paged!Shrunk(p, c, n)
           s == Bl(p, c)
           k == Paged!Cover(n)
<1>1. s \in Seq(Blocks) /\ Len(s) \in Nat /\ k \in Nat
  <2>1. k \in Nat
    BY SizesAssumption DEF Paged!Cover
  <2> QED
    BY <2>1 DEF Proper
<1> HIDE DEF k
<1>2. CASE kind = "shared" \/ Len(s) <= k
  <2>1. q = p
    BY <1>2 DEF Paged!Shrunk, Bl, k
  <2> HIDE DEF q
  <2> QED
    BY <1>1, <2>1 DEF q, k
<1>3. CASE ~(kind = "shared" \/ Len(s) <= k)
  <2> DEFINE tail == SubSeq(s, k + 1, Len(s))
             head == SubSeq(s, 1, k)
  <2>1. /\ head \in Seq(Blocks) /\ Len(head) = k /\ \A i \in 1 .. k : head[i] = s[i]
        /\ DOMAIN tail = 1 .. Len(s) - k /\ \A i \in 1 .. Len(s) - k : tail[i] = s[k + i]
    <3>1. k < Len(s)
      BY <1>1, <1>3
    <3> HIDE DEF s
    <3> QED
      BY <1>1, <3>1
  <2>2. c \in DOMAIN p.owned
    BY <1>1, <1>3, BlocksAre
  <2>3. q = [free |-> p.free \union Paged!Range(tail),
             owned |-> [d \in DOMAIN p.owned \union {c} |-> IF d = c THEN head ELSE p.owned[d]]]
    BY <1>3 DEF Paged!Shrunk, Paged!Put, Bl, k
  <2> HIDE DEF q, tail, head
  <2>4. /\ q.free = p.free \union Paged!Range(tail) /\ DOMAIN q.owned = DOMAIN p.owned
        /\ q = [free |-> q.free, owned |-> q.owned]
        /\ q.owned = [d \in DOMAIN q.owned |-> q.owned[d]]
        /\ q.owned[c] = head /\ \A d \in DOMAIN p.owned \ {c} : q.owned[d] = p.owned[d]
    BY <2>2, <2>3
  <2>5. \A d : d # c => Bl(q, d) = Bl(p, d)
    <3> SUFFICES ASSUME NEW d, d # c PROVE Bl(q, d) = Bl(p, d)
      OBVIOUS
    <3>1. d \in DOMAIN p.owned => q.owned[d] = p.owned[d]
      BY <2>4
    <3> QED
      BY <2>4, <3>1, BlocksAre
  <2>6. Bl(q, c) = head
    BY <2>2, <2>4, BlocksAre
  <2>7. \A b : b \in Paged!Range(tail) <=> \E i \in k + 1 .. Len(s) : s[i] = b
    <3>1. Paged!Range(tail) = {tail[i] : i \in 1 .. Len(s) - k}
      BY <2>1, RangeIs
    <3>2. \A i \in 1 .. Len(s) - k : k + i \in k + 1 .. Len(s)
      BY <1>1
    <3>3. \A i \in k + 1 .. Len(s) : i - k \in 1 .. Len(s) - k /\ k + (i - k) = i
      BY <1>1
    <3> HIDE DEF s
    <3> QED
      BY <2>1, <3>1, <3>2, <3>3
  <2>8. Proper(q) /\ Paged!AllBlocks(q) = Paged!AllBlocks(p)
    <3>1. k \in 0 .. Len(Bl(p, c))
      BY <1>1, <1>3
    <3>2. \A b : b \in q.free <=>
            b \in p.free \/ \E i \in k + 1 .. Len(Bl(p, c)) : Bl(p, c)[i] = b
      BY <2>4, <2>7
    <3>3. /\ Bl(q, c) \in Seq(Blocks) /\ Len(Bl(q, c)) = k
          /\ \A i \in 1 .. k : Bl(q, c)[i] = Bl(p, c)[i]
      BY <2>1, <2>6
    <3> QED
      BY <2>4, <2>5, <3>1, <3>2, <3>3, CutIs
  <2>9. Len(Bl(q, c)) = k /\ \A i \in 1 .. k : Bl(q, c)[i] = Bl(p, c)[i]
    BY <2>1, <2>6
  <2> QED
    BY <1>1, <1>3, <2>4, <2>5, <2>8, <2>9 DEF q, k
<1> QED
  BY <1>2, <1>3

-----------------------------------------------------------------------------
(* The paged caches: slots                                                 *)

LEMMA Coverage ==
  ASSUME NEW n \in Nat
  PROVE  /\ Paged!Cover(n) \in Nat
         /\ \A x \in 0 .. n - 1 : x \div BlockSize + 1 \in 1 .. Paged!Cover(n)
<1>1. Paged!Cover(n) = K!NumBlocks(n)
  BY DEF Paged!Cover, K!NumBlocks, K!Ceil
<1>2. /\ K!NumBlocks(n) \in Nat
      /\ \A x \in 0 .. n - 1 : x \div BlockSize \in 0 .. K!NumBlocks(n) - 1
  BY SizesAssumption, K!BlocksHold
<1> HIDE DEF K!NumBlocks
<1> QED
  BY <1>1, <1>2

(* A slot in the pool tells the context and the position it is of. *)
LEMMA SlotIs ==
  ASSUME NEW p, Proper(p), NEW c, NEW d, NEW x \in Nat, NEW y \in Nat,
         x \div BlockSize + 1 \in 1 .. Len(Bl(p, c)),
         y \div BlockSize + 1 \in 1 .. Len(Bl(p, d)),
         Paged!Slot(Bl(p, c), x) = Paged!Slot(Bl(p, d), y)
  PROVE  c = d /\ x = y
<1> DEFINE u == x \div BlockSize
           v == y \div BlockSize
<1>1. /\ Bl(p, c)[u + 1] = Bl(p, d)[v + 1]
      /\ x % BlockSize = y % BlockSize
  BY DEF Paged!Slot
<1>2. c = d /\ u + 1 = v + 1
  BY <1>1 DEF Proper
<1>3. BlockSize \in Nat \ {0}
  BY SizesAssumption
<1>4. u \in Int /\ v \in Int
  BY <1>3
<1>5. u = v
  BY <1>2, <1>4
<1>6. x % BlockSize = x - BlockSize * u /\ y % BlockSize = y - BlockSize * v
  BY <1>3
<1>7. BlockSize * u \in Int
  BY <1>3, <1>4
<1> HIDE DEF u, v
<1> QED
  BY <1>1, <1>2, <1>5, <1>6, <1>7

LEMMA SlotIn ==
  ASSUME NEW p, Proper(p), NEW c, NEW x \in Nat,
         x \div BlockSize + 1 \in 1 .. Len(Bl(p, c))
  PROVE  Paged!Slot(Bl(p, c), x) \in Paged!AllBlocks(p) \X (0 .. BlockSize - 1)
<1>1. Bl(p, c)[x \div BlockSize + 1] \in Paged!AllBlocks(p)
  BY AllBlocksIs DEF Uses
<1>2. x % BlockSize \in 0 .. BlockSize - 1
  BY SizesAssumption
<1> QED
  BY <1>1, <1>2 DEF Paged!Slot

(* What is stored, and what is left alone. *)
LEMMA StoredIs ==
  ASSUME NEW cells, NEW S, NEW slots, NEW new, DOMAIN slots = S,
         \A c \in S, d \in S : \A i \in DOMAIN slots[c], j \in DOMAIN slots[d] :
           slots[c][i] = slots[d][j] => c = d /\ i = j
  PROVE  LET t == Paged!Stored(cells, slots, new) IN
         /\ DOMAIN t = DOMAIN cells
         /\ \A s \in DOMAIN cells :
              (\A c \in S : \A i \in DOMAIN slots[c] : slots[c][i] # s) => t[s] = cells[s]
         /\ \A c \in S : \A i \in DOMAIN slots[c] :
              slots[c][i] \in DOMAIN cells => t[slots[c][i]] = new[c][i]
<1> DEFINE t == Paged!Stored(cells, slots, new)
           places == UNION {{c} \X DOMAIN slots[c] : c \in S}
           here(s) == {x \in places : slots[x[1]][x[2]] = s}
<1>1. t = [s \in DOMAIN cells |->
             IF here(s) = {} THEN cells[s]
             ELSE LET x == CHOOSE x \in here(s) : TRUE IN new[x[1]][x[2]]]
  BY DEF Paged!Stored
<1>2. \A x : x \in places <=> \E c \in S : \E i \in DOMAIN slots[c] : x = <<c, i>>
  OBVIOUS
<1> HIDE DEF places
<1>3. \A s, x : x \in here(s) <=>
        \E c \in S : \E i \in DOMAIN slots[c] : x = <<c, i>> /\ slots[c][i] = s
  BY <1>2
<1> HIDE DEF here
<1>4. ASSUME NEW s \in DOMAIN cells, \A c \in S : \A i \in DOMAIN slots[c] : slots[c][i] # s
      PROVE  t[s] = cells[s]
  <2>1. here(s) = {}
    BY <1>3, <1>4
  <2> QED
    BY <1>1, <2>1
<1>5. ASSUME NEW c \in S, NEW i \in DOMAIN slots[c], slots[c][i] \in DOMAIN cells
      PROVE  t[slots[c][i]] = new[c][i]
  <2> DEFINE s == slots[c][i]
             x == CHOOSE x \in here(s) : TRUE
  <2>1. <<c, i>> \in here(s)
    BY <1>3
  <2>2. x \in here(s)
    BY <2>1
  <2>3. t[s] = new[x[1]][x[2]]
    BY <1>1, <1>5, <2>1
  <2> HIDE DEF x
  <2>4. PICK d \in S : \E j \in DOMAIN slots[d] : x = <<d, j>> /\ slots[d][j] = s
    BY <1>3, <2>2
  <2>5. PICK j \in DOMAIN slots[d] : x = <<d, j>> /\ slots[d][j] = s
    BY <2>4
  <2>6. d = c /\ j = i
    BY <2>5
  <2> QED
    BY <2>3, <2>5, <2>6
<1>6. DOMAIN t = DOMAIN cells
  BY <1>1
<1> QED
  BY <1>4, <1>5, <1>6

-----------------------------------------------------------------------------
(* The paged caches: what attention reads                                  *)

LEMMA LoadedIs ==
  ASSUME NEW cells, NEW b, NEW n \in Nat
  PROVE  LET s == Paged!Loaded(cells, b, n) IN
         /\ DOMAIN s = 1 .. n /\ Len(s) = n
         /\ \A i \in 1 .. n : s[i] = cells[Paged!Slot(b, i - 1)]
         /\ s = [i \in 1 .. n |-> cells[Paged!Slot(b, i - 1)]]
BY DEF Paged!Loaded

LEMMA LoadedNone ==
  ASSUME NEW cells, NEW b
  PROVE  Paged!Loaded(cells, b, 0) = <<>>
BY DEF Paged!Loaded

LEMMA LoadedSame ==
  ASSUME NEW cells, NEW b, NEW t, NEW q, NEW n \in Nat,
         \A x \in 0 .. n - 1 : t[Paged!Slot(q, x)] = cells[Paged!Slot(b, x)]
  PROVE  Paged!Loaded(t, q, n) = Paged!Loaded(cells, b, n)
<1>1. \A i \in 1 .. n : i - 1 \in 0 .. n - 1
  OBVIOUS
<1>2. \A i \in 1 .. n : t[Paged!Slot(q, i - 1)] = cells[Paged!Slot(b, i - 1)]
  BY <1>1
<1> QED
  BY <1>2 DEF Paged!Loaded

(* After a layer: the old entries, then the new ones. *)
Appended(t, cells, b, n, e) ==
  /\ \A x \in 0 .. n - 1 : t[Paged!Slot(b, x)] = cells[Paged!Slot(b, x)]
  /\ \A i \in 1 .. Len(e) : t[Paged!Slot(b, n + i - 1)] = e[i]

Joined(s, e) == s \o e

LEMMA LoadedJoins ==
  ASSUME NEW cells, NEW b, NEW t, NEW n \in Nat, NEW e \in Seq(Values),
         Paged!Loaded(cells, b, n) \in Seq(Values), Appended(t, cells, b, n, e),
         NEW m, m = n + Len(e)
  PROVE  Paged!Loaded(t, b, m) = Joined(Paged!Loaded(cells, b, n), e)
<1> DEFINE s == Paged!Loaded(cells, b, n)
           u == Paged!Loaded(t, b, m)
           v == s \o e
<1>1. /\ s \in Seq(Values) /\ e \in Seq(Values) /\ Len(s) = n /\ Len(e) \in Nat
      /\ \A i \in 1 .. n : s[i] = cells[Paged!Slot(b, i - 1)]
  BY LoadedIs
<1>2. m \in Nat
  BY <1>1
<1>3. /\ u = [i \in 1 .. m |-> u[i]]
      /\ \A i \in 1 .. m : u[i] = t[Paged!Slot(b, i - 1)]
  <2>1. /\ u = [i \in 1 .. m |-> t[Paged!Slot(b, i - 1)]]
    BY <1>2, LoadedIs, SMTT(30)
  <2> HIDE DEF u
  <2> QED
    BY <2>1
<1> HIDE DEF s, u
<1>4. v \in Seq(Values) /\ Len(v) = m
  <2>1. s \in Seq(Values) /\ e \in Seq(Values)
    BY <1>1
  <2>2. v \in Seq(Values) /\ Len(v) = Len(s) + Len(e)
    BY <2>1
  <2> HIDE DEF v
  <2> QED
    BY <1>1, <2>2
<1>5. \A i \in 1 .. n : v[i] = s[i]
  BY <1>1
<1>6. ASSUME NEW i \in n + 1 .. m PROVE i - n \in 1 .. Len(e) /\ v[i] = e[i - n]
  <2>1. i \in 1 .. Len(s) + Len(e) /\ i > Len(s) /\ i - n \in 1 .. Len(e)
    BY <1>1
  <2> QED
    BY <1>1, <2>1
<1> HIDE DEF v
<1>7. v = [i \in 1 .. m |-> v[i]]
  BY <1>2, <1>4
<1>8. ASSUME NEW i \in 1 .. m PROVE u[i] = v[i]
  <2>1. CASE i \in 1 .. n
    <3>1. i - 1 \in 0 .. n - 1
      BY <2>1
    <3> QED
      BY <1>1, <1>3, <1>5, <2>1, <3>1 DEF Appended
  <2>2. CASE i \in n + 1 .. m
    <3>1. i - n \in 1 .. Len(e) /\ n + (i - n) - 1 = i - 1
      BY <1>2, <1>6, <2>2
    <3> QED
      BY <1>3, <1>6, <2>2, <3>1 DEF Appended
  <2> QED
    BY <1>2, <2>1, <2>2
<1>9. u = v
  BY <1>3, <1>7, <1>8
<1> QED
  BY <1>9 DEF u, v, s, Joined

(* After a trim: the first entries. *)
LEMMA LoadedCut ==
  ASSUME NEW cells, NEW b, NEW q, NEW n \in Nat, NEW k \in 0 .. n,
         Paged!Loaded(cells, b, n) \in Seq(Values),
         \A x \in 0 .. k - 1 : cells[Paged!Slot(q, x)] = cells[Paged!Slot(b, x)]
  PROVE  Paged!Loaded(cells, q, k) = SubSeq(Paged!Loaded(cells, b, n), 1, k)
<1> DEFINE s == Paged!Loaded(cells, b, n)
           v == SubSeq(s, 1, k)
<1>1. /\ s \in Seq(Values) /\ Len(s) = n /\ k \in Nat
      /\ \A i \in 1 .. n : s[i] = cells[Paged!Slot(b, i - 1)]
  BY LoadedIs
<1> HIDE DEF s
<1>2. /\ v \in Seq(Values) /\ Len(v) = k
      /\ \A i \in 1 .. k : v[i] = s[i]
  BY <1>1
<1>3. v = [i \in 1 .. k |-> v[i]]
  BY <1>2
<1> HIDE DEF v
<1>4. \A i \in 1 .. k : i \in 1 .. n /\ i - 1 \in 0 .. k - 1
  BY <1>1
<1>5. \A i \in 1 .. k : v[i] = cells[Paged!Slot(q, i - 1)]
  BY <1>1, <1>2, <1>4
<1>6. Paged!Loaded(cells, q, k) = v
  BY <1>3, <1>5 DEF Paged!Loaded
<1> QED
  BY <1>6 DEF v, s

-----------------------------------------------------------------------------
(* The paged caches: the invariant                                         *)

Own(c) == Bl(Paged!Pool(c), c)

(* A pool: its blocks are those it began with, used by contexts of its own. *)
PoolInv(h) ==
  /\ Proper(pools[h])
  /\ DOMAIN pools[h].owned \subseteq {c \in DOMAIN max : Paged!Home(c) = h}
  /\ tensor[h] = [l \in Layers |-> tensor[h][l]]
  /\ \A l \in Layers : DOMAIN tensor[h][l] = Paged!AllBlocks(pools[h]) \X (0 .. BlockSize - 1)
  /\ IF h = Engine THEN Paged!AllBlocks(pools[h]) = Blocks
                   ELSE Paged!Cardinality(Paged!AllBlocks(pools[h])) = Paged!Cover(max[h])

Homes == {Paged!Home(c) : c \in DOMAIN max} \union IF kind = "shared" THEN {Engine} ELSE {}

PagedInv ==
  /\ kind \in {"shared", "own"}
  /\ DOMAIN max \subseteq Ctx /\ broken \subseteq DOMAIN max
  /\ max = [c \in DOMAIN max |-> max[c]]
  /\ seq_len = [c \in DOMAIN max |-> seq_len[c]]
  /\ pools = [h \in Homes |-> pools[h]] /\ tensor = [h \in Homes |-> tensor[h]]
  /\ \A h \in Homes : PoolInv(h)
  /\ \A c \in DOMAIN max : seq_len[c] \in Nat /\ Paged!Cover(seq_len[c]) <= Len(Own(c))
  /\ \A c \in DOMAIN forward.new : Len(forward.new[c]) <= seq_len[c]
  /\ kind = "own" => \A c, d \in DOMAIN max : c = d

PagedLists(c) ==
  [l \in Layers |-> Paged!Loaded(tensor[Paged!Home(c)][l], Own(c), Paged!Reached(c, l))]

LEMMA PagedView ==
  ASSUME kind \in {"shared", "own"}
  PROVE  /\ Kv = [c \in DOMAIN max \ broken |-> PagedLists(c)] /\ Fwd = forward
         /\ DOMAIN Kv = DOMAIN max \ broken
         /\ \A c \in DOMAIN max \ broken : Kv[c] = PagedLists(c)
BY DEF Kv, Fwd, Paged!View, Paged!Layers, Layers, PagedLists, Own, Bl

(* What a step that keeps kind makes of it. *)
LEMMA PagedViews ==
  ASSUME PagedInv, kind' = kind
  PROVE  /\ Kv' = [c \in DOMAIN max' \ broken' |-> PagedLists(c)'] /\ Fwd' = forward'
         /\ DOMAIN Kv' = DOMAIN max' \ broken'
         /\ \A c \in DOMAIN max' \ broken' : Kv'[c] = PagedLists(c)'
         /\ \A c : Paged!Home(c)' = Paged!Home(c)
<1>1. kind' \in {"shared", "own"}
  BY DEF PagedInv
<1> QED
  BY <1>1 DEF Kv, Fwd, Paged!View, Paged!Layers, Layers, PagedLists, Own, Bl, Paged!Home

(* The blocks of a context are enough for its entries. *)
LEMMA PagedFacts ==
  ASSUME PagedInv, StoreInv, NEW c \in DOMAIN max
  PROVE  /\ Paged!Home(c) \in Homes /\ PoolInv(Paged!Home(c)) /\ Proper(Paged!Pool(c))
         /\ seq_len[c] \in Nat /\ Paged!Cover(seq_len[c]) \in Nat
         /\ \A x \in 0 .. seq_len[c] - 1 :
              x \div BlockSize + 1 \in 1 .. Len(Own(c))
         /\ \A l \in Layers :
              Paged!Reached(c, l) = IF c \in DOMAIN forward.new /\ l >= forward.at
                                    THEN seq_len[c] - Len(forward.new[c]) ELSE seq_len[c]
         /\ \A l \in Layers : Paged!Reached(c, l) \in 0 .. seq_len[c]
<1>1. Paged!Home(c) \in Homes /\ PoolInv(Paged!Home(c)) /\ Proper(Paged!Pool(c))
  BY DEF PagedInv, Homes, PoolInv, Paged!Pool
<1>2. seq_len[c] \in Nat /\ Paged!Cover(seq_len[c]) <= Len(Own(c))
  BY DEF PagedInv
<1>3. Len(Own(c)) \in Nat
  BY <1>1 DEF Own, Proper
<1>4. \A x \in 0 .. seq_len[c] - 1 : x \div BlockSize + 1 \in 1 .. Len(Own(c))
  <2>1. /\ Paged!Cover(seq_len[c]) \in Nat
        /\ \A x \in 0 .. seq_len[c] - 1 : x \div BlockSize + 1 \in 1 .. Paged!Cover(seq_len[c])
    BY <1>2, Coverage
  <2> DEFINE k == Paged!Cover(seq_len[c])
             n == Len(Own(c))
             at(x) == x \div BlockSize + 1
  <2>2. k \in Nat /\ n \in Nat /\ k <= n /\ \A x \in 0 .. seq_len[c] - 1 : at(x) \in 1 .. k
    BY <1>2, <1>3, <2>1
  <2> HIDE DEF k, n, at
  <2>3. \A x \in 0 .. seq_len[c] - 1 : at(x) \in 1 .. n
    BY <2>2
  <2> QED
    BY <2>3 DEF n, at
<1>5. \A l \in Layers :
        Paged!Reached(c, l) = IF c \in DOMAIN forward.new /\ l >= forward.at
                              THEN seq_len[c] - Len(forward.new[c]) ELSE seq_len[c]
  BY DEF Paged!Reached
<1>6. c \in DOMAIN forward.new =>
        Len(forward.new[c]) \in Nat /\ Len(forward.new[c]) <= seq_len[c]
  <2>1. kind \in {"shared", "own"}
    BY DEF PagedInv
  <2>2. Fwd = forward
    BY <2>1, PagedView
  <2> SUFFICES ASSUME c \in DOMAIN forward.new
               PROVE  Len(forward.new[c]) \in Nat /\ Len(forward.new[c]) <= seq_len[c]
    OBVIOUS
  <2>3. forward.new[c] \in Entries
    BY <2>2, NoForwardIs DEF StoreInv, Forwarding
  <2> QED
    BY <2>3, EntriesAre DEF PagedInv
<1>7. \A l \in Layers : Paged!Reached(c, l) \in 0 .. seq_len[c]
  BY <1>2, <1>5, <1>6
<1>8. Paged!Cover(seq_len[c]) \in Nat
  BY <1>2, Coverage
<1> QED
  BY <1>1, <1>2, <1>4, <1>5, <1>7, <1>8

LEMMA CoverIs ==
  /\ Paged!Cover(0) = 0
  /\ \A n \in Nat : \A k \in 0 .. n : Paged!Cover(k) <= Paged!Cover(n)
<1> DEFINE b == BlockSize
<1>1. b \in Nat \ {0} /\ b - 1 \in 0 .. b - 1
  BY SizesAssumption
<1>2. Paged!Cover(0) = 0
  <2>1. (0 + b - 1) \div b = 0
    BY <1>1
  <2> QED
    BY <2>1 DEF Paged!Cover
<1>3. ASSUME NEW n \in Nat, NEW k \in 0 .. n PROVE Paged!Cover(k) <= Paged!Cover(n)
  <2> DEFINE x == k + b - 1
             y == n + b - 1
  <2>1. x \in Nat /\ y \in Nat /\ x <= y
    BY <1>1
  <2> HIDE DEF x, y, b
  <2>2. x \div b <= y \div b
    <3> DEFINE u == x \div b
               v == y \div b
    <3>1. /\ u \in Int /\ v \in Int
          /\ b * u \in Int /\ b * v \in Int /\ b * u + b \in Int
          /\ b * u <= x /\ y < b * v + b
      BY <1>1, <2>1
    <3> HIDE DEF u, v
    <3> SUFFICES ASSUME ~(u <= v) PROVE FALSE
      BY DEF u, v
    <3>2. b * (v + 1) <= b * u
      BY <1>1, <3>1
    <3>3. b * (v + 1) = b * v + b
      BY <1>1, <3>1
    <3> QED
      BY <1>1, <2>1, <3>1, <3>2, <3>3
  <2> QED
    BY <2>2 DEF x, y, b, Paged!Cover
<1> QED
  BY <1>2, <1>3

LEMMA HomesAre ==
  ASSUME kind \in {"shared", "own"}
  PROVE  /\ kind = "shared" => Homes = {Engine} /\ \A c : Paged!Home(c) = Engine
         /\ kind = "own" => Homes = DOMAIN max /\ \A c : Paged!Home(c) = c
<1>1. ASSUME kind = "shared" PROVE Homes = {Engine} /\ \A c : Paged!Home(c) = Engine
  BY <1>1 DEF Homes, Paged!Home
<1>2. ASSUME kind = "own" PROVE Homes = DOMAIN max /\ \A c : Paged!Home(c) = c
  BY <1>2 DEF Homes, Paged!Home
<1> QED
  BY <1>1, <1>2

LEMMA PagedCreates ==
  ASSUME PagedInv, StoreInv, NEW c \in Ctx, NEW m, Paged!Create(c, m)
  PROVE  PagedInv' /\ StoreStep
<1>1. /\ c \notin DOMAIN max /\ kind' = kind /\ broken' = broken /\ forward' = forward
      /\ kind = "own" => max = Paged!Empty
      /\ max' = Paged!Put(max, c, m) /\ seq_len' = Paged!Put(seq_len, c, 0)
  BY DEF Paged!Create
<1>2. /\ kind \in {"shared", "own"} /\ broken \subseteq DOMAIN max /\ DOMAIN max \subseteq Ctx
      /\ DOMAIN seq_len = DOMAIN max /\ DOMAIN pools = Homes /\ DOMAIN tensor = Homes
      /\ \A h \in Homes : PoolInv(h)
  BY DEF PagedInv
<1>3. /\ DOMAIN max' = DOMAIN max \union {c} /\ max' = [d \in DOMAIN max' |-> max'[d]]
      /\ seq_len' = [d \in DOMAIN max' |-> seq_len'[d]]
      /\ max'[c] = m /\ seq_len'[c] = 0
      /\ \A d \in DOMAIN max : max'[d] = max[d] /\ seq_len'[d] = seq_len[d]
  BY <1>1, <1>2 DEF Paged!Put
<1>4. /\ Kv = [d \in DOMAIN max \ broken |-> PagedLists(d)] /\ Fwd = forward
      /\ DOMAIN Kv = DOMAIN max \ broken
      /\ \A d \in DOMAIN max \ broken : Kv[d] = PagedLists(d)
  BY <1>2, PagedView
<1>5. /\ Kv' = [d \in DOMAIN max' \ broken' |-> PagedLists(d)'] /\ Fwd' = forward'
      /\ \A d : Paged!Home(d)' = Paged!Home(d)
  BY <1>1, PagedViews
<1>6. \A d \in DOMAIN forward.new : d \in DOMAIN max /\ d # c
  BY <1>1, <1>4, NoForwardIs DEF StoreInv, Forwarding
<1>7. /\ pools' = [h \in Homes' |-> pools'[h]] /\ tensor' = [h \in Homes' |-> tensor'[h]]
      /\ \A h \in Homes' : PoolInv(h)'
      /\ \A d \in DOMAIN max : Own(d)' = Own(d) /\ PagedLists(d)' = PagedLists(d)
      /\ Paged!Home(c) \in Homes'
  <2>1. CASE kind = "shared"
    <3>1. /\ Homes = {Engine} /\ Homes' = {Engine} /\ \A d : Paged!Home(d) = Engine
          /\ \A d : Paged!Home(d)' = Engine
      BY <1>1, <2>1, HomesAre DEF Homes, Paged!Home
    <3>2. pools' = pools /\ tensor' = tensor
      BY <2>1 DEF Paged!Create
    <3>3. PoolInv(Engine)'
      BY <1>2, <1>3, <3>1, <3>2 DEF PoolInv
    <3>4. \A d \in DOMAIN max : Own(d)' = Own(d) /\ PagedLists(d)' = PagedLists(d)
      <4> SUFFICES ASSUME NEW d \in DOMAIN max
                   PROVE  Own(d)' = Own(d) /\ PagedLists(d)' = PagedLists(d)
        OBVIOUS
      <4>1. Own(d)' = Own(d)
        BY <3>1, <3>2 DEF Own, Paged!Pool, Bl, Paged!BlocksOf
      <4>2. \A l \in Layers : Paged!Reached(d, l)' = Paged!Reached(d, l)
        BY <1>1, <1>3 DEF Paged!Reached
      <4> QED
        BY <1>5, <3>2, <4>1, <4>2 DEF PagedLists
    <3> QED
      BY <3>1, <3>2, <3>3, <3>4 DEF PagedInv
  <2>2. CASE kind = "own"
    <3>1. /\ DOMAIN max = {} /\ Homes = {} /\ \A d : Paged!Home(d) = d
          /\ Homes' = {c}
      <4>1. DOMAIN max = {} /\ DOMAIN max' = {c}
        BY <1>1, <1>3, <2>2 DEF Paged!Empty
      <4>2. Homes' = DOMAIN max' /\ Homes = DOMAIN max /\ \A d : Paged!Home(d) = d
        BY <1>1, <2>2, HomesAre DEF Homes, Paged!Home
      <4> QED
        BY <4>1, <4>2
    <3>2. PICK blocks \in Paged!kSubset(Paged!Cover(m), Blocks) :
            /\ pools' = Paged!Put(pools, c, Paged!NewPool(blocks))
            /\ tensor' = Paged!Put(tensor, c, Paged!NewTensor(blocks))
      BY <2>2 DEF Paged!Create
    <3>3. blocks \in SUBSET Blocks /\ Paged!Cardinality(blocks) = Paged!Cover(m)
      BY <3>2 DEF Paged!kSubset
    <3> DEFINE p == Paged!NewPool(blocks)
               t == Paged!NewTensor(blocks)
    <3>4. Proper(p) /\ Paged!AllBlocks(p) = blocks /\ DOMAIN p.owned = {}
      BY <3>3, NewPoolIs
    <3>5. /\ t = [l \in Layers |-> t[l]]
          /\ \A l \in Layers : DOMAIN t[l] = blocks \X (0 .. BlockSize - 1)
      BY DEF Paged!NewTensor, Paged!Layers, Layers
    <3> HIDE DEF p, t
    <3>6. /\ pools' = [h \in {c} |-> pools'[h]] /\ pools'[c] = p
          /\ tensor' = [h \in {c} |-> tensor'[h]] /\ tensor'[c] = t
      BY <1>2, <3>1, <3>2 DEF Paged!Put, p, t
    <3>7. c # Engine
      BY EngineAssumption
    <3>8. PoolInv(c)'
      BY <1>3, <3>3, <3>4, <3>5, <3>6, <3>7 DEF PoolInv
    <3> QED
      BY <3>1, <3>6, <3>8
  <2> QED
    BY <1>2, <2>1, <2>2
<1>8. Paged!Cover(0) <= Len(Own(c))' /\ Len(Own(c))' \in Nat
  <2>1. Proper(Paged!Pool(c))'
    BY <1>5, <1>7 DEF PoolInv, Paged!Pool
  <2>2. Len(Own(c))' \in Nat
    BY <2>1 DEF Own, Proper
  <2> QED
    BY <2>2, CoverIs
<1>9. PagedInv'
  <2>1. \A d \in DOMAIN max' : seq_len'[d] \in Nat /\ Paged!Cover(seq_len'[d]) <= Len(Own(d)')
    BY <1>3, <1>7, <1>8 DEF PagedInv
  <2>2. \A d \in DOMAIN forward'.new : Len(forward'.new[d]) <= seq_len'[d]
    BY <1>1, <1>3, <1>6 DEF PagedInv
  <2>3. kind' = "own" => \A d, e \in DOMAIN max' : d = e
    BY <1>1, <1>3 DEF Paged!Empty
  <2>4. kind' \in {"shared", "own"} /\ DOMAIN max' \subseteq Ctx /\ broken' \subseteq DOMAIN max'
    BY <1>1, <1>2, <1>3
  <2> QED
    BY <1>3, <1>7, <2>1, <2>2, <2>3, <2>4 DEF PagedInv
<1>10. PagedLists(c)' = [l \in Layers |-> <<>>]
  <2>1. \A l \in Layers : Paged!Reached(c, l)' = 0
    BY <1>1, <1>3, <1>6 DEF Paged!Reached
  <2>2. \A l \in Layers :
          Paged!Loaded(tensor[Paged!Home(c)][l], Own(c), Paged!Reached(c, l))' = <<>>
    <3> SUFFICES ASSUME NEW l \in Layers
                 PROVE  Paged!Loaded(tensor[Paged!Home(c)][l], Own(c), Paged!Reached(c, l))' = <<>>
      OBVIOUS
    <3>1. PICK cells : cells = tensor[Paged!Home(c)][l]'
      OBVIOUS
    <3>2. PICK b : b = Own(c)'
      OBVIOUS
    <3> QED
      BY <2>1, <3>1, <3>2, LoadedNone
  <2> QED
    BY <2>2 DEF PagedLists
<1>11. Kv' = [d \in DOMAIN Kv \union {c} |->
                 IF d = c THEN [l \in Layers |-> <<>>] ELSE Kv[d]]
  <2> DEFINE Alive == DOMAIN max \ broken
             none == [l \in Layers |-> <<>>]
  <2>1. DOMAIN max' \ broken' = Alive \union {c} /\ c \notin Alive
    BY <1>1, <1>2, <1>3
  <2>2. \A d \in Alive : PagedLists(d)' = PagedLists(d)
    BY <1>7
  <2>3. /\ Kv' = [d \in Alive \union {c} |-> PagedLists(d)'] /\ PagedLists(c)' = none
        /\ \A d \in Alive : Kv[d] = PagedLists(d)
        /\ DOMAIN Kv = Alive
    BY <1>4, <1>5, <1>10, <2>1
  <2> HIDE DEF Alive, none, PagedLists
  <2>4. Kv' = [d \in Alive \union {c} |-> IF d = c THEN none ELSE Kv[d]]
    BY <2>1, <2>2, <2>3
  <2> QED
    BY <2>3, <2>4 DEF none
<1>12. Store!Create(c)
  BY <1>1, <1>2, <1>4, <1>5, <1>11 DEF Store!Create, Store!Layers, Layers
<1> QED
  BY <1>9, <1>12 DEF StoreStep, Store!Next

LEMMA PagedBegins ==
  ASSUME PagedInv, StoreInv, NEW batch \in SUBSET (DOMAIN max \ broken),
         NEW served \in SUBSET batch, Paged!Begin(batch, served)
  PROVE  PagedInv' /\ StoreStep
<1>1. /\ kind \in {"shared", "own"} /\ broken \subseteq DOMAIN max /\ DOMAIN max \subseteq Ctx
      /\ pools = [h \in Homes |-> pools[h]] /\ tensor = [h \in Homes |-> tensor[h]]
      /\ seq_len = [c \in DOMAIN max |-> seq_len[c]]
      /\ \A h \in Homes : PoolInv(h)
  BY DEF PagedInv
<1>2. PICK new \in [batch -> Entries], home \in {Paged!Home(c) : c \in batch} :
        LET need == [c \in batch |-> seq_len[c] + Len(new[c])]
            p == pools[home]
        IN \E take \in Paged!Injection(Paged!Wanted(p, served, need), p.free) :
             LET end == Paged!Granted(p, served, need, take) IN
               /\ pools' = [pools EXCEPT ![home] = end]
               /\ IF served = batch
                  THEN /\ seq_len' = [c \in DOMAIN seq_len |->
                            IF c \in batch THEN need[c] ELSE seq_len[c]]
                       /\ forward' = [at |-> 1, new |-> new]
                  ELSE UNCHANGED <<seq_len, forward>>
  BY DEF Paged!Begin
<1>3. /\ forward = Paged!Idle /\ kind' = kind /\ max' = max /\ tensor' = tensor
      /\ broken' = broken
  BY DEF Paged!Begin
<1> DEFINE need == [c \in batch |-> seq_len[c] + Len(new[c])]
           p == pools[home]
<1>4. PICK take \in Paged!Injection(Paged!Wanted(p, served, need), p.free) :
        /\ pools' = [pools EXCEPT ![home] = Paged!Granted(p, served, need, take)]
        /\ \/ /\ served = batch
              /\ seq_len' = [c \in DOMAIN seq_len |->
                               IF c \in batch THEN need[c] ELSE seq_len[c]]
              /\ forward' = [at |-> 1, new |-> new]
           \/ seq_len' = seq_len /\ forward' = forward
  BY <1>2
<1>5. home \in Homes /\ \A c \in batch : Paged!Home(c) = home
  <2>1. PICK c \in batch : home = Paged!Home(c)
    OBVIOUS
  <2>2. \A d \in batch : d \in DOMAIN max
    OBVIOUS
  <2>3. \A d \in batch : Paged!Home(d) = home
    <3>1. CASE kind = "shared"
      BY <2>1, <3>1, HomesAre
    <3>2. CASE kind = "own"
      BY <2>1, <2>2, <3>2 DEF PagedInv
    <3> QED
      BY <1>1, <3>1, <3>2
  <2> QED
    BY <2>1, <2>2, <2>3 DEF Homes
<1>6. Proper(p) /\ PoolInv(home)
  BY <1>1, <1>5 DEF PoolInv
<1>7. \A c \in batch : /\ need[c] = seq_len[c] + Len(new[c])
                       /\ new[c] \in Entries /\ Len(new[c]) \in Nat /\ seq_len[c] \in Nat
                       /\ need[c] \in Nat
  BY EntriesAre DEF PagedInv
<1> DEFINE q == Paged!Granted(p, served, need, take)
<1>8. /\ Proper(q) /\ Paged!AllBlocks(q) = Paged!AllBlocks(p)
      /\ DOMAIN q.owned \subseteq DOMAIN p.owned \union served
      /\ \A c \in served : Paged!Cover(need[c]) <= Len(Bl(q, c))
      /\ \A c : /\ Len(Bl(p, c)) <= Len(Bl(q, c))
                /\ \A i \in 1 .. Len(Bl(p, c)) : Bl(q, c)[i] = Bl(p, c)[i]
  <2>1. \A c \in served : need[c] \in Nat
    BY <1>7
  <2> HIDE DEF need, p
  <2> QED
    BY <1>6, <2>1, GrantedIs
<1>9. /\ pools' = [h \in Homes |-> pools'[h]] /\ pools'[home] = q
      /\ \A h \in Homes \ {home} : pools'[h] = pools[h]
  BY <1>1, <1>4, <1>5
<1> HIDE DEF q, need
<1>10. /\ Homes' = Homes /\ \A c : Paged!Home(c)' = Paged!Home(c)
  BY <1>3 DEF Homes, Paged!Home
<1>11. ASSUME NEW c \in DOMAIN max
       PROVE  /\ Len(Own(c)) \in Nat /\ Len(Own(c)) <= Len(Own(c)')
              /\ \A i \in 1 .. Len(Own(c)) : Own(c)'[i] = Own(c)[i]
  <2>1. /\ Paged!Home(c) \in Homes
        /\ Own(c) = Bl(pools[Paged!Home(c)], c)
        /\ Own(c)' = Bl(pools'[Paged!Home(c)], c)
    BY <1>10 DEF Homes, Own, Paged!Pool, Bl, Paged!BlocksOf
  <2>2. Len(Own(c)) \in Nat
    BY <1>1, <2>1 DEF PoolInv, Proper
  <2>3. CASE Paged!Home(c) = home
    BY <1>8, <1>9, <2>1, <2>2, <2>3
  <2>4. CASE Paged!Home(c) # home
    BY <1>9, <2>1, <2>2, <2>4
  <2> QED
    BY <2>3, <2>4
<1>12. ASSUME NEW h \in Homes PROVE PoolInv(h)'
  <2>1. CASE h = home
    <3>1. DOMAIN q.owned \subseteq {c \in DOMAIN max' : Paged!Home(c)' = home}
      BY <1>3, <1>5, <1>6, <1>8, <1>10 DEF PoolInv
    <3> QED
      BY <1>3, <1>6, <1>8, <1>9, <2>1, <3>1 DEF PoolInv
  <2>2. CASE h # home
    BY <1>1, <1>3, <1>9, <1>10, <2>2 DEF PoolInv
  <2> QED
    BY <2>1, <2>2
<1>13. ASSUME NEW c \in DOMAIN max
       PROVE  seq_len'[c] \in Nat /\ Paged!Cover(seq_len'[c]) <= Len(Own(c)')
  <2>1. /\ seq_len[c] \in Nat /\ Paged!Cover(seq_len[c]) <= Len(Own(c))
        /\ Paged!Cover(seq_len[c]) \in Nat
    BY PagedFacts DEF PagedInv
  <2>2. CASE seq_len'[c] = seq_len[c]
    <3>1. Len(Own(c)) \in Nat /\ Len(Own(c)) <= Len(Own(c)') /\ Len(Own(c)') \in Nat
      <4>1. Proper(pools'[Paged!Home(c)]) /\ Own(c)' = Bl(pools'[Paged!Home(c)], c)
        BY <1>10, <1>12 DEF Homes, PoolInv, Own, Paged!Pool, Bl, Paged!BlocksOf
      <4> QED
        BY <1>11, <4>1 DEF Proper
    <3> QED
      BY <2>1, <2>2, <3>1
  <2>3. CASE served = batch /\ c \in batch /\ seq_len'[c] = need[c]
    <3>1. Own(c)' = Bl(q, c)
      BY <1>5, <1>9, <1>10, <2>3 DEF Own, Paged!Pool, Bl, Paged!BlocksOf
    <3> QED
      BY <1>7, <1>8, <2>3, <3>1
  <2> QED
    BY <1>1, <1>4, <2>2, <2>3
<1>14. \A c \in DOMAIN forward'.new : Len(forward'.new[c]) <= seq_len'[c]
  <2>1. CASE /\ seq_len' = [c \in DOMAIN seq_len |-> IF c \in batch THEN need[c] ELSE seq_len[c]]
             /\ forward' = [at |-> 1, new |-> new]
    <3>1. forward'.new = new /\ DOMAIN new = batch
      BY <2>1
    <3>2. \A c \in batch : seq_len'[c] = need[c]
      BY <1>1, <2>1
    <3> QED
      BY <1>7, <3>1, <3>2
  <2>2. CASE forward' = forward
    BY <1>3, <2>2, NoForwardIs
  <2> QED
    BY <1>4, <2>1, <2>2
<1>15. seq_len' = [c \in DOMAIN max |-> seq_len'[c]]
  BY <1>1, <1>4
<1>16. PagedInv'
  <2>1. kind' = "own" => \A c, d \in DOMAIN max' : c = d
    BY <1>3 DEF PagedInv
  <2>2. /\ max' = [c \in DOMAIN max' |-> max'[c]] /\ tensor' = [h \in Homes' |-> tensor'[h]]
        /\ pools' = [h \in Homes' |-> pools'[h]]
    BY <1>3, <1>9, <1>10 DEF PagedInv
  <2> QED
    BY <1>1, <1>3, <1>10, <1>12, <1>13, <1>14, <1>15, <2>1, <2>2 DEF PagedInv
<1>17. /\ Kv = [c \in DOMAIN max \ broken |-> PagedLists(c)] /\ Fwd = forward
       /\ DOMAIN Kv = DOMAIN max \ broken
  BY <1>1, PagedView
<1>18. Kv' = [c \in DOMAIN max' \ broken' |-> PagedLists(c)'] /\ Fwd' = forward'
  BY <1>3, PagedViews
<1>19. ASSUME NEW c \in DOMAIN max, NEW l \in Layers
       PROVE  /\ Paged!Reached(c, l) = seq_len[c] /\ Paged!Reached(c, l)' = seq_len[c]
  <2>1. Paged!Reached(c, l) = seq_len[c]
    BY <1>3, NoForwardIs DEF Paged!Reached
  <2>2. CASE /\ seq_len' = [d \in DOMAIN seq_len |-> IF d \in batch THEN need[d] ELSE seq_len[d]]
             /\ forward' = [at |-> 1, new |-> new]
    <3>1. /\ DOMAIN forward'.new = batch /\ forward'.new = new /\ l >= forward'.at
          /\ seq_len'[c] = IF c \in batch THEN need[c] ELSE seq_len[c]
      BY <1>1, <2>2 DEF Layers
    <3>2. c \in batch => need[c] - Len(new[c]) = seq_len[c]
      BY <1>7
    <3> QED
      BY <2>1, <3>1, <3>2 DEF Paged!Reached
  <2>3. CASE seq_len' = seq_len /\ forward' = forward
    BY <2>1, <2>3 DEF Paged!Reached
  <2> QED
    BY <1>4, <2>1, <2>2, <2>3
<1>20. ASSUME NEW c \in DOMAIN max PROVE PagedLists(c)' = PagedLists(c)
  <2>1. PICK b : b = Own(c)'
    OBVIOUS
  <2>2. ASSUME NEW l \in Layers
        PROVE  Paged!Loaded(tensor[Paged!Home(c)][l], b, seq_len[c])
                 = Paged!Loaded(tensor[Paged!Home(c)][l], Own(c), seq_len[c])
    <3>1. \A x \in 0 .. seq_len[c] - 1 : b[x \div BlockSize + 1] = Own(c)[x \div BlockSize + 1]
      BY <1>11, <2>1, PagedFacts
    <3>2. \A x \in 0 .. seq_len[c] - 1 : Paged!Slot(b, x) = Paged!Slot(Own(c), x)
      BY <3>1 DEF Paged!Slot
    <3>3. seq_len[c] \in Nat
      BY PagedFacts
    <3> QED
      BY <3>2, <3>3, LoadedSame
  <2>3. PagedLists(c)
          = [l \in Layers |-> Paged!Loaded(tensor[Paged!Home(c)][l], Own(c), seq_len[c])]
    BY <1>19 DEF PagedLists
  <2>4. PagedLists(c)'
          = [l \in Layers |-> Paged!Loaded(tensor[Paged!Home(c)][l], b, seq_len[c])]
    BY <1>3, <1>10, <1>19, <2>1 DEF PagedLists
  <2> QED
    BY <2>2, <2>3, <2>4
<1>21. Kv' = Kv
  BY <1>3, <1>17, <1>18, <1>20
<1>22. CASE forward' = [at |-> 1, new |-> new]
  <2>1. Store!Begin
    BY <1>3, <1>17, <1>18, <1>21, <1>22, NoForwardIs DEF Store!Begin
  <2> QED
    BY <1>16, <2>1 DEF StoreStep, Store!Next
<1>23. CASE forward' = forward
  BY <1>16, <1>17, <1>18, <1>21, <1>23 DEF StoreStep
<1> QED
  BY <1>4, <1>22, <1>23

LEMMA PagedAbandons ==
  ASSUME PagedInv, StoreInv, Paged!Abandon
  PROVE  PagedInv' /\ StoreStep
<1>1. /\ forward # Paged!Idle /\ forward' = Paged!Idle
      /\ broken' = broken \union DOMAIN forward.new
      /\ kind' = kind /\ max' = max /\ seq_len' = seq_len /\ pools' = pools /\ tensor' = tensor
  BY DEF Paged!Abandon
<1>2. /\ Kv = [c \in DOMAIN max \ broken |-> PagedLists(c)] /\ Fwd = forward
      /\ DOMAIN Kv = DOMAIN max \ broken
      /\ \A c \in DOMAIN max \ broken : Kv[c] = PagedLists(c)
  BY PagedView DEF PagedInv
<1>3. Kv' = [c \in DOMAIN max' \ broken' |-> PagedLists(c)'] /\ Fwd' = forward'
  BY <1>1, PagedViews
<1>4. DOMAIN forward.new \subseteq DOMAIN max \ broken
  BY <1>1, <1>2, NoForwardIs DEF StoreInv, Forwarding
<1>5. DOMAIN forward'.new = {}
  BY <1>1, NoForwardIs
<1>6. PagedInv'
  <2>1. \A h \in Homes : PoolInv(h)'
    BY <1>1 DEF PagedInv, PoolInv, Paged!Home
  <2>2. Homes' = Homes
    BY <1>1 DEF Homes, Paged!Home
  <2>3. \A c : Own(c)' = Own(c)
    BY <1>1 DEF Own, Bl, Paged!Pool, Paged!Home, Paged!BlocksOf
  <2>4. broken' \subseteq DOMAIN max
    BY <1>1, <1>4 DEF PagedInv
  <2> QED
    BY <1>1, <1>5, <2>1, <2>2, <2>3, <2>4 DEF PagedInv
<1>7. \A c : c \notin DOMAIN forward.new => PagedLists(c)' = PagedLists(c)
  <2> SUFFICES ASSUME NEW c, c \notin DOMAIN forward.new PROVE PagedLists(c)' = PagedLists(c)
    OBVIOUS
  <2>1. Own(c)' = Own(c) /\ Paged!Home(c)' = Paged!Home(c)
    BY <1>1 DEF Own, Bl, Paged!Pool, Paged!Home, Paged!BlocksOf
  <2>2. \A l \in Layers : Paged!Reached(c, l)' = Paged!Reached(c, l)
    BY <1>1, <1>5 DEF Paged!Reached
  <2> QED
    BY <1>1, <2>1, <2>2 DEF PagedLists
<1>8. Kv' = [c \in DOMAIN Kv \ DOMAIN Fwd.new |-> Kv[c]]
  BY <1>1, <1>2, <1>3, <1>7
<1>9. Store!Abandon
  BY <1>1, <1>2, <1>3, <1>8, NoForwardIs DEF Store!Abandon, Store!Restrict
<1> QED
  BY <1>6, <1>9 DEF StoreStep, Store!Next

LEMMA PagedRemoves ==
  ASSUME PagedInv, StoreInv, NEW c \in DOMAIN max, Paged!RemoveContext(c)
  PROVE  PagedInv' /\ StoreStep
<1>1. /\ forward = Paged!Idle /\ forward' = forward /\ kind' = kind /\ broken' = broken \ {c}
      /\ max' = [d \in DOMAIN max \ {c} |-> max[d]]
      /\ seq_len' = [d \in DOMAIN seq_len \ {c} |-> seq_len[d]]
  BY DEF Paged!RemoveContext, Paged!Restrict
<1>2. /\ kind \in {"shared", "own"} /\ broken \subseteq DOMAIN max /\ DOMAIN max \subseteq Ctx
      /\ DOMAIN seq_len = DOMAIN max
      /\ pools = [h \in Homes |-> pools[h]] /\ tensor = [h \in Homes |-> tensor[h]]
      /\ \A h \in Homes : PoolInv(h)
  BY DEF PagedInv
<1>3. /\ DOMAIN max' = DOMAIN max \ {c} /\ max' = [d \in DOMAIN max' |-> max'[d]]
      /\ seq_len' = [d \in DOMAIN max' |-> seq_len'[d]]
      /\ \A d \in DOMAIN max' : max'[d] = max[d] /\ seq_len'[d] = seq_len[d] /\ d # c
                                /\ d \in DOMAIN max
  BY <1>1, <1>2
<1>4. /\ Kv = [d \in DOMAIN max \ broken |-> PagedLists(d)] /\ Fwd = forward
      /\ DOMAIN Kv = DOMAIN max \ broken
      /\ \A d \in DOMAIN max \ broken : Kv[d] = PagedLists(d)
  BY <1>2, PagedView
<1>5. /\ Kv' = [d \in DOMAIN max' \ broken' |-> PagedLists(d)'] /\ Fwd' = forward'
      /\ \A d : Paged!Home(d)' = Paged!Home(d)
  BY <1>1, PagedViews
<1>6. forward = Store!NoForward /\ DOMAIN forward.new = {} /\ DOMAIN forward'.new = {}
  BY <1>1, NoForwardIs
<1>7. /\ pools' = [h \in Homes' |-> pools'[h]] /\ tensor' = [h \in Homes' |-> tensor'[h]]
      /\ \A h \in Homes' : PoolInv(h)'
      /\ \A d \in DOMAIN max' : Own(d)' = Own(d) /\ PagedLists(d)' = PagedLists(d)
  <2>1. CASE kind = "shared"
    <3>1. /\ Homes = {Engine} /\ Homes' = {Engine} /\ \A d : Paged!Home(d) = Engine
          /\ \A d : Paged!Home(d)' = Engine
      BY <1>1, <2>1, HomesAre DEF Homes, Paged!Home
    <3> DEFINE p == pools[Engine]
               q == Paged!FreeBlocks(p, c)
    <3>2. pools' = [pools EXCEPT ![Engine] = q] /\ tensor' = tensor
      BY <2>1 DEF Paged!RemoveContext
    <3>3. Proper(p) /\ PoolInv(Engine)
      BY <1>2, <3>1 DEF PoolInv
    <3>4. /\ Proper(q) /\ Paged!AllBlocks(q) = Paged!AllBlocks(p)
          /\ DOMAIN q.owned = DOMAIN p.owned \ {c}
          /\ \A d : d # c => Bl(q, d) = Bl(p, d)
      <4> HIDE DEF p
      <4> QED
        BY <3>3, FreeBlocksIs
    <3> HIDE DEF q
    <3>5. pools' = [h \in {Engine} |-> pools'[h]] /\ pools'[Engine] = q
      BY <1>2, <3>1, <3>2
    <3>6. PoolInv(Engine)'
      <4>1. DOMAIN q.owned \subseteq {d \in DOMAIN max' : Paged!Home(d)' = Engine}
        BY <1>3, <3>1, <3>3, <3>4 DEF PoolInv
      <4> QED
        BY <3>2, <3>3, <3>4, <3>5, <4>1 DEF PoolInv
    <3>7. \A d \in DOMAIN max' : Own(d)' = Own(d) /\ PagedLists(d)' = PagedLists(d)
      <4> SUFFICES ASSUME NEW d \in DOMAIN max'
                   PROVE  Own(d)' = Own(d) /\ PagedLists(d)' = PagedLists(d)
        OBVIOUS
      <4>1. Own(d)' = Own(d)
        <5>1. Own(d)' = Bl(q, d) /\ Own(d) = Bl(p, d) /\ d # c
          BY <1>3, <3>1, <3>5 DEF Own, Paged!Pool, Bl, Paged!BlocksOf
        <5> QED
          BY <3>4, <5>1
      <4>2. \A l \in Layers : Paged!Reached(d, l)' = Paged!Reached(d, l)
        BY <1>1, <1>3 DEF Paged!Reached
      <4> QED
        BY <1>5, <3>2, <4>1, <4>2 DEF PagedLists
    <3> QED
      BY <1>2, <3>1, <3>2, <3>5, <3>6, <3>7
  <2>2. CASE kind = "own"
    <3>1. DOMAIN max' = {} /\ Homes = {c} /\ Homes' = {}
      <4>1. DOMAIN max = {c} /\ DOMAIN max' = {}
        BY <1>3, <2>2 DEF PagedInv
      <4>2. Homes' = DOMAIN max' /\ Homes = DOMAIN max
        BY <1>1, <2>2, HomesAre DEF Homes, Paged!Home
      <4> QED
        BY <4>1, <4>2
    <3>2. /\ pools' = [h \in DOMAIN pools \ {c} |-> pools[h]]
          /\ tensor' = [h \in DOMAIN tensor \ {c} |-> tensor[h]]
      BY <2>2 DEF Paged!RemoveContext, Paged!Restrict
    <3>3. DOMAIN pools \ {c} = {} /\ DOMAIN tensor \ {c} = {}
      BY <1>2, <3>1
    <3> QED
      BY <3>1, <3>2, <3>3
  <2> QED
    BY <1>2, <2>1, <2>2
<1>8. PagedInv'
  <2>1. \A d \in DOMAIN max' : seq_len'[d] \in Nat /\ Paged!Cover(seq_len'[d]) <= Len(Own(d)')
    BY <1>3, <1>7 DEF PagedInv
  <2>2. kind' = "own" => \A d, e \in DOMAIN max' : d = e
    BY <1>1, <1>3 DEF PagedInv
  <2>3. kind' \in {"shared", "own"} /\ DOMAIN max' \subseteq Ctx /\ broken' \subseteq DOMAIN max'
    BY <1>1, <1>2, <1>3
  <2> QED
    BY <1>3, <1>6, <1>7, <2>1, <2>2, <2>3 DEF PagedInv
<1> DEFINE Alive == DOMAIN max \ broken
<1>9. DOMAIN max' \ broken' = Alive \ {c} /\ Alive \ {c} \subseteq DOMAIN max'
  BY <1>1, <1>2, <1>3
<1>10. /\ DOMAIN Kv = Alive /\ Kv = [d \in Alive |-> Kv[d]]
       /\ \A d \in Alive : Kv[d] = PagedLists(d)
  BY <1>4
<1>11. Kv' = [d \in Alive \ {c} |-> PagedLists(d)']
  BY <1>5, <1>9
<1> HIDE DEF Alive
<1>12. Kv' = [d \in DOMAIN Kv \ {c} |-> Kv[d]]
  BY <1>7, <1>9, <1>10, <1>11
<1>13. CASE c \in Alive
  <2>1. Store!Remove(c)
    BY <1>1, <1>4, <1>5, <1>6, <1>10, <1>12, <1>13 DEF Store!Remove, Store!Restrict
  <2>2. c \in Ctx
    BY <1>2
  <2> QED
    BY <1>8, <2>1, <2>2 DEF StoreStep, Store!Next
<1>14. CASE c \notin Alive
  <2>1. Kv' = Kv
    BY <1>10, <1>12, <1>14
  <2> QED
    BY <1>1, <1>4, <1>5, <1>8, <2>1 DEF StoreStep
<1> QED
  BY <1>13, <1>14

LEMMA PagedTrims ==
  ASSUME PagedInv, StoreInv, NEW c \in DOMAIN max, NEW n \in 1 .. seq_len[c],
         Paged!Trim(c, n)
  PROVE  PagedInv' /\ StoreStep
<1>1. /\ forward = Paged!Idle /\ forward' = forward /\ c \notin broken
      /\ kind' = kind /\ max' = max /\ tensor' = tensor /\ broken' = broken
      /\ seq_len' = [seq_len EXCEPT ![c] = seq_len[c] - n]
      /\ pools' = [pools EXCEPT ![Paged!Home(c)] =
                     Paged!Shrunk(pools[Paged!Home(c)], c, seq_len[c] - n)]
  BY DEF Paged!Trim
<1>2. /\ kind \in {"shared", "own"} /\ broken \subseteq DOMAIN max /\ DOMAIN max \subseteq Ctx
      /\ pools = [h \in Homes |-> pools[h]] /\ tensor = [h \in Homes |-> tensor[h]]
      /\ seq_len = [d \in DOMAIN max |-> seq_len[d]]
      /\ \A h \in Homes : PoolInv(h)
  BY DEF PagedInv
<1> DEFINE home == Paged!Home(c)
           p == pools[home]
           k == seq_len[c] - n
           q == Paged!Shrunk(p, c, k)
<1>3. /\ home \in Homes /\ PoolInv(home) /\ Proper(p) /\ seq_len[c] \in Nat
      /\ k \in 0 .. seq_len[c] /\ k \in Nat /\ n \in Nat
  BY PagedFacts DEF Paged!Pool
<1>4. /\ DOMAIN seq_len' = DOMAIN max /\ seq_len'[c] = k
      /\ seq_len' = [d \in DOMAIN max |-> seq_len'[d]]
      /\ \A d \in DOMAIN max \ {c} : seq_len'[d] = seq_len[d]
  BY <1>1, <1>2
<1>5. /\ pools' = [h \in Homes |-> pools'[h]] /\ pools'[home] = q
      /\ \A h \in Homes \ {home} : pools'[h] = pools[h]
  BY <1>1, <1>2, <1>3
<1>6. /\ Proper(q) /\ Paged!AllBlocks(q) = Paged!AllBlocks(p)
      /\ DOMAIN q.owned \subseteq DOMAIN p.owned
      /\ \A d : d # c => Bl(q, d) = Bl(p, d)
      /\ Paged!Cover(k) <= Len(Bl(p, c)) => Paged!Cover(k) <= Len(Bl(q, c))
      /\ \A i \in 1 .. Len(Bl(q, c)) : Bl(q, c)[i] = Bl(p, c)[i]
  <2> HIDE DEF p, k
  <2> QED
    BY <1>3, ShrunkIs
<1> HIDE DEF q
<1>7. Homes' = Homes /\ \A d : Paged!Home(d)' = Paged!Home(d)
  BY <1>1 DEF Homes, Paged!Home
<1>8. Own(c) = Bl(p, c) /\ Own(c)' = Bl(q, c)
  BY <1>5, <1>7 DEF Own, Paged!Pool, Bl, Paged!BlocksOf
<1>9. \A d \in DOMAIN max \ {c} : Own(d)' = Own(d)
  <2> SUFFICES ASSUME NEW d \in DOMAIN max, d # c PROVE Own(d)' = Own(d)
    OBVIOUS
  <2>1. /\ Own(d) = Bl(pools[Paged!Home(d)], d) /\ Paged!Home(d) \in Homes
        /\ Own(d)' = Bl(pools'[Paged!Home(d)], d)
    BY <1>7 DEF Homes, Own, Paged!Pool, Bl, Paged!BlocksOf
  <2>2. CASE Paged!Home(d) = home
    <3>1. Own(d) = Bl(p, d) /\ Own(d)' = Bl(q, d)
      BY <1>5, <2>1, <2>2
    <3> QED
      BY <1>6, <3>1
  <2>3. CASE Paged!Home(d) # home
    BY <1>5, <2>1, <2>3
  <2> QED
    BY <2>2, <2>3
<1>10. Paged!Cover(k) \in Nat /\ Paged!Cover(k) <= Len(Bl(q, c)) /\ Len(Bl(q, c)) \in Nat
  <2>1. /\ Paged!Cover(k) \in Nat /\ Paged!Cover(seq_len[c]) \in Nat
        /\ Paged!Cover(k) <= Paged!Cover(seq_len[c])
    BY <1>3, CoverIs, Coverage
  <2>2. Paged!Cover(seq_len[c]) <= Len(Bl(p, c)) /\ Len(Bl(p, c)) \in Nat
    BY <1>3, <1>8 DEF PagedInv, Proper
  <2>3. Len(Bl(q, c)) \in Nat
    BY <1>6 DEF Proper
  <2> HIDE DEF k, p
  <2> QED
    BY <1>6, <2>1, <2>2, <2>3
<1>11. ASSUME NEW h \in Homes PROVE PoolInv(h)'
  <2>1. CASE h = home
    <3>1. DOMAIN q.owned \subseteq {d \in DOMAIN max' : Paged!Home(d)' = home}
      BY <1>1, <1>3, <1>6, <1>7 DEF PoolInv
    <3> QED
      BY <1>1, <1>3, <1>5, <1>6, <2>1, <3>1 DEF PoolInv
  <2>2. CASE h # home
    BY <1>1, <1>2, <1>5, <1>7, <2>2 DEF PoolInv
  <2> QED
    BY <2>1, <2>2
<1>12. DOMAIN forward.new = {} /\ forward = Store!NoForward
  BY <1>1, NoForwardIs
<1>13. PagedInv'
  <2>1. \A d \in DOMAIN max' : seq_len'[d] \in Nat /\ Paged!Cover(seq_len'[d]) <= Len(Own(d)')
    <3> SUFFICES ASSUME NEW d \in DOMAIN max
                 PROVE  seq_len'[d] \in Nat /\ Paged!Cover(seq_len'[d]) <= Len(Own(d)')
      BY <1>1
    <3>1. CASE d = c
      BY <1>3, <1>4, <1>8, <1>10, <3>1
    <3>2. CASE d # c
      BY <1>4, <1>9, <3>2 DEF PagedInv
    <3> QED
      BY <3>1, <3>2
  <2>2. kind' = "own" => \A d, e \in DOMAIN max' : d = e
    BY <1>1 DEF PagedInv
  <2>3. /\ max' = [d \in DOMAIN max' |-> max'[d]] /\ tensor' = [h \in Homes' |-> tensor'[h]]
        /\ pools' = [h \in Homes' |-> pools'[h]]
    BY <1>1, <1>5, <1>7 DEF PagedInv
  <2> QED
    BY <1>1, <1>2, <1>4, <1>7, <1>11, <1>12, <2>1, <2>2, <2>3 DEF PagedInv
<1>14. /\ Kv = [d \in DOMAIN max \ broken |-> PagedLists(d)] /\ Fwd = forward
       /\ DOMAIN Kv = DOMAIN max \ broken
       /\ \A d \in DOMAIN max \ broken : Kv[d] = PagedLists(d)
  BY <1>2, PagedView
<1>15. Kv' = [d \in DOMAIN max' \ broken' |-> PagedLists(d)'] /\ Fwd' = forward'
  BY <1>1, PagedViews
<1>16. \A d \in DOMAIN max, l \in Layers :
         Paged!Reached(d, l) = seq_len[d] /\ Paged!Reached(d, l)' = seq_len'[d]
  BY <1>1, <1>12 DEF Paged!Reached
<1>17. \A d \in DOMAIN max \ {c} : PagedLists(d)' = PagedLists(d)
  <2> SUFFICES ASSUME NEW d \in DOMAIN max, d # c PROVE PagedLists(d)' = PagedLists(d)
    OBVIOUS
  <2>1. \A l \in Layers : Paged!Reached(d, l)' = Paged!Reached(d, l)
    BY <1>4, <1>16
  <2> QED
    BY <1>1, <1>7, <1>9, <2>1 DEF PagedLists
<1> DEFINE cells(l) == tensor[home][l]
           old(l) == Paged!Loaded(cells(l), Own(c), seq_len[c])
<1>18. \A l \in Layers : Kv[c][l] = old(l)
  BY <1>1, <1>14, <1>16 DEF PagedLists
<1>19. \A l \in Layers : old(l) \in Seq(Values) /\ Len(old(l)) = seq_len[c]
  <2> SUFFICES ASSUME NEW l \in Layers
               PROVE  old(l) \in Seq(Values) /\ Len(old(l)) = seq_len[c]
    OBVIOUS
  <2>1. Kv[c][l] \in Seq(Values)
    BY <1>1, <1>14 DEF StoreInv
  <2>2. Len(old(l)) = seq_len[c]
    BY <1>3, LoadedIs
  <2> QED
    BY <1>18, <2>1, <2>2
<1>20. PICK b : b = Own(c)'
  OBVIOUS
<1>21. \A l \in Layers : Paged!Loaded(cells(l), b, k) = SubSeq(old(l), 1, k)
  <2> SUFFICES ASSUME NEW l \in Layers
               PROVE  Paged!Loaded(cells(l), b, k) = SubSeq(old(l), 1, k)
    OBVIOUS
  <2>1. \A x \in 0 .. k - 1 : x \div BlockSize + 1 \in 1 .. Len(b)
    <3>1. \A x \in 0 .. k - 1 : x \div BlockSize + 1 \in 1 .. Paged!Cover(k)
      BY <1>3, Coverage
    <3> DEFINE m == Paged!Cover(k)
               at(x) == x \div BlockSize + 1
    <3>2. m \in Nat /\ m <= Len(b) /\ Len(b) \in Nat /\ \A x \in 0 .. k - 1 : at(x) \in 1 .. m
      BY <1>8, <1>10, <1>20, <3>1
    <3> HIDE DEF m, at, k
    <3>3. \A x \in 0 .. k - 1 : at(x) \in 1 .. Len(b)
      BY <3>2
    <3> QED
      BY <3>3 DEF at
  <2>2. \A i \in 1 .. Len(b) : b[i] = Own(c)[i]
    BY <1>6, <1>8, <1>20
  <2>3. \A x \in 0 .. k - 1 : Paged!Slot(b, x) = Paged!Slot(Own(c), x)
    BY <2>1, <2>2 DEF Paged!Slot
  <2>4. \A x \in 0 .. k - 1 : cells(l)[Paged!Slot(b, x)] = cells(l)[Paged!Slot(Own(c), x)]
    BY <2>3
  <2>5. old(l) \in Seq(Values) /\ seq_len[c] \in Nat /\ k \in 0 .. seq_len[c]
    BY <1>3, <1>19
  <2> HIDE DEF k, cells
  <2> QED
    BY <2>4, <2>5, LoadedCut
<1>22. PagedLists(c)' = [l \in Layers |-> SubSeq(Kv[c][l], 1, Len(Kv[c][l]) - n)]
  <2>1. PagedLists(c)' = [l \in Layers |-> Paged!Loaded(cells(l), b, k)]
    BY <1>1, <1>4, <1>7, <1>16, <1>20 DEF PagedLists
  <2> HIDE DEF old, cells
  <2> QED
    BY <1>18, <1>19, <1>21, <2>1
<1>23. Kv' = [Kv EXCEPT ![c] = [l \in Layers |-> SubSeq(Kv[c][l], 1, Len(Kv[c][l]) - n)]]
  <2> DEFINE Alive == DOMAIN max \ broken
             cut == [l \in Layers |-> SubSeq(Kv[c][l], 1, Len(Kv[c][l]) - n)]
  <2>1. /\ Kv' = [d \in Alive |-> PagedLists(d)'] /\ PagedLists(c)' = cut
        /\ c \in Alive /\ DOMAIN Kv = Alive /\ Kv = [d \in Alive |-> Kv[d]]
        /\ \A d \in Alive : Kv[d] = PagedLists(d)
    BY <1>1, <1>14, <1>15, <1>22
  <2>2. \A d \in Alive \ {c} : PagedLists(d)' = PagedLists(d)
    BY <1>17
  <2> HIDE DEF Alive, cut
  <2>3. Kv' = [Kv EXCEPT ![c] = cut]
    BY <2>1, <2>2
  <2> QED
    BY <2>3 DEF cut
<1>24. \A l \in Layers : Len(Kv[c][l]) = seq_len[c]
  BY <1>18, <1>19
<1>25. 1 \in Layers /\ \A l \in Layers : n <= Len(Kv[c][l])
  BY <1>24, LayersAssumption DEF Layers
<1>26. Store!Trim(c, n)
  <2>1. c \in DOMAIN Kv /\ Fwd = Store!NoForward /\ Fwd' = Fwd
    BY <1>1, <1>12, <1>14, <1>15
  <2> QED
    BY <1>23, <1>25, <2>1 DEF Store!Trim, Store!Layers, Layers
<1>27. n \in 1 .. Len(Kv[c][1])
  BY <1>24, <1>25
<1> QED
  BY <1>1, <1>13, <1>14, <1>26, <1>27 DEF StoreStep, Store!Next

LEMMA PagedForwards ==
  ASSUME PagedInv, StoreInv, Paged!Layer
  PROVE  PagedInv' /\ StoreStep
<1> USE LayersAssumption
<1>0. PICK n, new : n = forward.at /\ new = forward.new
  OBVIOUS
<1> DEFINE len(c) == Len(new[c])
           past(c) == seq_len[c] - len(c)
           slots(c) == Paged!Slots(Own(c), past(c), len(c))
           mine(h) == {c \in DOMAIN new : Paged!Home(c) = h}
           places(h) == [c \in mine(h) |-> slots(c)]
           t(h) == Paged!Stored(tensor[h][n], places(h), new)
<1>1. /\ n # 0 /\ kind' = kind /\ max' = max /\ seq_len' = seq_len
      /\ pools' = pools /\ broken' = broken
      /\ forward' = IF n = NumLayers THEN Paged!Idle ELSE [forward EXCEPT !.at = @ + 1]
  BY <1>0 DEF Paged!Layer
<1>2. tensor' = [h \in DOMAIN tensor |-> [tensor[h] EXCEPT ![n] = t(h)]]
  BY <1>0 DEF Paged!Layer, Own, Bl
<1>3. /\ kind \in {"shared", "own"} /\ broken \subseteq DOMAIN max /\ DOMAIN max \subseteq Ctx
      /\ DOMAIN pools = Homes /\ DOMAIN tensor = Homes
      /\ \A h \in Homes : PoolInv(h)
  BY DEF PagedInv
<1>4. /\ Kv = [d \in DOMAIN max \ broken |-> PagedLists(d)] /\ Fwd = forward
      /\ DOMAIN Kv = DOMAIN max \ broken
      /\ \A d \in DOMAIN max \ broken : Kv[d] = PagedLists(d)
  BY <1>3, PagedView
<1>5. Kv' = [d \in DOMAIN max' \ broken' |-> PagedLists(d)'] /\ Fwd' = forward'
  BY <1>1, PagedViews
<1>6. Forwarding
  BY <1>0, <1>1, <1>4, NoForwardIs DEF StoreInv
<1>7. /\ n \in Layers /\ n \in Nat /\ DOMAIN new \subseteq DOMAIN max \ broken
      /\ forward = [at |-> n, new |-> new]
      /\ \A c \in DOMAIN new : new[c] \in Seq(Values) /\ len(c) \in Nat
  BY <1>0, <1>4, <1>6, EntriesAre DEF Forwarding, Layers
<1>8. \A c \in DOMAIN new : /\ past(c) \in Nat /\ past(c) + len(c) = seq_len[c]
                            /\ seq_len[c] \in Nat
  <2> SUFFICES ASSUME NEW c \in DOMAIN new
               PROVE  /\ past(c) \in Nat /\ past(c) + len(c) = seq_len[c]
                      /\ seq_len[c] \in Nat
    OBVIOUS
  <2>1. seq_len[c] \in Nat /\ len(c) \in Nat /\ len(c) <= seq_len[c]
    BY <1>0, <1>7 DEF PagedInv
  <2> HIDE DEF len
  <2> QED
    BY <2>1
<1> HIDE DEF len, past
<1>9. \A c \in DOMAIN new :
        /\ DOMAIN slots(c) = 1 .. len(c)
        /\ \A i \in 1 .. len(c) :
             /\ slots(c)[i] = Paged!Slot(Own(c), past(c) + i - 1)
             /\ past(c) + i - 1 \in 0 .. seq_len[c] - 1 /\ past(c) + i - 1 >= past(c)
             /\ past(c) + i - 1 \in Nat
  BY <1>7, <1>8 DEF Paged!Slots
<1> HIDE DEF slots
<1>10. ASSUME NEW c \in DOMAIN max, NEW x \in 0 .. seq_len[c] - 1
       PROVE  /\ Paged!Slot(Own(c), x) \in DOMAIN tensor[Paged!Home(c)][n]
              /\ \A d \in DOMAIN max : \A y \in 0 .. seq_len[d] - 1 :
                   /\ Paged!Home(d) = Paged!Home(c)
                   /\ Paged!Slot(Own(d), y) = Paged!Slot(Own(c), x)
                   => d = c /\ y = x
  <2> DEFINE h == Paged!Home(c)
             p == pools[h]
  <2>1. /\ h \in Homes /\ PoolInv(h) /\ Proper(p) /\ Own(c) = Bl(p, c) /\ x \in Nat
        /\ x \div BlockSize + 1 \in 1 .. Len(Bl(p, c))
    BY PagedFacts DEF Paged!Pool, Own
  <2>2. Paged!Slot(Bl(p, c), x) \in Paged!AllBlocks(p) \X (0 .. BlockSize - 1)
    <3> HIDE DEF p, h
    <3> QED
      BY <2>1, SlotIn
  <2>3. Paged!Slot(Own(c), x) \in DOMAIN tensor[h][n]
    BY <1>7, <2>1, <2>2 DEF PoolInv
  <2>4. ASSUME NEW d \in DOMAIN max, NEW y \in 0 .. seq_len[d] - 1, Paged!Home(d) = h,
               Paged!Slot(Own(d), y) = Paged!Slot(Own(c), x)
        PROVE  d = c /\ y = x
    <3>1. /\ Own(d) = Bl(p, d) /\ y \in Nat
          /\ y \div BlockSize + 1 \in 1 .. Len(Bl(p, d))
      BY <2>4, PagedFacts DEF Paged!Pool, Own
    <3>2. Paged!Slot(Bl(p, d), y) = Paged!Slot(Bl(p, c), x)
      BY <2>1, <2>4, <3>1
    <3> HIDE DEF p, h
    <3> QED
      BY <2>1, <3>1, <3>2, SlotIs
  <2> QED
    BY <2>3, <2>4
<1>11. ASSUME NEW h
       PROVE  /\ DOMAIN t(h) = DOMAIN tensor[h][n]
              /\ \A s \in DOMAIN tensor[h][n] :
                   (\A c \in mine(h) : \A i \in 1 .. len(c) : slots(c)[i] # s)
                     => t(h)[s] = tensor[h][n][s]
              /\ \A c \in mine(h) : \A i \in 1 .. len(c) : t(h)[slots(c)[i]] = new[c][i]
  <2> DEFINE cells == tensor[h][n]
             S == mine(h)
             at == places(h)
  <2>1. /\ DOMAIN at = S /\ \A c \in S : at[c] = slots(c) /\ DOMAIN at[c] = 1 .. len(c)
        /\ \A c \in S : c \in DOMAIN new /\ c \in DOMAIN max /\ Paged!Home(c) = h
    BY <1>7, <1>9
  <2>2. \A c \in S : \A i \in 1 .. len(c) : slots(c)[i] \in DOMAIN cells
    BY <1>9, <1>10, <2>1
  <2>3. \A c \in S, d \in S : \A i \in 1 .. len(c), j \in 1 .. len(d) :
          slots(c)[i] = slots(d)[j] => c = d /\ i = j
    <3> SUFFICES ASSUME NEW c \in S, NEW d \in S, NEW i \in 1 .. len(c), NEW j \in 1 .. len(d),
                        slots(c)[i] = slots(d)[j]
                 PROVE  c = d /\ i = j
      OBVIOUS
    <3>1. c = d /\ past(c) + i - 1 = past(d) + j - 1
      BY <1>9, <1>10, <2>1
    <3>2. past(c) \in Nat
      BY <1>8, <2>1
    <3> QED
      BY <3>1, <3>2
  <2> HIDE DEF S, at, cells
  <2>4. \A c \in S, d \in S : \A i \in DOMAIN at[c], j \in DOMAIN at[d] :
          at[c][i] = at[d][j] => c = d /\ i = j
    <3> SUFFICES ASSUME NEW c \in S, NEW d \in S, NEW i \in DOMAIN at[c], NEW j \in DOMAIN at[d],
                        at[c][i] = at[d][j]
                 PROVE  c = d /\ i = j
      OBVIOUS
    <3>1. at[c] = slots(c) /\ at[d] = slots(d) /\ i \in 1 .. len(c) /\ j \in 1 .. len(d)
      BY <2>1
    <3> QED
      BY <2>3, <3>1
  <2> DEFINE u == Paged!Stored(cells, at, new)
  <2>5. /\ DOMAIN u = DOMAIN cells
        /\ \A s \in DOMAIN cells :
             (\A c \in S : \A i \in DOMAIN at[c] : at[c][i] # s) => u[s] = cells[s]
        /\ \A c \in S : \A i \in DOMAIN at[c] :
             at[c][i] \in DOMAIN cells => u[at[c][i]] = new[c][i]
    <3> QED
      BY <2>1, <2>4, StoredIs
  <2>6. t(h) = u
    BY DEF cells, at
  <2> HIDE DEF u, t
  <2>7. /\ DOMAIN u = DOMAIN cells
        /\ \A s \in DOMAIN cells :
             (\A c \in S : \A i \in 1 .. len(c) : slots(c)[i] # s) => u[s] = cells[s]
        /\ \A c \in S : \A i \in 1 .. len(c) : u[slots(c)[i]] = new[c][i]
    <3>1. ASSUME NEW s \in DOMAIN cells, \A c \in S : \A i \in 1 .. len(c) : slots(c)[i] # s
          PROVE  u[s] = cells[s]
      <4>1. \A c \in S : \A i \in DOMAIN at[c] : at[c][i] # s
        BY <2>1, <3>1
      <4> QED
        BY <2>5, <4>1
    <3>2. ASSUME NEW c \in S, NEW i \in 1 .. len(c) PROVE u[slots(c)[i]] = new[c][i]
      <4>1. at[c] = slots(c) /\ i \in DOMAIN at[c] /\ slots(c)[i] \in DOMAIN cells
        BY <2>1, <2>2
      <4> QED
        BY <2>5, <4>1
    <3> QED
      BY <2>5, <3>1, <3>2
  <2> QED
    BY <2>6, <2>7 DEF S, cells
<1> HIDE DEF t
<1>12. ASSUME NEW c \in DOMAIN max, NEW x \in 0 .. seq_len[c] - 1,
              c \in DOMAIN new => x < past(c)
       PROVE  t(Paged!Home(c))[Paged!Slot(Own(c), x)]
                = tensor[Paged!Home(c)][n][Paged!Slot(Own(c), x)]
  <2>1. ASSUME NEW d \in mine(Paged!Home(c)), NEW i \in 1 .. len(d),
               slots(d)[i] = Paged!Slot(Own(c), x)
        PROVE  FALSE
    <3>1. d \in DOMAIN new /\ d \in DOMAIN max /\ Paged!Home(d) = Paged!Home(c)
      BY <1>7
    <3>2. d = c /\ past(d) + i - 1 = x /\ past(d) + i - 1 >= past(d)
      BY <1>9, <1>10, <2>1, <3>1
    <3>3. past(d) \in Nat
      BY <1>8, <3>1
    <3> QED
      BY <1>12, <3>1, <3>2, <3>3
  <2> QED
    BY <1>10, <1>11, <2>1
<1>13. \A h \in Homes : /\ tensor'[h] = [l \in Layers |-> tensor'[h][l]]
                        /\ \A l \in Layers :
                             tensor'[h][l] = IF l = n THEN t(h) ELSE tensor[h][l]
  <2> SUFFICES ASSUME NEW h \in Homes
               PROVE  /\ tensor'[h] = [l \in Layers |-> tensor'[h][l]]
                      /\ \A l \in Layers :
                           tensor'[h][l] = IF l = n THEN t(h) ELSE tensor[h][l]
    OBVIOUS
  <2>1. tensor[h] = [l \in Layers |-> tensor[h][l]]
    BY <1>3 DEF PoolInv
  <2>2. tensor'[h] = [tensor[h] EXCEPT ![n] = t(h)]
    BY <1>2, <1>3
  <2>3. tensor'[h] = [l \in Layers |-> IF l = n THEN t(h) ELSE tensor[h][l]]
    BY <2>1, <2>2
  <2> QED
    BY <2>3
<1>14. /\ Homes' = Homes /\ \A c : Paged!Home(c)' = Paged!Home(c)
       /\ \A c : Own(c)' = Own(c)
  BY <1>1 DEF Homes, Paged!Home, Own, Bl, Paged!Pool, Paged!BlocksOf
<1>15. \/ n = NumLayers /\ forward' = Paged!Idle /\ DOMAIN forward'.new = {}
       \/ forward' = [at |-> n + 1, new |-> new]
  BY <1>0, <1>1, <1>7, NoForwardIs
<1>16. PagedInv'
  <2>1. ASSUME NEW h \in Homes PROVE PoolInv(h)'
    <3>1. PoolInv(h)
      BY <1>3
    <3>2. \A l \in Layers : DOMAIN tensor'[h][l] = DOMAIN tensor[h][l]
      BY <1>11, <1>13
    <3> QED
      BY <1>1, <1>13, <1>14, <3>1, <3>2 DEF PoolInv
  <2>2. tensor' = [h \in Homes' |-> tensor'[h]]
    BY <1>2, <1>3, <1>14
  <2>3. \A c \in DOMAIN forward'.new : Len(forward'.new[c]) <= seq_len'[c]
    <3>1. CASE DOMAIN forward'.new = {}
      BY <3>1
    <3>2. CASE forward' = [at |-> n + 1, new |-> new]
      <4>1. \A c \in DOMAIN new : Len(new[c]) <= seq_len[c]
        BY <1>0 DEF PagedInv
      <4>2. forward'.new = new /\ seq_len' = seq_len
        BY <1>1, <3>2
      <4> QED
        BY <4>1, <4>2
    <3> QED
      BY <1>15, <3>1, <3>2
  <2> QED
    BY <1>1, <1>14, <2>1, <2>2, <2>3 DEF PagedInv
<1>17. ASSUME NEW c \in DOMAIN max, NEW l \in Layers
       PROVE  /\ l # n => Paged!Reached(c, l)' = Paged!Reached(c, l)
              /\ l = n => /\ Paged!Reached(c, l)' = seq_len[c]
                          /\ c \in DOMAIN new => Paged!Reached(c, l) = past(c)
                          /\ c \notin DOMAIN new => Paged!Reached(c, l) = seq_len[c]
  <2>1. Paged!Reached(c, l) = IF c \in DOMAIN new /\ l >= n THEN past(c) ELSE seq_len[c]
    BY <1>0 DEF Paged!Reached, past, len
  <2>2. CASE n = NumLayers /\ DOMAIN forward'.new = {}
    <3>1. Paged!Reached(c, l)' = seq_len[c]
      BY <1>1, <2>2 DEF Paged!Reached
    <3>2. l # n => ~(l >= n)
      BY <2>2 DEF Layers
    <3>3. l = n => l >= n
      BY <1>7
    <3> QED
      BY <2>1, <3>1, <3>2, <3>3
  <2>3. CASE forward' = [at |-> n + 1, new |-> new]
    <3>1. Paged!Reached(c, l)' = IF c \in DOMAIN new /\ l >= n + 1 THEN past(c) ELSE seq_len[c]
      BY <1>1, <2>3 DEF Paged!Reached, past, len
    <3>2. (l # n => (l >= n <=> l >= n + 1)) /\ (l = n => l >= n /\ ~(l >= n + 1))
      BY <1>7 DEF Layers
    <3> QED
      BY <2>1, <3>1, <3>2
  <2> QED
    BY <1>15, <2>2, <2>3
<1> DEFINE old(c, l) == Paged!Loaded(tensor[Paged!Home(c)][l], Own(c), Paged!Reached(c, l))
           now(c, l) == Paged!Loaded(tensor'[Paged!Home(c)][l], Own(c), Paged!Reached(c, l)')
<1>18. \A c \in DOMAIN max : /\ PagedLists(c) = [l \in Layers |-> old(c, l)]
                             /\ PagedLists(c)' = [l \in Layers |-> now(c, l)]
                             /\ Paged!Home(c) \in Homes /\ seq_len[c] \in Nat
  BY <1>14, PagedFacts DEF PagedLists
<1>19. ASSUME NEW c \in DOMAIN max, NEW l \in Layers, l # n PROVE now(c, l) = old(c, l)
  BY <1>13, <1>17, <1>18, <1>19
<1>20. ASSUME NEW c \in DOMAIN max, c \notin DOMAIN new PROVE now(c, n) = old(c, n)
  <2> DEFINE h == Paged!Home(c)
             m == seq_len[c]
  <2>1. /\ Paged!Reached(c, n) = m /\ Paged!Reached(c, n)' = m /\ m \in Nat
        /\ tensor'[h][n] = t(h)
    BY <1>7, <1>13, <1>17, <1>18, <1>20
  <2>2. \A x \in 0 .. m - 1 : t(h)[Paged!Slot(Own(c), x)] = tensor[h][n][Paged!Slot(Own(c), x)]
    BY <1>12, <1>20
  <2>3. Paged!Loaded(t(h), Own(c), m) = Paged!Loaded(tensor[h][n], Own(c), m)
    <3> HIDE DEF h, m
    <3> QED
      BY <2>1, <2>2, LoadedSame
  <2> QED
    BY <2>1, <2>3
<1>21. ASSUME NEW c \in DOMAIN new PROVE now(c, n) = old(c, n) \o new[c]
  <2> DEFINE h == Paged!Home(c)
             m == past(c)
             e == new[c]
             cells == tensor[h][n]
  <2>1. c \in DOMAIN max /\ c \in DOMAIN max \ broken
    BY <1>7
  <2>2. /\ Paged!Reached(c, n) = m /\ Paged!Reached(c, n)' = m + Len(e)
        /\ m \in Nat /\ tensor'[h][n] = t(h) /\ e \in Seq(Values)
        /\ m + Len(e) = seq_len[c]
    BY <1>7, <1>8, <1>13, <1>17, <1>18, <2>1 DEF len
  <2>3. Paged!Loaded(cells, Own(c), m) \in Seq(Values)
    <3>1. Kv[c][n] = old(c, n)
      BY <1>4, <1>7, <1>18, <2>1
    <3>2. Kv[c][n] \in Seq(Values)
      BY <1>4, <1>7, <2>1 DEF StoreInv
    <3> QED
      BY <2>2, <3>1, <3>2
  <2>4. \A x \in 0 .. m - 1 : t(h)[Paged!Slot(Own(c), x)] = cells[Paged!Slot(Own(c), x)]
    <3> SUFFICES ASSUME NEW x \in 0 .. m - 1
                 PROVE  t(h)[Paged!Slot(Own(c), x)] = cells[Paged!Slot(Own(c), x)]
      OBVIOUS
    <3>1. x < m /\ x \in 0 .. seq_len[c] - 1
      <4>1. len(c) \in Nat /\ len(c) = Len(e)
        BY <1>7 DEF len
      <4> HIDE DEF m, e
      <4> QED
        BY <2>2, <4>1
    <3> QED
      BY <1>12, <2>1, <3>1
  <2>5. \A i \in 1 .. Len(e) : t(h)[Paged!Slot(Own(c), m + i - 1)] = e[i]
    <3>1. c \in mine(h) /\ len(c) = Len(e)
      BY DEF len
    <3> QED
      BY <1>9, <1>11, <3>1
  <2>6. Paged!Loaded(t(h), Own(c), m + Len(e)) = Paged!Loaded(cells, Own(c), m) \o e
    <3>1. PICK u, k : u = t(h) /\ k = m + Len(e)
      OBVIOUS
    <3> HIDE DEF h, m, e, cells
    <3>2. m \in Nat /\ e \in Seq(Values) /\ Paged!Loaded(cells, Own(c), m) \in Seq(Values)
      BY <2>2, <2>3
    <3>3. Appended(u, cells, Own(c), m, e)
      BY <2>4, <2>5, <3>1 DEF Appended
    <3>4. Paged!Loaded(u, Own(c), k) = Joined(Paged!Loaded(cells, Own(c), m), e)
      BY <3>1, <3>2, <3>3, LoadedJoins
    <3> QED
      BY <3>1, <3>4 DEF Joined
  <2> QED
    BY <2>2, <2>6
<1> HIDE DEF old, now
<1>22. ASSUME NEW c \in DOMAIN max
       PROVE  PagedLists(c)' = IF c \in DOMAIN new
                               THEN [PagedLists(c) EXCEPT ![n] = PagedLists(c)[n] \o new[c]]
                               ELSE PagedLists(c)
  <2>1. /\ PagedLists(c) = [l \in Layers |-> old(c, l)]
        /\ PagedLists(c)' = [l \in Layers |-> now(c, l)]
    BY <1>18
  <2>2. PICK before, after : before = PagedLists(c) /\ after = PagedLists(c)'
    OBVIOUS
  <2>3. CASE c \in DOMAIN new
    <3>1. \A l \in Layers : now(c, l) = IF l = n THEN old(c, n) \o new[c] ELSE old(c, l)
      BY <1>19, <1>21, <2>3
    <3>2. before[n] = old(c, n)
      BY <1>7, <2>1, <2>2
    <3>3. after = [before EXCEPT ![n] = before[n] \o new[c]]
      BY <2>1, <2>2, <3>1, <3>2, ZenonT(30)
    <3> QED
      BY <2>2, <2>3, <3>3
  <2>4. CASE c \notin DOMAIN new
    <3>1. \A l \in Layers : now(c, l) = old(c, l)
      BY <1>19, <1>20, <2>4
    <3> QED
      BY <2>1, <2>4, <3>1
  <2> QED
    BY <2>3, <2>4
<1>23. Kv' = [c \in DOMAIN Kv |->
                IF c \in DOMAIN new THEN [Kv[c] EXCEPT ![n] = @ \o new[c]] ELSE Kv[c]]
  <2> DEFINE Alive == DOMAIN max \ broken
  <2>1. /\ Kv' = [c \in Alive |-> PagedLists(c)'] /\ DOMAIN Kv = Alive
        /\ \A c \in Alive : Kv[c] = PagedLists(c)
    BY <1>1, <1>4, <1>5
  <2>2. \A c \in Alive :
          PagedLists(c)' = IF c \in DOMAIN new
                           THEN [Kv[c] EXCEPT ![n] = Kv[c][n] \o new[c]] ELSE Kv[c]
    BY <1>22, <2>1
  <2> HIDE DEF Alive
  <2> QED
    BY <2>1, <2>2
<1>24. Fwd' = IF n = NumLayers THEN Store!NoForward ELSE [Fwd EXCEPT !.at = @ + 1]
  BY <1>0, <1>1, <1>4, <1>5, NoForwardIs
<1>25. Store!Layer
  BY <1>0, <1>4, <1>7, <1>23, <1>24 DEF Store!Layer, Store!Layers, Layers
<1> QED
  BY <1>16, <1>25 DEF StoreStep, Store!Next

LEMMA PagedStep ==
  ASSUME PagedInv, StoreInv, Paged!Next
  PROVE  PagedInv' /\ StoreStep
BY PagedCreates, PagedBegins, PagedForwards, PagedAbandons, PagedRemoves, PagedTrims
   DEF Paged!Next

-----------------------------------------------------------------------------
(* The masks                                                               *)

LEMMA SetupsAre ==
  ASSUME NEW s \in Setups
  PROVE  /\ s.entries \in Nat \ {0} /\ s.cache \in {"dynamic", "bmc"} /\ s.jit \in BOOLEAN
         /\ s.windows \in Seq(Nat) /\ s.sinks \in BOOLEAN /\ s.offline \in BOOLEAN
<1>1. <<0>> \in Seq(Nat) /\ <<0, 2>> \in Seq(Nat)
  OBVIOUS
<1> DEFINE Good(x) == /\ x.entries \in Nat \ {0} /\ x.cache \in {"dynamic", "bmc"} /\ x.jit \in BOOLEAN
                      /\ x.windows \in Seq(Nat) /\ x.sinks \in BOOLEAN /\ x.offline \in BOOLEAN
<1>2. ASSUME NEW n \in {1, 2}, NEW type \in {"dynamic", "bmc"}, NEW o \in BOOLEAN
      PROVE  /\ Good(Setup(n, type, Plain, o)) /\ Good(Setup(n, type, Native, o))
             /\ Good(Setup(n, type, Window, o)) /\ Good(Setup(n, type, Sinks, o))
  <2>1. Good(Setup(n, type, Plain, o))
    BY <1>1 DEF Setup, Plain
  <2>2. Good(Setup(n, type, Native, o))
    BY <1>1 DEF Setup, Native
  <2>3. Good(Setup(n, type, Window, o))
    BY <1>1 DEF Setup, Window
  <2>4. Good(Setup(n, type, Sinks, o))
    BY <1>1 DEF Setup, Sinks
  <2> QED
    BY <2>1, <2>2, <2>3, <2>4
<1> HIDE DEF Good
<1>3. ASSUME NEW v \in Variants
      PROVE  Good(Setup(1, "dynamic", v, FALSE)) /\ Good(Setup(1, "bmc", v, FALSE))
  <2>1. 1 \in {1, 2} /\ FALSE \in BOOLEAN
    OBVIOUS
  <2> QED
    BY <1>2, <2>1, Zenon DEF Variants
<1>4. Good(Setup(1, "bmc", Sinks, TRUE)) /\ Good(Setup(1, "dynamic", Window, TRUE))
      /\ Good(Setup(2, "dynamic", Sinks, FALSE))
  BY <1>2, Zenon
<1>6. Good(s)
  BY <1>3, <1>4, Zenon DEF Setups
<1> QED
  BY <1>6, Zenon DEF Good

(* The least element of a set of numbers. *)
LEMMA LeastIn ==
  ASSUME NEW S \in SUBSET Nat, S # {}
  PROVE  \E x \in S : \A y \in S : x <= y
<1>1. PICK x \in S : \A y \in S : ~ (<<y, x>> \in OpToRel(<, Nat))
  BY WFMin, NatLessThanWellFounded, Zenon
<1>2. ASSUME NEW y \in S PROVE x <= y
  <2>1. ~(<<y, x>> \in OpToRel(<, Nat))
    BY <1>1
  <2>2. x \in Nat /\ y \in Nat
    OBVIOUS
  <2>3. ~(y < x)
    BY <2>1, <2>2, Zenon DEF OpToRel
  <2> QED
    BY <2>2, <2>3
<1> QED
  BY <1>2

(* A context: what is written fits, and padding is shorter than one token. *)
IsCache(d) ==
  /\ d = [len |-> d.len, columns |-> d.columns, written |-> d.written, pads |-> d.pads]
  /\ d.len \in 0 .. MaxLen /\ d.columns \in Nat /\ d.written \in Nat
  /\ d.len <= d.written /\ d.written <= d.columns
  /\ d.pads \in {<<0>>, <<1, 0>>}
  /\ setup.cache = "dynamic" => d.columns = d.len

(* A context of a forward: its new entries are there, not all of a row is  *)
(* padding, and several entries for one that had some are those of a round.*)
Served(c) ==
  /\ forward.q <= cache[c].len
  /\ \A b \in DOMAIN cache[c].pads : cache[c].pads[b] < cache[c].len
  /\ cache[c].len = forward.q \/ forward.q < BrgemmMin

IsForward ==
  /\ forward = [batch |-> forward.batch, q |-> forward.q, at |-> forward.at]
  /\ forward.batch \in Seq(DOMAIN cache) /\ Mask!IsInjective(forward.batch)
  /\ forward.q \in Nat \ {0} /\ forward.at \in 0 .. Len(setup.windows)
  /\ setup.offline => Len(forward.batch) = 1
  /\ \A n \in 1 .. Len(forward.batch) : Served(forward.batch[n])

(* What a buffer shows, by the keys it is found under. *)
Keys == Nat \X Nat \X Nat \X (Ctx \union {""})
Contents == Nat \X Nat \X {<<>>, <<1, 0>>}
MaskEntry == [key : Keys, content : Contents, buf : Nat \ {0}]
Hidden(key, content, b) == IF content[3] = <<>> THEN 0 ELSE content[3][b]
Shown(key, content) ==
  [b \in 1 .. key[1] |-> [i \in 1 .. key[2] |->
     {k \in 1 .. key[3] :
        /\ k <= content[1] - key[2] + i
        /\ ~(content[2] > 0 /\ \/ key[3] - key[2] + i - k < 0
                               \/ key[3] - key[2] + i - k >= content[2])
        /\ k > Hidden(key, content, b)}]]

Apart(p) == \A i, j \in 1 .. Len(p) : i # j => p[i].key # p[j].key /\ p[i].buf # p[j].buf
PoolOk(p, bs) ==
  /\ p \in Seq(MaskEntry) /\ Apart(p)
  /\ \A i \in 1 .. Len(p) : /\ p[i].buf \in DOMAIN bs
                            /\ bs[p[i].buf] = Shown(p[i].key, p[i].content)

MaskInv ==
  /\ setup \in Setups
  /\ DOMAIN cache \subseteq Ctx /\ cache = [c \in DOMAIN cache |-> cache[c]]
  /\ IsFiniteSet(DOMAIN cache)
  /\ \A c \in DOMAIN cache : IsCache(cache[c]) /\ (~setup.offline => cache[c].pads = <<0>>)
  /\ forward = Mask!Idle \/ IsForward
  /\ PoolOk(pool, buffers) /\ Len(pool) <= setup.entries
  /\ DOMAIN buffers = {pool[i].buf : i \in 1 .. Len(pool)}
  /\ Mask!AttendsExactlyElsewhere

LEMMA VisibleIs ==
  ASSUME NEW c \in DOMAIN cache, IsCache(cache[c]), NEW window \in Nat,
         forward.q \in Nat, DOMAIN cache \subseteq Ctx
  PROVE  /\ Mask!PoolKey(c) \in Keys /\ Mask!ContentKey(c, window) \in Contents
         /\ Mask!Visible(c, window) = Shown(Mask!PoolKey(c), Mask!ContentKey(c, window))
<1> DEFINE d == cache[c]
           key == <<Len(d.pads), forward.q, d.columns, Mask!Owner(c)>>
           content == <<d.len, window, IF Mask!HasLeadingPad(c) THEN d.pads ELSE <<>>>>
<1>0. Mask!PoolKey(c) = key /\ Mask!ContentKey(c, window) = content
  BY Zenon DEF Mask!PoolKey, Mask!ContentKey
<1>1. Len(d.pads) \in Nat /\ DOMAIN d.pads = 1 .. Len(d.pads)
  BY DEF IsCache
<1>2. Mask!Owner(c) \in Ctx \union {""}
  BY DEF Mask!Owner
<1>3. key \in Keys
  <2>1. d.columns \in Nat
    BY DEF IsCache
  <2> QED
    BY <1>1, <1>2, <2>1 DEF Keys
<1>4. content[1] = d.len /\ content[2] = window
      /\ content[3] = IF Mask!HasLeadingPad(c) THEN d.pads ELSE <<>>
  OBVIOUS
<1>5. /\ Mask!HasLeadingPad(c) => d.pads = <<1, 0>>
      /\ \A b \in 1 .. Len(d.pads) : Hidden(key, content, b) = d.pads[b]
  <2>1. CASE d.pads = <<0>>
    <3>1. ~Mask!HasLeadingPad(c) /\ \A b \in 1 .. Len(d.pads) : d.pads[b] = 0
      BY <2>1 DEF Mask!HasLeadingPad, Mask!Rows, Mask!Pad
    <3> QED
      BY <1>4, <3>1 DEF Hidden
  <2>2. CASE d.pads = <<1, 0>>
    <3>1. Mask!HasLeadingPad(c) /\ d.pads # <<>>
      BY <2>2 DEF Mask!HasLeadingPad, Mask!Rows, Mask!Pad
    <3> QED
      BY <1>4, <2>2, <3>1 DEF Hidden
  <2> QED
    BY <2>1, <2>2 DEF IsCache
<1>6. content \in Contents
  BY <1>4, <1>5 DEF Contents, IsCache
<1>9. key[1] = Len(d.pads) /\ key[2] = forward.q /\ key[3] = d.columns
  OBVIOUS
<1>7. Mask!Visible(c, window) = Shown(key, content)
  <2> HIDE DEF key, content
  <2> DEFINE Seen(b, i) == {k \in 1 .. d.columns : /\ k <= d.len - forward.q + i
                                                   /\ ~Mask!Outside(c, i, window, k)
                                                   /\ k > Mask!Pad(c, b)}
             Found(b, i) ==
               {k \in 1 .. key[3] :
                 /\ k <= content[1] - key[2] + i
                 /\ ~(content[2] > 0 /\ \/ key[3] - key[2] + i - k < 0
                                        \/ key[3] - key[2] + i - k >= content[2])
                 /\ k > Hidden(key, content, b)}
  <2>1. ASSUME NEW b \in 1 .. Len(d.pads), NEW i \in 1 .. forward.q
        PROVE  Seen(b, i) = Found(b, i)
    BY <1>4, <1>5, <1>9 DEF Mask!Outside, Mask!Pad
  <2>2. Mask!Visible(c, window) = [b \in 1 .. Len(d.pads) |-> [i \in 1 .. forward.q |-> Seen(b, i)]]
    BY <1>1, Zenon DEF Mask!Visible, Mask!Rows
  <2>3. Shown(key, content) = [b \in 1 .. Len(d.pads) |-> [i \in 1 .. forward.q |-> Found(b, i)]]
    BY <1>9, Zenon DEF Shown
  <2> HIDE DEF Seen, Found
  <2> QED
    BY <2>1, <2>2, <2>3, Zenon
<1> QED
  BY <1>0, <1>3, <1>6, <1>7, Zenon

(* A pool with one entry less, or more. *)
LEMMA PoolWithout ==
  ASSUME NEW E, NEW p \in Seq(E), Apart(p), NEW at \in 1 .. Len(p)
  PROVE  LET q == SubSeq(p, 1, at - 1) \o SubSeq(p, at + 1, Len(p)) IN
           /\ q \in Seq(E) /\ Len(q) = Len(p) - 1 /\ Apart(q)
           /\ \A i \in 1 .. Len(q) : \E j \in 1 .. Len(p) : j # at /\ q[i] = p[j]
<1> DEFINE a == SubSeq(p, 1, at - 1)
           b == SubSeq(p, at + 1, Len(p))
           q == a \o b
<1>5. a \in Seq(E) /\ Len(a) = at - 1 /\ \A i \in 1 .. at - 1 : a[i] = p[i]
  OBVIOUS
<1>6. b \in Seq(E) /\ Len(b) = Len(p) - at /\ \A i \in 1 .. Len(p) - at : b[i] = p[at + i]
  OBVIOUS
<1> HIDE DEF a, b
<1>2. /\ q \in Seq(E) /\ Len(q) = Len(p) - 1
      /\ \A i \in 1 .. Len(q) : q[i] = IF i < at THEN p[i] ELSE p[i + 1]
  <2>0. /\ q \in Seq(E) /\ Len(q) = Len(a) + Len(b)
        /\ \A i \in 1 .. Len(a) + Len(b) : q[i] = IF i <= Len(a) THEN a[i] ELSE b[i - Len(a)]
    <3>1. a \in Seq(E) /\ b \in Seq(E)
      BY <1>5, <1>6
    <3> QED
      BY <3>1, ConcatProperties, Zenon
  <2> HIDE DEF q
  <2>1. /\ q \in Seq(E) /\ Len(q) = Len(a) + Len(b)
        /\ \A i \in 1 .. Len(q) : q[i] = IF i <= Len(a) THEN a[i] ELSE b[i - Len(a)]
    BY <2>0, Zenon
  <2>2. Len(p) \in Nat /\ Len(q) = Len(p) - 1
    BY <1>5, <1>6, <2>1
  <2>3. ASSUME NEW i \in 1 .. Len(q) PROVE q[i] = IF i < at THEN p[i] ELSE p[i + 1]
    <3>1. CASE i < at
      <4>1. i <= Len(a) /\ i \in 1 .. at - 1
        BY <1>5, <2>2, <3>1
      <4> QED
        BY <1>5, <2>1, <3>1, <4>1
    <3>2. CASE ~(i < at)
      <4> DEFINE n == i - Len(a)
      <4>1. n \in 1 .. Len(p) - at /\ at + n = i + 1 /\ ~(i <= Len(a))
        BY <1>5, <2>2, <3>2
      <4>2. q[i] = b[n]
        BY <2>1, <4>1
      <4> HIDE DEF n
      <4>3. b[n] = p[i + 1]
        BY <1>6, <4>1
      <4> QED
        BY <3>2, <4>2, <4>3
    <3> QED
      BY <3>1, <3>2
  <2> QED
    BY <2>1, <2>2, <2>3
<1> HIDE DEF q
<1> DEFINE from(i) == IF i < at THEN i ELSE i + 1
<1>3. ASSUME NEW i \in 1 .. Len(q)
      PROVE  from(i) \in 1 .. Len(p) /\ from(i) # at /\ q[i] = p[from(i)]
  BY <1>2
<1>4. \A i, j \in 1 .. Len(q) : i # j => from(i) # from(j)
  BY <1>2
<1> HIDE DEF from
<1>7. Apart(q)
  BY <1>3, <1>4 DEF Apart
<1>8. \A i \in 1 .. Len(q) : \E j \in 1 .. Len(p) : j # at /\ q[i] = p[j]
  BY <1>3
<1> QED
  BY <1>2, <1>7, <1>8 DEF a, b, q

LEMMA PoolWith ==
  ASSUME NEW E, NEW p \in Seq(E), Apart(p), NEW x \in E,
         \A i \in 1 .. Len(p) : p[i].key # x.key /\ p[i].buf # x.buf
  PROVE  LET q == Append(p, x) IN
           /\ q \in Seq(E) /\ Len(q) = Len(p) + 1 /\ Apart(q)
           /\ \A i \in 1 .. Len(q) : q[i] = x \/ \E j \in 1 .. Len(p) : q[i] = p[j]
<1> DEFINE q == Append(p, x)
<1>1. /\ q \in Seq(E) /\ Len(q) = Len(p) + 1
      /\ \A i \in 1 .. Len(p) : q[i] = p[i]
      /\ q[Len(p) + 1] = x
  OBVIOUS
<1> HIDE DEF q
<1>2. \A i \in 1 .. Len(q) : i = Len(p) + 1 \/ i \in 1 .. Len(p)
  BY <1>1
<1>3. Apart(q)
  BY <1>1, <1>2 DEF Apart
<1> QED
  BY <1>1, <1>2, <1>3 DEF q

LEMMA PoolTail ==
  ASSUME NEW E, NEW p \in Seq(E), Apart(p), p # <<>>
  PROVE  LET q == Tail(p) IN
           /\ q \in Seq(E) /\ Len(q) = Len(p) - 1 /\ Apart(q)
           /\ \A i \in 1 .. Len(q) : \E j \in 1 .. Len(p) : q[i] = p[j]
<1> DEFINE q == Tail(p)
<1>1. /\ q \in Seq(E) /\ Len(q) = Len(p) - 1
      /\ \A i \in 1 .. Len(q) : q[i] = p[i + 1]
  OBVIOUS
<1> HIDE DEF q
<1>2. Apart(q)
  <2>1. ASSUME NEW i \in 1 .. Len(q), NEW j \in 1 .. Len(q), i # j
        PROVE  q[i].key # q[j].key /\ q[i].buf # q[j].buf
    <3>1. i + 1 \in 1 .. Len(p) /\ j + 1 \in 1 .. Len(p) /\ i + 1 # j + 1
      BY <1>1, <2>1
    <3> QED
      BY <1>1, <3>1 DEF Apart
  <2> QED
    BY <2>1 DEF Apart
<1>3. ASSUME NEW i \in 1 .. Len(q) PROVE \E j \in 1 .. Len(p) : q[i] = p[j]
  BY <1>1
<1> QED
  BY <1>1, <1>2, <1>3 DEF q

(* The values of a function on 1 .. n are finitely many. *)
LEMMA FinitelyMany ==
  ASSUME NEW n \in Nat, NEW f, DOMAIN f = 1 .. n, f = [i \in 1 .. n |-> f[i]]
  PROVE  IsFiniteSet({f[i] : i \in 1 .. n})
<1> DEFINE T == {f[i] : i \in 1 .. n}
<1>1. IsFiniteSet(1 .. n)
  BY FS_Interval
<1>2. f \in Surjection(1 .. n, T)
  BY DEF Surjection
<1> QED
  BY <1>1, <1>2, FS_Surjection

(* There is a number no buffer in use has. *)
LEMMA FreshBuffer ==
  ASSUME NEW U, IsFiniteSet(U)
  PROVE  \E n \in 1 .. Mask!Cardinality(U) + 1 : n \notin U
<1>1. Mask!Cardinality(U) = Cardinality(U)
  BY DEF Mask!Cardinality, Cardinality
<1>2. Cardinality(U) \in Nat
  BY FS_CardinalityType
<1>3. SUFFICES ASSUME 1 .. Cardinality(U) + 1 \subseteq U PROVE FALSE
  BY <1>1
<1>4. Cardinality(1 .. Cardinality(U) + 1) = Cardinality(U) + 1
  BY <1>2, FS_Interval
<1> QED
  BY <1>2, <1>3, <1>4, FS_Subset

(* A mask: its buffer shows what is visible, is found under its key only,  *)
(* and no other buffer is written.                                         *)
Got(s, g, c, window, buf) ==
  /\ g.masks = Append(s.masks, buf)
  /\ buf \in DOMAIN g.buffers /\ g.buffers[buf] = Mask!Visible(c, window)
  /\ \A i \in 1 .. Len(g.pool) :
       IF g.pool[i].buf = buf THEN g.pool[i].key = Mask!PoolKey(c)
       ELSE \E j \in 1 .. Len(s.pool) : g.pool[i] = s.pool[j]
  /\ \A n \in DOMAIN s.buffers \ {buf} :
       n \in DOMAIN g.buffers /\ g.buffers[n] = s.buffers[n]
  /\ buf \in Mask!Range(s.masks) =>
       \E j \in 1 .. Len(s.pool) : s.pool[j].buf = buf /\ s.pool[j].key = Mask!PoolKey(c)

LEMMA GetIs ==
  ASSUME NEW s, NEW c \in DOMAIN cache, NEW window \in Nat, IsCache(cache[c]),
         forward.q \in Nat, DOMAIN cache \subseteq Ctx, setup.entries \in Nat \ {0},
         PoolOk(s.pool, s.buffers), Len(s.pool) <= setup.entries, s.masks \in Seq(Nat)
  PROVE  LET g == Mask!Get(s, c, window) IN
           /\ g = [pool |-> g.pool, buffers |-> g.buffers, masks |-> g.masks]
           /\ PoolOk(g.pool, g.buffers) /\ Len(g.pool) <= setup.entries
           /\ \E buf \in Nat \ {0} : Got(s, g, c, window, buf)
<1> DEFINE key == Mask!PoolKey(c)
           content == Mask!ContentKey(c, window)
           found == {n \in DOMAIN s.pool : s.pool[n].key = key}
           at == CHOOSE n \in found : TRUE
           others == IF found = {} THEN s.pool ELSE Mask!RemoveAt(s.pool, at)
           used == {e.buf : e \in Mask!Range(s.pool)} \union Mask!Range(s.masks)
           buf == IF found # {} THEN s.pool[at].buf
                  ELSE CHOOSE n \in 1 .. Mask!Cardinality(used) + 1 : n \notin used
           hit == found # {} /\ s.pool[at].content = content
           new == [key |-> key, content |-> content, buf |-> buf]
           all == Append(others, new)
           next == IF Len(all) > setup.entries THEN Tail(all) ELSE all
           now == IF hit THEN s.buffers
                  ELSE [n \in DOMAIN s.buffers \union {buf} |->
                          IF n = buf THEN Mask!Visible(c, window) ELSE s.buffers[n]]
<1>1. Mask!Get(s, c, window) = [pool |-> next, buffers |-> now, masks |-> Append(s.masks, buf)]
  BY Zenon DEF Mask!Get
<1>2. key \in Keys /\ content \in Contents /\ Mask!Visible(c, window) = Shown(key, content)
  BY VisibleIs
<1>3. /\ s.pool \in Seq(MaskEntry) /\ Apart(s.pool) /\ DOMAIN s.pool = 1 .. Len(s.pool)
      /\ \A i \in 1 .. Len(s.pool) :
           /\ s.pool[i] \in MaskEntry /\ s.pool[i].buf \in DOMAIN s.buffers
           /\ s.buffers[s.pool[i].buf] = Shown(s.pool[i].key, s.pool[i].content)
  BY DEF PoolOk
<1>4. found # {} => at \in 1 .. Len(s.pool) /\ s.pool[at].key = key
  BY <1>3
<1> HIDE DEF key, content, found, at
<1>5. \A i \in 1 .. Len(s.pool) : found = {} => s.pool[i].key # key
  BY <1>3 DEF found
<1>6. \E n \in 1 .. Mask!Cardinality(used) + 1 : n \notin used
  <2>1. IsFiniteSet({e.buf : e \in Mask!Range(s.pool)})
    <3> DEFINE f == [i \in 1 .. Len(s.pool) |-> s.pool[i].buf]
    <3>1. {e.buf : e \in Mask!Range(s.pool)} = {f[i] : i \in 1 .. Len(s.pool)}
      BY <1>3 DEF Mask!Range
    <3>2. Len(s.pool) \in Nat
      BY <1>3
    <3> HIDE DEF f
    <3>3. f = [i \in 1 .. Len(s.pool) |-> f[i]] /\ DOMAIN f = 1 .. Len(s.pool)
      BY Zenon DEF f
    <3> QED
      BY <3>1, <3>2, <3>3, FinitelyMany
  <2>2. IsFiniteSet(Mask!Range(s.masks))
    <3>1. Mask!Range(s.masks) = {s.masks[i] : i \in 1 .. Len(s.masks)}
      BY DEF Mask!Range
    <3> DEFINE f == s.masks
    <3>2. Len(f) \in Nat /\ DOMAIN f = 1 .. Len(f) /\ f = [i \in 1 .. Len(f) |-> f[i]]
      OBVIOUS
    <3>3. Mask!Range(f) = {f[i] : i \in 1 .. Len(f)}
      BY <3>1
    <3> HIDE DEF f
    <3>4. IsFiniteSet({f[i] : i \in 1 .. Len(f)})
      BY <3>2, FinitelyMany, Zenon
    <3>5. IsFiniteSet(Mask!Range(f))
      BY <3>3, <3>4, Zenon
    <3> QED
      BY <3>5 DEF f
  <2>3. IsFiniteSet(used)
    BY <2>1, <2>2, FS_Union
  <2> QED
    BY <2>3, FreshBuffer
<1>7. /\ found = {} => buf \in 1 .. Mask!Cardinality(used) + 1 /\ buf \notin used
      /\ found # {} => buf = s.pool[at].buf
  BY <1>6
<1> HIDE DEF buf
<1>8. buf \in Nat \ {0}
  <2>1. CASE found # {}
    BY <1>3, <1>4, <1>7, <2>1 DEF MaskEntry
  <2>2. CASE found = {}
    BY <1>7, <2>2
  <2> QED
    BY <2>1, <2>2
<1>9. /\ others \in Seq(MaskEntry) /\ Apart(others) /\ Len(others) <= setup.entries
      /\ \A i \in 1 .. Len(others) :
           /\ \E j \in 1 .. Len(s.pool) : others[i] = s.pool[j]
           /\ others[i].key # key /\ others[i].buf # buf
  <2>1. CASE found = {}
    <3>1. others = s.pool
      BY <2>1
    <3>2. \A i \in 1 .. Len(s.pool) : s.pool[i].key # key /\ s.pool[i].buf # buf
      BY <1>3, <1>5, <1>7, <2>1, SMTT(30) DEF Mask!Range
    <3> QED
      BY <1>3, <3>1, <3>2
  <2>2. CASE found # {}
    <3>1. others = SubSeq(s.pool, 1, at - 1) \o SubSeq(s.pool, at + 1, Len(s.pool))
      BY <2>2 DEF Mask!RemoveAt
    <3> DEFINE some == s.pool
               without == SubSeq(some, 1, at - 1) \o SubSeq(some, at + 1, Len(some))
    <3>0. /\ without \in Seq(MaskEntry) /\ Len(without) = Len(some) - 1 /\ Apart(without)
          /\ \A i \in 1 .. Len(without) : \E j \in 1 .. Len(some) : j # at /\ without[i] = some[j]
      <4>1. some \in Seq(MaskEntry) /\ Apart(some) /\ at \in 1 .. Len(some)
        BY <1>3, <1>4, <2>2
      <4> HIDE DEF some
      <4> QED
        BY <4>1, PoolWithout
    <3> HIDE DEF others
    <3>2. /\ others \in Seq(MaskEntry) /\ Len(others) = Len(s.pool) - 1 /\ Apart(others)
          /\ \A i \in 1 .. Len(others) : \E j \in 1 .. Len(s.pool) : j # at /\ others[i] = s.pool[j]
      BY <3>0, <3>1
    <3>3. \A j \in 1 .. Len(s.pool) : j # at => s.pool[j].key # key /\ s.pool[j].buf # buf
      BY <1>3, <1>4, <1>7, <2>2 DEF Apart
    <3>4. Len(others) <= setup.entries
      BY <1>3, <3>2
    <3> QED
      BY <3>2, <3>3, <3>4
  <2> QED
    BY <2>1, <2>2
<1> HIDE DEF others
<1>10. new \in MaskEntry /\ new.key = key /\ new.content = content /\ new.buf = buf
  BY <1>2, <1>8 DEF MaskEntry
<1> HIDE DEF new
<1>11. /\ all \in Seq(MaskEntry) /\ Len(all) = Len(others) + 1 /\ Apart(all)
       /\ \A i \in 1 .. Len(all) : all[i] = new \/ \E j \in 1 .. Len(others) : all[i] = others[j]
  <2>1. all = Append(others, new)
    OBVIOUS
  <2>2. others \in Seq(MaskEntry) /\ Apart(others) /\ new \in MaskEntry
        /\ \A i \in 1 .. Len(others) : others[i].key # new.key /\ others[i].buf # new.buf
    BY <1>9, <1>10
  <2> QED
    BY <2>1, <2>2, PoolWith
<1> HIDE DEF all
<1>12. /\ next \in Seq(MaskEntry) /\ Len(next) <= setup.entries /\ Apart(next)
       /\ \A i \in 1 .. Len(next) : \E j \in 1 .. Len(all) : next[i] = all[j]
  <2>1. CASE Len(all) > setup.entries
    <3>1. next = Tail(all) /\ all # <<>>
      BY <1>11, <2>1
    <3>2. /\ next \in Seq(MaskEntry) /\ Len(next) = Len(all) - 1 /\ Apart(next)
          /\ \A i \in 1 .. Len(next) : \E j \in 1 .. Len(all) : next[i] = all[j]
      BY <1>11, <3>1, PoolTail
    <3> QED
      BY <1>9, <1>11, <3>2
  <2>2. CASE ~(Len(all) > setup.entries)
    <3>1. next = all
      BY <2>2
    <3> HIDE DEF next
    <3> QED
      BY <1>9, <1>11, <2>2, <3>1
  <2> QED
    BY <2>1, <2>2
<1> HIDE DEF next
<1>13. \A i \in 1 .. Len(next) :
         \/ next[i] = new
         \/ /\ \E j \in 1 .. Len(s.pool) : next[i] = s.pool[j]
            /\ next[i].key # key /\ next[i].buf # buf
  <2>1. ASSUME NEW i \in 1 .. Len(next)
        PROVE  next[i] = new \/ \E j \in 1 .. Len(others) : next[i] = others[j]
    <3>1. PICK j \in 1 .. Len(all) : next[i] = all[j]
      BY <1>12
    <3> QED
      BY <1>11, <3>1
  <2>2. ASSUME NEW i \in 1 .. Len(next), NEW j \in 1 .. Len(others), next[i] = others[j]
        PROVE  /\ \E k \in 1 .. Len(s.pool) : next[i] = s.pool[k]
               /\ next[i].key # key /\ next[i].buf # buf
    BY <1>9, <2>2
  <2> QED
    BY <2>1, <2>2, Zenon
<1>14. /\ buf \in DOMAIN now /\ now[buf] = Mask!Visible(c, window)
       /\ \A n \in DOMAIN s.buffers \ {buf} : n \in DOMAIN now /\ now[n] = s.buffers[n]
  <2>1. CASE hit
    <3>1. found # {} /\ s.pool[at].content = content /\ now = s.buffers
      BY <2>1
    <3>2. s.buffers[buf] = Shown(key, content) /\ buf \in DOMAIN s.buffers
      BY <1>3, <1>4, <1>7, <3>1
    <3> QED
      BY <1>2, <3>1, <3>2
  <2>2. CASE ~hit
    BY <2>2
  <2> QED
    BY <2>1, <2>2
<1> HIDE DEF now
<1>15. PoolOk(next, now)
  <2>1. ASSUME NEW i \in 1 .. Len(next)
        PROVE  next[i].buf \in DOMAIN now /\ now[next[i].buf] = Shown(next[i].key, next[i].content)
    <3>1. CASE next[i] = new
      BY <1>2, <1>10, <1>14, <3>1
    <3>2. CASE (\E j \in 1 .. Len(s.pool) : next[i] = s.pool[j]) /\ next[i].buf # buf
      BY <1>3, <1>14, <3>2
    <3> QED
      BY <1>13, <3>1, <3>2
  <2> QED
    BY <1>12, <2>1 DEF PoolOk
<1>16. buf \in Mask!Range(s.masks) =>
         \E j \in 1 .. Len(s.pool) : s.pool[j].buf = buf /\ s.pool[j].key = key
  <2>1. ASSUME buf \in Mask!Range(s.masks) PROVE found # {}
    BY <1>7, <2>1
  <2> QED
    BY <1>4, <1>7, <2>1
<1>17. \A i \in 1 .. Len(next) :
         IF next[i].buf = buf THEN next[i].key = key
         ELSE \E j \in 1 .. Len(s.pool) : next[i] = s.pool[j]
  BY <1>10, <1>13
<1> DEFINE g == [pool |-> next, buffers |-> now, masks |-> Append(s.masks, buf)]
<1>18. g.pool = next /\ g.buffers = now /\ g.masks = Append(s.masks, buf)
       /\ g = [pool |-> g.pool, buffers |-> g.buffers, masks |-> g.masks]
  OBVIOUS
<1> HIDE DEF g
<1>19. Mask!Get(s, c, window) = g
  BY <1>1 DEF g
<1> QED
  <2>1. Got(s, g, c, window, buf)
    BY <1>14, <1>16, <1>17, <1>18 DEF Got, key
  <2> QED
    BY <1>8, <1>12, <1>15, <1>18, <1>19, <2>1

(* The masks of a batch, after n of its contexts: each has a buffer that   *)
(* shows what is visible of it, and nobody finds it under another key.     *)
MaskOf(s, m, window) ==
  LET c == forward.batch[m] IN
    IF Mask!NeedsMask(c, window)
    THEN /\ s.masks[m] # 0 /\ s.masks[m] \in DOMAIN s.buffers
         /\ s.buffers[s.masks[m]] = Mask!Visible(c, window)
         /\ \A i \in 1 .. Len(s.pool) :
              s.pool[i].buf = s.masks[m] => s.pool[i].key = Mask!PoolKey(c)
    ELSE s.masks[m] = 0

SoFar(s, n, window) ==
  /\ s = [pool |-> s.pool, buffers |-> s.buffers, masks |-> s.masks]
  /\ PoolOk(s.pool, s.buffers) /\ Len(s.pool) <= setup.entries
  /\ s.masks \in Seq(Nat) /\ Len(s.masks) = n
  /\ \A m \in 1 .. n : MaskOf(s, m, window)

Another(s, n, window) ==
  IF Mask!NeedsMask(forward.batch[n], window) THEN Mask!Get(s, forward.batch[n], window)
  ELSE [s EXCEPT !.masks = Append(@, 0)]

LEMMA AnotherMask ==
  ASSUME MaskInv, IsForward, NEW window \in Nat, NEW n \in Nat, n + 1 <= Len(forward.batch),
         NEW s, SoFar(s, n, window)
  PROVE  SoFar(Another(s, n + 1, window), n + 1, window)
<1>0. PICK c : c = forward.batch[n + 1]
  OBVIOUS
<1>1. c \in DOMAIN cache /\ IsCache(cache[c]) /\ forward.q \in Nat /\ DOMAIN cache \subseteq Ctx
      /\ setup.entries \in Nat \ {0} /\ setup.offline \in BOOLEAN
  BY <1>0, SetupsAre DEF IsForward, MaskInv
<1>1a. /\ Len(forward.batch) \in Nat /\ (n >= 1 => ~setup.offline)
         /\ \A i, j \in 1 .. Len(forward.batch) :
              forward.batch[i] = forward.batch[j] => i = j
  <2>1. Len(forward.batch) \in Nat /\ DOMAIN forward.batch = 1 .. Len(forward.batch)
    BY DEF IsForward
  <2>2. (setup.offline => Len(forward.batch) = 1) /\ Mask!IsInjective(forward.batch)
    BY DEF IsForward
  <2>3. n >= 1 => Len(forward.batch) # 1
    <3>1. PICK k : k = Len(forward.batch)
      OBVIOUS
    <3>2. k \in Nat /\ n + 1 <= k
      BY <2>1, <3>1
    <3>3. n >= 1 => k # 1
      BY <3>2
    <3> QED
      BY <3>1, <3>3
  <2> QED
    BY <2>1, <2>2, <2>3 DEF Mask!IsInjective
<1>2. /\ PoolOk(s.pool, s.buffers) /\ Len(s.pool) <= setup.entries
      /\ s.masks \in Seq(Nat) /\ Len(s.masks) = n
      /\ s = [pool |-> s.pool, buffers |-> s.buffers, masks |-> s.masks]
      /\ \A m \in 1 .. n : MaskOf(s, m, window)
  BY DEF SoFar
<1>3. CASE ~Mask!NeedsMask(c, window)
  <2> DEFINE g == [pool |-> s.pool, buffers |-> s.buffers, masks |-> Append(s.masks, 0)]
  <2>1. Another(s, n + 1, window) = g
    BY <1>0, <1>2, <1>3 DEF Another
  <2>2. g.pool = s.pool /\ g.buffers = s.buffers /\ g.masks = Append(s.masks, 0)
        /\ g = [pool |-> g.pool, buffers |-> g.buffers, masks |-> g.masks]
    OBVIOUS
  <2> HIDE DEF g
  <2>3. /\ g.masks \in Seq(Nat) /\ Len(g.masks) = n + 1 /\ g.masks[n + 1] = 0
        /\ \A m \in 1 .. n : g.masks[m] = s.masks[m]
    BY <1>2, <2>2
  <2>4. ASSUME NEW m \in 1 .. n + 1 PROVE MaskOf(g, m, window)
    <3>1. CASE m = n + 1
      BY <1>0, <1>3, <2>3, <3>1 DEF MaskOf
    <3>2. CASE m # n + 1
      <4>1. MaskOf(s, m, window) /\ g.masks[m] = s.masks[m]
        BY <1>2, <2>3, <3>2
      <4> QED
        BY <2>2, <4>1 DEF MaskOf
    <3> QED
      BY <3>1, <3>2
  <2> QED
    BY <1>2, <2>1, <2>2, <2>3, <2>4 DEF SoFar
<1>4. CASE Mask!NeedsMask(c, window)
  <2> DEFINE g == Mask!Get(s, c, window)
  <2>1. Another(s, n + 1, window) = g
    BY <1>0, <1>4 DEF Another
  <2>2. /\ g = [pool |-> g.pool, buffers |-> g.buffers, masks |-> g.masks]
        /\ PoolOk(g.pool, g.buffers) /\ Len(g.pool) <= setup.entries
    BY <1>1, <1>2, GetIs
  <2>3. PICK buf \in Nat \ {0} : Got(s, g, c, window, buf)
    BY <1>1, <1>2, GetIs
  <2> HIDE DEF g
  <2>4. /\ g.masks \in Seq(Nat) /\ Len(g.masks) = n + 1 /\ g.masks[n + 1] = buf
        /\ \A m \in 1 .. n : g.masks[m] = s.masks[m]
    BY <1>2, <2>3 DEF Got
  <2>5. ASSUME NEW m \in 1 .. n, Mask!NeedsMask(forward.batch[m], window)
        PROVE  s.masks[m] # buf
    <3>1. SUFFICES ASSUME s.masks[m] = buf PROVE FALSE
      OBVIOUS
    <3>2. buf \in Mask!Range(s.masks)
      BY <1>2, <3>1 DEF Mask!Range
    <3>3. PICK j \in 1 .. Len(s.pool) : s.pool[j].buf = buf /\ s.pool[j].key = Mask!PoolKey(c)
      BY <2>3, <3>2 DEF Got
    <3>4. s.pool[j].key = Mask!PoolKey(forward.batch[m])
      BY <1>2, <2>5, <3>1, <3>3 DEF MaskOf
    <3>5. Mask!Owner(c) = Mask!Owner(forward.batch[m])
      BY <3>3, <3>4 DEF Mask!PoolKey
    <3>6. ~setup.offline
      <4>1. n >= 1
        OBVIOUS
      <4> QED
        BY <1>1a, <4>1
    <3>7. forward.batch[m] = c
      BY <1>1, <3>5, <3>6 DEF Mask!Owner
    <3>8. m \in 1 .. Len(forward.batch) /\ n + 1 \in 1 .. Len(forward.batch) /\ m # n + 1
      BY <1>1a
    <3> QED
      BY <1>0, <1>1a, <3>7, <3>8
  <2>6. ASSUME NEW m \in 1 .. n + 1 PROVE MaskOf(g, m, window)
    <3>1. CASE m = n + 1
      BY <1>0, <1>4, <2>3, <2>4, <3>1 DEF MaskOf, Got
    <3>2. CASE m # n + 1
      <4>1. m \in 1 .. n /\ MaskOf(s, m, window) /\ g.masks[m] = s.masks[m]
        BY <1>2, <2>4, <3>2
      <4>2. CASE ~Mask!NeedsMask(forward.batch[m], window)
        BY <4>1, <4>2 DEF MaskOf
      <4>3. CASE Mask!NeedsMask(forward.batch[m], window)
        <5>1. /\ s.masks[m] # 0 /\ s.masks[m] \in DOMAIN s.buffers /\ s.masks[m] # buf
              /\ s.buffers[s.masks[m]] = Mask!Visible(forward.batch[m], window)
              /\ \A i \in 1 .. Len(s.pool) :
                   s.pool[i].buf = s.masks[m] => s.pool[i].key = Mask!PoolKey(forward.batch[m])
          BY <2>5, <4>1, <4>3 DEF MaskOf
        <5>2. ASSUME NEW i \in 1 .. Len(g.pool), g.pool[i].buf = s.masks[m]
              PROVE  g.pool[i].key = Mask!PoolKey(forward.batch[m])
          <6>1. PICK j \in 1 .. Len(s.pool) : g.pool[i] = s.pool[j]
            BY <2>3, <5>1, <5>2 DEF Got
          <6> QED
            BY <5>1, <5>2, <6>1
        <5> QED
          BY <2>3, <4>1, <4>3, <5>1, <5>2 DEF MaskOf, Got
      <4> QED
        BY <4>2, <4>3
    <3> QED
      BY <3>1, <3>2
  <2> QED
    BY <2>1, <2>2, <2>4, <2>6 DEF SoFar
<1> QED
  BY <1>3, <1>4

(* The masks of the batch are made one after the other, from the pool as   *)
(* the last forward left it.                                               *)
Start == [pool |-> pool, buffers |-> buffers, masks |-> <<>>]
IsFold(f, k, window) ==
  f = [n \in 0 .. k |-> IF n = 0 THEN Start ELSE Another(f[n - 1], n, window)]

LEMMA FoldExists ==
  ASSUME NEW k \in Nat, NEW window
  PROVE  \E f : IsFold(f, k, window)
<1> DEFINE T == {j \in Nat : ~ \E f : IsFold(f, j, window)}
<1>1. SUFFICES ASSUME T # {} PROVE FALSE
  BY Zenon
<1>2. PICK x \in T : \A y \in T : x <= y
  <2>1. T \in SUBSET Nat
    OBVIOUS
  <2> HIDE DEF T
  <2> QED
    BY <1>1, <2>1, LeastIn, Zenon
<1>3. x \in Nat /\ ~ \E f : IsFold(f, x, window)
  BY Zenon
<1>4. x # 0
  <2>1. SUFFICES ASSUME x = 0 PROVE FALSE
    OBVIOUS
  <2> DEFINE f == [n \in 0 .. 0 |-> Start]
  <2>2. ASSUME NEW n \in 0 .. 0
        PROVE  Start = IF n = 0 THEN Start ELSE Another(f[n - 1], n, window)
    OBVIOUS
  <2>3. f = [n \in 0 .. 0 |-> IF n = 0 THEN Start ELSE Another(f[n - 1], n, window)]
    BY <2>2, Zenon
  <2>4. IsFold(f, 0, window)
    BY <2>3, Zenon DEF IsFold
  <2> QED
    BY <1>3, <2>1, <2>4, Zenon
<1>5. x - 1 \in Nat /\ x - 1 \notin T
  <2>1. x - 1 \in Nat /\ ~(x <= x - 1)
    BY <1>3, <1>4
  <2> HIDE DEF T
  <2> QED
    BY <1>2, <2>1, Zenon
<1>6. PICK f : IsFold(f, x - 1, window)
  BY <1>5, Zenon
<1> DEFINE g == [n \in 0 .. x |-> IF n = x THEN Another(f[x - 1], x, window) ELSE f[n]]
<1>7. ASSUME NEW n \in 0 .. x
      PROVE  g[n] = IF n = 0 THEN Start ELSE Another(g[n - 1], n, window)
  <2>0. \A i \in 0 .. x - 1 : f[i] = IF i = 0 THEN Start ELSE Another(f[i - 1], i, window)
    BY <1>6, Zenon DEF IsFold
  <2>1. CASE n = 0
    <3>1. n # x /\ n \in 0 .. x - 1
      BY <1>3, <1>4, <2>1
    <3> QED
      BY <2>0, <2>1, <3>1, Zenon
  <2>2. CASE n # 0 /\ n # x
    <3>1. n \in 0 .. x - 1 /\ n - 1 \in 0 .. x /\ n - 1 # x
      BY <1>3, <2>2
    <3>2. g[n] = f[n] /\ g[n - 1] = f[n - 1]
      BY <2>2, <3>1, Zenon
    <3> QED
      BY <2>0, <2>2, <3>1, <3>2, Zenon
  <2>3. CASE n = x
    <3>1. x - 1 \in 0 .. x /\ x - 1 # x /\ n # 0 /\ n - 1 = x - 1
      BY <1>3, <1>4, <2>3
    <3>2. g[n] = Another(f[x - 1], x, window) /\ g[x - 1] = f[x - 1]
      BY <2>3, <3>1, Zenon
    <3> QED
      BY <2>3, <3>1, <3>2, Zenon
  <2> QED
    BY <2>1, <2>2, <2>3
<1>8. g = [n \in 0 .. x |-> g[n]]
  BY Zenon
<1> HIDE DEF g
<1>9. g = [n \in 0 .. x |-> IF n = 0 THEN Start ELSE Another(g[n - 1], n, window)]
  BY <1>7, <1>8, Zenon
<1>10. IsFold(g, x, window)
  BY <1>9, Zenon DEF IsFold
<1> QED
  BY <1>3, <1>10, Zenon

LEMMA MadeIs ==
  ASSUME NEW window, Len(forward.batch) \in Nat
  PROVE  IsFold(Mask!Made(window), Len(forward.batch), window)
<1> DEFINE N == Len(forward.batch)
<1>1. PICK f : IsFold(f, N, window)
  BY FoldExists
<1>2. f = [n \in 0 .. N |->
             IF n = 0 THEN [pool |-> pool, buffers |-> buffers, masks |-> <<>>]
             ELSE IF Mask!NeedsMask(forward.batch[n], window)
                  THEN Mask!Get(f[n - 1], forward.batch[n], window)
                  ELSE [f[n - 1] EXCEPT !.masks = Append(@, 0)]]
  BY <1>1, Zenon DEF IsFold, Start, Another
<1>3. Mask!Made(window) = [n \in 0 .. N |->
             IF n = 0 THEN [pool |-> pool, buffers |-> buffers, masks |-> <<>>]
             ELSE IF Mask!NeedsMask(forward.batch[n], window)
                  THEN Mask!Get(Mask!Made(window)[n - 1], forward.batch[n], window)
                  ELSE [Mask!Made(window)[n - 1] EXCEPT !.masks = Append(@, 0)]]
  BY <1>2, Zenon DEF Mask!Made
<1> QED
  BY <1>3, Zenon DEF IsFold, Start, Another

LEMMA AllMasks ==
  ASSUME MaskInv, IsForward, NEW window \in Nat, NEW n \in 0 .. Len(forward.batch)
  PROVE  SoFar(Mask!Made(window)[n], n, window)
<1> DEFINE N == Len(forward.batch)
           f == Mask!Made(window)
           T == {j \in 0 .. N : ~SoFar(f[j], j, window)}
<1>0. N \in Nat
  BY DEF IsForward
<1>1. SUFFICES ASSUME T # {} PROVE FALSE
  BY Zenon
<1>2. PICK x \in T : \A y \in T : x <= y
  <2>1. T \in SUBSET Nat
    BY <1>0
  <2> HIDE DEF T
  <2> QED
    BY <1>1, <2>1, LeastIn, Zenon
<1>3. x \in 0 .. N /\ ~SoFar(f[x], x, window)
  BY Zenon
<1>4. \A i \in 0 .. N : f[i] = IF i = 0 THEN Start ELSE Another(f[i - 1], i, window)
  <2>1. IsFold(f, N, window)
    BY <1>0, MadeIs
  <2> HIDE DEF f
  <2> QED
    BY <2>1, Zenon DEF IsFold
<1> HIDE DEF f
<1>5. CASE x = 0
  <2>1. f[0] = Start
    BY <1>0, <1>3, <1>4, <1>5
  <2>2. SoFar(Start, 0, window)
    BY DEF SoFar, Start, MaskInv
  <2> QED
    BY <1>3, <1>5, <2>1, <2>2
<1>6. CASE x # 0
  <2>1. x - 1 \in 0 .. N /\ x - 1 \in Nat /\ x - 1 < x /\ (x - 1) + 1 = x /\ x <= N
    BY <1>0, <1>3, <1>6
  <2>2. SoFar(f[x - 1], x - 1, window)
    <3>1. x - 1 \notin T
      <4>1. ~(x <= x - 1)
        BY <2>1
      <4> HIDE DEF T
      <4> QED
        BY <1>2, <4>1
    <3> QED
      BY <2>1, <3>1
  <2>3. SoFar(Another(f[x - 1], x, window), x, window)
    BY <2>1, <2>2, AnotherMask
  <2> QED
    BY <1>3, <1>4, <1>6, <2>3
<1> QED
  BY <1>5, <1>6

(* What a query attends to, whichever way it is computed. *)
LEMMA RightAttention ==
  ASSUME NEW c \in DOMAIN cache, IsCache(cache[c]), Served(c), forward.q \in Nat \ {0},
         NEW window \in Nat, NEW b \in Mask!Rows(c), NEW i \in 1 .. forward.q,
         cache[c].len - forward.q + i > Mask!Pad(c, b), setup.sinks \in BOOLEAN
  PROVE  /\ Mask!CanUseBrgemm(window) =>
              Mask!Brgemm(c)[b][i] = Mask!Expected(c, b, i, window)
         /\ ~Mask!NeedsMask(c, window) /\ ~(1 < forward.q /\ forward.q < cache[c].len) =>
              Mask!Unmasked(c)[b][i] = Mask!Expected(c, b, i, window)
         /\ ~(window > 0 /\ Mask!TrailingPad(c) > 0) /\ ~setup.sinks =>
              Mask!Visible(c, window)[b][i] = Mask!Expected(c, b, i, window)
         /\ ~(window > 0 /\ Mask!TrailingPad(c) > 0) /\ setup.sinks /\
            ~(Mask!TrailingPad(c) > 0 /\ cache[c].written = cache[c].columns) =>
              Mask!WithSink(c, Mask!Visible(c, window))[b][i] = Mask!Expected(c, b, i, window)
<1> DEFINE d == cache[c]
           pad == Mask!Pad(c, b)
           position == d.len - forward.q + i
           rest == IF setup.sinks THEN {0} ELSE {}
<1>1. /\ d.len \in Nat /\ d.columns \in Nat /\ d.len <= d.columns /\ forward.q <= d.len
      /\ d.pads \in {<<0>>, <<1, 0>>} /\ MaxLen \in Nat
  BY MaskAssumption DEF IsCache, Served
<1>2. pad \in Nat /\ pad < d.len /\ Mask!Rows(c) = 1 .. Len(d.pads) /\ 1 \in Mask!Rows(c)
      /\ \A r \in Mask!Rows(c) : Mask!Pad(c, r) \in Nat /\ Mask!Pad(c, r) < d.len
  BY <1>1 DEF Mask!Pad, Mask!Rows, Served
<1>3. Mask!Expected(c, b, i, window) =
        {k \in pad + 1 .. position : window = 0 \/ position - k < window} \union rest
  BY Zenon DEF Mask!Expected
<1>4. Mask!TrailingPad(c) = d.columns - d.len
  BY DEF Mask!TrailingPad
<1>5. position \in 1 .. d.len /\ i \in Nat /\ pad < position
  BY <1>1, <1>2
<1>6. ASSUME Mask!CanUseBrgemm(window)
      PROVE  Mask!Brgemm(c)[b][i] = Mask!Expected(c, b, i, window)
  <2>1. forward.q >= BrgemmMin /\ ~setup.sinks /\ window = 0
    BY <1>6 DEF Mask!CanUseBrgemm
  <2>2. position = i
    BY <1>1, <2>1, MaskAssumption DEF Served
  <2>3. Mask!Brgemm(c)[b][i] = IF i <= pad THEN {} ELSE pad + 1 .. i
    BY Zenon DEF Mask!Brgemm
  <2> QED
    BY <1>1, <1>2, <1>3, <1>5, <2>1, <2>2, <2>3
<1>7. ASSUME ~Mask!NeedsMask(c, window), ~(1 < forward.q /\ forward.q < d.len)
      PROVE  Mask!Unmasked(c)[b][i] = Mask!Expected(c, b, i, window)
  <2>1. ~(d.columns - d.len > 0) /\ ~Mask!HasLeadingPad(c) /\ ~(window > 0) /\ ~setup.sinks
    BY <1>4, <1>7 DEF Mask!NeedsMask
  <2>2. pad = 0
    BY <1>2, <2>1 DEF Mask!HasLeadingPad
  <2>3. d.columns = d.len /\ window = 0
    BY <1>1, <2>1
  <2>4. Mask!Unmasked(c)[b][i] = 1 .. IF forward.q > 1 THEN i ELSE d.columns
    BY Zenon DEF Mask!Unmasked
  <2>5. position = IF forward.q > 1 THEN i ELSE d.columns
    BY <1>1, <1>7, <2>3
  <2> HIDE DEF position, pad
  <2> QED
    BY <1>3, <1>5, <2>1, <2>2, <2>3, <2>4, <2>5
<1>8. ASSUME ~(window > 0 /\ d.columns - d.len > 0)
      PROVE  Mask!Visible(c, window)[b][i] =
               {k \in pad + 1 .. position : window = 0 \/ position - k < window}
  <2>1. Mask!Visible(c, window)[b][i] =
          {k \in 1 .. d.columns : k <= position /\ ~Mask!Outside(c, i, window, k) /\ k > pad}
    BY Zenon DEF Mask!Visible
  <2>2. ASSUME NEW k \in 1 .. d.columns, k <= position
        PROVE  Mask!Outside(c, i, window, k) <=> ~(window = 0 \/ position - k < window)
    BY <1>1, <1>5, <1>8, <2>2 DEF Mask!Outside
  <2>3. \A k : k \in pad + 1 .. position <=> k \in 1 .. d.columns /\ k <= position /\ k > pad
    BY <1>1, <1>2, <1>5, SMTT(30)
  <2> HIDE DEF pad, position
  <2> QED
    BY <2>1, <2>2, <2>3
<1>9. ASSUME ~setup.sinks, ~(window > 0 /\ Mask!TrailingPad(c) > 0)
      PROVE  Mask!Visible(c, window)[b][i] = Mask!Expected(c, b, i, window)
  BY <1>3, <1>4, <1>8, <1>9
<1>10. ASSUME setup.sinks, ~(window > 0 /\ Mask!TrailingPad(c) > 0),
              ~(Mask!TrailingPad(c) > 0 /\ d.written = d.columns)
       PROVE  Mask!WithSink(c, Mask!Visible(c, window))[b][i] = Mask!Expected(c, b, i, window)
  <2> DEFINE last == d.columns
             reuse == last \notin Mask!Visible(c, window)[1][forward.q]
             stale == reuse /\ d.written = last
  <2>1. Mask!WithSink(c, Mask!Visible(c, window))[b][i] =
          Mask!Visible(c, window)[b][i] \union {0} \union IF stale THEN {last} ELSE {}
    BY Zenon DEF Mask!WithSink
  <2>2. ~stale
    <3>1. SUFFICES ASSUME reuse, d.written = last PROVE FALSE
      BY Zenon
    <3>2. d.columns = d.len
      BY <1>1, <1>4, <1>10, <3>1
    <3>3. forward.q \in 1 .. forward.q
      OBVIOUS
    <3>4. Mask!Visible(c, window)[1][forward.q] =
            {k \in 1 .. d.columns : /\ k <= d.len - forward.q + forward.q
                                   /\ ~Mask!Outside(c, forward.q, window, k)
                                   /\ k > Mask!Pad(c, 1)}
      BY <1>2, <3>3, Zenon DEF Mask!Visible
    <3>5. ~Mask!Outside(c, forward.q, window, last)
      BY <1>1, <3>2 DEF Mask!Outside
    <3>6. last \in 1 .. d.columns /\ last <= d.len - forward.q + forward.q /\ last > Mask!Pad(c, 1)
      BY <1>1, <1>2, <3>2
    <3> QED
      BY <3>1, <3>4, <3>5, <3>6
  <2> HIDE DEF stale
  <2> QED
    BY <1>3, <1>4, <1>8, <1>10, <2>1, <2>2
<1> QED
  BY <1>6, <1>7, <1>9, <1>10

(* The pool between two forwards. *)
BuffersInv ==
  /\ PoolOk(pool, buffers) /\ Len(pool) <= setup.entries
  /\ DOMAIN buffers = {pool[i].buf : i \in 1 .. Len(pool)}
ContextsInv ==
  /\ setup \in Setups
  /\ DOMAIN cache \subseteq Ctx /\ cache = [c \in DOMAIN cache |-> cache[c]]
  /\ IsFiniteSet(DOMAIN cache)
  /\ \A c \in DOMAIN cache : IsCache(cache[c]) /\ (~setup.offline => cache[c].pads = <<0>>)

LEMMA MaskLayer ==
  ASSUME MaskInv, Mask!Layer
  PROVE  MaskInv'
<1> DEFINE window == setup.windows[forward.at + 1]
           last == IF Mask!CanUseBrgemm(window) THEN 0 ELSE Len(forward.batch)
           end == Mask!Made(window)[last]
           Attention(n) ==
             LET c == forward.batch[n]
                 mask == end.buffers[end.masks[n]]
             IN IF Mask!CanUseBrgemm(window) THEN Mask!Brgemm(c)
                ELSE IF end.masks[n] = 0 THEN Mask!Unmasked(c)
                ELSE IF setup.sinks THEN Mask!WithSink(c, mask) ELSE mask
<1>1. /\ pool' = end.pool
      /\ buffers' = Mask!Restrict(end.buffers, {e.buf : e \in Mask!Range(end.pool)})
      /\ attended' = [c \in Mask!Range(forward.batch) |->
           Attention(CHOOSE n \in DOMAIN forward.batch : forward.batch[n] = c)]
      /\ forward' = [forward EXCEPT !.at = @ + 1]
      /\ setup' = setup /\ cache' = cache /\ ~Mask!Resting
  BY Zenon DEF Mask!Layer
<1>2. /\ IsForward /\ Len(forward.batch) \in Nat /\ DOMAIN forward.batch = 1 .. Len(forward.batch)
      /\ setup.windows \in Seq(Nat) /\ setup.sinks \in BOOLEAN /\ forward.at # Len(setup.windows)
  <2>1. IsForward /\ forward.at # Len(setup.windows)
    BY <1>1, Zenon DEF MaskInv, Mask!Resting, Mask!LayerCount
  <2>2. setup.windows \in Seq(Nat) /\ setup.sinks \in BOOLEAN
    BY SetupsAre DEF MaskInv
  <2> QED
    BY <2>1, <2>2 DEF IsForward
<1>3. window \in Nat /\ forward.at + 1 \in 1 .. Len(setup.windows) /\ forward.at \in Nat
  BY <1>2, SMTT(30) DEF IsForward
<1> HIDE DEF window
<1>4. last \in 0 .. Len(forward.batch) /\ last \in Nat
  BY <1>2
<1> HIDE DEF last
<1>5. SoFar(end, last, window)
  BY <1>2, <1>3, <1>4, AllMasks
<1> HIDE DEF end
<1>6. BuffersInv'
  <2>1. /\ PoolOk(end.pool, end.buffers) /\ Len(end.pool) <= setup.entries
        /\ end.pool \in Seq(MaskEntry)
    BY <1>5 DEF SoFar, PoolOk
  <2> DEFINE left == {e.buf : e \in Mask!Range(end.pool)}
  <2>2. left = {end.pool[i].buf : i \in 1 .. Len(end.pool)}
    BY <2>1 DEF Mask!Range
  <2>3. buffers' = [n \in left |-> end.buffers[n]]
    BY <1>1, Zenon DEF Mask!Restrict
  <2> HIDE DEF left
  <2>4. DOMAIN buffers' = left /\ \A n \in left : buffers'[n] = end.buffers[n]
    BY <2>3
  <2>5. PoolOk(end.pool, buffers')
    BY <2>1, <2>2, <2>4 DEF PoolOk
  <2> QED
    <3>1. pool' = end.pool /\ setup' = setup
      BY <1>1
    <3>2. PoolOk(pool', buffers') /\ Len(pool') <= setup'.entries
          /\ DOMAIN buffers' = {pool'[i].buf : i \in 1 .. Len(pool')}
      BY <2>1, <2>2, <2>4, <2>5, <3>1
    <3> QED
      BY <3>2 DEF BuffersInv, PoolOk, Apart
<1>7. /\ forward'.batch = forward.batch /\ forward'.q = forward.q /\ forward'.at = forward.at + 1
      /\ forward' = [batch |-> forward.batch, q |-> forward.q, at |-> forward.at + 1]
  BY <1>1, <1>2 DEF IsForward
<1>8. IsForward'
  <2>1. setup' = setup /\ cache' = cache
    BY <1>1
  <2>2. forward'.at \in 0 .. Len(setup.windows)
    BY <1>3, <1>7
  <2> QED
    BY <1>2, <1>7, <2>1, <2>2 DEF IsForward, Served, Mask!IsInjective
<1>9. ContextsInv'
  BY <1>1 DEF MaskInv, ContextsInv, IsCache
<1>10. ASSUME NEW c \in Mask!Range(forward.batch), NEW b \in Mask!Rows(c), NEW i \in 1 .. forward.q,
              cache[c].len - forward.q + i > Mask!Pad(c, b),
              ~(window > 0 /\ Mask!TrailingPad(c) > 0),
              ~(/\ ~Mask!NeedsMask(c, window)
                /\ 1 < forward.q /\ forward.q < cache[c].len),
              ~(/\ setup.sinks /\ Mask!TrailingPad(c) > 0
                /\ cache[c].written = cache[c].columns)
       PROVE  attended'[c][b][i] = Mask!Expected(c, b, i, window)
  <2> DEFINE n == CHOOSE n \in DOMAIN forward.batch : forward.batch[n] = c
  <2>1. n \in 1 .. Len(forward.batch) /\ forward.batch[n] = c
    BY <1>2 DEF Mask!Range
  <2>2. attended'[c] = Attention(n)
    BY <1>1, Zenon
  <2> HIDE DEF n
  <2>3. c \in DOMAIN cache /\ IsCache(cache[c]) /\ Served(c) /\ forward.q \in Nat \ {0}
    BY <1>2, <2>1 DEF MaskInv, IsForward
  <2>4. CASE Mask!CanUseBrgemm(window)
    <3>1. attended'[c] = Mask!Brgemm(c)
      BY <2>1, <2>2, <2>4
    <3> QED
      BY <1>2, <1>3, <1>10, <2>3, <2>4, <3>1, RightAttention
  <2>5. CASE ~Mask!CanUseBrgemm(window)
    <3>1. MaskOf(end, n, window)
      <4>1. last = Len(forward.batch)
        BY <2>5 DEF last
      <4> QED
        BY <1>5, <2>1, <4>1 DEF SoFar
    <3>2. CASE ~Mask!NeedsMask(c, window)
      <4>1. end.masks[n] = 0
        BY <2>1, <3>1, <3>2 DEF MaskOf
      <4>2. attended'[c] = Mask!Unmasked(c)
        BY <2>1, <2>2, <2>5, <4>1
      <4> QED
        BY <1>2, <1>3, <1>10, <2>3, <3>2, <4>2, RightAttention, SMTT(30)
    <3>3. CASE Mask!NeedsMask(c, window)
      <4>1. end.masks[n] # 0 /\ end.buffers[end.masks[n]] = Mask!Visible(c, window)
        BY <2>1, <3>1, <3>3 DEF MaskOf
      <4>2. attended'[c] = IF setup.sinks THEN Mask!WithSink(c, Mask!Visible(c, window))
                           ELSE Mask!Visible(c, window)
        BY <2>1, <2>2, <2>5, <4>1
      <4> QED
        BY <1>2, <1>3, <1>10, <2>3, <4>2, RightAttention
    <3> QED
      BY <3>2, <3>3
  <2> QED
    BY <2>4, <2>5
<1>11. Mask!AttendsExactlyElsewhere'
  <2>0. PICK w \in Nat : w = window
    BY <1>3
  <2>1. setup'.windows[forward'.at] = w /\ setup' = setup /\ cache' = cache
    BY <1>1, <1>3, <1>7, <2>0 DEF window
  <2>2. ASSUME NEW c
        PROVE  /\ Mask!TrailingPad(c)' = Mask!TrailingPad(c) /\ Mask!Rows(c)' = Mask!Rows(c)
               /\ Mask!HasLeadingPad(c)' <=> Mask!HasLeadingPad(c)
               /\ \A b : Mask!Pad(c, b)' = Mask!Pad(c, b)
               /\ Mask!NeedsMask(c, w)' <=> Mask!NeedsMask(c, w)
               /\ \A b, i : Mask!Expected(c, b, i, w)' = Mask!Expected(c, b, i, w)
    BY <1>7, <2>1 DEF Mask!TrailingPad, Mask!Rows, Mask!HasLeadingPad, Mask!Pad, Mask!NeedsMask,
       Mask!Expected
  <2>3. ASSUME NEW c \in Mask!Range(forward.batch),
               ~Mask!WindowOfColumns(c)', ~Mask!FirstPositions(c)', ~Mask!StaleSink(c)'
        PROVE  Mask!AttendsRight(c)'
    <3>1. /\ ~(w > 0 /\ Mask!TrailingPad(c) > 0)
          /\ ~(/\ ~Mask!NeedsMask(c, w)
               /\ 1 < forward.q /\ forward.q < cache[c].len)
          /\ ~(/\ setup.sinks /\ Mask!TrailingPad(c) > 0
               /\ cache[c].written = cache[c].columns)
      BY <1>7, <2>1, <2>2, <2>3 DEF Mask!WindowOfColumns, Mask!FirstPositions, Mask!StaleSink
    <3>2. ASSUME NEW b \in Mask!Rows(c), NEW i \in 1 .. forward.q,
                 cache[c].len - forward.q + i > Mask!Pad(c, b)
          PROVE  attended'[c][b][i] = Mask!Expected(c, b, i, w)'
      BY <1>10, <2>0, <2>2, <3>1, <3>2
    <3> QED
      BY <1>7, <2>1, <2>2, <3>2 DEF Mask!AttendsRight
  <2> QED
    BY <1>7, <2>3 DEF Mask!AttendsExactlyElsewhere
<1> QED
  BY <1>6, <1>8, <1>9, <1>11 DEF MaskInv, BuffersInv, ContextsInv

(* Between forwards: the contexts change, the pool does not. *)
LEMMA MaskFrame ==
  ASSUME MaskInv, ContextsInv', setup' = setup, pool' = pool, buffers' = buffers,
         forward' = Mask!Idle \/ (IsForward' /\ forward'.at = 0)
  PROVE  MaskInv'
<1>1. BuffersInv'
  BY DEF MaskInv, BuffersInv, PoolOk, Apart
<1>2. ~(forward'.at > 0)
  BY DEF Mask!Idle
<1>3. Mask!AttendsExactlyElsewhere'
  BY <1>2 DEF Mask!AttendsExactlyElsewhere
<1>4. forward' = Mask!Idle' \/ IsForward'
  BY DEF Mask!Idle
<1> QED
  BY <1>1, <1>3, <1>4 DEF MaskInv, BuffersInv, ContextsInv

LEMMA RecordIs ==
  ASSUME NEW d, IsCache(d), NEW l, NEW k, NEW w, NEW u,
         u = [d EXCEPT !.len = l, !.columns = k, !.written = w]
  PROVE  u = [len |-> l, columns |-> k, written |-> w, pads |-> d.pads]
BY DEF IsCache

LEMMA LengthIs ==
  ASSUME NEW d, IsCache(d), NEW l, NEW u, u = [d EXCEPT !.len = l]
  PROVE  u = [len |-> l, columns |-> d.columns, written |-> d.written, pads |-> d.pads]
BY DEF IsCache

Paddings == {<<0>>, <<1, 0>>}

LEMMA MaskCreate ==
  ASSUME MaskInv, NEW c \in Ctx, NEW pads \in Paddings, Mask!Create(c, pads)
  PROVE  MaskInv'
<1> DEFINE new == [len |-> 0, columns |-> 0, written |-> 0, pads |-> pads]
<1>1. /\ c \notin DOMAIN cache /\ (~setup.offline => pads = <<0>>)
      /\ cache' = [d \in DOMAIN cache \union {c} |-> IF d = c THEN new ELSE cache[d]]
      /\ forward' = Mask!Idle /\ UNCHANGED <<setup, pool, buffers>>
  BY Zenon DEF Mask!Create
<1>2. IsCache(new) /\ new.pads = pads
  BY MaskAssumption DEF IsCache, Paddings
<1> HIDE DEF new
<1>3. DOMAIN cache' = DOMAIN cache \union {c} /\ cache'[c] = new
      /\ \A d \in DOMAIN cache : cache'[d] = cache[d]
  BY <1>1
<1>4. IsFiniteSet(DOMAIN cache')
  BY <1>3, FS_AddElement DEF MaskInv
<1>5. ASSUME NEW d \in DOMAIN cache'
      PROVE  IsCache(cache'[d]) /\ (~setup.offline => cache'[d].pads = <<0>>)
  BY <1>1, <1>2, <1>3 DEF MaskInv
<1>6. cache' = [d \in DOMAIN cache' |-> cache'[d]]
  BY <1>1
<1>7. ContextsInv'
  BY <1>1, <1>3, <1>4, <1>5, <1>6 DEF ContextsInv, MaskInv, IsCache
<1>8. forward' = Mask!Idle /\ setup' = setup /\ pool' = pool /\ buffers' = buffers
  BY <1>1
<1> QED
  BY <1>7, <1>8, MaskFrame DEF Mask!Idle

LEMMA TrimmedIs ==
  ASSUME NEW d, IsCache(d), NEW n \in Nat, n <= d.len, setup.cache \in {"dynamic", "bmc"}
  PROVE  IsCache(Mask!Trimmed(d, n)) /\ Mask!Trimmed(d, n).pads = d.pads
<1> DEFINE u == Mask!Trimmed(d, n)
<1>1. /\ d.len \in 0 .. MaxLen /\ d.columns \in Nat /\ d.written \in Nat /\ d.len <= d.written
      /\ d.written <= d.columns /\ d.pads \in {<<0>>, <<1, 0>>}
      /\ (setup.cache = "dynamic" => d.columns = d.len) /\ MaxLen \in Nat
  BY MaskAssumption DEF IsCache
<1>2. CASE setup.cache = "dynamic"
  <2>1. u = [d EXCEPT !.len = d.len - n, !.columns = d.columns - n, !.written = d.written - n]
    BY <1>2, Zenon DEF Mask!Trimmed
  <2> DEFINE l == d.len - n
             k == d.columns - n
             w == d.written - n
  <2>2. l \in 0 .. MaxLen /\ k \in Nat /\ w \in Nat /\ l <= w /\ w <= k /\ k = l
    BY <1>1, <1>2
  <2> HIDE DEF u, l, k, w
  <2>3. u = [len |-> l, columns |-> k, written |-> w, pads |-> d.pads]
    BY <2>1, RecordIs DEF l, k, w
  <2>4. IsCache(u) /\ u.pads = d.pads
    BY <1>1, <2>2, <2>3 DEF IsCache
  <2> QED
    BY <2>4 DEF u
<1>3. CASE setup.cache # "dynamic"
  <2>1. u = [d EXCEPT !.len = d.len - n]
    BY <1>3, Zenon DEF Mask!Trimmed
  <2> DEFINE l == d.len - n
  <2>2. l \in 0 .. MaxLen /\ l <= d.written
    BY <1>1
  <2> HIDE DEF u, l
  <2>3. u = [len |-> l, columns |-> d.columns, written |-> d.written, pads |-> d.pads]
    BY <2>1, LengthIs DEF l
  <2>4. IsCache(u) /\ u.pads = d.pads
    BY <1>1, <1>3, <2>2, <2>3 DEF IsCache
  <2> QED
    BY <2>4 DEF u
<1> QED
  BY <1>2, <1>3

LEMMA MaskTrim ==
  ASSUME MaskInv, NEW c \in DOMAIN cache, NEW n \in 1 .. Draft, Mask!Trim(c, n)
  PROVE  MaskInv'
<1> DEFINE new == Mask!Trimmed(cache[c], n)
<1>1. /\ n <= cache[c].len /\ cache' = [cache EXCEPT ![c] = new]
      /\ forward' = Mask!Idle /\ UNCHANGED <<setup, pool, buffers>>
  BY Zenon DEF Mask!Trim
<1>2. IsCache(new) /\ new.pads = cache[c].pads
  <2>1. n \in Nat /\ IsCache(cache[c]) /\ setup.cache \in {"dynamic", "bmc"}
    BY SetupsAre, MaskAssumption DEF MaskInv
  <2> QED
    BY <1>1, <2>1, TrimmedIs
<1> HIDE DEF new
<1>3. /\ DOMAIN cache' = DOMAIN cache /\ cache'[c] = new
      /\ \A e \in DOMAIN cache : e # c => cache'[e] = cache[e]
      /\ cache' = [e \in DOMAIN cache' |-> cache'[e]]
  BY <1>1 DEF MaskInv
<1>4. ASSUME NEW d \in DOMAIN cache'
      PROVE  IsCache(cache'[d]) /\ (~setup.offline => cache'[d].pads = <<0>>)
  BY <1>2, <1>3 DEF MaskInv
<1>5. ContextsInv'
  BY <1>1, <1>3, <1>4 DEF ContextsInv, MaskInv, IsCache
<1>6. forward' = Mask!Idle /\ setup' = setup /\ pool' = pool /\ buffers' = buffers
  BY <1>1
<1> QED
  BY <1>5, <1>6, MaskFrame DEF Mask!Idle

LEMMA MaskRemove ==
  ASSUME MaskInv, NEW c \in DOMAIN cache, Mask!RemoveContext(c)
  PROVE  MaskInv'
<1>1. /\ cache' = [d \in DOMAIN cache \ {c} |-> cache[d]]
      /\ forward' = Mask!Idle /\ UNCHANGED <<setup, pool, buffers>>
  BY Zenon DEF Mask!RemoveContext, Mask!Restrict
<1>2. IsFiniteSet(DOMAIN cache')
  BY <1>1, FS_RemoveElement DEF MaskInv
<1>3. ContextsInv'
  BY <1>1, <1>2 DEF ContextsInv, MaskInv, IsCache
<1>4. forward' = Mask!Idle /\ setup' = setup /\ pool' = pool /\ buffers' = buffers
  BY <1>1
<1> QED
  BY <1>3, <1>4, MaskFrame DEF Mask!Idle

(* A context grows by the entries of a forward. *)
LEMMA UpdatedIs ==
  ASSUME NEW d, IsCache(d), NEW q \in Nat \ {0}, d.len + q <= MaxLen,
         setup.cache \in {"dynamic", "bmc"}
  PROVE  IsCache(Mask!Updated(d, q)) /\ Mask!Updated(d, q).len = d.len + q
         /\ Mask!Updated(d, q).pads = d.pads
<1> DEFINE len == d.len + q
           segments == (len + SegmentColumns - 1) \div SegmentColumns
           columns == IF setup.cache = "dynamic" THEN len
                      ELSE IF len <= d.columns THEN d.columns
                      ELSE segments * SegmentColumns
           written == IF d.written < len THEN len ELSE d.written
           new == [len |-> len, columns |-> columns, written |-> written, pads |-> d.pads]
<1>1. /\ d.len \in Nat /\ d.columns \in Nat /\ d.written \in Nat /\ d.len <= d.written
      /\ d.written <= d.columns /\ d.pads \in {<<0>>, <<1, 0>>}
      /\ (setup.cache = "dynamic" => d.columns = d.len)
      /\ d = [len |-> d.len, columns |-> d.columns, written |-> d.written, pads |-> d.pads]
      /\ MaxLen \in Nat /\ SegmentColumns \in Nat \ {0}
  BY MaskAssumption DEF IsCache
<1>2. Mask!Updated(d, q) = new
  <2> DEFINE u == Mask!Updated(d, q)
  <2>1. u = [d EXCEPT !.len = len, !.columns = columns, !.written = written]
    BY Zenon DEF Mask!Updated
  <2> HIDE DEF u, len, columns, written
  <2> QED
    BY <2>1, RecordIs DEF u
<1>3. len \in Nat /\ len <= MaxLen
  BY <1>1
<1> HIDE DEF len
<1>4. segments * SegmentColumns \in Nat /\ len <= segments * SegmentColumns
  <2> DEFINE x == len + SegmentColumns - 1
  <2>1. x \in Nat
    BY <1>1, <1>3
  <2> HIDE DEF x
  <2>2. /\ x \div SegmentColumns \in Int /\ SegmentColumns * (x \div SegmentColumns) <= x
        /\ x < SegmentColumns * (x \div SegmentColumns) + SegmentColumns
    BY <1>1, <2>1, K!QuotientIs
  <2>3. PICK s \in Int : s = x \div SegmentColumns
    BY <2>2
  <2>4. s * SegmentColumns \in Int /\ s * SegmentColumns = SegmentColumns * s
    BY <1>1
  <2>5. x < s * SegmentColumns + SegmentColumns
    BY <2>2, <2>3, <2>4
  <2> QED
    BY <1>1, <1>3, <2>3, <2>4, <2>5 DEF x
<1> HIDE DEF segments
<1>5. PICK size \in Nat : size = segments * SegmentColumns
  BY <1>4
<1>6. columns \in Nat /\ written \in Nat /\ len <= written /\ written <= columns
      /\ (setup.cache = "dynamic" => columns = len)
  BY <1>1, <1>3, <1>4, <1>5 DEF len
<1> HIDE DEF columns, written
<1>7. IsCache(new) /\ new.len = len /\ new.pads = d.pads
  BY <1>1, <1>3, <1>6 DEF IsCache
<1> QED
  BY <1>2, <1>7 DEF len

LEMMA OrdersAre ==
  ASSUME NEW S, IsFiniteSet(S), NEW batch \in Mask!SetToSeqs(S)
  PROVE  /\ batch \in Seq(S) /\ Mask!IsInjective(batch) /\ DOMAIN batch = 1 .. Len(batch)
         /\ Mask!Range(batch) \subseteq S
<1> DEFINE n == Mask!Cardinality(S)
<1>1. n \in Nat
  <2>1. Mask!Cardinality(S) = Cardinality(S)
    BY DEF Mask!Cardinality, Cardinality
  <2> QED
    BY <2>1, FS_CardinalityType
<1>2. batch \in [1 .. n -> S] /\ \A i, j \in 1 .. n : i # j => batch[i] # batch[j]
  BY Zenon DEF Mask!SetToSeqs
<1> HIDE DEF n
<1>3. batch \in Seq(S) /\ DOMAIN batch = 1 .. n /\ Len(batch) = n
  BY <1>1, <1>2
<1> QED
  BY <1>2, <1>3 DEF Mask!IsInjective, Mask!Range

LEMMA MaskBegin ==
  ASSUME MaskInv, NEW some \in SUBSET DOMAIN cache, NEW q \in 1 .. BrgemmMin,
         NEW batch \in Mask!SetToSeqs(some), Mask!Begin(batch, q)
  PROVE  MaskInv'
<1> DEFINE in == Mask!Range(batch)
           new(c) == IF c \in in THEN Mask!Updated(cache[c], q) ELSE cache[c]
<1>1. /\ \A c \in in :
           /\ cache[c].len + q <= MaxLen
           /\ cache[c].len = 0 => \A b \in Mask!Rows(c) : Mask!Pad(c, b) < q
           /\ cache[c].len > 0 => q \in {1, 1 + Draft}
      /\ setup.offline => Len(batch) = 1
      /\ cache' = [c \in DOMAIN cache |-> new(c)]
      /\ forward' = [batch |-> batch, q |-> q, at |-> 0]
      /\ setup' = setup /\ pool' = pool /\ buffers' = buffers
  BY Zenon DEF Mask!Begin
<1>2. /\ batch \in Seq(DOMAIN cache) /\ Mask!IsInjective(batch) /\ DOMAIN batch = 1 .. Len(batch)
      /\ in \subseteq DOMAIN cache /\ \A n \in 1 .. Len(batch) : batch[n] \in in
  <2>1. IsFiniteSet(some)
    BY FS_Subset DEF MaskInv
  <2>2. /\ batch \in Seq(some) /\ Mask!IsInjective(batch) /\ DOMAIN batch = 1 .. Len(batch)
        /\ in \subseteq some
    BY <2>1, OrdersAre
  <2>3. \A n \in 1 .. Len(batch) : batch[n] \in in
    BY <2>2 DEF Mask!Range
  <2> QED
    BY <2>2, <2>3
<1> HIDE DEF in
<1>3. /\ q \in Nat \ {0} /\ BrgemmMin \in Nat /\ setup.cache \in {"dynamic", "bmc"}
      /\ setup.windows \in Seq(Nat) /\ Draft + 1 < BrgemmMin /\ Draft \in Nat
  BY MaskAssumption, SetupsAre DEF MaskInv
<1>4. ASSUME NEW c \in in
      PROVE  /\ IsCache(new(c)) /\ new(c).pads = cache[c].pads /\ new(c).len = cache[c].len + q
             /\ \A b \in DOMAIN cache[c].pads : cache[c].pads[b] < cache[c].len + q
             /\ cache[c].len + q = q \/ q < BrgemmMin
             /\ q <= cache[c].len + q
  <2>1. IsCache(cache[c]) /\ cache[c].len \in Nat /\ cache[c].pads \in {<<0>>, <<1, 0>>}
    BY <1>2, MaskAssumption DEF MaskInv, IsCache
  <2>2. IsCache(new(c)) /\ new(c).pads = cache[c].pads /\ new(c).len = cache[c].len + q
    BY <1>1, <1>3, <2>1, UpdatedIs
  <2>3. ASSUME NEW b \in DOMAIN cache[c].pads PROVE cache[c].pads[b] < cache[c].len + q
    <3>1. CASE cache[c].len = 0
      BY <1>1, <3>1 DEF Mask!Rows, Mask!Pad
    <3>2. CASE cache[c].len # 0
      <4>1. cache[c].pads[b] \in {0, 1}
        BY <2>1
      <4> QED
        BY <1>3, <2>1, <3>2, <4>1
    <3> QED
      BY <3>1, <3>2
  <2> QED
    BY <1>1, <1>3, <2>1, <2>2, <2>3
<1> HIDE DEF new
<1>5. DOMAIN cache' = DOMAIN cache /\ cache' = [c \in DOMAIN cache' |-> cache'[c]]
      /\ \A c \in DOMAIN cache : cache'[c] = new(c)
  BY <1>1
<1>6. ASSUME NEW c \in DOMAIN cache'
      PROVE  IsCache(cache'[c]) /\ (~setup.offline => cache'[c].pads = <<0>>)
  <2>1. CASE c \in in
    BY <1>4, <1>5, <2>1 DEF MaskInv
  <2>2. CASE c \notin in
    BY <1>5, <2>2 DEF MaskInv, new
  <2> QED
    BY <2>1, <2>2
<1>7. ContextsInv'
  BY <1>1, <1>5, <1>6 DEF ContextsInv, MaskInv, IsCache
<1>8. forward'.batch = batch /\ forward'.q = q /\ forward'.at = 0
  BY <1>1
<1>9. ASSUME NEW n \in 1 .. Len(batch) PROVE Served(batch[n])'
  <2>1. batch[n] \in in /\ cache'[batch[n]] = new(batch[n])
    BY <1>2, <1>5
  <2> QED
    BY <1>4, <1>8, <2>1 DEF Served
<1>10. IsForward'
  <2>1. 0 \in 0 .. Len(setup.windows)
    BY <1>3
  <2> QED
    BY <1>1, <1>2, <1>3, <1>5, <1>8, <1>9, <2>1 DEF IsForward
<1> QED
  BY <1>1, <1>7, <1>8, <1>10, MaskFrame

LEMMA MaskStart == kind = "masks" /\ Mask!Init => MaskInv
<1> SUFFICES ASSUME Mask!Init PROVE MaskInv
  OBVIOUS
<1>1. /\ setup \in Setups /\ DOMAIN cache = {} /\ cache = [c \in DOMAIN cache |-> cache[c]]
      /\ pool = <<>> /\ buffers = <<>> /\ forward = Mask!Idle
  BY DEF Mask!Init, Mask!Nothing
<1>2. setup.entries \in Nat
  BY <1>1, SetupsAre
<1>3. IsFiniteSet(DOMAIN cache)
  BY <1>1, FS_EmptySet
<1>4. ~(forward.at > 0)
  BY <1>1 DEF Mask!Idle
<1>5. PoolOk(pool, buffers) /\ Len(pool) <= setup.entries
      /\ DOMAIN buffers = {pool[i].buf : i \in 1 .. Len(pool)}
  BY <1>1, <1>2 DEF PoolOk, Apart
<1> QED
  BY <1>1, <1>3, <1>4, <1>5 DEF MaskInv, Mask!AttendsExactlyElsewhere

LEMMA MaskStep == MaskInv /\ Mask!Next => MaskInv'
<1> SUFFICES ASSUME MaskInv, Mask!Next PROVE MaskInv'
  OBVIOUS
<1>1. CASE Mask!Layer
  BY <1>1, MaskLayer
<1>2. ASSUME NEW c \in Ctx, NEW pads \in Paddings, Mask!Create(c, pads) PROVE MaskInv'
  BY <1>2, MaskCreate
<1>3. ASSUME NEW some \in SUBSET DOMAIN cache, NEW q \in 1 .. BrgemmMin,
             NEW batch \in Mask!SetToSeqs(some), Mask!Begin(batch, q)
      PROVE  MaskInv'
  BY <1>3, MaskBegin
<1>4. ASSUME NEW c \in DOMAIN cache, Mask!RemoveContext(c) PROVE MaskInv'
  BY <1>4, MaskRemove
<1>5. ASSUME NEW c \in DOMAIN cache, NEW n \in 1 .. Draft, Mask!Trim(c, n) PROVE MaskInv'
  BY <1>5, MaskTrim
<1>6. \/ Mask!Layer
      \/ \E c \in Ctx, pads \in Paddings : Mask!Create(c, pads)
      \/ \E some \in SUBSET DOMAIN cache, q \in 1 .. BrgemmMin :
           \E batch \in Mask!SetToSeqs(some) : Mask!Begin(batch, q)
      \/ \E c \in DOMAIN cache : Mask!RemoveContext(c)
      \/ \E c \in DOMAIN cache, n \in 1 .. Draft : Mask!Trim(c, n)
  BY Zenon DEF Mask!Next, Paddings
<1> QED
  BY <1>1, <1>2, <1>3, <1>4, <1>5, <1>6

LEMMA MaskTypes == MaskInv => Mask!TypeOK
<1> SUFFICES ASSUME MaskInv PROVE Mask!TypeOK
  OBVIOUS
<1>1. /\ pool \in Seq(MaskEntry) /\ Apart(pool) /\ DOMAIN pool = 1 .. Len(pool)
      /\ DOMAIN buffers = {pool[i].buf : i \in 1 .. Len(pool)}
  BY DEF MaskInv, PoolOk
<1>2. Mask!IsInjective([n \in DOMAIN pool |-> pool[n].key])
  BY <1>1 DEF Mask!IsInjective, Apart
<1>3. DOMAIN buffers = {e.buf : e \in Mask!Range(pool)}
  BY <1>1 DEF Mask!Range
<1>4. \A c \in DOMAIN cache : /\ cache[c].len \in 0 .. MaxLen
                               /\ cache[c].len <= cache[c].written
                               /\ cache[c].written <= cache[c].columns
  BY DEF MaskInv, IsCache
<1> QED
  BY <1>2, <1>3, <1>4 DEF Mask!TypeOK, MaskInv

(* The other parts of MCAttention never have masks. *)
Masks == kind = "masks" => MaskInv

LEMMA MasksStart ==
  ASSUME Init
  PROVE  Masks
<1>1. kind = "masks" => Mask!Init
  BY Zenon DEF Init, Contiguous!Init, Paged!Init, Slab!Init
<1> QED
  BY <1>1, MaskStart DEF Masks

LEMMA MasksKeep ==
  ASSUME Masks,
         [Next]_<<kind, broken, forward, objects, paged, pools, slab, vllm, setup, masks, kernels>>
  PROVE  Masks'
<1> SUFFICES ASSUME kind' = "masks" PROVE MaskInv'
  BY DEF Masks
<1>1. CASE Next
  <2>1. kind = "masks"
    <3>1. kind = "kernels" => kind' = kind
      BY <1>1, Zenon DEF Next, KernelsNext
    <3> QED
      BY <1>1, <3>1, OtherPartsKeep
  <2>2. Mask!Next
    BY <1>1, <2>1, Zenon DEF Next, MaskNext
  <2> QED
    BY <2>1, <2>2, MaskStep DEF Masks
<1>2. CASE UNCHANGED <<kind, broken, forward, objects, paged, pools, slab, vllm, setup, masks,
                       kernels>>
  <2>1. /\ UNCHANGED <<kind, setup, cache, pool, buffers, forward, attended>>
        /\ MaskInv
    BY <1>2 DEF Masks, masks
  <2>2. ContextsInv' /\ BuffersInv'
    BY <2>1 DEF MaskInv, ContextsInv, BuffersInv, IsCache, PoolOk, Apart
  <2>3. forward' = Mask!Idle' \/ IsForward'
    BY <2>1 DEF MaskInv, IsForward, Served, Mask!Idle
  <2>4. ASSUME NEW c
        PROVE  /\ Mask!WindowOfColumns(c)' <=> Mask!WindowOfColumns(c)
               /\ Mask!FirstPositions(c)' <=> Mask!FirstPositions(c)
               /\ Mask!StaleSink(c)' <=> Mask!StaleSink(c)
    BY <2>1 DEF Mask!WindowOfColumns, Mask!FirstPositions, Mask!StaleSink, Mask!NeedsMask,
       Mask!TrailingPad, Mask!HasLeadingPad, Mask!Rows, Mask!Pad
  <2>5. ASSUME NEW c PROVE Mask!AttendsRight(c)' <=> Mask!AttendsRight(c)
    BY <2>1 DEF Mask!AttendsRight, Mask!Expected, Mask!Rows, Mask!Pad
  <2>6. Mask!AttendsExactlyElsewhere'
    BY <2>1, <2>4, <2>5 DEF MaskInv, Mask!AttendsExactlyElsewhere
  <2> QED
    BY <2>2, <2>3, <2>6 DEF MaskInv, ContextsInv, BuffersInv
<1> QED
  BY <1>1, <1>2

LEMMA MasksInvariant == Spec => []Masks
BY MasksStart, MasksKeep, PTL DEF Spec

(* For every limit of the mask pool, segment size and number of drafts:    *)
(* outside the three cases AttentionMask names, each query of a forward    *)
(* attends to exactly the entries of its own context it should, whichever  *)
(* way the layer computes attention and although the buffer of its mask    *)
(* was written for other forwards, contexts and layers before.             *)
THEOREM QueriesAttendExactly == Spec => []AttendsExactlyElsewhere
<1>1. Masks => AttendsExactlyElsewhere
  BY DEF Masks, MaskInv, AttendsExactlyElsewhere
<1> QED
  BY <1>1, MasksInvariant, PTL

-----------------------------------------------------------------------------
(* Every backend                                                           *)

NoCache == kind \in {"masks", "kernels", "softmax", "sampler"}
CacheInv == ContiguousInv \/ PagedInv \/ SlabInv \/ PluginInv \/ NoCache
Unchanged ==
  UNCHANGED <<kind, broken, forward, objects, paged, pools, slab, vllm, setup, masks, kernels>>

LEMMA NoCacheIs ==
  ASSUME NoCache
  PROVE  Kv = <<>> /\ Fwd = Store!NoForward
BY NoForwardIs DEF NoCache, Kv, Fwd

LEMMA InitImplements ==
  ASSUME Init
  PROVE  CacheInv /\ StoreInv /\ Store!Init
<1> DEFINE none == [c \in {} |-> <<>>]
<1>0. none = <<>> /\ DOMAIN none = {} /\ none = [c \in {} |-> none[c]]
  OBVIOUS
<1>1. ASSUME Contiguous!Init PROVE ContiguousInv /\ Kv = none /\ Fwd = Store!NoForward
  <2>1. /\ kind \in {"dynamic", "bmc"} /\ objects = none /\ broken = {}
        /\ forward = Store!NoForward
    BY <1>1, NoForwardIs DEF Contiguous!Init
  <2> HIDE DEF none
  <2>2. ContiguousInv
    <3>1. objects \in [DOMAIN objects -> [Layers -> Objects(kind)]]
      BY <1>0, <2>1
    <3> QED
      BY <1>0, <2>1, <3>1 DEF ContiguousInv
  <2>3. Kv = none
    <3>1. Kv = [c \in {} |-> [l \in Layers |-> Contiguous!Held(objects[c][l])]]
      BY <1>0, <2>1, <2>2, ContiguousView
    <3> QED
      BY <1>0, <3>1
  <2> QED
    BY <2>1, <2>2, <2>3, ContiguousView
<1>2. ASSUME Paged!Init PROVE PagedInv /\ Kv = none /\ Fwd = Store!NoForward
  <2>1. /\ kind \in {"shared", "own"} /\ max = none /\ seq_len = none /\ broken = {}
        /\ forward = Store!NoForward
        /\ pools = IF kind = "shared"
                   THEN Paged!Put(none, Engine, Paged!NewPool(Blocks)) ELSE none
        /\ tensor = IF kind = "shared"
                    THEN Paged!Put(none, Engine, Paged!NewTensor(Blocks)) ELSE none
    BY <1>2, NoForwardIs DEF Paged!Init, Paged!Empty
  <2>2. DOMAIN max = {} /\ DOMAIN forward.new = {}
    BY <2>1, NoForwardIs
  <2>3. /\ pools = [h \in Homes |-> pools[h]] /\ tensor = [h \in Homes |-> tensor[h]]
        /\ \A h \in Homes : PoolInv(h)
    <3>1. CASE kind = "shared"
      <4> DEFINE p == Paged!NewPool(Blocks)
                 t == Paged!NewTensor(Blocks)
      <4>1. Proper(p) /\ Paged!AllBlocks(p) = Blocks /\ DOMAIN p.owned = {}
        BY NewPoolIs
      <4>2. /\ t = [l \in Layers |-> t[l]]
            /\ \A l \in Layers : DOMAIN t[l] = Blocks \X (0 .. BlockSize - 1)
        BY DEF Paged!NewTensor, Paged!Layers, Layers
      <4> HIDE DEF p, t
      <4>3. /\ pools = [h \in {Engine} |-> pools[h]] /\ pools[Engine] = p
            /\ tensor = [h \in {Engine} |-> tensor[h]] /\ tensor[Engine] = t
        BY <2>1, <3>1 DEF Paged!Put, p, t
      <4>4. Homes = {Engine}
        BY <3>1, HomesAre
      <4>5. PoolInv(Engine)
        BY <4>1, <4>2, <4>3 DEF PoolInv
      <4> QED
        BY <4>3, <4>4, <4>5
    <3>2. CASE kind = "own"
      <4>1. Homes = {} /\ pools = none /\ tensor = none
        BY <2>1, <2>2, <3>2, HomesAre
      <4> QED
        BY <4>1
    <3> QED
      BY <2>1, <3>1, <3>2
  <2>4. PagedInv
    BY <2>1, <2>2, <2>3 DEF PagedInv
  <2>5. Kv = none
    <3>1. Kv = [c \in {} |-> PagedLists(c)]
      BY <2>1, <2>2, PagedView
    <3> QED
      BY <3>1
  <2> QED
    BY <2>1, <2>4, <2>5, PagedView
<1>3. ASSUME Slab!Init PROVE SlabInv /\ Kv = none /\ Fwd = Store!NoForward
  <2> DEFINE m == Slab!NewManager(PoolTokens)
  <2>1. /\ kind \in {"eager", "lazy"} /\ context = none /\ broken = {} /\ stuck = {}
        /\ forward = Store!NoForward
        /\ manager = IF kind = "eager" THEN 1 ELSE 0
        /\ managers = IF kind = "eager" THEN Slab!Put(none, 1, m) ELSE none
    BY <1>3, NoForwardIs DEF Slab!Init, Slab!Empty
  <2>2. DOMAIN context = {} /\ DOMAIN forward.new = {} /\ context = [c \in DOMAIN context |-> context[c]]
    BY <2>1, NoForwardIs
  <2>3. IsManager(m) /\ \A l \in Layers : DOMAIN m.pools[l] = {}
    BY NewManagerIs
  <2> HIDE DEF m
  <2>4. /\ managers = [k \in DOMAIN managers |-> managers[k]]
        /\ DOMAIN managers = IF kind = "eager" THEN {1} ELSE {}
        /\ kind = "eager" => managers[1] = m
    BY <2>1 DEF Slab!Put
  <2>5. Slab!SequencesAccounted
    BY <2>1, <2>2, <2>3, <2>4 DEF Slab!SequencesAccounted, Slab!Layers, Layers
  <2>6. SlabInv
    BY <2>1, <2>2, <2>3, <2>4, <2>5 DEF SlabInv
  <2>7. Kv = none
    <3>1. Kv = [c \in {} |-> [l \in Layers |-> managers[context[c].of].pools[l][c]]]
      BY <2>1, <2>2, SlabView
    <3> QED
      BY <3>1
  <2> QED
    BY <2>1, <2>6, <2>7, SlabView
<1>4. ASSUME kind = "vllm", Plugin!Init
      PROVE  PluginInv /\ Kv = none /\ Fwd = Store!NoForward
  <2>1. /\ setup.target = [l \in Layers |-> l]
        /\ pools = [l \in Plugin!Owners(setup) |-> none]
        /\ scheduled = Plugin!Nothing /\ forward = Store!NoForward /\ dead = FALSE
    <3>1. setup \in Layouts
      BY <1>4 DEF Plugin!Init
    <3>2. setup.target = [l \in Layers |-> l]
      <4> DEFINE own == [l \in 1 .. NumLayers |-> l]
                 sizes == {[l \in 1 .. NumLayers |-> 1], own}
      <4>1. setup \in {[target |-> own, bytes |-> b] : b \in sizes}
        BY <3>1 DEF Layouts
      <4>2. own = [l \in Layers |-> l]
        BY DEF Layers
      <4> HIDE DEF own, sizes
      <4> QED
        BY <4>1, <4>2
    <3>3. Plugin!Idle.new = none
      BY DEF Plugin!Idle
    <3> QED
      BY <1>4, <3>2, <3>3, NoForwardIs DEF Plugin!Init
  <2>2. pools = [l \in Layers |-> none] /\ 1 \in Layers
    BY <2>1, PluginOwners
  <2>3. Known = {}
    BY <2>2 DEF Known
  <2>4. pools = [l \in Layers |-> [r \in Known |-> pools[l][r]]]
    BY <2>2, <2>3
  <2>5. IsScheduled(scheduled) /\ scheduled.preempted = {} /\ scheduled.finished = {}
    <3>1. /\ scheduled = [new |-> {}, preempted |-> {}, finished |-> {}, batch |-> none]
      BY <2>1 DEF Plugin!Nothing, Plugin!Idle
    <3> HIDE DEF none
    <3> QED
      BY <1>0, <3>1 DEF IsScheduled
  <2>6. PluginInv
    BY <1>4, <2>1, <2>3, <2>4, <2>5, NoForwardIs DEF PluginInv
  <2>7. Kv = none
    <3>1. Kv = [r \in {} |-> [l \in Layers |-> pools[l][r]]]
      BY <1>4, <2>1, <2>3, PluginView
    <3> QED
      BY <3>1
  <2> QED
    BY <1>4, <2>1, <2>6, <2>7, PluginView
<1>5. ASSUME NoCache PROVE Kv = none /\ Fwd = Store!NoForward
  BY <1>0, <1>5, NoCacheIs
<1>6. CacheInv /\ Kv = none /\ Fwd = Store!NoForward
  <2>1. Contiguous!Init \/ Paged!Init \/ Slab!Init \/ (kind = "vllm" /\ Plugin!Init) \/ NoCache
    BY DEF Init, NoCache
  <2> QED
    BY <1>1, <1>2, <1>3, <1>4, <1>5, <2>1 DEF CacheInv
<1> HIDE DEF none
<1>7. StoreInv
  <2>1. Kv \in [DOMAIN Kv -> [Layers -> Seq(Values)]] /\ DOMAIN Kv = {}
    BY <1>0, <1>6
  <2> QED
    BY <1>6, <2>1 DEF StoreInv
<1> QED
  BY <1>6, <1>7 DEF Store!Init, none

LEMMA StoreStepKeeps ==
  ASSUME StoreInv, StoreStep
  PROVE  StoreInv'
<1>1. CASE Store!Next
  BY <1>1, StoreKeeps
<1>2. CASE Kv' = Kv /\ Fwd' = Fwd
  BY <1>2 DEF StoreInv, Forwarding, InStep, Ahead
<1> QED
  BY <1>1, <1>2 DEF StoreStep

LEMMA NextImplements ==
  ASSUME CacheInv, StoreInv, Next
  PROVE  CacheInv' /\ StoreStep
<1>1. ASSUME kind \in {"dynamic", "bmc"}, Contiguous!Next PROVE CacheInv' /\ StoreStep
  <2>1. ContiguousInv
    BY <1>1 DEF CacheInv, PagedInv, SlabInv, PluginInv, NoCache
  <2> QED
    BY <1>1, <2>1, ContiguousStep DEF CacheInv
<1>2. ASSUME kind \in {"shared", "own"}, Paged!Next PROVE CacheInv' /\ StoreStep
  <2>1. PagedInv
    BY <1>2 DEF CacheInv, ContiguousInv, SlabInv, PluginInv, NoCache
  <2> QED
    BY <1>2, <2>1, PagedStep DEF CacheInv
<1>3. ASSUME kind \in {"eager", "lazy"}, Slab!Next PROVE CacheInv' /\ StoreStep
  <2>1. SlabInv
    BY <1>3 DEF CacheInv, ContiguousInv, PagedInv, PluginInv, NoCache
  <2> QED
    BY <1>3, <2>1, SlabStep DEF CacheInv
<1>4. ASSUME kind = "vllm", Plugin!Next, kind' = kind PROVE CacheInv' /\ StoreStep
  <2>1. PluginInv
    BY <1>4 DEF CacheInv, ContiguousInv, PagedInv, SlabInv, NoCache
  <2> QED
    BY <1>4, <2>1, PluginStep DEF CacheInv
<1>5. ASSUME NoCache, kind' = kind PROVE CacheInv' /\ StoreStep
  <2>1. NoCache'
    BY <1>5 DEF NoCache
  <2>2. Kv' = <<>> /\ Fwd' = Contiguous!Idle
    BY <1>5 DEF NoCache, Kv, Fwd, Contiguous!Idle
  <2> QED
    BY <1>5, <2>1, <2>2, NoCacheIs, NoForwardIs DEF CacheInv, StoreStep
<1>6. \/ kind \in {"dynamic", "bmc"} /\ Contiguous!Next
      \/ kind \in {"shared", "own"} /\ Paged!Next
      \/ kind \in {"eager", "lazy"} /\ Slab!Next
      \/ kind = "vllm" /\ Plugin!Next /\ kind' = kind
      \/ NoCache /\ kind' = kind
  BY DEF Next, NoCache, ContiguousNext, PagedNext, SlabNext, PluginNext, MaskNext,
         KernelsNext, SoftmaxNext, SamplerNext
<1> QED
  BY <1>1, <1>2, <1>3, <1>4, <1>5, <1>6

LEMMA StutterImplements ==
  ASSUME CacheInv, StoreInv, Unchanged
  PROVE  CacheInv' /\ StoreStep
<1> USE DEF Unchanged, paged, slab, vllm
<1>1. ContiguousInv => ContiguousInv'
  BY DEF ContiguousInv, Objects
<1>2. PagedInv => PagedInv'
  <2>0. SUFFICES ASSUME PagedInv PROVE PagedInv'
    OBVIOUS
  <2>1. Homes' = Homes /\ \A c : Own(c)' = Own(c)
    BY DEF Homes, Paged!Home, Own, Bl, Paged!Pool, Paged!BlocksOf
  <2>2. ASSUME NEW h \in Homes PROVE PoolInv(h)'
    <3>1. PoolInv(h)
      BY <2>0 DEF PagedInv
    <3>2. Proper(pools[h])' <=> Proper(pools[h])
      BY DEF Proper
    <3>3. {c \in DOMAIN max : Paged!Home(c) = h}' = {c \in DOMAIN max : Paged!Home(c) = h}
      BY DEF Paged!Home
    <3> QED
      BY <3>1, <3>2, <3>3 DEF PoolInv
  <2>3. /\ kind \in {"shared", "own"}
        /\ DOMAIN max \subseteq Ctx /\ broken \subseteq DOMAIN max
        /\ max = [c \in DOMAIN max |-> max[c]]
        /\ seq_len = [c \in DOMAIN max |-> seq_len[c]]
        /\ pools = [h \in Homes |-> pools[h]] /\ tensor = [h \in Homes |-> tensor[h]]
    BY <2>0 DEF PagedInv
  <2>4. ASSUME NEW c \in DOMAIN max
        PROVE  seq_len[c] \in Nat /\ Paged!Cover(seq_len[c]) <= Len(Own(c))
    BY <2>0 DEF PagedInv
  <2>5. /\ \A c \in DOMAIN forward.new : Len(forward.new[c]) <= seq_len[c]
        /\ kind = "own" => \A c, d \in DOMAIN max : c = d
    BY <2>0 DEF PagedInv
  <2>6. \A n : Paged!Cover(n)' = Paged!Cover(n)
    BY DEF Paged!Cover
  <2>7. /\ pools' = [h \in Homes |-> pools'[h]]
        /\ tensor' = [h \in Homes |-> tensor'[h]]
        /\ max' = [c \in DOMAIN max |-> max'[c]]
        /\ seq_len' = [c \in DOMAIN max |-> seq_len'[c]]
    BY <2>3
  <2> QED
    BY <2>1, <2>2, <2>3, <2>4, <2>5, <2>6, <2>7 DEF PagedInv
<1>3. SlabInv => SlabInv'
  BY DEF SlabInv, Slab!SequencesAccounted, Slab!Layers, Layers
<1>4. PluginInv => PluginInv'
  BY DEF PluginInv, Known
<1>5. NoCache => NoCache'
  BY DEF NoCache
<1>6. Kv' = Kv /\ Fwd' = Fwd
  <2>1. Contiguous!View' = Contiguous!View
    BY DEF Contiguous!View
  <2>2. Paged!View' = Paged!View
    BY DEF Paged!View, Paged!Home, Paged!Pool, Paged!Reached
  <2>3. Slab!View' = Slab!View
    BY DEF Slab!View, Slab!PoolsOf
  <2>4. Plugin!View' = Plugin!View
    BY DEF Plugin!View, Plugin!Requests, Plugin!Layers
  <2> QED
    BY <2>1, <2>2, <2>3, <2>4 DEF Kv, Fwd
<1> QED
  BY <1>1, <1>2, <1>3, <1>4, <1>5, <1>6 DEF CacheInv, StoreStep

LEMMA StepImplements ==
  ASSUME CacheInv, StoreInv,
         [Next]_<<kind, broken, forward, objects, paged, pools, slab, vllm, setup, masks, kernels>>
  PROVE  CacheInv' /\ StoreInv' /\ [Store!Next]_(Store!vars)
<1>1. CacheInv' /\ StoreStep
  BY NextImplements, StutterImplements DEF Unchanged
<1> QED
  BY <1>1, StoreStepKeeps DEF StoreStep, Store!vars

LEMMA CachesInvariant == Spec => [](CacheInv /\ StoreInv)
BY InitImplements, StepImplements, PTL DEF Spec

(* Every cache backend implements the abstract store: whatever the number  *)
(* of layers, blocks, tokens and contexts, attention finds the entries of  *)
(* each context in every layer, in order, through growth, trims, forwards  *)
(* abandoned between two layers, removals and preemptions.                 *)
THEOREM CachesImplementStore == Spec => StoreSpec
BY InitImplements, StepImplements, PTL DEF Spec, StoreSpec, Store!Spec

(* Every block of a paged pool is free or of one context alive, once; the  *)
(* slab pools know the contexts alive in every layer and no other but the  *)
(* stuck ones; no two entries of the mask pool share a key; and every part *)
(* keeps its types.                                                        *)
THEOREM CacheMemoryIsAccounted == Spec => []MemoryAccounted
<1>0. StoreInv => Fwd.at \in 0 .. NumLayers
  BY LayersAssumption, NoForwardIs DEF StoreInv, Forwarding, Layers
<1>1. ContiguousInv /\ StoreInv => MemoryAccounted
  <2> SUFFICES ASSUME ContiguousInv, StoreInv PROVE MemoryAccounted
    OBVIOUS
  <2>1. \A c \in DOMAIN objects : \A l \in Layers :
          objects[c][l].seq_len \in 0 .. Len(objects[c][l].key)
    BY DEF ContiguousInv, Objects
  <2>2. Contiguous!TypeOK
    BY <1>0, <2>1, ContiguousView DEF ContiguousInv, Contiguous!TypeOK, Contiguous!Layers, Layers
  <2> QED
    BY <2>2 DEF ContiguousInv, MemoryAccounted
<1>2. PagedInv /\ StoreInv => MemoryAccounted
  <2> SUFFICES ASSUME PagedInv, StoreInv PROVE MemoryAccounted
    OBVIOUS
  <2>1. Paged!TypeOK
    <3>1. DOMAIN forward.new \subseteq DOMAIN max
      BY PagedView, NoForwardIs DEF PagedInv, StoreInv, Forwarding
    <3>2. DOMAIN pools = Homes /\ DOMAIN tensor = Homes
      BY DEF PagedInv
    <3> QED
      BY <1>0, <3>1, <3>2, PagedView DEF PagedInv, Paged!TypeOK, Homes
  <2>2. ASSUME NEW h \in DOMAIN pools, NEW p, p = pools[h], NEW c \in DOMAIN p.owned
        PROVE  /\ Paged!IsInjective(p.owned[c]) /\ Paged!Held(p, c) \intersect p.free = {}
               /\ \A d \in DOMAIN p.owned \ {c} :
                    Paged!Held(p, c) \intersect Paged!Held(p, d) = {}
    <3>1. Proper(p)
      BY <2>2 DEF PagedInv, PoolInv
    <3>2. \A d \in DOMAIN p.owned :
            /\ p.owned[d] = Bl(p, d) /\ DOMAIN p.owned[d] = 1 .. Len(Bl(p, d))
            /\ Paged!Held(p, d) = {Bl(p, d)[i] : i \in 1 .. Len(Bl(p, d))}
      <4> SUFFICES ASSUME NEW d \in DOMAIN p.owned
                   PROVE  /\ p.owned[d] = Bl(p, d) /\ DOMAIN p.owned[d] = 1 .. Len(Bl(p, d))
                          /\ Paged!Held(p, d) = {Bl(p, d)[i] : i \in 1 .. Len(Bl(p, d))}
        OBVIOUS
      <4>1. p.owned[d] = Bl(p, d) /\ Bl(p, d) \in Seq(Blocks)
        BY <3>1, BlocksAre DEF Proper
      <4>2. DOMAIN p.owned[d] = 1 .. Len(Bl(p, d))
        BY <4>1
      <4> QED
        BY <4>1, <4>2, RangeIs DEF Paged!Held
    <3>3. Paged!IsInjective(p.owned[c])
      BY <3>1, <3>2 DEF Paged!IsInjective, Proper
    <3>4. Paged!Held(p, c) \intersect p.free = {}
      BY <3>1, <3>2 DEF Proper
    <3>5. \A d \in DOMAIN p.owned \ {c} : Paged!Held(p, c) \intersect Paged!Held(p, d) = {}
      BY <3>1, <3>2 DEF Proper
    <3> QED
      BY <3>3, <3>4, <3>5
  <2>3. Paged!BlocksAccounted
    BY <2>2 DEF PagedInv, PoolInv, Paged!BlocksAccounted, Paged!Layers, Layers
  <2> QED
    BY <2>1, <2>3 DEF PagedInv, MemoryAccounted
<1>3. SlabInv /\ StoreInv => MemoryAccounted
  <2> SUFFICES ASSUME SlabInv, StoreInv PROVE MemoryAccounted
    OBVIOUS
  <2>1. DOMAIN forward.new \subseteq DOMAIN context
    BY SlabView, NoForwardIs DEF SlabInv, StoreInv, Forwarding
  <2>2. Slab!TypeOK
    BY <1>0, <2>1, SlabView DEF SlabInv, Slab!TypeOK
  <2> QED
    BY <2>2 DEF SlabInv, MemoryAccounted
<1>4. PluginInv => MemoryAccounted
  <2> SUFFICES ASSUME PluginInv PROVE MemoryAccounted
    OBVIOUS
  <2>1. \A l \in Plugin!Owners(setup) : DOMAIN pools[l] = Plugin!Requests
    BY PluginOwners DEF PluginInv
  <2>2. scheduled.batch \in UNION {[s -> Entries] : s \in SUBSET Ctx}
    BY DEF PluginInv, IsScheduled
  <2>3. Plugin!TypeOK
    BY <2>1, <2>2 DEF PluginInv, Plugin!TypeOK
  <2> QED
    BY <2>3 DEF PluginInv, MemoryAccounted
<1>5. NoCache /\ kind # "masks" => MemoryAccounted
  BY DEF NoCache, MemoryAccounted
<1>6. kind = "masks" /\ Masks => MemoryAccounted
  BY MaskTypes DEF Masks, MemoryAccounted
<1>7. CacheInv /\ StoreInv /\ Masks => MemoryAccounted
  BY <1>1, <1>2, <1>3, <1>4, <1>5, <1>6 DEF CacheInv
<1> QED
  BY <1>7, CachesInvariant, MasksInvariant, PTL
=============================================================================
