----------------------------- MODULE PagedCache -----------------------------
(***************************************************************************)
(* The paged caches (attention/paged/cache.py, utils.py): blocks handed    *)
(* out of a pool, and the slots of the tokens in them.                     *)
(* "shared" is the engine's PagedCache: one PagedKVCachePool for all       *)
(* contexts.  "own" is create_paged_kv_cache_manager for one sequence (the *)
(* draft model, offline use): a pool, here named by the context, in its    *)
(* layer 0, whose slots serve all layers.  The slots of a forward and the  *)
(* new seq_len of every layer are fixed before the model runs.             *)
(***************************************************************************)
EXTENDS Naturals, Sequences, Functions, FiniteSetsExt

CONSTANTS Ctx, Entries, NumLayers, MaxLens, Zero,
          BlockSize,
          Blocks, \* of the shared pool
          Engine  \* the name of the shared pool

VARIABLES kind,    \* "shared" or "own"
          max,     \* the contexts alive and their max_seq_length
          seq_len, \* the length the cache objects of a context report
          pools,   \* free_blocks and allocated_blocks
          tensor,  \* tensor[pool][l]: the entry of every slot
          broken, forward

vars == <<kind, max, seq_len, pools, tensor, broken, forward>>

Layers == 1 .. NumLayers
Idle == [at |-> 0, new |-> [c \in {} |-> <<>>]]
Cover(n) == (n + BlockSize - 1) \div BlockSize
Put(f, c, v) == [d \in DOMAIN f \union {c} |-> IF d = c THEN v ELSE f[d]]

-----------------------------------------------------------------------------
(* A pool: free blocks, and the blocks of its contexts.  free_blocks is a  *)
(* queue in the code; nothing depends on its order, so it is a set here    *)
(* and an allocation takes it in any order.                                *)

NewPool(blocks) == [free |-> blocks, owned |-> [c \in {} |-> <<>>]]
NewTensor(blocks) ==
  [l \in Layers |-> [s \in blocks \X (0 .. BlockSize - 1) |-> Zero]]

Home(c) == IF kind = "shared" THEN Engine ELSE c
Pool(c) == pools[Home(c)]

(* get_blocks_for_request *)
BlocksOf(p, c) == IF c \in DOMAIN p.owned THEN p.owned[c] ELSE <<>>

Missing(p, c, len) ==
  IF Cover(len) > Len(BlocksOf(p, c)) THEN Cover(len) - Len(BlocksOf(p, c)) ELSE 0

(* allocate_blocks, for all contexts of cs: the i-th block of c is take[c, i]. *)
Wanted(p, cs, need) == UNION {{c} \X (1 .. Missing(p, c, need[c])) : c \in cs}
Granted(p, cs, need, take) ==
  [free  |-> p.free \ Range(take),
   owned |-> [c \in DOMAIN p.owned \union {c \in cs : Missing(p, c, need[c]) > 0} |->
     IF c \in cs
     THEN BlocksOf(p, c) \o [i \in 1 .. Missing(p, c, need[c]) |-> take[<<c, i>>]]
     ELSE p.owned[c]]]

(* The slot of a position.  (-1, for a position without a block, does not  *)
(* happen: the blocks are there before the slots are computed.)            *)
Slot(blocks, pos) == <<blocks[(pos \div BlockSize) + 1], pos % BlockSize>>

SlotsFromZero(blocks, past, n) == \* mutant: past_lengths is not passed
  [i \in 1 .. n |-> Slot(blocks, i - 1)]
Slots(blocks, past, n) == [i \in 1 .. n |-> Slot(blocks, past + i - 1)]

(* reshape_and_cache: the i-th new entry of c goes to slots[c][i]. *)
Stored(cells, slots, new) ==
  [s \in DOMAIN cells |->
     LET here == {x \in UNION {{c} \X DOMAIN slots[c] : c \in DOMAIN slots} :
                    slots[x[1]][x[2]] = s}
     IN IF here = {} THEN cells[s]
        ELSE LET x == CHOOSE x \in here : TRUE IN new[x[1]][x[2]]]

(* What attention reads through the block table. *)
Loaded(cells, blocks, len) == [i \in 1 .. len |-> cells[Slot(blocks, i - 1)]]

(* remove_cache: PagedKVCache gives the blocks past the new length back;   *)
(* SharedPagedKVCache keeps them.                                          *)
Shrunk(p, c, len) ==
  LET blocks == BlocksOf(p, c) IN
    IF kind = "shared" \/ Len(blocks) <= Cover(len) THEN p
    ELSE [free  |-> p.free
                      \union Range(SubSeq(blocks, Cover(len) + 1, Len(blocks))),
          owned |-> Put(p.owned, c, SubSeq(blocks, 1, Cover(len)))]

(* free_blocks_for_request; a context without blocks is only reported. *)
FreeBlocks(p, c) ==
  [free |-> p.free \union Range(BlocksOf(p, c)),
   owned |-> Restrict(p.owned, DOMAIN p.owned \ {c})]

-----------------------------------------------------------------------------
TypeOK ==
  /\ kind \in {"shared", "own"}
  /\ DOMAIN max \subseteq Ctx /\ broken \subseteq DOMAIN max
  /\ DOMAIN seq_len = DOMAIN max
  /\ DOMAIN pools = {Home(c) : c \in DOMAIN max}
                      \union IF kind = "shared" THEN {Engine} ELSE {}
  /\ DOMAIN tensor = DOMAIN pools
  /\ forward.at \in 0 .. NumLayers /\ DOMAIN forward.new \subseteq DOMAIN max

Empty == [c \in {} |-> <<>>]

(* PagedCache.__init__ *)
Init ==
  /\ kind \in {"shared", "own"}
  /\ max = Empty /\ seq_len = Empty
  /\ pools = IF kind = "shared" THEN Put(Empty, Engine, NewPool(Blocks))
                                ELSE Empty
  /\ tensor = IF kind = "shared" THEN Put(Empty, Engine, NewTensor(Blocks))
                                 ELSE Empty
  /\ broken = {} /\ forward = Idle

(* Sequences with pools of their own share nothing: there is one of them. *)
Create(c, m) ==
  /\ c \notin DOMAIN max /\ (kind = "own" => max = Empty)
  /\ max' = Put(max, c, m) /\ seq_len' = Put(seq_len, c, 0)
  /\ IF kind = "shared" THEN UNCHANGED <<pools, tensor>>
     ELSE \E blocks \in kSubset(Cover(m), Blocks) :
            /\ pools' = Put(pools, c, NewPool(blocks))
            /\ tensor' = Put(tensor, c, NewTensor(blocks))
  /\ UNCHANGED <<kind, broken, forward>>

(* merge_contexts or build_prefill_metadata: the blocks, for one context   *)
(* after the other; then the slots and the new length of every context.    *)
(* Allocation raises at the first context that finds too few free blocks;  *)
(* those served before it keep theirs.                                     *)
Begin(batch, served) ==
  /\ forward = Idle
  /\ \E new \in [batch -> Entries], home \in {Home(c) : c \in batch} :
       LET need == [c \in batch |-> seq_len[c] + Len(new[c])]
           p == pools[home]
       IN /\ \A c \in batch : need[c] <= max[c]
          /\ \E take \in Injection(Wanted(p, served, need), p.free) :
               LET end == Granted(p, served, need, take) IN
                 /\ pools' = [pools EXCEPT ![home] = end]
                 /\ IF served = batch
                    THEN /\ seq_len' = [c \in DOMAIN seq_len |->
                              IF c \in batch THEN need[c] ELSE seq_len[c]]
                         /\ forward' = [at |-> 1, new |-> new]
                    ELSE /\ \E c \in batch \ served :
                              Missing(p, c, need[c]) > Cardinality(end.free)
                         /\ UNCHANGED <<seq_len, forward>>
  /\ UNCHANGED <<kind, max, tensor, broken>>

(* paged_attention_reshape_and_cache of one layer. *)
Layer ==
  /\ forward.at # 0
  /\ LET slots(c) ==
           LET n == Len(forward.new[c]) IN Slots(BlocksOf(Pool(c), c), seq_len[c] - n, n)
         Mine(h) == {c \in DOMAIN forward.new : Home(c) = h}
     IN tensor' = [h \in DOMAIN tensor |->
          [tensor[h] EXCEPT ![forward.at] =
             Stored(@, [c \in Mine(h) |-> slots(c)], forward.new)]]
  /\ forward' = IF forward.at = NumLayers THEN Idle
                                          ELSE [forward EXCEPT !.at = @ + 1]
  /\ UNCHANGED <<kind, max, seq_len, pools, broken>>

Abandon ==
  /\ forward # Idle
  /\ broken' = broken \union DOMAIN forward.new
  /\ forward' = Idle
  /\ UNCHANGED <<kind, max, seq_len, pools, tensor>>

Trim(c, n) ==
  /\ c \notin broken /\ forward = Idle /\ n <= seq_len[c]
  /\ seq_len' = [seq_len EXCEPT ![c] = @ - n]
  /\ pools' = [pools EXCEPT ![Home(c)] = Shrunk(@, c, seq_len[c] - n)]
  /\ UNCHANGED <<kind, max, tensor, broken, forward>>

(* remove_cache of the whole length, then remove_context. *)
RemoveContext(c) ==
  /\ forward = Idle
  /\ max' = Restrict(max, DOMAIN max \ {c})
  /\ seq_len' = Restrict(seq_len, DOMAIN seq_len \ {c})
  /\ IF kind = "shared"
     THEN pools' = [pools EXCEPT ![Engine] = FreeBlocks(@, c)] /\ UNCHANGED tensor
     ELSE /\ pools' = Restrict(pools, DOMAIN pools \ {c})
          /\ tensor' = Restrict(tensor, DOMAIN tensor \ {c})
  /\ broken' = broken \ {c}
  /\ UNCHANGED <<kind, forward>>

Next ==
  \/ \E c \in Ctx, m \in MaxLens : Create(c, m)
  \/ \E batch \in SUBSET (DOMAIN max \ broken) : \E served \in SUBSET batch :
       Begin(batch, served)
  \/ Layer \/ Abandon
  \/ \E c \in DOMAIN max :
       RemoveContext(c) \/ \E n \in 1 .. seq_len[c] : Trim(c, n)

Spec == Init /\ [][Next]_vars
-----------------------------------------------------------------------------
(* Every block of a pool is free or in the list of one context, once, and  *)
(* the lists are those of contexts alive: through growth, exhaustion in    *)
(* the middle of a batch, trims and removals no block is lost and none is  *)
(* given out twice.                                                        *)
Held(p, c) == Range(p.owned[c])
AllBlocks(p) == p.free \union UNION {Held(p, c) : c \in DOMAIN p.owned}

BlocksAccounted ==
  \A h \in DOMAIN pools :
    LET p == pools[h] IN
      /\ DOMAIN p.owned \subseteq {c \in DOMAIN max : Home(c) = h}
      /\ \A c \in DOMAIN p.owned :
           /\ IsInjective(p.owned[c]) /\ Held(p, c) \intersect p.free = {}
           /\ \A d \in DOMAIN p.owned \ {c} : Held(p, c) \intersect Held(p, d) = {}
      /\ \A l \in Layers : DOMAIN tensor[h][l] = AllBlocks(p) \X (0 .. BlockSize - 1)
      /\ IF h = Engine THEN AllBlocks(p) = Blocks
                       ELSE Cardinality(AllBlocks(p)) = Cover(max[h])

(* Layers the forward has not reached hold the old entries only, although  *)
(* seq_len already counts the new ones.                                    *)
Reached(c, l) ==
  IF c \in DOMAIN forward.new /\ l >= forward.at
  THEN seq_len[c] - Len(forward.new[c]) ELSE seq_len[c]

(* What attention finds through the block table. *)
View == [c \in DOMAIN max \ broken |-> [l \in Layers |->
           Loaded(tensor[Home(c)][l], BlocksOf(Pool(c), c), Reached(c, l))]]
=============================================================================
