------------------------------ MODULE SlabCache -----------------------------
(***************************************************************************)
(* SlabCache and SlabPoolManager (attention/slab/cache.py): one SlabPool   *)
(* per layer, here the lists of SlabStore with the blocks counted, and a   *)
(* sequence per context under the same id in every pool.  "eager" is the   *)
(* engine's cache, made at startup from kv_cache_memory_gb.  "lazy" is the *)
(* draft model's: a manager is made, and replaced, by create_context.      *)
(* Contexts keep the manager they were made with.                          *)
(***************************************************************************)
EXTENDS Naturals, Sequences, Functions, FiniteSetsExt

CONSTANTS Ctx, Entries, NumLayers, MaxLens, BlockSize,
          PoolTokens,  \* max_total_tokens of the eager manager
          MaxManagers  \* names for the managers that are referenced

VARIABLES kind,
          max_total_tokens, \* the keyword of a lazy cache, 0 before it is set
          managers, \* those referenced by the cache or by a context
          manager,  \* SlabCache._manager, 0 for None
          context,  \* a context: its manager and the length it was made for
          broken, forward,
          stuck     \* contexts whose remove_cache raised

vars == <<kind, max_total_tokens, managers, manager, context, broken, forward,
          stuck>>

Layers == 1 .. NumLayers
Idle == [at |-> 0, new |-> [c \in {} |-> <<>>]]
Empty == [c \in {} |-> <<>>]
Cover(n) == (n + BlockSize - 1) \div BlockSize
Put(f, c, v) == [d \in DOMAIN f \union {c} |-> IF d = c THEN v ELSE f[d]]

NewManager(tokens) == [tokens |-> tokens, pools |-> [l \in Layers |-> Empty]]
PoolsOf(c) == managers[context[c].of].pools

-----------------------------------------------------------------------------
(* SlabPoolManager                                                         *)

CreateSequence(m, c) ==
  [m EXCEPT !.pools = [l \in Layers |-> Put(@[l], c, <<>>)]]

(* cache_update of one layer finds the blocks it needs. *)
Fits(m, l, new) ==
  LET len(c) == Len(m.pools[l][c]) + IF c \in DOMAIN new THEN Len(new[c]) ELSE 0
  IN MapThenSumSet(LAMBDA c : Cover(len(c)), DOMAIN m.pools[l]) <= Cover(m.tokens)

UpdateLayer(m, l, new) ==
  [m EXCEPT !.pools[l] = [c \in DOMAIN @ |->
     IF c \in DOMAIN new THEN @[c] \o new[c] ELSE @[c]]]

(* truncate_sequence: pool after pool, up to one whose list is too short. *)
Truncated(pool, c, n) == [pool EXCEPT ![c] = SubSeq(@, 1, Len(@) - n)]
TruncateSequence(m, c, n) ==
  [m EXCEPT !.pools = [l \in Layers |->
     IF \A k \in 1 .. l : n <= Len(@[k][c]) THEN Truncated(@[l], c, n) ELSE @[l]]]

RemoveFromFirst(m, c) == \* mutant: only the pool of the first layer
  [m EXCEPT !.pools[1] = Restrict(@, DOMAIN @ \ {c})]
(* remove_sequence; an unknown token is ignored. *)
RemoveSequence(m, c) ==
  [m EXCEPT !.pools = [l \in Layers |-> Restrict(@[l], DOMAIN @[l] \ {c})]]

-----------------------------------------------------------------------------
TypeOK ==
  /\ kind \in {"eager", "lazy"}
  /\ DOMAIN context \subseteq Ctx /\ broken \subseteq DOMAIN context
  /\ stuck \subseteq Ctx \ DOMAIN context
  /\ manager \in {0} \union DOMAIN managers
  /\ \A c \in DOMAIN context : context[c].of \in DOMAIN managers
  /\ forward.at \in 0 .. NumLayers /\ DOMAIN forward.new \subseteq DOMAIN context

Init ==
  /\ kind \in {"eager", "lazy"}
  /\ max_total_tokens = 0
  /\ managers = IF kind = "eager" THEN Put(Empty, 1, NewManager(PoolTokens))
                                  ELSE Empty
  /\ manager = IF kind = "eager" THEN 1 ELSE 0
  /\ context = Empty /\ broken = {} /\ forward = Idle /\ stuck = {}

(* A manager lives as long as something refers to it. *)
Referenced(ms, current, ctxs) ==
  Restrict(ms, DOMAIN ms
                 \intersect ({current} \union {ctxs[c].of : c \in DOMAIN ctxs}))

(* needed_tokens of _ensure_manager, for one sequence. *)
NeededTokens(max) == Cover(max) * BlockSize * 2

(* _ensure_manager and create_sequence.  A manager that is too small is    *)
(* replaced by one of the size in the keyword arguments, which is twice    *)
(* the length of the first draft (create_draft_kv_cache), not of this one. *)
Create(c, max) ==
  /\ c \notin DOMAIN context \union stuck
  /\ LET tokens == IF max_total_tokens = 0 THEN max * 2 ELSE max_total_tokens
         keep == manager # 0 /\ (\/ kind = "eager"
                                 \/ managers[manager].tokens >= NeededTokens(max))
         names == 1 .. MaxManagers \ DOMAIN managers
     IN \E m \in IF keep THEN {manager} ELSE {n \in names : \A k \in names : n <= k} :
          /\ manager' = m
          /\ context' = Put(context, c, [of |-> m, max |-> max])
          /\ LET ms == IF keep THEN managers
                       ELSE Put(managers, m, NewManager(tokens))
             IN managers' = Referenced(Put(ms, m, CreateSequence(ms[m], c)),
                                       m, context')
          /\ max_total_tokens' = IF kind = "lazy" THEN tokens ELSE 0
  /\ UNCHANGED <<kind, broken, forward, stuck>>

(* merge_contexts; drafts are forwarded one at a time. *)
Batches == {b \in SUBSET (DOMAIN context \ broken) :
              b # {} /\ (kind = "lazy" => \E c \in b : b = {c})}

Begin(batch) ==
  /\ forward = Idle
  /\ \E new \in [batch -> Entries] :
       /\ \A c, d \in batch : Len(new[c]) = Len(new[d])
       /\ \A c \in batch :
            Len(PoolsOf(c)[1][c]) + Len(new[c]) <= context[c].max
       /\ forward' = [at |-> 1, new |-> new]
  /\ UNCHANGED <<kind, max_total_tokens, managers, manager, context, broken,
                 stuck>>

(* update_cache_batched, with the blocks it needs. *)
Layer ==
  /\ forward.at # 0
  /\ \E m \in {context[c].of : c \in DOMAIN forward.new} :
       /\ Fits(managers[m], forward.at, forward.new)
       /\ managers' =
            [managers EXCEPT ![m] = UpdateLayer(@, forward.at, forward.new)]
  /\ forward' = IF forward.at = NumLayers THEN Idle
                                          ELSE [forward EXCEPT !.at = @ + 1]
  /\ UNCHANGED <<kind, max_total_tokens, manager, context, broken, stuck>>

(* The model raised; for want of blocks, or for any other reason. *)
Abandon ==
  /\ forward # Idle
  /\ broken' = broken \union DOMAIN forward.new
  /\ forward' = Idle
  /\ UNCHANGED <<kind, max_total_tokens, managers, manager, context, stuck>>

Trim(c, n) ==
  /\ c \notin broken /\ forward = Idle /\ n <= Len(PoolsOf(c)[1][c])
  /\ managers' = [managers EXCEPT ![context[c].of] = TruncateSequence(@, c, n)]
  /\ UNCHANGED <<kind, max_total_tokens, manager, context, broken, forward,
                 stuck>>

(* remove_cache(len) and remove_context, as remove_sequences calls them.   *)
(* After a forward that was left between two layers the length of the      *)
(* first is too much for the others: remove_cache raises, remove_context   *)
(* is not reached, and the sequence stays in the pools.  remove_context    *)
(* asks the cache's manager of now, which may never have known it.         *)
RemoveContext(c) ==
  /\ forward = Idle
  /\ LET len == Len(PoolsOf(c)[1][c])
         short == \E l \in Layers : Len(PoolsOf(c)[l][c]) < len
         cut == [managers EXCEPT ![context[c].of] = TruncateSequence(@, c, len)]
     IN /\ context' = Restrict(context, DOMAIN context \ {c})
        /\ managers' = Referenced(
             IF short THEN cut ELSE [cut EXCEPT ![manager] = RemoveSequence(@, c)],
             manager, context')
        /\ stuck' = stuck \union
             IF short /\ context[c].of \in DOMAIN managers' THEN {c} ELSE {}
  /\ broken' = broken \ {c}
  /\ UNCHANGED <<kind, max_total_tokens, manager, forward>>

Next ==
  \/ \E c \in Ctx, max \in MaxLens : Create(c, max)
  \/ \E batch \in Batches : Begin(batch)
  \/ Layer \/ Abandon
  \/ \E c \in DOMAIN context :
       RemoveContext(c) \/ \E n \in 1 .. Len(PoolsOf(c)[1][c]) : Trim(c, n)

Spec == Init /\ [][Next]_vars
-----------------------------------------------------------------------------
(* The pools of the manager in use know, in every layer, the contexts made *)
(* with it that are alive and those whose removal raised, and nobody else: *)
(* after any mix of failures, trims and removals the blocks of the others  *)
(* are free again.                                                         *)
SequencesAccounted ==
  manager # 0 => \A l \in Layers :
    DOMAIN managers[manager].pools[l] \ stuck
      = {c \in DOMAIN context : context[c].of = manager}

(* The KVStore a slab cache stands for. *)
View ==
  [c \in DOMAIN context \ broken |-> [l \in Layers |-> PoolsOf(c)[l][c]]]
=============================================================================
