---------------------------- MODULE PaceKVCache -----------------------------
(***************************************************************************)
(* The vLLM plug-in (packages/pace_vllm): vLLM's scheduler decides which   *)
(* requests start, are preempted, end and compute tokens; PaceModelRunner  *)
(* tells PaceKVCache, one SlabPool per layer, and PaceAttentionImpl adds   *)
(* the new entries layer by layer.  A pool is taken for what SlabStore     *)
(* says of it; its blocks are only counted.                                *)
(*                                                                         *)
(* A layer may be a follower that shares the pool of another one (its      *)
(* target).  A call that raises ends the worker: dead.                     *)
(***************************************************************************)
EXTENDS Integers, Sequences, FiniteSets, Functions, FiniteSetsExt

CONSTANTS Ctx,       \* requests
          Setups,    \* the layers: their targets and bytes per token
          BlockSize, \* slab_autotune_block_size
          Budget,    \* kv_cache_memory_bytes
          Entries,   \* the lists of entries a step may bring for a request
          MaxLen     \* max_model_len

VARIABLES setup,
          pools,     \* pools[l][r]: what the pool of layer l holds for r
          scheduled, \* what is still to do of a SchedulerOutput
          forward,   \* the next layer and the new entries per request
          dead

vars == <<setup, pools, scheduled, forward, dead>>

Layers == DOMAIN setup.target
Idle == [at |-> 0, new |-> [c \in {} |-> <<>>]]
Nothing == [new |-> {}, preempted |-> {}, finished |-> {}, batch |-> Idle.new]

(* Followers have no pool of their own. *)
Owners(s) == {l \in DOMAIN s.target : s.target[l] = l}
Requests == DOMAIN pools[Min(Owners(setup))]

-----------------------------------------------------------------------------
(* Sizing: as many blocks for every pool as the budget has of one each.    *)

BytesPerBlock(s) == MapThenSumSet(LAMBDA l : s.bytes[l] * BlockSize, Owners(s))
NumBlocks == Budget \div BytesPerBlock(setup)
BlocksFor(n) == (n + BlockSize - 1) \div BlockSize

(* Chained sharing, an unknown target and a budget below one block raise. *)
Starts(s) ==
  /\ \A l \in DOMAIN s.target : s.target[l] \in Owners(s)
  /\ Budget >= BytesPerBlock(s)

Init ==
  /\ setup \in {s \in Setups : Starts(s)}
  /\ pools = [l \in Owners(setup) |-> Idle.new]
  /\ scheduled = Nothing /\ forward = Idle /\ dead = FALSE

-----------------------------------------------------------------------------
(* vLLM's scheduler: a request starts once it is not known, and whoever    *)
(* computes is neither preempted nor at its end.                           *)
Schedule ==
  /\ scheduled = Nothing /\ forward = Idle /\ ~dead
  /\ \E new \in SUBSET (Ctx \ Requests), preempted \in SUBSET Requests,
        finished \in SUBSET Requests :
       \E batch \in SUBSET ((new \union Requests) \ (preempted \union finished)) :
         \E entries \in [batch -> Entries] :
           /\ preempted \intersect finished = {}
           /\ new \subseteq batch
           /\ \A r \in batch \intersect Requests :
                Len(pools[Min(Owners(setup))][r]) + Len(entries[r]) <= MaxLen
           /\ scheduled' = [new |-> new, preempted |-> preempted,
                            finished |-> finished, batch |-> entries]
  /\ UNCHANGED <<setup, pools, forward, dead>>

(* _update_states: create_sequence in every pool, *)
CreateSequence(r) ==
  /\ r \in scheduled.new /\ ~dead
  /\ pools' = IF r \in Requests THEN pools
              ELSE [l \in Owners(setup) |->
                      [q \in Requests \union {r} |->
                         IF q = r THEN <<>> ELSE pools[l][q]]]
  /\ scheduled' = [scheduled EXCEPT !.new = @ \ {r}]
  /\ UNCHANGED <<setup, forward, dead>>

(* then reset_sequence: every pool is truncated by the length of the first *)
(* one, and truncate_sequence raises when its own is shorter,              *)
ResetSequence(r) ==
  LET first == Min(Owners(setup))
      n == Len(pools[first][r])
      raises == \E l \in Owners(setup) : Len(pools[l][r]) < n
  IN /\ scheduled.new = {} /\ r \in scheduled.preempted /\ ~dead
     /\ IF raises THEN dead' = TRUE /\ UNCHANGED pools
        ELSE /\ pools' = [l \in Owners(setup) |->
                  [pools[l] EXCEPT ![r] = SubSeq(@, 1, Len(@) - n)]]
             /\ UNCHANGED dead
     /\ scheduled' = [scheduled EXCEPT !.preempted = @ \ {r}]
     /\ UNCHANGED <<setup, forward>>

(* then remove_sequence. *)
RemoveSequence(r) ==
  /\ scheduled.new = {} /\ scheduled.preempted = {}
  /\ r \in scheduled.finished /\ ~dead
  /\ pools' = [l \in Owners(setup) |-> Restrict(pools[l], Requests \ {r})]
  /\ scheduled' = [scheduled EXCEPT !.finished = @ \ {r}]
  /\ UNCHANGED <<setup, forward, dead>>

UpdateStates ==
  \E r \in Ctx : CreateSequence(r) \/ ResetSequence(r) \/ RemoveSequence(r)

(* PaceAttentionMetadataBuilder.build: a request without a sequence raises.*)
Build ==
  /\ scheduled = [Nothing EXCEPT !.batch = scheduled.batch]
  /\ DOMAIN scheduled.batch # {} /\ forward = Idle /\ ~dead
  /\ IF DOMAIN scheduled.batch \subseteq Requests
     THEN forward' = [at |-> 1, new |-> scheduled.batch] /\ UNCHANGED dead
     ELSE dead' = TRUE /\ UNCHANGED forward
  /\ scheduled' = Nothing
  /\ UNCHANGED <<setup, pools>>

(* PaceAttentionImpl.forward: cache_update in the pool of the layer, which *)
(* raises when it has too few blocks, and attention over what it has.      *)
Layer ==
  LET owner == setup.target[forward.at]
      held(r) == pools[owner][r]
                   \o IF r \in DOMAIN forward.new THEN forward.new[r] ELSE <<>>
      blocks == MapThenSumSet(LAMBDA r : BlocksFor(Len(held(r))), Requests)
  IN /\ forward # Idle /\ ~dead
     /\ IF blocks > NumBlocks
        THEN dead' = TRUE /\ UNCHANGED <<pools, forward>>
        ELSE /\ pools' = [pools EXCEPT ![owner] = [r \in Requests |-> held(r)]]
             /\ forward' = IF forward.at = Len(setup.target) THEN Idle
                           ELSE [forward EXCEPT !.at = @ + 1]
             /\ UNCHANGED dead
     /\ UNCHANGED <<setup, scheduled>>

Next == Schedule \/ UpdateStates \/ Build \/ Layer

Spec == Init /\ [][Next]_vars
-----------------------------------------------------------------------------
(* What attention reads in layer l. *)
View == [r \in Requests |-> [l \in Layers |-> pools[setup.target[l]][r]]]

TypeOK ==
  /\ \A l \in Owners(setup) : DOMAIN pools[l] = Requests
  /\ scheduled.batch \in UNION {[s -> Entries] : s \in SUBSET Ctx}
  /\ dead \in BOOLEAN
=============================================================================
