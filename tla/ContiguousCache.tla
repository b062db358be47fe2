--------------------------- MODULE ContiguousCache --------------------------
(***************************************************************************)
(* The contiguous caches (attention/contiguous/cache.py): one tensor per   *)
(* context and layer.  "dynamic" holds exactly what was written.  "bmc"    *)
(* allocates by segments: past seq_len its tensor holds zeros, or entries  *)
(* that were removed.  Keys and values are stored alike; <<>> is None.     *)
(***************************************************************************)
EXTENDS Naturals, Sequences, Functions, FiniteSets

CONSTANTS Ctx, Entries, NumLayers,
          MaxLens, \* the max_seq_length of a context
          Zero     \* the initial contents of a tensor

VARIABLES kind,    \* the cache type of the engine
          objects, \* objects[c][l]: the cache object
          broken,  \* contexts whose forward raised, until they are removed
          forward  \* the next layer and the new entries per context

vars == <<kind, objects, broken, forward>>

Layers == 1 .. NumLayers
Idle == [at |-> 0, new |-> [c \in {} |-> <<>>]]

(* int(math.sqrt(n)) is the default of PACE_BMC_NUM_SPLITS. *)
NumSplits(n) == CHOOSE s \in 0 .. n : s * s <= n /\ n < (s + 1) * (s + 1)
TokensPerSplit(max) == max \div NumSplits(max)

NewObject(max) == [key |-> <<>>, seq_len |-> 0, max |-> max]

(* _create_new_segment: whole segments, the old tensor copied. *)
Grown(o, len) ==
  LET split == TokensPerSplit(o.max)
      size == ((len - 1) \div split + 1) * split
  IN
    IF len <= Len(o.key) THEN o.key
    ELSE o.key \o [i \in 1 .. size - Len(o.key) |-> Zero]

WriteAtEnd(key, at, new) == \* mutant: at the tensor's end, not at seq_len
  [i \in 1 .. Len(key) |->
     IF i > Len(key) - Len(new) THEN new[i - Len(key) + Len(new)] ELSE key[i]]

(* key.narrow(at, n).copy_(new) *)
Write(key, at, new) ==
  [i \in 1 .. Len(key) |->
     IF i > at /\ i <= at + Len(new) THEN new[i - at] ELSE key[i]]

Update(o, new) ==
  LET len == o.seq_len + Len(new) IN
    [o EXCEPT !.seq_len = len,
       !.key = IF kind = "bmc" THEN Write(Grown(o, len), o.seq_len, new)
                               ELSE @ \o new]

RemoveCache(o, n) ==
  [o EXCEPT !.seq_len = @ - n,
     !.key = IF kind = "bmc" THEN @ ELSE SubSeq(@, 1, o.seq_len - n)]

(* What the mask leaves of the tensor. *)
Held(o) == SubSeq(o.key, 1, o.seq_len)

TypeOK ==
  /\ kind \in {"dynamic", "bmc"}
  /\ DOMAIN objects \subseteq Ctx /\ broken \subseteq DOMAIN objects
  /\ \A c \in DOMAIN objects : \A l \in Layers :
       objects[c][l].seq_len \in 0 .. Len(objects[c][l].key)
  /\ forward.at \in 0 .. NumLayers

Init ==
  /\ kind \in {"dynamic", "bmc"}
  /\ objects = [c \in {} |-> <<>>] /\ broken = {} /\ forward = Idle

(* create_context *)
Create(c, max) ==
  /\ c \notin DOMAIN objects
  /\ objects' = [d \in DOMAIN objects \union {c} |->
       IF d = c THEN [l \in Layers |-> NewObject(max)] ELSE objects[d]]
  /\ UNCHANGED <<kind, broken, forward>>

(* merge_contexts: the list of the contexts; each brings as many tokens.   *)
(* The caller keeps a sequence within its max_seq_length.                  *)
Begin(batch) ==
  /\ forward = Idle
  /\ \E new \in [batch -> Entries] :
       /\ \A c, d \in batch : Len(new[c]) = Len(new[d])
       /\ \A c \in batch :
            objects[c][1].seq_len + Len(new[c]) <= objects[c][1].max
       /\ forward' = [at |-> 1, new |-> new]
  /\ UNCHANGED <<kind, objects, broken>>

(* ContiguousAttentionBackend.forward updates each cache of the layer. *)
Layer ==
  /\ forward.at # 0
  /\ objects' = [c \in DOMAIN objects |->
       IF c \in DOMAIN forward.new
       THEN [objects[c] EXCEPT ![forward.at] = Update(@, forward.new[c])]
       ELSE objects[c]]
  /\ forward' = IF forward.at = NumLayers THEN Idle
                                          ELSE [forward EXCEPT !.at = @ + 1]
  /\ UNCHANGED <<kind, broken>>

Abandon ==
  /\ forward # Idle
  /\ broken' = broken \union DOMAIN forward.new
  /\ forward' = Idle
  /\ UNCHANGED <<kind, objects>>

(* KVCacheManager.remove_cache *)
Trim(c, n) ==
  /\ c \notin broken /\ forward = Idle
  /\ n <= objects[c][1].seq_len
  /\ objects' = [objects EXCEPT ![c] = [l \in Layers |-> RemoveCache(@[l], n)]]
  /\ UNCHANGED <<kind, broken, forward>>

(* The engine drops the context, whether remove_cache raised or not. *)
RemoveContext(c) ==
  /\ forward = Idle
  /\ objects' = Restrict(objects, DOMAIN objects \ {c})
  /\ broken' = broken \ {c}
  /\ UNCHANGED <<kind, forward>>

Next ==
  \/ \E c \in Ctx, max \in MaxLens : Create(c, max)
  \/ \E batch \in SUBSET (DOMAIN objects \ broken) \ {{}} : Begin(batch)
  \/ Layer \/ Abandon
  \/ \E c \in DOMAIN objects :
       RemoveContext(c) \/ \E n \in 1 .. objects[c][1].seq_len : Trim(c, n)

Spec == Init /\ [][Next]_vars
-----------------------------------------------------------------------------
(* The KVStore a contiguous cache stands for. *)
View ==
  [c \in DOMAIN objects \ broken |-> [l \in Layers |-> Held(objects[c][l])]]
=============================================================================
