---------------------------- MODULE AttentionMask ----------------------------
(***************************************************************************)
(* The masks of the contiguous backend (attention/contiguous/backend.py):  *)
(* which entries of a cache each query attends to.  MaskCache is one pool  *)
(* of buffers for all layers and requests, least recently used first; a    *)
(* buffer with other contents is rewritten in place.  A forward of several *)
(* contexts makes all its masks before any of them is used.                *)
(*                                                                         *)
(* Columns of a cache tensor are numbered from 1; column 0 of what a query *)
(* attends to is the attention sink.                                       *)
(***************************************************************************)
EXTENDS Integers, Sequences, FiniteSets, Functions, SequencesExt

CONSTANTS Ctx,
          Setups,         \* the engines: cache, jit, windows, sinks, offline,
                          \* and entries, PACE_MASK_CACHE_MAX_ENTRIES
          MaxLen,         \* entries of a context
          SegmentColumns, \* columns of a BMC segment
          Draft,          \* tokens of a speculative round after the first
          BrgemmMin       \* the least query length of the BRGeMM prefill

VARIABLES setup,
          cache,    \* the contexts: entries, columns, columns ever written,
                    \* and the left padding of the rows
          pool,     \* _pool: keys, contents and buffers, oldest first
          buffers,  \* what is in the buffers that are referred to
          forward,  \* the batch in order, its query length, the layers done
          attended  \* what the queries of the last of them attended to

vars == <<setup, cache, pool, buffers, forward, attended>>

Idle == [batch |-> <<>>, q |-> 0, at |-> 0]
Nothing == [c \in {} |-> <<>>]
LayerCount == Len(setup.windows)
Resting == forward = Idle \/ forward.at = LayerCount
Rows(c) == DOMAIN cache[c].pads
Pad(c, b) == cache[c].pads[b]
TrailingPad(c) == cache[c].columns - cache[c].len
HasLeadingPad(c) == \E b \in Rows(c) : Pad(c, b) > 0

-----------------------------------------------------------------------------
(* MaskCache.get writes the visible columns of every query.                *)

Outside(c, i, window, k) ==
  LET dist == cache[c].columns - forward.q + i - k IN
    window > 0 /\ (dist < 0 \/ dist >= window)

Visible(c, window) ==
  [b \in Rows(c) |-> [i \in 1 .. forward.q |->
     {k \in 1 .. cache[c].columns :
        /\ k <= cache[c].len - forward.q + i
        /\ ~Outside(c, i, window, k)
        /\ k > Pad(c, b)}]]

(* The token of a context in a server, nothing offline. *)
OwnerIgnored(c) == "" \* mutant: the buffers are not kept apart by request
Owner(c) == IF setup.offline THEN "" ELSE c

PoolKey(c) == <<Len(cache[c].pads), forward.q, cache[c].columns, Owner(c)>>
ContentKey(c, window) ==
  <<cache[c].len, window, IF HasLeadingPad(c) THEN cache[c].pads ELSE <<>>>>

(* s has the pool, the buffers and the masks of the batch so far.  A hit   *)
(* is the same buffer as it is; a miss rewrites the buffer of the key, or  *)
(* a new one, and the oldest entries beyond the limit leave the pool.      *)
Get(s, c, window) ==
  LET key == PoolKey(c)
      content == ContentKey(c, window)
      found == {n \in DOMAIN s.pool : s.pool[n].key = key}
      at == CHOOSE n \in found : TRUE
      others == IF found = {} THEN s.pool ELSE RemoveAt(s.pool, at)
      used == {e.buf : e \in Range(s.pool)} \union Range(s.masks)
      buf == IF found # {} THEN s.pool[at].buf
             ELSE CHOOSE n \in 1 .. Cardinality(used) + 1 : n \notin used
      hit == found # {} /\ s.pool[at].content = content
      all == Append(others, [key |-> key, content |-> content, buf |-> buf])
  IN [pool |-> IF Len(all) > setup.entries THEN Tail(all) ELSE all,
      buffers |-> IF hit THEN s.buffers
                  ELSE [n \in DOMAIN s.buffers \union {buf} |->
                          IF n = buf THEN Visible(c, window) ELSE s.buffers[n]],
      masks |-> Append(s.masks, buf)]

-----------------------------------------------------------------------------
(* ContiguousAttentionBackend                                              *)

NeedsMask(c, window) ==
  \/ TrailingPad(c) > 0 \/ HasLeadingPad(c)
  \/ window > 0 \/ setup.sinks
  \/ forward.q > 1 /\ setup.jit

(* The server's decode hands over a list of caches, one row each. *)
IsList == ~setup.offline /\ \E c \in Range(forward.batch) : cache[c].len > forward.q

(* dtype is bfloat16. *)
CanUseBrgemm(window) ==
  ~IsList /\ forward.q >= BrgemmMin /\ ~setup.sinks /\ window = 0

(* _extract_seq_ranges and prefill_attention: every row by itself. *)
Brgemm(c) ==
  [b \in Rows(c) |-> [i \in 1 .. forward.q |->
     IF i <= Pad(c, b) THEN {} ELSE Pad(c, b) + 1 .. i]]

(* No mask: a single query sees every column, several are taken as the     *)
(* first positions of the tensor (is_causal).                              *)
Unmasked(c) ==
  [b \in Rows(c) |-> [i \in 1 .. forward.q |->
     1 .. IF forward.q > 1 THEN i ELSE cache[c].columns]]

(* _apply_sink_to_kv: the last column becomes the sink when it is masked   *)
(* for the last query, and keeps the key it has; otherwise there is a new  *)
(* column.                                                                 *)
WithSink(c, mask) ==
  LET last == cache[c].columns
      reuse == last \notin mask[1][forward.q]
      stale == reuse /\ cache[c].written = last
  IN [b \in Rows(c) |-> [i \in 1 .. forward.q |->
        mask[b][i] \union {0} \union IF stale THEN {last} ELSE {}]]

-----------------------------------------------------------------------------
Init ==
  /\ setup \in Setups
  /\ cache = Nothing /\ pool = <<>> /\ buffers = <<>>
  /\ forward = Idle /\ attended = Nothing

(* create_context, for one row, or offline for a padded batch. *)
Create(c, pads) ==
  /\ Resting /\ c \notin DOMAIN cache
  /\ ~setup.offline => pads = <<0>>
  /\ cache' = [d \in DOMAIN cache \union {c} |-> IF d = c
       THEN [len |-> 0, columns |-> 0, written |-> 0, pads |-> pads] ELSE cache[d]]
  /\ forward' = Idle /\ attended' = Nothing
  /\ UNCHANGED <<setup, pool, buffers>>

(* update_cache of a context, in every layer before its attention. *)
Updated(d, q) ==
  LET len == d.len + q
      segments == (len + SegmentColumns - 1) \div SegmentColumns
      columns == IF setup.cache = "dynamic" THEN len
                 ELSE IF len <= d.columns THEN d.columns
                 ELSE segments * SegmentColumns
  IN [d EXCEPT !.len = len, !.columns = columns,
        !.written = IF @ < len THEN len ELSE @]

(* Prefill goes one context at a time; the decode of a server takes        *)
(* several, with 1 query each, or the draft tokens as well to verify them. *)
Begin(batch, q) ==
  /\ Resting
  /\ \A c \in Range(batch) :
       /\ cache[c].len + q <= MaxLen
       /\ cache[c].len = 0 => Len(batch) = 1 /\ \A b \in Rows(c) : Pad(c, b) < q
       /\ cache[c].len > 0 => q \in {1, 1 + Draft}
  /\ setup.offline => Len(batch) = 1
  /\ cache' = [c \in DOMAIN cache |->
       IF c \in Range(batch) THEN Updated(cache[c], q) ELSE cache[c]]
  /\ forward' = [batch |-> batch, q |-> q, at |-> 0]
  /\ attended' = Nothing
  /\ UNCHANGED <<setup, pool, buffers>>

(* The masks of the batch, one after the other. *)
Made(window) ==
  LET made[n \in 0 .. Len(forward.batch)] ==
        IF n = 0 THEN [pool |-> pool, buffers |-> buffers, masks |-> <<>>]
        ELSE IF NeedsMask(forward.batch[n], window)
             THEN Get(made[n - 1], forward.batch[n], window)
             ELSE [made[n - 1] EXCEPT !.masks = Append(@, 0)]
  IN made

(* forward or _forward_list of one layer: the masks, then the attention.   *)
Layer ==
  /\ ~Resting
  /\ LET window == setup.windows[forward.at + 1]
         end == Made(window)[IF CanUseBrgemm(window) THEN 0 ELSE Len(forward.batch)]
         Attention(n) ==
           LET c == forward.batch[n]
               mask == end.buffers[end.masks[n]]
           IN IF CanUseBrgemm(window) THEN Brgemm(c)
              ELSE IF end.masks[n] = 0 THEN Unmasked(c)
              ELSE IF setup.sinks THEN WithSink(c, mask) ELSE mask
     IN /\ pool' = end.pool
        /\ buffers' = Restrict(end.buffers, {e.buf : e \in Range(end.pool)})
        /\ attended' = [c \in Range(forward.batch) |->
             Attention(CHOOSE n \in DOMAIN forward.batch : forward.batch[n] = c)]
  /\ forward' = [forward EXCEPT !.at = @ + 1]
  /\ UNCHANGED <<setup, cache>>

(* remove_cache of a context: BMC keeps the columns and what is in them. *)
Trimmed(d, n) ==
  IF setup.cache = "dynamic"
  THEN [d EXCEPT !.len = @ - n, !.columns = @ - n, !.written = @ - n]
  ELSE [d EXCEPT !.len = @ - n]

Trim(c, n) ==
  /\ Resting /\ n <= cache[c].len
  /\ cache' = [cache EXCEPT ![c] = Trimmed(@, n)]
  /\ forward' = Idle /\ attended' = Nothing
  /\ UNCHANGED <<setup, pool, buffers>>

RemoveContext(c) ==
  /\ Resting
  /\ cache' = Restrict(cache, DOMAIN cache \ {c})
  /\ forward' = Idle /\ attended' = Nothing
  /\ UNCHANGED <<setup, pool, buffers>>

Next ==
  \/ Layer
  \/ \E c \in Ctx, pads \in {<<0>>, <<1, 0>>} : Create(c, pads)
  \/ \E some \in SUBSET DOMAIN cache \ {{}}, q \in 1 .. BrgemmMin :
       \E batch \in SetToSeqs(some) : Begin(batch, q)
  \/ \E c \in DOMAIN cache : RemoveContext(c) \/ \E n \in 1 .. Draft : Trim(c, n)

Spec == Init /\ [][Next]_vars
-----------------------------------------------------------------------------
TypeOK ==
  /\ setup \in Setups /\ DOMAIN cache \subseteq Ctx
  /\ \A c \in DOMAIN cache :
       /\ cache[c].len \in 0 .. MaxLen
       /\ cache[c].len <= cache[c].written /\ cache[c].written <= cache[c].columns
  /\ Len(pool) <= setup.entries
  /\ IsInjective([n \in DOMAIN pool |-> pool[n].key])
  /\ DOMAIN buffers = {e.buf : e \in Range(pool)}

(* The entries a query is to attend to: its own position and those before  *)
(* it that are no padding and inside the window, and the sink.             *)
Expected(c, b, i, window) ==
  LET position == cache[c].len - forward.q + i IN
    {k \in Pad(c, b) + 1 .. position : window = 0 \/ position - k < window}
      \union IF setup.sinks THEN {0} ELSE {}

AttendsRight(c) ==
  \A b \in Rows(c), i \in 1 .. forward.q :
    cache[c].len - forward.q + i > Pad(c, b) =>
      attended[c][b][i] = Expected(c, b, i, setup.windows[forward.at])

(* Every query attends to exactly the entries it should, in every layer    *)
(* and however the mask buffers are shared and written again.              *)
AttendsExactly ==
  forward.at > 0 => \A c \in Range(forward.batch) : AttendsRight(c)

(* The three cases the masks get wrong: the window is counted from the end *)
(* of the columns, not of the entries; SDPA without a mask takes the       *)
(* queries for the first positions; a column that becomes the sink still   *)
(* has the key of an entry that was removed.                               *)
WindowOfColumns(c) == setup.windows[forward.at] > 0 /\ TrailingPad(c) > 0
FirstPositions(c) ==
  ~NeedsMask(c, setup.windows[forward.at]) /\ 1 < forward.q /\ forward.q < cache[c].len
StaleSink(c) ==
  setup.sinks /\ TrailingPad(c) > 0 /\ cache[c].written = cache[c].columns

(* Outside these cases every query attends to exactly what it should.      *)
AttendsExactlyElsewhere ==
  forward.at > 0 => \A c \in Range(forward.batch) :
    WindowOfColumns(c) \/ FirstPositions(c) \/ StaleSink(c) \/ AttendsRight(c)
=============================================================================
