-------------------------- MODULE AttentionKernels --------------------------
(***************************************************************************)
(* How one attention call is cut into work items for the threads           *)
(* (slab_attention_avx512.cpp, prefill_attention.cpp), which entries of    *)
(* the cache the kernels of the items read, and which rows of the output   *)
(* they write.  The numbers that are computed are not modelled.            *)
(*                                                                         *)
(* A job has the tensor's query rows per sequence, each sequence's new     *)
(* tokens at the end of its rows and its length in the cache, the heads,   *)
(* the threads, the window and whether there are sinks.  Positions count   *)
(* from 0; position -1 is the sink.                                        *)
(***************************************************************************)
EXTENDS Integers, Sequences, FiniteSets

CONSTANTS Jobs,
          BlockSize, \* tokens in a block of the pool
          MtdMaxQ,   \* SLAB_MTD_MAX_Q
          QTile,     \* PACE_SLAB_PREFILL_Q_TILE, BMC_Q_TILE
          MaxSplits  \* splitk_max_splits

VARIABLES job, output
vars == <<job, output>>

Least(a, b) == IF a <= b THEN a ELSE b
Most(a, b) == IF a <= b THEN b ELSE a
Ceil(a, b) == (a + b - 1) \div b

Seqs(j) == DOMAIN j.q_len
QHeads(j) == j.num_kv * j.n_rep
NumBlocks(n) == Ceil(n, BlockSize)

-----------------------------------------------------------------------------
(* The kind of work of a sequence                                          *)

GqaItems(j) == j.num_kv * Cardinality({i \in Seqs(j) : j.q_len[i] = 1})

Splits(gqa_items, threads, blocks) ==
  Least((threads + gqa_items - 1) \div Most(gqa_items, 1), Least(blocks, MaxSplits))

(* Whether Split-K is chosen for a sequence with so many blocks. *)
SplitK(gqa_items, threads, blocks) ==
  /\ gqa_items >= threads \div 2
  /\ gqa_items < threads /\ blocks >= MaxSplits
  /\ Splits(gqa_items, threads, blocks) >= 4

NumSplits(j, i) == Splits(GqaItems(j), j.threads, NumBlocks(j.kv_len[i]))

Type(j, i) ==
  CASE j.bmc -> "PREFILL"
    [] ~j.bmc /\ j.q_len[i] = 1 ->
         IF j.n_rep <= 1 \/ GqaItems(j) < j.threads \div 2 THEN "DECODE_HEAD"
         ELSE IF SplitK(GqaItems(j), j.threads, NumBlocks(j.kv_len[i]))
         THEN "DECODE_SPLITK" ELSE "DECODE_GQA"
    [] ~j.bmc /\ j.q_len[i] # 1 ->
         IF j.q_len[i] <= MtdMaxQ THEN "MTD" ELSE "PREFILL"

(* The items of a sequence: the sequence, a head, and a row or tile. *)
WorkItems(j, i) ==
  LET count == CASE Type(j, i) = "DECODE_GQA" -> <<j.num_kv, 1>>
                 [] Type(j, i) = "DECODE_HEAD" -> <<QHeads(j), 1>>
                 [] Type(j, i) = "DECODE_SPLITK" -> <<j.num_kv, NumSplits(j, i)>>
                 [] Type(j, i) = "MTD" -> <<QHeads(j), j.q_len[i]>>
                 [] OTHER -> <<j.num_kv, Ceil(j.q_len[i], QTile)>>
  IN {<<i, h, n>> : h \in 0 .. count[1] - 1, n \in 0 .. count[2] - 1}

AllItems(j) == UNION {WorkItems(j, i) : i \in Seqs(j)}

QOffsetUnpadded(j, i) == (i - 1) * j.rows \* mutant: padding is not skipped
QOffset(j, i) == (i - 1) * j.rows + (j.rows - j.q_len[i])

-----------------------------------------------------------------------------
(* The kernels: positions read for the query at position q_pos             *)

InBlocks(first, last) == first * BlockSize .. last * BlockSize + BlockSize - 1

(* decode_one_head *)
DecodeReads(kv_len, window) ==
  LET start == IF window > 0 /\ kv_len > window
               THEN (kv_len - window) \div BlockSize ELSE 0
      q_pos == kv_len - 1
  IN {t \in InBlocks(start, NumBlocks(kv_len) - 1) :
        t < kv_len /\ ~(window > 0 /\ q_pos - t >= window)}

(* decode_gqa_group: the heads of a group in one pass over the same blocks. *)
GroupReads(kv_len, window) == DecodeReads(kv_len, window)

(* multi_token_decode_one_row *)
MtdReads(kv_len, q_pos, window) ==
  LET cut == window > 0 /\ q_pos >= window
      from == IF cut THEN q_pos - window + 1 ELSE 0
      block(b) == LET start == b * BlockSize
                      valid == Least(Least(BlockSize, kv_len - start),
                                     q_pos - start + 1)
                  IN IF start > q_pos THEN {}
                     ELSE Most(start, from) .. start + valid - 1
  IN UNION {block(b) : b \in from \div BlockSize .. NumBlocks(kv_len) - 1}

(* prefill_tile, for a row of tile n: no mask for blocks that lie before   *)
(* all rows of the tile.                                                   *)
TileReads(kv_len, q_len, n, q_pos, window) ==
  LET behind == kv_len - Least(q_len, kv_len)
      least == n * QTile + behind
      greatest == Least((n + 1) * QTile, q_len) - 1 + behind
      first == IF window > 0 /\ least >= window
               THEN (least - window + 1) \div BlockSize ELSE 0
      block(b) ==
        LET start == b * BlockSize
            tokens == Least(BlockSize, kv_len - start)
            unmasked == start + tokens - 1 <= least /\ tokens = BlockSize
        IN {t \in start .. start + tokens - 1 :
              \/ unmasked /\ window = 0
              \/ t <= q_pos /\ (window = 0 \/ q_pos - t < window)}
  IN UNION {block(b) : b \in {x \in first .. NumBlocks(kv_len) - 1 :
                                x * BlockSize <= greatest}}

(* bmc_prefill_tile: the same without a window, over contiguous rows. *)
BmcTileReads(q_len, n, q_pos) == TileReads(q_len, q_len, n, q_pos, 0)

(* dispatch_one: the rows and heads an item writes, with what it read for  *)
(* them.  The entries of the contiguous prefill are those of the rows.     *)
(* A Split-K row is never chosen (NoSplitK in AttentionKernelsProofs); its *)
(* parts are in OnlineSoftmax.                                             *)
Written(j, item) ==
  LET i == item[1]
      aq == Least(j.q_len[i], j.kv_len[i])
      reps == item[2] * j.n_rep .. (item[2] + 1) * j.n_rep - 1
      heads == IF Type(j, i) \in {"DECODE_HEAD", "MTD"} THEN {item[2]} ELSE reps
      rows == CASE Type(j, i) = "MTD" -> {item[3]} \intersect 0 .. aq - 1
                [] Type(j, i) = "PREFILL" ->
                     item[3] * QTile .. Least((item[3] + 1) * QTile, aq) - 1
                [] OTHER -> {0}
      q_pos(r) == r + j.kv_len[i] - aq
      reads(r) ==
        CASE Type(j, i) = "MTD" -> MtdReads(j.kv_len[i], q_pos(r), j.window)
          [] j.bmc -> BmcTileReads(j.q_len[i], item[3], q_pos(r))
          [] ~j.bmc /\ Type(j, i) = "PREFILL" ->
               TileReads(j.kv_len[i], j.q_len[i], item[3], q_pos(r), j.window)
          [] Type(j, i) = "DECODE_HEAD" -> DecodeReads(j.kv_len[i], j.window)
          [] OTHER -> GroupReads(j.kv_len[i], j.window)
  IN IF j.kv_len[i] = 0 THEN {}
     ELSE {[row |-> QOffset(j, i) + r, head |-> h, item |-> item,
            kv_head |-> IF heads = reps THEN item[2] ELSE h \div j.n_rep,
            read |-> reads(r) \union IF j.sinks THEN {-1} ELSE {}] :
             r \in rows, h \in heads}

Init == job \in Jobs /\ output = {}

(* The parallel region; rows nobody writes are zero. *)
Dispatch ==
  /\ output = {}
  /\ output' = UNION {Written(job, item) : item \in AllItems(job)}
  /\ UNCHANGED job

Spec == Init /\ [][Dispatch]_vars
-----------------------------------------------------------------------------
(* The row of a query of a sequence, and what it is to attend to.          *)
Expected(i, r) ==
  LET q_pos == job.kv_len[i] - job.q_len[i] + r IN
    {t \in 0 .. q_pos : job.window = 0 \/ q_pos - t < job.window}
      \union IF job.sinks THEN {-1} ELSE {}

(* Whatever kernel is chosen for a sequence, every query row of every head *)
(* is computed by exactly one work item, from the key/value head of its    *)
(* group and exactly the positions up to its own that are inside the       *)
(* window; padding rows are nobody's.                                      *)
WorkDoneOnce ==
  output # {} =>
    LET real == {<<i, r>> : i \in Seqs(job), r \in 0 .. job.rows - 1}
        query(i, r) == r - (job.rows - job.q_len[i])
    IN \A p \in real, h \in 0 .. QHeads(job) - 1 :
         LET done == {w \in output : w.row = (p[1] - 1) * job.rows + p[2]
                                       /\ w.head = h}
         IN IF query(p[1], p[2]) < 0 THEN done = {}
            ELSE /\ Cardinality(done) = 1
                 /\ \A w \in done : /\ w.kv_head = h \div job.n_rep
                                    /\ w.read = Expected(p[1], query(p[1], p[2]))
=============================================================================
