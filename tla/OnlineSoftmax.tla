--------------------------- MODULE OnlineSoftmax ---------------------------
(***************************************************************************)
(* One output row of one attention kernel, block by block: the softmax is  *)
(* computed without ever holding all scores, by keeping the greatest score *)
(* so far, the sum of the weights and the weighted sum of the values, both *)
(* relative to that score, and correcting the two when it grows.           *)
(*                                                                         *)
(* exp is a power of two, and the weights are integers, 1 being Scale; a   *)
(* score is a natural number or NegInf.  The weighted sum of the values is *)
(* kept as the weight of every position.  Rounding is left out, and with   *)
(* it the packing of operands for the matrix kernels.                      *)
(***************************************************************************)
EXTENDS AttentionKernels, FiniteSetsExt

CONSTANTS Rows, Scale

VARIABLE row

NegInf == -1
NoSink == -1

(* EXP_APPROX: exp(s - m); -inf, and all that is below -88, has weight 0. *)
Exp(s, m) == IF s = NegInf THEN 0 ELSE Scale \div 2^(m - s)

Tiled(r) == r.kernel \in {"prefill", "bmc"}
SplitRow(r) == r.kernel = "splitk"

(* The positions whose scores are not masked, and the blocks visited: from *)
(* the window of the first row of the tile to the last row.                *)
Read(r) ==
  CASE r.kernel \in {"decode", "splitk"} -> DecodeReads(r.kv_len, r.window)
    [] r.kernel = "mtd" -> MtdReads(r.kv_len, r.q_pos, r.window)
    [] r.kernel = "prefill" -> TileReads(r.kv_len, r.q_len, r.tile, r.q_pos, r.window)
    [] OTHER -> BmcTileReads(r.q_len, r.tile, r.q_pos)
LeastPos(r) == IF Tiled(r) THEN r.tile * QTile + r.kv_len - r.q_len ELSE r.q_pos
GreatestPos(r) ==
  IF Tiled(r) THEN Least((r.tile + 1) * QTile, r.q_len) - 1 + r.kv_len - r.q_len
  ELSE r.q_pos
Visited(r) ==
  LET first == IF r.window > 0 /\ LeastPos(r) >= r.window
               THEN (LeastPos(r) - r.window + 1) \div BlockSize ELSE 0
  IN {b \in first .. NumBlocks(r.kv_len) - 1 : b * BlockSize <= GreatestPos(r)}

(* Split-K cuts the blocks of a row into r.splits parts; the last may be    *)
(* short or empty.                                                         *)
PartBlocks(r, n) ==
  LET per == Ceil(NumBlocks(r.kv_len), r.splits)
  IN n * per .. Least((n + 1) * per, NumBlocks(r.kv_len)) - 1

(* The buffers of a tile belong to the thread and hold what the last tile  *)
(* left in them; the running values start anew, from the sink if it has    *)
(* one.  A bias of 0.0 is taken for no sink, and a part of a Split-K row   *)
(* has none.                                                               *)
Zeros(r) == [p \in 0 .. r.kv_len - 1 |-> 0]
InitTile(r) ==
  [job |-> r, block |-> 0, parts |-> <<>>,
   max |-> IF SplitRow(r) THEN NegInf ELSE r.sink,
   sum |-> IF SplitRow(r) \/ r.sink = NoSink THEN 0 ELSE Scale,
   out |-> Zeros(r),
   weights |-> [t \in 0 .. BlockSize - 1 |-> IF Tiled(r) THEN Scale ELSE 0],
   result |-> <<>>]

InitRow == \E r \in Rows : row = InitTile(r)
-----------------------------------------------------------------------------
Sum(f) == MapThenSumSet(LAMBDA x : f[x], DOMAIN f)

Score(r, p) == IF p \in Read(r) THEN r.scores[p + 1] ELSE NegInf
Top(s) == Max({NegInf} \union {s[t] : t \in DOMAIN s})

(* A greater score makes all that was summed up to now smaller. *)
Corrected(x, old, new) == IF old = new THEN x ELSE (x * Exp(old, new)) \div Scale

(* A row the block has nothing for gets no weights in it. *)
SkippedStale(weights) == weights \* mutant: the row keeps its old weights
Skipped(weights) == [t \in DOMAIN weights |-> 0]

(* S@V: the block's weights are added to those of its positions. *)
WeightedSum(out, b, weights) ==
  [p \in DOMAIN out |->
     IF p \div BlockSize = b THEN out[p] + weights[p % BlockSize] ELSE out[p]]

(* The softmax of one row over one block.  The matrix product of a tile    *)
(* takes all rows, also those the block has nothing for; the other kernels *)
(* skip the block.                                                         *)
Softmax(b) ==
  LET r == row.job
      s == [t \in 0 .. BlockSize - 1 |-> Score(r, b * BlockSize + t)]
      new == Most(row.max, Top(s))
      weights == IF Top(s) = NegInf THEN Skipped(row.weights)
                 ELSE [t \in DOMAIN s |-> Exp(s[t], new)]
      corrected == [p \in DOMAIN row.out |-> Corrected(row.out[p], row.max, new)]
  IN row' = [row EXCEPT
       !.block = b + 1, !.max = new, !.weights = weights,
       !.sum = Corrected(row.sum, row.max, new) + Sum(weights),
       !.out = WeightedSum(corrected, b, weights)]

(* The blocks still to come, of a part or of the row. *)
Pending ==
  LET r == row.job IN
    IF SplitRow(r) THEN {b \in PartBlocks(r, Len(row.parts)) : b >= row.block}
    ELSE {b \in Visited(r) : b >= row.block}

Block ==
  /\ row.result = <<>> /\ Pending # {}
  /\ Softmax(CHOOSE b \in Pending : \A c \in Pending : b <= c)

(* decode_gqa_group_partial is done with one part. *)
Part ==
  /\ SplitRow(row.job) /\ Len(row.parts) < row.job.splits /\ Pending = {}
  /\ row' = [row EXCEPT
       !.parts = Append(@, [max |-> row.max, sum |-> row.sum, out |-> row.out]),
       !.max = NegInf, !.sum = 0, !.out = Zeros(row.job)]

(* reduce_gqa_partials; a part without weights is left out. *)
Reduced(parts) ==
  LET top == Max({parts[n].max : n \in DOMAIN parts})
      some == {n \in DOMAIN parts : parts[n].sum # 0}
      over(f) == MapThenSumSet(LAMBDA n : Corrected(f[n], parts[n].max, top), some)
  IN [sum |-> over([n \in some |-> parts[n].sum]),
      out |-> [p \in DOMAIN parts[1].out |-> over([n \in some |-> parts[n].out[p]])]]

(* A row without weights stays zero. *)
Normalize ==
  /\ row.result = <<>> /\ Pending = {}
  /\ SplitRow(row.job) => Len(row.parts) = row.job.splits
  /\ LET end == IF SplitRow(row.job) THEN Reduced(row.parts)
                ELSE [sum |-> row.sum, out |-> row.out]
     IN row' = [row EXCEPT !.result =
          IF end.sum > 0 THEN [weight |-> end.out, of |-> end.sum]
          ELSE [weight |-> Zeros(row.job), of |-> 1]]

NextRow == Block \/ Part \/ Normalize

SpecRow == InitRow /\ [][NextRow]_row
-----------------------------------------------------------------------------
(* Whatever the order in which great and small scores, masked blocks and   *)
(* the edges of window and sequence come, the weights a kernel ends with   *)
(* are those of the softmax over all positions the query may attend to,    *)
(* its sink included: exp(score) over the sum of all exp.                  *)
SoftmaxExact ==
  row.result # <<>> =>
    LET r == row.job
        allowed == {p \in 0 .. r.q_pos : r.window = 0 \/ r.q_pos - p < r.window}
        exp == [p \in 0 .. r.kv_len - 1 |->
                  IF p \in allowed THEN 2^r.scores[p + 1] ELSE 0]
        total == Sum(exp) + IF r.sink = NoSink THEN 0 ELSE 2^r.sink
    IN \A p \in DOMAIN exp : row.result.weight[p] * total = exp[p] * row.result.of
=============================================================================
