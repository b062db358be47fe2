----------------------- MODULE AttentionKernelsProofs -----------------------
(***************************************************************************)
(* Theorems about AttentionKernels: the heuristic never chooses Split-K,   *)
(* each kernel reads the window of its query, and the items of a call      *)
(* write every row once.                                                   *)
(***************************************************************************)
EXTENDS AttentionKernels, FiniteSetTheorems, TLAPS

(* A quotient of four would take a divisor of a quarter at most. *)
LEMMA DivisionBound ==
  ASSUME NEW a \in Nat, NEW g \in Nat \ {0}, a <= 3 * g
  PROVE  a \div g <= 3
<1> DEFINE q == a \div g
<1>1. q \in Nat /\ g * q <= a
  OBVIOUS
<1>2. SUFFICES ASSUME q >= 4 PROVE FALSE
  BY <1>1
<1>3. g * q >= g * 4
  BY <1>1, <1>2
<1> QED
  BY <1>1, <1>3

(* The same for the three numbers the heuristic looks at.                  *)
LEMMA FewSplits ==
  ASSUME NEW g \in Nat, NEW t \in Nat \ {0}, NEW b \in Int, MaxSplits \in Nat
  PROVE  ~SplitK(g, t, b)
<1>1. SUFFICES ASSUME SplitK(g, t, b) PROVE FALSE
  OBVIOUS
<1>2. t <= 2 * g + 1
  BY <1>1 DEF SplitK
<1>3. Splits(g, t, b) <= (t + g - 1) \div Most(g, 1)
  <2> DEFINE q == (t + g - 1) \div Most(g, 1)
  <2>1. Most(g, 1) \in Nat \ {0} /\ t + g - 1 \in Nat
    BY DEF Most
  <2>2. q \in Nat
    BY <2>1
  <2>3. Least(b, MaxSplits) \in Int
    BY DEF Least
  <2> HIDE DEF q
  <2>4. Least(q, Least(b, MaxSplits)) <= q
    BY <2>2, <2>3 DEF Least
  <2> QED
    BY <2>4 DEF Splits, q
<1>4. (t + g - 1) \div Most(g, 1) <= 3
  <2>1. CASE g = 0
    BY <1>2, <2>1 DEF Most
  <2>2. CASE g # 0
    <3>1. Most(g, 1) = g /\ g \in Nat \ {0}
      BY <2>2 DEF Most
    <3>2. t + g - 1 \in Nat /\ t + g - 1 <= 3 * g
      BY <1>2
    <3> QED
      BY <3>1, <3>2, DivisionBound
  <2> QED
    BY <2>1, <2>2
<1>5. Splits(g, t, b) >= 4
  BY <1>1 DEF SplitK
<1>6. Splits(g, t, b) \in Int /\ (t + g - 1) \div Most(g, 1) \in Int
  <2>1. Most(g, 1) \in Nat \ {0} /\ t + g - 1 \in Nat
    BY DEF Most
  <2>2. (t + g - 1) \div Most(g, 1) \in Int
    BY <2>1
  <2> QED
    BY <2>2 DEF Splits, Least
<1> QED
  BY <1>3, <1>4, <1>5, <1>6

(* docs/SlabAttention.md has Split-K for a long cache when the groups are  *)
(* nearly as many as the threads.  The two conditions on their number      *)
(* leave at most three splits, and fewer than four are not taken: whatever *)
(* the threads, the groups, the blocks and SLAB_MAX_SPLITS, the code of    *)
(* Split-K never runs.                                                     *)
THEOREM NoSplitK ==
  ASSUME MaxSplits \in Nat, BlockSize \in Nat \ {0},
         NEW j, j.q_len \in Seq(Nat), j.bmc \in BOOLEAN, j.num_kv \in Nat,
         j.threads \in Nat \ {0},
         NEW i \in Seqs(j), j.kv_len[i] \in Nat
  PROVE  Type(j, i) # "DECODE_SPLITK"
<1>1. NumBlocks(j.kv_len[i]) \in Int
  BY DEF NumBlocks, Ceil
<1>2. GqaItems(j) \in Nat
  <2>1. IsFiniteSet(1 .. Len(j.q_len)) /\ DOMAIN j.q_len = 1 .. Len(j.q_len)
    <3>1. Len(j.q_len) \in Nat /\ DOMAIN j.q_len = 1 .. Len(j.q_len)
      OBVIOUS
    <3>2. IsFiniteSet(1 .. Len(j.q_len))
      BY <3>1, FS_Interval
    <3> QED
      BY <3>1, <3>2
  <2>2. IsFiniteSet({k \in Seqs(j) : j.q_len[k] = 1})
    BY <2>1, FS_Subset DEF Seqs
  <2>3. Cardinality({k \in Seqs(j) : j.q_len[k] = 1}) \in Nat
    BY <2>2, FS_CardinalityType
  <2> QED
    BY <2>3 DEF GqaItems
<1>3. ~SplitK(GqaItems(j), j.threads, NumBlocks(j.kv_len[i]))
  BY <1>1, <1>2, FewSplits
<1>4. CASE j.bmc
  BY <1>4 DEF Type
<1>5. CASE ~j.bmc /\ j.q_len[i] = 1
  <2>1. Type(j, i) \in {"DECODE_HEAD", "DECODE_GQA"}
    BY <1>3, <1>5, Zenon DEF Type
  <2> QED
    BY <2>1
<1>6. CASE ~j.bmc /\ j.q_len[i] # 1
  BY <1>6 DEF Type
<1> QED
  BY <1>4, <1>5, <1>6

-----------------------------------------------------------------------------
(* Quotients                                                               *)

LEMMA QuotientIs ==
  ASSUME NEW a \in Int, NEW b \in Nat \ {0}
  PROVE  a \div b \in Int /\ b * (a \div b) <= a /\ a < b * (a \div b) + b
OBVIOUS

(* One and the same place cannot be in two rows of b places. *)
LEMMA OneQuotient ==
  ASSUME NEW b \in Nat \ {0}, NEW x \in Int, NEW y \in Int,
         NEW r \in 0 .. b - 1, NEW s \in 0 .. b - 1, x * b + r = y * b + s
  PROVE  x = y /\ r = s
<1>1. CASE x < y
  <2>1. (x + 1) * b <= y * b
    BY <1>1
  <2>2. (x + 1) * b = x * b + b
    OBVIOUS
  <2> QED
    BY <2>1, <2>2
<1>2. CASE x > y
  <2>1. (y + 1) * b <= x * b
    BY <1>2
  <2>2. (y + 1) * b = y * b + b
    OBVIOUS
  <2> QED
    BY <2>1, <2>2
<1>3. CASE x = y
  BY <1>3
<1> QED
  BY <1>1, <1>2, <1>3

LEMMA QuotientOf ==
  ASSUME NEW b \in Nat \ {0}, NEW x \in Int, NEW a \in Int, x * b <= a, a < x * b + b
  PROVE  x = a \div b
<1>1. a \div b \in Int /\ b * (a \div b) <= a /\ a < b * (a \div b) + b
  BY QuotientIs
<1> DEFINE y == a \div b
<1>2. a - x * b \in 0 .. b - 1 /\ a - y * b \in 0 .. b - 1
  <2>1. x * b \in Int /\ y * b \in Int /\ y * b = b * y
    BY <1>1
  <2> QED
    BY <1>1, <2>1
<1>3. x * b + (a - x * b) = y * b + (a - y * b)
  <2>1. x * b \in Int /\ y * b \in Int
    BY <1>1
  <2> QED
    BY <2>1
<1> HIDE DEF y
<1>4. y \in Int
  BY <1>1 DEF y
<1>5. x = y
  BY <1>2, <1>3, <1>4, OneQuotient
<1> QED
  BY <1>5 DEF y

LEMMA QuotientGrows ==
  ASSUME NEW a \in Int, NEW c \in Int, NEW b \in Nat \ {0}, a <= c
  PROVE  a \div b <= c \div b
<1> DEFINE x == a \div b
           y == c \div b
<1>1. /\ x \in Int /\ y \in Int /\ b * x <= a /\ c < b * y + b
  BY QuotientIs
<1>2. SUFFICES ASSUME y < x PROVE FALSE
  BY <1>1
<1> HIDE DEF x, y
<1>3. b * (y + 1) <= b * x
  BY <1>1, <1>2
<1>4. b * (y + 1) = b * y + b
  BY <1>1
<1> QED
  BY <1>1, <1>3, <1>4

(* The blocks of n tokens hold them, and the last is not empty. *)
LEMMA BlocksHold ==
  ASSUME BlockSize \in Nat \ {0}, NEW n \in Nat
  PROVE  /\ NumBlocks(n) \in Nat /\ NumBlocks(n) * BlockSize >= n
         /\ \A t \in 0 .. n - 1 : t \div BlockSize \in 0 .. NumBlocks(n) - 1
<1> DEFINE q == NumBlocks(n)
<1>1. /\ q \in Int /\ BlockSize * q <= n + BlockSize - 1
      /\ n + BlockSize - 1 < BlockSize * q + BlockSize
  BY QuotientIs DEF NumBlocks, Ceil
<1>2. q \in Nat
  BY DEF NumBlocks, Ceil
<1> HIDE DEF q
<1>3. q * BlockSize = BlockSize * q /\ q * BlockSize \in Int
  BY <1>1
<1>4. q * BlockSize >= n
  BY <1>1, <1>3
<1>5. ASSUME NEW t \in 0 .. n - 1 PROVE t \div BlockSize \in 0 .. q - 1
  <2> DEFINE x == t \div BlockSize
  <2>1. x \in Int /\ BlockSize * x <= t /\ t < BlockSize * x + BlockSize
    BY QuotientIs
  <2>2. x \in Nat
    OBVIOUS
  <2> HIDE DEF x
  <2>3. x < q
    <3>1. SUFFICES ASSUME q <= x PROVE FALSE
      BY <1>1, <2>1
    <3>2. BlockSize * q <= BlockSize * x
      BY <1>1, <2>1, <3>1
    <3> QED
      BY <1>3, <1>4, <2>1, <3>2
  <2> QED
    BY <1>1, <2>2, <2>3 DEF x
<1> QED
  BY <1>2, <1>4, <1>5 DEF q

-----------------------------------------------------------------------------
(* What the kernels read                                                   *)

(* What a query at a position is to attend to in the cache. *)
InWindow(q_pos, window) == {t \in 0 .. q_pos : window = 0 \/ q_pos - t < window}

LEMMA DecodeReadsRight ==
  ASSUME BlockSize \in Nat \ {0}, NEW kv \in Nat \ {0}, NEW w \in Nat
  PROVE  DecodeReads(kv, w) = InWindow(kv - 1, w)
<1> DEFINE start == IF w > 0 /\ kv > w THEN (kv - w) \div BlockSize ELSE 0
           nb == NumBlocks(kv)
<1>1. nb \in Nat /\ nb * BlockSize >= kv
  BY BlocksHold
<1>2. /\ start \in Nat
      /\ start * BlockSize <= IF w > 0 /\ kv > w THEN kv - w ELSE 0
  <2>1. CASE w > 0 /\ kv > w
    <3>1. (kv - w) \div BlockSize \in Int /\ BlockSize * ((kv - w) \div BlockSize) <= kv - w
      BY QuotientIs
    <3>2. (kv - w) \div BlockSize \in Nat
      BY <2>1
    <3> QED
      BY <2>1, <3>1, <3>2
  <2>2. CASE ~(w > 0 /\ kv > w)
    BY <2>2
  <2> QED
    BY <2>1, <2>2
<1>3. DecodeReads(kv, w) = {t \in start * BlockSize .. (nb - 1) * BlockSize + BlockSize - 1 :
                              t < kv /\ ~(w > 0 /\ kv - 1 - t >= w)}
  BY DEF DecodeReads, InBlocks
<1> HIDE DEF start, nb
<1>4. (nb - 1) * BlockSize + BlockSize - 1 = nb * BlockSize - 1
  <2>1. (nb - 1) * BlockSize = nb * BlockSize - BlockSize
    BY <1>1
  <2> QED
    BY <1>1, <2>1
<1>5. start * BlockSize \in Nat /\ nb * BlockSize \in Nat
  BY <1>1, <1>2
<1> QED
  BY <1>1, <1>2, <1>3, <1>4, <1>5 DEF InWindow

LEMMA MtdReadsRight ==
  ASSUME BlockSize \in Nat \ {0}, NEW kv \in Nat \ {0}, NEW p \in 0 .. kv - 1, NEW w \in Nat
  PROVE  MtdReads(kv, p, w) = InWindow(p, w)
<1> DEFINE from == IF w > 0 /\ p >= w THEN p - w + 1 ELSE 0
           nb == NumBlocks(kv)
           block(b) ==
             IF b * BlockSize > p THEN {}
             ELSE Most(b * BlockSize, from) ..
                    b * BlockSize + Least(Least(BlockSize, kv - b * BlockSize),
                                          p - b * BlockSize + 1) - 1
<1>1. MtdReads(kv, p, w) = UNION {block(b) : b \in from \div BlockSize .. nb - 1}
  BY DEF MtdReads
<1>2. from \in Nat /\ InWindow(p, w) = from .. p
  BY DEF InWindow
<1>3. nb \in Nat /\ \A t \in 0 .. kv - 1 : t \div BlockSize \in 0 .. nb - 1
  BY BlocksHold
<1> HIDE DEF from, nb
<1>4. ASSUME NEW b \in Int PROVE block(b) \subseteq from .. p
  <2>1. b * BlockSize \in Int
    BY <1>4
  <2> DEFINE s == b * BlockSize
  <2>2. block(b) = IF s > p THEN {} ELSE Most(s, from) ..
                     s + Least(Least(BlockSize, kv - s), p - s + 1) - 1
    OBVIOUS
  <2> HIDE DEF s, block
  <2>3. s \in Int
    BY <2>1 DEF s
  <2> QED
    BY <1>2, <2>2, <2>3 DEF Most, Least
<1>5. ASSUME NEW t \in from .. p
      PROVE  \E b \in from \div BlockSize .. nb - 1 : t \in block(b)
  <2> DEFINE b == t \div BlockSize
             s == b * BlockSize
  <2>1. b \in Int /\ BlockSize * b <= t /\ t < BlockSize * b + BlockSize
    BY <1>2, QuotientIs
  <2>0. t \in 0 .. kv - 1
    BY <1>2
  <2>2. b \in 0 .. nb - 1
    BY <1>3, <2>0
  <2>3. from \div BlockSize <= b /\ from \div BlockSize \in Int
    BY <1>2, QuotientGrows
  <2>4. block(b) = IF s > p THEN {} ELSE Most(s, from) ..
                     s + Least(Least(BlockSize, kv - s), p - s + 1) - 1
    OBVIOUS
  <2> HIDE DEF b
  <2>5. s \in Int /\ s <= t /\ t < s + BlockSize
    BY <2>1
  <2> HIDE DEF s, block
  <2>6. t \in block(b)
    BY <1>2, <2>4, <2>5 DEF Most, Least
  <2> QED
    BY <1>3, <2>2, <2>3, <2>6
<1>6. \A b \in from \div BlockSize .. nb - 1 : b \in Int
  OBVIOUS
<1> HIDE DEF block
<1> QED
  BY <1>1, <1>2, <1>4, <1>5, <1>6

(* For a row of tile n. *)
LEMMA TileReadsRight ==
  ASSUME BlockSize \in Nat \ {0}, QTile \in Nat \ {0},
         NEW kv \in Nat \ {0}, NEW q \in 1 .. kv, NEW n \in Nat,
         NEW r \in n * QTile .. Least((n + 1) * QTile, q) - 1, NEW w \in Nat
  PROVE  TileReads(kv, q, n, r + kv - q, w) = InWindow(r + kv - q, w)
<1> DEFINE behind == kv - Least(q, kv)
           least == n * QTile + behind
           greatest == Least((n + 1) * QTile, q) - 1 + behind
           first == IF w > 0 /\ least >= w THEN (least - w + 1) \div BlockSize ELSE 0
           nb == NumBlocks(kv)
           p == r + kv - q
           block(b) ==
             LET tokens == Least(BlockSize, kv - b * BlockSize) IN
             {t \in b * BlockSize .. b * BlockSize + tokens - 1 :
                \/ (b * BlockSize + tokens - 1 <= least /\ tokens = BlockSize) /\ w = 0
                \/ t <= p /\ (w = 0 \/ p - t < w)}
<1>1. TileReads(kv, q, n, p, w) =
        UNION {block(b) : b \in {x \in first .. nb - 1 : x * BlockSize <= greatest}}
  BY DEF TileReads
<1>2. behind = kv - q /\ n * QTile \in Nat /\ (n + 1) * QTile \in Nat
  BY DEF Least
<1>3. least \in Nat /\ greatest \in Int /\ p \in Int /\ least <= p /\ p <= greatest /\ p < kv
  BY <1>2 DEF Least
<1>4. nb \in Nat /\ \A t \in 0 .. kv - 1 : t \div BlockSize \in 0 .. nb - 1
  BY BlocksHold
<1>5. first \in Nat
  <2>1. CASE w > 0 /\ least >= w
    <3> HIDE DEF least
    <3>1. least - w + 1 \in Nat
      BY <1>3, <2>1
    <3>2. (least - w + 1) \div BlockSize \in Nat
      BY <3>1
    <3> QED
      BY <2>1, <3>2
  <2>2. CASE ~(w > 0 /\ least >= w)
    BY <2>2
  <2> QED
    BY <2>1, <2>2
<1>6. \A t \in InWindow(p, w) : first <= t \div BlockSize
  <2> SUFFICES ASSUME NEW t \in InWindow(p, w) PROVE first <= t \div BlockSize
    OBVIOUS
  <2> HIDE DEF least, p
  <2>0. t \in Nat /\ t <= p /\ (w = 0 \/ p - t < w)
    BY <1>3 DEF InWindow
  <2>1. CASE w > 0 /\ least >= w
    <3>1. least - w + 1 <= t /\ least - w + 1 \in Int
      BY <1>3, <2>0, <2>1
    <3> QED
      BY <2>0, <2>1, <3>1, QuotientGrows
  <2>2. CASE ~(w > 0 /\ least >= w)
    <3>1. t \div BlockSize \in Nat
      BY <2>0
    <3> QED
      BY <2>2, <3>1
  <2> QED
    BY <2>1, <2>2
<1> HIDE DEF first, nb, p, least, greatest
<1>7. ASSUME NEW b \in Nat PROVE block(b) \subseteq InWindow(p, w)
  <2> DEFINE s == b * BlockSize
             k == Least(BlockSize, kv - s)
  <2>1. block(b) = {t \in s .. s + k - 1 : \/ (s + k - 1 <= least /\ k = BlockSize) /\ w = 0
                                           \/ t <= p /\ (w = 0 \/ p - t < w)}
    OBVIOUS
  <2>2. s \in Nat
    BY <1>7
  <2> HIDE DEF s, block
  <2>3. k \in Int
    BY <2>2 DEF Least
  <2> HIDE DEF k
  <2> QED
    BY <1>3, <2>1, <2>2, <2>3 DEF InWindow
<1>8. ASSUME NEW t \in InWindow(p, w)
      PROVE  \E b \in {x \in first .. nb - 1 : x * BlockSize <= greatest} : t \in block(b)
  <2> DEFINE b == t \div BlockSize
             s == b * BlockSize
             k == Least(BlockSize, kv - s)
  <2>0. t \in 0 .. kv - 1 /\ t <= p /\ (w = 0 \/ p - t < w)
    BY <1>3 DEF InWindow
  <2>1. b \in Int /\ BlockSize * b <= t /\ t < BlockSize * b + BlockSize
    BY <2>0, QuotientIs
  <2>2. b \in 0 .. nb - 1 /\ first <= b
    BY <1>4, <1>6, <2>0
  <2>3. block(b) = {x \in s .. s + k - 1 : \/ (s + k - 1 <= least /\ k = BlockSize) /\ w = 0
                                           \/ x <= p /\ (w = 0 \/ p - x < w)}
    OBVIOUS
  <2> HIDE DEF b
  <2>4. s \in Int /\ s <= t /\ t < s + BlockSize
    BY <2>1
  <2>5. s <= greatest
    BY <1>3, <2>0, <2>4
  <2>6. b \in {x \in first .. nb - 1 : x * BlockSize <= greatest}
    BY <1>4, <1>5, <2>2, <2>5
  <2> HIDE DEF s, block
  <2>7. t \in s .. s + k - 1
    BY <2>0, <2>4 DEF Least
  <2> HIDE DEF k
  <2>8. t \in block(b)
    BY <2>0, <2>3, <2>7
  <2> QED
    BY <2>6, <2>8
<1> HIDE DEF block
<1>9. {x \in first .. nb - 1 : x * BlockSize <= greatest} \subseteq Nat
  BY <1>5
<1>10. TileReads(kv, q, n, p, w) = InWindow(p, w)
  BY <1>1, <1>7, <1>8, <1>9
<1> QED
  BY <1>10 DEF p

-----------------------------------------------------------------------------
(* The items                                                               *)

(* A job the model's step can dispatch: the entries of the new tokens are  *)
(* in the cache, the rows are padded to the longest sequence, and the      *)
(* contiguous prefill begins a sequence and has no window.                 *)
WellFormed(j) ==
  /\ j.bmc \in BOOLEAN /\ j.sinks \in BOOLEAN
  /\ j.q_len \in Seq(Nat \ {0}) /\ j.rows \in Nat /\ j.window \in Nat
  /\ j.num_kv \in Nat \ {0} /\ j.n_rep \in Nat \ {0} /\ j.threads \in Nat \ {0}
  /\ \A i \in Seqs(j) : /\ j.kv_len[i] \in Nat
                        /\ j.q_len[i] <= j.kv_len[i] /\ j.q_len[i] <= j.rows
  /\ j.bmc => j.window = 0 /\ \A i \in Seqs(j) : j.kv_len[i] = j.q_len[i]

Sizes ==
  /\ BlockSize \in Nat \ {0} /\ MtdMaxQ \in Nat
  /\ QTile \in Nat \ {0} /\ MaxSplits \in Nat

Queries(j, i) == 0 .. j.q_len[i] - 1
Heads(j) == 0 .. QHeads(j) - 1

(* The item of a query and a head, and what it is to write for them. *)
ItemOf(j, i, q, h) ==
  CASE Type(j, i) = "MTD" -> <<i, h, q>>
    [] Type(j, i) = "DECODE_HEAD" -> <<i, h, 0>>
    [] Type(j, i) = "DECODE_GQA" -> <<i, h \div j.n_rep, 0>>
    [] OTHER -> <<i, h \div j.n_rep, q \div QTile>>
Cell(j, i, q, h) ==
  [row |-> QOffset(j, i) + q, head |-> h, item |-> ItemOf(j, i, q, h),
   kv_head |-> h \div j.n_rep,
   read |-> InWindow(q + j.kv_len[i] - j.q_len[i], j.window)
              \union IF j.sinks THEN {-1} ELSE {}]

LEMMA JobFacts ==
  ASSUME Sizes, NEW j, WellFormed(j), NEW i \in Seqs(j)
  PROVE  /\ i \in Nat \ {0} /\ j.q_len[i] \in Nat \ {0} /\ j.kv_len[i] \in Nat \ {0}
         /\ j.q_len[i] <= j.kv_len[i] /\ j.q_len[i] <= j.rows
         /\ Type(j, i) \in {"PREFILL", "MTD", "DECODE_HEAD", "DECODE_GQA"}
         /\ Type(j, i) \in {"DECODE_HEAD", "DECODE_GQA"} => j.q_len[i] = 1
         /\ j.bmc => /\ Type(j, i) = "PREFILL" /\ j.window = 0
                     /\ j.kv_len[i] = j.q_len[i]
<1>1. /\ i \in Nat \ {0} /\ j.q_len[i] \in Nat \ {0} /\ j.kv_len[i] \in Nat
      /\ j.q_len[i] <= j.kv_len[i] /\ j.q_len[i] <= j.rows
      /\ j.bmc \in BOOLEAN
      /\ j.bmc => j.window = 0 /\ j.kv_len[i] = j.q_len[i]
  BY DEF WellFormed, Seqs
<1>2. Type(j, i) # "DECODE_SPLITK"
  <2>1. Seq(Nat \ {0}) \subseteq Seq(Nat)
    OBVIOUS
  <2>2. /\ j.q_len \in Seq(Nat) /\ j.bmc \in BOOLEAN /\ j.num_kv \in Nat
        /\ j.threads \in Nat \ {0} /\ j.kv_len[i] \in Nat
        /\ MaxSplits \in Nat /\ BlockSize \in Nat \ {0}
    BY <1>1, <2>1 DEF WellFormed, Sizes
  <2> QED
    BY <2>2, NoSplitK
<1>3. CASE j.bmc
  BY <1>1, <1>3 DEF Type
<1>4. CASE ~j.bmc /\ j.q_len[i] = 1
  <2>1. Type(j, i) \in {"DECODE_HEAD", "DECODE_GQA", "DECODE_SPLITK"}
    BY <1>4, Zenon DEF Type
  <2> QED
    BY <1>1, <1>2, <1>4, <2>1
<1>5. CASE ~j.bmc /\ j.q_len[i] # 1
  <2>1. Type(j, i) \in {"MTD", "PREFILL"}
    BY <1>5 DEF Type
  <2> QED
    BY <1>1, <1>5, <2>1
<1> QED
  BY <1>1, <1>3, <1>4, <1>5

(* The heads of a group, and the rows of a tile. *)
LEMMA GroupOf ==
  ASSUME NEW n \in Nat \ {0}, NEW m \in Nat, NEW g \in Int, NEW h \in Int
  PROVE  (g \in 0 .. m - 1 /\ h \in g * n .. (g + 1) * n - 1)
           <=> (h \in 0 .. m * n - 1 /\ g = h \div n)
<1>1. /\ (g + 1) * n = g * n + n /\ g * n \in Int /\ m * n \in Int
  OBVIOUS
<1>2. ASSUME g \in 0 .. m - 1, h \in g * n .. (g + 1) * n - 1
      PROVE  h \in 0 .. m * n - 1 /\ g = h \div n
  <2>1. g = h \div n
    BY <1>1, <1>2, QuotientOf
  <2>2. (g + 1) * n <= m * n /\ g * n >= 0
    BY <1>2
  <2> QED
    BY <1>1, <1>2, <2>1, <2>2
<1>3. ASSUME h \in 0 .. m * n - 1, g = h \div n
      PROVE  g \in 0 .. m - 1 /\ h \in g * n .. (g + 1) * n - 1
  <2>1. n * g <= h /\ h < n * g + n /\ n * g = g * n
    BY <1>3, QuotientIs
  <2>2. g >= 0
    BY <1>3
  <2>3. g < m
    <3>1. SUFFICES ASSUME m <= g PROVE FALSE
      OBVIOUS
    <3>2. m * n <= g * n
      BY <3>1
    <3> QED
      BY <1>1, <1>3, <2>1, <3>2
  <2> QED
    BY <1>1, <1>3, <2>1, <2>2, <2>3
<1> QED
  BY <1>2, <1>3

LEMMA TileOf ==
  ASSUME NEW t \in Nat \ {0}, NEW q \in Nat \ {0}, NEW n \in Int, NEW r \in Int
  PROVE  (n \in 0 .. Ceil(q, t) - 1 /\ r \in n * t .. Least((n + 1) * t, q) - 1)
           <=> (r \in 0 .. q - 1 /\ n = r \div t)
<1>1. /\ (n + 1) * t = n * t + t /\ n * t \in Int
  OBVIOUS
<1>2. ASSUME n \in 0 .. Ceil(q, t) - 1, r \in n * t .. Least((n + 1) * t, q) - 1
      PROVE  r \in 0 .. q - 1 /\ n = r \div t
  <2>1. r < n * t + t /\ r < q /\ n * t <= r /\ n * t >= 0
    BY <1>1, <1>2 DEF Least
  <2> QED
    BY <1>1, <2>1, QuotientOf
<1>3. ASSUME r \in 0 .. q - 1, n = r \div t
      PROVE  n \in 0 .. Ceil(q, t) - 1 /\ r \in n * t .. Least((n + 1) * t, q) - 1
  <2>1. t * n <= r /\ r < t * n + t /\ t * n = n * t
    BY <1>3, QuotientIs
  <2>2. n >= 0
    BY <1>3
  <2>3. /\ Ceil(q, t) \in Int /\ q + t - 1 < t * Ceil(q, t) + t
    BY QuotientIs DEF Ceil
  <2> DEFINE c == Ceil(q, t)
  <2> HIDE DEF c
  <2>4. c \in Int /\ q + t - 1 < t * c + t
    BY <2>3 DEF c
  <2>5. n < c
    <3>1. SUFFICES ASSUME c <= n PROVE FALSE
      BY <2>4
    <3>2. t * c <= t * n
      BY <2>4, <3>1
    <3>3. t * c \in Int /\ t * n \in Int
      BY <2>4
    <3> QED
      BY <1>3, <2>1, <2>4, <3>2, <3>3
  <2> QED
    BY <1>1, <1>3, <2>1, <2>2, <2>4, <2>5 DEF Least, c
<1> QED
  BY <1>2, <1>3

(* The parts of Written. *)
HeadsOf(j, i, g) ==
  IF Type(j, i) \in {"DECODE_HEAD", "MTD"} THEN {g}
  ELSE g * j.n_rep .. (g + 1) * j.n_rep - 1
RowsOf(j, i, n) ==
  CASE Type(j, i) = "MTD" -> {n} \intersect 0 .. Least(j.q_len[i], j.kv_len[i]) - 1
    [] Type(j, i) = "PREFILL" ->
         n * QTile .. Least((n + 1) * QTile, Least(j.q_len[i], j.kv_len[i])) - 1
    [] OTHER -> {0}
KvHeadOf(j, i, g, h) ==
  IF HeadsOf(j, i, g) = g * j.n_rep .. (g + 1) * j.n_rep - 1 THEN g ELSE h \div j.n_rep
PosOf(j, i, r) == r + j.kv_len[i] - Least(j.q_len[i], j.kv_len[i])
ReadOf(j, i, n, r) ==
  CASE Type(j, i) = "MTD" -> MtdReads(j.kv_len[i], PosOf(j, i, r), j.window)
    [] j.bmc -> BmcTileReads(j.q_len[i], n, PosOf(j, i, r))
    [] ~j.bmc /\ Type(j, i) = "PREFILL" ->
         TileReads(j.kv_len[i], j.q_len[i], n, PosOf(j, i, r), j.window)
    [] Type(j, i) = "DECODE_HEAD" -> DecodeReads(j.kv_len[i], j.window)
    [] OTHER -> GroupReads(j.kv_len[i], j.window)

LEMMA WrittenIs ==
  ASSUME NEW j, NEW i, NEW g, NEW n, j.kv_len[i] # 0
  PROVE  Written(j, <<i, g, n>>) =
           {[row |-> QOffset(j, i) + r, head |-> h, item |-> <<i, g, n>>,
             kv_head |-> KvHeadOf(j, i, g, h),
             read |-> ReadOf(j, i, n, r) \union IF j.sinks THEN {-1} ELSE {}] :
              r \in RowsOf(j, i, n), h \in HeadsOf(j, i, g)}
<1> DEFINE W(a, b, c, it) ==
             {[row |-> QOffset(j, a) + r, head |-> h, item |-> it,
               kv_head |-> KvHeadOf(j, a, b, h),
               read |-> ReadOf(j, a, c, r) \union IF j.sinks THEN {-1} ELSE {}] :
                r \in RowsOf(j, a, c), h \in HeadsOf(j, a, b)}
<1>1. ASSUME NEW it, j.kv_len[it[1]] # 0
      PROVE  Written(j, it) = W(it[1], it[2], it[3], it)
  <2>1. Written(j, it) = IF j.kv_len[it[1]] = 0 THEN {} ELSE W(it[1], it[2], it[3], it)
    BY DEF Written, KvHeadOf, ReadOf, RowsOf, HeadsOf, PosOf
  <2> HIDE DEF W
  <2> QED
    BY <1>1, <2>1
<1>2. <<i, g, n>>[1] = i /\ <<i, g, n>>[2] = g /\ <<i, g, n>>[3] = n
  OBVIOUS
<1> HIDE DEF W
<1>3. Written(j, <<i, g, n>>) = W(i, g, n, <<i, g, n>>)
  BY <1>1, <1>2
<1> QED
  BY <1>3 DEF W

(* The counts of an item's head and row. *)
HeadCount(j, i) == IF Type(j, i) \in {"DECODE_HEAD", "MTD"} THEN QHeads(j) ELSE j.num_kv
RowCount(j, i) ==
  CASE Type(j, i) = "MTD" -> j.q_len[i]
    [] Type(j, i) = "PREFILL" -> Ceil(j.q_len[i], QTile)
    [] OTHER -> 1

LEMMA WorkItemsAre ==
  ASSUME Sizes, NEW j, WellFormed(j), NEW i \in Seqs(j)
  PROVE  WorkItems(j, i) =
           {<<i, g, n>> : g \in 0 .. HeadCount(j, i) - 1, n \in 0 .. RowCount(j, i) - 1}
<1>1. Type(j, i) \in {"PREFILL", "MTD", "DECODE_HEAD", "DECODE_GQA"}
  BY JobFacts
<1>2. CASE Type(j, i) = "MTD"
  <2>1. HeadCount(j, i) = QHeads(j) /\ RowCount(j, i) = j.q_len[i]
    BY <1>2 DEF HeadCount, RowCount
  <2> QED
    BY <1>2, <2>1 DEF WorkItems
<1>3. CASE Type(j, i) = "DECODE_HEAD"
  <2>1. HeadCount(j, i) = QHeads(j) /\ RowCount(j, i) = 1
    BY <1>3 DEF HeadCount, RowCount
  <2> QED
    BY <1>3, <2>1 DEF WorkItems
<1>4. CASE Type(j, i) = "DECODE_GQA"
  <2>1. HeadCount(j, i) = j.num_kv /\ RowCount(j, i) = 1
    BY <1>4 DEF HeadCount, RowCount
  <2> QED
    BY <1>4, <2>1 DEF WorkItems
<1>5. CASE Type(j, i) = "PREFILL"
  <2>1. HeadCount(j, i) = j.num_kv /\ RowCount(j, i) = Ceil(j.q_len[i], QTile)
    BY <1>5 DEF HeadCount, RowCount
  <2> QED
    BY <1>5, <2>1 DEF WorkItems
<1> QED
  BY <1>1, <1>2, <1>3, <1>4, <1>5

(* An item has a row and a head just if it is their item. *)
LEMMA RightItem ==
  ASSUME Sizes, NEW j, WellFormed(j), NEW i \in Seqs(j), NEW g \in Int, NEW n \in Int,
         NEW q \in Int, NEW h \in Int
  PROVE  /\ g \in 0 .. HeadCount(j, i) - 1 /\ n \in 0 .. RowCount(j, i) - 1
         /\ q \in RowsOf(j, i, n) /\ h \in HeadsOf(j, i, g)
         <=> /\ q \in Queries(j, i) /\ h \in Heads(j)
             /\ <<i, g, n>> = ItemOf(j, i, q, h)
<1>1. /\ j.q_len[i] \in Nat \ {0} /\ j.kv_len[i] \in Nat \ {0}
      /\ j.q_len[i] <= j.kv_len[i]
      /\ Type(j, i) \in {"PREFILL", "MTD", "DECODE_HEAD", "DECODE_GQA"}
      /\ Type(j, i) \in {"DECODE_HEAD", "DECODE_GQA"} => j.q_len[i] = 1
  BY JobFacts
<1>2. /\ j.n_rep \in Nat \ {0} /\ j.num_kv \in Nat /\ QTile \in Nat \ {0}
      /\ Heads(j) = 0 .. j.num_kv * j.n_rep - 1
  BY DEF WellFormed, Sizes, Heads, QHeads
<1>3. Least(j.q_len[i], j.kv_len[i]) = j.q_len[i]
  BY <1>1 DEF Least
<1> DEFINE len == j.q_len[i]
           rep == j.n_rep
           kvs == j.num_kv
<1>4. /\ g \in 0 .. kvs - 1 /\ h \in g * rep .. (g + 1) * rep - 1
      <=> h \in 0 .. kvs * rep - 1 /\ g = h \div rep
  BY <1>2, GroupOf
<1>5. /\ n \in 0 .. Ceil(len, QTile) - 1 /\ q \in n * QTile .. Least((n + 1) * QTile, len) - 1
      <=> q \in 0 .. len - 1 /\ n = q \div QTile
  BY <1>1, <1>2, TileOf
<1>6. CASE Type(j, i) = "MTD"
  <2>1. /\ HeadCount(j, i) = kvs * rep /\ RowCount(j, i) = len
        /\ RowsOf(j, i, n) = {n} \intersect 0 .. len - 1
        /\ HeadsOf(j, i, g) = {g} /\ ItemOf(j, i, q, h) = <<i, h, q>>
    BY <1>3, <1>6 DEF HeadCount, RowCount, RowsOf, HeadsOf, ItemOf, QHeads
  <2> HIDE DEF len, rep, kvs
  <2> QED
    BY <1>2, <2>1 DEF Queries, len, rep, kvs
<1>7. CASE Type(j, i) = "DECODE_HEAD"
  <2>1. /\ HeadCount(j, i) = kvs * rep /\ RowCount(j, i) = 1 /\ len = 1
        /\ RowsOf(j, i, n) = {0}
        /\ HeadsOf(j, i, g) = {g} /\ ItemOf(j, i, q, h) = <<i, h, 0>>
    BY <1>1, <1>3, <1>7 DEF HeadCount, RowCount, RowsOf, HeadsOf, ItemOf, QHeads
  <2> QED
    BY <1>2, <2>1 DEF Queries
<1>8. CASE Type(j, i) = "DECODE_GQA"
  <2>1. /\ HeadCount(j, i) = kvs /\ RowCount(j, i) = 1 /\ len = 1
        /\ RowsOf(j, i, n) = {0}
        /\ HeadsOf(j, i, g) = g * rep .. (g + 1) * rep - 1
        /\ ItemOf(j, i, q, h) = <<i, h \div rep, 0>>
    BY <1>1, <1>3, <1>8 DEF HeadCount, RowCount, RowsOf, HeadsOf, ItemOf
  <2> QED
    BY <1>2, <1>4, <2>1 DEF Queries
<1>9. CASE Type(j, i) = "PREFILL"
  <2>1. /\ HeadCount(j, i) = kvs /\ RowCount(j, i) = Ceil(len, QTile)
        /\ RowsOf(j, i, n) = n * QTile .. Least((n + 1) * QTile, len) - 1
        /\ HeadsOf(j, i, g) = g * rep .. (g + 1) * rep - 1
        /\ ItemOf(j, i, q, h) = <<i, h \div rep, q \div QTile>>
    BY <1>1, <1>3, <1>9 DEF HeadCount, RowCount, RowsOf, HeadsOf, ItemOf
  <2>2. /\ q \in Queries(j, i) <=> q \in 0 .. len - 1
        /\ h \in Heads(j) <=> h \in 0 .. kvs * rep - 1
    BY <1>2 DEF Queries
  <2>3. <<i, g, n>> = ItemOf(j, i, q, h) <=> g = h \div rep /\ n = q \div QTile
    BY <2>1
  <2>4. g \in 0 .. HeadCount(j, i) - 1 /\ h \in HeadsOf(j, i, g)
        <=> h \in Heads(j) /\ g = h \div rep
    BY <1>4, <2>1, <2>2
  <2>5. n \in 0 .. RowCount(j, i) - 1 /\ q \in RowsOf(j, i, n)
        <=> q \in Queries(j, i) /\ n = q \div QTile
    BY <1>5, <2>1, <2>2
  <2> HIDE DEF len, rep, kvs
  <2> QED
    BY <2>3, <2>4, <2>5
<1> QED
  BY <1>1, <1>6, <1>7, <1>8, <1>9

(* It reads what it should, from the head of its group. *)
LEMMA RightRead ==
  ASSUME Sizes, NEW j, WellFormed(j), NEW i \in Seqs(j), NEW g \in Nat, NEW n \in Nat,
         NEW q \in Queries(j, i), NEW h \in Heads(j), q \in RowsOf(j, i, n),
         <<i, g, n>> = ItemOf(j, i, q, h)
  PROVE  /\ KvHeadOf(j, i, g, h) = h \div j.n_rep
         /\ ReadOf(j, i, n, q) = InWindow(q + j.kv_len[i] - j.q_len[i], j.window)
<1>1. /\ j.q_len[i] \in Nat \ {0} /\ j.kv_len[i] \in Nat \ {0}
      /\ j.q_len[i] <= j.kv_len[i]
      /\ Type(j, i) \in {"PREFILL", "MTD", "DECODE_HEAD", "DECODE_GQA"}
      /\ Type(j, i) \in {"DECODE_HEAD", "DECODE_GQA"} => j.q_len[i] = 1
      /\ j.bmc => /\ Type(j, i) = "PREFILL" /\ j.window = 0
                  /\ j.kv_len[i] = j.q_len[i]
  BY JobFacts
<1>2. /\ j.n_rep \in Nat \ {0} /\ j.window \in Nat /\ j.bmc \in BOOLEAN
      /\ BlockSize \in Nat \ {0} /\ QTile \in Nat \ {0}
  BY DEF WellFormed, Sizes
<1>3. Least(j.q_len[i], j.kv_len[i]) = j.q_len[i]
  BY <1>1 DEF Least
<1>4. /\ q \in 0 .. j.q_len[i] - 1 /\ h \in Int
      /\ PosOf(j, i, q) = q + j.kv_len[i] - j.q_len[i]
  BY <1>3 DEF Queries, Heads, PosOf
<1>5. KvHeadOf(j, i, g, h) = h \div j.n_rep
  <2>1. CASE Type(j, i) \in {"DECODE_GQA", "PREFILL"}
    <3>1. g = h \div j.n_rep
      BY <2>1 DEF ItemOf
    <3> QED
      BY <3>1 DEF KvHeadOf
  <2>2. CASE Type(j, i) \in {"DECODE_HEAD", "MTD"}
    <3>1. g = h /\ HeadsOf(j, i, g) = {g}
      BY <2>2 DEF ItemOf, HeadsOf
    <3>2. ASSUME {g} = g * j.n_rep .. (g + 1) * j.n_rep - 1 PROVE j.n_rep = 1
      <4>1. (g + 1) * j.n_rep = g * j.n_rep + j.n_rep /\ g * j.n_rep \in Int
        BY <1>2
      <4> DEFINE a == g * j.n_rep
                 b == (g + 1) * j.n_rep - 1
      <4>2. a \in Int /\ b \in Int /\ a <= b /\ b = a + j.n_rep - 1 /\ {g} = a .. b
        BY <1>2, <3>2, <4>1
      <4> HIDE DEF a, b
      <4>3. a \in a .. b /\ b \in a .. b
        BY <4>2
      <4>4. a = g /\ b = g
        BY <4>2, <4>3
      <4> QED
        BY <1>2, <4>2, <4>4
    <3>3. j.n_rep = 1 => h \div j.n_rep = h
      BY <1>4
    <3> QED
      BY <3>1, <3>2, <3>3 DEF KvHeadOf
  <2> QED
    BY <1>1, <2>1, <2>2
<1>6. ReadOf(j, i, n, q) = InWindow(PosOf(j, i, q), j.window)
  <2>1. CASE Type(j, i) = "MTD"
    <3>1. PosOf(j, i, q) \in 0 .. j.kv_len[i] - 1
      BY <1>1, <1>4
    <3>2. ReadOf(j, i, n, q) = MtdReads(j.kv_len[i], PosOf(j, i, q), j.window)
      BY <1>1, <2>1 DEF ReadOf
    <3> QED
      BY <1>1, <1>2, <3>1, <3>2, MtdReadsRight
  <2>2. CASE Type(j, i) \in {"DECODE_HEAD", "DECODE_GQA"}
    <3>1. PosOf(j, i, q) = j.kv_len[i] - 1
      BY <1>1, <1>4, <2>2
    <3>2. ReadOf(j, i, n, q) = DecodeReads(j.kv_len[i], j.window)
      BY <1>1, <1>2, <2>2 DEF ReadOf, GroupReads
    <3> QED
      BY <1>1, <1>2, <3>1, <3>2, DecodeReadsRight
  <2>3. CASE Type(j, i) = "PREFILL"
    <3>1. ReadOf(j, i, n, q) =
            TileReads(j.kv_len[i], j.q_len[i], n, PosOf(j, i, q), j.window)
      BY <1>1, <1>2, <2>3 DEF ReadOf, BmcTileReads
    <3>2. q \in n * QTile .. Least((n + 1) * QTile, j.q_len[i]) - 1
      BY <1>3, <2>3 DEF RowsOf
    <3>3. j.q_len[i] \in 1 .. j.kv_len[i]
      BY <1>1
    <3> QED
      BY <1>1, <1>2, <1>4, <3>1, <3>2, <3>3, TileReadsRight
  <2> QED
    BY <1>1, <2>1, <2>2, <2>3
<1> QED
  BY <1>4, <1>5, <1>6

-----------------------------------------------------------------------------
(* The output                                                              *)

Produced(j) ==
  UNION {{Cell(j, i, q, h) : q \in Queries(j, i), h \in Heads(j)} : i \in Seqs(j)}

LEMMA WrittenIsProduced ==
  ASSUME Sizes, NEW j, WellFormed(j), NEW i \in Seqs(j), NEW g \in Nat, NEW n \in Nat,
         NEW q \in Queries(j, i), NEW h \in Heads(j), q \in RowsOf(j, i, n),
         <<i, g, n>> = ItemOf(j, i, q, h)
  PROVE  Cell(j, i, q, h) =
           [row |-> QOffset(j, i) + q, head |-> h, item |-> <<i, g, n>>,
            kv_head |-> KvHeadOf(j, i, g, h),
            read |-> ReadOf(j, i, n, q) \union IF j.sinks THEN {-1} ELSE {}]
<1>1. /\ KvHeadOf(j, i, g, h) = h \div j.n_rep
      /\ ReadOf(j, i, n, q) = InWindow(q + j.kv_len[i] - j.q_len[i], j.window)
  BY RightRead
<1> QED
  BY <1>1 DEF Cell

LEMMA SequenceIs ==
  ASSUME Sizes, NEW j, WellFormed(j), NEW i \in Seqs(j)
  PROVE  UNION {Written(j, item) : item \in WorkItems(j, i)} =
           {Cell(j, i, q, h) : q \in Queries(j, i), h \in Heads(j)}
<1> DEFINE W(g, n) == Written(j, <<i, g, n>>)
           Out(g, n, q, h) ==
             [row |-> QOffset(j, i) + q, head |-> h, item |-> <<i, g, n>>,
              kv_head |-> KvHeadOf(j, i, g, h),
              read |-> ReadOf(j, i, n, q) \union IF j.sinks THEN {-1} ELSE {}]
           G == 0 .. HeadCount(j, i) - 1
           N == 0 .. RowCount(j, i) - 1
           R(n) == RowsOf(j, i, n)
           H(g) == HeadsOf(j, i, g)
           C(q, h) == Cell(j, i, q, h)
           It(q, h) == ItemOf(j, i, q, h)
           Q == Queries(j, i)
           A == Heads(j)
<1>1. j.kv_len[i] # 0 /\ j.n_rep \in Nat \ {0}
  BY JobFacts DEF WellFormed
<1>2. \A g \in G, n \in N : W(g, n) = {Out(g, n, q, h) : q \in R(n), h \in H(g)}
  BY <1>1, WrittenIs
<1>3. UNION {Written(j, item) : item \in WorkItems(j, i)} = UNION {W(g, n) : g \in G, n \in N}
  <2>1. WorkItems(j, i) = {<<i, g, n>> : g \in G, n \in N}
    BY WorkItemsAre
  <2> DEFINE w(x) == Written(j, x)
  <2>2. \A g \in G, n \in N : W(g, n) = w(<<i, g, n>>)
    OBVIOUS
  <2> HIDE DEF G, N, W, w
  <2>3. UNION {w(x) : x \in {<<i, g, n>> : g \in G, n \in N}} = UNION {W(g, n) : g \in G, n \in N}
    <3> DEFINE t(g, n) == <<i, g, n>>
               S == {t(g, n) : g \in G, n \in N}
    <3>1. \A g \in G, n \in N : t(g, n) \in S /\ W(g, n) = w(t(g, n))
      BY <2>2
    <3>2. \A x \in S : \E g \in G, n \in N : x = t(g, n)
      OBVIOUS
    <3> HIDE DEF t, S
    <3>3. \A c : c \in UNION {w(x) : x \in S} <=> \E x \in S : c \in w(x)
      OBVIOUS
    <3>4. \A c : c \in UNION {W(g, n) : g \in G, n \in N}
                  <=> \E g \in G, n \in N : c \in W(g, n)
      OBVIOUS
    <3>5. UNION {w(x) : x \in S} = UNION {W(g, n) : g \in G, n \in N}
      BY <3>1, <3>2, <3>3, <3>4
    <3> QED
      BY <3>5 DEF S, t
  <2>4. UNION {w(x) : x \in WorkItems(j, i)} = UNION {W(g, n) : g \in G, n \in N}
    BY <2>1, <2>3
  <2> QED
    BY <2>4 DEF w
<1>4. \A g \in G, n \in N : g \in Nat /\ n \in Nat
  OBVIOUS
<1>5. \A n \in N, g \in G : \A q \in R(n), h \in H(g) : q \in Int /\ h \in Int
  <2> SUFFICES ASSUME NEW n \in N, NEW g \in G, NEW q \in R(n), NEW h \in H(g)
               PROVE  q \in Int /\ h \in Int
    OBVIOUS
  <2>1. n \in Int /\ g \in Int
    BY <1>4
  <2>2. h \in Int
    BY <2>1 DEF HeadsOf
  <2>3. Type(j, i) \in {"PREFILL", "MTD", "DECODE_HEAD", "DECODE_GQA"}
    BY JobFacts
  <2>4. q \in Int
    <3>1. CASE Type(j, i) = "MTD"
      BY <2>1, <3>1 DEF RowsOf
    <3>2. CASE Type(j, i) = "PREFILL"
      BY <2>1, <3>2 DEF RowsOf
    <3>3. CASE Type(j, i) \in {"DECODE_HEAD", "DECODE_GQA"}
      BY <3>3 DEF RowsOf
    <3> QED
      BY <2>3, <3>1, <3>2, <3>3
  <2> QED
    BY <2>2, <2>4
<1>6. ASSUME NEW g \in Int, NEW n \in Int, NEW q \in Int, NEW h \in Int
      PROVE  (g \in G /\ n \in N /\ q \in R(n) /\ h \in H(g))
               <=> (q \in Q /\ h \in A /\ <<i, g, n>> = It(q, h))
  BY RightItem
<1>7. ASSUME NEW g \in Nat, NEW n \in Nat, NEW q \in Q, NEW h \in A, q \in R(n),
             <<i, g, n>> = It(q, h)
      PROVE  C(q, h) = Out(g, n, q, h)
  BY <1>7, WrittenIsProduced
<1>8. \A q \in Q, h \in A : \E g \in Int, n \in Int : <<i, g, n>> = It(q, h)
  <2> SUFFICES ASSUME NEW q \in Q, NEW h \in A
               PROVE  \E g \in Int, n \in Int : <<i, g, n>> = It(q, h)
    OBVIOUS
  <2>1. q \in Int /\ h \in Int /\ QTile \in Nat \ {0}
    BY DEF Queries, Heads, Sizes
  <2>2. h \div j.n_rep \in Int /\ q \div QTile \in Int
    BY <1>1, <2>1
  <2> QED
    BY <2>1, <2>2 DEF ItemOf
<1>9. \A q \in Q, h \in A : q \in Int /\ h \in Int
  BY DEF Queries, Heads
<1> HIDE DEF W, Out, G, N, R, H, C, It, Q, A
<1>10. ASSUME NEW x, x \in UNION {W(g, n) : g \in G, n \in N}
       PROVE  x \in {C(q, h) : q \in Q, h \in A}
  <2>1. PICK g \in G, n \in N : x \in W(g, n)
    BY <1>10
  <2>2. PICK q \in R(n), h \in H(g) : x = Out(g, n, q, h)
    BY <1>2, <2>1
  <2>3. g \in Nat /\ n \in Nat /\ q \in Int /\ h \in Int
    BY <1>4, <1>5, <2>1, <2>2
  <2>4. q \in Q /\ h \in A /\ <<i, g, n>> = It(q, h)
    BY <1>6, <2>1, <2>2, <2>3
  <2> QED
    BY <1>7, <2>2, <2>3, <2>4
<1>11. ASSUME NEW x, x \in {C(q, h) : q \in Q, h \in A}
       PROVE  x \in UNION {W(g, n) : g \in G, n \in N}
  <2>1. PICK q \in Q, h \in A : x = C(q, h)
    BY <1>11
  <2>2. PICK g \in Int, n \in Int : <<i, g, n>> = It(q, h)
    BY <1>8
  <2>3. g \in G /\ n \in N /\ q \in R(n) /\ h \in H(g)
    BY <1>6, <1>9, <2>2
  <2>4. x = Out(g, n, q, h)
    BY <1>4, <1>7, <2>1, <2>2, <2>3
  <2> QED
    BY <1>2, <2>3, <2>4
<1>12. UNION {W(g, n) : g \in G, n \in N} = {C(q, h) : q \in Q, h \in A}
  BY <1>10, <1>11
<1> DEFINE all == UNION {Written(j, item) : item \in WorkItems(j, i)}
<1> HIDE DEF all
<1>13. all = {C(q, h) : q \in Q, h \in A}
  BY <1>3, <1>12 DEF all
<1>14. all = {Cell(j, i, q, h) : q \in Queries(j, i), h \in Heads(j)}
  BY <1>13 DEF C, Q, A
<1> QED
  BY <1>14 DEF all

LEMMA OutputIs ==
  ASSUME Sizes, NEW j, WellFormed(j)
  PROVE  UNION {Written(j, item) : item \in AllItems(j)} = Produced(j)
<1>1. \A i \in Seqs(j) : UNION {Written(j, item) : item \in WorkItems(j, i)} =
                           {Cell(j, i, q, h) : q \in Queries(j, i), h \in Heads(j)}
  BY SequenceIs
<1> DEFINE P(i) == {Cell(j, i, q, h) : q \in Queries(j, i), h \in Heads(j)}
           I(i) == WorkItems(j, i)
           W(x) == Written(j, x)
<1>2. AllItems(j) = UNION {I(i) : i \in Seqs(j)} /\ Produced(j) = UNION {P(i) : i \in Seqs(j)}
  BY DEF AllItems, Produced
<1>3. \A i \in Seqs(j) : UNION {W(x) : x \in I(i)} = P(i)
  BY <1>1
<1> HIDE DEF P, I, W
<1>4. ASSUME NEW c PROVE c \in UNION {W(x) : x \in AllItems(j)} <=> c \in Produced(j)
  <2>1. ASSUME NEW x \in AllItems(j), c \in W(x) PROVE c \in Produced(j)
    <3>1. PICK i \in Seqs(j) : x \in I(i)
      BY <1>2, <2>1
    <3>2. c \in P(i)
      BY <1>3, <2>1, <3>1
    <3> QED
      BY <1>2, <3>2
  <2>2. ASSUME c \in Produced(j) PROVE \E x \in AllItems(j) : c \in W(x)
    <3>1. PICK i \in Seqs(j) : c \in P(i)
      BY <1>2, <2>2
    <3>2. PICK x \in I(i) : c \in W(x)
      BY <1>3, <3>1
    <3> QED
      BY <1>2, <3>2
  <2> QED
    BY <2>1, <2>2
<1>5. UNION {W(x) : x \in AllItems(j)} = Produced(j)
  BY <1>4
<1>6. \A x : W(x) = Written(j, x)
  BY DEF W
<1>7. {W(x) : x \in AllItems(j)} = {Written(j, item) : item \in AllItems(j)}
  BY <1>6
<1> QED
  BY <1>5, <1>7

(* A row of the output is the row of one query of one sequence, or padding. *)
LEMMA RowIs ==
  ASSUME NEW j, WellFormed(j), NEW i \in Seqs(j), NEW k \in Seqs(j),
         NEW r \in 0 .. j.rows - 1, NEW q \in Queries(j, k)
  PROVE  QOffset(j, k) + q = (i - 1) * j.rows + r
           <=> k = i /\ q = r - (j.rows - j.q_len[i])
<1>0. ASSUME NEW a \in Seqs(j)
      PROVE  a \in Nat \ {0} /\ j.q_len[a] \in Nat /\ j.q_len[a] <= j.rows
  <2> DEFINE lens == j.q_len
  <2>1. lens \in Seq(Nat \ {0}) /\ a \in DOMAIN lens
    BY DEF WellFormed, Seqs
  <2>2. lens[a] <= j.rows
    BY DEF WellFormed
  <2> HIDE DEF lens
  <2>3. a \in Nat \ {0} /\ lens[a] \in Nat
    BY <2>1
  <2> QED
    BY <2>2, <2>3 DEF lens
<1>1. /\ i \in Nat \ {0} /\ k \in Nat \ {0} /\ j.rows \in Nat
      /\ j.q_len[i] \in Nat /\ j.q_len[k] \in Nat
      /\ j.q_len[i] <= j.rows /\ j.q_len[k] <= j.rows
  BY <1>0 DEF WellFormed
<1>2. j.rows \in Nat \ {0} /\ q \in Nat /\ q < j.q_len[k]
  BY <1>1 DEF Queries
<1> DEFINE s == j.rows - j.q_len[k] + q
           x == k - 1
           y == i - 1
           b == j.rows
<1>3. s \in 0 .. b - 1 /\ x \in Int /\ y \in Int /\ b \in Nat \ {0}
  BY <1>1, <1>2
<1>4. QOffset(j, k) + q = x * b + s
  <2>1. x * b \in Int
    BY <1>3
  <2>2. QOffset(j, k) = x * b + (b - j.q_len[k])
    BY DEF QOffset
  <2> HIDE DEF x
  <2>3. x * b \in Int
    BY <1>3
  <2> QED
    BY <1>1, <1>2, <2>2, <2>3
<1>5. ASSUME x * b + s = y * b + r PROVE x = y /\ s = r
  <2> HIDE DEF x, y, b, s
  <2>1. r \in 0 .. b - 1
    BY DEF b
  <2> QED
    BY <1>3, <1>5, <2>1, OneQuotient
<1>6. ASSUME k = i, q = r - (j.rows - j.q_len[i]) PROVE x = y /\ s = r
  BY <1>1, <1>2, <1>6
<1>7. ASSUME x = y /\ s = r PROVE k = i /\ q = r - (j.rows - j.q_len[i])
  <2>1. k = i
    BY <1>1, <1>7
  <2> QED
    BY <1>1, <1>2, <1>7, <2>1
<1>8. ASSUME x = y /\ s = r PROVE x * b + s = y * b + r
  BY <1>8
<1>9. (i - 1) * j.rows + r = y * b + r
  OBVIOUS
<1> HIDE DEF x, y, s, b
<1> QED
  BY <1>4, <1>5, <1>6, <1>7, <1>8, <1>9

LEMMA ProducedOnce ==
  ASSUME Sizes, WellFormed(job), output = Produced(job)
  PROVE  WorkDoneOnce
<1> DEFINE Done(i, r, h) ==
             {w \in output : w.row = (i - 1) * job.rows + r /\ w.head = h}
           query(i, r) == r - (job.rows - job.q_len[i])
<1>1. ASSUME NEW i \in Seqs(job), NEW r \in 0 .. job.rows - 1, NEW h \in Heads(job)
      PROVE  IF query(i, r) < 0 THEN Done(i, r, h) = {}
             ELSE /\ Cardinality(Done(i, r, h)) = 1
                  /\ \A w \in Done(i, r, h) : /\ w.kv_head = h \div job.n_rep
                                              /\ w.read = Expected(i, query(i, r))
  <2>1. ASSUME NEW w
        PROVE  w \in Done(i, r, h) <=>
                 query(i, r) \in Queries(job, i) /\ w = Cell(job, i, query(i, r), h)
    <3>1. ASSUME w \in Done(i, r, h)
          PROVE  query(i, r) \in Queries(job, i) /\ w = Cell(job, i, query(i, r), h)
      <4>1. w \in Produced(job) /\ w.row = (i - 1) * job.rows + r /\ w.head = h
        BY <3>1
      <4>2. PICK k \in Seqs(job) :
               w \in {Cell(job, k, q, g) : q \in Queries(job, k), g \in Heads(job)}
        BY <4>1 DEF Produced
      <4>3. PICK q \in Queries(job, k), g \in Heads(job) : w = Cell(job, k, q, g)
        BY <4>2
      <4>4. w.row = QOffset(job, k) + q /\ w.head = g
        BY <4>3 DEF Cell
      <4>5. k = i /\ q = query(i, r)
        BY <4>1, <4>4, RowIs
      <4> QED
        BY <4>1, <4>3, <4>4, <4>5
    <3>2. ASSUME query(i, r) \in Queries(job, i), w = Cell(job, i, query(i, r), h)
          PROVE  w \in Done(i, r, h)
      <4>1. w \in Produced(job)
        BY <3>2 DEF Produced
      <4>2. w.row = QOffset(job, i) + query(i, r) /\ w.head = h
        BY <3>2 DEF Cell
      <4>3. QOffset(job, i) + query(i, r) = (i - 1) * job.rows + r
        BY <3>2, RowIs
      <4> QED
        BY <4>1, <4>2, <4>3
    <3> QED
      BY <3>1, <3>2
  <2>2. query(i, r) \in Int /\ (query(i, r) \in Queries(job, i) <=> query(i, r) >= 0)
    <3>1. job.rows \in Nat /\ job.q_len[i] \in Nat /\ job.q_len[i] <= job.rows
      BY DEF WellFormed, Seqs
    <3> QED
      BY <3>1 DEF Queries
  <2>3. CASE query(i, r) < 0
    <3> HIDE DEF Done, query
    <3>1. Done(i, r, h) = {}
      BY <2>1, <2>2, <2>3
    <3> QED
      BY <2>3, <3>1
  <2>4. CASE ~(query(i, r) < 0)
    <3> DEFINE c == Cell(job, i, query(i, r), h)
    <3>1. c.kv_head = h \div job.n_rep
      BY DEF Cell
    <3>2. c.read = Expected(i, query(i, r))
      <4>1. query(i, r) + job.kv_len[i] - job.q_len[i] = job.kv_len[i] - job.q_len[i] + query(i, r)
        <5>1. job.kv_len[i] \in Nat /\ job.q_len[i] \in Nat
          BY DEF WellFormed, Seqs
        <5> HIDE DEF query
        <5> QED
          BY <2>2, <5>1
      <4>2. c.read = InWindow(query(i, r) + job.kv_len[i] - job.q_len[i], job.window)
                       \union IF job.sinks THEN {-1} ELSE {}
        BY DEF Cell
      <4> HIDE DEF query, c
      <4> QED
        BY <4>1, <4>2 DEF InWindow, Expected
    <3> HIDE DEF c, Done, query
    <3>3. Done(i, r, h) = {c}
      BY <2>1, <2>2, <2>4 DEF c
    <3>4. Cardinality({c}) = 1
      BY FS_Singleton
    <3> QED
      BY <2>4, <3>1, <3>2, <3>3, <3>4
  <2> QED
    BY <2>3, <2>4
<1>2. ASSUME NEW p \in {<<i, r>> : i \in Seqs(job), r \in 0 .. job.rows - 1},
             NEW h \in 0 .. QHeads(job) - 1
      PROVE  IF query(p[1], p[2]) < 0 THEN Done(p[1], p[2], h) = {}
             ELSE /\ Cardinality(Done(p[1], p[2], h)) = 1
                  /\ \A w \in Done(p[1], p[2], h) :
                       /\ w.kv_head = h \div job.n_rep
                       /\ w.read = Expected(p[1], query(p[1], p[2]))
  <2>1. p[1] \in Seqs(job) /\ p[2] \in 0 .. job.rows - 1 /\ h \in Heads(job)
    BY DEF Heads
  <2> HIDE DEF Done, query
  <2> QED
    BY <1>1, <2>1
<1> DEFINE real == {<<i, r>> : i \in Seqs(job), r \in 0 .. job.rows - 1}
           done(p, h) ==
             {w \in output : w.row = (p[1] - 1) * job.rows + p[2] /\ w.head = h}
           Right(p, h) ==
             IF query(p[1], p[2]) < 0 THEN done(p, h) = {}
             ELSE /\ Cardinality(done(p, h)) = 1
                  /\ \A w \in done(p, h) :
                       /\ w.kv_head = h \div job.n_rep
                       /\ w.read = Expected(p[1], query(p[1], p[2]))
<1>3. \A p \in real, h \in 0 .. QHeads(job) - 1 : Right(p, h)
  BY <1>2
<1>4. WorkDoneOnce <=> (output # {} => \A p \in real, h \in 0 .. QHeads(job) - 1 : Right(p, h))
  BY DEF WorkDoneOnce
<1> HIDE DEF real, Right
<1> QED
  BY <1>3, <1>4

-----------------------------------------------------------------------------
KernelsInv == WellFormed(job) /\ output \in {{}, Produced(job)}

LEMMA KernelsKeep ==
  ASSUME Sizes, KernelsInv, Dispatch \/ UNCHANGED vars
  PROVE  KernelsInv'
<1>1. CASE Dispatch
  BY <1>1, OutputIs DEF KernelsInv, Dispatch
<1>2. CASE UNCHANGED vars
  BY <1>2 DEF KernelsInv, vars
<1> QED
  BY <1>1, <1>2

LEMMA KernelsDone ==
  ASSUME Sizes, KernelsInv
  PROVE  WorkDoneOnce
<1>1. CASE output = {}
  BY <1>1 DEF WorkDoneOnce
<1>2. CASE output = Produced(job)
  BY <1>2, ProducedOnce DEF KernelsInv
<1> QED
  BY <1>1, <1>2 DEF KernelsInv

(* Of every call the backend can make, whatever its lengths, heads,        *)
(* threads, window and padding are and however large blocks, tiles and     *)
(* the limits are, every query row of every head is computed by exactly    *)
(* one work item, from the key/value head of its group and exactly the     *)
(* positions its query attends to; no item writes a row of the padding.    *)
THEOREM EveryRowIsDoneOnce ==
  ASSUME Sizes, \A j \in Jobs : WellFormed(j)
  PROVE  Spec => []WorkDoneOnce
<1>1. Init => KernelsInv
  BY DEF Init, KernelsInv
<1>2. KernelsInv /\ [Dispatch]_vars => KernelsInv'
  BY KernelsKeep
<1>3. KernelsInv => WorkDoneOnce
  BY KernelsDone
<1> QED
  BY <1>1, <1>2, <1>3, PTL DEF Spec
=============================================================================
