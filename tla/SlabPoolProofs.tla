--------------------------- MODULE SlabPoolProofs ---------------------------
(***************************************************************************)
(* Theorems about SlabPool, for every pool, block size, set of callers and *)
(* of sequences: who owns a block, what the free list, the owners and the  *)
(* counter say of it, that committed tokens have blocks, and that the pool *)
(* is the list of entries per sequence that SlabStore promises.            *)
(*                                                                         *)
(* Exclusive ownership follows from the owners kept in blocks: a block in  *)
(* a list names the list's sequence and its own place in it, a free block  *)
(* names nobody, so no block can be in two places.  Coverage after a       *)
(* commit rests on what the preparation left, which other calls do not     *)
(* touch: the calls under way are about different sequences.               *)
(***************************************************************************)
EXTENDS SlabPool, SequenceTheorems, TLAPS

-----------------------------------------------------------------------------
(* The inductive invariant                                                 *)

(* Calls as records, which TLC could not enumerate. *)
Supply == UNION {[batch -> Seq(Value)] : batch \in SUBSET Seqs}
Call == [phase : {"idle", "prepare", "copy"}, ids : Seq(Seqs), kv : Supply,
         todo : SUBSET (Seqs \X Nat)]
TypeInv == PoolTypeOK /\ call \in [Thread -> Call]

ListsOwned ==
  \A s \in DOMAIN sequences :
    \A i \in 1 .. Len(sequences[s].block_indices) :
      blocks[sequences[s].block_indices[i]] =
        [sequence_id |-> s, block_index |-> i - 1]

FreeOwned ==
  /\ IsInjective(free_list)
  /\ \A i \in 1 .. Len(free_list) : blocks[free_list[i]].sequence_id = None
  /\ \A b \in Blocks :
       blocks[b].sequence_id = None => b \in Range(free_list)
  /\ allocated_blocks = NumBlocks - Len(free_list)

(* The sequences of the update of t that have passed the preparation. *)
Ready(t) == DOMAIN call[t].kv \ Range(call[t].ids)

CallsApart ==
  /\ \A t \in Thread : \A u \in Thread \ {t} :
       DOMAIN call[t].kv \intersect DOMAIN call[u].kv = {}
  /\ \A t \in Thread :
       /\ Range(call[t].ids) \subseteq DOMAIN call[t].kv
       /\ call[t].phase = "copy" => call[t].ids = <<>>
       /\ \A todo \in call[t].todo :
            /\ todo[1] \in DOMAIN call[t].kv
            /\ todo[2] < Len(call[t].kv[todo[1]])

ReadyCovered ==
  \A t \in Thread : \A s \in Ready(t) :
    /\ s \in DOMAIN sequences
    /\ NewLen(t, s) <= sequences[s].max_seq_len
    /\ BlocksFor(NewLen(t, s)) <= Len(sequences[s].block_indices)

Covered ==
  \A s \in DOMAIN sequences :
    /\ BlocksFor(sequences[s].seq_len) <= Len(sequences[s].block_indices)
    /\ sequences[s].seq_len <= sequences[s].max_seq_len

IInv == /\ TypeInv /\ ListsOwned /\ FreeOwned
        /\ CallsApart /\ ReadyCovered /\ Covered

-----------------------------------------------------------------------------
(* Arithmetic                                                              *)

LEMMA DivBounds ==
  ASSUME NEW n \in Nat, NEW d \in Nat \ {0}
  PROVE  /\ n \div d \in Nat
         /\ (n \div d) * d <= n
         /\ n < (n \div d) * d + d
BY Z3

LEMMA DivMonotonic ==
  ASSUME NEW m \in Nat, NEW n \in Nat, NEW d \in Nat \ {0}, m <= n
  PROVE  m \div d <= n \div d
BY Z3

LEMMA BlocksForType == ASSUME NEW n \in Nat PROVE BlocksFor(n) \in Nat
BY PoolAssumption, DivBounds, n + BlockSize - 1 \in Nat DEF BlocksFor

(* Fewer tokens need no more blocks. *)
LEMMA BlocksForMonotonic ==
  ASSUME NEW m \in Nat, NEW n \in Nat, m <= n
  PROVE  BlocksFor(m) <= BlocksFor(n)
BY PoolAssumption, DivMonotonic, m + BlockSize - 1 \in Nat,
   n + BlockSize - 1 \in Nat DEF BlocksFor

LEMMA NoBlocksForNothing == BlocksFor(0) = 0
<1>1. BlockSize - 1 \in Nat /\ BlockSize \in Nat \ {0}
  BY PoolAssumption
<1>2. (0 + BlockSize - 1) \div BlockSize = 0
  BY <1>1, Z3
<1>3. QED BY <1>2 DEF BlocksFor

(* Blocks up to the one of the last token are enough for all. *)
LEMMA LastBlockBound ==
  ASSUME NEW n \in Nat
  PROVE  LastBlock(n) \in Nat /\ BlocksFor(n) <= LastBlock(n) + 1
<1>1. CASE n = 0
  BY <1>1, NoBlocksForNothing DEF LastBlock
<1>2. CASE n # 0
  <2>1. n - 1 \in Nat /\ BlockSize \in Nat \ {0}
    BY <1>2, PoolAssumption
  <2>2. (n + BlockSize - 1) \div BlockSize <= (n - 1) \div BlockSize + 1
    BY <2>1, Z3
  <2>3. QED BY <1>2, <2>1, <2>2, DivBounds DEF LastBlock, BlocksFor
<1>3. QED BY <1>1, <1>2

-----------------------------------------------------------------------------
(* Consequences of the types                                               *)

LEMMA SequenceType ==
  ASSUME TypeInv, NEW s \in DOMAIN sequences
  PROVE  /\ s \in Seqs
         /\ sequences[s] \in SequenceState
         /\ sequences[s].seq_len \in Nat
         /\ sequences[s].max_seq_len \in Nat
         /\ sequences[s].block_indices \in Seq(Blocks)
         /\ Len(sequences[s].block_indices) \in Nat
BY DEF TypeInv, PoolTypeOK, SequenceState

LEMMA CallType ==
  ASSUME TypeInv, NEW t \in Thread
  PROVE  /\ call[t] \in Call
         /\ call[t].ids \in Seq(Seqs)
         /\ DOMAIN call[t].kv \subseteq Seqs
         /\ \A s \in DOMAIN call[t].kv : /\ call[t].kv[s] \in Seq(Value)
                                         /\ Len(call[t].kv[s]) \in Nat
         /\ call[t].kv \in [DOMAIN call[t].kv -> Seq(Value)]
         /\ call[t].todo \subseteq Seqs \X Nat
<1>1. call[t] \in Call
  BY DEF TypeInv
<1>2. PICK batch \in SUBSET Seqs : call[t].kv \in [batch -> Seq(Value)]
  BY <1>1 DEF Call, Supply
<1>3. QED BY <1>1, <1>2 DEF Call

LEMMA TypeInvIsEnough == TypeInv => TypeOK
<1> SUFFICES ASSUME TypeInv PROVE TypeOK
  OBVIOUS
<1>1. ASSUME NEW t \in Thread PROVE IsCall(call[t])
  BY CallType DEF IsCall, Call
<1>2. QED BY <1>1 DEF TypeInv, TypeOK

LEMMA NewLenType ==
  ASSUME TypeInv, NEW t \in Thread, NEW s \in DOMAIN sequences,
         s \in DOMAIN call[t].kv
  PROVE  NewLen(t, s) \in Nat
BY SequenceType, CallType DEF NewLen

(* What a Supply is. *)
LEMMA SupplyIntro ==
  ASSUME NEW batch \in SUBSET Seqs, NEW kv \in [batch -> Seq(Value)]
  PROVE  kv \in Supply
BY DEF Supply

LEMMA IdleType == Idle \in Call /\ DOMAIN Idle.kv = {} /\ Idle.ids = <<>>
                  /\ Idle.todo = {} /\ Idle.phase = "idle"
<1>1. NoValues \in [{} -> Seq(Value)]
  BY DEF NoValues
<1>2. NoValues \in Supply
  BY <1>1, SupplyIntro
<1>3. QED BY <1>1, <1>2 DEF Idle, Call, NoValues

-----------------------------------------------------------------------------
(* The initial state                                                       *)

LEMMA InitInv == Init => IInv
<1> SUFFICES ASSUME Init PROVE IInv
  OBVIOUS
<1> USE DEF Init
<1>1. NumBlocks \in Nat
  BY PoolAssumption
<1>2. free_list \in Seq(Blocks) /\ Len(free_list) = NumBlocks
  <2>1. \A i \in 1 .. NumBlocks : NumBlocks - i \in Blocks
    BY <1>1 DEF Blocks
  <2>2. QED BY <1>1, <2>1, IsASeq DEF FreeStack
<1>3. sequences = [s \in {} |-> None] /\ DOMAIN sequences = {}
  OBVIOUS
<1>4. TypeInv
  <2>1. blocks \in [Blocks -> BlockInfo]
    BY DEF FreeBlock, BlockInfo
  <2>2. call \in [Thread -> Call]
    BY IdleType
  <2>3. sequences \in [DOMAIN sequences -> SequenceState]
    BY <1>3
  <2>4. QED BY <1>2, <1>3, <2>1, <2>2, <2>3 DEF TypeInv, PoolTypeOK
<1>5. FreeOwned
  <2>1. IsInjective(free_list)
    BY <1>1 DEF IsInjective, FreeStack
  <2>2. ASSUME NEW b \in Blocks PROVE b \in Range(free_list)
    <3>1. NumBlocks - b \in 1 .. NumBlocks /\ NumBlocks - (NumBlocks - b) = b
      BY <1>1 DEF Blocks
    <3>2. free_list[NumBlocks - b] = b
      BY <3>1 DEF FreeStack
    <3>3. QED BY <3>1, <3>2 DEF Range, FreeStack
  <2>3. \A i \in 1 .. Len(free_list) : free_list[i] \in Blocks
    BY <1>2
  <2>4. QED BY <1>1, <1>2, <2>1, <2>2, <2>3 DEF FreeOwned, FreeBlock
<1>6. CallsApart /\ ReadyCovered
  BY IdleType DEF CallsApart, ReadyCovered, Ready, Range
<1>7. QED BY <1>3, <1>4, <1>5, <1>6
          DEF IInv, ListsOwned, Covered

-----------------------------------------------------------------------------
(* Blocks and lists                                                        *)

(* The blocks of s in list go back to the free list and nothing else does. *)
LEMMA ReleaseFacts ==
  ASSUME TypeInv, FreeOwned, NEW s \in Seqs, NEW list \in Seq(Blocks),
         IsInjective(list), Release(list),
         \A i \in 1 .. Len(list) : blocks[list[i]].sequence_id = s
  PROVE  /\ blocks' \in [Blocks -> BlockInfo]
         /\ free_list' \in Seq(Blocks)
         /\ allocated_blocks' \in Int
         /\ FreeOwned'
         /\ \A b \in Blocks :
              blocks[b].sequence_id # s => blocks'[b] = blocks[b]
         /\ \A b \in Blocks :
              (\A i \in 1 .. Len(list) : list[i] # b) => blocks'[b] = blocks[b]
<1> DEFINE n == Len(free_list)
           m == Len(list)
<1>1. /\ free_list \in Seq(Blocks) /\ n \in Nat /\ m \in Nat
      /\ DOMAIN list = 1 .. m /\ DOMAIN free_list = 1 .. n
      /\ blocks \in [Blocks -> BlockInfo] /\ allocated_blocks \in Int
      /\ NumBlocks \in Nat
  BY PoolAssumption DEF TypeInv, PoolTypeOK
<1>2. /\ free_list' = free_list \o list
      /\ blocks' = [b \in Blocks |-> IF b \in Range(list) THEN FreeBlock
                                                          ELSE blocks[b]]
      /\ allocated_blocks' = allocated_blocks - m
  BY DEF Release
<1>3. FreeBlock \in BlockInfo /\ FreeBlock.sequence_id = None
  BY DEF FreeBlock, BlockInfo
<1>4. /\ free_list' \in Seq(Blocks) /\ Len(free_list') = n + m
      /\ \A i \in 1 .. n : free_list'[i] = free_list[i]
      /\ \A i \in 1 .. m : free_list'[n + i] = list[i]
      /\ \A i \in n + 1 .. n + m :
           i - n \in 1 .. m /\ free_list'[i] = list[i - n]
  BY <1>1, <1>2
<1>5. /\ \A i \in 1 .. n : /\ free_list[i] \in Blocks
                           /\ blocks[free_list[i]].sequence_id = None
      /\ \A i \in 1 .. m : list[i] \in Blocks /\ list[i] \in Range(list)
  BY <1>1 DEF FreeOwned, Range
<1>6. None # s
  BY NothingAssumption
<1>7. /\ \A i \in 1 .. n : \A j \in 1 .. n :
           free_list[i] = free_list[j] => i = j
      /\ \A i \in 1 .. m : \A j \in 1 .. m : list[i] = list[j] => i = j
  BY <1>1 DEF IsInjective, FreeOwned
<1>8. IsInjective(free_list')
  <2> SUFFICES ASSUME NEW i \in 1 .. n + m, NEW j \in 1 .. n + m,
                      free_list'[i] = free_list'[j]
               PROVE  i = j
    BY <1>4 DEF IsInjective
  <2> HIDE DEF n, m
  <2>1. CASE i <= n /\ j <= n
    <3>1. i \in 1 .. n /\ j \in 1 .. n
      BY <2>1, <1>1
    <3>2. QED BY <3>1, <1>4, <1>7
  <2>2. CASE i > n /\ j > n
    <3>1. i \in n + 1 .. n + m /\ j \in n + 1 .. n + m
      BY <2>2, <1>1
    <3>2. i - n = j - n
      BY <3>1, <1>4, <1>7
    <3>3. QED BY <3>2, <1>1
  <2>3. CASE i <= n /\ j > n
    <3>1. i \in 1 .. n /\ j \in n + 1 .. n + m
      BY <2>3, <1>1
    <3>2. QED BY <3>1, <1>4, <1>5, <1>6 DEF m
  <2>4. CASE i > n /\ j <= n
    <3>1. j \in 1 .. n /\ i \in n + 1 .. n + m
      BY <2>4, <1>1
    <3>2. QED BY <3>1, <1>4, <1>5, <1>6 DEF m
  <2>5. QED BY <2>1, <2>2, <2>3, <2>4, <1>1
<1>9. \A i \in 1 .. n + m : blocks'[free_list'[i]].sequence_id = None
  <2> TAKE i \in 1 .. n + m
  <2>1. CASE i \in 1 .. n
    BY <2>1, <1>2, <1>3, <1>4, <1>5
  <2>2. CASE i \in n + 1 .. n + m
    BY <2>2, <1>2, <1>3, <1>4, <1>5
  <2>3. QED BY <2>1, <2>2, <1>1
<1>10. ASSUME NEW b \in Blocks, blocks'[b].sequence_id = None
       PROVE  b \in Range(free_list')
  <2>1. DOMAIN free_list' = 1 .. n + m
    BY <1>4
  <2>5. n \in Nat /\ m \in Nat
    BY <1>1
  <2> HIDE DEF n, m
  <2>2. CASE b \in Range(list)
    <3>1. PICK i \in 1 .. m : b = list[i]
      BY <2>2, <1>1 DEF Range
    <3>2. n + i \in 1 .. n + m /\ free_list'[n + i] = b
      BY <3>1, <2>5, <1>4
    <3>3. QED BY <3>2, <2>1 DEF Range
  <2>3. CASE b \notin Range(list)
    <3>1. b \in Range(free_list)
      BY <2>3, <1>2, <1>10 DEF FreeOwned
    <3>2. PICK i \in 1 .. n : b = free_list[i]
      BY <3>1, <1>1 DEF Range
    <3>3. i \in 1 .. n + m /\ free_list'[i] = b
      BY <3>2, <2>5, <1>4
    <3>4. QED BY <3>3, <2>1 DEF Range
  <2>4. QED BY <2>2, <2>3
<1>11. allocated_blocks' = NumBlocks - Len(free_list')
  BY <1>1, <1>2, <1>4 DEF FreeOwned
<1>12. blocks' \in [Blocks -> BlockInfo] /\ allocated_blocks' \in Int
  BY <1>1, <1>2, <1>3
<1>13. \A b \in Blocks : (\A i \in 1 .. m : list[i] # b) => b \notin Range(list)
  BY <1>1 DEF Range
<1>14. FreeOwned'
  BY <1>4, <1>8, <1>9, <1>10, <1>11 DEF FreeOwned
<1>15. \A b \in Blocks : blocks[b].sequence_id # s => b \notin Range(list)
  BY <1>1 DEF Range
<1>16. QED BY <1>2, <1>4, <1>12, <1>13, <1>14, <1>15

(* A block that is named in the list of s is named there once. *)
LEMMA ListFacts ==
  ASSUME TypeInv, ListsOwned, NEW s \in DOMAIN sequences
  PROVE  /\ IsInjective(sequences[s].block_indices)
         /\ \A i \in 1 .. Len(sequences[s].block_indices) :
              /\ sequences[s].block_indices[i] \in Blocks
              /\ blocks[sequences[s].block_indices[i]].sequence_id = s
              /\ blocks[sequences[s].block_indices[i]].block_index = i - 1
<1> DEFINE list == sequences[s].block_indices
<1>1. list \in Seq(Blocks) /\ DOMAIN list = 1 .. Len(list) /\ Len(list) \in Nat
  BY SequenceType
<1>2. \A i \in 1 .. Len(list) :
        blocks[list[i]] = [sequence_id |-> s, block_index |-> i - 1]
  BY DEF ListsOwned
<1>3. \A i \in 1 .. Len(list) : /\ list[i] \in Blocks
                                /\ blocks[list[i]].sequence_id = s
                                /\ blocks[list[i]].block_index = i - 1
  <2> HIDE DEF list
  <2> TAKE i \in 1 .. Len(list)
  <2>1. blocks[list[i]] = [sequence_id |-> s, block_index |-> i - 1]
    BY <1>2
  <2>2. list[i] \in Blocks
    BY <1>1
  <2>3. QED BY <2>1, <2>2
<1>4. IsInjective(list)
  BY <1>1, <1>3, SMTT(30) DEF IsInjective
<1>5. QED BY <1>3, <1>4

(* Updates under way do not see changes of the sequences of nobody. *)
LEMMA ReadyFrame ==
  ASSUME ReadyCovered, call' = call,
         \A s \in DOMAIN sequences :
           Busy(s) => s \in DOMAIN sequences' /\ sequences'[s] = sequences[s]
  PROVE  ReadyCovered'
<1> SUFFICES ASSUME NEW t \in Thread, NEW s \in Ready(t)
             PROVE  /\ s \in DOMAIN sequences'
                    /\ NewLen(t, s)' <= sequences'[s].max_seq_len
                    /\ BlocksFor(NewLen(t, s)') <=
                         Len(sequences'[s].block_indices)
  BY DEF ReadyCovered, Ready, BlocksFor
<1>1. Busy(s)
  BY DEF Busy, Ready
<1>2. s \in DOMAIN sequences /\ sequences'[s] = sequences[s]
      /\ s \in DOMAIN sequences'
  BY <1>1 DEF ReadyCovered
<1>3. NewLen(t, s)' = NewLen(t, s)
  BY <1>2 DEF NewLen
<1>4. QED BY <1>2, <1>3 DEF ReadyCovered

-----------------------------------------------------------------------------
(* Sequences                                                               *)

LEMMA CreateInv ==
  ASSUME IInv, NEW s \in Seqs, NEW max_seq_len \in MaxSeqLen,
         CreateSequence(s, max_seq_len)
  PROVE  IInv'
<1>1. /\ TypeInv /\ ListsOwned /\ FreeOwned
      /\ CallsApart /\ ReadyCovered /\ Covered
  BY DEF IInv
<1>2. /\ DOMAIN sequences' = DOMAIN sequences \union {s}
      /\ s \notin DOMAIN sequences
      /\ sequences'[s] = [seq_len |-> 0, max_seq_len |-> max_seq_len,
                          block_indices |-> <<>>]
      /\ \A u \in DOMAIN sequences : sequences'[u] = sequences[u]
      /\ sequences' \in [DOMAIN sequences' -> {sequences'[u] : u \in DOMAIN sequences'}]
      /\ UNCHANGED <<blocks, free_list, allocated_blocks, pool_tensor,
                     sequence_mutex, call>>
  BY DEF CreateSequence
<1>3. max_seq_len \in Nat /\ sequences'[s] \in SequenceState
  BY <1>2, CallAssumption DEF SequenceState
<1>4. TypeInv'
  <2>1. DOMAIN sequences' \subseteq Seqs
    BY <1>1, <1>2 DEF TypeInv, PoolTypeOK
  <2>2. \A u \in DOMAIN sequences' : sequences'[u] \in SequenceState
    BY <1>1, <1>2, <1>3, SequenceType
  <2>3. sequences' \in [DOMAIN sequences' -> SequenceState]
    BY <1>2, <2>2
  <2>4. QED BY <1>1, <1>2, <2>1, <2>3 DEF TypeInv, PoolTypeOK
<1>5. ListsOwned'
  <2> SUFFICES ASSUME NEW u \in DOMAIN sequences',
                      NEW i \in 1 .. Len(sequences'[u].block_indices)
               PROVE  blocks'[sequences'[u].block_indices[i]] =
                        [sequence_id |-> u, block_index |-> i - 1]
    BY DEF ListsOwned
  <2>1. u # s
    BY <1>2
  <2>2. QED BY <2>1, <1>1, <1>2 DEF ListsOwned
<1>6. Covered'
  <2>1. ASSUME NEW u \in DOMAIN sequences'
        PROVE  /\ BlocksFor(sequences'[u].seq_len) <=
                    Len(sequences'[u].block_indices)
               /\ sequences'[u].seq_len <= sequences'[u].max_seq_len
    <3>1. CASE u = s
      BY <3>1, <1>2, <1>3, NoBlocksForNothing
    <3>2. CASE u # s
      BY <3>2, <1>1, <1>2 DEF Covered
    <3>3. QED BY <3>1, <3>2
  <2>2. QED BY <2>1 DEF Covered, BlocksFor
<1>7. ReadyCovered'
  BY <1>1, <1>2, ReadyFrame
<1>8. FreeOwned' /\ CallsApart'
  BY <1>1, <1>2 DEF FreeOwned, CallsApart
<1>9. QED BY <1>4, <1>5, <1>6, <1>7, <1>8 DEF IInv

LEMMA RemoveInv ==
  ASSUME IInv, NEW s \in Seqs, RemoveSequence(s)
  PROVE  IInv'
<1>1. /\ TypeInv /\ ListsOwned /\ FreeOwned
      /\ CallsApart /\ ReadyCovered /\ Covered
  BY DEF IInv
<1> DEFINE list == sequences[s].block_indices
<1>2. /\ s \in DOMAIN sequences /\ ~Busy(s)
      /\ Release(list)
      /\ DOMAIN sequences' = DOMAIN sequences \ {s}
      /\ \A u \in DOMAIN sequences' : sequences'[u] = sequences[u]
      /\ sequences' \in [DOMAIN sequences' -> {sequences'[u] : u \in DOMAIN sequences'}]
      /\ UNCHANGED <<pool_tensor, sequence_mutex, call>>
  BY DEF RemoveSequence, Restrict
<1>3. /\ list \in Seq(Blocks) /\ IsInjective(list)
      /\ \A i \in 1 .. Len(list) : blocks[list[i]].sequence_id = s
  BY <1>1, <1>2, ListFacts, SequenceType
<1>4. /\ blocks' \in [Blocks -> BlockInfo] /\ free_list' \in Seq(Blocks)
      /\ allocated_blocks' \in Int /\ FreeOwned'
      /\ \A b \in Blocks :
           blocks[b].sequence_id # s => blocks'[b] = blocks[b]
  <2> HIDE DEF list
  <2>1. QED BY <1>1, <1>2, <1>3, ReleaseFacts
<1>5. TypeInv'
  <2>1. \A u \in DOMAIN sequences' : sequences'[u] \in SequenceState
    BY <1>1, <1>2, SequenceType
  <2>2. sequences' \in [DOMAIN sequences' -> SequenceState]
    BY <1>2, <2>1
  <2>3. QED BY <1>1, <1>2, <1>4, <2>2 DEF TypeInv, PoolTypeOK
<1>6. ListsOwned'
  <2> SUFFICES ASSUME NEW u \in DOMAIN sequences',
                      NEW i \in 1 .. Len(sequences'[u].block_indices)
               PROVE  blocks'[sequences'[u].block_indices[i]] =
                        [sequence_id |-> u, block_index |-> i - 1]
    BY DEF ListsOwned
  <2>1. u \in DOMAIN sequences /\ u # s /\ sequences'[u] = sequences[u]
    BY <1>2
  <2>2. /\ sequences[u].block_indices[i] \in Blocks
        /\ blocks[sequences[u].block_indices[i]].sequence_id = u
    BY <1>1, <2>1, ListFacts
  <2>3. blocks[sequences[u].block_indices[i]] =
          [sequence_id |-> u, block_index |-> i - 1]
    BY <1>1, <2>1 DEF ListsOwned
  <2>4. QED BY <1>4, <2>1, <2>2, <2>3
<1>7. Covered'
  BY <1>1, <1>2 DEF Covered, BlocksFor
<1>8. ReadyCovered'
  BY <1>1, <1>2, ReadyFrame
<1>9. CallsApart'
  BY <1>1, <1>2 DEF CallsApart
<1>10. QED BY <1>4, <1>5, <1>6, <1>7, <1>8, <1>9 DEF IInv

LEMMA TruncateInv ==
  ASSUME IInv, NEW s \in Seqs, s \in DOMAIN sequences,
         NEW n \in 0 .. sequences[s].seq_len, TruncateSequence(s, n)
  PROVE  IInv'
<1>1. /\ TypeInv /\ ListsOwned /\ FreeOwned
      /\ CallsApart /\ ReadyCovered /\ Covered
  BY DEF IInv
<1> DEFINE list == sequences[s].block_indices
           new_len == sequences[s].seq_len - n
           new == BlocksFor(new_len)
           old == BlocksFor(sequences[s].seq_len)
           cut == SubSeq(list, new + 1, old)
           kept == IF new < old THEN SubSeq(list, 1, new) ELSE list
<1>2. /\ ~Busy(s)
      /\ Release(cut)
      /\ sequences' = [sequences EXCEPT ![s].seq_len = new_len,
                                        ![s].block_indices = kept]
      /\ UNCHANGED <<pool_tensor, sequence_mutex, call>>
  BY DEF TruncateSequence
<1>3. /\ sequences[s] \in SequenceState /\ sequences[s].seq_len \in Nat
      /\ sequences[s].max_seq_len \in Nat
      /\ list \in Seq(Blocks) /\ Len(list) \in Nat
      /\ new_len \in Nat /\ new_len <= sequences[s].seq_len
  BY <1>1, SequenceType
<1>4. /\ new \in Nat /\ old \in Nat /\ new <= old /\ old <= Len(list)
  BY <1>1, <1>3, BlocksForType, BlocksForMonotonic DEF Covered
<1>5. /\ IsInjective(list) /\ DOMAIN list = 1 .. Len(list)
      /\ \A i \in 1 .. Len(list) :
           /\ list[i] \in Blocks
           /\ blocks[list[i]].sequence_id = s
           /\ blocks[list[i]] = [sequence_id |-> s, block_index |-> i - 1]
  BY <1>1, <1>3, ListFacts DEF ListsOwned
<1> HIDE DEF list, new_len, new, old
<1>6. /\ cut \in Seq(Blocks) /\ Len(cut) = old - new
      /\ \A i \in 1 .. Len(cut) : /\ new + i \in 1 .. Len(list)
                                  /\ cut[i] = list[new + i]
  BY <1>3, <1>4
<1>7. /\ kept \in Seq(Blocks) /\ Len(kept) \in Nat /\ new <= Len(kept)
      /\ \A i \in 1 .. Len(kept) :
           /\ i \in 1 .. Len(list) /\ kept[i] = list[i]
           /\ \A j \in 1 .. Len(cut) : i # new + j
  <2>1. CASE new < old
    BY <2>1, <1>3, <1>4, <1>6
  <2>2. CASE ~(new < old)
    BY <2>2, <1>3, <1>4, <1>6
  <2>3. QED BY <2>1, <2>2
<1> HIDE DEF cut, kept
<1>8. /\ \A i \in 1 .. Len(cut) : blocks[cut[i]].sequence_id = s
      /\ IsInjective(cut)
  <2>1. \A i \in 1 .. Len(cut) : blocks[cut[i]].sequence_id = s
    BY <1>5, <1>6
  <2>2. ASSUME NEW i \in 1 .. Len(cut), NEW j \in 1 .. Len(cut), cut[i] = cut[j]
        PROVE  i = j
    <3>1. new + i = new + j
      BY <2>2, <1>5, <1>6 DEF IsInjective
    <3>2. QED BY <3>1, <1>4
  <2>3. DOMAIN cut = 1 .. Len(cut)
    BY <1>6
  <2>4. QED BY <2>1, <2>2, <2>3 DEF IsInjective
<1>9. /\ blocks' \in [Blocks -> BlockInfo] /\ free_list' \in Seq(Blocks)
      /\ allocated_blocks' \in Int /\ FreeOwned'
      /\ \A b \in Blocks :
           blocks[b].sequence_id # s => blocks'[b] = blocks[b]
      /\ \A b \in Blocks :
           (\A i \in 1 .. Len(cut) : cut[i] # b) => blocks'[b] = blocks[b]
  BY <1>1, <1>2, <1>6, <1>8, ReleaseFacts
<1>10. /\ DOMAIN sequences' = DOMAIN sequences
       /\ sequences'[s] = [sequences[s] EXCEPT !.seq_len = new_len,
                                               !.block_indices = kept]
       /\ \A u \in DOMAIN sequences : u # s => sequences'[u] = sequences[u]
       /\ sequences' \in [DOMAIN sequences' -> {sequences'[u] : u \in DOMAIN sequences'}]
  <2>1. sequences \in [DOMAIN sequences -> SequenceState]
    BY <1>1 DEF TypeInv, PoolTypeOK
  <2>2. QED BY <1>2, <1>3, <2>1 DEF SequenceState
<1>11. /\ sequences'[s] \in SequenceState
       /\ sequences'[s].seq_len = new_len
       /\ sequences'[s].max_seq_len = sequences[s].max_seq_len
       /\ sequences'[s].block_indices = kept
  BY <1>3, <1>7, <1>10 DEF SequenceState
<1>12. TypeInv'
  <2>1. \A u \in DOMAIN sequences' : sequences'[u] \in SequenceState
    BY <1>1, <1>10, <1>11, SequenceType
  <2>2. sequences' \in [DOMAIN sequences' -> SequenceState]
    BY <1>10, <2>1
  <2>3. QED BY <1>1, <1>2, <1>9, <1>10, <2>2 DEF TypeInv, PoolTypeOK
<1>13. ListsOwned'
  <2> SUFFICES ASSUME NEW u \in DOMAIN sequences',
                      NEW i \in 1 .. Len(sequences'[u].block_indices)
               PROVE  blocks'[sequences'[u].block_indices[i]] =
                        [sequence_id |-> u, block_index |-> i - 1]
    BY DEF ListsOwned
  <2>1. CASE u = s
    <3>1. /\ i \in 1 .. Len(list) /\ kept[i] = list[i]
          /\ \A j \in 1 .. Len(cut) : i # new + j
      BY <2>1, <1>7, <1>11
    <3>2. ASSUME NEW j \in 1 .. Len(cut) PROVE cut[j] # list[i]
      BY <3>1, <1>5, <1>6 DEF IsInjective
    <3>3. blocks'[list[i]] = blocks[list[i]]
      BY <3>1, <3>2, <1>5, <1>9
    <3>4. QED BY <2>1, <3>1, <3>3, <1>5, <1>11
  <2>2. CASE u # s
    <3>1. u \in DOMAIN sequences /\ sequences'[u] = sequences[u]
      BY <2>2, <1>10
    <3>2. /\ sequences[u].block_indices[i] \in Blocks
          /\ blocks[sequences[u].block_indices[i]].sequence_id = u
      BY <1>1, <3>1, ListFacts
    <3>3. blocks[sequences[u].block_indices[i]] =
            [sequence_id |-> u, block_index |-> i - 1]
      BY <1>1, <3>1 DEF ListsOwned
    <3>4. QED BY <1>9, <2>2, <3>1, <3>2, <3>3
  <2>3. QED BY <2>1, <2>2
<1>14. Covered'
  <2>1. ASSUME NEW u \in DOMAIN sequences'
        PROVE  /\ BlocksFor(sequences'[u].seq_len) <=
                    Len(sequences'[u].block_indices)
               /\ sequences'[u].seq_len <= sequences'[u].max_seq_len
    <3>1. CASE u = s
      <4>1. sequences[s].seq_len <= sequences[s].max_seq_len
        BY <1>1 DEF Covered
      <4>2. BlocksFor(new_len) <= Len(kept)
        BY <1>7 DEF new
      <4>3. QED BY <3>1, <4>1, <4>2, <1>3, <1>11
    <3>2. CASE u # s
      BY <3>2, <1>1, <1>10 DEF Covered
    <3>3. QED BY <3>1, <3>2
  <2>2. QED BY <2>1 DEF Covered, BlocksFor
<1>15. ReadyCovered'
  BY <1>1, <1>2, <1>10, ReadyFrame
<1>16. CallsApart'
  BY <1>1, <1>2 DEF CallsApart
<1>17. QED BY <1>9, <1>12, <1>13, <1>14, <1>15, <1>16 DEF IInv

-----------------------------------------------------------------------------
(* cache_update                                                            *)

(* A call that changes nothing of the pool: its own record and the mutex. *)
LEMMA CallFrame ==
  ASSUME IInv, NEW t \in Thread, NEW c \in Call,
         call' = [call EXCEPT ![t] = c],
         sequence_mutex' \in Thread \union {NoThread},
         UNCHANGED <<sequences, blocks, free_list, allocated_blocks>>,
         pool_tensor' \in [Cells -> Value \union {Zero}],
         \A u \in Thread \ {t} : DOMAIN c.kv \intersect DOMAIN call[u].kv = {},
         Range(c.ids) \subseteq DOMAIN c.kv,
         c.phase = "copy" => c.ids = <<>>,
         \A todo \in c.todo : /\ todo[1] \in DOMAIN c.kv
                              /\ todo[2] < Len(c.kv[todo[1]]),
         \A s \in DOMAIN c.kv \ Range(c.ids) :
           /\ s \in DOMAIN sequences
           /\ sequences[s].seq_len + Len(c.kv[s]) <= sequences[s].max_seq_len
           /\ BlocksFor(sequences[s].seq_len + Len(c.kv[s])) <=
                Len(sequences[s].block_indices)
  PROVE  IInv'
<1>1. /\ TypeInv /\ ListsOwned /\ FreeOwned
      /\ CallsApart /\ ReadyCovered /\ Covered
  BY DEF IInv
<1>2. /\ call' \in [Thread -> Call] /\ call'[t] = c
      /\ \A u \in Thread \ {t} : call'[u] = call[u]
  BY <1>1 DEF TypeInv
<1>3. TypeInv'
  BY <1>1, <1>2 DEF TypeInv, PoolTypeOK
<1>4. ListsOwned' /\ FreeOwned' /\ Covered'
  BY <1>1 DEF ListsOwned, FreeOwned, Covered, BlocksFor
<1>5. CallsApart'
  <2>1. ASSUME NEW u \in Thread, NEW v \in Thread \ {u}
        PROVE  DOMAIN call'[u].kv \intersect DOMAIN call'[v].kv = {}
    <3>1. CASE u = t
      BY <3>1, <1>2
    <3>2. CASE v = t
      BY <3>2, <1>2
    <3>3. CASE u # t /\ v # t
      BY <3>3, <1>1, <1>2 DEF CallsApart
    <3>4. QED BY <3>1, <3>2, <3>3
  <2>2. ASSUME NEW u \in Thread
        PROVE  /\ Range(call'[u].ids) \subseteq DOMAIN call'[u].kv
               /\ call'[u].phase = "copy" => call'[u].ids = <<>>
               /\ \A todo \in call'[u].todo :
                    /\ todo[1] \in DOMAIN call'[u].kv
                    /\ todo[2] < Len(call'[u].kv[todo[1]])
    <3>1. CASE u = t
      BY <3>1, <1>2
    <3>2. CASE u # t
      BY <3>2, <1>1, <1>2 DEF CallsApart
    <3>3. QED BY <3>1, <3>2
  <2>3. QED BY <2>1, <2>2 DEF CallsApart, Range
<1>6. ReadyCovered'
  <2>1. ASSUME NEW u \in Thread, NEW s \in Ready(u)'
        PROVE  /\ s \in DOMAIN sequences'
               /\ NewLen(u, s)' <= sequences'[s].max_seq_len
               /\ BlocksFor(NewLen(u, s)') <= Len(sequences'[s].block_indices)
    <3>1. CASE u = t
      <4>1. s \in DOMAIN c.kv \ Range(c.ids)
        BY <3>1, <2>1, <1>2 DEF Ready, Range
      <4>2. NewLen(u, s)' = sequences[s].seq_len + Len(c.kv[s])
        BY <3>1, <1>2 DEF NewLen
      <4>3. QED BY <4>1, <4>2
    <3>2. CASE u # t
      <4>1. s \in Ready(u)
        BY <3>2, <2>1, <1>2 DEF Ready, Range
      <4>2. NewLen(u, s)' = NewLen(u, s)
        BY <3>2, <1>2 DEF NewLen
      <4>3. QED BY <4>1, <4>2, <1>1 DEF ReadyCovered
    <3>3. QED BY <3>1, <3>2
  <2>2. QED BY <2>1 DEF ReadyCovered, BlocksFor
<1>7. QED BY <1>3, <1>4, <1>5, <1>6 DEF IInv

LEMMA CacheUpdateInv ==
  ASSUME IInv, NEW t \in Thread, NEW ids \in Batch,
         NEW kv \in [Range(ids) -> Entries], CacheUpdate(t, ids, kv)
  PROVE  IInv'
<1> DEFINE todo == UNION {{s} \X (0 .. Len(kv[s]) - 1) : s \in DOMAIN kv}
           c == [phase |-> "prepare", ids |-> ids, kv |-> kv, todo |-> todo]
<1>1. /\ call' = [call EXCEPT ![t] = c] /\ sequence_mutex' = t
      /\ \A s \in Range(ids) : ~Busy(s)
      /\ UNCHANGED <<sequences, blocks, free_list, allocated_blocks, pool_tensor>>
  BY DEF CacheUpdate
<1>2. /\ ids \in Seq(Seqs) /\ Range(ids) \subseteq Seqs
      /\ DOMAIN kv = Range(ids)
      /\ \A s \in DOMAIN kv : kv[s] \in Seq(Value) /\ Len(kv[s]) \in Nat
  BY CallAssumption DEF Range
<1>3. \A p \in todo : /\ p \in Seqs \X Nat /\ p[1] \in DOMAIN kv
                      /\ p[2] < Len(kv[p[1]])
  BY <1>2
<1>4. kv \in [Range(ids) -> Seq(Value)]
  BY <1>2
<1>5. kv \in Supply
  BY <1>2, <1>4, SupplyIntro
<1>6. c \in Call
  <2>1. todo \in SUBSET (Seqs \X Nat)
    BY <1>3
  <2> HIDE DEF todo
  <2>2. QED BY <1>2, <1>5, <2>1 DEF Call
<1> HIDE DEF todo
<1>7. \A u \in Thread \ {t} : DOMAIN c.kv \intersect DOMAIN call[u].kv = {}
  BY <1>1, <1>2 DEF Busy
<1>8. /\ c.phase = "prepare" /\ c.kv = kv /\ c.ids = ids /\ c.todo = todo
      /\ DOMAIN c.kv \ Range(c.ids) = {} /\ Range(c.ids) \subseteq DOMAIN c.kv
  BY <1>2
<1>9. pool_tensor' \in [Cells -> Value \union {Zero}]
  BY <1>1 DEF IInv, TypeInv, PoolTypeOK
<1> HIDE DEF c
<1>10. QED BY <1>1, <1>3, <1>6, <1>7, <1>8, <1>9, CallFrame

LEMMA PrepareNextInv ==
  ASSUME IInv, NEW t \in Thread, NEW s \in Seqs, PrepareNext(t, s)
  PROVE  IInv'
<1>1. /\ TypeInv /\ ListsOwned /\ FreeOwned
      /\ CallsApart /\ ReadyCovered /\ Covered
  BY DEF IInv
<1> DEFINE rest == Tail(call[t].ids)
           c == [call[t] EXCEPT !.ids = rest,
                                !.phase = IF rest = <<>> THEN "copy" ELSE @]
<1>2. /\ call[t] \in Call /\ call[t].ids \in Seq(Seqs) /\ call[t].ids # <<>>
      /\ s = Head(call[t].ids) /\ call[t].phase = "prepare"
      /\ Range(call[t].ids) \subseteq DOMAIN call[t].kv
  BY <1>1, CallType DEF PrepareNext, Preparing, CallsApart
<1>3. /\ rest \in Seq(Seqs)
      /\ Range(call[t].ids) = {s} \union Range(rest)
  <2>1. /\ rest \in Seq(Seqs) /\ DOMAIN rest = 1 .. Len(rest)
        /\ Len(rest) = Len(call[t].ids) - 1
        /\ \A i \in 1 .. Len(rest) : rest[i] = call[t].ids[i + 1]
        /\ s = call[t].ids[1]
        /\ DOMAIN call[t].ids = 1 .. Len(call[t].ids)
        /\ Len(call[t].ids) \in Nat \ {0}
    BY <1>2
  <2> HIDE DEF rest
  <2>2. \A i \in 1 .. Len(rest) : i + 1 \in 1 .. Len(call[t].ids)
    BY <2>1
  <2>3. \A i \in 1 .. Len(call[t].ids) :
          i = 1 \/ (i - 1 \in 1 .. Len(rest) /\ rest[i - 1] = call[t].ids[i])
    BY <2>1
  <2>4. ASSUME NEW u \in Range(call[t].ids) PROVE u \in {s} \union Range(rest)
    <3>1. PICK i \in 1 .. Len(call[t].ids) : u = call[t].ids[i]
      BY <2>1 DEF Range
    <3>2. CASE i = 1
      BY <3>1, <3>2, <2>1
    <3>3. CASE i # 1
      BY <3>1, <3>3, <2>1, <2>3 DEF Range
    <3>4. QED BY <3>2, <3>3
  <2>5. {s} \union Range(rest) \subseteq Range(call[t].ids)
    <3>1. 1 \in DOMAIN call[t].ids
      BY <2>1
    <3>2. QED BY <2>1, <2>2, <3>1 DEF Range
  <2>6. QED BY <2>1, <2>4, <2>5
<1> HIDE DEF rest
<1>4. /\ c \in Call /\ c.ids = rest /\ c.kv = call[t].kv
      /\ c.todo = call[t].todo
      /\ c.phase = "copy" => rest = <<>>
  BY <1>2, <1>3 DEF Call
<1>5. /\ call' = [call EXCEPT ![t] = c]
      /\ sequence_mutex' \in Thread \union {NoThread}
      /\ UNCHANGED <<sequences, blocks, free_list, allocated_blocks, pool_tensor>>
  BY <1>1 DEF PrepareNext, rest, TypeInv
<1> HIDE DEF c
<1>6. /\ s \in DOMAIN sequences /\ s \in DOMAIN call[t].kv
      /\ NewLen(t, s) \in Nat
      /\ NewLen(t, s) <= sequences[s].max_seq_len
      /\ BlocksFor(NewLen(t, s)) <= Len(sequences[s].block_indices)
  <2>1. /\ s \in DOMAIN sequences /\ s \in DOMAIN call[t].kv
        /\ NewLen(t, s) <= sequences[s].max_seq_len
        /\ ~(Len(sequences[s].block_indices) <= LastBlock(NewLen(t, s)))
    BY <1>2, <1>3 DEF PrepareNext, Fits, NeedsBlock
  <2>2. NewLen(t, s) \in Nat
    BY <1>1, <2>1, NewLenType
  <2>3. /\ LastBlock(NewLen(t, s)) \in Nat
        /\ BlocksFor(NewLen(t, s)) <= LastBlock(NewLen(t, s)) + 1
        /\ BlocksFor(NewLen(t, s)) \in Nat
    BY <2>2, LastBlockBound, BlocksForType
  <2>4. Len(sequences[s].block_indices) \in Nat
    BY <1>1, <2>1, SequenceType
  <2>5. QED BY <2>1, <2>2, <2>3, <2>4
<1>7. ASSUME NEW u \in DOMAIN c.kv \ Range(c.ids)
      PROVE  /\ u \in DOMAIN sequences
             /\ sequences[u].seq_len + Len(c.kv[u]) <= sequences[u].max_seq_len
             /\ BlocksFor(sequences[u].seq_len + Len(c.kv[u])) <=
                  Len(sequences[u].block_indices)
  <2>1. CASE u = s
    BY <2>1, <1>4, <1>6 DEF NewLen
  <2>2. CASE u # s
    <3>1. u \in Ready(t)
      BY <2>2, <1>3, <1>4 DEF Ready
    <3>2. QED BY <3>1, <1>1, <1>4 DEF ReadyCovered, NewLen
  <2>3. QED BY <2>1, <2>2
<1>8. /\ \A u \in Thread \ {t} : DOMAIN c.kv \intersect DOMAIN call[u].kv = {}
      /\ Range(c.ids) \subseteq DOMAIN c.kv
      /\ c.phase = "copy" => c.ids = <<>>
      /\ \A todo \in c.todo : /\ todo[1] \in DOMAIN c.kv
                               /\ todo[2] < Len(c.kv[todo[1]])
  BY <1>1, <1>2, <1>3, <1>4 DEF CallsApart
<1>9. pool_tensor' \in [Cells -> Value \union {Zero}]
  BY <1>1, <1>5 DEF TypeInv, PoolTypeOK
<1>10. QED BY <1>4, <1>5, <1>7, <1>8, <1>9, CallFrame

LEMMA PrepareFailsInv ==
  ASSUME IInv, NEW t \in Thread, NEW s \in Seqs, PrepareFails(t, s)
  PROVE  IInv'
<1>1. /\ call' = [call EXCEPT ![t] = Idle] /\ sequence_mutex' = NoThread
      /\ UNCHANGED <<sequences, blocks, free_list, allocated_blocks, pool_tensor>>
  BY DEF PrepareFails
<1>2. pool_tensor' \in [Cells -> Value \union {Zero}]
  BY <1>1 DEF IInv, TypeInv, PoolTypeOK
<1>3. Range(Idle.ids) = {}
  BY IdleType DEF Range
<1>4. QED BY <1>1, <1>2, <1>3, IdleType, CallFrame

LEMMA CopyTokenInv ==
  ASSUME IInv, NEW t \in Thread, NEW p \in call[t].todo,
         CopyToken(t, p[1], p[2])
  PROVE  IInv'
<1>1. /\ TypeInv /\ ListsOwned /\ FreeOwned
      /\ CallsApart /\ ReadyCovered /\ Covered
  BY DEF IInv
<1> DEFINE c == [call[t] EXCEPT !.todo = @ \ {<<p[1], p[2]>>}]
<1>2. /\ call' = [call EXCEPT ![t] = c]
      /\ UNCHANGED <<sequences, blocks, free_list, allocated_blocks,
                     sequence_mutex>>
      /\ pool_tensor' = [pool_tensor EXCEPT
           ![Cell(p[1], sequences[p[1]].seq_len + p[2])] =
               call[t].kv[p[1]][p[2] + 1]]
  BY DEF CopyToken
<1>3. /\ call[t] \in Call /\ p \in Seqs \X Nat
      /\ p[1] \in DOMAIN call[t].kv /\ p[2] \in Nat
      /\ p[2] < Len(call[t].kv[p[1]])
      /\ call[t].kv[p[1]] \in Seq(Value)
  BY <1>1, CallType DEF CallsApart
<1>4. /\ c \in Call /\ c.ids = call[t].ids /\ c.kv = call[t].kv
      /\ c.todo \subseteq call[t].todo /\ c.phase = call[t].phase
  BY <1>3 DEF Call
<1>5. call[t].kv[p[1]][p[2] + 1] \in Value
  BY <1>3
<1>6. pool_tensor' \in [Cells -> Value \union {Zero}]
  BY <1>1, <1>2, <1>5 DEF TypeInv, PoolTypeOK
<1>7. sequence_mutex' \in Thread \union {NoThread}
  BY <1>1, <1>2 DEF TypeInv, PoolTypeOK
<1> HIDE DEF c
<1>8. /\ \A u \in Thread \ {t} : DOMAIN c.kv \intersect DOMAIN call[u].kv = {}
      /\ Range(c.ids) \subseteq DOMAIN c.kv
      /\ c.phase = "copy" => c.ids = <<>>
      /\ \A todo \in c.todo : /\ todo[1] \in DOMAIN c.kv
                               /\ todo[2] < Len(c.kv[todo[1]])
  BY <1>1, <1>4 DEF CallsApart
<1>9. ASSUME NEW u \in DOMAIN c.kv \ Range(c.ids)
      PROVE  /\ u \in DOMAIN sequences
             /\ sequences[u].seq_len + Len(c.kv[u]) <= sequences[u].max_seq_len
             /\ BlocksFor(sequences[u].seq_len + Len(c.kv[u])) <=
                  Len(sequences[u].block_indices)
  BY <1>1, <1>4 DEF ReadyCovered, Ready, NewLen
<1>10. QED BY <1>2, <1>4, <1>6, <1>7, <1>8, <1>9, CallFrame

LEMMA AllocateBlockInv ==
  ASSUME IInv, NEW t \in Thread, NEW s \in Seqs, AllocateBlock(t, s)
  PROVE  IInv'
<1>1. /\ TypeInv /\ ListsOwned /\ FreeOwned
      /\ CallsApart /\ ReadyCovered /\ Covered
  BY DEF IInv
<1> DEFINE n == Len(free_list)
           b == free_list[n]
           list == sequences[s].block_indices
           m == Len(list)
<1>2. /\ s \in DOMAIN sequences /\ free_list # <<>>
      /\ free_list' = SubSeq(free_list, 1, n - 1)
      /\ blocks' = [blocks EXCEPT ![b] =
                      [sequence_id |-> s, block_index |-> m]]
      /\ sequences' = [sequences EXCEPT ![s].block_indices = Append(list, b)]
      /\ allocated_blocks' = allocated_blocks + 1
      /\ UNCHANGED <<pool_tensor, sequence_mutex, call>>
  BY DEF AllocateBlock, Fits
<1>3. /\ free_list \in Seq(Blocks) /\ n \in Nat /\ n >= 1 /\ b \in Blocks
      /\ DOMAIN free_list = 1 .. n /\ n \in 1 .. n
      /\ list \in Seq(Blocks) /\ m \in Nat
      /\ blocks \in [Blocks -> BlockInfo] /\ allocated_blocks \in Int
      /\ sequences \in [DOMAIN sequences -> SequenceState]
      /\ NumBlocks \in Nat /\ None # s
  BY <1>1, <1>2, SequenceType, PoolAssumption, NothingAssumption
     DEF TypeInv, PoolTypeOK
<1>4. blocks[b].sequence_id = None
  BY <1>1, <1>3 DEF FreeOwned
<1>5. /\ free_list' \in Seq(Blocks) /\ Len(free_list') = n - 1
      /\ DOMAIN free_list' = 1 .. n - 1
      /\ \A i \in 1 .. n - 1 : free_list'[i] = free_list[i] /\ i \in 1 .. n
  BY <1>2, <1>3
<1>6. /\ Append(list, b) \in Seq(Blocks) /\ Len(Append(list, b)) = m + 1
      /\ \A i \in 1 .. m : Append(list, b)[i] = list[i]
      /\ Append(list, b)[m + 1] = b
  BY <1>3
<1>7. /\ sequences[s] \in SequenceState
      /\ DOMAIN sequences' = DOMAIN sequences
      /\ sequences'[s] = [sequences[s] EXCEPT !.block_indices = Append(list, b)]
      /\ \A u \in DOMAIN sequences : u # s => sequences'[u] = sequences[u]
      /\ sequences' \in [DOMAIN sequences' -> {sequences'[u] : u \in DOMAIN sequences'}]
  BY <1>1, <1>2, <1>3, SequenceType
<1> HIDE DEF n, b, list, m
<1>8. /\ sequences'[s] \in SequenceState
      /\ sequences'[s].seq_len = sequences[s].seq_len
      /\ sequences'[s].max_seq_len = sequences[s].max_seq_len
      /\ sequences'[s].block_indices = Append(list, b)
  BY <1>6, <1>7 DEF SequenceState
<1>9. /\ blocks'[b] = [sequence_id |-> s, block_index |-> m]
      /\ \A d \in Blocks : d # b => blocks'[d] = blocks[d]
      /\ blocks' \in [Blocks -> BlockInfo]
  BY <1>2, <1>3 DEF BlockInfo
<1>10. TypeInv'
  <2>1. \A u \in DOMAIN sequences' : sequences'[u] \in SequenceState
    BY <1>1, <1>7, <1>8, SequenceType
  <2>2. sequences' \in [DOMAIN sequences' -> SequenceState]
    BY <1>7, <2>1
  <2>3. QED BY <1>1, <1>2, <1>3, <1>5, <1>7, <1>9, <2>2, SMTT(30) DEF TypeInv, PoolTypeOK
<1>11. FreeOwned'
  <2>1. /\ \A i \in 1 .. n : \A j \in 1 .. n :
             free_list[i] = free_list[j] => i = j
        /\ \A i \in 1 .. n : /\ free_list[i] \in Blocks
                             /\ blocks[free_list[i]].sequence_id = None
    BY <1>1, <1>3 DEF FreeOwned, IsInjective, n
  <2>2. IsInjective(free_list')
    BY <1>5, <2>1 DEF IsInjective
  <2>3. ASSUME NEW i \in 1 .. n - 1
        PROVE  blocks'[free_list'[i]].sequence_id = None
    <3>1. i # n /\ i \in 1 .. n /\ free_list'[i] = free_list[i]
      BY <1>3, <1>5
    <3>2. free_list[i] # b
      BY <3>1, <2>1, <1>3 DEF b
    <3>3. QED BY <3>1, <3>2, <2>1, <1>9
  <2>4. ASSUME NEW d \in Blocks, blocks'[d].sequence_id = None
        PROVE  d \in Range(free_list')
    <3>1. d # b
      BY <2>4, <1>3, <1>9
    <3>2. d \in Range(free_list)
      BY <3>1, <2>4, <1>1, <1>9 DEF FreeOwned
    <3>3. PICK i \in 1 .. n : d = free_list[i]
      BY <3>2, <1>3 DEF Range
    <3>4. i \in 1 .. n - 1
      BY <3>1, <3>3, <1>3 DEF b
    <3>5. QED BY <3>3, <3>4, <1>5 DEF Range
  <2>5. allocated_blocks' = NumBlocks - Len(free_list')
    BY <1>1, <1>2, <1>3, <1>5 DEF FreeOwned, n
  <2>6. QED BY <1>5, <2>2, <2>3, <2>4, <2>5 DEF FreeOwned
<1>12. ListsOwned'
  <2> SUFFICES ASSUME NEW u \in DOMAIN sequences',
                      NEW i \in 1 .. Len(sequences'[u].block_indices)
               PROVE  blocks'[sequences'[u].block_indices[i]] =
                        [sequence_id |-> u, block_index |-> i - 1]
    BY DEF ListsOwned
  <2>1. ASSUME NEW v \in DOMAIN sequences,
               NEW j \in 1 .. Len(sequences[v].block_indices)
        PROVE  blocks'[sequences[v].block_indices[j]] =
                 [sequence_id |-> v, block_index |-> j - 1]
    <3>1. /\ sequences[v].block_indices[j] \in Blocks
          /\ blocks[sequences[v].block_indices[j]].sequence_id = v
      BY <1>1, ListFacts
    <3>2. v # None
      BY <1>1, SequenceType, NothingAssumption
    <3>3. blocks[sequences[v].block_indices[j]] =
            [sequence_id |-> v, block_index |-> j - 1]
      BY <1>1 DEF ListsOwned
    <3>4. sequences[v].block_indices[j] # b
      BY <3>1, <3>2, <1>4
    <3>5. QED BY <3>1, <3>3, <3>4, <1>9
  <2>2. CASE u = s
    <3>1. CASE i \in 1 .. m
      <4>1. sequences'[u].block_indices[i] = sequences[s].block_indices[i]
        BY <2>2, <3>1, <1>6, <1>8 DEF list
      <4>2. i \in 1 .. Len(sequences[s].block_indices)
        BY <3>1 DEF m, list
      <4>3. QED BY <2>1, <2>2, <4>1, <4>2, <1>2
    <3>2. CASE i = m + 1
      <4>1. sequences'[u].block_indices[i] = b /\ i - 1 = m
        BY <2>2, <3>2, <1>3, <1>6, <1>8
      <4>2. QED BY <2>2, <4>1, <1>9
    <3>3. i \in 1 .. m + 1
      BY <2>2, <1>6, <1>8
    <3>4. QED BY <3>1, <3>2, <3>3, <1>3
  <2>3. CASE u # s
    BY <2>1, <2>3, <1>7
  <2>4. QED BY <2>2, <2>3
<1>13. /\ Len(sequences[s].block_indices) = m
       /\ Len(sequences'[s].block_indices) = m + 1
  BY <1>6, <1>8 DEF m, list
<1>14. Covered'
  <2>1. ASSUME NEW u \in DOMAIN sequences'
        PROVE  /\ BlocksFor(sequences'[u].seq_len) <=
                    Len(sequences'[u].block_indices)
               /\ sequences'[u].seq_len <= sequences'[u].max_seq_len
    <3>1. CASE u = s
      <4>1. /\ BlocksFor(sequences[s].seq_len) <= m
            /\ sequences[s].seq_len <= sequences[s].max_seq_len
        BY <1>1, <1>2, <1>13 DEF Covered
      <4>2. BlocksFor(sequences[s].seq_len) \in Nat
        BY <1>1, <1>2, SequenceType, BlocksForType
      <4>3. QED BY <3>1, <4>1, <4>2, <1>3, <1>8, <1>13
    <3>2. CASE u # s
      BY <3>2, <1>1, <1>7 DEF Covered
    <3>3. QED BY <3>1, <3>2
  <2>2. QED BY <2>1 DEF Covered, BlocksFor
<1>15. ReadyCovered'
  <2>1. ASSUME NEW v \in Thread, NEW u \in Ready(v)'
        PROVE  /\ u \in DOMAIN sequences'
               /\ NewLen(v, u)' <= sequences'[u].max_seq_len
               /\ BlocksFor(NewLen(v, u)') <= Len(sequences'[u].block_indices)
    <3>1. u \in Ready(v) /\ call'[v] = call[v]
      BY <1>2 DEF Ready, Range
    <3>2. /\ u \in DOMAIN sequences
          /\ NewLen(v, u) <= sequences[u].max_seq_len
          /\ BlocksFor(NewLen(v, u)) <= Len(sequences[u].block_indices)
      BY <3>1, <1>1 DEF ReadyCovered
    <3>3. CASE u = s
      <4>1. NewLen(v, u)' = NewLen(v, u)
        BY <3>1, <3>3, <1>8 DEF NewLen
      <4>2. BlocksFor(NewLen(v, u)) \in Nat
        BY <3>1, <3>2, <1>1, NewLenType, BlocksForType DEF Ready
      <4>3. QED BY <3>2, <3>3, <4>1, <4>2, <1>3, <1>7, <1>8, <1>13
    <3>4. CASE u # s
      <4>1. sequences'[u] = sequences[u] /\ NewLen(v, u)' = NewLen(v, u)
        BY <3>1, <3>2, <3>4, <1>7 DEF NewLen
      <4>2. QED BY <3>2, <4>1, <1>7
    <3>5. QED BY <3>3, <3>4
  <2>2. QED BY <2>1 DEF ReadyCovered, BlocksFor
<1>16. CallsApart'
  BY <1>1, <1>2 DEF CallsApart
<1>17. QED BY <1>10, <1>11, <1>12, <1>14, <1>15, <1>16 DEF IInv

LEMMA CommitInv ==
  ASSUME IInv, NEW t \in Thread, Commit(t)
  PROVE  IInv'
<1>1. /\ TypeInv /\ ListsOwned /\ FreeOwned
      /\ CallsApart /\ ReadyCovered /\ Covered
  BY DEF IInv
<1>2. /\ call' = [call EXCEPT ![t] = Idle]
      /\ sequences' = [s \in DOMAIN sequences |->
           IF s \in DOMAIN call[t].kv
             THEN [sequences[s] EXCEPT !.seq_len = NewLen(t, s)]
             ELSE sequences[s]]
      /\ call[t].phase = "copy"
      /\ UNCHANGED <<blocks, free_list, allocated_blocks, pool_tensor,
                     sequence_mutex>>
  BY DEF Commit
<1>3. /\ Idle \in Call /\ DOMAIN Idle.kv = {} /\ Range(Idle.ids) = {}
      /\ Idle.ids = <<>> /\ Idle.todo = {} /\ Idle.phase = "idle"
  BY IdleType DEF Range
<1>4. /\ call' \in [Thread -> Call] /\ call'[t] = Idle
      /\ \A u \in Thread \ {t} : call'[u] = call[u]
  BY <1>1, <1>2, <1>3 DEF TypeInv
<1>5. ASSUME NEW s \in DOMAIN sequences, s \in DOMAIN call[t].kv
      PROVE  /\ NewLen(t, s) \in Nat
             /\ NewLen(t, s) <= sequences[s].max_seq_len
             /\ BlocksFor(NewLen(t, s)) <= Len(sequences[s].block_indices)
  <2>1. s \in Ready(t)
    BY <1>1, <1>2, <1>5 DEF CallsApart, Ready, Range
  <2>2. QED BY <2>1, <1>1, <1>5, NewLenType DEF ReadyCovered
<1>6. /\ DOMAIN sequences' = DOMAIN sequences
      /\ sequences' \in [DOMAIN sequences' -> {sequences'[u] : u \in DOMAIN sequences'}]
      /\ \A s \in DOMAIN sequences : s \notin DOMAIN call[t].kv
           => sequences'[s] = sequences[s]
  BY <1>2
<1>7. ASSUME NEW s \in DOMAIN sequences
      PROVE  /\ sequences'[s] \in SequenceState
             /\ sequences'[s].max_seq_len = sequences[s].max_seq_len
             /\ sequences'[s].block_indices = sequences[s].block_indices
             /\ BlocksFor(sequences'[s].seq_len) <=
                  Len(sequences'[s].block_indices)
             /\ sequences'[s].seq_len <= sequences'[s].max_seq_len
  <2>1. sequences[s] \in SequenceState
    BY <1>1, SequenceType
  <2>2. CASE s \in DOMAIN call[t].kv
    <3>1. sequences'[s] = [sequences[s] EXCEPT !.seq_len = NewLen(t, s)]
      BY <1>2, <2>2
    <3>2. NewLen(t, s) \in Nat
      BY <1>5, <2>2
    <3>3. /\ sequences'[s] \in SequenceState
          /\ sequences'[s].seq_len = NewLen(t, s)
          /\ sequences'[s].max_seq_len = sequences[s].max_seq_len
          /\ sequences'[s].block_indices = sequences[s].block_indices
      BY <2>1, <3>1, <3>2 DEF SequenceState
    <3>4. QED BY <3>3, <1>5, <2>2
  <2>3. CASE s \notin DOMAIN call[t].kv
    BY <2>1, <2>3, <1>1, <1>6 DEF Covered
  <2>4. QED BY <2>2, <2>3
<1>8. TypeInv'
  <2>1. sequences' \in [DOMAIN sequences' -> SequenceState]
    BY <1>6, <1>7
  <2>2. QED BY <1>1, <1>2, <1>4, <1>6, <2>1 DEF TypeInv, PoolTypeOK
<1>9. ListsOwned'
  <2> SUFFICES ASSUME NEW u \in DOMAIN sequences',
                      NEW i \in 1 .. Len(sequences'[u].block_indices)
               PROVE  blocks'[sequences'[u].block_indices[i]] =
                        [sequence_id |-> u, block_index |-> i - 1]
    BY DEF ListsOwned
  <2>1. /\ u \in DOMAIN sequences
        /\ sequences'[u].block_indices = sequences[u].block_indices
    BY <1>6, <1>7
  <2>2. QED BY <2>1, <1>1, <1>2 DEF ListsOwned
<1>10. Covered'
  BY <1>6, <1>7 DEF Covered, BlocksFor
<1>11. FreeOwned'
  BY <1>1, <1>2 DEF FreeOwned
<1>12. CallsApart'
  <2>1. ASSUME NEW u \in Thread, NEW v \in Thread \ {u}
        PROVE  DOMAIN call'[u].kv \intersect DOMAIN call'[v].kv = {}
    <3>1. CASE u = t
      BY <3>1, <1>3, <1>4
    <3>2. CASE v = t
      BY <3>2, <1>3, <1>4
    <3>3. CASE u # t /\ v # t
      BY <3>3, <1>1, <1>4 DEF CallsApart
    <3>4. QED BY <3>1, <3>2, <3>3
  <2>2. ASSUME NEW u \in Thread
        PROVE  /\ Range(call'[u].ids) \subseteq DOMAIN call'[u].kv
               /\ call'[u].phase = "copy" => call'[u].ids = <<>>
               /\ \A todo \in call'[u].todo :
                    /\ todo[1] \in DOMAIN call'[u].kv
                    /\ todo[2] < Len(call'[u].kv[todo[1]])
    <3>1. CASE u = t
      BY <3>1, <1>3, <1>4
    <3>2. CASE u # t
      BY <3>2, <1>1, <1>4 DEF CallsApart
    <3>3. QED BY <3>1, <3>2
  <2>3. QED BY <2>1, <2>2 DEF CallsApart, Range
<1>13. ReadyCovered'
  <2>1. ASSUME NEW u \in Thread, NEW s \in Ready(u)'
        PROVE  /\ s \in DOMAIN sequences'
               /\ NewLen(u, s)' <= sequences'[s].max_seq_len
               /\ BlocksFor(NewLen(u, s)') <= Len(sequences'[s].block_indices)
    <3>1. u # t
      BY <1>3, <1>4 DEF Ready, Range
    <3>2. s \in Ready(u) /\ call'[u] = call[u]
      BY <3>1, <1>4 DEF Ready, Range
    <3>3. s \in DOMAIN sequences /\ s \notin DOMAIN call[t].kv
      BY <3>1, <3>2, <1>1 DEF CallsApart, ReadyCovered, Ready
    <3>4. sequences'[s] = sequences[s] /\ NewLen(u, s)' = NewLen(u, s)
      BY <3>2, <3>3, <1>6 DEF NewLen
    <3>5. QED BY <3>2, <3>3, <3>4, <1>1, <1>6 DEF ReadyCovered
  <2>2. QED BY <2>1 DEF ReadyCovered, BlocksFor
<1>14. QED BY <1>8, <1>9, <1>10, <1>11, <1>12, <1>13 DEF IInv

-----------------------------------------------------------------------------
(* Every step                                                              *)

LEMMA StutterInv == ASSUME IInv, UNCHANGED vars PROVE IInv'
BY DEF IInv, vars, TypeInv, PoolTypeOK, ListsOwned, FreeOwned, CallsApart,
       ReadyCovered, Ready, NewLen, Covered, BlocksFor

LEMMA NextInv == IInv /\ [Next]_vars => IInv'
<1> SUFFICES ASSUME IInv, [Next]_vars PROVE IInv'
  OBVIOUS
<1>1. ASSUME NEW s \in Seqs, SequenceStep(s) PROVE IInv'
  BY <1>1, CreateInv, RemoveInv, TruncateInv DEF SequenceStep
<1>2. ASSUME NEW t \in Thread, UpdateStep(t) PROVE IInv'
  <2>1. ASSUME NEW ids \in Batch, NEW kv \in [Range(ids) -> Entries],
               CacheUpdate(t, ids, kv)
        PROVE  IInv'
    BY <2>1, CacheUpdateInv
  <2>2. ASSUME NEW s \in Seqs,
               AllocateBlock(t, s) \/ PrepareNext(t, s) \/ PrepareFails(t, s)
        PROVE  IInv'
    BY <2>2, AllocateBlockInv, PrepareNextInv, PrepareFailsInv
  <2>3. ASSUME NEW todo \in call[t].todo, CopyToken(t, todo[1], todo[2])
        PROVE  IInv'
    BY <2>3, CopyTokenInv
  <2>4. CASE Commit(t)
    BY <2>4, CommitInv
  <2>5. QED BY <1>2, <2>1, <2>2, <2>3, <2>4 DEF UpdateStep
<1>3. CASE UNCHANGED vars
  BY <1>3, StutterInv
<1>4. QED BY <1>1, <1>2, <1>3 DEF Next

THEOREM Inductive == Spec => []IInv
BY InitInv, NextInv, PTL DEF Spec

-----------------------------------------------------------------------------
(* Theorems                                                                *)

(* Every variable of the pool and every update under way has its type: in  *)
(* particular no index leaves the pool and no length becomes negative.     *)
THEOREM TypeCorrect == Spec => []TypeOK
<1>1. IInv => TypeOK
  BY TypeInvIsEnough DEF IInv
<1>2. QED BY <1>1, Inductive, PTL

LEMMA OwnersExclude == IInv => BlockExclusive
<1> SUFFICES ASSUME IInv PROVE BlockExclusive
  OBVIOUS
<1>1. TypeInv /\ ListsOwned /\ FreeOwned
  BY DEF IInv
<1>2. ASSUME NEW s \in DOMAIN sequences,
             NEW b \in Range(sequences[s].block_indices)
      PROVE  blocks[b].sequence_id = s
  <2>1. sequences[s].block_indices \in Seq(Blocks)
    BY <1>1, SequenceType
  <2>2. PICK i \in 1 .. Len(sequences[s].block_indices) :
          b = sequences[s].block_indices[i]
    BY <2>1 DEF Range
  <2>3. QED BY <2>2, <1>1, ListFacts
<1>3. ASSUME NEW b \in Range(free_list) PROVE blocks[b].sequence_id = None
  <2>1. free_list \in Seq(Blocks)
    BY <1>1 DEF TypeInv, PoolTypeOK
  <2>2. PICK i \in 1 .. Len(free_list) : b = free_list[i]
    BY <2>1 DEF Range
  <2>3. QED BY <2>2, <1>1 DEF FreeOwned
<1>4. ASSUME NEW s \in DOMAIN sequences
      PROVE  /\ IsInjective(sequences[s].block_indices)
             /\ Range(sequences[s].block_indices) \intersect Range(free_list) = {}
             /\ \A u \in DOMAIN sequences \ {s} :
                  Range(sequences[s].block_indices)
                    \intersect Range(sequences[u].block_indices) = {}
  <2>1. s # None
    BY <1>1, SequenceType, NothingAssumption
  <2>2. IsInjective(sequences[s].block_indices)
    BY <1>1, ListFacts
  <2>3. Range(sequences[s].block_indices) \intersect Range(free_list) = {}
    BY <2>1, <1>2, <1>3
  <2>4. ASSUME NEW u \in DOMAIN sequences \ {s}
        PROVE  Range(sequences[s].block_indices)
                 \intersect Range(sequences[u].block_indices) = {}
    BY <1>2
  <2>5. QED BY <2>2, <2>3, <2>4
<1>5. IsInjective(free_list)
  BY <1>1 DEF FreeOwned
<1>6. QED BY <1>4, <1>5 DEF BlockExclusive

(* No block is in two places: allocation, release, truncation and updates  *)
(* that fail half way never hand out a block that somebody still uses.     *)
THEOREM BlocksAreExclusive == Spec => []BlockExclusive
BY OwnersExclude, Inductive, PTL

LEMMA OwnersAccount == IInv => BlocksAccounted
<1> SUFFICES ASSUME IInv PROVE BlocksAccounted
  OBVIOUS
<1>1. free_list \in Seq(Blocks) /\ DOMAIN free_list = 1 .. Len(free_list)
  BY DEF IInv, TypeInv, PoolTypeOK
<1>2. ASSUME NEW b \in Range(free_list) PROVE blocks[b].sequence_id = None
  <2>1. PICK i \in 1 .. Len(free_list) : b = free_list[i]
    BY <1>1 DEF Range
  <2>2. QED BY <2>1 DEF IInv, FreeOwned
<1>3. QED BY <1>2 DEF IInv, FreeOwned, BlocksAccounted

(* The free list, the owners in the block metadata and allocated_blocks    *)
(* tell the same, after failed updates as well.                            *)
THEOREM BlocksAreAccounted == Spec => []BlocksAccounted
BY OwnersAccount, Inductive, PTL

(* The ceiling in BlocksFor is enough. *)
LEMMA BlocksForCovers ==
  ASSUME NEW n \in Nat, NEW k \in Nat, BlocksFor(n) <= k
  PROVE  n <= BlockSize * k
<1> DEFINE q == (n + BlockSize - 1) \div BlockSize
<1>1. BlockSize \in Nat \ {0} /\ n + BlockSize - 1 \in Nat
  BY PoolAssumption
<1>2. q \in Nat /\ n + BlockSize - 1 < q * BlockSize + BlockSize
  BY <1>1, DivBounds
<1>3. q <= k
  BY DEF BlocksFor
<1> HIDE DEF q
<1>4. q * BlockSize <= BlockSize * k
  BY <1>1, <1>2, <1>3, Z3
<1>5. q * BlockSize \in Nat /\ BlockSize * k \in Nat
  BY <1>1, <1>2
<1>6. QED BY <1>1, <1>2, <1>4, <1>5

(* Committed tokens are inside the blocks of their sequence, and there are *)
(* never more than the sequence was created for.                           *)
THEOREM TokensAreCovered == Spec => []TokensHaveBlocks
<1>1. IInv => TokensHaveBlocks
  <2> SUFFICES ASSUME IInv, NEW s \in DOMAIN sequences
               PROVE  /\ sequences[s].seq_len <=
                           BlockSize * Len(sequences[s].block_indices)
                      /\ sequences[s].seq_len <= sequences[s].max_seq_len
    BY DEF TokensHaveBlocks
  <2>1. sequences[s].seq_len \in Nat /\ Len(sequences[s].block_indices) \in Nat
    BY SequenceType DEF IInv
  <2>2. QED BY <2>1, BlocksForCovers DEF IInv, Covered
<1>2. QED BY <1>1, Inductive, PTL

-----------------------------------------------------------------------------
(* Cells                                                                   *)

(* Position pos of s is inside the blocks s has. *)
Reaches(s, pos) == pos < BlockSize * Len(sequences[s].block_indices)

LEMMA ProductOrder ==
  ASSUME NEW m \in Nat, NEW n \in Nat, NEW d \in Nat \ {0}, m * d < d * n
  PROVE  m < n
<1> SUFFICES ASSUME n <= m PROVE FALSE
  OBVIOUS
<1>1. m - n \in Nat /\ m = n + (m - n)
  OBVIOUS
<1>2. PICK k \in Nat : m = n + k
  BY <1>1
<1>3. m * d = d * n + k * d /\ k * d >= 0
  BY <1>2, Z3
<1>4. d * n \in Nat /\ k * d \in Nat
  OBVIOUS
<1>5. QED BY <1>3, <1>4

(* What the cell of a position inside the blocks says of that position.    *)
LEMMA CellFacts ==
  ASSUME IInv, NEW s \in DOMAIN sequences, NEW pos \in Nat, Reaches(s, pos)
  PROVE  /\ pos \div BlockSize \in Nat
         /\ pos \div BlockSize + 1 \in 1 .. Len(sequences[s].block_indices)
         /\ pos % BlockSize \in 0 .. BlockSize - 1
         /\ Cell(s, pos) \in Cells
         /\ blocks[Cell(s, pos)[1]].sequence_id = s
         /\ blocks[Cell(s, pos)[1]].block_index = pos \div BlockSize
         /\ Cell(s, pos)[2] = pos % BlockSize
<1> DEFINE list == sequences[s].block_indices
           i == pos \div BlockSize + 1
<1>1. /\ BlockSize \in Nat \ {0} /\ list \in Seq(Blocks) /\ Len(list) \in Nat
      /\ \A j \in 1 .. Len(list) : /\ list[j] \in Blocks
                                   /\ blocks[list[j]].sequence_id = s
                                   /\ blocks[list[j]].block_index = j - 1
  BY PoolAssumption, SequenceType, ListFacts DEF IInv
<1>2. pos < BlockSize * Len(list)
  BY DEF Reaches
<1> HIDE DEF list
<1>3. pos \div BlockSize \in Nat /\ pos \div BlockSize < Len(list)
      /\ pos % BlockSize \in 0 .. BlockSize - 1
  <2>1. /\ pos \div BlockSize \in Nat
        /\ (pos \div BlockSize) * BlockSize <= pos
    BY <1>1, DivBounds
  <2>2. pos \div BlockSize < Len(list)
    <3>1. (pos \div BlockSize) * BlockSize \in Nat
          /\ BlockSize * Len(list) \in Nat
      BY <1>1, <2>1
    <3>2. (pos \div BlockSize) * BlockSize < BlockSize * Len(list)
      BY <1>2, <2>1, <3>1
    <3>3. QED BY <1>1, <2>1, <3>2, ProductOrder
  <2>3. pos % BlockSize \in 0 .. BlockSize - 1
    BY <1>1, Z3
  <2>4. QED BY <2>1, <2>2, <2>3
<1>4. i \in 1 .. Len(list) /\ i - 1 = pos \div BlockSize
  BY <1>1, <1>3
<1>5. Cell(s, pos) = <<list[i], pos % BlockSize>>
  BY DEF Cell, list
<1> HIDE DEF i
<1>6. QED BY <1>1, <1>3, <1>4, <1>5 DEF Cells, list, i

(* Two positions inside the blocks of their sequences do not share a cell. *)
LEMMA CellsApart ==
  ASSUME IInv, NEW s \in DOMAIN sequences, NEW p \in Nat, Reaches(s, p),
         NEW u \in DOMAIN sequences, NEW q \in Nat, Reaches(u, q),
         Cell(s, p) = Cell(u, q)
  PROVE  s = u /\ p = q
<1>1. s = u /\ p \div BlockSize = q \div BlockSize
      /\ p % BlockSize = q % BlockSize
  BY CellFacts
<1>2. BlockSize \in Nat \ {0}
  BY PoolAssumption
<1>3. p = q
  BY <1>1, <1>2, Z3
<1>4. QED BY <1>1, <1>3

(* A position keeps its cell when the list changes only behind it. *)
LEMMA CellKept ==
  ASSUME IInv, NEW s \in DOMAIN sequences, NEW pos \in Nat, Reaches(s, pos),
         \A i \in 1 .. Len(sequences[s].block_indices) :
           i <= pos \div BlockSize + 1 =>
             sequences'[s].block_indices[i] = sequences[s].block_indices[i]
  PROVE  Cell(s, pos)' = Cell(s, pos)
<1>1. /\ pos \div BlockSize + 1 \in 1 .. Len(sequences[s].block_indices)
      /\ pos \div BlockSize \in Nat
  BY CellFacts
<1>2. sequences'[s].block_indices[pos \div BlockSize + 1]
        = sequences[s].block_indices[pos \div BlockSize + 1]
  BY <1>1
<1>3. QED BY <1>2 DEF Cell

(* Committed tokens, and the tokens of a prepared update, are inside.      *)
LEMMA CommittedReached ==
  ASSUME IInv, NEW s \in DOMAIN sequences, NEW pos \in Nat,
         pos < sequences[s].seq_len
  PROVE  Reaches(s, pos)
<1>1. sequences[s].seq_len \in Nat /\ Len(sequences[s].block_indices) \in Nat
  BY SequenceType DEF IInv
<1>2. sequences[s].seq_len <= BlockSize * Len(sequences[s].block_indices)
  BY <1>1, BlocksForCovers DEF IInv, Covered
<1>3. BlockSize * Len(sequences[s].block_indices) \in Nat
  BY <1>1, PoolAssumption
<1>4. QED BY <1>1, <1>2, <1>3 DEF Reaches

LEMMA ReadyReached ==
  ASSUME IInv, NEW t \in Thread, NEW s \in Ready(t), NEW k \in Nat,
         k < Len(call[t].kv[s])
  PROVE  /\ s \in DOMAIN sequences
         /\ sequences[s].seq_len + k \in Nat
         /\ Reaches(s, sequences[s].seq_len + k)
<1>1. /\ s \in DOMAIN sequences /\ s \in DOMAIN call[t].kv
      /\ BlocksFor(NewLen(t, s)) <= Len(sequences[s].block_indices)
  BY DEF IInv, ReadyCovered, Ready
<1>2. /\ sequences[s].seq_len \in Nat /\ Len(sequences[s].block_indices) \in Nat
      /\ Len(call[t].kv[s]) \in Nat
  BY <1>1, SequenceType, CallType DEF IInv
<1>3. NewLen(t, s) = sequences[s].seq_len + Len(call[t].kv[s])
  BY DEF NewLen
<1>4. NewLen(t, s) <= BlockSize * Len(sequences[s].block_indices)
  BY <1>1, <1>2, <1>3, BlocksForCovers
<1>5. BlockSize * Len(sequences[s].block_indices) \in Nat
  BY <1>2, PoolAssumption
<1>6. sequences[s].seq_len + k < BlockSize * Len(sequences[s].block_indices)
  BY <1>2, <1>3, <1>4, <1>5, SMTT(30)
<1>7. QED BY <1>1, <1>2, <1>6 DEF Reaches

-----------------------------------------------------------------------------
(* The copy                                                                *)

(* A token the update of t has copied, or need not copy any more, is in    *)
(* its cell behind the committed length.                                   *)
Copied(t) ==
  \A s \in DOMAIN call[t].kv : \A k \in 0 .. Len(call[t].kv[s]) - 1 :
    \/ <<s, k>> \in call[t].todo
    \/ /\ s \in Ready(t)
       /\ pool_tensor[Cell(s, sequences[s].seq_len + k)] = call[t].kv[s][k + 1]

CInv == IInv /\ \A t \in Thread : Copied(t)

(* What leaves the tokens an update has copied where they are. *)
LEMMA CopiedFrame ==
  ASSUME IInv, NEW t \in Thread, Copied(t),
         call'[t].kv = call[t].kv, call[t].todo \subseteq call'[t].todo,
         Ready(t) \subseteq Ready(t)',
         \A s \in Ready(t) : \A k \in Nat :
           k < Len(call[t].kv[s]) =>
             pool_tensor'[Cell(s, sequences[s].seq_len + k)'] =
               pool_tensor[Cell(s, sequences[s].seq_len + k)],
         \A s \in Ready(t) : sequences'[s].seq_len = sequences[s].seq_len
  PROVE  Copied(t)'
<1> SUFFICES ASSUME NEW s \in DOMAIN call'[t].kv,
                    NEW k \in 0 .. Len(call'[t].kv[s]) - 1
             PROVE  \/ <<s, k>> \in call'[t].todo
                    \/ /\ s \in Ready(t)'
                       /\ pool_tensor'[Cell(s, sequences[s].seq_len + k)']
                            = call'[t].kv[s][k + 1]
  BY DEF Copied
<1>1. Len(call[t].kv[s]) \in Nat
  BY CallType DEF IInv
<1>2. CASE <<s, k>> \in call[t].todo
  BY <1>2
<1>3. CASE <<s, k>> \notin call[t].todo
  <2>1. s \in Ready(t) /\ pool_tensor[Cell(s, sequences[s].seq_len + k)]
                            = call[t].kv[s][k + 1]
    BY <1>3 DEF Copied
  <2>2. k \in Nat /\ k < Len(call[t].kv[s])
    BY <1>1
  <2>3. QED BY <2>1, <2>2
<1>4. QED BY <1>2, <1>3

LEMMA FunctionIsSeq ==
  ASSUME NEW S, NEW n \in Nat, NEW f \in [1 .. n -> S]
  PROVE  f \in Seq(S) /\ Len(f) = n
  OBVIOUS

(* What leaves the committed tokens where they are. *)
LEMMA ContentsFrame ==
  ASSUME IInv, DOMAIN sequences' = DOMAIN sequences,
         \A s \in DOMAIN sequences :
           /\ sequences'[s].seq_len = sequences[s].seq_len
           /\ \A pos \in Nat : pos < sequences[s].seq_len =>
                pool_tensor'[Cell(s, pos)'] = pool_tensor[Cell(s, pos)]
  PROVE  Contents' = Contents
<1>1. ASSUME NEW s \in DOMAIN sequences, NEW i \in 1 .. sequences[s].seq_len
      PROVE  pool_tensor'[Cell(s, i - 1)'] = pool_tensor[Cell(s, i - 1)]
  <2>1. sequences[s].seq_len \in Nat
    BY SequenceType DEF IInv
  <2>2. i - 1 \in Nat /\ i - 1 < sequences[s].seq_len
    BY <2>1
  <2>3. QED BY <2>2
<1>2. QED BY <1>1 DEF Contents

(* The lists of the sequences are kept as far as they were, and nothing is *)
(* written: appending blocks, and every step that leaves them alone.       *)
LEMMA GrowsOnly ==
  ASSUME CInv, DOMAIN sequences' = DOMAIN sequences,
         UNCHANGED <<pool_tensor, call>>,
         \A s \in DOMAIN sequences :
           /\ sequences'[s].seq_len = sequences[s].seq_len
           /\ \A i \in 1 .. Len(sequences[s].block_indices) :
                sequences'[s].block_indices[i] = sequences[s].block_indices[i]
  PROVE  Contents' = Contents /\ \A t \in Thread : Copied(t)'
<1>1. ASSUME NEW s \in DOMAIN sequences, NEW pos \in Nat, Reaches(s, pos)
      PROVE  Cell(s, pos)' = Cell(s, pos)
  BY <1>1, CellKept DEF CInv
<1>2. Contents' = Contents
  BY <1>1, CommittedReached, ContentsFrame DEF CInv
<1>3. ASSUME NEW t \in Thread PROVE Copied(t)'
  <2>1. Ready(t)' = Ready(t)
    BY DEF Ready, Range
  <2>2. ASSUME NEW s \in Ready(t), NEW k \in Nat, k < Len(call[t].kv[s])
        PROVE  /\ s \in DOMAIN sequences
               /\ Cell(s, sequences[s].seq_len + k)' =
                    Cell(s, sequences[s].seq_len + k)
    <3>1. /\ s \in DOMAIN sequences /\ sequences[s].seq_len + k \in Nat
          /\ Reaches(s, sequences[s].seq_len + k)
      BY <2>2, ReadyReached DEF CInv
    <3>2. QED BY <1>1, <3>1 DEF Cell
  <2>3. \A s \in Ready(t) : s \in DOMAIN sequences
    BY DEF CInv, IInv, ReadyCovered
  <2>4. QED BY <2>1, <2>2, <2>3, CopiedFrame DEF CInv
<1>4. QED BY <1>2, <1>3

(* A sequence that a step leaves alone holds what it held. *)
LEMMA ContentsKept ==
  ASSUME NEW u \in DOMAIN sequences, u \in DOMAIN sequences',
         sequences'[u] = sequences[u], UNCHANGED pool_tensor
  PROVE  Contents'[u] = Contents[u]
BY DEF Contents, Cell

(* A change of sequences that are in no update leaves the copies alone. *)
LEMMA CopiedKept ==
  ASSUME CInv, UNCHANGED <<pool_tensor, call>>,
         \A s \in DOMAIN sequences :
           Busy(s) => s \in DOMAIN sequences' /\ sequences'[s] = sequences[s]
  PROVE  \A t \in Thread : Copied(t)'
<1> SUFFICES ASSUME NEW t \in Thread PROVE Copied(t)'
  OBVIOUS
<1>1. ASSUME NEW s \in Ready(t)
      PROVE  s \in DOMAIN sequences /\ sequences'[s] = sequences[s]
  BY DEF CInv, IInv, ReadyCovered, Ready, Busy
<1>2. Ready(t)' = Ready(t)
  BY DEF Ready, Range
<1>3. \A s \in Ready(t) : \A k \in Nat :
        Cell(s, sequences[s].seq_len + k)' = Cell(s, sequences[s].seq_len + k)
  BY <1>1 DEF Cell
<1>4. QED BY <1>1, <1>2, <1>3, CopiedFrame DEF CInv

-----------------------------------------------------------------------------
(* Every step is a step of the store                                       *)

LEMMA CreateStore ==
  ASSUME CInv, NEW s \in Seqs, NEW max_seq_len \in MaxSeqLen,
         CreateSequence(s, max_seq_len)
  PROVE  Store!Create(s) /\ \A t \in Thread : Copied(t)'
<1>1. /\ s \notin DOMAIN sequences
      /\ DOMAIN sequences' = DOMAIN sequences \union {s}
      /\ sequences'[s].seq_len = 0
      /\ \A u \in DOMAIN sequences : sequences'[u] = sequences[u]
      /\ UNCHANGED <<pool_tensor, call>>
  BY DEF CreateSequence
<1>2. Contents'[s] = <<>>
  <2>1. Contents'[s] = [i \in 1 .. 0 |-> pool_tensor'[Cell(s, i - 1)']]
    BY <1>1 DEF Contents
  <2>2. QED BY <2>1
<1>3. \A u \in DOMAIN sequences : Contents'[u] = Contents[u]
  BY <1>1, ContentsKept
<1>4. /\ DOMAIN Contents = DOMAIN sequences
      /\ Contents' = [u \in DOMAIN sequences' |-> Contents'[u]]
  BY DEF Contents
<1>5. Contents' = [u \in DOMAIN Contents \union {s} |->
                     IF u = s THEN <<>> ELSE Contents[u]]
  BY <1>1, <1>2, <1>3, <1>4
<1>6. Supplied' = Supplied
  BY <1>1 DEF Supplied
<1>7. \A t \in Thread : Copied(t)'
  BY <1>1, CopiedKept
<1>8. QED BY <1>1, <1>4, <1>5, <1>6, <1>7 DEF Store!Create

LEMMA RemoveStore ==
  ASSUME CInv, NEW s \in Seqs, RemoveSequence(s)
  PROVE  Store!Remove(s) /\ \A t \in Thread : Copied(t)'
<1>1. /\ s \in DOMAIN sequences /\ ~Busy(s)
      /\ DOMAIN sequences' = DOMAIN sequences \ {s}
      /\ \A u \in DOMAIN sequences' : sequences'[u] = sequences[u]
      /\ UNCHANGED <<pool_tensor, call>>
  BY DEF RemoveSequence, Restrict
<1>2. \A u \in DOMAIN sequences \ {s} : Contents'[u] = Contents[u]
  BY <1>1, ContentsKept
<1>3. /\ DOMAIN Contents = DOMAIN sequences
      /\ Contents' = [u \in DOMAIN sequences' |-> Contents'[u]]
  BY DEF Contents
<1>4. Contents' = [u \in DOMAIN Contents \ {s} |-> Contents[u]]
  BY <1>1, <1>2, <1>3
<1>5. Supplied' = Supplied
  BY <1>1 DEF Supplied
<1>6. \A t \in Thread : Copied(t)'
  BY <1>1, CopiedKept
<1>7. QED BY <1>1, <1>3, <1>4, <1>5, <1>6 DEF Store!Remove

LEMMA PrefixOfFunction ==
  ASSUME NEW S, NEW m \in Nat, NEW n \in Nat, n <= m, NEW f \in [1 .. m -> S]
  PROVE  SubSeq(f, 1, n) = [i \in 1 .. n |-> f[i]]
<1>1. f \in Seq(S) /\ Len(f) = m
  OBVIOUS
<1>2. QED BY <1>1

LEMMA TruncateStore ==
  ASSUME CInv, NEW s \in DOMAIN sequences,
         NEW n \in 0 .. sequences[s].seq_len, TruncateSequence(s, n)
  PROVE  Store!Truncate(s) /\ \A t \in Thread : Copied(t)'
<1> DEFINE seq == sequences[s]
           new_len == seq.seq_len - n
           new == BlocksFor(new_len)
           old == BlocksFor(seq.seq_len)
           list == seq.block_indices
           kept == IF new < old THEN SubSeq(list, 1, new) ELSE list
<1>1. /\ ~Busy(s)
      /\ sequences' = [sequences EXCEPT ![s].seq_len = new_len,
                                        ![s].block_indices = kept]
      /\ UNCHANGED <<pool_tensor, call>>
  BY DEF TruncateSequence
<1>2. /\ seq \in SequenceState /\ seq.seq_len \in Nat /\ list \in Seq(Blocks)
      /\ Len(list) \in Nat /\ new_len \in Nat /\ new_len <= seq.seq_len
      /\ new \in Nat /\ old \in Nat /\ old <= Len(list)
  <2>1. /\ seq \in SequenceState /\ seq.seq_len \in Nat
        /\ list \in Seq(Blocks) /\ Len(list) \in Nat
    BY SequenceType DEF CInv, IInv
  <2>2. new_len \in Nat /\ new_len <= seq.seq_len
    BY <2>1
  <2>3. old <= Len(list)
    BY DEF CInv, IInv, Covered
  <2>4. new \in Nat /\ old \in Nat
    BY <2>1, <2>2, BlocksForType
  <2>5. QED BY <2>1, <2>2, <2>3, <2>4
<1> HIDE DEF new_len, new, old, list, kept
<1>3. /\ DOMAIN sequences' = DOMAIN sequences
      /\ sequences'[s].seq_len = new_len
      /\ sequences'[s].block_indices = kept
      /\ \A u \in DOMAIN sequences \ {s} : sequences'[u] = sequences[u]
  BY <1>1, <1>2 DEF SequenceState
<1>4. ASSUME NEW pos \in Nat, pos < new_len
      PROVE  Cell(s, pos)' = Cell(s, pos)
  <2>1. /\ BlockSize \in Nat \ {0}
        /\ Reaches(s, pos)
        /\ new_len <= BlockSize * new
    BY <1>2, <1>4, PoolAssumption, CommittedReached, BlocksForCovers
       DEF CInv, new
  <2>2. /\ pos \div BlockSize \in Nat
        /\ pos \div BlockSize + 1 \in 1 .. Len(list)
    BY <2>1, CellFacts DEF CInv, list
  <2>3. pos \div BlockSize < new
    <3>1. /\ (pos \div BlockSize) * BlockSize <= pos
          /\ (pos \div BlockSize) * BlockSize \in Nat
          /\ BlockSize * new \in Nat
      BY <1>2, <2>1, <2>2, DivBounds
    <3>2. (pos \div BlockSize) * BlockSize < BlockSize * new
      BY <1>2, <1>4, <2>1, <3>1
    <3>3. QED BY <1>2, <2>1, <2>2, <3>2, ProductOrder
  <2>4. ASSUME NEW i \in 1 .. Len(list), i <= pos \div BlockSize + 1
        PROVE  kept[i] = list[i]
    <3>1. i \in 1 .. new
      BY <1>2, <2>2, <2>3, <2>4
    <3>2. CASE new < old
      <4>1. kept = SubSeq(list, 1, new) /\ new <= Len(list)
        BY <1>2, <3>2 DEF kept
      <4>2. QED BY <1>2, <3>1, <4>1
    <3>3. CASE ~(new < old)
      BY <3>3 DEF kept
    <3>4. QED BY <3>2, <3>3
  <2>5. QED BY <1>3, <2>1, <2>4, CellKept DEF CInv, list
<1>5. Contents'[s] = SubSeq(Contents[s], 1, new_len)
  <2>1. /\ Contents'[s] = [i \in 1 .. new_len |-> pool_tensor'[Cell(s, i - 1)']]
        /\ Contents[s] =
             [i \in 1 .. seq.seq_len |-> pool_tensor[Cell(s, i - 1)]]
    BY <1>3 DEF Contents
  <2>2. \A i \in 1 .. new_len : pool_tensor'[Cell(s, i - 1)']
                                  = pool_tensor[Cell(s, i - 1)]
    <3> SUFFICES ASSUME NEW i \in 1 .. new_len
                 PROVE  pool_tensor'[Cell(s, i - 1)']
                          = pool_tensor[Cell(s, i - 1)]
      OBVIOUS
    <3>1. i - 1 \in Nat /\ i - 1 < new_len
      BY <1>2
    <3>2. QED BY <1>1, <1>4, <3>1
  <2>3. SubSeq(Contents[s], 1, new_len)
          = [i \in 1 .. new_len |-> pool_tensor[Cell(s, i - 1)]]
    <3> DEFINE full == [i \in 1 .. seq.seq_len |-> pool_tensor[Cell(s, i - 1)]]
               entries == {pool_tensor[Cell(s, i - 1)] : i \in 1 .. seq.seq_len}
    <3>1. full \in [1 .. seq.seq_len -> entries]
      OBVIOUS
    <3>2. \A i \in 1 .. new_len : full[i] = pool_tensor[Cell(s, i - 1)]
      BY <1>2
    <3> HIDE DEF full, entries
    <3>3. SubSeq(full, 1, new_len) = [i \in 1 .. new_len |-> full[i]]
      BY <1>2, <3>1, PrefixOfFunction
    <3>4. QED BY <2>1, <3>2, <3>3 DEF full
  <2>4. QED BY <2>1, <2>2, <2>3
<1>6. \A u \in DOMAIN sequences \ {s} : Contents'[u] = Contents[u]
  BY <1>1, <1>3, ContentsKept
<1>7. /\ DOMAIN Contents = DOMAIN sequences
      /\ Contents = [u \in DOMAIN sequences |-> Contents[u]]
      /\ Contents' = [u \in DOMAIN sequences' |-> Contents'[u]]
  BY DEF Contents
<1>8. Contents' = [Contents EXCEPT ![s] = SubSeq(@, 1, new_len)]
  BY <1>3, <1>5, <1>6, <1>7
<1>9. new_len \in 0 .. Len(Contents[s])
  BY <1>2 DEF Contents
<1>10. Supplied' = Supplied
  BY <1>1 DEF Supplied
<1>11. \A t \in Thread : Copied(t)'
  BY <1>1, <1>3, CopiedKept
<1>12. QED BY <1>7, <1>8, <1>9, <1>10, <1>11 DEF Store!Truncate

LEMMA AllocateStore ==
  ASSUME CInv, NEW t \in Thread, NEW s \in Seqs, AllocateBlock(t, s)
  PROVE  /\ Contents' = Contents /\ Supplied' = Supplied
         /\ \A u \in Thread : Copied(u)'
<1> DEFINE b == free_list[Len(free_list)]
           list == sequences[s].block_indices
<1>1. /\ s \in DOMAIN sequences /\ free_list # <<>>
      /\ sequences' = [sequences EXCEPT ![s].block_indices = Append(list, b)]
      /\ UNCHANGED <<pool_tensor, call>>
  BY DEF AllocateBlock, Fits
<1>2. /\ sequences[s] \in SequenceState /\ list \in Seq(Blocks)
      /\ free_list \in Seq(Blocks)
  BY <1>1, SequenceType DEF CInv, IInv, TypeInv, PoolTypeOK
<1>3. b \in Blocks
  BY <1>1, <1>2
<1>4. \A i \in 1 .. Len(list) : Append(list, b)[i] = list[i]
  BY <1>2, <1>3
<1> HIDE DEF b
<1>5. /\ DOMAIN sequences' = DOMAIN sequences
      /\ sequences'[s].seq_len = sequences[s].seq_len
      /\ sequences'[s].block_indices = Append(list, b)
      /\ \A u \in DOMAIN sequences \ {s} : sequences'[u] = sequences[u]
  BY <1>1, <1>2 DEF SequenceState
<1>6. ASSUME NEW u \in DOMAIN sequences
      PROVE  /\ sequences'[u].seq_len = sequences[u].seq_len
             /\ \A i \in 1 .. Len(sequences[u].block_indices) :
                  sequences'[u].block_indices[i] = sequences[u].block_indices[i]
  BY <1>4, <1>5
<1>7. Supplied' = Supplied
  BY <1>1 DEF Supplied
<1>8. QED BY <1>1, <1>5, <1>6, <1>7, GrowsOnly

(* The steps of an update before its copy touch neither cells nor lists.   *)
LEMMA CallStep ==
  ASSUME CInv, NEW t \in Thread, NEW c,
         call' = [call EXCEPT ![t] = c],
         UNCHANGED <<sequences, pool_tensor>>
  PROVE  /\ Contents' = Contents
         /\ Supplied' = [Supplied EXCEPT ![t] = c.kv]
         /\ \A u \in Thread \ {t} : Copied(u)'
<1>1. Contents' = Contents
  BY DEF Contents, Cell
<1>2. Supplied' = [Supplied EXCEPT ![t] = c.kv]
  BY DEF Supplied, CInv, IInv, TypeInv
<1>3. ASSUME NEW u \in Thread \ {t} PROVE Copied(u)'
  <2>1. call'[u] = call[u]
    BY DEF CInv, IInv, TypeInv
  <2>2. Ready(u)' = Ready(u)
    BY <2>1 DEF Ready, Range
  <2>3. \A s, pos : Cell(s, pos)' = Cell(s, pos)
    BY DEF Cell
  <2>4. QED BY <2>1, <2>2, <2>3, CopiedFrame DEF CInv
<1>4. QED BY <1>1, <1>2, <1>3

LEMMA CacheUpdateStore ==
  ASSUME CInv, NEW t \in Thread, NEW ids \in Batch,
         NEW kv \in [Range(ids) -> Entries], CacheUpdate(t, ids, kv)
  PROVE  Store!Begin(t) /\ \A u \in Thread : Copied(u)'
<1> DEFINE todo == UNION {{s} \X (0 .. Len(kv[s]) - 1) : s \in DOMAIN kv}
           c == [phase |-> "prepare", ids |-> ids, kv |-> kv, todo |-> todo]
<1>1. /\ call[t] = Idle /\ call' = [call EXCEPT ![t] = c]
      /\ UNCHANGED <<sequences, pool_tensor>>
  BY DEF CacheUpdate
<1>2. c.kv = kv /\ c.todo = todo
  OBVIOUS
<1>3. \A s \in DOMAIN kv : \A k \in 0 .. Len(kv[s]) - 1 : <<s, k>> \in todo
  OBVIOUS
<1> HIDE DEF todo, c
<1>4. /\ Contents' = Contents
      /\ Supplied' = [Supplied EXCEPT ![t] = kv]
      /\ \A u \in Thread \ {t} : Copied(u)'
  BY <1>1, <1>2, CallStep
<1>5. call'[t] = c
  BY <1>1 DEF CInv, IInv, TypeInv
<1>6. Copied(t)'
  BY <1>2, <1>3, <1>5 DEF Copied
<1>7. Range(ids) \in SUBSET Seqs
  BY CallAssumption, RangeOfSeq
<1>8. Supplied[t] = Store!Nothing
  BY <1>1 DEF Supplied, Idle, NoValues, Store!Nothing
<1>9. QED BY <1>4, <1>6, <1>7, <1>8 DEF Store!Begin

LEMMA PrepareNextStore ==
  ASSUME CInv, NEW t \in Thread, NEW s \in Seqs, PrepareNext(t, s)
  PROVE  /\ Contents' = Contents /\ Supplied' = Supplied
         /\ \A u \in Thread : Copied(u)'
<1> DEFINE rest == Tail(call[t].ids)
           c == [call[t] EXCEPT !.ids = rest,
                                !.phase = IF rest = <<>> THEN "copy" ELSE @]
<1>1. /\ call[t] \in Call /\ call[t].ids \in Seq(Seqs) /\ call[t].ids # <<>>
      /\ call' = [call EXCEPT ![t] = c]
      /\ UNCHANGED <<sequences, pool_tensor>>
  BY CallType DEF PrepareNext, Preparing, CInv, IInv, TypeInv
<1>2. Range(rest) \subseteq Range(call[t].ids)
  <2> DEFINE q == call[t].ids
  <2>1. /\ rest \in Seq(Seqs) /\ Len(rest) = Len(q) - 1 /\ Len(q) \in Nat
        /\ \A i \in 1 .. Len(rest) : rest[i] = q[i + 1]
        /\ DOMAIN rest = 1 .. Len(rest) /\ DOMAIN q = 1 .. Len(q)
    BY <1>1
  <2> HIDE DEF rest, q
  <2>2. \A i \in DOMAIN rest : i + 1 \in DOMAIN q /\ rest[i] = q[i + 1]
    BY <2>1
  <2>3. QED BY <2>2 DEF Range, q
<1> HIDE DEF rest
<1>3. c.kv = call[t].kv /\ c.todo = call[t].todo /\ c.ids = rest
  BY <1>1 DEF Call
<1> HIDE DEF c
<1>4. /\ Contents' = Contents
      /\ Supplied' = [Supplied EXCEPT ![t] = c.kv]
      /\ \A u \in Thread \ {t} : Copied(u)'
  BY <1>1, CallStep
<1>5. Supplied' = Supplied
  BY <1>3, <1>4 DEF Supplied
<1>6. Copied(t)'
  <2>1. call'[t] = c
    BY <1>1 DEF CInv, IInv, TypeInv
  <2>2. Ready(t) \subseteq Ready(t)'
    BY <1>2, <1>3, <2>1 DEF Ready, Range
  <2>3. \A u, pos : Cell(u, pos)' = Cell(u, pos)
    BY <1>1 DEF Cell
  <2>4. QED BY <1>1, <1>3, <2>1, <2>2, <2>3, CopiedFrame DEF CInv
<1>7. QED BY <1>4, <1>5, <1>6

LEMMA PrepareFailsStore ==
  ASSUME CInv, NEW t \in Thread, NEW s \in Seqs, PrepareFails(t, s)
  PROVE  Store!Fail(t) /\ \A u \in Thread : Copied(u)'
<1>1. call' = [call EXCEPT ![t] = Idle] /\ UNCHANGED <<sequences, pool_tensor>>
  BY DEF PrepareFails
<1>2. /\ Contents' = Contents
      /\ Supplied' = [Supplied EXCEPT ![t] = Idle.kv]
      /\ \A u \in Thread \ {t} : Copied(u)'
  BY <1>1, CallStep
<1>3. Copied(t)'
  <2>1. call'[t] = Idle
    BY <1>1 DEF CInv, IInv, TypeInv
  <2>2. QED BY <2>1, IdleType DEF Copied
<1>4. Idle.kv = Store!Nothing
  BY DEF Idle, NoValues, Store!Nothing
<1>5. QED BY <1>2, <1>3, <1>4 DEF Store!Fail

LEMMA CopyTokenStore ==
  ASSUME CInv, NEW t \in Thread, NEW p \in call[t].todo,
         CopyToken(t, p[1], p[2])
  PROVE  /\ Contents' = Contents /\ Supplied' = Supplied
         /\ \A u \in Thread : Copied(u)'
<1> DEFINE s == p[1]
           k == p[2]
           c == [call[t] EXCEPT !.todo = @ \ {<<s, k>>}]
           cell == Cell(s, sequences[s].seq_len + k)
<1>1. /\ call' = [call EXCEPT ![t] = c]
      /\ pool_tensor' = [pool_tensor EXCEPT ![cell] = call[t].kv[s][k + 1]]
      /\ call[t].phase = "copy"
      /\ UNCHANGED sequences
  BY DEF CopyToken
<1>2. /\ call[t] \in Call
      /\ s \in DOMAIN call[t].kv /\ k \in Nat /\ k < Len(call[t].kv[s])
      /\ call[t].ids = <<>>
  BY <1>1, CallType DEF CInv, IInv, CallsApart
<1>3. /\ c.kv = call[t].kv /\ c.ids = call[t].ids
      /\ c.todo = call[t].todo \ {<<s, k>>}
  BY <1>2 DEF Call
<1>4. s \in Ready(t)
  BY <1>2 DEF Ready, Range
<1>5. /\ s \in DOMAIN sequences /\ sequences[s].seq_len + k \in Nat
      /\ Reaches(s, sequences[s].seq_len + k) /\ cell \in Cells
  BY <1>2, <1>4, ReadyReached, CellFacts DEF CInv
<1>6. /\ pool_tensor \in [Cells -> Value \union {Zero}]
      /\ call \in [Thread -> Call]
  BY DEF CInv, IInv, TypeInv, PoolTypeOK
<1> HIDE DEF c
<1>7. /\ call'[t] = c
      /\ \A u \in Thread \ {t} : call'[u] = call[u]
  BY <1>1, <1>6
<1>8. \A u, pos : Cell(u, pos)' = Cell(u, pos)
  BY <1>1 DEF Cell
<1>9. ASSUME NEW u \in DOMAIN sequences, NEW pos \in Nat, Reaches(u, pos),
             u # s \/ pos # sequences[s].seq_len + k
      PROVE  pool_tensor'[Cell(u, pos)] = pool_tensor[Cell(u, pos)]
  BY <1>1, <1>5, <1>6, <1>9, CellsApart DEF CInv
<1>10. Contents' = Contents
  <2>1. ASSUME NEW u \in DOMAIN sequences, NEW pos \in Nat,
               pos < sequences[u].seq_len
        PROVE  pool_tensor'[Cell(u, pos)'] = pool_tensor[Cell(u, pos)]
    <3>1. sequences[u].seq_len \in Nat
      BY SequenceType DEF CInv, IInv
    <3>2. u # s \/ pos # sequences[s].seq_len + k
      BY <1>2, <2>1, <3>1
    <3>3. QED BY <1>8, <1>9, <2>1, <3>2, CommittedReached DEF CInv
  <2>2. QED BY <1>1, <2>1, ContentsFrame DEF CInv
<1>11. Supplied' = Supplied
  BY <1>3, <1>6, <1>7 DEF Supplied
<1>12. ASSUME NEW u \in Thread, NEW v \in Ready(u), NEW m \in Nat,
              m < Len(call[u].kv[v]), u # t \/ v # s \/ m # k
       PROVE  pool_tensor'[Cell(v, sequences[v].seq_len + m)']
                = pool_tensor[Cell(v, sequences[v].seq_len + m)]
  <2>1. /\ v \in DOMAIN sequences /\ sequences[v].seq_len + m \in Nat
        /\ Reaches(v, sequences[v].seq_len + m)
    BY <1>12, ReadyReached DEF CInv
  <2>2. v # s \/ m # k
    BY <1>2, <1>12 DEF CInv, IInv, CallsApart, Ready
  <2>3. v # s \/ sequences[v].seq_len + m # sequences[s].seq_len + k
    <3>1. sequences[s].seq_len \in Nat
      BY <1>5, SequenceType DEF CInv, IInv
    <3>2. QED BY <1>2, <2>2, <3>1
  <2>4. QED BY <1>1, <1>8, <1>9, <2>1, <2>3
<1>13. ASSUME NEW u \in Thread \ {t} PROVE Copied(u)'
  <2>1. Ready(u)' = Ready(u)
    BY <1>7 DEF Ready, Range
  <2>2. QED BY <1>1, <1>7, <1>12, <2>1, CopiedFrame DEF CInv
<1>14. Copied(t)'
  <2>0. ASSUME NEW v \in DOMAIN call[t].kv,
               NEW m \in 0 .. Len(call[t].kv[v]) - 1,
               <<v, m>> \notin c.todo
        PROVE  /\ v \in Ready(t)
               /\ pool_tensor'[Cell(v, sequences[v].seq_len + m)]
                    = call[t].kv[v][m + 1]
    <3>1. Len(call[t].kv[v]) \in Nat
      BY CallType DEF CInv, IInv
    <3>2. m \in Nat /\ m < Len(call[t].kv[v])
      BY <3>1
    <3>3. CASE v = s /\ m = k
      BY <1>1, <1>4, <1>5, <1>6, <3>3
    <3>4. CASE v # s \/ m # k
      <4>1. <<v, m>> \notin call[t].todo
        BY <1>3, <2>0, <3>4
      <4>2. v \in Ready(t) /\ pool_tensor[Cell(v, sequences[v].seq_len + m)]
                                = call[t].kv[v][m + 1]
        BY <4>1 DEF CInv, Copied
      <4>3. pool_tensor'[Cell(v, sequences[v].seq_len + m)]
              = pool_tensor[Cell(v, sequences[v].seq_len + m)]
        BY <1>1, <1>8, <1>12, <3>2, <3>4, <4>2
      <4>4. QED BY <4>2, <4>3
    <3>5. QED BY <3>3, <3>4
  <2>1. Ready(t)' = Ready(t)
    BY <1>3, <1>7 DEF Ready, Range
  <2> SUFFICES ASSUME NEW v \in DOMAIN call'[t].kv,
                      NEW m \in 0 .. Len(call'[t].kv[v]) - 1,
                      <<v, m>> \notin call'[t].todo
               PROVE  /\ v \in Ready(t)'
                      /\ pool_tensor'[Cell(v, sequences[v].seq_len + m)']
                           = call'[t].kv[v][m + 1]
    BY DEF Copied
  <2>2. Cell(v, sequences[v].seq_len + m)' = Cell(v, sequences[v].seq_len + m)
    BY <1>1, <1>8
  <2>3. QED BY <1>3, <1>7, <2>0, <2>1, <2>2
<1>15. QED BY <1>10, <1>11, <1>13, <1>14

LEMMA ConcatFunction ==
  ASSUME NEW S, NEW p \in Seq(S), NEW q \in Seq(S)
  PROVE  p \o q = [i \in 1 .. Len(p) + Len(q) |->
                     IF i <= Len(p) THEN p[i] ELSE q[i - Len(p)]]
<1>1. /\ p \o q \in Seq(S) /\ Len(p \o q) = Len(p) + Len(q)
      /\ \A i \in 1 .. Len(p) + Len(q) :
           (p \o q)[i] = IF i <= Len(p) THEN p[i] ELSE q[i - Len(p)]
  BY ConcatProperties
<1>2. p \o q \in [1 .. Len(p \o q) -> S]
  BY <1>1, LenProperties
<1>3. QED BY <1>1, <1>2

LEMMA CommitStore ==
  ASSUME CInv, NEW t \in Thread, Commit(t)
  PROVE  Store!Commit(t) /\ \A u \in Thread : Copied(u)'
<1> DEFINE kv == call[t].kv
<1>1. /\ call' = [call EXCEPT ![t] = Idle]
      /\ sequences' = [s \in DOMAIN sequences |->
           IF s \in DOMAIN kv
             THEN [sequences[s] EXCEPT !.seq_len = NewLen(t, s)]
             ELSE sequences[s]]
      /\ call[t].phase = "copy" /\ call[t].todo = {}
      /\ UNCHANGED pool_tensor
  BY DEF Commit
<1>2. /\ call[t].ids = <<>>
      /\ \A s \in DOMAIN kv : kv[s] \in Seq(Value) /\ Len(kv[s]) \in Nat
      /\ call \in [Thread -> Call]
      /\ CallsApart
  BY <1>1, CallType DEF CInv, IInv, CallsApart, TypeInv
<1>3. \A s \in DOMAIN kv : s \in Ready(t) /\ s \in DOMAIN sequences
  BY <1>2 DEF Ready, Range, CInv, IInv, ReadyCovered
<1>4. /\ call'[t] = Idle
      /\ \A u \in Thread \ {t} : call'[u] = call[u]
  BY <1>1, <1>2
<1> HIDE DEF kv
<1>5. DOMAIN sequences' = DOMAIN sequences
  BY <1>1
<1>6. ASSUME NEW s \in DOMAIN sequences
      PROVE  /\ sequences'[s].block_indices = sequences[s].block_indices
             /\ sequences'[s].seq_len =
                  IF s \in DOMAIN kv THEN NewLen(t, s) ELSE sequences[s].seq_len
             /\ sequences[s].seq_len \in Nat
  <2>1. sequences[s] \in SequenceState /\ sequences[s].seq_len \in Nat
    BY SequenceType DEF CInv, IInv
  <2>2. QED BY <1>1, <2>1 DEF SequenceState
<1>7. \A s \in DOMAIN sequences : \A pos :
        <<sequences'[s].block_indices[pos \div BlockSize + 1], pos % BlockSize>>
          = Cell(s, pos)
  BY <1>6 DEF Cell
<1>8. \A s \in DOMAIN sequences :
        /\ Contents[s] = [i \in 1 .. sequences[s].seq_len |->
                            pool_tensor[Cell(s, i - 1)]]
        /\ Contents'[s] = [i \in 1 .. sequences'[s].seq_len |->
                             pool_tensor[Cell(s, i - 1)]]
  BY <1>1, <1>5, <1>7 DEF Contents, Cell
<1>9. /\ DOMAIN Contents = DOMAIN sequences
      /\ Contents' = [s \in DOMAIN sequences' |-> Contents'[s]]
  BY DEF Contents
<1>10. ASSUME NEW s \in DOMAIN kv PROVE Contents'[s] = Contents[s] \o kv[s]
  <2> DEFINE n == sequences[s].seq_len
             m == Len(kv[s])
             X == {pool_tensor[Cell(s, i - 1)] : i \in 1 .. n + m}
  <2>1. /\ s \in DOMAIN sequences /\ n \in Nat /\ m \in Nat
        /\ sequences'[s].seq_len = n + m
        /\ kv[s] \in Seq(Value)
    BY <1>2, <1>3, <1>6 DEF NewLen, kv
  <2>2. /\ Contents[s] = [i \in 1 .. n |-> pool_tensor[Cell(s, i - 1)]]
        /\ Contents'[s] = [i \in 1 .. n + m |-> pool_tensor[Cell(s, i - 1)]]
    BY <1>8, <2>1
  <2>3. ASSUME NEW k \in 0 .. m - 1
        PROVE  pool_tensor[Cell(s, n + k)] = kv[s][k + 1]
    BY <1>1, <2>3 DEF CInv, Copied, kv
  <2> HIDE DEF n, m
  <2>4. ASSUME NEW i \in 1 .. n + m, ~(i <= n)
        PROVE  pool_tensor[Cell(s, i - 1)] = kv[s][i - n]
    <3>1. i - n - 1 \in 0 .. m - 1 /\ n + (i - n - 1) = i - 1
          /\ (i - n - 1) + 1 = i - n
      BY <2>1, <2>4
    <3>2. QED BY <2>3, <3>1
  <2>5. /\ Contents[s] \in Seq(X) /\ Len(Contents[s]) = n
        /\ \A i \in 1 .. n : Contents[s][i] = pool_tensor[Cell(s, i - 1)]
    <3>1. Contents[s] \in [1 .. n -> X]
      BY <2>1, <2>2
    <3>2. \A i \in 1 .. n : Contents[s][i] = pool_tensor[Cell(s, i - 1)]
      BY <2>2
    <3> HIDE DEF X
    <3>3. Contents[s] \in Seq(X) /\ Len(Contents[s]) = n
      BY <2>1, <3>1, FunctionIsSeq
    <3> QED
      BY <3>2, <3>3
  <2>6. Contents[s] \o kv[s] = [i \in 1 .. n + m |->
          IF i <= n THEN Contents[s][i] ELSE kv[s][i - n]]
    <3>1. Contents[s] \in Seq(X \union Value) /\ kv[s] \in Seq(X \union Value)
      BY <2>1, <2>5
    <3> HIDE DEF X
    <3>2. Contents[s] \o kv[s] = [i \in 1 .. Len(Contents[s]) + Len(kv[s]) |->
            IF i <= Len(Contents[s]) THEN Contents[s][i]
                                     ELSE kv[s][i - Len(Contents[s])]]
      BY <3>1, ConcatFunction
    <3>3. QED BY <2>5, <3>2 DEF m
  <2>7. ASSUME NEW i \in 1 .. n + m
        PROVE  pool_tensor[Cell(s, i - 1)] =
                 IF i <= n THEN Contents[s][i] ELSE kv[s][i - n]
    <3>1. i <= n => i \in 1 .. n
      BY <2>1
    <3>2. QED BY <2>4, <2>5, <3>1
  <2>8. QED BY <2>2, <2>6, <2>7
<1>11. ASSUME NEW s \in DOMAIN sequences, s \notin DOMAIN kv
       PROVE  Contents'[s] = Contents[s]
  BY <1>6, <1>8, <1>11
<1>12. Contents' = [s \in DOMAIN Contents |->
         IF s \in DOMAIN kv THEN Contents[s] \o kv[s] ELSE Contents[s]]
  BY <1>5, <1>9, <1>10, <1>11
<1>13. /\ Supplied[t] = kv
       /\ Supplied' = [Supplied EXCEPT ![t] = Store!Nothing]
  BY <1>1, <1>2 DEF Supplied, kv, Idle, NoValues, Store!Nothing
<1>14. Copied(t)'
  BY <1>4, IdleType DEF Copied
<1>15. ASSUME NEW u \in Thread \ {t} PROVE Copied(u)'
  <2>1. /\ Ready(u)' = Ready(u)
        /\ \A s \in Ready(u) : s \in DOMAIN sequences /\ s \notin DOMAIN kv
    BY <1>2, <1>4 DEF Ready, Range, CInv, IInv, ReadyCovered, CallsApart, kv
  <2>2. \A s \in Ready(u) : sequences'[s] = sequences[s]
    BY <1>1, <2>1
  <2>3. \A s \in Ready(u) : \A k \in Nat :
          Cell(s, sequences[s].seq_len + k)' = Cell(s, sequences[s].seq_len + k)
    BY <2>2 DEF Cell
  <2>4. QED BY <1>1, <1>4, <2>1, <2>2, <2>3, CopiedFrame DEF CInv
<1>16. QED BY <1>3, <1>9, <1>12, <1>13, <1>14, <1>15 DEF Store!Commit

(* Every step of the pool is a step of the store, or none. *)
LEMMA StoreStep ==
  CInv /\ [Next]_vars =>
    [Store!Next]_(Store!vars) /\ \A t \in Thread : Copied(t)'
<1> SUFFICES ASSUME CInv, [Next]_vars
             PROVE  [Store!Next]_(Store!vars) /\ \A t \in Thread : Copied(t)'
  OBVIOUS
<1> USE DEF Store!Next, Store!vars
<1>1. ASSUME NEW s \in Seqs, SequenceStep(s)
      PROVE  [Store!Next]_(Store!vars) /\ \A t \in Thread : Copied(t)'
  BY <1>1, CreateStore, RemoveStore, TruncateStore DEF SequenceStep
<1>2. ASSUME NEW t \in Thread, UpdateStep(t)
      PROVE  [Store!Next]_(Store!vars) /\ \A u \in Thread : Copied(u)'
  <2>1. ASSUME NEW ids \in Batch, NEW kv \in [Range(ids) -> Entries],
               CacheUpdate(t, ids, kv)
        PROVE  [Store!Next]_(Store!vars) /\ \A u \in Thread : Copied(u)'
    BY <2>1, CacheUpdateStore
  <2>2. ASSUME NEW s \in Seqs,
               AllocateBlock(t, s) \/ PrepareNext(t, s) \/ PrepareFails(t, s)
        PROVE  [Store!Next]_(Store!vars) /\ \A u \in Thread : Copied(u)'
    BY <2>2, AllocateStore, PrepareNextStore, PrepareFailsStore
  <2>3. ASSUME NEW todo \in call[t].todo, CopyToken(t, todo[1], todo[2])
        PROVE  [Store!Next]_(Store!vars) /\ \A u \in Thread : Copied(u)'
    BY <2>3, CopyTokenStore
  <2>4. CASE Commit(t)
    BY <2>4, CommitStore
  <2>5. QED BY <1>2, <2>1, <2>2, <2>3, <2>4 DEF UpdateStep
<1>3. ASSUME UNCHANGED vars
      PROVE  [Store!Next]_(Store!vars) /\ \A t \in Thread : Copied(t)'
  <2>1. Contents' = Contents /\ Supplied' = Supplied
    BY <1>3 DEF vars, Contents, Supplied, Cell
  <2>2. \A t \in Thread : Copied(t)'
    BY <1>3, CopiedKept DEF vars
  <2>3. QED BY <2>1, <2>2
<1>4. QED BY <1>1, <1>2, <1>3 DEF Next

(* The pool implements the store of lists: blocks, failures half way and   *)
(* copies that overlap in time do not show.                                *)
THEOREM StoreImplemented == Spec => StoreSpec
<1>1. Init => CInv /\ Store!Init
  <2> SUFFICES ASSUME Init PROVE CInv /\ Store!Init
    OBVIOUS
  <2>1. \A t \in Thread : Copied(t)
    BY IdleType DEF Init, Copied
  <2>2. Contents = Store!Nothing
    BY DEF Init, Contents, Store!Nothing
  <2>3. Supplied = [t \in Thread |-> Store!Nothing]
    BY DEF Init, Supplied, Idle, NoValues, Store!Nothing
  <2>4. QED BY <2>1, <2>2, <2>3, InitInv DEF CInv, Store!Init
<1>2. CInv /\ [Next]_vars => CInv' /\ [Store!Next]_(Store!vars)
  BY NextInv, StoreStep DEF CInv
<1>3. QED BY <1>1, <1>2, PTL DEF Spec, StoreSpec, Store!Spec
=============================================================================
