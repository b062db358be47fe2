------------------------------ MODULE SlabPool ------------------------------
(***************************************************************************)
(* SlabPool (csrc/ops/attention/slab/slab_pool_avx512.cpp): the paged      *)
(* key/value cache of one layer, a pool of blocks shared by all sequences. *)
(*                                                                         *)
(* create, remove and truncate hold sequence_mutex from end to end, so     *)
(* each is one action.  cache_update holds it twice: while it prepares     *)
(* (checks, and allocates block after block) and when it commits the new   *)
(* lengths; in between it copies without a lock.  Its two code paths, one  *)
(* token per sequence and several, differ only in how they find the cell   *)
(* of a token.  pool_mutex is only ever taken inside, except by            *)
(* get_free_block_count, which is why an allocation is a step of its own.  *)
(*                                                                         *)
(* The pool does not protect a sequence from two calls at once: the copy   *)
(* uses the SequenceState without a lock.  Its callers give a sequence to  *)
(* one call at a time (Busy below); calls on different sequences run       *)
(* freely side by side.                                                    *)
(***************************************************************************)
EXTENDS Integers, Sequences, Functions

CONSTANTS Seqs,      \* sequence ids
          Value,     \* key/value entries, one per token
          Thread,    \* callers
          NumBlocks, \* total_blocks
          BlockSize, \* tokens per block
          MaxSeqLen, \* the max_seq_len sequences are created with
          Batch,     \* the batches of sequence_ids updates are called with
          Entries,   \* the lists of entries it may bring for one sequence
          None,      \* sequence_id of a free block (-1)
          Zero,      \* the initial contents of the pool tensor
          NoThread   \* nobody holds sequence_mutex

ASSUME PoolAssumption == NumBlocks \in Nat /\ BlockSize \in Nat \ {0}
ASSUME CallAssumption ==
  /\ MaxSeqLen \subseteq Nat /\ Entries \subseteq Seq(Value)
  /\ Batch \subseteq Seq(Seqs)
  /\ \A ids \in Batch : IsInjective(ids)
ASSUME NothingAssumption ==
  None \notin Seqs /\ Zero \notin Value /\ NoThread \notin Thread

Blocks == 0 .. NumBlocks - 1
Cells == Blocks \X (0 .. BlockSize - 1)

VARIABLES
  sequences,        \* id -> SequenceState
  blocks,           \* block -> its owner and its place in the owner's list
  free_list,        \* free blocks, a stack whose top is the last
  allocated_blocks,
  pool_tensor,      \* block and position -> entry
  sequence_mutex,   \* the thread inside its preparation, or NoThread
  call              \* thread -> its cache_update

vars == <<sequences, blocks, free_list, allocated_blocks, pool_tensor,
          sequence_mutex, call>>

SequenceState == [seq_len : Nat, max_seq_len : Nat,
                  block_indices : Seq(Blocks)]
BlockInfo == [sequence_id : Seqs \union {None}, block_index : Int]

(* An update: its phase, the ids still to prepare, the entries it brings   *)
(* for each sequence, and the <<sequence, offset>> still to copy.          *)
IsCall(c) ==
  /\ c.phase \in {"idle", "prepare", "copy"}
  /\ c.ids \in Seq(Seqs)
  /\ DOMAIN c.kv \subseteq Seqs /\ c.kv \in [DOMAIN c.kv -> Seq(Value)]
  /\ c.todo \subseteq Seqs \X Nat
NoValues == [s \in {} |-> <<>>]
Idle == [phase |-> "idle", ids |-> <<>>, kv |-> NoValues, todo |-> {}]

PoolTypeOK ==
  /\ DOMAIN sequences \subseteq Seqs
  /\ sequences \in [DOMAIN sequences -> SequenceState]
  /\ blocks \in [Blocks -> BlockInfo]
  /\ free_list \in Seq(Blocks)
  /\ allocated_blocks \in Int
  /\ pool_tensor \in [Cells -> Value \union {Zero}]
  /\ sequence_mutex \in Thread \union {NoThread}

TypeOK ==
  PoolTypeOK /\ DOMAIN call = Thread /\ \A t \in Thread : IsCall(call[t])

FreeBlock == [sequence_id |-> None, block_index |-> -1]

FreeStackFromOne == [i \in 1 .. NumBlocks |-> NumBlocks - i + 1] \* mutant

(* All blocks, block 0 on top. *)
FreeStack == [i \in 1 .. NumBlocks |-> NumBlocks - i]

(* The constructor. *)
Init ==
  /\ sequences = [s \in {} |-> None]
  /\ blocks = [b \in Blocks |-> FreeBlock]
  /\ free_list = FreeStack
  /\ allocated_blocks = 0
  /\ pool_tensor = [c \in Cells |-> Zero]
  /\ sequence_mutex = NoThread
  /\ call = [t \in Thread |-> Idle]

-----------------------------------------------------------------------------
(* Arithmetic of blocks and positions                                      *)

BlocksForFloor(n) == n \div BlockSize \* mutant: a part block is no block

(* The blocks n tokens need. *)
BlocksFor(n) == (n + BlockSize - 1) \div BlockSize

(* The logical block of the last of n tokens; C++ rounds -1 / b to 0. *)
LastBlock(n) == IF n = 0 THEN 0 ELSE (n - 1) \div BlockSize

(* Where the entry of position pos of s lives. *)
Cell(s, pos) ==
  <<sequences[s].block_indices[pos \div BlockSize + 1], pos % BlockSize>>

(* Callers' discipline: s is in no update that is under way. *)
Busy(s) == \E t \in Thread : s \in DOMAIN call[t].kv

-----------------------------------------------------------------------------
(* Sequences                                                               *)

CreateSequence(s, max_seq_len) ==
  /\ sequence_mutex = NoThread
  /\ s \notin DOMAIN sequences
  /\ sequences' = [u \in DOMAIN sequences \union {s} |->
       IF u = s THEN [seq_len |-> 0, max_seq_len |-> max_seq_len,
                      block_indices |-> <<>>]
                ELSE sequences[u]]
  /\ UNCHANGED <<blocks, free_list, allocated_blocks, pool_tensor,
                 sequence_mutex, call>>

ReleaseUncounted(list) == \* mutant: allocated_blocks is not reduced
  /\ blocks' = [b \in Blocks |-> IF b \in Range(list) THEN FreeBlock
                                                      ELSE blocks[b]]
  /\ free_list' = free_list \o list
  /\ UNCHANGED allocated_blocks

(* The blocks of list go back to the pool, the last on top. *)
Release(list) ==
  /\ blocks' = [b \in Blocks |-> IF b \in Range(list) THEN FreeBlock
                                                      ELSE blocks[b]]
  /\ free_list' = free_list \o list
  /\ allocated_blocks' = allocated_blocks - Len(list)

RemoveSequence(s) ==
  /\ sequence_mutex = NoThread
  /\ s \in DOMAIN sequences /\ ~Busy(s)
  /\ Release(sequences[s].block_indices)
  /\ sequences' = Restrict(sequences, DOMAIN sequences \ {s})
  /\ UNCHANGED <<pool_tensor, sequence_mutex, call>>

TruncateKeepingList(s, remove_len) == \* mutant: block_indices not resized
  /\ sequence_mutex = NoThread
  /\ s \in DOMAIN sequences /\ ~Busy(s)
  /\ remove_len <= sequences[s].seq_len
  /\ LET seq == sequences[s]
         new_len == seq.seq_len - remove_len
     IN /\ Release(SubSeq(seq.block_indices, BlocksFor(new_len) + 1,
                          BlocksFor(seq.seq_len)))
        /\ sequences' = [sequences EXCEPT ![s].seq_len = new_len]
  /\ UNCHANGED <<pool_tensor, sequence_mutex, call>>

(* Only the blocks between the old and the new length are released.  When  *)
(* there are any, block_indices is cut to the new length, which also drops *)
(* blocks that a failed update has left behind the old length.             *)
TruncateSequence(s, remove_len) ==
  /\ sequence_mutex = NoThread
  /\ s \in DOMAIN sequences /\ ~Busy(s)
  /\ remove_len <= sequences[s].seq_len
  /\ LET seq == sequences[s]
         new_len == seq.seq_len - remove_len
         new == BlocksFor(new_len)
         old == BlocksFor(seq.seq_len)
         kept == IF new < old THEN SubSeq(seq.block_indices, 1, new)
                              ELSE seq.block_indices
     IN /\ Release(SubSeq(seq.block_indices, new + 1, old))
        /\ sequences' = [sequences EXCEPT ![s].seq_len = new_len,
                                          ![s].block_indices = kept]
  /\ UNCHANGED <<pool_tensor, sequence_mutex, call>>

-----------------------------------------------------------------------------
(* cache_update                                                            *)

(* The call takes sequence_mutex. *)
CacheUpdate(t, ids, kv) ==
  /\ sequence_mutex = NoThread
  /\ call[t] = Idle
  /\ \A s \in Range(ids) : ~Busy(s)
  /\ sequence_mutex' = t
  /\ call' = [call EXCEPT ![t] =
       [phase |-> "prepare", ids |-> ids, kv |-> kv,
        todo |-> UNION {{s} \X (0 .. Len(kv[s]) - 1) : s \in DOMAIN kv}]]
  /\ UNCHANGED <<sequences, blocks, free_list, allocated_blocks, pool_tensor>>

Preparing(t, s) ==
  /\ call[t].phase = "prepare"
  /\ call[t].ids # <<>>
  /\ s = Head(call[t].ids)

NewLen(t, s) == sequences[s].seq_len + Len(call[t].kv[s])

(* The checks on s pass. *)
Fits(t, s) ==
  /\ s \in DOMAIN sequences
  /\ NewLen(t, s) <= sequences[s].max_seq_len

(* block_indices of s does not reach the block of its last new token. *)
NeedsBlock(t, s) ==
  Len(sequences[s].block_indices) <= LastBlock(NewLen(t, s))

(* allocate_block and the push_back of its result. *)
AllocateBlock(t, s) ==
  /\ Preparing(t, s) /\ Fits(t, s) /\ NeedsBlock(t, s)
  /\ free_list # <<>>
  /\ LET n == Len(free_list)
         b == free_list[n]
         list == sequences[s].block_indices
     IN /\ free_list' = SubSeq(free_list, 1, n - 1)
        /\ blocks' = [blocks EXCEPT ![b] =
             [sequence_id |-> s, block_index |-> Len(list)]]
        /\ sequences' = [sequences EXCEPT ![s].block_indices = Append(list, b)]
  /\ allocated_blocks' = allocated_blocks + 1
  /\ UNCHANGED <<pool_tensor, sequence_mutex, call>>

(* The next sequence of the batch; after the last the mutex is released. *)
PrepareNext(t, s) ==
  /\ Preparing(t, s) /\ Fits(t, s) /\ ~NeedsBlock(t, s)
  /\ LET rest == Tail(call[t].ids) IN
       /\ call' = [call EXCEPT ![t].ids = rest,
                               ![t].phase = IF rest = <<>> THEN "copy" ELSE @]
       /\ sequence_mutex' = IF rest = <<>> THEN NoThread ELSE t
  /\ UNCHANGED <<sequences, blocks, free_list, allocated_blocks, pool_tensor>>

(* A check fails, or no block is free: the exception leaves what has been  *)
(* allocated so far, for s and for the sequences before it.                *)
PrepareFails(t, s) ==
  /\ Preparing(t, s)
  /\ Fits(t, s) => NeedsBlock(t, s) /\ free_list = <<>>
  /\ call' = [call EXCEPT ![t] = Idle]
  /\ sequence_mutex' = NoThread
  /\ UNCHANGED <<sequences, blocks, free_list, allocated_blocks, pool_tensor>>

(* One token of the copy, in whatever order the OpenMP threads run. *)
CopyToken(t, s, k) ==
  /\ call[t].phase = "copy"
  /\ <<s, k>> \in call[t].todo
  /\ pool_tensor' = [pool_tensor EXCEPT
       ![Cell(s, sequences[s].seq_len + k)] = call[t].kv[s][k + 1]]
  /\ call' = [call EXCEPT ![t].todo = @ \ {<<s, k>>}]
  /\ UNCHANGED <<sequences, blocks, free_list, allocated_blocks,
                 sequence_mutex>>

CommitEarly(t) == \* mutant: the lengths do not wait for the copy
  /\ call[t].phase = "copy"
  /\ sequence_mutex = NoThread
  /\ sequences' = [s \in DOMAIN sequences |->
       IF s \in DOMAIN call[t].kv
         THEN [sequences[s] EXCEPT !.seq_len = NewLen(t, s)]
         ELSE sequences[s]]
  /\ call' = [call EXCEPT ![t] = Idle]
  /\ UNCHANGED <<blocks, free_list, allocated_blocks, pool_tensor,
                 sequence_mutex>>

(* The new lengths, under sequence_mutex again. *)
Commit(t) ==
  /\ call[t].phase = "copy"
  /\ call[t].todo = {}
  /\ sequence_mutex = NoThread
  /\ sequences' = [s \in DOMAIN sequences |->
       IF s \in DOMAIN call[t].kv
         THEN [sequences[s] EXCEPT !.seq_len = NewLen(t, s)]
         ELSE sequences[s]]
  /\ call' = [call EXCEPT ![t] = Idle]
  /\ UNCHANGED <<blocks, free_list, allocated_blocks, pool_tensor,
                 sequence_mutex>>

-----------------------------------------------------------------------------

SequenceStep(s) ==
  \/ \E max_seq_len \in MaxSeqLen : CreateSequence(s, max_seq_len)
  \/ RemoveSequence(s)
  \/ /\ s \in DOMAIN sequences
     /\ \E n \in 0 .. sequences[s].seq_len : TruncateSequence(s, n)

UpdateStep(t) ==
  \/ \E ids \in Batch : \E kv \in [Range(ids) -> Entries] :
       CacheUpdate(t, ids, kv)
  \/ \E s \in Seqs : \/ AllocateBlock(t, s) \/ PrepareNext(t, s)
                     \/ PrepareFails(t, s)
  \/ \E todo \in call[t].todo : CopyToken(t, todo[1], todo[2])
  \/ Commit(t)

Next == (\E s \in Seqs : SequenceStep(s)) \/ (\E t \in Thread : UpdateStep(t))

Spec == Init /\ [][Next]_vars

-----------------------------------------------------------------------------
(* Safety                                                                  *)

(* A block is in one place only: once in the free list, or once in the     *)
(* list of one sequence.  allocate_block, release by removal and by        *)
(* truncation, and updates that fail half way, never hand out a block that *)
(* somebody still uses.                                                    *)
BlockExclusive ==
  /\ IsInjective(free_list)
  /\ \A s \in DOMAIN sequences :
       LET list == sequences[s].block_indices IN
         /\ IsInjective(list)
         /\ Range(list) \intersect Range(free_list) = {}
         /\ \A u \in DOMAIN sequences \ {s} :
              Range(list) \intersect Range(sequences[u].block_indices) = {}

(* The three views of what is free agree: the free list, the owners kept   *)
(* in blocks and the counter allocated_blocks.                             *)
BlocksAccounted ==
  /\ allocated_blocks = NumBlocks - Len(free_list)
  /\ \A b \in Blocks :
       blocks[b].sequence_id = None <=> b \in Range(free_list)

(* Every committed token has a block: what attention and the next copy     *)
(* index by position is inside block_indices.                              *)
TokensHaveBlocks ==
  \A s \in DOMAIN sequences :
    /\ sequences[s].seq_len <= BlockSize * Len(sequences[s].block_indices)
    /\ sequences[s].seq_len <= sequences[s].max_seq_len

(* What the sequences hold, and what the updates under way bring. *)
Contents ==
  [s \in DOMAIN sequences |->
     [i \in 1 .. sequences[s].seq_len |-> pool_tensor[Cell(s, i - 1)]]]
Supplied == [t \in Thread |-> call[t].kv]

(* The pool is a store of lists: no update, failure, removal or truncation *)
(* of one sequence shows in another, and an update shows at its commit.    *)
Store == INSTANCE SlabStore WITH store <- Contents, supplied <- Supplied
StoreSpec == Store!Spec

(* docs/SlabAttention.md:55: "When a sequence is removed, all its blocks   *)
(* are pushed back."  Without sequences the whole pool is free.            *)
RemovedBlocksComeBack ==
  DOMAIN sequences = {} => Len(free_list) = NumBlocks
=============================================================================
