# AMD PACE in TLA+

Specifications of the parts of AMD PACE whose correctness depends on order,
failure, sharing and boundaries: the inference server from the launcher to the
token queues, the engine and its decoding, the caches under it, how a model gets
its weights, its operators and its forward pass, and how the attention kernels
divide and accumulate their work. TLC checks them on small
instances; the TLA+ proof system proves the theorems in the `*Proofs` modules
for every value of the constants.

Paths are relative to the repository's root (`pace/...`, `csrc/...`).

## The system

| Component | State it keeps | Operations | Talks to | Module |
|---|---|---|---|---|
| Launcher (`pace/server/launcher.py`), monitoring | processes | start, wait, terminate | engines, router, Prometheus as processes | `Launcher` |
| Router endpoints (`router/request_handler.py`, `streaming.py`) | `active_streams`, one `token_queue` per request | submit, drain, merge, notice a disconnect | scheduler (calls, shared `active_requests`, `cancelled_requests`) | `PrefillFirst`, `Streams` |
| Router front end (`router/frontend.py`) | - | configure the engines at startup | engines, by HTTP | `Launcher` |
| Schedulers (`router/scheduler.py`) | a request queue, decode queue, decode task and stop event per engine; round-robin index; `active_requests` | submit, workers, decode loops, finalize, cleanup | engine client; token queues | `PrefillFirst`, `Iterative` |
| Engine client (`router/engine_client.py`) | none of its own | `perform_prefill`, `decode_step`, `iterative_generate_tokens`, `clear_concluded_request` | engine, by HTTP with time-outs | `PrefillFirst`, `Iterative`, `Serving` |
| Metrics (`router/metrics.py`) | intervals and totals | clean a request up, take the lists into the totals | scheduler | `Metrics` |
| Engine (`pace/server/engine/`) | `prefill_queue`, `decode_queue`, `_all_greedy`, a `Sequence` per request | `/step`, `/remove_sequence`, `/config_server`, each in a thread of a pool, without a lock | model, cache, speculative decoder | `Engine`, `Decoding`, `Launcher` |
| Speculative decoding (`pace/llm/speculative.py`) | draft cache, position counters | draft, verify, trim | target and draft cache | `Decoding` |
| Generator, stopping criteria, sampler (`pace/llm/`) | per batch or request | generate, stop, sample | model, cache | `Decoding`, `Sampler` |
| Contiguous, paged and slab caches (`pace/llm/attention/`) | tensors; block tables; sequences per layer | create, write, attend, trim, remove | slab pools, kernels | `ContiguousCache`, `PagedCache`, `SlabCache` |
| Masks of the contiguous backend | shared mask buffers | make, reuse, rewrite | contiguous caches | `AttentionMask` |
| vLLM plug-in (`packages/pace_vllm`) | request-to-sequence map, a pool per layer | what vLLM's scheduler decides | slab pools | `PaceKVCache` |
| Slab pool (`csrc/ops/attention/slab/`) | sequences, blocks, free list, tensor | create, remove, truncate, `cache_update` | - | `SlabPool` |
| Attention kernels (`csrc/ops/attention/`) | buffers of a thread | cut a call into items, compute rows | pool tensor | `AttentionKernels`, `OnlineSoftmax` |
| Models (`pace/llm/models/`) | parameters; the tensors that wait for others while a checkpoint is read | load weights, forward | caches, operators | `ModelLoading`, `ForwardPass` |
| Operators (`pace/ops/`, `OperatorConfig`) | a backend per operator, the layout of its weights | finalize, construct, preprocess, execute | models; kernels (`csrc/ops/`) | `Operators` |
| Graph passes, quantized tensors, threading | - | numerical code, pinning | - | - |

What is hard in it:

* The router is one asyncio loop with two long-lived tasks per engine. They
  hand work to each other through a queue, a dictionary, a task handle and an
  event, and every `await` lets the other one, a client or a cleanup in.
* Every engine call can answer, reject, raise or time out, for one request or
  for a whole batch. The engine keeps working on what the router gave up.
* A forward goes through one cache per layer and may stop between two of them.
* Blocks, mask buffers and weight buffers are used again by others.
* Pools hand blocks out half-way through a batch and may then run out.
* Speculation writes more than it keeps: two caches, two counters and the
  token buffer have to be cut back to the same place.
* Padding, windows, tiles and blocks all end in the middle of each other.
* Weights arrive in any order, are put together from several tensors, and are
  rewritten in place by whichever backend an operator ended up with; a kernel
  that reads the wrong layout computes garbage and nothing notices.

`PROJECT.json` lists every hazard at its line with the properties that cover
it, and the components with what is modelled of each.

## Modules

| Module | What it is |
|---|---|
| `RequestLifecycle` | abstract: what the router promises about a request |
| `PrefillFirst` | `PrefillFirstScheduler`, the engine client and the readers |
| `Iterative` | `IterativeScheduler`, on the variables of `PrefillFirst` |
| `PrefillFirstProofs` | theorems about `PrefillFirst` and `Iterative` |
| `Streams` | the responses of a request with several prompts |
| `StreamsProofs` | theorems about `Streams` |
| `Metrics` | the active times of `SchedulerMetrics` |
| `Launcher` | processes, and the configuration of the engines |
| `RouterProofs` | theorems about the launcher, and those about `Streams`, in `MCRouter` |
| `Engine` | `ModelExecutor` behind `/step` and `/remove_sequence` |
| `Serving` | `PrefillFirst` with one engine, and one `Engine`, joined by HTTP calls |
| `ServingProofs` | theorems about `Serving`, on those about `PrefillFirst` |
| `GreedyDecoding` | abstract: what greedy decoding promises for a prompt |
| `Decoding` | decode loops, PARD speculation, stopping, of engine and Generator |
| `ModelLoading` | `load_weights` of every architecture |
| `ForwardPass` | the residual stream and the experts in one pass |
| `Operators` | registry, fused operators, weight layouts, kernels of an MLP |
| `DecodingProofs` | theorems about `Decoding`, `ModelLoading`, `ForwardPass`, `Operators` |
| `Sampler` | one token out of the logits of one sequence |
| `KVStore` | abstract: a list of entries per context and layer |
| `ContiguousCache`, `PagedCache`, `SlabCache`, `PaceKVCache` | the cache backends, and the vLLM plug-in's |
| `SlabStore` | abstract: a list of cache entries per sequence |
| `SlabPool`, `SlabPoolProofs` | the C++ slab pool of one layer, and its theorems |
| `AttentionMask` | the masks of the contiguous backend |
| `AttentionKernels`, `AttentionKernelsProofs` | work items, reads and writes of a call, and theorems about them |
| `AttentionProofs` | theorems about the caches and the masks, and the one about the kernels, in `MCAttention` |
| `OnlineSoftmax` | one row of a kernel, block by block |
| `MCPrefillFirst`, `MCRouter`, `MCServing`, `MCSlabPool`, `MCDecoding`, `MCAttention` | instances for TLC |

`Iterative` extends `PrefillFirst`; `Serving` extends `Engine` and instantiates
`PrefillFirst`; `OnlineSoftmax` extends `AttentionKernels`. Four refinements are
checked: `PrefillFirst` and `Iterative` implement `RequestLifecycle` (per
request), `SlabPool` implements `SlabStore`, the four caches implement
`KVStore`, `Decoding` implements `GreedyDecoding`; and `Serving` keeps to what
`PrefillFirst` takes for granted of an engine.

`MCRouter`, `MCAttention` and `MCDecoding` each join parts that share no state
(the last one decoding, loading, a pass and operators): an initial state chooses one, the other parts are at rest with nothing enabled, and each
property is the chosen part's. They save runs, nothing else.

### PrefillFirst

State: the variables carry the names of the code (`request_queues`,
`decode_queues`, `active_requests`, `cancelled_requests`, `stop_events`,
`current_engine_index`). `worker[e]` and `loop[e]` are the positions of the
two tasks of engine `e`, `pending[e]` is the worker's local list, `scan`,
`results` and `target` are the loop's. `status` is `RequestStatus`; the token
queue of a request is split into `tokens` (what was generated) and `marks`
(the `"ERROR"` and `None` items), which is all a reader can tell apart.

Actions: an asyncio task runs without interruption between two awaits that
suspend, so an action is the code between two such awaits or a part of it.
`token_queue.put` and `request_queues.put` never suspend because the queues
are unbounded. Where a run of code is cut into several actions (the items of
one answer, the end of a step and the top of the loop, one batch and the
next), the model has all the interleavings of the program and some more. The
answer to an engine call is a parameter of the action that consumes it; the
answers enumerated (`Answers`, `PrefillAnswer`, `StepAnswer`) are what
`ModelExecutor` can answer for the sequences of the decode queue, plus
failure. Answers about sequences outside the decode queue are dropped by
`StepAnswered`, as in the code, and are not enumerated.

`start()`/`stop()` and the text of the chunks are left out. A stream of a
multi-prompt request is a request of its own here; `Streams` has their merging.

### Iterative

The base class, its queues and its readers are those of `PrefillFirst`, so the
module extends it; the request in hand is `Head(pending[e])` and the positions
of the worker are its own. There is no decode loop, and no cancelled id is
looked up: a request that is no longer tracked is given up between two steps.
`EitherSpec` starts with either scheduler.

### Streams

A request with several prompts from the token queues to the client: `merge`
(`merge_stream_generators`), `single` and `gather` (not streamed). A round of
`merge` waits for the first finished task and then writes what is done; the
client may leave while the response waits, where the tasks are cancelled, or
at a yield, where only closing the generator cleans up. The scheduler is
whatever puts chunks and in the end `"ERROR"`, `None` or both into a queue.

### Metrics

The intervals of a request are added when it is cleaned up; the totals take
the lists in every 30 seconds, when nobody is queued, whoever is being
decoded. Time is a small number that passes between any two events.

### Launcher

The positions of `main`, a state per process (any may die at any time), and a
load per engine and asker: the router's at startup, which it may give up while
the engine goes on with it, and one of the operator's.

### SlabPool

State: `sequences` (id to `SequenceState`), `blocks` (owner and place),
`free_list` as a stack, `allocated_blocks`, `pool_tensor` by block and
position, `sequence_mutex`, and `call[t]`, the `cache_update` of thread `t`.

Actions: what runs under `sequence_mutex` from end to end is one action;
`cache_update` is split into its preparation (one step per allocated block,
because `pool_mutex` is released in between), one step per copied token in
any order (OpenMP), and its commit. A failed check leaves the blocks that
were allocated before it. One entry stands for the keys and values of a token
in all heads. The fast path for one token per sequence and the general path
differ only in where they compute the cell, so they are one here.

The pool gives no protection against two calls on the same sequence: the copy
follows a pointer taken under a lock it has released. `Busy` states what its
callers do (a batch has each sequence once, and a sequence is in one batch at
a time); what happens otherwise is undefined behaviour and outside the model.

### Engine

State: `prefill_queue`, `decode_queue` and `_all_greedy` as in `ModelExecutor`,
with a request id for its `Sequence`; `contexts`, the cache contexts alive, and
`uneven`, the sequences whose layers hold different lengths; `generated`, the
number of tokens of each sequence; `call[t]`, the HTTP call that thread `t` of
the endpoint's pool runs, with its position and what it remembers. A token is
its place in the sequence, so that a stream with a token left out or given
twice shows.

Actions: nothing locks the executor, so a call is cut at each read and each
write of the two queues and the flag. `DecodeStart` reads the keys
(`server.py:514`), `DecodePrepares` the flag (524); `PrefillMoves` takes a
sequence out of the prefill queue, `MoveToDecodeQueue` inserts it (246), reads
the flag and writes it (247). `remove_sequences` is a loop: an id is found
(`RemoveFinds`), popped and released (`RemovePops`) or popped by another thread
first (`RemoveMisses`), and then the flag is read (`RemoveReads`), computed
(`RemoveScans`) and written (`RemoveCounts`). Steps that only the thread itself
could tell apart are one action, and so are the tokens of one decode step.

`remove_cache` raises for a sequence in `uneven`, after it was popped and
before its context is released. `Raises` says where the exception goes: a
prefill is answered by an error without an item, a decode step runs the handler
of a failed batch (`Fails`, `DecodeHandles`), and in that handler, or in
`/remove_sequence`, the call ends with HTTP 500 and leaves the rest undone.

Which failures there may be is the constant `Faults`: `"model"` is a forward
that raises, `"layers"` one that raises between two layers, which is what makes
a sequence uneven, `"sample"` what comes after the forward of a prefill.
`Sequence.__init__` may raise before it has a cache context (`"config"`) or
after it (`"stop"`): in the second case the context is never released. A
prefill of several requests in one call, which the endpoint allows, never comes
from the router.

### Serving

`PrefillFirst` consumes answers as parameters; `Serving` takes each of its
actions as it is and says where the answer comes from. `Wanted` is the call
the router awaits at its present positions. A step that leads to such a
position sends the call to a free thread (`Exchange`); a step that consumes an
answer waits for it (`Answered`), and a step that stands for an exception
happens when the call was lost before the engine had it or when its time is
up (`Raised`). In the last case the thread goes on with the call: it may even
start it late. `clear_concluded_request` only logs what becomes of it, so its
steps go on in either case. One engine is modelled: engines share nothing.

### Decoding

One module for the engine's decode steps and the Generator's loop, with and
without PARD speculation. A cache is the list of tokens it holds; `nc` and
`dnc` are the position counters. Each prompt has one greedy continuation,
chosen at the start; the target model continues it only as long as cache and
positions show it exactly the tokens so far, and may otherwise rank any token
first, so that a stale or missing entry shows as a wrong text. The draft model
always guesses anything. A forward is an action of its own, so that another
sequence's prefill may come between draft and verify, and a step may fail
whenever the code's may.

### ModelLoading

State: `params` and the two collections of the code, `qkv_cache` for the
projections of `FusedQKVLinear` and `pending` for the MXFP4 blocks and scales of
GPT-OSS; `unread` is what the weight iterator has yet to yield, and `alias` says
that the output projection is the embedding's `Parameter`. The value of a
parameter is the list of tensors it was made from.

Actions: one per tensor, by what `load_weights` does with it (`Skip`,
`Collect`, `CollectExpert`, `Copy`, `LoadFails`), in any order, and `Finish` for
what comes after the last one. The classes differ in what they skip, when they
tie and whether they split or dequantize; that is what `Skipped`, `Tied` and
`arch` say. Gemma 3 loads like Qwen 2 and Phi 3 like Llama. Shapes and names of
tensors are left out: that a tensor is mapped to its parameter is the pair of
its kind and layer.

### ForwardPass

The fused norms of the decoder layers take two tensors, `hidden` and `residual`,
add them up, and hand on the sum and its norm. A tensor is the number of times
each term went into it, the embeddings and the output of each block being the
terms, so that a term that is lost or counted twice shows. The three wirings of
the code are one action per block each; the experts of GPT-OSS compute one
after the other for the tokens that picked them, as `GptOssExperts.forward` does.
Embeddings of positions (OPT), the check of the number of caches, and a model
without a last norm are parameters of a net.

### Operators

State: `phase` and `turn`, the module that is constructed or preprocessed;
`impl[m]`, the backend a module was asked to have, `cls[m]`, the one it has;
`weight`, the layout of each weight; `pieces`, the weight chunks of IMBPS;
`rounds`, what the kernels computed. The modules are those of a `MergedMLP`, its
fused linears with their plain linear and activation, and an output projection.

Actions: `Finalize` (attention backend from the cache, or an error when the
configuration was used before), `Construct` in the order of the constructors,
where a fused operator without a kernel falls back to its parts and any other
operator to the first backend that has one, `Preprocess` in the order of
`named_modules`, where each backend rewrites its weights, and `Execute`, one
round of kernels. The environment variables that choose a path are part of a
build.

### The caches

`KVStore` says what attention relies on: a forward appends the new entries of
every context of its batch, layer by layer, and attention finds the whole list
of each; one that is abandoned costs the contexts of its batch and no others.
The backends keep the code's representation: tensors with a written and an
allocated part (`ContiguousCache`), block lists and slots (`PagedCache`, with
the engine's shared pool and the private ones of draft model and offline use),
sequences per layer under a manager that `create_context` may replace
(`SlabCache`). An entry is a number and the context it belongs to; `Zero` is
memory nobody wrote. `PagedCache` has no order of the free blocks, though the
code's `free_blocks` is a queue: an allocation takes them in any order, since
nothing may depend on it. `PaceKVCache` has vLLM's scheduler as an environment that
schedules, preempts and ends requests; a call that raises ends the worker.

### AttentionMask

The columns of a cache tensor that each query of a forward attends to, from
the mask the code builds; the buffers are a pool shared by layers and requests
and rewritten in place. All masks of a batch are made before they are used.

### AttentionKernels and OnlineSoftmax

A call of several sequences is cut into work items (heads, groups of heads,
tiles of queries, ...) by the heuristic of the code; an item reads positions
and writes rows. `OnlineSoftmax` runs one row through its blocks, for the five
kernel paths: running maximum, sum, correction of both, masked blocks, the buffers
the last tile left. `exp` is a power of two on integers, so that results can
be compared exactly; rounding, packing and intrinsics are left out.

### Sampler

Sampling for one sequence with integer logits and halves and quarters for the
parameters: which tokens may be drawn. The draw itself is any of them.

## What is checked

| Run | Instance | Shows |
|---|---|---|
| `prefill_first_safety` | either scheduler, 3 requests, 2 engines | no double or missing terminator, no `/step` beside another, no request without a task, no decode queue without a loop, no stale stop event, no untracked live request; the refinement of `RequestLifecycle` |
| `prefill_first_tracking` | 2 requests, fairness | **violated**: a request completed by its prefill is tracked for ever |
| `router` | scheduler with 2 requests; 2 prompts of 2 chunks; 2 engines; 2 requests in 4 instants | a cancelled request leaves the decode queue; chunks arrive once, in order, completely; responses end; busy time counts once; nothing stays behind when the launcher gives up; a configured engine is usable |
| `serving_safety` | 3 requests, every call arrives | one call at a time; router and engine agree on what is decoded; no context left but those whose removal raised; streams without gaps; the greedy path is taken by greedy batches only; the engine answers what `PrefillFirst` takes for granted |
| `serving_timeouts` | 2 requests, calls lost or abandoned | requests still live the life of `RequestLifecycle`; what late calls leave in the engine is of concluded requests |
| `serving_live` | 2 requests, fairness, calls may be lost | every stream ends |
| `serving_concurrent` | 2 requests, calls may time out | **violated**: one call at a time |
| `decoding` | 2 prompts, texts of 3, 2 guesses; models of 1 or 2 layers; passes of 2 or 3 layers; every backend and activation | caches and counters in step, stopping, room; what is delivered is the greedy text; every text ends; parameters made from their own tensors; blocks given the whole stream; kernels read the layout that is there |
| `attention` | 2 contexts, 2 layers, 3 blocks of 2; rows of up to 7 positions; 3 tokens | memory accounted for and the refinement of `KVStore` for every backend; masks exact outside three named cases; every output row computed once from the right entries; softmax exact; sampling as the parameters say |
| `attention_masks` | the same instance | **violated**: masks exact without exceptions |
| `slab_pool` | 2 sequences, 2 threads, 3 blocks of 2 | block ownership, accounting, coverage; the refinement of `SlabStore` |
| `slab_leak` | 2 sequences, 1 thread, 3 blocks | **violated**: a failed update, a truncation and a removal lose a block |

### Bounds

* Scheduler: `MaxTokens` is the only bound besides the constants: an engine
  answers `PROGRESS` only for a request with fewer tokens, so that decoding
  ends. One token value is enough because no decision looks at a token. Three
  requests give a batch being decoded, one arriving during it and one more
  arriving while the worker waits; with two engines the index wraps. In
  `router` tokens are not recorded and decoding need not end, so that only the
  clearing can take a cancelled request out.
* `Streams`: two prompts that end in one round or in different ones, two
  chunks so that a stream may be behind the other.
* `Metrics`: two requests overlap, nest, touch or stand apart in four instants,
  with the totals computed in between; the merging itself starts as well from
  all lists of up to three intervals.
* `Launcher`: two engines, so that one comes up and the other does not.
* `Serving`: one request is greedy and the others sample, so that the flag has
  to come and go; with three requests a sampling one may leave a batch that
  another one stays in. `max_new_tokens` is 2, so that a sequence may stop at
  its prefill, early, or at its limit. Two threads are one more than the router
  uses, so that one abandoned call may run beside its successor. In
  `serving_timeouts` no request is greedy: the flag is read, computed and
  written by calls that overlap, and two kinds of requests would double the
  states without adding to its properties, which do not look at the flag.
* `Decoding`: prompts of one and two tokens make rows with padding and
  counters that differ; three new tokens and two guesses make rounds that
  accept none, some and all, and pass the end of the text inside a round.
  With speculation `min_new_tokens` is at most 1 in the engine and 0 offline
  (`Lossless`):
  the sampler masks EOS for all candidates of a round by the length before it
  (`sampler.py:166-183`), so with larger values the text may go on past the
  greedy one's end. No document says what should happen there.
* `ModelLoading`: any order of up to twelve tensors in one or two layers puts each
  tensor before and after each of those it is combined with, in its own layer
  and in another; checkpoints lack biases, projections or experts, have them
  fused, tie the output or bring it.
* `ForwardPass`: three layers have one that is first, last and neither; three
  experts of which two for two tokens make experts that one, both and no token
  picked.
* `Operators`: every backend, gated and not, with weights that all, partly or not
  fit the blocks of the packed layout; five inner columns in pieces of five,
  three and two, which end with a piece of the same size or a shorter one.
  The activation `tanh` stands for all that the fused linears refuse.
* Caches: two layers have one between which a forward stops; two contexts
  and three blocks of two run out in the middle of a batch and give blocks of
  one context to the other; appends of one and two entries meet and cross a
  block's end. `MaxManagers` bounds the managers `create_context` makes.
* Masks: windows of 2 over up to 4 entries have entries before, in and after
  the window; one mask buffer or two make sharing and rewriting necessary. The
  offline generator has one batch of two rows with padding.
* Kernels: tiles and blocks of 2, windows of 2 and 3, 1 to 5 new tokens after
  0, 1 or 3 entries, one and two sequences, 1 to 6 threads: every branch of
  the heuristic but Split-K, which `NoSplitK` shows dead. `BrgemmMin`,
  `MtdMaxQ`, `QTile` and `MaxSplits` are the code's thresholds made small.
* Softmax: all orders of three scores at every place of the block and the
  tile; Split-K rows of three parts of which the last is empty.
* Sampler: all logits of three values for a token of the prompt, one of the
  output and one of neither; every filter off, mild, and strict.
* `SlabPool`: three blocks for two sequences that may need two each make
  updates fail at every point, block size 2 has both positions and both sides
  of a boundary, two different entries tell a cell from its neighbour, and
  maximal length 3 makes the length check fail.

Requests, sequences, contexts, blocks and threads are symmetric where a
configuration says so: nothing orders them. Symmetry is not used with liveness.

The type invariants of `PrefillFirst`, `Serving` and `SlabPool` are theorems
(below) and not repeated in the runs.

Deadlock is checked for `SlabPool` only. The other systems are finite (all
requests served, all contexts gone, all items done) and really stop
(`CHECK_DEADLOCK FALSE`).

### Fairness

* Scheduler and `Serving`: weak fairness of each worker, decode loop, scheduled
  cleanup and reader: the event loop runs every ready task, and `HTTPConfig`
  puts a bound on every engine call, so that it is answered or raises. Each
  thread of the engine is weakly fair: a forward ends.
* `Streams`: weak fairness of the response and of each sub-request's task, for
  the same reason, and of the scheduler's last mark in each queue, which
  `EveryStreamEnds` shows. Nothing is assumed about clients.
* `Launcher`: weak fairness of `main`, whose waits have time-outs, and of a
  process's end after a signal. Nothing is assumed about processes coming up.
* `Decoding`: weak fairness of the next step: the router asks for one after the
  other, and `generate` loops. Which of its steps fail is not constrained.
  Loading, a pass and the choice of operators have no fairness: the properties
  about them are invariants.

What `PrefillFirst` assumes of an engine, an item for each sequence of the
decode queue, is `RouterSpec`, checked in `serving_safety`, for calls that
arrive. It does not survive time-outs. TLC finds three more behaviours there
that no document speaks about; they are hazards in `PROJECT.json`:

* The router times out on a decode step before the engine has started it, and
  prefills another request. The abandoned step starts late, takes that request
  into its batch, and fails or ends it; nobody reads the answer. From then on
  the engine answers that there is nothing to decode, which `decode_step` takes
  for a success, and the stream never ends.
* In the same order of events the abandoned step succeeds: it produces a token
  of the other request that nobody reads, and the stream goes on with the token
  after it (`MaxNewTokens = 3` shows the gap).
* An abandoned prefill inserts a sampling sequence into the decode queue
  (`server.py:246`), and before it clears `_all_greedy` (247) a decode step
  reads the keys (514) and the flag (524): the step takes the greedy path for
  all of them. A removal may also lose the update for good, when it has looked
  at the queue before the insertion and writes its TRUE over the FALSE
  (`server.py:828-833`). `GreedyBatch` is therefore checked, and proved, for
  calls that arrive and are waited for.

### Findings

* `prefill_first_tracking`: `scheduler.py:309-318` creates a cleanup task for
  a failed prefill and queues a successful one, but does neither for
  `"COMPLETED"`; `docs/InferenceServer.md:250` promises that completed
  requests leave the scheduler's tracking.
* `slab_leak`: `slab_pool_avx512.cpp:307-318` cuts `block_indices` to the new
  length and releases only the blocks up to the old one. A decode step that
  fails with "no free blocks" has already appended blocks for some sequences
  of the batch, and `remove_sequences` (`engine/server.py:817-818`) truncates
  every sequence to zero before it removes it. The blocks are lost until the
  process ends, and the pool that ran out of blocks once has fewer afterwards.
* `serving_concurrent`: the comment on the paged pool,
  `pace/llm/attention/paged/cache.py:303-306`, rests on single-threaded access
  per engine process. After a time-out (`scheduler.py:388-395`,
  `engine_client.py:263`) the router sends the next call while the abandoned
  one still runs in its thread.

What the models also show, without a run of their own:

* Split-K is never chosen (`NoSplitK`), although `docs/SlabAttention.md:188`
  says when it is.
* After a forward that raised between two layers the layers of a slab sequence
  differ in length. `remove_sequences` pops it from its queue, `remove_cache`
  (`engine/server.py:817`) asks every layer to cut off the length of layer 0
  (`slab/cache.py:336-342`) and raises, and `remove_context` (818) and the flag
  (828-833) are skipped. No later call finds the sequence, so its context and
  its blocks stay until the process ends, although `docs/SlabAttention.md:55`
  says "When a sequence is removed, all its blocks are pushed back." TLC refutes
  `RemovedIsReleased` of `Serving` with `Faults = {"layers"}`; `NoOrphanContext`
  allows exactly these contexts, `NoContextIsLeft` proves that there are no
  others, and `EveryContextReleased` that there are none at all when no forward
  fails between two layers.
* A load that raises after the model was set cannot be repeated: the next one
  finds a model, skips everything, and the engine answers "Server configured
  successfully" (`engine/frontend.py:48`) without a cache or a decoder.
  `ConfiguredIsUsable` names these engines as its exception (`partial`).
* The totals take the lists in while requests are being decoded
  (`metrics.py:98`); the interval of such a request comes later and counts
  instants again, in the divisor of what
  `docs/InferenceServerMonitoring.md:100` calls completed requests per second of
  active time. `ActiveTimeExact` names these intervals as its exception
  (`straddled`). Besides, `active_ttft_time` (`metrics.py:80`), which line 99
  calls cumulative, is computed of the list that the loop empties; the model
  leaves it out.
* OPT with `_remove_final_layer_norm` (`opt.py:239-244`) has nothing behind
  its last layer that adds the two tensors of the stream (`opt.py:300-304`):
  what the output projection is given is the last MLP's output alone, which
  `ForwardExact` names as its exception (`DropsResidual`).
* A tensor that a checkpoint lacks leaves its parameter as `torch.empty` made it
  (`linear.py:22-49`), and experts of GPT-OSS that are not quantized are skipped
  (`gpt_oss.py:410-476`): `WeightsLoaded` says what parameters are made of, not
  that there is something.
* A GELU of either kind is the exact one or the one the kernel has, depending
  on the backend an operator ends up with (`activations.py:171`,
  `_GELU_ALIASES` in `tpp.py`): `OperatorsCompute` is up to the kind of GELU.
* IMBPS accepts an MLP with `gelu_new` or a gated one with `gelu` and refuses it
  at its first forward (`mlp.cpp:62-73`); an `OperatorConfig` that was finalized
  cannot be given to a second model (`configs.py:520-525`); OPT and GPT-J do
  not count the caches they are given.
* `SamplingConfig.merge_from` copies the values whose names the caller gave
  (`configs.py:283`), but the argument `seed` is kept as `sampling_seed`: the
  `seed` of a request, which `docs/InferenceServer.md:147` lists, is dropped.
* An exception of the launcher after it started the router leaves the router
  running (`launcher.py:337`).

## What is proved

`PrefillFirstProofs`, for every set of requests, number of engines, token set
and bound, from the named assumptions in `PrefillFirst`:

* `TypeCorrect`, by `Next` preserving `TypeInv`: `TypeOK`, and for each engine
  `Control(e)`, which ties the two tasks together: the worker prefills or
  clears only while there is no loop; the batch is empty exactly when the
  worker is idle; the loop's target is there exactly in the positions that
  use it; an idle worker and no loop mean an empty decode queue; a set event
  with a loop means that its worker waits. `PrefillExcludesDecode`,
  `StopEventNeverStale` and `DecodeIsDriven` are its parts.
* `StreamsEndOnce` needs to know where a request can be. `PlacesInv` says that
  a request is in one place only: new ones nowhere, queued ones in the line of
  their own engine and once, processing ones at the head of the batch or in
  the decode queue of their engine, concluded ones nowhere. Without it the
  worker could start a request again that the loop has concluded.
* `LiveRequestsAreTracked` and `NoRequestIsLost` follow on `PlacesInv` too. A
  request loses its entry or its place only after it was concluded or its
  client left: the cleanups that are scheduled, and the loop's clearing of
  cancelled ids, are about no other request.
* `LifecycleImplemented`: under the two invariants every step of the scheduler
  is, for each request, a move of `RequestLifecycle` or none.
* `Iterative` has the same five results (`IterativeTypeCorrect`,
  `IterativeStreamsEndOnce`, `NoRequestIsLostIteratively`,
  `LiveAreTrackedIteratively`, `LifecycleImplementedIteratively`) from
  `IterativeInv`. A worker that does not wait has exactly one request in hand
  and no other engine has it (`OneAtATime`, `InHand`); a live request is in
  the line of its engine or in that hand (`InLine`). `Terminated` ties the
  marks of a stream to the status: an error mark comes before the end marker,
  and that there is one between the two, and no second of either, is
  inductive only because the worker that removes a failed request still has
  it in hand.

`SlabPoolProofs`, for every pool and block size, set of sequences and of
calling threads, from `PoolAssumption`, `CallAssumption` (a batch names no
sequence twice) and `NothingAssumption`:

* The inductive invariant `IInv` goes by owners. `ListsOwned` and `FreeOwned`
  say that a block in a list names that sequence and its own place in it, that
  a free block names nobody and that a block that names nobody is free;
  exclusive ownership (`BlocksAreExclusive`) and the accounting
  (`BlocksAreAccounted`) follow, although neither is inductive alone: a
  truncation may drop blocks from a list (the leak above) and only their
  owner says that they are not free.
* `TokensAreCovered` needs to know at the commit what the preparation did, two
  critical sections earlier. `ReadyCovered` says that a sequence whose
  preparation is over has its blocks and fits its maximal length;
  `CallsApart`, that calls under way are about different sequences, so that
  nobody takes the blocks away in between. `LastBlockBound` and
  `BlocksForCovers` are the arithmetic: comparing with the block of the last
  token allocates enough, and the rounded-up quotient covers all tokens.
* `TypeCorrect`: the types of all variables.
* `StoreImplemented`: under `IInv` each step is a step of `SlabStore`, whose
  sequence is the committed part of the blocks read through `block_indices`.
  Exclusive ownership makes a copy invisible to the other sequences, and
  `TokensAreCovered` to its own until the commit.

`ServingProofs`, for every set of requests, number of threads and token bound,
from the assumptions of `Engine` and `NoReqAssumption`. `Serving` is
`PrefillFirst` with one engine, so the lemmas of `PrefillFirstProofs` are used
as they are, by instantiation.

* For any `Network` and `Faults`, with `ServingInv`: the types of queues and
  calls, that a request being prefilled is not decoded yet and has no token
  before its forward (`CallInv`), that two prefills at work are of different
  requests (`Apart`), that the call the router awaits is the one it wants
  (`Conn`), and that the engine has never heard of a request that still waits
  (`Fresh`). They give `ServingTypeCorrect` and
  `LifecycleUnderTimeoutsImplemented`: whatever answers reach the router are
  answers it can apply to a request without concluding it twice.
* Under `Reliable` (calls arrive and are answered, and no `Sequence` raises
  between making its context and being queued), with `SyncInv`. `Lone` says that
  the only call is the one the router awaits. `Solo` says of that call, at each
  of its positions, what its loops have left to do (`Loops`), that what it has
  read of the queues is still so (`Sees`), and what contexts and flag are worth
  in the middle of a move or a removal (`Keeps`): a context without a sequence
  is one that a removal kept because its layers differ (`Held`), and a set flag
  lies about no sequence but the one that is just joining (`Tracked`).
  `InSync` says how far the engine is ahead of the router at each position:
  what is doomed is still queued, and when a batch has failed at the router the
  engine may have dropped some of it already (`Same`). `Counted` says that the
  engine has generated as many tokens as the stream has, plus one that is on
  its way. Between two calls what remains is `Settled` and `Told`. They give
  `EngineIsSingleThreaded`, `QueuesAlwaysAgree`, `NoContextIsLeft`,
  `GreedyBatchSafe`, `TokensStayInOrder` and `RouterModelImplemented`; when no
  forward fails between two layers either (`Level`), no sequence is ever uneven,
  and `EveryContextReleased` says that contexts and decoded sequences are the
  same. `RouterModelImplemented` closes a circle: `PrefillFirst` takes it for
  granted that an engine answers for each sequence of the decode queue, and the
  composition shows that it does, so all theorems about `PrefillFirst` hold
  with the modelled engine in its place.
* The hypotheses are what the code needs: with time-outs `serving_concurrent`
  breaks `SingleThreaded` and an update of the flag may be lost, with `"layers"`
  a removal may leave a context (`RemovedIsReleased`), and a `Sequence` whose
  stopping criteria raise keeps a context for ever.

`DecodingProofs`, for every set of prompts and padding, number of guesses,
token limit and set of configurations, from `DecodingAssumption` and
`ConfigAssumption` (the Generator speculates for one prompt at a time, as an
assert in `speculative.py` demands):

* `Holds` says of a cache that behind its row's padding it holds exactly a
  given content and that its counter is the content's length. Forwards append
  to the content (`HoldsAppend`), trims cut it (`HoldsDrop`), and attention
  sees it and nothing else (`HoldsSeen`), packed or padded.
* The inductive invariant `IInv` says what the content is: between rounds
  (`RowsInStep`) the target's is all known tokens but the last and the draft's
  is what it will not be given again; within a round (`Stepping`, `Pending`)
  the guesses and PARD tokens come on top, until the row is verified. The room
  of the caches (`RowsFit`) is inductive only with the lengths of the contents.
  `Lockstep` says that the rows of a batch have the same length and phase,
  without which a pad token of a finished row could be one too many.
* `RoundDone` is the core: whatever prefix of the guesses is accepted, the two
  trims, `D - accepted + 1` entries for the target and `D - 1` for the draft,
  leave both caches in step. `KeptFacts` covers the engine's clamp: if tokens
  were cut off after the trim, the text has reached its limit and the caches
  are not used again.
* `CachesStayInStep`, `CachesAlwaysHaveRoom`, `DecodingTypeCorrect` follow.
* The texts rest on that. `NextIsGreedy` and `RoundIsGreedy`: behind a cache in
  step the target ranks first what comes next in the greedy text, and in a
  round, by induction over the accepted guesses, up to the first wrong guess
  and one token beyond, so what is kept goes on with the text (`Continues`)
  whatever was guessed. `TextGrows`: the stopping criteria, which look at every
  new token of a round, stop exactly those texts that have reached their end.
  `TextInv` says so of every row, with the tokens a step still owes (`Owed`)
  between `seq` and `sent`. `NothingRunsPastItsEnd` follows.
* `GreedyImplemented`: every step goes on with a text, gives it up or leaves it
  (`TextsMove`), and `PartOfWhole` reads what was delivered as a part of the
  whole text, so `Decoding` implements `GreedyDecoding`. That no text fails
  after it was reported complete needs `Lockstep` for the Generator and, for
  the engine, that a failing step has not answered.
* The last two have the hypothesis `Lossless`: with speculation,
  `min_new_tokens` is at most 1 in the engine and 0 in the Generator. It is
  what the code needs: the sampler decides by the length before the round
  whether it masks EOS, for all candidates of the round. Without speculation
  any `min_new_tokens` will do. `ConfigsAreLossless` has TLC evaluate it for the
  configurations of `decoding`; the caches need no such hypothesis.

`DecodingProofs` has three more theorems, about what decoding takes for granted of
a model. Their hypotheses say what the parameters are; TLC evaluates them for
the instances of `decoding` (`CheckpointsAreWellFormed`, `PassesAreWired`,
`OperatorsMakeSense`).

* `EveryWeightIsLoaded`, for every set of checkpoints that have projections or
  what was fused from them, but not both (`WellFormed`: with both, one silently
  overwrites the other). `LoadInv` says at every moment
  what each parameter is, as a function of the tensors read so far
  (`Contents`, `Made`). It is inductive with what waits: the projections read
  so far (`CacheIs`), and of blocks and scales exactly the one whose counterpart
  has not come (`PendingIs`), else an expert might be dequantized twice or never.
  `AliasIs` says when the output projection is the embedding, which Qwen 2
  decides at the start and Llama and OPT at the end.
* `EveryBlockIsGivenAll`, for any number of layers, tokens and experts
  (`NetsAreWired`). `Streams` says that the two tensors add up to each embedding
  and each block that ran, once; while the experts compute, the residual alone is
  that sum; and a layer that adds the residual itself leaves none. `Mixes`: an
  expert that is over has answered the tokens that picked it, and only those.
* `EveryKernelReadsItsLayout`, for every backend, activation, width, number of
  pieces and set of weights that fit (`BuildsMakeSense`). `ChoicesMade` says
  that a module that was built has what the registry gives for what it was
  asked to have, `Layouts` that a weight is as the checkpoint had it until the
  one operator that changes it was preprocessed. That it is one is
  `OneChanger`: `named_modules` visits a fused operator before its parts, which
  share its weights, but a part of an operator that has a kernel is asked for no
  backend and gets the native one. `Cuts` and `ChunksPartition` say that
  `torch.chunk` cuts the columns into pieces that are apart and have all of them,
  and that only the last may be shorter, so that the bias is added once.

`StreamsProofs`, for every set of prompts and number of chunks, from no
assumption, and `RouterProofs` for the composition that TLC runs:

* `EveryChunkIsDelivered`. The queue of a prompt is three hands away from the
  client: generator, task and response. `Reads` says that nothing is taken
  after a mark and that a generator that is over has met one, or was closed
  because the client left; `Merged` that what was taken is what was written
  and, between a task and its turn, the chunk the task holds. A prompt without
  a task has a generator that is over as soon as the response waits or goes
  through a round, so a round that finds no task left may say `[DONE]`. An
  answer that is not streamed has what was taken in its chunk (`Gathered`).
  `BeginningGrows` and `BeginningStays` are about queues that are taken from
  and put into at the same time.
* `ConfiguredEnginesAreUsable`, from `InstancesAssumption`. `WillBeWhole`: an
  engine with a model has all parts or a load that is on its way to them.
  It is inductive only with what a load has left behind at each position
  (`HasSoFar`), and because the router asks an engine once (`AskedOnce`): a
  load begun anew would forget how far it had come.

`AttentionKernelsProofs`, for every call that is `WellFormed` (the entries of the
new tokens are in the cache, rows are padded to the longest sequence, the
contiguous prefill begins a sequence and has no window) and positive block and
tile sizes:

* `NoSplitK`. Split-K asks for at least half as many work items as threads and
  for at least four splits; the splits are the threads per item rounded up,
  which `DivisionBound` shows to be at most three then.
* `EveryRowIsDoneOnce`. `DecodeReadsRight`, `MtdReadsRight` and `TileReadsRight`
  say of each kernel, whose loops go from a first block, found by division, to
  a last one and mask the rest or skip the mask, that it reads the window of
  its query and no more. `RightItem` says that an item has a row and a head
  just if it is the item of that row and head, for each kind of work: groups
  and tiles are quotients (`GroupOf`, `TileOf`). `RowIs` says that no two
  sequences share a row of the output. So the output of a call is one cell for
  each query and head (`OutputIs`), which is the invariant.

`AttentionProofs`, for every number of layers, set of contexts, entries, blocks
and block size:

* `QueriesAreComputedOnce` is `EveryRowIsDoneOnce` for `MCAttention`: the calls
  TLC runs are well-formed (`JobsAreWellFormed`), and no other part becomes
  the kernels.
* `CachesImplementStore`: all backends implement `KVStore`, from
  `LayersAssumption` (there is a layer) and `EngineAssumption` (the name of the
  shared pool is no context's). `StoreInv` is the abstract half of the
  invariant: the layers of a context that the forward has reached hold as many
  entries more than the others as the forward appends (`InStep`), so that the
  end of a forward, or of one that is abandoned, leaves all layers with the same
  list or the context broken. Each backend has its own half:
  * contiguous (`ContiguousInv`): a tensor is at least as long as what is
    written, and growth copies the written part (`ContiguousView` reads the
    store's list off it);
  * paged (`PagedInv`): pools are `Proper` (no block is twice in a list, in two
    lists, or free and in a list), and a context has blocks for as many entries
    as `seq_len` counts, also in the layers that have fewer. `Proper` makes
    slots injective, so a write is seen by its own context at its own position
    and by nobody else; with the blocks before the slots, no position is
    without a block. Allocation, trim and removal keep pools proper and the
    lists' beginnings as they were;
  * slab (`SlabInv`): every layer's pool of a manager knows the contexts that
    refer to it; a manager is kept as long as one does, and contexts of a
    forward share theirs;
  * plug-in (`PluginInv`): all layers' pools know the same requests, and what
    vLLM's scheduler preempts or finishes is among them. Layers that share
    another layer's cache are outside `Layouts`, so outside the theorem.
* `QueriesAttendExactly`: outside the three cases `AttentionMask` names, each
  query attends to the entries it should. The assumption is
  `MaskAssumption`: lengths are natural numbers, and a round of speculation is
  shorter than the queries for which the tiled prefill is chosen (512 in
  `backend.py:196`), as that kernel takes the queries for the beginning of the
  text. The invariant, `MaskInv`, is about the buffers,
  which outlive the forwards that wrote them: a buffer in the pool shows what
  its two keys say (`Shown`), no two entries share a key or a buffer
  (`Apart`), and no buffer is kept outside the pool. That is why a hit, which
  writes nothing, is right, also when another layer or a forward of another
  length wrote the buffer (`GetIs`). The masks of a batch are all made before
  the first is used; `AnotherMask` says that one more leaves those before it
  as they are: contexts of a batch have different keys, and a buffer that has
  left the pool is not handed out again while the batch uses it. `MadeIs`
  carries that through the batch: the sequence of pools and masks exists for
  each beginning of the batch, by the least one without it, instead of
  induction. `RightAttention` then compares what each way to compute
  attention shows with what it should, query by query.
* `CacheMemoryIsAccounted` follows on these invariants: exclusive and complete
  ownership of a paged pool's blocks (`BlocksAccounted`), the sequences the
  slab pools know, and the types of every backend and of the masks' pool.

Only model-checked: `StrayIsConcluded`, which is about late calls; everything
about `Metrics`, `Sampler` and `OnlineSoftmax` (`ActiveTimeExact`,
`SoftmaxExact`, `SampleExact`), which is about what folds over data of any
length compute, and liveness: the last two are out of the prover's reach. All
theorems are about `Spec`, or `IterativeSpec`, without fairness.

## Not modelled

* Graph passes, quantized tensors, rotary embeddings and what a block or a kernel
  computes: floating-point code without state. In `Decoding`, `Engine` and the
  caches a forward succeeds or raises.
* Rounding, packing of operands and intrinsics of the attention kernels.
* Sampling randomness, returned probabilities, stop strings, detokenizing, the
  text of chunks, request validation.
* Scheduler shutdown: the process ends with it.
* What the model and the slab pool do when two calls work on one sequence at
  the same time: undefined behaviour. The engine's own state is modelled for
  any overlap, but for the order of the tokens two decode steps give one
  sequence.
* The vLLM plug-in's platform registration, compilation passes and weights.
* Thread pinning and the start and join helper of `pace/utils`.

## Plan

1. Done: scheduler, request life cycle, slab pool, engine, serving.
2. Done: iterative scheduler, caches and masks, decoding with speculation,
   kernels, softmax, sampler, streams, launcher, metrics, vLLM cache.
3. Done: theorems about the scheduler, the slab pool, the engine and their
   composition.
4. Done: theorems about decoding, caches and texts.
5. Done: theorems about the streams, the launcher and the kernels' work items.
6. Done: theorems about the cache backends: `KVStore` implemented, memory
   accounted for; about the masks; about the iterative scheduler.
7. Done: loading, the forward pass and operators, with theorems about each.
8. Theorems about `Metrics` and softmax where folds can be stated as
   functions.
9. Done: overlapping engine calls read by read and write by write.
