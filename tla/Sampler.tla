------------------------------ MODULE Sampler ------------------------------
(***************************************************************************)
(* One token out of the logits of one sequence (llm/sampler.py), under the *)
(* sampling parameters as SamplingConfig leaves them (llm/configs.py).     *)
(*                                                                         *)
(* Logits are integers and exp is a power of two, so that probabilities    *)
(* are exact.  NegInf is -inf, Removed the least finite number; both have  *)
(* probability 0.  Equal logits may be ordered in any way.                 *)
(***************************************************************************)
EXTENDS Integers, Sequences, SequencesExt, FiniteSetsExt

CONSTANTS Vocab, EosToken,
          Samples  \* [logits, prompt, output, config], temperatures in
                   \* halves, top_p and min_p in quarters

VARIABLE sample

NegInf == -200
Removed == -100

(* A sample before and after; the next token is drawn from `tokens`. *)
InitSample == \E j \in Samples : sample = [job |-> j, done |-> FALSE, tokens |-> {}]
-----------------------------------------------------------------------------
(* No temperature means greedy, without filters. *)
Verified(c) ==
  IF c.temperature = 0
  THEN [c EXCEPT !.temperature = 2, !.top_k = 0, !.top_p = 4, !.min_p = 0,
                 !.do_sample = FALSE]
  ELSE c

GreedyOnly(c) == ~c.do_sample \* mutant: whatever else is asked for
(* _greedy_fast_path: nothing that could change the greatest logit. *)
GreedyFastPath(c) ==
  ~c.do_sample /\ c.repetition = 1 /\ c.frequency = 0 /\ c.min = 0

Finite(l) == {t \in Vocab : l[t] # NegInf}
OnFinite(l, f(_)) == [t \in Vocab |-> IF l[t] = NegInf THEN NegInf ELSE f(t)]

ArgMax(l) == {t \in Vocab : \A u \in Vocab : l[u] <= l[t]}

SetMinNewTokens(l, j) ==
  IF Len(j.output) < j.config.min THEN [l EXCEPT ![EosToken] = NegInf] ELSE l

(* Positive logits are divided, negative ones multiplied. *)
RepetitionPenalty(l, j) ==
  LET seen == Range(j.prompt \o j.output)
      penalty(t) == CASE t \notin seen -> l[t]
                      [] t \in seen /\ l[t] > 0 -> l[t] \div j.config.repetition
                      [] OTHER -> l[t] * j.config.repetition
  IN OnFinite(l, penalty)

FrequencyPenalty(l, j) ==
  LET count(t) == Cardinality({i \in DOMAIN j.output : j.output[i] = t})
      penalty(t) == l[t] - j.config.frequency * count(t)
  IN OnFinite(l, penalty)

Temperature(l, c) ==
  LET scaled(t) == (2 * l[t]) \div c.temperature IN OnFinite(l, scaled)

(* The logits the filters begin with. *)
Penalized(j) ==
  LET c == Verified(j.config)
  IN Temperature(FrequencyPenalty(RepetitionPenalty(
       SetMinNewTokens(j.logits, j), j), j), c)
-----------------------------------------------------------------------------
Weight(x) == IF x <= Removed THEN 0 ELSE 2^(x + 12)
Total(l) == MapThenSumSet(LAMBDA t : Weight(l[t]), Vocab)
Without(l, gone) == [t \in Vocab |-> IF t \in gone THEN Removed ELSE l[t]]

(* All that reach the k-th greatest logit stay. *)
TopK(l, k) ==
  LET sorted == SortSeq(SetToSeq(Vocab), LAMBDA t, u : l[t] > l[u])
      kth == l[sorted[IF k < Len(sorted) THEN k ELSE Len(sorted)]]
  IN IF k = 0 THEN l ELSE Without(l, {t \in Vocab : l[t] < kth})

(* From the least logit on, as long as the sum stays within 1 - p, but     *)
(* never the last.                                                         *)
TopP(l, p, order) ==
  LET sum(n) == MapThenSumSet(LAMBDA i : Weight(l[order[i]]), 1 .. n)
  IN IF p = 4 THEN l
     ELSE Without(l, {order[n] : n \in
            {i \in 1 .. Len(order) - 1 : 4 * sum(i) <= (4 - p) * Total(l)}})
Ascending(l) ==
  {s \in SetToSeqs(Vocab) : \A i \in 1 .. Len(s) - 1 : l[s[i]] <= l[s[i + 1]]}

MinP(l, p) ==
  LET top == Max({Weight(l[t]) : t \in Vocab})
  IN IF p = 0 THEN l ELSE Without(l, {t \in Vocab : 4 * Weight(l[t]) < p * top})

(* The greatest of them, or any that is possible at all. *)
Drawn(l, c) == IF ~c.do_sample THEN ArgMax(l) ELSE {t \in Vocab : Weight(l[t]) > 0}

Sample ==
  LET j == sample.job
      c == Verified(j.config)
      l == TopK(Penalized(j), c.top_k)
  IN /\ ~sample.done
     /\ \/ /\ GreedyFastPath(c)
           /\ sample' = [sample EXCEPT !.done = TRUE, !.tokens = ArgMax(j.logits)]
        \/ /\ ~GreedyFastPath(c)
           /\ \E order \in Ascending(l) :
                sample' = [sample EXCEPT !.done = TRUE,
                  !.tokens = Drawn(MinP(TopP(l, c.top_p, order), c.min_p), c)]

SampleSpec == InitSample /\ [][Sample]_sample
-----------------------------------------------------------------------------
(* Whatever parameters are combined: a token comes out; it does not end    *)
(* the text too early; a penalty of 1 or more never helps a token, be its  *)
(* logit positive or not; greedy takes the greatest logit left, although   *)
(* the engine's short cut (_greedy_fast_path) does not look at filters and *)
(* temperature; and a random token is one of the top_k, in the nucleus of  *)
(* those, and likely enough for min_p.                                     *)
SampleExact ==
  sample.done =>
    LET j == sample.job
        c == Verified(j.config)
        l == Penalized(j)
        more(t) == {u \in Vocab : l[u] > l[t]}
        among == {t \in Vocab : c.top_k = 0 \/ Cardinality(more(t)) < c.top_k}
        sum(s) == MapThenSumSet(LAMBDA t : Weight(l[t]), s)
    IN /\ sample.tokens # {}
       /\ EosToken \in sample.tokens => Len(j.output) >= c.min
       /\ c.temperature = 2 => \A t \in Finite(l) : c.frequency >= 0 => l[t] <= j.logits[t]
       /\ ~c.do_sample => sample.tokens \subseteq ArgMax(l)
       /\ c.do_sample => \A t \in sample.tokens :
            /\ t \in among
            /\ more(t) = {} \/ 4 * sum(more(t)) < c.top_p * sum(among)
            /\ \A u \in Vocab : 4 * Weight(l[t]) >= c.min_p * Weight(l[u])
=============================================================================
