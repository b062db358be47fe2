------------------------------ MODULE Decoding ------------------------------
(***************************************************************************)
(* Greedy generation, with or without PARD speculation: the decode loops   *)
(* of the engine (server/engine/server.py) and of the offline Generator    *)
(* (llm/generator.py), over PardSpeculativeDecoder (llm/speculative.py),   *)
(* StoppingCriteria and the EOS masking of the Sampler.                    *)
(*                                                                         *)
(* A cache is the list of tokens it holds (KVStore has the entries).  The  *)
(* target model continues each prompt in one way, chosen at the start, as  *)
(* long as its cache and positions show it exactly the tokens so far; for  *)
(* anything else it may say anything, and so may the draft model.          *)
(***************************************************************************)
EXTENDS Integers, Sequences, SequencesExt, FiniteSets

CONSTANTS Seqs,     \* requests of the engine, or rows of an offline batch
          Token, Eos,
          Filler,   \* the PARD token and the pad token
          PromptLen,   \* the tokens of each prompt
          PaddedLen,   \* of an offline batch, padded on the left
          MaxNewTokens,
          D,        \* num_speculative_tokens
          Configs   \* [rows, offline, spec, paged, min, ignore_eos]

ASSUME DecodingAssumption ==
  /\ Eos \in Token /\ Filler \notin Token /\ "prompt" \notin Token
  /\ \A s \in Seqs : PromptLen[s] <= PaddedLen
  /\ MaxNewTokens \in Nat \ {0} /\ D \in Nat \ {0}
  /\ PromptLen \in [Seqs -> Nat \ {0}]
  /\ PaddedLen \in Nat

(* The offline Generator speculates for one prompt at a time: the assert   *)
(* on the batch size in speculative.py.                                    *)
ASSUME ConfigAssumption ==
  \A c \in Configs :
    /\ c \in [rows : SUBSET Seqs, offline : BOOLEAN, spec : BOOLEAN,
              paged : BOOLEAN, min : Nat, ignore_eos : BOOLEAN]
    /\ c.offline /\ c.spec => \E s \in Seqs : c.rows = {s}

VARIABLES config,
          greedy, \* the continuation of each prompt under greedy decoding
          seq,    \* Sequence, or the row's share of the Generator
          sent,   \* tokens delivered
          status, \* "new", "active", "completed" or "failed"
          step    \* the /step in progress

vars == <<config, greedy, seq, sent, status, step>>

Repeat(t, n) == [i \in 1 .. n |-> t]
First(q, n) == SubSeq(q, 1, n)
Last_(q, n) == SubSeq(q, Len(q) - n + 1, Len(q))
Drop(q, n) == IF n > 0 THEN First(q, Len(q) - n) ELSE q

Prompt(s) == Repeat("prompt", PromptLen[s])
Rows == config.rows
InputLen(s) == IF config.offline THEN PaddedLen ELSE PromptLen[s]
Known(s) == Prompt(s) \o seq[s].tokens

NoSeq == [tokens |-> <<>>, target |-> <<>>, nc |-> 0,
          draft |-> <<>>, dnc |-> 0, next |-> 0]
Idle == [at |-> "idle", batch |-> {}, guess |-> [s \in {} |-> <<>>],
         result |-> [s \in {} |-> <<>>]]

-----------------------------------------------------------------------------
(* One forward of a model                                                  *)

(* What a query sees.  Contiguous caches mask all but the last             *)
(* position + 1 entries (_compute_pad_lens); the slots of a paged cache    *)
(* follow the past length it is given.                                     *)
Seen(cache, nc, inputs) ==
  IF config.paged THEN First(cache, nc) \o inputs
                  ELSE Last_(cache \o inputs, nc + Len(inputs))

(* The tokens the target may rank first after the content it sees. *)
Tops(s, content) ==
  LET n == Len(content) - PromptLen[s] IN
    IF n \in 0 .. Len(greedy[s]) - 1 /\ content = Prompt(s) \o First(greedy[s], n)
    THEN {greedy[s][n + 1]} ELSE Token

(* Sampler.sample, greedy: for all candidates of the step the length is    *)
(* that of the sequence before the step.                                   *)
MinNewTokens(len, top) ==
  IF len < config.min /\ top = Eos THEN Token \ {Eos} ELSE {top}

(* The sampled token of each of the last k inputs. *)
Sampled(s, cache, nc, inputs, k) ==
  LET content(i) == Seen(cache, nc, First(inputs, Len(inputs) - k + i))
      choice == [i \in 1 .. k |-> UNION {MinNewTokens(Len(seq[s].tokens), top) :
                                          top \in Tops(s, content(i))}]
  IN {f \in [1 .. k -> Token] : \A i \in 1 .. k : f[i] \in choice[i]}

-----------------------------------------------------------------------------
(* StoppingCriteria.stop_now, for new tokens at the end of a sequence      *)

StopIfMaxLen(tokens) == Len(tokens) >= MaxNewTokens
StopIfEosLast(tokens, new) == \* mutant: num_new_tokens is not passed
  ~config.ignore_eos /\ Eos \in Range(Last_(tokens, 1))
StopIfEos(tokens, new) == ~config.ignore_eos /\ Eos \in Range(Last_(tokens, new))
StopNow(tokens, new) ==
  \/ StopIfMaxLen(tokens)
  \/ Len(tokens) >= config.min /\ StopIfEos(tokens, new)

-----------------------------------------------------------------------------
(* PardSpeculativeDecoder                                                  *)

PrepareDraftInput(inputs) == inputs \o Repeat(Filler, D - 1)

NumMatching(guess, sampled) == \* mutant: sum() without cumprod()
  Cardinality({i \in 1 .. D : guess[i] = sampled[i]})
(* verify: leading matches, and one token more from the target. *)
NumAccepted(guess, sampled) ==
  CHOOSE n \in 0 .. D :
    /\ \A i \in 1 .. n : guess[i] = sampled[i]
    /\ n < D => guess[n + 1] # sampled[n + 1]
Accepted(guess, sampled) == First(sampled, NumAccepted(guess, sampled) + 1)
TrimKeepingOne(accepted) == D - Len(accepted) \* mutant: remove_count itself
TargetTrim(accepted) == D - Len(accepted) + 1

(* The cache and the position counter of the draft after verify. *)
DraftVerified(q) == [q EXCEPT !.draft = Drop(@, D - 1), !.dnc = @ - (D - 1)]

-----------------------------------------------------------------------------
TypeOK ==
  /\ config \in Configs
  /\ \A s \in Seqs :
       /\ seq[s].tokens \in Seq(Token \union {Filler})
       /\ Len(seq[s].tokens) <= MaxNewTokens + IF config.offline THEN D ELSE 0
       /\ seq[s].nc \in 0 .. Len(seq[s].target)
       /\ seq[s].dnc \in 0 .. Len(seq[s].draft)
       /\ status[s] \in {"new", "active", "finished", "completed", "failed"}
  /\ step.at \in {"idle", "target", "verify"} /\ step.batch \subseteq Seqs

Init ==
  /\ config \in Configs
  /\ greedy \in [Rows -> [1 .. MaxNewTokens + D -> Token]]
  /\ \A s \in Rows, i \in 1 .. MaxNewTokens + D :
       /\ i <= config.min => greedy[s][i] # Eos
       /\ i > 1 /\ greedy[s][i - 1] = Eos /\ ~config.ignore_eos => greedy[s][i] # Eos
  /\ seq = [s \in Seqs |-> NoSeq] /\ sent = [s \in Seqs |-> <<>>]
  /\ status = [s \in Seqs |-> "new"] /\ step = Idle

Active == {s \in Rows : status[s] = "active"}

-----------------------------------------------------------------------------
(* The engine                                                              *)

(* ModelExecutor.prefill: the target and the draft get the prompt. *)
Prefill(s) ==
  /\ ~config.offline /\ s \in Rows /\ status[s] = "new" /\ step = Idle
  /\ \E out \in Sampled(s, <<>>, 0, Prompt(s), 1) :
       /\ seq' = [seq EXCEPT ![s] =
            [tokens |-> out, target |-> Prompt(s), nc |-> PromptLen[s],
             draft |-> IF config.spec THEN Prompt(s) ELSE <<>>,
             dnc |-> IF config.spec THEN PromptLen[s] ELSE 0, next |-> 0]]
       /\ sent' = [sent EXCEPT ![s] = out]
       /\ status' = [status EXCEPT ![s] =
                       IF StopNow(out, 1) THEN "completed" ELSE "active"]
  /\ UNCHANGED <<config, greedy, step>>

PrefillFails(s) ==
  /\ ~config.offline /\ s \in Rows /\ status[s] = "new" /\ step = Idle
  /\ status' = [status EXCEPT ![s] = "failed"]
  /\ UNCHANGED <<config, greedy, seq, sent, step>>

(* _standard_decode: one token for every sequence of the batch. *)
StandardDecode ==
  /\ ~config.offline /\ ~config.spec /\ step = Idle /\ Active # {}
  /\ \E out \in [Active -> [1 .. 1 -> Token]] :
       LET new == [s \in Active |-> seq[s].tokens \o out[s]] IN
       /\ \A s \in Active :
            out[s] \in Sampled(s, seq[s].target, seq[s].nc, Last_(Known(s), 1), 1)
       /\ seq' = [s \in Seqs |-> IF s \in Active
            THEN [seq[s] EXCEPT !.tokens = new[s], !.nc = @ + 1,
                                !.target = @ \o Last_(Known(s), 1)]
            ELSE seq[s]]
       /\ sent' = [s \in Seqs |-> IF s \in Active THEN new[s] ELSE sent[s]]
       /\ status' = [s \in Seqs |->
            IF s \in Active /\ StopNow(new[s], 1) THEN "completed" ELSE status[s]]
  /\ UNCHANGED <<config, greedy, step>>

(* _speculative_decode, phase 1: the draft gets what it has not seen yet.  *)
Draft ==
  /\ ~config.offline /\ config.spec /\ step = Idle /\ Active # {}
  /\ LET missing(s) == Len(Known(s)) - seq[s].dnc
         input(s) == PrepareDraftInput(Last_(Known(s), missing(s)))
     IN seq' = [s \in Seqs |-> IF s \in Active
          THEN [seq[s] EXCEPT !.draft = @ \o input(s), !.dnc = @ + Len(input(s))]
          ELSE seq[s]]
  /\ \E guess \in [Active -> [1 .. D -> Token]] :
       step' = [at |-> "target", batch |-> Active, guess |-> guess,
                result |-> [s \in {} |-> <<>>]]
  /\ UNCHANGED <<config, greedy, sent, status>>

TargetInput(s) == Last_(Known(s), 1) \o step.guess[s]

(* Phase 2: one forward of the batch. *)
Target ==
  /\ step.at = "target"
  /\ seq' = [s \in Seqs |-> IF s \in step.batch
       THEN [seq[s] EXCEPT !.target = @ \o TargetInput(s), !.nc = @ + D + 1]
       ELSE seq[s]]
  /\ step' = [step EXCEPT !.at = "verify"]
  /\ UNCHANGED <<config, greedy, sent, status>>

(* The room left in the token buffer. *)
Room(s) == MaxNewTokens - Len(seq[s].tokens)
KeptUnclamped(s, accepted) == accepted \* mutant: no clamp
Kept(s, accepted) ==
  First(accepted, IF Len(accepted) <= Room(s) THEN Len(accepted) ELSE Room(s))

(* Phase 3, for one sequence after the other: what does not fit is cut off *)
(* after the caches were trimmed for all that was accepted.                *)
Verify(s) ==
  /\ step.at = "verify" /\ s \in step.batch \ DOMAIN step.result
  /\ \E out \in Sampled(s, Drop(seq[s].target, D + 1), seq[s].nc - (D + 1),
                        TargetInput(s), D + 1) :
       LET accepted == Accepted(step.guess[s], out)
           trim == TargetTrim(accepted)
           kept == Kept(s, accepted)
           tokens == seq[s].tokens \o kept
       IN /\ seq' = [seq EXCEPT ![s] =
               [DraftVerified(seq[s]) EXCEPT !.tokens = tokens,
                  !.target = Drop(@, trim), !.nc = @ - trim]]
          /\ status' = [status EXCEPT ![s] =
               IF StopNow(tokens, Len(kept)) THEN "completed" ELSE @]
          /\ step' = [step EXCEPT !.result =
               [t \in DOMAIN @ \union {s} |-> IF t = s THEN kept ELSE @[t]]]
  /\ UNCHANGED <<config, greedy, sent>>

StepAnswered ==
  /\ step.at = "verify" /\ DOMAIN step.result = step.batch
  /\ sent' = [s \in Seqs |-> IF s \in step.batch THEN sent[s] \o step.result[s]
                                                 ELSE sent[s]]
  /\ step' = Idle
  /\ UNCHANGED <<config, greedy, seq, status>>

DecodeFailsRetrying == \* mutant: the sequences wait for a prefill again
  /\ ~config.offline /\ Active # {} /\ (config.spec => step # Idle)
  /\ status' = [s \in Seqs |-> IF s \in Active THEN "new" ELSE status[s]]
  /\ step' = Idle
  /\ UNCHANGED <<config, greedy, seq, sent>>

(* Anything raised: every sequence of the batch is reported as an error,   *)
(* those already verified or completed in this step included.              *)
DecodeFails ==
  /\ ~config.offline /\ (IF config.spec THEN step # Idle ELSE Active # {})
  /\ LET batch == IF config.spec THEN step.batch ELSE Active
     IN status' = [s \in Seqs |-> IF s \in batch THEN "failed" ELSE status[s]]
  /\ step' = Idle
  /\ UNCHANGED <<config, greedy, seq, sent>>

-----------------------------------------------------------------------------
(* The offline Generator: all rows in lockstep                             *)

(* A packed paged prefill has no padding. *)
Padding(s) ==
  IF config.paged THEN <<>> ELSE Repeat(Filler, InputLen(s) - PromptLen[s])

(* _sample_and_postprocess: a finished row gets pad tokens. *)
Postprocess(out, rows) ==
  LET new(s) == IF status[s] = "finished" THEN Repeat(Filler, Len(out[s])) ELSE out[s]
  IN
    /\ seq' = [s \in Seqs |-> IF s \in Rows
         THEN [rows[s] EXCEPT !.tokens = @ \o new(s), !.next = Len(new(s))]
         ELSE seq[s]]
    /\ sent' = [s \in Seqs |-> seq'[s].tokens]
    /\ status' = [s \in Seqs |->
         IF s \notin Rows THEN status[s]
         ELSE IF status[s] = "finished" \/ StopNow(seq'[s].tokens, Len(new(s)))
         THEN "finished" ELSE "active"]
    /\ UNCHANGED <<config, greedy, step>>

(* _prefill_forward and _decode_forward without a draft model. *)
GenerateForward(s, inputs, row) ==
  [row EXCEPT !.target = @ \o inputs, !.nc = @ + Len(inputs)]

Generate(inputs, rows) ==
  \E out \in [Rows -> [1 .. 1 -> Token]] :
    /\ \A s \in Rows : IF status[s] = "finished" THEN out[s] = <<Eos>>
         ELSE out[s] \in Sampled(s, rows[s].target, rows[s].nc, inputs[s], 1)
    /\ Postprocess(out, [s \in Rows |-> GenerateForward(s, inputs[s], rows[s])])

GeneratePrefill ==
  /\ config.offline /\ ~config.spec /\ \A s \in Rows : status[s] = "new"
  /\ Generate([s \in Rows |-> Prompt(s)],
              [s \in Rows |-> [NoSeq EXCEPT !.target = Padding(s)]])

GenerateStep ==
  /\ config.offline /\ ~config.spec /\ Active # {}
  /\ Generate([s \in Rows |-> Last_(Known(s), 1)], [s \in Rows |-> seq[s]])

(* speculate, target forward and verify for the one row of the batch; in   *)
(* the prefill the draft speculates from the prompt.                       *)
SpeculateRound(s, inputs, row) ==
  \E guess \in [1 .. D -> Token] :
    LET draft == PrepareDraftInput(inputs)
        target == (IF row.tokens = <<>> THEN inputs ELSE Last_(inputs, 1)) \o guess
    IN \E out \in Sampled(s, row.target, row.nc, target, D + 1) :
         LET accepted == Accepted(guess, out)
             trim == TargetTrim(accepted)
             after == [row EXCEPT
               !.target = Drop(@ \o target, trim), !.nc = @ + Len(target) - trim,
               !.draft = @ \o draft, !.dnc = @ + Len(draft)]
         IN Postprocess([t \in Rows |-> accepted],
                        [t \in Rows |-> DraftVerified(after)])

SpeculatePrefill ==
  /\ config.offline /\ config.spec
  /\ \E s \in Rows :
       /\ status[s] = "new"
       /\ SpeculateRound(s, Prompt(s),
                         [NoSeq EXCEPT !.target = Padding(s), !.draft = Padding(s)])

SpeculateStep ==
  /\ config.offline /\ config.spec
  /\ \E s \in Active : SpeculateRound(s, Last_(Known(s), seq[s].next), seq[s])

(* generate returns when every row is finished; it may raise before. *)
GenerateReturns ==
  /\ config.offline /\ \A s \in Rows : status[s] = "finished"
  /\ status' = [s \in Seqs |-> IF s \in Rows THEN "completed" ELSE status[s]]
  /\ UNCHANGED <<config, greedy, seq, sent, step>>

GenerateFails ==
  /\ config.offline /\ \E s \in Rows : status[s] \in {"new", "active"}
  /\ status' = [s \in Seqs |-> IF s \in Rows THEN "failed" ELSE status[s]]
  /\ UNCHANGED <<config, greedy, seq, sent, step>>

-----------------------------------------------------------------------------
Next ==
  \/ \E s \in Seqs : Prefill(s) \/ PrefillFails(s) \/ Verify(s)
  \/ StandardDecode \/ Draft \/ Target \/ StepAnswered \/ DecodeFails
  \/ GeneratePrefill \/ GenerateStep \/ SpeculatePrefill \/ SpeculateStep
  \/ GenerateReturns \/ GenerateFails

Spec == Init /\ [][Next]_vars

(* The router asks for one step after the other, and generate loops. *)
LiveSpec == Spec /\ WF_vars(Next)

-----------------------------------------------------------------------------
Tokens(s) == seq[s].tokens

(* Where greedy decoding of the prompt ends. *)
Whole(s) ==
  LET ends == {n \in 1 .. MaxNewTokens :
                 n = MaxNewTokens \/ (~config.ignore_eos /\ greedy[s][n] = Eos)}
  IN First(greedy[s], CHOOSE n \in ends : \A m \in ends : n <= m)

(* Between two rounds every cache holds what its position counter says:    *)
(* the target all known tokens but the last, the draft those it will not   *)
(* be given again.  Rejected guesses and PARD tokens are gone from both.   *)
CachesInStep ==
  step = Idle => \A s \in Active :
    /\ Seen(seq[s].target, seq[s].nc, <<>>) = Drop(Known(s), 1)
    /\ config.spec =>
         /\ seq[s].dnc < Len(Known(s))
         /\ Seen(seq[s].draft, seq[s].dnc, <<>>) = First(Known(s), seq[s].dnc)
         /\ config.offline => seq[s].dnc + seq[s].next = Len(Known(s))

(* A round that passes the end of a text is its last one: nothing that is  *)
(* still decoded has an end-of-sequence token or all its tokens behind it. *)
StopsInTime ==
  step = Idle => \A s \in Active : Len(Tokens(s)) < Len(Whole(s))

(* max_seq_length of the two caches, with the headroom for speculation.    *)
NoHeadroom(s) == InputLen(s) + MaxNewTokens \* mutant: no spec_headroom
TargetRoom(s) ==
  InputLen(s) + MaxNewTokens
    + IF ~config.spec THEN 0
      ELSE IF config.offline /\ config.paged THEN D ELSE D + 1
DraftRoom(s) ==
  InputLen(s) + MaxNewTokens + (IF config.paged THEN D ELSE 0) + 2 * D

(* No cache outgrows the room it was given, not even by the guesses and    *)
(* PARD tokens that a round adds before verify takes them out again, and   *)
(* what a last round has accepted is cut off at the end of the engine's    *)
(* token buffer (_token_buffer).                                           *)
CachesHaveRoom ==
  \A s \in Rows :
    /\ ~config.offline => Len(seq[s].tokens) <= MaxNewTokens
    /\ Len(seq[s].target) <= TargetRoom(s) /\ Len(seq[s].draft) <= DraftRoom(s)
    /\ config.offline /\ config.spec /\ status[s] = "active" =>
         /\ Len(seq[s].target) + D + 1 <= TargetRoom(s)
         /\ Len(seq[s].draft) + seq[s].next + D - 1 <= DraftRoom(s)

(* The configurations whose texts are the greedy ones: with speculation,   *)
(* min_new_tokens is reached when the first round begins.  The sampler     *)
(* masks EOS for all candidates of a round by the length before it, those  *)
(* that would be beyond min_new_tokens included.                           *)
Lossless == \A c \in Configs : c.spec => c.min <= IF c.offline THEN 0 ELSE 1

Delivered(s) ==
  IF s \in Rows /\ Len(sent[s]) > Len(Whole(s))
  THEN First(sent[s], Len(Whole(s))) ELSE sent[s]
Ended(s) == CASE status[s] = "failed" -> "failed"
              [] status[s] = "completed" /\ s \notin DOMAIN step.result -> "complete"
              [] OTHER -> "no"

Greedy == INSTANCE GreedyDecoding WITH
  whole <- [s \in Seqs |-> IF s \in Rows THEN Whole(s) ELSE <<Eos>>],
  text <- [s \in Seqs |-> Delivered(s)],
  end <- [s \in Seqs |-> Ended(s)]

(* Whatever the draft guesses, and for rows of different length in one     *)
(* batch, what is delivered up to the end of the text is what greedy       *)
(* decoding says, and a text that is reported complete is whole.           *)
GreedySpec == Greedy!Spec

(* Every prompt is decoded to its end, or fails: each round brings at      *)
(* least one token.                                                        *)
EveryTextEnds == <>(\A s \in Rows : status[s] \in {"completed", "failed"})
=============================================================================
