--------------------------- MODULE GreedyDecoding ---------------------------
(***************************************************************************)
(* What greedy decoding promises for every prompt (docs/LLM.md, docs/      *)
(* SpeculativeDecoding.md): the text grows along the one continuation the  *)
(* model has for the prompt, by one or more tokens at a time, and ends     *)
(* where that ends: at an end-of-sequence token or at max_new_tokens.      *)
(* Decoding of a prompt may fail; its text then stays what it was.         *)
(***************************************************************************)
EXTENDS Naturals, Sequences

CONSTANT Seqs

VARIABLES whole, \* the whole continuation of a prompt
          text,  \* what was delivered
          end    \* "no", "complete" or "failed"

vars == <<whole, text, end>>

Init ==
  /\ \A s \in Seqs : Len(whole[s]) > 0
  /\ text = [s \in Seqs |-> <<>>]
  /\ end = [s \in Seqs |-> "no"]

Grows(s) ==
  /\ end[s] = "no"
  /\ \E n \in Len(text[s]) .. Len(whole[s]) :
       /\ text'[s] = SubSeq(whole[s], 1, n)
       /\ end'[s] \in IF n = Len(whole[s]) THEN {"no", "complete"} ELSE {"no"}

Fails(s) == end[s] = "no" /\ end'[s] = "failed" /\ text'[s] = text[s]

Stays(s) == text'[s] = text[s] /\ end'[s] = end[s]

Next ==
  /\ UNCHANGED whole
  /\ DOMAIN text' = Seqs /\ DOMAIN end' = Seqs
  /\ \A s \in Seqs : Grows(s) \/ Fails(s) \/ Stays(s)

Spec == Init /\ [][Next]_vars
=============================================================================
