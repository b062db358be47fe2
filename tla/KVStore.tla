------------------------------ MODULE KVStore -------------------------------
(***************************************************************************)
(* What every cache backend promises the model (attention/base.py): a      *)
(* context is one list of key/value entries per layer.  A forward of a     *)
(* batch goes through the layers in order and, in each, appends the new    *)
(* entries of every context of the batch, all at once; attention then      *)
(* finds the whole list.  A forward may be abandoned between two layers:   *)
(* the contexts of its batch are lost, and no other is touched.            *)
(***************************************************************************)
EXTENDS Naturals, Sequences, Functions

CONSTANTS Ctx,      \* contexts
          Entries,  \* the lists a forward may bring for one context
          NumLayers

VARIABLES kv,     \* kv[c][l]: what layer l holds for c
          forward \* the next layer, 0 for no forward, and the new entries

vars == <<kv, forward>>

Layers == 1 .. NumLayers
NoForward == [at |-> 0, new |-> [c \in {} |-> <<>>]]

Init == kv = [c \in {} |-> <<>>] /\ forward = NoForward

Create(c) ==
  /\ c \notin DOMAIN kv
  /\ kv' = [d \in DOMAIN kv \union {c} |->
              IF d = c THEN [l \in Layers |-> <<>>] ELSE kv[d]]
  /\ UNCHANGED forward

Begin ==
  /\ forward = NoForward
  /\ \E batch \in SUBSET DOMAIN kv : \E new \in [batch -> Entries] :
       forward' = [at |-> 1, new |-> new]
  /\ UNCHANGED kv

Layer ==
  /\ forward.at \in Layers
  /\ kv' = [c \in DOMAIN kv |->
              IF c \in DOMAIN forward.new
              THEN [kv[c] EXCEPT ![forward.at] = @ \o forward.new[c]]
              ELSE kv[c]]
  /\ forward' = IF forward.at = NumLayers THEN NoForward
                                          ELSE [forward EXCEPT !.at = @ + 1]

Abandon ==
  /\ forward # NoForward
  /\ kv' = Restrict(kv, DOMAIN kv \ DOMAIN forward.new)
  /\ forward' = NoForward

(* remove_cache: the last n entries of every layer. *)
Trim(c, n) ==
  /\ c \in DOMAIN kv /\ forward = NoForward
  /\ \A l \in Layers : n <= Len(kv[c][l])
  /\ kv' = [kv EXCEPT ![c] = [l \in Layers |-> SubSeq(@[l], 1, Len(@[l]) - n)]]
  /\ UNCHANGED forward

Remove(c) ==
  /\ c \in DOMAIN kv /\ forward = NoForward
  /\ kv' = Restrict(kv, DOMAIN kv \ {c})
  /\ UNCHANGED forward

Next ==
  \/ Begin \/ Layer \/ Abandon
  \/ \E c \in Ctx : Create(c) \/ Remove(c)
  \/ \E c \in DOMAIN kv : \E n \in 1 .. Len(kv[c][1]) : Trim(c, n)

Spec == Init /\ [][Next]_vars
=============================================================================
