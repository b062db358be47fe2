------------------------------ MODULE SlabStore -----------------------------
(***************************************************************************)
(* What the slab pool promises its callers, blocks left aside: a store of  *)
(* one growing list of key/value entries per sequence.  An update carries  *)
(* entries for some sequences; it takes effect on all of them at once, or  *)
(* fails and leaves every list as it was.  Nothing but an update of the    *)
(* sequence, its truncation or its removal changes what it holds.          *)
(***************************************************************************)
EXTENDS Naturals, Sequences

CONSTANTS Seqs,    \* sequence ids
          Entries, \* the lists of entries an update may bring for one
          Thread   \* callers

VARIABLES store,    \* store[s]: the entries of s, for the sequences there are
          supplied  \* supplied[t][s]: what the update of t brings for s

vars == <<store, supplied>>

Nothing == [s \in {} |-> <<>>]

Init == store = Nothing /\ supplied = [t \in Thread |-> Nothing]

Create(s) ==
  /\ s \notin DOMAIN store
  /\ store' = [u \in DOMAIN store \union {s} |->
                 IF u = s THEN <<>> ELSE store[u]]
  /\ UNCHANGED supplied

Remove(s) ==
  /\ s \in DOMAIN store
  /\ store' = [u \in DOMAIN store \ {s} |-> store[u]]
  /\ UNCHANGED supplied

Truncate(s) ==
  /\ s \in DOMAIN store
  /\ \E n \in 0 .. Len(store[s]) :
       store' = [store EXCEPT ![s] = SubSeq(@, 1, n)]
  /\ UNCHANGED supplied

Begin(t) ==
  /\ supplied[t] = Nothing
  /\ \E batch \in SUBSET Seqs : \E kv \in [batch -> Entries] :
       supplied' = [supplied EXCEPT ![t] = kv]
  /\ UNCHANGED store

Commit(t) ==
  /\ DOMAIN supplied[t] \subseteq DOMAIN store
  /\ store' = [s \in DOMAIN store |->
                 IF s \in DOMAIN supplied[t] THEN store[s] \o supplied[t][s]
                                             ELSE store[s]]
  /\ supplied' = [supplied EXCEPT ![t] = Nothing]

Fail(t) ==
  /\ supplied' = [supplied EXCEPT ![t] = Nothing]
  /\ UNCHANGED store

Next == \/ \E s \in Seqs : Create(s) \/ Remove(s) \/ Truncate(s)
        \/ \E t \in Thread : Begin(t) \/ Commit(t) \/ Fail(t)

Spec == Init /\ [][Next]_vars
=============================================================================
