----------------------------- MODULE MCServing ------------------------------
(***************************************************************************)
(* Instances of Serving for TLC.                                           *)
(***************************************************************************)
EXTENDS Serving, TLC

CONSTANTS r1, r2, r3, t1, t2, t3

(* A request that samples is not like a greedy one. *)
Symmetry == Permutations(Thread) \union Permutations(Greedy)
              \union Permutations(Req \ Greedy)
=============================================================================
