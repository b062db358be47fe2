--------------------------- MODULE MCPrefillFirst ---------------------------
(***************************************************************************)
(* Instances of the two schedulers for TLC; the router has one of them.    *)
(***************************************************************************)
EXTENDS Iterative, TLC

CONSTANTS r1, r2, r3, tok

OneToken == {<<tok>>}

(* Requests are interchangeable: nothing orders them but their arrival. *)
Symmetry == Permutations(Req)

IsIterative == worker[0] \in {"waiting", "asking", "decoding", "removing"}

EitherInit == Init \/ IterativeInit
EitherNext == \/ ~IsIterative /\ Next
              \/ IsIterative /\ IterativeNext
EitherSpec == EitherInit /\ [][EitherNext]_vars
=============================================================================
