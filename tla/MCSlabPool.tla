----------------------------- MODULE MCSlabPool -----------------------------
(***************************************************************************)
(* Instances of SlabPool for TLC.                                          *)
(***************************************************************************)
EXTENDS SlabPool, TLC

CONSTANTS s1, s2, t1, t2, x, y

(* One sequence, or two in either order. *)
Batches == {<<s1>>, <<s2>>, <<s1, s2>>, <<s2, s1>>}

(* No token, or a whole block; truncation makes the other lengths. *)
NoneOrBlock == {<<>>, <<x, y>>}

Singles == {<<s1>>, <<s2>>}

(* A token, or two whole blocks. *)
OneOrTwoBlocks == {<<x>>, <<x, y, x, y>>}

Symmetry == Permutations(Seqs) \union Permutations(Thread)
=============================================================================
