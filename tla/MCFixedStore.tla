---------------------------- MODULE MCFixedStore ----------------------------
(* Small instances of FixedStore for TLC. *)
EXTENDS FixedStoreRefines, TLC

Symmetry == Permutations(Workers) \cup Permutations(Subs)
            \cup Permutations(Revs) \cup Permutations(Tokens)
=============================================================================
