----------------------------- MODULE MCTtlHeap -----------------------------
(***************************************************************************)
(* TLC instances of TtlHeap.  Keys are interchangeable.                    *)
(***************************************************************************)
EXTENDS TtlHeap, TLC

KeySymmetry == Permutations(Key)
=============================================================================
