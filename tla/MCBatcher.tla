----------------------------- MODULE MCBatcher ------------------------------
(* Small instances of Batcher for TLC. *)
EXTENDS Batcher, TLC

\* Requests differ only by name, and no checked formula names one.
Symmetry == Permutations(Requests)
=============================================================================
