----------------------------- MODULE MCCompletion -----------------------------
(***************************************************************************)
(* Instances of Completion for TLC: two handles, so that a callback can    *)
(* work on another model than the one that is streaming.                   *)
(***************************************************************************)
EXTENDS Completion, TLC

Symmetry == Permutations(Handle)

=============================================================================
