-------------------------- MODULE MCCompletionRefines --------------------------
(***************************************************************************)
(* Instance of CompletionRefines for TLC: two models, so that a callback    *)
(* can have a second request answered while the first is under way.        *)
(***************************************************************************)
EXTENDS CompletionRefines, TLC

Symmetry == Permutations(Handle)

=============================================================================
