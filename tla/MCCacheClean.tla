------------------------------ MODULE MCCacheClean ------------------------------
(***************************************************************************)
(* Instance of CacheClean for TLC: three models, the second of them twice  *)
(* the size of the others, in every order of age, and a protected file     *)
(* that is older and larger than most.                                     *)
(***************************************************************************)
EXTENDS CacheClean, TLC

Symmetry == Permutations(Cleaner)

MCInit == /\ Init
          /\ \A f \in Protected : file[f] = [there |-> TRUE, size |-> 2, mtime |-> 0]
          /\ \A f \in File \ Protected :
               file[f].there /\ file[f].size = IF f = 2 THEN 2 ELSE 1

MCSpec == MCInit /\ [][Next]_vars

=============================================================================
