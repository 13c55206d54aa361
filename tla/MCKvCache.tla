----------------------------- MODULE MCKvCache -----------------------------
(* All batches of up to n_batch tokens, and one that is longer. *)
EXTENDS KvCache

MCBatches == UNION {[1 .. n -> Tokens] : n \in 1 .. NBatch}
             \cup {[i \in 1 .. NBatch + 1 |-> CHOOSE t \in Tokens : TRUE]}
=============================================================================
