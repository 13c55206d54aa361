--------------------------- MODULE ContextService ---------------------------
(* What a caller of llama_decode is promised about the context: it is a     *)
(* sequence of tokens that grows by a prefix of the batch, by all of it     *)
(* exactly when the call answers 0, and by nothing when it answers 1, *)
(* which it does only for a batch that does not fit.  After an exception    *)
(* the context is no longer sound until it is cleared.                      *)
EXTENDS Integers, Sequences

CONSTANTS Batches,   \* what callers feed
          Capacity,  \* cells of the cache
          Longest    \* n_batch

VARIABLES context,   \* the tokens the model has seen
          sound,     \* whether their keys and values can be trusted
          left,      \* the tokens of the call in progress not yet seen
          answer     \* "none" during a call, else the result of the last one

vars == <<context, sound, left, answer>>

First(k) == SubSeq(left, 1, k)
Rest(k) == SubSeq(left, k + 1, Len(left))

Init == context = <<>> /\ sound = TRUE /\ left = <<>> /\ answer = "done"

Ask(b) == /\ answer # "none"
          /\ left' = b /\ answer' = "none"
          /\ UNCHANGED <<context, sound>>

\* A piece of the batch is computed; the last one ends the call.
Extend(k) == /\ answer = "none" /\ k \in 1 .. Len(left)
             /\ Len(context) + Len(left) <= Capacity
             /\ context' = context \o First(k)
             /\ left' = Rest(k)
             /\ answer' = IF k = Len(left) THEN "done" ELSE "none"
             /\ UNCHANGED sound

Refuse == /\ answer = "none"
          /\ Len(context) + Len(left) > Capacity
          /\ answer' = "full" /\ left' = <<>>
          /\ UNCHANGED <<context, sound>>

Fail == /\ answer = "none"
        /\ answer' \in {"no memory", "failed"} /\ left' = <<>>
        /\ UNCHANGED <<context, sound>>

\* An exception: before the batch is looked at it changes nothing, during a
\* piece it leaves that piece in the context with nothing computed for it.
Throw == /\ answer = "none"
         /\ answer' = "thrown" /\ left' = <<>>
         /\ \/ UNCHANGED <<context, sound>> /\ Len(left) > Longest
            \/ \E k \in 1 .. Len(left) :
                 /\ context' = context \o First(k)
                 /\ sound' = FALSE

Clear == /\ answer # "none"
         /\ context' = <<>> /\ sound' = TRUE
         /\ UNCHANGED <<left, answer>>

Next == \/ \E b \in Batches : Ask(b)
        \/ \E k \in 1 .. Len(left) : Extend(k)
        \/ Refuse \/ Fail \/ Throw \/ Clear

Spec == Init /\ [][Next]_vars
=============================================================================
