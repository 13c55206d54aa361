--------------------------- MODULE CompletionRefines ---------------------------
(***************************************************************************)
(* The generation loops of Completion implement CompletionService.         *)
(***************************************************************************)
EXTENDS Completion

StatusOf(f) == IF f.pc \in Ended THEN f.pc ELSE "running"

\* The newest call a model accepted, 0 before the first.
Accepted(h) == {c \in Call : calls[c].h = h /\ calls[c].why # "rejected"}

LastAccepted(h) == IF Accepted(h) = {} THEN 0
                   ELSE CHOOSE c \in Accepted(h) : \A d \in Accepted(h) : d <= c

Service == INSTANCE CompletionService WITH
  Budgets <- Predicts \union {1},  \* Clamp turns what is below 1 into 1
  answering <- [h \in Handle |-> LastAccepted(h)],
  req <- [c \in Call |-> [h |-> calls[c].h, budget |-> calls[c].npred,
                          status |-> StatusOf(calls[c]), text |-> calls[c].made]]

\* A text never mixes two requests: it grows only while its own request is the
\* one its model was last given, and never after the request has settled.
ImplementsService == Service!SSpec

=============================================================================
