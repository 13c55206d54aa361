---------------------------- MODULE GraphService ----------------------------
(***************************************************************************)
(* What a call of ggml_graph_compute promises, with no threads to wake, no *)
(* barriers and no chunks.  A graph is a list of nodes, each reading what  *)
(* earlier ones wrote, and every thread does a share of every node.  No    *)
(* share of a node is finished before every share of the nodes before it,  *)
(* and the call returns a result only when all shares are finished.  The   *)
(* call may fail, and the process may die, at any time; after a failure no *)
(* thread gets further than the node whose share is still missing.         *)
(***************************************************************************)
EXTENDS Naturals

CONSTANTS
  Sharers,   \* threads a graph is shared among
  NumNodes   \* nodes of the graph

VARIABLES
  finished,  \* [Sharers -> nodes of which the thread finished its share]
  result     \* what became of the call

gvars == <<finished, result>>

Result == {"running", "done", "error", "crashed"}

GInit == finished = [t \in Sharers |-> 0] /\ result = "running"

Finish(t) == /\ result \in {"running", "error"}
             /\ finished[t] < NumNodes
             /\ \A u \in Sharers : finished[u] >= finished[t]
             /\ finished' = [finished EXCEPT ![t] = @ + 1]
             /\ UNCHANGED result

Return == /\ result = "running"
          /\ \A t \in Sharers : finished[t] = NumNodes
          /\ result' = "done"
          /\ UNCHANGED finished

Fail == result = "running" /\ result' = "error" /\ UNCHANGED finished

Crash == result' = "crashed" /\ UNCHANGED finished

GNext == Return \/ Fail \/ Crash \/ \E t \in Sharers : Finish(t)

GSpec == GInit /\ [][GNext]_gvars

=============================================================================
