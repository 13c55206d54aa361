----------------------------- MODULE Threadpool -----------------------------
(***************************************************************************)
(* One call of ggml_graph_compute (src/src/ggml/ggml-cpu/ggml-cpu.c) as    *)
(* this package reaches it.  The package builds ggml without OpenMP and    *)
(* attaches no pool, so every call makes a disposable pool, runs the graph *)
(* on it and frees it.  R's thread is thread 0 of the pool: it creates the *)
(* workers, publishes the graph under the mutex, computes its share of     *)
(* every node like the others, and stops and joins the workers.  Workers   *)
(* poll for the graph, and sleep on the condition variable after a while.  *)
(*                                                                         *)
(* A thread's work falls into segments, each ended by a barrier: a node    *)
(* computed row by row is one segment; a matrix product is two, as all     *)
(* threads first convert the second operand into the shared work buffer,   *)
(* and then compute chunks of the product, the first by rank and the next  *)
(* from a shared counter.  One action is one access to shared memory, or   *)
(* several that only threads in the next segment can tell apart.  The      *)
(* relaxed accesses are ordered by the sequentially consistent             *)
(* read-modify-writes and fences of the barrier, so accesses interleave.   *)
(*                                                                         *)
(* Left out: pausing and the abort callback, which the package never sets, *)
(* and thread priorities and placement.                                    *)
(***************************************************************************)
EXTENDS Naturals, Sequences

CONSTANTS
  NThreads,   \* cplan->n_threads, and so threads of the pool
  Chunks,     \* per node that is computed: chunks of a matrix product, or
              \* 0 for a node whose rows are split by rank
  SkipsLast,  \* the graph's last node is not computed: an empty op or one
              \* without the compute flag
  MayAbort    \* an assertion of ggml can fail, or a thread not be created

\* The product has a chunk per thread, or at least four (lines 1419-1423).
ASSUME PoolAssumption ==
  /\ NThreads \in Nat \ {0} /\ NThreads < 65536
  /\ Chunks \in Seq(Nat)
  /\ \A n \in DOMAIN Chunks : Chunks[n] = 0 \/ Chunks[n] >= NThreads
  /\ SkipsLast \in BOOLEAN /\ MayAbort \in BOOLEAN

Thread == 0..(NThreads - 1)
Main == 0
NoOne == NThreads   \* the owner of a free mutex

VARIABLES
  pc,         \* where each thread is
  at,         \* the segment each thread is in
  nPassed,    \* n_passed of ggml_barrier, per thread
  myChunk,    \* current_chunk of the product, per thread
  lastGraph,  \* state->last_graph
  j,          \* thread that R's thread creates or joins next
  mutex,      \* holder of threadpool->mutex
  nGraph,     \* threadpool->n_graph: graphs << 16 | threads
  nBarrier,   \* threadpool->n_barrier
  passed,     \* threadpool->n_barrier_passed
  nextChunk,  \* threadpool->current_chunk
  stop,       \* threadpool->stop
  wdata,      \* node whose operand each thread's share of the buffer holds
  computed,   \* per node, times each chunk of it was computed
  outcome     \* what became of the call

local == <<pc, at, nPassed, myChunk, lastGraph>>
barrier == <<nBarrier, passed>>
pool == <<mutex, nGraph, stop, j, lastGraph>>
data == <<nextChunk, wdata, computed>>
vars == <<local, j, mutex, nGraph, barrier, stop, data, outcome>>

-----------------------------------------------------------------------------
(* Segments                                                                *)

Stage == {"start", "chunks", "over"}
Segment == [node : 1..(Len(Chunks) + 1), stage : Stage]
Seg(n, s) == [node |-> n, stage |-> s]
First == Seg(1, "start")
Over == Seg(Len(Chunks) + 1, "over")

IsProduct(n) == n \in DOMAIN Chunks /\ Chunks[n] > 0

\* What follows the barrier that ends a segment: the chunks of the same
\* node, the next node, or the end.  A node that is not the graph's last is
\* followed by a barrier of its own, and the last barrier comes on top.
Succ(s) ==
  IF s.stage = "start" /\ IsProduct(s.node) THEN Seg(s.node, "chunks")
  ELSE IF s.node < Len(Chunks) \/ (s.node = Len(Chunks) /\ SkipsLast)
  THEN Seg(s.node + 1, "start") ELSE Over

-----------------------------------------------------------------------------
Init == /\ pc = [t \in Thread |-> IF t = Main THEN "spawn" ELSE "none"]
        /\ at = [t \in Thread |-> First]
        /\ nPassed = [t \in Thread |-> 0]
        /\ myChunk = [t \in Thread |-> 0]
        /\ lastGraph = [t \in Thread |-> 0]
        /\ j = 1 /\ mutex = NoOne /\ nGraph = 0
        /\ nBarrier = 0 /\ passed = 0 /\ nextChunk = 0 /\ stop = FALSE
        /\ wdata = [t \in Thread |-> 0]
        /\ computed = [n \in DOMAIN Chunks |-> [c \in 0..(Chunks[n] - 1) |-> 0]]
        /\ outcome = "running"

Goto(t, l) == pc' = [pc EXCEPT ![t] = l]

\* A call that failed on R's thread leaves the other threads running.
Alive == outcome # "crashed"

\* Threads the published graph is for.
Active == nGraph % 65536

(* R's thread: create the workers, publish the graph, wake the sleepers.   *)
Spawn == /\ pc[Main] = "spawn" /\ j < NThreads
         /\ pc' = [pc EXCEPT ![j] = "top"]
         /\ j' = j + 1
         /\ UNCHANGED <<at, nPassed, myChunk, lastGraph, mutex, nGraph, barrier, stop, data, outcome>>

\* GGML_ASSERT(rc == 0) throws on R's thread.
SpawnFails == /\ MayAbort
              /\ pc[Main] = "spawn" /\ j < NThreads
              /\ Goto(Main, "left") /\ outcome' = "error"
              /\ UNCHANGED <<at, nPassed, myChunk, pool, barrier, data>>

\* Mutant: publishing without the mutex, so that a worker between its check
\* and its sleep misses the broadcast.
KickUnlocked == /\ pc[Main] = "spawn" /\ j = NThreads
                /\ Goto(Main, "publish")
                /\ UNCHANGED <<at, nPassed, myChunk, lastGraph, j, mutex, nGraph, barrier, stop, data, outcome>>

KickLock == /\ pc[Main] = "spawn" /\ j = NThreads /\ mutex = NoOne
            /\ mutex' = Main /\ Goto(Main, "publish")
            /\ UNCHANGED <<at, nPassed, myChunk, lastGraph, j, nGraph, barrier, stop, data, outcome>>

Publish == /\ pc[Main] = "publish"
           /\ nGraph' = (nGraph \div 65536 + 1) * 65536 + NThreads
           /\ Goto(Main, "wake")
           /\ UNCHANGED <<at, nPassed, myChunk, lastGraph, j, mutex, barrier, stop, data, outcome>>

\* Broadcast and unlock, at the kickoff and when the pool is freed.
Wake == /\ pc[Main] = "wake"
        /\ pc' = [t \in Thread |-> IF t = Main THEN IF stop THEN "join" ELSE "work"
                                   ELSE IF pc[t] = "asleep" THEN "lock" ELSE pc[t]]
        /\ mutex' = NoOne
        /\ UNCHANGED <<at, nPassed, myChunk, lastGraph, j, nGraph, barrier, stop, data, outcome>>

(* Workers: leave when stopped, else poll, and sleep when nothing comes.   *)
Top(t) == /\ pc[t] = "top"
          /\ Goto(t, IF stop THEN "exited" ELSE "poll")
          /\ UNCHANGED <<at, nPassed, myChunk, pool, barrier, data, outcome>>

\* ggml_graph_compute_thread_ready; `next` is where a new graph leads.
NewGraph(t) == ~stop /\ nGraph # lastGraph[t]
Ready(t) == stop \/ NewGraph(t)
TakeGraph(t, next) == /\ lastGraph' = [lastGraph EXCEPT ![t] = nGraph]
                      /\ Goto(t, IF t < Active THEN "work" ELSE next)

Poll(t) == /\ pc[t] = "poll"
           /\ \/ NewGraph(t) /\ TakeGraph(t, "lock")
              \/ ~NewGraph(t) /\ Goto(t, "lock") /\ UNCHANGED lastGraph
           /\ UNCHANGED <<at, nPassed, myChunk, j, mutex, nGraph, barrier, stop, data, outcome>>

Lock(t) == /\ pc[t] = "lock" /\ mutex = NoOne
           /\ mutex' = t /\ Goto(t, "check")
           /\ UNCHANGED <<at, nPassed, myChunk, lastGraph, j, nGraph, barrier, stop, data, outcome>>

Check(t) == /\ pc[t] = "check"
            /\ \/ NewGraph(t) /\ TakeGraph(t, "top") /\ mutex' = NoOne
               \/ stop /\ Goto(t, "top") /\ mutex' = NoOne /\ UNCHANGED lastGraph
               \/ ~Ready(t) /\ Goto(t, "sleep") /\ UNCHANGED <<mutex, lastGraph>>
            /\ UNCHANGED <<at, nPassed, myChunk, j, nGraph, barrier, stop, data, outcome>>

Sleep(t) == /\ pc[t] = "sleep"
            /\ Goto(t, "asleep") /\ mutex' = NoOne
            /\ UNCHANGED <<at, nPassed, myChunk, lastGraph, j, nGraph, barrier, stop, data, outcome>>

SpuriousWake(t) == /\ pc[t] = "asleep" /\ Goto(t, "lock")
                   /\ UNCHANGED <<at, nPassed, myChunk, pool, barrier, data, outcome>>

(* Every thread: its share of each node.                                   *)

\* Mutant: the counter starts at the first chunk of all.
WorkFromZero(t) == /\ pc[t] = "work"
                   /\ IF IsProduct(at[t].node)
                      THEN /\ wdata' = [wdata EXCEPT ![t] = at[t].node]
                           /\ nextChunk' = IF t = Main THEN 0 ELSE nextChunk
                      ELSE UNCHANGED <<wdata, nextChunk>>
                   /\ Goto(t, "arrive")
                   /\ UNCHANGED <<at, nPassed, myChunk, pool, barrier, computed, outcome>>

\* Rows of the node, or its share of the operand; of a product, thread 0
\* also sets the counter to the first chunk that is nobody's by rank.
Work(t) == /\ pc[t] = "work"
           /\ IF IsProduct(at[t].node)
              THEN /\ wdata' = [wdata EXCEPT ![t] = at[t].node]
                   /\ nextChunk' = IF t = Main THEN NThreads ELSE nextChunk
              ELSE UNCHANGED <<wdata, nextChunk>>
           /\ Goto(t, "arrive")
           /\ UNCHANGED <<at, nPassed, myChunk, pool, barrier, computed, outcome>>

\* Compute the chunk in hand and take another, unless each thread has one.
Chunk(t) == LET n == at[t].node
                last == NThreads >= Chunks[n] IN
  /\ pc[t] = "chunk"
  /\ computed' = [computed EXCEPT ![n][myChunk[t]] = @ + 1]
  /\ IF last THEN UNCHANGED <<myChunk, nextChunk>>
     ELSE /\ myChunk' = [myChunk EXCEPT ![t] = nextChunk]
          /\ nextChunk' = nextChunk + 1
  /\ Goto(t, IF ~last /\ nextChunk < Chunks[n] THEN "chunk" ELSE "arrive")
  /\ UNCHANGED <<at, nPassed, pool, barrier, wdata, outcome>>

\* An assertion of ggml fails: the callback throws on R's thread, and the
\* exception leaves ggml_graph_compute; on a worker the process dies.
Abort(t) == /\ MayAbort /\ pc[t] \in {"work", "chunk"}
            /\ IF t = Main THEN Goto(t, "left") /\ outcome' = "error"
                           ELSE outcome' = "crashed" /\ UNCHANGED pc
            /\ UNCHANGED <<at, nPassed, myChunk, pool, barrier, data>>

(* ggml_barrier                                                            *)

\* What the thread does after the barrier.
Leave(t) == LET s == Succ(at[t]) IN
  /\ at' = [at EXCEPT ![t] = s]
  /\ myChunk' = [myChunk EXCEPT ![t] = t]
  /\ Goto(t, IF s.stage = "start" THEN "work" ELSE IF s.stage = "chunks" THEN "chunk"
             ELSE IF t = Main THEN "free" ELSE "top")

Arrive(t) == /\ pc[t] = "arrive"
             /\ IF Active = 1 THEN Leave(t) /\ UNCHANGED nPassed
                ELSE /\ nPassed' = [nPassed EXCEPT ![t] = passed]
                     /\ Goto(t, "enter") /\ UNCHANGED <<at, myChunk>>
             /\ UNCHANGED <<pool, barrier, data, outcome>>

\* Mutant: the last but one opens the barrier.
EnterEarly(t) == /\ pc[t] = "enter"
                 /\ nBarrier' = nBarrier + 1
                 /\ Goto(t, IF nBarrier = Active - 2 THEN "reset" ELSE "spin")
                 /\ UNCHANGED <<at, nPassed, myChunk, pool, passed, data, outcome>>

Enter(t) == /\ pc[t] = "enter"
            /\ nBarrier' = nBarrier + 1
            /\ Goto(t, IF nBarrier = Active - 1 THEN "reset" ELSE "spin")
            /\ UNCHANGED <<at, nPassed, myChunk, pool, passed, data, outcome>>

Reset(t) == /\ pc[t] = "reset"
            /\ nBarrier' = 0 /\ Goto(t, "advance")
            /\ UNCHANGED <<at, nPassed, myChunk, pool, passed, data, outcome>>

Advance(t) == /\ pc[t] = "advance"
              /\ passed' = passed + 1 /\ Leave(t)
              /\ UNCHANGED <<nPassed, pool, nBarrier, data, outcome>>

\* Mutant: nobody waits.
SpinNot(t) == /\ pc[t] = "spin" /\ Leave(t)
              /\ UNCHANGED <<nPassed, pool, barrier, data, outcome>>

Spin(t) == /\ pc[t] = "spin" /\ passed # nPassed[t]
           /\ Leave(t)
           /\ UNCHANGED <<nPassed, pool, barrier, data, outcome>>

(* R's thread: stop the workers, join them and return.                     *)
Stop == /\ pc[Main] = "free" /\ mutex = NoOne
        /\ mutex' = Main /\ stop' = TRUE /\ j' = 1
        /\ Goto(Main, "wake")
        /\ UNCHANGED <<at, nPassed, myChunk, lastGraph, nGraph, barrier, data, outcome>>

Join == /\ pc[Main] = "join" /\ j < NThreads /\ pc[j] = "exited"
        /\ j' = j + 1
        /\ UNCHANGED <<local, mutex, nGraph, barrier, stop, data, outcome>>

Return == /\ pc[Main] = "join" /\ j = NThreads
          /\ Goto(Main, "left") /\ outcome' = "done"
          /\ UNCHANGED <<at, nPassed, myChunk, pool, barrier, data>>

-----------------------------------------------------------------------------
MainStep == Spawn \/ KickLock \/ Publish \/ Wake \/ Stop \/ Join \/ Return
WorkerStep(t) == Top(t) \/ Poll(t) \/ Lock(t) \/ Check(t) \/ Sleep(t)
ComputeStep(t) == Work(t) \/ Chunk(t) \/ Arrive(t) \/ Enter(t) \/ Reset(t) \/ Advance(t) \/ Spin(t)
Mishap(t) == Abort(t) \/ SpuriousWake(t) \/ (t = Main /\ SpawnFails)

\* Nothing is left to do, or nothing that will happen: threads that spin at
\* a barrier R's thread never reaches.
Next == Alive /\ (MainStep \/ \E t \in Thread : WorkerStep(t) \/ ComputeStep(t) \/ Mishap(t))

\* The system runs every thread that can run, and lets every thread that
\* waits for the mutex have it in the end.
Fairness == /\ WF_vars(Alive /\ MainStep) /\ SF_vars(Alive /\ (KickLock \/ Stop))
            /\ \A t \in Thread : /\ WF_vars(Alive /\ (WorkerStep(t) \/ ComputeStep(t)))
                                 /\ SF_vars(Alive /\ Lock(t))

Spec == Init /\ [][Next]_vars /\ Fairness

-----------------------------------------------------------------------------
(* Properties                                                              *)

Location == {"spawn", "publish", "wake", "free", "join", "left",
             "none", "top", "poll", "lock", "check", "sleep", "asleep", "exited",
             "work", "chunk", "arrive", "enter", "reset", "advance", "spin"}

TypeOK ==
  /\ pc \in [Thread -> Location]
  /\ at \in [Thread -> Segment]
  /\ nPassed \in [Thread -> Nat] /\ myChunk \in [Thread -> Nat] /\ lastGraph \in [Thread -> Nat]
  /\ j \in 1..NThreads /\ mutex \in 0..NThreads
  /\ nGraph \in Nat /\ nBarrier \in Nat /\ passed \in Nat /\ nextChunk \in Nat
  /\ stop \in BOOLEAN
  /\ wdata \in [Thread -> Nat]
  /\ outcome \in {"running", "done", "error", "crashed"}

\* While a thread computes a chunk of a product, the work buffer holds all
\* threads' shares of that product's operand, none of them left from an
\* earlier product or already overwritten for a later one.
ScratchIsWhole == \A t, u \in Thread : pc[t] = "chunk" => wdata[u] = at[t].node

\* A thread that is past a product finds every chunk of it computed exactly
\* once, by whichever thread, although they take them from one counter that
\* is set back for every product.
ChunksComputedOnce ==
  \A n \in DOMAIN Chunks : \A c \in 0..(Chunks[n] - 1) :
    /\ computed[n][c] <= 1
    /\ (\E t \in Thread : at[t].node > n) => computed[n][c] = 1

\* Implementation of the service: a thread has finished a node when it has
\* done its share in the last segment of it.
Finished(t) ==
  LET s == at[t]
      working == pc[t] \notin {"arrive", "enter", "reset", "advance", "spin"}
  IN IF s.node > Len(Chunks) THEN Len(Chunks)
     ELSE IF working \/ Succ(s).node = s.node THEN s.node - 1 ELSE s.node

Service == INSTANCE GraphService WITH
  Sharers <- Thread, NumNodes <- Len(Chunks),
  finished <- [t \in Thread |-> Finished(t)], result <- outcome

\* The pool computes the graph node by node, whoever wakes when.
ImplementsGraph == Service!GSpec

\* A call ends, and ends with a result unless an assertion failed: nobody
\* misses the wakeup, and nobody waits at a barrier the others have left.
CallEnds == <>(outcome # "running")

=============================================================================
