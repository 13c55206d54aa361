-------------------------- MODULE Threadpool_proofs -------------------------
(***************************************************************************)
(* Proofs about Threadpool, for any number of threads and any graph.       *)
(***************************************************************************)
EXTENDS Threadpool, FiniteSetTheorems, TLAPS

Steps == MainStep \/ \E t \in Thread : WorkerStep(t) \/ ComputeStep(t) \/ Mishap(t)

LEMMA SuccType == \A s \in Segment : Succ(s) \in Segment
  BY PoolAssumption DEF Segment, Succ, Seg, Over, Stage, IsProduct

LEMMA ThreadFacts == /\ Thread \subseteq Nat /\ Main \in Thread
                     /\ \A t \in Thread : t < NThreads
                     /\ IsFiniteSet(Thread) /\ Cardinality(Thread) = NThreads
<1>1. 0 \in Int /\ NThreads - 1 \in Int /\ NThreads \in Nat BY PoolAssumption
<1>2. IsFiniteSet(Thread) /\ Cardinality(Thread) = NThreads
  BY <1>1, FS_Interval, PoolAssumption DEF Thread
<1> QED BY <1>1, <1>2, PoolAssumption DEF Thread, Main

LEMMA LocationFacts == /\ "spawn" \in Location /\ "publish" \in Location /\ "wake" \in Location
                       /\ "free" \in Location /\ "join" \in Location /\ "left" \in Location
                       /\ "none" \in Location /\ "top" \in Location /\ "poll" \in Location
                       /\ "lock" \in Location /\ "check" \in Location /\ "sleep" \in Location
                       /\ "asleep" \in Location /\ "exited" \in Location /\ "work" \in Location
                       /\ "chunk" \in Location /\ "arrive" \in Location /\ "enter" \in Location
                       /\ "reset" \in Location /\ "advance" \in Location /\ "spin" \in Location
  BY DEF Location

LEMMA SizeFacts == Len(Chunks) \in Nat /\ NThreads \in Nat /\ NThreads > 0 /\ NThreads < 65536 /\ Main = 0 /\ NoOne = NThreads
  BY PoolAssumption DEF Main, NoOne

LEMMA GotoType ==
  ASSUME pc \in [Thread -> Location], NEW t \in Thread, NEW l \in Location, Goto(t, l)
  PROVE  pc' \in [Thread -> Location]
  BY DEF Goto

LEMMA TakeType ==
  ASSUME pc \in [Thread -> Location], lastGraph \in [Thread -> Nat], nGraph \in Nat,
         NEW t \in Thread, NEW l \in Location, TakeGraph(t, l)
  PROVE  pc' \in [Thread -> Location] /\ lastGraph' \in [Thread -> Nat]
<1>1. lastGraph' \in [Thread -> Nat] BY DEF TakeGraph
<1>2. CASE t < Active BY <1>1, <1>2, GotoType, LocationFacts DEF TakeGraph
<1>3. CASE ~(t < Active) BY <1>1, <1>3, GotoType DEF TakeGraph
<1> QED BY <1>2, <1>3

LEMMA MainType == TypeOK /\ MainStep => TypeOK'
<1> SUFFICES ASSUME TypeOK, MainStep PROVE TypeOK' OBVIOUS
<1> USE ThreadFacts, LocationFacts, SizeFacts
<1>1. CASE Spawn
  <2>1. j \in Thread /\ j + 1 \in 1..NThreads BY <1>1 DEF TypeOK, Spawn, Thread
  <2> QED BY <1>1, <2>1 DEF TypeOK, Spawn, barrier, data
<1>2. CASE KickLock BY <1>2 DEF TypeOK, KickLock, Goto, barrier, data
<1>3. CASE Publish BY <1>3 DEF TypeOK, Publish, Goto, barrier, data
<1>4. CASE Wake BY <1>4 DEF TypeOK, Wake, barrier, data
<1>5. CASE Stop BY <1>5 DEF TypeOK, Stop, Goto, barrier, data
<1>6. CASE Join BY <1>6 DEF TypeOK, Join, local, barrier, data
<1>7. CASE Return BY <1>7 DEF TypeOK, Return, Goto, pool, barrier, data
<1> QED BY <1>1, <1>2, <1>3, <1>4, <1>5, <1>6, <1>7 DEF MainStep

LEMMA WorkerType == ASSUME TypeOK, NEW t \in Thread, WorkerStep(t) PROVE TypeOK'
<1>t. pc \in [Thread -> Location] /\ lastGraph \in [Thread -> Nat] /\ nGraph \in Nat BY DEF TypeOK
<1>m. NThreads \in Nat /\ t \in 0..NThreads /\ NoOne \in 0..NThreads
  BY SizeFacts, ThreadFacts
<1>l. "lock" \in Location /\ "top" \in Location /\ "sleep" \in Location BY LocationFacts
<1>1. CASE Top(t)
  <2>1. pc' \in [Thread -> Location] BY <1>1, <1>t, LocationFacts DEF Top, Goto
  <2> QED BY <1>1, <2>1 DEF TypeOK, Top, pool, barrier, data
<1>2. CASE Poll(t)
  <2>1. CASE TakeGraph(t, "lock")
    <3>1. pc' \in [Thread -> Location] /\ lastGraph' \in [Thread -> Nat] BY <1>t, <1>l, <2>1, TakeType
    <3> QED BY <1>2, <3>1 DEF TypeOK, Poll, barrier, data
  <2>2. CASE Goto(t, "lock") /\ UNCHANGED lastGraph
    <3>1. pc' \in [Thread -> Location] BY <1>t, <1>l, <2>2, GotoType
    <3> QED BY <1>2, <2>2, <3>1 DEF TypeOK, Poll, barrier, data
  <2> QED BY <1>2, <2>1, <2>2 DEF Poll
<1>3. CASE Lock(t)
  <2>1. pc' \in [Thread -> Location] BY <1>3, <1>t, LocationFacts, GotoType DEF Lock
  <2> QED BY <1>3, <1>m, <2>1 DEF TypeOK, Lock, barrier, data
<1>4. CASE Check(t)
  <2>m. mutex' \in 0..NThreads BY <1>4, <1>m DEF Check, TypeOK
  <2>1. CASE TakeGraph(t, "top")
    <3>1. pc' \in [Thread -> Location] /\ lastGraph' \in [Thread -> Nat] BY <1>t, <1>l, <2>1, TakeType
    <3> QED BY <1>4, <2>m, <3>1 DEF TypeOK, Check, barrier, data
  <2>2. CASE (Goto(t, "top") \/ Goto(t, "sleep")) /\ UNCHANGED lastGraph
    <3>1. pc' \in [Thread -> Location] BY <1>t, <1>l, <2>2, GotoType
    <3> QED BY <1>4, <2>m, <2>2, <3>1 DEF TypeOK, Check, barrier, data
  <2> QED BY <1>4, <2>1, <2>2 DEF Check
<1>5. CASE Sleep(t)
  <2>1. pc' \in [Thread -> Location] BY <1>5, <1>t, LocationFacts, GotoType DEF Sleep
  <2> QED BY <1>5, <1>m, <2>1 DEF TypeOK, Sleep, barrier, data
<1> QED BY <1>1, <1>2, <1>3, <1>4, <1>5 DEF WorkerStep

LEMMA LeaveType ==
  ASSUME TypeOK, NEW t \in Thread, Leave(t)
  PROVE  /\ at' \in [Thread -> Segment] /\ myChunk' \in [Thread -> Nat]
         /\ pc' \in [Thread -> Location]
  BY SuccType, ThreadFacts, LocationFacts DEF TypeOK, Leave, Goto

LEMMA ComputeType == ASSUME TypeOK, NEW t \in Thread, ComputeStep(t) PROVE TypeOK'
<1>t. pc \in [Thread -> Location] /\ at[t].node \in Nat /\ NThreads \in Nat
  BY SizeFacts DEF TypeOK, Segment
<1>l. "chunk" \in Location /\ "arrive" \in Location /\ "enter" \in Location
  BY LocationFacts
<1>1. CASE Work(t)
  <2>1. pc' \in [Thread -> Location] BY <1>1, <1>t, <1>l, GotoType DEF Work
  <2>2. wdata' \in [Thread -> Nat] /\ nextChunk' \in Nat BY <1>1, <1>t DEF Work, TypeOK
  <2> QED BY <1>1, <2>1, <2>2 DEF TypeOK, Work, pool, barrier
<1>2. CASE Chunk(t)
  <2>1. pc' \in [Thread -> Location] BY <1>2, <1>t, <1>l DEF Chunk, Goto
  <2>2. myChunk' \in [Thread -> Nat] /\ nextChunk' \in Nat BY <1>2 DEF Chunk, TypeOK
  <2> QED BY <1>2, <2>1, <2>2 DEF TypeOK, Chunk, pool, barrier
<1>3. CASE Arrive(t)
  <2>1. CASE Active = 1 BY <1>3, <2>1, LeaveType DEF TypeOK, Arrive, pool, barrier, data
  <2>2. CASE Active # 1
    <3>1. pc' \in [Thread -> Location] BY <1>3, <1>t, <1>l, <2>2, GotoType DEF Arrive
    <3>2. nPassed' \in [Thread -> Nat] BY <1>3, <2>2 DEF Arrive, TypeOK
    <3>3. UNCHANGED <<at, myChunk, pool, barrier, data, outcome>> BY <1>3, <2>2 DEF Arrive
    <3> QED BY <3>1, <3>2, <3>3 DEF TypeOK, pool, barrier, data
  <2> QED BY <2>1, <2>2
<1>4. CASE Enter(t)
  <2>1. pc' \in [Thread -> Location] BY <1>4, <1>t, LocationFacts DEF Enter, Goto
  <2> QED BY <1>4, <2>1 DEF TypeOK, Enter, pool, data
<1>5. CASE Reset(t)
  <2>1. pc' \in [Thread -> Location] BY <1>5, <1>t, LocationFacts, GotoType DEF Reset
  <2> QED BY <1>5, <2>1 DEF TypeOK, Reset, pool, data
<1>6. CASE Advance(t)
  <2>1. passed' \in Nat BY <1>6 DEF Advance, TypeOK
  <2>2. /\ at' \in [Thread -> Segment] /\ myChunk' \in [Thread -> Nat] /\ pc' \in [Thread -> Location]
    BY <1>6, LeaveType DEF Advance
  <2>3. UNCHANGED <<nPassed, pool, nBarrier, data, outcome>> BY <1>6 DEF Advance
  <2> QED BY <2>1, <2>2, <2>3 DEF TypeOK, pool, data
<1>7. CASE Spin(t) BY <1>7, LeaveType DEF TypeOK, Spin, pool, barrier, data
<1> QED BY <1>1, <1>2, <1>3, <1>4, <1>5, <1>6, <1>7 DEF ComputeStep

LEMMA MishapType == ASSUME TypeOK, NEW t \in Thread, Mishap(t) PROVE TypeOK'
<1> USE ThreadFacts, LocationFacts
<1>1. CASE Abort(t) BY <1>1 DEF TypeOK, Abort, Goto, pool, barrier, data
<1>2. CASE SpuriousWake(t) BY <1>2 DEF TypeOK, SpuriousWake, Goto, pool, barrier, data
<1>3. CASE SpawnFails BY <1>3 DEF TypeOK, SpawnFails, Goto, pool, barrier, data
<1> QED BY <1>1, <1>2, <1>3 DEF Mishap

LEMMA NextType == TypeOK /\ [Next]_vars => TypeOK'
<1> SUFFICES ASSUME TypeOK, [Next]_vars PROVE TypeOK' OBVIOUS
<1>1. CASE UNCHANGED vars BY <1>1 DEF TypeOK, vars, local, barrier, data
<1>2. CASE MainStep BY <1>2, MainType
<1>3. ASSUME NEW t \in Thread, WorkerStep(t) PROVE TypeOK' BY <1>3, WorkerType
<1>4. ASSUME NEW t \in Thread, ComputeStep(t) PROVE TypeOK' BY <1>4, ComputeType
<1>5. ASSUME NEW t \in Thread, Mishap(t) PROVE TypeOK' BY <1>5, MishapType
<1> QED BY <1>1, <1>2, <1>3, <1>4, <1>5 DEF Next

LEMMA InitType == Init => TypeOK
<1> USE ThreadFacts, LocationFacts, SizeFacts
<1>1. First \in Segment BY DEF First, Seg, Segment, Stage
<1> QED BY <1>1 DEF Init, TypeOK

(* For any number of threads and any graph, all states are well typed: in  *)
(* particular no thread leaves the segments of the graph.                  *)
THEOREM TypeCorrect == Spec => []TypeOK
  BY InitType, NextType, PTL DEF Spec

-----------------------------------------------------------------------------
(* Where the threads can be, before the graph is published and after.      *)

Idle == {"none", "top", "poll", "lock", "check", "sleep", "asleep", "exited"}
InBarrier == {"arrive", "enter", "reset", "advance", "spin"}
Computing == {"work", "chunk"} \cup InBarrier
Kicked == 65536 + NThreads

SegOK(s) == /\ s.stage = "chunks" => IsProduct(s.node)
            /\ s.stage = "over" => s = Over

\* What holds of a thread, from its own registers and the pool's flags.
Local(t) ==
  /\ SegOK(at[t])
  /\ t = Main => pc[t] \notin Idle
  /\ t # Main => pc[t] \in Idle \cup Computing
  /\ pc[t] \in Idle => \/ at[t] = First /\ lastGraph[t] = 0
                       \/ at[t] = Over /\ lastGraph[t] = nGraph
  /\ pc[t] \in Computing => nGraph = Kicked /\ at[t] # Over /\ (t # Main => lastGraph[t] = nGraph)
  /\ pc[t] = "work" => at[t].stage = "start"
  /\ pc[t] = "chunk" => at[t].stage = "chunks"
  /\ pc[t] \in {"spawn", "publish"} => nGraph = 0
  /\ pc[t] = "wake" => nGraph = Kicked /\ (~stop => at[t] = First)
  /\ pc[t] \in {"free", "join"} => nGraph = Kicked /\ at[t] = Over
  /\ nGraph = 0 => ~stop /\ at[t] = First /\ lastGraph[t] = 0
  /\ stop /\ t = Main => at[t] = Over /\ pc[t] \in {"wake", "join", "left"}

PhaseInv == /\ TypeOK
            /\ nGraph \in {0, Kicked}
            /\ \A t \in Thread : Local(t)

LEMMA ActiveFacts == /\ Kicked \in Nat /\ Kicked # 0
                     /\ nGraph = Kicked => Active = NThreads
                     /\ nGraph = 0 => (nGraph \div 65536 + 1) * 65536 + NThreads = Kicked
  BY SizeFacts DEF Kicked, Active

LEMMA SegFacts == /\ First.stage = "start" /\ Over.stage = "over" /\ First # Over /\ SegOK(First)
                  /\ \A s \in Segment : SegOK(s) /\ s # Over =>
                       /\ SegOK(Succ(s)) /\ Succ(s) \in Segment
                       /\ Succ(s).stage \in {"start", "chunks", "over"}
                       /\ Succ(s).stage \in {"start", "chunks"} => Succ(s) # Over
  BY SuccType, SizeFacts DEF First, Over, Seg, SegOK, Succ, Segment, Stage, IsProduct

LEMMA GotoFacts ==
  ASSUME NEW t \in Thread, NEW l, TypeOK, Goto(t, l)
  PROVE  pc'[t] = l /\ \A u \in Thread \ {t} : pc'[u] = pc[u]
  BY DEF TypeOK, Goto

\* A step of one thread that leaves the pool's flags alone.
LEMMA OneMoves ==
  ASSUME PhaseInv, TypeOK', NEW t \in Thread, Local(t)', UNCHANGED <<nGraph, stop>>,
         \A u \in Thread \ {t} : pc'[u] = pc[u] /\ at'[u] = at[u] /\ lastGraph'[u] = lastGraph[u]
  PROVE  PhaseInv'
<1>1. ASSUME NEW u \in Thread \ {t} PROVE Local(u)'
  <2>1. Local(u) BY DEF PhaseInv
  <2> QED BY <2>1 DEF Local, SegOK
<1> QED BY <1>1 DEF PhaseInv

\* A step of one thread that leaves its location to Leave.
LEMMA LeaveFacts ==
  ASSUME NEW t \in Thread, TypeOK, Leave(t)
  PROVE  /\ at'[t] = Succ(at[t])
         /\ pc'[t] \in {"work", "chunk", "free", "top"}
         /\ pc'[t] = "work" <=> Succ(at[t]).stage = "start"
         /\ pc'[t] = "chunk" <=> Succ(at[t]).stage = "chunks"
         /\ pc'[t] = "free" => t = Main
         /\ pc'[t] = "top" => t # Main
         /\ \A u \in Thread \ {t} : pc'[u] = pc[u] /\ at'[u] = at[u]
  BY DEF TypeOK, Leave, Goto

LEMMA LeavePhase ==
  ASSUME PhaseInv, TypeOK', NEW t \in Thread, pc[t] \in InBarrier, Leave(t),
         UNCHANGED <<nGraph, stop, lastGraph>>
  PROVE  PhaseInv'
<1>1. TypeOK /\ Local(t) /\ at[t] \in Segment BY DEF PhaseInv, TypeOK
<1>2. Local(t)' BY <1>1, LeaveFacts, SegFacts, ActiveFacts DEF Local, Idle, Computing, InBarrier, SegOK
<1> QED BY <1>1, <1>2, LeaveFacts, OneMoves

LEMMA WorkerPhase == ASSUME PhaseInv, NEW t \in Thread, WorkerStep(t) PROVE PhaseInv'
<1>t. TypeOK /\ TypeOK' /\ Local(t) /\ nGraph \in {0, Kicked} BY WorkerType DEF PhaseInv
<1> USE ActiveFacts, SegFacts, ThreadFacts, SizeFacts
<1> USE DEF Local, Idle, Computing, InBarrier
<1>1. CASE Top(t)
  <2>1. Local(t)' BY <1>1, <1>t, GotoFacts DEF Top, pool
  <2> QED BY <1>1, <1>t, <2>1, GotoFacts, OneMoves DEF Top, pool
<1>2. CASE Poll(t)
  <2>1. CASE NewGraph(t) /\ TakeGraph(t, "lock")
    <3>1. lastGraph'[t] = nGraph /\ \A u \in Thread \ {t} : lastGraph'[u] = lastGraph[u]
      BY <1>t, <2>1 DEF TypeOK, TakeGraph
    <3>2. nGraph = Kicked /\ Active = NThreads BY <1>t, <1>2, <2>1 DEF NewGraph, Poll
    <3>3. Goto(t, "work") BY <2>1, <3>2 DEF TakeGraph
    <3>4. Local(t)' BY <1>2, <1>t, <2>1, <3>1, <3>2, <3>3, GotoFacts DEF Poll, NewGraph
    <3> QED BY <1>2, <1>t, <3>1, <3>3, <3>4, GotoFacts, OneMoves DEF Poll
  <2>2. CASE ~NewGraph(t) /\ Goto(t, "lock") /\ UNCHANGED lastGraph
    <3>1. Local(t)' BY <1>2, <1>t, <2>2, GotoFacts DEF Poll
    <3> QED BY <1>2, <1>t, <2>2, <3>1, GotoFacts, OneMoves DEF Poll
  <2> QED BY <1>2, <2>1, <2>2 DEF Poll
<1>4. CASE Check(t)
  <2>1. CASE NewGraph(t) /\ TakeGraph(t, "top")
    <3>1. lastGraph'[t] = nGraph /\ \A u \in Thread \ {t} : lastGraph'[u] = lastGraph[u]
      BY <1>t, <2>1 DEF TypeOK, TakeGraph
    <3>2. nGraph = Kicked /\ Active = NThreads BY <1>t, <1>4, <2>1 DEF NewGraph, Check
    <3>3. Goto(t, "work") BY <2>1, <3>2 DEF TakeGraph
    <3>4. Local(t)' BY <1>4, <1>t, <2>1, <3>1, <3>2, <3>3, GotoFacts DEF Check, NewGraph
    <3> QED BY <1>4, <1>t, <3>1, <3>3, <3>4, GotoFacts, OneMoves DEF Check
  <2>2. CASE (Goto(t, "top") \/ Goto(t, "sleep")) /\ UNCHANGED lastGraph
    <3>1. Local(t)' BY <1>4, <1>t, <2>2, GotoFacts DEF Check
    <3> QED BY <1>4, <1>t, <2>2, <3>1, GotoFacts, OneMoves DEF Check
  <2> QED BY <1>4, <2>1, <2>2 DEF Check
<1>3. CASE Lock(t)
  <2>1. Local(t)' BY <1>3, <1>t, GotoFacts DEF Lock
  <2> QED BY <1>3, <1>t, <2>1, GotoFacts, OneMoves DEF Lock
<1>5. CASE Sleep(t)
  <2>1. Local(t)' BY <1>5, <1>t, GotoFacts DEF Sleep
  <2> QED BY <1>5, <1>t, <2>1, GotoFacts, OneMoves DEF Sleep
<1> QED BY <1>1, <1>2, <1>3, <1>4, <1>5 DEF WorkerStep

LEMMA ComputePhase == ASSUME PhaseInv, NEW t \in Thread, ComputeStep(t) PROVE PhaseInv'
<1>t. TypeOK /\ TypeOK' /\ Local(t) BY ComputeType DEF PhaseInv
<1>1. CASE Arrive(t) /\ Active = 1 BY <1>1, <1>t, LeavePhase DEF Arrive, InBarrier, pool
<1>2. CASE Advance(t) BY <1>2, <1>t, LeavePhase DEF Advance, InBarrier, pool
<1>3. CASE Spin(t) BY <1>3, <1>t, LeavePhase DEF Spin, InBarrier, pool
<1> USE DEF Local, Idle, Computing, InBarrier, pool
<1>4. CASE Work(t)
  <2>1. Local(t)' BY <1>4, <1>t, GotoFacts DEF Work
  <2> QED BY <1>4, <1>t, <2>1, GotoFacts, OneMoves DEF Work
<1>5. CASE Chunk(t)
  <2>1. Local(t)' BY <1>5, <1>t, GotoFacts DEF Chunk
  <2> QED BY <1>5, <1>t, <2>1, GotoFacts, OneMoves DEF Chunk
<1>6. CASE Arrive(t) /\ Active # 1
  <2>1. Local(t)' BY <1>6, <1>t, GotoFacts DEF Arrive
  <2> QED BY <1>6, <1>t, <2>1, GotoFacts, OneMoves DEF Arrive
<1>7. CASE Enter(t)
  <2>1. Local(t)' BY <1>7, <1>t, GotoFacts DEF Enter
  <2> QED BY <1>7, <1>t, <2>1, GotoFacts, OneMoves DEF Enter
<1>8. CASE Reset(t)
  <2>1. Local(t)' BY <1>8, <1>t, GotoFacts DEF Reset
  <2> QED BY <1>8, <1>t, <2>1, GotoFacts, OneMoves DEF Reset
<1> QED BY <1>1, <1>2, <1>3, <1>4, <1>5, <1>6, <1>7, <1>8 DEF ComputeStep

LEMMA MishapPhase == ASSUME PhaseInv, NEW t \in Thread, Mishap(t) PROVE PhaseInv'
<1>t. TypeOK /\ TypeOK' /\ Local(t) BY MishapType DEF PhaseInv
<1> USE DEF Local, Idle, Computing, InBarrier, pool
<1>1. CASE Abort(t) /\ t = Main
  <2>1. Local(t)' BY <1>1, <1>t, GotoFacts DEF Abort
  <2> QED BY <1>1, <1>t, <2>1, GotoFacts, OneMoves DEF Abort
<1>2. CASE Abort(t) /\ t # Main
  <2>1. Local(t)' BY <1>2, <1>t DEF Abort
  <2> QED BY <1>2, <1>t, <2>1, OneMoves DEF Abort
<1>3. CASE SpuriousWake(t)
  <2>1. Local(t)' BY <1>3, <1>t, GotoFacts DEF SpuriousWake
  <2> QED BY <1>3, <1>t, <2>1, GotoFacts, OneMoves DEF SpuriousWake
<1>4. CASE SpawnFails /\ t = Main
  <2>1. Local(t)' BY <1>4, <1>t, GotoFacts DEF SpawnFails
  <2> QED BY <1>4, <1>t, <2>1, GotoFacts, OneMoves DEF SpawnFails
<1> QED BY <1>1, <1>2, <1>3, <1>4 DEF Mishap

LEMMA MainPhase == PhaseInv /\ MainStep => PhaseInv'
<1> SUFFICES ASSUME PhaseInv, MainStep PROVE PhaseInv' OBVIOUS
<1>t. TypeOK /\ TypeOK' /\ Local(Main) /\ nGraph \in {0, Kicked} /\ Main \in Thread
  BY MainType, ThreadFacts DEF PhaseInv
<1> USE ActiveFacts, SegFacts, SizeFacts
<1> USE DEF Local, Idle, Computing, InBarrier, pool, local
<1>1. CASE Spawn
  <2>1. PICK k \in Thread \ {Main} : k = j BY <1>1, <1>t DEF Spawn, Thread, TypeOK
  <2>2. pc'[k] = "top" /\ \A u \in Thread \ {k} : pc'[u] = pc[u] BY <1>1, <1>t, <2>1 DEF Spawn, TypeOK
  <2>3. Local(k) BY <2>1 DEF PhaseInv
  <2>4. Local(k)' BY <1>1, <1>t, <2>1, <2>2, <2>3 DEF Spawn, SegOK
  <2>5. UNCHANGED <<at, lastGraph, nGraph, stop>> BY <1>1 DEF Spawn
  <2> QED BY <1>t, <2>1, <2>2, <2>4, <2>5, OneMoves
<1>2. CASE KickLock
  <2>1. Goto(Main, "publish") /\ UNCHANGED <<at, lastGraph, nGraph, stop>> BY <1>2 DEF KickLock
  <2>2. Local(Main)' BY <1>2, <1>t, <2>1, GotoFacts DEF KickLock
  <2> QED BY <1>t, <2>1, <2>2, GotoFacts, OneMoves
<1>3. CASE Publish
  <2>1. nGraph = 0 /\ nGraph' = Kicked BY <1>3, <1>t DEF Publish
  <2>2. pc'[Main] = "wake" /\ \A u \in Thread \ {Main} : pc'[u] = pc[u]
    BY <1>3, <1>t, GotoFacts DEF Publish
  <2>3. ASSUME NEW u \in Thread PROVE Local(u)'
    <3>1. Local(u) BY DEF PhaseInv
    <3> QED BY <1>3, <2>1, <2>2, <3>1 DEF Publish, SegOK
  <2> QED BY <1>t, <2>1, <2>3 DEF PhaseInv
<1>4. CASE Wake
  <2>1. /\ pc'[Main] = IF stop THEN "join" ELSE "work"
        /\ \A u \in Thread \ {Main} : pc'[u] = pc[u] \/ (pc[u] = "asleep" /\ pc'[u] = "lock")
    BY <1>4, <1>t DEF Wake
  <2>2. ASSUME NEW u \in Thread PROVE Local(u)'
    <3>1. Local(u) BY DEF PhaseInv
    <3>2. CASE u = Main BY <1>4, <2>1, <3>1, <3>2 DEF Wake, SegOK
    <3>3. CASE u # Main BY <1>4, <2>1, <3>1, <3>3 DEF Wake, SegOK
    <3> QED BY <3>2, <3>3
  <2> QED BY <1>4, <1>t, <2>2 DEF PhaseInv, Wake
<1>5. CASE Stop
  <2>1. pc'[Main] = "wake" /\ \A u \in Thread \ {Main} : pc'[u] = pc[u]
    BY <1>5, <1>t, GotoFacts DEF Stop
  <2>2. ASSUME NEW u \in Thread PROVE Local(u)'
    <3>1. Local(u) BY DEF PhaseInv
    <3> QED BY <1>5, <1>t, <2>1, <3>1 DEF Stop, SegOK
  <2> QED BY <1>5, <1>t, <2>2 DEF PhaseInv, Stop
<1>6. CASE Join
  <2>1. ASSUME NEW u \in Thread PROVE Local(u)'
    <3>1. Local(u) BY DEF PhaseInv
    <3> QED BY <1>6, <3>1 DEF Join, SegOK
  <2> QED BY <1>6, <1>t, <2>1 DEF PhaseInv, Join
<1>7. CASE Return
  <2>1. Local(Main)' BY <1>7, <1>t, GotoFacts DEF Return
  <2> QED BY <1>7, <1>t, <2>1, GotoFacts, OneMoves DEF Return
<1> QED BY <1>1, <1>2, <1>3, <1>4, <1>5, <1>6, <1>7 DEF MainStep

LEMMA NextPhase == PhaseInv /\ [Next]_vars => PhaseInv'
<1> SUFFICES ASSUME PhaseInv, [Next]_vars PROVE PhaseInv' OBVIOUS
<1>1. CASE UNCHANGED vars
  <2>1. TypeOK' BY <1>1, NextType DEF PhaseInv
  <2>2. ASSUME NEW u \in Thread PROVE Local(u)'
    <3>1. Local(u) BY DEF PhaseInv
    <3> QED BY <1>1, <3>1 DEF Local, SegOK, vars, local
  <2> QED BY <1>1, <2>1, <2>2 DEF PhaseInv, vars
<1>2. CASE MainStep BY <1>2, MainPhase
<1>3. ASSUME NEW t \in Thread, WorkerStep(t) PROVE PhaseInv' BY <1>3, WorkerPhase
<1>4. ASSUME NEW t \in Thread, ComputeStep(t) PROVE PhaseInv' BY <1>4, ComputePhase
<1>5. ASSUME NEW t \in Thread, Mishap(t) PROVE PhaseInv' BY <1>5, MishapPhase
<1> QED BY <1>1, <1>2, <1>3, <1>4, <1>5 DEF Next

LEMMA InitPhase == Init => PhaseInv
<1> SUFFICES ASSUME Init PROVE PhaseInv OBVIOUS
<1>1. TypeOK /\ nGraph = 0 /\ ~stop BY InitType DEF Init
<1>2. ASSUME NEW t \in Thread PROVE Local(t)
  BY SegFacts, SizeFacts, ActiveFacts DEF Init, Local, Idle, Computing, InBarrier
<1> QED BY <1>1, <1>2 DEF PhaseInv

-----------------------------------------------------------------------------
(* The barrier.  Between the barrier's count passing and a thread noticing *)
(* it, the thread is behind; counting such a thread as in the segment it   *)
(* is about to enter, all threads are in the same segment at all times.    *)

Behind(t) == pc[t] = "spin" /\ nPassed[t] # passed
Waiting == {t \in Thread : pc[t] = "spin" /\ nPassed[t] = passed}
Cur(t) == IF Behind(t) THEN Succ(at[t]) ELSE at[t]
Last(t) == pc[t] \in {"reset", "advance"}
AtBarrier == {"enter", "reset", "advance", "spin"}

BarrierInv ==
  /\ \A t \in Thread : pc[t] = "enter" => nPassed[t] = passed
  /\ \A t \in Thread : pc[t] = "spin" => nPassed[t] = passed \/ nPassed[t] + 1 = passed
  /\ \A t, u \in Thread : Cur(t) = Cur(u)
  /\ \A t \in Thread : Last(t) => \A u \in Thread \ {t} : u \in Waiting
  /\ (\A t \in Thread : ~Last(t)) => nBarrier = Cardinality(Waiting)
  /\ \A t \in Thread : pc[t] = "advance" => nBarrier = 0

LEMMA QuietBarrier ==
  ASSUME BarrierInv, UNCHANGED <<at, nPassed, passed, nBarrier>>,
         \A u \in Thread : pc[u] \in AtBarrier \/ pc'[u] \in AtBarrier => pc'[u] = pc[u]
  PROVE  BarrierInv'
<1>1. UNCHANGED at /\ UNCHANGED nPassed /\ UNCHANGED passed /\ UNCHANGED nBarrier OBVIOUS
<1>2. ASSUME NEW u \in Thread
      PROVE  /\ pc'[u] = "enter" <=> pc[u] = "enter"
             /\ pc'[u] = "spin" <=> pc[u] = "spin"
             /\ pc'[u] = "advance" <=> pc[u] = "advance"
             /\ pc'[u] = "reset" <=> pc[u] = "reset"
  BY DEF AtBarrier
<1>3. Waiting' = Waiting BY <1>1, <1>2 DEF Waiting
<1>4. \A u \in Thread : Behind(u)' <=> Behind(u) BY <1>1, <1>2 DEF Behind
<1>5. \A u \in Thread : Last(u)' <=> Last(u) BY <1>2 DEF Last
<1>6. \A u \in Thread : Cur(u)' = Cur(u) BY <1>1, <1>4 DEF Cur
<1> QED BY <1>1, <1>2, <1>3, <1>5, <1>6 DEF BarrierInv

LEMMA EnterBarrier == ASSUME PhaseInv, BarrierInv, NEW t \in Thread, Enter(t) PROVE BarrierInv'
<1>1. /\ TypeOK /\ Active = NThreads /\ pc[t] = "enter" /\ nPassed[t] = passed
      /\ NThreads \in Nat /\ nBarrier' = nBarrier + 1
      /\ UNCHANGED <<at, nPassed, passed>>
  BY ActiveFacts, SizeFacts DEF Enter, PhaseInv, Local, Computing, InBarrier, BarrierInv, pool
<1>2. /\ pc'[t] = IF nBarrier = NThreads - 1 THEN "reset" ELSE "spin"
      /\ \A u \in Thread \ {t} : pc'[u] = pc[u]
  BY <1>1 DEF Enter, Goto, TypeOK
<1>3. t \notin Waiting /\ \A u \in Thread : ~Last(u)
  BY <1>1 DEF Waiting, Last, BarrierInv
<1>4. nBarrier = Cardinality(Waiting) BY <1>3 DEF BarrierInv
<1>5. /\ IsFiniteSet(Waiting) /\ IsFiniteSet(Thread \ {t}) /\ Waiting \subseteq Thread \ {t}
      /\ Cardinality(Thread \ {t}) = NThreads - 1
  BY <1>1, <1>3, ThreadFacts, FS_Subset, FS_RemoveElement DEF Waiting
<1>6. \A u \in Thread : Cur(u)' = Cur(u)
  <2>1. \A u \in Thread : Behind(u)' <=> Behind(u) BY <1>1, <1>2 DEF Behind
  <2> QED BY <1>1, <2>1 DEF Cur
<1>7. CASE nBarrier = NThreads - 1
  <2>1. Waiting = Thread \ {t} BY <1>4, <1>5, <1>7, FS_Subset
  <2>2. Waiting' = Waiting BY <1>1, <1>2, <1>7, <1>3 DEF Waiting
  <2>3. Last(t)' /\ pc'[t] = "reset" /\ \A u \in Thread \ {t} : ~Last(u)'
    BY <1>2, <1>3, <1>7 DEF Last
  <2> QED BY <1>1, <1>2, <1>6, <2>1, <2>2, <2>3 DEF BarrierInv, Last
<1>8. CASE nBarrier # NThreads - 1
  <2>1. Waiting' = Waiting \cup {t} BY <1>1, <1>2, <1>8 DEF Waiting
  <2>2. nBarrier' = Cardinality(Waiting') BY <1>1, <1>3, <1>4, <1>5, <2>1, FS_AddElement
  <2>3. \A u \in Thread : ~Last(u)' BY <1>2, <1>3, <1>8 DEF Last
  <2> QED BY <1>1, <1>2, <1>6, <1>8, <2>2, <2>3 DEF BarrierInv, Last
<1> QED BY <1>7, <1>8

LEMMA AdvanceBarrier == ASSUME PhaseInv, BarrierInv, NEW t \in Thread, Advance(t) PROVE BarrierInv'
<1>1. /\ TypeOK /\ pc[t] = "advance" /\ Leave(t) /\ passed' = passed + 1 /\ passed \in Nat
      /\ nBarrier = 0 /\ nBarrier' = 0 /\ nPassed' = nPassed
  BY DEF Advance, PhaseInv, BarrierInv, TypeOK
<1>2. \A u \in Thread \ {t} : pc[u] = "spin" /\ nPassed[u] = passed
  BY <1>1 DEF BarrierInv, Last, Waiting
<1>3. /\ at'[t] = Succ(at[t]) /\ pc'[t] \in {"work", "chunk", "free", "top"}
      /\ \A u \in Thread \ {t} : pc'[u] = "spin" /\ at'[u] = at[u]
  BY <1>1, <1>2, LeaveFacts
<1>4. Waiting' = {}
  <2>1. \A u \in Thread : ~(pc'[u] = "spin" /\ nPassed'[u] = passed') BY <1>1, <1>2, <1>3
  <2> QED BY <2>1 DEF Waiting
<1>5. \A u \in Thread : Cur(u)' = Succ(at[t])
  <2>1. \A u \in Thread \ {t} : at[u] = at[t]
    BY <1>1, <1>2 DEF BarrierInv, Cur, Behind
  <2>2. \A u \in Thread \ {t} : Behind(u)' BY <1>1, <1>2, <1>3 DEF Behind
  <2>3. ~Behind(t)' BY <1>3 DEF Behind
  <2> QED BY <1>3, <2>1, <2>2, <2>3 DEF Cur
<1>6. \A u \in Thread : ~Last(u)' /\ pc'[u] # "enter" BY <1>3 DEF Last
<1>7. nBarrier' = Cardinality(Waiting') BY <1>1, <1>4, FS_EmptySet
<1> QED BY <1>1, <1>2, <1>3, <1>5, <1>6, <1>7 DEF BarrierInv, Last

LEMMA SpinBarrier == ASSUME PhaseInv, BarrierInv, NEW t \in Thread, Spin(t) PROVE BarrierInv'
<1>1. /\ TypeOK /\ Behind(t) /\ Leave(t) /\ UNCHANGED <<nPassed, passed, nBarrier>> /\ t \notin Waiting
  BY DEF Spin, PhaseInv, Behind, barrier, Waiting
<1>2. /\ at'[t] = Succ(at[t]) /\ pc'[t] \in {"work", "chunk", "free", "top"}
      /\ \A u \in Thread \ {t} : pc'[u] = pc[u] /\ at'[u] = at[u]
  BY <1>1, LeaveFacts
<1>3. Waiting' = Waiting BY <1>1, <1>2 DEF Waiting, Behind
<1>4. \A u \in Thread : Cur(u)' = Cur(u)
  <2>1. \A u \in Thread \ {t} : Behind(u)' <=> Behind(u) BY <1>1, <1>2 DEF Behind
  <2>2. ~Behind(t)' BY <1>2 DEF Behind
  <2> QED BY <1>1, <1>2, <2>1, <2>2 DEF Cur
<1>5. \A u \in Thread : ~Last(u) /\ ~Last(u)'
  <2>1. ~Last(t) BY <1>1 DEF Behind, Last
  <2> QED BY <1>1, <1>2, <2>1 DEF BarrierInv, Last
<1> QED BY <1>1, <1>2, <1>3, <1>4, <1>5 DEF BarrierInv, Last

LEMMA ArriveBarrier == ASSUME PhaseInv, BarrierInv, NEW t \in Thread, Arrive(t) PROVE BarrierInv'
<1>1. /\ TypeOK /\ Active = NThreads /\ pc[t] = "arrive" /\ UNCHANGED <<passed, nBarrier>>
      /\ t \notin Waiting /\ ~Behind(t)
  BY ActiveFacts DEF Arrive, PhaseInv, Local, Computing, InBarrier, barrier, Waiting, Behind
<1>2. \A u \in Thread : ~Last(u) BY <1>1 DEF BarrierInv, Last
<1>3. CASE Active = 1
  <2>1. Leave(t) /\ nPassed' = nPassed BY <1>1, <1>3 DEF Arrive
  <2>2. \A u \in Thread : u = t BY <1>1, <1>3, ThreadFacts
  <2>3. pc'[t] \in {"work", "chunk", "free", "top"} BY <1>1, <2>1, LeaveFacts
  <2>4. Waiting' = {} /\ Waiting = {} BY <1>1, <2>2, <2>3 DEF Waiting
  <2>5. \A u \in Thread : ~Last(u)' /\ pc'[u] \notin {"enter", "spin"} BY <2>2, <2>3 DEF Last
  <2>6. \A u, w \in Thread : Cur(u)' = Cur(w)' BY <2>2
  <2> QED BY <1>1, <1>2, <2>4, <2>5, <2>6 DEF BarrierInv, Last
<1>4. CASE Active # 1
  <2>1. /\ UNCHANGED <<at, myChunk>> /\ Goto(t, "enter")
        /\ nPassed' = [nPassed EXCEPT ![t] = passed]
    BY <1>1, <1>4 DEF Arrive
  <2>2. /\ pc'[t] = "enter" /\ nPassed'[t] = passed
        /\ \A u \in Thread \ {t} : pc'[u] = pc[u] /\ nPassed'[u] = nPassed[u]
    BY <1>1, <2>1, GotoFacts DEF TypeOK
  <2>3. Waiting' = Waiting BY <1>1, <2>2 DEF Waiting
  <2>4. \A u \in Thread : Cur(u)' = Cur(u)
    <3>1. \A u \in Thread : Behind(u)' <=> Behind(u) BY <1>1, <2>2 DEF Behind
    <3> QED BY <2>1, <3>1 DEF Cur
  <2>5. \A u \in Thread : ~Last(u)' BY <1>2, <2>2 DEF Last
  <2> QED BY <1>1, <1>2, <2>2, <2>3, <2>4, <2>5 DEF BarrierInv, Last
<1> QED BY <1>3, <1>4

LEMMA ResetBarrier == ASSUME PhaseInv, BarrierInv, NEW t \in Thread, Reset(t) PROVE BarrierInv'
<1>1. /\ TypeOK /\ pc[t] = "reset" /\ nBarrier' = 0 /\ UNCHANGED <<at, nPassed, passed>> /\ Goto(t, "advance")
  BY DEF Reset, PhaseInv
<1>2. pc'[t] = "advance" /\ \A u \in Thread \ {t} : pc'[u] = pc[u] BY <1>1, GotoFacts
<1>3. Waiting' = Waiting BY <1>1, <1>2 DEF Waiting
<1>4. \A u \in Thread : Cur(u)' = Cur(u)
  <2>1. \A u \in Thread : Behind(u)' <=> Behind(u) BY <1>1, <1>2 DEF Behind
  <2> QED BY <1>1, <2>1 DEF Cur
<1>5. \A u \in Thread : Last(u)' <=> Last(u) BY <1>1, <1>2 DEF Last
<1> QED BY <1>1, <1>2, <1>3, <1>4, <1>5 DEF BarrierInv, Last

LEMMA NextBarrier == PhaseInv /\ BarrierInv /\ [Next]_vars => BarrierInv'
<1> SUFFICES ASSUME PhaseInv, BarrierInv, [Next]_vars PROVE BarrierInv' OBVIOUS
<1>t. TypeOK /\ Main \in Thread BY ThreadFacts DEF PhaseInv
<1>1. CASE UNCHANGED vars BY <1>1, QuietBarrier DEF vars, local, barrier
<1>2. CASE MainStep
  <2>1. UNCHANGED <<at, nPassed, passed, nBarrier>>
    BY <1>2 DEF MainStep, Spawn, KickLock, Publish, Wake, Stop, Join, Return, barrier, local
  <2>2. ASSUME NEW u \in Thread, pc[u] \in AtBarrier \/ pc'[u] \in AtBarrier PROVE pc'[u] = pc[u]
    <3>1. CASE Spawn
      <4>1. \/ pc'[u] = pc[u]
            \/ u = j /\ pc'[u] = "top" /\ nGraph = 0
        BY <1>t, <3>1, <2>2 DEF Spawn, TypeOK, PhaseInv, Local
      <4>2. nGraph = 0 => pc[u] \notin AtBarrier
        BY ActiveFacts DEF PhaseInv, Local, AtBarrier, Computing, InBarrier
      <4> QED BY <2>2, <4>1, <4>2 DEF AtBarrier
    <3>2. CASE KickLock BY <1>t, <2>2, <3>2, GotoFacts DEF KickLock, AtBarrier
    <3>3. CASE Publish BY <1>t, <2>2, <3>3, GotoFacts DEF Publish, AtBarrier
    <3>4. CASE Wake BY <1>t, <2>2, <3>4 DEF Wake, AtBarrier
    <3>5. CASE Stop BY <1>t, <2>2, <3>5, GotoFacts DEF Stop, AtBarrier
    <3>6. CASE Join BY <3>6 DEF Join, local
    <3>7. CASE Return BY <1>t, <2>2, <3>7, GotoFacts DEF Return, AtBarrier
    <3> QED BY <1>2, <3>1, <3>2, <3>3, <3>4, <3>5, <3>6, <3>7 DEF MainStep
  <2> QED BY <2>1, <2>2, QuietBarrier
<1>3. ASSUME NEW t \in Thread, WorkerStep(t) PROVE BarrierInv'
  <2>1. UNCHANGED <<at, nPassed, passed, nBarrier>>
    BY <1>3 DEF WorkerStep, Top, Poll, Lock, Check, Sleep, barrier, pool
  <2>2. pc[t] \notin AtBarrier /\ pc'[t] \notin AtBarrier /\ \A u \in Thread \ {t} : pc'[u] = pc[u]
    BY <1>t, <1>3 DEF WorkerStep, Top, Poll, Lock, Check, Sleep, TakeGraph, Goto, TypeOK, AtBarrier
  <2> QED BY <2>1, <2>2, QuietBarrier
<1>4. ASSUME NEW t \in Thread, Work(t) \/ Chunk(t) PROVE BarrierInv'
  <2>1. UNCHANGED <<at, nPassed, passed, nBarrier>> BY <1>4 DEF Work, Chunk, barrier
  <2>2. pc[t] \notin AtBarrier /\ pc'[t] \notin AtBarrier /\ \A u \in Thread \ {t} : pc'[u] = pc[u]
    BY <1>t, <1>4 DEF Work, Chunk, Goto, TypeOK, AtBarrier
  <2> QED BY <2>1, <2>2, QuietBarrier
<1>5. ASSUME NEW t \in Thread, ComputeStep(t) PROVE BarrierInv'
  BY <1>4, <1>5, ArriveBarrier, EnterBarrier, ResetBarrier, AdvanceBarrier, SpinBarrier DEF ComputeStep
<1>6. ASSUME NEW t \in Thread, Mishap(t) PROVE BarrierInv'
  <2>1. UNCHANGED <<at, nPassed, passed, nBarrier>>
    BY <1>6 DEF Mishap, Abort, SpuriousWake, SpawnFails, barrier
  <2>2. pc'[t] = pc[t] \/ (pc[t] \notin AtBarrier /\ pc'[t] \notin AtBarrier)
    BY <1>t, <1>6 DEF Mishap, Abort, SpuriousWake, SpawnFails, Goto, TypeOK, AtBarrier
  <2>3. \A u \in Thread \ {t} : pc'[u] = pc[u]
    BY <1>t, <1>6 DEF Mishap, Abort, SpuriousWake, SpawnFails, Goto, TypeOK
  <2> QED BY <2>1, <2>2, <2>3, QuietBarrier
<1> QED BY <1>1, <1>2, <1>3, <1>5, <1>6 DEF Next

LEMMA InitBarrier == Init => BarrierInv
<1> SUFFICES ASSUME Init PROVE BarrierInv OBVIOUS
<1>1. Waiting = {} BY DEF Init, Waiting
<1>2. \A t \in Thread : pc[t] \notin AtBarrier /\ at[t] = First BY DEF Init, AtBarrier
<1>3. \A t \in Thread : Cur(t) = First BY <1>2 DEF Cur, Behind, AtBarrier
<1>4. nBarrier = Cardinality(Waiting) BY <1>1, FS_EmptySet DEF Init
<1> QED BY <1>2, <1>3, <1>4 DEF BarrierInv, Last, AtBarrier

-----------------------------------------------------------------------------
(* Passing the barrier.                                                    *)

Inv == PhaseInv /\ BarrierInv

LEMMA NextInv == Inv /\ [Next]_vars => Inv'
  BY NextPhase, NextBarrier DEF Inv

\* The step with which the barrier opens.
Pass(t) == Advance(t) \/ (Arrive(t) /\ Active = 1)

\* All threads pass together: up to the step all wait in one segment, and
\* after it all are, or are about to notice that they are, in the next.
LEMMA PassTogether ==
  ASSUME Inv, NEW t \in Thread, Pass(t)
  PROVE  /\ Leave(t) /\ UNCHANGED <<computed, wdata, nextChunk, outcome, stop, nGraph>>
         /\ \A u \in Thread : /\ at[u] = at[t] /\ Cur(u) = at[t] /\ pc[u] \in InBarrier /\ ~Behind(u)
                              /\ Cur(u)' = Succ(at[t])
                              /\ Behind(u)' \/ (u = t /\ pc'[u] \notin InBarrier /\ ~Behind(u)')
                              /\ u # t => pc'[u] = pc[u] /\ at'[u] = at[u]
<1>t. TypeOK /\ Leave(t) /\ UNCHANGED <<computed, wdata, nextChunk, outcome, stop, nGraph>>
  BY DEF Inv, PhaseInv, Pass, Advance, Arrive, data, pool
<1>1. /\ at'[t] = Succ(at[t]) /\ pc'[t] \notin InBarrier
      /\ \A u \in Thread \ {t} : pc'[u] = pc[u] /\ at'[u] = at[u]
  BY <1>t, LeaveFacts DEF InBarrier
<1>2. ~Behind(t)' BY <1>1 DEF Behind, InBarrier
<1>3. CASE Advance(t)
  <2>1. pc[t] = "advance" /\ passed \in Nat /\ passed' = passed + 1 /\ nPassed' = nPassed
    BY <1>t, <1>3 DEF Advance, TypeOK
  <2>2. \A u \in Thread \ {t} : pc[u] = "spin" /\ nPassed[u] = passed
    BY <2>1 DEF Inv, BarrierInv, Last, Waiting
  <2>3. \A u \in Thread \ {t} : ~Behind(u) /\ at[u] = at[t] /\ Behind(u)'
    BY <1>1, <2>1, <2>2 DEF Inv, BarrierInv, Cur, Behind
  <2>4. ~Behind(t) BY <2>1 DEF Behind
  <2> QED BY <1>t, <1>1, <1>2, <2>1, <2>2, <2>3, <2>4 DEF Cur, InBarrier
<1>4. CASE Arrive(t) /\ Active = 1
  <2>1. \A u \in Thread : u = t
    BY <1>4, ThreadFacts, ActiveFacts, SizeFacts
       DEF Inv, PhaseInv, Local, Arrive, Computing, InBarrier
  <2>2. ~Behind(t) /\ pc[t] = "arrive" BY <1>4 DEF Behind, Arrive
  <2> QED BY <1>t, <1>1, <1>2, <2>1, <2>2 DEF Cur, InBarrier
<1> QED BY <1>3, <1>4 DEF Pass

\* No other step takes a thread to another segment.
LEMMA CurStays ==
  ASSUME Inv, Steps, \A t \in Thread : ~Pass(t)
  PROVE  \A u \in Thread : Cur(u)' = Cur(u)
<1>t. TypeOK /\ Main \in Thread BY ThreadFacts DEF Inv, PhaseInv
<1>q. ASSUME UNCHANGED at, UNCHANGED nPassed, UNCHANGED passed,
             \A u \in Thread : pc'[u] = "spin" <=> pc[u] = "spin"
      PROVE  \A u \in Thread : Cur(u)' = Cur(u)
  BY <1>q DEF Cur, Behind
<1>1. CASE MainStep
  <2>1. UNCHANGED at /\ UNCHANGED nPassed /\ UNCHANGED passed
    BY <1>1 DEF MainStep, Spawn, KickLock, Publish, Wake, Stop, Join, Return, barrier, local
  <2>2. ASSUME NEW u \in Thread PROVE pc'[u] = "spin" <=> pc[u] = "spin"
    <3>1. CASE Spawn
      <4>1. nGraph = 0 /\ pc[u] # "spin"
        BY <1>t, <3>1, ActiveFacts DEF Spawn, Inv, PhaseInv, Local, Computing, InBarrier
      <4>2. pc'[u] \in {pc[u], "top"} BY <1>t, <3>1 DEF Spawn, TypeOK
      <4> QED BY <4>1, <4>2
    <3>2. CASE KickLock BY <1>t, <3>2, GotoFacts DEF KickLock
    <3>3. CASE Publish BY <1>t, <3>3, GotoFacts DEF Publish
    <3>4. CASE Wake BY <1>t, <3>4 DEF Wake
    <3>5. CASE Stop BY <1>t, <3>5, GotoFacts DEF Stop
    <3>6. CASE Join BY <3>6 DEF Join, local
    <3>7. CASE Return BY <1>t, <3>7, GotoFacts DEF Return
    <3> QED BY <1>1, <3>1, <3>2, <3>3, <3>4, <3>5, <3>6, <3>7 DEF MainStep
  <2> QED BY <1>q, <2>1, <2>2
<1>2. ASSUME NEW t \in Thread, WorkerStep(t) \/ Work(t) \/ Chunk(t) \/ Mishap(t) \/ Reset(t)
      PROVE  \A u \in Thread : Cur(u)' = Cur(u)
  <2>1. UNCHANGED at /\ UNCHANGED nPassed /\ UNCHANGED passed
    BY <1>2 DEF WorkerStep, Top, Poll, Lock, Check, Sleep, Work, Chunk, Mishap, Abort, SpuriousWake,
                SpawnFails, Reset, barrier, pool
  <2>2. pc'[t] = pc[t] \/ (pc[t] # "spin" /\ pc'[t] # "spin")
    BY <1>t, <1>2 DEF WorkerStep, Top, Poll, Lock, Check, Sleep, TakeGraph, Work, Chunk, Mishap, Abort,
                SpuriousWake, SpawnFails, Reset, Goto, TypeOK
  <2>3. \A u \in Thread \ {t} : pc'[u] = pc[u]
    BY <1>t, <1>2 DEF WorkerStep, Top, Poll, Lock, Check, Sleep, TakeGraph, Work, Chunk, Mishap, Abort,
                SpuriousWake, SpawnFails, Reset, Goto, TypeOK
  <2> QED BY <1>q, <2>1, <2>2, <2>3
<1>3. ASSUME NEW t \in Thread, Enter(t) PROVE \A u \in Thread : Cur(u)' = Cur(u)
  <2>1. UNCHANGED at /\ UNCHANGED nPassed /\ UNCHANGED passed BY <1>3 DEF Enter
  <2>2. \A u \in Thread \ {t} : pc'[u] = pc[u] BY <1>t, <1>3, GotoFacts DEF Enter
  <2>3. pc[t] = "enter" /\ nPassed[t] = passed BY <1>3 DEF Enter, Inv, BarrierInv
  <2> QED BY <2>1, <2>2, <2>3 DEF Cur, Behind
<1>4. ASSUME NEW t \in Thread, Arrive(t), Active # 1 PROVE \A u \in Thread : Cur(u)' = Cur(u)
  <2>1. UNCHANGED at /\ UNCHANGED passed /\ Goto(t, "enter") BY <1>4 DEF Arrive, barrier
  <2>2. pc[t] = "arrive" /\ pc'[t] = "enter" /\ \A u \in Thread \ {t} : pc'[u] = pc[u]
    BY <1>t, <1>4, <2>1, GotoFacts DEF Arrive
  <2>3. \A u \in Thread \ {t} : nPassed'[u] = nPassed[u] BY <1>t, <1>4 DEF Arrive, TypeOK
  <2> QED BY <2>1, <2>2, <2>3 DEF Cur, Behind
<1>5. ASSUME NEW t \in Thread, Spin(t) PROVE \A u \in Thread : Cur(u)' = Cur(u)
  <2>1. Behind(t) /\ UNCHANGED nPassed /\ UNCHANGED passed /\ Leave(t) BY <1>5 DEF Spin, Behind, barrier
  <2>2. at'[t] = Succ(at[t]) /\ pc'[t] # "spin" /\ \A u \in Thread \ {t} : pc'[u] = pc[u] /\ at'[u] = at[u]
    BY <1>t, <2>1, LeaveFacts
  <2> QED BY <2>1, <2>2 DEF Cur, Behind
<1> QED BY <1>1, <1>2, <1>3, <1>4, <1>5 DEF Steps, ComputeStep, Pass

-----------------------------------------------------------------------------
(* The work buffer holds the operand of the product being computed.        *)

\* A thread has converted its share and not left the segment.
Converted(t) == /\ pc[t] \in InBarrier /\ at[t].stage = "start" /\ IsProduct(at[t].node) /\ ~Behind(t)

ScratchInv ==
  /\ \A t, u \in Thread : Cur(t).stage = "chunks" => wdata[u] = Cur(t).node
  /\ \A t \in Thread : Converted(t) => wdata[t] = at[t].node

LEMMA ProductFacts ==
  \A s \in Segment : SegOK(s) /\ Succ(s).stage = "chunks" =>
     s.stage = "start" /\ IsProduct(s.node) /\ Succ(s).node = s.node
  BY SizeFacts DEF Segment, SegOK, Succ, Seg, Over, Stage, IsProduct

LEMMA PassScratch == ASSUME Inv, ScratchInv, NEW t \in Thread, Pass(t) PROVE ScratchInv'
<1>1. /\ UNCHANGED wdata
      /\ \A u \in Thread : /\ at[u] = at[t] /\ pc[u] \in InBarrier /\ ~Behind(u) /\ Cur(u)' = Succ(at[t])
                           /\ ~Converted(u)'
  BY PassTogether DEF Converted
<1>2. at[t] \in Segment /\ SegOK(at[t]) BY DEF Inv, PhaseInv, TypeOK, Local
<1>3. ASSUME Succ(at[t]).stage = "chunks", NEW u \in Thread PROVE wdata[u] = Succ(at[t]).node
  BY <1>1, <1>2, <1>3, ProductFacts DEF ScratchInv, Converted
<1> QED BY <1>1, <1>3 DEF ScratchInv

\* A step that converts nothing and passes no barrier.
LEMMA QuietScratch ==
  ASSUME ScratchInv, UNCHANGED wdata, \A u \in Thread : Cur(u)' = Cur(u),
         \A u \in Thread : Converted(u)' => Converted(u) /\ at'[u] = at[u]
  PROVE  ScratchInv'
  BY DEF ScratchInv

LEMMA StayConverted ==
  ASSUME Inv, Steps, \A t \in Thread : ~Pass(t) /\ ~Work(t)
  PROVE  UNCHANGED wdata /\ \A u \in Thread : Converted(u)' => Converted(u) /\ at'[u] = at[u]
<1>t. TypeOK /\ Main \in Thread BY ThreadFacts DEF Inv, PhaseInv
<1>q. ASSUME NEW u \in Thread, at'[u] = at[u], pc'[u] \in InBarrier => pc[u] \in InBarrier,
             ~Behind(u)' => ~Behind(u)
      PROVE  Converted(u)' => Converted(u) /\ at'[u] = at[u]
  BY <1>q DEF Converted
<1>1. CASE MainStep
  <2>1. UNCHANGED at /\ UNCHANGED nPassed /\ UNCHANGED passed /\ UNCHANGED wdata
    BY <1>1 DEF MainStep, Spawn, KickLock, Publish, Wake, Stop, Join, Return, barrier, local, data
  <2>2. ASSUME NEW u \in Thread PROVE pc'[u] = pc[u] \/ (pc'[u] \notin InBarrier /\ pc[u] # "spin")
    <3>1. CASE Spawn
      <4>1. nGraph = 0 /\ pc[u] # "spin"
        BY <1>t, <3>1, ActiveFacts DEF Spawn, Inv, PhaseInv, Local, Computing, InBarrier
      <4>2. pc'[u] \in {pc[u], "top"} BY <1>t, <3>1 DEF Spawn, TypeOK
      <4> QED BY <4>1, <4>2 DEF InBarrier
    <3>2. CASE KickLock BY <1>t, <3>2, GotoFacts DEF KickLock, InBarrier
    <3>3. CASE Publish BY <1>t, <3>3, GotoFacts DEF Publish, InBarrier
    <3>4. CASE Wake BY <1>t, <3>4 DEF Wake, InBarrier
    <3>5. CASE Stop BY <1>t, <3>5, GotoFacts DEF Stop, InBarrier
    <3>6. CASE Join BY <3>6 DEF Join, local
    <3>7. CASE Return BY <1>t, <3>7, GotoFacts DEF Return, InBarrier
    <3> QED BY <1>1, <3>1, <3>2, <3>3, <3>4, <3>5, <3>6, <3>7 DEF MainStep
  <2> QED BY <2>1, <2>2, <1>q DEF Behind, InBarrier
<1>2. ASSUME NEW t \in Thread, WorkerStep(t) \/ Mishap(t)
      PROVE  UNCHANGED wdata /\ \A u \in Thread : Converted(u)' => Converted(u) /\ at'[u] = at[u]
  <2>1. UNCHANGED at /\ UNCHANGED nPassed /\ UNCHANGED passed /\ UNCHANGED wdata
    BY <1>2 DEF WorkerStep, Top, Poll, Lock, Check, Sleep, Mishap, Abort, SpuriousWake,
                SpawnFails, barrier, pool, data
  <2>2. pc'[t] = pc[t] \/ (pc[t] \notin InBarrier /\ pc'[t] \notin InBarrier)
    BY <1>t, <1>2 DEF WorkerStep, Top, Poll, Lock, Check, Sleep, TakeGraph, Mishap, Abort,
                SpuriousWake, SpawnFails, Goto, TypeOK, InBarrier
  <2>3. \A u \in Thread \ {t} : pc'[u] = pc[u]
    BY <1>t, <1>2 DEF WorkerStep, Top, Poll, Lock, Check, Sleep, TakeGraph, Mishap, Abort,
                SpuriousWake, SpawnFails, Goto, TypeOK
  <2> QED BY <2>1, <2>2, <2>3, <1>q DEF Behind, InBarrier
<1>3. ASSUME NEW t \in Thread, Chunk(t) \/ Enter(t) \/ Reset(t)
      PROVE  UNCHANGED wdata /\ \A u \in Thread : Converted(u)' => Converted(u) /\ at'[u] = at[u]
  <2>1. UNCHANGED at /\ UNCHANGED nPassed /\ UNCHANGED passed /\ UNCHANGED wdata
    BY <1>3 DEF Chunk, Enter, Reset, barrier, data
  <2>2. pc[t] = "chunk" \/ (pc[t] \in InBarrier /\ pc[t] # "spin")
    BY <1>3 DEF Chunk, Enter, Reset, InBarrier
  <2>3. \A u \in Thread \ {t} : pc'[u] = pc[u]
    BY <1>t, <1>3 DEF Chunk, Enter, Reset, Goto, TypeOK
  <2>4. pc[t] = "chunk" => at[t].stage # "start" BY DEF Inv, PhaseInv, Local
  <2> QED BY <2>1, <2>2, <2>3, <2>4, <1>q DEF Behind, Converted
<1>4. ASSUME NEW t \in Thread, Arrive(t), Active # 1
      PROVE  UNCHANGED wdata /\ \A u \in Thread : Converted(u)' => Converted(u) /\ at'[u] = at[u]
  <2>1. UNCHANGED at /\ UNCHANGED passed /\ UNCHANGED wdata /\ Goto(t, "enter") /\ pc[t] = "arrive"
    BY <1>4 DEF Arrive, barrier, data
  <2>2. \A u \in Thread \ {t} : pc'[u] = pc[u] /\ nPassed'[u] = nPassed[u]
    BY <1>t, <1>4, <2>1, GotoFacts DEF Arrive, TypeOK
  <2> QED BY <2>1, <2>2, <1>q DEF Behind, InBarrier
<1>5. ASSUME NEW t \in Thread, Spin(t)
      PROVE  UNCHANGED wdata /\ \A u \in Thread : Converted(u)' => Converted(u) /\ at'[u] = at[u]
  <2>1. UNCHANGED nPassed /\ UNCHANGED passed /\ UNCHANGED wdata /\ Leave(t) BY <1>5 DEF Spin, barrier, data
  <2>2. pc'[t] \notin InBarrier /\ \A u \in Thread \ {t} : pc'[u] = pc[u] /\ at'[u] = at[u]
    BY <1>t, <2>1, LeaveFacts DEF InBarrier
  <2>3. ~Converted(t)' BY <2>2 DEF Converted
  <2> QED BY <2>1, <2>2, <2>3, <1>q DEF Behind
<1> QED BY <1>1, <1>2, <1>3, <1>4, <1>5 DEF Steps, ComputeStep, Pass

LEMMA WorkScratch == ASSUME Inv, ScratchInv, NEW t \in Thread, Work(t) PROVE ScratchInv'
<1>1. /\ TypeOK /\ pc[t] = "work" /\ at[t].stage = "start" /\ Cur(t) = at[t]
  BY DEF Work, Inv, PhaseInv, Local, Cur, Behind
<1>2. \A u \in Thread : Cur(u)' = Cur(u)
  <2>1. \A u \in Thread : ~Pass(u)
    BY <1>1, PassTogether DEF InBarrier
  <2> QED BY <2>1, CurStays DEF Steps, ComputeStep
<1>3. \A u \in Thread : Cur(u).stage = "start" BY <1>1 DEF Inv, BarrierInv
<1>4. /\ IsProduct(at[t].node) => wdata'[t] = at[t].node
      /\ \A u \in Thread \ {t} : wdata'[u] = wdata[u] /\ pc'[u] = pc[u]
      /\ UNCHANGED <<at, nPassed, passed>>
  BY <1>1, GotoFacts DEF Work, TypeOK, barrier
<1>5. \A u \in Thread \ {t} : Converted(u)' => Converted(u) BY <1>4 DEF Converted, Behind
<1> QED BY <1>2, <1>3, <1>4, <1>5 DEF ScratchInv, Converted

LEMMA NextScratch == Inv /\ ScratchInv /\ [Next]_vars => ScratchInv'
<1> SUFFICES ASSUME Inv, ScratchInv, [Next]_vars PROVE ScratchInv' OBVIOUS
<1>1. CASE UNCHANGED vars
  BY <1>1 DEF ScratchInv, Converted, Cur, Behind, vars, local, barrier, data
<1>2. ASSUME NEW t \in Thread, Pass(t) \/ Work(t) PROVE ScratchInv' BY <1>2, PassScratch, WorkScratch
<1>3. CASE Steps /\ \A t \in Thread : ~Pass(t) /\ ~Work(t) BY <1>3, CurStays, StayConverted, QuietScratch
<1> QED BY <1>1, <1>2, <1>3 DEF Next, Steps

LEMMA InitScratch == Init => ScratchInv
<1> SUFFICES ASSUME Init PROVE ScratchInv OBVIOUS
<1>1. \A t \in Thread : pc[t] \notin InBarrier /\ at[t] = First BY DEF Init, InBarrier
<1> QED BY <1>1, SegFacts DEF ScratchInv, Converted, Cur, Behind, InBarrier

(* Whatever the number of threads and whatever the graph, no thread        *)
(* computes a chunk before every thread has converted its share of the     *)
(* operand, or after one began to convert that of the next product.        *)
THEOREM BufferWhole == Spec => []ScratchIsWhole
<1>1. Init => Inv /\ ScratchInv BY InitPhase, InitBarrier, InitScratch DEF Inv
<1>2. Inv /\ ScratchInv /\ [Next]_vars => (Inv /\ ScratchInv)' BY NextInv, NextScratch
<1>3. Inv /\ ScratchInv => ScratchIsWhole
  BY DEF Inv, PhaseInv, Local, ScratchInv, ScratchIsWhole, Cur, Behind
<1> QED BY <1>1, <1>2, <1>3, PTL DEF Spec

-----------------------------------------------------------------------------
(* The pool implements the service.                                        *)

\* A call that is over is over on R's thread; with a result, everywhere.
OutcomeInv == outcome \in {"done", "error"} =>
                pc[Main] = "left" /\ (outcome = "done" => at[Main] = Over)

LEMMA NextOutcome == Inv /\ OutcomeInv /\ [Next]_vars => OutcomeInv'
<1> SUFFICES ASSUME Inv, OutcomeInv, [Next]_vars PROVE OutcomeInv' OBVIOUS
<1>t. TypeOK /\ Main \in Thread /\ Local(Main) BY ThreadFacts DEF Inv, PhaseInv
<1>1. CASE UNCHANGED vars BY <1>1 DEF OutcomeInv, vars, local
<1>2. CASE Return
  BY <1>2, <1>t, GotoFacts DEF Return, OutcomeInv, Local
<1>3. CASE SpawnFails \/ \E t \in Thread : Abort(t)
  BY <1>3, <1>t, GotoFacts DEF SpawnFails, Abort, OutcomeInv
<1>4. CASE Spawn \/ KickLock \/ Publish \/ Wake \/ Stop \/ Join
  <2>1. outcome' = outcome /\ (pc[Main] # "left")
    BY <1>4 DEF Spawn, KickLock, Publish, Wake, Stop, Join
  <2> QED BY <2>1 DEF OutcomeInv
<1>5. ASSUME NEW t \in Thread, WorkerStep(t) \/ ComputeStep(t) \/ SpuriousWake(t) PROVE OutcomeInv'
  <2>1. outcome' = outcome /\ pc[t] # "left"
    BY <1>5 DEF WorkerStep, Top, Poll, Lock, Check, Sleep, SpuriousWake, ComputeStep, Work, Chunk,
                Arrive, Enter, Reset, Advance, Spin
  <2>2. CASE t = Main BY <2>1, <2>2 DEF OutcomeInv
  <2>3. CASE t # Main
    <3>1. pc'[Main] = pc[Main] /\ at'[Main] = at[Main]
      BY <1>5, <1>t, <2>3, LeaveFacts, GotoFacts
         DEF WorkerStep, Top, Poll, Lock, Check, Sleep, TakeGraph, SpuriousWake, ComputeStep, Work, Chunk,
             Arrive, Enter, Reset, Advance, Spin
    <3> QED BY <2>1, <3>1 DEF OutcomeInv
  <2> QED BY <2>2, <2>3
<1> QED BY <1>1, <1>2, <1>3, <1>4, <1>5 DEF Next, MainStep, Mishap

\* The nodes finished by a thread in segment s before and after its share.
Before(s) == IF s.node > Len(Chunks) THEN Len(Chunks) ELSE s.node - 1
After(s) == IF s.node > Len(Chunks) THEN Len(Chunks)
            ELSE IF Succ(s).node = s.node THEN s.node - 1 ELSE s.node

LEMMA FinishedIs ==
  \A t \in Thread : /\ pc[t] \in InBarrier => Finished(t) = After(at[t])
                    /\ pc[t] \notin InBarrier => Finished(t) = Before(at[t])
  BY DEF Finished, Before, After, InBarrier

LEMMA DoneFacts ==
  ASSUME NEW s \in Segment, SegOK(s)
  PROVE  /\ Before(Succ(s)) = After(s)
         /\ After(s) \in {Before(s), Before(s) + 1}
         /\ Before(s) \in Nat /\ After(s) \in Nat
         /\ After(s) <= Len(Chunks) /\ Before(s) <= Len(Chunks)
         /\ Succ(s) = Over => After(s) = Len(Chunks)
         /\ Before(Over) = Len(Chunks)
  BY SizeFacts DEF Segment, SegOK, Succ, Seg, Over, Stage, IsProduct, Before, After

LEMMA FinishedType ==
  ASSUME Inv, NEW u \in Thread PROVE Finished(u) \in Nat /\ Finished(u) <= Len(Chunks)
<1>1. at[u] \in Segment /\ SegOK(at[u]) BY DEF Inv, PhaseInv, Local, TypeOK
<1>2. /\ Before(at[u]) \in Nat /\ Before(at[u]) <= Len(Chunks)
      /\ After(at[u]) \in Nat /\ After(at[u]) <= Len(Chunks)
  BY <1>1, DoneFacts
<1>3. Finished(u) = After(at[u]) \/ Finished(u) = Before(at[u]) BY FinishedIs
<1> QED BY <1>2, <1>3

\* The step of a thread that stays in its segment and arrives nowhere.
LEMMA NothingFinished ==
  ASSUME UNCHANGED at, \A u \in Thread : pc'[u] \in InBarrier <=> pc[u] \in InBarrier
  PROVE  \A u \in Thread : Finished(u)' = Finished(u)
  BY DEF Finished, InBarrier

LEMMA LeaveFinishes ==
  ASSUME Inv, NEW t \in Thread, Leave(t), pc[t] \in InBarrier
  PROVE  \A u \in Thread : Finished(u)' = Finished(u)
<1>1. TypeOK /\ at[t] \in Segment /\ SegOK(at[t]) BY DEF Inv, PhaseInv, Local, TypeOK
<1>2. /\ at'[t] = Succ(at[t]) /\ pc'[t] \notin InBarrier
      /\ \A u \in Thread \ {t} : pc'[u] = pc[u] /\ at'[u] = at[u]
  BY <1>1, LeaveFacts DEF InBarrier
<1>3. Finished(t)' = Finished(t)
  <2>1. Finished(t) = After(at[t]) BY FinishedIs
  <2>2. Finished(t)' = Before(Succ(at[t])) BY <1>2 DEF Finished, Before, After, InBarrier
  <2> QED BY <1>1, <2>1, <2>2, DoneFacts
<1> QED BY <1>2, <1>3 DEF Finished

\* No thread is further behind than the node being computed.
LEMMA OthersFinished ==
  ASSUME Inv, NEW t \in Thread, ~Behind(t), NEW u \in Thread
  PROVE  Finished(u) >= Before(at[t])
<1>1. /\ TypeOK /\ at[u] \in Segment /\ SegOK(at[u]) /\ Cur(t) = at[t] /\ Cur(u) = at[t]
      /\ at[t] \in Segment /\ SegOK(at[t])
  BY DEF Inv, PhaseInv, Local, TypeOK, BarrierInv, Cur
<1>2. /\ Before(at[t]) \in Nat /\ After(at[t]) \in Nat /\ After(at[t]) >= Before(at[t])
      /\ Before(Succ(at[u])) = After(at[u])
  BY <1>1, DoneFacts
<1>3. CASE Behind(u)
  <2>1. Succ(at[u]) = at[t] /\ pc[u] \in InBarrier BY <1>1, <1>3 DEF Cur, Behind, InBarrier
  <2>2. Finished(u) = After(at[u]) BY <2>1, FinishedIs
  <2> QED BY <1>2, <2>1, <2>2
<1>4. CASE ~Behind(u)
  <2>1. at[u] = at[t] BY <1>1, <1>4 DEF Cur
  <2>2. CASE pc[u] \in InBarrier
    <3>1. Finished(u) = After(at[t]) BY <2>1, <2>2, FinishedIs
    <3> QED BY <1>2, <3>1
  <2>3. CASE pc[u] \notin InBarrier
    <3>1. Finished(u) = Before(at[t]) BY <2>1, <2>3, FinishedIs
    <3> QED BY <1>2, <3>1
  <2> QED BY <2>2, <2>3
<1> QED BY <1>3, <1>4

Map == [t \in Thread |-> Finished(t)]

LEMMA SameMap == ASSUME \A u \in Thread : Finished(u)' = Finished(u) PROVE Map' = Map
  BY DEF Map

\* A share done: of the last segment of a node, or of one before it.
LEMMA ShareRefines ==
  ASSUME Inv, OutcomeInv, outcome # "crashed", NEW t \in Thread, Work(t) \/ Chunk(t)
  PROVE  Service!Finish(t) \/ (Map' = Map /\ outcome' = outcome)
<1>1. /\ TypeOK /\ UNCHANGED at /\ outcome' = outcome /\ pc[t] \in {"work", "chunk"}
      /\ pc'[t] \in {"chunk", "arrive"} /\ \A u \in Thread \ {t} : pc'[u] = pc[u]
  BY GotoFacts DEF Inv, PhaseInv, Work, Chunk
<1>2. /\ at[t] \in Segment /\ SegOK(at[t]) /\ at[t] # Over /\ ~Behind(t) /\ Cur(t) = at[t]
  BY <1>1 DEF Inv, PhaseInv, Local, Computing, TypeOK, Behind, Cur
<1>3. outcome \in {"running", "error"}
  <2>1. SUFFICES ASSUME outcome = "done" PROVE FALSE BY <1>1 DEF TypeOK
  <2>2. pc[Main] = "left" /\ at[Main] = Over BY <2>1 DEF OutcomeInv
  <2>3. Cur(Main) = Over /\ Main \in Thread BY <2>2, ThreadFacts DEF Cur, Behind
  <2> QED BY <1>2, <2>3 DEF Inv, BarrierInv
<1>4. \A u \in Thread \ {t} : Finished(u)' = Finished(u) BY <1>1 DEF Finished
<1>5. Finished(t) = Before(at[t]) BY <1>1 DEF Finished, Before, After
<1>6. CASE Finished(t)' = Finished(t) BY <1>1, <1>4, <1>6, SameMap
<1>7. CASE Finished(t)' # Finished(t)
  <2>1. pc'[t] \in InBarrier BY <1>1, <1>7 DEF Finished, InBarrier
  <2>2. Finished(t)' = After(at[t]) BY <1>1, <2>1 DEF Finished, Before, After, InBarrier
  <2>3. /\ Before(at[t]) \in Nat /\ After(at[t]) <= Len(Chunks)
        /\ After(at[t]) = Before(at[t]) \/ After(at[t]) = Before(at[t]) + 1
    BY <1>2, DoneFacts
  <2>3a. Finished(t)' = Finished(t) + 1 /\ Finished(t) \in Nat /\ Finished(t) < Len(Chunks)
    BY <1>5, <1>7, <2>2, <2>3, SizeFacts
  <2>4. \A u \in Thread : Finished(u) >= Finished(t) BY <1>2, <1>5, OthersFinished
  <2>5. Map' = [Map EXCEPT ![t] = @ + 1] BY <1>4, <2>3a DEF Map
  <2> QED BY <1>1, <1>3, <2>3a, <2>4, <2>5 DEF Service!Finish, Map
<1> QED BY <1>6, <1>7

LEMMA ReturnRefines == ASSUME Inv, OutcomeInv, outcome # "crashed", Return PROVE Service!Return
<1>1. /\ TypeOK /\ Main \in Thread /\ pc[Main] = "join" /\ at[Main] = Over /\ ~Behind(Main)
  BY ThreadFacts DEF Return, Inv, PhaseInv, Local, Behind
<1>2. outcome = "running" /\ outcome' = "done" BY <1>1 DEF OutcomeInv, TypeOK, Return
<1>3. \A u \in Thread : Finished(u) = Len(Chunks)
  <2> TAKE u \in Thread
  <2>1. at[u] \in Segment /\ SegOK(at[u]) /\ SegOK(Over) /\ Over \in Segment
    BY <1>1 DEF Inv, PhaseInv, Local, TypeOK
  <2>2. Finished(u) >= Len(Chunks) BY <1>1, <2>1, OthersFinished, DoneFacts
  <2>3. Finished(u) \in Nat /\ Finished(u) <= Len(Chunks) BY FinishedType
  <2> QED BY <2>2, <2>3, SizeFacts
<1>4. \A u \in Thread : Finished(u)' = Finished(u)
  <2>1. UNCHANGED at BY DEF Return
  <2>2. \A u \in Thread : pc'[u] \in InBarrier <=> pc[u] \in InBarrier
    BY <1>1, GotoFacts DEF Return, InBarrier
  <2> QED BY <2>1, <2>2, NothingFinished
<1>5. Map' = Map BY <1>4, SameMap
<1> QED BY <1>2, <1>3, <1>5 DEF Service!Return, Map

LEMMA FailRefines ==
  ASSUME Inv, OutcomeInv, outcome # "crashed", SpawnFails \/ \E t \in Thread : Abort(t)
  PROVE  Service!Fail \/ Service!Crash
<1>1. TypeOK /\ Main \in Thread BY ThreadFacts DEF Inv, PhaseInv
<1>2. \A u \in Thread : Finished(u)' = Finished(u)
  <2>1. UNCHANGED at BY DEF SpawnFails, Abort
  <2>2. \A u \in Thread : pc'[u] \in InBarrier <=> pc[u] \in InBarrier
    BY <1>1, GotoFacts DEF SpawnFails, Abort, InBarrier
  <2> QED BY <2>1, <2>2, NothingFinished
<1>3. Map' = Map BY <1>2, SameMap
<1>4. \/ outcome' = "crashed"
      \/ outcome' = "error" /\ pc[Main] # "left"
  BY DEF SpawnFails, Abort
<1>5. CASE outcome' = "crashed" BY <1>3, <1>5 DEF Service!Crash, Map
<1>6. CASE outcome' = "error" /\ pc[Main] # "left"
  <2>1. outcome = "running" BY <1>1, <1>6 DEF OutcomeInv, TypeOK
  <2> QED BY <1>3, <1>6, <2>1 DEF Service!Fail, Map
<1> QED BY <1>4, <1>5, <1>6

LEMMA NextRefines ==
  ASSUME Inv, OutcomeInv, [Next]_vars PROVE [Service!GNext]_(Service!gvars)
<1>t. TypeOK /\ Main \in Thread BY ThreadFacts DEF Inv, PhaseInv
<1>q. ASSUME UNCHANGED outcome, \A u \in Thread : Finished(u)' = Finished(u)
      PROVE  UNCHANGED (Service!gvars)
  BY <1>q, SameMap DEF Service!gvars, Map
<1>1. CASE UNCHANGED vars BY <1>1, <1>q DEF vars, local, Finished
<1>2. ASSUME Alive, NEW t \in Thread, Work(t) \/ Chunk(t) PROVE [Service!GNext]_(Service!gvars)
  <2>1. CASE Service!Finish(t) BY <2>1 DEF Service!GNext
  <2>2. CASE Map' = Map /\ outcome' = outcome BY <2>2 DEF Service!gvars, Map
  <2> QED BY <1>2, <2>1, <2>2, ShareRefines DEF Alive
<1>3. CASE Alive /\ Return BY <1>3, ReturnRefines DEF Service!GNext, Alive
<1>4. CASE Alive /\ (SpawnFails \/ \E t \in Thread : Abort(t))
  BY <1>4, FailRefines DEF Service!GNext, Alive
<1>5. ASSUME NEW t \in Thread, Spin(t) \/ Advance(t) \/ (Arrive(t) /\ Active = 1)
      PROVE  UNCHANGED (Service!gvars)
  <2>1. Leave(t) /\ UNCHANGED outcome /\ pc[t] \in InBarrier
    BY <1>5 DEF Spin, Advance, Arrive, InBarrier
  <2> QED BY <1>q, <2>1, LeaveFinishes
<1>6. ASSUME NEW t \in Thread, WorkerStep(t) \/ SpuriousWake(t) \/ Enter(t) \/ Reset(t) \/ (Arrive(t) /\ Active # 1)
      PROVE  UNCHANGED (Service!gvars)
  <2>1. UNCHANGED at /\ UNCHANGED outcome
    BY <1>6 DEF WorkerStep, Top, Poll, Lock, Check, Sleep, SpuriousWake, Enter, Reset, Arrive
  <2>2. pc'[t] \in InBarrier <=> pc[t] \in InBarrier
    BY <1>6, <1>t, GotoFacts DEF WorkerStep, Top, Poll, Lock, Check, Sleep, SpuriousWake, Enter, Reset,
                                 Arrive, TakeGraph, InBarrier
  <2>3. \A u \in Thread \ {t} : pc'[u] = pc[u]
    BY <1>6, <1>t, GotoFacts DEF WorkerStep, Top, Poll, Lock, Check, Sleep, SpuriousWake, Enter, Reset,
                                 Arrive, TakeGraph
  <2> QED BY <1>q, <2>1, <2>2, <2>3, NothingFinished
<1>7. CASE Spawn \/ KickLock \/ Publish \/ Wake \/ Stop \/ Join
  <2>1. UNCHANGED at /\ UNCHANGED outcome
    BY <1>7 DEF Spawn, KickLock, Publish, Wake, Stop, Join, local
  <2>2. ASSUME NEW u \in Thread PROVE pc'[u] \in InBarrier <=> pc[u] \in InBarrier
    <3>1. CASE Spawn
      <4>1. pc[u] \notin InBarrier
        BY <1>t, <3>1, ActiveFacts DEF Spawn, Inv, PhaseInv, Local, Computing
      <4>2. pc'[u] \in {pc[u], "top"} BY <1>t, <3>1 DEF Spawn, TypeOK
      <4> QED BY <4>1, <4>2 DEF InBarrier
    <3>2. CASE KickLock BY <1>t, <3>2, GotoFacts DEF KickLock, InBarrier
    <3>3. CASE Publish BY <1>t, <3>3, GotoFacts DEF Publish, InBarrier
    <3>4. CASE Wake BY <1>t, <3>4 DEF Wake, InBarrier
    <3>5. CASE Stop BY <1>t, <3>5, GotoFacts DEF Stop, InBarrier
    <3>6. CASE Join BY <3>6 DEF Join, local
    <3> QED BY <1>7, <3>1, <3>2, <3>3, <3>4, <3>5, <3>6
  <2> QED BY <1>q, <2>1, <2>2, NothingFinished
<1> QED BY <1>1, <1>2, <1>3, <1>4, <1>5, <1>6, <1>7 DEF Next, MainStep, ComputeStep, Mishap

LEMMA InitRefines == Init => Service!GInit
<1> SUFFICES ASSUME Init PROVE Service!GInit OBVIOUS
<1>1. \A t \in Thread : pc[t] \notin InBarrier /\ at[t] = First BY DEF Init, InBarrier
<1>2. ASSUME NEW t \in Thread PROVE Finished(t) = 0
  <2>1. Finished(t) = Before(First) BY <1>1, FinishedIs
  <2>2. First.node = 1 BY DEF First, Seg
  <2>3. Before(First) = 0 BY <2>2, SizeFacts DEF Before
  <2> QED BY <2>1, <2>3
<1> QED BY <1>2 DEF Init, Service!GInit

(* The pool, with its polling, sleeping, waking, barriers and chunks, does *)
(* what the service promises: no thread finishes a share of a node before  *)
(* all shares of the nodes before it, and a call that returns a result has *)
(* computed the whole graph.                                               *)
THEOREM PoolImplementsGraph == Spec => ImplementsGraph
<1>1. Init => Inv /\ OutcomeInv /\ Service!GInit
  BY InitPhase, InitBarrier, InitRefines DEF Inv, Init, OutcomeInv
<1>2. Inv /\ OutcomeInv /\ [Next]_vars => (Inv /\ OutcomeInv)' BY NextInv, NextOutcome
<1>3. Inv /\ OutcomeInv /\ [Next]_vars => [Service!GNext]_(Service!gvars) BY NextRefines
<1> QED BY <1>1, <1>2, <1>3, PTL DEF Spec, ImplementsGraph, Service!GSpec

-----------------------------------------------------------------------------
(* The chunks of a product.  A thread is busy when it has a chunk in hand: *)
(* the one of its rank, which a thread about to notice that the operand is *)
(* whole is going to take, or one that it drew from the counter.           *)

ChunkOf(n) == 0..(Chunks[n] - 1)
Busy(t) == Behind(t) \/ pc[t] \in {"chunk", "left"}
Hand(t) == IF Behind(t) THEN t ELSE myChunk[t]

\* The counter is set for the product before anyone draws from it.
CounterSet == Converted(Main) => nextChunk = NThreads

CountType == /\ DOMAIN computed = DOMAIN Chunks
             /\ \A n \in DOMAIN Chunks : DOMAIN computed[n] = ChunkOf(n)

\* Products still to come, and products behind.
OtherCounts ==
  \A n \in DOMAIN Chunks : \A c \in ChunkOf(n) :
    /\ Cur(Main).node < n \/ Cur(Main) = Seg(n, "start") => computed[n][c] = 0
    /\ Cur(Main).node > n => computed[n][c] = 1

\* The product in the making, n.
Drawn(n) == /\ nextChunk >= NThreads
            /\ \A t \in Thread : Busy(t) => Hand(t) < nextChunk /\ Hand(t) \in ChunkOf(n)
            /\ \A t, u \in Thread : Busy(t) /\ Busy(u) /\ t # u => Hand(t) # Hand(u)
            /\ \A t \in Thread : ~Busy(t) => nextChunk >= Chunks[n]
            /\ \A c \in ChunkOf(n) : /\ c >= nextChunk \/ (\E t \in Thread : Busy(t) /\ Hand(t) = c)
                                          => computed[n][c] = 0
                                     /\ c < nextChunk /\ (\A t \in Thread : Busy(t) => Hand(t) # c)
                                          => computed[n][c] = 1

CountInv == /\ CounterSet /\ CountType /\ OtherCounts
            /\ \A n \in DOMAIN Chunks : Cur(Main) = Seg(n, "chunks") => Drawn(n)

LEMMA ProductSizes ==
  \A n \in DOMAIN Chunks : /\ n \in Nat \ {0} /\ n <= Len(Chunks) /\ Chunks[n] \in Nat
                           /\ IsProduct(n) <=> Chunks[n] > 0
                           /\ IsProduct(n) => Chunks[n] >= NThreads
                           /\ \A c \in ChunkOf(n) : c \in Nat /\ c < Chunks[n] /\ IsProduct(n)
                           /\ \A c \in Nat : c < Chunks[n] => c \in ChunkOf(n)
  BY PoolAssumption DEF IsProduct, ChunkOf

\* A step that counts nothing, passes no barrier and leaves the chunks in
\* hand alone, at least while a product is in the making.
LEMMA QuietCount ==
  ASSUME CountInv, UNCHANGED <<computed, nextChunk>>, \A u \in Thread : Cur(u)' = Cur(u),
         Converted(Main)' => Converted(Main),
         Cur(Main).stage = "chunks" =>
            \A u \in Thread : (Busy(u)' <=> Busy(u)) /\ (Busy(u) => Hand(u)' = Hand(u))
  PROVE  CountInv'
<1>1. Main \in Thread /\ Cur(Main)' = Cur(Main) BY ThreadFacts
<1>2. CounterSet' BY DEF CountInv, CounterSet
<1>3. CountType' /\ OtherCounts' BY <1>1 DEF CountInv, CountType, OtherCounts, ChunkOf
<1>4. ASSUME NEW n \in DOMAIN Chunks, Cur(Main) = Seg(n, "chunks") PROVE Drawn(n)'
  <2>1. Drawn(n) BY <1>4 DEF CountInv
  <2>2. \A u \in Thread : (Busy(u)' <=> Busy(u)) /\ (Busy(u) => Hand(u)' = Hand(u)) BY <1>4 DEF Seg
  <2>3. UNCHANGED computed /\ UNCHANGED nextChunk OBVIOUS
  <2> QED BY <2>1, <2>2, <2>3 DEF Drawn, ChunkOf
<1> QED BY <1>1, <1>2, <1>3, <1>4 DEF CountInv

LEMMA ChunkCount == ASSUME Inv, CountInv, NEW t \in Thread, Chunk(t) PROVE CountInv'
<1>1. /\ TypeOK /\ pc[t] = "chunk" /\ at[t].stage = "chunks" /\ Cur(t) = at[t] /\ ~Behind(t)
      /\ IsProduct(at[t].node) /\ at[t] = Seg(at[t].node, "chunks") /\ myChunk[t] \in Nat /\ nextChunk \in Nat
  BY DEF Inv, PhaseInv, TypeOK, Local, SegOK, Chunk, Cur, Behind, Segment, Seg
<1>n. PICK n \in DOMAIN Chunks : n = at[t].node /\ IsProduct(n) /\ at[t] = Seg(n, "chunks") BY <1>1 DEF IsProduct
<1>m. PICK m \in Nat : m = myChunk[t] BY <1>1
<1>d. PICK last \in BOOLEAN : last <=> NThreads >= Chunks[n] OBVIOUS
<1>2. /\ Cur(Main) = at[t] /\ Main \in Thread /\ \A u \in Thread : Cur(u) = at[t] /\ Cur(u)' = at[t]
  <2>1. \A u \in Thread : ~Pass(u) BY <1>1, PassTogether DEF InBarrier
  <2>2. \A u \in Thread : Cur(u)' = Cur(u) BY <2>1, CurStays DEF Steps, ComputeStep
  <2> QED BY <1>1, <2>2, ThreadFacts DEF Inv, BarrierInv
<1>3. /\ UNCHANGED at /\ UNCHANGED nPassed /\ UNCHANGED passed
      /\ computed' = [computed EXCEPT ![n][m] = @ + 1]
      /\ last => nextChunk' = nextChunk /\ pc'[t] = "arrive" /\ myChunk' = myChunk
      /\ ~last => /\ nextChunk' = nextChunk + 1 /\ myChunk'[t] = nextChunk
                  /\ pc'[t] = IF nextChunk < Chunks[n] THEN "chunk" ELSE "arrive"
      /\ \A u \in Thread \ {t} : pc'[u] = pc[u] /\ myChunk'[u] = myChunk[u]
  BY <1>1, <1>n, <1>m, <1>d, GotoFacts DEF Chunk, TypeOK, barrier
<1>4. Drawn(n) /\ CountType /\ OtherCounts BY <1>n, <1>2 DEF CountInv
<1>5. Busy(t) /\ Hand(t) = m BY <1>1, <1>m DEF Busy, Hand
<1>6. m < nextChunk /\ m \in ChunkOf(n) /\ computed[n][m] = 0 BY <1>4, <1>5 DEF Drawn
<1>7. /\ computed'[n][m] = 1
      /\ \A k \in DOMAIN Chunks \ {n} : computed'[k] = computed[k]
      /\ \A c \in ChunkOf(n) \ {m} : computed'[n][c] = computed[n][c]
      /\ CountType'
  <2>1. DOMAIN computed = DOMAIN Chunks /\ \A k \in DOMAIN Chunks : DOMAIN computed[k] = ChunkOf(k)
    BY <1>4 DEF CountType
  <2>2. /\ computed' = [computed EXCEPT ![n] = [computed[n] EXCEPT ![m] = computed[n][m] + 1]]
    BY <1>3
  <2>3. DOMAIN computed' = DOMAIN computed BY <2>2
  <2>4. computed'[n] = [computed[n] EXCEPT ![m] = computed[n][m] + 1] BY <2>1, <2>2
  <2>5. \A k \in DOMAIN Chunks \ {n} : computed'[k] = computed[k] BY <2>1, <2>2
  <2>6. DOMAIN computed'[n] = ChunkOf(n) BY <2>1, <2>4
  <2>7. computed'[n][m] = 1 /\ \A c \in ChunkOf(n) \ {m} : computed'[n][c] = computed[n][c]
    BY <1>6, <2>1, <2>4
  <2>8. CountType' BY <2>1, <2>3, <2>5, <2>6 DEF CountType, ChunkOf
  <2> QED BY <2>5, <2>7, <2>8
<1>8. \A u \in Thread \ {t} : (Busy(u)' <=> Busy(u)) /\ Hand(u)' = Hand(u)
  BY <1>3 DEF Busy, Behind, Hand
<1>9. ~Behind(t)' /\ pc'[t] \in {"chunk", "arrive"} BY <1>3 DEF Behind
<1>10. OtherCounts'
  <2>1. Cur(Main)' = Cur(Main) BY <1>2
  <2>2. \A k \in DOMAIN Chunks \ {n} : computed'[k] = computed[k] BY <1>7
  <2>3. ~(Cur(Main).node < n \/ Cur(Main) = Seg(n, "start")) /\ ~(Cur(Main).node > n)
    BY <1>n, <1>2, ProductSizes DEF Seg
  <2> QED BY <1>4, <2>1, <2>2, <2>3 DEF OtherCounts, ChunkOf
<1>11. CounterSet'
  <2>1. at[Main].stage = "start" => Behind(Main) BY <1>1, <1>2 DEF Cur
  <2>2. Main # t => (Behind(Main)' <=> Behind(Main)) BY <1>2, <1>3 DEF Behind
  <2>3. at'[Main] = at[Main] BY <1>3
  <2>4. at[Main].stage = "start" => Main # t BY <1>1
  <2> QED BY <2>1, <2>2, <2>3, <2>4 DEF CounterSet, Converted
<1>s. /\ Chunks[n] \in Nat /\ Chunks[n] >= NThreads /\ NThreads \in Nat
      /\ \A c \in ChunkOf(n) : c \in Nat /\ c < Chunks[n]
      /\ nextChunk < Chunks[n] => nextChunk \in ChunkOf(n)
  BY <1>1, <1>n, ProductSizes, SizeFacts
<1>12. Drawn(n)'
  <2>1. CASE last
    <3>1. ~Busy(t)' /\ nextChunk' = nextChunk /\ nextChunk >= Chunks[n] BY <1>3, <1>4, <1>9, <1>s, <1>d, <1>1, <2>1 DEF Busy, Drawn
    <3>2. \A c \in ChunkOf(n) \ {m} : computed'[n][c] = computed[n][c] BY <1>7
    <3>4. /\ \A u \in Thread : Busy(u)' => u # t /\ Busy(u) /\ Hand(u)' = Hand(u)
          /\ \A u \in Thread : Busy(u)' => Hand(u) # m
      BY <1>4, <1>5, <1>8, <3>1 DEF Drawn
    <3>5. ASSUME NEW c \in ChunkOf(n)
          PROVE  /\ c >= nextChunk \/ (\E u \in Thread : Busy(u)' /\ Hand(u)' = c) => computed'[n][c] = 0
                 /\ c < nextChunk /\ (\A u \in Thread : Busy(u)' => Hand(u)' # c) => computed'[n][c] = 1
      <4>1. CASE c = m
        <5>1. computed'[n][c] = 1 /\ ~(c >= nextChunk) BY <1>1, <1>6, <1>7, <4>1, <1>s
        <5>2. \A u \in Thread : Busy(u)' => Hand(u)' # c BY <3>4, <4>1
        <5> QED BY <5>1, <5>2
      <4>2. CASE c # m
        <5>1. computed'[n][c] = computed[n][c] BY <3>2, <4>2
        <5>2. (\A u \in Thread : Busy(u)' => Hand(u)' # c) => \A u \in Thread : Busy(u) => Hand(u) # c
          BY <1>5, <1>8, <4>2
        <5> QED BY <1>4, <3>4, <5>1, <5>2 DEF Drawn
      <4> QED BY <4>1, <4>2
    <3> QED BY <1>4, <3>1, <3>4, <3>5 DEF Drawn, ChunkOf
  <2>2. CASE ~last
    <3>1. nextChunk' = nextChunk + 1 /\ (Busy(t)' <=> nextChunk < Chunks[n]) /\ (Busy(t)' => Hand(t)' = nextChunk)
      BY <1>3, <1>9, <2>2 DEF Busy, Hand
    <3>2. \A c \in ChunkOf(n) \ {m} : computed'[n][c] = computed[n][c] BY <1>7
    <3>4. \A u \in Thread : Busy(u)' => IF u = t THEN Hand(u)' = nextChunk /\ nextChunk < Chunks[n]
                                        ELSE Busy(u) /\ Hand(u)' = Hand(u) /\ Hand(u) # m
      BY <1>4, <1>5, <1>8, <3>1 DEF Drawn
    <3>5. ASSUME NEW c \in ChunkOf(n)
          PROVE  /\ c >= nextChunk + 1 \/ (\E u \in Thread : Busy(u)' /\ Hand(u)' = c) => computed'[n][c] = 0
                 /\ c < nextChunk + 1 /\ (\A u \in Thread : Busy(u)' => Hand(u)' # c) => computed'[n][c] = 1
      <4>1. CASE c = m
        <5>1. \A u \in Thread : Busy(u)' => Hand(u)' # m BY <1>6, <3>4, <1>1, <1>s
        <5> QED BY <1>6, <1>7, <4>1, <5>1, <1>1, <1>s
      <4>2. CASE c = nextChunk
        <5>1. Busy(t)' /\ Hand(t)' = c /\ c # m BY <3>1, <4>2, <1>6, <1>s, <1>1
        <5>2. computed'[n][c] = 0 BY <1>4, <1>s, <3>2, <4>2, <5>1 DEF Drawn
        <5> QED BY <5>1, <5>2
      <4>3. CASE c # m /\ c # nextChunk
        <5>1. computed'[n][c] = computed[n][c] BY <3>2, <4>3
        <5>2. (\A u \in Thread : Busy(u)' => Hand(u)' # c) => \A u \in Thread : Busy(u) => Hand(u) # c
          BY <1>5, <1>8, <4>3
        <5>3. (\E u \in Thread : Busy(u)' /\ Hand(u)' = c) => \E u \in Thread : Busy(u) /\ Hand(u) = c
          BY <3>4, <4>3
        <5>4. c >= nextChunk + 1 => c >= nextChunk BY <1>1, <1>s
        <5>5. c < nextChunk + 1 => c < nextChunk BY <1>1, <1>s, <4>3
        <5> QED BY <1>4, <5>1, <5>2, <5>3, <5>4, <5>5 DEF Drawn
      <4> QED BY <4>1, <4>2, <4>3
    <3>6. \A u \in Thread : Busy(u)' => Hand(u)' < nextChunk + 1 /\ Hand(u)' \in ChunkOf(n)
      <4> TAKE u \in Thread
      <4> HAVE Busy(u)'
      <4>1. CASE u = t BY <1>1, <1>s, <3>4, <4>1
      <4>2. CASE u # t
        <5>1. Busy(u) /\ Hand(u)' = Hand(u) BY <3>4, <4>2
        <5>2. Hand(u) < nextChunk /\ Hand(u) \in ChunkOf(n) BY <1>4, <5>1 DEF Drawn
        <5> QED BY <1>1, <1>s, <5>1, <5>2
      <4> QED BY <4>1, <4>2
    <3>7. ASSUME NEW u \in Thread, NEW w \in Thread, Busy(u)', Busy(w)', u # w PROVE Hand(u)' # Hand(w)'
      <4>1. \A v \in Thread : Busy(v) => Hand(v) # nextChunk BY <1>1, <1>4, <1>s DEF Drawn
      <4>2. CASE u = t \/ w = t BY <3>4, <3>7, <4>1, <4>2
      <4>3. CASE u # t /\ w # t
        <5>1. Busy(u) /\ Busy(w) /\ Hand(u)' = Hand(u) /\ Hand(w)' = Hand(w) BY <3>4, <3>7, <4>3
        <5> QED BY <1>4, <3>7, <5>1 DEF Drawn
      <4> QED BY <4>2, <4>3
    <3>8. ASSUME NEW u \in Thread, ~Busy(u)' PROVE nextChunk + 1 >= Chunks[n]
      <4>1. CASE u = t BY <1>1, <1>s, <3>1, <3>8, <4>1
      <4>2. CASE u # t
        <5>1. ~Busy(u) BY <1>8, <3>8, <4>2
        <5> QED BY <1>1, <1>4, <1>s, <5>1 DEF Drawn
      <4> QED BY <4>1, <4>2
    <3>9. nextChunk + 1 >= NThreads BY <1>1, <1>4, <1>s DEF Drawn
    <3> QED BY <3>1, <3>5, <3>6, <3>7, <3>8, <3>9 DEF Drawn, ChunkOf
  <2> QED BY <2>1, <2>2
<1>13. \A k \in DOMAIN Chunks : Cur(Main)' = Seg(k, "chunks") => k = n BY <1>n, <1>2 DEF Seg
<1> QED BY <1>7, <1>10, <1>11, <1>12, <1>13 DEF CountInv

LEMMA PassCount == ASSUME Inv, CountInv, NEW t \in Thread, Pass(t) PROVE CountInv'
<1> DEFINE s == at[t]
<1>1. /\ TypeOK /\ Main \in Thread /\ Leave(t) /\ UNCHANGED computed /\ UNCHANGED nextChunk
      /\ \A u \in Thread : /\ at[u] = s /\ Cur(u) = s /\ pc[u] \in InBarrier /\ ~Behind(u)
                           /\ Cur(u)' = Succ(s)
                           /\ Behind(u)' \/ (u = t /\ pc'[u] \notin InBarrier /\ ~Behind(u)')
  BY PassTogether, ThreadFacts DEF Inv, PhaseInv
<1>2. s \in Segment /\ SegOK(s) /\ s # Over BY <1>1 DEF Inv, PhaseInv, TypeOK, Local, Computing, InBarrier
<1>3. CountType' BY <1>1 DEF CountInv, CountType, ChunkOf
<1>4. CounterSet' BY <1>1 DEF CounterSet, Converted
<1>5. /\ s.node \in Nat \ {0}
      /\ Succ(s).stage = "chunks" => s = Seg(s.node, "start") /\ IsProduct(s.node) /\ Succ(s).node = s.node
      /\ Succ(s).stage # "chunks" => Succ(s).node >= s.node /\ Succ(s).node <= s.node + 1
                                     /\ (Succ(s).node = s.node => s.node \notin DOMAIN Chunks)
                                     /\ (s.stage = "start" => ~IsProduct(s.node))
                                     /\ s.stage \in {"start", "chunks"}
      /\ Succ(s).node \in Nat
  <2>1. s.stage \in {"start", "chunks"} /\ s = Seg(s.node, s.stage) /\ s.node \in 1..(Len(Chunks) + 1)
    BY <1>2 DEF Segment, SegOK, Stage, Seg
  <2> HIDE DEF s
  <2> QED BY <1>2, <2>1, SizeFacts DEF Succ, Seg, Over, IsProduct
<1>6. \A u \in Thread : ~Busy(u) BY <1>1 DEF Busy, InBarrier
<1>7. CASE Succ(s).stage = "chunks"
  <2>1. PICK n \in DOMAIN Chunks : n = s.node /\ s = Seg(n, "start") /\ IsProduct(n) /\ Succ(s).node = n /\ s.stage = "start"
    BY <1>5, <1>7 DEF IsProduct, Seg
  <2>2. nextChunk = NThreads
    <3>1. Converted(Main) BY <1>1, <2>1 DEF Converted
    <3> QED BY <3>1 DEF CountInv, CounterSet
  <2>3. OtherCounts'
    <3>1. Cur(Main) = s /\ Cur(Main)' = Succ(s) /\ \A k \in DOMAIN Chunks : Succ(s) # Seg(k, "start")
      BY <1>1, <1>7 DEF Seg
    <3>2. Succ(s).node = s.node /\ UNCHANGED computed BY <1>1, <2>1
    <3> HIDE DEF s
    <3> QED BY <3>1, <3>2 DEF CountInv, OtherCounts, ChunkOf
  <2>4. \A c \in ChunkOf(n) : computed[n][c] = 0 BY <1>1, <2>1 DEF CountInv, OtherCounts
  <2>5. \A u \in Thread : Busy(u)' /\ Hand(u)' = u
    <3>1. pc'[t] = "chunk" /\ myChunk'[t] = t BY <1>1, <1>7, LeaveFacts DEF Leave, TypeOK
    <3> QED BY <1>1, <3>1 DEF Busy, Hand
  <2>6. ASSUME NEW u \in Thread PROVE u < NThreads /\ u \in ChunkOf(n)
    <3>1. u \in Nat /\ u < NThreads BY ThreadFacts
    <3>2. Chunks[n] \in Nat /\ Chunks[n] >= NThreads BY <2>1, ProductSizes
    <3> QED BY <3>1, <3>2, SizeFacts DEF ChunkOf
  <2>7. \A c \in ChunkOf(n) : c < NThreads => c \in Thread BY <2>1, ProductSizes, SizeFacts DEF Thread
  <2>8. Drawn(n)'
    <3> HIDE DEF s
    <3> QED BY <1>1, <2>2, <2>4, <2>5, <2>6, <2>7, SizeFacts DEF Drawn, ChunkOf
  <2>9. \A k \in DOMAIN Chunks : Cur(Main)' = Seg(k, "chunks") => k = n BY <1>1, <2>1 DEF Seg
  <2> QED BY <1>3, <1>4, <2>3, <2>8, <2>9 DEF CountInv
<1>8. CASE Succ(s).stage # "chunks"
  <2>1. ASSUME NEW n \in DOMAIN Chunks, NEW c \in ChunkOf(n), n = s.node PROVE computed[n][c] = 1
    <3>1. c \in Nat /\ c < Chunks[n] /\ IsProduct(n) /\ Chunks[n] \in Nat BY <2>1, ProductSizes
    <3>2. s.stage = "chunks" BY <1>5, <1>8, <2>1, <3>1
    <3>3. Drawn(n) BY <1>1, <1>2, <2>1, <3>2 DEF CountInv, Segment, Seg
    <3>4. nextChunk >= Chunks[n] /\ nextChunk \in Nat BY <1>1, <1>6, <3>3 DEF Drawn, TypeOK
    <3> QED BY <1>6, <2>1, <3>1, <3>3, <3>4 DEF Drawn
  <2>2. OtherCounts'
    <3> SUFFICES ASSUME NEW n \in DOMAIN Chunks, NEW c \in ChunkOf(n)
                 PROVE  /\ Succ(s).node < n \/ Succ(s) = Seg(n, "start") => computed[n][c] = 0
                        /\ Succ(s).node > n => computed[n][c] = 1
      BY <1>1 DEF OtherCounts, ChunkOf
    <3>1. n \in Nat BY ProductSizes
    <3>2. s.node < n => computed[n][c] = 0 BY <1>1 DEF CountInv, OtherCounts
    <3>3. s.node > n => computed[n][c] = 1 BY <1>1 DEF CountInv, OtherCounts
    <3>4. Succ(s) = Seg(n, "start") => Succ(s).node = n BY DEF Seg
    <3> HIDE DEF s
    <3> QED BY <1>5, <1>8, <2>1, <3>1, <3>2, <3>3, <3>4
  <2>3. \A k \in DOMAIN Chunks : Cur(Main)' # Seg(k, "chunks") BY <1>1, <1>8 DEF Seg
  <2> QED BY <1>3, <1>4, <2>2, <2>3 DEF CountInv
<1> QED BY <1>7, <1>8

LEMMA WorkCount == ASSUME Inv, CountInv, NEW t \in Thread, Work(t) PROVE CountInv'
<1>1. /\ TypeOK /\ pc[t] = "work" /\ at[t].stage = "start" /\ Cur(t) = at[t] /\ Main \in Thread
  BY ThreadFacts DEF Work, Inv, PhaseInv, Local, Cur, Behind
<1>2. \A u \in Thread : Cur(u)' = Cur(u)
  <2>1. \A u \in Thread : ~Pass(u) BY <1>1, PassTogether DEF InBarrier
  <2> QED BY <2>1, CurStays DEF Steps, ComputeStep
<1>3. Cur(Main)' = Cur(Main) /\ Cur(Main).stage = "start" BY <1>1, <1>2 DEF Inv, BarrierInv
<1>4. /\ computed' = computed /\ UNCHANGED at /\ UNCHANGED nPassed /\ UNCHANGED passed
      /\ \A u \in Thread \ {t} : pc'[u] = pc[u]
  BY <1>1, GotoFacts DEF Work, barrier
<1>5. CounterSet'
  <2>1. CASE t = Main
    <3>1. IsProduct(at[Main].node) => nextChunk' = NThreads BY <2>1 DEF Work
    <3> QED BY <1>4, <3>1 DEF CounterSet, Converted
  <2>2. CASE t # Main
    <3>1. Converted(Main)' => Converted(Main) BY <1>1, <1>4, <2>2 DEF Converted, Behind
    <3>2. nextChunk' = nextChunk BY <2>2 DEF Work
    <3> QED BY <3>1, <3>2 DEF CountInv, CounterSet
  <2> QED BY <2>1, <2>2
<1>6. CountType' /\ OtherCounts' BY <1>3, <1>4 DEF CountInv, CountType, OtherCounts, ChunkOf
<1>7. \A n \in DOMAIN Chunks : Cur(Main)' # Seg(n, "chunks") BY <1>3 DEF Seg
<1> QED BY <1>5, <1>6, <1>7 DEF CountInv

\* While a product is in the making, the other steps change nobody's chunk.
HandsKept == Cur(Main).stage = "chunks" =>
               \A u \in Thread : (Busy(u)' <=> Busy(u)) /\ (Busy(u) => Hand(u)' = Hand(u))

LEMMA StayCount ==
  ASSUME Inv, Steps, \A t \in Thread : ~Pass(t) /\ ~Work(t) /\ ~Chunk(t)
  PROVE  UNCHANGED <<computed, nextChunk>> /\ HandsKept
<1>t. TypeOK /\ Main \in Thread BY ThreadFacts DEF Inv, PhaseInv
<1>z. nGraph = 0 \/ at[Main] = Over => HandsKept \/ Behind(Main)
  BY <1>t, SegFacts DEF HandsKept, Cur, Inv, PhaseInv, Local
<1>q. ASSUME NEW t \in Thread, UNCHANGED nPassed, UNCHANGED passed, UNCHANGED myChunk,
             \A u \in Thread \ {t} : pc'[u] = pc[u],
             \/ pc'[t] = pc[t]
             \/ pc[t] \notin {"spin", "chunk", "left"} /\ pc'[t] \notin {"spin", "chunk", "left"}
      PROVE  HandsKept
  BY <1>q DEF HandsKept, Busy, Behind, Hand
<1>1. CASE MainStep
  <2>1. /\ UNCHANGED nPassed /\ UNCHANGED passed /\ UNCHANGED myChunk
        /\ UNCHANGED computed /\ UNCHANGED nextChunk
    BY <1>1 DEF MainStep, Spawn, KickLock, Publish, Wake, Stop, Join, Return, barrier, local, data
  <2>2. CASE Spawn
    <3>1. nGraph = 0 /\ ~Behind(Main) BY <1>t, <2>2 DEF Spawn, Inv, PhaseInv, Local, Behind
    <3> QED BY <1>z, <2>1, <3>1
  <2>3. CASE KickLock \/ Publish \/ Stop
    <3>1. \A u \in Thread \ {Main} : pc'[u] = pc[u]
      BY <1>t, <2>3, GotoFacts DEF KickLock, Publish, Stop
    <3>2. pc[Main] \notin {"spin", "chunk", "left"} /\ pc'[Main] \notin {"spin", "chunk", "left"}
      BY <1>t, <2>3, GotoFacts DEF KickLock, Publish, Stop
    <3> QED BY <1>q, <1>t, <2>1, <3>1, <3>2
  <2>4. CASE Wake
    <3>1. \A u \in Thread : \/ pc'[u] = pc[u]
                            \/ /\ pc[u] \notin {"spin", "chunk", "left"}
                               /\ pc'[u] \notin {"spin", "chunk", "left"}
      BY <1>t, <2>4 DEF Wake
    <3> QED BY <2>1, <3>1 DEF HandsKept, Busy, Behind, Hand
  <2>5. CASE Join
    <3>1. UNCHANGED pc BY <2>5 DEF Join, local
    <3> QED BY <1>q, <1>t, <2>1, <3>1
  <2>6. CASE Return
    <3>1. at[Main] = Over /\ ~Behind(Main) BY <1>t, <2>6 DEF Return, Inv, PhaseInv, Local, Behind
    <3> QED BY <1>z, <2>1, <3>1
  <2> QED BY <1>1, <2>1, <2>2, <2>3, <2>4, <2>5, <2>6 DEF MainStep
<1>2. ASSUME NEW t \in Thread, WorkerStep(t) \/ SpuriousWake(t)
      PROVE  UNCHANGED <<computed, nextChunk>> /\ HandsKept
  <2>1. /\ UNCHANGED nPassed /\ UNCHANGED passed /\ UNCHANGED myChunk
        /\ UNCHANGED computed /\ UNCHANGED nextChunk
    BY <1>2 DEF WorkerStep, Top, Poll, Lock, Check, Sleep, SpuriousWake, barrier, pool, data
  <2>2. pc[t] \notin {"spin", "chunk", "left"} /\ pc'[t] \notin {"spin", "chunk", "left"}
    BY <1>t, <1>2, GotoFacts DEF WorkerStep, Top, Poll, Lock, Check, Sleep, TakeGraph, SpuriousWake
  <2>3. \A u \in Thread \ {t} : pc'[u] = pc[u]
    BY <1>t, <1>2, GotoFacts DEF WorkerStep, Top, Poll, Lock, Check, Sleep, TakeGraph, SpuriousWake
  <2> QED BY <1>q, <2>1, <2>2, <2>3
<1>3. ASSUME NEW t \in Thread, Abort(t) \/ (t = Main /\ SpawnFails)
      PROVE  UNCHANGED <<computed, nextChunk>> /\ HandsKept
  <2>1. /\ UNCHANGED nPassed /\ UNCHANGED passed /\ UNCHANGED myChunk
        /\ UNCHANGED computed /\ UNCHANGED nextChunk
    BY <1>3 DEF Abort, SpawnFails, barrier, data
  <2>2. CASE pc[t] = "chunk"
    <3>1. \A u \in Thread \ {t} : pc'[u] = pc[u] BY <1>t, <1>3, GotoFacts DEF Abort, SpawnFails
    <3>2. pc'[t] \in {"chunk", "left"} BY <1>t, <1>3, <2>2, GotoFacts DEF Abort, SpawnFails
    <3> QED BY <2>1, <2>2, <3>1, <3>2 DEF HandsKept, Busy, Behind, Hand
  <2>3. CASE pc[t] = "work"
    <3>1. Cur(t) = at[t] /\ at[t].stage = "start"
      BY <2>3 DEF Inv, PhaseInv, Local, Cur, Behind
    <3>2. Cur(Main).stage # "chunks" BY <1>t, <3>1 DEF Inv, BarrierInv
    <3> QED BY <2>1, <3>2 DEF HandsKept
  <2>4. CASE t = Main /\ SpawnFails
    <3>1. nGraph = 0 /\ ~Behind(Main) BY <1>t, <2>4 DEF SpawnFails, Inv, PhaseInv, Local, Behind
    <3> QED BY <1>z, <2>1, <3>1
  <2> QED BY <1>3, <2>2, <2>3, <2>4 DEF Abort
<1>4. ASSUME NEW t \in Thread, Enter(t) \/ Reset(t) \/ (Arrive(t) /\ Active # 1)
      PROVE  UNCHANGED <<computed, nextChunk>> /\ HandsKept
  <2>1. /\ UNCHANGED passed /\ UNCHANGED myChunk /\ UNCHANGED computed /\ UNCHANGED nextChunk
    BY <1>4 DEF Enter, Reset, Arrive, barrier, data
  <2>2. \A u \in Thread \ {t} : pc'[u] = pc[u] /\ nPassed'[u] = nPassed[u]
    BY <1>t, <1>4, GotoFacts DEF Enter, Reset, Arrive, TypeOK
  <2>3. ~Busy(t) BY <1>4 DEF Enter, Reset, Arrive, Busy, Behind
  <2>4. pc'[t] \in {"enter", "reset", "spin", "advance"} /\ (pc'[t] = "spin" => nPassed'[t] = passed)
    BY <1>t, <1>4, GotoFacts DEF Enter, Reset, Arrive, Inv, BarrierInv
  <2>5. ~Busy(t)' BY <2>1, <2>4 DEF Busy, Behind
  <2> QED BY <2>1, <2>2, <2>3, <2>5 DEF HandsKept, Busy, Behind, Hand
<1>5. ASSUME NEW t \in Thread, Spin(t)
      PROVE  UNCHANGED <<computed, nextChunk>> /\ HandsKept
  <2>1. /\ UNCHANGED nPassed /\ UNCHANGED passed /\ UNCHANGED computed /\ UNCHANGED nextChunk
        /\ Leave(t) /\ Behind(t)
    BY <1>5 DEF Spin, Behind, barrier, data
  <2>2. /\ \A u \in Thread \ {t} : pc'[u] = pc[u] /\ myChunk'[u] = myChunk[u]
        /\ myChunk'[t] = t
    BY <1>t, <2>1, LeaveFacts DEF Leave, TypeOK
  <2>3. Cur(Main).stage = "chunks" => pc'[t] = "chunk"
    <3>1. Cur(Main) = Succ(at[t]) BY <1>t, <2>1 DEF Inv, BarrierInv, Cur
    <3> QED BY <1>t, <2>1, <3>1, LeaveFacts
  <2> QED BY <2>1, <2>2, <2>3 DEF HandsKept, Busy, Behind, Hand
<1> QED BY <1>1, <1>2, <1>3, <1>4, <1>5 DEF Steps, ComputeStep, Mishap, Pass

LEMMA NextCount == Inv /\ CountInv /\ [Next]_vars => CountInv'
<1> SUFFICES ASSUME Inv, CountInv, [Next]_vars PROVE CountInv' OBVIOUS
<1>m. Main \in Thread BY ThreadFacts
<1>1. CASE UNCHANGED vars
  <2>1. /\ UNCHANGED pc /\ UNCHANGED at /\ UNCHANGED nPassed /\ UNCHANGED passed /\ UNCHANGED myChunk
        /\ UNCHANGED <<computed, nextChunk>>
    BY <1>1 DEF vars, local, barrier, data
  <2>2. \A u \in Thread : Cur(u)' = Cur(u) /\ (Busy(u)' <=> Busy(u)) /\ Hand(u)' = Hand(u)
    BY <2>1 DEF Cur, Busy, Hand, Behind
  <2>3. Converted(Main)' => Converted(Main) BY <2>1 DEF Converted, Behind
  <2> QED BY <2>1, <2>2, <2>3, QuietCount
<1>2. ASSUME NEW t \in Thread, Pass(t) \/ Work(t) \/ Chunk(t) PROVE CountInv'
  BY <1>2, PassCount, WorkCount, ChunkCount
<1>3. CASE Steps /\ \A t \in Thread : ~Pass(t) /\ ~Work(t) /\ ~Chunk(t)
  <2>1. \A u \in Thread : Cur(u)' = Cur(u) BY <1>3, CurStays
  <2>2. Converted(Main)' => Converted(Main) BY <1>3, <1>m, StayConverted
  <2>3. UNCHANGED <<computed, nextChunk>> /\ HandsKept BY <1>3, StayCount
  <2> QED BY <2>1, <2>2, <2>3, QuietCount DEF HandsKept
<1> QED BY <1>1, <1>2, <1>3 DEF Next, Steps

LEMMA InitCount == Init => CountInv
<1> SUFFICES ASSUME Init PROVE CountInv OBVIOUS
<1>1. Main \in Thread /\ pc[Main] = "spawn" /\ at[Main] = First BY ThreadFacts DEF Init
<1>2. Cur(Main) = First /\ ~Converted(Main) BY <1>1 DEF Cur, Behind, Converted, InBarrier
<1>3. First = Seg(1, "start") /\ First.node = 1 /\ First.stage = "start" BY DEF First, Seg
<1>4. CountType /\ \A n \in DOMAIN Chunks : \A c \in ChunkOf(n) : computed[n][c] = 0
  BY DEF Init, CountType, ChunkOf
<1>5. OtherCounts BY <1>2, <1>3, <1>4, ProductSizes DEF OtherCounts
<1>6. \A n \in DOMAIN Chunks : Cur(Main) # Seg(n, "chunks") BY <1>2, <1>3 DEF Seg
<1> QED BY <1>2, <1>4, <1>5, <1>6 DEF CountInv, CounterSet

LEMMA CountOnce == Inv /\ CountInv => ChunksComputedOnce
<1> SUFFICES ASSUME Inv, CountInv, NEW n \in DOMAIN Chunks, NEW c \in ChunkOf(n)
             PROVE  /\ computed[n][c] <= 1
                    /\ (\E t \in Thread : at[t].node > n) => computed[n][c] = 1
  BY DEF ChunksComputedOnce, ChunkOf
<1>1. /\ Main \in Thread /\ at[Main] \in Segment /\ SegOK(at[Main])
      /\ n \in Nat /\ n <= Len(Chunks) /\ c \in Nat /\ Len(Chunks) \in Nat
  BY ThreadFacts, SizeFacts, ProductSizes DEF Inv, PhaseInv, TypeOK, Local
<1>2. Cur(Main) \in Segment /\ SegOK(Cur(Main))
  <2>1. CASE Behind(Main)
    <3>1. at[Main] # Over BY <1>1, <2>1 DEF Inv, PhaseInv, Local, Computing, InBarrier, Behind
    <3> QED BY <1>1, <2>1, <3>1, SegFacts DEF Cur
  <2>2. CASE ~Behind(Main) BY <1>1, <2>2 DEF Cur
  <2> QED BY <2>1, <2>2
<1>3. \/ Cur(Main).node < n \/ Cur(Main) = Seg(n, "start")
      \/ Cur(Main) = Seg(n, "chunks") \/ Cur(Main).node > n
  BY <1>1, <1>2 DEF Segment, Seg, SegOK, Stage, Over
<1>4. CASE Cur(Main).node < n \/ Cur(Main) = Seg(n, "start")
  <2>1. computed[n][c] = 0 BY <1>4 DEF CountInv, OtherCounts
  <2>2. \A t \in Thread : ~(at[t].node > n)
    <3> TAKE t \in Thread
    <3>1. at[t] \in Segment /\ SegOK(at[t]) /\ Cur(t) = Cur(Main)
      BY <1>1 DEF Inv, PhaseInv, TypeOK, Local, BarrierInv
    <3>2. Cur(t).node <= n BY <1>1, <1>2, <1>4, <3>1 DEF Segment, Seg
    <3>3. Cur(t) = at[t] \/ Cur(t) = Succ(at[t]) BY DEF Cur
    <3>4. Succ(at[t]).node >= at[t].node /\ Succ(at[t]) \in Segment
      BY <3>1, SuccType, SizeFacts DEF Segment, Succ, Seg, Over
    <3>5. at[t].node \in Nat /\ Succ(at[t]).node \in Nat BY <3>1, <3>4 DEF Segment
    <3> QED BY <1>1, <3>2, <3>3, <3>4, <3>5
  <2> QED BY <2>1, <2>2
<1>5. CASE Cur(Main) = Seg(n, "chunks")
  <2>1. Drawn(n) BY <1>5 DEF CountInv
  <2>2. computed[n][c] = 0 \/ computed[n][c] = 1
    <3>1. nextChunk \in Nat BY DEF Inv, PhaseInv, TypeOK
    <3> QED BY <1>1, <2>1, <3>1 DEF Drawn
  <2>3. \A t \in Thread : ~(at[t].node > n)
    <3> TAKE t \in Thread
    <3>1. at[t] \in Segment /\ SegOK(at[t]) /\ Cur(t) = Cur(Main)
      BY <1>1 DEF Inv, PhaseInv, TypeOK, Local, BarrierInv
    <3>2. Cur(t).node = n BY <1>5, <3>1 DEF Seg
    <3>3. Cur(t) = at[t] \/ Cur(t) = Succ(at[t]) BY DEF Cur
    <3>4. Succ(at[t]).node >= at[t].node /\ Succ(at[t]) \in Segment
      BY <3>1, SuccType, SizeFacts DEF Segment, Succ, Seg, Over
    <3>5. at[t].node \in Nat /\ Succ(at[t]).node \in Nat BY <3>1, <3>4 DEF Segment
    <3> QED BY <1>1, <3>2, <3>3, <3>4, <3>5
  <2> QED BY <2>2, <2>3
<1>6. CASE Cur(Main).node > n BY <1>6 DEF CountInv, OtherCounts
<1> QED BY <1>3, <1>4, <1>5, <1>6

(* For any number of threads, any products and any order in which threads  *)
(* draw chunks and notice that a barrier opened, every chunk is computed   *)
(* exactly once.                                                           *)
THEOREM EachChunkOnce == Spec => []ChunksComputedOnce
<1>1. Init => Inv /\ CountInv BY InitPhase, InitBarrier, InitCount DEF Inv
<1>2. Inv /\ CountInv /\ [Next]_vars => (Inv /\ CountInv)' BY NextInv, NextCount
<1> QED BY <1>1, <1>2, CountOnce, PTL DEF Spec

=============================================================================
