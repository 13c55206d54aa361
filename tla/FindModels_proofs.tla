--------------------------- MODULE FindModels_proofs ---------------------------
(***************************************************************************)
(* Proofs about ModelLoading and FindModels, for any number of handles,    *)
(* files, scans and mishaps: every object has its handle, a GPU asked for  *)
(* in time is given to every model, a scan overwrites nothing but what     *)
(* others put in its way, and its report leads to what it found.           *)
(*                                                                         *)
(* The first two are about loading alone (LoadingInv), and every action of *)
(* FindModels either leaves that alone or is a step of ModelLoading.       *)
(*                                                                         *)
(* The other two are about links.  Follow is a recursive function over the *)
(* number of hops; FollowChain unfolds it into the chain of paths it went  *)
(* through, and the lemmas after it say what becomes of a chain when the   *)
(* directory grows by a link or a file, or others change one path of it    *)
(* (Elsewhere).  ReportInv carries from the listing to the report that     *)
(* nothing dangles while nobody interferes, Unclaimed from the search for  *)
(* a name to its use that only what others put there since is in the way.  *)
(***************************************************************************)
EXTENDS FindModels, FiniteSetTheorems, SequenceTheorems, WellFoundedInduction, TLAPS

-----------------------------------------------------------------------------
(***************************************************************************)
(* Loading.                                                                *)
(***************************************************************************)

Backend == {"CPU", "GPU"}

LEMMA TouchedKeeps ==
  ASSUME NEW reg \in Seq(Backend)
  PROVE  Touched(reg) \in Seq(Backend) /\ ToSet(reg) \subseteq ToSet(Touched(reg))
<1>1. CASE reg = <<>>
  <2>1. ToSet(reg) = {}
    BY <1>1 DEF ToSet
  <2>2. <<"CPU">> \in Seq(Backend)
    BY DEF Backend
  <2> QED
    BY <1>1, <2>1, <2>2 DEF Touched
<1>2. CASE reg # <<>>
  BY <1>2 DEF Touched
<1> QED
  BY <1>1, <1>2

LEMMA RegisteredKeeps ==
  ASSUME NEW reg \in Seq(Backend), NEW backend \in Backend
  PROVE  /\ Registered(reg, backend) \in Seq(Backend)
         /\ backend \in ToSet(Registered(reg, backend))
         /\ ToSet(reg) \subseteq ToSet(Registered(reg, backend))
<1> DEFINE t == Touched(reg)
           a == Append(t, backend)
<1>1. t \in Seq(Backend) /\ ToSet(reg) \subseteq ToSet(t)
  BY TouchedKeeps
<1> HIDE DEF t
<1>2. /\ a \in Seq(Backend) /\ Len(a) = Len(t) + 1 /\ Len(t) \in Nat
      /\ DOMAIN t = 1..Len(t) /\ DOMAIN a = 1..Len(a)
      /\ \A i \in 1..Len(t) : a[i] = t[i]
      /\ a[Len(t) + 1] = backend
  BY <1>1, AppendProperties, LenProperties
<1> HIDE DEF a
<1>3. backend \in ToSet(a) /\ ToSet(t) \subseteq ToSet(a)
  BY <1>2 DEF ToSet
<1> QED
  BY <1>1, <1>2, <1>3 DEF Registered, t, a

LEMMA AfterLibraryKeeps ==
  ASSUME registry \in Seq(Backend)
  PROVE  /\ AfterLibrary \in Seq(Backend)
         /\ cudaPath \in Loadable => "GPU" \in ToSet(AfterLibrary)
<1>1. Registered(registry, "GPU") \in Seq(Backend) /\ "GPU" \in ToSet(Registered(registry, "GPU"))
  BY RegisteredKeeps DEF Backend
<1>2. Touched(registry) \in Seq(Backend)
  BY TouchedKeeps
<1> QED
  BY <1>1, <1>2, LoadableAssumption DEF AfterLibrary, LibraryLoads

LEMMA AfterAllKeeps ==
  ASSUME registry \in Seq(Backend), NEW found \in BOOLEAN
  PROVE  /\ AfterAll(found) \in Seq(Backend)
         /\ cudaPath \in Loadable => "GPU" \in ToSet(AfterAll(found))
<1>1. PICK reg \in Seq(Backend) : /\ reg = AfterLibrary
                                  /\ cudaPath \in Loadable => "GPU" \in ToSet(reg)
  BY AfterLibraryKeeps
<1>2. /\ Registered(reg, "GPU") \in Seq(Backend)
      /\ ToSet(reg) \subseteq ToSet(Registered(reg, "GPU"))
  BY RegisteredKeeps DEF Backend
<1>3. Touched(reg) \in Seq(Backend) /\ ToSet(reg) \subseteq ToSet(Touched(reg))
  BY TouchedKeeps
<1> QED
  BY <1>1, <1>2, <1>3 DEF AfterAll

LEMMA AfterCpuKeeps ==
  ASSUME registry \in Seq(Backend), NEW found \in BOOLEAN
  PROVE  /\ AfterCpu(found) \in Seq(Backend)
         /\ cudaPath \in Loadable => "GPU" \in ToSet(AfterCpu(found))
<1>1. PICK reg \in Seq(Backend) : /\ reg = AfterAll(found)
                                  /\ cudaPath \in Loadable => "GPU" \in ToSet(reg)
  BY AfterAllKeeps
<1>2. /\ Registered(reg, "CPU") \in Seq(Backend)
      /\ ToSet(reg) \subseteq ToSet(Registered(reg, "CPU"))
  BY RegisteredKeeps DEF Backend
<1> QED
  BY <1>1, <1>2 DEF AfterCpu

\* Types of what the model loading keeps.
BackendsType ==
  /\ initialized \in BOOLEAN /\ cudaLoaded \in BOOLEAN
  /\ {cudaPath, asked} \subseteq Libraries \cup {NoPath}
  /\ registry \in Seq(Backend)

Handle == [owner : Owners, model : BOOLEAN, ctx : BOOLEAN]

ObjectsType ==
  /\ model \in [Slots -> Fates] /\ context \in [Slots -> Fates]
  /\ devices \in [Slots -> Seq({"GPU"})]
  /\ handle \in [Slots -> Handle]

\* No model is there before the backends are, and a GPU asked for in time is one of
\* them, and given to every model.
BackendsReady ==
  /\ ~initialized => \A s \in Slots : model[s] # "live"
  /\ initialized /\ asked \in Loadable => cudaLoaded /\ "GPU" \in ToSet(registry)

\* What OwnedByHandle says of one slot.
Owned(m, c, h) == /\ m = "live" <=> h.model
                  /\ c = "live" <=> h.ctx
                  /\ m # "freed twice" /\ c # "freed twice"
                  /\ h.owner = "nobody" => ~h.model /\ ~h.ctx

LoadingInv == BackendsType /\ ObjectsType /\ OwnedByHandle /\ BackendsReady
                /\ EarlyActivationTakesEffect

LEMMA OwnedEverywhere ==
  OwnedByHandle <=> \A s \in Slots : Owned(model[s], context[s], handle[s])
BY DEF OwnedByHandle, Owned

\* A load finds the backends ready or makes them so.
LEMMA InitialiseReady ==
  ASSUME BackendsType, BackendsReady, Initialise
  PROVE  /\ BackendsType' /\ initialized'
         /\ asked' \in Loadable => cudaLoaded' /\ "GPU" \in ToSet(registry')
         /\ initialized => UNCHANGED backends
<1>1. CASE initialized
  <2>1. UNCHANGED backends
    BY <1>1 DEF Initialise
  <2> QED
    BY <1>1, <2>1 DEF backends, BackendsType, BackendsReady
<1>2. CASE ~initialized
  <2>1. PICK found \in BOOLEAN : registry' = AfterCpu(found)
    BY <1>2 DEF Initialise
  <2>2. /\ cudaLoaded' = (cudaLoaded \/ LibraryLoads) /\ initialized' = TRUE
        /\ asked' = cudaPath /\ cudaPath' = cudaPath
    BY <1>2 DEF Initialise
  <2>3. /\ registry' \in Seq(Backend)
        /\ cudaPath \in Loadable => "GPU" \in ToSet(registry')
    BY <2>1, AfterCpuKeeps DEF BackendsType
  <2> QED
    BY <1>2, <2>2, <2>3 DEF BackendsType, LibraryLoads
<1> QED
  BY <1>1, <1>2 DEF BackendsType

\* The handles but for their owners.
SamePointers(others) ==
  /\ others \in [Slots -> Handle]
  /\ \A r \in Slots : /\ others[r].model = handle[r].model
                      /\ others[r].ctx = handle[r].ctx
                      /\ others[r].owner = "nobody" => handle[r].owner = "nobody"

LEMMA LoadKeeps ==
  ASSUME LoadingInv, NEW s \in Slots, NEW owner \in {"user", "scan"},
         NEW others, SamePointers(others), LoadInto(s, owner, others)
  PROVE  LoadingInv'
<1>1. BackendsType /\ ObjectsType /\ OwnedByHandle /\ BackendsReady
      /\ EarlyActivationTakesEffect
  BY DEF LoadingInv
<1>2. /\ BackendsType' /\ initialized'
      /\ asked' \in Loadable => cudaLoaded' /\ "GPU" \in ToSet(registry')
      /\ initialized => UNCHANGED backends
  BY <1>1, InitialiseReady DEF LoadInto
<1>3. /\ model' = [model EXCEPT ![s] = "live"]
      /\ context' = [context EXCEPT ![s] = "live"]
      /\ devices' = [devices EXCEPT ![s] = Gpus(registry')]
      /\ handle' = [others EXCEPT ![s] = [owner |-> owner, model |-> TRUE, ctx |-> TRUE]]
  BY DEF LoadInto
<1>4. Gpus(registry') \in Seq({"GPU"})
      /\ ("GPU" \in ToSet(registry') => Gpus(registry') # <<>>)
  <2>1. <<"GPU">> \in Seq({"GPU"}) /\ <<>> \in Seq({"GPU"})
    OBVIOUS
  <2>2. <<"GPU">> # <<>>
    OBVIOUS
  <2> QED
    BY <2>1, <2>2 DEF Gpus
<1>5. ObjectsType'
  <2>1. [owner |-> owner, model |-> TRUE, ctx |-> TRUE] \in Handle
    BY DEF Handle, Owners
  <2>2. handle' \in [Slots -> Handle]
    BY <1>3, <2>1 DEF SamePointers
  <2>3. devices' \in [Slots -> Seq({"GPU"})]
    BY <1>1, <1>3, <1>4 DEF ObjectsType
  <2>4. model' \in [Slots -> Fates] /\ context' \in [Slots -> Fates]
    BY <1>1, <1>3 DEF ObjectsType, Fates
  <2> QED
    BY <2>2, <2>3, <2>4 DEF ObjectsType
<1>6. OwnedByHandle'
  <2>1. ASSUME NEW r \in Slots PROVE Owned(model'[r], context'[r], handle'[r])
    <3>1. CASE r = s
      BY <1>1, <1>3, <3>1 DEF ObjectsType, SamePointers, Owned
    <3>2. CASE r # s
      <4>1. model'[r] = model[r] /\ context'[r] = context[r] /\ handle'[r] = others[r]
        BY <1>1, <1>3, <3>2 DEF ObjectsType, SamePointers
      <4>2. Owned(model[r], context[r], handle[r])
        BY <1>1, OwnedEverywhere
      <4> QED
        BY <4>1, <4>2 DEF Owned, SamePointers
    <3> QED
      BY <3>1, <3>2
  <2> QED
    BY <2>1 DEF OwnedByHandle, Owned
<1>7. BackendsReady'
  BY <1>2 DEF BackendsReady
<1>8. EarlyActivationTakesEffect'
  <2>1. ASSUME asked' \in Loadable, NEW r \in Slots, model'[r] = "live"
        PROVE  devices'[r] # <<>>
    <3>1. CASE r = s
      BY <1>1, <1>2, <1>3, <1>4, <2>1, <3>1 DEF ObjectsType
    <3>2. CASE r # s
      <4>1. model[r] = "live" /\ devices'[r] = devices[r]
        BY <1>1, <1>3, <2>1, <3>2 DEF ObjectsType
      <4>2. initialized
        BY <1>1, <4>1 DEF BackendsReady, BackendsType
      <4>3. asked' = asked
        BY <1>2, <4>2 DEF backends
      <4> QED
        BY <1>1, <2>1, <4>1, <4>2, <4>3 DEF EarlyActivationTakesEffect
    <3> QED
      BY <3>1, <3>2
  <2> QED
    BY <1>2, <2>1 DEF EarlyActivationTakesEffect
<1> QED
  BY <1>2, <1>5, <1>6, <1>7, <1>8 DEF LoadingInv

\* A load that is refused leaves at most the backends behind.
LEMMA RefusedKeeps ==
  ASSUME LoadingInv, LoadRefused
  PROVE  LoadingInv'
<1>1. /\ BackendsType' /\ initialized'
      /\ asked' \in Loadable => cudaLoaded' /\ "GPU" \in ToSet(registry')
      /\ initialized => UNCHANGED backends
  BY InitialiseReady DEF LoadingInv, LoadRefused
<1>2. UNCHANGED <<model, context, devices, handle>>
  BY DEF LoadRefused, objects
<1>3. ObjectsType' /\ OwnedByHandle'
  BY <1>2 DEF LoadingInv, ObjectsType, OwnedByHandle
<1>4. BackendsReady'
  BY <1>1 DEF BackendsReady
<1>5. EarlyActivationTakesEffect'
  BY <1>1, <1>2
  DEF LoadingInv, EarlyActivationTakesEffect, BackendsReady, BackendsType, backends
<1> QED
  BY <1>1, <1>3, <1>4, <1>5 DEF LoadingInv

LEMMA ThrowsKeeps ==
  ASSUME LoadingInv, LoadInitThrows
  PROVE  LoadingInv'
<1>1. UNCHANGED <<model, context, devices, handle>> /\ UNCHANGED initialized /\ ~initialized
  BY DEF LoadInitThrows, objects
<1>2. ObjectsType' /\ OwnedByHandle' /\ BackendsReady' /\ EarlyActivationTakesEffect'
  BY <1>1 DEF LoadingInv, ObjectsType, OwnedByHandle, BackendsReady, EarlyActivationTakesEffect
<1>3. registry' \in Seq(Backend) /\ cudaLoaded' \in BOOLEAN
  <2>1. registry \in Seq(Backend) /\ cudaLoaded \in BOOLEAN
    BY DEF LoadingInv, BackendsType
  <2>2. Touched(registry) \in Seq(Backend) /\ AfterLibrary \in Seq(Backend)
        /\ \A found \in BOOLEAN : AfterAll(found) \in Seq(Backend)
    BY <2>1, TouchedKeeps, AfterLibraryKeeps, AfterAllKeeps
  <2>3. LibraryLoads \in BOOLEAN
    BY DEF LibraryLoads
  <2> QED
    BY <2>1, <2>2, <2>3 DEF LoadInitThrows, StepsDone
<1>4. BackendsType'
  BY <1>3 DEF LoadInitThrows, LoadingInv, BackendsType
<1> QED
  BY <1>2, <1>4 DEF LoadingInv

LEMMA NameKeeps ==
  ASSUME LoadingInv, NameLibrary
  PROVE  LoadingInv'
<1>1. UNCHANGED <<initialized, cudaLoaded, registry, asked, model, context, devices, handle>>
      /\ cudaPath' \in Libraries
  BY DEF NameLibrary, objects
<1> QED
  BY <1>1 DEF LoadingInv, BackendsType, ObjectsType, OwnedByHandle, BackendsReady,
              EarlyActivationTakesEffect

\* Freed objects lose their pointers, whoever frees them.
LEMMA FreeKeeps ==
  ASSUME LoadingInv, NEW s, NEW owner, Free(s, owner)
  PROVE  LoadingInv'
<1>1. BackendsType /\ ObjectsType /\ OwnedByHandle /\ BackendsReady
      /\ EarlyActivationTakesEffect
  BY DEF LoadingInv
<1>2. UNCHANGED <<initialized, cudaPath, cudaLoaded, registry, asked, devices>>
  BY DEF Free, backends
<1>3. /\ context' = IF handle[s].ctx THEN [context EXCEPT ![s] = Freed(@)] ELSE context
      /\ model' = IF handle[s].model THEN [model EXCEPT ![s] = Freed(@)] ELSE model
      /\ handle' = [handle EXCEPT ![s] = Emptied(@)]
  BY DEF Free, Cleanup
<1>4. \A fate \in Fates : Freed(fate) \in Fates
  BY DEF Freed, Fates
<1>5. \A h \in Handle : /\ Emptied(h) \in Handle
                        /\ ~Emptied(h).model /\ ~Emptied(h).ctx /\ Emptied(h).owner = h.owner
  BY DEF Emptied, Handle
<1>6. ObjectsType'
  BY <1>1, <1>2, <1>3, <1>4, <1>5 DEF ObjectsType
<1>7. ASSUME NEW r \in Slots
      PROVE  /\ Owned(model'[r], context'[r], handle'[r])
             /\ model'[r] = "live" => model[r] = "live"
  <2>1. Owned(model[r], context[r], handle[r])
    BY <1>1, OwnedEverywhere
  <2>2. CASE r = s
    <3>1. handle'[r] = Emptied(handle[r]) /\ handle[r] \in Handle
      BY <1>1, <1>3, <2>2 DEF ObjectsType
    <3>2. ~handle'[r].model /\ ~handle'[r].ctx
      BY <1>5, <3>1
    <3>3. model'[r] = IF handle[r].model THEN "freed" ELSE model[r]
      BY <1>1, <1>3, <2>1, <2>2 DEF ObjectsType, Freed, Owned
    <3>4. context'[r] = IF handle[r].ctx THEN "freed" ELSE context[r]
      BY <1>1, <1>3, <2>1, <2>2 DEF ObjectsType, Freed, Owned
    <3> QED
      BY <2>1, <3>2, <3>3, <3>4 DEF Owned
  <2>3. CASE r # s
    <3>1. model'[r] = model[r] /\ context'[r] = context[r] /\ handle'[r] = handle[r]
      BY <1>1, <1>3, <2>3 DEF ObjectsType
    <3> QED
      BY <2>1, <3>1
  <2> QED
    BY <2>2, <2>3
<1>8. OwnedByHandle'
  BY <1>7 DEF OwnedByHandle, Owned
<1>9. BackendsReady' /\ EarlyActivationTakesEffect'
  BY <1>1, <1>2, <1>7 DEF BackendsReady, EarlyActivationTakesEffect
<1> QED
  BY <1>1, <1>2, <1>6, <1>8, <1>9 DEF LoadingInv, BackendsType

\* Only who owns the handles changes.
LEMMA OwnersKeep ==
  ASSUME LoadingInv, NEW others, SamePointers(others), handle' = others,
         UNCHANGED <<backends, model, context, devices>>
  PROVE  LoadingInv'
<1>1. ObjectsType' /\ OwnedByHandle'
  BY DEF LoadingInv, ObjectsType, OwnedByHandle, SamePointers
<1> QED
  BY <1>1 DEF LoadingInv, BackendsType, BackendsReady, EarlyActivationTakesEffect, backends

LEMMA DropKeeps ==
  ASSUME LoadingInv, Drop
  PROVE  LoadingInv'
<1>1. PICK s \in Slots : handle' = [handle EXCEPT ![s].owner = "garbage"]
  BY DEF Drop
<1>2. handle \in [Slots -> Handle]
  BY DEF LoadingInv, ObjectsType
<1>3. SamePointers([handle EXCEPT ![s].owner = "garbage"])
  BY <1>2 DEF SamePointers, Handle, Owners
<1> QED
  BY <1>1, <1>3, OwnersKeep DEF Drop

LEMMA AbandonSame ==
  ASSUME LoadingInv, NEW s
  PROVE  SamePointers(Abandon(s, handle))
<1>1. handle \in [Slots -> Handle]
  BY DEF LoadingInv, ObjectsType
<1>2. CASE s \in Slots
  BY <1>1, <1>2 DEF SamePointers, Abandon, Handle, Owners
<1>3. CASE s \notin Slots
  <2>1. Abandon(s, handle) = handle
    BY <1>1, <1>3 DEF Abandon
  <2> QED
    BY <1>1, <2>1 DEF SamePointers
<1> QED
  BY <1>2, <1>3

LEMMA CollectKeeps ==
  ASSUME LoadingInv, Collect
  PROVE  LoadingInv'
<1>1. BackendsType /\ ObjectsType /\ OwnedByHandle /\ BackendsReady
      /\ EarlyActivationTakesEffect
  BY DEF LoadingInv
<1>2. UNCHANGED <<initialized, cudaPath, cudaLoaded, registry, asked, devices>>
  BY DEF Collect, backends
<1>3. PICK s \in Slots :
        /\ model' = [model EXCEPT ![s] = Forgotten(IF handle[s].model THEN Freed(@) ELSE @)]
        /\ context' = [context EXCEPT ![s] = Forgotten(IF handle[s].ctx THEN Freed(@) ELSE @)]
        /\ handle' = [handle EXCEPT ![s] = NoHandle]
  BY DEF Collect
<1>4. /\ model[s] = "live" <=> handle[s].model
      /\ context[s] = "live" <=> handle[s].ctx
      /\ "freed twice" \notin {model[s], context[s]}
  BY <1>1 DEF OwnedByHandle
<1>5. /\ model'[s] \in {"none", "freed"} \cup (Fates \ {"live", "freed twice"})
      /\ context'[s] \in {"none", "freed"} \cup (Fates \ {"live", "freed twice"})
  BY <1>1, <1>3, <1>4 DEF ObjectsType, Forgotten, Freed, Fates
<1>6. NoHandle \in Handle /\ ~NoHandle.model /\ ~NoHandle.ctx
  BY DEF NoHandle, Handle, Owners
<1>7. /\ handle'[s] = NoHandle
      /\ \A r \in Slots \ {s} : /\ model'[r] = model[r] /\ context'[r] = context[r]
                                /\ handle'[r] = handle[r]
  BY <1>1, <1>3 DEF ObjectsType
<1>8. ObjectsType'
  <2>1. model'[s] \in Fates /\ context'[s] \in Fates
    BY <1>5 DEF Fates
  <2>2. model' \in [Slots -> Fates] /\ context' \in [Slots -> Fates]
    BY <1>1, <1>3, <1>7, <2>1 DEF ObjectsType
  <2>3. handle' \in [Slots -> Handle]
    BY <1>1, <1>3, <1>6 DEF ObjectsType
  <2> QED
    BY <1>1, <1>2, <2>2, <2>3 DEF ObjectsType
<1>9. OwnedByHandle'
  <2>1. Owned(model'[s], context'[s], handle'[s])
    BY <1>5, <1>6, <1>7 DEF Owned, Fates
  <2>2. ASSUME NEW r \in Slots \ {s} PROVE Owned(model'[r], context'[r], handle'[r])
    BY <1>1, <1>7, OwnedEverywhere
  <2> QED
    BY <2>1, <2>2 DEF OwnedByHandle, Owned
<1>10. BackendsReady' /\ EarlyActivationTakesEffect'
  BY <1>1, <1>2, <1>5, <1>7 DEF BackendsReady, EarlyActivationTakesEffect, Fates
<1> QED
  BY <1>1, <1>2, <1>8, <1>9, <1>10 DEF LoadingInv, BackendsType

LEMMA LoadingSame ==
  ASSUME LoadingInv, UNCHANGED loading
  PROVE  LoadingInv'
<1>1. /\ UNCHANGED <<initialized, cudaPath, cudaLoaded, registry, asked>>
      /\ UNCHANGED <<model, context, devices, handle>>
  BY DEF loading, backends, objects
<1>2. BackendsType' /\ BackendsReady' /\ EarlyActivationTakesEffect'
  BY <1>1 DEF LoadingInv, BackendsType, BackendsReady, EarlyActivationTakesEffect
<1>3. ObjectsType' /\ OwnedByHandle'
  BY <1>1 DEF LoadingInv, ObjectsType, OwnedByHandle
<1> QED
  BY <1>2, <1>3 DEF LoadingInv

LEMMA LoadingStart ==
  ASSUME LoadingInit
  PROVE  LoadingInv
<1>1. BackendsType
  <2>1. <<>> \in Seq(Backend)
    OBVIOUS
  <2> QED
    BY <2>1 DEF LoadingInit, BackendsType
<1>2. NoHandle \in Handle /\ ~NoHandle.model /\ ~NoHandle.ctx
  BY DEF NoHandle, Handle, Owners
<1>3. /\ model = [s \in Slots |-> "none"] /\ context = [s \in Slots |-> "none"]
      /\ devices = [s \in Slots |-> <<>>] /\ handle = [s \in Slots |-> NoHandle]
      /\ initialized = FALSE
  BY DEF LoadingInit, NoObjects
<1>4. ObjectsType
  <2>1. <<>> \in Seq({"GPU"}) /\ "none" \in Fates
    BY DEF Fates
  <2> QED
    BY <1>2, <1>3, <2>1 DEF ObjectsType
<1>5. ASSUME NEW s \in Slots PROVE Owned(model[s], context[s], handle[s])
  BY <1>2, <1>3 DEF Owned
<1>6. BackendsReady /\ EarlyActivationTakesEffect
  BY <1>3 DEF BackendsReady, EarlyActivationTakesEffect
<1> QED
  BY <1>1, <1>4, <1>5, <1>6, OwnedEverywhere DEF LoadingInv

\* What a scan, a user and the garbage collector do to the models are steps of
\* ModelLoading.
LEMMA LoadingNext == LoadingInv /\ [Next]_vars => LoadingInv'
<1> SUFFICES ASSUME LoadingInv, [Next]_vars PROVE LoadingInv'
  OBVIOUS
<1>1. CASE TestLoads
  BY <1>1, LoadKeeps, AbandonSame DEF TestLoads
<1>2. CASE TestRefused
  BY <1>2, LoadingSame, RefusedKeeps, ThrowsKeeps DEF TestRefused
<1>3. CASE TestAnswers
  BY <1>3, FreeKeeps DEF TestAnswers
<1>4. CASE Return \/ CopyStops
  BY <1>4, OwnersKeep, AbandonSame DEF Return, CopyStops
<1>5. CASE \/ Begin \/ TakeFile \/ TestFails
           \/ ChooseName \/ PlaceLink \/ LinkNotMade \/ PlaceCopy \/ CopyFails
  BY <1>5, LoadingSame
  DEF Begin, TakeFile, TestFails, ChooseName, PlaceLink, LinkNotMade, PlaceCopy, CopyFails
<1>6. CASE User
  <2>1. SamePointers(handle)
    BY DEF LoadingInv, ObjectsType, SamePointers
  <2>2. CASE UserLoads
    BY <2>1, <2>2, LoadKeeps, RefusedKeeps, ThrowsKeeps DEF UserLoads
  <2>3. CASE UserFrees \/ NameLibrary \/ Drop
    BY <2>3, FreeKeeps, NameKeeps, DropKeeps DEF UserFrees
  <2> QED
    BY <1>6, <2>2, <2>3 DEF User
<1>7. CASE CollectGarbage
  BY <1>7, CollectKeeps DEF CollectGarbage
<1>8. CASE Vanish \/ Replace
  BY <1>8, LoadingSame DEF Vanish, Replace
<1>9. CASE UNCHANGED vars
  BY <1>9, LoadingSame DEF vars, loading
<1> QED
  BY <1>1, <1>2, <1>3, <1>4, <1>5, <1>6, <1>7, <1>8, <1>9 DEF Next, Scan

LEMMA LoadingInvariance == Spec => []LoadingInv
<1>1. Init => LoadingInv
  BY LoadingStart DEF Init
<1> QED
  BY <1>1, LoadingNext, PTL DEF Spec

-----------------------------------------------------------------------------
(***************************************************************************)
(* Links.                                                                  *)
(***************************************************************************)

Below == {p \in Nat \X Nat : p[1] < p[2]}

\* A set of natural numbers has a least element.
LEMMA FirstOfSome ==
  ASSUME NEW S, S \subseteq Nat, S # {}
  PROVE  \E i \in S : \A j \in S : i <= j
<1>1. IsWellFoundedOn(Below, Nat)
  <2>1. Below = OpToRel(<, Nat)
    BY DEF Below, OpToRel
  <2> QED
    BY <2>1, NatLessThanWellFounded
<1>2. PICK i \in S : \A j \in S : ~(<<j, i>> \in Below)
  BY <1>1, WFMin
<1>3. ASSUME NEW j \in S PROVE i <= j
  <2>1. i \in Nat /\ j \in Nat
    OBVIOUS
  <2>2. <<j, i>> \in Nat \X Nat /\ <<j, i>>[1] = j /\ <<j, i>>[2] = i
    BY <2>1
  <2>3. ~(j < i)
    BY <1>2, <2>2 DEF Below
  <2> QED
    BY <2>1, <2>3
<1> QED
  BY <1>3

\* What holds before the first hop, and after each if before it, holds after the last.
LEMMA UpTheHops ==
  ASSUME NEW N \in Nat, NEW T, 0 \in T, \A n \in 1..N : n - 1 \in T => n \in T
  PROVE  \A n \in 0..N : n \in T
<1> DEFINE S == {n \in 0..N : n \notin T}
<1>1. SUFFICES ASSUME S # {} PROVE FALSE
  OBVIOUS
<1>2. S \subseteq Nat
  OBVIOUS
<1>3. PICK m \in S : \A j \in S : m <= j
  <2> HIDE DEF S
  <2> QED
    BY <1>1, <1>2, FirstOfSome
<1>4. m \in 1..N /\ m - 1 \in 0..N
  BY <1>3
<1>5. m - 1 \notin S
  BY <1>3, <1>4
<1> QED
  BY <1>3, <1>4, <1>5

\* The paths that a chain of links goes through.
Chain(files, path, N, at) ==
  /\ DOMAIN at = 0..N
  /\ at[0] = path
  /\ \A n \in 1..N : at[n] = Hop(files, at[n - 1])

LEMMA ChainExists ==
  ASSUME NEW files, NEW path, NEW N \in Nat
  PROVE  \E at : Chain(files, path, N, at) /\ at = [n \in 0..N |-> at[n]]
<1> DEFINE Reaches(k) == \E at : Chain(files, path, k, at) /\ at = [n \in 0..k |-> at[n]]
           T == {k \in 0..N : Reaches(k)}
<1>1. 0 \in T
  <2>1. Chain(files, path, 0, [n \in 0..0 |-> path])
    BY DEF Chain
  <2> QED
    BY <2>1
<1>2. ASSUME NEW k \in 1..N, k - 1 \in T PROVE k \in T
  <2>1. PICK at : Chain(files, path, k - 1, at)
    BY <1>2
  <2> DEFINE more == [n \in 0..k |-> IF n = k THEN Hop(files, at[k - 1]) ELSE at[n]]
  <2>2. more[0] = path
    BY <2>1 DEF Chain
  <2>3. ASSUME NEW n \in 1..k PROVE more[n] = Hop(files, more[n - 1])
    <3>1. CASE n = k
      BY <3>1
    <3>2. CASE n # k
      <4>1. n \in 1..(k - 1) /\ n - 1 \in 0..k /\ n - 1 # k
        BY <3>2
      <4>2. more[n] = at[n] /\ more[n - 1] = at[n - 1]
        BY <3>2, <4>1
      <4>3. at[n] = Hop(files, at[n - 1])
        BY <2>1, <4>1 DEF Chain
      <4> HIDE DEF more
      <4> QED
        BY <4>2, <4>3
    <3> QED
      BY <3>1, <3>2
  <2>4. Chain(files, path, k, more)
    <3>1. DOMAIN more = 0..k
      OBVIOUS
    <3> HIDE DEF more
    <3> QED
      BY <2>2, <2>3, <3>1 DEF Chain
  <2>5. more = [n \in 0..k |-> more[n]]
    OBVIOUS
  <2> HIDE DEF more
  <2>6. Reaches(k)
    BY <2>4, <2>5
  <2> HIDE DEF Reaches
  <2> QED
    BY <2>6
<1>3. N \in T
  <2> HIDE DEF T
  <2>1. \A n \in 0..N : n \in T
    BY <1>1, <1>2, UpTheHops
  <2> QED
    BY <2>1
<1> QED
  BY <1>3

\* There is only one.
LEMMA ChainUnique ==
  ASSUME NEW files, NEW path, NEW N \in Nat, NEW at, Chain(files, path, N, at),
         NEW M \in Nat, N <= M, NEW ay, Chain(files, path, M, ay)
  PROVE  \A n \in 0..N : ay[n] = at[n]
<1> DEFINE T == {n \in 0..N : ay[n] = at[n]}
<1>1. 0 \in T
  BY DEF Chain
<1>2. ASSUME NEW n \in 1..N, n - 1 \in T PROVE n \in T
  <2>1. ay[n - 1] = at[n - 1] /\ n \in 1..M
    BY <1>2
  <2>2. at[n] = Hop(files, at[n - 1]) /\ ay[n] = Hop(files, ay[n - 1])
    BY <2>1 DEF Chain
  <2> QED
    BY <2>1, <2>2
<1>3. \A n \in 0..N : n \in T
  <2> HIDE DEF T
  <2> QED
    BY <1>1, <1>2, UpTheHops
<1> QED
  BY <1>3

Hops(files) == Cardinality(DOMAIN files)

\* Follow is where the chain ends.
LEMMA FollowChain ==
  ASSUME NEW files, IsFiniteSet(DOMAIN files), NEW path,
         NEW at, Chain(files, path, Hops(files), at)
  PROVE  Follow(files, path) = IF IsLink(files, at[Hops(files)]) THEN Nowhere ELSE at[Hops(files)]
<1> DEFINE hops == Hops(files)
           step(f) == [n \in 0..hops |-> IF n = 0 THEN path ELSE Hop(files, f[n - 1])]
           chosen == CHOOSE f : f = step(f)
<1>1. hops \in Nat
  BY FS_CardinalityType DEF Hops
<1>2. Follow(files, path) = IF IsLink(files, chosen[hops]) THEN Nowhere ELSE chosen[hops]
  BY DEF Follow, Hops
<1> HIDE DEF hops
<1>3. PICK ac : Chain(files, path, hops, ac) /\ ac = [n \in 0..hops |-> ac[n]]
  BY <1>1, ChainExists
<1>4. ac = step(ac)
  <2>1. ASSUME NEW n \in 0..hops PROVE ac[n] = step(ac)[n]
    <3>1. CASE n = 0
      BY <1>3, <3>1 DEF Chain
    <3>2. CASE n # 0
      <4>1. n \in 1..hops
        BY <1>1, <3>2
      <4> QED
        BY <1>3, <3>2, <4>1 DEF Chain
    <3> QED
      BY <3>1, <3>2
  <2> QED
    BY <1>3, <2>1
<1>5. chosen = step(chosen)
  <2> HIDE DEF step
  <2> QED
    BY <1>4
<1> HIDE DEF chosen
<1>6. DOMAIN chosen = 0..hops /\ chosen[0] = path
  BY <1>1, <1>5
<1>7. ASSUME NEW n \in 1..hops PROVE chosen[n] = Hop(files, chosen[n - 1])
  <2>1. n \in 0..hops /\ n # 0
    BY <1>1
  <2>2. step(chosen)[n] = Hop(files, chosen[n - 1])
    BY <2>1
  <2> HIDE DEF step
  <2> QED
    BY <1>5, <2>2
<1>8. Chain(files, path, hops, chosen)
  BY <1>6, <1>7 DEF Chain
<1>9. chosen[hops] = at[hops]
  <2>1. Chain(files, path, hops, at)
    BY DEF hops
  <2>2. \A n \in 0..hops : chosen[n] = at[n]
    BY <1>1, <1>8, <2>1, ChainUnique
  <2> QED
    BY <1>1, <2>2
<1> QED
  BY <1>2, <1>9 DEF hops

\* What is not a link leads to itself.
LEMMA FollowNoLink ==
  ASSUME NEW files, IsFiniteSet(DOMAIN files), NEW path, ~IsLink(files, path)
  PROVE  Follow(files, path) = path
<1> DEFINE N == Hops(files)
<1>1. N \in Nat
  BY FS_CardinalityType DEF Hops
<1>2. PICK at : Chain(files, path, N, at)
  BY <1>1, ChainExists
<1> DEFINE T == {n \in 0..N : at[n] = path}
<1>3. 0 \in T
  BY <1>1, <1>2 DEF Chain
<1>4. ASSUME NEW n \in 1..N, n - 1 \in T PROVE n \in T
  BY <1>1, <1>2, <1>4 DEF Chain, Hop
<1>5. N \in T
  <2> HIDE DEF T, N
  <2>1. \A n \in 0..N : n \in T
    BY <1>1, <1>3, <1>4, UpTheHops
  <2> QED
    BY <1>1, <2>1
<1> QED
  BY <1>2, <1>5, FollowChain

\* A chain of links that lead among some places, or nowhere, ends there.
LEMMA FollowType ==
  ASSUME NEW files, IsFiniteSet(DOMAIN files), NEW P, NoFile \notin P,
         \A p \in DOMAIN files : files[p].link \in P \cup {NoFile, Nowhere},
         NEW path \in P
  PROVE  Follow(files, path) \in P \cup {Nowhere}
<1> DEFINE N == Hops(files)
<1>1. N \in Nat
  BY FS_CardinalityType DEF Hops
<1>2. PICK at : Chain(files, path, N, at)
  BY <1>1, ChainExists
<1> DEFINE T == {n \in 0..N : at[n] \in P \cup {Nowhere}}
<1>3. 0 \in T
  BY <1>1, <1>2 DEF Chain
<1>4. ASSUME NEW n \in 1..N, n - 1 \in T PROVE n \in T
  <2>1. at[n] = Hop(files, at[n - 1]) /\ at[n - 1] \in P \cup {Nowhere}
    BY <1>1, <1>2, <1>4 DEF Chain
  <2>2. Hop(files, at[n - 1]) \in P \cup {Nowhere}
    BY <2>1 DEF Hop, IsLink
  <2> QED
    BY <2>1, <2>2
<1>5. N \in T
  <2> HIDE DEF T, N
  <2>1. \A n \in 0..N : n \in T
    BY <1>1, <1>3, <1>4, UpTheHops
  <2> QED
    BY <1>1, <2>1
<1> QED
  BY <1>2, <1>5, FollowChain

\* A directory with one path more.
Grown(files, more, t) ==
  /\ t \notin DOMAIN files
  /\ DOMAIN more = DOMAIN files \cup {t}
  /\ \A p \in DOMAIN files : more[p] = files[p]

\* A chain that ends at a file does not come past the new path.
LEMMA GrownChain ==
  ASSUME NEW files, IsFiniteSet(DOMAIN files), NEW more, NEW t, Grown(files, more, t),
         NEW path, Follow(files, path) \in DOMAIN files, Nowhere \notin DOMAIN files,
         NEW at, Chain(more, path, Hops(files) + 1, at)
  PROVE  /\ ~IsLink(more, Follow(files, path))
         /\ at[Hops(files)] = Follow(files, path)
         /\ at[Hops(files) + 1] = Follow(files, path)
<1> DEFINE N == Hops(files)
           e == Follow(files, path)
<1>1. N \in Nat
  BY FS_CardinalityType DEF Hops
<1>2. PICK ao : Chain(files, path, N, ao)
  BY <1>1, ChainExists
<1>3. ao[N] = e /\ ~IsLink(files, e) /\ e \in DOMAIN files
  <2>1. e = IF IsLink(files, ao[N]) THEN Nowhere ELSE ao[N]
    BY <1>2, FollowChain
  <2> QED
    BY <2>1
<1> HIDE DEF e, N
<1> DEFINE T == {n \in 0..N : at[n] = ao[n] \/ ao[n] = t}
<1>4. Chain(more, path, N + 1, at)
  BY DEF N
<1>5. 0 \in T
  BY <1>1, <1>2, <1>4 DEF Chain
<1>6. ASSUME NEW n \in 1..N, n - 1 \in T PROVE n \in T
  <2>1. ao[n] = Hop(files, ao[n - 1]) /\ at[n] = Hop(more, at[n - 1])
    BY <1>1, <1>2, <1>4 DEF Chain
  <2>2. CASE ao[n - 1] = t
    BY <2>1, <2>2 DEF Grown, Hop, IsLink
  <2>3. CASE ao[n - 1] # t
    <3>1. at[n - 1] = ao[n - 1]
      BY <1>6, <2>3
    <3>2. Hop(more, ao[n - 1]) = Hop(files, ao[n - 1])
      BY <2>3 DEF Grown, Hop, IsLink
    <3> QED
      BY <2>1, <3>1, <3>2
  <2> QED
    BY <2>2, <2>3
<1>7. N \in T
  <2> HIDE DEF T
  <2>1. \A n \in 0..N : n \in T
    BY <1>1, <1>5, <1>6, UpTheHops
  <2> QED
    BY <1>1, <2>1
<1>8. e # t /\ ~IsLink(more, e)
  BY <1>3 DEF Grown, IsLink
<1>9. at[N] = e
  BY <1>3, <1>7, <1>8
<1>10. at[N + 1] = e
  <2>1. N + 1 \in 1..(N + 1) /\ (N + 1) - 1 = N
    BY <1>1
  <2>2. at[N + 1] = Hop(more, at[N])
    BY <1>4, <2>1 DEF Chain
  <2> QED
    BY <1>8, <1>9, <2>2 DEF Hop
<1> QED
  BY <1>8, <1>9, <1>10 DEF e, N

LEMMA GrownHops ==
  ASSUME NEW files, IsFiniteSet(DOMAIN files), NEW more, NEW t, Grown(files, more, t)
  PROVE  /\ IsFiniteSet(DOMAIN more)
         /\ Hops(files) \in Nat
         /\ Hops(more) = Hops(files) + 1
BY FS_AddElement, FS_CardinalityType DEF Grown, Hops

\* What led to a file still does, ...
LEMMA GrownFollow ==
  ASSUME NEW files, IsFiniteSet(DOMAIN files), NEW more, NEW t, Grown(files, more, t),
         NEW path, Follow(files, path) \in DOMAIN files, Nowhere \notin DOMAIN files
  PROVE  Follow(more, path) = Follow(files, path)
<1>1. /\ IsFiniteSet(DOMAIN more) /\ Hops(files) \in Nat
      /\ Hops(more) = Hops(files) + 1 /\ Hops(more) \in Nat
  BY GrownHops
<1>2. PICK at : Chain(more, path, Hops(more), at)
  BY <1>1, ChainExists
<1>3. at[Hops(more)] = Follow(files, path) /\ ~IsLink(more, Follow(files, path))
  <2>1. Chain(more, path, Hops(files) + 1, at)
    BY <1>1, <1>2
  <2> QED
    BY <1>1, <2>1, GrownChain
<1> QED
  BY <1>1, <1>2, <1>3, FollowChain

\* ... and a new link leads to where its path does.
LEMMA GrownLink ==
  ASSUME NEW files, IsFiniteSet(DOMAIN files), NEW more, NEW t, Grown(files, more, t),
         NEW path, Follow(files, path) \in DOMAIN files, Nowhere \notin DOMAIN files,
         more[t].link = path, path # NoFile
  PROVE  Follow(more, t) = Follow(files, path)
<1> DEFINE N == Hops(files)
<1>1. /\ IsFiniteSet(DOMAIN more) /\ N \in Nat /\ Hops(more) = N + 1 /\ N + 1 \in Nat
  BY GrownHops
<1>2. PICK at : Chain(more, t, N + 1, at)
  BY <1>1, ChainExists
<1>3. PICK ao : Chain(more, path, N + 1, ao)
  BY <1>1, ChainExists
<1>4. ao[N] = Follow(files, path) /\ ~IsLink(more, Follow(files, path))
  BY <1>3, GrownChain
<1> HIDE DEF N
<1> DEFINE T == {n \in 0..N : at[n + 1] = ao[n]}
<1>5. 0 \in T
  <2>1. at[1] = Hop(more, at[0]) /\ at[0] = t /\ ao[0] = path
    BY <1>1, <1>2, <1>3 DEF Chain
  <2>2. Hop(more, t) = path
    BY DEF Hop, IsLink, Grown
  <2> QED
    BY <1>1, <2>1, <2>2
<1>6. ASSUME NEW n \in 1..N, n - 1 \in T PROVE n \in T
  <2>1. n \in 1..(N + 1) /\ n + 1 \in 1..(N + 1) /\ (n + 1) - 1 = n /\ (n - 1) + 1 = n
    BY <1>1
  <2>2. at[n] = ao[n - 1]
    BY <1>6, <2>1
  <2>3. at[n + 1] = Hop(more, at[n]) /\ ao[n] = Hop(more, ao[n - 1])
    BY <1>2, <1>3, <2>1 DEF Chain
  <2> QED
    BY <2>2, <2>3
<1>7. N \in T
  <2> HIDE DEF T
  <2>1. \A n \in 0..N : n \in T
    BY <1>1, <1>5, <1>6, UpTheHops
  <2> QED
    BY <1>1, <2>1
<1>8. at[N + 1] = Follow(files, path)
  BY <1>4, <1>7
<1> QED
  BY <1>1, <1>2, <1>4, <1>8, FollowChain

-----------------------------------------------------------------------------
(***************************************************************************)
(* Links in a directory of which one path changes.                         *)
(***************************************************************************)

LEMMA Crowded ==
  ASSUME NEW P, IsFiniteSet(P), NEW f \in [0..Cardinality(P) -> P]
  PROVE  \E x, y \in 0..Cardinality(P) : x # y /\ f[x] = f[y]
<1> DEFINE S == 0..Cardinality(P)
<1>1. Cardinality(P) \in Nat
  BY FS_CardinalityType
<1>2. IsFiniteSet(S) /\ Cardinality(S) = Cardinality(P) + 1
  BY <1>1, FS_Interval
<1>3. Cardinality(P) < Cardinality(S) /\ f \in [S -> P]
  BY <1>1, <1>2
<1> HIDE DEF S
<1>4. \E x, y \in S : x # y /\ f[x] = f[y]
  BY <1>2, <1>3, FS_PigeonHole
<1> QED
  BY <1>4 DEF S

\* A chain that has come to a path that is no link stays there.
LEMMA Rests ==
  ASSUME NEW files, NEW path, NEW N \in Nat, NEW at, Chain(files, path, N, at),
         NEW m \in 0..N, ~IsLink(files, at[m])
  PROVE  at[N] = at[m]
<1> DEFINE T == {n \in 0..N : n >= m => at[n] = at[m]}
<1>1. 0 \in T
  OBVIOUS
<1>2. ASSUME NEW n \in 1..N, n - 1 \in T PROVE n \in T
  <2>1. at[n] = Hop(files, at[n - 1])
    BY DEF Chain
  <2>2. CASE n - 1 >= m
    <3>1. at[n - 1] = at[m]
      BY <1>2, <2>2
    <3>2. at[n] = at[m]
      BY <2>1, <3>1 DEF Hop
    <3> QED
      BY <3>2
  <2>3. CASE ~(n - 1 >= m)
    <3>1. n >= m => n = m
      BY <2>3
    <3> QED
      BY <3>1
  <2> QED
    BY <2>2, <2>3
<1>3. N \in T
  <2> HIDE DEF T
  <2>1. \A n \in 0..N : n \in T
    BY <1>1, <1>2, UpTheHops
  <2> QED
    BY <2>1
<1> QED
  BY <1>3

\* A chain that has gone through as many links as there are paths goes around in a
\* circle: if one more hop ends it, it had ended before.
LEMMA LastHop ==
  ASSUME NEW files, IsFiniteSet(DOMAIN files), NEW path,
         NEW at, Chain(files, path, Hops(files) + 1, at),
         ~IsLink(files, at[Hops(files) + 1])
  PROVE  at[Hops(files)] = at[Hops(files) + 1]
<1> DEFINE N == Hops(files)
<1>1. N \in Nat /\ Chain(files, path, N + 1, at) /\ ~IsLink(files, at[N + 1])
  BY FS_CardinalityType DEF Hops
<1>2. CASE ~IsLink(files, at[N])
  <2>1. N \in 0..(N + 1) /\ N + 1 \in Nat
    BY <1>1
  <2> HIDE DEF N
  <2>2. at[N + 1] = at[N]
    BY <1>1, <1>2, <2>1, Rests
  <2> QED
    BY <2>2 DEF N
<1>3. CASE IsLink(files, at[N])
  <2> SUFFICES FALSE
    OBVIOUS
  <2>1. ASSUME NEW n \in 0..N PROVE IsLink(files, at[n])
    <3> SUFFICES ASSUME ~IsLink(files, at[n]) PROVE FALSE
      OBVIOUS
    <3>1. n \in 0..(N + 1) /\ N + 1 \in Nat
      BY <1>1
    <3> HIDE DEF N
    <3>2. at[N + 1] = at[n]
      BY <1>1, <3>1, Rests
    <3>3. PICK part : Chain(files, path, N, part)
      BY <1>1, ChainExists
    <3>4. \A k \in 0..N : at[k] = part[k]
      BY <1>1, <3>1, <3>3, ChainUnique
    <3>5. part[N] = part[n]
      BY <1>1, <3>3, <3>4, Rests
    <3> QED
      BY <1>1, <1>3, <3>4, <3>5
  <2> DEFINE f == [n \in 0..N |-> at[n]]
  <2>2. f \in [0..N -> DOMAIN files]
    BY <2>1 DEF IsLink
  <2>3. \E x, y \in 0..N : x # y /\ f[x] = f[y]
    <3> HIDE DEF f
    <3> QED
      BY <2>2, Crowded DEF N, Hops
  <2>4. PICK x \in 0..N, y \in 0..N : x < y /\ at[x] = at[y]
    <3>1. PICK x \in 0..N, y \in 0..N : x # y /\ at[x] = at[y]
      BY <2>3
    <3>2. x < y \/ y < x
      BY <1>1, <3>1
    <3> QED
      BY <3>1, <3>2
  <2> HIDE DEF N, f
  <2> DEFINE L == (N + 1) - y
             T == {k \in 0..L : at[x + k] = at[y + k]}
  <2>5. L \in Nat /\ x + L \in 0..N /\ y + L = N + 1
    BY <1>1, <2>4
  <2>6. 0 \in T
    BY <1>1, <2>4
  <2>7. ASSUME NEW k \in 1..L, k - 1 \in T PROVE k \in T
    <3>1. at[x + (k - 1)] = at[y + (k - 1)]
      BY <2>7
    <3>2. /\ x + k \in 1..(N + 1) /\ y + k \in 1..(N + 1)
          /\ (x + k) - 1 = x + (k - 1) /\ (y + k) - 1 = y + (k - 1)
      BY <1>1, <2>4
    <3>3. at[x + k] = Hop(files, at[x + (k - 1)]) /\ at[y + k] = Hop(files, at[y + (k - 1)])
      BY <1>1, <3>2 DEF Chain
    <3> QED
      BY <3>1, <3>3
  <2>8. L \in T
    <3> HIDE DEF T, L
    <3>1. \A k \in 0..L : k \in T
      BY <2>5, <2>6, <2>7, UpTheHops
    <3> QED
      BY <2>5, <3>1
  <2>9. at[x + L] = at[N + 1]
    BY <2>5, <2>8
  <2> QED
    BY <1>1, <2>1, <2>5, <2>9
<1> QED
  BY <1>2, <1>3

\* What a path leads to is no link.
LEMMA FollowEnds ==
  ASSUME NEW files, IsFiniteSet(DOMAIN files), NEW path
  PROVE  Follow(files, path) = Nowhere \/ ~IsLink(files, Follow(files, path))
<1>1. Hops(files) \in Nat
  BY FS_CardinalityType DEF Hops
<1>2. PICK at : Chain(files, path, Hops(files), at)
  BY <1>1, ChainExists
<1> QED
  BY <1>2, FollowChain

\* Directories that are the same but for one path.
SameBut(files, more, p) ==
  \A q : q # p => /\ q \in DOMAIN more <=> q \in DOMAIN files
                  /\ q \in DOMAIN files => more[q] = files[q]

\* A chain that comes through the path that changed goes on from there.
LEMMA Through ==
  ASSUME NEW more, IsFiniteSet(DOMAIN more), NEW path, NEW p,
         NEW at, Chain(more, path, Hops(more), at),
         NEW n \in 0..Hops(more), at[n] = p
  PROVE  Follow(more, path) \in {Follow(more, p), Nowhere}
<1> DEFINE M == Hops(more)
<1>1. M \in Nat
  BY FS_CardinalityType DEF Hops
<1>2. PICK az : Chain(more, p, M, az)
  BY <1>1, ChainExists
<1>3. Chain(more, path, M, at) /\ n \in 0..M
  OBVIOUS
<1>4. Follow(more, path) = IF IsLink(more, at[M]) THEN Nowhere ELSE at[M]
  BY FollowChain
<1>5. Follow(more, p) = IF IsLink(more, az[M]) THEN Nowhere ELSE az[M]
  BY <1>2, FollowChain
<1> HIDE DEF M
<1> DEFINE L == M - n
           T == {k \in 0..L : at[n + k] = az[k]}
<1>6. L \in Nat /\ n + L = M /\ L \in 0..M
  BY <1>1, <1>3
<1>7. 0 \in T
  BY <1>1, <1>2, <1>3, <1>6 DEF Chain
<1>8. ASSUME NEW k \in 1..L, k - 1 \in T PROVE k \in T
  <2>1. at[n + (k - 1)] = az[k - 1]
    BY <1>8
  <2>2. n + k \in 1..M /\ k \in 1..M /\ (n + k) - 1 = n + (k - 1)
    BY <1>1, <1>3
  <2>3. at[n + k] = Hop(more, at[n + (k - 1)]) /\ az[k] = Hop(more, az[k - 1])
    BY <1>2, <1>3, <2>2 DEF Chain
  <2> QED
    BY <2>1, <2>3
<1>9. L \in T
  <2> HIDE DEF T, L
  <2>1. \A k \in 0..L : k \in T
    BY <1>6, <1>7, <1>8, UpTheHops
  <2> QED
    BY <1>6, <2>1
<1>10. at[M] = az[L]
  BY <1>6, <1>9
<1>11. ~IsLink(more, az[L]) => az[M] = az[L]
  <2> HIDE DEF L
  <2> QED
    BY <1>1, <1>2, <1>6, Rests
<1> QED
  BY <1>4, <1>5, <1>10, <1>11

\* After one path changed a chain ends where it did, where that path leads, or nowhere.
LEMMA Elsewhere ==
  ASSUME NEW files, IsFiniteSet(DOMAIN files), NEW more, IsFiniteSet(DOMAIN more),
         NEW p, SameBut(files, more, p), Hops(more) <= Hops(files) + 1, NEW path
  PROVE  Follow(more, path) \in {Follow(more, p), Follow(files, path), Nowhere}
<1> DEFINE M == Hops(more)
           N == Hops(files)
<1>1. M \in Nat /\ N \in Nat /\ M <= N + 1 /\ N + 1 \in Nat
  BY FS_CardinalityType DEF Hops
<1>2. PICK am : Chain(more, path, M, am)
  BY <1>1, ChainExists
<1>3. PICK ao : Chain(files, path, N + 1, ao)
  BY <1>1, ChainExists
<1>4. PICK ap : Chain(files, path, N, ap)
  BY <1>1, ChainExists
<1>5. Follow(more, path) = IF IsLink(more, am[M]) THEN Nowhere ELSE am[M]
  BY <1>2, FollowChain
<1>6. Follow(files, path) = IF IsLink(files, ao[N]) THEN Nowhere ELSE ao[N]
  <2>1. ap[N] = ao[N]
    <3> HIDE DEF N
    <3>1. N <= N + 1 /\ N \in 0..N
      BY <1>1
    <3>2. \A n \in 0..N : ao[n] = ap[n]
      BY <1>1, <1>3, <1>4, <3>1, ChainUnique
    <3> QED
      BY <3>1, <3>2
  <2> QED
    BY <1>4, <2>1, FollowChain
<1>7. CASE \E n \in 0..M : am[n] = p
  BY <1>2, <1>7, Through
<1>8. CASE \A n \in 0..M : am[n] # p
  <2>1. ~IsLink(files, ao[N + 1]) => ao[N] = ao[N + 1]
    BY <1>3, LastHop
  <2> HIDE DEF M, N
  <2> DEFINE T == {n \in 0..M : am[n] = ao[n]}
  <2>2. 0 \in T
    BY <1>1, <1>2, <1>3 DEF Chain
  <2>3. ASSUME NEW n \in 1..M, n - 1 \in T PROVE n \in T
    <3>1. n \in 1..(N + 1) /\ n - 1 \in 0..M
      BY <1>1
    <3>2. am[n] = Hop(more, am[n - 1]) /\ ao[n] = Hop(files, ao[n - 1])
      BY <1>2, <1>3, <3>1 DEF Chain
    <3>3. am[n - 1] = ao[n - 1] /\ am[n - 1] # p
      BY <1>8, <2>3, <3>1
    <3>4. Hop(more, am[n - 1]) = Hop(files, am[n - 1])
      BY <3>3 DEF Hop, IsLink, SameBut
    <3> QED
      BY <3>2, <3>3, <3>4
  <2>4. M \in T
    <3> HIDE DEF T
    <3>1. \A n \in 0..M : n \in T
      BY <1>1, <2>2, <2>3, UpTheHops
    <3> QED
      BY <1>1, <3>1
  <2>5. am[M] = ao[M] /\ am[M] # p
    BY <1>1, <1>8, <2>4
  <2>6. ASSUME ~IsLink(more, am[M]) PROVE ao[N] = am[M] /\ ~IsLink(files, ao[N])
    <3>1. ~IsLink(files, ao[M])
      BY <2>5, <2>6 DEF IsLink, SameBut
    <3>2. M \in 0..(N + 1)
      BY <1>1
    <3>3. ao[N + 1] = ao[M]
      BY <1>1, <1>3, <3>1, <3>2, Rests
    <3> QED
      BY <2>1, <2>5, <3>1, <3>3
  <2> QED
    BY <1>5, <1>6, <2>6
<1> QED
  BY <1>7, <1>8

-----------------------------------------------------------------------------
(***************************************************************************)
(* The directory and the scan.                                             *)
(***************************************************************************)

Paths == Sources \cup Names
Somewhere == Paths \cup {NoFile}

\* A path leads to another, or nowhere.
DiskType ==
  /\ IsFiniteSet(DOMAIN disk) /\ DOMAIN disk \subseteq Paths
  /\ disk = [p \in DOMAIN disk |-> disk[p]]
  /\ \A p \in DOMAIN disk : disk[p].link \in Somewhere \cup {Nowhere}

ScanOf(models) ==
  [phase : {"idle", "next", "test", "try", "place", "write"}, todo : SUBSET Somewhere,
   file : Somewhere, target : Somewhere, temp : Slots \cup {0}, testing : BOOLEAN, linking : BOOLEAN,
   absolute : BOOLEAN, models : {models}]

FindInv ==
  /\ DiskType
  /\ scan \in ScanOf(scan.models)
  /\ scan.phase = "write" => scan.target \in Paths

\* At a file of the scan.
Busy == {"test", "try", "place", "write"}

\* A path leads to what another one does.
Leads(files, path, source) ==
  /\ {path, source} \subseteq DOMAIN files
  /\ files[Follow(files, path)].content = files[Follow(files, source)].content

\* While nobody else touches the directories every path leads to a file, every file
\* of the scan is still there, and what is reported leads where it should.
Undisturbed ==
  mishaps = 0 =>
    /\ \A p \in DOMAIN disk : Exists(p)
    /\ scan.todo \subseteq DOMAIN disk
    /\ scan.phase \in Busy => scan.file \in DOMAIN disk
    /\ scan.phase = "write" => scan.target \notin DOMAIN disk
    /\ scan.linking => scan.absolute
    /\ \A name \in DOMAIN scan.models :
         Leads(disk, scan.models[name].path, scan.models[name].source)

ReportInv == mishaps \in Nat /\ FindInv /\ Undisturbed

LEMMA NoOtherPaths ==
  NoFile \notin Paths /\ Nowhere \notin Paths
BY PathsAssumption DEF Paths

LEMMA ModelNames ==
  ASSUME NEW f \in Somewhere
  PROVE  ModelName(f) \in Names
<1>1. Seq(Labels) \subseteq Names
  BY DEF Names
<1> QED
  BY <1>1, PathsAssumption DEF ModelName, Somewhere, Paths

LEMMA CandidateNames ==
  ASSUME NEW name \in Names
  PROVE  /\ \A c \in Nat : Candidate(name, c) \in Names
         /\ \A c, d \in Nat : Candidate(name, c) = Candidate(name, d) => c = d
<1> DEFINE S == Labels \cup Nat
<1>1. name \in Seq(S) /\ Names = Seq(S)
  BY DEF Names
<1>2. ASSUME NEW c \in Nat
      PROVE  Append(name, c) \in Names /\ Append(name, c) # name
  <2>1. c \in S
    OBVIOUS
  <2> HIDE DEF S
  <2>2. /\ Append(name, c) \in Seq(S) /\ Len(Append(name, c)) = Len(name) + 1
    BY <1>1, <2>1, AppendProperties
  <2>3. Len(name) \in Nat
    BY <1>1, LenProperties
  <2> QED
    BY <1>1, <2>2, <2>3
<1>3. ASSUME NEW c \in Nat, NEW d \in Nat, Append(name, c) = Append(name, d)
      PROVE  c = d
  <2>1. c \in S /\ d \in S
    OBVIOUS
  <2> HIDE DEF S
  <2> QED
    BY <1>1, <1>3, <2>1, AppendInjective
<1> QED
  BY <1>2, <1>3 DEF Candidate

\* Nothing is where a path leads that is not in the directory.
LEMMA ExistsThere ==
  ASSUME IsFiniteSet(DOMAIN disk), NEW path, path \notin DOMAIN disk
  PROVE  End(path) = path /\ ~Exists(path)
<1>1. ~IsLink(disk, path)
  BY DEF IsLink
<1>2. Follow(disk, path) = path
  BY <1>1, FollowNoLink
<1> QED
  BY <1>2 DEF End, Exists

\* There are more candidates than paths, so that one of them is free.
LEMMA TargetFree ==
  ASSUME IsFiniteSet(DOMAIN disk), NEW name \in Names
  PROVE  Target(name) \in Names /\ ~Exists(Target(name))
<1> DEFINE K == Cardinality(DOMAIN disk)
           taken(c) == \A d \in 0..c : Exists(Candidate(name, d))
           T == {c \in 0..K : ~Exists(Candidate(name, c))}
<1>1. K \in Nat
  BY FS_CardinalityType
<1>2. T # {}
  <2> SUFFICES ASSUME T = {} PROVE FALSE
    OBVIOUS
  <2> DEFINE f == [c \in 0..K |-> Candidate(name, c)]
  <2>1. ASSUME NEW c \in 0..K PROVE Candidate(name, c) \in DOMAIN disk
    <3>1. Exists(Candidate(name, c))
      OBVIOUS
    <3> QED
      BY <3>1, ExistsThere
  <2>2. f \in [0..K -> DOMAIN disk]
    BY <2>1
  <2>3. \E x, y \in 0..K : x # y /\ f[x] = f[y]
    <3> HIDE DEF f
    <3> QED
      BY <2>2, Crowded
  <2>4. PICK x \in 0..K, y \in 0..K : x # y /\ Candidate(name, x) = Candidate(name, y)
    BY <2>3
  <2> QED
    BY <1>1, <2>4, CandidateNames
<1>3. PICK c \in T : \A d \in T : c <= d
  <2>1. T \subseteq Nat
    BY <1>1
  <2> HIDE DEF T
  <2> QED
    BY <1>2, <2>1, FirstOfSome
<1> DEFINE isFirst(i) == ~taken(i) /\ \A d \in 0..(i - 1) : taken(d)
           first == CHOOSE i \in 0..K : isFirst(i)
<1>4. c \in 0..K /\ isFirst(c)
  <2>1. c \in 0..K /\ ~Exists(Candidate(name, c))
    BY <1>3
  <2>2. ~taken(c)
    BY <1>1, <2>1
  <2>3. ASSUME NEW d \in 0..(c - 1), NEW e \in 0..d PROVE Exists(Candidate(name, e))
    <3>1. e \in 0..K /\ e < c
      BY <1>1, <2>1
    <3>2. e \notin T
      BY <1>3, <2>1, <3>1
    <3> QED
      BY <3>1, <3>2
  <2> QED
    BY <2>1, <2>2, <2>3
<1>5. first \in 0..K /\ isFirst(first)
  <2> HIDE DEF isFirst
  <2> QED
    BY <1>4
<1>6. Target(name) = Candidate(name, first)
  BY DEF Target
<1> HIDE DEF first
<1>7. ~Exists(Candidate(name, first))
  <2>1. PICK d \in 0..first : ~Exists(Candidate(name, d))
    BY <1>5
  <2>2. CASE d = first
    BY <2>1, <2>2
  <2>3. CASE d # first
    <3>1. d \in 0..(first - 1) /\ d \in 0..d
      BY <1>1, <1>5, <2>1, <2>3
    <3> QED
      BY <1>5, <2>1, <3>1
  <2> QED
    BY <2>2, <2>3
<1>8. first \in Nat
  BY <1>1, <1>5
<1> QED
  BY <1>6, <1>7, <1>8, CandidateNames

\* What a path leads to, and nothing else, is at the end of its chain.
LEMMA EndType ==
  ASSUME DiskType, NEW path \in Paths
  PROVE  End(path) \in Paths \cup {Nowhere}
<1>1. \A p \in DOMAIN disk : disk[p].link \in Paths \cup {NoFile, Nowhere}
  BY DEF DiskType, Somewhere
<1> QED
  BY <1>1, NoOtherPaths, FollowType DEF DiskType, End

\* A path that is added to a directory.
LEMMA PutType ==
  ASSUME DiskType, NEW t \in Paths, NEW x, x.link \in Somewhere \cup {Nowhere},
         disk' = Put(disk, t, x)
  PROVE  /\ DiskType'
         /\ DOMAIN disk' = DOMAIN disk \cup {t} /\ disk'[t] = x
         /\ \A p \in DOMAIN disk \ {t} : disk'[p] = disk[p]
<1>1. /\ DOMAIN disk' = DOMAIN disk \cup {t} /\ disk'[t] = x
      /\ \A p \in DOMAIN disk \ {t} : disk'[p] = disk[p]
      /\ disk' = [p \in DOMAIN disk' |-> disk'[p]]
  BY DEF Put
<1>2. IsFiniteSet(DOMAIN disk')
  BY <1>1, FS_AddElement DEF DiskType
<1> QED
  BY <1>1, <1>2 DEF DiskType

\* As long as everything leads to a file, a new file or link leaves that so.
LEMMA PutFollow ==
  ASSUME DiskType, \A p \in DOMAIN disk : Exists(p),
         NEW t \in Paths \ DOMAIN disk, NEW x, x.link \in DOMAIN disk \cup {NoFile},
         disk' = Put(disk, t, x)
  PROVE  /\ \A p \in DOMAIN disk : Exists(p)' /\ ContentAt(p)' = ContentAt(p)
         /\ Exists(t)'
         /\ x.link = NoFile => ContentAt(t)' = x.content
         /\ x.link # NoFile => ContentAt(t)' = ContentAt(x.link)
<1>1. /\ IsFiniteSet(DOMAIN disk) /\ Nowhere \notin DOMAIN disk /\ NoFile \notin DOMAIN disk
  BY NoOtherPaths DEF DiskType
<1>2. /\ Grown(disk, disk', t) /\ disk'[t] = x
      /\ IsFiniteSet(DOMAIN disk')
  <2>1. x.link \in Somewhere \cup {Nowhere}
    BY DEF DiskType, Somewhere
  <2> QED
    BY <2>1, PutType DEF Grown, DiskType
<1>3. \A p \in DOMAIN disk : Follow(disk, p) \in DOMAIN disk
  BY DEF Exists, End
<1>4. ASSUME NEW p \in DOMAIN disk PROVE Exists(p)' /\ ContentAt(p)' = ContentAt(p)
  <2>1. Follow(disk', p) = Follow(disk, p)
    BY <1>1, <1>2, <1>3, GrownFollow
  <2> QED
    BY <1>2, <1>3, <2>1 DEF Exists, ContentAt, End, Grown
<1>5. CASE x.link = NoFile
  <2>1. ~IsLink(disk', t)
    BY <1>2, <1>5 DEF IsLink
  <2>2. Follow(disk', t) = t
    BY <1>2, <2>1, FollowNoLink
  <2>3. Exists(t)' /\ ContentAt(t)' = x.content
    BY <1>2, <2>2 DEF Exists, ContentAt, End, Grown
  <2> QED
    BY <1>4, <1>5, <2>3
<1>6. CASE x.link # NoFile
  <2>1. Follow(disk', t) = Follow(disk, x.link)
    BY <1>1, <1>2, <1>3, <1>6, GrownLink
  <2>2. Follow(disk, x.link) \in DOMAIN disk
    BY <1>3, <1>6
  <2>3. Exists(t)' /\ ContentAt(t)' = ContentAt(x.link)
    BY <1>2, <2>1, <2>2 DEF Exists, ContentAt, End, Grown
  <2> QED
    BY <1>4, <1>6, <2>3
<1> QED
  BY <1>5, <1>6

LEMMA ReportStart ==
  ASSUME Init
  PROVE  ReportInv
<1>1. PICK files \in SUBSET Sources : disk \in [files -> {File(c) : c \in Contents}]
  BY DEF Init
<1>2. DOMAIN disk = files /\ IsFiniteSet(files)
  BY <1>1, PathsAssumption, FS_Subset
<1>3. \A p \in DOMAIN disk : disk[p].link = NoFile
  BY <1>1 DEF File
<1>4. DiskType
  BY <1>1, <1>2, <1>3 DEF DiskType, Paths, Somewhere
<1>5. \A p \in DOMAIN disk : Exists(p)
  <2>1. ASSUME NEW p \in DOMAIN disk PROVE Exists(p)
    <3>1. ~IsLink(disk, p)
      BY <1>3 DEF IsLink
    <3>2. Follow(disk, p) = p
      BY <1>2, <3>1, FollowNoLink
    <3> QED
      BY <3>2 DEF Exists, End
  <2> QED
    BY <2>1
<1>6. scan = NoScan /\ mishaps = 0
  BY DEF Init
<1>7. scan \in ScanOf(scan.models)
  BY <1>6 DEF NoScan, ScanOf, Somewhere
<1>8. scan.phase = "idle" /\ scan.todo = {} /\ ~scan.linking /\ DOMAIN scan.models = {}
  BY <1>6 DEF NoScan
<1>9. Undisturbed
  BY <1>5, <1>8 DEF Undisturbed, Busy
<1> QED
  BY <1>4, <1>6, <1>7, <1>8, <1>9 DEF ReportInv, FindInv

-----------------------------------------------------------------------------
(***************************************************************************)
(* Steps that leave the directory as it is.                                *)
(***************************************************************************)

\* Paths lead where they led.
LEMMA SameDisk ==
  ASSUME UNCHANGED disk
  PROVE  /\ DiskType => DiskType'
         /\ \A p : Exists(p)' = Exists(p) /\ ContentAt(p)' = ContentAt(p)
BY DEF DiskType, Exists, ContentAt, End

\* The scan goes on with files it had, and has nothing new to report.
LEMMA ScanGoesOn ==
  ASSUME ReportInv, UNCHANGED <<disk, mishaps>>,
         scan' \in ScanOf(scan.models),
         scan'.todo \subseteq scan.todo,
         scan'.phase \in Busy => scan'.file \in scan.todo \cup {scan.file},
         scan'.phase \in Busy /\ scan'.file \notin scan.todo => scan.phase \in Busy,
         scan'.phase = "write" => scan'.target \in Paths /\ ~Exists(scan'.target),
         scan'.linking = scan.linking, scan'.absolute = scan.absolute
  PROVE  ReportInv'
<1>1. DiskType' /\ \A p : Exists(p)' = Exists(p) /\ ContentAt(p)' = ContentAt(p)
  BY SameDisk DEF ReportInv, FindInv
<1>2. scan'.models = scan.models
  BY DEF ScanOf
<1>3. Undisturbed'
  <2> SUFFICES ASSUME mishaps' = 0 PROVE Undisturbed'
    BY DEF Undisturbed
  <2>1. /\ \A p \in DOMAIN disk : Exists(p)
        /\ scan.todo \subseteq DOMAIN disk
        /\ scan.phase \in Busy => scan.file \in DOMAIN disk
        /\ scan.linking => scan.absolute
        /\ DOMAIN disk' = DOMAIN disk
        /\ \A name \in DOMAIN scan.models :
             Leads(disk, scan.models[name].path, scan.models[name].source)
    BY DEF ReportInv, Undisturbed
  <2>2. /\ scan'.phase \in Busy => scan'.file \in DOMAIN disk
        /\ scan'.phase = "write" => scan'.target \notin DOMAIN disk
    BY <2>1
  <2>3. \A p \in DOMAIN disk' : Exists(p)'
    BY <1>1, <2>1
  <2>4. \A name \in DOMAIN scan'.models :
          Leads(disk', scan'.models[name].path, scan'.models[name].source)
    BY <1>2, <2>1
  <2> QED
    BY <2>1, <2>2, <2>3, <2>4 DEF Undisturbed
<1> QED
  BY <1>1, <1>2, <1>3 DEF ReportInv, FindInv

LEMMA QuietSteps ==
  ASSUME ReportInv, TakeFile \/ Return \/ TestLoads \/ TestRefused \/ TestAnswers
                      \/ TestFails \/ ChooseName
  PROVE  ReportInv'
<1>1. scan \in ScanOf(scan.models)
  BY DEF ReportInv, FindInv
<1>2. CASE TakeFile
  <2>1. PICK f \in scan.todo, ph \in {"test", "place"} :
          scan' = [scan EXCEPT !.todo = scan.todo \ {f}, !.file = f, !.phase = ph]
    BY <1>2 DEF TakeFile
  <2>2. scan' \in ScanOf(scan.models)
    BY <1>1, <2>1 DEF ScanOf
  <2>3. /\ scan'.todo \subseteq scan.todo /\ scan'.file \in scan.todo
        /\ scan'.phase # "write"
        /\ scan'.linking = scan.linking /\ scan'.absolute = scan.absolute
    BY <1>1, <2>1 DEF ScanOf
  <2> QED
    BY <1>2, <2>2, <2>3, ScanGoesOn DEF TakeFile
<1>3. CASE Return
  <2>1. scan' \in ScanOf(scan.models)
    BY <1>1, <1>3 DEF Return, ScanOf
  <2>2. /\ scan'.todo = scan.todo /\ scan'.phase = "idle"
        /\ scan'.linking = scan.linking /\ scan'.absolute = scan.absolute
    BY <1>1, <1>3 DEF Return, ScanOf
  <2> QED
    BY <1>3, <2>1, <2>2, ScanGoesOn DEF Return, Busy
<1>4. CASE TestLoads \/ TestRefused \/ TestAnswers \/ TestFails
  <2>1. /\ scan.phase \in {"test", "try"} /\ UNCHANGED <<disk, mishaps>>
        /\ \E s \in Slots \cup {0}, ph \in {"try", "place"} :
             scan' = [scan EXCEPT !.temp = s, !.phase = ph]
    <3>1. [scan EXCEPT !.phase = "place"] = [scan EXCEPT !.temp = scan.temp, !.phase = "place"]
          /\ scan.temp \in Slots \cup {0}
      BY <1>1 DEF ScanOf
    <3>2. CASE TestLoads
      BY <3>2 DEF TestLoads, Testable
    <3>3. CASE TestRefused
      BY <3>1, <3>3 DEF TestRefused, Testable
    <3>4. CASE TestAnswers \/ TestFails
      BY <3>1, <3>4 DEF TestAnswers, TestFails
    <3> QED
      BY <1>4, <3>2, <3>3, <3>4
  <2>2. scan' \in ScanOf(scan.models)
    BY <1>1, <2>1 DEF ScanOf
  <2>3. /\ scan'.todo = scan.todo /\ scan'.file = scan.file
        /\ scan'.phase # "write"
        /\ scan'.linking = scan.linking /\ scan'.absolute = scan.absolute
    BY <1>1, <2>1 DEF ScanOf
  <2> QED
    BY <2>1, <2>2, <2>3, ScanGoesOn DEF Busy
<1>5. CASE ChooseName
  <2>1. PICK t : /\ t = Target(ModelName(scan.file))
                 /\ scan' = [scan EXCEPT !.phase = "write", !.target = t]
                 /\ scan.phase = "place" /\ UNCHANGED <<disk, mishaps>>
    BY <1>5 DEF ChooseName
  <2>2. t \in Paths /\ ~Exists(t)
    <3>1. scan.file \in Somewhere /\ IsFiniteSet(DOMAIN disk)
      BY <1>1 DEF ScanOf, ReportInv, FindInv, DiskType
    <3> QED
      BY <2>1, <3>1, ModelNames, TargetFree DEF Paths
  <2>3. scan' \in ScanOf(scan.models)
    BY <1>1, <2>1, <2>2 DEF ScanOf, Somewhere
  <2>4. /\ scan'.todo = scan.todo /\ scan'.file = scan.file /\ scan'.target = t
        /\ scan'.linking = scan.linking /\ scan'.absolute = scan.absolute
    BY <1>1, <2>1 DEF ScanOf
  <2> QED
    BY <2>1, <2>2, <2>3, <2>4, ScanGoesOn DEF Busy
<1> QED
  BY <1>2, <1>3, <1>4, <1>5

\* A scan that is counted among the mishaps, or whose paths are absolute.
LEMMA BeginKeeps ==
  ASSUME ReportInv, Begin
  PROVE  ReportInv'
<1>1. DiskType /\ mishaps \in Nat
  BY DEF ReportInv, FindInv
<1>2. PICK paths \in SUBSET DOMAIN disk, testing \in BOOLEAN, linking \in BOOLEAN,
           absolute \in BOOLEAN :
        /\ IF absolute THEN UNCHANGED mishaps ELSE mishaps' = mishaps + 1
        /\ scan' = [NoScan EXCEPT !.phase = "next", !.todo = Listed(paths), !.testing = testing,
                                  !.linking = linking, !.absolute = absolute]
  BY DEF Begin
<1>3. DiskType' /\ UNCHANGED disk /\ \A p : Exists(p)' = Exists(p)
  BY <1>1, SameDisk DEF Begin
<1>4. mishaps' \in Nat /\ (mishaps' = 0 => mishaps = 0 /\ absolute)
  BY <1>1, <1>2
<1>5. Listed(paths) \subseteq Somewhere
  BY <1>1 DEF DiskType, Listed, Somewhere
<1>6. scan' \in ScanOf(scan'.models) /\ scan'.models = <<>>
  BY <1>2, <1>5 DEF NoScan, ScanOf, Somewhere
<1>7. Undisturbed'
  <2> SUFFICES ASSUME mishaps' = 0 PROVE Undisturbed'
    BY DEF Undisturbed
  <2>1. \A p \in DOMAIN disk : Exists(p)
    BY <1>4 DEF ReportInv, Undisturbed
  <2>2. Listed(paths) \subseteq DOMAIN disk
    BY <2>1 DEF Listed
  <2>3. /\ scan'.todo = Listed(paths) /\ scan'.phase = "next" /\ scan'.absolute = absolute
    BY <1>2 DEF NoScan
  <2>4. \A p \in DOMAIN disk' : Exists(p)'
    BY <1>3, <2>1
  <2>5. DOMAIN scan'.models = {}
    BY <1>6
  <2>6. scan'.todo \subseteq DOMAIN disk'
    BY <1>3, <2>2, <2>3
  <2> QED
    BY <1>4, <2>3, <2>4, <2>5, <2>6 DEF Undisturbed, Busy
<1>8. scan'.phase = "next"
  BY <1>2 DEF NoScan
<1> QED
  BY <1>3, <1>4, <1>6, <1>7, <1>8 DEF ReportInv, FindInv

\* A scan that is given up leaves nothing.
LEMMA StopsKeeps ==
  ASSUME ReportInv, CopyStops
  PROVE  ReportInv'
<1>1. scan' = NoScan /\ UNCHANGED <<disk, mishaps>>
  BY DEF CopyStops
<1>2. DiskType' /\ \A p : Exists(p)' = Exists(p)
  BY <1>1, SameDisk DEF ReportInv, FindInv
<1>3. /\ scan'.phase = "idle" /\ scan'.todo = {} /\ ~scan'.linking /\ scan'.models = <<>>
      /\ scan' \in ScanOf(<<>>)
  BY <1>1 DEF NoScan, ScanOf, Somewhere
<1>4. Undisturbed'
  <2>1. DOMAIN scan'.models = {}
    BY <1>3
  <2> QED
    BY <1>1, <1>2, <1>3, <2>1 DEF ReportInv, Undisturbed, Busy
<1> QED
  BY <1>1, <1>2, <1>3, <1>4 DEF ReportInv, FindInv

-----------------------------------------------------------------------------
(***************************************************************************)
(* Steps that change the directory.                                        *)
(***************************************************************************)

\* The report of one model more is of the same type.
LEMMA ReportedType ==
  ASSUME scan \in ScanOf(scan.models), Reported
  PROVE  /\ scan' \in ScanOf(scan'.models)
         /\ scan'.models = Put(scan.models, ModelName(scan.file),
                               [path |-> scan.target, source |-> scan.file])
         /\ scan'.todo = scan.todo /\ scan'.phase = "next"
         /\ scan'.linking = scan.linking /\ scan'.absolute = scan.absolute
<1> DEFINE put == Put(scan.models, ModelName(scan.file),
                      [path |-> scan.target, source |-> scan.file])
<1>1. scan' = [scan EXCEPT !.phase = "next", !.file = NoFile, !.target = NoFile, !.models = put]
  BY DEF Reported, ScanOf
<1> HIDE DEF put
<1>2. scan'.models = put
  BY <1>1 DEF ScanOf
<1>3. scan' \in ScanOf(put)
  BY <1>1 DEF ScanOf, Somewhere
<1> QED
  BY <1>1, <1>2, <1>3 DEF ScanOf, put

\* A model is reported at a path that leads to its source.
LEMMA ReportKeeps ==
  ASSUME ReportInv, Reported, UNCHANGED mishaps, DiskType',
         mishaps = 0 =>
           /\ \A p \in DOMAIN disk' : Exists(p)'
           /\ DOMAIN disk \subseteq DOMAIN disk'
           /\ \A p, q : Leads(disk, p, q) => Leads(disk', p, q)
           /\ Leads(disk', scan.target, scan.file)
  PROVE  ReportInv'
<1> DEFINE name == ModelName(scan.file)
<1>1. /\ scan' \in ScanOf(scan'.models)
      /\ scan'.models = Put(scan.models, name, [path |-> scan.target, source |-> scan.file])
      /\ scan'.todo = scan.todo /\ scan'.phase = "next"
      /\ scan'.linking = scan.linking /\ scan'.absolute = scan.absolute
  BY ReportedType DEF ReportInv, FindInv
<1> HIDE DEF name
<1>2. Undisturbed'
  <2> SUFFICES ASSUME mishaps' = 0 PROVE Undisturbed'
    BY DEF Undisturbed
  <2>1. /\ scan.todo \subseteq DOMAIN disk
        /\ scan.linking => scan.absolute
        /\ \A n \in DOMAIN scan.models :
             Leads(disk, scan.models[n].path, scan.models[n].source)
    BY DEF ReportInv, Undisturbed
  <2>2. ASSUME NEW n \in DOMAIN scan'.models
        PROVE  Leads(disk', scan'.models[n].path, scan'.models[n].source)
    <3>1. CASE n = name
      <4>1. scan'.models[n] = [path |-> scan.target, source |-> scan.file]
        BY <1>1, <3>1 DEF Put
      <4> QED
        BY <4>1
    <3>2. CASE n # name
      <4>1. n \in DOMAIN scan.models /\ scan'.models[n] = scan.models[n]
        BY <1>1, <2>2, <3>2 DEF Put
      <4> QED
        BY <2>1, <4>1
    <3> QED
      BY <3>1, <3>2
  <2> QED
    BY <1>1, <2>1, <2>2 DEF Undisturbed, Busy
<1> QED
  BY <1>1, <1>2 DEF ReportInv, FindInv

\* Where nothing dangles, nothing does after a file or a link to one is put where
\* nothing was, and what led to a source still does.
LEMMA PutStays ==
  ASSUME DiskType, \A p \in DOMAIN disk : Exists(p),
         NEW t \in Paths \ DOMAIN disk, NEW x, disk' = Put(disk, t, x),
         x.link \in DOMAIN disk \cup {NoFile}
  PROVE  /\ \A p \in DOMAIN disk' : Exists(p)'
         /\ DOMAIN disk' = DOMAIN disk \cup {t}
         /\ \A p, q : Leads(disk, p, q) => Leads(disk', p, q)
<1>1. \A p \in DOMAIN disk : Exists(p)' /\ ContentAt(p)' = ContentAt(p)
  BY PutFollow
<1>2. Exists(t)'
  BY PutFollow
<1>3. DOMAIN disk' = DOMAIN disk \cup {t}
  BY DEF Put
<1>4. ASSUME NEW p, NEW q, Leads(disk, p, q) PROVE Leads(disk', p, q)
  <2>1. p \in DOMAIN disk /\ q \in DOMAIN disk /\ ContentAt(p) = ContentAt(q)
    BY <1>4 DEF Leads, ContentAt, End
  <2>2. ContentAt(p)' = ContentAt(q)'
    BY <1>1, <2>1
  <2> QED
    BY <1>3, <2>1, <2>2 DEF Leads, ContentAt, End
<1> QED
  BY <1>1, <1>2, <1>3, <1>4

\* A copy of a file or a link to it leads to what it holds.
LEMMA PutLeads ==
  ASSUME DiskType, \A p \in DOMAIN disk : Exists(p), NEW source \in DOMAIN disk,
         NEW t \in Paths \ DOMAIN disk, NEW x, disk' = Put(disk, t, x),
         x.link = source \/ (x.link = NoFile /\ x.content = ContentAt(source))
  PROVE  /\ \A p \in DOMAIN disk' : Exists(p)'
         /\ DOMAIN disk \subseteq DOMAIN disk'
         /\ \A p, q : Leads(disk, p, q) => Leads(disk', p, q)
         /\ Leads(disk', t, source)
<1>1. x.link \in DOMAIN disk \cup {NoFile}
  OBVIOUS
<1>2. /\ \A p \in DOMAIN disk : ContentAt(p)' = ContentAt(p)
      /\ x.link = NoFile => ContentAt(t)' = x.content
      /\ x.link # NoFile => ContentAt(t)' = ContentAt(x.link)
  BY <1>1, PutFollow
<1>3. /\ \A p \in DOMAIN disk' : Exists(p)'
      /\ DOMAIN disk' = DOMAIN disk \cup {t}
      /\ \A p, q : Leads(disk, p, q) => Leads(disk', p, q)
  BY <1>1, PutStays
<1>4. source # NoFile
  BY NoOtherPaths DEF DiskType
<1>5. ContentAt(t)' = ContentAt(source)' /\ source \in DOMAIN disk'
  BY <1>2, <1>3, <1>4
<1>6. Leads(disk', t, source)
  BY <1>3, <1>5 DEF Leads, ContentAt, End
<1> QED
  BY <1>3, <1>6

\* The file to be placed, and the path that was free for it.
LEMMA Placing ==
  ASSUME ReportInv, scan.phase = "write"
  PROVE  /\ DiskType /\ scan \in ScanOf(scan.models)
         /\ scan.file \in Somewhere /\ scan.target \in Paths
         /\ mishaps = 0 => /\ scan.file \in DOMAIN disk
                           /\ \A p \in DOMAIN disk : Exists(p)
                           /\ scan.target \notin DOMAIN disk
                           /\ End(scan.target) = scan.target
<1>1. /\ DiskType /\ scan \in ScanOf(scan.models)
      /\ scan.file \in Somewhere /\ scan.target \in Paths
  BY DEF ReportInv, FindInv, ScanOf
<1>2. mishaps = 0 => /\ scan.file \in DOMAIN disk
                     /\ \A p \in DOMAIN disk : Exists(p)
                     /\ scan.target \notin DOMAIN disk
  BY DEF ReportInv, Undisturbed, Busy
<1> QED
  BY <1>1, <1>2, ExistsThere DEF DiskType

LEMMA LinkKeeps ==
  ASSUME ReportInv, PlaceLink
  PROVE  ReportInv'
<1> DEFINE path == IF scan.absolute THEN scan.file ELSE Nowhere
           target == scan.target
<1>1. /\ disk' = Put(disk, target, Link(path)) /\ Reported
      /\ UNCHANGED mishaps /\ scan.phase = "write" /\ scan.linking
  BY DEF PlaceLink
<1>2. /\ DiskType /\ scan.file \in Somewhere /\ target \in Paths
      /\ mishaps = 0 => /\ scan.file \in DOMAIN disk
                        /\ \A p \in DOMAIN disk : Exists(p)
                        /\ target \notin DOMAIN disk
  BY <1>1, Placing
<1>3. Link(path).link = path /\ path \in Somewhere \cup {Nowhere}
  BY <1>2 DEF Link
<1>4. mishaps = 0 => path = scan.file
  BY <1>1 DEF ReportInv, Undisturbed
<1> HIDE DEF path, target
<1>5. DiskType'
  BY <1>1, <1>2, <1>3, PutType
<1>6. mishaps = 0 =>
        /\ \A p \in DOMAIN disk' : Exists(p)'
        /\ DOMAIN disk \subseteq DOMAIN disk'
        /\ \A p, q : Leads(disk, p, q) => Leads(disk', p, q)
        /\ Leads(disk', target, scan.file)
  <2> SUFFICES ASSUME mishaps = 0
               PROVE  /\ \A p \in DOMAIN disk' : Exists(p)'
                      /\ DOMAIN disk \subseteq DOMAIN disk'
                      /\ \A p, q : Leads(disk, p, q) => Leads(disk', p, q)
                      /\ Leads(disk', target, scan.file)
    OBVIOUS
  <2>1. /\ DiskType /\ \A p \in DOMAIN disk : Exists(p)
        /\ scan.file \in DOMAIN disk /\ target \in Paths \ DOMAIN disk
    BY <1>2
  <2>2. PICK x : x.link = scan.file /\ disk' = Put(disk, target, x)
    BY <1>1, <1>3, <1>4
  <2> QED
    BY <2>1, <2>2, PutLeads
<1> QED
  BY <1>1, <1>5, <1>6, ReportKeeps DEF target

LEMMA NoLinkKeeps ==
  ASSUME ReportInv, LinkNotMade
  PROVE  ReportInv'
<1>1. /\ scan.phase = "write" /\ UNCHANGED disk /\ Reported
      /\ IF scan.file = NoFile \/ scan.target \in DOMAIN disk THEN UNCHANGED mishaps
         ELSE mishaps' = mishaps + 1
  BY DEF LinkNotMade
<1>2. /\ DiskType /\ scan \in ScanOf(scan.models)
      /\ mishaps = 0 => scan.file \in DOMAIN disk /\ scan.target \notin DOMAIN disk
  BY <1>1, Placing
<1>3. mishaps' \in Nat /\ mishaps' # 0
  <2>1. mishaps = 0 => scan.file # NoFile
    BY <1>2, NoOtherPaths DEF DiskType
  <2>2. mishaps \in Nat
    BY DEF ReportInv
  <2> QED
    BY <1>1, <1>2, <2>1, <2>2
<1>4. DiskType' /\ scan' \in ScanOf(scan'.models) /\ scan'.phase = "next"
  BY <1>1, <1>2, SameDisk, ReportedType
<1> QED
  BY <1>3, <1>4 DEF ReportInv, FindInv, Undisturbed

LEMMA CopyKeeps ==
  ASSUME ReportInv, PlaceCopy
  PROVE  ReportInv'
<1> DEFINE target == scan.target
           copied == IF End(target) = End(scan.file) THEN Part ELSE ContentAt(scan.file)
           file == File(copied)
<1>1. /\ disk' = Put(disk, End(target), file) /\ End(target) # Nowhere /\ Reported
      /\ UNCHANGED mishaps /\ scan.phase = "write"
  BY DEF PlaceCopy, Copying
<1>2. /\ DiskType /\ target \in Paths
      /\ mishaps = 0 => /\ scan.file \in DOMAIN disk
                        /\ \A p \in DOMAIN disk : Exists(p)
                        /\ target \notin DOMAIN disk
                        /\ End(target) = target
  BY <1>1, Placing
<1>3. End(target) \in Paths
  BY <1>1, <1>2, EndType
<1>4. /\ file.link = NoFile
      /\ mishaps = 0 => file.content = ContentAt(scan.file)
  <2>1. mishaps = 0 => End(target) # End(scan.file)
    BY <1>2 DEF Exists
  <2> QED
    BY <2>1 DEF File
<1> HIDE DEF file, target
<1>5. DiskType'
  BY <1>1, <1>2, <1>3, <1>4, PutType DEF Somewhere
<1>6. mishaps = 0 =>
        /\ \A p \in DOMAIN disk' : Exists(p)'
        /\ DOMAIN disk \subseteq DOMAIN disk'
        /\ \A p, q : Leads(disk, p, q) => Leads(disk', p, q)
        /\ Leads(disk', target, scan.file)
  BY <1>1, <1>2, <1>4, PutLeads
<1> QED
  BY <1>1, <1>5, <1>6, ReportKeeps DEF target

\* A copy that fails leaves a file that nothing leads to, or nothing.
LEMMA FailsKeeps ==
  ASSUME ReportInv, CopyFails
  PROVE  ReportInv'
<1> DEFINE target == scan.target
<1>1. /\ UNCHANGED disk \/ (End(target) # Nowhere /\ disk' = Put(disk, End(target), File(Part)))
      /\ scan' = [scan EXCEPT !.phase = "next", !.file = NoFile, !.target = NoFile]
      /\ UNCHANGED mishaps /\ scan.phase = "write"
  BY DEF CopyFails, Copying
<1>2. /\ DiskType /\ scan \in ScanOf(scan.models) /\ target \in Paths
      /\ mishaps = 0 => /\ \A p \in DOMAIN disk : Exists(p)
                        /\ target \notin DOMAIN disk
                        /\ End(target) = target
  BY <1>1, Placing
<1> HIDE DEF target
<1>3. /\ scan' \in ScanOf(scan.models) /\ scan'.models = scan.models
      /\ scan'.todo = scan.todo /\ scan'.phase = "next"
      /\ scan'.linking = scan.linking /\ scan'.absolute = scan.absolute
  BY <1>1, <1>2 DEF ScanOf, Somewhere
<1>4. /\ DiskType'
      /\ mishaps = 0 => /\ \A p \in DOMAIN disk' : Exists(p)'
                        /\ DOMAIN disk \subseteq DOMAIN disk'
                        /\ \A p, q : Leads(disk, p, q) => Leads(disk', p, q)
  <2>1. CASE UNCHANGED disk
    BY <1>2, <2>1, SameDisk
  <2>2. CASE End(target) # Nowhere /\ disk' = Put(disk, End(target), File(Part))
    <3>1. End(target) \in Paths /\ File(Part).link = NoFile
      BY <1>2, <2>2, EndType DEF File
    <3>2. DiskType'
      BY <1>2, <2>2, <3>1, PutType DEF Somewhere
    <3>3. ASSUME mishaps = 0
          PROVE  /\ \A p \in DOMAIN disk' : Exists(p)'
                 /\ DOMAIN disk' = DOMAIN disk \cup {target}
                 /\ \A p, q : Leads(disk, p, q) => Leads(disk', p, q)
      BY <1>2, <2>2, <3>1, <3>3, PutStays
    <3> QED
      BY <3>2, <3>3
  <2> QED
    BY <1>1, <2>1, <2>2
<1>5. Undisturbed'
  BY <1>1, <1>3, <1>4 DEF ReportInv, Undisturbed, Busy
<1> QED
  BY <1>1, <1>3, <1>4, <1>5 DEF ReportInv, FindInv

\* What others do to the directory leaves paths that lead to paths.
LEMMA DisturbedType ==
  ASSUME DiskType, scan \in ScanOf(scan.models), Vanish \/ Replace
  PROVE  DiskType'
<1>1. CASE Vanish
  <2>1. PICK path : disk' = [p \in DOMAIN disk \ {path} |-> disk[p]]
    BY <1>1 DEF Vanish
  <2>2. IsFiniteSet(DOMAIN disk \ {path})
    BY FS_RemoveElement DEF DiskType
  <2> QED
    BY <2>1, <2>2 DEF DiskType
<1>2. CASE Replace
  <2>1. PICK path \in (Sources \cup DOMAIN disk \cup {scan.target}) \ {NoFile},
             entry \in {File(c) : c \in Contents} \cup {Link(f) : f \in Sources} :
          disk' = Put(disk, path, entry)
    BY <1>2 DEF Replace
  <2>2. path \in Paths
    BY DEF DiskType, ScanOf, Somewhere, Paths
  <2>3. entry.link \in Somewhere \cup {Nowhere}
    BY DEF File, Link, Somewhere, Paths
  <2> QED
    BY <2>1, <2>2, <2>3, PutType
<1> QED
  BY <1>1, <1>2

\* Others: what they do is counted, or touches neither directory nor scan.
LEMMA OthersKeep ==
  ASSUME ReportInv, User \/ CollectGarbage \/ Vanish \/ Replace \/ UNCHANGED vars
  PROVE  ReportInv'
<1>1. /\ DiskType /\ mishaps \in Nat /\ scan \in ScanOf(scan.models)
      /\ scan.phase = "write" => scan.target \in Paths
  BY DEF ReportInv, FindInv
<1>2. CASE User \/ CollectGarbage \/ UNCHANGED vars
  <2>1. UNCHANGED <<disk, scan, mishaps>>
    BY <1>2 DEF User, CollectGarbage, vars
  <2>2. Undisturbed'
    BY <2>1 DEF ReportInv, Undisturbed, Exists, End
  <2> QED
    BY <1>1, <2>1, <2>2, SameDisk DEF ReportInv, FindInv
<1>3. CASE Vanish \/ Replace
  <2>1. mishaps' = mishaps + 1 /\ UNCHANGED scan
    BY <1>3 DEF Vanish, Replace
  <2>2. DiskType'
    BY <1>1, <1>3, DisturbedType
  <2> QED
    BY <1>1, <2>1, <2>2 DEF ReportInv, FindInv, Undisturbed
<1> QED
  BY <1>2, <1>3

LEMMA ReportNext == ReportInv /\ [Next]_vars => ReportInv'
<1> SUFFICES ASSUME ReportInv, [Next]_vars PROVE ReportInv'
  OBVIOUS
<1>1. CASE Begin
  BY <1>1, BeginKeeps
<1>2. CASE TakeFile \/ Return \/ TestLoads \/ TestRefused \/ TestAnswers \/ TestFails \/ ChooseName
  BY <1>2, QuietSteps
<1>3. CASE PlaceLink \/ LinkNotMade \/ PlaceCopy \/ CopyFails \/ CopyStops
  BY <1>3, LinkKeeps, NoLinkKeeps, CopyKeeps, FailsKeeps, StopsKeeps
<1>4. CASE User \/ CollectGarbage \/ Vanish \/ Replace \/ UNCHANGED vars
  BY <1>4, OthersKeep
<1> QED
  BY <1>1, <1>2, <1>3, <1>4 DEF Next, Scan

LEMMA ReportInvariance == Spec => []ReportInv
<1>1. Init => ReportInv
  BY ReportStart
<1> QED
  BY <1>1, ReportNext, PTL DEF Spec

-----------------------------------------------------------------------------
(***************************************************************************)
(* The name a scan has chosen.                                             *)
(***************************************************************************)

\* It leads to nothing but what others put there since.
Unclaimed == scan.phase = "write" => End(scan.target) \notin DOMAIN disk \ intruded

LEMMA ChooseUnclaimed ==
  ASSUME ReportInv, ChooseName
  PROVE  Unclaimed'
<1>1. PICK t : /\ t = Target(ModelName(scan.file))
               /\ scan' = [scan EXCEPT !.phase = "write", !.target = t]
               /\ UNCHANGED disk
  BY DEF ChooseName
<1>2. /\ scan \in ScanOf(scan.models) /\ scan.file \in Somewhere /\ IsFiniteSet(DOMAIN disk)
  BY DEF ReportInv, FindInv, DiskType, ScanOf
<1>3. ~Exists(t)
  BY <1>1, <1>2, ModelNames, TargetFree
<1>4. scan'.target = t
  BY <1>1, <1>2 DEF ScanOf
<1> QED
  BY <1>1, <1>3, <1>4 DEF Unclaimed, Exists, End

\* What others put where the name leads they put there since.
LEMMA IntrudersClaim ==
  ASSUME ReportInv, Unclaimed, Vanish \/ Replace
  PROVE  Unclaimed'
<1> SUFFICES ASSUME scan'.phase = "write"
             PROVE  Follow(disk', scan'.target) \notin DOMAIN disk' \ intruded'
  BY DEF Unclaimed, End
<1> DEFINE target == scan.target
<1>1. UNCHANGED scan
  BY DEF Vanish, Replace
<1>2. DiskType /\ DiskType' /\ Nowhere \notin DOMAIN disk'
  <2>1. DiskType /\ DiskType'
    BY DisturbedType DEF ReportInv, FindInv
  <2> QED
    BY <2>1, NoOtherPaths DEF DiskType
<1>3. Follow(disk, target) \notin DOMAIN disk \ intruded
  BY <1>1 DEF Unclaimed, End
<1>4. CASE Vanish
  <2>1. PICK path \in DOMAIN disk : disk' = [p \in DOMAIN disk \ {path} |-> disk[p]]
    BY <1>4 DEF Vanish
  <2>2. SameBut(disk, disk', path) /\ DOMAIN disk' = DOMAIN disk \ {path} /\ UNCHANGED intruded
    BY <1>4, <2>1 DEF SameBut, Vanish
  <2>3. Hops(disk') <= Hops(disk) + 1
    <3>1. Cardinality(DOMAIN disk') = Cardinality(DOMAIN disk) - 1 /\ Cardinality(DOMAIN disk) \in Nat
      BY <1>2, <2>2, FS_RemoveElement, FS_CardinalityType DEF DiskType
    <3> QED
      BY <3>1 DEF Hops
  <2>4. Follow(disk', path) = path
    <3>1. ~IsLink(disk', path)
      BY <2>2 DEF IsLink
    <3> QED
      BY <1>2, <3>1, FollowNoLink DEF DiskType
  <2>5. Follow(disk', target) \in {path, Follow(disk, target), Nowhere}
    <3> HIDE DEF target
    <3> QED
      BY <1>2, <2>2, <2>3, <2>4, Elsewhere DEF DiskType
  <2> QED
    BY <1>1, <1>2, <1>3, <2>2, <2>5
<1>5. CASE Replace
  <2>1. PICK path, entry : /\ disk' = Put(disk, path, entry)
                           /\ intruded' = intruded \cup {Follow(disk', path)}
    BY <1>1, <1>5 DEF Replace
  <2>2. SameBut(disk, disk', path) /\ DOMAIN disk' = DOMAIN disk \cup {path}
    BY <2>1 DEF SameBut, Put
  <2>3. Hops(disk') <= Hops(disk) + 1
    <3>1. /\ Cardinality(DOMAIN disk') \in {Cardinality(DOMAIN disk), Cardinality(DOMAIN disk) + 1}
          /\ Cardinality(DOMAIN disk) \in Nat
      BY <1>2, <2>2, FS_AddElement, FS_CardinalityType DEF DiskType
    <3> QED
      BY <3>1 DEF Hops
  <2>4. Follow(disk', target) \in {Follow(disk', path), Follow(disk, target), Nowhere}
    <3> HIDE DEF target
    <3> QED
      BY <1>2, <2>2, <2>3, Elsewhere DEF DiskType
  <2>5. ASSUME Follow(disk', target) = path PROVE Follow(disk', path) = path
    <3>1. path # Nowhere
      BY <1>2, <2>2
    <3>2. ~IsLink(disk', path)
      BY <1>2, <2>5, <3>1, FollowEnds DEF DiskType
    <3> QED
      BY <1>2, <3>2, FollowNoLink DEF DiskType
  <2> QED
    BY <1>1, <1>2, <1>3, <2>1, <2>2, <2>4, <2>5
<1> QED
  BY <1>4, <1>5

LEMMA UnclaimedNext == ReportInv /\ Unclaimed /\ [Next]_vars => Unclaimed'
<1> SUFFICES ASSUME ReportInv, Unclaimed, [Next]_vars PROVE Unclaimed'
  OBVIOUS
<1>1. scan \in ScanOf(scan.models)
  BY DEF ReportInv, FindInv
<1>2. CASE ChooseName
  BY <1>2, ChooseUnclaimed
<1>3. CASE Vanish \/ Replace
  BY <1>3, IntrudersClaim
<1>4. CASE User \/ CollectGarbage \/ UNCHANGED vars
  <2>1. UNCHANGED <<disk, scan, intruded>>
    BY <1>4 DEF User, CollectGarbage, vars
  <2> QED
    BY <2>1 DEF Unclaimed, End
<1>5. CASE Scan /\ ~ChooseName
  <2>1. scan'.phase # "write"
    <3>1. CASE Begin
      <4>1. PICK paths \in SUBSET DOMAIN disk, testing \in BOOLEAN, linking \in BOOLEAN,
                 absolute \in BOOLEAN :
              scan' = [NoScan EXCEPT !.phase = "next", !.todo = Listed(paths), !.testing = testing,
                                     !.linking = linking, !.absolute = absolute]
        BY <3>1 DEF Begin
      <4>2. scan'.phase = "next"
        BY <4>1 DEF NoScan
      <4> QED
        BY <4>2
    <3>2. CASE TakeFile \/ TestLoads \/ TestRefused \/ TestAnswers \/ TestFails \/ Return
      BY <1>1, <3>2 DEF TakeFile, TestLoads, TestRefused, TestAnswers, TestFails, Return, ScanOf
    <3>3. CASE PlaceLink \/ LinkNotMade \/ PlaceCopy
      BY <1>1, <3>3, ReportedType DEF PlaceLink, LinkNotMade, PlaceCopy
    <3>4. CASE CopyFails
      BY <1>1, <3>4 DEF CopyFails, ScanOf
    <3>5. CASE CopyStops
      BY <3>5 DEF CopyStops, NoScan
    <3> QED
      BY <1>5, <3>1, <3>2, <3>3, <3>4, <3>5 DEF Scan
  <2> QED
    BY <2>1 DEF Unclaimed
<1> QED
  BY <1>2, <1>3, <1>4, <1>5 DEF Next

LEMMA UnclaimedInvariance == Spec => [](ReportInv /\ Unclaimed)
<1>1. Init => ReportInv /\ Unclaimed
  <2>1. Init => Unclaimed
    BY DEF Init, NoScan, Unclaimed
  <2> QED
    BY <2>1, ReportStart
<1> QED
  BY <1>1, ReportNext, UnclaimedNext, PTL DEF Spec

-----------------------------------------------------------------------------
(***************************************************************************)
(* The theorems.                                                           *)
(***************************************************************************)

\* Through loads that fail at any point, models freed more than once, handles dropped
\* and collected, and scans that forget theirs, every object that is alive has a
\* handle R will finalize, and nothing is freed twice (EdgeModelContext::cleanup,
\* bindings.cpp).
THEOREM ModelsOwned == Spec => []OwnedByHandle
<1>1. LoadingInv => OwnedByHandle
  BY DEF LoadingInv
<1> QED
  BY <1>1, LoadingInvariance, PTL

\* A library named before the initialisation is given to every model, however often
\* the initialisation (ensure_llama_initialized) threw and began again.
THEOREM EarlyActivationWorks == Spec => []EarlyActivationTakesEffect
<1>1. LoadingInv => EarlyActivationTakesEffect
  BY DEF LoadingInv
<1> QED
  BY <1>1, LoadingInvariance, PTL

\* Whatever a scan writes, after a search for a free name that others' steps may
\* overtake, it writes where nothing was but what those others put there since, through
\* whatever chains of links the copy goes and even if it fails midway
\* (edge_find_gguf_models, from the loop over names to file.copy).
THEOREM ScansOverwriteNothing == Spec => NothingOverwritten
<1> DEFINE Kept == scan' # scan =>
                     \A p \in DOMAIN disk \ intruded : p \in DOMAIN disk' /\ disk'[p] = disk[p]
<1>1. ASSUME ReportInv, Unclaimed, Next PROVE Kept
  <2> SUFFICES ASSUME scan' # scan PROVE Kept
    OBVIOUS
  <2>1. CASE UNCHANGED disk
    BY <2>1
  <2>2. CASE PlaceLink
    <3>1. PICK t, x : t \notin DOMAIN disk /\ disk' = Put(disk, t, x)
      BY <2>2 DEF PlaceLink
    <3> QED
      BY <3>1 DEF Put
  <2>3. CASE PlaceCopy \/ CopyFails
    <3>1. CASE UNCHANGED disk
      BY <2>1, <3>1
    <3>2. CASE disk' # disk
      <4>1. PICK x : scan.phase = "write" /\ disk' = Put(disk, End(scan.target), x)
        BY <2>3, <3>2 DEF PlaceCopy, CopyFails, Copying
      <4>2. End(scan.target) \notin DOMAIN disk \ intruded
        BY <1>1, <4>1 DEF Unclaimed
      <4> QED
        BY <4>1, <4>2 DEF Put
    <3> QED
      BY <3>1, <3>2
  <2>4. CASE ~(PlaceLink \/ PlaceCopy \/ CopyFails)
    <3>1. UNCHANGED disk
      BY <1>1, <2>4 DEF Next, Scan, Begin, TakeFile, TestLoads, TestRefused, TestAnswers, TestFails,
        ChooseName, LinkNotMade, CopyStops, Return, User, CollectGarbage, Vanish, Replace
    <3> QED
      BY <2>1, <3>1
  <2> QED
    BY <2>2, <2>3, <2>4
<1>2. ReportInv /\ Unclaimed /\ [Next]_vars => [Kept]_vars
  BY <1>1
<1> QED
  BY <1>2, UnclaimedInvariance, PTL DEF Spec, NothingOverwritten

\* While nobody else touches the directories, the paths are absolute and links can be
\* made, the path edge_find_gguf_models reports for a model leads to what was at its
\* source, through any chain of links that earlier scans made.
THEOREM ReportsLeadToSources == Spec => []ReportLeadsToSource
<1>1. ReportInv => ReportLeadsToSource
  <2> SUFFICES ASSUME ReportInv, mishaps = 0, NEW name \in DOMAIN scan.models
               PROVE  /\ Exists(scan.models[name].path)
                      /\ ContentAt(scan.models[name].path) = ContentAt(scan.models[name].source)
    BY DEF ReportLeadsToSource
  <2>1. /\ \A p \in DOMAIN disk : Exists(p)
        /\ Leads(disk, scan.models[name].path, scan.models[name].source)
    BY DEF ReportInv, Undisturbed
  <2> QED
    BY <2>1 DEF Leads, ContentAt, End
<1> QED
  BY <1>1, ReportInvariance, PTL

=============================================================================
