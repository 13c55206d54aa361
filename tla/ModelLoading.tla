---------------------------- MODULE ModelLoading ----------------------------
(***************************************************************************)
(* Loading, freeing and collecting models (bindings.cpp 106-298, 436-461), *)
(* with the initialisation of the backends on the first load and the CUDA  *)
(* library that may be named before it (api.R 2339-2380).                  *)
(*                                                                         *)
(* The heap of C++ objects is kept apart from the handles that point into  *)
(* it: model[s] and context[s] say what became of the objects allocated    *)
(* for slot s, handle[s] is the EdgeModelContext of an external pointer of *)
(* R, with the two pointers it still holds and who refers to it.  A slot   *)
(* is used again after R collected its handle.                             *)
(***************************************************************************)
EXTENDS Integers, Sequences, FiniteSets, SequencesExt, TLC

CONSTANTS Slots,          \* handles that may exist at the same time, as numbers
          Libraries,      \* paths a user may name as CUDA library
          Loadable,       \* those that hold a backend for this machine
          MaxAttempts,    \* bound: initialisations that are begun
          MaxNamings      \* bound: times a library is named

NoPath == "no path"

ASSUME LoadableAssumption == Loadable \subseteq Libraries /\ NoPath \notin Libraries

Owners == {"nobody", "user", "scan", "garbage"}
Fates == {"none", "live", "freed", "freed twice"}

VARIABLES
  initialized,  \* the static flag of ensure_llama_initialized
  cudaPath,     \* g_cuda_backend_path
  cudaLoaded,   \* g_cuda_backend_loaded
  registry,     \* backends of the ggml registry, in order of registration
  attempts,     \* initialisations begun so far
  namings,      \* times a library was named
  asked,        \* the library named when the last initialisation began (history)
  model,        \* fate of the llama_model of each slot
  context,      \* fate of the llama_context of each slot
  devices,      \* GPUs of the model of each slot
  handle        \* the EdgeModelContext of each slot

backends == <<initialized, cudaPath, cudaLoaded, registry, attempts, namings, asked>>
objects == <<model, context, devices, handle>>

NoHandle == [owner |-> "nobody", model |-> FALSE, ctx |-> FALSE]

NoObjects ==
  /\ model = [s \in Slots |-> "none"]
  /\ context = [s \in Slots |-> "none"]
  /\ devices = [s \in Slots |-> <<>>]
  /\ handle = [s \in Slots |-> NoHandle]

LoadingInit ==
  /\ initialized = FALSE
  /\ cudaPath = NoPath
  /\ cudaLoaded = FALSE
  /\ registry = <<>>
  /\ attempts = 0
  /\ namings = 0
  /\ asked = NoPath
  /\ NoObjects

(* edge_reload_cuda with a file that exists: the path is only stored, at any time. *)
NameLibrary ==
  /\ namings < MaxNamings
  /\ \E path \in Libraries : cudaPath' = path
  /\ namings' = namings + 1
  /\ UNCHANGED <<initialized, cudaLoaded, registry, attempts, asked, objects>>

------------------------------------------------------------------------------
(* The registry's constructor registers the CPU (the package is built with
   GGML_USE_CPU) at whatever call comes first. *)
Touched(reg) == IF reg = <<>> THEN <<"CPU">> ELSE reg

(* register_backend asks not whether the backend is there already. *)
Registered(reg, backend) == Append(Touched(reg), backend)

LibraryLoads == cudaPath \in Loadable

(* The registry after the first steps of ensure_llama_initialized: the named
   library, whatever ggml_backend_load_all finds on the disk, the CPU once more. *)
AfterLibrary ==
  IF cudaPath = NoPath THEN registry
  ELSE IF LibraryLoads THEN Registered(registry, "GPU") ELSE Touched(registry)
AfterAll(found) ==
  IF found THEN Registered(AfterLibrary, "GPU") ELSE Touched(AfterLibrary)
AfterCpu(found) == Registered(AfterAll(found), "CPU")

(* A load finds the backends initialised, or does it now. `found`: a GPU library
   lies in one of the directories that ggml_backend_load_all searches. *)
Initialise ==
  IF initialized THEN UNCHANGED backends
  ELSE /\ attempts < MaxAttempts
       /\ attempts' = attempts + 1
       /\ \E found \in BOOLEAN : registry' = AfterCpu(found)
       /\ cudaLoaded' = (cudaLoaded \/ LibraryLoads)
       /\ initialized' = TRUE
       /\ asked' = cudaPath
       /\ UNCHANGED <<cudaPath, namings>>

(* The steps of ensure_llama_initialized up to an exception: out of the library's
   own loading, or out of ggml_backend_load_all (the working directory is gone),
   before or after it found a GPU library. *)
StepsDone ==
  \/ cudaPath # NoPath /\ registry' = Touched(registry) /\ UNCHANGED cudaLoaded
  \/ /\ \/ registry' = AfterLibrary
        \/ \E found \in BOOLEAN : registry' = AfterAll(found)
     /\ cudaLoaded' = (cudaLoaded \/ LibraryLoads)

(* Mutant: the flag is set before the steps, so that a failed one is not repeated. *)
LoadInitThrowsOnce ==
  /\ ~initialized
  /\ attempts < MaxAttempts - 1
  /\ attempts' = attempts + 1
  /\ asked' = cudaPath
  /\ StepsDone
  /\ initialized' = TRUE
  /\ UNCHANGED <<cudaPath, namings, objects>>

(* The load fails, the flag stays down, and the next load goes through all the
   steps again, with the library named by then. *)
LoadInitThrows ==
  /\ ~initialized
  /\ attempts < MaxAttempts - 1
  /\ attempts' = attempts + 1
  /\ asked' = cudaPath
  /\ StepsDone
  /\ UNCHANGED <<initialized, cudaPath, namings, objects>>

------------------------------------------------------------------------------
(* The slot a new handle gets: the first that is free. *)
IsNext(s) ==
  /\ handle[s].owner = "nobody"
  /\ \A r \in Slots : r < s => handle[r].owner # "nobody"

(* The devices llama.cpp gives a model: of the registered GPUs those whose
   device id is not in the list yet. *)
Gpus(reg) == IF "GPU" \in ToSet(reg) THEN <<"GPU">> ELSE <<>>

(* edge_load_model of a model file: both objects are there, and a handle owns
   them; `others` are the handles as they are left besides. *)
LoadInto(s, owner, others) ==
  /\ IsNext(s)
  /\ Initialise
  /\ model' = [model EXCEPT ![s] = "live"]
  /\ context' = [context EXCEPT ![s] = "live"]
  /\ devices' = [devices EXCEPT ![s] = Gpus(registry')]
  /\ handle' = [others EXCEPT ![s] = [owner |-> owner, model |-> TRUE, ctx |-> TRUE]]

(* The file is no GGUF file, the loader rejects it, or no context can be made for
   the model (llama_init_from_model catches what its constructor throws): what was
   allocated is freed before any handle exists. *)
LoadRefused == Initialise /\ UNCHANGED objects

------------------------------------------------------------------------------
Freed(fate) == IF fate = "live" THEN "freed" ELSE "freed twice"

(* Mutant: the pointers stay set. *)
EmptiedNot(h) == h

(* cleanup() resets the pointers whose objects it frees. *)
Emptied(h) == [h EXCEPT !.model = FALSE, !.ctx = FALSE]

(* EdgeModelContext::cleanup of the handle in s, the context first. *)
Cleanup(s) ==
  /\ context' = IF handle[s].ctx THEN [context EXCEPT ![s] = Freed(@)] ELSE context
  /\ model' = IF handle[s].model THEN [model EXCEPT ![s] = Freed(@)] ELSE model

(* edge_free_model, any number of times. *)
Free(s, owner) ==
  /\ handle[s].owner = owner
  /\ Cleanup(s)
  /\ handle' = [handle EXCEPT ![s] = Emptied(@)]
  /\ UNCHANGED <<backends, devices>>

IsValid(s) == handle[s].model /\ handle[s].ctx

(* The user's last reference goes away. *)
Drop ==
  /\ \E s \in Slots : handle[s].owner = "user" /\ handle' = [handle EXCEPT ![s].owner = "garbage"]
  /\ UNCHANGED <<backends, model, context, devices>>

(* R collects a handle: its finalizer deletes the EdgeModelContext, whose
   destructor cleans up.  What was freed once is forgotten with its last pointer. *)
Forgotten(fate) == IF fate = "freed" THEN "none" ELSE fate

Collect ==
  /\ \E s \in Slots :
       /\ handle[s].owner = "garbage"
       /\ model' = [model EXCEPT ![s] = Forgotten(IF handle[s].model THEN Freed(@) ELSE @)]
       /\ context' = [context EXCEPT ![s] = Forgotten(IF handle[s].ctx THEN Freed(@) ELSE @)]
       /\ handle' = [handle EXCEPT ![s] = NoHandle]
  /\ UNCHANGED <<backends, devices>>

------------------------------------------------------------------------------
(* Whatever happened during a load, and however often a model was freed before
   its handle was collected: every object that is alive is pointed to by a handle
   that R will still finalize, no pointer leads to a freed object, and nothing
   was freed twice. *)
OwnedByHandle ==
  \A s \in Slots :
    /\ model[s] = "live" <=> handle[s].model
    /\ context[s] = "live" <=> handle[s].ctx
    /\ "freed twice" \notin {model[s], context[s]}
    /\ handle[s].owner = "nobody" => ~handle[s].model /\ ~handle[s].ctx

(* A library that can be loaded and was named before the initialisation is loaded, and
   every model is given its GPU, even if earlier loads failed in the middle of it:
   what edge_reload_cuda's documentation (api.R 2342-2344) promises.  How many layers
   then go there is the caller's n_gpu_layers. *)
EarlyActivationTakesEffect ==
  initialized /\ asked \in Loadable =>
    /\ cudaLoaded
    /\ \A s \in Slots : model[s] = "live" => devices[s] # <<>>
=============================================================================
