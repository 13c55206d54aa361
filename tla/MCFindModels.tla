---------------------------- MODULE MCFindModels ----------------------------
EXTENDS FindModels

CONSTANTS f, g, a, na, good, bad, lib, wrong, nofile, nowhere

MCSlots == 1..2
MCNames == [p \in {f, g} |-> <<a>>]
MCNaName == <<na>>
MCSymmetry == Permutations({f, g})

VARIABLE shared  \* whether others change the directories too

(* Three kinds of sessions: one from its start, with a single model file and one scan
   left to make; one that has made its loads, is initialised, and goes on to scan
   twice over two files; and one whose directories others use too. *)
Fresh ==
  /\ LoadingInit
  /\ \E p \in Sources, c \in Contents : disk = (p :> File(c))
  /\ scans = MaxScans - 1
  /\ opens = 0
Loaded ==
  /\ initialized = TRUE
  /\ cudaPath = NoPath
  /\ cudaLoaded = FALSE
  /\ registry = <<"CPU", "CPU">>
  /\ attempts = MaxAttempts
  /\ namings = MaxNamings
  /\ asked = NoPath
  /\ NoObjects
  /\ opens = MaxOpens
Settled ==
  /\ Loaded
  /\ disk \in [Sources -> {File(c) : c \in Contents}]
  /\ scans = 0
(* One scan is left, over files of which one already has a link, whose file may be
   gone (a mishap by now), or one that leads nowhere from there. *)
Disturbed ==
  /\ Loaded
  /\ \E files \in SUBSET Sources, linked \in Sources \cup {Nowhere}, c \in [Sources -> Contents] :
       /\ files # {}
       /\ disk = [p \in files |-> File(c[p])] @@ (<<a>> :> Link(linked))
  /\ scans = MaxScans - 1
  /\ mishaps = 1

(* A session starts in one of them. *)
MCInit ==
  /\ \/ shared = FALSE /\ (Fresh \/ Settled) /\ mishaps = 0
     \/ shared = TRUE /\ Disturbed
  /\ scan = NoScan
  /\ intruded = {}

(* With others at work one slot is enough for the tests of a scan. *)
MCNext == /\ Next
          /\ IF shared THEN scan'.temp # 2 ELSE mishaps' = 0
          /\ UNCHANGED shared

MCSpec == MCInit /\ [][MCNext]_<<vars, shared>>
=============================================================================
