----------------------------- MODULE FindModels -----------------------------
(***************************************************************************)
(* edge_find_gguf_models (api.R 1834-2089): directories are scanned, each  *)
(* file found is loaded and tried, and linked or copied into a target      *)
(* directory under a name that is free.  The target directory may itself   *)
(* be among those scanned (it is by default); other processes remove and   *)
(* replace files at any time; between scans the user loads models of his   *)
(* own.                                                                    *)
(*                                                                         *)
(* A path is a source file or a target, a sequence <<name, counters...>>:  *)
(* the name "a_1" made for a second file called "a" is <<a, 1>>.  NoFile   *)
(* is the NA that a dangling link leaves in the list of files.             *)
(***************************************************************************)
EXTENDS ModelLoading

CONSTANTS Sources,          \* paths of model files in the directories scanned
          Labels,           \* what names are made of, besides counters
          NameOf,           \* the cleaned name of each source
          NoFile, NaName,   \* NA, and the model name that is made of it
          Nowhere,          \* what a relative path leads to from another directory
          Contents, Broken, \* what files may hold, and what llama.cpp rejects
          Part,             \* what a copy leaves that fails midway, or reads what it emptied
          MaxScans,         \* bound: scans in one session
          MaxOpens,         \* bound: models the user opens
          MaxMishaps        \* bound: what goes wrong outside of the code

Names == Seq(Labels \cup Nat)

ASSUME ContentsAssumption == Broken \subseteq Contents /\ Part \in Broken
ASSUME PathsAssumption ==
  /\ IsFiniteSet(Sources)
  /\ NameOf \in [Sources -> Seq(Labels)]
  /\ NaName \in Seq(Labels)
  /\ \A path \in {NoFile, Nowhere} : path \notin Sources /\ path \notin Names

VARIABLES
  disk,     \* the content of each path, or the path it links to
  scan,     \* locals of edge_find_gguf_models, or of its last call
  scans,    \* scans begun
  opens,    \* models opened by the user
  mishaps,  \* changes by others, links refused, scans of relative paths (history)
  intruded  \* what others wrote or linked to since a name was looked for (history)

vars == <<backends, objects, disk, scan, scans, opens, mishaps, intruded>>
loading == <<backends, objects>>

File(content) == [link |-> NoFile, content |-> content]
Link(path) == [link |-> path, content |-> NoFile]

(* A directory, or a list of R, with one entry that is new or replaced. *)
Put(entries, key, entry) ==
  [k \in DOMAIN entries \cup {key} |-> IF k = key THEN entry ELSE entries[k]]

IsLink(files, path) == path \in DOMAIN files /\ files[path].link # NoFile
Hop(files, path) == IF IsLink(files, path) THEN files[path].link ELSE path

(* Where a chain of links from a path ends, be there something or not; links that
   lead around in a circle lead nowhere. *)
Follow(files, path) ==
  LET hops == Cardinality(DOMAIN files)
      after[n \in 0..hops] == IF n = 0 THEN path ELSE Hop(files, after[n - 1])
  IN IF IsLink(files, after[hops]) THEN Nowhere ELSE after[hops]

End(path) == Follow(disk, path)
Exists(path) == End(path) \in DOMAIN disk
ContentAt(path) == disk[End(path)].content

NoScan == [phase |-> "idle", todo |-> {}, file |-> NoFile, target |-> NoFile, temp |-> 0,
           testing |-> FALSE, linking |-> FALSE, absolute |-> FALSE, models |-> <<>>]

Init ==
  /\ LoadingInit
  /\ \E files \in SUBSET Sources : disk \in [files -> {File(c) : c \in Contents}]
  /\ scan = NoScan
  /\ scans = 0
  /\ opens = 0
  /\ mishaps = 0
  /\ intruded = {}

------------------------------------------------------------------------------
(* list.files of the directories, without duplicates.  file.size of a dangling
   link is NA, and indexing by that puts an NA into the list. *)
Listed(paths) == {IF Exists(p) THEN p ELSE NoFile : p \in paths}

(* Over the source directories alone, or with the target directory.  Whether the
   paths are absolute makes no difference to copies. *)
Begin ==
  /\ scan.phase = "idle"
  /\ scans < MaxScans
  /\ scans' = scans + 1
  /\ \E paths \in {DOMAIN disk \cap Sources, DOMAIN disk},
        testing, linking, absolute \in BOOLEAN :
       /\ paths # {}
       /\ IF absolute THEN UNCHANGED mishaps
          ELSE linking /\ mishaps < MaxMishaps /\ mishaps' = mishaps + 1
       /\ scan' = [NoScan EXCEPT !.phase = "next", !.todo = Listed(paths), !.testing = testing,
                                 !.linking = linking, !.absolute = absolute]
  /\ UNCHANGED <<loading, disk, opens, intruded>>

(* The loop takes the next file; without a test it counts as compatible. *)
TakeFile ==
  /\ scan.phase = "next"
  /\ \E f \in scan.todo :
       scan' = [scan EXCEPT !.todo = @ \ {f}, !.file = f,
                            !.phase = IF scan.testing THEN "test" ELSE "place"]
  /\ UNCHANGED <<loading, disk, scans, opens, mishaps, intruded>>

(* The function returns and its locals go; what temp_ctx still holds is garbage. *)
Abandon(s, h) == IF s = 0 THEN h ELSE [h EXCEPT ![s].owner = "garbage"]

Return ==
  /\ scan.phase = "next"
  /\ scan.todo = {}
  /\ handle' = Abandon(scan.temp, handle)
  /\ scan' = [scan EXCEPT !.phase = "idle", !.temp = 0]
  /\ UNCHANGED <<backends, model, context, devices, disk, scans, opens, mishaps, intruded>>

------------------------------------------------------------------------------
Testable == scan.phase = "test" /\ scan.file # NoFile /\ Exists(scan.file)

(* edge_load_model(file_path) succeeds; assigning temp_ctx drops the handle of an
   earlier test, with its model if that test failed. *)
TestLoads ==
  /\ Testable
  /\ ContentAt(scan.file) \notin Broken
  /\ \E s \in Slots :
       /\ LoadInto(s, "scan", Abandon(scan.temp, handle))
       /\ scan' = [scan EXCEPT !.temp = s, !.phase = "try"]
  /\ UNCHANGED <<disk, scans, opens, mishaps, intruded>>

(* A load that fails ends in the error handler, whose `is_compatible <- FALSE`
   sets a variable of its own: the file is placed all the same. *)
TestRefused ==
  /\ \/ scan.phase = "test" /\ ~Testable /\ UNCHANGED loading
     \/ Testable /\ (LoadRefused \/ LoadInitThrows)
  /\ scan' = [scan EXCEPT !.phase = "place"]
  /\ UNCHANGED <<disk, scans, opens, mishaps, intruded>>

(* Three tokens are generated and the model is freed. *)
TestAnswers ==
  /\ scan.phase = "try"
  /\ IsValid(scan.temp)
  /\ Free(scan.temp, "scan")
  /\ scan' = [scan EXCEPT !.phase = "place"]
  /\ UNCHANGED <<disk, scans, opens, mishaps, intruded>>

(* The completion fails: nothing frees the model that temp_ctx holds. *)
TestFails ==
  /\ scan.phase = "try"
  /\ IsValid(scan.temp)
  /\ scan' = [scan EXCEPT !.phase = "place"]
  /\ UNCHANGED <<loading, disk, scans, opens, mishaps, intruded>>

------------------------------------------------------------------------------
(* Each target path is the name of the file it would have if it were scanned. *)
ModelName(f) ==
  CASE f = NoFile -> NaName
    [] f \in Sources -> NameOf[f]
    [] OTHER -> f

Candidate(name, counter) == IF counter = 0 THEN name ELSE Append(name, counter)

(* Mutant: the name is taken as it is. *)
TargetAnyway(name) == name

(* The first candidate that file.exists does not see; a dangling link is not seen. *)
Target(name) ==
  LET taken(c) == \A d \in 0..c : Exists(Candidate(name, d))
  IN Candidate(name, CHOOSE c \in 0..Cardinality(DOMAIN disk) :
                       ~taken(c) /\ \A d \in 0..(c - 1) : taken(d))

(* The name is looked for; what happens in the directory before it is used is no
   longer seen. *)
ChooseName ==
  /\ scan.phase = "place"
  /\ scan' = [scan EXCEPT !.phase = "write", !.target = Target(ModelName(scan.file))]
  /\ intruded' = {}
  /\ UNCHANGED <<loading, disk, scans, opens, mishaps>>

(* Mutant: the path before it was made unique (original_target) is reported. *)
ReportedOriginal ==
  LET name == ModelName(scan.file)
  IN scan' = [scan EXCEPT !.phase = "next", !.file = NoFile, !.target = NoFile,
                          !.models = Put(@, name, [path |-> name, source |-> scan.file])]

(* compatible_models[[model_name]]: a second model of that name replaces the first. *)
Reported ==
  LET name == ModelName(scan.file)
  IN scan' = [scan EXCEPT !.phase = "next", !.file = NoFile, !.target = NoFile,
                          !.models = Put(@, name, [path |-> scan.target, source |-> scan.file])]

(* file.symlink; a link leads to where its text leads from the target directory. *)
PlaceLink ==
  /\ scan.phase = "write"
  /\ scan.linking
  /\ scan.file # NoFile
  /\ scan.target \notin DOMAIN disk
  /\ disk' = Put(disk, scan.target, Link(IF scan.absolute THEN scan.file ELSE Nowhere))
  /\ Reported
  /\ UNCHANGED <<loading, scans, opens, mishaps, intruded>>

(* A link that is not made is only warned of: the file is NA, something is in the
   way by now or was (a dangling link), or the file system refuses.  It is reported
   like any other. *)
LinkNotMade ==
  /\ scan.phase = "write"
  /\ scan.linking
  /\ Reported
  /\ IF scan.file = NoFile \/ scan.target \in DOMAIN disk THEN UNCHANGED mishaps
     ELSE mishaps < MaxMishaps /\ mishaps' = mishaps + 1
  /\ UNCHANGED <<loading, disk, scans, opens, intruded>>

(* file.copy asks for the file, empties whatever the target leads to and appends the
   file to it: nothing, if that is what it has just emptied. *)
Copying ==
  /\ scan.phase = "write"
  /\ ~scan.linking
  /\ Exists(scan.file)
  /\ scan.file # scan.target
  /\ End(scan.target) # Nowhere

PlaceCopy ==
  /\ Copying
  /\ LET copied == IF End(scan.target) = End(scan.file) THEN Part ELSE ContentAt(scan.file)
     IN disk' = Put(disk, End(scan.target), File(copied))
  /\ Reported
  /\ UNCHANGED <<loading, scans, opens, mishaps, intruded>>

(* What is no longer there, or cannot be written, or only in part, is left out. *)
CopyFails ==
  /\ scan.phase = "write"
  /\ ~scan.linking
  /\ UNCHANGED disk \/ (Copying /\ disk' = Put(disk, End(scan.target), File(Part)))
  /\ scan' = [scan EXCEPT !.phase = "next", !.file = NoFile, !.target = NoFile]
  /\ UNCHANGED <<loading, scans, opens, mishaps, intruded>>

(* A file that was gone when its own name was found free is back: file.copy stops on
   "both 'from' and 'to'", and with it the scan. *)
CopyStops ==
  /\ scan.phase = "write"
  /\ ~scan.linking
  /\ scan.file = scan.target
  /\ Exists(scan.file)
  /\ handle' = Abandon(scan.temp, handle)
  /\ scan' = NoScan
  /\ UNCHANGED <<backends, model, context, devices, disk, scans, opens, mishaps, intruded>>

------------------------------------------------------------------------------
(* Another process removes a path, or puts a file of its own, or a link to one of
   the sources, at the path of a file or at the one a scan is about to use. *)
Vanish ==
  /\ mishaps < MaxMishaps
  /\ \E path \in DOMAIN disk : disk' = [p \in DOMAIN disk \ {path} |-> disk[p]]
  /\ mishaps' = mishaps + 1
  /\ UNCHANGED <<loading, scan, scans, opens, intruded>>

Replace ==
  /\ mishaps < MaxMishaps
  /\ \E path \in (Sources \cup DOMAIN disk \cup {scan.target}) \ {NoFile},
        entry \in {File(c) : c \in Contents} \cup {Link(f) : f \in Sources} :
       /\ disk' = Put(disk, path, entry)
       /\ intruded' = IF scan.phase = "write" THEN intruded \cup {Follow(disk', path)}
                      ELSE intruded
  /\ disk' # disk
  /\ mishaps' = mishaps + 1
  /\ UNCHANGED <<loading, scan, scans, opens>>

(* What the user does at the prompt. *)
UserLoads ==
  \E path \in {p \in DOMAIN disk : Exists(p)} :
    \/ (LoadRefused \/ LoadInitThrows) /\ UNCHANGED opens
    \/ /\ ContentAt(path) \notin Broken
       /\ opens < MaxOpens
       /\ \E s \in Slots : LoadInto(s, "user", handle)
       /\ opens' = opens + 1

UserFrees == (\E s \in Slots : Free(s, "user")) /\ UNCHANGED opens

User ==
  /\ scan.phase = "idle"
  /\ UserLoads \/ UserFrees \/ (NameLibrary /\ UNCHANGED opens) \/ (Drop /\ UNCHANGED opens)
  /\ UNCHANGED <<disk, scan, scans, mishaps, intruded>>

CollectGarbage == Collect /\ UNCHANGED <<disk, scan, scans, opens, mishaps, intruded>>

Scan == Begin \/ TakeFile \/ TestLoads \/ TestRefused \/ TestAnswers \/ TestFails
          \/ ChooseName \/ PlaceLink \/ LinkNotMade \/ PlaceCopy \/ CopyFails \/ CopyStops
          \/ Return

Next == Scan \/ User \/ CollectGarbage \/ Vanish \/ Replace

Spec == Init /\ [][Next]_vars

------------------------------------------------------------------------------
(* A scan may meet names that are taken, links to links and links that lead nowhere,
   copy or link, fail midway, and see files come and go between its search for a
   name and the copy with overwrite = TRUE (api.R 2022-2044), which writes through
   links.  It may then overwrite what others wrote, or linked to, since it looked
   for the name; nothing else that is there changes. *)
NothingOverwritten ==
  [][scan' # scan =>
       \A p \in DOMAIN disk \ intruded : p \in DOMAIN disk' /\ disk'[p] = disk[p]]_vars

(* As long as nobody else touches the directories, the paths scanned are absolute
   and the links can be made, the path reported for a model leads to what was
   found at its source, through any chain of links earlier scans made, while the
   scan still runs and after it. *)
ReportLeadsToSource ==
  mishaps = 0 => \A name \in DOMAIN scan.models :
    LET m == scan.models[name]
    IN Exists(m.path) /\ ContentAt(m.path) = ContentAt(m.source)

(* "If TRUE (default), tests each GGUF file for compatibility with edgemodelr before
   including it" (api.R 1785-1786). *)
TestedAreCompatible ==
  mishaps = 0 /\ scan.testing => \A name \in DOMAIN scan.models :
    ContentAt(scan.models[name].source) \notin Broken
=============================================================================
