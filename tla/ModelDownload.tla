----------------------------- MODULE ModelDownload -----------------------------
(***************************************************************************)
(* edge_download_model and edge_download_url: R sessions that share a      *)
(* model cache look for a file, fetch it with whatever tool they find,     *)
(* resume what an earlier attempt left, and check the result.              *)
(*                                                                         *)
(* A model is a number of pieces, and a file the sequence of pieces        *)
(* <<m, k>> that were written to it; <<m, 0>> is an error page m's server  *)
(* sent instead, Hole what was never written.  A file that does not exist  *)
(* and an empty one are treated alike by the code and are both <<>>.  The  *)
(* hash of a file is its content.                                          *)
(***************************************************************************)
EXTENDS Naturals, Sequences

CONSTANTS
  Session,     \* R sessions that share the cache directory
  Model,       \* models (repository and file) that can be asked for
  Name,        \* names of files in the cache
  NameOf,      \* [Model -> Name]: basename(filename)
  Pieces,      \* pieces of a complete model
  MinPieces,   \* how many of them make up 1 MB
  Methods,     \* the tools found, in the order .robust_download tries them
  MaxTries,    \* max_retries (3 in the code)
  Modes,       \* how the calls verify: a subset of Mode
  Forces,      \* values of force_download: a subset of BOOLEAN
  ByUrls,      \* whether calls are edge_download_url's: a subset of BOOLEAN
  MaxCalls,    \* bound: downloads asked for
  MaxCrashes   \* bound: sessions killed or interrupted

Method == {"curl", "wget", "httr", "R"}

\* "skip": verify_checksum = FALSE; "known": the default; "trust":
\* trust_first_use = TRUE; "expected": the right expected_sha256 is given.
Mode == {"skip", "known", "trust", "expected"}

ASSUME CacheAssumption == NameOf \in [Model -> Name]
ASSUME SizeAssumption == /\ Pieces \in Nat \ {0}
                         /\ MinPieces \in 1..Pieces
ASSUME ToolAssumption == /\ Methods \in Seq(Method) /\ Methods # <<>>
                         /\ Methods[Len(Methods)] = "R"  \* the one that is always there
                         /\ MaxTries \in Nat \ {0}
ASSUME CallAssumption == /\ Modes \subseteq Mode
                         /\ Forces \subseteq BOOLEAN
                         /\ ByUrls \subseteq BOOLEAN
                         /\ MaxCalls \in Nat
                         /\ MaxCrashes \in Nat

VARIABLES
  file,     \* [Name -> Seq(Piece)], the cache directory
  known,    \* the rows of known_hashes.csv
  call,     \* [Session -> its call, or Idle]
  begun,    \* downloads asked for so far
  crashes,
  cutShort  \* names whose last transfer ended in a crash, or in what download.file
            \* only warned about (history)

vars == <<file, known, call, begun, crashes, cutShort>>

Hole == <<"hole">>
NoModel == <<"NA">>
Piece == (Model \X Nat) \union {Hole}
Row == [model : Model \union {NoModel}, name : Name, sha256 : Seq(Piece)]

Ended == {"done", "failed"}
Call == [pc : {"look", "discard", "fetch", "transfer", "cleanup", "fetched",
               "verify", "truncate", "save"} \union Ended,
         want : Model, mode : Mode, force : BOOLEAN, byUrl : BOOLEAN,
         m : 1..Len(Methods),  \* method under way
         try : 1..MaxTries,    \* its attempt
         next : Nat,       \* next piece the server will send
         pos : Nat,        \* where it goes; 0: at the end of the file
         lost : BOOLEAN,   \* the file it writes to was unlinked
         seen : Seq(Row),  \* the hashes it is about to save
         why : {"none", "download", "invalid", "mismatch"}]
Idle == [pc |-> "idle"]

At(s, p) == call[s].pc = p
NameFor(s) == NameOf[call[s].want]
Content(s) == file[NameFor(s)]
MethodOf(s) == Methods[call[s].m]

\* .is_valid_gguf_file: at least 1 MB, and the magic at the start.
Valid(c) == Len(c) >= MinPieces /\ c[1] # Hole /\ c[1][2] = 1

Whole(m) == [k \in 1..Pieces |-> <<m, k>>]

Went(s, pc) == [call EXCEPT ![s].pc = pc]
Stopped(s, why) == [call EXCEPT ![s].pc = "failed", ![s].why = why]

\* file.remove(): a transfer that has the file open goes on writing to nothing.
Removed(n) == [file EXCEPT ![n] = <<>>]
Orphaned(calls, n) ==
  [t \in Session |-> IF calls[t].pc = "transfer" /\ NameOf[calls[t].want] = n
                     THEN [calls[t] EXCEPT !.lost = TRUE] ELSE calls[t]]

Init == /\ file = [n \in Name |-> <<>>]
        /\ known = <<>>
        /\ call = [s \in Session |-> Idle]
        /\ begun = 0
        /\ crashes = 0
        /\ cutShort = {}

-----------------------------------------------------------------------------
(***************************************************************************)
(* Before the download.                                                    *)
(***************************************************************************)

Begin(s, want, mode, force, byUrl) ==
  /\ call[s].pc \in {"idle"} \union Ended
  /\ begun < MaxCalls
  /\ begun' = begun + 1
  /\ call' = [call EXCEPT ![s] =
                [pc |-> "look", want |-> want, mode |-> mode, force |-> force,
                 byUrl |-> byUrl, m |-> 1, try |-> 1, next |-> 1, pos |-> 0,
                 lost |-> FALSE, seen |-> <<>>, why |-> "none"]]
  /\ UNCHANGED <<file, known, crashes, cutShort>>

\* A file that is there and valid is verified and returned as it is.
Look(s) ==
  /\ At(s, "look")
  /\ call' = Went(s, IF call[s].force \/ Content(s) = <<>> THEN "fetch"
                     ELSE IF Valid(Content(s)) THEN "verify" ELSE "discard")
  /\ UNCHANGED <<file, known, begun, crashes, cutShort>>

Discard(s) == /\ At(s, "discard")
              /\ file' = Removed(NameFor(s))
              /\ call' = Orphaned(Went(s, "fetch"), NameFor(s))
              /\ UNCHANGED <<known, begun, crashes, cutShort>>

-----------------------------------------------------------------------------
(***************************************************************************)
(* .robust_download: each tool in turn, each up to max_retries times.      *)
(***************************************************************************)

\* mutation: attempts are not counted
NextTryForever(f) == [f EXCEPT !.pc = "fetch"]

\* The attempt gave no valid file: the next attempt, the next tool, or failure.
\* httr has one attempt.
NextTry(f) ==
  IF Methods[f.m] # "httr" /\ f.try < MaxTries
  THEN [f EXCEPT !.pc = "fetch", !.try = @ + 1]
  ELSE IF f.m < Len(Methods)
  THEN [f EXCEPT !.pc = "fetch", !.m = @ + 1, !.try = 1]
  ELSE [f EXCEPT !.pc = "cleanup"]

\* curl -C - and wget -c ask for what follows the bytes that are there, and
\* append; a first byte, and the other two tools, start the file over.
Resumes(s) == MethodOf(s) \in {"curl", "wget"} /\ Content(s) # <<>>
Truncates(s) == MethodOf(s) \in {"httr", "R"}

\* mutation: the last piece that is there is asked for again
OffsetAgain(s) == IF Resumes(s) THEN Len(Content(s)) ELSE 1
Offset(s) == IF Resumes(s) THEN Len(Content(s)) + 1 ELSE 1

Open(s) ==
  /\ At(s, "fetch")
  /\ file' = IF Truncates(s) THEN Removed(NameFor(s)) ELSE file
  /\ call' = [call EXCEPT ![s].pc = "transfer",
                          ![s].next = Offset(s),
                          ![s].pos = IF Resumes(s) \/ MethodOf(s) = "wget" THEN 0 ELSE 1,
                          ![s].lost = FALSE]
  /\ cutShort' = cutShort \ {NameFor(s)}
  /\ UNCHANGED <<known, begun, crashes>>

\* What a write of x at position p makes of content c.
WriteAt(c, p, x) ==
  [k \in 1..(IF p > Len(c) THEN p ELSE Len(c)) |->
     IF k = p THEN x ELSE IF k <= Len(c) THEN c[k] ELSE Hole]

Written(s, x) ==
  LET c == Content(s)
      pos == call[s].pos
  IN  IF call[s].lost THEN file
      ELSE [file EXCEPT ![NameFor(s)] =
              IF pos = 0 THEN Append(c, x)
              ELSE IF pos = 1 /\ MethodOf(s) = "curl" THEN <<x>>
              ELSE WriteAt(c, pos, x)]

Receive(s) ==
  /\ At(s, "transfer")
  /\ call[s].next <= Pieces
  /\ file' = Written(s, <<call[s].want, call[s].next>>)
  /\ call' = [call EXCEPT ![s].next = @ + 1,
                          ![s].pos = IF @ = 0 THEN 0 ELSE @ + 1]
  /\ UNCHANGED <<known, begun, crashes, cutShort>>

\* A page instead of the model: of a login with status 200, or of an error, which
\* wget and R leave out and the others write.  A resumed curl refuses it.  httr
\* takes one of status 200 that is longer than 1024 bytes.
ReceivePage(s) ==
  /\ At(s, "transfer")
  /\ call[s].next = 1
  /\ file' = Written(s, <<call[s].want, 0>>)
  /\ \/ call' = [call EXCEPT ![s] = NextTry(@)]
     \/ MethodOf(s) = "httr" /\ call' = Went(s, "fetched")
  /\ UNCHANGED <<known, begun, crashes, cutShort>>

\* Exit status 0.  httr has only the size looked at, the others the magic too.
Finish(s) ==
  /\ At(s, "transfer")
  /\ call[s].next > Pieces
  /\ call' = [call EXCEPT ![s] =
                IF IF MethodOf(s) = "httr" THEN Content(s) # <<>> ELSE Valid(Content(s))
                THEN [@ EXCEPT !.pc = "fetched"] ELSE NextTry(@)]
  /\ UNCHANGED <<file, known, begun, crashes, cutShort>>

\* mutation: the exit status is not looked at
BreakUnnoticed(s) ==
  /\ At(s, "transfer")
  /\ MethodOf(s) # "httr"
  /\ call' = [call EXCEPT ![s] = IF Valid(Content(s)) THEN [@ EXCEPT !.pc = "fetched"]
                                 ELSE NextTry(@)]
  /\ UNCHANGED <<file, known, begun, crashes, cutShort>>

\* The connection breaks, or the server refuses.
Break(s) ==
  /\ At(s, "transfer")
  /\ MethodOf(s) # "httr"
  /\ call' = [call EXCEPT ![s] = NextTry(@)]
  /\ UNCHANGED <<file, known, begun, crashes, cutShort>>

\* httr removes what it has.
BreakHttr(s) ==
  /\ At(s, "transfer")
  /\ MethodOf(s) = "httr"
  /\ file' = Removed(NameFor(s))
  /\ call' = Orphaned([call EXCEPT ![s] = NextTry(@)], NameFor(s))
  /\ UNCHANGED <<known, begun, crashes, cutShort>>

\* download.file reports a short transfer as a warning, which counts as success
\* once the file has 1 MB.
BreakWithWarning(s) ==
  /\ At(s, "transfer")
  /\ MethodOf(s) = "R"
  /\ Valid(Content(s))
  /\ call' = Went(s, "fetched")
  /\ cutShort' = cutShort \union {NameFor(s)}
  /\ UNCHANGED <<file, known, begun, crashes>>

\* mutation: what the tools left stays
CleanUpKeeps(s) == /\ At(s, "cleanup")
                   /\ call' = Stopped(s, "download")
                   /\ UNCHANGED <<file, known, begun, crashes, cutShort>>

\* All tools failed: whatever they left is removed.
CleanUp(s) == /\ At(s, "cleanup")
              /\ file' = Removed(NameFor(s))
              /\ call' = Orphaned(Stopped(s, "download"), NameFor(s))
              /\ UNCHANGED <<known, begun, crashes, cutShort>>

-----------------------------------------------------------------------------
(***************************************************************************)
(* After the download.                                                     *)
(***************************************************************************)

CheckFetched(s) ==
  /\ At(s, "fetched")
  /\ IF Valid(Content(s))
     THEN call' = Went(s, "verify") /\ UNCHANGED file
     ELSE /\ file' = Removed(NameFor(s))
          /\ call' = Orphaned(Stopped(s, "invalid"), NameFor(s))
  /\ UNCHANGED <<known, begun, crashes, cutShort>>

\* The rows of known_hashes.csv for this model; by URL, for this file name.
Hits(s) == {i \in DOMAIN known : /\ known[i].name = NameFor(s)
                                 /\ call[s].byUrl \/ known[i].model = call[s].want}

FirstHit(s) == {i \in Hits(s) : \A j \in Hits(s) : i <= j}

\* The hashes the content must equal: none, or one.
Pins(s) == CASE call[s].mode = "skip"     -> {}
             [] call[s].mode = "expected" -> {Whole(call[s].want)}
             [] OTHER -> {known[i].sha256 : i \in FirstHit(s)}

NewRow(s) == [model |-> IF call[s].byUrl THEN NoModel ELSE call[s].want,
              name |-> NameFor(s), sha256 |-> Content(s)]

\* mutation: a mismatch is only reported
VerifyWarns(s) ==
  /\ At(s, "verify")
  /\ call' = IF Pins(s) = {} /\ call[s].mode = "trust" /\ Content(s) # <<>>
             THEN [call EXCEPT ![s].pc = "truncate", ![s].seen = Append(known, NewRow(s))]
             ELSE Went(s, "done")
  /\ UNCHANGED <<file, known, begun, crashes, cutShort>>

\* .validate_model_checksum.  A mismatch stops, and leaves the file.
Verify(s) ==
  /\ At(s, "verify")
  /\ call' = IF \E h \in Pins(s) : h # Content(s) THEN Stopped(s, "mismatch")
             ELSE IF Pins(s) = {} /\ call[s].mode = "trust" /\ Content(s) # <<>>
             THEN [call EXCEPT ![s].pc = "truncate", ![s].seen = Append(known, NewRow(s))]
             ELSE Went(s, "done")
  /\ UNCHANGED <<file, known, begun, crashes, cutShort>>

\* write.csv opens known_hashes.csv, which empties it, and then writes the rows.
Truncate(s) == /\ At(s, "truncate")
               /\ known' = <<>>
               /\ call' = Went(s, "save")
               /\ UNCHANGED <<file, begun, crashes, cutShort>>

Save(s) == /\ At(s, "save")
           /\ known' = call[s].seen
           /\ call' = Went(s, "done")
           /\ UNCHANGED <<file, begun, crashes, cutShort>>

Downloading(s) == call[s].pc \in {"fetch", "transfer", "cleanup", "fetched"}

\* The session is killed or interrupted, its tool with it; the files stay.
Crash(s) == /\ call[s].pc \notin {"idle"} \union Ended
            /\ crashes < MaxCrashes
            /\ crashes' = crashes + 1
            /\ call' = [call EXCEPT ![s] = Idle]
            /\ cutShort' = IF Downloading(s) THEN cutShort \union {NameFor(s)} ELSE cutShort
            /\ UNCHANGED <<file, known, begun>>

-----------------------------------------------------------------------------
Ask(s) == \E want \in Model, mode \in Modes, force \in Forces, byUrl \in ByUrls :
            Begin(s, want, mode, force, byUrl)

Transfer(s) == \/ Open(s) \/ Receive(s) \/ ReceivePage(s)
               \/ Finish(s) \/ Break(s) \/ BreakHttr(s) \/ BreakWithWarning(s)

Step(s) == \/ Look(s) \/ Discard(s)
           \/ Transfer(s) \/ CleanUp(s)
           \/ CheckFetched(s) \/ Verify(s) \/ Truncate(s) \/ Save(s)

Next == \E s \in Session : Ask(s) \/ Step(s) \/ Crash(s)

Spec == Init /\ [][Next]_vars

\* A session that can take a step takes one: curl, wget and download.file are run
\* with timeouts.  httr is not, so this is assumed of machines that do without it.
FairSpec == Spec /\ \A s \in Session : WF_vars(Step(s))

-----------------------------------------------------------------------------
TypeOK == /\ file \in [Name -> Seq(Piece)]
          /\ known \in Seq(Row)
          /\ call \in [Session -> Call \union {Idle}]
          /\ begun \in 0..MaxCalls
          /\ crashes \in 0..MaxCrashes
          /\ cutShort \subseteq Name

IsPrefix(c, m) == Len(c) <= Pieces /\ \A k \in DOMAIN c : c[k] = <<m, k>>
IsErrorPage(c) == Len(c) > 0 /\ c[1] # Hole /\ c[1][2] = 0

\* Resuming across attempts, tools, calls and crashes never mixes a file up: it
\* holds the first pieces of its model in order, or begins with an error page,
\* which is never valid (curl -C -, wget -c, httr's overwrite, file.remove).
NoMixture ==
  \A m \in Model : IsErrorPage(file[NameOf[m]]) \/ IsPrefix(file[NameOf[m]], m)

\* A call that gives up on the download leaves nothing for the next one to
\* resume or to accept.
FailedLeavesNothing ==
  \A s \in Session : At(s, "failed") /\ call[s].why \in {"download", "invalid"}
                       => Content(s) = <<>>

\* A call that returns with a hash to go by, given or remembered from an earlier
\* call, returns the content of that hash, whatever was left, resumed or crashed.
ReturnedMatchesHash ==
  \A s \in Session : At(s, "done") => \A h \in Pins(s) : Content(s) = h

\* What a call returns is complete, put together from whatever attempts and tools,
\* unless the last transfer into the file was cut off by a crash or is one of those
\* that download.file only warned about: no broken transfer that the code knows of
\* is taken for a success.
ReturnedIsWhole ==
  \A s \in Session : At(s, "done") => NameFor(s) \in cutShort \/ Content(s) = Whole(call[s].want)

\* A download that is asked for comes to an end, unless its session is killed.
DownloadsEnd == \A s \in Session : At(s, "look") ~> call[s].pc \in {"idle"} \union Ended

=============================================================================
