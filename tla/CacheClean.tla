------------------------------- MODULE CacheClean -------------------------------
(***************************************************************************)
(* edge_clean_cache and the check of the cache at attach, in R sessions    *)
(* that share the cache directory with each other and with downloads.      *)
(*                                                                         *)
(* A cleaner lists the files, reads their sizes and times, decides, asks   *)
(* and deletes, in this order and with nothing to keep the others out.     *)
(* Files are numbered in the order list.files sorts them.  A file that is  *)
(* gone keeps its last size and time, for the properties to speak of.      *)
(* Sizes are in MB, times in days; a clean takes less than a day.          *)
(***************************************************************************)
EXTENDS Integers

CONSTANTS
  NFiles,     \* names a file in the cache may have
  Protected,  \* those under cuda/, and known_hashes.csv
  Sizes,      \* sizes a file may have
  Today,
  Cleaner,    \* R sessions that clean
  MaxAge,     \* max_age_days
  Limit,      \* max_size_mb
  Lrus,       \* values of use_lru: a subset of BOOLEAN
  MaxWrites   \* bound: downloads while the cleaners are at work

File == 1..NFiles

ASSUME CacheAssumption == /\ NFiles \in Nat
                          /\ Protected \subseteq File
                          /\ Sizes \subseteq Nat \ {0}
                          /\ Today \in Nat
                          /\ MaxAge \in Nat
                          /\ Limit \in Nat
                          /\ Lrus \subseteq BOOLEAN
                          /\ MaxWrites \in Nat

VARIABLES
  file,     \* the cache directory
  clean,    \* [Cleaner -> its call of edge_clean_cache, or Idle]
  writes    \* downloads so far

vars == <<file, clean, writes>>

FileState == [there : BOOLEAN, size : Nat, mtime : 0..Today]

\* A row of file.info; na: the file was gone.
Info == [na : BOOLEAN, size : Nat, mtime : 0..Today]
NA == [na |-> TRUE, size |-> 0, mtime |-> 0]
Absent == [there |-> FALSE, size |-> 0, mtime |-> 0]

Clean == [pc : {"stat", "decide", "ask", "delete", "done"},
          lru : BOOLEAN,
          asks : BOOLEAN,         \* ask && interactive()
          listed : SUBSET File,   \* what list.files found
          unread : SUBSET File,   \* what file.info has not come to
          info : [File -> Info],
          old : SUBSET File,      \* old_files
          doomed : SUBSET File,   \* files_to_delete that are left
          missed : BOOLEAN,       \* the user refused, or file.remove failed
          fresh : SUBSET File]    \* history: downloaded since the listing
Idle == [pc |-> "idle"]

At(s, p) == clean[s].pc = p

\* The size of the files in S, going by the sizes in `of`.
SizeOf(of, S) ==
  LET sum[n \in 0..NFiles] ==
        IF n = 0 THEN 0 ELSE sum[n - 1] + (IF n \in S THEN of[n].size ELSE 0)
  IN  sum[NFiles]

\* order(mtime), which is stable; without use_lru the order of the names.
Before(of, lru, f, g) == IF lru /\ of[f].mtime # of[g].mtime
                         THEN of[f].mtime < of[g].mtime ELSE f < g

Init == /\ file \in [File -> {Absent} \union
                       [there : {TRUE}, size : Sizes, mtime : 0..Today]]
        /\ clean = [s \in Cleaner |-> Idle]
        /\ writes = 0

-----------------------------------------------------------------------------
(***************************************************************************)
(* Listing.                                                                *)
(***************************************************************************)

Listed == {f \in File : file[f].there} \ Protected

Started(lru, asks) ==
  [pc |-> IF Listed = {} THEN "done" ELSE "stat", lru |-> lru, asks |-> asks,
   listed |-> Listed, unread |-> Listed, info |-> [f \in File |-> NA],
   old |-> {}, doomed |-> {}, missed |-> FALSE, fresh |-> {}]

Begin(s, lru, asks) == /\ At(s, "idle")
                       /\ clean' = [clean EXCEPT ![s] = Started(lru, asks)]
                       /\ UNCHANGED <<file, writes>>

\* .onAttach with edgemodelr.cache_auto_clean: edge_cache_info counts every file.
\* Under the limit, or without the option, nothing changes.
Attach(s) == /\ SizeOf(file, {f \in File : file[f].there}) > Limit
             /\ Begin(s, TRUE, FALSE)

\* file.info, file by file in the order of the list.
Stat(s, f) ==
  /\ At(s, "stat")
  /\ f \in clean[s].unread
  /\ \A g \in clean[s].unread : f <= g
  /\ clean' = [clean EXCEPT
       ![s].info[f] = IF file[f].there
                      THEN [na |-> FALSE, size |-> file[f].size, mtime |-> file[f].mtime]
                      ELSE NA,
       ![s].unread = @ \ {f},
       ![s].pc = IF clean[s].unread = {f} THEN "decide" ELSE "stat"]
  /\ UNCHANGED <<file, writes>>

-----------------------------------------------------------------------------
(***************************************************************************)
(* Deciding.  A row of a file that was gone has NA everywhere: no test is  *)
(* true of it, cumsum() is NA from it on, and order() puts it last.        *)
(***************************************************************************)

Gone(c) == {f \in c.listed : c.info[f].na}
Known(c) == c.listed \ Gone(c)
Old(c) == {f \in Known(c) : Today - c.info[f].mtime > MaxAge}

FreedBefore(c, f) == SizeOf(c.info, {g \in Known(c) : Before(c.info, c.lru, g, f)})
Excess(c) == SizeOf(c.info, Known(c))
AfterGone(c, f) == ~c.lru /\ \E g \in Gone(c) : g < f

\* mutation: a file goes if it and the files before it free no more than needed
EvictedShort(c) ==
  {f \in Known(c) : /\ Excess(c) > Limit
                    /\ ~AfterGone(c, f)
                    /\ FreedBefore(c, f) + c.info[f].size < Excess(c) - Limit}

\* mutation: a file goes also if enough was freed just before it
EvictedOneMore(c) ==
  {f \in Known(c) : /\ Excess(c) > Limit
                    /\ ~AfterGone(c, f)
                    /\ FreedBefore(c, f) <= Excess(c) - Limit}

Evicted(c) ==
  {f \in Known(c) : /\ Excess(c) > Limit
                    /\ ~AfterGone(c, f)
                    /\ FreedBefore(c, f) < Excess(c) - Limit}

Doomed(c) == Old(c) \union Evicted(c)

\* The NA rows do count as files to delete, so that the user is asked about them.
Decide(s) ==
  /\ At(s, "decide")
  /\ LET c == clean[s]
     IN  clean' = [clean EXCEPT
           ![s].old = Old(c),
           ![s].doomed = Doomed(c),
           ![s].pc = IF Doomed(c) \union Gone(c) = {} THEN "done"
                     ELSE IF c.asks THEN "ask" ELSE "delete"]
  /\ UNCHANGED <<file, writes>>

Consent(s) == /\ At(s, "ask")
              /\ clean' = [clean EXCEPT ![s].pc = "delete"]
              /\ UNCHANGED <<file, writes>>

Refuse(s) == /\ At(s, "ask")
             /\ clean' = [clean EXCEPT ![s].pc = "done", ![s].missed = TRUE]
             /\ UNCHANGED <<file, writes>>

-----------------------------------------------------------------------------
(***************************************************************************)
(* Deleting: the old files by name, then the evicted ones in their order.  *)
(***************************************************************************)

Sooner(c, f, g) == IF f \in c.old /\ g \in c.old THEN f < g
                   ELSE f \in c.old \/ (g \notin c.old /\ Before(c.info, c.lru, f, g))

IsNext(c, f) == f \in c.doomed /\ \A g \in c.doomed \ {f} : Sooner(c, f, g)

\* file.exists and file.remove.  Whatever has the name by now is removed.
Delete(s, f) ==
  /\ At(s, "delete")
  /\ IsNext(clean[s], f)
  /\ file' = [file EXCEPT ![f].there = FALSE]
  /\ clean' = [clean EXCEPT ![s].doomed = @ \ {f}]
  /\ UNCHANGED writes

\* file.remove fails: the file is in use, or the directory read-only.
DeleteFails(s, f) ==
  /\ At(s, "delete")
  /\ IsNext(clean[s], f)
  /\ file[f].there
  /\ clean' = [clean EXCEPT ![s].doomed = @ \ {f}, ![s].missed = TRUE]
  /\ UNCHANGED <<file, writes>>

Return(s) == /\ At(s, "delete")
             /\ clean[s].doomed = {}
             /\ clean' = [clean EXCEPT ![s].pc = "done"]
             /\ UNCHANGED <<file, writes>>

\* Another session downloads a model, installs CUDA or stores a hash.
Write(f, size) ==
  /\ writes < MaxWrites
  /\ writes' = writes + 1
  /\ file' = [file EXCEPT ![f] = [there |-> TRUE, size |-> size, mtime |-> Today]]
  /\ clean' = [s \in Cleaner |-> IF At(s, "idle") THEN clean[s]
                                 ELSE [clean[s] EXCEPT !.fresh = @ \union {f}]]

-----------------------------------------------------------------------------
Start(s) == Attach(s) \/ \E lru \in Lrus, asks \in BOOLEAN : Begin(s, lru, asks)

Step(s) == \/ \E f \in File : Stat(s, f) \/ Delete(s, f) \/ DeleteFails(s, f)
           \/ Decide(s) \/ Consent(s) \/ Refuse(s) \/ Return(s)

Next == \/ \E s \in Cleaner : Start(s) \/ Step(s)
        \/ \E f \in File, size \in Sizes : Write(f, size)

Spec == Init /\ [][Next]_vars

-----------------------------------------------------------------------------
TypeOK == /\ file \in [File -> FileState]
          /\ clean \in [Cleaner -> Clean \union {Idle}]
          /\ writes \in 0..MaxWrites

\* The CUDA backend and the checksum store are never removed, not even when they
\* arrive or change while a clean is under way.
ProtectedStay ==
  [][\A f \in Protected : file[f].there => file'[f].there]_vars

\* A clean that was not refused and could delete what it wanted to gets the cache
\* under the limit, whatever other cleaners delete meanwhile; only what others
\* downloaded since may be over it.
UnderLimitAfterClean ==
  \A s \in Cleaner :
    At(s, "done") /\ clean[s].lru /\ ~clean[s].missed
      => SizeOf(file, Listed \ clean[s].fresh) <= Limit

\* Cleaners that work at the same time delete no more than one alone would: a file
\* that is gone was too old, or one of the files that had to go at the start.
Once == {f \in File \ Protected : file[f].size > 0}  \* the files of the start
EvictsOnlyExcess ==
  writes = 0 => \A f \in Once : ~file[f].there =>
    \/ Today - file[f].mtime > MaxAge
    \/ \E lru \in Lrus \union {TRUE} :
         SizeOf(file, {g \in Once : Before(file, lru, g, f)})
           < SizeOf(file, Once) - Limit

=============================================================================
