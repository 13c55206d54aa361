-------------------------- MODULE ModelDownload_proofs --------------------------
(***************************************************************************)
(* Proofs about ModelDownload, for any number of sessions, models, pieces, *)
(* tools, retries and crashes: that states are well typed, and what a      *)
(* session alone in its cache can rely on: a download it gives up leaves   *)
(* nothing behind, what it gets has the hash it goes by, and, over models  *)
(* with file names of their own, resuming never mixes a file up, and an    *)
(* incomplete file is returned only after a crash in its last transfer, or *)
(* after one that download.file only warned about.                         *)
(*                                                                         *)
(* NoMixture speaks of files only.  What makes it inductive is where the   *)
(* transfer under way will write: right behind the pieces that are there,  *)
(* unless the file is lost to an error page anyway.                        *)
(***************************************************************************)
EXTENDS ModelDownload, SequenceTheorems, WellFoundedInduction, TLAPS

Alone == \A s, t \in Session : s = t
DistinctNames == \A m, n \in Model : NameOf[m] = NameOf[n] => m = n

Calls == [Session -> Call \union {Idle}]

\* The transfer goes on where the file ends.
InOrder(s) == /\ IsPrefix(Content(s), call[s].want)
              /\ Len(Content(s)) = call[s].next - 1
              /\ call[s].pos \in {0, call[s].next}

\* It only adds to an error page.
OnPage(s) == IsErrorPage(Content(s)) /\ call[s].pos = 0

TransferOK == \A s \in Session : At(s, "transfer")
                => ~call[s].lost /\ (InOrder(s) \/ OnPage(s))

ResumeInv == TypeOK /\ NoMixture /\ TransferOK

-----------------------------------------------------------------------------
(***************************************************************************)
(* Types.                                                                  *)
(***************************************************************************)

LEMMA ActiveCall ==
  ASSUME TypeOK, NEW s \in Session, call[s].pc # "idle"
  PROVE  /\ call[s] \in Call
         /\ NameFor(s) \in Name
         /\ Content(s) \in Seq(Piece)
<1>1. call[s] \in Call
  BY DEF TypeOK, Idle
<1>2. NameFor(s) \in Name
  BY <1>1, CacheAssumption DEF Call, NameFor
<1> QED
  BY <1>1, <1>2 DEF TypeOK, Content

\* Putting a well-typed call in place keeps all calls well typed.
LEMMA CallPut ==
  ASSUME TypeOK, NEW s \in Session, NEW f \in Call
  PROVE  [call EXCEPT ![s] = f] \in Calls
BY DEF TypeOK, Calls

LEMMA OrphanedType ==
  ASSUME NEW cs \in Calls, NEW n
  PROVE  Orphaned(cs, n) \in Calls
<1> SUFFICES ASSUME NEW t \in Session
             PROVE  (IF cs[t].pc = "transfer" /\ NameOf[cs[t].want] = n
                     THEN [cs[t] EXCEPT !.lost = TRUE] ELSE cs[t]) \in Call \union {Idle}
  BY DEF Orphaned, Calls
<1>1. CASE cs[t].pc = "transfer"
  <2>1. cs[t] \in Call
    BY <1>1 DEF Calls, Idle
  <2>2. [cs[t] EXCEPT !.lost = TRUE] \in Call
    BY <2>1 DEF Call
  <2> QED
    BY <2>1, <2>2
<1>2. CASE cs[t].pc # "transfer"
  BY <1>2 DEF Calls
<1> QED
  BY <1>1, <1>2

LEMMA RemovedType ==
  ASSUME TypeOK, NEW n \in Name
  PROVE  Removed(n) \in [Name -> Seq(Piece)]
BY DEF TypeOK, Removed

\* The phases a call can be sent to, and the reasons for which it stops.
LEMMA WentType ==
  ASSUME TypeOK, NEW s \in Session, call[s].pc # "idle",
         NEW p \in {"look", "discard", "fetch", "transfer", "cleanup", "fetched",
                    "verify", "truncate", "save", "done", "failed"}
  PROVE  Went(s, p) \in Calls
<1>1. call[s] \in Call
  BY ActiveCall
<1>2. [call[s] EXCEPT !.pc = p] \in Call
  BY <1>1 DEF Call, Ended
<1> QED
  BY <1>2, CallPut DEF Went

LEMMA StoppedType ==
  ASSUME TypeOK, NEW s \in Session, call[s].pc # "idle",
         NEW w \in {"none", "download", "invalid", "mismatch"}
  PROVE  Stopped(s, w) \in Calls
<1>1. call[s] \in Call
  BY ActiveCall
<1>2. [call[s] EXCEPT !.pc = "failed", !.why = w] \in Call
  BY <1>1 DEF Call, Ended
<1>3. Stopped(s, w) = [call EXCEPT ![s] = [call[s] EXCEPT !.pc = "failed", !.why = w]]
  BY DEF Stopped, TypeOK
<1> QED
  BY <1>2, <1>3, CallPut

LEMMA NextTryType ==
  ASSUME NEW f \in Call
  PROVE  /\ NextTry(f) \in Call
         /\ NextTry(f).pc \in {"fetch", "cleanup"}
         /\ NextTry(f).want = f.want
<1>1. Len(Methods) \in Nat /\ MaxTries \in Nat \ {0}
  BY ToolAssumption
<1>2. f.m \in 1..Len(Methods) /\ f.try \in 1..MaxTries
  BY DEF Call
<1>3. CASE Methods[f.m] # "httr" /\ f.try < MaxTries
  <2>1. f.try + 1 \in 1..MaxTries
    BY <1>1, <1>2, <1>3
  <2>2. NextTry(f) = [f EXCEPT !.pc = "fetch", !.try = f.try + 1]
    BY <1>3 DEF NextTry
  <2> QED
    BY <2>1, <2>2 DEF Call
<1>4. CASE ~(Methods[f.m] # "httr" /\ f.try < MaxTries) /\ f.m < Len(Methods)
  <2>1. f.m + 1 \in 1..Len(Methods) /\ 1 \in 1..MaxTries
    BY <1>1, <1>2, <1>4
  <2>2. NextTry(f) = [f EXCEPT !.pc = "fetch", !.m = f.m + 1, !.try = 1]
    BY <1>4 DEF NextTry
  <2> QED
    BY <2>1, <2>2 DEF Call
<1>5. CASE ~(Methods[f.m] # "httr" /\ f.try < MaxTries) /\ ~(f.m < Len(Methods))
  <2>1. NextTry(f) = [f EXCEPT !.pc = "cleanup"]
    BY <1>5 DEF NextTry
  <2> QED
    BY <2>1 DEF Call
<1> QED
  BY <1>3, <1>4, <1>5

LEMMA WrittenType ==
  ASSUME TypeOK, NEW s \in Session, call[s].pc # "idle", NEW x \in Piece
  PROVE  Written(s, x) \in [Name -> Seq(Piece)]
<1>1. call[s] \in Call /\ NameFor(s) \in Name /\ Content(s) \in Seq(Piece)
  BY ActiveCall
<1>2. Append(Content(s), x) \in Seq(Piece) /\ <<x>> \in Seq(Piece)
  BY <1>1, AppendProperties
<1>3. ASSUME NEW c \in Seq(Piece), NEW p \in Nat PROVE WriteAt(c, p, x) \in Seq(Piece)
  <2>1. Len(c) \in Nat /\ Hole \in Piece
    BY DEF Piece
  <2> DEFINE n == IF p > Len(c) THEN p ELSE Len(c)
             w(k) == IF k = p THEN x ELSE IF k <= Len(c) THEN c[k] ELSE Hole
  <2>2. n \in Nat
    BY <2>1
  <2>3. \A k \in 1..n : w(k) \in Piece
    <3>1. ASSUME NEW k \in 1..n, k <= Len(c) PROVE c[k] \in Piece
      BY <2>1, <2>2, <3>1, ElementOfSeq
    <3> QED
      BY <2>1, <3>1
  <2> HIDE DEF n, w
  <2>4. [k \in 1..n |-> w(k)] \in Seq(Piece)
    BY <2>2, <2>3, IsASeq
  <2> QED
    BY <2>4 DEF WriteAt, n, w
<1>4. call[s].pos \in Nat
  BY <1>1 DEF Call
<1>5. WriteAt(Content(s), call[s].pos, x) \in Seq(Piece)
  BY <1>1, <1>3, <1>4
<1> DEFINE n == NameFor(s)
<1>6. n \in Name /\ file \in [Name -> Seq(Piece)]
  BY <1>1 DEF TypeOK
<1> HIDE DEF n
<1>7. \A c \in Seq(Piece) : [file EXCEPT ![n] = c] \in [Name -> Seq(Piece)]
  BY <1>6
<1> QED
  BY <1>2, <1>5, <1>6, <1>7 DEF Written, n

\* The call a session begins, and a row it will store.
LEMMA BeginType ==
  ASSUME TypeOK, NEW s \in Session, NEW want \in Model, NEW mode \in Modes,
         NEW force \in Forces, NEW byUrl \in ByUrls, Begin(s, want, mode, force, byUrl)
  PROVE  TypeOK'
<1> DEFINE f == [pc |-> "look", want |-> want, mode |-> mode, force |-> force,
                 byUrl |-> byUrl, m |-> 1, try |-> 1, next |-> 1, pos |-> 0,
                 lost |-> FALSE, seen |-> <<>>, why |-> "none"]
<1>1. mode \in Mode /\ force \in BOOLEAN /\ byUrl \in BOOLEAN
  BY CallAssumption
<1>2. <<>> \in Seq(Row)
  OBVIOUS
<1>0. 1 \in 1..Len(Methods) /\ 1 \in 1..MaxTries
  <2>1. Len(Methods) \in Nat /\ Len(Methods) # 0
    BY ToolAssumption, EmptySeq, LenProperties
  <2> QED
    BY <2>1, ToolAssumption
<1>3. f \in Call
  BY <1>0, <1>1, <1>2 DEF Call
<1> HIDE DEF f
<1>4. call' = [call EXCEPT ![s] = f]
  BY DEF Begin, f
<1>5. call' \in Calls
  BY <1>3, <1>4, CallPut
<1>6. begun' \in 0..MaxCalls
  BY CallAssumption DEF Begin, TypeOK
<1> QED
  BY <1>5, <1>6 DEF TypeOK, Begin, Calls

LEMMA RowType ==
  ASSUME TypeOK, NEW s \in Session, call[s].pc # "idle"
  PROVE  NewRow(s) \in Row /\ Append(known, NewRow(s)) \in Seq(Row)
<1>1. call[s] \in Call /\ NameFor(s) \in Name /\ Content(s) \in Seq(Piece)
  BY ActiveCall
<1>2. NewRow(s) \in Row
  BY <1>1 DEF NewRow, Row, Call
<1>3. known \in Seq(Row)
  BY DEF TypeOK
<1> QED
  BY <1>2, <1>3, AppendProperties

LEMMA OpenType == ASSUME TypeOK, NEW s \in Session, Open(s) PROVE TypeOK'
<1>1. call[s].pc # "idle"
  BY DEF Open, At
<1>2. call[s] \in Call /\ Content(s) \in Seq(Piece) /\ NameFor(s) \in Name
  BY <1>1, ActiveCall
<1> DEFINE p == IF Resumes(s) \/ MethodOf(s) = "wget" THEN 0 ELSE 1
           o == Offset(s)
           f == [call[s] EXCEPT !.pc = "transfer", !.next = o, !.pos = p, !.lost = FALSE]
<1>3. p \in Nat
  OBVIOUS
<1>4. o \in Nat
  BY <1>2 DEF Offset
<1>5. call' = [call EXCEPT ![s] = f]
  BY DEF Open, TypeOK
<1> HIDE DEF p, o
<1>6. f \in Call
  BY <1>2, <1>3, <1>4 DEF Call
<1> HIDE DEF f
<1>7. call' \in Calls
  BY <1>5, <1>6, CallPut
<1>8. file' \in [Name -> Seq(Piece)]
  BY <1>2, RemovedType DEF Open, TypeOK
<1> QED
  BY <1>7, <1>8 DEF Open, TypeOK, Calls

LEMMA ReceiveType == ASSUME TypeOK, NEW s \in Session, Receive(s) PROVE TypeOK'
<1>1. call[s].pc # "idle"
  BY DEF Receive, At
<1>2. call[s] \in Call
  BY <1>1, ActiveCall
<1>3. <<call[s].want, call[s].next>> \in Piece
  BY <1>2 DEF Call, Piece
<1>4. file' \in [Name -> Seq(Piece)]
  BY <1>1, <1>3, WrittenType DEF Receive
<1> DEFINE nx == call[s].next + 1
           p == IF call[s].pos = 0 THEN 0 ELSE call[s].pos + 1
           f == [call[s] EXCEPT !.next = nx, !.pos = p]
<1>5. nx \in Nat /\ p \in Nat
  BY <1>2 DEF Call
<1>6. call' = [call EXCEPT ![s] = f]
  BY DEF Receive, TypeOK
<1> HIDE DEF nx, p
<1>7. f \in Call
  BY <1>2, <1>5 DEF Call
<1> HIDE DEF f
<1>8. call' \in Calls
  BY <1>6, <1>7, CallPut
<1> QED
  BY <1>4, <1>8 DEF Receive, TypeOK, Calls

\* The attempt is over without a file.
LEMMA RetryType ==
  ASSUME TypeOK, NEW s \in Session, call[s].pc # "idle"
  PROVE  [call EXCEPT ![s] = NextTry(@)] \in Calls
<1>1. NextTry(call[s]) \in Call
  BY ActiveCall, NextTryType
<1>2. [call EXCEPT ![s] = NextTry(@)] = [call EXCEPT ![s] = NextTry(call[s])]
  OBVIOUS
<1> QED
  BY <1>1, <1>2, CallPut

LEMMA FinishType == ASSUME TypeOK, NEW s \in Session, Finish(s) PROVE TypeOK'
<1>1. call[s].pc # "idle"
  BY DEF Finish, At
<1>0. call[s] \in Call
  BY <1>1, ActiveCall
<1> DEFINE f == [call[s] EXCEPT !.pc = "fetched"]
<1>2. NextTry(call[s]) \in Call /\ f \in Call
  BY <1>0, NextTryType DEF Call
<1>3. \/ call' = [call EXCEPT ![s] = f]
      \/ call' = [call EXCEPT ![s] = NextTry(call[s])]
  BY DEF Finish
<1> HIDE DEF f
<1>4. call' \in Calls
  BY <1>2, <1>3, CallPut
<1> QED
  BY <1>4 DEF Finish, TypeOK, Calls

LEMMA VerifyType == ASSUME TypeOK, NEW s \in Session, Verify(s) PROVE TypeOK'
<1>1. call[s].pc # "idle"
  BY DEF Verify, At
<1>2. call[s] \in Call /\ Append(known, NewRow(s)) \in Seq(Row)
  BY <1>1, ActiveCall, RowType
<1> DEFINE rows == Append(known, NewRow(s))
           f == [call[s] EXCEPT !.pc = "truncate", !.seen = rows]
<1>3. [call EXCEPT ![s].pc = "truncate", ![s].seen = rows] = [call EXCEPT ![s] = f]
  BY DEF TypeOK
<1> HIDE DEF rows
<1>4. f \in Call
  BY <1>2 DEF Call, rows
<1> HIDE DEF f
<1>5. [call EXCEPT ![s].pc = "truncate", ![s].seen = rows] \in Calls
  BY <1>3, <1>4, CallPut
<1>6. Stopped(s, "mismatch") \in Calls /\ Went(s, "done") \in Calls
  BY <1>1, WentType, StoppedType
<1>7. call' \in Calls
  BY <1>5, <1>6 DEF Verify, rows
<1> QED
  BY <1>7 DEF Verify, TypeOK, Calls

LEMMA CheckFetchedType == ASSUME TypeOK, NEW s \in Session, CheckFetched(s) PROVE TypeOK'
<1>1. call[s].pc # "idle"
  BY DEF CheckFetched, At
<1>2. NameFor(s) \in Name
  BY <1>1, ActiveCall
<1>3. /\ Went(s, "verify") \in Calls
      /\ Orphaned(Stopped(s, "invalid"), NameFor(s)) \in Calls
  BY <1>1, WentType, StoppedType, OrphanedType
<1> QED
  BY <1>2, <1>3, RemovedType DEF CheckFetched, TypeOK, Calls

LEMMA NextType == TypeOK /\ [Next]_vars => TypeOK'
<1> SUFFICES ASSUME TypeOK, [Next]_vars PROVE TypeOK'
  OBVIOUS
<1>1. ASSUME NEW s \in Session, Ask(s) PROVE TypeOK'
  BY <1>1, BeginType DEF Ask
<1>2. ASSUME NEW s \in Session, Step(s) PROVE TypeOK'
  <2>1. CASE Look(s)
    <3>1. call' \in Calls
      BY <2>1, WentType DEF Look, At
    <3> QED
      BY <2>1, <3>1 DEF Look, TypeOK, Calls
  <2>2. CASE Discard(s)
    <3>1. call[s].pc # "idle" /\ NameFor(s) \in Name
      BY <2>2, ActiveCall DEF Discard, At
    <3>2. call' \in Calls
      BY <2>2, <3>1, WentType, OrphanedType DEF Discard
    <3> QED
      BY <2>2, <3>1, <3>2, RemovedType DEF Discard, TypeOK, Calls
  <2>3. CASE Open(s)
    BY <2>3, OpenType
  <2>4. CASE Receive(s)
    BY <2>4, ReceiveType
  <2>5. CASE ReceivePage(s)
    <3>1. call[s].pc # "idle" /\ call[s] \in Call
      BY <2>5, ActiveCall DEF ReceivePage, At
    <3>2. <<call[s].want, 0>> \in Piece
      BY <3>1 DEF Call, Piece
    <3>3. call' \in Calls
      <4>1. CASE call' = [call EXCEPT ![s] = NextTry(@)]
        BY <3>1, <4>1, RetryType
      <4>2. CASE call' = Went(s, "fetched")
        BY <3>1, <4>2, WentType
      <4> QED
        BY <2>5, <4>1, <4>2 DEF ReceivePage
    <3> QED
      BY <2>5, <3>1, <3>2, <3>3, WrittenType DEF ReceivePage, TypeOK, Calls
  <2>6. CASE Finish(s)
    BY <2>6, FinishType
  <2>7. CASE Break(s)
    <3>1. call[s].pc # "idle"
      BY <2>7 DEF Break, At
    <3> QED
      BY <2>7, <3>1, RetryType DEF Break, TypeOK, Calls
  <2>8. CASE BreakHttr(s)
    <3>1. call[s].pc # "idle" /\ NameFor(s) \in Name
      BY <2>8, ActiveCall DEF BreakHttr, At
    <3>2. call' \in Calls
      BY <2>8, <3>1, RetryType, OrphanedType DEF BreakHttr
    <3> QED
      BY <2>8, <3>1, <3>2, RemovedType DEF BreakHttr, TypeOK, Calls
  <2>9. CASE BreakWithWarning(s)
    <3>1. call' \in Calls /\ NameFor(s) \in Name
      BY <2>9, WentType, ActiveCall DEF BreakWithWarning, At
    <3> QED
      BY <2>9, <3>1 DEF BreakWithWarning, TypeOK, Calls
  <2>10. CASE CleanUp(s)
    <3>1. call[s].pc # "idle" /\ NameFor(s) \in Name
      BY <2>10, ActiveCall DEF CleanUp, At
    <3>2. call' \in Calls
      BY <2>10, <3>1, StoppedType, OrphanedType DEF CleanUp
    <3> QED
      BY <2>10, <3>1, <3>2, RemovedType DEF CleanUp, TypeOK, Calls
  <2>11. CASE CheckFetched(s)
    BY <2>11, CheckFetchedType
  <2>12. CASE Verify(s)
    BY <2>12, VerifyType
  <2>13. CASE Truncate(s)
    <3>1. call' \in Calls
      BY <2>13, WentType DEF Truncate, At
    <3> QED
      BY <2>13, <3>1 DEF Truncate, TypeOK, Calls
  <2>14. CASE Save(s)
    <3>1. call' \in Calls /\ call[s] \in Call
      BY <2>14, WentType, ActiveCall DEF Save, At
    <3> QED
      BY <2>14, <3>1 DEF Save, TypeOK, Calls, Call
  <2> QED
    BY <1>2, <2>1, <2>2, <2>3, <2>4, <2>5, <2>6, <2>7, <2>8, <2>9, <2>10,
       <2>11, <2>12, <2>13, <2>14 DEF Step, Transfer
<1>3. ASSUME NEW s \in Session, Crash(s) PROVE TypeOK'
  <2>1. call' \in Calls
    BY <1>3 DEF Crash, TypeOK, Calls
  <2>2. crashes' \in 0..MaxCrashes
    BY <1>3, CallAssumption DEF Crash, TypeOK
  <2>3. cutShort' \subseteq Name
    <3>1. call[s].pc # "idle" /\ NameFor(s) \in Name
      BY <1>3, ActiveCall DEF Crash
    <3> QED
      BY <1>3, <3>1 DEF Crash, TypeOK
  <2> QED
    BY <1>3, <2>1, <2>2, <2>3 DEF Crash, TypeOK, Calls
<1>4. CASE UNCHANGED vars
  BY <1>4 DEF vars, TypeOK
<1> QED
  BY <1>1, <1>2, <1>3, <1>4 DEF Next

\* The types of the cache, the hash store and every call in progress
\* (edge_download_model, .robust_download, .validate_model_checksum).
THEOREM TypeCorrect == Spec => []TypeOK
<1>1. Init => TypeOK
  <2> SUFFICES ASSUME Init PROVE TypeOK
    OBVIOUS
  <2>1. <<>> \in Seq(Piece) /\ <<>> \in Seq(Row)
    OBVIOUS
  <2>2. 0 \in 0..MaxCalls /\ 0 \in 0..MaxCrashes
    BY CallAssumption
  <2> QED
    BY <2>1, <2>2 DEF Init, TypeOK
<1> QED
  BY <1>1, NextType, PTL DEF Spec

-----------------------------------------------------------------------------
(***************************************************************************)
(* Resuming.                                                               *)
(***************************************************************************)

\* The next piece of a model goes behind the pieces that are there.
LEMMA PrefixGrows ==
  ASSUME NEW c \in Seq(Piece), NEW m \in Model, IsPrefix(c, m), Len(c) < Pieces
  PROVE  /\ IsPrefix(Append(c, <<m, Len(c) + 1>>), m)
         /\ Len(Append(c, <<m, Len(c) + 1>>)) = Len(c) + 1
<1> DEFINE x == <<m, Len(c) + 1>>
<1>1. Len(c) \in Nat /\ DOMAIN c = 1..Len(c) /\ Pieces \in Nat
  BY LenProperties, SizeAssumption
<1>2. x \in Piece
  BY <1>1 DEF Piece
<1> HIDE DEF x
<1>3. /\ Append(c, x) \in Seq(Piece)
      /\ Len(Append(c, x)) = Len(c) + 1
      /\ \A k \in 1..Len(c) : Append(c, x)[k] = c[k]
      /\ Append(c, x)[Len(c) + 1] = x
  BY <1>2, AppendProperties
<1>4. ASSUME NEW k \in DOMAIN Append(c, x) PROVE Append(c, x)[k] = <<m, k>>
  <2>1. k \in 1..Len(c) + 1
    BY <1>3, LenProperties
  <2>2. CASE k \in 1..Len(c)
    BY <1>1, <1>3, <2>2 DEF IsPrefix
  <2>3. CASE k = Len(c) + 1
    BY <1>3, <2>3 DEF x
  <2> QED
    BY <1>1, <2>1, <2>2, <2>3
<1>5. Len(Append(c, x)) <= Pieces
  BY <1>1, <1>3
<1> QED
  BY <1>3, <1>4, <1>5 DEF IsPrefix, x

\* What starts with an error page goes on doing so.
LEMMA PageStays ==
  ASSUME NEW c \in Seq(Piece), NEW x \in Piece, IsErrorPage(c)
  PROVE  IsErrorPage(Append(c, x))
<1>1. 1 \in 1..Len(c) /\ Len(c) \in Nat
  BY LenProperties DEF IsErrorPage
<1>2. Append(c, x)[1] = c[1] /\ Len(Append(c, x)) = Len(c) + 1
  BY <1>1, AppendProperties
<1> QED
  BY <1>1, <1>2 DEF IsErrorPage

\* A write right behind the end appends.
LEMMA WriteAppends ==
  ASSUME NEW c \in Seq(Piece), NEW x \in Piece
  PROVE  WriteAt(c, Len(c) + 1, x) = Append(c, x)
<1> DEFINE n == Len(c) + 1
           v == WriteAt(c, n, x)
           w(k) == IF k = n THEN x ELSE IF k <= Len(c) THEN c[k] ELSE Hole
<1>1. Len(c) \in Nat /\ n \in Nat /\ n > Len(c)
  BY LenProperties
<1>2. v = [k \in 1..n |-> w(k)]
  BY <1>1 DEF WriteAt
<1>3. /\ Append(c, x) \in Seq(Piece)
      /\ Len(Append(c, x)) = n
      /\ \A k \in 1..Len(c) : Append(c, x)[k] = c[k]
      /\ Append(c, x)[n] = x
  BY AppendProperties
<1>4. \A k \in 1..n : k \in 1..Len(c) \/ k = n
  BY <1>1
<1>5. \A k \in 1..Len(c) : k # n /\ k <= Len(c)
  BY <1>1
<1> HIDE DEF n
<1>6. \A k \in 1..n : w(k) = Append(c, x)[k]
  BY <1>3, <1>4, <1>5
<1> HIDE DEF w
<1>7. \A k \in 1..n : w(k) \in Piece
  BY <1>3, <1>6, ElementOfSeq
<1>8. v \in Seq(Piece) /\ Len(v) = n
  BY <1>1, <1>2, <1>7, IsASeq
<1>9. \A k \in 1..n : v[k] = Append(c, x)[k]
  BY <1>2, <1>6
<1> HIDE DEF v
<1>10. v = Append(c, x)
  BY <1>3, <1>8, <1>9, SeqEqual
<1> QED
  BY <1>10 DEF v, n

\* A file of its own name holds what was put there, and no other changed.
LEMMA OneFileChanged ==
  ASSUME DistinctNames, TypeOK, NoMixture, NEW s \in Session, call[s].pc # "idle",
         NEW c \in Seq(Piece), IsPrefix(c, call[s].want) \/ IsErrorPage(c),
         file' = [file EXCEPT ![NameFor(s)] = c]
  PROVE  NoMixture' /\ file'[NameFor(s)] = c
<1>1. call[s] \in Call /\ NameFor(s) \in Name /\ file \in [Name -> Seq(Piece)]
  BY ActiveCall DEF TypeOK
<1>2. ASSUME NEW m \in Model
      PROVE  IsErrorPage(file'[NameOf[m]]) \/ IsPrefix(file'[NameOf[m]], m)
  <2>1. NameOf[m] \in Name
    BY CacheAssumption
  <2>2. CASE NameOf[m] = NameFor(s)
    <3>1. m = call[s].want
      BY <1>1, <2>2 DEF NameFor, DistinctNames, Call
    <3> QED
      BY <1>1, <2>1, <2>2, <3>1
  <2>3. CASE NameOf[m] # NameFor(s)
    BY <1>1, <2>1, <2>3 DEF NoMixture
  <2> QED
    BY <2>2, <2>3
<1> QED
  BY <1>1, <1>2 DEF NoMixture

\* Nothing is a prefix of everything.
LEMMA EmptyPrefix == \A m : IsPrefix(<<>>, m) /\ <<>> \in Seq(Piece)
BY SizeAssumption DEF IsPrefix

\* A session alone that is not transferring leaves nothing to say of transfers.
LEMMA NoTransfer ==
  ASSUME Alone, NEW s \in Session, call'[s].pc # "transfer"
  PROVE  TransferOK'
BY DEF Alone, TransferOK, At

\* The file of the call is what its model starts with, or an error page.
LEMMA ContentKind ==
  ASSUME TypeOK, NoMixture, NEW s \in Session, call[s].pc # "idle"
  PROVE  IsErrorPage(Content(s)) \/ IsPrefix(Content(s), call[s].want)
<1>1. call[s].want \in Model
  BY ActiveCall DEF Call
<1> QED
  BY <1>1 DEF NoMixture, Content, NameFor

\* Every tool's write lands right behind what is there.
LEMMA WrittenAppends ==
  ASSUME TypeOK, TransferOK, NEW s \in Session, At(s, "transfer"), NEW x \in Piece
  PROVE  Written(s, x) = [file EXCEPT ![NameFor(s)] = Append(Content(s), x)]
<1>1. call[s] \in Call /\ Content(s) \in Seq(Piece)
  BY ActiveCall DEF At
<1>2. ~call[s].lost /\ (InOrder(s) \/ OnPage(s))
  BY DEF TransferOK
<1>3. CASE call[s].pos = 0
  BY <1>2, <1>3 DEF Written
<1>4. CASE call[s].pos # 0
  <2>1. call[s].pos = call[s].next /\ Len(Content(s)) = call[s].next - 1
    BY <1>2, <1>4 DEF InOrder, OnPage
  <2>2. call[s].next \in Nat /\ Len(Content(s)) \in Nat
    BY <1>1, LenProperties DEF Call
  <2>3. call[s].pos = Len(Content(s)) + 1
    BY <2>1, <2>2
  <2>4. CASE call[s].pos = 1 /\ MethodOf(s) = "curl"
    <3>1. Content(s) = <<>>
      BY <1>1, <2>2, <2>3, <2>4, EmptySeq
    <3>2. Append(Content(s), x) = <<x>>
      BY <3>1
    <3> QED
      BY <1>2, <1>4, <2>4, <3>2 DEF Written
  <2>5. CASE ~(call[s].pos = 1 /\ MethodOf(s) = "curl")
    <3>1. WriteAt(Content(s), call[s].pos, x) = Append(Content(s), x)
      BY <1>1, <2>3, WriteAppends
    <3> QED
      BY <1>2, <1>4, <2>5, <3>1 DEF Written
  <2> QED
    BY <2>4, <2>5
<1> QED
  BY <1>3, <1>4

\* Removing the file of a call.
LEMMA RemovedKeeps ==
  ASSUME DistinctNames, TypeOK, NoMixture, NEW s \in Session, call[s].pc # "idle",
         file' = Removed(NameFor(s))
  PROVE  NoMixture' /\ file'[NameFor(s)] = <<>>
BY EmptyPrefix, OneFileChanged DEF Removed

\* Opening a file starts it over, or places the transfer behind its end.
LEMMA OpenResumes ==
  ASSUME Alone, DistinctNames, ResumeInv, NEW s \in Session, Open(s)
  PROVE  NoMixture' /\ TransferOK'
<1>1. TypeOK /\ NoMixture /\ call[s].pc # "idle"
  BY DEF ResumeInv, Open, At
<1>2. call[s] \in Call /\ Content(s) \in Seq(Piece) /\ NameFor(s) \in Name
  BY <1>1, ActiveCall
<1>3. MethodOf(s) \in Method
  <2>1. call[s].m \in 1..Len(Methods)
    BY <1>2 DEF Call
  <2> QED
    BY <2>1, ToolAssumption, ElementOfSeq DEF MethodOf
<1>4. /\ call'[s].want = call[s].want
      /\ call'[s].next = Offset(s)
      /\ call'[s].pos = IF Resumes(s) \/ MethodOf(s) = "wget" THEN 0 ELSE 1
      /\ call'[s].lost = FALSE
  BY <1>1, <1>2 DEF Open, TypeOK, Call
<1>5. Content(s)' = file'[NameFor(s)]
  BY <1>4 DEF Content, NameFor
<1>6. SUFFICES NoMixture' /\ (InOrder(s) \/ OnPage(s))'
  BY <1>4 DEF TransferOK, Alone
<1>7. CASE Truncates(s)
  <2>1. NoMixture' /\ Content(s)' = <<>>
    BY <1>1, <1>5, <1>7, RemovedKeeps DEF Open
  <2>2. call'[s].next = 1 /\ call'[s].pos = 1
    BY <1>4, <1>7 DEF Truncates, Resumes, Offset
  <2>3. InOrder(s)'
    BY <2>1, <2>2, EmptyPrefix DEF InOrder
  <2> QED
    BY <2>1, <2>3
<1>8. CASE ~Truncates(s)
  <2>1. file' = file /\ Content(s)' = Content(s)
    BY <1>5, <1>8 DEF Open, Content
  <2>2. NoMixture'
    BY <1>1, <2>1 DEF NoMixture
  <2>3. CASE Content(s) = <<>>
    <3>1. call'[s].next = 1 /\ call'[s].pos \in {0, 1}
      BY <1>4, <2>3 DEF Resumes, Offset
    <3>2. InOrder(s)'
      BY <2>1, <2>3, <3>1, EmptyPrefix DEF InOrder
    <3> QED
      BY <2>2, <3>2
  <2>4. CASE Content(s) # <<>>
    <3>1. Resumes(s)
      BY <1>3, <1>8, <2>4 DEF Resumes, Truncates, Method
    <3>2. call'[s].next = Len(Content(s)) + 1 /\ call'[s].pos = 0
      BY <1>4, <3>1 DEF Offset
    <3>3. CASE IsErrorPage(Content(s))
      BY <2>1, <2>2, <3>2, <3>3 DEF OnPage
    <3>4. CASE IsPrefix(Content(s), call[s].want)
      <4>1. Len(Content(s)) = call'[s].next - 1
        BY <1>2, <3>2, LenProperties
      <4> QED
        BY <1>4, <2>1, <2>2, <3>2, <3>4, <4>1 DEF InOrder
    <3> QED
      BY <1>1, <3>3, <3>4, ContentKind
  <2> QED
    BY <2>3, <2>4
<1> QED
  BY <1>7, <1>8

\* A piece that arrives continues the prefix, or the error page.
LEMMA ReceiveResumes ==
  ASSUME Alone, DistinctNames, ResumeInv, NEW s \in Session, Receive(s)
  PROVE  NoMixture' /\ TransferOK'
<1>1. TypeOK /\ NoMixture /\ TransferOK /\ At(s, "transfer") /\ call[s].pc # "idle"
  BY DEF ResumeInv, Receive, At
<1>2. call[s] \in Call /\ Content(s) \in Seq(Piece) /\ Len(Content(s)) \in Nat
  BY <1>1, ActiveCall, LenProperties
<1>3. call[s].next \in Nat /\ call[s].next <= Pieces /\ call[s].want \in Model
  BY <1>2 DEF Receive, Call
<1> DEFINE x == <<call[s].want, call[s].next>>
           c == Append(Content(s), x)
<1>4. x \in Piece
  BY <1>3 DEF Piece
<1>5. file' = [file EXCEPT ![NameFor(s)] = c]
  BY <1>1, <1>4, WrittenAppends DEF Receive
<1>6. c \in Seq(Piece)
  BY <1>2, <1>4, AppendProperties
<1>7. /\ call'[s].want = call[s].want
      /\ call'[s].next = call[s].next + 1
      /\ call'[s].pos = IF call[s].pos = 0 THEN 0 ELSE call[s].pos + 1
      /\ call'[s].lost = call[s].lost
  BY <1>1, <1>2 DEF Receive, TypeOK, Call
<1>8. ~call[s].lost /\ (InOrder(s) \/ OnPage(s))
  BY <1>1 DEF TransferOK
<1>9. Content(s)' = file'[NameFor(s)]
  BY <1>7 DEF Content, NameFor
<1>10. SUFFICES NoMixture' /\ (InOrder(s) \/ OnPage(s))'
  BY <1>7, <1>8 DEF TransferOK, Alone
<1>11. CASE InOrder(s)
  <2>1. Len(Content(s)) < Pieces /\ call[s].next = Len(Content(s)) + 1
    BY <1>2, <1>3, <1>11, SizeAssumption DEF InOrder
  <2>2. IsPrefix(c, call[s].want) /\ Len(c) = call[s].next
    BY <1>2, <1>3, <1>11, <2>1, PrefixGrows DEF InOrder
  <2> HIDE DEF c
  <2>3. NoMixture' /\ Content(s)' = c
    BY <1>1, <1>5, <1>6, <1>9, <2>2, OneFileChanged
  <2>4. Len(c) = call'[s].next - 1 /\ call'[s].pos \in {0, call'[s].next}
    BY <1>3, <1>7, <1>11, <2>2 DEF InOrder
  <2> QED
    BY <1>7, <2>2, <2>3, <2>4 DEF InOrder
<1>12. CASE OnPage(s)
  <2>1. IsErrorPage(c)
    BY <1>2, <1>4, <1>12, PageStays DEF OnPage
  <2> HIDE DEF c
  <2>2. NoMixture' /\ Content(s)' = c
    BY <1>1, <1>5, <1>6, <1>9, <2>1, OneFileChanged
  <2> QED
    BY <1>7, <1>12, <2>1, <2>2 DEF OnPage
<1> QED
  BY <1>8, <1>11, <1>12

\* An error page arrives in an empty file, or behind another one.
LEMMA PageResumes ==
  ASSUME Alone, DistinctNames, ResumeInv, NEW s \in Session, ReceivePage(s)
  PROVE  NoMixture' /\ TransferOK' /\ IsErrorPage(file'[NameFor(s)])
<1>1. TypeOK /\ NoMixture /\ TransferOK /\ At(s, "transfer") /\ call[s].pc # "idle"
  BY DEF ResumeInv, ReceivePage, At
<1>2. call[s] \in Call /\ Content(s) \in Seq(Piece) /\ Len(Content(s)) \in Nat
  BY <1>1, ActiveCall, LenProperties
<1> DEFINE x == <<call[s].want, 0>>
           c == Append(Content(s), x)
<1>3. x \in Piece /\ x # Hole /\ x[2] = 0
  BY <1>2 DEF Piece, Hole, Call
<1>4. file' = [file EXCEPT ![NameFor(s)] = c]
  BY <1>1, <1>3, WrittenAppends DEF ReceivePage
<1>5. c \in Seq(Piece) /\ Len(c) = Len(Content(s)) + 1 /\ c[Len(Content(s)) + 1] = x
  BY <1>2, <1>3, AppendProperties
<1>6. IsErrorPage(c)
  <2>1. CASE InOrder(s)
    <3>1. Len(Content(s)) = 0
      BY <1>2, <2>1 DEF InOrder, ReceivePage
    <3> QED
      BY <1>3, <1>5, <3>1 DEF IsErrorPage
  <2>2. CASE OnPage(s)
    BY <1>2, <1>3, <2>2, PageStays DEF OnPage
  <2> QED
    BY <1>1, <2>1, <2>2 DEF TransferOK
<1> HIDE DEF c, x
<1>7. NoMixture'
  BY <1>1, <1>4, <1>5, <1>6, OneFileChanged
<1>8. call'[s].pc # "transfer"
  <2>1. CASE call' = [call EXCEPT ![s] = NextTry(@)]
    <3>1. call'[s] = NextTry(call[s])
      BY <1>1, <2>1 DEF TypeOK
    <3> QED
      BY <1>2, <3>1, NextTryType
  <2>2. CASE call' = Went(s, "fetched")
    BY <1>1, <2>2 DEF Went, TypeOK
  <2> QED
    BY <2>1, <2>2 DEF ReceivePage
<1>9. file'[NameFor(s)] = c
  BY <1>1, <1>4, ActiveCall DEF TypeOK
<1> QED
  BY <1>6, <1>7, <1>8, <1>9, NoTransfer

LEMMA ResumeNext ==
  ASSUME Alone, DistinctNames, ResumeInv, [Next]_vars PROVE ResumeInv'
<1>1. TypeOK /\ NoMixture /\ TransferOK /\ TypeOK'
  BY NextType DEF ResumeInv
<1>2. SUFFICES NoMixture' /\ TransferOK'
  BY <1>1 DEF ResumeInv
<1>3. ASSUME NEW s \in Session, UNCHANGED file, call'[s].pc # "transfer"
      PROVE  NoMixture' /\ TransferOK'
  BY <1>1, <1>3, NoTransfer DEF NoMixture
<1>4. ASSUME NEW s \in Session, call[s].pc # "idle", file' = Removed(NameFor(s)),
             call'[s].pc # "transfer"
      PROVE  NoMixture' /\ TransferOK'
  BY <1>1, <1>4, NoTransfer, RemovedKeeps
<1>5. ASSUME NEW s \in Session, Ask(s) PROVE NoMixture' /\ TransferOK'
  <2>1. UNCHANGED file /\ call'[s].pc = "look"
    BY <1>1, <1>5 DEF Ask, Begin, TypeOK
  <2> QED
    BY <1>3, <2>1
<1>6. ASSUME NEW s \in Session, Crash(s) PROVE NoMixture' /\ TransferOK'
  <2>1. UNCHANGED file /\ call'[s].pc = "idle"
    BY <1>1, <1>6 DEF Crash, TypeOK, Idle
  <2> QED
    BY <1>3, <2>1
<1>7. ASSUME NEW s \in Session, Step(s) PROVE NoMixture' /\ TransferOK'
  <2>1. call[s].pc # "idle" /\ call[s] \in Call
    <3>1. call[s].pc # "idle"
      BY <1>7 DEF Step, Transfer, Look, Discard, Open, Receive, ReceivePage, Finish,
                  Break, BreakHttr, BreakWithWarning, CleanUp, CheckFetched, Verify,
                  Truncate, Save, At
    <3> QED
      BY <1>1, <3>1, ActiveCall
  <2>2. ASSUME NEW p PROVE Went(s, p)[s].pc = p
    BY <1>1, <2>1 DEF Went, TypeOK, Call
  <2>3. ASSUME NEW w PROVE Stopped(s, w)[s].pc = "failed"
    BY <1>1, <2>1 DEF Stopped, TypeOK, Call
  <2>4. NextTry(call[s]).pc # "transfer"
    BY <2>1, NextTryType
  <2>5. ASSUME NEW cs, NEW n, cs[s].pc # "transfer" PROVE Orphaned(cs, n)[s].pc # "transfer"
    BY <2>5 DEF Orphaned
  <2>6. CASE Look(s)
    BY <1>3, <2>2, <2>6 DEF Look
  <2>7. CASE Discard(s)
    BY <1>4, <2>1, <2>2, <2>5, <2>7 DEF Discard
  <2>8. CASE Open(s)
    BY <2>8, OpenResumes
  <2>9. CASE Receive(s)
    BY <2>9, ReceiveResumes
  <2>10. CASE ReceivePage(s)
    BY <2>10, PageResumes
  <2>11. CASE Finish(s)
    <3>1. \/ call' = [call EXCEPT ![s] = [call[s] EXCEPT !.pc = "fetched"]]
          \/ call' = [call EXCEPT ![s] = NextTry(call[s])]
      BY <2>11 DEF Finish
    <3>2. call'[s].pc # "transfer"
      BY <1>1, <2>1, <2>4, <3>1 DEF TypeOK, Call
    <3> QED
      BY <1>3, <2>11, <3>2 DEF Finish
  <2>12. CASE Break(s)
    BY <1>1, <1>3, <2>4, <2>12 DEF Break, TypeOK
  <2>13. CASE BreakHttr(s)
    <3> DEFINE cs == [call EXCEPT ![s] = NextTry(@)]
    <3>1. cs[s].pc # "transfer"
      BY <1>1, <2>4 DEF TypeOK
    <3> QED
      BY <1>4, <2>1, <2>5, <2>13, <3>1 DEF BreakHttr
  <2>14. CASE BreakWithWarning(s)
    BY <1>3, <2>2, <2>14 DEF BreakWithWarning
  <2>15. CASE CleanUp(s)
    BY <1>4, <2>1, <2>3, <2>5, <2>15 DEF CleanUp
  <2>16. CASE CheckFetched(s)
    <3>1. CASE Valid(Content(s))
      BY <1>3, <2>2, <2>16, <3>1 DEF CheckFetched
    <3>2. CASE ~Valid(Content(s))
      BY <1>4, <2>1, <2>3, <2>5, <2>16, <3>2 DEF CheckFetched
    <3> QED
      BY <3>1, <3>2
  <2>17. CASE Verify(s)
    <3>1. [call EXCEPT ![s].pc = "truncate", ![s].seen = Append(known, NewRow(s))][s].pc
            = "truncate"
      BY <1>1, <2>1 DEF TypeOK, Call
    <3>2. call'[s].pc # "transfer"
      BY <2>2, <2>3, <2>17, <3>1 DEF Verify
    <3> QED
      BY <1>3, <2>17, <3>2 DEF Verify
  <2>18. CASE Truncate(s)
    BY <1>3, <2>2, <2>18 DEF Truncate
  <2>19. CASE Save(s)
    BY <1>3, <2>2, <2>19 DEF Save
  <2> QED
    BY <1>7, <2>6, <2>7, <2>8, <2>9, <2>10, <2>11, <2>12, <2>13, <2>14, <2>15,
       <2>16, <2>17, <2>18, <2>19 DEF Step, Transfer
<1>8. CASE UNCHANGED vars
  <2>1. file' = file /\ call' = call
    BY <1>8 DEF vars
  <2> QED
    BY <1>1, <2>1 DEF NoMixture, TransferOK, At, InOrder, OnPage, Content, NameFor
<1> QED
  BY <1>5, <1>6, <1>7, <1>8 DEF Next

LEMMA ResumeInit == ASSUME Init PROVE ResumeInv
<1>1. TypeOK
  <2>1. <<>> \in Seq(Piece) /\ <<>> \in Seq(Row)
    OBVIOUS
  <2>2. 0 \in 0..MaxCalls /\ 0 \in 0..MaxCrashes
    BY CallAssumption
  <2> QED
    BY <2>1, <2>2 DEF Init, TypeOK
<1>2. NoMixture
  BY CacheAssumption, EmptyPrefix DEF Init, NoMixture
<1>3. TransferOK
  BY DEF Init, Idle, TransferOK, At
<1> QED
  BY <1>1, <1>2, <1>3 DEF ResumeInv

\* Resuming never mixes a file up, over any history of calls, tools, retries and
\* crashes of a session that has the cache to itself (curl -C -, wget -c, httr's
\* overwrite, file.remove).
THEOREM ResumingNeverMixes ==
  ASSUME Alone, DistinctNames
  PROVE  Spec => []NoMixture
<1>1. Init => ResumeInv
  BY ResumeInit
<1>2. ResumeInv /\ [Next]_vars => ResumeInv'
  BY ResumeNext
<1>3. ResumeInv => NoMixture
  BY DEF ResumeInv
<1> QED
  BY <1>1, <1>2, <1>3, PTL DEF Spec

-----------------------------------------------------------------------------
(***************************************************************************)
(* What a call leaves when it gives up, and the hash it returns by.        *)
(*                                                                         *)
(* A hash that is trusted on first use goes through two steps, emptying    *)
(* known_hashes.csv and writing it; TrustsContent says what is about to be *)
(* written meanwhile: the rows of before, none of them a hit, and one more *)
(* for the content that is there.                                          *)
(***************************************************************************)

IsHit(s, row) == row.name = NameFor(s) /\ (call[s].byUrl \/ row.model = call[s].want)

TrustsContent ==
  \A s \in Session : call[s].pc \in {"truncate", "save"} =>
    /\ call[s].mode = "trust"
    /\ \E rows \in Seq(Row) : /\ call[s].seen = Append(rows, NewRow(s))
                              /\ \A i \in DOMAIN rows : ~IsHit(s, rows[i])

ReturnInv == FailedLeavesNothing /\ ReturnedMatchesHash /\ TrustsContent

\* The order of the naturals, as the set WFMin wants.
Below == {p \in Nat \X Nat : p[1] < p[2]}

\* Some row is the first of those that match.
LEMMA FirstOfSome ==
  ASSUME NEW S, S \subseteq Nat, S # {}
  PROVE  \E i \in S : \A j \in S : i <= j
<1>1. IsWellFoundedOn(Below, Nat)
  <2>1. Below = OpToRel(<, Nat)
    BY DEF Below, OpToRel
  <2> QED
    BY <2>1, NatLessThanWellFounded
<1>2. PICK i \in S : \A j \in S : ~(<<j, i>> \in Below)
  BY <1>1, WFMin
<1>3. ASSUME NEW j \in S PROVE i <= j
  <2>1. i \in Nat /\ j \in Nat
    OBVIOUS
  <2>2. <<j, i>> \in Nat \X Nat /\ <<j, i>>[1] = j /\ <<j, i>>[2] = i
    BY <2>1
  <2>3. ~(j < i)
    BY <1>2, <2>2 DEF Below
  <2> QED
    BY <2>1, <2>3
<1> QED
  BY <1>3

\* No hash to go by means that no row matches.
LEMMA NoPinNoHit ==
  ASSUME TypeOK, NEW s \in Session, call[s].mode = "trust", Pins(s) = {}
  PROVE  \A i \in DOMAIN known : ~IsHit(s, known[i])
<1>1. FirstHit(s) = {}
  BY DEF Pins
<1>2. Hits(s) \subseteq Nat
  BY LenProperties DEF Hits, TypeOK
<1>3. Hits(s) = {}
  BY <1>1, <1>2, FirstOfSome DEF FirstHit
<1> QED
  BY <1>3 DEF Hits, IsHit

\* Where a step before the verification leaves the call.
LEMMA QuietPhase ==
  ASSUME TypeOK, NEW s \in Session,
         Ask(s) \/ Look(s) \/ Discard(s) \/ Transfer(s) \/ Crash(s)
  PROVE  call'[s].pc \notin {"failed", "truncate", "save", "done"}
<1> DEFINE quiet == call'[s].pc \notin {"failed", "truncate", "save", "done"}
<1>1. CASE Ask(s)
  BY <1>1 DEF Ask, Begin, TypeOK
<1>2. CASE Crash(s)
  BY <1>2 DEF Crash, Idle, TypeOK
<1>3. CASE Look(s) \/ Discard(s) \/ Transfer(s)
  <2>1. call[s].pc # "idle" /\ call[s] \in Call
    <3>1. call[s].pc # "idle"
      BY <1>3 DEF Look, Discard, Transfer, Open, Receive, ReceivePage, Finish, Break,
                  BreakHttr, BreakWithWarning, At
    <3> QED
      BY <3>1, ActiveCall
  <2>2. ASSUME NEW p PROVE Went(s, p)[s].pc = p
    BY <2>1 DEF Went, TypeOK, Call
  <2>3. NextTry(call[s]).pc \in {"fetch", "cleanup"}
    BY <2>1, NextTryType
  <2>4. ASSUME NEW cs, NEW n, cs[s].pc = "fetch" \/ cs[s].pc = "cleanup"
        PROVE  Orphaned(cs, n)[s].pc = cs[s].pc
    BY <2>4 DEF Orphaned
  <2>5. CASE Look(s)
    BY <2>2, <2>5 DEF Look
  <2>6. CASE Discard(s)
    BY <2>2, <2>4, <2>6 DEF Discard
  <2>7. CASE Open(s)
    BY <2>1, <2>7 DEF Open, TypeOK, Call
  <2>8. CASE Receive(s)
    BY <2>1, <2>8 DEF Receive, At, TypeOK, Call
  <2>9. CASE ReceivePage(s) \/ Break(s)
    <3>1. CASE call' = [call EXCEPT ![s] = NextTry(@)]
      BY <2>3, <3>1 DEF TypeOK
    <3>2. CASE call' = Went(s, "fetched")
      BY <2>2, <3>2
    <3> QED
      BY <2>9, <3>1, <3>2 DEF ReceivePage, Break
  <2>10. CASE Finish(s)
    <3>1. \/ call' = [call EXCEPT ![s] = [call[s] EXCEPT !.pc = "fetched"]]
          \/ call' = [call EXCEPT ![s] = NextTry(call[s])]
      BY <2>10 DEF Finish
    <3> QED
      BY <2>1, <2>3, <3>1 DEF TypeOK, Call
  <2>11. CASE BreakHttr(s)
    <3> DEFINE cs == [call EXCEPT ![s] = NextTry(@)]
    <3>1. cs[s].pc \in {"fetch", "cleanup"}
      BY <2>3 DEF TypeOK
    <3> QED
      BY <2>4, <2>11, <3>1 DEF BreakHttr
  <2>12. CASE BreakWithWarning(s)
    BY <2>2, <2>12 DEF BreakWithWarning
  <2> QED
    BY <1>3, <2>5, <2>6, <2>7, <2>8, <2>9, <2>10, <2>11, <2>12 DEF Transfer
<1> QED
  BY <1>1, <1>2, <1>3

\* A step that keeps the call but for its phase.
LEMMA WentKeeps ==
  ASSUME TypeOK, NEW s \in Session, call[s].pc # "idle", NEW p, call' = Went(s, p)
  PROVE  /\ call'[s] = [call[s] EXCEPT !.pc = p]
         /\ call'[s].pc = p
         /\ call'[s].want = call[s].want /\ call'[s].mode = call[s].mode
         /\ call'[s].byUrl = call[s].byUrl /\ call'[s].seen = call[s].seen
         /\ NameFor(s)' = NameFor(s)
<1>1. call[s] \in Call
  BY ActiveCall
<1>2. call'[s] = [call[s] EXCEPT !.pc = p]
  BY DEF Went, TypeOK
<1> QED
  BY <1>1, <1>2 DEF Call, NameFor

\* Giving up removes what was left.
LEMMA GivingUp ==
  ASSUME TypeOK, NEW s \in Session, call[s].pc # "idle", NEW w,
         file' = Removed(NameFor(s)), call' = Orphaned(Stopped(s, w), NameFor(s))
  PROVE  call'[s].pc = "failed" /\ Content(s)' = <<>>
<1>1. call[s] \in Call /\ NameFor(s) \in Name
  BY ActiveCall
<1>2. Stopped(s, w)[s].pc = "failed" /\ Stopped(s, w)[s].want = call[s].want
  BY <1>1 DEF Stopped, TypeOK, Call
<1>3. call'[s].pc = "failed" /\ call'[s].want = call[s].want
  BY <1>2 DEF Orphaned
<1> QED
  BY <1>1, <1>3 DEF Removed, Content, NameFor, TypeOK

\* The verification: a mismatch stops, a first use is about to be remembered, and
\* what is returned has every hash there is.
LEMMA VerifyReturns ==
  ASSUME Alone, TypeOK, NEW s \in Session, Verify(s) PROVE ReturnInv'
<1>1. call[s].pc # "idle" /\ call[s] \in Call
  BY ActiveCall DEF Verify, At
<1>2. NewRow(s) \in Row /\ known \in Seq(Row)
  BY <1>1, RowType DEF TypeOK
<1>3. CASE \E h \in Pins(s) : h # Content(s)
  <2>1. call' = Stopped(s, "mismatch")
    BY <1>3 DEF Verify
  <2>2. call'[s].pc = "failed" /\ call'[s].why = "mismatch"
    BY <1>1, <2>1 DEF Stopped, TypeOK, Call
  <2> QED
    BY <2>2 DEF Alone, ReturnInv, FailedLeavesNothing, ReturnedMatchesHash, TrustsContent, At
<1>4. CASE /\ ~\E h \in Pins(s) : h # Content(s)
           /\ Pins(s) = {} /\ call[s].mode = "trust" /\ Content(s) # <<>>
  <2> DEFINE rows == Append(known, NewRow(s))
  <2>1. call' = [call EXCEPT ![s].pc = "truncate", ![s].seen = rows]
    BY <1>4 DEF Verify
  <2> HIDE DEF rows
  <2>2. call'[s] = [call[s] EXCEPT !.pc = "truncate", !.seen = rows]
    BY <2>1 DEF TypeOK
  <2>3. /\ call'[s].pc = "truncate" /\ call'[s].mode = "trust" /\ call'[s].seen = rows
        /\ call'[s].want = call[s].want /\ call'[s].byUrl = call[s].byUrl
    BY <1>1, <1>4, <2>2 DEF Call
  <2>4. NameFor(s)' = NameFor(s) /\ file' = file
    BY <2>3 DEF Verify, NameFor
  <2>5. NewRow(s)' = NewRow(s)
    BY <2>3, <2>4 DEF NewRow, Content
  <2>6. \A i \in DOMAIN known : ~IsHit(s, known[i])'
    <3>1. \A i \in DOMAIN known : ~IsHit(s, known[i])
      BY <1>4, NoPinNoHit
    <3>2. UNCHANGED known
      BY DEF Verify
    <3> QED
      BY <2>3, <2>4, <3>1, <3>2 DEF IsHit
  <2>7. PICK old \in Seq(Row) : old = known
    BY <1>2
  <2>8. call'[s].seen = Append(old, NewRow(s)')
    BY <2>3, <2>5, <2>7 DEF rows
  <2>9. \A i \in DOMAIN old : ~IsHit(s, old[i])'
    BY <2>6, <2>7 DEF Verify, IsHit
  <2>10. TrustsContent'
    BY <2>3, <2>8, <2>9 DEF Alone, TrustsContent
  <2> QED
    BY <2>3, <2>10 DEF Alone, ReturnInv, FailedLeavesNothing, ReturnedMatchesHash, At
<1>5. CASE /\ ~\E h \in Pins(s) : h # Content(s)
           /\ ~(Pins(s) = {} /\ call[s].mode = "trust" /\ Content(s) # <<>>)
  <2>1. call' = Went(s, "done")
    BY <1>5 DEF Verify
  <2>2. /\ call'[s].pc = "done" /\ call'[s].want = call[s].want
        /\ call'[s].mode = call[s].mode /\ call'[s].byUrl = call[s].byUrl
        /\ NameFor(s)' = NameFor(s)
    BY <1>1, <2>1, WentKeeps
  <2>3. UNCHANGED <<file, known>>
    BY DEF Verify
  <2>4. Hits(s)' = Hits(s)
    BY <2>2, <2>3 DEF Hits
  <2>5. Pins(s)' = Pins(s) /\ Content(s)' = Content(s)
    BY <2>2, <2>3, <2>4 DEF Pins, FirstHit, Content
  <2>6. ReturnedMatchesHash'
    BY <1>5, <2>5 DEF Alone, ReturnedMatchesHash
  <2> QED
    BY <2>2, <2>6 DEF Alone, ReturnInv, FailedLeavesNothing, TrustsContent, At
<1> QED
  BY <1>3, <1>4, <1>5

\* The rows are written, and the only one that matches is of the content there is.
LEMMA SaveReturns ==
  ASSUME Alone, TypeOK, TrustsContent, NEW s \in Session, Save(s) PROVE ReturnInv'
<1>1. call[s].pc = "save" /\ call[s].pc # "idle" /\ call[s] \in Call /\ call' = Went(s, "done")
  BY ActiveCall DEF Save, At
<1>2. /\ call'[s].pc = "done" /\ call'[s].want = call[s].want
      /\ call'[s].mode = call[s].mode /\ call'[s].byUrl = call[s].byUrl
      /\ NameFor(s)' = NameFor(s)
  BY <1>1, WentKeeps
<1>3. PICK rows \in Seq(Row) : /\ call[s].seen = Append(rows, NewRow(s))
                               /\ \A i \in DOMAIN rows : ~IsHit(s, rows[i])
  BY <1>1 DEF TrustsContent
<1>4. call[s].mode = "trust"
  BY <1>1 DEF TrustsContent
<1>5. NewRow(s) \in Row
  BY <1>1, RowType
<1> DEFINE n == Len(rows) + 1
<1>6. /\ known' = Append(rows, NewRow(s))
      /\ DOMAIN known' = 1..n
      /\ \A i \in DOMAIN rows : known'[i] = rows[i]
      /\ known'[n] = NewRow(s)
      /\ DOMAIN rows = 1..Len(rows) /\ Len(rows) \in Nat
  <2>1. known' = Append(rows, NewRow(s))
    BY <1>3 DEF Save
  <2> QED
    BY <1>5, <2>1, AppendProperties, LenProperties
<1>7. \A i \in DOMAIN known' : i \in DOMAIN rows \/ i = n
  BY <1>6
<1> HIDE DEF n
<1>8. \A i \in Hits(s)' : known'[i] = NewRow(s)
  BY <1>2, <1>3, <1>6, <1>7 DEF Hits, IsHit
<1>9. Content(s)' = Content(s)
  BY <1>2 DEF Content, Save
<1>10. \A h \in Pins(s)' : h = Content(s)'
  BY <1>2, <1>4, <1>8, <1>9 DEF Pins, FirstHit, NewRow
<1>11. ReturnedMatchesHash'
  BY <1>10 DEF Alone, ReturnedMatchesHash
<1> QED
  BY <1>2, <1>11 DEF Alone, ReturnInv, FailedLeavesNothing, TrustsContent, At

LEMMA ReturnNext ==
  ASSUME Alone, TypeOK, ReturnInv, [Next]_vars PROVE ReturnInv'
<1>1. ASSUME NEW s \in Session, Ask(s) \/ Look(s) \/ Discard(s) \/ Transfer(s) \/ Crash(s)
      PROVE  ReturnInv'
  <2>1. call'[s].pc \notin {"failed", "truncate", "save", "done"}
    BY <1>1, QuietPhase
  <2> QED
    BY <2>1 DEF Alone, ReturnInv, FailedLeavesNothing, ReturnedMatchesHash, TrustsContent, At
<1>2. ASSUME NEW s \in Session, call'[s].pc = "failed", Content(s)' = <<>>
      PROVE  ReturnInv'
  BY <1>2 DEF Alone, ReturnInv, FailedLeavesNothing, ReturnedMatchesHash, TrustsContent, At
<1>3. ASSUME NEW s \in Session, CleanUp(s) PROVE ReturnInv'
  BY <1>2, <1>3, GivingUp DEF CleanUp, At
<1>4. ASSUME NEW s \in Session, CheckFetched(s) PROVE ReturnInv'
  <2>1. CASE Valid(Content(s))
    <3>1. call'[s].pc = "verify"
      BY <1>4, <2>1, WentKeeps DEF CheckFetched, At
    <3> QED
      BY <3>1 DEF Alone, ReturnInv, FailedLeavesNothing, ReturnedMatchesHash, TrustsContent, At
  <2>2. CASE ~Valid(Content(s))
    BY <1>2, <1>4, <2>2, GivingUp DEF CheckFetched, At
  <2> QED
    BY <2>1, <2>2
<1>5. ASSUME NEW s \in Session, Verify(s) PROVE ReturnInv'
  BY <1>5, VerifyReturns
<1>6. ASSUME NEW s \in Session, Truncate(s) PROVE ReturnInv'
  <2>1. call[s].pc = "truncate" /\ call' = Went(s, "save") /\ UNCHANGED file
    BY <1>6 DEF Truncate, At
  <2>2. /\ call'[s].pc = "save" /\ call'[s].want = call[s].want
        /\ call'[s].mode = call[s].mode /\ call'[s].byUrl = call[s].byUrl
        /\ call'[s].seen = call[s].seen /\ NameFor(s)' = NameFor(s)
    BY <2>1, WentKeeps
  <2>3. NewRow(s)' = NewRow(s)
    BY <2>1, <2>2 DEF NewRow, Content
  <2>4. PICK rows \in Seq(Row) : /\ call[s].seen = Append(rows, NewRow(s))
                                 /\ \A i \in DOMAIN rows : ~IsHit(s, rows[i])
    BY <2>1 DEF ReturnInv, TrustsContent
  <2>5. \A i \in DOMAIN rows : ~IsHit(s, rows[i])'
    BY <2>2, <2>4 DEF IsHit
  <2>6. TrustsContent'
    BY <2>1, <2>2, <2>3, <2>4, <2>5 DEF Alone, ReturnInv, TrustsContent, IsHit
  <2> QED
    BY <2>2, <2>6 DEF Alone, ReturnInv, FailedLeavesNothing, ReturnedMatchesHash, At
<1>7. ASSUME NEW s \in Session, Save(s) PROVE ReturnInv'
  BY <1>7, SaveReturns DEF ReturnInv
<1>8. CASE UNCHANGED vars
  <2>1. file' = file /\ call' = call /\ known' = known
    BY <1>8 DEF vars
  <2>2. FailedLeavesNothing'
    BY <2>1 DEF ReturnInv, FailedLeavesNothing, At, Content, NameFor
  <2>3. ReturnedMatchesHash'
    BY <2>1 DEF ReturnInv, ReturnedMatchesHash, At, Content, NameFor, Pins, FirstHit, Hits
  <2>4. TrustsContent'
    BY <2>1 DEF ReturnInv, TrustsContent, NewRow, IsHit, Content, NameFor
  <2> QED
    BY <2>2, <2>3, <2>4 DEF ReturnInv
<1> QED
  BY <1>1, <1>3, <1>4, <1>5, <1>6, <1>7, <1>8 DEF Next, Step

\* What a session alone with its cache can rely on when it fails and when it returns.
LEMMA ReturnsAlways ==
  ASSUME Alone
  PROVE  Spec => []ReturnInv
<1>1. Init => ReturnInv
  BY DEF Init, Idle, ReturnInv, FailedLeavesNothing, ReturnedMatchesHash, TrustsContent, At
<1>2. TypeOK /\ ReturnInv /\ [Next]_vars => ReturnInv'
  BY ReturnNext
<1>3. Spec => []TypeOK
  BY TypeCorrect
<1> QED
  BY <1>1, <1>2, <1>3, PTL DEF Spec

\* A call that gives up on the download leaves nothing to be resumed or accepted
\* later (.robust_download's clean-up, the check of what was fetched).
THEOREM FailureIsClean ==
  ASSUME Alone
  PROVE  Spec => []FailedLeavesNothing
<1>1. ReturnInv => FailedLeavesNothing
  BY DEF ReturnInv
<1> QED
  BY <1>1, ReturnsAlways, PTL

\* What is returned has the hash the call goes by, given, known, or trusted just now
\* (.validate_model_checksum, .save_known_hashes).
THEOREM HashIsHonoured ==
  ASSUME Alone
  PROVE  Spec => []ReturnedMatchesHash
<1>1. ReturnInv => ReturnedMatchesHash
  BY DEF ReturnInv
<1> QED
  BY <1>1, ReturnsAlways, PTL

-----------------------------------------------------------------------------
(***************************************************************************)
(* Complete models.                                                        *)
(*                                                                         *)
(* A file is complete or absent unless a call is busy with it, or the last *)
(* transfer into it was cut off by a crash or by what download.file only   *)
(* warned about.                                                           *)
(***************************************************************************)

Busy == {"fetch", "transfer", "cleanup", "fetched"}

Kept == \A m \in Model :
          \/ file[NameOf[m]] \in {<<>>, Whole(m)}
          \/ NameOf[m] \in cutShort
          \/ \E s \in Session : call[s].pc \in Busy /\ call[s].want = m

IsWhole(s) == NameFor(s) \in cutShort \/ Content(s) = Whole(call[s].want)

FetchedWhole == \A s \in Session : At(s, "fetched") => ~Valid(Content(s)) \/ IsWhole(s)

SettledWhole ==
  \A s \in Session : call[s].pc \in {"verify", "truncate", "save", "done"} => IsWhole(s)

WholeInv == Kept /\ FetchedWhole /\ SettledWhole

\* A complete model is a valid file, and nothing is not.
LEMMA WholeIsValid ==
  ASSUME NEW m \in Model
  PROVE  Valid(Whole(m)) /\ Whole(m) # <<>> /\ Len(Whole(m)) = Pieces
<1>1. Pieces \in Nat \ {0} /\ MinPieces \in 1..Pieces
  BY SizeAssumption
<1>2. \A k \in 1..Pieces : <<m, k>> \in Piece
  BY <1>1 DEF Piece
<1>3. Whole(m) \in Seq(Piece) /\ Len(Whole(m)) = Pieces
  BY <1>1, <1>2, IsASeq DEF Whole
<1>4. Whole(m)[1] = <<m, 1>>
  BY <1>1 DEF Whole
<1>5. <<m, 1>> # Hole /\ <<m, 1>>[2] = 1
  BY DEF Hole
<1> QED
  BY <1>1, <1>3, <1>4, <1>5, EmptySeq DEF Valid

\* All the pieces of a model, in order, are the model.
LEMMA FullPrefix ==
  ASSUME NEW c \in Seq(Piece), NEW m \in Model, IsPrefix(c, m), Len(c) >= Pieces
  PROVE  c = Whole(m)
<1>1. Len(c) = Pieces /\ DOMAIN c = 1..Pieces /\ c = [k \in DOMAIN c |-> c[k]]
  BY LenProperties, SizeAssumption DEF IsPrefix
<1> QED
  BY <1>1 DEF IsPrefix, Whole

\* An error page is never valid.
LEMMA PageIsInvalid ==
  ASSUME NEW c, IsErrorPage(c)
  PROVE  ~Valid(c)
BY DEF IsErrorPage, Valid

\* A step of a lone session keeps the rest of the cache; what it must keep of the
\* file it works on depends on where it goes.
LEMMA WholeStep ==
  ASSUME Alone, DistinctNames, TypeOK, WholeInv, NEW s \in Session,
         call[s].pc # "idle", call'[s].want = call[s].want,
         \A n \in Name : n # NameFor(s) => file'[n] = file[n],
         \A n \in Name : n # NameFor(s) => (n \in cutShort' <=> n \in cutShort),
         \/ call'[s].pc \in Busy \ {"fetched"}
         \/ Content(s)' = Whole(call[s].want)
         \/ NameFor(s) \in cutShort'
         \/ call'[s].pc = "fetched" /\ ~Valid(Content(s)')
         \/ call'[s].pc = "failed" /\ Content(s)' = <<>>
  PROVE  WholeInv'
<1>2. Kept
  BY DEF WholeInv
<1>3. call[s].want \in Model /\ NameFor(s) \in Name /\ NameFor(s)' = NameFor(s)
  BY ActiveCall DEF Call, NameFor
<1>4. Content(s)' = file'[NameOf[call[s].want]] /\ NameFor(s) = NameOf[call[s].want]
  BY <1>3 DEF Content, NameFor
<1>5. FetchedWhole' /\ SettledWhole'
  BY <1>3 DEF Alone, FetchedWhole, SettledWhole, IsWhole, At, Busy
<1>6. ASSUME NEW m \in Model
      PROVE  \/ file'[NameOf[m]] \in {<<>>, Whole(m)}
             \/ NameOf[m] \in cutShort'
             \/ \E t \in Session : call'[t].pc \in Busy /\ call'[t].want = m
  <2>1. CASE m = call[s].want
    BY <1>4, <2>1 DEF Busy
  <2>2. CASE m # call[s].want
    <3>1. NameOf[m] \in Name /\ NameOf[m] # NameFor(s)
      BY <1>3, <2>2, CacheAssumption DEF DistinctNames, NameFor
    <3>2. file'[NameOf[m]] = file[NameOf[m]] /\ (NameOf[m] \in cutShort' <=> NameOf[m] \in cutShort)
      BY <3>1
    <3> QED
      BY <1>2, <2>2, <3>2 DEF Kept, Alone
  <2> QED
    BY <2>1, <2>2
<1> QED
  BY <1>5, <1>6 DEF Kept, WholeInv

\* What is there before the download, or outside of one, is complete or nothing.
LEMMA KeptContent ==
  ASSUME Alone, TypeOK, WholeInv, NEW s \in Session,
         call[s].pc # "idle", call[s].pc \notin Busy
  PROVE  Content(s) = <<>> \/ IsWhole(s)
<1>1. call[s].want \in Model
  BY ActiveCall DEF Call
<1> QED
  BY <1>1 DEF WholeInv, Kept, Alone, Content, NameFor, IsWhole

\* Exit status 0 with a valid file is a complete one, whatever it was resumed from.
LEMMA FinishIsWhole ==
  ASSUME ResumeInv, NEW s \in Session, Finish(s), Valid(Content(s))
  PROVE  Content(s) = Whole(call[s].want)
<1>1. At(s, "transfer") /\ call[s].next > Pieces /\ TypeOK
  BY DEF Finish, ResumeInv
<1>2. call[s] \in Call /\ Content(s) \in Seq(Piece) /\ Len(Content(s)) \in Nat
  BY <1>1, ActiveCall, LenProperties DEF At
<1>3. InOrder(s)
  BY <1>1, PageIsInvalid DEF ResumeInv, TransferOK, OnPage
<1>4. call[s].next \in Nat /\ call[s].want \in Model /\ Pieces \in Nat
  BY <1>2, SizeAssumption DEF Call
<1>5. Len(Content(s)) >= Pieces
  BY <1>1, <1>2, <1>3, <1>4 DEF InOrder
<1> QED
  BY <1>2, <1>3, <1>4, <1>5, FullPrefix DEF InOrder

\* The steps of a transfer: into another attempt, or with the whole file.
LEMMA WholeTransfer ==
  ASSUME Alone, DistinctNames, ResumeInv, WholeInv,
         NEW s \in Session, Transfer(s)
  PROVE  WholeInv'
<1>1. /\ TypeOK /\ call[s].pc # "idle" /\ call[s] \in Call
      /\ NameFor(s) \in Name
      /\ \A n \in Name : n # NameFor(s) => (n \in cutShort' <=> n \in cutShort)
  <2>1. /\ TypeOK /\ call[s].pc # "idle"
        /\ \/ cutShort' = cutShort
           \/ cutShort' = cutShort \ {NameFor(s)}
           \/ cutShort' = cutShort \union {NameFor(s)}
    BY DEF ResumeInv, Transfer, Open, Receive, ReceivePage, Finish, Break, BreakHttr,
           BreakWithWarning, At
  <2> QED
    BY <2>1, ActiveCall
<1>2. /\ NextTry(call[s]).pc \in {"fetch", "cleanup"}
      /\ NextTry(call[s]).want = call[s].want
  BY <1>1, NextTryType
<1>3. ASSUME call'[s] = NextTry(call[s]),
             \A n \in Name : n # NameFor(s) => file'[n] = file[n]
      PROVE  WholeInv'
  BY <1>1, <1>2, <1>3, WholeStep DEF Busy
<1>4. \A x : \A n \in Name : n # NameFor(s) => Written(s, x)[n] = file[n]
  BY <1>1 DEF Written, TypeOK
<1>5. \A n \in Name : n # NameFor(s) => Removed(NameFor(s))[n] = file[n]
  BY <1>1 DEF Removed, TypeOK
<1>6. CASE Open(s)
  <2>1. call'[s].pc = "transfer" /\ call'[s].want = call[s].want
    BY <1>1, <1>6 DEF Open, TypeOK, Call
  <2>2. \A n \in Name : n # NameFor(s) => file'[n] = file[n]
    BY <1>5, <1>6 DEF Open
  <2> QED
    BY <1>1, <2>1, <2>2, WholeStep DEF Busy
<1>7. CASE Receive(s)
  <2>1. call'[s].pc = "transfer" /\ call'[s].want = call[s].want
    BY <1>1, <1>7 DEF Receive, At, TypeOK, Call
  <2>2. \A n \in Name : n # NameFor(s) => file'[n] = file[n]
    BY <1>4, <1>7 DEF Receive
  <2> QED
    BY <1>1, <2>1, <2>2, WholeStep DEF Busy
<1>8. CASE ReceivePage(s)
  <2>0. \A n \in Name : n # NameFor(s) => file'[n] = file[n]
    BY <1>4, <1>8 DEF ReceivePage
  <2>1. CASE call' = [call EXCEPT ![s] = NextTry(@)]
    <3>1. call'[s] = NextTry(call[s])
      BY <1>1, <2>1 DEF TypeOK
    <3> QED
      BY <1>3, <2>0, <3>1
  <2>2. CASE call' = Went(s, "fetched")
    <3>1. call'[s].pc = "fetched" /\ call'[s].want = call[s].want
      BY <1>1, <2>2, WentKeeps
    <3>2. IsErrorPage(Content(s)')
      <4>1. IsErrorPage(file'[NameFor(s)])
        BY <1>8, PageResumes
      <4> QED
        BY <3>1, <4>1 DEF Content, NameFor
    <3>3. ~Valid(Content(s)')
      BY <3>2, PageIsInvalid
    <3> QED
      BY <1>1, <2>0, <3>1, <3>3, WholeStep
  <2> QED
    BY <1>8, <2>1, <2>2 DEF ReceivePage
<1>9. CASE Break(s)
  BY <1>1, <1>3, <1>9 DEF Break, TypeOK
<1>10. CASE BreakHttr(s)
  <2> DEFINE cs == [call EXCEPT ![s] = NextTry(@)]
  <2>1. cs[s] = NextTry(call[s])
    BY <1>1 DEF TypeOK
  <2>2. /\ cs[s].pc # "transfer"
        /\ call' = Orphaned(cs, NameFor(s))
    <3>1. cs[s].pc # "transfer"
      BY <1>2, <2>1
    <3> QED
      BY <1>10, <3>1 DEF BreakHttr
  <2> HIDE DEF cs
  <2>3. call'[s] = cs[s]
    BY <2>2 DEF Orphaned
  <2> QED
    BY <1>3, <1>5, <1>10, <2>1, <2>3 DEF BreakHttr
<1>11. CASE BreakWithWarning(s)
  <2>1. UNCHANGED file /\ NameFor(s) \in cutShort' /\ call' = Went(s, "fetched")
    BY <1>11 DEF BreakWithWarning
  <2>2. call'[s].want = call[s].want
    BY <1>1, <2>1, WentKeeps
  <2> QED
    BY <1>1, <2>1, <2>2, WholeStep
<1>12. CASE Finish(s)
  <2> DEFINE f == [call[s] EXCEPT !.pc = "fetched"]
  <2>1. UNCHANGED file
    BY <1>12 DEF Finish
  <2>2. call'[s] = f \/ call'[s] = NextTry(call[s])
    BY <1>1, <1>12 DEF Finish, TypeOK
  <2>3. CASE call'[s] = f
    <3>1. call'[s].pc = "fetched" /\ call'[s].want = call[s].want
      BY <1>1, <2>3 DEF Call
    <3>2. Content(s)' = Content(s)
      BY <2>1, <3>1 DEF Content, NameFor
    <3>3. ~Valid(Content(s)) \/ Content(s) = Whole(call[s].want)
      BY <1>12, FinishIsWhole
    <3>4. ~Valid(Content(s)') \/ Content(s)' = Whole(call[s].want)
      BY <3>2, <3>3
    <3> QED
      BY <1>1, <2>1, <3>1, <3>4, WholeStep
  <2> QED
    BY <1>3, <2>1, <2>2, <2>3
<1> QED
  BY <1>6, <1>7, <1>8, <1>9, <1>10, <1>11, <1>12 DEF Transfer

\* The steps before and after the transfer.
LEMMA WholeAround ==
  ASSUME Alone, DistinctNames, TypeOK, WholeInv, NEW s \in Session,
         \/ Look(s) \/ Discard(s) \/ CleanUp(s) \/ CheckFetched(s)
         \/ Verify(s) \/ Truncate(s) \/ Save(s)
  PROVE  WholeInv'
<1>1. /\ call[s].pc # "idle" /\ call[s] \in Call /\ call[s].want \in Model
      /\ NameFor(s) \in Name
      /\ cutShort' = cutShort
  <2>1. call[s].pc # "idle" /\ cutShort' = cutShort
    BY DEF Look, Discard, CleanUp, CheckFetched, Verify, Truncate, Save, At
  <2> QED
    BY <2>1, ActiveCall DEF Call
<1>2. \A n \in Name : n # NameFor(s) => Removed(NameFor(s))[n] = file[n]
  BY <1>1 DEF Removed, TypeOK
<1>3. ASSUME UNCHANGED file, call'[s].want = call[s].want,
             IsWhole(s)
      PROVE  WholeInv'
  <2>1. Content(s)' = Content(s)
    BY <1>3 DEF Content, NameFor
  <2>2. NameFor(s) \in cutShort' \/ Content(s)' = Whole(call[s].want)
    BY <1>1, <1>3, <2>1 DEF IsWhole
  <2> QED
    BY <1>1, <1>3, <2>2, WholeStep
<1>4. CASE Look(s)
  <2>1. UNCHANGED file
    BY <1>4 DEF Look
  <2>2. Content(s) = <<>> \/ IsWhole(s)
    BY <1>1, <1>4, KeptContent DEF Look, At, Busy
  <2>3. CASE call[s].force \/ Content(s) = <<>>
    <3>1. call'[s].pc = "fetch" /\ call'[s].want = call[s].want
      BY <1>1, <1>4, <2>3, WentKeeps DEF Look
    <3> QED
      BY <1>1, <2>1, <3>1, WholeStep DEF Busy
  <2>4. CASE ~(call[s].force \/ Content(s) = <<>>)
    <3>1. \E p : call' = Went(s, p)
      BY <1>4 DEF Look
    <3>2. call'[s].want = call[s].want
      BY <1>1, <3>1, WentKeeps
    <3> QED
      BY <1>3, <2>1, <2>2, <2>4, <3>2
  <2> QED
    BY <2>3, <2>4
<1>5. CASE Discard(s)
  <2>1. Went(s, "fetch")[s] = [call[s] EXCEPT !.pc = "fetch"]
    BY <1>1 DEF Went, TypeOK
  <2>2. Went(s, "fetch")[s].pc = "fetch" /\ Went(s, "fetch")[s].want = call[s].want
    BY <1>1, <2>1 DEF Call
  <2>3. call'[s].pc = "fetch" /\ call'[s].want = call[s].want
    BY <1>5, <2>2 DEF Discard, Orphaned
  <2> QED
    BY <1>1, <1>2, <1>5, <2>3, WholeStep DEF Discard, Busy
<1>6. ASSUME NEW w, file' = Removed(NameFor(s)),
             call' = Orphaned(Stopped(s, w), NameFor(s))
      PROVE  WholeInv'
  <2>1. call'[s].pc = "failed" /\ Content(s)' = <<>>
    BY <1>1, <1>6, GivingUp
  <2>2. Stopped(s, w)[s].pc = "failed" /\ Stopped(s, w)[s].want = call[s].want
    BY <1>1 DEF Stopped, TypeOK, Call
  <2>3. call'[s].want = call[s].want
    BY <1>6, <2>2 DEF Orphaned
  <2> QED
    BY <1>1, <1>2, <1>6, <2>1, <2>3, WholeStep
<1>7. CASE CleanUp(s)
  BY <1>6, <1>7 DEF CleanUp
<1>8. CASE CheckFetched(s)
  <2>1. CASE Valid(Content(s))
    <3>1. IsWhole(s)
      BY <1>8, <2>1 DEF WholeInv, FetchedWhole, CheckFetched
    <3>2. call' = Went(s, "verify") /\ UNCHANGED file
      BY <1>8, <2>1 DEF CheckFetched
    <3>3. call'[s].want = call[s].want
      BY <1>1, <3>2, WentKeeps
    <3> QED
      BY <1>3, <3>1, <3>2, <3>3
  <2>2. CASE ~Valid(Content(s))
    BY <1>6, <1>8, <2>2 DEF CheckFetched
  <2> QED
    BY <2>1, <2>2
<1>9. CASE Verify(s) \/ Truncate(s) \/ Save(s)
  <2>1. UNCHANGED file /\ call[s].pc \in {"verify", "truncate", "save"}
    BY <1>9 DEF Verify, Truncate, Save, At
  <2>2. IsWhole(s)
    BY <2>1 DEF WholeInv, SettledWhole
  <2>3. call'[s].want = call[s].want
    <3>1. CASE Truncate(s) \/ Save(s)
      BY <1>1, <3>1, WentKeeps DEF Truncate, Save
    <3>2. CASE Verify(s)
      <4>1. \/ call' = Stopped(s, "mismatch")
            \/ call' = Went(s, "done")
            \/ call' = [call EXCEPT ![s].pc = "truncate",
                                    ![s].seen = Append(known, NewRow(s))]
        BY <3>2 DEF Verify
      <4>2. CASE call' = Stopped(s, "mismatch")
        BY <1>1, <4>2 DEF Stopped, TypeOK, Call
      <4>3. CASE call' = Went(s, "done")
        BY <1>1, <4>3, WentKeeps
      <4>4. CASE call' = [call EXCEPT ![s].pc = "truncate",
                                      ![s].seen = Append(known, NewRow(s))]
        BY <1>1, <4>4 DEF TypeOK, Call
      <4> QED
        BY <4>1, <4>2, <4>3, <4>4
    <3> QED
      BY <1>9, <3>1, <3>2
  <2> QED
    BY <1>3, <2>1, <2>2, <2>3
<1> QED
  BY <1>4, <1>5, <1>7, <1>8, <1>9

LEMMA WholeNext ==
  ASSUME Alone, DistinctNames, ResumeInv, WholeInv, [Next]_vars
  PROVE  WholeInv'
<1>1. TypeOK
  BY DEF ResumeInv
<1>2. ASSUME NEW s \in Session, Ask(s) PROVE WholeInv'
  <2>1. /\ UNCHANGED <<file, cutShort>>
        /\ call[s].pc \notin Busy /\ call'[s].pc = "look"
    BY <1>1, <1>2 DEF Ask, Begin, TypeOK, Busy, Ended
  <2>2. Kept => Kept'
    BY <2>1 DEF Kept, Alone
  <2> QED
    BY <2>1, <2>2 DEF WholeInv, FetchedWhole, SettledWhole, Alone, At
<1>3. ASSUME NEW s \in Session, Crash(s) PROVE WholeInv'
  <2>1. /\ call[s].pc # "idle" /\ call'[s].pc = "idle" /\ file' = file
        /\ cutShort' = IF call[s].pc \in Busy THEN cutShort \union {NameFor(s)} ELSE cutShort
    BY <1>1, <1>3 DEF Crash, Downloading, Busy, Idle, TypeOK
  <2>2. Kept /\ NameFor(s) = NameOf[call[s].want]
    BY DEF WholeInv, NameFor
  <2>3. Kept'
    BY <2>1, <2>2 DEF Kept, Alone
  <2> QED
    BY <2>1, <2>3 DEF WholeInv, FetchedWhole, SettledWhole, Alone, At
<1>4. ASSUME NEW s \in Session, Step(s) PROVE WholeInv'
  BY <1>1, <1>4, WholeTransfer, WholeAround DEF Step
<1>5. CASE UNCHANGED vars
  BY <1>5 DEF vars, WholeInv, Kept, FetchedWhole, SettledWhole, IsWhole, At, Content, NameFor
<1> QED
  BY <1>2, <1>3, <1>4, <1>5 DEF Next

\* A call of a lone session returns a complete model, from whatever attempts and tools
\* it was put together, unless the last transfer into the file was cut off by a crash
\* or by what download.file only warned about (edge_download_model, .robust_download,
\* .is_valid_gguf_file).
THEOREM ReturnsCompleteModels ==
  ASSUME Alone, DistinctNames
  PROVE  Spec => []ReturnedIsWhole
<1>1. Init => ResumeInv /\ WholeInv
  <2> SUFFICES ASSUME Init PROVE ResumeInv /\ WholeInv
    OBVIOUS
  <2>1. ResumeInv
    BY ResumeInit
  <2>2. WholeInv
    BY CacheAssumption
       DEF Init, Idle, WholeInv, Kept, FetchedWhole, SettledWhole, At
  <2> QED
    BY <2>1, <2>2
<1>2. ResumeInv /\ WholeInv /\ [Next]_vars => (ResumeInv /\ WholeInv)'
  BY ResumeNext, WholeNext
<1>3. WholeInv => ReturnedIsWhole
  BY DEF WholeInv, SettledWhole, ReturnedIsWhole, IsWhole, At
<1> QED
  BY <1>1, <1>2, <1>3, PTL DEF Spec

=============================================================================
