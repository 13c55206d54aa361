--------------------------- MODULE CacheClean_proofs ---------------------------
(***************************************************************************)
(* Proofs about CacheClean, for any number of files, cleaners and          *)
(* downloads: types, that what is protected stays, that a clean gets the   *)
(* cache under its limit, and that cleaners together delete no more than   *)
(* one would.                                                              *)
(*                                                                         *)
(* A deletion looks at no name again, so that ProtectedStay rests on what  *)
(* was listed long before: CleanInv carries it from the listing through    *)
(* the reading and the decision to the deletion.                           *)
(*                                                                         *)
(* The limit is a matter of sums over the files, and SizeOf a recursive    *)
(* function.  The first part unfolds it once (SizeSum) and gets from there *)
(* what the rest uses: sums are monotone and additive.  Then KeptFits says *)
(* what the rows that are not evicted add up to, and Kept carries what a   *)
(* cleaner has read against the directory as it is now.                    *)
(***************************************************************************)
EXTENDS CacheClean, WellFoundedInduction, TLAPS

-----------------------------------------------------------------------------
(***************************************************************************)
(* Types, and what is never to be deleted.                                 *)
(***************************************************************************)

Calls == [Cleaner -> Clean \union {Idle}]

\* Nothing protected was listed, and nothing but what was listed is to be deleted.
Lawful(c) == /\ c.listed \subseteq File \ Protected
             /\ c.doomed \subseteq c.listed

CleanInv == /\ TypeOK
            /\ \A s \in Cleaner : clean[s].pc # "idle" => Lawful(clean[s])

-----------------------------------------------------------------------------
LEMMA ActiveClean ==
  ASSUME CleanInv, NEW s \in Cleaner, clean[s].pc # "idle"
  PROVE  clean[s] \in Clean /\ Lawful(clean[s])
BY DEF CleanInv, TypeOK, Idle

\* A cleaner that goes on as a lawful call keeps all of them lawful.
LEMMA CleanPut ==
  ASSUME CleanInv, NEW s \in Cleaner, NEW c \in Clean, Lawful(c),
         clean' = [clean EXCEPT ![s] = c]
  PROVE  /\ clean' \in Calls
         /\ \A t \in Cleaner : clean'[t].pc # "idle" => Lawful(clean'[t])
<1>1. clean \in Calls
  BY DEF CleanInv, TypeOK, Calls
<1>2. clean' \in Calls
  BY <1>1 DEF Calls
<1>3. ASSUME NEW t \in Cleaner, clean'[t].pc # "idle"
      PROVE  Lawful(clean'[t])
  <2>1. CASE t = s
    BY <1>1, <2>1 DEF Calls
  <2>2. CASE t # s
    BY <1>1, <1>3, <2>2 DEF Calls, CleanInv
  <2> QED
    BY <2>1, <2>2
<1> QED
  BY <1>2, <1>3

\* What a step of a cleaner has to show.
LEMMA CleanerStep ==
  ASSUME CleanInv, NEW s \in Cleaner, NEW c \in Clean, Lawful(c),
         clean' = [clean EXCEPT ![s] = c],
         file' \in [File -> FileState],
         writes' = writes
  PROVE  CleanInv'
<1>1. /\ clean' \in Calls
      /\ \A t \in Cleaner : clean'[t].pc # "idle" => Lawful(clean'[t])
  BY CleanPut
<1> QED
  BY <1>1 DEF CleanInv, TypeOK, Calls, Lawful

LEMMA InvInit == Init => CleanInv
<1> SUFFICES ASSUME Init PROVE CleanInv
  OBVIOUS
<1>1. Absent \in FileState
  BY CacheAssumption DEF Absent, FileState
<1>2. [there : {TRUE}, size : Sizes, mtime : 0..Today] \subseteq FileState
  BY CacheAssumption DEF FileState
<1>3. file \in [File -> FileState]
  BY <1>1, <1>2 DEF Init
<1>4. writes \in 0..MaxWrites
  BY CacheAssumption DEF Init
<1> QED
  BY <1>3, <1>4 DEF Init, CleanInv, TypeOK, Idle

LEMMA BeginPreserves ==
  ASSUME CleanInv, NEW s \in Cleaner, NEW lru \in BOOLEAN, NEW asks \in BOOLEAN,
         Begin(s, lru, asks)
  PROVE  CleanInv'
<1>1. Listed \subseteq File \ Protected
  BY DEF Listed
<1>2. [f \in File |-> NA] \in [File -> Info]
  BY CacheAssumption DEF NA, Info
<1>3. Started(lru, asks) \in Clean
  BY <1>1, <1>2 DEF Started, Clean
<1>4. Lawful(Started(lru, asks))
  BY <1>1 DEF Started, Lawful
<1> QED
  BY <1>3, <1>4, CleanerStep DEF Begin, CleanInv, TypeOK

LEMMA StatPreserves ==
  ASSUME CleanInv, NEW s \in Cleaner, NEW f \in File, Stat(s, f)
  PROVE  CleanInv'
<1>1. clean[s] \in Clean /\ Lawful(clean[s])
  BY ActiveClean DEF Stat, At
<1>2. file[f] \in FileState
  BY DEF CleanInv, TypeOK
<1>3. PICK i \in Info : i = IF file[f].there
                            THEN [na |-> FALSE, size |-> file[f].size, mtime |-> file[f].mtime]
                            ELSE NA
  <2>1. NA \in Info
    BY CacheAssumption DEF NA, Info
  <2>2. [na |-> FALSE, size |-> file[f].size, mtime |-> file[f].mtime] \in Info
    BY <1>2 DEF FileState, Info
  <2>3. (IF file[f].there
         THEN [na |-> FALSE, size |-> file[f].size, mtime |-> file[f].mtime] ELSE NA) \in Info
    BY <2>1, <2>2
  <2> QED
    BY <2>3
<1>4. PICK p \in {"decide", "stat"} : p = IF clean[s].unread = {f} THEN "decide" ELSE "stat"
  OBVIOUS
<1> DEFINE c == [clean[s] EXCEPT !.info[f] = i, !.unread = @ \ {f}, !.pc = p]
<1>5. clean' = [clean EXCEPT ![s] = c]
  BY <1>3, <1>4 DEF Stat
<1>6. c \in Clean
  BY <1>1 DEF Clean
<1>7. Lawful(c)
  BY <1>1 DEF Lawful, Clean
<1> QED
  BY <1>5, <1>6, <1>7, CleanerStep DEF Stat, CleanInv, TypeOK

LEMMA DecidePreserves ==
  ASSUME CleanInv, NEW s \in Cleaner, Decide(s)
  PROVE  CleanInv'
<1>1. clean[s] \in Clean /\ Lawful(clean[s])
  BY ActiveClean DEF Decide, At
<1>2. Old(clean[s]) \subseteq clean[s].listed
  BY DEF Old, Known
<1>3. Evicted(clean[s]) \subseteq clean[s].listed
  BY DEF Evicted, Known
<1>4. Doomed(clean[s]) \subseteq clean[s].listed
  BY <1>2, <1>3 DEF Doomed
<1>5. PICK p \in {"done", "ask", "delete"} :
        p = IF Doomed(clean[s]) \union Gone(clean[s]) = {} THEN "done"
            ELSE IF clean[s].asks THEN "ask" ELSE "delete"
  OBVIOUS
<1>6. PICK o, d : o = Old(clean[s]) /\ d = Doomed(clean[s])
  OBVIOUS
<1> DEFINE c == [clean[s] EXCEPT !.old = o, !.doomed = d, !.pc = p]
<1>7. clean' = [clean EXCEPT ![s] = c]
  BY <1>5, <1>6 DEF Decide
<1>8. c \in Clean
  BY <1>1, <1>2, <1>4, <1>6 DEF Clean
<1>9. Lawful(c)
  BY <1>1, <1>4, <1>6 DEF Lawful, Clean
<1> QED
  BY <1>7, <1>8, <1>9, CleanerStep DEF Decide, CleanInv, TypeOK

LEMMA AnswerPreserves ==
  ASSUME CleanInv, NEW s \in Cleaner, Consent(s) \/ Refuse(s) \/ Return(s)
  PROVE  CleanInv'
<1>1. clean[s] \in Clean /\ Lawful(clean[s])
  BY ActiveClean DEF Consent, Refuse, Return, At
<1>2. PICK p \in {"done", "delete"}, m \in BOOLEAN :
        clean' = [clean EXCEPT ![s] = [clean[s] EXCEPT !.pc = p, !.missed = m]]
  <2>1. clean[s].missed \in BOOLEAN /\ [clean[s] EXCEPT !.missed = clean[s].missed] = clean[s]
    BY <1>1 DEF Clean
  <2>2. CASE Refuse(s)
    BY <2>2 DEF Refuse
  <2>3. CASE Consent(s)
    <3>1. clean' = [clean EXCEPT ![s] = [clean[s] EXCEPT !.pc = "delete",
                                                         !.missed = clean[s].missed]]
      BY <1>1, <2>3 DEF Consent, Clean
    <3> QED
      BY <2>1, <3>1
  <2>4. CASE Return(s)
    <3>1. clean' = [clean EXCEPT ![s] = [clean[s] EXCEPT !.pc = "done",
                                                         !.missed = clean[s].missed]]
      BY <1>1, <2>4 DEF Return, Clean
    <3> QED
      BY <2>1, <3>1
  <2> QED
    BY <2>2, <2>3, <2>4
<1>3. [clean[s] EXCEPT !.pc = p, !.missed = m] \in Clean
  BY <1>1 DEF Clean
<1>4. Lawful([clean[s] EXCEPT !.pc = p, !.missed = m])
  BY <1>1 DEF Lawful, Clean
<1> QED
  BY <1>2, <1>3, <1>4, CleanerStep DEF Consent, Refuse, Return, CleanInv, TypeOK

LEMMA DeletePreserves ==
  ASSUME CleanInv, NEW s \in Cleaner, NEW f \in File, Delete(s, f) \/ DeleteFails(s, f)
  PROVE  CleanInv'
<1>1. clean[s] \in Clean /\ Lawful(clean[s])
  BY ActiveClean DEF Delete, DeleteFails, At
<1>2. PICK m \in BOOLEAN :
        clean' = [clean EXCEPT ![s] = [clean[s] EXCEPT !.doomed = @ \ {f}, !.missed = m]]
  <2>1. CASE DeleteFails(s, f)
    BY <2>1 DEF DeleteFails
  <2>2. CASE Delete(s, f)
    <3>1. clean[s].missed \in BOOLEAN
      BY <1>1 DEF Clean
    <3>2. clean' = [clean EXCEPT ![s] = [clean[s] EXCEPT !.doomed = @ \ {f},
                                                         !.missed = clean[s].missed]]
      BY <1>1, <2>2 DEF Delete, Clean
    <3> QED
      BY <3>1, <3>2
  <2> QED
    BY <2>1, <2>2
<1>3. [clean[s] EXCEPT !.doomed = @ \ {f}, !.missed = m] \in Clean
  BY <1>1 DEF Clean
<1>4. Lawful([clean[s] EXCEPT !.doomed = @ \ {f}, !.missed = m])
  BY <1>1 DEF Lawful, Clean
<1>5. file' \in [File -> FileState]
  BY DEF Delete, DeleteFails, CleanInv, TypeOK, FileState
<1> QED
  BY <1>2, <1>3, <1>4, <1>5, CleanerStep DEF Delete, DeleteFails

LEMMA WritePreserves ==
  ASSUME CleanInv, NEW f \in File, NEW size \in Sizes, Write(f, size)
  PROVE  CleanInv'
<1>1. file' \in [File -> FileState]
  BY CacheAssumption DEF Write, CleanInv, TypeOK, FileState
<1>2. writes' \in 0..MaxWrites
  BY CacheAssumption DEF Write, CleanInv, TypeOK
<1>3. ASSUME NEW s \in Cleaner
      PROVE  /\ clean'[s] \in Clean \union {Idle}
             /\ clean'[s].pc # "idle" => Lawful(clean'[s])
  <2>1. CASE At(s, "idle")
    <3>1. clean'[s] = clean[s] /\ clean[s] \in Clean \union {Idle}
      BY <2>1 DEF Write, CleanInv, TypeOK
    <3> QED
      BY <2>1, <3>1 DEF At
  <2>2. CASE ~At(s, "idle")
    <3>1. clean[s] \in Clean /\ Lawful(clean[s])
      BY <2>2, ActiveClean DEF At
    <3>2. clean'[s] = [clean[s] EXCEPT !.fresh = @ \union {f}]
      BY <2>2 DEF Write
    <3> QED
      BY <3>1, <3>2 DEF Clean, Lawful
  <2> QED
    BY <2>1, <2>2
<1>4. clean' = [s \in Cleaner |-> clean'[s]]
  BY DEF Write
<1>5. clean' \in Calls
  BY <1>3, <1>4 DEF Calls
<1> QED
  BY <1>1, <1>2, <1>3, <1>5 DEF CleanInv, TypeOK, Calls, Lawful

LEMMA InvNext == CleanInv /\ [Next]_vars => CleanInv'
<1> SUFFICES ASSUME CleanInv, [Next]_vars PROVE CleanInv'
  OBVIOUS
<1>1. ASSUME NEW s \in Cleaner, Start(s) PROVE CleanInv'
  BY <1>1, BeginPreserves, CacheAssumption DEF Start, Attach
<1>2. ASSUME NEW s \in Cleaner, Step(s) PROVE CleanInv'
  BY <1>2, StatPreserves, DecidePreserves, AnswerPreserves, DeletePreserves DEF Step
<1>3. ASSUME NEW f \in File, NEW size \in Sizes, Write(f, size) PROVE CleanInv'
  BY <1>3, WritePreserves
<1>4. CASE UNCHANGED vars
  BY <1>4 DEF vars, CleanInv, TypeOK, Lawful
<1> QED
  BY <1>1, <1>2, <1>3, <1>4 DEF Next

LEMMA Invariance == Spec => []CleanInv
BY InvInit, InvNext, PTL DEF Spec

-----------------------------------------------------------------------------
(***************************************************************************)
(* Sums over the files.                                                    *)
(***************************************************************************)

Below == {p \in Nat \X Nat : p[1] < p[2]}

\* A set of natural numbers has a least element.
LEMMA FirstOfSome ==
  ASSUME NEW S, S \subseteq Nat, S # {}
  PROVE  \E i \in S : \A j \in S : i <= j
<1>1. IsWellFoundedOn(Below, Nat)
  <2>1. Below = OpToRel(<, Nat)
    BY DEF Below, OpToRel
  <2> QED
    BY <2>1, NatLessThanWellFounded
<1>2. PICK i \in S : \A j \in S : ~(<<j, i>> \in Below)
  BY <1>1, WFMin
<1>3. ASSUME NEW j \in S PROVE i <= j
  <2>1. i \in Nat /\ j \in Nat
    OBVIOUS
  <2>2. <<j, i>> \in Nat \X Nat /\ <<j, i>>[1] = j /\ <<j, i>>[2] = i
    BY <2>1
  <2>3. ~(j < i)
    BY <1>2, <2>2 DEF Below
  <2> QED
    BY <2>1, <2>3
<1> QED
  BY <1>3

\* What holds at 0, and at every file if before it, holds at the last file.
LEMMA UpTheFiles ==
  ASSUME NEW T, 0 \in T, \A n \in File : n - 1 \in T => n \in T
  PROVE  \A n \in 0..NFiles : n \in T
<1> DEFINE S == {n \in 0..NFiles : n \notin T}
<1>1. SUFFICES ASSUME S # {} PROVE FALSE
  OBVIOUS
<1>2. S \subseteq Nat
  BY CacheAssumption
<1>3. PICK m \in S : \A j \in S : m <= j
  BY <1>1, <1>2, FirstOfSome
<1>4. m \in File /\ m - 1 \in 0..NFiles
  BY <1>3, CacheAssumption DEF File
<1>5. m - 1 \notin S
  BY <1>3, <1>4, CacheAssumption
<1> QED
  BY <1>3, <1>4, <1>5

\* One term of a sum.
Term(of, S, n) == IF n \in S THEN of[n].size ELSE 0

Sized(of) == \A f \in File : of[f].size \in Nat

\* A function that adds the terms up.
IsSum(sum, of, S) == /\ sum \in [0..NFiles -> Nat]
                     /\ sum[0] = 0
                     /\ \A n \in File : sum[n] = sum[n - 1] + Term(of, S, n)

LEMMA TermType ==
  ASSUME NEW of, Sized(of), NEW S, NEW n \in File
  PROVE  Term(of, S, n) \in Nat
BY DEF Sized, Term

\* There is one, for as many files as there are.
LEMMA SumExists ==
  ASSUME NEW of, Sized(of), NEW S
  PROVE  \E sum : IsSum(sum, of, S)
<1> DEFINE Part(sum, k) == /\ sum \in [0..k -> Nat]
                           /\ sum[0] = 0
                           /\ \A n \in 1..k : sum[n] = sum[n - 1] + Term(of, S, n)
           T == {k \in 0..NFiles : \E sum : Part(sum, k)}
<1>1. 0 \in T
  <2>1. Part([n \in 0..0 |-> 0], 0)
    OBVIOUS
  <2>2. 0 \in 0..NFiles
    BY CacheAssumption
  <2> HIDE DEF Part
  <2> QED
    BY <2>1, <2>2
<1>2. ASSUME NEW n \in File, n - 1 \in T PROVE n \in T
  <2>1. n \in Nat /\ n >= 1 /\ n <= NFiles
    BY CacheAssumption DEF File
  <2>2. PICK sum : Part(sum, n - 1)
    BY <1>2
  <2> DEFINE more == [i \in 0..n |-> IF i = n THEN sum[n - 1] + Term(of, S, n) ELSE sum[i]]
  <2>3. Term(of, S, n) \in Nat
    BY TermType
  <2>4. sum[n - 1] \in Nat
    BY <2>1, <2>2
  <2>5. more \in [0..n -> Nat]
    BY <2>1, <2>2, <2>3, <2>4
  <2>6. more[0] = 0
    BY <2>1, <2>2
  <2>7. ASSUME NEW i \in 1..n PROVE more[i] = more[i - 1] + Term(of, S, i)
    <3>1. CASE i = n
      BY <2>1, <3>1
    <3>2. CASE i # n
      <4>1. i \in 1..(n - 1) /\ i - 1 \in 0..n /\ i - 1 # n
        BY <2>1, <3>2
      <4>2. more[i] = sum[i] /\ more[i - 1] = sum[i - 1]
        BY <2>1, <3>2, <4>1
      <4> QED
        BY <2>2, <4>1, <4>2
    <3> QED
      BY <3>1, <3>2
  <2>8. Part(more, n)
    BY <2>5, <2>6, <2>7
  <2> HIDE DEF more, Part
  <2> QED
    BY <2>1, <2>8
<1>3. NFiles \in T
  <2> HIDE DEF T
  <2> QED
    BY <1>1, <1>2, UpTheFiles, CacheAssumption
<1>4. PICK sum : Part(sum, NFiles)
  BY <1>3
<1> QED
  BY <1>4 DEF IsSum, File

\* SizeOf is the last value of such a function.
LEMMA SizeSum ==
  ASSUME NEW of, Sized(of), NEW S
  PROVE  \E sum : IsSum(sum, of, S) /\ SizeOf(of, S) = sum[NFiles]
<1> DEFINE step(f) == [n \in 0..NFiles |->
                         IF n = 0 THEN 0
                         ELSE f[n - 1] + (IF n \in S THEN of[n].size ELSE 0)]
           chosen == CHOOSE f : f = step(f)
<1>1. PICK sum : IsSum(sum, of, S)
  BY SumExists
<1>2. sum = step(sum)
  <2>1. ASSUME NEW n \in 0..NFiles PROVE sum[n] = step(sum)[n]
    <3>1. CASE n = 0
      BY <1>1, <3>1 DEF IsSum
    <3>2. CASE n # 0
      <4>1. n \in File
        BY <3>2, CacheAssumption DEF File
      <4> QED
        BY <1>1, <3>2, <4>1 DEF IsSum, Term
    <3> QED
      BY <3>1, <3>2
  <2> QED
    BY <1>1, <2>1 DEF IsSum
<1>3. chosen = step(chosen)
  <2> HIDE DEF step
  <2> QED
    BY <1>2
<1>4. chosen[0] = 0 /\ DOMAIN chosen = 0..NFiles
  <2> HIDE DEF chosen
  <2> QED
    BY <1>3, CacheAssumption
<1>5. ASSUME NEW n \in File PROVE chosen[n] = chosen[n - 1] + Term(of, S, n)
  <2>1. n \in 0..NFiles /\ n # 0
    BY CacheAssumption DEF File
  <2>2. step(chosen)[n] = chosen[n - 1] + Term(of, S, n)
    BY <2>1 DEF Term
  <2> HIDE DEF step, chosen
  <2> QED
    BY <1>3, <2>2
<1>6. \A n \in 0..NFiles : chosen[n] \in Nat
  <2> HIDE DEF chosen
  <2> DEFINE T == {n \in 0..NFiles : chosen[n] \in Nat}
  <2>1. 0 \in T
    BY <1>4, CacheAssumption
  <2>2. ASSUME NEW n \in File, n - 1 \in T PROVE n \in T
    <3>1. n \in 0..NFiles
      BY CacheAssumption DEF File
    <3>2. Term(of, S, n) \in Nat
      BY TermType
    <3> QED
      BY <1>5, <2>2, <3>1, <3>2
  <2> HIDE DEF T
  <2>3. \A n \in 0..NFiles : n \in T
    BY <2>1, <2>2, UpTheFiles
  <2> QED
    BY <2>3 DEF T
<1>7. chosen = [n \in 0..NFiles |-> chosen[n]]
  <2> HIDE DEF chosen
  <2> QED
    BY <1>3
<1>8. IsSum(chosen, of, S)
  <2> HIDE DEF chosen
  <2> QED
    BY <1>4, <1>5, <1>6, <1>7 DEF IsSum
<1>9. SizeOf(of, S) = chosen[NFiles]
  BY DEF SizeOf
<1> QED
  BY <1>8, <1>9

LEMMA SizeType ==
  ASSUME NEW of, Sized(of), NEW S
  PROVE  SizeOf(of, S) \in Nat
BY SizeSum, CacheAssumption DEF IsSum

\* More files, or larger ones, are not smaller together.
LEMMA SizeMonotone ==
  ASSUME NEW of, Sized(of), NEW S, NEW og, Sized(og), NEW R,
         \A f \in File \intersect S : f \in R /\ of[f].size <= og[f].size
  PROVE  SizeOf(of, S) <= SizeOf(og, R)
<1>1. PICK u : IsSum(u, of, S) /\ SizeOf(of, S) = u[NFiles]
  BY SizeSum
<1>2. PICK v : IsSum(v, og, R) /\ SizeOf(og, R) = v[NFiles]
  BY SizeSum
<1> DEFINE T == {n \in 0..NFiles : u[n] <= v[n]}
<1>3. 0 \in T
  BY <1>1, <1>2, CacheAssumption DEF IsSum
<1>4. ASSUME NEW n \in File, n - 1 \in T PROVE n \in T
  <2>1. n \in 0..NFiles /\ n - 1 \in 0..NFiles
    BY CacheAssumption DEF File
  <2>2. Term(of, S, n) \in Nat /\ Term(og, R, n) \in Nat
    BY TermType
  <2>3. Term(of, S, n) <= Term(og, R, n)
    BY <2>2 DEF Term, Sized
  <2>4. u[n - 1] \in Nat /\ v[n - 1] \in Nat /\ u[n - 1] <= v[n - 1]
    BY <1>1, <1>2, <1>4, <2>1 DEF IsSum
  <2>5. u[n] = u[n - 1] + Term(of, S, n) /\ v[n] = v[n - 1] + Term(og, R, n)
    BY <1>1, <1>2 DEF IsSum
  <2> QED
    BY <2>1, <2>2, <2>3, <2>4, <2>5
<1> HIDE DEF T
<1>5. NFiles \in T
  BY <1>3, <1>4, UpTheFiles, CacheAssumption
<1> QED
  BY <1>1, <1>2, <1>5 DEF T

\* The same sizes make the same sum.
LEMMA SizeSame ==
  ASSUME NEW of, Sized(of), NEW og, Sized(og), NEW S,
         \A f \in File \intersect S : of[f].size = og[f].size
  PROVE  SizeOf(of, S) = SizeOf(og, S)
<1>1. SizeOf(of, S) <= SizeOf(og, S) /\ SizeOf(og, S) <= SizeOf(of, S)
  BY SizeMonotone DEF Sized
<1> QED
  BY <1>1, SizeType

\* The files of two sets that share none.
LEMMA SizeUnion ==
  ASSUME NEW of, Sized(of), NEW S, NEW R, S \intersect R = {}
  PROVE  SizeOf(of, S \union R) = SizeOf(of, S) + SizeOf(of, R)
<1>1. PICK u : IsSum(u, of, S) /\ SizeOf(of, S) = u[NFiles]
  BY SizeSum
<1>2. PICK v : IsSum(v, of, R) /\ SizeOf(of, R) = v[NFiles]
  BY SizeSum
<1>3. PICK w : IsSum(w, of, S \union R) /\ SizeOf(of, S \union R) = w[NFiles]
  BY SizeSum
<1> DEFINE T == {n \in 0..NFiles : w[n] = u[n] + v[n]}
<1>4. 0 \in T
  BY <1>1, <1>2, <1>3, CacheAssumption DEF IsSum
<1>5. ASSUME NEW n \in File, n - 1 \in T PROVE n \in T
  <2>1. n \in 0..NFiles /\ n - 1 \in 0..NFiles
    BY CacheAssumption DEF File
  <2>2. Term(of, S, n) \in Nat /\ Term(of, R, n) \in Nat
    BY TermType
  <2>3. Term(of, S \union R, n) = Term(of, S, n) + Term(of, R, n)
    BY DEF Term, Sized
  <2>4. u[n - 1] \in Nat /\ v[n - 1] \in Nat /\ w[n - 1] = u[n - 1] + v[n - 1]
    BY <1>1, <1>2, <1>5, <2>1 DEF IsSum
  <2>5. /\ u[n] = u[n - 1] + Term(of, S, n)
        /\ v[n] = v[n - 1] + Term(of, R, n)
        /\ w[n] = w[n - 1] + Term(of, S \union R, n)
    BY <1>1, <1>2, <1>3 DEF IsSum
  <2> QED
    BY <2>1, <2>2, <2>3, <2>4, <2>5
<1> HIDE DEF T
<1>6. NFiles \in T
  BY <1>4, <1>5, UpTheFiles, CacheAssumption
<1> QED
  BY <1>1, <1>2, <1>3, <1>6 DEF T

\* No files have no size.
LEMMA SizeEmpty ==
  ASSUME NEW of, Sized(of)
  PROVE  SizeOf(of, {}) = 0
<1>1. SizeOf(of, {} \union {}) = SizeOf(of, {}) + SizeOf(of, {})
  BY SizeUnion
<1> QED
  BY <1>1, SizeType

\* Among any files one comes before all others.
LEMMA FirstInOrder ==
  ASSUME NEW of, \A f \in File : of[f].mtime \in Nat, NEW lru \in BOOLEAN,
         NEW S, S \subseteq File, S # {}
  PROVE  \E f \in S : \A g \in S : ~Before(of, lru, g, f)
<1>1. File \subseteq Nat
  BY CacheAssumption DEF File
<1>2. CASE lru
  <2> DEFINE times == {of[f].mtime : f \in S}
  <2>1. times \subseteq Nat /\ times # {}
    OBVIOUS
  <2>2. PICK m \in times : \A t \in times : m <= t
    <3> HIDE DEF times
    <3> QED
      BY <2>1, FirstOfSome
  <2> DEFINE oldest == {f \in S : of[f].mtime = m}
  <2>3. oldest \subseteq Nat /\ oldest # {}
    BY <1>1, <2>2
  <2>4. PICK f \in oldest : \A g \in oldest : f <= g
    <3> HIDE DEF oldest
    <3> QED
      BY <2>3, FirstOfSome
  <2>5. ASSUME NEW g \in S PROVE ~Before(of, lru, g, f)
    <3>1. of[g].mtime \in times /\ of[f].mtime = m /\ m \in Nat
      BY <2>1, <2>2, <2>4
    <3>2. m <= of[g].mtime
      BY <2>2, <3>1
    <3>3. CASE of[g].mtime = of[f].mtime
      <4>1. g \in oldest /\ f \in Nat /\ g \in Nat
        BY <1>1, <2>4, <3>1, <3>3
      <4>2. f <= g
        BY <2>4, <4>1
      <4> QED
        BY <3>3, <4>1, <4>2 DEF Before
    <3>4. CASE of[g].mtime # of[f].mtime
      BY <1>2, <3>1, <3>2, <3>4 DEF Before
    <3> QED
      BY <3>3, <3>4
  <2> QED
    BY <2>4, <2>5
<1>3. CASE ~lru
  <2>1. PICK f \in S : \A g \in S : f <= g
    BY <1>1, FirstOfSome
  <2>2. \A g \in S : ~Before(of, lru, g, f)
    BY <1>1, <1>3, <2>1 DEF Before
  <2> QED
    BY <2>2
<1> QED
  BY <1>2, <1>3

LEMMA InfoType ==
  ASSUME NEW c \in Clean
  PROVE  /\ c.info \in [File -> Info]
         /\ Sized(c.info)
         /\ \A f \in File : c.info[f].mtime \in Nat
         /\ Known(c) \subseteq File
         /\ c.lru \in BOOLEAN
BY CacheAssumption DEF Clean, Info, Sized, Known

\* With use_lru, what is read and not evicted is within the limit: the first row that
\* stays has only evicted rows before it, and those free what was too much.
LEMMA KeptFits ==
  ASSUME NEW c \in Clean, c.lru
  PROVE  SizeOf(c.info, Known(c) \ Evicted(c)) <= Limit
<1> DEFINE stay == Known(c) \ Evicted(c)
<1>1. /\ Sized(c.info) /\ \A f \in File : c.info[f].mtime \in Nat
      /\ Known(c) \subseteq File
      /\ SizeOf(c.info, stay) \in Nat /\ Excess(c) \in Nat /\ Limit \in Nat
  BY InfoType, SizeType, CacheAssumption DEF Excess
<1>2. SizeOf(c.info, stay) <= Excess(c)
  BY <1>1, SizeMonotone DEF Excess, Sized
<1>3. CASE Excess(c) <= Limit
  BY <1>1, <1>2, <1>3
<1>4. CASE Excess(c) > Limit /\ stay = {}
  BY <1>1, <1>4, SizeEmpty
<1>5. CASE Excess(c) > Limit /\ stay # {}
  <2>1. PICK f \in stay : \A g \in stay : ~Before(c.info, c.lru, g, f)
    BY <1>1, <1>5, FirstInOrder
  <2> DEFINE ahead == {g \in Known(c) : Before(c.info, c.lru, g, f)}
  <2>2. ahead \intersect stay = {}
    BY <2>1
  <2>3. ahead \union stay \subseteq Known(c)
    OBVIOUS
  <2>4. FreedBefore(c, f) = SizeOf(c.info, ahead) /\ SizeOf(c.info, ahead) \in Nat
    BY <1>1, SizeType DEF FreedBefore
  <2>5. ~(FreedBefore(c, f) < Excess(c) - Limit)
    BY <1>5, <2>1 DEF Evicted, AfterGone
  <2> HIDE DEF stay, ahead
  <2>6. SizeOf(c.info, ahead \union stay) = SizeOf(c.info, ahead) + SizeOf(c.info, stay)
    BY <1>1, <2>2, SizeUnion
  <2>7. SizeOf(c.info, ahead \union stay) <= Excess(c)
    BY <1>1, <2>3, SizeMonotone DEF Excess, Sized
  <2> QED
    BY <1>1, <2>4, <2>5, <2>6, <2>7 DEF stay
<1> QED
  BY <1>1, <1>3, <1>4, <1>5

-----------------------------------------------------------------------------
(***************************************************************************)
(* What a cleaner has read, against the directory as it is.                *)
(***************************************************************************)

\* What is there was listed, or came since.
Seen(c, dir) ==
  \A f \in File \ (Protected \union c.fresh) : dir[f].there => f \in c.listed

\* What was read of a file that is still there is true of it, unless it came since.
Read(c, dir) == /\ c.unread \subseteq c.listed
                /\ c.pc # "stat" => c.unread = {}
                /\ \A f \in c.listed \ (c.unread \union c.fresh) :
                     dir[f].there => ~c.info[f].na /\ c.info[f].size = dir[f].size

\* What was to be deleted and is so no longer is gone, or came since.
Carried(c, dir) ==
  ~c.missed =>
    /\ c.pc \in {"ask", "delete", "done"} =>
         \A f \in Doomed(c) \ (c.doomed \union c.fresh) : ~dir[f].there
    /\ c.pc = "done" => c.doomed = {}

Kept(c, dir) == Seen(c, dir) /\ Read(c, dir) /\ Carried(c, dir)

KeptInv == /\ CleanInv
           /\ \A s \in Cleaner : clean[s].pc # "idle" => Kept(clean[s], file)

\* What is decided depends on what was read alone.
LEMMA DoomedSame ==
  ASSUME NEW c, NEW d, d.listed = c.listed, d.info = c.info, d.lru = c.lru
  PROVE  Doomed(d) = Doomed(c) /\ Known(d) = Known(c)
<1>1. Known(d) = Known(c) /\ Gone(d) = Gone(c)
  BY DEF Known, Gone
<1>2. \A f : FreedBefore(d, f) = FreedBefore(c, f)
  BY <1>1 DEF FreedBefore
<1>3. Excess(d) = Excess(c) /\ Old(d) = Old(c)
  BY <1>1 DEF Excess, Old
<1>4. Evicted(d) = Evicted(c)
  BY <1>1, <1>2, <1>3 DEF Evicted, AfterGone
<1> QED
  BY <1>1, <1>3, <1>4 DEF Doomed

\* Deletions by anyone leave it so.
LEMMA KeptShrinks ==
  ASSUME NEW c, NEW dir, NEW now, Lawful(c), Kept(c, dir),
         \A f \in File : now[f].there => dir[f].there /\ now[f].size = dir[f].size
  PROVE  Kept(c, now)
<1>1. Doomed(c) \subseteq File
  BY DEF Doomed, Old, Evicted, Known, Lawful
<1>2. Seen(c, now) /\ Read(c, now)
  BY DEF Kept, Seen, Read, Lawful
<1>3. Carried(c, now)
  BY <1>1 DEF Kept, Carried
<1> QED
  BY <1>2, <1>3 DEF Kept

\* What a step of a cleaner has to show.
LEMMA KeptStep ==
  ASSUME KeptInv, CleanInv', NEW s \in Cleaner, NEW c,
         clean' = [clean EXCEPT ![s] = c],
         Kept(c, file'),
         \A f \in File : file'[f].there => file[f].there /\ file'[f].size = file[f].size
  PROVE  KeptInv'
<1>1. ASSUME NEW t \in Cleaner, clean'[t].pc # "idle"
      PROVE  Kept(clean'[t], file')
  <2>1. CASE t = s
    BY <2>1 DEF KeptInv, CleanInv, TypeOK
  <2>2. CASE t # s
    <3>1. clean'[t] = clean[t]
      BY <2>2 DEF KeptInv, CleanInv, TypeOK
    <3>2. Lawful(clean[t]) /\ Kept(clean[t], file)
      BY <1>1, <3>1 DEF KeptInv, CleanInv
    <3> QED
      BY <3>1, <3>2, KeptShrinks
  <2> QED
    BY <2>1, <2>2
<1> QED
  BY <1>1 DEF KeptInv

LEMMA BeginKeeps ==
  ASSUME KeptInv, CleanInv', NEW s \in Cleaner, NEW lru \in BOOLEAN, NEW asks \in BOOLEAN,
         Begin(s, lru, asks)
  PROVE  KeptInv'
<1> DEFINE c == Started(lru, asks)
<1>1. /\ c.listed = Listed /\ c.unread = Listed /\ c.fresh = {} /\ c.doomed = {}
      /\ c.pc = IF Listed = {} THEN "done" ELSE "stat"
  BY DEF Started
<1>2. Seen(c, file) /\ Read(c, file)
  <2> HIDE DEF c
  <2> QED
    BY <1>1 DEF Seen, Read, Listed
<1>3. Carried(c, file)
  <2> HIDE DEF c
  <2>1. Listed = {} => Doomed(c) = {}
    BY <1>1 DEF Doomed, Old, Evicted, Known
  <2> QED
    BY <1>1, <2>1 DEF Carried
<1>4. Kept(c, file)
  BY <1>2, <1>3 DEF Kept
<1>5. clean' = [clean EXCEPT ![s] = c] /\ file' = file
  BY DEF Begin
<1> HIDE DEF c
<1> QED
  BY <1>4, <1>5, KeptStep

LEMMA StatKeeps ==
  ASSUME KeptInv, CleanInv', NEW s \in Cleaner, NEW f \in File, Stat(s, f)
  PROVE  KeptInv'
<1> DEFINE c == clean[s]
           d == clean'[s]
<1>1. /\ c \in Clean /\ Lawful(c) /\ Kept(c, file) /\ file' = file
      /\ c.pc = "stat" /\ f \in c.unread
  BY ActiveClean DEF Stat, At, KeptInv
<1>2. clean \in [Cleaner -> Clean \union {Idle}] /\ DOMAIN c.info = File
  BY <1>1 DEF KeptInv, CleanInv, TypeOK, Clean
<1>3. /\ clean' = [clean EXCEPT ![s] = d]
      /\ d.listed = c.listed /\ d.fresh = c.fresh
      /\ d.unread = c.unread \ {f}
      /\ d.pc = IF c.unread = {f} THEN "decide" ELSE "stat"
  BY <1>1, <1>2 DEF Stat, Clean
<1>4. d.info = [c.info EXCEPT ![f] =
                  IF file[f].there
                  THEN [na |-> FALSE, size |-> file[f].size, mtime |-> file[f].mtime] ELSE NA]
  BY <1>1, <1>2 DEF Stat, Clean
<1>5. Seen(d, file)
  BY <1>1, <1>3 DEF Kept, Seen
<1>6. Read(d, file)
  <2>1. d.unread \subseteq d.listed /\ (d.pc # "stat" => d.unread = {})
    BY <1>1, <1>3 DEF Kept, Read
  <2>2. ASSUME NEW g \in d.listed \ (d.unread \union d.fresh), file[g].there
        PROVE  ~d.info[g].na /\ d.info[g].size = file[g].size
    <3>1. CASE g = f
      <4>1. d.info[f] = [na |-> FALSE, size |-> file[f].size, mtime |-> file[f].mtime]
        BY <1>2, <1>4, <2>2, <3>1
      <4> QED
        BY <3>1, <4>1
    <3>2. CASE g # f
      <4>1. g \in c.listed \ (c.unread \union c.fresh) /\ g \in File
        BY <1>1, <1>3, <2>2, <3>2 DEF Lawful
      <4>2. d.info[g] = c.info[g]
        BY <1>2, <1>4, <3>2, <4>1
      <4> QED
        BY <1>1, <2>2, <4>1, <4>2 DEF Kept, Read
    <3> QED
      BY <3>1, <3>2
  <2> QED
    BY <2>1, <2>2 DEF Read
<1>7. Carried(d, file)
  BY <1>3 DEF Carried
<1> HIDE DEF d
<1> QED
  BY <1>1, <1>3, <1>5, <1>6, <1>7, KeptStep DEF Kept

LEMMA DecideKeeps ==
  ASSUME KeptInv, CleanInv', NEW s \in Cleaner, Decide(s)
  PROVE  KeptInv'
<1> DEFINE c == clean[s]
           d == clean'[s]
<1>1. /\ c \in Clean /\ Lawful(c) /\ Kept(c, file) /\ file' = file /\ c.pc = "decide"
  BY ActiveClean DEF Decide, At, KeptInv
<1>2. clean \in [Cleaner -> Clean \union {Idle}]
  BY DEF KeptInv, CleanInv, TypeOK
<1>3. PICK q : q = Doomed(c)
  OBVIOUS
<1>4. /\ clean' = [clean EXCEPT ![s] = d]
      /\ d.listed = c.listed /\ d.fresh = c.fresh /\ d.unread = c.unread
      /\ d.info = c.info /\ d.lru = c.lru /\ d.doomed = q
      /\ d.pc = IF q \union Gone(c) = {} THEN "done" ELSE IF c.asks THEN "ask" ELSE "delete"
  BY <1>1, <1>2, <1>3 DEF Decide, Clean
<1>5. Seen(d, file) /\ Read(d, file)
  BY <1>1, <1>4 DEF Kept, Seen, Read
<1>6. Carried(d, file)
  <2>1. Doomed(d) = d.doomed
    BY <1>3, <1>4, DoomedSame
  <2> QED
    BY <1>4, <2>1 DEF Carried
<1> HIDE DEF d
<1> QED
  BY <1>1, <1>4, <1>5, <1>6, KeptStep DEF Kept

LEMMA AnswerKeeps ==
  ASSUME KeptInv, CleanInv', NEW s \in Cleaner, Consent(s) \/ Refuse(s) \/ Return(s)
  PROVE  KeptInv'
<1> DEFINE c == clean[s]
           d == clean'[s]
<1>1. /\ c \in Clean /\ Lawful(c) /\ Kept(c, file) /\ file' = file
      /\ c.pc \in {"ask", "delete"}
  BY ActiveClean DEF Consent, Refuse, Return, At, KeptInv
<1>2. clean \in [Cleaner -> Clean \union {Idle}]
  BY DEF KeptInv, CleanInv, TypeOK
<1>3. /\ clean' = [clean EXCEPT ![s] = d]
      /\ d.listed = c.listed /\ d.fresh = c.fresh /\ d.unread = c.unread
      /\ d.info = c.info /\ d.lru = c.lru /\ d.doomed = c.doomed
      /\ d.pc \in {"delete", "done"}
      /\ d.missed \/ (d.missed = c.missed /\ (d.pc = "done" => c.doomed = {}))
  <2>1. CASE Consent(s)
    BY <1>1, <1>2, <2>1 DEF Consent, Clean
  <2>2. CASE Refuse(s)
    BY <1>1, <1>2, <2>2 DEF Refuse, Clean
  <2>3. CASE Return(s)
    BY <1>1, <1>2, <2>3 DEF Return, Clean
  <2> QED
    BY <2>1, <2>2, <2>3
<1>4. Seen(d, file) /\ Read(d, file)
  BY <1>1, <1>3 DEF Kept, Seen, Read
<1>5. Carried(d, file)
  <2>1. Doomed(d) = Doomed(c)
    BY <1>3, DoomedSame
  <2> QED
    BY <1>1, <1>3, <2>1 DEF Kept, Carried
<1> HIDE DEF d
<1> QED
  BY <1>1, <1>3, <1>4, <1>5, KeptStep DEF Kept

LEMMA DeleteKeeps ==
  ASSUME KeptInv, CleanInv', NEW s \in Cleaner, NEW f \in File,
         Delete(s, f) \/ DeleteFails(s, f)
  PROVE  KeptInv'
<1> DEFINE c == clean[s]
           d == clean'[s]
<1>1. c \in Clean /\ Lawful(c) /\ Kept(c, file) /\ c.pc = "delete"
  BY ActiveClean DEF Delete, DeleteFails, At, KeptInv
<1>2. clean \in [Cleaner -> Clean \union {Idle}] /\ file \in [File -> FileState]
  BY DEF KeptInv, CleanInv, TypeOK
<1>3. \A g \in File : file'[g].there => file[g].there /\ file'[g].size = file[g].size
  BY <1>2 DEF Delete, DeleteFails, FileState
<1>4. /\ clean' = [clean EXCEPT ![s] = d]
      /\ d.listed = c.listed /\ d.fresh = c.fresh /\ d.unread = c.unread
      /\ d.info = c.info /\ d.lru = c.lru /\ d.doomed = c.doomed \ {f}
      /\ d.pc = "delete"
      /\ d.missed \/ (d.missed = c.missed /\ ~file'[f].there)
  <2>1. CASE Delete(s, f)
    BY <1>1, <1>2, <2>1 DEF Delete, Clean, FileState
  <2>2. CASE DeleteFails(s, f)
    BY <1>1, <1>2, <2>2 DEF DeleteFails, Clean
  <2> QED
    BY <2>1, <2>2
<1>5. Kept(c, file')
  BY <1>1, <1>3, KeptShrinks
<1>6. Seen(d, file') /\ Read(d, file')
  BY <1>1, <1>4, <1>5 DEF Kept, Seen, Read
<1>7. Carried(d, file')
  <2>1. Doomed(d) = Doomed(c)
    BY <1>4, DoomedSame
  <2> QED
    BY <1>1, <1>4, <1>5, <2>1 DEF Kept, Carried
<1> HIDE DEF d
<1> QED
  BY <1>3, <1>4, <1>6, <1>7, KeptStep DEF Kept

LEMMA WriteKeeps ==
  ASSUME KeptInv, CleanInv', NEW f \in File, NEW size \in Sizes, Write(f, size)
  PROVE  KeptInv'
<1>1. ASSUME NEW s \in Cleaner, clean'[s].pc # "idle"
      PROVE  Kept(clean'[s], file')
  <2> DEFINE c == clean[s]
             d == clean'[s]
  <2>1. d = IF At(s, "idle") THEN c ELSE [c EXCEPT !.fresh = @ \union {f}]
    BY DEF Write
  <2>2. ~At(s, "idle")
    BY <1>1, <2>1 DEF At
  <2>3. c \in Clean /\ Lawful(c) /\ Kept(c, file)
    BY <2>2, ActiveClean DEF At, KeptInv
  <2>4. /\ d.listed = c.listed /\ d.unread = c.unread /\ d.info = c.info /\ d.lru = c.lru
        /\ d.doomed = c.doomed /\ d.pc = c.pc /\ d.missed = c.missed
        /\ d.fresh = c.fresh \union {f}
    BY <2>1, <2>2, <2>3 DEF Clean
  <2>5. \A g \in File \ {f} : file'[g] = file[g]
    BY DEF Write, KeptInv, CleanInv, TypeOK
  <2>6. Seen(d, file') /\ Read(d, file')
    BY <2>3, <2>4, <2>5 DEF Kept, Seen, Read, Lawful
  <2>7. Carried(d, file')
    <3>1. Doomed(d) = Doomed(c)
      BY <2>4, DoomedSame
    <3>2. Doomed(c) \subseteq File
      BY <2>3 DEF Doomed, Old, Evicted, Known, Lawful
    <3> QED
      BY <2>3, <2>4, <2>5, <3>1, <3>2 DEF Kept, Carried
  <2> HIDE DEF d
  <2> QED
    BY <2>6, <2>7 DEF Kept, d
<1> QED
  BY <1>1 DEF KeptInv

LEMMA KeptNext == KeptInv /\ [Next]_vars => KeptInv'
<1> SUFFICES ASSUME KeptInv, [Next]_vars PROVE KeptInv'
  OBVIOUS
<1>1. CleanInv'
  BY InvNext DEF KeptInv
<1>2. ASSUME NEW s \in Cleaner, Start(s) PROVE KeptInv'
  BY <1>1, <1>2, BeginKeeps, CacheAssumption DEF Start, Attach
<1>3. ASSUME NEW s \in Cleaner, Step(s) PROVE KeptInv'
  BY <1>1, <1>3, StatKeeps, DecideKeeps, AnswerKeeps, DeleteKeeps DEF Step
<1>4. ASSUME NEW f \in File, NEW size \in Sizes, Write(f, size) PROVE KeptInv'
  BY <1>1, <1>4, WriteKeeps
<1>5. CASE UNCHANGED vars
  BY <1>1, <1>5 DEF vars, KeptInv
<1> QED
  BY <1>2, <1>3, <1>4, <1>5 DEF Next

LEMMA KeptInvariance == Spec => []KeptInv
<1>1. ASSUME Init PROVE KeptInv
  <2>1. \A s \in Cleaner : clean[s].pc = "idle"
    BY <1>1 DEF Init, Idle
  <2> QED
    BY <1>1, <2>1, InvInit DEF KeptInv
<1> QED
  BY <1>1, KeptNext, PTL DEF Spec

-----------------------------------------------------------------------------
(***************************************************************************)
(* As long as nothing is downloaded.                                       *)
(***************************************************************************)

\* What was read of a file stays true of it, also when it is gone.
Steady(c, dir) == /\ c.lru \in Lrus \union {TRUE}
                  /\ c.pc \in {"ask", "delete", "done"} => c.doomed \subseteq Doomed(c)
                  /\ \A f \in Known(c) : /\ c.info[f].size = dir[f].size
                                         /\ c.info[f].mtime = dir[f].mtime
                                         /\ dir[f].size > 0

\* A file that may go, by the ages and sizes in dir.
OnceIn(dir) == {f \in File \ Protected : dir[f].size > 0}
Spare(dir, f) ==
  \/ Today - dir[f].mtime > MaxAge
  \/ \E lru \in Lrus \union {TRUE} :
       SizeOf(dir, {g \in OnceIn(dir) : Before(dir, lru, g, f)})
         < SizeOf(dir, OnceIn(dir)) - Limit

SteadyInv == /\ CleanInv
             /\ \A f \in File : file[f].there => file[f].size > 0
             /\ writes = 0 =>
                  /\ \A s \in Cleaner : clean[s].pc # "idle" => Steady(clean[s], file)
                  /\ \A f \in OnceIn(file) : ~file[f].there => Spare(file, f)

\* The same sizes and times, whoever is there.
Alike(dir, now) ==
  \A f \in File : now[f].size = dir[f].size /\ now[f].mtime = dir[f].mtime

LEMMA SteadyAlike ==
  ASSUME NEW c, NEW dir, NEW now, Lawful(c), Steady(c, dir), Alike(dir, now)
  PROVE  Steady(c, now)
<1>1. Known(c) \subseteq File
  BY DEF Known, Lawful
<1> QED
  BY <1>1 DEF Steady, Alike

LEMMA SpareAlike ==
  ASSUME NEW dir, NEW now, Alike(dir, now), Sized(dir), NEW f \in File
  PROVE  OnceIn(now) = OnceIn(dir) /\ (Spare(dir, f) => Spare(now, f))
<1>1. OnceIn(now) = OnceIn(dir) /\ OnceIn(dir) \subseteq File /\ Sized(now)
  BY DEF OnceIn, Alike, Sized
<1>2. \A S \in SUBSET File : SizeOf(now, S) = SizeOf(dir, S)
  BY <1>1, SizeSame DEF Alike
<1>3. ASSUME NEW lru
      PROVE  {g \in OnceIn(now) : Before(now, lru, g, f)}
               = {g \in OnceIn(dir) : Before(dir, lru, g, f)}
  BY <1>1 DEF Before, Alike
<1>4. ASSUME NEW lru
      PROVE  /\ SizeOf(now, {g \in OnceIn(now) : Before(now, lru, g, f)})
                  = SizeOf(dir, {g \in OnceIn(dir) : Before(dir, lru, g, f)})
             /\ SizeOf(now, OnceIn(now)) = SizeOf(dir, OnceIn(dir))
  <2> DEFINE ahead == {g \in OnceIn(dir) : Before(dir, lru, g, f)}
  <2>1. ahead \in SUBSET File
    BY <1>1
  <2>2. {g \in OnceIn(now) : Before(now, lru, g, f)} = ahead
    BY <1>3
  <2> HIDE DEF ahead
  <2>3. SizeOf(now, ahead) = SizeOf(dir, ahead)
    BY <1>2, <2>1
  <2> QED
    BY <1>1, <1>2, <2>2, <2>3 DEF ahead
<1>5. now[f].mtime = dir[f].mtime
  BY DEF Alike
<1> QED
  BY <1>1, <1>4, <1>5 DEF Spare

\* What a cleaner removes may go: of the files it did not find, those before one that
\* is evicted only add to what was too much.
LEMMA DoomedSpare ==
  ASSUME NEW c \in Clean, Lawful(c), NEW dir, Steady(c, dir), Sized(dir),
         NEW f \in Doomed(c)
  PROVE  Spare(dir, f)
<1>1. Known(c) \subseteq OnceIn(dir) /\ OnceIn(dir) \subseteq File
  BY DEF Known, Lawful, Steady, OnceIn
<1>2. CASE f \in Old(c)
  BY <1>2 DEF Old, Steady, Spare
<1>3. CASE f \in Evicted(c)
  <2> DEFINE lru == c.lru
             ahead == {g \in Known(c) : Before(c.info, lru, g, f)}
             missing == OnceIn(dir) \ Known(c)
             before == {g \in OnceIn(dir) : Before(dir, lru, g, f)}
  <2>1. f \in Known(c) /\ FreedBefore(c, f) < Excess(c) - Limit
    BY <1>3 DEF Evicted
  <2>2. \A S : SizeOf(dir, S) \in Nat
    BY SizeType
  <2>3. Sized(c.info) /\ \A g \in Known(c) : c.info[g].size = dir[g].size
    BY InfoType DEF Steady
  <2>4. FreedBefore(c, f) = SizeOf(dir, ahead)
    <3>1. ahead \subseteq Known(c) /\ FreedBefore(c, f) = SizeOf(c.info, ahead)
      BY DEF FreedBefore
    <3> HIDE DEF ahead
    <3> QED
      BY <2>3, <3>1, SizeSame
  <2>5. Excess(c) = SizeOf(dir, Known(c))
    BY <2>3, SizeSame DEF Excess
  <2>6. SizeOf(dir, OnceIn(dir)) = SizeOf(dir, Known(c)) + SizeOf(dir, missing)
    <3>1. Known(c) \union missing = OnceIn(dir) /\ Known(c) \intersect missing = {}
      BY <1>1
    <3> HIDE DEF missing
    <3> QED
      BY <3>1, SizeUnion
  <2>7. before \subseteq ahead \union missing
    <3>1. ASSUME NEW g \in before, g \in Known(c) PROVE g \in ahead
      BY <2>1, <3>1 DEF Before, Steady
    <3> QED
      BY <3>1
  <2>8. SizeOf(dir, before) <= SizeOf(dir, ahead) + SizeOf(dir, missing)
    <3>1. ahead \intersect missing = {}
      OBVIOUS
    <3> HIDE DEF ahead, missing, before
    <3>2. SizeOf(dir, before) <= SizeOf(dir, ahead \union missing)
      BY <2>7, SizeMonotone DEF Sized
    <3>3. SizeOf(dir, ahead \union missing) = SizeOf(dir, ahead) + SizeOf(dir, missing)
      BY <3>1, SizeUnion
    <3> QED
      BY <3>2, <3>3
  <2>9. SizeOf(dir, before) < SizeOf(dir, OnceIn(dir)) - Limit
    <3> HIDE DEF ahead, missing, before
    <3> QED
      BY <2>1, <2>2, <2>4, <2>5, <2>6, <2>8, CacheAssumption
  <2>10. lru \in Lrus \union {TRUE}
    BY DEF Steady
  <2> QED
    BY <2>9, <2>10 DEF Spare
<1> QED
  BY <1>2, <1>3 DEF Doomed

\* What a step of a cleaner has to show.
LEMMA SteadyStep ==
  ASSUME SteadyInv, CleanInv', NEW s \in Cleaner, NEW c,
         clean' = [clean EXCEPT ![s] = c],
         writes' = writes,
         writes = 0 => Steady(c, file'),
         Alike(file, file'),
         \A f \in File : file'[f].there => file[f].there,
         writes = 0 => \A f \in OnceIn(file) :
           file[f].there /\ ~file'[f].there => Spare(file, f)
  PROVE  SteadyInv'
<1>1. Sized(file) /\ Sized(file')
  BY DEF SteadyInv, CleanInv, TypeOK, FileState, Sized
<1>2. ASSUME writes' = 0, NEW t \in Cleaner, clean'[t].pc # "idle"
      PROVE  Steady(clean'[t], file')
  <2>1. CASE t = s
    BY <1>2, <2>1 DEF SteadyInv, CleanInv, TypeOK
  <2>2. CASE t # s
    <3>1. clean'[t] = clean[t]
      BY <2>2 DEF SteadyInv, CleanInv, TypeOK
    <3>2. Lawful(clean[t]) /\ Steady(clean[t], file)
      BY <1>2, <3>1 DEF SteadyInv, CleanInv
    <3> QED
      BY <3>1, <3>2, SteadyAlike
  <2> QED
    BY <2>1, <2>2
<1>3. ASSUME writes' = 0, NEW f \in OnceIn(file'), ~file'[f].there
      PROVE  Spare(file', f)
  <2>1. f \in File
    BY DEF OnceIn
  <2>2. OnceIn(file') = OnceIn(file)
    BY <1>1, <2>1, SpareAlike
  <2>3. Spare(file, f)
    BY <1>3, <2>2 DEF SteadyInv
  <2> QED
    BY <1>1, <2>1, <2>3, SpareAlike
<1>4. \A f \in File : file'[f].there => file'[f].size > 0
  BY DEF SteadyInv, Alike
<1> QED
  BY <1>2, <1>3, <1>4 DEF SteadyInv

\* A step that changes no file.
LEMMA SteadyStill ==
  ASSUME SteadyInv, CleanInv', NEW s \in Cleaner, NEW c,
         clean' = [clean EXCEPT ![s] = c],
         UNCHANGED <<file, writes>>,
         writes = 0 => Steady(c, file)
  PROVE  SteadyInv'
<1>1. Alike(file, file')
  BY DEF Alike
<1> QED
  BY <1>1, SteadyStep

LEMMA BeginSteady ==
  ASSUME SteadyInv, CleanInv', NEW s \in Cleaner, NEW lru \in Lrus \union {TRUE},
         NEW asks \in BOOLEAN, Begin(s, lru, asks)
  PROVE  SteadyInv'
<1> DEFINE c == Started(lru, asks)
<1>1. /\ c.listed = Listed /\ c.doomed = {} /\ c.lru = lru
      /\ \A f \in File : c.info[f] = NA
  BY DEF Started
<1>2. clean' = [clean EXCEPT ![s] = c] /\ UNCHANGED <<file, writes>>
  BY DEF Begin
<1> HIDE DEF c
<1>3. Known(c) = {}
  BY <1>1 DEF Known, Gone, Listed, NA
<1>4. Steady(c, file)
  BY <1>1, <1>3 DEF Steady
<1> QED
  BY <1>2, <1>4, SteadyStill

LEMMA StatSteady ==
  ASSUME SteadyInv, CleanInv', NEW s \in Cleaner, NEW f \in File, Stat(s, f)
  PROVE  SteadyInv'
<1> DEFINE c == clean[s]
           d == clean'[s]
<1>1. c \in Clean /\ Lawful(c) /\ c.pc = "stat" /\ UNCHANGED <<file, writes>>
  BY ActiveClean DEF Stat, At, SteadyInv
<1>2. clean \in [Cleaner -> Clean \union {Idle}] /\ DOMAIN c.info = File
  BY <1>1 DEF SteadyInv, CleanInv, TypeOK, Clean
<1>3. /\ clean' = [clean EXCEPT ![s] = d]
      /\ d.listed = c.listed /\ d.lru = c.lru
      /\ d.pc \in {"decide", "stat"}
  BY <1>1, <1>2 DEF Stat, Clean
<1>4. d.info = [c.info EXCEPT ![f] =
                  IF file[f].there
                  THEN [na |-> FALSE, size |-> file[f].size, mtime |-> file[f].mtime] ELSE NA]
  BY <1>1, <1>2 DEF Stat, Clean
<1>5. ASSUME writes = 0 PROVE Steady(d, file)
  <2>1. Steady(c, file)
    BY <1>1, <1>5 DEF SteadyInv
  <2>2. ASSUME NEW g \in Known(d)
        PROVE  /\ d.info[g].size = file[g].size /\ d.info[g].mtime = file[g].mtime
               /\ file[g].size > 0
    <3>1. g \in c.listed /\ ~d.info[g].na /\ g \in File
      BY <1>1, <1>3 DEF Known, Gone, Lawful
    <3>2. CASE g = f
      <4>1. file[f].there
        BY <1>2, <1>4, <3>1, <3>2 DEF NA
      <4>2. d.info[f] = [na |-> FALSE, size |-> file[f].size, mtime |-> file[f].mtime]
        BY <1>2, <1>4, <4>1
      <4> QED
        BY <3>2, <4>1, <4>2 DEF SteadyInv
    <3>3. CASE g # f
      <4>1. d.info[g] = c.info[g]
        BY <1>2, <1>4, <3>1, <3>3
      <4>2. g \in Known(c)
        BY <3>1, <4>1 DEF Known, Gone
      <4> QED
        BY <2>1, <4>1, <4>2 DEF Steady
    <3> QED
      BY <3>2, <3>3
  <2> QED
    BY <1>3, <2>1, <2>2 DEF Steady
<1> HIDE DEF d
<1> QED
  BY <1>1, <1>3, <1>5, SteadyStill

\* Deciding, answering and returning: nothing new is read, and only what is decided
\* is to be deleted.
LEMMA QuietSteady ==
  ASSUME SteadyInv, CleanInv', NEW s \in Cleaner,
         Decide(s) \/ Consent(s) \/ Refuse(s) \/ Return(s)
  PROVE  SteadyInv'
<1> DEFINE c == clean[s]
           d == clean'[s]
<1>1. /\ c \in Clean /\ Lawful(c) /\ UNCHANGED <<file, writes>>
      /\ c.pc \in {"decide", "ask", "delete"}
  BY ActiveClean DEF Decide, Consent, Refuse, Return, At, SteadyInv
<1>2. clean \in [Cleaner -> Clean \union {Idle}]
  BY DEF SteadyInv, CleanInv, TypeOK
<1>3. PICK q : q = Doomed(c)
  OBVIOUS
<1>4. /\ clean' = [clean EXCEPT ![s] = d]
      /\ d.listed = c.listed /\ d.info = c.info /\ d.lru = c.lru
      /\ d.doomed = q \/ (d.doomed = c.doomed /\ c.pc \in {"ask", "delete"})
  <2>1. CASE Decide(s)
    BY <1>1, <1>2, <1>3, <2>1 DEF Decide, Clean
  <2>2. CASE Consent(s)
    BY <1>1, <1>2, <2>2 DEF Consent, Clean, At
  <2>3. CASE Refuse(s)
    BY <1>1, <1>2, <2>3 DEF Refuse, Clean, At
  <2>4. CASE Return(s)
    BY <1>1, <1>2, <2>4 DEF Return, Clean, At
  <2> QED
    BY <2>1, <2>2, <2>3, <2>4
<1>5. ASSUME writes = 0 PROVE Steady(d, file)
  <2>1. Steady(c, file)
    BY <1>1, <1>5 DEF SteadyInv
  <2>2. Doomed(d) = Doomed(c) /\ Known(d) = Known(c)
    BY <1>4, DoomedSame
  <2> QED
    BY <1>3, <1>4, <2>1, <2>2 DEF Steady
<1> HIDE DEF d
<1> QED
  BY <1>1, <1>4, <1>5, SteadyStill

LEMMA DeleteSteady ==
  ASSUME SteadyInv, CleanInv', NEW s \in Cleaner, NEW f \in File,
         Delete(s, f) \/ DeleteFails(s, f)
  PROVE  SteadyInv'
<1> DEFINE c == clean[s]
           d == clean'[s]
<1>1. /\ c \in Clean /\ Lawful(c) /\ c.pc = "delete" /\ f \in c.doomed
      /\ writes' = writes
  BY ActiveClean DEF Delete, DeleteFails, IsNext, At, SteadyInv
<1>2. clean \in [Cleaner -> Clean \union {Idle}] /\ file \in [File -> FileState]
  BY DEF SteadyInv, CleanInv, TypeOK
<1>3. /\ Alike(file, file')
      /\ \A g \in File : file'[g].there => file[g].there
      /\ \A g \in File \ {f} : file'[g] = file[g]
  BY <1>2 DEF Delete, DeleteFails, FileState, Alike
<1>4. /\ clean' = [clean EXCEPT ![s] = d]
      /\ d.listed = c.listed /\ d.info = c.info /\ d.lru = c.lru
      /\ d.doomed = c.doomed \ {f}
  BY <1>1, <1>2 DEF Delete, DeleteFails, Clean
<1>5. ASSUME writes = 0 PROVE Steady(c, file) /\ Steady(d, file')
  <2>1. Steady(c, file)
    BY <1>1, <1>5 DEF SteadyInv
  <2>2. Steady(c, file')
    BY <1>1, <1>3, <2>1, SteadyAlike
  <2>3. Doomed(d) = Doomed(c) /\ Known(d) = Known(c)
    BY <1>4, DoomedSame
  <2> QED
    BY <1>1, <1>4, <2>1, <2>2, <2>3 DEF Steady
<1>6. ASSUME writes = 0 PROVE Spare(file, f)
  <2>1. f \in Doomed(c)
    BY <1>1, <1>5, <1>6 DEF Steady
  <2>2. Sized(file)
    BY <1>2 DEF FileState, Sized
  <2> QED
    BY <1>1, <1>5, <1>6, <2>1, <2>2, DoomedSpare
<1>7. writes = 0 => \A g \in OnceIn(file) : file[g].there /\ ~file'[g].there => Spare(file, g)
  BY <1>3, <1>6 DEF OnceIn
<1> HIDE DEF d
<1> QED
  BY <1>1, <1>3, <1>4, <1>5, <1>7, SteadyStep

LEMMA WriteSteady ==
  ASSUME SteadyInv, CleanInv', NEW f \in File, NEW size \in Sizes, Write(f, size)
  PROVE  SteadyInv'
<1>1. writes' # 0
  BY DEF Write, SteadyInv, CleanInv, TypeOK
<1>2. \A g \in File : file'[g].there => file'[g].size > 0
  BY CacheAssumption DEF Write, SteadyInv, CleanInv, TypeOK
<1> QED
  BY <1>1, <1>2 DEF SteadyInv

LEMMA SteadyNext == SteadyInv /\ [Next]_vars => SteadyInv'
<1> SUFFICES ASSUME SteadyInv, [Next]_vars PROVE SteadyInv'
  OBVIOUS
<1>1. CleanInv'
  BY InvNext DEF SteadyInv
<1>2. ASSUME NEW s \in Cleaner, Start(s) PROVE SteadyInv'
  <2>1. PICK lru \in Lrus \union {TRUE}, asks \in BOOLEAN : Begin(s, lru, asks)
    BY <1>2 DEF Start, Attach
  <2> QED
    BY <1>1, <2>1, BeginSteady
<1>3. ASSUME NEW s \in Cleaner, Step(s) PROVE SteadyInv'
  BY <1>1, <1>3, StatSteady, QuietSteady, DeleteSteady DEF Step
<1>4. ASSUME NEW f \in File, NEW size \in Sizes, Write(f, size) PROVE SteadyInv'
  BY <1>1, <1>4, WriteSteady
<1>5. CASE UNCHANGED vars
  BY <1>1, <1>5 DEF vars, SteadyInv
<1> QED
  BY <1>2, <1>3, <1>4, <1>5 DEF Next

LEMMA SteadyInvariance == Spec => []SteadyInv
<1>1. ASSUME Init PROVE SteadyInv
  <2>1. \A s \in Cleaner : clean[s].pc = "idle"
    BY <1>1 DEF Init, Idle
  <2>2. ASSUME NEW f \in File
        PROVE  IF file[f].there THEN file[f].size > 0 ELSE file[f].size = 0
    <3>1. file[f] = Absent \/ file[f] \in [there : {TRUE}, size : Sizes, mtime : 0..Today]
      BY <1>1 DEF Init
    <3>2. CASE file[f] = Absent
      BY <3>2 DEF Absent
    <3>3. CASE file[f] \in [there : {TRUE}, size : Sizes, mtime : 0..Today]
      <4>1. file[f].there = TRUE /\ file[f].size \in Nat \ {0}
        BY <3>3, CacheAssumption
      <4> QED
        BY <4>1
    <3> QED
      BY <3>1, <3>2, <3>3
  <2>3. \A f \in OnceIn(file) : file[f].there
    BY <2>2 DEF OnceIn
  <2> QED
    BY <1>1, <2>1, <2>2, <2>3, InvInit DEF SteadyInv
<1> QED
  BY <1>1, SteadyNext, PTL DEF Spec

-----------------------------------------------------------------------------
\* The types of the cache directory and of every clean in progress
\* (edge_clean_cache).
THEOREM TypeCorrect == Spec => []TypeOK
<1>1. CleanInv => TypeOK
  BY DEF CleanInv
<1> QED
  BY <1>1, Invariance, PTL

\* No step of any cleaner removes the CUDA backend or the checksum store, whatever
\* is downloaded or deleted between its listing and its deletions.
THEOREM ProtectedNeverRemoved == Spec => ProtectedStay
<1> DEFINE Stay == \A f \in Protected : file[f].there => file'[f].there
<1>1. ASSUME CleanInv, NEW s \in Cleaner, NEW g \in File, Delete(s, g)
      PROVE  Stay
  <2>1. Lawful(clean[s]) /\ g \in clean[s].doomed
    BY <1>1, ActiveClean DEF Delete, At, IsNext
  <2>2. g \notin Protected
    BY <2>1 DEF Lawful
  <2> QED
    BY <1>1, <2>2, CacheAssumption DEF Delete, CleanInv, TypeOK
<1>2. ASSUME NEW s \in Cleaner, Start(s)
      PROVE  Stay
  BY <1>2 DEF Start, Attach, Begin
<1>3. ASSUME CleanInv, NEW s \in Cleaner, Step(s)
      PROVE  Stay
  <2>1. ASSUME NEW f \in File, Stat(s, f) \/ DeleteFails(s, f) PROVE Stay
    BY <2>1 DEF Stat, DeleteFails
  <2>2. CASE Decide(s) \/ Consent(s) \/ Refuse(s) \/ Return(s)
    BY <2>2 DEF Decide, Consent, Refuse, Return
  <2> HIDE DEF Stay
  <2> QED
    BY <1>1, <1>3, <2>1, <2>2 DEF Step
<1>4. ASSUME CleanInv, NEW g \in File, NEW size \in Sizes, Write(g, size)
      PROVE  Stay
  BY <1>4, CacheAssumption DEF Write, CleanInv, TypeOK, FileState
<1>5. CleanInv /\ [Next]_vars => [Stay]_vars
  <2> HIDE DEF Stay
  <2> QED
    BY <1>2, <1>3, <1>4 DEF Next
<1> QED
  BY <1>5, Invariance, PTL DEF Spec, ProtectedStay

\* A clean that went through leaves at most the limit of what it found, for any
\* files, limits and other cleaners (edge_clean_cache and the clean at attach).
THEOREM CleanGetsUnderLimit == Spec => []UnderLimitAfterClean
<1>1. ASSUME KeptInv, NEW s \in Cleaner, At(s, "done"), clean[s].lru, ~clean[s].missed
      PROVE  SizeOf(file, Listed \ clean[s].fresh) <= Limit
  <2> DEFINE c == clean[s]
             left == Listed \ c.fresh
             stay == Known(c) \ Evicted(c)
  <2>1. c \in Clean /\ Lawful(c) /\ Kept(c, file)
    BY <1>1, ActiveClean DEF At, KeptInv
  <2>2. ASSUME NEW f \in left PROVE f \in stay /\ file[f].size <= c.info[f].size
    <3>1. f \in c.listed
      BY <2>1 DEF Kept, Seen, Listed
    <3>2. ~c.info[f].na /\ c.info[f].size = file[f].size
      BY <1>1, <2>1, <3>1 DEF At, Kept, Read, Listed
    <3>3. f \in Known(c)
      BY <3>1, <3>2 DEF Known, Gone
    <3>4. f \notin Doomed(c)
      BY <1>1, <2>1 DEF At, Kept, Carried, Listed
    <3>5. file[f].size \in Nat
      BY <1>1, <2>2 DEF KeptInv, CleanInv, TypeOK, FileState, Listed
    <3> QED
      BY <3>2, <3>3, <3>4, <3>5 DEF Doomed
  <2>3. Sized(c.info) /\ Sized(file)
    BY <1>1, <2>1, InfoType DEF KeptInv, CleanInv, TypeOK, FileState, Sized
  <2>4. SizeOf(c.info, stay) <= Limit
    BY <1>1, <2>1, KeptFits
  <2>5. SizeOf(file, left) <= SizeOf(c.info, stay)
    <3> HIDE DEF left, stay, c
    <3> QED
      BY <2>2, <2>3, SizeMonotone
  <2> HIDE DEF stay
  <2> QED
    BY <2>3, <2>4, <2>5, SizeType, CacheAssumption
<1>2. KeptInv => UnderLimitAfterClean
  BY <1>1 DEF UnderLimitAfterClean
<1> QED
  BY <1>2, KeptInvariance, PTL

\* While nothing is downloaded, any number of cleaners delete no file that one alone
\* need not have deleted: it was too old, or among those that had to go at the start
\* (edge_clean_cache in several sessions).
THEOREM CleanersShareTheExcess == Spec => []EvictsOnlyExcess
<1>1. SteadyInv => EvictsOnlyExcess
  BY DEF SteadyInv, EvictsOnlyExcess, Once, OnceIn, Spare
<1> QED
  BY <1>1, SteadyInvariance, PTL

=============================================================================
