-------------------------- MODULE DocumentIndex_proofs --------------------------
(***************************************************************************)
(* Proofs about the two halves of edge_index_documents.                    *)
(*                                                                         *)
(* ChunkText, for every text, chunk size and overlap: nothing is lost,     *)
(* chunks fit, the overlap is honoured, and the number of chunks is        *)
(* bounded by the length of the text.                                      *)
(*                                                                         *)
(* DocumentIndex, for every number of documents and chunks, every batch    *)
(* size and every n_ctx and n_batch: an index which was built has its      *)
(* three lists aligned.  RowsAligned speaks of the finished index only; it *)
(* becomes inductive once the batch under way is described too: where it   *)
(* starts, how many rows it has, and which chunks these embed.             *)
(***************************************************************************)
EXTENDS DocumentIndex, ChunkText, FiniteSetTheorems, SequenceTheorems, TLAPS

-----------------------------------------------------------------------------
(***************************************************************************)
(* Splitting one document: the inductive invariant.                        *)
(***************************************************************************)

\* Where the loop stands: the next window starts inside the text, not past the
\* end of the last one, and goes back over it by no more than the overlap.
Stands == /\ pos <= end + 1
          /\ end <= TextLen
          /\ done => end = TextLen
          /\ ~done => end < pos + overlap \/ end = 0
          /\ ~done => end + 1 < pos + size
          /\ ~done => Len(pieces) < pos
          /\ ~done => pos <= TextLen \/ end = 0
          /\ ~done /\ end = 0 => pieces = <<>> /\ pos = 1

Covered == \A p \in Ink : p <= end => \E i \in DOMAIN pieces : p \in pieces[i]

\* The end of a window may lie before the end of an earlier one, but not before
\* the end of the last chunk.
Behind == ~done /\ pieces # <<>> => \A p \in pieces[Len(pieces)] : p <= end

\* What the next window shares with the text already cut is in the last chunk.
Shared == ~done => /\ \A i \in DOMAIN pieces : pieces[i] # {}
                   /\ \A p \in Ink : pos <= p /\ p <= end
                        => pieces # <<>> /\ p \in pieces[Len(pieces)]

ChunkInv == /\ ChunkingTypeOK
            /\ Stands
            /\ Covered
            /\ Behind
            /\ Shared
            /\ ChunkFits
            /\ OverlapHonoured
            /\ ChunksBounded

-----------------------------------------------------------------------------
(* One window                                                              *)

\* Either way of cutting emits a window that starts at pos, stays in the text,
\* is no longer than chunk_size, and has ink if it ends before the last one did.
LEMMA CutWindow ==
  ASSUME ChunkingTypeOK, Stands, CutAtSentence \/ CutHard
  PROVE  /\ Looping
         /\ \E b \in pos..TextLen :
              /\ b < pos + size
              /\ end <= b \/ \E p \in Ink : pos <= p /\ p <= b
              /\ Emit(b)
<1> USE DEF ChunkingTypeOK
<1>1. /\ Looping /\ ~done /\ TextLen \in Nat /\ pos \in Nat \ {0}
      /\ size \in Nat \ {0} /\ end \in Nat /\ pos <= TextLen
  BY DEF CutAtSentence, CutHard, Looping, TextLen
<1>2. FullEnd \in pos..TextLen /\ FullEnd < pos + size
  BY <1>1 DEF FullEnd
<1>3. CASE CutAtSentence
  <2>1. PICK k \in 1..size : Usable(k) /\ Emit(BreakEnd(k))
    BY <1>3 DEF CutAtSentence
  <2>2. pos + k <= FullEnd /\ k \in Nat /\ k > 0 /\ text[pos + k - 1] = "stop"
    BY <2>1 DEF Usable, LastBreak, Breaks
  <2>3. BreakEnd(k) \in pos..TextLen /\ BreakEnd(k) < pos + size
    BY <1>1, <1>2, <2>2 DEF BreakEnd
  <2>4. pos + k - 1 \in Ink /\ pos <= pos + k - 1 /\ pos + k - 1 <= BreakEnd(k)
    BY <1>1, <1>2, <2>2 DEF BreakEnd, Ink
  <2>5. QED
    BY <1>1, <2>1, <2>3, <2>4
<1>4. CASE CutHard
  <2>1. end <= FullEnd
    BY <1>1 DEF FullEnd, Stands
  <2>2. QED
    BY <1>1, <1>2, <1>4, <2>1 DEF CutHard
<1>5. QED
  BY <1>3, <1>4

\* Trimming keeps the ink of a window and adds nothing outside it.
LEMMA TrimmedWindow ==
  ASSUME ChunkingTypeOK, NEW a \in Nat, NEW b \in Nat
  PROVE  /\ Trimmed(a, b) \subseteq a..b
         /\ \A p \in Ink : a <= p /\ p <= b => p \in Trimmed(a, b)
         /\ \A q \in Trimmed(a, b) : \E p \in Ink : a <= p /\ p <= q
  BY DEF Trimmed, Ink, TextLen, ChunkingTypeOK

LEMMA KeptChunks ==
  ASSUME NEW cs \in Seq(SUBSET Nat), NEW c \in SUBSET Nat
  PROVE  /\ Kept(cs, c) \in Seq(SUBSET Nat)
         /\ \A i \in DOMAIN cs : i \in DOMAIN Kept(cs, c) /\ Kept(cs, c)[i] = cs[i]
         /\ c # {} => /\ Len(Kept(cs, c)) = Len(cs) + 1
                      /\ Kept(cs, c)[Len(cs) + 1] = c
                      /\ DOMAIN Kept(cs, c) = (DOMAIN cs) \union {Len(cs) + 1}
         /\ c = {} => Kept(cs, c) = cs
<1>1. CASE c = {}
  BY <1>1 DEF Kept
<1>2. CASE c # {}
  <2>1. Kept(cs, c) = Append(cs, c)
    BY <1>2 DEF Kept
  <2>2. /\ Append(cs, c) \in Seq(SUBSET Nat)
        /\ Len(Append(cs, c)) = Len(cs) + 1
        /\ \A i \in 1..Len(cs) : Append(cs, c)[i] = cs[i]
        /\ Append(cs, c)[Len(cs) + 1] = c
    BY AppendProperties
  <2>3. /\ Len(cs) \in Nat /\ DOMAIN cs = 1..Len(cs)
        /\ DOMAIN Append(cs, c) = 1..(Len(cs) + 1)
    BY <2>2, LenProperties
  <2>4. Kept(cs, c) \in Seq(SUBSET Nat)
    BY <2>1, <2>2
  <2>5. \A i \in DOMAIN cs : i \in DOMAIN Kept(cs, c) /\ Kept(cs, c)[i] = cs[i]
    BY <2>1, <2>2, <2>3
  <2>6. /\ Len(Kept(cs, c)) = Len(cs) + 1
        /\ Kept(cs, c)[Len(cs) + 1] = c
        /\ DOMAIN Kept(cs, c) = (DOMAIN cs) \union {Len(cs) + 1}
    BY <2>1, <2>2, <2>3
  <2>7. QED
    BY <1>2, <2>4, <2>5, <2>6
<1>3. QED
  BY <1>1, <1>2

\* Two chunks that share only positions from a to b share at most b - a + 1.
LEMMA SharedCardinality ==
  ASSUME NEW a \in Nat, NEW b \in Nat, NEW n \in Nat, NEW S,
         S \subseteq a..b, b < a + n
  PROVE  Cardinality(S) <= n
<1>1. IsFiniteSet(a..b) /\ Cardinality(a..b) = IF a > b THEN 0 ELSE b - a + 1
  BY FS_Interval
<1>2. IsFiniteSet(S) /\ Cardinality(S) <= Cardinality(a..b)
  BY <1>1, FS_Subset
<1>3. Cardinality(S) \in Nat /\ Cardinality(a..b) \in Nat
  BY <1>1, <1>2, FS_CardinalityType
<1>4. QED
  BY <1>1, <1>2, <1>3

-----------------------------------------------------------------------------
(* The invariant is inductive                                              *)

LEMMA ChunkingInitInv == ChunkingInit => ChunkInv
<1> SUFFICES ASSUME ChunkingInit PROVE ChunkInv
  OBVIOUS
<1> USE DEF ChunkingInit
<1>1. ChunkingTypeOK
  <2>1. text \in Seq(Char)
    BY TextAssumption
  <2>2. size \in Nat \ {0} /\ overlap \in Nat
    BY SizeAssumption
  <2>3. pieces \in Seq(SUBSET Nat)
    BY EmptySeq
  <2>4. done \in BOOLEAN
    BY Zenon
  <2>5. pos \in Nat \ {0} /\ end \in Nat
    OBVIOUS
  <2>6. QED
    BY <2>1, <2>2, <2>3, <2>4, <2>5, Zenon DEF ChunkingTypeOK
<1>2. TextLen \in Nat
  BY <1>1 DEF TextLen, ChunkingTypeOK
<1>3. Stands
  BY <1>1, <1>2 DEF Stands, ChunkingTypeOK
<1>4. Covered /\ Behind /\ Shared
  BY <1>1 DEF Covered, Behind, Shared, Ink, ChunkingTypeOK
<1>5. ChunkFits /\ OverlapHonoured /\ ChunksBounded
  BY DEF ChunkFits, OverlapHonoured, ChunksBounded
<1>6. QED
  BY <1>1, <1>3, <1>4, <1>5 DEF ChunkInv

\* The text that fits in one chunk.
LEMMA WholeInv ==
  ASSUME ChunkInv, Whole
  PROVE  ChunkInv'
<1> USE DEF Whole
<1>1. ChunkingTypeOK /\ TextLen \in Nat /\ TextLen' = TextLen /\ Ink' = Ink /\ size' = size
  BY DEF ChunkInv, ChunkingTypeOK, TextLen, Ink, args
<1>2. /\ pieces' = <<1..TextLen>> /\ DOMAIN pieces' = {1} /\ Len(pieces') = 1
      /\ pieces'[1] = 1..TextLen
  OBVIOUS
<1>3. ChunkingTypeOK'
  <2>1. pieces' \in Seq(SUBSET Nat)
    BY <1>1, <1>2
  <2>2. QED
    BY <1>1, <2>1 DEF ChunkingTypeOK, args
<1>4. Stands'
  BY <1>1, <1>2 DEF Stands, ChunkInv, ChunkingTypeOK, args
<1>5. Covered' /\ Behind' /\ Shared'
  BY <1>1, <1>2 DEF Covered, Behind, Shared, Ink
<1>6. ChunkFits'
  BY <1>1, <1>2 DEF ChunkFits, ChunkingTypeOK
<1>7. OverlapHonoured' /\ ChunksBounded'
  BY <1>2 DEF OverlapHonoured, ChunksBounded
<1>8. QED
  BY <1>3, <1>4, <1>5, <1>6, <1>7 DEF ChunkInv

\* One window of the loop.
LEMMA EmitInv ==
  ASSUME ChunkInv, Looping, NEW b \in pos..TextLen, b < pos + size,
         end <= b \/ \E p \in Ink : pos <= p /\ p <= b,
         Emit(b)
  PROVE  ChunkInv'
<1> DEFINE c == Trimmed(pos, b)
<1>1. /\ ChunkingTypeOK /\ Stands /\ Covered /\ Behind /\ Shared
      /\ ChunkFits /\ OverlapHonoured /\ ChunksBounded
  BY DEF ChunkInv
<1>2. /\ TextLen \in Nat /\ pos \in Nat \ {0} /\ b \in Nat /\ end \in Nat
      /\ size \in Nat \ {0} /\ overlap \in Nat /\ pos <= b /\ b <= TextLen
  BY <1>1 DEF ChunkingTypeOK, TextLen
<1>3. /\ text' = text /\ size' = size /\ overlap' = overlap
      /\ TextLen' = TextLen /\ Ink' = Ink
  BY DEF Emit, args, TextLen, Ink
<1>4. /\ ~done /\ pos <= TextLen
      /\ pieces' = Kept(pieces, c) /\ end' = b
      /\ done' \in BOOLEAN
      /\ done' => b = TextLen /\ pos' = pos
      /\ ~done' => b < TextLen /\ pos' = NextPos(b)
  <2>1. ~done /\ pos <= TextLen
    BY Zenon DEF Looping
  <2>2. pieces' = Kept(pieces, c) /\ end' = b
    BY DEF Emit
  <2>3. CASE b >= TextLen
    <3>1. done' = TRUE /\ pos' = pos
      BY <2>3, Zenon DEF Emit
    <3>2. done' \in BOOLEAN /\ done'
      BY <3>1, Zenon
    <3>3. QED
      BY <1>2, <2>1, <2>2, <2>3, <3>1, <3>2
  <2>4. CASE ~(b >= TextLen)
    <3>1. done' = FALSE /\ pos' = NextPos(b)
      BY <2>4, Zenon DEF Emit
    <3>2. done' \in BOOLEAN /\ ~done'
      BY <3>1, Zenon
    <3>3. b < TextLen
      BY <1>2, <2>4
    <3>4. QED
      BY <2>1, <2>2, <3>1, <3>2, <3>3, Zenon
  <2>5. QED
    BY <2>3, <2>4
<1>5. /\ c \subseteq pos..b
      /\ \A p \in Ink : pos <= p /\ p <= b => p \in c
      /\ \A q \in c : \E p \in Ink : pos <= p /\ p <= q
  BY <1>1, <1>2, TrimmedWindow
<1>6. c \in SUBSET Nat
  BY <1>2, <1>5
<1>7. pieces \in Seq(SUBSET Nat)
  BY <1>1 DEF ChunkingTypeOK
<1> HIDE DEF c
<1>8. /\ pieces' \in Seq(SUBSET Nat)
      /\ \A i \in DOMAIN pieces : i \in DOMAIN pieces' /\ pieces'[i] = pieces[i]
      /\ c # {} => /\ Len(pieces') = Len(pieces) + 1
                   /\ pieces'[Len(pieces) + 1] = c
                   /\ DOMAIN pieces' = (DOMAIN pieces) \union {Len(pieces) + 1}
      /\ c = {} => pieces' = pieces
  BY <1>4, <1>6, <1>7, KeptChunks
<1>9. Len(pieces) \in Nat /\ DOMAIN pieces = 1..Len(pieces)
  BY <1>7
<1>10. ~done' => /\ pos' \in Nat /\ pos' > pos /\ pos' <= b + 1
                 /\ b < pos' + overlap
  BY <1>2, <1>4 DEF NextPos
<1>11. ChunkingTypeOK'
  BY <1>1, <1>2, <1>3, <1>4, <1>8, <1>10 DEF ChunkingTypeOK
<1>12. Len(pieces') <= Len(pieces) + 1
  BY <1>8, <1>9
<1>13. Stands'
  BY <1>1, <1>2, <1>3, <1>4, <1>8, <1>9, <1>10, <1>12 DEF Stands
<1>14. Covered'
  <2> SUFFICES ASSUME NEW p \in Ink, p <= b
               PROVE  \E i \in DOMAIN pieces' : p \in pieces'[i]
    BY <1>3, <1>4 DEF Covered
  <2>1. p \in Nat
    BY DEF Ink
  <2>2. CASE p < pos
    <3>1. p <= end
      BY <1>1, <1>2, <2>1, <2>2 DEF Stands
    <3>2. PICK i \in DOMAIN pieces : p \in pieces[i]
      BY <1>1, <3>1 DEF Covered
    <3>3. QED
      BY <1>8, <3>2
  <2>3. CASE pos <= p
    BY <1>5, <1>8, <2>3
  <2>4. QED
    BY <1>2, <2>1, <2>2, <2>3
<1>15. Behind'
  <2> SUFFICES ASSUME ~done', pieces' # <<>>, NEW p \in pieces'[Len(pieces')]
               PROVE  p <= b
    BY <1>4 DEF Behind
  <2>1. CASE c = {}
    <3>1. end <= b
      BY <1>5, <2>1
    <3>2. pieces # <<>> /\ p \in pieces[Len(pieces)] /\ p <= end
      BY <1>1, <1>4, <1>8, <2>1 DEF Behind
    <3>3. Len(pieces) \in DOMAIN pieces /\ p \in Nat
      BY <1>7, <3>2
    <3>4. QED
      BY <1>2, <3>1, <3>2, <3>3
  <2>2. CASE c # {}
    <3>1. p \in c
      BY <1>8, <1>9, <2>2
    <3>2. QED
      BY <1>2, <1>5, <3>1
  <2>3. QED
    BY <2>1, <2>2
<1>16. Shared'
  <2> SUFFICES ASSUME ~done' PROVE Shared'
    BY <1>4 DEF Shared
  <2>1. \A i \in DOMAIN pieces' : pieces'[i] # {}
    BY <1>1, <1>4, <1>8 DEF Shared
  <2>2. ASSUME NEW p \in Ink, pos' <= p, p <= b
        PROVE  pieces' # <<>> /\ p \in pieces'[Len(pieces')]
    <3>1. p \in Nat /\ p \in c
      BY <1>2, <1>5, <1>10, <2>2 DEF Ink
    <3>2. QED
      BY <1>8, <1>9, <3>1
  <2>3. QED
    BY <1>3, <1>4, <2>1, <2>2 DEF Shared
<1>17. ChunkFits'
  <2> SUFFICES ASSUME NEW i \in DOMAIN pieces', NEW p \in pieces'[i], NEW q \in pieces'[i]
               PROVE  q < p + size
    BY <1>3 DEF ChunkFits
  <2>1. CASE i \in DOMAIN pieces
    BY <1>1, <1>8, <2>1 DEF ChunkFits
  <2>2. CASE i \notin DOMAIN pieces
    <3>1. c # {} /\ i = Len(pieces) + 1
      BY <1>8, <2>2
    <3>2. p \in pos..b /\ q \in pos..b
      BY <1>5, <1>8, <3>1
    <3>3. QED
      BY <1>2, <3>2
  <2>3. QED
    BY <2>1, <2>2
<1>18. OverlapHonoured'
  <2> SUFFICES ASSUME NEW i \in DOMAIN pieces', i > 1
               PROVE  /\ Cardinality(pieces'[i] \intersect pieces'[i - 1]) <= overlap
                      /\ \A q \in pieces'[i] : \E p \in pieces'[i - 1] : p <= q
    BY <1>3 DEF OverlapHonoured
  <2>1. CASE i \in DOMAIN pieces
    <3>1. i - 1 \in DOMAIN pieces
      BY <1>9, <2>1
    <3>2. QED
      BY <1>1, <1>8, <2>1, <3>1 DEF OverlapHonoured
  <2>2. CASE i \notin DOMAIN pieces
    <3>1. /\ c # {} /\ i = Len(pieces) + 1 /\ pieces'[i] = c
          /\ i - 1 = Len(pieces) /\ i - 1 \in DOMAIN pieces
          /\ pieces'[i - 1] = pieces[i - 1]
      BY <1>8, <1>9, <2>2
    <3> DEFINE d == pieces[i - 1]
    <3>2. \A p \in d : p \in Nat /\ p <= end
      BY <1>1, <1>4, <1>7, <3>1 DEF Behind
    <3>3. end < pos + overlap
      BY <1>1, <1>2, <1>4, <1>9, <3>1 DEF Stands
    <3>4. c \intersect d \subseteq pos..end
      BY <1>2, <1>5, <3>2
    <3>5. Cardinality(c \intersect d) <= overlap
      BY <1>2, <3>3, <3>4, SharedCardinality
    <3>6. ASSUME NEW q \in c PROVE \E p \in d : p <= q
      <4>1. PICK r \in Ink : pos <= r /\ r <= q
        BY <1>5
      <4>2. r \in Nat /\ q \in Nat
        BY <1>6 DEF Ink
      <4>3. CASE r <= end
        <5>1. r \in d
          BY <1>1, <1>4, <3>1, <4>1, <4>3 DEF Shared
        <5>2. QED
          BY <4>1, <5>1
      <4>4. CASE end < r
        <5>1. d # {}
          BY <1>1, <1>4, <3>1 DEF Shared
        <5>2. PICK p \in d : TRUE
          BY <5>1
        <5>3. QED
          BY <1>2, <3>2, <4>1, <4>2, <4>4, <5>2
      <4>5. QED
        BY <1>2, <4>2, <4>3, <4>4
    <3> HIDE DEF d
    <3>7. QED
      BY <3>1, <3>5, <3>6 DEF d
  <2>3. QED
    BY <2>1, <2>2
<1>19. ChunksBounded'
  BY <1>1, <1>2, <1>3, <1>4, <1>9, <1>12 DEF ChunksBounded, Stands
<1>20. QED
  BY <1>11, <1>13, <1>14, <1>15, <1>16, <1>17, <1>18, <1>19 DEF ChunkInv

LEMMA ChunkingNextInv == ChunkInv /\ [ChunkingNext]_chunkingVars => ChunkInv'
<1> SUFFICES ASSUME ChunkInv, [ChunkingNext]_chunkingVars PROVE ChunkInv'
  OBVIOUS
<1>1. CASE Whole
  BY <1>1, WholeInv
<1>2. CASE CutAtSentence \/ CutHard
  <2>1. ChunkingTypeOK /\ Stands
    BY DEF ChunkInv
  <2>2. /\ Looping
        /\ \E b \in pos..TextLen :
             /\ b < pos + size
             /\ end <= b \/ \E p \in Ink : pos <= p /\ p <= b
             /\ Emit(b)
    BY <1>2, <2>1, CutWindow
  <2>3. QED
    BY <2>2, EmitInv
<1>3. CASE UNCHANGED chunkingVars
  BY <1>3 DEF chunkingVars, ChunkInv, ChunkingTypeOK, Stands, Covered, Behind, Shared, ChunkFits,
              OverlapHonoured, ChunksBounded, TextLen, Ink
<1>4. QED
  BY <1>1, <1>2, <1>3 DEF ChunkingNext

-----------------------------------------------------------------------------
(* Theorems                                                                *)

LEMMA AlwaysChunkInv == ChunkingSpec => []ChunkInv
  BY ChunkingInitInv, ChunkingNextInv, PTL DEF ChunkingSpec

\* Positions stay in the text and chunks are sets of positions.
THEOREM ChunksTypeCorrect == ChunkingSpec => []ChunkingTypeOK
<1>1. ChunkInv => ChunkingTypeOK
  BY DEF ChunkInv
<1>2. QED
  BY <1>1, AlwaysChunkInv, PTL

\* Whatever the text, chunk_size and overlap: no character with ink is left out of
\* every chunk, at sentence breaks, at hard cuts and at the end.
THEOREM TextCovered == ChunkingSpec => []NothingLost
<1>1. ChunkInv => NothingLost
  BY DEF ChunkInv, NothingLost, Covered, Stands
<1>2. QED
  BY <1>1, AlwaysChunkInv, PTL

\* No chunk is longer than chunk_size.
THEOREM ChunksFit == ChunkingSpec => []ChunkFits
<1>1. ChunkInv => ChunkFits
  BY DEF ChunkInv
<1>2. QED
  BY <1>1, AlwaysChunkInv, PTL

\* Consecutive chunks share at most `overlap` characters and follow the text.
THEOREM OverlapBounded == ChunkingSpec => []OverlapHonoured
<1>1. ChunkInv => OverlapHonoured
  BY DEF ChunkInv
<1>2. QED
  BY <1>1, AlwaysChunkInv, PTL

\* At most one chunk per character, even when the overlap is as long as the chunk.
THEOREM ChunkCount == ChunkingSpec => []ChunksBounded
<1>1. ChunkInv => ChunksBounded
  BY DEF ChunkInv
<1>2. QED
  BY <1>1, AlwaysChunkInv, PTL

-----------------------------------------------------------------------------
(***************************************************************************)
(* Building the index: the inductive invariant.                            *)
(***************************************************************************)

\* Each chunk has one source entry, its own file.
SourcesMatch ==
  /\ Len(sources) = Len(chunks)
  /\ \A i \in 1..Len(chunks) : sources[i] = IF fromFiles THEN chunks[i].doc ELSE 0

\* Rows are bound in the order of the chunks.
RowsInOrder == /\ \A i \in 1..Len(rows) : rows[i].of = i
               /\ \A i \in 1..Len(matrix) : matrix[i].of = start + i - 1

\* All batches before this one are bound, and this one is not overfull.
BatchUnderWay == /\ start <= Len(chunks)
                 /\ Len(rows) = start - 1
                 /\ Current <= BatchEnd + 1

PhaseInv == /\ phase = "reading" => start = 1 /\ rows = <<>> /\ matrix = <<>>
            /\ phase = "embedding" => BatchUnderWay
            /\ phase = "built" => Len(rows) = Len(chunks)

IndexInv == TypeOK /\ SourcesMatch /\ RowsInOrder /\ PhaseInv

-----------------------------------------------------------------------------
\* The end of a batch is a chunk, at or after the batch's start.
LEMMA BatchEndRange ==
  ASSUME TypeOK, start <= Len(chunks)
  PROVE  /\ BatchEnd \in Nat
         /\ start <= BatchEnd
         /\ BatchEnd <= Len(chunks)
         /\ start + BatchSize <= Len(chunks) => BatchEnd = start + BatchSize - 1
         /\ start + BatchSize > Len(chunks) => BatchEnd = Len(chunks)
<1>1. start \in Nat \ {0} /\ Len(chunks) \in Nat
  BY DEF TypeOK
<1>2. BatchSize \in Nat \ {0}
  BY IndexAssumption
<1> QED
  BY <1>1, <1>2 DEF BatchEnd

\* What a concatenation holds, element by element.
LEMMA Joined ==
  ASSUME NEW S, NEW a \in Seq(S), NEW b \in Seq(S), NEW c, c = a \o b
  PROVE  /\ c \in Seq(S)
         /\ Len(c) = Len(a) + Len(b)
         /\ \A i \in 1..Len(c) : i <= Len(a) => c[i] = a[i]
         /\ \A i \in 1..Len(c) : i > Len(a) =>
              i - Len(a) \in 1..Len(b) /\ c[i] = b[i - Len(a)]
<1>1. Len(a) \in Nat /\ Len(b) \in Nat
  OBVIOUS
<1>2. Len(c) = Len(a) + Len(b) /\ c \in Seq(S)
  BY ConcatProperties
<1>3. \A i \in 1..Len(a) + Len(b) : c[i] = IF i <= Len(a) THEN a[i] ELSE b[i - Len(a)]
  BY ConcatProperties
<1>4. ASSUME NEW i \in 1..Len(c) PROVE i \in 1..Len(a) + Len(b)
  BY <1>2
<1>5. ASSUME NEW i \in 1..Len(c), i > Len(a) PROVE i - Len(a) \in 1..Len(b)
  BY <1>1, <1>2, <1>5
<1>6. ASSUME NEW i \in 1..Len(c), i <= Len(a) PROVE c[i] = a[i]
  BY <1>3, <1>4, <1>6
<1>7. ASSUME NEW i \in 1..Len(c), i > Len(a) PROVE c[i] = b[i - Len(a)]
  BY <1>1, <1>3, <1>4, <1>7
<1> QED
  BY <1>2, <1>5, <1>6, <1>7

LEMMA InitInv == Init => IndexInv
<1> SUFFICES ASSUME Init PROVE IndexInv
  OBVIOUS
<1>1. TypeOK
  BY IndexAssumption DEF Init, TypeOK
<1>2. SourcesMatch
  BY DEF Init, SourcesMatch
<1>3. RowsInOrder
  BY DEF Init, RowsInOrder
<1>4. PhaseInv
  BY DEF Init, PhaseInv
<1> QED
  BY <1>1, <1>2, <1>3, <1>4 DEF IndexInv

\* A row added to the batch under way embeds the chunk it stands for.
LEMMA RowAdded ==
  ASSUME IndexInv, Embedding, NEW v \in {"vector", "zero"},
         matrix' = Append(matrix, [of |-> Current, value |-> v]),
         UNCHANGED <<texts, phase, start, rows>>
  PROVE  IndexInv'
<1> DEFINE r == [of |-> Current, value |-> v]
<1>1. TypeOK /\ PhaseInv /\ phase = "embedding" /\ Current <= BatchEnd
  BY DEF IndexInv, Embedding
<1>2. matrix \in Seq(Row) /\ Len(matrix) \in Nat /\ start \in Nat \ {0}
  BY <1>1 DEF TypeOK
<1>3. r \in Row
  BY <1>2 DEF Row, Current
<1> HIDE DEF r
<1>4. matrix' = Append(matrix, r)
  BY DEF r
<1>5. /\ matrix' \in Seq(Row)
      /\ Len(matrix') = Len(matrix) + 1
      /\ \A i \in 1..Len(matrix) : matrix'[i] = matrix[i]
      /\ matrix'[Len(matrix) + 1] = r
  BY <1>2, <1>3, <1>4, AppendProperties
<1>6. TypeOK'
  BY <1>1, <1>5 DEF TypeOK, texts
<1>7. SourcesMatch'
  BY DEF IndexInv, SourcesMatch, texts
<1>8. RowsInOrder'
  <2>1. ASSUME NEW i \in 1..Len(matrix') PROVE matrix'[i].of = start + i - 1
    <3>1. CASE i \in 1..Len(matrix)
      BY <1>5, <3>1 DEF IndexInv, RowsInOrder
    <3>2. CASE i = Len(matrix) + 1
      BY <1>2, <1>5, <3>2 DEF r, Current
    <3> QED
      BY <1>2, <1>5, <3>1, <3>2
  <2> QED
    BY <2>1 DEF IndexInv, RowsInOrder
<1>9. PhaseInv'
  <2>1. BatchUnderWay
    BY <1>1 DEF PhaseInv
  <2>2. BatchEnd \in Nat
    BY <1>1, <2>1, BatchEndRange DEF BatchUnderWay
  <2>3. BatchEnd' = BatchEnd
    BY DEF BatchEnd, texts
  <2>4. Current' = Current + 1 /\ Current \in Nat
    BY <1>2, <1>5 DEF Current
  <2>5. BatchUnderWay'
    BY <1>1, <2>1, <2>2, <2>3, <2>4 DEF BatchUnderWay, texts
  <2> QED
    BY <1>1, <2>5 DEF PhaseInv
<1> QED
  BY <1>6, <1>7, <1>8, <1>9 DEF IndexInv

\* Splitting appends as many sources as chunks, all of this document.
LEMMA SplitInv == ASSUME IndexInv, Split PROVE IndexInv'
<1>1. TypeOK /\ PhaseInv /\ SourcesMatch /\ phase = "reading" /\ doc < Docs
  BY DEF IndexInv, Split, Reading
<1>0. PICK n \in 0..MaxSplit : \E lens \in [1..n -> Lengths] :
        /\ chunks' = chunks \o [k \in 1..n |-> [doc |-> doc + 1, tokens |-> lens[k]]]
        /\ sources' = sources \o Source(doc + 1, n)
  BY DEF Split
<1>2. PICK lens \in [1..n -> Lengths] :
        /\ chunks' = chunks \o [k \in 1..n |-> [doc |-> doc + 1, tokens |-> lens[k]]]
        /\ sources' = sources \o Source(doc + 1, n)
  BY <1>0
<1> DEFINE new == [k \in 1..n |-> [doc |-> doc + 1, tokens |-> lens[k]]]
           src == [k \in 1..n |-> IF fromFiles THEN doc + 1 ELSE 0]
<1>3. n \in Nat /\ doc + 1 \in 1..Docs /\ Docs \in Nat /\ doc \in Nat
  BY <1>1, <1>0, IndexAssumption DEF TypeOK
<1>4. \A k \in 1..n : [doc |-> doc + 1, tokens |-> lens[k]] \in Chunk
  BY <1>2, <1>3 DEF Chunk
<1>5. new \in Seq(Chunk) /\ Len(new) = n /\ \A k \in 1..n : new[k].doc = doc + 1
  BY <1>3, <1>4, IsASeq
<1>6. \A k \in 1..n : (IF fromFiles THEN doc + 1 ELSE 0) \in 0..Docs
  BY <1>3
<1>7. /\ src \in Seq(0..Docs)
      /\ Len(src) = n
      /\ \A k \in 1..n : src[k] = IF fromFiles THEN doc + 1 ELSE 0
  BY <1>3, <1>6, IsASeq
<1>8. chunks' = chunks \o new /\ sources' = sources \o src
  BY <1>2 DEF Source
<1> HIDE DEF new, src
<1>9. chunks \in Seq(Chunk) /\ sources \in Seq(0..Docs) /\ Len(chunks) \in Nat
      /\ Len(sources) = Len(chunks)
  BY <1>1 DEF TypeOK, SourcesMatch
<1>10. /\ chunks' \in Seq(Chunk)
       /\ Len(chunks') = Len(chunks) + Len(new)
       /\ \A i \in 1..Len(chunks') : i <= Len(chunks) => chunks'[i] = chunks[i]
       /\ \A i \in 1..Len(chunks') : i > Len(chunks) =>
            i - Len(chunks) \in 1..Len(new) /\ chunks'[i] = new[i - Len(chunks)]
  <2>1. new \in Seq(Chunk) /\ chunks \in Seq(Chunk) /\ chunks' = chunks \o new
    BY <1>5, <1>8, <1>9
  <2> QED
    BY ONLY <2>1, Joined
<1>11. /\ sources' \in Seq(0..Docs)
       /\ Len(sources') = Len(sources) + Len(src)
       /\ \A i \in 1..Len(sources') : i <= Len(sources) => sources'[i] = sources[i]
       /\ \A i \in 1..Len(sources') : i > Len(sources) =>
            i - Len(sources) \in 1..Len(src) /\ sources'[i] = src[i - Len(sources)]
  <2>1. src \in Seq(0..Docs) /\ sources \in Seq(0..Docs) /\ sources' = sources \o src
    BY <1>7, <1>8, <1>9
  <2> QED
    BY ONLY <2>1, Joined
<1>12. /\ doc' = doc + 1
       /\ UNCHANGED <<fromFiles, phase, start, matrix, rows>>
  BY DEF Split
<1>13. TypeOK'
  BY <1>1, <1>3, <1>10, <1>11, <1>12 DEF TypeOK
<1>14. SourcesMatch'
  <2>1. ASSUME NEW i \in 1..Len(chunks')
        PROVE  sources'[i] = IF fromFiles THEN chunks'[i].doc ELSE 0
    <3>1. CASE i <= Len(chunks)
      <4>1. i \in 1..Len(chunks)
        BY <1>9, <3>1
      <4>2. sources[i] = IF fromFiles THEN chunks[i].doc ELSE 0
        BY <1>1, <4>1 DEF SourcesMatch
      <4> QED
        BY <1>5, <1>7, <1>9, <1>10, <1>11, <3>1, <4>2
    <3>2. CASE i > Len(chunks)
      <4>1. i - Len(chunks) \in 1..n
        BY <1>3, <1>5, <1>9, <1>10, <3>2
      <4>2. chunks'[i] = new[i - Len(chunks)] /\ sources'[i] = src[i - Len(chunks)]
        BY <1>5, <1>7, <1>9, <1>10, <1>11, <3>2
      <4> QED
        BY <1>5, <1>7, <4>1, <4>2
    <3> QED
      BY <1>9, <1>10, <3>1, <3>2
  <2> QED
    BY <1>5, <1>7, <1>9, <1>10, <1>11, <1>12, <2>1 DEF SourcesMatch
<1>15. RowsInOrder'
  BY <1>12 DEF IndexInv, RowsInOrder
<1>16. PhaseInv'
  BY <1>1, <1>12 DEF PhaseInv
<1> QED
  BY <1>13, <1>14, <1>15, <1>16 DEF IndexInv

\* Binding a full batch leaves the next one empty, or ends with a row a chunk.
LEMMA BindInv == ASSUME IndexInv, Bind PROVE IndexInv'
<1>1. TypeOK /\ PhaseInv /\ BatchUnderWay /\ RowsInOrder
  BY DEF IndexInv, Bind, PhaseInv
<1>2. /\ start \in Nat \ {0} /\ Len(chunks) \in Nat
      /\ rows \in Seq(Row) /\ Len(rows) \in Nat
      /\ matrix \in Seq(Row) /\ Len(matrix) \in Nat
  BY <1>1 DEF TypeOK
<1>3. BatchSize \in Nat \ {0}
  BY IndexAssumption
<1>4. /\ rows' = rows \o matrix /\ matrix' = <<>> /\ start' = start + BatchSize
      /\ phase' = IF start + BatchSize > Len(chunks) THEN "built" ELSE "embedding"
      /\ chunks' = chunks /\ sources' = sources /\ fromFiles' = fromFiles /\ doc' = doc
  BY DEF Bind, texts
<1>5. /\ rows' \in Seq(Row)
      /\ Len(rows') = Len(rows) + Len(matrix)
      /\ \A i \in 1..Len(rows') : i <= Len(rows) => rows'[i] = rows[i]
      /\ \A i \in 1..Len(rows') : i > Len(rows) =>
           i - Len(rows) \in 1..Len(matrix) /\ rows'[i] = matrix[i - Len(rows)]
  BY <1>2, <1>4, Joined
<1>6. BatchEnd \in Nat
  BY <1>1, BatchEndRange DEF BatchUnderWay
<1>7. Len(rows) = start - 1 /\ Len(rows') = BatchEnd
  <2>1. Len(rows) = start - 1 /\ start + Len(matrix) <= BatchEnd + 1
    BY <1>1 DEF BatchUnderWay, Current
  <2>2. start + Len(matrix) > BatchEnd
    BY DEF Bind, Current
  <2> QED
    BY <1>2, <1>5, <1>6, <2>1, <2>2
<1>8. TypeOK'
  BY <1>1, <1>2, <1>3, <1>4, <1>5 DEF TypeOK
<1>9. SourcesMatch'
  BY <1>4 DEF IndexInv, SourcesMatch
<1>10. RowsInOrder'
  <2>1. ASSUME NEW i \in 1..Len(rows') PROVE rows'[i].of = i
    <3>1. CASE i <= Len(rows)
      BY <1>1, <1>2, <1>5, <3>1 DEF RowsInOrder
    <3>2. CASE i > Len(rows)
      <4>1. i - Len(rows) \in 1..Len(matrix) /\ rows'[i] = matrix[i - Len(rows)]
        BY <1>5, <3>2
      <4>2. rows'[i].of = start + (i - Len(rows)) - 1
        BY <1>1, <4>1 DEF RowsInOrder
      <4>3. i \in Nat
        OBVIOUS
      <4> QED
        BY <1>2, <1>7, <4>2, <4>3
    <3> QED
      BY <1>2, <3>1, <3>2
  <2> QED
    BY <1>4, <2>1 DEF RowsInOrder
<1>11. PhaseInv'
  <2>1. CASE start + BatchSize > Len(chunks)
    BY <1>1, <1>4, <1>7, <2>1, BatchEndRange DEF PhaseInv, BatchUnderWay
  <2>2. CASE ~(start + BatchSize > Len(chunks))
    <3>1. start + BatchSize <= Len(chunks)
      BY <1>2, <1>3, <2>2
    <3>2. BatchEnd = start + BatchSize - 1
      BY <1>1, <3>1, BatchEndRange DEF BatchUnderWay
    <3>3. Current' = start'
      BY <1>2, <1>3, <1>4 DEF Current
    <3>4. BatchEnd' >= start' /\ BatchEnd' \in Nat
      <4>1. PICK s : s = start'
        OBVIOUS
      <4>2. BatchEnd' = IF s + BatchSize - 1 < Len(chunks)
                        THEN s + BatchSize - 1 ELSE Len(chunks)
        BY <1>4, <4>1 DEF BatchEnd
      <4>3. s \in Nat /\ s <= Len(chunks)
        BY <1>2, <1>3, <1>4, <3>1, <4>1
      <4>4. PICK e : e = BatchEnd'
        OBVIOUS
      <4>5. e >= s /\ e \in Nat
        BY <1>2, <1>3, <4>2, <4>3, <4>4
      <4> QED
        BY <4>1, <4>4, <4>5
    <3>5. BatchUnderWay'
      <4>1. start' \in Nat /\ start' <= Len(chunks')
        BY <1>2, <1>3, <1>4, <3>1
      <4>2. Len(rows') = start' - 1
        BY <1>2, <1>3, <1>4, <1>7, <3>2
      <4>3. Current' <= BatchEnd' + 1
        <5>1. PICK e, s : e = BatchEnd' /\ s = start'
          OBVIOUS
        <5>2. e >= s /\ e \in Nat /\ s \in Nat
          BY <3>4, <4>1, <5>1
        <5>3. s <= e + 1
          BY <5>2
        <5>4. Current' <= e + 1
          BY <3>3, <5>1, <5>3
        <5> QED
          BY <5>1, <5>4
      <4> QED
        BY <4>1, <4>2, <4>3 DEF BatchUnderWay
    <3> QED
      BY <1>4, <2>2, <3>5 DEF PhaseInv
  <2> QED
    BY <2>1, <2>2
<1> QED
  BY <1>8, <1>9, <1>10, <1>11 DEF IndexInv

LEMMA NextInv == IndexInv /\ [Next]_vars => IndexInv'
<1> SUFFICES ASSUME IndexInv, [Next]_vars PROVE IndexInv'
  OBVIOUS
<1>1. TypeOK /\ SourcesMatch /\ RowsInOrder /\ PhaseInv
  BY DEF IndexInv
<1>2. CASE SkipFile
  <2>1. TypeOK'
    BY <1>1, <1>2, IndexAssumption DEF SkipFile, Reading, TypeOK
  <2> QED
    BY <1>1, <1>2, <2>1
    DEF SkipFile, Reading, IndexInv, SourcesMatch, RowsInOrder, PhaseInv
<1>3. CASE Split
  BY <1>3, SplitInv
<1>4. CASE ReadAll
  <2>1. TypeOK'
    BY <1>1, <1>4 DEF ReadAll, TypeOK, texts
  <2>2. SourcesMatch' /\ RowsInOrder'
    BY <1>1, <1>4 DEF ReadAll, SourcesMatch, RowsInOrder, texts
  <2>3. PhaseInv'
    <3>1. CASE chunks = <<>>
      BY <1>4, <3>1 DEF ReadAll, PhaseInv
    <3>2. CASE chunks # <<>>
      <4>1. /\ start = 1 /\ rows = <<>> /\ matrix = <<>>
            /\ chunks' = chunks /\ start' = start /\ rows' = rows /\ matrix' = matrix
            /\ phase' = "embedding"
        BY <1>1, <1>4, <3>2 DEF ReadAll, PhaseInv, texts
      <4>2. Len(chunks) \in Nat /\ Len(chunks) >= 1
        BY <1>1, <3>2, EmptySeq, LenProperties DEF TypeOK
      <4>3. BatchUnderWay'
        BY <4>1, <4>2, IndexAssumption DEF BatchUnderWay, Current, BatchEnd
      <4> QED
        BY <4>1, <4>3 DEF PhaseInv
    <3> QED
      BY <3>1, <3>2
  <2> QED
    BY <2>1, <2>2, <2>3 DEF IndexInv
<1>5. CASE SkipText
  BY <1>5, RowAdded DEF SkipText, AddZero
<1>6. CASE EmbedText
  BY <1>6, RowAdded DEF EmbedText
<1>7. CASE Abort
  BY <1>1, <1>7
  DEF Abort, Embedding, IndexInv, TypeOK, SourcesMatch, RowsInOrder, PhaseInv, texts
<1>8. CASE Bind
  BY <1>8, BindInv
<1>9. CASE UNCHANGED vars
  BY <1>1, <1>9
  DEF vars, IndexInv, TypeOK, SourcesMatch, RowsInOrder, PhaseInv,
      BatchUnderWay, Current, BatchEnd
<1> QED
  BY <1>2, <1>3, <1>4, <1>5, <1>6, <1>7, <1>8, <1>9 DEF Next

\* The types of the index under construction (edge_index_documents).
THEOREM TypeCorrect == Spec => []TypeOK
<1>1. IndexInv => TypeOK
  BY DEF IndexInv
<1> QED
  BY InitInv, NextInv, <1>1, PTL DEF Spec

\* Row i, chunk i and source i of a built index belong together, however the
\* documents split and wherever the batches cut (edge_index_documents).
THEOREM IndexAligned == Spec => []RowsAligned
<1>1. IndexInv => RowsAligned
  BY DEF IndexInv, SourcesMatch, RowsInOrder, PhaseInv, RowsAligned
<1> QED
  BY InitInv, NextInv, <1>1, PTL DEF Spec

=============================================================================
