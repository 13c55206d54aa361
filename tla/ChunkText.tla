------------------------------- MODULE ChunkText -------------------------------
(***************************************************************************)
(* .chunk_text: splitting a document into overlapping windows that prefer  *)
(* to end at a sentence.                                                   *)
(*                                                                         *)
(* A text is a sequence of characters, of which only the kind matters:     *)
(* white space, sentence-ending punctuation (. ! ?), or anything else.     *)
(* A chunk is the set of positions it holds, so that the trimmed, the      *)
(* empty and the overlapping chunk need no case of their own.              *)
(***************************************************************************)
EXTENDS Naturals, Sequences, FiniteSets

CONSTANTS
  Texts,     \* the documents given
  Sizes,     \* values of chunk_size
  Overlaps   \* values of overlap; the helper accepts any

Char == {"blank", "stop", "ink"}

ASSUME TextAssumption == \A t \in Texts : t \in Seq(Char)
ASSUME SizeAssumption == Sizes \subseteq Nat \ {0} /\ Overlaps \subseteq Nat

VARIABLES
  text, size, overlap,  \* the arguments
  pos,                  \* where the next window starts
  end,                  \* where the last one ended, 0 before the first
  pieces,               \* the chunks, in order
  done

chunkingVars == <<text, size, overlap, pos, end, pieces, done>>
args == <<text, size, overlap>>

TextLen == Len(text)
Ink == {p \in 1..TextLen : text[p] # "blank"}

\* trimws(substr(text, a, b)): from the first to the last character with ink.
Trimmed(a, b) == {p \in a..b : /\ \E q \in Ink : a <= q /\ q <= p
                               /\ \E r \in Ink : p <= r /\ r <= b}

\* Empty chunks are dropped from the result.
Kept(cs, c) == IF c = {} THEN cs ELSE Append(cs, c)

\* pos + chunk_size - 1, within the text.
FullEnd == IF pos + size - 1 < TextLen THEN pos + size - 1 ELSE TextLen

\* Matches of "[.!?]\\s" in the window, as distances from its start; only the
\* last one counts, and only past the middle of the window.
Breaks == {k \in 1..size : /\ pos + k <= FullEnd
                           /\ text[pos + k - 1] = "stop"
                           /\ text[pos + k] = "blank"}
LastBreak(k) == k \in Breaks /\ \A j \in Breaks : j <= k
Usable(k) == FullEnd < TextLen /\ LastBreak(k) /\ 2 * k > size

BreakEndTooFar(k) == pos + k + 1  \* mutation: one character past the white space
BreakEnd(k) == pos + k

\* Back by the overlap, but always past the start of this window.
NextPosStuck(b) == IF b + 1 > pos + overlap THEN b + 1 - overlap ELSE pos       \* mutation
NextPosSkips(b) == IF b + 2 > pos + 1 + overlap THEN b + 2 - overlap ELSE pos + 1  \* mutation
NextPosEarly(b) == IF b > pos + 1 + overlap THEN b - overlap ELSE pos + 1       \* mutation
NextPos(b) == IF b + 1 > pos + 1 + overlap THEN b + 1 - overlap ELSE pos + 1

\* The window pos..b becomes a chunk; the loop ends when it reached the end.
Emit(b) == /\ pieces' = Kept(pieces, Trimmed(pos, b))
           /\ end' = b
           /\ IF b >= TextLen THEN done' = TRUE /\ pos' = pos
                              ELSE done' = FALSE /\ pos' = NextPos(b)
           /\ UNCHANGED args

ChunkingInit ==
  /\ text \in Texts
  /\ size \in Sizes
  /\ overlap \in Overlaps
  /\ pos = 1
  /\ end = 0
  /\ pieces = <<>>
  /\ done = FALSE

\* A text that fits is returned as it is, untrimmed.
Whole == /\ ~done /\ end = 0
         /\ TextLen <= size
         /\ pieces' = <<1..TextLen>>
         /\ end' = TextLen
         /\ done' = TRUE
         /\ UNCHANGED <<args, pos>>

Looping == ~done /\ TextLen > size /\ pos <= TextLen

CutAtSentence == /\ Looping
                 /\ \E k \in 1..size : Usable(k) /\ Emit(BreakEnd(k))

CutHard == /\ Looping
           /\ \A k \in 1..size : ~Usable(k)
           /\ Emit(FullEnd)

ChunkingNext == Whole \/ CutAtSentence \/ CutHard

ChunkingSpec == ChunkingInit /\ [][ChunkingNext]_chunkingVars

\* A sequential loop: while it can go on, it does.
ChunkingFairSpec == ChunkingSpec /\ WF_chunkingVars(ChunkingNext)

-----------------------------------------------------------------------------
ChunkingTypeOK ==
  /\ text \in Seq(Char)
  /\ size \in Nat \ {0}
  /\ overlap \in Nat
  /\ pos \in Nat \ {0}
  /\ end \in Nat
  /\ pieces \in Seq(SUBSET Nat)
  /\ done \in BOOLEAN

\* Every character that is not white space is in some chunk, up to where the
\* last window ended, and the next window leaves no gap.
NothingLost ==
  /\ \A p \in Ink : p <= end => \E i \in DOMAIN pieces : p \in pieces[i]
  /\ pos <= end + 1
  /\ done => end = TextLen

\* No chunk is longer than chunk_size, wherever a sentence ends.
ChunkFits == \A i \in DOMAIN pieces : \A p, q \in pieces[i] : q < p + size

\* Chunks come in the order of the text, and a chunk repeats at most `overlap`
\* characters of the one before it.
OverlapHonoured ==
  \A i \in DOMAIN pieces : i > 1 =>
    /\ Cardinality(pieces[i] \intersect pieces[i - 1]) <= overlap
    /\ \A q \in pieces[i] : \E p \in pieces[i - 1] : p <= q

\* However large the overlap, a text yields at most one chunk per character: the
\* bound behind the end of the loop.
ChunksBounded == Len(pieces) <= 1 \/ Len(pieces) <= TextLen

\* The splitting ends, for every text, size and overlap.
ChunkingEnds == <>done

=============================================================================
