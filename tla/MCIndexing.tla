------------------------------ MODULE MCIndexing ------------------------------
(***************************************************************************)
(* Instances of ChunkText and of DocumentIndex, its caller.  A behaviour is *)
(* about one of the two: DocumentIndex lets a document split into any      *)
(* number of chunks, so that running .chunk_text inside of it would only   *)
(* take behaviours away.                                                   *)
(*                                                                         *)
(* Texts are all those of up to MaxLen characters, and of up to LongLen    *)
(* made of ends of sentences and white space: from a window of seven       *)
(* characters on, a sentence can end inside the window before, and the end *)
(* of a chunk moves backwards.  Batches of two cut documents in two.       *)
(***************************************************************************)
EXTENDS DocumentIndex, ChunkText

CONSTANTS MaxLen, LongLen

MCTexts == UNION {[1..n -> Char] : n \in 0..MaxLen}
             \union UNION {[1..n -> {"stop", "blank"}] : n \in 0..LongLen}

VARIABLE part  \* "split" or "index"

\* The empty text has been split: one chunk, returned as it is.
SplitDone == /\ text = <<>> /\ size = 1 /\ overlap = 0
             /\ pos = 1 /\ end = 0 /\ pieces = <<{}>> /\ done = TRUE

MCInit == \/ part = "split" /\ ChunkingInit /\ Init /\ ~fromFiles
          \/ part = "index" /\ Init /\ SplitDone

MCNext == /\ \/ part = "split" /\ ChunkingNext /\ UNCHANGED vars
             \/ part = "index" /\ Next /\ UNCHANGED chunkingVars
          /\ UNCHANGED part

MCSpec == /\ MCInit /\ [][MCNext]_<<part, vars, chunkingVars>>
          /\ WF_chunkingVars(ChunkingNext)

=============================================================================
