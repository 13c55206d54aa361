----------------------------- MODULE DocumentIndex -----------------------------
(***************************************************************************)
(* edge_index_documents: documents are read and split one after the other  *)
(* into three parallel lists, and the chunks are embedded in batches whose *)
(* matrices are bound together.  ChunkText says how one document splits;   *)
(* here a document yields some number of chunks.                           *)
(*                                                                         *)
(* Of a chunk only its length in tokens matters: 0 when the tokenizer      *)
(* fails on it.  A row of the matrix records which chunk it embeds.        *)
(***************************************************************************)
EXTENDS Naturals, Sequences

CONSTANTS
  Docs,       \* number of documents given
  MaxSplit,   \* bound: chunks one document yields
  Lengths,    \* lengths of chunks, in tokens
  BatchSize,  \* chunks per call of edge_embeddings (32 in the code)
  NCtx,       \* llama_n_ctx
  NBatch      \* llama_n_batch: tokens one llama_decode accepts

ASSUME IndexAssumption == /\ Docs \in Nat
                          /\ MaxSplit \in Nat
                          /\ Lengths \subseteq Nat
                          /\ BatchSize \in Nat \ {0}
                          /\ NCtx \in Nat \ {0}
                          /\ NBatch \in Nat \ {0}

VARIABLES
  fromFiles,  \* the source is a directory, not a character vector
  doc,        \* documents taken so far
  chunks,     \* sequence of chunks
  sources,    \* the file of each chunk, 0 (NA) for direct text
  phase,      \* "reading", "embedding", "built" or "failed"
  start,      \* first chunk of the batch under way
  matrix,     \* rows of the batch under way
  rows        \* rows bound so far

vars == <<fromFiles, doc, chunks, sources, phase, start, matrix, rows>>
texts == <<fromFiles, doc, chunks, sources>>

Chunk == [doc : 1..Docs, tokens : Lengths]
Row == [of : Nat, value : {"vector", "zero"}]

Init == /\ fromFiles \in BOOLEAN
        /\ doc = 0
        /\ chunks = <<>>
        /\ sources = <<>>
        /\ phase = "reading"
        /\ start = 1
        /\ matrix = <<>>
        /\ rows = <<>>

-----------------------------------------------------------------------------
(***************************************************************************)
(* Reading.                                                                *)
(***************************************************************************)

Reading == phase = "reading" /\ doc < Docs

\* A file that cannot be read, or is empty, is passed over.
SkipFile == /\ Reading
            /\ fromFiles
            /\ doc' = doc + 1
            /\ UNCHANGED <<fromFiles, chunks, sources, phase, start, matrix, rows>>

SourceOnce(d, n) == <<IF fromFiles THEN d ELSE 0>>  \* mutation: one entry per file
Source(d, n) == [k \in 1..n |-> IF fromFiles THEN d ELSE 0]

\* A document becomes n chunks: possibly none, when it is all white space.
Split == /\ Reading
         /\ \E n \in 0..MaxSplit : \E lens \in [1..n -> Lengths] :
              /\ chunks' = chunks \o [k \in 1..n |-> [doc |-> doc + 1, tokens |-> lens[k]]]
              /\ sources' = sources \o Source(doc + 1, n)
         /\ doc' = doc + 1
         /\ UNCHANGED <<fromFiles, phase, start, matrix, rows>>

ReadAll == /\ phase = "reading" /\ doc = Docs
           /\ phase' = IF chunks = <<>> THEN "failed" ELSE "embedding"
           /\ UNCHANGED <<texts, start, matrix, rows>>

-----------------------------------------------------------------------------
(***************************************************************************)
(* Embedding.                                                              *)
(***************************************************************************)

\* The last chunk of the batch.
BatchEndOneMore == IF start + BatchSize < Len(chunks)  \* mutation: batches overlap
                   THEN start + BatchSize ELSE Len(chunks)
BatchEnd == IF start + BatchSize - 1 < Len(chunks)
            THEN start + BatchSize - 1 ELSE Len(chunks)

\* The chunk that edge_embeddings_internal turns to next.
Current == start + Len(matrix)
Embedding == phase = "embedding" /\ Current <= BatchEnd

\* tokens_to_process: the text is cut to the context, not to the batch.
Processed == IF chunks[Current].tokens < NCtx THEN chunks[Current].tokens ELSE NCtx

AddZero == matrix' = Append(matrix, [of |-> Current, value |-> "zero"])

\* The matrix starts out zero; a text that cannot be tokenized, whose decode
\* returns a code or that has no embedding leaves its row so.
SkipText == /\ Embedding
            /\ chunks[Current].tokens = 0 \/ Processed <= NBatch
            /\ AddZero
            /\ UNCHANGED <<texts, phase, start, rows>>

EmbedText == /\ Embedding
             /\ Processed \in 1..NBatch
             /\ matrix' = Append(matrix, [of |-> Current, value |-> "vector"])
             /\ UNCHANGED <<texts, phase, start, rows>>

\* More tokens than n_batch in one llama_decode, or an abort inside it: the
\* exception ends edge_embeddings and the index with it.
Abort == /\ Embedding
         /\ Processed > 0
         /\ phase' = "failed"
         /\ UNCHANGED <<texts, start, matrix, rows>>

\* The batch is bound to the index; after the last one the index is returned.
Bind == /\ phase = "embedding"
        /\ Current > BatchEnd
        /\ rows' = rows \o matrix
        /\ matrix' = <<>>
        /\ start' = start + BatchSize
        /\ phase' = IF start + BatchSize > Len(chunks) THEN "built" ELSE "embedding"
        /\ UNCHANGED texts

Next == \/ SkipFile \/ Split \/ ReadAll
        \/ SkipText \/ EmbedText \/ Abort \/ Bind

Spec == Init /\ [][Next]_vars

-----------------------------------------------------------------------------
TypeOK == /\ fromFiles \in BOOLEAN
          /\ doc \in 0..Docs
          /\ chunks \in Seq(Chunk)
          /\ sources \in Seq(0..Docs)
          /\ phase \in {"reading", "embedding", "built", "failed"}
          /\ start \in Nat \ {0}
          /\ matrix \in Seq(Row)
          /\ rows \in Seq(Row)

\* What edge_search relies on when it indexes three lists by one number: in a
\* built index row i embeds chunk i and source i is where chunk i came from,
\* across file and batch boundaries and skipped texts.
RowsAligned ==
  phase = "built" =>
    /\ Len(rows) = Len(chunks) /\ Len(sources) = Len(chunks)
    /\ \A i \in 1..Len(chunks) :
         /\ rows[i].of = i
         /\ sources[i] = IF fromFiles THEN chunks[i].doc ELSE 0

=============================================================================
