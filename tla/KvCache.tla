------------------------------ MODULE KvCache ------------------------------
(* The context behind a model handle: llama_decode over the unified KV cache *)
(* of one sequence (llama-context.cpp, llama-kv-cache.cpp, llama-kv-cells.h, *)
(* llama-batch.cpp), as bindings.cpp drives it: clear, then decode after     *)
(* decode, none of them with positions of its own.                           *)
(*                                                                           *)
(* A decode splits its batch into ubatches, places all of them on trial,     *)
(* takes them back, and then applies and computes one after the other.  The  *)
(* keys and values of a cell are abstracted to the set of <<position,token>> *)
(* pairs they depend on, which is what a wrong mask, a wrong slot or a stale *)
(* graph would change.                                                       *)
EXTENDS Integers, Sequences, FiniteSets

CONSTANTS Size,     \* cells of the cache (n_ctx of the context)
          NBatch,   \* cparams.n_batch
          NUbatch,  \* cparams.n_ubatch
          Pad,      \* padding of n_kv (256 in the code)
          Margin,   \* slack of the copied mask rows (n_swa + 32 in the code)
          Tokens,   \* the vocabulary
          Batches   \* the batches callers give to llama_decode

ASSUME SizesAssumption == /\ Size \in Nat \ {0}
                          /\ NBatch \in 1 .. Size
                          /\ NUbatch \in 1 .. NBatch
                          /\ Pad \in Nat \ {0}
                          /\ Margin \in Nat
ASSUME BatchesAssumption == Batches \subseteq Seq(Tokens) \ {<<>>}

Cells == 0 .. Size - 1
Free == -1

VARIABLES pos,      \* cell -> position, or Free
          head,     \* where the search for a slot starts
          kv,       \* cell -> what its keys and values were computed from
          graph,    \* the last graph built: its shape, and whether it was allocated
          logits,   \* what the logits a sampler would read were computed from
          pc,       \* where the decode in progress is
          batch,    \* its tokens
          p0,       \* position of its first token
          taken,    \* how many of them the ubatches placed so far hold
          placed,   \* those ubatches: slot, and the state it replaced
          undo,     \* placed ubatches still to be taken back
          cur,      \* ubatch to compute next
          ret,      \* result of the last decode
          context,  \* ghost: the tokens the cells stand for, in order
          sound,    \* ghost: no exception since the cache was cleared
          before    \* ghost: cells and head when the last decode began

cache == <<pos, head, kv>>
ghosts == <<context, sound, before>>
vars == <<cache, graph, logits, pc, batch, p0, taken, placed, undo, cur, ret, ghosts>>

-----------------------------------------------------------------------------
(* llama_kv_cells *)

Used == {c \in Cells : pos[c] # Free}
Empty == Cells \ Used
SeqPosMax == IF Used = {} THEN -1
             ELSE CHOOSE p \in Cells : /\ \E c \in Used : pos[c] = p
                                       /\ \A c \in Used : pos[c] <= p

(* split_simple: the next ubatch takes up to n_ubatch of the tokens that    *)
(* none has taken yet, here those from offset at on.                         *)
UbatchLen(at) == IF Len(batch) - at < NUbatch THEN Len(batch) - at ELSE NUbatch
IsLastUbatch(at) == at + UbatchLen(at) = Len(batch)

(* The only token with an output is the last one of the batch. *)
Outputs(at) == IF IsLastUbatch(at) THEN 1 ELSE 0

-----------------------------------------------------------------------------
(* llama_kv_cache::find_slot, not continuous: the first n free cells in the  *)
(* order of the search, which goes round once from the head.                 *)

Start(n) == IF head > Cardinality(Used) + 2 * n THEN 0 ELSE head
Turn(n, c) == IF c >= Start(n) THEN c - Start(n) ELSE c + Size - Start(n)
Ahead(n, c) == {d \in Empty : Turn(n, d) < Turn(n, c)}
NoSlot == <<>>
FindSlot(n) == IF n > Cardinality(Empty) THEN NoSlot
               ELSE [i \in 1 .. n |-> CHOOSE c \in Empty : Cardinality(Ahead(n, c)) = i - 1]

(* apply_ubatch: positions first, first + 1, ... go into the cells of the    *)
(* slot, and the head moves behind its last cell.                            *)
InSlot(slot, c) == \E i \in 1 .. Len(slot) : slot[i] = c
IndexIn(slot, c) == CHOOSE i \in 1 .. Len(slot) : slot[i] = c
ApplyPos(slot, first) ==
    [c \in Cells |-> IF InSlot(slot, c) THEN first + IndexIn(slot, c) - 1 ELSE pos[c]]
ApplyHead(slot) == slot[Len(slot)] + 1

(* seq_rm(seq, first, -1): frees every cell from position first on; the head *)
(* goes back to the first of them if that is lower.                          *)
Removed(p, first) == {c \in Cells : p[c] >= first}
RmNothing(p, first) == p   \* mutant
RmPos(p, first) == [c \in Cells |-> IF c \in Removed(p, first) THEN Free ELSE p[c]]
RmHead(p, h, first) ==
    IF \E c \in Removed(p, first) : c < h
    THEN CHOOSE c \in Removed(p, first) : \A d \in Removed(p, first) : c <= d
    ELSE h

(* get_n_kv, on the cells of p *)
Padded(n) == ((n + Pad - 1) \div Pad) * Pad
AtLeastOnePad(n) == IF Padded(n) > Pad THEN Padded(n) ELSE Pad
NKvOf(usedMaxP1) == IF AtLeastOnePad(usedMaxP1) < Size THEN AtLeastOnePad(usedMaxP1) ELSE Size
MaxP1Of(p) == IF \A c \in Cells : p[c] = Free THEN 0
              ELSE 1 + CHOOSE c \in Cells : p[c] # Free /\ \A d \in Cells : p[d] # Free => d <= c
Attended(p, nkv, c) == c < nkv /\ p[c] # Free

-----------------------------------------------------------------------------
(* The graph of one ubatch.  set_input_kq_mask fills the row of the first    *)
(* token, and for the others copies it and looks again only at the cells     *)
(* near the positions of the ubatch.                                         *)

FirstRow(p, nkv, first) == {c \in Cells : Attended(p, nkv, c) /\ p[c] <= first}
Near(p, nkv, first) == {c \in Cells : Attended(p, nkv, c) /\ p[c] + Margin >= first}
RowCopied(p, nkv, first, i) == FirstRow(p, nkv, first)   \* mutant
Row(p, nkv, first, i) ==
    IF i = 1 THEN FirstRow(p, nkv, first)
    ELSE (FirstRow(p, nkv, first) \ Near(p, nkv, first))
         \cup {c \in Near(p, nkv, first) : p[c] <= first + i - 1}

(* The keys and values of the slot are written first, then read through the *)
(* mask; Written is what a cell holds at that moment.                        *)
Written(u, c) == IF InSlot(u.slot, c)
                 THEN {<<p0 + u.at + IndexIn(u.slot, c) - 1, batch[u.at + IndexIn(u.slot, c)]>>}
                 ELSE kv[c]
Computed(u, p, nkv, i) == UNION {Written(u, c) : c \in Row(p, nkv, p0 + u.at, i)}

Shape(at, nkv) == [n |-> UbatchLen(at), outs |-> Outputs(at), nkv |-> nkv]
NoGraph == [shape |-> [n |-> 0, outs |-> 0, nkv |-> 0], ready |-> FALSE]
ReuseWhateverOutputs(shape) ==   \* mutant
    graph.shape.n = shape.n /\ graph.shape.nkv = shape.nkv
CanReuse(shape) == graph.shape = shape

-----------------------------------------------------------------------------
Init == /\ pos = [c \in Cells |-> Free] /\ head = 0 /\ kv = [c \in Cells |-> {}]
        /\ graph = NoGraph /\ logits = {}
        /\ pc = "idle" /\ batch = <<>> /\ p0 = 0 /\ taken = 0
        /\ placed = <<>> /\ undo = 0 /\ cur = 0 /\ ret = "done"
        /\ context = <<>> /\ sound = TRUE
        /\ before = [pos |-> [c \in Cells |-> Free], head |-> 0]

(* llama_memory_clear(mem, true) *)
Clear ==
    /\ pc = "idle"
    /\ pos' = [c \in Cells |-> Free] /\ head' = 0 /\ kv' = [c \in Cells |-> {}]
    /\ context' = <<>> /\ sound' = TRUE
    /\ UNCHANGED <<graph, logits, pc, batch, p0, taken, placed, undo, cur, ret, before>>

(* llama_decode(ctx, llama_batch_get_one(b)): the positions continue from    *)
(* the last one in the cache.                                                *)
Decode(b) ==
    /\ pc = "idle"
    /\ pc' = "place"
    /\ batch' = b /\ p0' = SeqPosMax + 1
    /\ taken' = 0 /\ placed' = <<>> /\ cur' = 1 /\ undo' = 0
    /\ before' = [pos |-> pos, head |-> head]
    /\ UNCHANGED <<cache, graph, logits, ret, context, sound>>

(* "done" is 0, "full" 1, "no memory" -2, "failed" -3. *)
Answer(r) == pc' = "idle" /\ ret' = r

(* GGML_ASSERT(n_tokens_all <= cparams.n_batch), an exception on R's thread. *)
TooLong ==
    /\ pc = "place" /\ placed = <<>> /\ Len(batch) > NBatch
    /\ Answer("thrown")
    /\ UNCHANGED <<cache, graph, logits, batch, p0, taken, placed, undo, cur, ghosts>>

(* prepare: find a slot for the next ubatch, remember what it replaces and   *)
(* put the ubatch there on trial.                                            *)
Place ==
    LET slot == FindSlot(UbatchLen(taken))
    IN  /\ pc = "place" /\ Len(batch) <= NBatch
        /\ slot # NoSlot
        /\ pos' = ApplyPos(slot, p0 + taken) /\ head' = ApplyHead(slot)
        /\ placed' = Append(placed, [at |-> taken, slot |-> slot, head |-> head,
                                     old |-> [i \in 1 .. Len(slot) |-> pos[slot[i]]]])
        /\ taken' = taken + UbatchLen(taken)
        /\ undo' = undo + 1
        /\ pc' = IF IsLastUbatch(taken) THEN "restore" ELSE "place"
        /\ UNCHANGED <<kv, graph, logits, batch, p0, cur, ret, ghosts>>

NoPlace ==
    /\ pc = "place" /\ Len(batch) <= NBatch
    /\ FindSlot(UbatchLen(taken)) = NoSlot
    /\ pc' = "restore"
    /\ UNCHANGED <<cache, graph, logits, batch, p0, taken, placed, undo, cur, ret, ghosts>>

(* ... and take them all back, the last one first. *)
RestoreCellsOnly ==   \* mutant
    LET slot == placed[undo].slot
        old == placed[undo].old
    IN  /\ pc = "restore" /\ undo > 0
        /\ pos' = [c \in Cells |-> IF InSlot(slot, c) THEN old[IndexIn(slot, c)] ELSE pos[c]]
        /\ undo' = undo - 1
        /\ UNCHANGED <<head, kv, graph, logits, pc, batch, p0, taken, placed, cur, ret, ghosts>>
Restore ==
    LET slot == placed[undo].slot
        old == placed[undo].old
    IN  /\ pc = "restore" /\ undo > 0
        /\ pos' = [c \in Cells |-> IF InSlot(slot, c) THEN old[IndexIn(slot, c)] ELSE pos[c]]
        /\ head' = placed[undo].head
        /\ undo' = undo - 1
        /\ UNCHANGED <<kv, graph, logits, pc, batch, p0, taken, placed, cur, ret, ghosts>>

Prepared == taken = Len(batch)

(* LLAMA_MEMORY_STATUS_FAILED_PREPARE; there is nothing memory_update(true)  *)
(* could optimise.                                                           *)
Refuse ==
    /\ pc = "restore" /\ undo = 0 /\ ~Prepared
    /\ Answer("full")
    /\ UNCHANGED <<cache, graph, logits, batch, p0, taken, placed, undo, cur, ghosts>>

(* output_reserve forgets the outputs of the previous decode. *)
Reserve ==
    /\ pc = "restore" /\ undo = 0 /\ Prepared
    /\ logits' = {}
    /\ \/ pc' = "compute" /\ UNCHANGED ret
       \/ Answer("no memory")
    /\ UNCHANGED <<cache, graph, batch, p0, taken, placed, undo, cur, ghosts>>

-----------------------------------------------------------------------------
(* process_ubatch for ubatch cur: apply, then reuse or build the graph, then *)
(* compute.                                                                  *)

Ubatch == placed[cur]
Slot == Ubatch.slot
FirstPos == p0 + Ubatch.at
Applied == ApplyPos(Slot, FirstPos)
NKv == NKvOf(MaxP1Of(Applied))
Wanted == Shape(Ubatch.at, NKv)
Built == [shape |-> Wanted, ready |-> TRUE]
GraphUsed == IF CanReuse(Wanted) THEN graph ELSE Built
UbatchTokens == SubSeq(batch, Ubatch.at + 1, Ubatch.at + Len(Slot))
Result(i) == Computed(Ubatch, Applied, GraphUsed.shape.nkv, i)

(* Any of the slot's cells may have been written when a computation stops    *)
(* half-way; what such a cell holds then depends on nothing one may rely on. *)
HalfWritten(W) == [c \in Cells |-> IF c \in W THEN {} ELSE kv[c]]
SlotCells == {Slot[i] : i \in 1 .. Len(Slot)}

Compute ==
    /\ pc = "compute" /\ GraphUsed.ready
    /\ pos' = Applied /\ head' = ApplyHead(Slot)
    /\ graph' = GraphUsed
    /\ kv' = [c \in Cells |-> IF InSlot(Slot, c) THEN Result(IndexIn(Slot, c)) ELSE kv[c]]
    /\ logits' = IF GraphUsed.shape.outs = 1 /\ Outputs(Ubatch.at) = 1 THEN Result(Len(Slot)) ELSE logits
    /\ context' = context \o UbatchTokens
    /\ IF cur = Len(placed) THEN Answer("done") /\ UNCHANGED cur
                            ELSE cur' = cur + 1 /\ UNCHANGED <<pc, ret>>
    /\ UNCHANGED <<batch, p0, taken, placed, undo, sound, before>>

(* The allocation or the computation fails with a status: the positions of   *)
(* this ubatch, and no others, leave the cache again.                        *)
Remove ==
    /\ pos' = RmPos(Applied, FirstPos)
    /\ head' = RmHead(Applied, ApplyHead(Slot), FirstPos)
AllocFails ==
    /\ pc = "compute" /\ ~CanReuse(Wanted)
    /\ graph' = [Built EXCEPT !.ready = FALSE]
    /\ Remove /\ Answer("no memory")
    /\ UNCHANGED <<kv, logits, batch, p0, taken, placed, undo, cur, ghosts>>
ComputeFails ==
    /\ pc = "compute" /\ GraphUsed.ready
    /\ graph' = GraphUsed
    /\ \E W \in SUBSET SlotCells : kv' = HalfWritten(W)
    /\ Remove /\ Answer("failed")
    /\ UNCHANGED <<logits, batch, p0, taken, placed, undo, cur, ghosts>>

(* A ggml abort on R's thread is an exception through llama_decode: nothing  *)
(* removes the positions again, and a graph that was not finished stays the  *)
(* one to reuse; set_input then aborts for the want of its buffers.          *)
Thrown ==
    /\ pos' = Applied /\ head' = ApplyHead(Slot)
    /\ context' = context \o UbatchTokens /\ sound' = FALSE
    /\ Answer("thrown")
    /\ UNCHANGED <<logits, batch, p0, taken, placed, undo, cur, before>>
BuildThrows ==
    /\ pc = "compute" /\ ~CanReuse(Wanted)
    /\ graph' = [Built EXCEPT !.ready = FALSE]
    /\ Thrown /\ UNCHANGED kv
InputsThrow ==
    /\ pc = "compute" /\ ~GraphUsed.ready
    /\ Thrown /\ UNCHANGED <<kv, graph>>
ComputeThrows ==
    /\ pc = "compute" /\ GraphUsed.ready
    /\ graph' = GraphUsed
    /\ \E W \in SUBSET SlotCells : kv' = HalfWritten(W)
    /\ Thrown

Next == \/ Clear
        \/ \E b \in Batches : Decode(b)
        \/ TooLong \/ Place \/ NoPlace \/ Restore \/ Refuse \/ Reserve
        \/ Compute \/ AllocFails \/ ComputeFails
        \/ BuildThrows \/ InputsThrow \/ ComputeThrows

Spec == Init /\ [][Next]_vars

-----------------------------------------------------------------------------
Prefix(n) == {<<i - 1, context[i]>> : i \in 1 .. n}

TypeOK ==
    /\ pos \in [Cells -> Cells \cup {Free}] /\ head \in 0 .. Size
    /\ pc \in {"idle", "place", "restore", "compute"}
    /\ p0 \in 0 .. Size /\ undo \in 0 .. Len(placed) /\ cur \in Nat /\ taken \in 0 .. Len(batch)
    /\ ret \in {"done", "full", "no memory", "failed", "thrown"}
    /\ Len(context) \in 0 .. Size /\ sound \in BOOLEAN
    /\ graph.ready \in BOOLEAN

(* The keys and values of every token were computed from exactly the tokens  *)
(* up to it, whatever failed, was refused or was cleared before, and however *)
(* the decodes were cut into ubatches.                                       *)
ContentIsOwnPast ==
    sound => \A c \in Used : pc \in {"idle", "compute"} => kv[c] = Prefix(pos[c] + 1)

(* After a decode that answers 0 the logits a sampler reads are those of the *)
(* last token, given all before it.                                          *)
LogitsAreOfTheLastToken ==
    (pc = "idle" /\ ret = "done" /\ sound /\ context # <<>>) => logits = Prefix(Len(context))

(* Placing the ubatches on trial and taking them back leaves cells and head  *)
(* as the decode found them, whether or not all of them found a slot.        *)
TrialLeavesNoTrace ==
    (pc = "restore" /\ undo = 0) => (pos = before.pos /\ head = before.head)

(* Every decode, as callers see it, is one of ContextService. *)
Left == IF pc = "idle" THEN <<>>
        ELSE IF pc = "compute" THEN SubSeq(batch, Ubatch.at + 1, Len(batch)) ELSE batch
Reply == IF pc = "idle" THEN ret ELSE "none"
Abstract == INSTANCE ContextService WITH
    Capacity <- Size, Longest <- NBatch, left <- Left, answer <- Reply
ImplementsContext == Abstract!Spec
=============================================================================
