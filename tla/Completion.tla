------------------------------ MODULE Completion ------------------------------
(***************************************************************************)
(* The life of a loaded model and of the completions that run on it: the   *)
(* EdgeModelContext behind an R handle, its KV cache, the three generation *)
(* loops of bindings.cpp (edge_completion_internal,                        *)
(* edge_completion_stream_internal, edge_completion_grammar_internal) and  *)
(* the R wrappers around them.                                             *)
(*                                                                         *)
(* R is single threaded, so calls nest instead of running side by side: a  *)
(* streaming call hands control back to R in its callback, and the         *)
(* callback may load, free, embed or complete on any handle it can reach.  *)
(*                                                                         *)
(* A token is the pair <<c, k>>: the k-th token (prompt first, generated   *)
(* tokens after) of call c.  The cache of a handle is the sequence of      *)
(* tokens llama.cpp has been fed since the cache was last cleared.         *)
(***************************************************************************)
EXTENDS Naturals, Sequences

CONSTANTS
  Handle,          \* external pointers the R program can hold
  NCtx,            \* llama_n_ctx: cells of a KV cache
  NBatch,          \* llama_n_batch: tokens one llama_decode accepts
  MaxCalls,        \* bound: completions started in one session
  Prompts,         \* lengths in tokens of the prompts given
  Texts,           \* lengths in tokens of the texts embedded
  Predicts,        \* values of n_predict asked for
  Timeouts,        \* whether timeout_seconds is given: a subset of BOOLEAN
  PoliteCallbacks  \* TRUE: a callback leaves alone the models of the calls
                   \* that are still generating; FALSE: it may use any model

ASSUME ContextAssumption == /\ NCtx \in Nat \ {0}
                            /\ NBatch \in Nat \ {0}
ASSUME BoundAssumption == /\ MaxCalls \in Nat
                          /\ Prompts \subseteq Nat
                          /\ Texts \subseteq Nat
                          /\ Predicts \subseteq Nat
                          /\ Timeouts \subseteq BOOLEAN
ASSUME PoliteAssumption == PoliteCallbacks \in BOOLEAN

VARIABLES
  handle,    \* [Handle -> {"unloaded", "open", "freed"}]
  cache,     \* [Handle -> Seq of tokens], the KV cache
  calls,     \* sequence of call frames, oldest first; nested calls are later
  crashed    \* the session died using a freed context

vars == <<handle, cache, calls, crashed>>

Op == {"completion", "stream", "grammar"}
Ended == {"done", "failed"}
\* Where a call is: feeding its prompt, at the head of the loop, at
\* llama_sampler_sample, at llama_decode.
Looping == {"prompt", "head", "sample", "decode"}
\* In safe_callback, before its clock check, after it, and in the user's function,
\* for a token and for the end.
Reporting == {"check", "call", "callback"}
Closing == {"lastcheck", "lastcall", "final"}
Phase == Looping \union Reporting \union Closing \union Ended
Reason == {"none", "rejected", "no_slot", "assert", "error"}

\* What R's callback is told: the running total, and whether it is the last word.
Event == [final : BOOLEAN, total : Nat]

Frame == [op : Op, h : Handle, plen : Nat, npred : Nat,
          timed : BOOLEAN,     \* timeout_seconds was given
          late : BOOLEAN,      \* and has elapsed
          due : Nat,           \* history: what it had given by then
          pc : Phase,
          fed : Nat,           \* tokens of this call in the cache
          i : Nat,             \* iterations of the generation loop begun
          made : Nat,          \* tokens in the response text
          heard : Seq(Event),  \* calls of the user's callback
          why : Reason]        \* why it failed: refused, for its size, another error

Call == DOMAIN calls

\* What a caller sees of a call before it returns: the callbacks of a stream; of a
\* completion, the text it will return.
Given(f) == IF f.op = "stream" THEN Len(f.heard) ELSE f.made

Running(c) == calls[c].pc \notin Ended

\* The call on top of the C++ stack.
Innermost(c) == /\ Running(c)
                /\ \A d \in Call : d > c => ~Running(d)

\* R code is executing: at the prompt, or in the callback of the innermost call.
RTurn == /\ ~crashed
         /\ \A c \in Call : Innermost(c) => calls[c].pc \in {"callback", "final"}

\* C++ code of call c is executing and at phase p.
At(c, p) == ~crashed /\ Innermost(c) /\ calls[c].pc = p

\* Call c will touch its context again.
Generating(c) == Running(c) /\ calls[c].pc \notin Closing

Busy(h) == \E c \in Call : Generating(c) /\ calls[c].h = h

MayUse(h) == PoliteCallbacks => ~Busy(h)

Alive(c) == handle[calls[c].h] = "open"

Init == /\ handle = [h \in Handle |-> "unloaded"]
        /\ cache = [h \in Handle |-> <<>>]
        /\ calls = <<>>
        /\ crashed = FALSE

-----------------------------------------------------------------------------
(***************************************************************************)
(* Handles.                                                                *)
(***************************************************************************)

\* A successful edge_load_model: model and context exist, the cache is empty.
Load(h) == /\ RTurn
           /\ handle[h] = "unloaded"
           /\ handle' = [handle EXCEPT ![h] = "open"]
           /\ UNCHANGED <<cache, calls, crashed>>

\* edge_free_model, or the finalizer of an unreachable handle.  The pointers
\* become NULL; a second free finds them so and does nothing.
Free(h) == /\ RTurn
           /\ MayUse(h)
           /\ handle[h] = "open"
           /\ handle' = [handle EXCEPT ![h] = "freed"]
           /\ cache' = [cache EXCEPT ![h] = <<>>]
           /\ UNCHANGED <<calls, crashed>>

-----------------------------------------------------------------------------
(***************************************************************************)
(* llama.cpp, as the loops use it.                                         *)
(***************************************************************************)

\* Call number 0 stands for the texts that edge_embeddings feeds.
Tokens(c, from, n) == [k \in 1..n |-> <<c, from + k>>]

\* What llama_decode of n more tokens can do on h: a batch over n_batch hits
\* an assertion, a batch over the free cells is refused with a code; anything
\* may fail in the backend (a code) or abort (an exception on R's thread).
Outcomes(h, n) == IF n > NBatch THEN {"assert"}
                  ELSE IF Len(cache[h]) + n > NCtx THEN {"no_slot"}
                  ELSE {"ok", "error", "abort"}

\* What a call that ends by it failed for.
Cause(o) == IF o = "abort" THEN "error" ELSE o

\* A decode puts its first k tokens into the cache: all of them when it succeeds,
\* none when it is refused before it starts, less than all with another code (the
\* ubatches before the one that failed stay), any number when an exception
\* unwinds it.
Decode(c, n, o) ==
  LET f == calls[c]
  IN  \E k \in 0..n :
        /\ cache' = [cache EXCEPT ![f.h] = @ \o Tokens(c, f.fed, k)]
        /\ o = "ok" => k = n
        /\ o \in {"assert", "no_slot"} => k = 0
        /\ o = "error" => k < n

\* Frame c becomes f.
Put(c, f) == calls' = [calls EXCEPT ![c] = f]

\* stop() or an exception that unwinds out of the call.
Raised(f, reason) == [f EXCEPT !.pc = "failed", !.why = reason]

\* The loop is over.  A completion returns its text; a stream first makes the
\* final callback.
LoopLeft(f) == [f EXCEPT !.pc = IF f.op = "stream" THEN "lastcheck" ELSE "done"]

\* edge_embeddings cuts each text to the context.
Truncated(n) == IF n < NCtx THEN n ELSE NCtx

\* It runs in one go, clearing the cache before each text, and keeps of the last one
\* what was decoded: nothing if it had no tokens, a part if its decode failed.  A text
\* over n_batch hits an assertion, which ends the call after its clear.
Embed(h) == /\ RTurn
            /\ MayUse(h)
            /\ handle[h] = "open"
            /\ \E n \in {0} \union {m \in {Truncated(t) : t \in Texts} : m <= NBatch} :
                 \E k \in 0..n : cache' = [cache EXCEPT ![h] = Tokens(0, 0, k)]
            /\ UNCHANGED <<handle, calls, crashed>>

-----------------------------------------------------------------------------
(***************************************************************************)
(* Starting a call: validation, then clear_kv_cache.                       *)
(***************************************************************************)

\* clear_kv_cache.
ClearedNot(h) == cache  \* mutation: the cache of an earlier call is kept
Cleared(h) == [cache EXCEPT ![h] = <<>>]

\* edge_completion and edge_grammar_completion clamp n_predict, the stream does not.
Clamp(op, n) == IF op # "stream" /\ n < 1 THEN 1 ELSE n

Refused(op, h, plen, n) == \/ handle[h] # "open"
                           \/ Clamp(op, n) = 0
                           \/ plen = 0
                           \/ plen >= NCtx

Begin(op, h, plen, n, timed) ==
  LET f == [op |-> op, h |-> h, plen |-> plen, npred |-> Clamp(op, n),
            timed |-> timed, late |-> FALSE, due |-> 0, pc |-> "prompt", fed |-> 0,
            i |-> 0, made |-> 0, heard |-> <<>>, why |-> "none"]
  IN  /\ RTurn
      /\ MayUse(h)
      /\ Len(calls) < MaxCalls
      /\ op = "grammar" => ~timed
      /\ IF Refused(op, h, plen, n)
         THEN /\ calls' = Append(calls, Raised(f, "rejected"))
              /\ UNCHANGED cache
         ELSE /\ calls' = Append(calls, f)
              /\ cache' = Cleared(h)
      /\ UNCHANGED <<handle, crashed>>

ChunkWhole(f) == f.plen - f.fed  \* mutation: the prompt in a single batch

\* One iteration of decode_prompt; after the last one the sampler chain is built.
Chunk(f) == IF f.plen - f.fed < NBatch THEN f.plen - f.fed ELSE NBatch

FeedPrompt(c) ==
  LET f == calls[c]
      n == Chunk(f)
      g == [f EXCEPT !.fed = @ + n,
                     !.pc = IF f.fed + n = f.plen THEN "head" ELSE "prompt"]
  IN  /\ At(c, "prompt")
      /\ \E o \in Outcomes(f.h, n) :
           /\ Decode(c, n, o)
           /\ Put(c, IF o = "ok" THEN g ELSE Raised(f, Cause(o)))
      /\ UNCHANGED <<handle, crashed>>

\* llama_sampler_init_grammar returns NULL: the chain exists, the loop has not begun.
RejectGrammar(c) == /\ At(c, "head")
                    /\ calls[c].op = "grammar"
                    /\ calls[c].i = 0
                    /\ Put(c, Raised(calls[c], "error"))
                    /\ UNCHANGED <<handle, cache, crashed>>

-----------------------------------------------------------------------------
(***************************************************************************)
(* The generation loop.                                                    *)
(***************************************************************************)

\* Rcpp::checkUserInterrupt at the head of every iteration.
Interrupt(c) == /\ At(c, "head")
                /\ calls[c].i < calls[c].npred
                /\ Put(c, Raised(calls[c], "error"))
                /\ UNCHANGED <<handle, cache, crashed>>

ExpiredNever(f) == FALSE  \* mutation: the clock is not read in the loop
Expired(f) == f.op = "completion" /\ f.late

\* Only edge_completion_internal looks at the clock, once per iteration.
TimeOut(c) == /\ At(c, "head")
              /\ calls[c].i < calls[c].npred
              /\ Expired(calls[c])
              /\ Put(c, Raised(calls[c], "error"))
              /\ UNCHANGED <<handle, cache, crashed>>

\* mutation: one iteration too many
GoOnOnceMore(c) == /\ At(c, "head")
                   /\ calls[c].i <= calls[c].npred
                   /\ ~Expired(calls[c])
                   /\ Put(c, [calls[c] EXCEPT !.pc = "sample"])
                   /\ UNCHANGED <<handle, cache, crashed>>

\* Neither interrupted nor timed out: the iteration goes on to sample.  The clock
\* is not read again before the next one.
GoOn(c) == /\ At(c, "head")
           /\ calls[c].i < calls[c].npred
           /\ ~Expired(calls[c])
           /\ Put(c, [calls[c] EXCEPT !.pc = "sample"])
           /\ UNCHANGED <<handle, cache, crashed>>

CanSample(c) == At(c, "sample") /\ Alive(c)

SampleEndOfGeneration(c) == /\ CanSample(c)
                            /\ Put(c, LoopLeft(calls[c]))
                            /\ UNCHANGED <<handle, cache, crashed>>

\* An assertion or an exception while sampling, for example a grammar that no
\* longer accepts the token, unwinds through the call.
SampleAborts(c) == /\ CanSample(c)
                   /\ Put(c, Raised(calls[c], "error"))
                   /\ UNCHANGED <<handle, cache, crashed>>

\* mutation: a skipped token is counted in the response
SampleUndecodableCounted(c) ==
  /\ CanSample(c)
  /\ calls[c].op # "grammar"
  /\ Put(c, [calls[c] EXCEPT !.i = @ + 1, !.made = @ + 1, !.pc = "head"])
  /\ UNCHANGED <<handle, cache, crashed>>

\* llama_token_to_piece fails twice: warning and `continue`, nothing is decoded.
\* The grammar loop has no such branch and decodes the token regardless.
SampleUndecodable(c) == /\ CanSample(c)
                        /\ calls[c].op # "grammar"
                        /\ Put(c, [calls[c] EXCEPT !.i = @ + 1, !.pc = "head"])
                        /\ UNCHANGED <<handle, cache, crashed>>

\* A token whose piece is empty adds nothing to the text and calls nobody.
SampleSilent(c) == /\ CanSample(c)
                   /\ Put(c, [calls[c] EXCEPT !.i = @ + 1, !.pc = "decode"])
                   /\ UNCHANGED <<handle, cache, crashed>>

\* A token with text is appended to the response; the stream goes on to report it.
SampleText(c) ==
  LET f == calls[c]
  IN  /\ CanSample(c)
      /\ Put(c, [f EXCEPT !.i = @ + 1, !.made = @ + 1,
                          !.pc = IF f.op = "stream" THEN "check" ELSE "decode"])
      /\ UNCHANGED <<handle, cache, crashed>>

-----------------------------------------------------------------------------
(***************************************************************************)
(* The callback of a stream: safe_callback looks at the clock and then     *)
(* calls the user's function.                                              *)
(***************************************************************************)

\* In time, the user is called next.  Past the deadline safe_callback answers FALSE
\* for him: that ends the loop; after the loop nobody looks at the answer.
CheckClock(c) ==
  LET f == calls[c]
      next == CASE f.pc = "check" /\ ~f.late     -> [f EXCEPT !.pc = "call"]
                [] f.pc = "check" /\ f.late      -> LoopLeft(f)
                [] f.pc = "lastcheck" /\ ~f.late -> [f EXCEPT !.pc = "lastcall"]
                [] f.pc = "lastcheck" /\ f.late  -> [f EXCEPT !.pc = "done"]
  IN  /\ \E p \in {"check", "lastcheck"} : At(c, p)
      /\ Put(c, next)
      /\ UNCHANGED <<handle, cache, crashed>>

\* mutation: the event carries the loop's position instead of the total
ToldPosition(f) ==
  LET last == f.pc = "lastcall"
  IN  [f EXCEPT !.pc = IF last THEN "final" ELSE "callback",
                !.heard = Append(@, [final |-> last, total |-> f.i])]

\* The user's function is called with the running total.
Told(f) ==
  LET last == f.pc = "lastcall"
  IN  [f EXCEPT !.pc = IF last THEN "final" ELSE "callback",
                !.heard = Append(@, [final |-> last, total |-> f.made])]

CallUser(c) == /\ \E p \in {"call", "lastcall"} : At(c, p)
               /\ Put(c, Told(calls[c]))
               /\ UNCHANGED <<handle, cache, crashed>>

\* TRUE goes on, FALSE (or an error, or a value that is no flag) stops, and an
\* interrupt in any of the R code unwinds through the call.
CallbackContinues(c) == /\ At(c, "callback")
                        /\ Put(c, [calls[c] EXCEPT !.pc = "decode"])
                        /\ UNCHANGED <<handle, cache, crashed>>

CallbackStops(c) == /\ At(c, "callback")
                    /\ Put(c, LoopLeft(calls[c]))
                    /\ UNCHANGED <<handle, cache, crashed>>

CallbackUnwinds(c) == /\ \E p \in Reporting \union Closing : At(c, p)
                      /\ Put(c, Raised(calls[c], "error"))
                      /\ UNCHANGED <<handle, cache, crashed>>

\* Feed the sampled token back.  A code ends the loop quietly, an abort raises.
DecodeToken(c) ==
  LET f == calls[c]
  IN  /\ At(c, "decode")
      /\ Alive(c)
      /\ \E o \in Outcomes(f.h, 1) :
           /\ Decode(c, 1, o)
           /\ Put(c, CASE o = "ok" -> [f EXCEPT !.fed = @ + 1, !.pc = "head"]
                       [] o \in {"assert", "abort"} -> Raised(f, Cause(o))
                       [] OTHER -> LoopLeft(f))
      /\ UNCHANGED <<handle, crashed>>

\* mutation: the budget is one of tokens in the text, not of iterations
ExhaustBudgetOfText(c) == /\ At(c, "head")
                          /\ calls[c].made = calls[c].npred
                          /\ Put(c, LoopLeft(calls[c]))
                          /\ UNCHANGED <<handle, cache, crashed>>

ExhaustBudget(c) == /\ At(c, "head")
                    /\ calls[c].i = calls[c].npred
                    /\ Put(c, LoopLeft(calls[c]))
                    /\ UNCHANGED <<handle, cache, crashed>>

\* The final callback came back, whatever its value: the stream returns its summary.
FinalReturns(c) == /\ At(c, "final")
                   /\ Put(c, [calls[c] EXCEPT !.pc = "done"])
                   /\ UNCHANGED <<handle, cache, crashed>>

\* The loop uses edge_ctx->ctx after a callback freed it: a NULL dereference.
Crash(c) == /\ \E p \in {"sample", "decode"} : At(c, p)
            /\ ~Alive(c)
            /\ crashed' = TRUE
            /\ UNCHANGED <<handle, cache, calls>>

\* timeout_seconds elapses, whatever the call is doing.
DeadlinePasses(c) == /\ ~crashed
                     /\ Running(c)
                     /\ calls[c].timed /\ ~calls[c].late
                     /\ calls' = [calls EXCEPT ![c].late = TRUE,
                                              ![c].due = Given(calls[c])]
                     /\ UNCHANGED <<handle, cache, crashed>>

-----------------------------------------------------------------------------
Sample(c) == \/ SampleAborts(c)
             \/ SampleEndOfGeneration(c)
             \/ SampleUndecodable(c)
             \/ SampleSilent(c)
             \/ SampleText(c)

CallbackReturns(c) == \/ CallbackContinues(c)
                      \/ CallbackStops(c)
                      \/ CallbackUnwinds(c)

Step(c) == \/ FeedPrompt(c)
           \/ RejectGrammar(c)
           \/ Interrupt(c)
           \/ TimeOut(c)
           \/ GoOn(c)
           \/ Sample(c)
           \/ CheckClock(c)
           \/ CallUser(c)
           \/ CallbackReturns(c)
           \/ DecodeToken(c)
           \/ ExhaustBudget(c)
           \/ FinalReturns(c)
           \/ Crash(c)

Start == \E op \in Op, h \in Handle, plen \in Prompts,
            n \in Predicts, timed \in Timeouts : Begin(op, h, plen, n, timed)

Next == \/ \E h \in Handle : Load(h) \/ Free(h) \/ Embed(h)
        \/ Start
        \/ \E c \in Call : Step(c) \/ DeadlinePasses(c)

Spec == Init /\ [][Next]_vars

\* A call that can take a step takes one, and a callback returns: R runs the
\* code of the innermost call until it leaves.
Fairness == \A c \in 1..MaxCalls : WF_vars(c \in Call /\ Step(c))

FairSpec == Spec /\ Fairness

-----------------------------------------------------------------------------
TypeOK == /\ handle \in [Handle -> {"unloaded", "open", "freed"}]
          /\ cache \in [Handle -> Seq((0..MaxCalls) \X Nat)]
          /\ calls \in Seq(Frame)
          /\ Len(calls) <= MaxCalls
          /\ crashed \in BOOLEAN

\* Each completion starts from an empty context and only ever sees itself: while
\* a call generates, the cache of its model is exactly the tokens that call has
\* fed, in order (clear_kv_cache, decode_prompt, the decode of each token).
OwnContext ==
  \A c \in Call : Generating(c) => cache[calls[c].h] = Tokens(c, 0, calls[c].fed)

\* A prompt that passes the length check never fails for its size: decode_prompt
\* stays under n_batch, and the cleared cache has room for all of it.
PromptAlwaysFits == \A c \in Call : calls[c].why \notin {"assert", "no_slot"}

\* The text never runs ahead of the context by more than the token in hand: a
\* token was fed back before the next was sampled, skipped tokens appear in neither.
TextFollowsContext ==
  \A c \in Call : LET f == calls[c]
                      answered == f.fed - f.plen  \* generated tokens fed back
                  IN  /\ f.made <= f.npred
                      /\ f.made > 0 => f.fed >= f.plen /\ f.made <= answered + 1
                      /\ f.pc = "head" => f.made <= answered

\* The user's callback hears totals 1, 2, 3, ... without a gap, then at most one
\* final event whose total is the number of tokens in the response; a stream
\* that returns before its deadline has told the user everything.
CallbackProtocol ==
  \A c \in Call :
    LET f == calls[c]
        n == Len(f.heard)
    IN  /\ \A j \in 1..n : LET e == f.heard[j]
                           IN  IF e.final THEN j = n /\ e.total = f.made
                                          ELSE e.total = j /\ j <= f.made
        /\ f.op = "stream" /\ f.pc = "done" /\ ~f.late
             => n = f.made + 1 /\ f.heard[n].final
        /\ f.op # "stream" => n = 0

\* The clock is read before the work: past its deadline a completion's text gains
\* at most the token that was let through, and a stream makes at most the callback
\* that was let through, of the token or of the end, and not both.
DeadlineHolds ==
  \A c \in Call : LET f == calls[c]
                  IN  f.late /\ f.op # "grammar" => Given(f) <= f.due + 1

\* Every completion that is begun comes back, with its text or with an error,
\* provided the callbacks do: skipped tokens, a full cache or nested calls never
\* leave the loop turning.
Returned(c) == c \in Call => crashed \/ ~Running(c)
EveryCallReturns == \A c \in 1..MaxCalls : (c \in Call) ~> Returned(c)

=============================================================================
