--------------------------- MODULE Completion_proofs ---------------------------
(***************************************************************************)
(* Proofs about Completion: its types; that text, callbacks and context    *)
(* agree and deadlines are kept (FrameInv), whatever callbacks do; that    *)
(* with polite callbacks each completion only ever sees its own tokens     *)
(* (OwnInv), and that the loops implement CompletionService (ServiceInv).  *)
(***************************************************************************)
EXTENDS CompletionRefines, SequenceTheorems, TLAPS

-----------------------------------------------------------------------------
(* Frames and tokens                                                       *)

\* Token sequences of a call are sequences, of the length asked for.
LEMMA TokensType ==
  ASSUME NEW S, NEW c \in S, NEW from \in Nat, NEW n \in Nat
  PROVE  /\ Tokens(c, from, n) \in Seq(S \X Nat)
         /\ Len(Tokens(c, from, n)) = n
         /\ \A k \in 1..n : Tokens(c, from, n)[k] = <<c, from + k>>
<1> DEFINE e(k) == <<c, from + k>>
<1>1. \A k \in 1..n : e(k) \in S \X Nat
  OBVIOUS
<1>2. [k \in 1..n |-> e(k)] \in Seq(S \X Nat)
  BY <1>1, IsASeq
<1>3. QED
  BY <1>2, LenProperties DEF Tokens

LEMMA TokensLen ==
  ASSUME NEW c, NEW n \in Nat
  PROVE  Len(Tokens(c, 0, n)) = n
<1>1. c \in {c} /\ 0 \in Nat
  OBVIOUS
<1>2. /\ Tokens(c, 0, n) \in Seq({c} \X Nat)
      /\ Len(Tokens(c, 0, n)) = n
  BY <1>1, TokensType
<1>3. QED
  BY <1>2

\* What a call has fed, followed by what it feeds next, is what it has fed then.
LEMMA TokensConcat ==
  ASSUME NEW S, NEW c \in S, NEW n \in Nat, NEW m \in Nat
  PROVE  Tokens(c, 0, n) \o Tokens(c, n, m) = Tokens(c, 0, n + m)
<1> DEFINE s == Tokens(c, 0, n)
           t == Tokens(c, n, m)
           u == Tokens(c, 0, n + m)
<1>0. 0 \in Nat /\ n + m \in Nat
  OBVIOUS
<1>1. /\ s \in Seq(S \X Nat) /\ Len(s) = n
      /\ \A k \in 1..n : s[k] = <<c, 0 + k>>
  BY <1>0, TokensType
<1>2. /\ t \in Seq(S \X Nat) /\ Len(t) = m
      /\ \A k \in 1..m : t[k] = <<c, n + k>>
  BY <1>0, TokensType
<1>3. /\ u \in Seq(S \X Nat) /\ Len(u) = n + m
      /\ \A k \in 1..(n + m) : u[k] = <<c, 0 + k>>
  BY <1>0, TokensType
<1> HIDE DEF s, t, u
<1>4. /\ s \o t \in Seq(S \X Nat)
      /\ Len(s \o t) = n + m
      /\ \A i \in 1..(n + m) : (s \o t)[i] = IF i <= n THEN s[i] ELSE t[i - n]
  BY <1>1, <1>2, ConcatProperties
<1>5. ASSUME NEW i \in 1..(n + m) PROVE (s \o t)[i] = u[i]
  <2>0. u[i] = <<c, i>>
    BY <1>3
  <2>1. CASE i <= n
    <3>1. (s \o t)[i] = s[i]
      BY <1>4, <2>1
    <3>2. s[i] = <<c, i>>
      BY <1>1, <2>1
    <3>3. QED
      BY <2>0, <3>1, <3>2
  <2>2. CASE ~(i <= n)
    <3>1. i - n \in 1..m /\ n + (i - n) = i
      BY <2>2
    <3>2. (s \o t)[i] = t[i - n]
      BY <1>4, <2>2
    <3>3. t[i - n] = <<c, n + (i - n)>>
      BY <1>2, <3>1
    <3>4. QED
      BY <2>0, <3>1, <3>2, <3>3
  <2>3. QED
    BY <2>1, <2>2
<1>6. s \o t = u
  BY <1>3, <1>4, <1>5, SeqEqual
<1>7. QED
  BY <1>6 DEF s, t, u

\* Leaving a call, by an error or at the end of its loop, keeps it a frame and
\* keeps what the other parts of the state refer to.
LEMMA LeavingFrame ==
  ASSUME NEW f \in Frame, NEW r \in Reason
  PROVE  /\ Raised(f, r) \in Frame
         /\ Raised(f, r).pc = "failed" /\ Raised(f, r).why = r
         /\ LoopLeft(f) \in Frame
         /\ LoopLeft(f).pc \in {"done", "lastcheck"}
         /\ LoopLeft(f).h = f.h /\ LoopLeft(f).why = f.why
         /\ Raised(f, r).h = f.h
         /\ Raised(f, r).fed = f.fed /\ LoopLeft(f).fed = f.fed
BY DEF Raised, LoopLeft, Frame, Phase, Ended, Closing

\* A frame at another place of the code.
LEMMA PlacedFrame ==
  ASSUME NEW f \in Frame, NEW p \in Phase
  PROVE  LET g == [f EXCEPT !.pc = p]
         IN  g \in Frame /\ g.pc = p /\ g.h = f.h /\ g.why = f.why /\ g.fed = f.fed
BY DEF Frame

LEMMA Phases ==
  /\ {"prompt", "head", "sample", "decode", "check", "call", "callback",
      "lastcheck", "lastcall", "final", "done", "failed"} = Phase
  /\ Ended \union Closing = {"lastcheck", "lastcall", "final", "done", "failed"}
BY DEF Phase, Looping, Reporting, Closing, Ended

\* Replacing one frame by another.
LEMMA PutFrame ==
  ASSUME calls \in Seq(Frame), NEW c \in Call, NEW f \in Frame,
         calls' = [calls EXCEPT ![c] = f]
  PROVE  /\ calls' \in Seq(Frame)
         /\ Len(calls') = Len(calls)
         /\ Call' = Call
         /\ calls'[c] = f
         /\ \A d \in Call : d # c => calls'[d] = calls[d]
<1>1. Call = 1..Len(calls)
  BY LenProperties DEF Call
<1>2. /\ calls' \in Seq(Frame) /\ Len(calls') = Len(calls)
      /\ \A d \in 1..Len(calls) : calls'[d] = IF d = c THEN f ELSE calls[d]
  BY <1>1, ExceptSeq
<1>3. Call' = 1..Len(calls')
  BY <1>2, LenProperties DEF Call
<1>4. QED
  BY <1>1, <1>2, <1>3

-----------------------------------------------------------------------------
(* Most steps of a call only move its frame: they leave the caches and the *)
(* handles alone, feed nothing and do not go back to the prompt.           *)

Quiet(c, f) == /\ f \in Frame
               /\ f.h = calls[c].h /\ f.fed = calls[c].fed
               /\ f.pc # "prompt"
               /\ f.pc \in Ended \union Closing \/ Generating(c)
               /\ f.why = calls[c].why \/ f.why \notin {"assert", "no_slot"}
               /\ Put(c, f)
               /\ UNCHANGED <<handle, cache, crashed>>

\* A call feeds the prompt only while some of it is left, and all of it fits.
Feeding == \A c \in Call : calls[c].pc = "prompt"
                              => /\ calls[c].fed < calls[c].plen
                                 /\ calls[c].plen < NCtx

LEMMA SampleTextIsQuiet ==
  ASSUME TypeOK, NEW c \in Call, SampleText(c)
  PROVE  \E f : Quiet(c, f)
<1> DEFINE f == calls[c]
           p == IF f.op = "stream" THEN "check" ELSE "decode"
           g == [f EXCEPT !.i = @ + 1, !.made = @ + 1, !.pc = p]
<1>0. f \in Frame
  BY ElementOfSeq, LenProperties DEF TypeOK, Call
<1>1. p \in Phase /\ p # "prompt"
  BY Phases
<1> HIDE DEF p
<1>2. g \in Frame /\ g.h = f.h /\ g.fed = f.fed /\ g.why = f.why /\ g.pc = p
  <2>1. f.i + 1 \in Nat /\ f.made + 1 \in Nat
    BY <1>0 DEF Frame
  <2>2. QED
    BY <1>0, <1>1, <2>1 DEF Frame
<1>3. Generating(c)
  BY DEF SampleText, CanSample, At, Innermost, Generating, Closing
<1>4. Put(c, g) /\ UNCHANGED <<handle, cache, crashed>>
  BY DEF SampleText, p
<1> HIDE DEF g
<1>5. QED
  BY <1>1, <1>2, <1>3, <1>4 DEF Quiet

LEMMA CallUserIsQuiet ==
  ASSUME TypeOK, NEW c \in Call, CallUser(c)
  PROVE  \E f : Quiet(c, f)
<1> DEFINE f == calls[c]
           last == f.pc = "lastcall"
           e == [final |-> last, total |-> f.made]
           p == IF last THEN "final" ELSE "callback"
           g == [f EXCEPT !.pc = p, !.heard = Append(@, e)]
<1>0. f \in Frame
  BY ElementOfSeq, LenProperties DEF TypeOK, Call
<1>1. p \in Phase /\ p # "prompt" /\ (last => p \in Closing)
  BY Phases DEF Closing
<1>2. Append(f.heard, e) \in Seq(Event)
  <2>1. last \in BOOLEAN /\ f.made \in Nat /\ f.heard \in Seq(Event)
    BY <1>0 DEF Frame
  <2> HIDE DEF last
  <2>2. e \in Event
    BY <2>1 DEF Event
  <2>3. QED
    BY <2>1, <2>2
<1>3. ~last => Generating(c)
  BY DEF CallUser, At, Innermost, Generating, Closing
<1>4. Put(c, g) /\ UNCHANGED <<handle, cache, crashed>>
  BY DEF CallUser, Told
<1> HIDE DEF p, e, last
<1>5. g \in Frame /\ g.h = f.h /\ g.fed = f.fed /\ g.why = f.why /\ g.pc = p
  BY <1>0, <1>1, <1>2 DEF Frame
<1> HIDE DEF g
<1>6. QED
  BY <1>1, <1>3, <1>4, <1>5 DEF Quiet

LEMMA StepCases ==
  ASSUME TypeOK, NEW c \in Call, Step(c)
  PROVE  \/ \E f : Quiet(c, f)
         \/ FeedPrompt(c)
         \/ DecodeToken(c)
         \/ Crash(c)
<1> DEFINE f == calls[c]
<1>0. f \in Frame /\ "error" \in Reason
  BY ElementOfSeq, LenProperties DEF TypeOK, Call, Reason
<1>1. /\ Raised(f, "error") \in Frame
      /\ Raised(f, "error").pc = "failed" /\ Raised(f, "error").why = "error"
      /\ Raised(f, "error").h = f.h /\ Raised(f, "error").fed = f.fed
  BY <1>0, LeavingFrame
<1>2. /\ LoopLeft(f) \in Frame
      /\ LoopLeft(f).pc \in {"done", "lastcheck"}
      /\ LoopLeft(f).h = f.h /\ LoopLeft(f).why = f.why
      /\ LoopLeft(f).fed = f.fed
  BY <1>0, LeavingFrame
<1>3. ASSUME NEW p \in Phase, Put(c, [f EXCEPT !.pc = p]),
             UNCHANGED <<handle, cache, crashed>>,
             p # "prompt", p \in Ended \union Closing \/ Generating(c)
      PROVE  \E g : Quiet(c, g)
  <2> DEFINE g == [f EXCEPT !.pc = p]
  <2>1. g \in Frame /\ g.pc = p /\ g.h = f.h /\ g.why = f.why /\ g.fed = f.fed
    BY <1>0, PlacedFrame
  <2> HIDE DEF g
  <2>2. Quiet(c, g)
    BY <1>3, <2>1 DEF Quiet, g
  <2>3. QED
    BY <2>2
<1>4. CASE Put(c, Raised(f, "error")) /\ UNCHANGED <<handle, cache, crashed>>
  <2>1. Quiet(c, Raised(f, "error"))
    BY <1>1, <1>4 DEF Quiet, Ended
  <2>2. QED
    BY <2>1
<1>5. CASE Put(c, LoopLeft(f)) /\ UNCHANGED <<handle, cache, crashed>>
  <2>1. Quiet(c, LoopLeft(f))
    BY <1>2, <1>5 DEF Quiet, Ended, Closing
  <2>2. QED
    BY <2>1
<1>6. CASE SampleUndecodable(c) \/ SampleSilent(c)
  <2>1. PICK p \in {"head", "decode"} : Put(c, [f EXCEPT !.i = @ + 1, !.pc = p])
    BY <1>6 DEF SampleUndecodable, SampleSilent
  <2> DEFINE g == [f EXCEPT !.i = @ + 1, !.pc = p]
  <2>2. f.i + 1 \in Nat /\ p \in Phase
    BY <1>0, Phases DEF Frame
  <2>3. g \in Frame /\ g.pc = p /\ g.h = f.h /\ g.why = f.why /\ g.fed = f.fed
    BY <1>0, <2>2 DEF Frame
  <2>4. Generating(c) /\ UNCHANGED <<handle, cache, crashed>>
    BY <1>6 DEF SampleUndecodable, SampleSilent, CanSample, At, Innermost, Generating, Closing
  <2> HIDE DEF g
  <2>5. Quiet(c, g)
    BY <2>1, <2>3, <2>4 DEF Quiet, g
  <2>6. QED
    BY <2>5
<1>7. CASE GoOn(c)
  <2>1. Generating(c)
    BY <1>7 DEF GoOn, At, Innermost, Generating, Closing
  <2>2. QED
    BY <1>3, <1>7, <2>1, Phases DEF GoOn
<1>8. CASE SampleText(c)
  BY <1>8, SampleTextIsQuiet
<1>9. CASE CallbackContinues(c)
  <2>1. Generating(c)
    BY <1>9 DEF CallbackContinues, At, Innermost, Generating, Closing
  <2>2. QED
    BY <1>3, <1>9, <2>1, Phases DEF CallbackContinues
<1>10. CASE FinalReturns(c)
  BY <1>3, <1>10, Phases DEF FinalReturns, Ended
<1>11. CASE CheckClock(c)
  <2>1. /\ f.pc = "check" => Generating(c)
        /\ UNCHANGED <<handle, cache, crashed>>
    BY <1>11 DEF CheckClock, At, Innermost, Generating, Closing
  <2>2. \/ Put(c, LoopLeft(f))
        \/ f.pc = "check" /\ Put(c, [f EXCEPT !.pc = "call"])
        \/ \E p \in {"lastcall", "done"} : Put(c, [f EXCEPT !.pc = p])
    BY <1>0, <1>11 DEF CheckClock, At, Frame
  <2>3. QED
    BY <1>3, <1>5, <2>1, <2>2, Phases DEF Ended, Closing
<1>12. CASE CallUser(c)
  BY <1>12, CallUserIsQuiet
<1>13. QED
  BY <1>4, <1>5, <1>6, <1>7, <1>8, <1>9, <1>10, <1>11, <1>12
     DEF Step, RejectGrammar, Interrupt, TimeOut, Sample, SampleAborts,
         SampleEndOfGeneration,
         CallbackReturns, CallbackStops, CallbackUnwinds, ExhaustBudget

-----------------------------------------------------------------------------
(* Types                                                                   *)

TypeInv == TypeOK /\ Feeding

LEMMA BeginType ==
  ASSUME TypeInv, NEW op \in Op, NEW h \in Handle, NEW plen \in Prompts,
         NEW n \in Predicts, NEW timed \in BOOLEAN, Begin(op, h, plen, n, timed)
  PROVE  /\ TypeInv'
         /\ Len(calls') = Len(calls) + 1
         /\ \A d \in Call : calls'[d] = calls[d]
         /\ Call' = Call \union {Len(calls) + 1}
         /\ LET g == calls'[Len(calls) + 1]
            IN  \/ /\ g.pc = "failed" /\ g.why = "rejected"
                   /\ UNCHANGED cache
                \/ /\ g.pc = "prompt" /\ g.why = "none"
                   /\ g.h = h /\ g.fed = 0
                   /\ handle[h] = "open"
                   /\ cache' = [cache EXCEPT ![h] = <<>>]
<1> DEFINE f == [op |-> op, h |-> h, plen |-> plen, npred |-> Clamp(op, n),
                 timed |-> timed, late |-> FALSE, due |-> 0, pc |-> "prompt", fed |-> 0,
                 i |-> 0, made |-> 0, heard |-> <<>>, why |-> "none"]
           new == Len(calls) + 1
<1>1. /\ calls \in Seq(Frame) /\ Len(calls) \in Nat /\ Call = 1..Len(calls)
  BY LenProperties DEF TypeInv, TypeOK, Call
<1>2. f \in Frame
  <2>1. Clamp(op, n) \in Nat /\ plen \in Nat
    BY BoundAssumption DEF Clamp
  <2>2. <<>> \in Seq(Event)
    OBVIOUS
  <2>3. QED
    BY <2>1, <2>2, Phases DEF Frame, Reason
<1>3. /\ Raised(f, "rejected") \in Frame
      /\ Raised(f, "rejected").pc = "failed"
      /\ Raised(f, "rejected").why = "rejected"
  <2>1. "rejected" \in Reason
    BY DEF Reason
  <2> HIDE DEF f
  <2>2. QED
    BY <1>2, <2>1, LeavingFrame
<1>4. f.pc = "prompt" /\ f.why = "none" /\ f.h = h /\ f.fed = 0 /\ f.plen = plen
  OBVIOUS
<1>5. PICK g \in {f, Raised(f, "rejected")} :
        /\ calls' = Append(calls, g)
        /\ g = f => /\ ~Refused(op, h, plen, n)
                    /\ cache' = [cache EXCEPT ![h] = <<>>]
        /\ g # f => UNCHANGED cache
  BY <1>3, <1>4 DEF Begin, Cleared
<1>6. /\ Len(calls) < MaxCalls /\ UNCHANGED <<handle, crashed>>
  BY DEF Begin
<1> HIDE DEF f
<1>7. /\ g \in Frame
      /\ calls' \in Seq(Frame) /\ Len(calls') = new
      /\ \A d \in 1..Len(calls) : calls'[d] = calls[d]
      /\ calls'[new] = g
  BY <1>1, <1>2, <1>3, <1>5
<1>8. Call' = 1..new /\ Call' = Call \union {new}
  BY <1>1, <1>7, LenProperties DEF Call
<1>9. g = f => handle[h] = "open" /\ plen < NCtx /\ 0 < plen
  BY <1>5, BoundAssumption, ContextAssumption DEF Refused
<1>10. cache' \in [Handle -> Seq((0..MaxCalls) \X Nat)]
  <2>1. <<>> \in Seq((0..MaxCalls) \X Nat)
    OBVIOUS
  <2>2. QED
    BY <1>5, <2>1 DEF TypeInv, TypeOK
<1>11. TypeOK'
  BY <1>1, <1>6, <1>7, <1>10, BoundAssumption DEF TypeInv, TypeOK
<1>12. Feeding'
  <2>1. ASSUME NEW d \in Call', calls'[d].pc = "prompt"
        PROVE  calls'[d].fed < calls'[d].plen /\ calls'[d].plen < NCtx
    <3>1. CASE d = new
      BY <1>3, <1>4, <1>5, <1>7, <1>9, <2>1, <3>1
    <3>2. CASE d \in Call
      BY <1>1, <1>7, <2>1, <3>2 DEF TypeInv, Feeding
    <3>3. QED
      BY <1>8, <3>1, <3>2
  <2>2. QED
    BY <2>1 DEF Feeding
<1>13. QED
  BY <1>1, <1>3, <1>4, <1>5, <1>7, <1>8, <1>9, <1>11, <1>12 DEF TypeInv

LEMMA QuietType ==
  ASSUME TypeInv, NEW c \in Call, NEW f, Quiet(c, f)
  PROVE  TypeInv'
<1>1. /\ calls' \in Seq(Frame) /\ Len(calls') = Len(calls)
      /\ Call' = Call /\ calls'[c] = f
      /\ \A d \in Call : d # c => calls'[d] = calls[d]
  BY PutFrame DEF Quiet, Put, TypeInv, TypeOK
<1>2. QED
  BY <1>1 DEF Quiet, TypeInv, TypeOK, Feeding

\* A decode touches the cache of the caller's model only, and extends it by the
\* call's next tokens when it succeeds.
LEMMA DecodeCache ==
  ASSUME TypeOK, NEW c \in Call, NEW n \in Nat, NEW o, Decode(c, n, o)
  PROVE  /\ cache' \in [Handle -> Seq((0..MaxCalls) \X Nat)]
         /\ \A h \in Handle : h # calls[c].h => cache'[h] = cache[h]
         /\ o = "ok" => cache'[calls[c].h]
                          = cache[calls[c].h] \o Tokens(c, calls[c].fed, n)
<1> DEFINE f == calls[c]
           T == (0..MaxCalls) \X Nat
           longer(k) == cache[f.h] \o Tokens(c, f.fed, k)
<1>1. /\ c \in 1..MaxCalls
      /\ f.h \in Handle /\ f.fed \in Nat
      /\ cache \in [Handle -> Seq(T)]
  <2>1. calls \in Seq(Frame) /\ Len(calls) \in Nat /\ c \in 1..Len(calls)
    BY LenProperties DEF TypeOK, Call
  <2>2. f \in Frame
    BY <2>1, ElementOfSeq
  <2>3. f.h \in Handle /\ f.fed \in Nat
    BY <2>2 DEF Frame
  <2>4. c \in 1..MaxCalls
    BY <2>1, BoundAssumption DEF TypeOK
  <2>5. QED
    BY <2>3, <2>4 DEF TypeOK
<1>2. ASSUME NEW k \in Nat
      PROVE  longer(k) \in Seq(T)
  <2>1. Tokens(c, f.fed, k) \in Seq(T) /\ cache[f.h] \in Seq(T)
    <3>1. c \in 0..MaxCalls
      BY <1>1, BoundAssumption
    <3>2. QED
      BY <1>1, <3>1, TokensType
  <2>2. QED
    BY <2>1, ConcatProperties
<1>3. PICK k \in 0..n : /\ cache' = [cache EXCEPT ![f.h] = longer(k)]
                        /\ o = "ok" => k = n
  BY DEF Decode
<1>4. longer(k) \in Seq(T)
  <2>1. k \in Nat
    OBVIOUS
  <2> HIDE DEF longer
  <2>2. QED
    BY <2>1, <1>2
<1> HIDE DEF longer
<1>5. /\ cache' \in [Handle -> Seq(T)]
      /\ cache'[f.h] = longer(k)
      /\ \A h \in Handle : h # f.h => cache'[h] = cache[h]
  BY <1>1, <1>3, <1>4
<1>6. QED
  BY <1>1, <1>3, <1>5 DEF longer

\* Feeding a chunk of the prompt: the frame moves on by the chunk, or fails.
LEMMA FeedFrame ==
  ASSUME TypeInv, NEW c \in Call, FeedPrompt(c)
  PROVE  \E n \in Nat, o \in {"ok", "assert", "no_slot", "error", "abort"}, g \in Frame :
           /\ n = Chunk(calls[c]) /\ 0 < n /\ n <= NBatch
           /\ calls[c].fed + n <= calls[c].plen
           /\ o \in Outcomes(calls[c].h, n)
           /\ Decode(c, n, o)
           /\ calls' = [calls EXCEPT ![c] = g]
           /\ g.h = calls[c].h
           /\ o = "ok" => /\ g.fed = calls[c].fed + n /\ g.plen = calls[c].plen
                          /\ g.pc \in {"prompt", "head"}
                          /\ g.pc = "prompt" => g.fed < g.plen
                          /\ g.why = calls[c].why
           /\ o # "ok" => g.pc = "failed" /\ g.why = Cause(o)
<1> DEFINE f == calls[c]
           n == Chunk(f)
           p == IF f.fed + n = f.plen THEN "head" ELSE "prompt"
           g == [f EXCEPT !.fed = @ + n, !.pc = p]
<1>1. f \in Frame /\ f.pc = "prompt" /\ f.fed \in Nat /\ f.plen \in Nat
      /\ f.fed < f.plen
  <2>1. f \in Frame
    BY ElementOfSeq, LenProperties DEF TypeInv, TypeOK, Call
  <2>2. QED
    BY <2>1 DEF Frame, FeedPrompt, At, TypeInv, Feeding
<1>2. n \in Nat /\ 0 < n /\ n <= NBatch /\ f.fed + n <= f.plen
  BY <1>1, ContextAssumption DEF Chunk
<1> HIDE DEF n
<1>3. /\ g \in Frame /\ g.h = f.h /\ g.fed = f.fed + n /\ g.plen = f.plen
      /\ g.pc = p /\ g.why = f.why
  <2>1. f.fed + n \in Nat /\ p \in Phase
    BY <1>1, <1>2, Phases
  <2> HIDE DEF p
  <2>2. QED
    BY <1>1, <2>1 DEF Frame
<1>4. PICK o \in Outcomes(f.h, n) :
        /\ Decode(c, n, o)
        /\ Put(c, IF o = "ok" THEN g ELSE Raised(f, Cause(o)))
  BY DEF FeedPrompt, n
<1>5. o \in {"ok", "assert", "no_slot", "error", "abort"}
  BY <1>4 DEF Outcomes
<1>6. CASE o = "ok"
  <2>1. /\ g.pc \in {"prompt", "head"}
        /\ g.pc = "prompt" => g.fed < g.plen
    BY <1>1, <1>2, <1>3
  <2> HIDE DEF g
  <2>2. calls' = [calls EXCEPT ![c] = g]
    BY <1>4, <1>6 DEF Put
  <2>3. QED
    BY <1>2, <1>3, <1>4, <1>5, <1>6, <2>1, <2>2 DEF n
<1>7. CASE o # "ok"
  <2>1. Cause(o) \in Reason
    BY <1>5, <1>7 DEF Cause, Reason
  <2>2. /\ Raised(f, Cause(o)) \in Frame /\ Raised(f, Cause(o)).h = f.h
        /\ Raised(f, Cause(o)).pc = "failed" /\ Raised(f, Cause(o)).why = Cause(o)
    BY <1>1, <2>1, LeavingFrame
  <2>3. calls' = [calls EXCEPT ![c] = Raised(f, Cause(o))]
    BY <1>4, <1>7 DEF Put
  <2>4. QED
    BY <1>2, <1>4, <1>5, <1>7, <2>2, <2>3 DEF n
<1>8. QED
  BY <1>6, <1>7

\* Feeding back the sampled token: the frame goes on, leaves the loop or fails.
LEMMA DecodeFrame ==
  ASSUME TypeInv, NEW c \in Call, DecodeToken(c)
  PROVE  \E o \in {"ok", "no_slot", "error", "abort"}, g \in Frame :
           /\ Decode(c, 1, o)
           /\ calls' = [calls EXCEPT ![c] = g]
           /\ g.h = calls[c].h
           /\ o = "ok" => /\ g.fed = calls[c].fed + 1
                          /\ g.pc = "head" /\ g.why = calls[c].why
           /\ o # "ok" => /\ g.pc \in Ended \union Closing
                          /\ g.why = calls[c].why \/ g.why = "error"
<1> DEFINE f == calls[c]
           g == [f EXCEPT !.fed = @ + 1, !.pc = "head"]
<1>1. f \in Frame /\ f.fed \in Nat
  <2>1. f \in Frame
    BY ElementOfSeq, LenProperties DEF TypeInv, TypeOK, Call
  <2>2. QED
    BY <2>1 DEF Frame
<1>2. PICK o \in Outcomes(f.h, 1) :
        /\ Decode(c, 1, o)
        /\ Put(c, CASE o = "ok" -> g
                    [] o \in {"assert", "abort"} -> Raised(f, Cause(o))
                    [] OTHER -> LoopLeft(f))
  BY DEF DecodeToken
<1>3. o \in {"ok", "no_slot", "error", "abort"}
  BY <1>2, ContextAssumption DEF Outcomes
<1>4. /\ g \in Frame /\ g.h = f.h /\ g.fed = f.fed + 1
      /\ g.pc = "head" /\ g.why = f.why
  <2>1. f.fed + 1 \in Nat
    BY <1>1
  <2>2. QED
    BY <1>1, <2>1, Phases DEF Frame
<1>5. /\ Raised(f, "error") \in Frame /\ Raised(f, "error").h = f.h
      /\ Raised(f, "error").pc = "failed" /\ Raised(f, "error").why = "error"
      /\ LoopLeft(f) \in Frame /\ LoopLeft(f).h = f.h
      /\ LoopLeft(f).pc \in {"done", "lastcheck"} /\ LoopLeft(f).why = f.why
  <2>1. "error" \in Reason
    BY DEF Reason
  <2>2. QED
    BY <1>1, <2>1, LeavingFrame
<1> HIDE DEF g
<1>6. CASE o = "ok"
  BY <1>2, <1>4, <1>6 DEF Put
<1>7. CASE o = "abort"
  <2>1. Cause(o) = "error"
    BY <1>7 DEF Cause
  <2>2. QED
    BY <1>2, <1>5, <1>7, <2>1 DEF Put, Ended
<1>8. CASE o \in {"no_slot", "error"}
  BY <1>2, <1>5, <1>8 DEF Put, Ended, Closing
<1>9. QED
  BY <1>3, <1>6, <1>7, <1>8

LEMMA DeadlineFrame ==
  ASSUME TypeOK, NEW c \in Call, DeadlinePasses(c)
  PROVE  \E g \in Frame :
           /\ calls' = [calls EXCEPT ![c] = g]
           /\ g.h = calls[c].h /\ g.fed = calls[c].fed /\ g.plen = calls[c].plen
           /\ g.pc = calls[c].pc /\ g.why = calls[c].why
           /\ UNCHANGED <<handle, cache, crashed>>
<1> DEFINE f == calls[c]
           n == Given(f)
           g == [f EXCEPT !.late = TRUE, !.due = n]
<1>1. f \in Frame
  BY ElementOfSeq, LenProperties DEF TypeOK, Call
<1>2. n \in Nat
  BY <1>1 DEF Given, Frame
<1>3. calls' = [calls EXCEPT ![c] = g] /\ UNCHANGED <<handle, cache, crashed>>
  <2>1. calls' = [calls EXCEPT ![c].late = TRUE, ![c].due = n]
    BY DEF DeadlinePasses
  <2> HIDE DEF n
  <2>2. calls' = [calls EXCEPT ![c] = g]
    BY <2>1
  <2>3. QED
    BY <2>2 DEF DeadlinePasses
<1> HIDE DEF n
<1>4. /\ g \in Frame /\ g.h = f.h /\ g.fed = f.fed /\ g.plen = f.plen
      /\ g.pc = f.pc /\ g.why = f.why
  BY <1>1, <1>2 DEF Frame
<1> HIDE DEF g
<1>5. QED
  BY <1>3, <1>4

\* One frame changes to another whose type is right and whose prompt, if it is
\* still feeding one, is not used up.
LEMMA FrameStepType ==
  ASSUME TypeInv, NEW c \in Call, NEW g \in Frame,
         calls' = [calls EXCEPT ![c] = g],
         cache' \in [Handle -> Seq((0..MaxCalls) \X Nat)],
         UNCHANGED <<handle, crashed>>,
         g.pc = "prompt" => g.fed < g.plen /\ g.plen < NCtx
  PROVE  TypeInv'
<1>1. /\ calls' \in Seq(Frame) /\ Len(calls') = Len(calls)
      /\ Call' = Call /\ calls'[c] = g
      /\ \A d \in Call : d # c => calls'[d] = calls[d]
  BY PutFrame DEF TypeInv, TypeOK
<1>2. c \in 1..MaxCalls
  <2>1. calls \in Seq(Frame) /\ Len(calls) \in Nat /\ c \in 1..Len(calls)
    BY LenProperties DEF TypeInv, TypeOK, Call
  <2>2. QED
    BY <2>1, BoundAssumption DEF TypeInv, TypeOK
<1>3. QED
  BY <1>1, <1>2 DEF TypeInv, TypeOK, Feeding

LEMMA StepType ==
  ASSUME TypeInv, NEW c \in Call, Step(c)
  PROVE  TypeInv'
<1>0. TypeOK /\ cache \in [Handle -> Seq((0..MaxCalls) \X Nat)]
  BY DEF TypeInv, TypeOK
<1>1. CASE \E f : Quiet(c, f)
  BY <1>1, QuietType
<1>2. CASE FeedPrompt(c)
  <2>1. PICK n \in Nat, o \in {"ok", "assert", "no_slot", "error", "abort"}, g \in Frame :
           /\ Decode(c, n, o)
           /\ calls' = [calls EXCEPT ![c] = g]
           /\ o = "ok" => /\ g.plen = calls[c].plen
                          /\ g.pc = "prompt" => g.fed < g.plen
           /\ o # "ok" => g.pc = "failed"
    BY <1>2, FeedFrame
  <2>2. cache' \in [Handle -> Seq((0..MaxCalls) \X Nat)]
    BY <1>0, <2>1, DecodeCache
  <2>3. calls[c].plen < NCtx
    BY <1>2 DEF TypeInv, Feeding, FeedPrompt, At
  <2>4. g.pc = "prompt" => g.fed < g.plen /\ g.plen < NCtx
    BY <2>1, <2>3
  <2>5. UNCHANGED <<handle, crashed>>
    BY <1>2 DEF FeedPrompt
  <2>6. QED
    BY <2>1, <2>2, <2>4, <2>5, FrameStepType
<1>3. CASE DecodeToken(c)
  <2>1. PICK o \in {"ok", "no_slot", "error", "abort"}, g \in Frame :
           /\ Decode(c, 1, o)
           /\ calls' = [calls EXCEPT ![c] = g]
           /\ g.pc # "prompt"
    BY <1>3, DecodeFrame DEF Ended, Closing
  <2>2. cache' \in [Handle -> Seq((0..MaxCalls) \X Nat)]
    BY <1>0, <2>1, DecodeCache
  <2>3. UNCHANGED <<handle, crashed>>
    BY <1>3 DEF DecodeToken
  <2>4. QED
    BY <2>1, <2>2, <2>3, FrameStepType
<1>4. CASE Crash(c)
  BY <1>4 DEF Crash, TypeInv, TypeOK, Feeding, Call
<1>5. QED
  BY <1>0, <1>1, <1>2, <1>3, <1>4, StepCases

\* What an operation between calls leaves in the cache of its model.
LEMMA HandleCache ==
  ASSUME NEW h \in Handle, Load(h) \/ Free(h) \/ Embed(h)
  PROVE  \/ cache' = cache
         \/ \E t \in Seq((0..MaxCalls) \X Nat) : cache' = [cache EXCEPT ![h] = t]
<1>1. CASE Load(h)
  BY <1>1 DEF Load
<1>2. CASE Free(h)
  <2>1. <<>> \in Seq((0..MaxCalls) \X Nat)
    OBVIOUS
  <2>2. QED
    BY <1>2, <2>1 DEF Free
<1>3. CASE Embed(h)
  <2>1. \A t \in Texts : Truncated(t) \in Nat
    BY BoundAssumption, ContextAssumption DEF Truncated
  <2>2. PICK m \in {0} \union {Truncated(t) : t \in Texts} :
          \E k \in 0..m : cache' = [cache EXCEPT ![h] = Tokens(0, 0, k)]
    BY <1>3 DEF Embed
  <2>3. m \in Nat
    BY <2>1
  <2>4. PICK k \in 0..m : cache' = [cache EXCEPT ![h] = Tokens(0, 0, k)]
    BY <2>2
  <2>5. k \in Nat
    BY <2>3
  <2>6. 0 \in 0..MaxCalls /\ 0 \in Nat
    BY BoundAssumption
  <2>7. Tokens(0, 0, k) \in Seq((0..MaxCalls) \X Nat)
    BY <2>5, <2>6, TokensType
  <2>8. QED
    BY <2>4, <2>7
<1>4. QED
  BY <1>1, <1>2, <1>3

LEMMA NextType == TypeInv /\ [Next]_vars => TypeInv'
<1> SUFFICES ASSUME TypeInv, [Next]_vars
             PROVE  TypeInv'
  OBVIOUS
<1>1. CASE \E h \in Handle : Load(h) \/ Free(h) \/ Embed(h)
  <2>1. PICK h \in Handle : Load(h) \/ Free(h) \/ Embed(h)
    BY <1>1
  <2>2. /\ handle' \in [Handle -> {"unloaded", "open", "freed"}]
        /\ UNCHANGED <<calls, crashed>>
    BY <2>1 DEF Load, Free, Embed, TypeInv, TypeOK
  <2>3. \/ cache' = cache
        \/ \E t \in Seq((0..MaxCalls) \X Nat) : cache' = [cache EXCEPT ![h] = t]
    BY <2>1, HandleCache
  <2>4. cache' \in [Handle -> Seq((0..MaxCalls) \X Nat)]
    BY <2>3 DEF TypeInv, TypeOK
  <2>5. QED
    BY <2>2, <2>4 DEF TypeInv, TypeOK, Feeding, Call
<1>2. CASE Start
  BY <1>2, BeginType, BoundAssumption DEF Start
<1>3. CASE \E c \in Call : Step(c)
  BY <1>3, StepType
<1>4. CASE \E c \in Call : DeadlinePasses(c)
  <2>1. PICK c \in Call : DeadlinePasses(c)
    BY <1>4
  <2>2. PICK g \in Frame :
           /\ calls' = [calls EXCEPT ![c] = g]
           /\ g.fed = calls[c].fed /\ g.plen = calls[c].plen /\ g.pc = calls[c].pc
           /\ UNCHANGED <<handle, cache, crashed>>
    BY <2>1, DeadlineFrame DEF TypeInv
  <2>3. g.pc = "prompt" => g.fed < g.plen /\ g.plen < NCtx
    BY <2>2 DEF TypeInv, Feeding
  <2>4. QED
    BY <2>2, <2>3, FrameStepType DEF TypeInv, TypeOK
<1>5. CASE UNCHANGED vars
  BY <1>5 DEF vars, TypeInv, TypeOK, Feeding, Call
<1>6. QED
  BY <1>1, <1>2, <1>3, <1>4, <1>5 DEF Next

LEMMA InitType == Init => TypeInv
<1> SUFFICES ASSUME Init PROVE TypeInv
  OBVIOUS
<1>1. calls = <<>> /\ Call = {} /\ Len(calls) = 0 /\ calls \in Seq(Frame)
  BY DEF Init, Call
<1>2. cache \in [Handle -> Seq((0..MaxCalls) \X Nat)]
  BY DEF Init
<1>3. handle \in [Handle -> {"unloaded", "open", "freed"}]
  BY DEF Init
<1>4. crashed \in BOOLEAN
  BY DEF Init
<1>5. TypeOK
  BY <1>1, <1>2, <1>3, <1>4, BoundAssumption DEF TypeOK
<1>6. Feeding
  BY <1>1 DEF Feeding
<1>7. QED
  BY <1>5, <1>6 DEF TypeInv

\* Every reachable state is well typed: frames stay frames, caches hold tokens of
\* known calls, no matter how callbacks nest.
THEOREM TypeCorrect == Spec => []TypeOK
<1>1. TypeInv => TypeOK
  BY DEF TypeInv
<1>2. QED
  BY <1>1, InitType, NextType, PTL DEF Spec

-----------------------------------------------------------------------------
(* A context belongs to one generating call                                *)

\* No two calls generate on the same model.
Exclusive == \A c, d \in Call :
               Generating(c) /\ Generating(d) /\ calls[c].h = calls[d].h => c = d

\* The model of a generating call is open.
OpenWhileUsed == ~crashed /\ \A c \in Call : Generating(c) => Alive(c)

OwnInv == /\ TypeInv
          /\ OpenWhileUsed
          /\ OwnContext
          /\ PromptAlwaysFits
          /\ Exclusive

\* One frame changes; if its call had the model to itself it has it still.
LEMMA FrameStepOwn ==
  ASSUME OwnInv, NEW c \in Call, NEW g \in Frame,
         calls' = [calls EXCEPT ![c] = g],
         UNCHANGED <<handle, crashed>>,
         cache' = cache \/ Generating(c),
         \A h \in Handle : h # g.h => cache'[h] = cache[h],
         g.h = calls[c].h,
         g.why \notin {"assert", "no_slot"},
         g.pc \notin Ended \union Closing
           => Generating(c) /\ cache'[g.h] = Tokens(c, 0, g.fed)
  PROVE  /\ OpenWhileUsed'
         /\ OwnContext'
         /\ PromptAlwaysFits'
         /\ Exclusive'
<1>1. /\ Call' = Call /\ calls'[c] = g
      /\ \A d \in Call : d # c => calls'[d] = calls[d]
  BY PutFrame DEF OwnInv, TypeInv, TypeOK
<1>2. \A d \in Call : calls[d].h \in Handle
  <2>1. \A d \in Call : calls[d] \in Frame
    BY ElementOfSeq, LenProperties DEF OwnInv, TypeInv, TypeOK, Call
  <2>2. QED
    BY <2>1 DEF Frame
<1>3. \A d \in Call : d # c => (Generating(d)' <=> Generating(d))
  BY <1>1 DEF Generating, Running
<1>4. /\ Generating(c)' <=> g.pc \notin Ended \union Closing
      /\ Generating(c)' => Generating(c)
  BY <1>1 DEF Generating, Running
<1>5. PromptAlwaysFits'
  BY <1>1 DEF OwnInv, PromptAlwaysFits
<1>6. Exclusive'
  BY <1>1, <1>3, <1>4 DEF OwnInv, Exclusive
<1>7. OpenWhileUsed'
  BY <1>1, <1>3, <1>4 DEF OwnInv, OpenWhileUsed, Alive
<1>8. OwnContext'
  <2>1. ASSUME NEW d \in Call, Generating(d)'
        PROVE  cache'[calls'[d].h] = Tokens(d, 0, calls'[d].fed)
    <3>1. CASE d = c
      BY <1>1, <1>4, <2>1, <3>1
    <3>2. CASE d # c
      <4>1. Generating(d) /\ calls'[d] = calls[d]
        BY <1>1, <1>3, <2>1, <3>2
      <4>2. cache[calls[d].h] = Tokens(d, 0, calls[d].fed)
        BY <4>1 DEF OwnInv, OwnContext
      <4>3. cache' = cache \/ calls[d].h # g.h
        BY <3>2, <4>1 DEF OwnInv, Exclusive
      <4>4. QED
        BY <1>2, <4>1, <4>2, <4>3
    <3>3. QED
      BY <3>1, <3>2
  <2>2. QED
    BY <1>1, <2>1 DEF OwnContext
<1>9. QED
  BY <1>5, <1>6, <1>7, <1>8

LEMMA QuietOwn ==
  ASSUME OwnInv, NEW c \in Call, NEW f, Quiet(c, f)
  PROVE  OpenWhileUsed' /\ OwnContext' /\ PromptAlwaysFits' /\ Exclusive'
<1>1. /\ f \in Frame /\ calls' = [calls EXCEPT ![c] = f]
      /\ UNCHANGED <<handle, cache, crashed>>
      /\ f.h = calls[c].h
  BY DEF Quiet, Put
<1>2. f.why \notin {"assert", "no_slot"}
  BY DEF Quiet, OwnInv, PromptAlwaysFits
<1>3. f.pc \notin Ended \union Closing
        => Generating(c) /\ cache'[f.h] = Tokens(c, 0, f.fed)
  BY <1>1 DEF Quiet, OwnInv, OwnContext
<1>4. QED
  BY <1>1, <1>2, <1>3, FrameStepOwn

LEMMA FeedOwn ==
  ASSUME OwnInv, NEW c \in Call, FeedPrompt(c)
  PROVE  OpenWhileUsed' /\ OwnContext' /\ PromptAlwaysFits' /\ Exclusive'
<1> DEFINE f == calls[c]
<1>1. PICK n \in Nat, o \in {"ok", "assert", "no_slot", "error", "abort"}, g \in Frame :
           /\ n <= NBatch /\ f.fed + n <= f.plen
           /\ o \in Outcomes(f.h, n)
           /\ Decode(c, n, o)
           /\ calls' = [calls EXCEPT ![c] = g]
           /\ g.h = f.h
           /\ o = "ok" => g.fed = f.fed + n /\ g.why = f.why
           /\ o # "ok" => g.pc = "failed" /\ g.why = Cause(o)
  BY FeedFrame DEF OwnInv
<1>2. /\ Generating(c) /\ UNCHANGED <<handle, crashed>>
      /\ f.plen < NCtx
  BY DEF FeedPrompt, At, Innermost, Generating, Closing, OwnInv, TypeInv, Feeding
<1>3. /\ f.fed \in Nat /\ f.plen \in Nat /\ f.h \in Handle
      /\ c \in Nat
  <2>1. calls[c] \in Frame /\ c \in Nat
    BY ElementOfSeq, LenProperties DEF OwnInv, TypeInv, TypeOK, Call
  <2>2. QED
    BY <2>1 DEF Frame
<1>4. cache[f.h] = Tokens(c, 0, f.fed)
  BY <1>2 DEF OwnInv, OwnContext
<1>5. Len(cache[f.h]) = f.fed
  <2>1. Len(Tokens(c, 0, f.fed)) = f.fed
    BY <1>3, TokensLen
  <2>2. QED
    BY <1>4, <2>1
<1>6. o \notin {"assert", "no_slot"}
  BY <1>1, <1>2, <1>3, <1>5, ContextAssumption DEF Outcomes
<1>7. /\ \A h \in Handle : h # f.h => cache'[h] = cache[h]
      /\ o = "ok" => cache'[f.h] = cache[f.h] \o Tokens(c, f.fed, n)
  BY <1>1, DecodeCache DEF OwnInv, TypeInv
<1>8. o = "ok" => cache'[g.h] = Tokens(c, 0, g.fed)
  <2>1. Tokens(c, 0, f.fed) \o Tokens(c, f.fed, n) = Tokens(c, 0, f.fed + n)
    BY <1>1, <1>3, TokensConcat
  <2>2. QED
    BY <1>1, <1>4, <1>7, <2>1
<1>9. g.why \notin {"assert", "no_slot"}
  BY <1>1, <1>6 DEF OwnInv, PromptAlwaysFits, Cause
<1>10. g.pc \notin Ended \union Closing => cache'[g.h] = Tokens(c, 0, g.fed)
  BY <1>1, <1>8 DEF Ended
<1>11. QED
  BY <1>1, <1>2, <1>7, <1>9, <1>10, FrameStepOwn

LEMMA DecodeOwn ==
  ASSUME OwnInv, NEW c \in Call, DecodeToken(c)
  PROVE  OpenWhileUsed' /\ OwnContext' /\ PromptAlwaysFits' /\ Exclusive'
<1> DEFINE f == calls[c]
<1>1. PICK o \in {"ok", "no_slot", "error", "abort"}, g \in Frame :
           /\ Decode(c, 1, o)
           /\ calls' = [calls EXCEPT ![c] = g]
           /\ g.h = f.h
           /\ o = "ok" => g.fed = f.fed + 1 /\ g.why = f.why
           /\ o # "ok" => /\ g.pc \in Ended \union Closing
                          /\ g.why = f.why \/ g.why = "error"
  BY DecodeFrame DEF OwnInv
<1>2. Generating(c) /\ UNCHANGED <<handle, crashed>>
  BY DEF DecodeToken, At, Innermost, Generating, Closing
<1>3. f.fed \in Nat /\ f.h \in Handle
  <2>1. calls[c] \in Frame
    BY ElementOfSeq, LenProperties DEF OwnInv, TypeInv, TypeOK, Call
  <2>2. QED
    BY <2>1 DEF Frame
<1>4. cache[f.h] = Tokens(c, 0, f.fed)
  BY <1>2 DEF OwnInv, OwnContext
<1>5. 1 \in Nat
  OBVIOUS
<1>6. /\ \A h \in Handle : h # f.h => cache'[h] = cache[h]
      /\ o = "ok" => cache'[f.h] = cache[f.h] \o Tokens(c, f.fed, 1)
  BY <1>1, <1>5, DecodeCache DEF OwnInv, TypeInv
<1>7. o = "ok" => cache'[g.h] = Tokens(c, 0, g.fed)
  <2>1. Tokens(c, 0, f.fed) \o Tokens(c, f.fed, 1) = Tokens(c, 0, f.fed + 1)
    BY <1>3, <1>5, TokensConcat
  <2>2. QED
    BY <1>1, <1>4, <1>6, <2>1
<1>8. g.why \notin {"assert", "no_slot"}
  BY <1>1 DEF OwnInv, PromptAlwaysFits
<1>9. QED
  BY <1>1, <1>2, <1>6, <1>7, <1>8, FrameStepOwn

LEMMA StepOwn ==
  ASSUME OwnInv, NEW c \in Call, Step(c)
  PROVE  OpenWhileUsed' /\ OwnContext' /\ PromptAlwaysFits' /\ Exclusive'
<1>1. CASE \E f : Quiet(c, f)
  BY <1>1, QuietOwn
<1>2. CASE FeedPrompt(c)
  BY <1>2, FeedOwn
<1>3. CASE DecodeToken(c)
  BY <1>3, DecodeOwn
<1>4. ~Crash(c)
  <2>1. ASSUME Crash(c) PROVE FALSE
    <3>1. Generating(c) /\ ~Alive(c)
      BY <2>1 DEF Crash, At, Innermost, Generating, Closing
    <3>2. QED
      BY <3>1 DEF OwnInv, OpenWhileUsed
  <2>2. QED
    BY <2>1
<1>5. QED
  BY <1>1, <1>2, <1>3, <1>4, StepCases DEF OwnInv, TypeInv

\* A new call takes over a model nobody is generating on, and clears its cache.
LEMMA BeginOwn ==
  ASSUME PoliteCallbacks, OwnInv, Start
  PROVE  OpenWhileUsed' /\ OwnContext' /\ PromptAlwaysFits' /\ Exclusive'
<1>1. PICK op \in Op, h \in Handle, plen \in Prompts, n \in Predicts,
           timed \in BOOLEAN : Begin(op, h, plen, n, timed)
  BY BoundAssumption DEF Start
<1>0. PICK new \in Nat : new = Len(calls) + 1
  BY LenProperties DEF OwnInv, TypeInv, TypeOK
<1> DEFINE g == calls'[new]
<1>2. /\ \A d \in Call : calls'[d] = calls[d]
      /\ Call' = Call \union {new}
      /\ \/ /\ g.pc = "failed" /\ g.why = "rejected"
            /\ UNCHANGED cache
         \/ /\ g.pc = "prompt" /\ g.why = "none"
            /\ g.h = h /\ g.fed = 0
            /\ handle[h] = "open"
            /\ cache' = [cache EXCEPT ![h] = <<>>]
  BY <1>0, <1>1, BeginType DEF OwnInv
<1>3. /\ UNCHANGED <<handle, crashed>>
      /\ \A d \in Call : Generating(d) => calls[d].h # h
  BY <1>1 DEF Begin, MayUse, Busy
<1>4. new \notin Call
  BY <1>0, LenProperties DEF OwnInv, TypeInv, TypeOK, Call
<1>5. \A d \in Call : Generating(d)' <=> Generating(d)
  BY <1>2 DEF Generating, Running
<1>6. /\ Generating(new)' => g.pc = "prompt"
      /\ g.pc = "prompt" => /\ g.h = h /\ g.fed = 0 /\ handle[h] = "open"
                            /\ cache' = [cache EXCEPT ![h] = <<>>]
      /\ cache' = cache \/ cache' = [cache EXCEPT ![h] = <<>>]
  <2>1. g.pc \in {"failed", "prompt"}
    BY <1>2
  <2>2. Generating(new)' => g.pc # "failed"
    BY DEF Generating, Running, Ended
  <2>3. QED
    BY <1>2, <2>1, <2>2
<1>7. \A d \in Call : calls[d].h \in Handle
  <2>1. \A d \in Call : calls[d] \in Frame
    BY ElementOfSeq, LenProperties DEF OwnInv, TypeInv, TypeOK, Call
  <2>2. QED
    BY <2>1 DEF Frame
<1> HIDE DEF g
<1>8. PromptAlwaysFits'
  BY <1>2 DEF OwnInv, PromptAlwaysFits, g
<1>9. OpenWhileUsed'
  <2>1. ~crashed'
    BY <1>3 DEF OwnInv, OpenWhileUsed
  <2>2. ASSUME NEW d \in Call', Generating(d)' PROVE Alive(d)'
    <3>1. CASE d \in Call
      BY <1>2, <1>3, <1>5, <2>2, <3>1 DEF OwnInv, OpenWhileUsed, Alive
    <3>2. CASE d = new
      BY <1>3, <1>6, <2>2, <3>2 DEF Alive, g
    <3>3. QED
      BY <1>2, <3>1, <3>2
  <2>3. QED
    BY <2>1, <2>2 DEF OpenWhileUsed
<1>10. Exclusive'
  <2>1. ASSUME NEW c \in Call', NEW d \in Call', Generating(c)', Generating(d)',
               calls'[c].h = calls'[d].h
        PROVE  c = d
    <3>1. CASE c \in Call /\ d \in Call
      BY <1>2, <1>5, <2>1, <3>1 DEF OwnInv, Exclusive
    <3>2. CASE c = new /\ d \in Call
      <4>1. calls'[c].h = h
        BY <1>6, <2>1, <3>2 DEF g
      <4>2. calls'[d].h # h
        BY <1>2, <1>3, <1>5, <2>1, <3>2
      <4>3. QED
        BY <2>1, <4>1, <4>2
    <3>3. CASE c \in Call /\ d = new
      <4>1. calls'[d].h = h
        BY <1>6, <2>1, <3>3 DEF g
      <4>2. calls'[c].h # h
        BY <1>2, <1>3, <1>5, <2>1, <3>3
      <4>3. QED
        BY <2>1, <4>1, <4>2
    <3>4. QED
      BY <1>2, <3>1, <3>2, <3>3
  <2>2. QED
    BY <2>1 DEF Exclusive
<1>11. OwnContext'
  <2>1. ASSUME NEW d \in Call', Generating(d)'
        PROVE  cache'[calls'[d].h] = Tokens(d, 0, calls'[d].fed)
    <3>1. CASE d \in Call
      <4>1. calls'[d] = calls[d] /\ Generating(d) /\ calls[d].h # h
        BY <1>2, <1>3, <1>5, <2>1, <3>1
      <4>2. cache'[calls[d].h] = cache[calls[d].h]
        <5>1. calls[d].h \in Handle /\ cache \in [Handle -> Seq((0..MaxCalls) \X Nat)]
          BY <1>7, <3>1 DEF OwnInv, TypeInv, TypeOK
        <5>2. CASE cache' = [cache EXCEPT ![h] = <<>>]
          BY <4>1, <5>1, <5>2
        <5>3. CASE cache' = cache
          BY <5>3
        <5>4. QED
          BY <1>6, <5>2, <5>3
      <4>3. QED
        BY <3>1, <4>1, <4>2 DEF OwnInv, OwnContext
    <3>2. CASE d = new
      <4>1. g.pc = "prompt" /\ g.h = h /\ g.fed = 0 /\ cache' = [cache EXCEPT ![h] = <<>>]
        BY <1>6, <2>1, <3>2
      <4>2. cache'[h] = <<>>
        BY <4>1 DEF OwnInv, TypeInv, TypeOK
      <4>3. Tokens(d, 0, 0) = <<>>
        BY DEF Tokens
      <4>4. QED
        BY <3>2, <4>1, <4>2, <4>3 DEF g
    <3>3. QED
      BY <1>2, <3>1, <3>2
  <2>2. QED
    BY <2>1 DEF OwnContext
<1>12. QED
  BY <1>8, <1>9, <1>10, <1>11

\* A callback may open a model, and close or embed with one that nobody is
\* generating on.
LEMMA HandleOwn ==
  ASSUME PoliteCallbacks, OwnInv, NEW h \in Handle, Load(h) \/ Free(h) \/ Embed(h)
  PROVE  OpenWhileUsed' /\ OwnContext' /\ PromptAlwaysFits' /\ Exclusive'
<1>1. /\ UNCHANGED <<calls, crashed>>
      /\ \A x \in Handle : x # h => handle'[x] = handle[x] /\ cache'[x] = cache[x]
  BY DEF Load, Free, Embed, OwnInv, TypeInv, TypeOK
<1>2. \A d \in Call : Generating(d) => calls[d].h # h
  BY DEF Load, Free, Embed, MayUse, Busy, OwnInv, OpenWhileUsed, Alive
<1>3. /\ Call' = Call
      /\ \A d \in Call : Generating(d)' <=> Generating(d)
  BY <1>1 DEF Call, Generating, Running
<1>4. \A d \in Call : calls[d].h \in Handle
  <2>1. \A d \in Call : calls[d] \in Frame
    BY ElementOfSeq, LenProperties DEF OwnInv, TypeInv, TypeOK, Call
  <2>2. QED
    BY <2>1 DEF Frame
<1>5. PromptAlwaysFits' /\ Exclusive'
  BY <1>1, <1>3 DEF OwnInv, PromptAlwaysFits, Exclusive
<1>6. OpenWhileUsed'
  BY <1>1, <1>2, <1>3, <1>4 DEF OwnInv, OpenWhileUsed, Alive
<1>7. OwnContext'
  BY <1>1, <1>2, <1>3, <1>4 DEF OwnInv, OwnContext
<1>8. QED
  BY <1>5, <1>6, <1>7

LEMMA NextOwn ==
  ASSUME PoliteCallbacks
  PROVE  OwnInv /\ [Next]_vars => OwnInv'
<1> SUFFICES ASSUME OwnInv, [Next]_vars
             PROVE  OwnInv'
  OBVIOUS
<1>0. TypeInv'
  BY NextType DEF OwnInv
<1> DEFINE Rest == OpenWhileUsed /\ OwnContext /\ PromptAlwaysFits /\ Exclusive
<1>1. CASE \E h \in Handle : Load(h) \/ Free(h) \/ Embed(h)
  BY <1>0, <1>1, HandleOwn DEF OwnInv
<1>2. CASE Start
  BY <1>0, <1>2, BeginOwn DEF OwnInv
<1>3. CASE \E c \in Call : Step(c)
  BY <1>0, <1>3, StepOwn DEF OwnInv
<1>4. CASE \E c \in Call : DeadlinePasses(c)
  <2>1. PICK c \in Call : DeadlinePasses(c)
    BY <1>4
  <2>2. PICK g \in Frame :
           /\ calls' = [calls EXCEPT ![c] = g]
           /\ g.h = calls[c].h /\ g.fed = calls[c].fed
           /\ g.pc = calls[c].pc /\ g.why = calls[c].why
           /\ UNCHANGED <<handle, cache, crashed>>
    BY <2>1, DeadlineFrame DEF OwnInv, TypeInv
  <2>3. g.why \notin {"assert", "no_slot"}
    BY <2>2 DEF OwnInv, PromptAlwaysFits
  <2>4. g.pc \notin Ended \union Closing
          => Generating(c) /\ cache'[g.h] = Tokens(c, 0, g.fed)
    BY <2>2 DEF Generating, Running, OwnInv, OwnContext
  <2>5. Rest'
    BY <2>2, <2>3, <2>4, FrameStepOwn
  <2>6. QED
    BY <1>0, <2>5 DEF OwnInv
<1>5. CASE UNCHANGED vars
  BY <1>0, <1>5 DEF vars, OwnInv, OpenWhileUsed, OwnContext, PromptAlwaysFits,
                    Exclusive, Generating, Running, Alive, Call
<1>6. QED
  BY <1>1, <1>2, <1>3, <1>4, <1>5 DEF Next

LEMMA InitOwn == Init => OwnInv
<1> SUFFICES ASSUME Init PROVE OwnInv
  OBVIOUS
<1>1. Call = {} /\ ~crashed
  BY DEF Init, Call
<1>2. TypeInv
  BY InitType
<1>3. QED
  BY <1>1, <1>2 DEF OwnInv, OpenWhileUsed, OwnContext, PromptAlwaysFits, Exclusive

LEMMA AlwaysOwn ==
  ASSUME PoliteCallbacks
  PROVE  Spec => []OwnInv
BY InitOwn, NextOwn, PTL DEF Spec

\* While callbacks leave generating models alone, each completion sees its own
\* tokens and nothing else in the cache of its model, from the clear at its start
\* to its last decode, whatever other models its callbacks use.
THEOREM CompletionOwnsContext ==
  ASSUME PoliteCallbacks
  PROVE  Spec => []OwnContext
<1>1. OwnInv => OwnContext
  BY DEF OwnInv
<1>2. QED
  BY <1>1, AlwaysOwn, PTL

\* Under the same condition every prompt shorter than the context is fed without a batch over n_batch
\* and without running out of cells, for every n_ctx and n_batch.
THEOREM PromptFits ==
  ASSUME PoliteCallbacks
  PROVE  Spec => []PromptAlwaysFits
<1>1. OwnInv => PromptAlwaysFits
  BY DEF OwnInv
<1>2. QED
  BY <1>1, AlwaysOwn, PTL

-----------------------------------------------------------------------------
(* The moves of a frame: all that a step does to the call it belongs to.   *)

\* No step of a call changes what it was asked for, or whether it is late.
Kept(f, g) == /\ g \in Frame
              /\ g.op = f.op /\ g.h = f.h /\ g.plen = f.plen /\ g.npred = f.npred
              /\ g.late = f.late /\ g.due = f.due

Still(f, g) == g.fed = f.fed /\ g.i = f.i /\ g.made = f.made /\ g.heard = f.heard

Feeds(f, g) == /\ f.pc = "prompt"
               /\ g.fed = f.fed + Chunk(f)
               /\ g.pc = IF g.fed = f.plen THEN "head" ELSE "prompt"
               /\ g.i = f.i /\ g.made = f.made /\ g.heard = f.heard /\ g.why = f.why

Raises(f, g) == f.pc \notin Ended /\ g.pc = "failed" /\ g.why # "rejected" /\ Still(f, g)

Enters(f, g) == /\ f.pc = "head" /\ f.i < f.npred /\ ~Expired(f)
                /\ g.pc = "sample" /\ Still(f, g) /\ g.why = f.why

Skips(f, g) == /\ f.pc = "sample" /\ g.pc \in {"head", "decode"}
               /\ g.i = f.i + 1
               /\ g.fed = f.fed /\ g.made = f.made /\ g.heard = f.heard /\ g.why = f.why

Speaks(f, g) == /\ f.pc = "sample"
                /\ g.pc = IF f.op = "stream" THEN "check" ELSE "decode"
                /\ g.i = f.i + 1 /\ g.made = f.made + 1
                /\ g.fed = f.fed /\ g.heard = f.heard /\ g.why = f.why

Leaves(f, g) == /\ \/ f.pc \in {"head", "sample", "callback", "decode"}
                   \/ f.pc = "check" /\ f.late
                /\ g.pc = IF f.op = "stream" THEN "lastcheck" ELSE "done"
                /\ Still(f, g) /\ g.why = f.why

Checks(f, g) == /\ \/ f.pc = "check" /\ g.pc = "call" /\ ~f.late
                   \/ f.pc = "lastcheck" /\ g.pc = "lastcall" /\ ~f.late
                   \/ f.pc = "lastcheck" /\ g.pc = "done" /\ f.late
                /\ Still(f, g) /\ g.why = f.why

Calls(f, g) == /\ \/ f.pc = "call" /\ g.pc = "callback"
                  \/ f.pc = "lastcall" /\ g.pc = "final"
               /\ g.heard = Append(f.heard, [final |-> f.pc = "lastcall", total |-> f.made])
               /\ g.fed = f.fed /\ g.i = f.i /\ g.made = f.made /\ g.why = f.why

Returns(f, g) == /\ \/ f.pc = "callback" /\ g.pc = "decode"
                    \/ f.pc = "final" /\ g.pc = "done"
                 /\ Still(f, g) /\ g.why = f.why

Answers(f, g) == /\ f.pc = "decode" /\ g.pc = "head" /\ g.fed = f.fed + 1
                 /\ g.i = f.i /\ g.made = f.made /\ g.heard = f.heard /\ g.why = f.why

Moves(f, g) == /\ Kept(f, g)
               /\ \/ Feeds(f, g) \/ Raises(f, g) \/ Enters(f, g) \/ Skips(f, g)
                  \/ Speaks(f, g) \/ Leaves(f, g) \/ Checks(f, g) \/ Calls(f, g)
                  \/ Returns(f, g) \/ Answers(f, g)

LEMMA FrameFields ==
  ASSUME NEW f \in Frame
  PROVE  /\ f.made \in Nat /\ f.i \in Nat /\ f.npred \in Nat /\ f.fed \in Nat /\ f.plen \in Nat
         /\ f.due \in Nat /\ f.heard \in Seq(Event) /\ Len(f.heard) \in Nat
         /\ f.op \in Op /\ f.late \in BOOLEAN /\ f.pc \in Phase
BY DEF Frame

\* A frame that only goes elsewhere.
LEMMA TurnFields ==
  ASSUME NEW f \in Frame, NEW p \in Phase
  PROVE  LET g == [f EXCEPT !.pc = p]
         IN  Kept(f, g) /\ Still(f, g) /\ g.why = f.why /\ g.pc = p
BY DEF Frame, Kept, Still

LEMMA RaisedMoves ==
  ASSUME NEW f \in Frame, NEW r \in Reason \ {"rejected"}, f.pc \notin Ended
  PROVE  Moves(f, Raised(f, r))
<1> DEFINE g == Raised(f, r)
<1>1. Kept(f, g) /\ Still(f, g) /\ g.pc = "failed" /\ g.why = r
  BY Phases DEF Raised, Frame, Kept, Still
<1> HIDE DEF g
<1>2. Raises(f, g)
  BY <1>1 DEF Raises
<1>3. QED
  BY <1>1, <1>2 DEF Moves, g

LEMMA LeftMoves ==
  ASSUME NEW f \in Frame,
         f.pc \in {"head", "sample", "callback", "decode"} \/ (f.pc = "check" /\ f.late)
  PROVE  Moves(f, LoopLeft(f))
<1> DEFINE p == IF f.op = "stream" THEN "lastcheck" ELSE "done"
           g == [f EXCEPT !.pc = p]
<1>1. p \in Phase
  BY Phases
<1>2. g = LoopLeft(f)
  BY DEF LoopLeft
<1> HIDE DEF p
<1>3. Kept(f, g) /\ Still(f, g) /\ g.why = f.why /\ g.pc = p
  BY <1>1, TurnFields
<1> HIDE DEF g
<1>4. Leaves(f, g)
  BY <1>3 DEF Leaves, p
<1>5. QED
  BY <1>2, <1>3, <1>4 DEF Moves

LEMMA FeedMoves ==
  ASSUME TypeInv, NEW c \in Call, FeedPrompt(c)
  PROVE  \E g : Moves(calls[c], g) /\ calls' = [calls EXCEPT ![c] = g]
<1> DEFINE f == calls[c]
           n == Chunk(f)
           p == IF f.fed + n = f.plen THEN "head" ELSE "prompt"
           g == [f EXCEPT !.fed = @ + n, !.pc = p]
<1>0. f \in Frame /\ f.pc = "prompt"
  BY ElementOfSeq, LenProperties DEF TypeInv, TypeOK, Call, FeedPrompt, At
<1>1. n \in Nat /\ p \in Phase
  <2>1. f.fed < f.plen /\ f.fed \in Nat /\ f.plen \in Nat
    BY <1>0, FrameFields DEF TypeInv, Feeding
  <2>2. n \in Nat
    BY <2>1, ContextAssumption DEF Chunk
  <2>3. QED
    BY <2>2, Phases
<1>2. PICK o \in Outcomes(f.h, n) : Put(c, IF o = "ok" THEN g ELSE Raised(f, Cause(o)))
  BY DEF FeedPrompt
<1>3. o \in {"ok", "assert", "no_slot", "error", "abort"}
  BY DEF Outcomes
<1> HIDE DEF p, n, g
<1>4. CASE o = "ok"
  <2>1. /\ Kept(f, g) /\ g.fed = f.fed + n /\ g.pc = p
        /\ g.i = f.i /\ g.made = f.made /\ g.heard = f.heard /\ g.why = f.why
    <3>1. f.fed + n \in Nat
      BY <1>0, <1>1 DEF Frame
    <3>2. QED
      BY <1>0, <1>1, <3>1 DEF Frame, Kept, g
  <2>2. Feeds(f, g)
    BY <1>0, <2>1 DEF Feeds, p, n
  <2>3. Moves(f, g)
    BY <2>1, <2>2 DEF Moves
  <2>4. QED
    BY <1>2, <1>4, <2>3 DEF Put
<1>5. CASE o # "ok"
  <2>1. Cause(o) \in Reason \ {"rejected"}
    BY <1>3, <1>5 DEF Cause, Reason
  <2>2. Moves(f, Raised(f, Cause(o)))
    BY <1>0, <2>1, RaisedMoves DEF Ended
  <2>3. QED
    BY <1>2, <1>5, <2>2 DEF Put
<1>6. QED
  BY <1>4, <1>5

LEMMA DecodeMoves ==
  ASSUME TypeInv, NEW c \in Call, DecodeToken(c)
  PROVE  \E g : Moves(calls[c], g) /\ calls' = [calls EXCEPT ![c] = g]
<1> DEFINE f == calls[c]
           g == [f EXCEPT !.fed = @ + 1, !.pc = "head"]
<1>0. f \in Frame /\ f.pc = "decode"
  BY ElementOfSeq, LenProperties DEF TypeInv, TypeOK, Call, DecodeToken, At
<1>1. PICK o \in Outcomes(f.h, 1) :
        Put(c, CASE o = "ok" -> g
                 [] o \in {"assert", "abort"} -> Raised(f, Cause(o))
                 [] OTHER -> LoopLeft(f))
  BY DEF DecodeToken
<1>2. o \in {"ok", "assert", "no_slot", "error", "abort"}
  BY DEF Outcomes
<1> HIDE DEF g
<1>3. CASE o = "ok"
  <2>1. /\ Kept(f, g) /\ g.fed = f.fed + 1 /\ g.pc = "head"
        /\ g.i = f.i /\ g.made = f.made /\ g.heard = f.heard /\ g.why = f.why
    <3>1. f.fed + 1 \in Nat /\ "head" \in Phase
      BY <1>0, FrameFields, Phases
    <3>2. QED
      BY <1>0, <3>1 DEF Frame, Kept, g
  <2>2. Answers(f, g)
    BY <1>0, <2>1 DEF Answers
  <2>3. Moves(f, g)
    BY <2>1, <2>2 DEF Moves
  <2>4. Put(c, g)
    BY <1>1, <1>3
  <2>5. QED
    BY <2>3, <2>4 DEF Put
<1>4. CASE o \in {"assert", "abort"}
  <2>1. Cause(o) \in Reason \ {"rejected"}
    BY <1>4 DEF Cause, Reason
  <2>2. Moves(f, Raised(f, Cause(o)))
    BY <1>0, <2>1, RaisedMoves DEF Ended
  <2>3. Put(c, Raised(f, Cause(o)))
    BY <1>1, <1>4
  <2>4. QED
    BY <2>2, <2>3 DEF Put
<1>5. CASE o \in {"no_slot", "error"}
  <2>1. Put(c, LoopLeft(f))
    BY <1>1, <1>5
  <2>2. Moves(f, LoopLeft(f))
    BY <1>0, LeftMoves
  <2>3. QED
    BY <2>1, <2>2 DEF Put
<1>6. QED
  BY <1>2, <1>3, <1>4, <1>5

LEMMA SampleMoves ==
  ASSUME TypeInv, NEW c \in Call, SampleUndecodable(c) \/ SampleSilent(c) \/ SampleText(c)
  PROVE  \E g : Moves(calls[c], g) /\ calls' = [calls EXCEPT ![c] = g]
<1> DEFINE f == calls[c]
<1>0. f \in Frame /\ f.pc = "sample" /\ f.i + 1 \in Nat /\ f.made + 1 \in Nat
  <2>1. f \in Frame
    BY ElementOfSeq, LenProperties DEF TypeInv, TypeOK, Call
  <2>2. f.pc = "sample"
    BY DEF SampleUndecodable, SampleSilent, SampleText, CanSample, At
  <2>3. QED
    BY <2>1, <2>2, FrameFields
<1>1. CASE SampleUndecodable(c) \/ SampleSilent(c)
  <2>1. PICK p \in {"head", "decode"} : Put(c, [f EXCEPT !.i = @ + 1, !.pc = p])
    BY <1>1 DEF SampleUndecodable, SampleSilent
  <2> DEFINE g == [f EXCEPT !.i = @ + 1, !.pc = p]
  <2>2. p \in Phase
    BY Phases
  <2>3. /\ Kept(f, g) /\ g.i = f.i + 1 /\ g.pc = p
        /\ g.fed = f.fed /\ g.made = f.made /\ g.heard = f.heard /\ g.why = f.why
    BY <1>0, <2>2 DEF Frame, Kept
  <2> HIDE DEF g
  <2>4. Skips(f, g)
    BY <1>0, <2>3 DEF Skips
  <2>5. Moves(f, g)
    BY <2>3, <2>4 DEF Moves
  <2>6. QED
    BY <2>1, <2>5 DEF Put, g
<1>2. CASE SampleText(c)
  <2> DEFINE p == IF f.op = "stream" THEN "check" ELSE "decode"
             g == [f EXCEPT !.i = @ + 1, !.made = @ + 1, !.pc = p]
  <2>1. Put(c, g)
    BY <1>2 DEF SampleText
  <2>2. p \in Phase
    BY Phases
  <2> HIDE DEF p
  <2>3. /\ Kept(f, g) /\ g.i = f.i + 1 /\ g.made = f.made + 1 /\ g.pc = p
        /\ g.fed = f.fed /\ g.heard = f.heard /\ g.why = f.why
    BY <1>0, <2>2 DEF Frame, Kept
  <2> HIDE DEF g
  <2>4. Speaks(f, g)
    BY <1>0, <2>3 DEF Speaks, p
  <2>5. Moves(f, g)
    BY <2>3, <2>4 DEF Moves
  <2>6. QED
    BY <2>1, <2>5 DEF Put
<1>3. QED
  BY <1>1, <1>2

LEMMA CallMoves ==
  ASSUME TypeInv, NEW c \in Call, CallUser(c)
  PROVE  \E g : Moves(calls[c], g) /\ calls' = [calls EXCEPT ![c] = g]
<1> DEFINE f == calls[c]
           last == f.pc = "lastcall"
           p == IF last THEN "final" ELSE "callback"
           e == [final |-> last, total |-> f.made]
           g == [f EXCEPT !.pc = p, !.heard = Append(@, e)]
<1>0. f \in Frame /\ f.pc \in {"call", "lastcall"}
  BY ElementOfSeq, LenProperties DEF TypeInv, TypeOK, Call, CallUser, At
<1>1. Put(c, g)
  BY DEF CallUser, Told
<1>2. Append(f.heard, e) \in Seq(Event) /\ p \in Phase
  <2>1. last \in BOOLEAN /\ f.made \in Nat /\ f.heard \in Seq(Event)
    BY <1>0 DEF Frame
  <2>2. p \in Phase
    BY Phases
  <2> HIDE DEF last
  <2>3. e \in Event
    BY <2>1 DEF Event
  <2>4. QED
    BY <2>1, <2>2, <2>3
<1> HIDE DEF e, p
<1>3. /\ Kept(f, g) /\ g.pc = p /\ g.heard = Append(f.heard, e)
      /\ g.fed = f.fed /\ g.i = f.i /\ g.made = f.made /\ g.why = f.why
  BY <1>0, <1>2 DEF Frame, Kept
<1> HIDE DEF g
<1>4. (f.pc = "call" /\ p = "callback") \/ (f.pc = "lastcall" /\ p = "final")
  BY <1>0 DEF p
<1>5. g.heard = Append(f.heard, [final |-> f.pc = "lastcall", total |-> f.made])
  BY <1>3 DEF e
<1>6. Calls(f, g)
  BY <1>3, <1>4, <1>5 DEF Calls
<1>7. QED
  BY <1>1, <1>3, <1>6 DEF Moves, Put

LEMMA StepMoves ==
  ASSUME TypeInv, NEW c \in Call, Step(c)
  PROVE  \/ UNCHANGED calls
         \/ \E g : Moves(calls[c], g) /\ calls' = [calls EXCEPT ![c] = g]
<1> DEFINE f == calls[c]
<1>0. f \in Frame
  BY ElementOfSeq, LenProperties DEF TypeInv, TypeOK, Call
<1>1. CASE FeedPrompt(c)
  BY <1>1, FeedMoves
<1>2. CASE DecodeToken(c)
  BY <1>2, DecodeMoves
<1>3. CASE SampleUndecodable(c) \/ SampleSilent(c) \/ SampleText(c)
  BY <1>3, SampleMoves
<1>4. CASE CallUser(c)
  BY <1>4, CallMoves
<1>5. CASE RejectGrammar(c) \/ Interrupt(c) \/ TimeOut(c) \/ SampleAborts(c) \/ CallbackUnwinds(c)
  <2>1. Put(c, Raised(f, "error")) /\ f.pc \notin Ended
    BY <1>5 DEF RejectGrammar, Interrupt, TimeOut, SampleAborts, CanSample, CallbackUnwinds, At,
                Reporting, Closing, Ended
  <2>2. "error" \in Reason \ {"rejected"}
    BY DEF Reason
  <2>3. Moves(f, Raised(f, "error"))
    BY <1>0, <2>1, <2>2, RaisedMoves
  <2>4. QED
    BY <2>1, <2>3 DEF Put
<1>6. CASE SampleEndOfGeneration(c) \/ CallbackStops(c) \/ ExhaustBudget(c)
  <2>1. Put(c, LoopLeft(f)) /\ f.pc \in {"sample", "head", "callback"}
    BY <1>6 DEF SampleEndOfGeneration, CallbackStops, ExhaustBudget, CanSample, At
  <2>2. Moves(f, LoopLeft(f))
    BY <1>0, <2>1, LeftMoves
  <2>3. QED
    BY <2>1, <2>2 DEF Put
<1>7. ASSUME NEW p \in Phase, Put(c, [f EXCEPT !.pc = p]),
             \/ f.pc = "head" /\ p = "sample" /\ f.i < f.npred /\ ~Expired(f)
             \/ f.pc = "check" /\ p = "call" /\ ~f.late
             \/ f.pc = "lastcheck" /\ p = "lastcall" /\ ~f.late
             \/ f.pc = "lastcheck" /\ p = "done" /\ f.late
             \/ f.pc = "callback" /\ p = "decode"
             \/ f.pc = "final" /\ p = "done"
      PROVE  \E g : Moves(f, g) /\ calls' = [calls EXCEPT ![c] = g]
  <2> DEFINE g == [f EXCEPT !.pc = p]
  <2>1. Kept(f, g) /\ Still(f, g) /\ g.why = f.why /\ g.pc = p
    BY <1>0, TurnFields
  <2> HIDE DEF g
  <2>2. Enters(f, g) \/ Checks(f, g) \/ Returns(f, g)
    BY <1>7, <2>1 DEF Enters, Checks, Returns
  <2>3. Moves(f, g)
    BY <2>1, <2>2 DEF Moves
  <2>4. QED
    BY <1>7, <2>3 DEF Put, g
<1>8. CASE GoOn(c) \/ CallbackContinues(c) \/ FinalReturns(c)
  BY <1>7, <1>8, Phases DEF GoOn, CallbackContinues, FinalReturns, At
<1>9. CASE CheckClock(c)
  <2>1. f.pc \in {"check", "lastcheck"} /\ f.late \in BOOLEAN
    BY <1>0, <1>9 DEF CheckClock, At, Frame
  <2>2. CASE f.pc = "check" /\ f.late
    <3>1. Put(c, LoopLeft(f))
      BY <1>9, <2>2 DEF CheckClock
    <3>2. Moves(f, LoopLeft(f))
      BY <1>0, <2>2, LeftMoves
    <3>3. QED
      BY <3>1, <3>2 DEF Put
  <2>3. CASE f.pc = "lastcheck" \/ ~f.late
    <3>1. \/ f.pc = "check" /\ ~f.late /\ Put(c, [f EXCEPT !.pc = "call"])
          \/ f.pc = "lastcheck" /\ ~f.late /\ Put(c, [f EXCEPT !.pc = "lastcall"])
          \/ f.pc = "lastcheck" /\ f.late /\ Put(c, [f EXCEPT !.pc = "done"])
      BY <1>9, <2>1, <2>3 DEF CheckClock
    <3>2. QED
      BY <1>7, <3>1, Phases
  <2>4. QED
    BY <2>1, <2>2, <2>3
<1>10. CASE Crash(c)
  BY <1>10 DEF Crash
<1>11. QED
  BY <1>1, <1>2, <1>3, <1>4, <1>5, <1>6, <1>8, <1>9, <1>10 DEF Step, Sample, CallbackReturns

-----------------------------------------------------------------------------
(* What a frame records of its loop, and what its callback was told        *)

\* The budget bounds the iterations and these the text, and the text is never
\* more than a token ahead of what was fed back.
Progress(f) ==
  /\ f.made <= f.i /\ f.i <= f.npred
  /\ f.pc = "prompt" => f.i = 0 /\ f.fed < f.plen
  /\ f.pc \in {"head", "sample", "decode", "check", "call", "callback"} => f.plen <= f.fed
  /\ f.made > 0 => f.plen <= f.fed /\ f.made + f.plen <= f.fed + 1
  /\ f.pc \in {"head", "sample"} => f.made + f.plen <= f.fed
  /\ f.pc = "sample" => f.i < f.npred

\* The events that were heard are 1, 2, 3, ... and a last one only at the end; the
\* one token that may be missing is the one being reported, and past its deadline a
\* stream may leave it so.
Events(f) ==
  \A j \in 1..Len(f.heard) :
    IF f.heard[j].final
    THEN /\ j = Len(f.heard) /\ f.heard[j].total = f.made
         /\ f.pc \in {"final", "done", "failed"}
    ELSE f.heard[j].total = j /\ j <= f.made

Telling(f) ==
  /\ Events(f)
  /\ f.op # "stream" => f.heard = <<>> /\ f.pc \in Looping \union Ended
  /\ f.op = "stream" /\ f.pc \in Looping \union {"callback", "lastcall"}
       => Len(f.heard) = f.made
  /\ f.pc \in {"check", "call"} => Len(f.heard) + 1 = f.made
  /\ f.pc = "lastcheck" /\ ~f.late => Len(f.heard) = f.made
  /\ f.op = "stream" /\ f.pc \in {"final", "done"} /\ ~f.late
       => Len(f.heard) = f.made + 1 /\ f.heard[Len(f.heard)].final

\* What a late call has given: what it had given when it became late, and what it
\* had been let through to.
Timely(f) ==
  f.late => /\ f.op # "grammar" => Given(f) <= f.due + 1
            /\ f.op = "completion" /\ f.pc = "sample" => f.made = f.due
            /\ f.op = "stream" /\ f.pc \in {"call", "lastcall"} => Len(f.heard) = f.due

LEMMA ChunkStays ==
  ASSUME NEW f \in Frame, f.fed < f.plen
  PROVE  Chunk(f) \in Nat /\ f.fed + Chunk(f) <= f.plen
BY FrameFields, ContextAssumption DEF Chunk

LEMMA MoveProgress ==
  ASSUME NEW f \in Frame, NEW g, Progress(f), Moves(f, g)
  PROVE  Progress(g)
<1>0. /\ f.made \in Nat /\ f.i \in Nat /\ f.npred \in Nat /\ f.fed \in Nat /\ f.plen \in Nat
      /\ g.npred = f.npred /\ g.plen = f.plen
  BY FrameFields DEF Moves, Kept
<1>1. CASE Feeds(f, g)
  <2>1. Chunk(f) \in Nat /\ f.fed + Chunk(f) <= f.plen
    BY <1>1, ChunkStays DEF Progress, Feeds
  <2>2. QED
    BY <1>0, <1>1, <2>1 DEF Progress, Feeds
<1>2. CASE Raises(f, g)
  BY <1>0, <1>2 DEF Progress, Raises, Still
<1>3. CASE Enters(f, g)
  BY <1>0, <1>3 DEF Progress, Enters, Still
<1>4. CASE Skips(f, g)
  BY <1>0, <1>4 DEF Progress, Skips
<1>5. CASE Speaks(f, g)
  BY <1>0, <1>5 DEF Progress, Speaks
<1>6. CASE Leaves(f, g)
  BY <1>0, <1>6 DEF Progress, Leaves, Still
<1>7. CASE Checks(f, g)
  BY <1>0, <1>7 DEF Progress, Checks, Still
<1>8. CASE Calls(f, g)
  BY <1>0, <1>8 DEF Progress, Calls
<1>9. CASE Returns(f, g)
  BY <1>0, <1>9 DEF Progress, Returns, Still
<1>10. CASE Answers(f, g)
  BY <1>0, <1>10 DEF Progress, Answers
<1>11. QED
  BY <1>1, <1>2, <1>3, <1>4, <1>5, <1>6, <1>7, <1>8, <1>9, <1>10 DEF Moves

\* Where no final event is due, every event is a token's, and more text refutes none.
LEMMA SameEvents ==
  ASSUME NEW f \in Frame, NEW g, Events(f), g.heard = f.heard,
         \/ g.made = f.made /\ g.pc \in {"final", "done", "failed"}
         \/ g.made \in {f.made, f.made + 1} /\ f.pc \notin {"final", "done", "failed"}
  PROVE  Events(g)
<1>1. ASSUME NEW j \in 1..Len(f.heard)
      PROVE  IF f.heard[j].final
             THEN /\ j = Len(f.heard) /\ f.heard[j].total = g.made
                  /\ g.pc \in {"final", "done", "failed"}
             ELSE f.heard[j].total = j /\ j <= g.made
  BY <1>1, FrameFields DEF Events
<1>2. QED
  BY <1>1 DEF Events

\* One more event at the end.
LEMMA AppendedEvent ==
  ASSUME NEW s \in Seq(Event), NEW e \in Event
  PROVE  /\ Len(Append(s, e)) = Len(s) + 1
         /\ Append(s, e)[Len(s) + 1] = e
         /\ \A j \in 1..Len(s) : Append(s, e)[j] = s[j]
BY AppendProperties

LEMMA CalledEvents ==
  ASSUME NEW f \in Frame, NEW g, Telling(f), Kept(f, g), Calls(f, g)
  PROVE  /\ Events(g) /\ Len(g.heard) = Len(f.heard) + 1
         /\ f.pc = "lastcall" => g.heard[Len(g.heard)].final
<1> DEFINE last == f.pc = "lastcall"
           e == [final |-> last, total |-> f.made]
           n == Len(f.heard)
<1>1. f.pc \in {"call", "lastcall"} /\ f.made \in Nat /\ n \in Nat /\ f.heard \in Seq(Event)
  BY FrameFields DEF Calls
<1>2. e.final = last /\ e.total = f.made /\ last \in BOOLEAN
  OBVIOUS
<1>3. g.heard = Append(f.heard, e) /\ g.made = f.made
      /\ g.pc = IF last THEN "final" ELSE "callback"
  BY DEF Calls
<1>4. n = IF last THEN f.made ELSE f.made - 1
  <2>1. f.op = "stream"
    BY <1>1 DEF Telling, Looping, Ended
  <2>2. QED
    BY <1>1, <2>1 DEF Telling
<1>5. e \in Event
  <2> HIDE DEF last
  <2>1. QED
    BY <1>1, <1>2 DEF Event
<1>6. \A j \in 1..n : ~f.heard[j].final /\ f.heard[j].total = j /\ j <= f.made
  BY <1>1 DEF Telling, Events
<1> HIDE DEF e, n, last
<1>7. /\ Len(g.heard) = n + 1 /\ g.heard[n + 1] = e
      /\ \A j \in 1..n : g.heard[j] = f.heard[j]
  BY <1>1, <1>3, <1>5, AppendedEvent DEF n
<1>8. ASSUME NEW j \in 1..Len(g.heard)
      PROVE  IF g.heard[j].final
             THEN /\ j = Len(g.heard) /\ g.heard[j].total = g.made
                  /\ g.pc \in {"final", "done", "failed"}
             ELSE g.heard[j].total = j /\ j <= g.made
  <2>1. CASE j \in 1..n
    BY <1>3, <1>6, <1>7, <2>1
  <2>2. CASE j = n + 1 /\ last
    BY <1>2, <1>3, <1>7, <2>2
  <2>3. CASE j = n + 1 /\ ~last
    BY <1>1, <1>2, <1>3, <1>4, <1>7, <2>3
  <2>4. QED
    BY <1>1, <1>7, <2>1, <2>2, <2>3
<1>9. last => g.heard[Len(g.heard)].final
  BY <1>2, <1>7
<1>10. QED
  BY <1>7, <1>8, <1>9 DEF Events, n, last

LEMMA MoveTelling ==
  ASSUME NEW f \in Frame, NEW g, Telling(f), Moves(f, g)
  PROVE  Telling(g)
<1>0. /\ g.op = f.op /\ g.late = f.late /\ f.late \in BOOLEAN
      /\ f.made \in Nat /\ Len(f.heard) \in Nat
      /\ Looping = {"prompt", "head", "sample", "decode"} /\ Ended = {"done", "failed"}
      /\ Events(f)
  BY FrameFields DEF Moves, Kept, Looping, Ended, Telling
<1>1. CASE Feeds(f, g) \/ Enters(f, g) \/ Skips(f, g) \/ Answers(f, g) \/ Checks(f, g)
           \/ Returns(f, g)
  <2>1. g.heard = f.heard /\ g.made = f.made
    BY <1>1 DEF Feeds, Enters, Skips, Answers, Checks, Returns, Still
  <2>2. \/ g.pc \in {"done", "failed"}
        \/ f.pc \notin {"final", "done", "failed"}
    BY <1>1 DEF Feeds, Enters, Skips, Answers, Checks, Returns
  <2>3. Events(g)
    BY <1>0, <2>1, <2>2, SameEvents
  <2>4. \/ f.pc \in Looping \union {"callback"} /\ g.pc \in Looping
        \/ f.pc = "check" /\ g.pc = "call"
        \/ f.pc = "lastcheck" /\ g.pc = "lastcall" /\ ~f.late
        \/ f.pc = "lastcheck" /\ g.pc = "done" /\ f.late
        \/ f.pc = "final" /\ g.pc = "done"
    BY <1>0, <1>1 DEF Feeds, Enters, Skips, Answers, Checks, Returns
  <2>5. QED
    BY <1>0, <2>1, <2>3, <2>4 DEF Telling
<1>2. CASE Raises(f, g)
  <2>1. g.heard = f.heard /\ g.made = f.made /\ g.pc = "failed"
    BY <1>2 DEF Raises, Still
  <2>2. Events(g)
    BY <1>0, <2>1, SameEvents
  <2>3. QED
    BY <1>0, <2>1, <2>2 DEF Telling
<1>3. CASE Speaks(f, g)
  <2>1. /\ g.heard = f.heard /\ g.made = f.made + 1 /\ f.pc = "sample"
        /\ g.pc = IF f.op = "stream" THEN "check" ELSE "decode"
    BY <1>3 DEF Speaks
  <2>2. Events(g)
    BY <1>0, <2>1, SameEvents
  <2>3. QED
    BY <1>0, <2>1, <2>2 DEF Telling
<1>4. CASE Leaves(f, g)
  <2>1. /\ g.heard = f.heard /\ g.made = f.made
        /\ \/ f.pc \in {"head", "sample", "callback", "decode"}
           \/ f.pc = "check" /\ f.late
        /\ g.pc = IF f.op = "stream" THEN "lastcheck" ELSE "done"
    BY <1>4 DEF Leaves, Still
  <2>2. Events(g)
    BY <1>0, <2>1, SameEvents
  <2>3. QED
    BY <1>0, <2>1, <2>2 DEF Telling
<1>5. CASE Calls(f, g)
  <2>1. /\ Events(g) /\ Len(g.heard) = Len(f.heard) + 1
        /\ f.pc = "lastcall" => g.heard[Len(g.heard)].final
    BY <1>5, CalledEvents DEF Moves
  <2>2. /\ g.made = f.made
        /\ \/ f.pc = "call" /\ g.pc = "callback"
           \/ f.pc = "lastcall" /\ g.pc = "final"
    BY <1>5 DEF Calls
  <2>3. f.op = "stream"
    BY <1>0, <2>2 DEF Telling
  <2>4. QED
    BY <1>0, <2>1, <2>2, <2>3 DEF Telling
<1>6. QED
  BY <1>1, <1>2, <1>3, <1>4, <1>5 DEF Moves

\* Past its deadline a call gives at most what it had been let through to.
LEMMA MoveTimely ==
  ASSUME NEW f \in Frame, NEW g, Timely(f), Moves(f, g)
  PROVE  Timely(g)
<1>0. /\ g.op = f.op /\ g.late = f.late /\ g.due = f.due /\ f.due \in Nat /\ f.made \in Nat
      /\ f.op \in Op /\ f.heard \in Seq(Event) /\ Len(f.heard) \in Nat
  BY FrameFields DEF Moves, Kept
<1> SUFFICES ASSUME f.late
             PROVE  Timely(g)
  BY <1>0 DEF Timely
<1>1. /\ f.op # "grammar" => Given(f) <= f.due + 1
      /\ f.op = "completion" /\ f.pc = "sample" => f.made = f.due
      /\ f.op = "stream" /\ f.pc \in {"call", "lastcall"} => Len(f.heard) = f.due
  BY DEF Timely
<1>2. Given(f) \in Nat
  BY <1>0 DEF Given
<1>3. CASE \/ Feeds(f, g) \/ Raises(f, g) \/ Enters(f, g) \/ Skips(f, g)
           \/ Leaves(f, g) \/ Checks(f, g) \/ Returns(f, g) \/ Answers(f, g)
  <2>1. g.heard = f.heard /\ g.made = f.made
    BY <1>3 DEF Feeds, Raises, Enters, Skips, Leaves, Checks, Returns, Answers, Still
  <2>2. Given(g) = Given(f)
    BY <1>0, <2>1 DEF Given
  <2>3. g.pc \notin {"call", "lastcall"} /\ (f.op = "completion" => g.pc # "sample")
    BY <1>3 DEF Feeds, Raises, Enters, Skips, Leaves, Checks, Returns, Answers, Expired
  <2>4. QED
    BY <1>0, <1>1, <2>2, <2>3 DEF Timely
<1>4. CASE Speaks(f, g)
  <2>1. /\ g.heard = f.heard /\ g.made = f.made + 1 /\ f.pc = "sample"
        /\ g.pc \in {"check", "decode"}
    BY <1>4 DEF Speaks
  <2>2. CASE f.op = "stream"
    BY <1>0, <1>1, <2>1, <2>2 DEF Timely, Given
  <2>3. CASE f.op = "completion"
    BY <1>0, <1>1, <2>1, <2>3 DEF Timely, Given
  <2>4. CASE f.op = "grammar"
    BY <1>0, <2>4 DEF Timely
  <2>5. QED
    BY <1>0, <2>2, <2>3, <2>4 DEF Op
<1>5. CASE Calls(f, g)
  <2>1. /\ g.made = f.made /\ f.pc \in {"call", "lastcall"} /\ g.pc \in {"callback", "final"}
        /\ g.heard = Append(f.heard, [final |-> f.pc = "lastcall", total |-> f.made])
    BY <1>5 DEF Calls
  <2>2. Len(g.heard) = Len(f.heard) + 1
    <3> DEFINE last == f.pc = "lastcall"
               e == [final |-> last, total |-> f.made]
    <3>1. last \in BOOLEAN
      OBVIOUS
    <3> HIDE DEF last
    <3>2. e \in Event
      BY <1>0, <3>1 DEF Event
    <3> HIDE DEF e
    <3>3. Len(Append(f.heard, e)) = Len(f.heard) + 1
      BY <1>0, <3>2, AppendedEvent
    <3>4. QED
      BY <2>1, <3>3 DEF e, last
  <2>3. CASE f.op = "stream"
    BY <1>0, <1>1, <2>1, <2>2, <2>3 DEF Timely, Given
  <2>4. CASE f.op # "stream"
    BY <1>0, <1>1, <2>1, <2>4 DEF Timely, Given
  <2>5. QED
    BY <2>3, <2>4
<1>6. QED
  BY <1>3, <1>4, <1>5 DEF Moves

-----------------------------------------------------------------------------
(* Every call, in every state                                              *)

Sound(f) == Progress(f) /\ Telling(f) /\ Timely(f)

FrameInv == /\ TypeInv
            /\ \A c \in Call : Sound(calls[c])

LEMMA CallFrame ==
  ASSUME TypeInv, NEW c \in Call
  PROVE  calls[c] \in Frame
BY ElementOfSeq, LenProperties DEF TypeInv, TypeOK, Call

\* The frame that Begin appends.
LEMMA BegunFrame ==
  ASSUME TypeInv, NEW op \in Op, NEW h \in Handle, NEW plen \in Prompts,
         NEW n \in Predicts, NEW timed \in BOOLEAN, Begin(op, h, plen, n, timed)
  PROVE  LET g == calls'[Len(calls) + 1]
         IN  /\ g.op = op /\ g.h = h /\ g.npred = Clamp(op, n) /\ g.npred \in Nat
             /\ g.made = 0 /\ g.i = 0 /\ g.fed = 0 /\ g.heard = <<>> /\ ~g.late
             /\ \/ g.pc = "failed" /\ g.why = "rejected"
                \/ g.pc = "prompt" /\ g.why = "none" /\ 0 < g.plen
<1> DEFINE f == [op |-> op, h |-> h, plen |-> plen, npred |-> Clamp(op, n),
                 timed |-> timed, late |-> FALSE, due |-> 0, pc |-> "prompt", fed |-> 0,
                 i |-> 0, made |-> 0, heard |-> <<>>, why |-> "none"]
           r == Raised(f, "rejected")
<1>1. Clamp(op, n) \in Nat /\ plen \in Nat
  BY BoundAssumption DEF Clamp
<1>2. /\ f.op = op /\ f.h = h /\ f.npred = Clamp(op, n) /\ f.plen = plen
      /\ f.made = 0 /\ f.i = 0 /\ f.fed = 0 /\ f.heard = <<>> /\ ~f.late
      /\ f.pc = "prompt" /\ f.why = "none"
  OBVIOUS
<1>3. /\ r.op = op /\ r.h = h /\ r.npred = Clamp(op, n) /\ r.plen = plen
      /\ r.made = 0 /\ r.i = 0 /\ r.fed = 0 /\ r.heard = <<>> /\ ~r.late
      /\ r.pc = "failed" /\ r.why = "rejected"
  BY DEF Raised
<1>4. \/ calls' = Append(calls, f) /\ ~Refused(op, h, plen, n)
      \/ calls' = Append(calls, r)
  BY DEF Begin
<1>5. ~Refused(op, h, plen, n) => 0 < plen
  BY <1>1 DEF Refused
<1> HIDE DEF f, r
<1>6. \A x : calls' = Append(calls, x) => calls'[Len(calls) + 1] = x
  BY DEF TypeInv, TypeOK
<1>7. CASE calls' = Append(calls, f) /\ ~Refused(op, h, plen, n)
  BY <1>1, <1>2, <1>5, <1>6, <1>7
<1>8. CASE calls' = Append(calls, r)
  BY <1>1, <1>3, <1>6, <1>8
<1>9. QED
  BY <1>4, <1>7, <1>8

LEMMA BeginFrame ==
  ASSUME FrameInv, NEW op \in Op, NEW h \in Handle, NEW plen \in Prompts,
         NEW n \in Predicts, NEW timed \in BOOLEAN, Begin(op, h, plen, n, timed)
  PROVE  FrameInv'
<1>0. TypeInv
  BY DEF FrameInv
<1>1. PICK new \in Nat : new = Len(calls) + 1
  BY <1>0, LenProperties DEF TypeInv, TypeOK
<1> DEFINE g == calls'[new]
<1>2. /\ TypeInv'
      /\ \A d \in Call : calls'[d] = calls[d]
      /\ Call' = Call \union {new}
  BY <1>0, <1>1, BeginType
<1>3. /\ g.npred \in Nat /\ g.made = 0 /\ g.i = 0 /\ g.fed = 0 /\ g.heard = <<>> /\ ~g.late
      /\ g.pc \in {"failed", "prompt"} /\ (g.pc = "prompt" => 0 < g.plen)
  BY <1>0, <1>1, BegunFrame
<1> HIDE DEF g
<1>4. Progress(g)
  BY <1>3 DEF Progress
<1>5. Telling(g)
  BY <1>3 DEF Telling, Events, Looping, Ended
<1>6. Timely(g)
  BY <1>3 DEF Timely
<1>7. \A c \in Call' : Sound(calls'[c])
  BY <1>2, <1>4, <1>5, <1>6 DEF FrameInv, Sound, g
<1>8. QED
  BY <1>2, <1>7 DEF FrameInv

\* A call moves only while it runs, and from the end of its loop only on to its end.
LEMMA MovePhase ==
  ASSUME NEW f \in Frame, NEW g, Moves(f, g)
  PROVE  f.pc \notin Ended /\ (f.pc \in Closing => g.pc \in Ended \union Closing)
BY DEF Moves, Feeds, Raises, Enters, Skips, Speaks, Leaves, Checks, Calls, Returns, Answers,
       Ended, Closing

LEMMA StepFrame ==
  ASSUME FrameInv, NEW c \in Call, Step(c)
  PROVE  FrameInv'
<1>0. TypeInv /\ TypeInv' /\ calls[c] \in Frame
  BY StepType, CallFrame DEF FrameInv
<1>1. CASE UNCHANGED calls
  BY <1>0, <1>1 DEF FrameInv, Call
<1>2. ASSUME NEW g, Moves(calls[c], g), calls' = [calls EXCEPT ![c] = g]
      PROVE  FrameInv'
  <2>1. /\ Call' = Call /\ calls'[c] = g
        /\ \A d \in Call : d # c => calls'[d] = calls[d]
    BY <1>0, <1>2 DEF TypeInv, TypeOK, Call
  <2>2. Sound(g)
    BY <1>0, <1>2, MoveProgress, MoveTelling, MoveTimely DEF FrameInv, Sound
  <2>3. \A d \in Call' : Sound(calls'[d])
    BY <2>1, <2>2 DEF FrameInv
  <2>4. QED
    BY <1>0, <2>3 DEF FrameInv
<1>3. QED
  BY <1>0, <1>1, <1>2, StepMoves

\* The deadline passes: what the call has given by now is on record.
LEMMA LateFrame ==
  ASSUME FrameInv, NEW c \in Call, DeadlinePasses(c), TypeInv'
  PROVE  FrameInv'
<1> DEFINE f == calls[c]
           g == [f EXCEPT !.late = TRUE, !.due = Given(f)]
<1>0. TypeInv /\ f \in Frame /\ Sound(f)
  BY CallFrame DEF FrameInv
<1>1. /\ g.heard = f.heard /\ g.op = f.op /\ g.late = TRUE /\ g.made = f.made /\ g.pc = f.pc
      /\ g.i = f.i /\ g.npred = f.npred /\ g.fed = f.fed /\ g.plen = f.plen
      /\ g.due = Given(f)
  BY <1>0 DEF Frame
<1>2. calls' = [calls EXCEPT ![c] = g]
  <2>1. calls' = [calls EXCEPT ![c].late = TRUE, ![c].due = Given(calls[c])]
    BY DEF DeadlinePasses
  <2>2. QED
    BY <1>0, <2>1 DEF TypeInv, TypeOK, Frame
<1> HIDE DEF g
<1>3. Given(f) \in Nat /\ Given(g) = Given(f)
  BY <1>0, <1>1, FrameFields DEF Given
<1>4. Telling(g)
  BY <1>0, <1>1 DEF Sound, Telling, Events
<1>5. Progress(g)
  BY <1>0, <1>1 DEF Sound, Progress
<1>6. Timely(g)
  BY <1>0, <1>1, <1>3 DEF Timely, Given
<1>7. /\ Call' = Call /\ calls'[c] = g
      /\ \A d \in Call : d # c => calls'[d] = calls[d]
  BY <1>0, <1>2 DEF TypeInv, TypeOK, Call
<1>8. QED
  BY <1>4, <1>5, <1>6, <1>7 DEF FrameInv, Sound

LEMMA NextFrame == FrameInv /\ [Next]_vars => FrameInv'
<1> SUFFICES ASSUME FrameInv, [Next]_vars
             PROVE  FrameInv'
  OBVIOUS
<1>0. TypeInv'
  BY NextType DEF FrameInv
<1>1. CASE \/ \E h \in Handle : Load(h) \/ Free(h) \/ Embed(h)
           \/ UNCHANGED vars
  <2>1. UNCHANGED calls
    BY <1>1 DEF Load, Free, Embed, vars
  <2>2. QED
    BY <1>0, <2>1 DEF FrameInv, Call
<1>2. CASE Start
  BY <1>2, BeginFrame, BoundAssumption DEF Start
<1>3. CASE \E c \in Call : Step(c)
  BY <1>3, StepFrame
<1>4. CASE \E c \in Call : DeadlinePasses(c)
  BY <1>0, <1>4, LateFrame
<1>5. QED
  BY <1>1, <1>2, <1>3, <1>4 DEF Next

LEMMA InitFrame == Init => FrameInv
<1> SUFFICES ASSUME Init PROVE FrameInv
  OBVIOUS
<1>1. Call = {}
  BY DEF Init, Call
<1>2. QED
  BY <1>1, InitType DEF FrameInv

LEMMA AlwaysFrame == Spec => []FrameInv
BY InitFrame, NextFrame, PTL DEF Spec

\* For every budget and every prompt, the text of a call never exceeds its budget
\* and is at most the one token in hand ahead of what was fed back to the model.
THEOREM TextFollows == Spec => []TextFollowsContext
<1>1. FrameInv => TextFollowsContext
  <2> SUFFICES ASSUME FrameInv, NEW c \in Call
               PROVE  LET f == calls[c]
                          answered == f.fed - f.plen
                      IN  /\ f.made <= f.npred
                          /\ f.made > 0 => f.fed >= f.plen /\ f.made <= answered + 1
                          /\ f.pc = "head" => f.made <= answered
    BY DEF TextFollowsContext
  <2>1. calls[c] \in Frame /\ Progress(calls[c])
    BY CallFrame DEF FrameInv, Sound
  <2>2. QED
    BY <2>1, FrameFields DEF Progress
<1>2. QED
  BY <1>1, AlwaysFrame, PTL

\* The user's callback hears the totals 1, 2, 3, ... and then the final event, in
\* streams of every length, wherever they are stopped.
THEOREM Protocol == Spec => []CallbackProtocol
<1>1. FrameInv => CallbackProtocol
  <2> SUFFICES ASSUME FrameInv, NEW c \in Call
               PROVE  LET f == calls[c]
                          n == Len(f.heard)
                      IN  /\ \A j \in 1..n : LET e == f.heard[j]
                                             IN  IF e.final THEN j = n /\ e.total = f.made
                                                            ELSE e.total = j /\ j <= f.made
                          /\ f.op = "stream" /\ f.pc = "done" /\ ~f.late
                               => n = f.made + 1 /\ f.heard[n].final
                          /\ f.op # "stream" => n = 0
    BY DEF CallbackProtocol
  <2>1. Telling(calls[c])
    BY DEF FrameInv, Sound
  <2>2. QED
    BY <2>1 DEF Telling, Events
<1>2. QED
  BY <1>1, AlwaysFrame, PTL

\* Wherever in a call its deadline passes, a completion's text grows by at most the
\* token whose iteration had read the clock before, and a stream makes at most the
\* one callback that safe_callback had let through before.
THEOREM DeadlineKept == Spec => []DeadlineHolds
<1>1. FrameInv => DeadlineHolds
  <2> SUFFICES ASSUME FrameInv, NEW c \in Call
               PROVE  LET f == calls[c]
                      IN  f.late /\ f.op # "grammar" => Given(f) <= f.due + 1
    BY DEF DeadlineHolds
  <2>1. Timely(calls[c])
    BY DEF FrameInv, Sound
  <2>2. QED
    BY <2>1 DEF Timely
<1>2. QED
  BY <1>1, AlwaysFrame, PTL

-----------------------------------------------------------------------------
(* The loops implement CompletionService                                   *)

View(f) == [h |-> f.h, budget |-> f.npred, status |-> StatusOf(f), text |-> f.made]

Requests == [c \in Call |-> View(calls[c])]

LastOf(S) == IF S = {} THEN 0 ELSE CHOOSE c \in S : \A d \in S : d <= c

\* While a call generates, no later call was accepted by its model.
Latest == \A c \in Call, h \in Handle :
            Generating(c) /\ calls[c].h = h => \A d \in Accepted(h) : d <= c

\* A call that was refused never ran.
RefusedIsOver == \A c \in Call : calls[c].why = "rejected" => calls[c].pc \in Ended

ServiceInv == OwnInv /\ FrameInv /\ Latest /\ RefusedIsOver

\* A move of a frame, seen from outside: nothing, a word, or the end.
LEMMA MoveView ==
  ASSUME NEW f \in Frame, NEW g, Progress(f), Moves(f, g), f.why # "rejected"
  PROVE  /\ g.h = f.h /\ g.npred = f.npred /\ g.why # "rejected"
         /\ \/ g.made = f.made
            \/ /\ f.pc = "sample" /\ f.made < f.npred
               /\ g.made = f.made + 1 /\ g.pc \notin Ended
<1>1. g.h = f.h /\ g.npred = f.npred
  BY DEF Moves, Kept
<1>2. CASE Speaks(f, g)
  <2>1. f.made < f.npred
    BY <1>2, FrameFields DEF Speaks, Progress
  <2>2. QED
    BY <1>1, <1>2, <2>1 DEF Speaks, Ended
<1>3. CASE ~Speaks(f, g)
  BY <1>1, <1>3 DEF Moves, Feeds, Raises, Enters, Skips, Leaves, Checks, Calls, Returns,
                    Answers, Still
<1>4. QED
  BY <1>2, <1>3

\* What a step of a call is, beside the move of its frame.
LEMMA StepTurn ==
  ASSUME NEW c \in Call, Step(c)
  PROVE  Innermost(c) /\ UNCHANGED handle
BY DEF Step, Sample, CallbackReturns, FeedPrompt, RejectGrammar, Interrupt, TimeOut, SampleAborts,
       GoOn, SampleEndOfGeneration, SampleUndecodable, SampleSilent, SampleText, CanSample,
       CheckClock, CallUser,
       CallbackContinues, CallbackStops, CallbackUnwinds, DecodeToken, ExhaustBudget,
       FinalReturns, Crash, At

LEMMA LastOfIs ==
  ASSUME NEW S, S \subseteq Nat, NEW m \in S, \A d \in S : d <= m
  PROVE  LastOf(S) = m
<1>1. \A c \in S : (\A d \in S : d <= c) => c = m
  OBVIOUS
<1>2. QED
  BY <1>1 DEF LastOf

LEMMA LastAcceptedIs == \A h : LastAccepted(h) = LastOf(Accepted(h))
BY DEF LastAccepted, LastOf

\* A frame moves: the requests but for its own, and who was accepted, stay.
LEMMA MovedRequests ==
  ASSUME TypeInv, NEW c \in Call, NEW g, calls' = [calls EXCEPT ![c] = g],
         g.h = calls[c].h, g.why = "rejected" <=> calls[c].why = "rejected"
  PROVE  /\ Call' = Call /\ calls'[c] = g
         /\ \A d \in Call : d # c => calls'[d] = calls[d]
         /\ Requests' = [Requests EXCEPT ![c] = View(g)]
         /\ \A h : Accepted(h)' = Accepted(h)
<1>1. /\ Call' = Call /\ calls'[c] = g
      /\ \A d \in Call : d # c => calls'[d] = calls[d]
  BY DEF TypeInv, TypeOK, Call
<1>2. Requests' = [Requests EXCEPT ![c] = View(g)]
  BY <1>1 DEF Requests, View
<1>3. \A h : Accepted(h)' = Accepted(h)
  BY <1>1 DEF Accepted
<1>4. QED
  BY <1>1, <1>2, <1>3

LEMMA StepService ==
  ASSUME ServiceInv, NEW c \in Call, Step(c)
  PROVE  Latest' /\ RefusedIsOver'
<1>0. TypeInv /\ calls[c] \in Frame /\ Progress(calls[c])
  BY CallFrame DEF ServiceInv, FrameInv, Sound
<1>1. CASE UNCHANGED calls
  BY <1>1 DEF ServiceInv, Latest, RefusedIsOver, Generating, Running, Accepted, Call
<1>2. ASSUME NEW g, Moves(calls[c], g), calls' = [calls EXCEPT ![c] = g]
      PROVE  Latest' /\ RefusedIsOver'
  <2>1. calls[c].pc \notin Ended
    BY <1>0, <1>2, MovePhase
  <2>2. calls[c].why # "rejected"
    BY <2>1 DEF ServiceInv, RefusedIsOver
  <2>3. /\ g.h = calls[c].h /\ g.why # "rejected"
        /\ calls[c].pc \in Closing => g.pc \in Ended \union Closing
    BY <1>0, <1>2, <2>2, MoveView, MovePhase
  <2>4. /\ Call' = Call /\ calls'[c] = g
        /\ \A d \in Call : d # c => calls'[d] = calls[d]
        /\ \A h : Accepted(h)' = Accepted(h)
    BY <1>0, <1>2, <2>2, <2>3, MovedRequests
  <2>5. \A d \in Call : Generating(d)' => Generating(d)
    BY <2>1, <2>3, <2>4 DEF Generating, Running
  <2>6. \A d \in Call : calls'[d].h = calls[d].h
    BY <2>3, <2>4
  <2>7. Latest'
    BY <2>4, <2>5, <2>6 DEF ServiceInv, Latest
  <2>8. RefusedIsOver'
    BY <2>3, <2>4 DEF ServiceInv, RefusedIsOver
  <2>9. QED
    BY <2>7, <2>8
<1>3. QED
  BY <1>0, <1>1, <1>2, StepMoves

\* What a new call does to the calls its model accepted.
LEMMA BeginAccepted ==
  ASSUME TypeInv, NEW op \in Op, NEW h \in Handle, NEW plen \in Prompts,
         NEW n \in Predicts, NEW timed \in BOOLEAN, Begin(op, h, plen, n, timed)
  PROVE  LET new == Len(calls) + 1
             g == calls'[new]
         IN  /\ \/ /\ g.why = "rejected" /\ g.pc = "failed"
                   /\ \A x : Accepted(x)' = Accepted(x)
                \/ /\ g.why = "none" /\ g.pc = "prompt" /\ handle[h] = "open"
                   /\ Accepted(h)' = Accepted(h) \union {new}
                   /\ \A x : x # h => Accepted(x)' = Accepted(x)
             /\ \A x : \A d \in Accepted(x) : d \in Nat /\ d < new
<1>1. PICK new \in Nat : new = Len(calls) + 1
  BY LenProperties DEF TypeInv, TypeOK
<1> DEFINE g == calls'[new]
<1>2. /\ \A d \in Call : calls'[d] = calls[d]
      /\ Call' = Call \union {new}
      /\ g.pc = "prompt" => handle[h] = "open"
  BY <1>1, BeginType
<1>3. /\ g.h = h
      /\ \/ g.pc = "failed" /\ g.why = "rejected"
         \/ g.pc = "prompt" /\ g.why = "none"
  BY <1>1, BegunFrame
<1>4. \A d \in Call : d \in Nat /\ d < new
  BY <1>1, LenProperties DEF TypeInv, TypeOK, Call
<1>5. new \notin Call
  BY <1>4
<1> HIDE DEF g
<1>6. \A x : Accepted(x)' = {d \in Call \union {new} : calls'[d].h = x /\ calls'[d].why # "rejected"}
  BY <1>2 DEF Accepted
<1>7. CASE g.why = "rejected"
  <2>1. \A x : Accepted(x)' = Accepted(x)
    BY <1>2, <1>5, <1>6, <1>7 DEF Accepted, g
  <2>2. QED
    BY <1>1, <1>3, <1>4, <1>7, <2>1 DEF Accepted, g
<1>8. CASE g.why # "rejected"
  <2>1. Accepted(h)' = Accepted(h) \union {new}
    BY <1>2, <1>3, <1>6, <1>8 DEF Accepted, g
  <2>2. \A x : x # h => Accepted(x)' = Accepted(x)
    BY <1>2, <1>3, <1>5, <1>6 DEF Accepted, g
  <2>3. QED
    BY <1>1, <1>2, <1>3, <1>4, <1>8, <2>1, <2>2 DEF Accepted, g
<1>9. QED
  BY <1>7, <1>8

LEMMA BeginService ==
  ASSUME ServiceInv, NEW op \in Op, NEW h \in Handle, NEW plen \in Prompts,
         NEW n \in Predicts, NEW timed \in BOOLEAN, Begin(op, h, plen, n, timed),
         PoliteCallbacks
  PROVE  Latest' /\ RefusedIsOver'
<1>0. TypeInv
  BY DEF ServiceInv, FrameInv
<1>1. PICK new \in Nat : new = Len(calls) + 1
  BY <1>0, LenProperties DEF TypeInv, TypeOK
<1> DEFINE g == calls'[new]
<1>2. /\ \A d \in Call : calls'[d] = calls[d]
      /\ Call' = Call \union {new}
  BY <1>0, <1>1, BeginType
<1>3. /\ \/ /\ g.why = "rejected" /\ g.pc = "failed"
            /\ \A x : Accepted(x)' = Accepted(x)
         \/ /\ g.why = "none" /\ g.pc = "prompt"
            /\ Accepted(h)' = Accepted(h) \union {new}
            /\ \A x : x # h => Accepted(x)' = Accepted(x)
      /\ \A x : \A d \in Accepted(x) : d \in Nat /\ d < new
  BY <1>0, <1>1, BeginAccepted
<1>4. g.h = h
  BY <1>0, <1>1, BegunFrame
<1>5. \A d \in Call : Generating(d) => calls[d].h # h
  BY DEF Begin, MayUse, Busy
<1> HIDE DEF g
<1>6. RefusedIsOver'
  BY <1>2, <1>3 DEF ServiceInv, RefusedIsOver, Ended, g
<1>7. ASSUME NEW c \in Call, NEW x \in Handle, Generating(c)', calls'[c].h = x
      PROVE  \A d \in Accepted(x)' : d <= c
  <2>1. Generating(c) /\ calls[c].h = x /\ x # h
    BY <1>2, <1>5, <1>7 DEF Generating, Running
  <2>2. \A e \in Accepted(x) : e <= c
    BY <2>1 DEF ServiceInv, Latest
  <2>3. Accepted(x)' = Accepted(x)
    BY <1>3, <2>1
  <2>4. QED
    BY <2>2, <2>3
<1>8. ASSUME NEW x \in Handle, Generating(new)', calls'[new].h = x
      PROVE  \A d \in Accepted(x)' : d <= new
  <2>1. x = h /\ g.pc # "failed"
    BY <1>4, <1>8 DEF Generating, Running, Ended, g
  <2>2. Accepted(x)' = Accepted(h) \union {new}
    BY <1>3, <2>1
  <2>3. QED
    BY <1>3, <2>2
<1>9. Latest'
  BY <1>2, <1>7, <1>8 DEF Latest
<1>10. QED
  BY <1>6, <1>9

LEMMA NextService ==
  ASSUME PoliteCallbacks
  PROVE  ServiceInv /\ [Next]_vars => ServiceInv'
<1> SUFFICES ASSUME ServiceInv, [Next]_vars
             PROVE  ServiceInv'
  OBVIOUS
<1>0. OwnInv' /\ FrameInv'
  BY NextOwn, NextFrame DEF ServiceInv
<1>1. CASE \/ \E h \in Handle : Load(h) \/ Free(h) \/ Embed(h)
           \/ UNCHANGED vars
  <2>1. UNCHANGED calls
    BY <1>1 DEF Load, Free, Embed, vars
  <2>2. Latest' /\ RefusedIsOver'
    BY <2>1 DEF ServiceInv, Latest, RefusedIsOver, Generating, Running, Accepted, Call
  <2>3. QED
    BY <1>0, <2>2 DEF ServiceInv
<1>2. CASE Start
  BY <1>0, <1>2, BeginService, BoundAssumption DEF Start, ServiceInv
<1>3. CASE \E c \in Call : Step(c)
  BY <1>0, <1>3, StepService DEF ServiceInv
<1>4. CASE \E c \in Call : DeadlinePasses(c)
  <2>1. PICK c \in Call : DeadlinePasses(c)
    BY <1>4
  <2>2. TypeInv
    BY DEF ServiceInv, FrameInv
  <2>3. PICK g \in Frame : /\ calls' = [calls EXCEPT ![c] = g]
                           /\ g.h = calls[c].h /\ g.pc = calls[c].pc /\ g.why = calls[c].why
    BY <2>1, <2>2, DeadlineFrame DEF TypeInv
  <2>4. /\ Call' = Call /\ calls'[c] = g
        /\ \A d \in Call : d # c => calls'[d] = calls[d]
        /\ \A h : Accepted(h)' = Accepted(h)
    BY <2>2, <2>3, MovedRequests
  <2>5. \A d \in Call : /\ calls'[d].h = calls[d].h /\ calls'[d].pc = calls[d].pc
                        /\ calls'[d].why = calls[d].why
    BY <2>3, <2>4
  <2>6. Latest' /\ RefusedIsOver'
    BY <2>4, <2>5 DEF ServiceInv, Latest, RefusedIsOver, Generating, Running
  <2>7. QED
    BY <1>0, <2>6 DEF ServiceInv
<1>5. QED
  BY <1>1, <1>2, <1>3, <1>4 DEF Next

LEMMA InitService == Init => ServiceInv
<1> SUFFICES ASSUME Init PROVE ServiceInv
  OBVIOUS
<1>1. Call = {}
  BY DEF Init, Call
<1>2. QED
  BY <1>1, InitOwn, InitFrame DEF ServiceInv, Latest, RefusedIsOver

LEMMA AlwaysService ==
  ASSUME PoliteCallbacks
  PROVE  Spec => []ServiceInv
BY InitService, NextService, PTL DEF Spec

\* What the service is asked and answers, in its own terms.
Answering == [h \in Handle |-> LastAccepted(h)]

LEMMA AnsweringStays ==
  ASSUME \A h : Accepted(h)' = Accepted(h)
  PROVE  Answering' = Answering
<1>1. ASSUME NEW h PROVE LastAccepted(h)' = LastAccepted(h)
  <2>1. LastAccepted(h)' = LastOf(Accepted(h)')
    BY DEF LastAccepted, LastOf
  <2>2. QED
    BY <2>1, LastAcceptedIs
<1>2. QED
  BY <1>1 DEF Answering

\* A step of a call is a word, an end or nothing.
LEMMA StepMaps ==
  ASSUME ServiceInv, NEW c \in Call, Step(c)
  PROVE  \/ UNCHANGED Service!svars
         \/ Service!Emit(c)
         \/ Service!Settle(c, "done") \/ Service!Settle(c, "failed")
<1> DEFINE f == calls[c]
<1>0. TypeInv /\ f \in Frame /\ Progress(f) /\ Innermost(c) /\ UNCHANGED handle
  BY CallFrame, StepTurn DEF ServiceInv, FrameInv, Sound
<1>1. CASE UNCHANGED calls
  <2>1. \A h : Accepted(h)' = Accepted(h)
    BY <1>1 DEF Accepted, Call
  <2>2. Answering' = Answering /\ Requests' = Requests
    BY <1>1, <2>1, AnsweringStays DEF Requests, Call, View
  <2>3. QED
    BY <1>0, <2>2 DEF Service!svars, Answering, Requests, View
<1>2. ASSUME NEW g, Moves(f, g), calls' = [calls EXCEPT ![c] = g]
      PROVE  \/ UNCHANGED Service!svars
             \/ Service!Emit(c)
             \/ Service!Settle(c, "done") \/ Service!Settle(c, "failed")
  <2>1. f.pc \notin Ended
    BY <1>0, <1>2, MovePhase
  <2>2. f.why # "rejected"
    BY <2>1 DEF ServiceInv, RefusedIsOver
  <2>3. /\ g.h = f.h /\ g.npred = f.npred /\ g.why # "rejected"
        /\ \/ g.made = f.made
           \/ /\ f.pc = "sample" /\ f.made < f.npred
              /\ g.made = f.made + 1 /\ g.pc \notin Ended
    BY <1>0, <1>2, <2>2, MoveView
  <2>4. /\ Requests' = [Requests EXCEPT ![c] = View(g)]
        /\ \A h : Accepted(h)' = Accepted(h)
    BY <1>0, <1>2, <2>2, <2>3, MovedRequests
  <2>5. Answering' = Answering
    BY <2>4, AnsweringStays
  <2>6. Requests[c] = View(f) /\ DOMAIN Requests = Call
    BY DEF Requests, View
  <2>7. Service!Newest(c)
    BY <1>0 DEF Service!Newest, Innermost, Running, StatusOf, Ended
  <2>8. CASE g.made = f.made /\ g.pc \notin Ended
    <3>1. View(g) = View(f)
      BY <2>1, <2>3, <2>8 DEF View, StatusOf
    <3>2. Requests' = Requests
      BY <2>4, <2>6, <3>1 DEF Requests
    <3>3. QED
      BY <1>0, <2>5, <3>2 DEF Service!svars, Answering, Requests, View
  <2>9. CASE g.made = f.made /\ g.pc \in Ended
    <3>1. View(g) = [View(f) EXCEPT !.status = g.pc] /\ g.pc \in {"done", "failed"}
      BY <2>3, <2>9 DEF View, StatusOf, Ended
    <3>2. Requests' = [Requests EXCEPT ![c].status = g.pc]
      BY <2>4, <2>6, <3>1
    <3>3. Service!Settle(c, g.pc)
      BY <1>0, <2>5, <2>7, <3>2 DEF Service!Settle, Answering, Requests, View
    <3>4. QED
      BY <3>1, <3>3
  <2>10. CASE /\ f.pc = "sample" /\ f.made < f.npred
              /\ g.made = f.made + 1 /\ g.pc \notin Ended
    <3>1. View(g) = [View(f) EXCEPT !.text = f.made + 1] /\ View(f).text = f.made
      BY <2>1, <2>3, <2>10 DEF View, StatusOf
    <3>2. Requests' = [Requests EXCEPT ![c].text = @ + 1]
      BY <2>4, <2>6, <3>1
    <3>3. Generating(c)
      BY <2>10 DEF Generating, Running, Ended, Closing
    <3>4. handle[f.h] = "open"
      BY <3>3 DEF ServiceInv, OwnInv, OpenWhileUsed, Alive
    <3>5. LastAccepted(f.h) = c
      <4>1. c \in Accepted(f.h) /\ \A d \in Accepted(f.h) : d <= c
        BY <1>0, <2>2, <3>3 DEF Accepted, Frame, ServiceInv, Latest
      <4>2. Accepted(f.h) \subseteq Nat
        BY <1>0, LenProperties DEF Accepted, Call, TypeInv, TypeOK
      <4>3. QED
        BY <4>1, <4>2, LastOfIs, LastAcceptedIs
    <3>6. f.h \in Handle /\ Answering[f.h] = c
      BY <1>0, <3>5 DEF Frame, Answering
    <3>7. QED
      BY <1>0, <2>5, <2>6, <2>7, <2>10, <3>2, <3>4, <3>6
         DEF Service!Emit, Answering, Requests, View
  <2>11. QED
    BY <2>3, <2>8, <2>9, <2>10
<1>3. QED
  BY <1>0, <1>1, <1>2, StepMoves

\* A new call is a request that is taken or refused.
LEMMA BeginMaps ==
  ASSUME ServiceInv, NEW op \in Op, NEW h \in Handle, NEW plen \in Prompts,
         NEW n \in Predicts, NEW timed \in BOOLEAN, Begin(op, h, plen, n, timed)
  PROVE  LET m == Clamp(op, n)
         IN  m \in Predicts \union {1} /\ (Service!Submit(h, m) \/ Service!Refuse(h, m))
<1>0. TypeInv
  BY DEF ServiceInv, FrameInv
<1>1. PICK new \in Nat : new = Len(calls) + 1
  BY <1>0, LenProperties DEF TypeInv, TypeOK
<1> DEFINE g == calls'[new]
           m == Clamp(op, n)
<1>2. /\ \A d \in Call : calls'[d] = calls[d]
      /\ Call' = Call \union {new}
  BY <1>0, <1>1, BeginType
<1>3. /\ \/ /\ g.why = "rejected" /\ g.pc = "failed"
            /\ \A x : Accepted(x)' = Accepted(x)
         \/ /\ g.why = "none" /\ g.pc = "prompt" /\ handle[h] = "open"
            /\ Accepted(h)' = Accepted(h) \union {new}
            /\ \A x : x # h => Accepted(x)' = Accepted(x)
      /\ \A x : \A d \in Accepted(x) : d \in Nat /\ d < new
  BY <1>0, <1>1, BeginAccepted
<1>4. g.h = h /\ g.npred = m /\ g.made = 0
  BY <1>0, <1>1, BegunFrame
<1>5. m \in Predicts \union {1} /\ UNCHANGED handle
  BY DEF Clamp, Begin
<1>6. /\ Call = 1..Len(calls) /\ Len(calls) \in Nat /\ Call' = 1..new /\ new \notin Call
  BY <1>0, <1>1, <1>2, LenProperties DEF TypeInv, TypeOK, Call
<1> HIDE DEF g, m
<1>7. Requests \in Seq({View(calls[c]) : c \in Call}) /\ Len(Requests) = Len(calls)
  BY <1>6 DEF Requests
<1>8. Requests' = Append(Requests, View(g))
  <2> DEFINE V == {View(calls[c]) : c \in Call} \union {View(g)}
             s == Append(Requests, View(g))
  <2>1. Requests' = [c \in 1..new |-> View(calls'[c])]
    BY <1>6 DEF Requests, View
  <2>2. \A c \in 1..new : View(calls'[c]) = IF c = new THEN View(g) ELSE Requests[c]
    BY <1>2, <1>6 DEF Requests, View, g
  <2>3. \A c \in 1..Len(calls) : Requests[c] \in V
    BY <1>6 DEF Requests
  <2>4. Requests \in Seq(V) /\ View(g) \in V
    BY <1>6, <1>7, <2>3 DEF Requests
  <2>5. Requests' \in Seq(V) /\ Len(Requests') = new
    BY <1>1, <1>6, <2>1, <2>2, <2>3
  <2>6. s \in Seq(V) /\ Len(s) = new /\ \A c \in 1..new : s[c] = IF c = new THEN View(g) ELSE Requests[c]
    BY <1>1, <1>6, <1>7, <2>4
  <2> HIDE DEF s
  <2>7. \A c \in 1..new : Requests'[c] = s[c]
    BY <2>1, <2>2, <2>6
  <2>8. Requests' = s
    BY <2>5, <2>6, <2>7, SeqEqual
  <2>9. QED
    BY <2>8 DEF s
<1>9. CASE g.pc = "failed"
  <2>1. View(g) = Service!Request0(h, m, "failed")
    BY <1>4, <1>9 DEF View, StatusOf, Ended, Service!Request0
  <2>2. Answering' = Answering
    BY <1>3, <1>9, AnsweringStays
  <2>3. QED
    BY <1>5, <1>8, <2>1, <2>2 DEF Service!Refuse, Answering, Requests, View, m
<1>10. CASE g.pc # "failed"
  <2>1. g.pc = "prompt" /\ handle[h] = "open"
    BY <1>3, <1>10
  <2>2. View(g) = Service!Request0(h, m, "running")
    BY <1>4, <2>1 DEF View, StatusOf, Ended, Service!Request0
  <2>3. LastAccepted(h)' = new
    <3>1. LastAccepted(h)' = LastOf(Accepted(h)')
      BY DEF LastAccepted, LastOf
    <3>2. /\ new \in Accepted(h)' /\ Accepted(h)' \subseteq Nat
          /\ \A d \in Accepted(h)' : d <= new
      BY <1>3, <1>10
    <3>3. QED
      BY <3>1, <3>2, LastOfIs
  <2>4. \A x \in Handle : x # h => LastAccepted(x)' = LastAccepted(x)
    <3>1. ASSUME NEW x \in Handle, x # h
          PROVE  LastAccepted(x)' = LastAccepted(x)
      <4>1. LastAccepted(x)' = LastOf(Accepted(x)')
        BY DEF LastAccepted, LastOf
      <4>2. Accepted(x)' = Accepted(x)
        BY <1>3, <1>10, <3>1
      <4>3. QED
        BY <4>1, <4>2, LastAcceptedIs
    <3>2. QED
      BY <3>1
  <2>5. Answering' = [Answering EXCEPT ![h] = Len(Requests) + 1]
    BY <1>1, <1>7, <2>3, <2>4 DEF Answering
  <2>6. QED
    BY <1>5, <1>8, <2>1, <2>2, <2>5 DEF Service!Submit, Answering, Requests, View, m
<1>11. QED
  BY <1>5, <1>9, <1>10 DEF m

LEMMA HandleMaps ==
  ASSUME NEW h \in Handle, Load(h) \/ Free(h) \/ Embed(h)
  PROVE  Service!Open(h) \/ Service!Close(h) \/ UNCHANGED Service!svars
<1>1. UNCHANGED calls
  BY DEF Load, Free, Embed
<1>2. \A x : Accepted(x)' = Accepted(x)
  BY <1>1 DEF Accepted, Call
<1>3. Answering' = Answering /\ Requests' = Requests
  BY <1>1, <1>2, AnsweringStays DEF Requests, View, Call
<1>4. CASE Load(h)
  BY <1>3, <1>4 DEF Load, Service!Open, Answering, Requests, View
<1>5. CASE Free(h)
  BY <1>3, <1>5 DEF Free, Service!Close, Answering, Requests, View
<1>6. CASE Embed(h)
  BY <1>3, <1>6 DEF Embed, Service!svars, Answering, Requests, View
<1>7. QED
  BY <1>4, <1>5, <1>6

LEMMA DeadlineMaps ==
  ASSUME TypeInv, NEW c \in Call, DeadlinePasses(c)
  PROVE  UNCHANGED Service!svars
<1> DEFINE g == [calls[c] EXCEPT !.late = TRUE, !.due = Given(calls[c])]
<1>1. /\ g.h = calls[c].h /\ g.why = calls[c].why /\ g.pc = calls[c].pc
      /\ g.npred = calls[c].npred /\ g.made = calls[c].made
  BY CallFrame DEF Frame
<1>2. calls' = [calls EXCEPT ![c] = g] /\ UNCHANGED handle
  <2>1. /\ calls' = [calls EXCEPT ![c].late = TRUE, ![c].due = Given(calls[c])]
        /\ UNCHANGED handle
    BY DEF DeadlinePasses
  <2>2. QED
    BY <2>1, CallFrame DEF TypeInv, TypeOK, Frame
<1> HIDE DEF g
<1>3. /\ Requests' = [Requests EXCEPT ![c] = View(g)]
      /\ \A h : Accepted(h)' = Accepted(h)
  BY <1>1, <1>2, MovedRequests
<1>4. View(g) = View(calls[c])
  BY <1>1 DEF View, StatusOf
<1>5. Requests' = Requests
  BY <1>3, <1>4 DEF Requests
<1>6. Answering' = Answering
  BY <1>3, AnsweringStays
<1>7. QED
  BY <1>2, <1>5, <1>6 DEF Service!svars, Answering, Requests, View

LEMMA NextMaps == ServiceInv /\ [Next]_vars => [Service!SNext]_(Service!svars)
<1> SUFFICES ASSUME ServiceInv, [Next]_vars
             PROVE  [Service!SNext]_(Service!svars)
  OBVIOUS
<1>0. TypeInv
  BY DEF ServiceInv, FrameInv
<1>1. CASE \E h \in Handle : Load(h) \/ Free(h) \/ Embed(h)
  BY <1>1, HandleMaps DEF Service!SNext
<1>2. CASE Start
  <2>1. PICK op \in Op, h \in Handle, plen \in Prompts, n \in Predicts,
             timed \in BOOLEAN : Begin(op, h, plen, n, timed)
    BY <1>2, BoundAssumption DEF Start
  <2>2. \E m \in Predicts \union {1} : Service!Submit(h, m) \/ Service!Refuse(h, m)
    BY <2>1, BeginMaps
  <2>3. QED
    BY <2>2 DEF Service!SNext
<1>3. CASE \E c \in Call : Step(c)
  <2>1. PICK c \in Call : Step(c)
    BY <1>3
  <2>2. c \in DOMAIN Requests
    BY DEF Requests
  <2>3. QED
    BY <2>1, <2>2, StepMaps DEF Service!SNext, Requests, View
<1>4. CASE \E c \in Call : DeadlinePasses(c)
  BY <1>0, <1>4, DeadlineMaps
<1>5. CASE UNCHANGED vars
  <2>1. UNCHANGED <<handle, calls>>
    BY <1>5 DEF vars
  <2>2. \A x : Accepted(x)' = Accepted(x)
    BY <2>1 DEF Accepted, Call
  <2>3. Answering' = Answering /\ Requests' = Requests
    BY <2>1, <2>2, AnsweringStays DEF Requests, View, Call
  <2>4. QED
    BY <2>1, <2>3 DEF Service!svars, Answering, Requests, View
<1>6. QED
  BY <1>1, <1>2, <1>3, <1>4, <1>5 DEF Next

LEMMA InitMaps == Init => Service!SInit
<1> SUFFICES ASSUME Init PROVE Service!SInit
  OBVIOUS
<1>1. Call = {}
  BY DEF Init, Call
<1>2. \A h : LastAccepted(h) = 0
  BY <1>1 DEF LastAccepted, Accepted
<1>3. Requests = <<>>
  BY <1>1 DEF Requests
<1>4. QED
  BY <1>2, <1>3 DEF Init, Service!SInit, Requests, View

\* While callbacks leave generating models alone, the loops implement the service
\* for every number of handles, calls, cells and tokens: a text grows only while its
\* request is the innermost one and the last its open model was given, within its
\* budget, and a request that has returned never changes.
THEOREM LoopsImplementService ==
  ASSUME PoliteCallbacks
  PROVE  Spec => ImplementsService
<1>1. Spec => []ServiceInv
  BY AlwaysService
<1>2. QED
  BY <1>1, InitMaps, NextMaps, PTL DEF Spec, ImplementsService, Service!SSpec

=============================================================================
