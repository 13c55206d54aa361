------------------------------ MODULE ChatHistory ------------------------------
(***************************************************************************)
(* edge_chat_stream: a chat whose history is sent whole with every         *)
(* question, and trimmed after every answer.                               *)
(*                                                                         *)
(* conversation_history is the system message, if there is one, followed   *)
(* by turns; `turns` is that rest.  The texts of a question and its answer *)
(* are abstracted to the number of the exchange.                           *)
(***************************************************************************)
EXTENDS Integers, Sequences

CONSTANTS
  Windows,      \* values of max_history * 2
  MaxExchanges  \* bound: questions asked

ASSUME ChatAssumption == Windows \subseteq Int /\ MaxExchanges \in Nat

VARIABLES
  system,    \* whether there is a system prompt
  window,    \* max_history * 2
  turns,     \* the user's and the assistant's messages that are kept
  exchange,  \* questions asked so far
  pc         \* "ask": at the readline; "answer": in the stream

chatVars == <<system, window, turns, exchange, pc>>

Turn == [role : {"user", "assistant"}, of : Nat]

User(n) == [role |-> "user", of |-> n]
Assistant(n) == [role |-> "assistant", of |-> n]

SystemMsgs == IF system THEN 1 ELSE 0

ChatInit == /\ system \in BOOLEAN
            /\ window \in Windows
            /\ turns = <<>>
            /\ exchange = 0
            /\ pc = "ask"

\* R's tail(x, n): the last n, or for n < 0 all but the first -n.
RTail(x, n) ==
  LET drop == IF n >= 0 THEN Len(x) - n ELSE -n
  IN  IF drop <= 0 THEN x ELSE SubSeq(x, drop + 1, Len(x))

\* mutation: the system prompt is not counted
TrimmedBesides(x) == IF SystemMsgs + Len(x) > window THEN RTail(x, window) ELSE x

\* mutation: the oldest turns are kept
TrimmedHead(x) == IF SystemMsgs + Len(x) > window
                  THEN SubSeq(x, 1, window - SystemMsgs) ELSE x

\* mutation: one exchange less is kept
TrimmedShort(x) == IF SystemMsgs + Len(x) > window
                   THEN RTail(x, window - SystemMsgs - 1) ELSE x

Trimmed(x) == IF SystemMsgs + Len(x) > window
              THEN RTail(x, window - SystemMsgs) ELSE x

Quit == /\ pc = "ask"
        /\ pc' = "ended"
        /\ UNCHANGED <<system, window, turns, exchange>>

Ask == /\ pc = "ask"
       /\ exchange < MaxExchanges
       /\ exchange' = exchange + 1
       /\ turns' = Append(turns, User(exchange + 1))
       /\ pc' = "answer"
       /\ UNCHANGED <<system, window>>

Answer == /\ pc = "answer"
          /\ turns' = Trimmed(Append(turns, Assistant(exchange)))
          /\ pc' = "ask"
          /\ UNCHANGED <<system, window, exchange>>

\* The prompt has outgrown the context, a decode aborts or the user interrupts:
\* the error leaves the chat, and the history with it.
Fail == /\ pc = "answer"
        /\ pc' = "failed"
        /\ UNCHANGED <<system, window, turns, exchange>>

ChatNext == Quit \/ Ask \/ Answer \/ Fail

ChatSpec == ChatInit /\ [][ChatNext]_chatVars

-----------------------------------------------------------------------------
ChatTypeOK == /\ system \in BOOLEAN
              /\ window \in Windows
              /\ turns \in Seq(Turn)
              /\ exchange \in 0..MaxExchanges
              /\ pc \in {"ask", "answer", "ended", "failed"}

\* Everything that was said, in order: turn 2n - 1 is question n, 2n its answer.
Said == 2 * exchange - IF pc \in {"answer", "failed"} THEN 1 ELSE 0
SaidTurn(i) == IF i % 2 = 1 THEN User((i + 1) \div 2) ELSE Assistant(i \div 2)

\* However long the chat and however often it was trimmed, what is kept is the end
\* of what was said, without a gap: no question loses its answer in between.
KeepsMostRecent ==
  /\ Len(turns) <= Said
  /\ \A i \in 1..Len(turns) : turns[i] = SaidTurn(Said - Len(turns) + i)

\* What is kept after an answer, with the system prompt, is as much as max_history
\* allows and no more; a prompt is built from at most one message more.
HistoryBounded ==
  window >= SystemMsgs
    => LET n == SystemMsgs + Len(turns)
           all == SystemMsgs + Said
       IN  IF pc \in {"answer", "failed"}
           THEN n <= window + 1 /\ (n < window => n = all)
           ELSE n <= window /\ (n < window => n = all)

\* Without a system prompt the window cuts between exchanges, so that the history
\* a prompt is built from never begins with an answer to a forgotten question.
BeginsWithQuestion ==
  ~system /\ window % 2 = 0 /\ turns # <<>> => turns[1].role = "user"

=============================================================================
