------------------------------- MODULE MCAnswers -------------------------------
(***************************************************************************)
(* Instances of the two modules about what is made of generated answers.   *)
(* They share nothing, and a behaviour is about one of them: Extraction    *)
(* over two texts, or ChatHistory over chats longer than every window, odd *)
(* windows (max_history = 1.5) and negative ones included.                 *)
(***************************************************************************)
EXTENDS MCExtraction, ChatHistory

MCWindows == -2..7

VARIABLE part  \* "extraction" or "chat"

MCInit == /\ Init /\ ChatInit
          /\ \/ part = "extraction" /\ window = 0 /\ ~system
             \/ part = "chat" /\ job = "extract" /\ parser

MCNext == /\ \/ part = "extraction" /\ Next /\ UNCHANGED chatVars
             \/ part = "chat" /\ ChatNext /\ UNCHANGED vars
          /\ UNCHANGED part

MCSpec == MCInit /\ [][MCNext]_<<part, vars, chatVars>>

=============================================================================
