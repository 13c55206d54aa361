--------------------------- MODULE CompletionService ---------------------------
(***************************************************************************)
(* What edgemodelr promises of completions, with neither loops nor caches. *)
(*                                                                         *)
(* Requests are numbered in the order they are made.  A model answers one  *)
(* request at a time: the one it was given last.  A request's text grows   *)
(* one token at a time, only while it is the newest unsettled request,     *)
(* while its model is open and while that model is answering it, and never *)
(* past what was asked for.  A settled request never changes.              *)
(***************************************************************************)
EXTENDS Naturals, Sequences

CONSTANTS
  Handle,   \* models that can be opened
  Budgets   \* numbers of tokens a request may ask for

VARIABLES
  handle,     \* [Handle -> {"unloaded", "open", "freed"}]
  answering,  \* [Handle -> request the model was last given, 0 if none]
  req         \* sequence of requests

svars == <<handle, answering, req>>

Status == {"running", "done", "failed"}
Request == [h : Handle, budget : Budgets, status : Status, text : Nat]

Newest(c) == /\ req[c].status = "running"
             /\ \A d \in DOMAIN req : d > c => req[d].status # "running"

SInit == /\ handle = [h \in Handle |-> "unloaded"]
         /\ answering = [h \in Handle |-> 0]
         /\ req = <<>>

Open(h) == /\ handle[h] = "unloaded"
           /\ handle' = [handle EXCEPT ![h] = "open"]
           /\ UNCHANGED <<answering, req>>

Close(h) == /\ handle[h] = "open"
            /\ handle' = [handle EXCEPT ![h] = "freed"]
            /\ UNCHANGED <<answering, req>>

Request0(h, n, status) == [h |-> h, budget |-> n, status |-> status, text |-> 0]

Submit(h, n) == /\ handle[h] = "open"
                /\ req' = Append(req, Request0(h, n, "running"))
                /\ answering' = [answering EXCEPT ![h] = Len(req) + 1]
                /\ UNCHANGED handle

Refuse(h, n) == /\ req' = Append(req, Request0(h, n, "failed"))
                /\ UNCHANGED <<handle, answering>>

Emit(c) == /\ Newest(c)
           /\ handle[req[c].h] = "open"
           /\ answering[req[c].h] = c
           /\ req[c].text < req[c].budget
           /\ req' = [req EXCEPT ![c].text = @ + 1]
           /\ UNCHANGED <<handle, answering>>

Settle(c, status) == /\ Newest(c)
                     /\ req' = [req EXCEPT ![c].status = status]
                     /\ UNCHANGED <<handle, answering>>

SNext == \/ \E h \in Handle : Open(h) \/ Close(h)
         \/ \E h \in Handle, n \in Budgets : Submit(h, n) \/ Refuse(h, n)
         \/ \E c \in DOMAIN req : Emit(c) \/ Settle(c, "done") \/ Settle(c, "failed")

SSpec == SInit /\ [][SNext]_svars

=============================================================================
