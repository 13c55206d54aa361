---------------------------- MODULE MCModelDownload ----------------------------
(***************************************************************************)
(* Instances of ModelDownload for TLC: models with file names of their own *)
(* or sharing one, and the tools a machine may have.                       *)
(***************************************************************************)
EXTENDS ModelDownload

OwnNames == CHOOSE f \in [Model -> Name] : \A a, b \in Model : a # b => f[a] # f[b]
SharedName == [m \in Model |-> CHOOSE n \in Name : TRUE]

WithTimeouts == <<"curl", "R">>
AllTools == <<"curl", "wget", "httr", "R">>

=============================================================================
