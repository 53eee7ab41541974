------------------------------ MODULE RunContract ------------------------------
(***************************************************************************)
(* What a run promises its operator, judged by what is on disk.            *)
(*                                                                         *)
(* A run is open while its workflow goes on, paused while it waits for the *)
(* operator, and closed for good.  It is owned while a supervising thread  *)
(* works on it.  Nodes are accepted one at a time, only by the owner, and  *)
(* each acceptance is on disk before the next can follow; a crash loses    *)
(* none.  A paused run reopens only when it gets a new owner, that is, by  *)
(* an operator's resume.  A run closes only when every required node is    *)
(* accepted and the required review has been given.                        *)
(***************************************************************************)
EXTENDS FiniteSets

CONSTANTS
    Node,            \* the nodes of the workflow
    Required,        \* those that must be accepted before the run may close
    Reviewer,        \* who may review
    ReviewOk(_)      \* whether a set of reviews is enough

VARIABLES status, accepted, reviewed, owned

contract == <<status, accepted, reviewed, owned>>

ContractInit ==
    /\ status = "open" /\ owned = TRUE
    /\ accepted = {} /\ reviewed = {}

MayClose == Required \subseteq accepted' /\ ReviewOk(reviewed')

\* The owner saves: at most one more node is accepted, the run may pause or close,
\* and the owner may leave.
Work ==
    /\ owned /\ status = "open"
    /\ \/ accepted' = accepted
       \/ \E n \in Node : accepted' = accepted \cup {n}
    /\ status' \in {"open", "paused", "closed"}
    /\ status' = "closed" => MayClose
    /\ owned' \in BOOLEAN
    /\ UNCHANGED reviewed

\* The owner leaves, by itself or in a crash.
Leave ==
    /\ owned /\ owned' = FALSE
    /\ UNCHANGED <<status, accepted, reviewed>>

\* An operator gives the run a new owner.
Reopen ==
    /\ ~owned /\ status \in {"open", "paused"}
    /\ status' = "open" /\ owned' = TRUE
    /\ UNCHANGED <<accepted, reviewed>>

\* A run nobody owns is parked.
Park ==
    /\ ~owned /\ status = "open"
    /\ status' = "paused"
    /\ UNCHANGED <<accepted, reviewed, owned>>

\* A reviewer acknowledges a run nobody owns, which may close it.
Acknowledge ==
    /\ ~owned
    /\ \E who \in Reviewer : reviewed' = reviewed \cup {who}
    /\ status' \in {status, "closed"}
    /\ (status' = "closed" /\ status # "closed") => MayClose
    /\ UNCHANGED <<accepted, owned>>

ContractNext == Work \/ Leave \/ Reopen \/ Park \/ Acknowledge

ContractSpec == ContractInit /\ [][ContractNext]_contract
===============================================================================
