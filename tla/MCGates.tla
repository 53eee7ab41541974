-------------------------------- MODULE MCGates --------------------------------
(***************************************************************************)
(* Every checkpoint the gates can tell apart, in both states in which the  *)
(* sidecar asks them, with every decision they may take.                   *)
(***************************************************************************)
EXTENDS Gates

VARIABLES top, cp, decision

NoDecision == [kind |-> "none", class |-> "none", guidance |-> FALSE, quotes |-> FALSE]

Init ==
    /\ top \in {"ATTACHED", "GATING"}
    /\ cp \in Checkpoint
    /\ decision = NoDecision

AskGate ==
    /\ decision = NoDecision
    /\ decision' \in Gate(top, cp)
    /\ UNCHANGED <<top, cp>>

Next == AskGate

Spec == Init /\ [][Next]_<<top, cp, decision>>

Answered == decision # NoDecision

\* Every answer is a decision of the kinds the sidecar applies, and a decision
\* that pauses the run, and no other, has a pause class.
DecisionTyped ==
    Answered => /\ decision \in Decision
                /\ (decision.kind = "ESCALATE_TO_HUMAN") = (decision.class # "none")

\* On the attach boundary a claim of progress without execution evidence advances
\* nothing: it is answered by a re-inject or by a human, whatever v2 fields or
\* patterns come with it.
AttachNeedsExecution ==
    (Answered /\ top = "ATTACHED" /\ cp.status # "blocked" /\ cp.admin) =>
        decision.kind \in {"RE_INJECT", "ESCALATE_TO_HUMAN"}

\* A step is never taken at the worker's word: a claim that it is done is
\* verified, refused or put to a human.
DoneIsNotContinued ==
    (Answered /\ cp.status \in {"step_done", "workflow_done"}) =>
        decision.kind \notin {"CONTINUE", "RETRY"}
===============================================================================
