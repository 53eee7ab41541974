--------------------------------- MODULE Gates ---------------------------------
(***************************************************************************)
(* From a worker's checkpoint to the supervisor's decision: the pattern    *)
(* classifier (gates/rules.py), the contradictions between what a v2       *)
(* checkpoint declares and what the classifier sees                        *)
(* (gates/contradictions.py), SupervisorLoop.gate() and the ContinueGate   *)
(* with its judge.  Decision nodes go to the BranchGate, which is modelled *)
(* beside the workflow graph it needs.                                     *)
(*                                                                         *)
(* A checkpoint is a record of what the gates can tell apart:              *)
(*   status    the status field, after sanitize_checkpoint_payload         *)
(*   hits      the pattern families that match its text                    *)
(*   admin     is_admin_only_evidence of its evidence list                 *)
(*   v2        checkpoint_schema_version = 2; the four fields below are    *)
(*             ignored by the normalizer otherwise                         *)
(*   claims    it declares progress_class=execution or                     *)
(*             evidence_scope=current_node                                 *)
(*   escal     escalation_class                                            *)
(*   auth      requires_authorization                                      *)
(*   blocking  blocking_inputs is not empty                                *)
(***************************************************************************)
EXTENDS TopStates

Patterns == {"SOFT_CONFIRMATION", "MISSING_EXTERNAL_INPUT", "DANGEROUS_ACTION", "BLOCKED"}

EscalationHits == Patterns \ {"SOFT_CONFIRMATION"}

ProgressStatus == {"working", "step_done", "workflow_done"}

RawCheckpoint ==
    [status : ProgressStatus \cup {"blocked"}, hits : SUBSET Patterns,
     admin : BOOLEAN, v2 : BOOLEAN, claims : BOOLEAN,
     escal : {"unset", "none", "business", "safety", "review", "recovery"},
     auth : {"unset", "yes", "no"}, blocking : BOOLEAN]

\* What normalize_checkpoint can return: a v1 payload declares nothing.
Checkpoint ==
    {cp \in RawCheckpoint :
        cp.v2 \/ (cp.claims = FALSE /\ cp.escal = "unset"
                    /\ cp.auth = "unset" /\ cp.blocking = FALSE)}

-------------------------------------------------------------------------------
(* The classifier *)

\* classify_checkpoint joins the status with the text, and the word "blocked"
\* is itself a BLOCKED pattern.
MatchedPatterns(cp) ==
    cp.hits \cup (IF cp.status = "blocked" THEN {"BLOCKED"} ELSE {})

\* classify_text returns the first family that matches, in this order.
Classify(cp) ==
    IF "SOFT_CONFIRMATION" \in MatchedPatterns(cp) THEN "SOFT_CONFIRMATION"
    ELSE IF "MISSING_EXTERNAL_INPUT" \in MatchedPatterns(cp) THEN "MISSING_EXTERNAL_INPUT"
    ELSE IF "DANGEROUS_ACTION" \in MatchedPatterns(cp) THEN "DANGEROUS_ACTION"
    ELSE IF "BLOCKED" \in MatchedPatterns(cp) THEN "BLOCKED"
    ELSE "none"

-------------------------------------------------------------------------------
(* Contradictions *)

DeclaresEscalation(cp) ==
    \/ cp.escal = "business" /\ cp.blocking
    \/ cp.escal = "review"

\* detect_contradiction, in its order of priority: safety, business, execution.
\* A runtime-owned conflict is only logged, so it counts as "none".
Contradiction(cp) ==
    IF ~cp.v2 THEN "none"
    ELSE IF cp.auth = "no" /\ Classify(cp) = "DANGEROUS_ACTION" THEN "safety"
    ELSE IF ~cp.blocking /\ Classify(cp) = "MISSING_EXTERNAL_INPUT" THEN "business"
    ELSE IF cp.escal = "none" /\ Classify(cp) \in {"MISSING_EXTERNAL_INPUT", "BLOCKED"}
         THEN "business"
    ELSE IF ~DeclaresEscalation(cp) /\ cp.claims /\ cp.admin THEN "execution"
    ELSE "none"

-------------------------------------------------------------------------------
(* Decisions *)

PauseClasses == {"business", "safety", "review", "recovery"}

GateKinds == {"CONTINUE", "VERIFY_STEP", "RE_INJECT", "RETRY", "ESCALATE_TO_HUMAN"}

\* guidance: the decision carries a next_instruction for the worker.
\* quotes: its reason has words of the worker or of the judge in it.
Decision ==
    [kind : GateKinds, class : PauseClasses \cup {"none"}, guidance : BOOLEAN,
     quotes : BOOLEAN]

Decide(kind) == [kind |-> kind, class |-> "none", guidance |-> FALSE, quotes |-> FALSE]

\* class is what _classify_gate_escalation reads out of the decision's reason.
Escalate(class) == [Decide("ESCALATE_TO_HUMAN") EXCEPT !.class = class]

EscalateQuoting(class) == [Escalate(class) EXCEPT !.quotes = TRUE]

ContinueWithGuidance == [Decide("CONTINUE") EXCEPT !.guidance = TRUE]

\* Mutant: a blocked worker's pause has no class.
EscalateHit_Unclassed(hit) ==
    Escalate(IF hit = "DANGEROUS_ACTION" THEN "safety"
             ELSE IF hit = "BLOCKED" THEN "none" ELSE "business")

\* escalation_decision: only the DANGEROUS_ACTION reason has a safety word.
EscalateHit(hit) == Escalate(IF hit = "DANGEROUS_ACTION" THEN "safety" ELSE "business")

\* The judge answers within the four allowed decisions; the class of its
\* escalation depends on the words it happens to use.  Guidance that is unsafe or
\* missing is dropped, so a CONTINUE may come without any.
JudgeDecisions ==
    {Decide("CONTINUE"), ContinueWithGuidance, Decide("VERIFY_STEP"), Decide("RETRY")}
        \cup {EscalateQuoting(c) : c \in {"business", "safety", "review"}}

\* ContinueGate.decide
ContinueGate(cp) ==
    IF Classify(cp) = "SOFT_CONFIRMATION" THEN {ContinueWithGuidance}
    ELSE IF Classify(cp) \in EscalationHits THEN {EscalateHit(Classify(cp))}
    ELSE JudgeDecisions

\* Mutant: a claim that the step is done escapes the attach guard.
AttachWithoutExecution_Working(top, cp) ==
    top = "ATTACHED" /\ cp.status = "working" /\ cp.admin

\* The first checkpoint after the attach claims progress without showing any.
AttachWithoutExecution(top, cp) ==
    top = "ATTACHED" /\ cp.status \in ProgressStatus /\ cp.admin

AttachGate(cp) ==
    IF Classify(cp) \in EscalationHits THEN {EscalateHit(Classify(cp))}
    ELSE {Decide("RE_INJECT")}

\* The reason quotes the worker's blocking_inputs, so their words can decide the
\* class; the reason for a declared review has no word that would.
DeclaredEscalation(cp) ==
    IF cp.escal = "business"
    THEN {EscalateQuoting(c) : c \in {"business", "safety", "review"}}
    ELSE {Escalate("business")}

\* Mutant: workflow_done is left to the continue gate.
ClaimsDone_StepOnly(cp) == cp.status = "step_done"

ClaimsDone(cp) == cp.status \in {"step_done", "workflow_done"}

\* SupervisorLoop.gate for a step node, in the order of its early returns.
Gate(top, cp) ==
    IF cp.auth = "yes" THEN {Escalate("safety")}
    ELSE IF Contradiction(cp) = "safety" THEN {Escalate("safety")}
    ELSE IF Contradiction(cp) = "business" THEN {Escalate("business")}
    ELSE IF Contradiction(cp) = "execution" THEN {Decide("RE_INJECT")}
    ELSE IF DeclaresEscalation(cp) THEN DeclaredEscalation(cp)
    ELSE IF cp.status = "blocked" THEN {Escalate("business")}
    ELSE IF AttachWithoutExecution(top, cp) THEN AttachGate(cp)
    ELSE IF ClaimsDone(cp) THEN {Decide("VERIFY_STEP")}
    ELSE ContinueGate(cp)
===============================================================================
