-------------------------------- MODULE RunState --------------------------------
(***************************************************************************)
(* The persisted state of one run (SupervisorState, domain/models.py), the *)
(* workflow it follows (WorkflowSpec) and the pure steps the sidecar and   *)
(* the daemon take on it: pausing, entering recovery, counting failures,   *)
(* marking an instruction as injected, the finish gate.                    *)
(*                                                                         *)
(* A run is a record:                                                      *)
(*   top, pre         top_state, pre_pause_top_state ("none" when empty)   *)
(*   node             current_node_id                                      *)
(*   attempt, used    current_attempt, retry_budget.used_global            *)
(*   reinj, autos,    re_inject_count, auto_intervention_count,            *)
(*   mism             node_mismatch_count                                  *)
(*   done, verdict    done_node_ids, verification                          *)
(*   reviews          completed_reviews                                    *)
(*   injNode,         last_injected_node_id, last_injected_attempt         *)
(*   injAttempt                                                            *)
(* and four history fields no code reads:                                  *)
(*   granted          since the last counted failure an operator's resume  *)
(*                    or an auto-intervention has let the run go on        *)
(*   proven           a checkpoint about the run has cited execution       *)
(*                    evidence                                             *)
(*   held             the gate has put the run before a human in words of  *)
(*                    its own, and no operator has resumed it since        *)
(*   refused          transition_top_state has refused a change of its top *)
(*                    state since the last resume                          *)
(***************************************************************************)
EXTENDS Integers, FiniteSets, TopStates

CONSTANTS
    N,              \* number of nodes in the spec, in the order they are listed
    Kind,           \* spec.kind
    Succ,           \* conditional_workflow: node.next, 0 for none
    DecisionNodes,  \* nodes whose type is "decision"
    Options,        \* the targets of a decision node's options
    PerNode,        \* policy.max_retries_per_node
    GlobalLimit,    \* policy.max_retries_global
    MaxReInjects,   \* MAX_RE_INJECTS
    RequireAll,     \* acceptance.require_all_steps_done
    RequireVerify,  \* acceptance.require_verification_pass
    MustReviewBy    \* acceptance.must_review_by

Nodes == 1 .. N
NoNode == 0
Reviewers == {"human", "stronger_reviewer"}

\* A spec that load_spec accepts and whose references resolve: it has a node, its
\* kind is one of two, and node.next and option.next name nodes of it.
ASSUME SpecAssumption ==
    /\ N \in Nat \ {0}
    /\ Kind \in {"linear_plan", "conditional_workflow"}
    /\ Succ \in [Nodes -> Nodes \cup {NoNode}]
    /\ DecisionNodes \subseteq Nodes
    /\ Options \in [Nodes -> SUBSET Nodes]

ASSUME PolicyAssumption ==
    /\ PerNode \in Nat \ {0}
    /\ GlobalLimit \in Nat \ {0}
    /\ MaxReInjects \in Nat
    /\ RequireAll \in BOOLEAN
    /\ RequireVerify \in BOOLEAN
    /\ MustReviewBy \in Reviewers \cup {"nobody"}

-------------------------------------------------------------------------------
(* The workflow *)

\* Mutant: the last index is taken to have a successor.
NextNode_OffByOne(n) ==
    IF Kind = "linear_plan" THEN IF n <= N THEN n + 1 ELSE NoNode
    ELSE Succ[n]

\* WorkflowSpec.next_node_id
NextNode(n) ==
    IF Kind = "linear_plan" THEN IF n < N THEN n + 1 ELSE NoNode
    ELSE Succ[n]

-------------------------------------------------------------------------------
(* The run *)

Run ==
    [top : TopState, pre : TopState \cup {"none"}, node : Nodes,
     attempt : Nat, used : Nat, reinj : Nat, autos : Nat, mism : Nat,
     done : SUBSET Nodes, verdict : {"pending", "ok", "failed"},
     reviews : SUBSET Reviewers,
     injNode : Nodes \cup {NoNode}, injAttempt : Nat \cup {-1},
     granted : BOOLEAN, proven : BOOLEAN, held : BOOLEAN, refused : BOOLEAN]

\* load_or_init for a new run directory
NewRun ==
    [top |-> "READY", pre |-> "none", node |-> 1,
     attempt |-> 0, used |-> 0, reinj |-> 0, autos |-> 0, mism |-> 0,
     done |-> {}, verdict |-> "pending", reviews |-> {},
     injNode |-> NoNode, injAttempt |-> -1,
     granted |-> FALSE, proven |-> FALSE, held |-> FALSE, refused |-> FALSE]

\* _pause_for_human and _enter_recovery note the state they leave, unless an
\* earlier one of them has already done so.
LeavingFor(r, top) ==
    [r EXCEPT !.top = top, !.pre = IF @ = "none" THEN r.top ELSE @]

Pause(r) == LeavingFor(r, "PAUSED_FOR_HUMAN")
EnterRecovery(r) == LeavingFor(r, "RECOVERY_NEEDED")

\* transition_top_state raises: the state was noted, and not left.
Refused(r, top) == [LeavingFor(r, top) EXCEPT !.top = r.top, !.refused = TRUE]

\* handle_event, for a checkpoint and for a timeout
EventArrives(r) ==
    [r EXCEPT !.top = IF @ \in GatedByEvent THEN "GATING" ELSE @]

\* A RETRY decision or a failed verification charges the retry budget.
ChargeRetry(r) ==
    [r EXCEPT !.attempt = @ + 1, !.used = @ + 1, !.granted = FALSE]

Exhausted(r) == r.attempt >= PerNode \/ r.used >= GlobalLimit

\* The count of re-injects matters only up to the first value over the cap.
CountReInject(r) ==
    [r EXCEPT !.reinj = IF @ <= MaxReInjects THEN @ + 1 ELSE @]

\* node_changed or new_retry: the worker has not been told of this node, or of
\* this attempt at it.
NeedsInjection(r) ==
    \/ r.node # r.injNode
    \/ r.attempt > 0 /\ r.attempt # r.injAttempt

MarkInjected(r) == [r EXCEPT !.injNode = r.node, !.injAttempt = r.attempt]

MoveTo(r, n) == [r EXCEPT !.node = n, !.attempt = 0, !.top = "RUNNING"]

\* Mutant: the verified node is not recorded.
Verified_Unrecorded(r) == [r EXCEPT !.verdict = "ok"]

\* apply_verification with an ok result, up to the choice of the next node
Verified(r) == [r EXCEPT !.verdict = "ok", !.done = @ \cup {r.node}]

-------------------------------------------------------------------------------
(* The finish gate *)

ReviewMet(reviews) ==
    CASE MustReviewBy = "nobody" -> TRUE
      [] MustReviewBy = "human" -> reviews # {}
      [] MustReviewBy = "stronger_reviewer" -> "stronger_reviewer" \in reviews

RequiredNodes(r) ==
    IF Kind = "conditional_workflow" THEN r.done \cup {r.node} ELSE Nodes

\* Mutant: the review is not asked for.
FinishOk_NoReview(r, extras) ==
    /\ RequireAll => RequiredNodes(r) \subseteq r.done
    /\ RequireVerify => r.verdict # "failed"
    /\ extras

\* Mutant: the nodes are not counted.
FinishOk_AnyNodes(r, extras) ==
    /\ RequireVerify => r.verdict # "failed"
    /\ ReviewMet(r.reviews)
    /\ extras

\* extras: what the gate finds outside the run's own state, the cleanliness of the
\* repository and the required evidence.  A verification still pending passes.
FinishOk(r, extras) ==
    /\ RequireAll => RequiredNodes(r) \subseteq r.done
    /\ RequireVerify => r.verdict # "failed"
    /\ ReviewMet(r.reviews)
    /\ extras
===============================================================================
