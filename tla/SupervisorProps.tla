---------------------------- MODULE SupervisorProps ----------------------------
(***************************************************************************)
(* What the supervised run must and must not do.  Invariants on a run are  *)
(* required of the thread's copy and of the saved one: a crash may make    *)
(* the latter the truth at any moment.                                     *)
(***************************************************************************)
EXTENDS Supervisor

\* The thread is at one of its steps and every variable holds a value of its kind.
TypeOK ==
    /\ run \in Run /\ disk \in Run
    /\ pc \in {"off", "boot", "poll", "batch", "decide", "verify", "inject", "deliver",
               "recover", "rescue"}
    /\ report \in Reports \cup {NoReport}
    /\ deferred \in (Nodes \X Nat) \cup {NoDeferred}
    /\ armed \in BOOLEAN
    /\ origin \in {"none", "timeout", "idle", "mismatch", "notready", "inject", "budget",
                   "quoted"}
    /\ outages \in 0 .. MaxOutageRetries
    /\ up \in BOOLEAN /\ registered \in BOOLEAN /\ stop \in BOOLEAN

-------------------------------------------------------------------------------
(* Safety *)

Earned(r) ==
    r.top = "COMPLETED" =>
        /\ RequireAll => RequiredNodes(r) \subseteq r.done
        /\ RequireAll /\ RequireVerify => r.verdict = "ok"
        /\ ReviewMet(r.reviews)

\* A run is COMPLETED only with its required nodes done, the review given and, with
\* the node requirement, a last verification that really passed: "pending", which
\* the finish gate lets through, never carries a run to the end.  This spans the
\* verifier, the finish gate, the review acknowledgement and what a later
\* checkpoint of the same text does to a finished run.
CompletedEarned == Earned(run) /\ Earned(disk)

\* The done nodes of a linear plan are exactly those before the current one, or,
\* while the finish gate holds the run at its last node, all of them.
InOrder(r) ==
    \/ r.done = 1 .. (r.node - 1)
    \/ r.node = N /\ r.done = Nodes

\* A linear plan is worked off in order and no node is skipped, whatever
\* checkpoints, pauses, resumes, recoveries and crashes come in between.
OrderedProgress == InOrder(run) /\ InOrder(disk)

\* Neither waiting for an operator nor finished.
InAction == {"READY", "ATTACHED", "RUNNING", "GATING", "VERIFYING", "RECOVERY_NEEDED"}

WithinBudget(r) == (r.top \in InAction /\ Exhausted(r)) => r.granted

\* A run whose retry budget is used up does not go on by itself: since the failure
\* that used it up an operator or an auto-intervention has let it go on.
BudgetRespected == WithinBudget(run) /\ WithinBudget(disk)

Proven(r) == r.done # {} => r.proven

\* The first-execution gate: no node is accepted before the worker has cited
\* execution evidence at least once; a pause and a resume on the attach boundary
\* do not open it.
AttachBoundaryKept == Proven(run) /\ Proven(disk)

\* What transition_top_state is asked for.  Every change a step makes is one the table
\* allows, and so is the one move that several changes of a step amount to.  A change
\* is asked for and refused only where a checkpoint is handled after the run paused or
\* finished earlier in the same text, as the mismatch at its limit (loop.py:1233) or a
\* node done on a read-only surface (loop.py:1204) do; that ends the thread.
LegalMoves ==
    [][up' => /\ CanTransition(run.top, run'.top)
              /\ run'.refused =>
                    run.refused \/ (pc = "batch" /\ run.top \in Stoppable /\ pc' = "off")]_run

\* Once the gate has put a run before a human for a reason of its own - a declared
\* authorization or review, a contradiction, a blocked worker, an escalation pattern -
\* nothing but an operator's resume lets it go on: not the rest of the text, an
\* auto-intervention, an exception, or a crash that loses the pause before it is saved
\* and the restart after it.  A reason that quotes the worker or the judge is not such
\* a one: its words may call for a recipe.
EscalationStands == run.held /\ up => run.top \in {"PAUSED_FOR_HUMAN", "COMPLETED"}

\* A thread that waits for the next checkpoint has dealt with the last one: it does
\* not sit in GATING, a state that resume refuses and that no timeout of its own
\* leaves.
NoWaitInGating == pc = "poll" => run.top # "GATING"

-------------------------------------------------------------------------------
(* What the operator is promised *)

ContractStatus(r) ==
    CASE r.top \in FinalStates -> "closed"
      [] r.top = "PAUSED_FOR_HUMAN" -> "paused"
      [] OTHER -> "open"

Contract == INSTANCE RunContract WITH
    Node <- Nodes,
    Required <- IF RequireAll /\ Kind = "linear_plan" THEN Nodes ELSE {},
    Reviewer <- Reviewers,
    ReviewOk <- ReviewMet,
    status <- ContractStatus(disk),
    accepted <- disk.done,
    reviewed <- disk.reviews,
    owned <- pc # "off"

\* What is on disk keeps the contract: nodes accepted one at a time and never lost,
\* a pause lifted only by a resume, a closed run closed for good.
KeepsContract == Contract!ContractSpec

-------------------------------------------------------------------------------
(* Liveness *)

\* A stop is honoured: the thread ends whatever the worker prints meanwhile.
StopHonoured == (stop /\ pc # "off") ~> (pc = "off")

\* A delivery without an answer does not stay unanswered: a checkpoint is accepted
\* or the thread ends with the run handed to a human, after finitely many
\* auto-interventions and outage retries.
SilenceEscalates == armed ~> ~armed

\* Once a run has paused or finished, its thread ends, though the rest of the text
\* it was reading is still handled.
StoppedRunEndsThread ==
    (pc = "batch" /\ run.top \in Stoppable) ~> (pc = "off")
===============================================================================
