------------------------------- MODULE TopStates -------------------------------
(***************************************************************************)
(* The top states of a run and the table of transitions between them       *)
(* (domain/enums.py, domain/state_machine.py).  Every change of a run's    *)
(* top state goes through transition_top_state, which raises               *)
(* InvalidTopStateTransition for a pair that CanTransition does not allow. *)
(***************************************************************************)

FinalStates == {"COMPLETED", "FAILED", "ABORTED"}

TopState ==
    {"READY", "ATTACHED", "RUNNING", "GATING", "VERIFYING",
     "RECOVERY_NEEDED", "PAUSED_FOR_HUMAN"} \cup FinalStates

\* What every state that is not final may become.
Stoppable == FinalStates \cup {"PAUSED_FOR_HUMAN"}

AllowedTransitions(s) ==
    CASE s = "READY" -> Stoppable \cup {"ATTACHED", "RUNNING", "GATING", "VERIFYING"}
      [] s = "ATTACHED" -> Stoppable \cup {"RUNNING", "VERIFYING", "RECOVERY_NEEDED"}
      [] s = "RUNNING" -> Stoppable \cup {"GATING", "VERIFYING", "RECOVERY_NEEDED"}
      [] s = "GATING" -> Stoppable \cup {"RUNNING", "VERIFYING", "RECOVERY_NEEDED"}
      [] s = "VERIFYING" -> Stoppable \cup {"RUNNING", "RECOVERY_NEEDED"}
      [] s = "RECOVERY_NEEDED" -> Stoppable \cup {"RUNNING"}
      [] s = "PAUSED_FOR_HUMAN" -> FinalStates \cup {"ATTACHED", "RUNNING"}
      [] s \in FinalStates -> {}

CanTransition(from, to) == from = to \/ to \in AllowedTransitions(from)

\* Mutant: ATTACHED is missing from preserve_state.
GatedByEvent_Attached == {"READY", "ATTACHED", "RUNNING", "GATING"}

\* A checkpoint that arrives in one of these states does not force GATING
\* (the complement of handle_event's preserve_state).
GatedByEvent == {"READY", "RUNNING", "GATING"}

\* Mutant: everything that is not waiting is parked, finished runs included.
Orphaned_Finished == TopState \ {"READY", "PAUSED_FOR_HUMAN"}

\* What the daemon parks as PAUSED_FOR_HUMAN when it starts
\* (RECOVERABLE_ORPHANED_STATES).
Orphaned == {"RUNNING", "GATING", "VERIFYING", "ATTACHED", "RECOVERY_NEEDED"}

\* Mutant: only the two refused states are left out.
Resumable_Finished == TopState \ {"GATING", "VERIFYING"}

\* What an operator may resume.  GATING and VERIFYING are found and refused.
Resumable == {"PAUSED_FOR_HUMAN", "RUNNING", "READY", "ATTACHED", "RECOVERY_NEEDED"}

\* Mutant: the loop condition forgets the paused state.
LoopStates_Paused == TopState \ FinalStates

\* The sidecar's main loop goes round only in these states.
LoopStates == TopState \ Stoppable
===============================================================================
