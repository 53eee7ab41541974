------------------------------- MODULE Supervisor -------------------------------
(***************************************************************************)
(* One run under the daemon: the sidecar thread that watches the worker's  *)
(* pane (SupervisorLoop.run_sidecar, loop.py) and the daemon's operations  *)
(* on the run (DaemonServer, daemon/server.py).                            *)
(*                                                                         *)
(* The thread works on a SupervisorState in memory, run, and now and then  *)
(* saves it; disk is the last saved state.  While no thread is alive       *)
(* (pc = "off") what counts is the file, and run = disk.  A crash of the   *)
(* daemon takes the thread with it at any point.                           *)
(*                                                                         *)
(* pc names what the thread is about to do:                                *)
(*   "boot"     enter _run_sidecar_inner                                   *)
(*   "poll"     the top of the main loop                                   *)
(*   "batch"    the next checkpoint of the text just read, or its end      *)
(*   "decide"   ask the gate about the accepted checkpoint, report         *)
(*   "verify"   run the node's verifiers                                   *)
(*   "inject"   compose the next instruction and save it as injected       *)
(*   "deliver"  inject it                                                  *)
(*   "recover"  try an auto-intervention from RECOVERY_NEEDED              *)
(*   "rescue"   try one for a pause that a recipe may take back            *)
(***************************************************************************)
EXTENDS RunState, Gates

CONSTANTS
    MaxAuto,           \* max_auto_interventions; 0 stands for notify_only
    MaxMismatch,       \* max_node_mismatch
    MaxOutageRetries,  \* runtime_recovery_policy.max_attempts_per_run
    ObservationOnly,   \* the surface is read-only; delivery is by the Stop hook
    Reports,           \* the checkpoints the worker may emit
    Extras,            \* what the finish gate may find outside the run
    Acknowledgers,     \* the reviewers there are
    DaemonCrashes,     \* whether the daemon may crash
    FailureBound,      \* bound on retry_budget.used_global, for model checking
    NoReport           \* no checkpoint is waiting for the gate

ASSUME SidecarAssumption ==
    /\ MaxAuto \in Nat
    /\ MaxMismatch \in Nat \ {0}
    /\ MaxOutageRetries \in Nat
    /\ ObservationOnly \in BOOLEAN
    /\ Reports \subseteq Checkpoint
    /\ Extras \subseteq BOOLEAN
    /\ Acknowledgers \subseteq Reviewers
    /\ DaemonCrashes \in BOOLEAN
    /\ FailureBound \in Nat
    /\ NoReport \notin Checkpoint

VARIABLES
    run,         \* the SupervisorState in the thread's memory
    disk,        \* state.json
    pc,          \* where the thread is; "off" when there is none
    report,      \* the accepted checkpoint the gate is asked about
    deferred,    \* deferred_continue: the node and attempt it was composed for
    armed,       \* delivery_ack_deadline > 0
    origin,      \* why the thread is in "recover" or "rescue"
    outages,     \* recovery_total_attempts
    up,          \* the daemon process is alive
    registered,  \* the run is in the daemon's _runs
    stop         \* the entry's stop_event is set

vars == <<run, disk, pc, report, deferred, armed, origin, outages,
          up, registered, stop>>

thread == <<report, deferred, armed, origin, outages>>
daemon == <<up, registered, stop>>

NoDeferred == <<>>

Save(r) == run' = r /\ disk' = r

\* The thread ends and its local variables are gone.
EndThread ==
    /\ pc' = "off"
    /\ report' = NoReport
    /\ deferred' = NoDeferred
    /\ armed' = FALSE
    /\ origin' = "none"
    /\ outages' = 0

Init ==
    /\ run = NewRun /\ disk = NewRun
    /\ pc = "boot"
    /\ report = NoReport /\ deferred = NoDeferred
    /\ armed = FALSE /\ origin = "none" /\ outages = 0
    /\ up = TRUE /\ registered = TRUE /\ stop = FALSE

-------------------------------------------------------------------------------
(* Start of the thread *)

Attached == [run EXCEPT !.top = "ATTACHED"]

\* READY: the pane already shows a checkpoint, so nothing is injected.  Only the
\* ATTACHED state has been saved by then.
BootSeesCheckpoint ==
    /\ pc = "boot" /\ run.top = "READY"
    /\ disk' = Attached
    /\ run' = MarkInjected(Attached)
    /\ armed' = TRUE
    /\ pc' = "poll"
    /\ UNCHANGED <<report, deferred, origin, outages, daemon>>

\* READY: the first instruction is marked as injected, saved and injected.
BootInjects ==
    /\ pc = "boot" /\ run.top = "READY" /\ ~ObservationOnly
    /\ Save(MarkInjected(Attached))
    /\ pc' = "deliver"
    /\ UNCHANGED <<thread, daemon>>

\* READY on a read-only surface: the agent is taken to be running already.
BootObserves ==
    /\ pc = "boot" /\ run.top = "READY" /\ ObservationOnly
    /\ Save(Attached)
    /\ pc' = "poll"
    /\ UNCHANGED <<thread, daemon>>

\* A resumed run goes straight to the loop.
BootResumed ==
    /\ pc = "boot" /\ run.top \in {"ATTACHED", "RUNNING"}
    /\ pc' = "poll"
    /\ UNCHANGED <<run, disk, thread, daemon>>

\* A persisted RECOVERY_NEEDED is surfaced to the operator.
BootStranded ==
    /\ pc = "boot" /\ run.top = "RECOVERY_NEEDED"
    /\ Save(Pause(run))
    /\ EndThread
    /\ UNCHANGED daemon

\* The surface cannot be created, or reading the pane for the first time raises.
BootFails ==
    /\ pc = "boot"
    /\ \/ UNCHANGED <<run, disk>>
       \/ run.top = "READY" /\ Save(Attached)
    /\ EndThread
    /\ UNCHANGED daemon

-------------------------------------------------------------------------------
(* The top of the loop *)

\* Mutant: the stop event is looked at only while the run is RUNNING.
Interrupt_RunningOnly ==
    /\ pc = "poll" /\ stop /\ run.top = "RUNNING"
    /\ Save(run)
    /\ EndThread
    /\ UNCHANGED daemon

\* stop_event is looked at once per round.
Interrupt ==
    /\ pc = "poll" /\ stop
    /\ Save(run)
    /\ EndThread
    /\ UNCHANGED daemon

RecoverFrom(r, why) ==
    /\ run' = EnterRecovery(r)
    /\ origin' = why
    /\ pc' = "recover"

\* Mutant: the deadline is looked at only while the run is RUNNING.
DeliveryTimeout_RunningOnly ==
    /\ pc = "poll" /\ armed /\ run.top = "RUNNING"
    /\ RecoverFrom(run, "timeout")
    /\ UNCHANGED <<disk, report, deferred, armed, outages, daemon>>

\* The deadline passed without an accepted checkpoint.
DeliveryTimeout ==
    /\ pc = "poll" /\ armed
    /\ RecoverFrom(run, "timeout")
    /\ UNCHANGED <<disk, report, deferred, armed, outages, daemon>>

\* Neither a checkpoint nor any visible output for the idle window.
IdleTimeout ==
    /\ pc = "poll"
    /\ RecoverFrom(EventArrives(run), "idle")
    /\ UNCHANGED <<disk, report, deferred, armed, outages, daemon>>

\* The pane shows a provider or network failure; the retry is scheduled, or the
\* attempts are used up, and the run is saved.
OutageSeen ==
    /\ pc = "poll"
    /\ disk' = run
    /\ UNCHANGED <<run, pc, thread, daemon>>

\* The scheduled time has come: the worker is told to retry.
OutageRetry ==
    /\ pc = "poll" /\ outages < MaxOutageRetries
    /\ Save(MarkInjected(run))
    /\ outages' = outages + 1
    /\ pc' = "deliver"
    /\ UNCHANGED <<report, deferred, armed, origin, daemon>>

-------------------------------------------------------------------------------
(* A checkpoint of the text just read.  Duplicates and checkpoints of another *)
(* run are skipped before this point.                                        *)

Reading == pc \in {"poll", "batch"}

\* The checkpoint names another node.  The fifth in a row is asked to start a
\* recovery; for a run that has paused or finished earlier in this text
\* transition_top_state raises, and the exception ends the thread after a save.
Mismatch ==
    LET r == [run EXCEPT !.mism = @ + 1] IN
    /\ Reading /\ ~ObservationOnly
    /\ \/ /\ r.mism < MaxMismatch
          /\ Save(r)
          /\ pc' = "batch"
          /\ UNCHANGED thread
       \/ /\ r.mism >= MaxMismatch
          /\ CanTransition(r.top, "RECOVERY_NEEDED")
          /\ disk' = r
          /\ RecoverFrom(r, "mismatch")
          /\ UNCHANGED <<report, deferred, armed, outages>>
       \/ /\ r.mism >= MaxMismatch
          /\ ~CanTransition(r.top, "RECOVERY_NEEDED")
          /\ Save(Refused(r, "RECOVERY_NEEDED"))
          /\ EndThread
    /\ UNCHANGED daemon

\* A read-only surface still reports a node that is done: the instruction did not
\* get through, and the run is to be paused, which transition_top_state refuses for
\* one that has finished earlier in this text.  Other node names are rebound to the
\* current node.
StaleObservation ==
    /\ Reading /\ ObservationOnly
    /\ run.done \ {run.node} # {}
    /\ Save(IF CanTransition(run.top, "PAUSED_FOR_HUMAN") THEN Pause(run)
            ELSE Refused(run, "PAUSED_FOR_HUMAN"))
    /\ EndThread
    /\ UNCHANGED daemon

\* _reset_recovery_tracking
ResetRecoveryTracking(r) == [r EXCEPT !.autos = 0, !.mism = 0]

Received(cp) ==
    LET r == [run EXCEPT !.mism = 0, !.proven = @ \/ ~cp.admin] IN
    IF cp.status \in ProgressStatus THEN ResetRecoveryTracking(r) ELSE r

\* The checkpoint is about the current node: it acknowledges the delivery and,
\* unless the run has stopped earlier in this text, goes to the gate.
Accept(cp) ==
    LET r == EventArrives(Received(cp)) IN
    /\ Reading
    /\ run' = r
    /\ armed' = FALSE
    /\ IF r.top \in {"GATING", "ATTACHED"}
       THEN pc' = "decide" /\ report' = cp
       ELSE pc' = "batch" /\ UNCHANGED report
    /\ UNCHANGED <<disk, deferred, origin, outages, daemon>>

\* All checkpoints handled: a deferred CONTINUE is delivered if the run is still
\* where it was composed for, and the run is saved.
EndBatch ==
    LET resend == deferred = <<run.node, run.attempt>> /\ run.top = "RUNNING" IN
    /\ pc = "batch"
    /\ \/ /\ resend
          /\ Save(MarkInjected(run))
          /\ pc' = "deliver" /\ deferred' = NoDeferred
          /\ UNCHANGED <<report, armed, origin, outages>>
       \/ /\ ~resend /\ run.top \in LoopStates
          /\ Save(run)
          /\ pc' = "poll" /\ deferred' = NoDeferred
          /\ UNCHANGED <<report, armed, origin, outages>>
       \/ /\ ~resend /\ run.top \notin LoopStates
          /\ Save(run)
          /\ EndThread
    /\ UNCHANGED daemon

-------------------------------------------------------------------------------
(* Where a checkpoint's handling leads *)

\* The rest of the text is not looked at.
Compose(r) ==
    /\ run' = r
    /\ pc' = "inject"
    /\ UNCHANGED <<disk, deferred>>

\* Nothing to inject: on to the next checkpoint.
NextCheckpoint(r) ==
    /\ run' = r
    /\ pc' = "batch"
    /\ UNCHANGED <<disk, deferred>>

\* A RUNNING run whose worker has not been told of its node or attempt is
\* injected at once.
InjectIfNeeded(r) == IF NeedsInjection(r) THEN Compose(r) ELSE NextCheckpoint(r)

\* The run is paused, and an auto-intervention may take the pause back.
PauseFor(r, why) ==
    /\ run' = Pause(r)
    /\ pc' = "rescue" /\ origin' = why
    /\ UNCHANGED <<disk, deferred>>

\* The retry budget is used up, for which there is a recipe.
PauseExhausted(r) == PauseFor(r, "budget")

\* The run is paused for a reason no recipe knows.
PauseForGood(r) == NextCheckpoint(Pause(r)) /\ UNCHANGED origin

\* maybe_plan looks for its recipes by the words of the reason, and this one quotes
\* the worker, the judge or the spec: it may contain such words or not.
PauseQuoting(r) == PauseForGood(r) \/ PauseFor(r, "quoted")

\* Mutant: one attempt too many, and the global limit is forgotten.
RetryOrPause_OneMore(r) ==
    IF r.attempt > PerNode THEN PauseExhausted(r)
    ELSE InjectIfNeeded([r EXCEPT !.top = "RUNNING"]) /\ UNCHANGED origin

RetryOrPause(r) ==
    IF Exhausted(r) THEN PauseExhausted(r)
    ELSE InjectIfNeeded([r EXCEPT !.top = "RUNNING"]) /\ UNCHANGED origin

-------------------------------------------------------------------------------
(* apply_decision *)

\* The gate's possible answers on the accepted checkpoint.
Answers ==
    IF pc = "decide" /\ run.node \notin DecisionNodes THEN Gate(run.top, report) ELSE {}

Decided(d) ==
    /\ d \in Answers
    /\ report' = NoReport
    /\ UNCHANGED <<armed, outages, daemon>>

\* Guidance waits until the rest of the text has been read.
Continue(d) ==
    LET r == [run EXCEPT !.reinj = 0, !.top = "RUNNING"] IN
    /\ Decided(d) /\ d.kind = "CONTINUE"
    /\ \/ /\ d.guidance
          /\ run' = r /\ pc' = "batch"
          /\ deferred' = <<r.node, r.attempt>>
          /\ UNCHANGED disk
       \/ /\ ~d.guidance
          /\ InjectIfNeeded(r)
    /\ UNCHANGED origin

VerifyStep(d) ==
    /\ Decided(d) /\ d.kind = "VERIFY_STEP"
    /\ run' = [run EXCEPT !.reinj = 0, !.top = "VERIFYING"]
    /\ pc' = "verify"
    /\ UNCHANGED <<disk, deferred, origin>>

\* The instruction is sent again only if the run is still ATTACHED.
ReInject(d) ==
    LET r == CountReInject(run) IN
    /\ Decided(d) /\ d.kind = "RE_INJECT"
    /\ IF r.reinj > MaxReInjects THEN NextCheckpoint(Pause(r))
       ELSE IF r.top = "ATTACHED" THEN Compose(r)
       ELSE NextCheckpoint(r)
    /\ UNCHANGED origin

Retry(d) ==
    /\ Decided(d) /\ d.kind = "RETRY"
    /\ run.used < FailureBound
    /\ RetryOrPause(ChargeRetry([run EXCEPT !.reinj = 0]))

\* Mutant: the recipes are tried whatever the reason.
EscalateToHuman_AnyRecipe(d) ==
    /\ Decided(d) /\ d.kind = "ESCALATE_TO_HUMAN"
    /\ PauseQuoting([run EXCEPT !.held = @ \/ ~d.quotes])

EscalateToHuman(d) ==
    /\ Decided(d) /\ d.kind = "ESCALATE_TO_HUMAN"
    /\ \/ d.quotes /\ PauseQuoting(run)
       \/ ~d.quotes /\ PauseForGood([run EXCEPT !.held = TRUE])

\* A decision node: whatever the checkpoint says, the judge picks an option with
\* enough confidence ...
Branch(n) ==
    /\ pc = "decide"
    /\ run.node \in DecisionNodes /\ n \in Options[run.node]
    /\ InjectIfNeeded(MoveTo(run, n))
    /\ report' = NoReport
    /\ UNCHANGED <<armed, origin, outages, daemon>>

\* ... or a human is asked; the reason quotes what the judge selected.
BranchUndecided ==
    /\ pc = "decide"
    /\ run.node \in DecisionNodes
    /\ PauseQuoting(run)
    /\ report' = NoReport
    /\ UNCHANGED <<armed, outages, daemon>>

-------------------------------------------------------------------------------
(* apply_verification *)

\* The verifiers pass: on to the next node, or through the finish gate.  Where it
\* finds evidence missing its reason quotes the spec.
VerifyPasses(extras) ==
    LET r == Verified(run)
        next == NextNode(run.node) IN
    /\ pc = "verify"
    /\ \/ /\ next # NoNode
          /\ InjectIfNeeded(MoveTo(r, next)) /\ UNCHANGED origin
       \/ /\ next = NoNode /\ FinishOk(r, extras)
          /\ NextCheckpoint([r EXCEPT !.top = "COMPLETED"]) /\ UNCHANGED origin
       \/ /\ next = NoNode /\ ~FinishOk(r, extras)
          /\ IF extras THEN PauseForGood(r) ELSE PauseQuoting(r)
    /\ UNCHANGED <<report, armed, outages, daemon>>

VerifyFails ==
    /\ pc = "verify"
    /\ run.used < FailureBound
    /\ RetryOrPause(ChargeRetry([run EXCEPT !.verdict = "failed"]))
    /\ UNCHANGED <<report, armed, outages, daemon>>

-------------------------------------------------------------------------------
(* Delivery and its failures *)

\* Saved before it is injected, so that a crash cannot repeat the previous one.
Inject ==
    /\ pc = "inject"
    /\ Save(MarkInjected(run))
    /\ pc' = "deliver" /\ deferred' = NoDeferred
    /\ UNCHANGED <<report, armed, origin, outages, daemon>>

Delivered ==
    /\ pc = "deliver"
    /\ armed' = TRUE
    /\ disk' = run
    /\ pc' = "poll"
    /\ UNCHANGED <<run, report, deferred, origin, outages, daemon>>

\* The terminal was not ready, or the injection itself failed.
DeliveryFails(why) ==
    /\ pc = "deliver" /\ ~ObservationOnly
    /\ why \in {"notready", "inject"}
    /\ RecoverFrom(run, why)
    /\ UNCHANGED <<disk, report, deferred, armed, outages, daemon>>

\* No Stop-hook acknowledgement in time, or the thread is stopped while it waits.
HandoffFails ==
    /\ pc = "deliver" /\ ObservationOnly
    /\ Save(Pause(run)) \/ (stop /\ Save(run))
    /\ EndThread
    /\ UNCHANGED daemon

\* _attempt_auto_intervention succeeds: the worker gets a recovery instruction and
\* the run is RUNNING again, whatever it was before.  maybe_plan has no recipe for
\* a terminal that was not ready.  The deadline is set anew by the callers that
\* wait for a delivery, and left alone by the others.
AutoIntervene ==
    /\ pc \in {"recover", "rescue"}
    /\ ~ObservationOnly /\ origin # "notready"
    /\ run.autos < MaxAuto
    /\ Save([run EXCEPT !.autos = @ + 1, !.top = "RUNNING", !.pre = "none",
                        !.granted = @ \/ pc = "rescue"])
    /\ armed' = (armed \/ origin \in {"timeout", "inject"})
    /\ pc' = "poll" /\ deferred' = NoDeferred /\ origin' = "none"
    /\ UNCHANGED <<report, outages, daemon>>

\* No recipe, no intervention left, or the injection failed again.
GiveUp ==
    /\ pc = "recover"
    /\ Save(Pause(run))
    /\ EndThread
    /\ UNCHANGED daemon

StayPaused ==
    /\ pc = "rescue"
    /\ pc' = "batch" /\ origin' = "none"
    /\ UNCHANGED <<run, disk, report, deferred, armed, outages, daemon>>

\* An exception anywhere in a round (a gate, the finish gate after the node was
\* added to done_node_ids, the composer after the run was moved, the readiness
\* check, the logs): run_sidecar saves the run as it is and the thread ends.
LoopError ==
    /\ \/ pc \notin {"off", "boot"} /\ Save(run)
       \/ pc = "verify" /\ NextNode(run.node) = NoNode /\ Save(Verified(run))
    /\ EndThread
    /\ UNCHANGED daemon

-------------------------------------------------------------------------------
(* The daemon *)

\* _do_stop and _do_stop_all only set the event.
Stop ==
    /\ up /\ registered /\ ~stop
    /\ stop' = TRUE
    /\ UNCHANGED <<run, disk, pc, thread, up, registered>>

\* _reap_finished: a dead thread's entry leaves the registry.
Reap ==
    /\ up /\ registered /\ pc = "off"
    /\ registered' = FALSE /\ stop' = FALSE
    /\ UNCHANGED <<run, disk, pc, thread, up>>

\* Mutant: the attach boundary is not restored.
Resumed_Running(r) ==
    IF r.top # "PAUSED_FOR_HUMAN" THEN r
    ELSE [r EXCEPT !.top = "RUNNING", !.autos = 0, !.mism = 0, !.pre = "none",
                   !.granted = TRUE, !.held = FALSE, !.refused = FALSE]

\* What _do_resume makes of the persisted state.  Counters of the retry budget
\* survive; re_inject_count is reset only when the attach boundary is restored.
Resumed(r) ==
    IF r.top # "PAUSED_FOR_HUMAN" THEN r
    ELSE [r EXCEPT !.top = IF r.pre = "ATTACHED" THEN "ATTACHED" ELSE "RUNNING",
                   !.reinj = IF r.pre = "ATTACHED" THEN 0 ELSE @,
                   !.autos = 0, !.mism = 0, !.pre = "none", !.granted = TRUE,
                   !.held = FALSE, !.refused = FALSE]

\* _do_resume starts a new thread on the run.
Resume ==
    /\ up /\ ~registered /\ pc = "off"
    /\ disk.top \in Resumable
    /\ Save(Resumed(disk))
    /\ pc' = "boot"
    /\ registered' = TRUE /\ stop' = FALSE
    /\ UNCHANGED <<thread, up>>

\* _do_ack_review, refused only while the thread is alive.
AckReview(reviewer, extras) ==
    LET r == [disk EXCEPT !.reviews = @ \cup {reviewer}] IN
    /\ up /\ pc = "off"
    /\ Save(IF FinishOk(r, extras) /\ r.top \notin FinalStates
            THEN [r EXCEPT !.top = "COMPLETED"] ELSE r)
    /\ UNCHANGED <<pc, thread, daemon>>

\* The process dies; so does the thread, wherever it is, and what it has not saved
\* is lost.  That the run was held is history and remains true.
DaemonCrash ==
    /\ DaemonCrashes /\ up
    /\ up' = FALSE /\ registered' = FALSE /\ stop' = FALSE
    /\ Save([disk EXCEPT !.held = run.held])
    /\ EndThread

\* A new daemon parks the runs nobody owns.  The state they were in is not noted.
DaemonStart ==
    /\ ~up
    /\ up' = TRUE
    /\ Save(IF disk.top \in Orphaned THEN [disk EXCEPT !.top = "PAUSED_FOR_HUMAN"]
            ELSE disk)
    /\ UNCHANGED <<pc, thread, registered, stop>>

-------------------------------------------------------------------------------

Boot ==
    \/ BootSeesCheckpoint \/ BootInjects \/ BootObserves
    \/ BootResumed \/ BootStranded \/ BootFails

Poll == Interrupt \/ DeliveryTimeout \/ IdleTimeout \/ OutageSeen \/ OutageRetry

Read == Mismatch \/ StaleObservation \/ (\E cp \in Reports : Accept(cp))

Judge ==
    \/ \E d \in Answers :
          Continue(d) \/ VerifyStep(d) \/ ReInject(d) \/ Retry(d) \/ EscalateToHuman(d)
    \/ \E n \in Nodes : Branch(n)
    \/ BranchUndecided

Verify == (\E extras \in Extras : VerifyPasses(extras)) \/ VerifyFails

Deliver == Delivered \/ (\E why \in {"notready", "inject"} : DeliveryFails(why)) \/ HandoffFails

Rescue == AutoIntervene \/ GiveUp \/ StayPaused

Sidecar ==
    \/ Boot \/ Poll \/ Read \/ EndBatch \/ Judge \/ Verify \/ Inject \/ Deliver \/ Rescue
    \/ LoopError

Daemon ==
    \/ Stop \/ Reap \/ Resume \/ DaemonCrash \/ DaemonStart
    \/ \E reviewer \in Acknowledgers, extras \in Extras : AckReview(reviewer, extras)

Next == Sidecar \/ Daemon

Spec == Init /\ [][Next]_vars

\* The thread does not stop in the middle of a round.  The text of a pane is
\* finite, so every round ends; each round looks at stop_event and, time passing,
\* finds an armed deadline expired.  Nothing is assumed of the worker, of
\* operators or of the next start of the daemon.
Fairness ==
    /\ WF_vars(Boot \/ Judge \/ Verify \/ Inject \/ Deliver \/ Rescue)
    /\ SF_vars(EndBatch)
    /\ SF_vars(Interrupt)
    /\ SF_vars(DeliveryTimeout)

FairSpec == Spec /\ Fairness
===============================================================================
