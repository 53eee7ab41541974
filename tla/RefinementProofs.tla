---------------------------- MODULE RefinementProofs ----------------------------
(***************************************************************************)
(* What every step of the thread and of the daemon does to the run, proved *)
(* for every workflow, budget and worker.                                  *)
(*                                                                         *)
(* Every change of the top state is one the table allows, and one that is  *)
(* asked for and refused ends a thread that was reading on after a pause   *)
(* or an end: beside the invariant of SupervisorProofs this needs to know  *)
(* that the loop never meets a READY run, from which a recovery is not     *)
(* allowed, and that memory and disk agree when a thread starts.           *)
(*                                                                         *)
(* A run the gate has put before a human in its own words stays there      *)
(* until it is resumed, as no thread of it does more than read on.         *)
(*                                                                         *)
(* And what is on disk keeps the contract of RunContract: the initial      *)
(* state maps to one of the contract, and every step to a step of the      *)
(* contract or to none.  The invariant says how far memory may be ahead of *)
(* the disk: by one accepted node, while no other can be accepted, and by  *)
(* a pause or an end, but never after the disk has shown that pause or     *)
(* end.                                                                    *)
(***************************************************************************)
EXTENDS SupervisorProofs

-------------------------------------------------------------------------------
(* Transitions *)

\* A thread in its loop has attached the run.
Started == pc \in {"poll", "batch", "inject", "deliver"} => run.top # "READY"

\* Without a thread, and until it has begun, the file is the truth.
Settled == pc \in {"off", "boot"} => run = disk

TInv == IInv /\ Alive /\ Started /\ Settled

Legal == CanTransition(run.top, run'.top)

\* The pairs the steps below need.
LEMMA LegalPairs ==
    /\ \A s \in TopState : CanTransition(s, s)
    /\ \A s \in TopState \ FinalStates :
          /\ CanTransition(s, "PAUSED_FOR_HUMAN")
          /\ CanTransition(s, "COMPLETED")
          /\ CanTransition(s, "RUNNING")
    /\ \A s \in InAction \ {"READY"} : CanTransition(s, "RECOVERY_NEEDED")
    /\ \A s \in {"READY", "PAUSED_FOR_HUMAN"} : CanTransition(s, "ATTACHED")
    /\ \A s \in GatedByEvent : CanTransition(s, "GATING")
    /\ \A s \in {"GATING", "ATTACHED"} : CanTransition(s, "VERIFYING")
  BY DEF CanTransition, AllowedTransitions, Stoppable, FinalStates, TopState, InAction,
         GatedByEvent

\* The states in action are not final.
LEMMA ActionNotFinal ==
    /\ InAction \subseteq TopState \ FinalStates
    /\ "PAUSED_FOR_HUMAN" \in TopState \ FinalStates
  BY DEF InAction, TopState, FinalStates

\* What leaves the top state alone, or pauses a run that is not final, is legal.
LEMMA SameTopLegal ==
    ASSUME run \in Run, run'.top = run.top
    PROVE  Legal
<1>1. run.top \in TopState BY DEF Run
<1> QED BY <1>1, LegalPairs DEF Legal

\* The start of the thread.
LEMMA BootLegal == TInv /\ Boot => Legal /\ Started'
<1> SUFFICES ASSUME TInv, Boot PROVE Legal /\ Started' OBVIOUS
<1>1. run \in Run BY DEF TInv, IInv, Sound
<1>2. Attached \in Run /\ Attached.top = "ATTACHED"
  BY <1>1 DEF Attached, Run, TopState
<1>3. MarkInjected(Attached).top = "ATTACHED" BY <1>2, SameWorkInjected
<1>4. CASE BootSeesCheckpoint \/ BootInjects \/ BootObserves
  <2>1. run.top = "READY" /\ run'.top = "ATTACHED"
    BY <1>2, <1>3, <1>4 DEF BootSeesCheckpoint, BootInjects, BootObserves, Save
  <2> QED BY <2>1, LegalPairs DEF Legal, Started
<1>5. CASE BootResumed
  BY <1>1, <1>5, SameTopLegal DEF BootResumed, Started
<1>6. CASE BootStranded
  <2>1. Pause(run).top = "PAUSED_FOR_HUMAN" BY <1>1, SameWorkLeaving DEF Pause, TopState
  <2>2. run.top = "RECOVERY_NEEDED" /\ run'.top = "PAUSED_FOR_HUMAN"
    BY <1>6, <2>1 DEF BootStranded, Save
  <2> QED BY <2>2, LegalPairs DEF Legal, Started, TopState, FinalStates
<1>7. CASE BootFails
  <2>1. pc' = "off" BY <1>7 DEF BootFails, EndThread
  <2>2. CASE UNCHANGED <<run, disk>>
    BY <1>1, <2>1, <2>2, SameTopLegal DEF Started
  <2>3. CASE run.top = "READY" /\ Save(Attached)
    BY <1>2, <2>1, <2>3, LegalPairs DEF Legal, Started, Save
  <2> QED BY <1>7, <2>2, <2>3 DEF BootFails
<1> QED BY <1>4, <1>5, <1>6, <1>7 DEF Boot

\* A recovery entered from a run that has started.
LEMMA RecoverFromLegal ==
    ASSUME NEW r \in Run, NEW why, RecoverFrom(r, why),
           CanTransition(run.top, "RECOVERY_NEEDED")
    PROVE  Legal /\ Started'
<1>1. run'.top = "RECOVERY_NEEDED"
  BY SameWorkLeaving DEF RecoverFrom, EnterRecovery, TopState
<1> QED BY <1>1 DEF Legal, Started, RecoverFrom

\* An event leaves the top state alone or makes it GATING, which is legal.
LEMMA EventTop ==
    ASSUME NEW r \in Run
    PROVE  /\ EventArrives(r) \in Run
           /\ CanTransition(r.top, EventArrives(r).top)
           /\ EventArrives(r).top # "READY"
<1>1. r.top \in TopState BY DEF Run
<1> DEFINE top == IF r.top \in GatedByEvent THEN "GATING" ELSE r.top
<1>2. top \in TopState /\ CanTransition(r.top, top) /\ top # "READY"
  BY <1>1, LegalPairs DEF TopState, GatedByEvent
<1> HIDE DEF top
<1>3. EventArrives(r) = [r EXCEPT !.top = top] BY DEF EventArrives, top
<1>4. [r EXCEPT !.top = top] \in Run /\ [r EXCEPT !.top = top].top = top
  BY <1>2 DEF Run
<1> QED BY <1>2, <1>3, <1>4

\* The top of the loop.
LEMMA PollLegal == TInv /\ Poll => Legal /\ Started'
<1> SUFFICES ASSUME TInv, Poll PROVE Legal /\ Started' OBVIOUS
<1>1. run \in Run /\ run.top \in InAction \ {"READY"}
  BY DEF TInv, IInv, Sound, Placed, Started, Poll, Interrupt, DeliveryTimeout, IdleTimeout,
         OutageSeen, OutageRetry
<1>2. CASE Interrupt
  BY <1>1, <1>2, SameTopLegal DEF Interrupt, Save, EndThread, Started
<1>3. CASE DeliveryTimeout
  BY <1>1, <1>3, RecoverFromLegal, LegalPairs DEF DeliveryTimeout
<1>4. CASE IdleTimeout
  BY <1>1, <1>4, EventTop, RecoverFromLegal, LegalPairs DEF IdleTimeout
<1>5. CASE OutageSeen
  BY <1>1, <1>5, SameTopLegal DEF OutageSeen, Started
<1>6. CASE OutageRetry
  BY <1>1, <1>6, SameWorkInjected, SameTopLegal DEF OutageRetry, Save, Started
<1> QED BY <1>2, <1>3, <1>4, <1>5, <1>6 DEF Poll

\* A checkpoint received leaves the work alone, and the top state to the event.
LEMMA ReceivedTop ==
    ASSUME NEW cp, run \in Run
    PROVE  SameWork(run, Received(cp)) /\ Received(cp).top = run.top
<1> DEFINE shown == run.proven \/ ~cp.admin
<1> DEFINE autos == IF cp.status \in ProgressStatus THEN 0 ELSE run.autos
<1>1. shown \in BOOLEAN /\ autos \in {0, run.autos} BY DEF Run
<1>2. Received(cp) = [run EXCEPT !.mism = 0, !.proven = shown, !.autos = autos]
  BY DEF Received, ResetRecoveryTracking, Run
<1> HIDE DEF shown, autos
<1>3. SameWork(run, [run EXCEPT !.mism = 0, !.proven = shown, !.autos = autos])
      /\ [run EXCEPT !.mism = 0, !.proven = shown, !.autos = autos].top = run.top
  BY <1>1, SameWorkReceived
<1> QED BY <1>2, <1>3

\* Noting the state that could not be left leaves the work alone.
LEMMA SameWorkNotLeft ==
    ASSUME NEW r \in Run, NEW top \in TopState
    PROVE  SameWork(r, Refused(r, top)) /\ Refused(r, top).top = r.top
<1> DEFINE l == LeavingFor(r, top)
<1> DEFINE s == [l EXCEPT !.top = r.top, !.refused = TRUE]
<1>1. SameWork(r, l) /\ r.top \in TopState BY SameWorkLeaving DEF Run
<1> HIDE DEF l
<1>2. SameWork(l, s) /\ s.top = r.top BY <1>1 DEF SameWork, Run
<1>3. SameWork(r, s) BY <1>1, <1>2, SameWorkTwice
<1> QED BY <1>2, <1>3 DEF s, l, Refused

\* Reading a checkpoint.
LEMMA ReadLegal == TInv /\ Read => Legal /\ Started'
<1> SUFFICES ASSUME TInv, Read PROVE Legal /\ Started' OBVIOUS
<1>1. run \in Run /\ run.top \in TopState BY DEF TInv, IInv, Sound, Run
<1>2. pc \in {"poll", "batch"} => run.top # "READY" BY DEF TInv, Started
<1>3. CASE Mismatch
  <2> DEFINE r == [run EXCEPT !.mism = @ + 1]
  <2>1. r \in Run /\ r.top = run.top BY <1>1 DEF Run
  <2>2. pc \in {"poll", "batch"} BY <1>3 DEF Mismatch, Reading
  <2>3. \/ Save(r)
        \/ CanTransition(r.top, "RECOVERY_NEEDED") /\ RecoverFrom(r, "mismatch")
        \/ Save(Refused(r, "RECOVERY_NEEDED"))
    BY <1>3 DEF Mismatch
  <2> HIDE DEF r
  <2>4. CASE Save(r)
    BY <1>1, <1>2, <2>1, <2>2, <2>4, SameTopLegal DEF Save, Started
  <2>5. CASE CanTransition(r.top, "RECOVERY_NEEDED") /\ RecoverFrom(r, "mismatch")
    BY <2>1, <2>5, RecoverFromLegal
  <2>6. CASE Save(Refused(r, "RECOVERY_NEEDED"))
    <3>1. Refused(r, "RECOVERY_NEEDED").top = r.top
      BY <2>1, SameWorkNotLeft DEF TopState
    <3> QED BY <1>1, <1>2, <2>1, <2>2, <2>6, <3>1, SameTopLegal DEF Save, Started
  <2> QED BY <2>3, <2>4, <2>5, <2>6
<1>4. CASE StaleObservation
  <2>1. Pause(run) \in Run /\ Pause(run).top = "PAUSED_FOR_HUMAN"
    BY <1>1, SameWorkLeaving DEF Pause, SameWork, TopState
  <2>2. pc' = "off" BY <1>4 DEF StaleObservation, EndThread
  <2>3. CASE CanTransition(run.top, "PAUSED_FOR_HUMAN") /\ Save(Pause(run))
    BY <2>1, <2>2, <2>3 DEF Save, Legal, Started
  <2>4. CASE Save(Refused(run, "PAUSED_FOR_HUMAN"))
    <3>1. Refused(run, "PAUSED_FOR_HUMAN").top = run.top
      BY <1>1, SameWorkNotLeft DEF TopState
    <3> QED BY <1>1, <2>2, <2>4, <3>1, SameTopLegal DEF Save, Started
  <2> QED BY <1>4, <2>3, <2>4 DEF StaleObservation
<1>5. ASSUME NEW cp \in Reports, Accept(cp) PROVE Legal /\ Started'
  <2>1. Received(cp) \in Run /\ Received(cp).top = run.top
    BY <1>1, ReceivedTop DEF SameWork
  <2>2. run' = EventArrives(Received(cp)) BY <1>5 DEF Accept
  <2> QED BY <2>1, <2>2, EventTop DEF Legal, Started
<1> QED BY <1>3, <1>4, <1>5 DEF Read

\* The end of a text.
LEMMA EndBatchLegal == TInv /\ EndBatch => Legal /\ Started'
<1> SUFFICES ASSUME TInv, EndBatch PROVE Legal /\ Started' OBVIOUS
<1>1. run \in Run /\ run.top # "READY"
  BY DEF TInv, IInv, Sound, Started, EndBatch
<1>2. Save(MarkInjected(run)) \/ Save(run) BY DEF EndBatch
<1>3. run'.top = run.top BY <1>1, <1>2, SameWorkInjected DEF Save
<1> QED BY <1>1, <1>3, SameTopLegal DEF Started

-------------------------------------------------------------------------------
(* After the gate *)

\* What injecting if needed makes of the top state.
LEMMA InjectIfNeededTop ==
    ASSUME NEW r \in Run, InjectIfNeeded(r)
    PROVE  run'.top = r.top
  BY DEF InjectIfNeeded, Compose, NextCheckpoint

\* What pausing for a reason does.
LEMMA PausesTop ==
    ASSUME NEW r \in Run, PauseForGood(r) \/ PauseQuoting(r)
    PROVE  run'.top = "PAUSED_FOR_HUMAN"
<1>1. Pause(r).top = "PAUSED_FOR_HUMAN" BY SameWorkLeaving DEF Pause, TopState
<1> QED BY <1>1 DEF PauseQuoting, PauseForGood, PauseFor, NextCheckpoint

\* A failure counted.
LEMMA RetryOrPauseLegal ==
    ASSUME NEW c \in Run, run.top \in InAction, RetryOrPause(c)
    PROVE  Legal /\ Started'
<1>1. CASE Exhausted(c)
  <2>1. Pause(c).top = "PAUSED_FOR_HUMAN" BY SameWorkLeaving DEF Pause, TopState
  <2>2. run'.top = "PAUSED_FOR_HUMAN" 
    BY <1>1, <2>1 DEF RetryOrPause, PauseExhausted, PauseFor
  <2> QED BY <2>2, ActionNotFinal, LegalPairs DEF Legal, Started
<1>2. CASE ~Exhausted(c)
  <2>1. [c EXCEPT !.top = "RUNNING"] \in Run /\ [c EXCEPT !.top = "RUNNING"].top = "RUNNING"
    BY SameWorkTop DEF SameWork, TopState
  <2>2. InjectIfNeeded([c EXCEPT !.top = "RUNNING"]) BY <1>2 DEF RetryOrPause
  <2>3. run'.top = "RUNNING" BY <2>1, <2>2, InjectIfNeededTop
  <2> QED BY <2>3, ActionNotFinal, LegalPairs DEF Legal, Started
<1> QED BY <1>1, <1>2

\* Every decision of the gate.
LEMMA JudgeLegal == TInv /\ Judge => Legal /\ Started'
<1> SUFFICES ASSUME TInv, Judge PROVE Legal /\ Started' OBVIOUS
<1> DEFINE r0 == [run EXCEPT !.reinj = 0]
<1>1. run \in Run /\ run.top \in {"GATING", "ATTACHED"}
  BY DEF TInv, IInv, Sound, Placed, Judge, Continue, VerifyStep, ReInject, Retry,
         EscalateToHuman, Decided, Answers, Branch, BranchUndecided
<1>2. run.top \in InAction /\ run.top \in TopState \ FinalStates /\ run.top # "READY"
  BY <1>1 DEF InAction, TopState, FinalStates
<1>3. r0 \in Run BY <1>1, SameWorkReInject DEF SameWork
<1>4. \A top \in {"RUNNING", "VERIFYING"} :
         /\ [run EXCEPT !.reinj = 0, !.top = top] \in Run
         /\ [run EXCEPT !.reinj = 0, !.top = top].top = top
  BY <1>1 DEF Run, TopState
<1>5. run'.top = "PAUSED_FOR_HUMAN" => Legal /\ Started'
  BY <1>2, LegalPairs DEF Legal, Started
<1>6. run'.top = "RUNNING" => Legal /\ Started'
  BY <1>2, LegalPairs DEF Legal, Started
<1>7. ASSUME NEW d, Continue(d) PROVE Legal /\ Started'
  <2> DEFINE r == [run EXCEPT !.reinj = 0, !.top = "RUNNING"]
  <2>1. r \in Run /\ r.top = "RUNNING" BY <1>4
  <2>2. run' = r \/ InjectIfNeeded(r) BY <1>7 DEF Continue
  <2> HIDE DEF r
  <2> QED BY <1>6, <2>1, <2>2, InjectIfNeededTop
<1>8. ASSUME NEW d, VerifyStep(d) PROVE Legal /\ Started'
  <2>1. run'.top = "VERIFYING" BY <1>4, <1>8 DEF VerifyStep
  <2> QED BY <1>1, <2>1, LegalPairs DEF Legal, Started
<1>9. ASSUME NEW d, ReInject(d) PROVE Legal /\ Started'
  <2> DEFINE r == CountReInject(run)
  <2>1. r \in Run /\ r.top = run.top
    <3>1. Sound(run) BY DEF TInv, IInv
    <3> QED BY <3>1, CountReInjectSound DEF Sound
  <2>2. Pause(r).top = "PAUSED_FOR_HUMAN"
    BY <2>1, SameWorkLeaving DEF Pause, TopState
  <2>3. run' = Pause(r) \/ run' = r
    BY <1>9 DEF ReInject, Compose, NextCheckpoint
  <2> HIDE DEF r
  <2>4. CASE run' = r
    BY <1>1, <1>2, <2>1, <2>4, SameTopLegal DEF Started
  <2> QED BY <1>5, <2>2, <2>3, <2>4
<1>10. ASSUME NEW d, Retry(d) PROVE Legal /\ Started'
  <2>1. ChargeRetry(r0) \in Run BY <1>3, ChargedRun
  <2>2. RetryOrPause(ChargeRetry(r0)) BY <1>10 DEF Retry
  <2> QED BY <1>2, <2>1, <2>2, RetryOrPauseLegal
<1>11. ASSUME NEW d, EscalateToHuman(d) PROVE Legal /\ Started'
  <2>1. [run EXCEPT !.held = TRUE] \in Run BY <1>1 DEF Run
  <2> QED BY <1>1, <1>5, <1>11, <2>1, PausesTop DEF EscalateToHuman
<1>12. ASSUME NEW n \in Nodes, Branch(n) PROVE Legal /\ Started'
  <2>1. MoveTo(run, n) \in Run /\ MoveTo(run, n).top = "RUNNING" BY <1>1, MovedRun
  <2> QED BY <1>6, <1>12, <2>1, InjectIfNeededTop DEF Branch
<1>13. CASE BranchUndecided 
  BY <1>1, <1>5, <1>13, PausesTop DEF BranchUndecided
<1> QED BY <1>7, <1>8, <1>9, <1>10, <1>11, <1>12, <1>13 DEF Judge

\* Every outcome of a verification.
LEMMA VerifyLegal == TInv /\ Verify => Legal /\ Started'
<1> SUFFICES ASSUME TInv, Verify PROVE Legal /\ Started' OBVIOUS
<1>1. run \in Run /\ run.node \in Nodes /\ run.top = "VERIFYING"
  BY DEF TInv, IInv, Sound, Run, Placed, Verify, VerifyPasses, VerifyFails
<1>2. run.top \in InAction /\ run.top \in TopState \ FinalStates
  BY <1>1 DEF InAction, TopState, FinalStates
<1>3. run'.top \in {"RUNNING", "COMPLETED", "PAUSED_FOR_HUMAN"} => Legal /\ Started'
  BY <1>2, LegalPairs DEF Legal, Started
<1>4. ASSUME NEW extras, VerifyPasses(extras) PROVE Legal /\ Started'
  <2> DEFINE v == Verified(run)
  <2> DEFINE next == NextNode(run.node)
  <2>1. v \in Run BY <1>1, VerifiedRun
  <2>2. CASE next # NoNode
    <3>1. next \in Nodes BY <1>1, <2>2, NextNodeFact
    <3>2. InjectIfNeeded(MoveTo(v, next)) BY <1>4, <2>2 DEF VerifyPasses
    <3> HIDE DEF v, next
    <3>3. MoveTo(v, next) \in Run /\ MoveTo(v, next).top = "RUNNING" BY <2>1, <3>1, MovedRun
    <3>4. run'.top = "RUNNING" BY <3>2, <3>3, InjectIfNeededTop
    <3> QED BY <1>3, <3>4
  <2>3. CASE next = NoNode
    <3>1. \/ run' = [v EXCEPT !.top = "COMPLETED"]
          \/ PauseForGood(v) \/ PauseQuoting(v)
      BY <1>4, <2>3 DEF VerifyPasses, NextCheckpoint
    <3> HIDE DEF v
    <3>2. [v EXCEPT !.top = "COMPLETED"].top = "COMPLETED" BY <2>1 DEF Run
    <3> QED BY <1>3, <2>1, <3>1, <3>2, PausesTop
  <2> QED BY <2>2, <2>3
<1>5. CASE VerifyFails
  <2> DEFINE f == [run EXCEPT !.verdict = "failed"]
  <2>1. f \in Run BY <1>1 DEF Run
  <2>2. RetryOrPause(ChargeRetry(f)) BY <1>5 DEF VerifyFails
  <2> HIDE DEF f
  <2>3. ChargeRetry(f) \in Run BY <2>1, ChargedRun
  <2> QED BY <1>2, <2>2, <2>3, RetryOrPauseLegal
<1> QED BY <1>4, <1>5 DEF Verify

\* An instruction is injected.
LEMMA InjectLegal == TInv /\ Inject => Legal /\ Started'
<1> SUFFICES ASSUME TInv, Inject PROVE Legal /\ Started' OBVIOUS
<1>1. run \in Run /\ run.top # "READY" BY DEF TInv, IInv, Sound, Started, Inject
<1>2. run'.top = run.top BY <1>1, SameWorkInjected DEF Inject, Save
<1> QED BY <1>1, <1>2, SameTopLegal DEF Started

\* A delivery, made or failed.
LEMMA DeliverLegal == TInv /\ Deliver => Legal /\ Started'
<1> SUFFICES ASSUME TInv, Deliver PROVE Legal /\ Started' OBVIOUS
<1>1. run \in Run /\ run.top \in InAction \ {"READY"}
  BY DEF TInv, IInv, Sound, Placed, Started, Deliver, Delivered, DeliveryFails, HandoffFails
<1>2. CASE Delivered BY <1>1, <1>2, SameTopLegal DEF Delivered, Started
<1>3. ASSUME NEW why, DeliveryFails(why) PROVE Legal /\ Started'
  BY <1>1, <1>3, RecoverFromLegal, LegalPairs DEF DeliveryFails
<1>4. CASE HandoffFails
  <2>1. Pause(run).top = "PAUSED_FOR_HUMAN" BY <1>1, SameWorkLeaving DEF Pause, TopState
  <2>2. run'.top = run.top \/ run'.top = "PAUSED_FOR_HUMAN"
    BY <1>4, <2>1 DEF HandoffFails, Save
  <2>3. Legal BY <1>1, <2>2, SameTopLegal, ActionNotFinal, LegalPairs DEF Legal
  <2> QED BY <1>4, <2>3 DEF HandoffFails, EndThread, Started
<1> QED BY <1>2, <1>3, <1>4 DEF Deliver

\* An auto-intervention, or its refusal.
LEMMA RescueLegal == TInv /\ Rescue => Legal /\ Started'
<1> SUFFICES ASSUME TInv, Rescue PROVE Legal /\ Started' OBVIOUS
<1>1. run \in Run /\ run.granted \in BOOLEAN BY DEF TInv, IInv, Sound, Run
<1>2. run.top \in TopState \ FinalStates /\ run.top # "READY"
  BY DEF TInv, IInv, Placed, Rescue, AutoIntervene, GiveUp, StayPaused, TopState, FinalStates
<1>3. CASE AutoIntervene
  <2> DEFINE g == run.granted \/ pc = "rescue"
  <2>1. [run EXCEPT !.autos = @ + 1, !.top = "RUNNING", !.pre = "none",
                    !.granted = g].top = "RUNNING"
    BY <1>1, SameWorkIntervened
  <2>2. run'.top = "RUNNING" BY <1>3, <2>1 DEF AutoIntervene, Save
  <2> QED BY <1>2, <2>2, LegalPairs DEF Legal, Started
<1>4. CASE GiveUp
  <2>1. Pause(run).top = "PAUSED_FOR_HUMAN" BY <1>1, SameWorkLeaving DEF Pause, TopState
  <2>2. run'.top = "PAUSED_FOR_HUMAN" BY <1>4, <2>1 DEF GiveUp, Save
  <2> QED BY <1>2, <2>2, LegalPairs DEF Legal, Started
<1>5. CASE StayPaused
  BY <1>1, <1>2, <1>5, SameTopLegal DEF StayPaused, Started
<1> QED BY <1>3, <1>4, <1>5 DEF Rescue

\* An exception saves the run in the state it has.
LEMMA LoopErrorLegal == TInv /\ LoopError => Legal /\ Started'
<1> SUFFICES ASSUME TInv, LoopError PROVE Legal /\ Started' OBVIOUS
<1>1. run \in Run BY DEF TInv, IInv, Sound
<1>2. run' = run \/ run' = Verified(run) BY DEF LoopError, Save
<1>3. run'.top = run.top BY <1>1, <1>2, VerifiedRun
<1>4. Started' BY DEF LoopError, EndThread, Started
<1> QED BY <1>1, <1>3, <1>4, SameTopLegal

-------------------------------------------------------------------------------
(* The daemon, and all together *)

\* The daemon takes the run over only from the file, and a crash is no transition.
LEMMA DaemonLegal == TInv /\ Daemon => (up' => Legal) /\ Started'
<1> SUFFICES ASSUME TInv, Daemon PROVE (up' => Legal) /\ Started' OBVIOUS
<1>1. run \in Run /\ disk \in Run /\ disk.top \in TopState
  BY DEF TInv, IInv, Sound, Run
<1>2. pc = "off" => run = disk BY DEF TInv, Settled
<1>3. CASE Stop \/ Reap
  BY <1>1, <1>3, SameTopLegal DEF Stop, Reap, TInv, Started
<1>4. CASE Resume
  <2>1. pc = "off" /\ pc' = "boot" /\ run' = Resumed(disk) /\ disk.top \in Resumable
    BY <1>4 DEF Resume, Save
  <2>2. CASE disk.top # "PAUSED_FOR_HUMAN"
    <3>1. run'.top = run.top BY <1>2, <2>1, <2>2 DEF Resumed
    <3> QED BY <1>1, <2>1, <3>1, SameTopLegal DEF Started
  <2>3. CASE disk.top = "PAUSED_FOR_HUMAN"
    <3> DEFINE top == IF disk.pre = "ATTACHED" THEN "ATTACHED" ELSE "RUNNING"
    <3>1. Resumed(disk).top = top BY <1>1, <2>3 DEF Resumed, Run
    <3>2. CanTransition("PAUSED_FOR_HUMAN", top) BY LegalPairs, ActionNotFinal
    <3> QED BY <1>2, <2>1, <2>3, <3>1, <3>2 DEF Legal, Started
  <2> QED BY <2>2, <2>3
<1>5. CASE DaemonCrash
  BY <1>5 DEF DaemonCrash, EndThread, Started
<1>6. CASE DaemonStart
  <2>1. pc = "off" /\ pc' = "off" BY <1>6 DEF DaemonStart, TInv, Alive
  <2>2. CASE disk.top \in Orphaned
    <3>1. run'.top = "PAUSED_FOR_HUMAN" BY <1>1, <1>6, <2>2 DEF DaemonStart, Save, Run
    <3>2. disk.top \in TopState \ FinalStates BY <1>1, <2>2 DEF Orphaned, FinalStates
    <3> QED BY <1>2, <2>1, <3>1, <3>2, LegalPairs DEF Legal, Started
  <2>3. CASE disk.top \notin Orphaned
    <3>1. run'.top = run.top BY <1>2, <1>6, <2>1, <2>3 DEF DaemonStart, Save
    <3> QED BY <1>1, <2>1, <3>1, SameTopLegal DEF Started
  <2> QED BY <2>2, <2>3
<1>7. ASSUME NEW reviewer \in Acknowledgers, NEW extras, AckReview(reviewer, extras)
      PROVE  Legal /\ Started'
  <2> DEFINE reviews == disk.reviews \cup {reviewer}
  <2> DEFINE r == [disk EXCEPT !.reviews = reviews]
  <2>1. pc = "off" /\ pc' = "off" BY <1>7 DEF AckReview
  <2>2. reviews \in SUBSET Reviewers BY <1>1, SidecarAssumption DEF Run
  <2>3. run' = r \/ (r.top \notin FinalStates /\ run' = [r EXCEPT !.top = "COMPLETED"])
    BY <1>7 DEF AckReview, Save
  <2> HIDE DEF reviews
  <2>4. r \in Run /\ r.top = disk.top BY <1>1, <2>2 DEF Run
  <2> HIDE DEF r
  <2>5. [r EXCEPT !.top = "COMPLETED"].top = "COMPLETED" BY <2>4 DEF Run
  <2>6. run'.top = run.top \/ (run.top \notin FinalStates /\ run'.top = "COMPLETED")
    BY <1>2, <2>1, <2>3, <2>4, <2>5
  <2>7. Legal BY <1>1, <1>2, <2>1, <2>6, SameTopLegal, LegalPairs DEF Legal
  <2> QED BY <2>1, <2>7 DEF Started
<1> QED BY <1>3, <1>4, <1>5, <1>6, <1>7 DEF Daemon

\* A thread that ends has saved what it knows, or never changed it.
LEMMA SettledKeeps == Settled /\ Next => Settled'
<1> SUFFICES ASSUME Settled, Next PROVE Settled' OBVIOUS
<1>1. CASE Boot
  BY <1>1 DEF Settled, Boot, BootSeesCheckpoint, BootInjects, BootObserves, BootResumed,
              BootStranded, BootFails, Save
<1>2. CASE Poll
  BY <1>2 DEF Settled, Poll, Interrupt, DeliveryTimeout, IdleTimeout, OutageSeen,
              OutageRetry, RecoverFrom, Save
<1>3. CASE Read
  BY <1>3 DEF Settled, Read, Mismatch, StaleObservation, Accept, RecoverFrom, Save
<1>4. CASE EndBatch BY <1>4 DEF Settled, EndBatch, Save
<1>5. CASE Judge
  <2>1. pc' \in {"batch", "inject", "verify", "rescue"}
    BY <1>5 DEF Judge, Continue, VerifyStep, ReInject, Retry, EscalateToHuman, Branch,
                BranchUndecided, RetryOrPause, PauseExhausted, PauseQuoting, PauseForGood,
                PauseFor, InjectIfNeeded, Compose, NextCheckpoint
  <2> QED BY <2>1 DEF Settled
<1>6. CASE Verify
  <2>1. pc' \in {"batch", "inject", "rescue"}
    BY <1>6 DEF Verify, VerifyPasses, VerifyFails, RetryOrPause, PauseExhausted,
                PauseQuoting, PauseForGood, PauseFor, InjectIfNeeded, Compose,
                NextCheckpoint
  <2> QED BY <2>1 DEF Settled
<1>7. CASE Inject \/ Deliver
  BY <1>7 DEF Settled, Inject, Deliver, Delivered, DeliveryFails, HandoffFails, RecoverFrom, Save
<1>8. CASE Rescue
  BY <1>8 DEF Settled, Rescue, AutoIntervene, GiveUp, StayPaused, Save
<1>9. CASE LoopError BY <1>9 DEF Settled, LoopError, Save
<1>10. CASE Daemon
  <2>1. CASE Stop \/ Reap BY <2>1 DEF Settled, Stop, Reap
  <2>2. CASE Resume \/ DaemonCrash \/ DaemonStart
    BY <2>2 DEF Settled, Resume, DaemonCrash, DaemonStart, Save
  <2>3. ASSUME NEW reviewer, NEW extras, AckReview(reviewer, extras) PROVE Settled'
    BY <2>3 DEF Settled, AckReview, Save
  <2> QED BY <1>10, <2>1, <2>2, <2>3 DEF Daemon
<1> QED
  BY <1>1, <1>2, <1>3, <1>4, <1>5, <1>6, <1>7, <1>8, <1>9, <1>10 DEF Next, Sidecar

\* Every step of the system is legal, and the loop never meets a READY run.
LEMMA NextLegal == TInv /\ Next => (up' => Legal) /\ Started'
  BY BootLegal, PollLegal, ReadLegal, EndBatchLegal, JudgeLegal, VerifyLegal, InjectLegal,
     DeliverLegal, RescueLegal, LoopErrorLegal, DaemonLegal DEF Next, Sidecar

\* The invariant of this module.
LEMMA TInvKeeps == TInv /\ [Next]_vars => TInv'
<1> SUFFICES ASSUME TInv, [Next]_vars PROVE TInv' OBVIOUS
<1>1. (IInv /\ Alive)' BY StepKeeps DEF TInv
<1>2. CASE Next BY <1>1, <1>2, NextLegal, SettledKeeps DEF TInv
<1>3. CASE UNCHANGED vars BY <1>1, <1>3 DEF TInv, vars, Started, Settled
<1> QED BY <1>2, <1>3

-------------------------------------------------------------------------------
(* What was asked of transition_top_state, and of a human *)

\* The step leaves alone what is noted of refusals and of escalations.
Unasked(r, s) == s.held = r.held /\ s.refused = r.refused

\* So do the small steps of RunState.
LEMMA UnaskedSteps ==
    ASSUME NEW r \in Run
    PROVE  /\ \A top : Unasked(r, [r EXCEPT !.top = top])
           /\ \A top : Unasked(r, LeavingFor(r, top))
           /\ \A n : Unasked(r, [r EXCEPT !.reinj = n])
           /\ Unasked(r, MarkInjected(r))
           /\ Unasked(r, EventArrives(r))
           /\ \A n : Unasked(r, MoveTo(r, n))
           /\ Unasked(r, Verified(r))
           /\ Unasked(r, ChargeRetry(r))
<1>1. Unasked(r, ChargeRetry(r))
  <2> DEFINE a == r.attempt + 1
  <2> DEFINE u == r.used + 1
  <2>1. ChargeRetry(r) = [r EXCEPT !.attempt = a, !.used = u, !.granted = FALSE]
    BY DEF ChargeRetry
  <2> HIDE DEF a, u
  <2> QED BY <2>1 DEF Unasked, Run
<1> QED
  BY <1>1 DEF Unasked, LeavingFor, MarkInjected, EventArrives, MoveTo, Verified, Run

\* And one step after another.
LEMMA UnaskedTwice ==
    ASSUME NEW r, NEW s, NEW t, Unasked(r, s), Unasked(s, t)
    PROVE  Unasked(r, t)
  BY DEF Unasked

\* The start of the thread asks for nothing that is refused.
LEMMA BootUnasked == TInv /\ Boot => Unasked(run, run')
<1> SUFFICES ASSUME TInv, Boot PROVE Unasked(run, run') OBVIOUS
<1>1. run \in Run BY DEF TInv, IInv, Sound
<1>2. Attached \in Run /\ Unasked(run, Attached)
  BY <1>1, UnaskedSteps DEF Attached, Run, TopState
<1>3. Unasked(run, MarkInjected(Attached)) BY <1>2, UnaskedSteps, UnaskedTwice
<1>4. Unasked(run, Pause(run)) /\ Unasked(run, run)
  BY <1>1, UnaskedSteps DEF Pause, Unasked
<1> QED
  BY <1>2, <1>3, <1>4 DEF Boot, BootSeesCheckpoint, BootInjects, BootObserves, BootResumed,
     BootStranded, BootFails, Save

\* Nor does the top of the loop.
LEMMA PollUnasked == TInv /\ Poll => Unasked(run, run')
<1> SUFFICES ASSUME TInv, Poll PROVE Unasked(run, run') OBVIOUS
<1>1. run \in Run BY DEF TInv, IInv, Sound
<1>2. EventArrives(run) \in Run /\ Unasked(run, EventArrives(run))
  BY <1>1, EventTop, UnaskedSteps
<1>3. Unasked(run, EnterRecovery(EventArrives(run)))
  BY <1>2, UnaskedSteps, UnaskedTwice DEF EnterRecovery
<1>4. Unasked(run, EnterRecovery(run)) /\ Unasked(run, MarkInjected(run)) /\ Unasked(run, run)
  BY <1>1, UnaskedSteps DEF EnterRecovery, Unasked
<1> QED
  BY <1>3, <1>4 DEF Poll, Interrupt, DeliveryTimeout, IdleTimeout, OutageSeen, OutageRetry,
     RecoverFrom, Save

\* A refusal, in a text read on after the run paused or finished.
RefusedInBatch ==
    run'.held = run.held /\ pc = "batch" /\ run.top \in Stoppable /\ pc' = "off"

\* A state the table keeps from a recovery or a pause, past the start of the loop.
LEMMA RefusedTops ==
    ASSUME NEW top \in TopState \ {"READY"},
           \/ ~CanTransition(top, "RECOVERY_NEEDED")
           \/ ~CanTransition(top, "PAUSED_FOR_HUMAN")
    PROVE  top \in Stoppable /\ top \notin InAction
<1>1. top \in TopState /\ (top \in InAction => top \notin Stoppable) /\ (top \notin InAction => top \in Stoppable)
  BY DEF InAction, TopState, Stoppable, FinalStates
<1>2. top \notin InAction
  BY LegalPairs, ActionNotFinal
<1> QED BY <1>1, <1>2

\* Reading a checkpoint asks for nothing that is refused but in such a text.
LEMMA ReadUnasked == TInv /\ Read => Unasked(run, run') \/ RefusedInBatch
<1> SUFFICES ASSUME TInv, Read PROVE Unasked(run, run') \/ RefusedInBatch OBVIOUS
<1>1. run \in Run /\ run.top \in TopState BY DEF TInv, IInv, Sound, Run
<1>2. pc \in {"poll", "batch"} => run.top # "READY" BY DEF TInv, Started
<1>3. pc = "poll" => run.top \in InAction BY DEF TInv, IInv, Placed
<1>4. CASE Mismatch
  <2> DEFINE n == run.mism + 1
  <2> DEFINE r == [run EXCEPT !.mism = n]
  <2>1. n \in Nat BY <1>1 DEF Run
  <2>2. pc \in {"poll", "batch"} BY <1>4 DEF Mismatch, Reading
  <2>3. \/ Save(r)
        \/ RecoverFrom(r, "mismatch")
        \/ /\ ~CanTransition(r.top, "RECOVERY_NEEDED")
           /\ Save(Refused(r, "RECOVERY_NEEDED")) /\ pc' = "off"
    BY <1>4 DEF Mismatch, EndThread
  <2> HIDE DEF n
  <2>4. r \in Run /\ r.top = run.top /\ Unasked(run, r)
    BY <1>1, <2>1 DEF Run, Unasked
  <2> HIDE DEF r
  <2>5. Unasked(run, EnterRecovery(r))
    BY <2>4, UnaskedSteps, UnaskedTwice DEF EnterRecovery
  <2>6. CASE /\ ~CanTransition(r.top, "RECOVERY_NEEDED")
             /\ Save(Refused(r, "RECOVERY_NEEDED")) /\ pc' = "off"
    <3>1. Refused(r, "RECOVERY_NEEDED").held = r.held
      BY <2>4 DEF Refused, LeavingFor, Run
    <3>2. run.top \in Stoppable /\ run.top \notin InAction
      BY <1>1, <1>2, <2>2, <2>4, <2>6, RefusedTops
    <3> QED BY <1>3, <2>2, <2>4, <2>6, <3>1, <3>2 DEF RefusedInBatch, Save, Unasked
  <2> QED BY <2>3, <2>4, <2>5, <2>6 DEF Save, RecoverFrom
<1>5. CASE StaleObservation
  <2>1. pc \in {"poll", "batch"} /\ pc' = "off"
    BY <1>5 DEF StaleObservation, Reading, EndThread
  <2>2. \/ Save(Pause(run))
        \/ /\ ~CanTransition(run.top, "PAUSED_FOR_HUMAN")
           /\ Save(Refused(run, "PAUSED_FOR_HUMAN"))
    BY <1>5 DEF StaleObservation
  <2>3. Unasked(run, Pause(run)) BY <1>1, UnaskedSteps DEF Pause
  <2>4. CASE /\ ~CanTransition(run.top, "PAUSED_FOR_HUMAN")
             /\ Save(Refused(run, "PAUSED_FOR_HUMAN"))
    <3>1. Refused(run, "PAUSED_FOR_HUMAN").held = run.held
      BY <1>1 DEF Refused, LeavingFor, Run
    <3>2. run.top \in Stoppable /\ run.top \notin InAction
      BY <1>1, <1>2, <2>1, <2>4, RefusedTops
    <3> QED BY <1>3, <2>1, <2>4, <3>1, <3>2 DEF RefusedInBatch, Save
  <2> QED BY <2>2, <2>3, <2>4 DEF Save
<1>6. ASSUME NEW cp \in Reports, Accept(cp) PROVE Unasked(run, run')
  <2>1. Received(cp) \in Run /\ Received(cp).top = run.top
    BY <1>1, ReceivedTop DEF SameWork
  <2>2. Unasked(run, Received(cp))
    BY <1>1 DEF Received, ResetRecoveryTracking, Unasked, Run
  <2>3. run' = EventArrives(Received(cp)) BY <1>6 DEF Accept
  <2> QED BY <2>1, <2>2, <2>3, UnaskedSteps, UnaskedTwice
<1> QED BY <1>4, <1>5, <1>6 DEF Read

\* The end of a text, an injection, a delivery, a recovery and an exception do not.
LEMMA OthersUnasked ==
    ASSUME TInv, EndBatch \/ Inject \/ Deliver \/ Rescue \/ LoopError
    PROVE  Unasked(run, run')
<1>1. run \in Run BY DEF TInv, IInv, Sound
<1>2. /\ Unasked(run, run)
      /\ Unasked(run, MarkInjected(run)) /\ Unasked(run, Pause(run))
      /\ Unasked(run, EnterRecovery(run)) /\ Unasked(run, Verified(run))
  BY <1>1, UnaskedSteps DEF Pause, EnterRecovery, Unasked
<1>3. CASE EndBatch BY <1>2, <1>3 DEF EndBatch, Save
<1>4. CASE Inject BY <1>2, <1>4 DEF Inject, Save
<1>5. CASE Deliver
  BY <1>2, <1>5 DEF Deliver, Delivered, DeliveryFails, HandoffFails, RecoverFrom, Save
<1>6. CASE AutoIntervene
  <2> DEFINE autos == run.autos + 1
  <2> DEFINE g == run.granted \/ pc = "rescue"
  <2>1. run' = [run EXCEPT !.autos = autos, !.top = "RUNNING", !.pre = "none",
                           !.granted = g]
    BY <1>6 DEF AutoIntervene, Save
  <2> HIDE DEF autos, g
  <2> QED BY <1>1, <2>1 DEF Unasked, Run
<1>7. CASE GiveUp \/ StayPaused BY <1>2, <1>7 DEF GiveUp, StayPaused, Save
<1>8. CASE LoopError BY <1>2, <1>8 DEF LoopError, Save
<1> QED BY <1>3, <1>4, <1>5, <1>6, <1>7, <1>8 DEF Rescue

\* What the handling of a checkpoint makes of a run does not, however it goes on.
LEMMA WaysOnUnasked ==
    ASSUME NEW r \in Run,
           \/ InjectIfNeeded(r) \/ NextCheckpoint(r) \/ RetryOrPause(r)
           \/ PauseForGood(r) \/ PauseQuoting(r)
    PROVE  Unasked(r, run')
<1>1. Unasked(r, r) /\ Unasked(r, Pause(r)) /\ Unasked(r, [r EXCEPT !.top = "RUNNING"])
  BY UnaskedSteps DEF Pause, Unasked
<1> QED
  BY <1>1 DEF InjectIfNeeded, Compose, NextCheckpoint, RetryOrPause, PauseExhausted,
     PauseForGood, PauseQuoting, PauseFor

\* An escalation in the gate's own words is noted, and pauses the run.
HeldInPause ==
    /\ run'.refused = run.refused
    /\ run'.top = "PAUSED_FOR_HUMAN" /\ pc' = "batch"

\* Every decision of the gate leaves the notes alone but that one.
LEMMA JudgeUnasked == TInv /\ Judge => Unasked(run, run') \/ HeldInPause
<1> SUFFICES ASSUME TInv, Judge PROVE Unasked(run, run') \/ HeldInPause OBVIOUS
<1>1. run \in Run BY DEF TInv, IInv, Sound
<1> DEFINE r0 == [run EXCEPT !.reinj = 0]
<1>2. r0 \in Run /\ Unasked(run, r0) BY <1>1, SameWorkReInject, UnaskedSteps DEF SameWork
<1>3. ASSUME NEW d, Continue(d) PROVE Unasked(run, run')
  <2> DEFINE r == [run EXCEPT !.reinj = 0, !.top = "RUNNING"]
  <2>1. r \in Run /\ Unasked(run, r) /\ Unasked(r, r) BY <1>1 DEF Unasked, Run, TopState
  <2>2. run' = r \/ InjectIfNeeded(r) BY <1>3 DEF Continue
  <2> HIDE DEF r
  <2> QED BY <2>1, <2>2, WaysOnUnasked, UnaskedTwice
<1>4. ASSUME NEW d, VerifyStep(d) PROVE Unasked(run, run')
  BY <1>1, <1>4 DEF VerifyStep, Unasked, Run
<1>5. ASSUME NEW d, ReInject(d) PROVE Unasked(run, run')
  <2> DEFINE n == IF run.reinj <= MaxReInjects THEN run.reinj + 1 ELSE run.reinj
  <2> DEFINE r == CountReInject(run)
  <2>1. r = [run EXCEPT !.reinj = n] /\ n \in Nat BY <1>1 DEF CountReInject, Run
  <2>2. run' = Pause(r) \/ run' = r BY <1>5 DEF ReInject, Compose, NextCheckpoint
  <2> HIDE DEF n, r
  <2>3. r \in Run /\ Unasked(run, r) BY <1>1, <2>1, SameWorkReInject, UnaskedSteps DEF SameWork
  <2>4. Unasked(r, Pause(r)) BY <2>3, UnaskedSteps DEF Pause
  <2> QED BY <2>2, <2>3, <2>4, UnaskedTwice
<1>6. ASSUME NEW d, Retry(d) PROVE Unasked(run, run')
  <2>1. RetryOrPause(ChargeRetry(r0)) BY <1>6 DEF Retry
  <2> HIDE DEF r0
  <2>2. ChargeRetry(r0) \in Run /\ Unasked(r0, ChargeRetry(r0))
    BY <1>2, ChargedRun, UnaskedSteps
  <2> QED BY <1>2, <2>1, <2>2, WaysOnUnasked, UnaskedTwice
<1>7. ASSUME NEW d, EscalateToHuman(d) PROVE Unasked(run, run') \/ HeldInPause
  <2> DEFINE h == [run EXCEPT !.held = TRUE]
  <2>1. h \in Run /\ h.refused = run.refused BY <1>1 DEF Run
  <2>2. PauseQuoting(run) \/ PauseForGood(h) BY <1>7 DEF EscalateToHuman
  <2> HIDE DEF h
  <2>3. CASE PauseQuoting(run) BY <1>1, <2>3, WaysOnUnasked
  <2>4. CASE PauseForGood(h)
    <3>1. Unasked(h, run') /\ run'.top = "PAUSED_FOR_HUMAN"
      BY <2>1, <2>4, WaysOnUnasked, PausesTop
    <3>2. pc' = "batch" BY <2>4 DEF PauseForGood, NextCheckpoint
    <3> QED BY <2>1, <3>1, <3>2 DEF HeldInPause, Unasked
  <2> QED BY <2>2, <2>3, <2>4
<1>8. ASSUME NEW n \in Nodes, Branch(n) PROVE Unasked(run, run')
  <2>1. MoveTo(run, n) \in Run /\ Unasked(run, MoveTo(run, n))
    BY <1>1, MovedRun, UnaskedSteps
  <2> QED BY <1>8, <2>1, WaysOnUnasked, UnaskedTwice DEF Branch
<1>9. CASE BranchUndecided BY <1>1, <1>9, WaysOnUnasked DEF BranchUndecided
<1> QED BY <1>3, <1>4, <1>5, <1>6, <1>7, <1>8, <1>9 DEF Judge

\* Every outcome of a verification does.
LEMMA VerifyUnasked == TInv /\ Verify => Unasked(run, run')
<1> SUFFICES ASSUME TInv, Verify PROVE Unasked(run, run') OBVIOUS
<1>1. run \in Run /\ run.node \in Nodes BY DEF TInv, IInv, Sound, Run
<1>2. ASSUME NEW extras, VerifyPasses(extras) PROVE Unasked(run, run')
  <2> DEFINE v == Verified(run)
  <2> DEFINE next == NextNode(run.node)
  <2>1. v \in Run /\ Unasked(run, v) BY <1>1, VerifiedRun, UnaskedSteps
  <2>2. \/ next # NoNode /\ InjectIfNeeded(MoveTo(v, next))
        \/ NextCheckpoint([v EXCEPT !.top = "COMPLETED"])
        \/ PauseForGood(v) \/ PauseQuoting(v)
    BY <1>2 DEF VerifyPasses
  <2>3. next # NoNode => next \in Nodes BY <1>1, NextNodeFact
  <2> HIDE DEF v, next
  <2>4. next # NoNode => MoveTo(v, next) \in Run /\ Unasked(v, MoveTo(v, next))
    BY <2>1, <2>3, MovedRun, UnaskedSteps
  <2>5. Unasked(v, [v EXCEPT !.top = "COMPLETED"]) BY <2>1, UnaskedSteps
  <2> QED BY <2>1, <2>2, <2>4, <2>5, WaysOnUnasked, UnaskedTwice DEF NextCheckpoint
<1>3. CASE VerifyFails
  <2> DEFINE f == [run EXCEPT !.verdict = "failed"]
  <2>1. f \in Run /\ Unasked(run, f) BY <1>1 DEF Unasked, Run
  <2>2. RetryOrPause(ChargeRetry(f)) BY <1>3 DEF VerifyFails
  <2> HIDE DEF f
  <2>3. ChargeRetry(f) \in Run /\ Unasked(f, ChargeRetry(f)) BY <2>1, ChargedRun, UnaskedSteps
  <2> QED BY <2>1, <2>2, <2>3, WaysOnUnasked, UnaskedTwice
<1> QED BY <1>2, <1>3 DEF Verify

\* A step of the thread: the notes stay, but for a refusal and for an escalation.
LEMMA SidecarUnasked ==
    TInv /\ Sidecar => Unasked(run, run') \/ RefusedInBatch \/ (Judge /\ HeldInPause)
  BY BootUnasked, PollUnasked, ReadUnasked, JudgeUnasked, VerifyUnasked, OthersUnasked
     DEF Sidecar

\* The daemon's operations note no refusal, unless the daemon is gone.
LEMMA DaemonUnasked ==
    ASSUME TInv, Daemon
    PROVE  /\ up' => (run'.refused => run.refused)
           /\ run'.held => run.held
<1>1. run \in Run /\ disk \in Run BY DEF TInv, IInv, Sound
<1>2. pc = "off" => run = disk BY DEF TInv, Settled
<1>3. CASE Stop \/ Reap BY <1>3 DEF Stop, Reap
<1>4. CASE Resume
  <2>1. run = disk /\ run' = Resumed(disk) BY <1>2, <1>4 DEF Resume, Save
  <2>2. CASE disk.top # "PAUSED_FOR_HUMAN" BY <2>1, <2>2 DEF Resumed
  <2>3. CASE disk.top = "PAUSED_FOR_HUMAN"
    <3>1. ~Resumed(disk).held /\ ~Resumed(disk).refused BY <1>1, <2>3 DEF Resumed, Run
    <3> QED BY <2>1, <3>1
  <2> QED BY <2>2, <2>3
<1>5. CASE DaemonCrash BY <1>1, <1>5 DEF DaemonCrash, Save, Run
<1>6. CASE DaemonStart
  <2>1. run = disk BY <1>2, <1>6 DEF DaemonStart, TInv, Alive
  <2> QED BY <1>1, <1>6, <2>1 DEF DaemonStart, Save, Run
<1>7. ASSUME NEW reviewer, NEW extras, AckReview(reviewer, extras)
      PROVE  Unasked(run, run')
  <2> DEFINE reviews == disk.reviews \cup {reviewer}
  <2> DEFINE r == [disk EXCEPT !.reviews = reviews]
  <2>1. run' = r \/ run' = [r EXCEPT !.top = "COMPLETED"] BY <1>7 DEF AckReview, Save
  <2>2. run = disk BY <1>2, <1>7 DEF AckReview
  <2> HIDE DEF reviews
  <2> QED BY <1>1, <2>1, <2>2 DEF Unasked, Run
<1> QED BY <1>3, <1>4, <1>5, <1>6, <1>7 DEF Daemon, Unasked

\* Every change of the top state that a step makes is one the table allows, and a
\* change is asked for and refused only in a text that is read on after the run paused
\* or finished, and then the thread ends: not after a recovery inside a text, a resume
\* of whatever was saved, an acknowledged review or a restart (state_machine.py,
\* loop.py, server.py).
THEOREM TransitionsAreLegal == Spec => LegalMoves
<1>1. Init => TInv BY InitIInv DEF Init, TInv, Alive, Started, Settled
<1>2. TInv /\ [Next]_vars => TInv' BY TInvKeeps
<1> DEFINE Asked ==
      run'.refused =>
         run.refused \/ (pc = "batch" /\ run.top \in Stoppable /\ pc' = "off")
<1>3. TInv /\ Next => (up' => CanTransition(run.top, run'.top) /\ Asked)
  <2> SUFFICES ASSUME TInv, Next, up' PROVE CanTransition(run.top, run'.top) /\ Asked
    OBVIOUS
  <2>1. Legal BY NextLegal
  <2>2. CASE Sidecar
    BY <2>1, <2>2, SidecarUnasked DEF Legal, Unasked, RefusedInBatch, HeldInPause
  <2>3. CASE Daemon BY <2>1, <2>3, DaemonUnasked DEF Legal
  <2> QED BY <2>2, <2>3 DEF Next
<1>4. TInv /\ [Next]_vars => [up' => CanTransition(run.top, run'.top) /\ Asked]_run
  <2> SUFFICES ASSUME TInv, [Next]_vars
               PROVE  (up' => CanTransition(run.top, run'.top) /\ Asked) \/ UNCHANGED run
    OBVIOUS
  <2>1. CASE Next BY <1>3, <2>1
  <2>2. CASE UNCHANGED vars BY <2>2 DEF vars
  <2> QED BY <2>1, <2>2
<1> QED BY <1>1, <1>2, <1>4, PTL DEF Spec, LegalMoves

-------------------------------------------------------------------------------
(* A human was asked *)

\* A run that was put before a human has no thread but one that reads on, and is
\* paused or finished, or, after a crash, saved in a state the restart parks.
HeldStays ==
    run.held =>
        /\ pc \in {"batch", "off"}
        /\ run.top \in {"PAUSED_FOR_HUMAN", "COMPLETED"} \/ (~up /\ run.top \in Orphaned)

\* Past its start, a thread has saved the run as attached.
SavedStarted == pc \notin {"off", "boot"} => disk.top # "READY"

\* The thread's steps keep that.
LEMMA SavedStartedKeeps == TInv /\ SavedStarted /\ Next => SavedStarted'
<1> SUFFICES ASSUME TInv, SavedStarted, Next, pc' \notin {"off", "boot"}
             PROVE  disk'.top # "READY"
  BY DEF SavedStarted
<1>1. run \in Run /\ disk \in Run BY DEF TInv, IInv, Sound
<1>2. pc \notin {"off", "boot"} => disk.top # "READY" BY DEF SavedStarted
<1>3. CASE Boot
  <2>1. Attached \in Run /\ Attached.top = "ATTACHED" BY <1>1 DEF Attached, Run, TopState
  <2>2. MarkInjected(Attached).top = "ATTACHED" BY <2>1, SameWorkInjected
  <2>3. run = disk BY <1>3 DEF TInv, Settled, Boot, BootSeesCheckpoint, BootInjects,
                                BootObserves, BootResumed, BootStranded, BootFails
  <2> QED
    BY <1>3, <2>1, <2>2, <2>3 DEF Boot, BootSeesCheckpoint, BootInjects, BootObserves,
       BootResumed, BootStranded, BootFails, EndThread, Save
<1>4. CASE Sidecar /\ pc \notin {"off", "boot"}
  <2>1. MarkInjected(run).top = run.top BY <1>1, SameWorkInjected
  <2>2. \A n : [run EXCEPT !.mism = n].top = run.top BY <1>1 DEF Run
  <2>3. disk' = disk \/ disk'.top \in {run.top, "RUNNING"}
    <3>1. ~Boot
      BY <1>4 DEF Boot, BootSeesCheckpoint, BootInjects, BootObserves, BootResumed,
                  BootStranded, BootFails
    <3>2. CASE Poll
      BY <2>1, <3>2 DEF Poll, Interrupt, DeliveryTimeout, IdleTimeout, OutageSeen,
                        OutageRetry, Save
    <3>3. CASE Read
      BY <2>2, <3>3 DEF Read, Mismatch, StaleObservation, Accept, EndThread, Save
    <3>4. CASE EndBatch BY <2>1, <3>4 DEF EndBatch, Save
    <3>5. CASE Judge \/ Verify
      BY <3>5 DEF Judge, Continue, VerifyStep, ReInject, Retry, EscalateToHuman, Branch,
                  BranchUndecided, Verify, VerifyPasses, VerifyFails, RetryOrPause,
                  PauseExhausted, PauseQuoting, PauseForGood, PauseFor, InjectIfNeeded,
                  Compose, NextCheckpoint
    <3>6. CASE Inject BY <2>1, <3>6 DEF Inject, Save
    <3>7. CASE Deliver
      BY <3>7 DEF Deliver, Delivered, DeliveryFails, HandoffFails, EndThread, Save
    <3>8. CASE Rescue
      <4> DEFINE autos == run.autos + 1
      <4> DEFINE g == run.granted \/ pc = "rescue"
      <4>1. [run EXCEPT !.autos = autos, !.top = "RUNNING", !.pre = "none",
                        !.granted = g].top = "RUNNING"
        <5> HIDE DEF autos, g
        <5> QED BY <1>1 DEF Run
      <4> QED BY <3>8, <4>1 DEF Rescue, AutoIntervene, GiveUp, StayPaused, EndThread, Save
    <3>9. ~LoopError BY DEF LoopError, EndThread
    <3> QED BY <1>4, <3>1, <3>2, <3>3, <3>4, <3>5, <3>6, <3>7, <3>8, <3>9 DEF Sidecar
  <2>4. pc \in {"poll", "batch", "decide", "verify", "inject", "deliver", "recover", "rescue"}
    <3>1. ~LoopError BY DEF LoopError, EndThread
    <3> QED
      BY <1>4, <3>1 DEF Sidecar, Boot, BootSeesCheckpoint, BootInjects, BootObserves,
         BootResumed, BootStranded, BootFails, Poll, Interrupt, DeliveryTimeout,
         IdleTimeout, OutageSeen, OutageRetry, Read, Mismatch, StaleObservation, Accept,
         Reading, EndBatch, Judge, Continue, VerifyStep, ReInject, Retry, EscalateToHuman,
         Decided, Answers, Branch, BranchUndecided, Verify, VerifyPasses, VerifyFails,
         Inject, Deliver, Delivered, DeliveryFails, HandoffFails, Rescue, AutoIntervene,
         GiveUp, StayPaused
  <2>5. run.top # "READY"
    BY <2>4 DEF TInv, IInv, Started, Placed
  <2> QED BY <1>2, <1>4, <2>3, <2>5
<1>5. CASE Daemon
  BY <1>2, <1>5 DEF Daemon, Stop, Reap, Resume, DaemonCrash, DaemonStart, AckReview,
                    EndThread, TInv, Alive
<1>6. Sidecar /\ pc \in {"off", "boot"} => Boot
  BY DEF Sidecar, Poll, Interrupt, DeliveryTimeout, IdleTimeout, OutageSeen, OutageRetry,
         Read, Mismatch, StaleObservation, Accept, Reading, EndBatch, Judge, Continue,
         VerifyStep, ReInject, Retry, EscalateToHuman, Decided, Answers, Branch,
         BranchUndecided, Verify, VerifyPasses, VerifyFails, Inject, Deliver, Delivered,
         DeliveryFails, HandoffFails, Rescue, AutoIntervene, GiveUp, StayPaused, LoopError
<1> QED BY <1>3, <1>4, <1>5, <1>6 DEF Next

\* A text read on leaves a run that was put before a human paused or finished.
LEMMA ReadOnHeld ==
    ASSUME TInv, HeldStays, up, run.held, Sidecar
    PROVE  /\ pc' \in {"batch", "off"}
           /\ run'.top \in {"PAUSED_FOR_HUMAN", "COMPLETED"}
<1>1. run \in Run /\ pc \in {"batch", "off"} /\ run.top \in {"PAUSED_FOR_HUMAN", "COMPLETED"}
  BY DEF TInv, IInv, Sound, HeldStays
<1>2. Mismatch \/ StaleObservation \/ (\E cp \in Reports : Accept(cp)) \/ EndBatch \/ LoopError
  BY <1>1 DEF Sidecar, Boot, BootSeesCheckpoint, BootInjects, BootObserves, BootResumed,
     BootStranded, BootFails, Poll, Interrupt, DeliveryTimeout, IdleTimeout, OutageSeen,
     OutageRetry, Read, Judge, Continue, VerifyStep, ReInject, Retry, EscalateToHuman,
     Decided, Answers, Branch, BranchUndecided, Verify, VerifyPasses, VerifyFails, Inject,
     Deliver, Delivered, DeliveryFails, HandoffFails, Rescue, AutoIntervene, GiveUp,
     StayPaused
<1>3. CASE Mismatch
  <2> DEFINE n == run.mism + 1
  <2> DEFINE r == [run EXCEPT !.mism = n]
  <2>1. n \in Nat BY <1>1 DEF Run
  <2>2. \/ Save(r) /\ pc' = "batch"
        \/ CanTransition(r.top, "RECOVERY_NEEDED")
        \/ Save(Refused(r, "RECOVERY_NEEDED")) /\ pc' = "off"
    BY <1>3 DEF Mismatch, EndThread
  <2> HIDE DEF n
  <2>3. r \in Run /\ r.top = run.top BY <1>1, <2>1, SameWorkMismatch DEF SameWork
  <2> HIDE DEF r
  <2>4. Refused(r, "RECOVERY_NEEDED").top = run.top
    BY <2>3, SameWorkNotLeft DEF TopState
  <2>5. ~CanTransition(r.top, "RECOVERY_NEEDED")
    BY <1>1, <2>3 DEF CanTransition, AllowedTransitions, FinalStates
  <2> QED BY <1>1, <2>2, <2>3, <2>4, <2>5 DEF Save
<1>4. CASE StaleObservation
  <2>1. Refused(run, "PAUSED_FOR_HUMAN").top = run.top
    BY <1>1, SameWorkNotLeft DEF TopState
  <2>2. Pause(run).top = "PAUSED_FOR_HUMAN" BY <1>1, SameWorkLeaving DEF Pause, TopState
  <2> QED BY <1>1, <1>4, <2>1, <2>2 DEF StaleObservation, EndThread, Save
<1>5. ASSUME NEW cp \in Reports, Accept(cp)
      PROVE  pc' \in {"batch", "off"} /\ run'.top \in {"PAUSED_FOR_HUMAN", "COMPLETED"}
  <2>1. Received(cp) \in Run /\ Received(cp).top = run.top
    BY <1>1, ReceivedTop DEF SameWork
  <2>2. EventArrives(Received(cp)).top = run.top
    BY <1>1, <2>1 DEF EventArrives, GatedByEvent, Run
  <2> QED BY <1>1, <1>5, <2>2 DEF Accept
<1>6. CASE EndBatch
  <2>1. Save(run) /\ pc' = "off"
    BY <1>1, <1>6 DEF EndBatch, EndThread, LoopStates, Stoppable, FinalStates
  <2> QED BY <1>1, <2>1 DEF Save
<1>7. CASE LoopError BY <1>1, <1>7 DEF LoopError, EndThread, Save
<1> QED BY <1>2, <1>3, <1>4, <1>5, <1>6, <1>7

\* The daemon's operations leave it so, a crash and a restart included.
LEMMA DaemonHeld == TInv /\ HeldStays /\ SavedStarted /\ Daemon => HeldStays'
<1> SUFFICES ASSUME TInv, HeldStays, SavedStarted, Daemon, run'.held PROVE HeldStays'
  BY DEF HeldStays
<1>1. /\ run \in Run /\ disk \in Run /\ disk.top \in TopState /\ run.held
      /\ disk.top \notin {"FAILED", "ABORTED"}
  BY DaemonUnasked DEF TInv, IInv, Sound, Unfailed, Run
<1>2. pc = "off" => run = disk BY DEF TInv, Settled
<1>3. /\ pc \in {"batch", "off"}
      /\ run.top \in {"PAUSED_FOR_HUMAN", "COMPLETED"} \/ (~up /\ run.top \in Orphaned)
  BY <1>1 DEF HeldStays
<1>4. CASE Stop \/ Reap BY <1>3, <1>4 DEF Stop, Reap, HeldStays
<1>5. ~Resume
  <2> SUFFICES ASSUME Resume PROVE FALSE OBVIOUS
  <2>1. run' = Resumed(disk) /\ disk.top = "PAUSED_FOR_HUMAN"
    BY <1>2, <1>3 DEF Resume, Resumable, Save
  <2>2. ~Resumed(disk).held BY <1>1, <2>1 DEF Resumed, Run
  <2> QED BY <2>1, <2>2
<1>6. CASE DaemonCrash
  <2>1. run'.top = disk.top /\ pc' = "off" /\ ~up'
    BY <1>1, <1>6 DEF DaemonCrash, Save, EndThread, Run
  <2>2. disk.top # "READY"
    BY <1>2, <1>3, <1>6 DEF SavedStarted, DaemonCrash, Orphaned
  <2>3. disk.top \in {"PAUSED_FOR_HUMAN", "COMPLETED"} \cup Orphaned
    BY <1>1, <2>2 DEF TopState, FinalStates, Orphaned
  <2> QED BY <2>1, <2>3 DEF HeldStays
<1>7. CASE DaemonStart
  <2>1. pc = "off" /\ pc' = "off" /\ run = disk
    BY <1>2, <1>7 DEF DaemonStart, TInv, Alive
  <2>2. CASE disk.top \in Orphaned
    BY <1>1, <1>7, <2>1, <2>2 DEF DaemonStart, Save, HeldStays, Run
  <2>3. CASE disk.top \notin Orphaned
    BY <1>3, <1>7, <2>1, <2>3 DEF DaemonStart, Save, HeldStays
  <2> QED BY <2>2, <2>3
<1>8. ASSUME NEW reviewer, NEW extras, AckReview(reviewer, extras) PROVE HeldStays'
  <2> DEFINE reviews == disk.reviews \cup {reviewer}
  <2> DEFINE r == [disk EXCEPT !.reviews = reviews]
  <2>1. /\ run' = r \/ run' = [r EXCEPT !.top = "COMPLETED"]
        /\ pc = "off" /\ pc' = "off" /\ up /\ up' = up
    BY <1>8 DEF AckReview, Save, daemon
  <2> HIDE DEF reviews
  <2>2. run'.top \in {disk.top, "COMPLETED"} BY <1>1, <2>1 DEF Run
  <2> QED BY <1>2, <1>3, <2>1, <2>2 DEF HeldStays
<1> QED BY <1>4, <1>5, <1>6, <1>7, <1>8 DEF Daemon

\* A run the gate has put before a human in words of its own - an authorization, a
\* review, a contradiction, a blocked worker, an escalation pattern - stays with the
\* human until it is resumed, whatever the worker prints on and wherever the daemon
\* dies (gate(), apply_decision, _attempt_auto_intervention in loop.py,
\* _recover_orphaned_runs in server.py).
THEOREM EscalationsStand == Spec => []EscalationStands
<1>1. Init => TInv /\ HeldStays /\ SavedStarted
  BY InitIInv DEF Init, TInv, Alive, Started, Settled, HeldStays, SavedStarted, NewRun
<1>2. (TInv /\ HeldStays /\ SavedStarted) /\ [Next]_vars
         => (TInv /\ HeldStays /\ SavedStarted)'
  <2> SUFFICES ASSUME TInv, HeldStays, SavedStarted, [Next]_vars
               PROVE  HeldStays' /\ SavedStarted'
    BY TInvKeeps
  <2>1. CASE Sidecar
    <3>1. up /\ up' = up
      BY <2>1, SidecarActs DEF TInv, Alive, daemon
    <3>2. ASSUME run.held PROVE HeldStays'
      BY <2>1, <3>1, <3>2, ReadOnHeld DEF HeldStays
    <3>3. ASSUME ~run.held PROVE HeldStays'
      BY <2>1, <3>3, SidecarUnasked
         DEF Unasked, RefusedInBatch, HeldInPause, HeldStays
    <3> QED BY <2>1, <3>2, <3>3, SavedStartedKeeps DEF Next
  <2>2. CASE Daemon BY <2>2, DaemonHeld, SavedStartedKeeps DEF Next
  <2>3. CASE UNCHANGED vars BY <2>3 DEF vars, HeldStays, SavedStarted
  <2> QED BY <2>1, <2>2, <2>3 DEF Next
<1>3. HeldStays => EscalationStands BY DEF HeldStays, EscalationStands
<1> QED BY <1>1, <1>2, <1>3, PTL DEF Spec
-------------------------------------------------------------------------------
(* The contract *)

\* Memory is ahead of the disk by no review and by at most one node.  While it is, the
\* current node is not accepted anew: it is done, or a decision, or about to be saved.
Linked ==
    /\ run.reviews = disk.reviews
    /\ \/ run.done = disk.done
       \/ /\ \E n \in Nodes : run.done = disk.done \cup {n}
          /\ pc = "inject" \/ run.node \in run.done \cup DecisionNodes

\* The worker was told of no node but the current one, one that is done or a decision.
Told(r) == r.injNode \in {r.node, NoNode} \cup r.done \cup DecisionNodes

\* A thread whose disk shows a pause or an end is only reading on.
Shown ==
    (pc # "off" /\ disk.top \in Stoppable) =>
        pc = "batch" /\ run.top = disk.top /\ run.done = disk.done

Ahead == Linked /\ Told(run) /\ Told(disk) /\ Shown

RInv == TInv /\ Ahead

\* A step of the contract, or none.
Kept == [Contract!ContractNext]_(Contract!contract)

-------------------------------------------------------------------------------
(* The kinds of step the thread takes *)

\* s is r after a step of the work: at most the current node is accepted.
Worked(r, s) ==
    /\ s.reviews = r.reviews
    /\ \/ s.done = r.done
       \/ r.node \notin DecisionNodes /\ s.done = r.done \cup {r.node}
    /\ Told(s)

\* What leaves the work alone is such a step.
LEMMA SameWorkWorked ==
    ASSUME NEW r, NEW s, SameWork(r, s), Told(r)
    PROVE  Worked(r, s) /\ s.done = r.done /\ s.node = r.node
  BY DEF SameWork, Worked, Told

\* What the operator is shown for each top state.
LEMMA StatusOpen ==
    ASSUME NEW r, r.top \in TopState
    PROVE  /\ ContractStatus(r) \in {"open", "paused", "closed"}
           /\ ContractStatus(r) = "open" <=> r.top \notin Stoppable
           /\ ContractStatus(r) = "paused" <=> r.top = "PAUSED_FOR_HUMAN"
           /\ ContractStatus(r) = "closed" <=> r.top \in FinalStates
<1>1. CASE r.top \in FinalStates
  BY <1>1 DEF ContractStatus, Stoppable, FinalStates
<1>2. CASE r.top = "PAUSED_FOR_HUMAN"
  BY <1>2 DEF ContractStatus, Stoppable, FinalStates
<1>3. CASE r.top \notin Stoppable
  BY <1>3 DEF ContractStatus, Stoppable, FinalStates
<1> QED BY <1>1, <1>2, <1>3 DEF Stoppable

\* A sound run that shows itself closed has met what the contract asks for.
LEMMA ClosedMeetsContract ==
    ASSUME NEW r, Sound(r), ContractStatus(r) = "closed"
    PROVE  /\ (IF RequireAll /\ Kind = "linear_plan" THEN Nodes ELSE {}) \subseteq r.done
           /\ ReviewMet(r.reviews)
<1>1. r.top = "COMPLETED"
  BY StatusOpen DEF Sound, Run, Unfailed, FinalStates
<1>2. Kind = "linear_plan" => Kind # "conditional_workflow" OBVIOUS
<1> QED BY <1>1, <1>2 DEF Sound, Earned, RequiredNodes

\* The owner of an open run saves: a step of Work.
LEMMA OwnerSaves ==
    ASSUME RInv, IInv', pc # "off", disk.top \notin Stoppable,
           disk'.reviews = disk.reviews,
           \/ disk'.done = disk.done
           \/ \E n \in Nodes : disk'.done = disk.done \cup {n}
    PROVE  Kept
<1>1. /\ Sound(disk') /\ disk'.top \in TopState
      /\ disk.top \in TopState /\ run.node \in Nodes
  BY DEF RInv, TInv, IInv, Sound, Run
<1>2. ContractStatus(disk) = "open" BY <1>1, StatusOpen
<1>3. ContractStatus(disk') \in {"open", "paused", "closed"} BY <1>1, StatusOpen
<1>4. ContractStatus(disk') = "closed" =>
        /\ (IF RequireAll /\ Kind = "linear_plan" THEN Nodes ELSE {}) \subseteq disk'.done
        /\ ReviewMet(disk'.reviews)
  BY <1>1, ClosedMeetsContract
<1>5. (pc # "off")' \in BOOLEAN OBVIOUS
<1>6. Contract!Work
  BY <1>1, <1>2, <1>3, <1>4, <1>5 DEF Contract!Work, Contract!MayClose
<1> QED BY <1>6 DEF Kept, Contract!ContractNext

\* What the operator is shown stays as it was: the owner leaves, or nothing happens.
LEMMA NothingShown ==
    ASSUME ContractStatus(disk') = ContractStatus(disk),
           disk'.done = disk.done, disk'.reviews = disk.reviews,
           pc = "off" => pc' = "off"
    PROVE  Kept
<1>1. CASE (pc # "off") = (pc' # "off")
  BY <1>1 DEF Kept, Contract!contract
<1>2. CASE pc # "off" /\ pc' = "off"
  BY <1>2 DEF Kept, Contract!ContractNext, Contract!Leave
<1> QED BY <1>1, <1>2

\* After a step of the work memory is still ahead by one node at most, and then the
\* node that was current is not accepted anew.
LEMMA OneAhead ==
    ASSUME RInv, NEW s, Worked(run, s), pc # "inject"
    PROVE  \/ s.done = disk.done
           \/ /\ \E n \in Nodes : s.done = disk.done \cup {n}
              /\ run.node \in s.done \cup DecisionNodes
<1>1. run.node \in Nodes BY DEF RInv, TInv, IInv, Sound, Run
<1>2. CASE run.done = disk.done BY <1>1, <1>2 DEF Worked
<1>3. CASE run.done # disk.done
  <2>1. run.node \in run.done \cup DecisionNodes
    BY <1>3 DEF RInv, Ahead, Linked
  <2>2. s.done = run.done BY <2>1 DEF Worked
  <2> QED BY <1>3, <2>1, <2>2 DEF RInv, Ahead, Linked
<1> QED BY <1>2, <1>3

\* A step in memory alone.
LEMMA MemoryStep ==
    ASSUME RInv, pc \notin {"off", "inject"}, disk.top \notin Stoppable,
           pc' # "off", disk' = disk, Worked(run, run'), run'.node = run.node
    PROVE  Ahead' /\ Kept
<1>1. Kept BY NothingShown
<1>2. Linked'
  <2>1. run'.reviews = disk'.reviews BY DEF RInv, Ahead, Linked, Worked
  <2> QED BY <2>1, OneAhead DEF Linked
<1>3. Told(run)' /\ Told(disk)' BY DEF RInv, Ahead, Worked, Told
<1>4. Shown' BY DEF RInv, Ahead, Shown
<1> QED BY <1>1, <1>2, <1>3, <1>4 DEF Ahead

\* A step that saves, for a run still open on disk: d is what is saved, s what is
\* kept in memory.
LEMMA SavingStep ==
    ASSUME NEW d, NEW s, RInv, IInv', pc # "off", disk.top \notin Stoppable,
           disk' = d, run' = s, Worked(run, d), Told(s),
           s.reviews = d.reviews, s.done = d.done,
           pc = "inject" => d.done = run.done,
           d.top \in Stoppable /\ pc' # "off" => pc' = "batch" /\ s.top = d.top
    PROVE  Ahead' /\ Kept
<1>1. disk'.reviews = disk.reviews
  BY DEF RInv, Ahead, Linked, Worked
<1>2. \/ disk'.done = disk.done
      \/ \E n \in Nodes : disk'.done = disk.done \cup {n}
  <2>1. CASE pc = "inject" BY <2>1 DEF RInv, Ahead, Linked
  <2>2. CASE pc # "inject" BY <2>2, OneAhead
  <2> QED BY <2>1, <2>2
<1>3. Kept BY <1>1, <1>2, OwnerSaves
<1>4. Linked' BY DEF Linked
<1>5. Told(run)' /\ Told(disk)' BY DEF Worked, Told
<1>6. Shown' BY DEF Shown
<1> QED BY <1>3, <1>4, <1>5, <1>6 DEF Ahead

\* A step while the disk shows a pause or an end already: the text is read on.
LEMMA ReadingOn ==
    ASSUME RInv, pc # "off", disk.top \in Stoppable,
           SameWork(run, run'), run'.top = run.top,
           disk' \in {disk, run'},
           pc' = "batch" \/ (pc' = "off" /\ disk' = run')
    PROVE  Ahead' /\ Kept
<1>1. run.top = disk.top /\ run.done = disk.done /\ run.reviews = disk.reviews
  BY DEF RInv, Ahead, Shown, Linked
<1>2. run'.top = disk.top /\ run'.done = disk.done /\ run'.reviews = disk.reviews
      /\ Told(run')
  BY <1>1 DEF SameWork, RInv, Ahead, Told
<1>3. disk'.top = disk.top /\ disk'.done = disk.done /\ disk'.reviews = disk.reviews
  BY <1>1, <1>2
<1>4. Kept BY <1>3, NothingShown DEF ContractStatus
<1>5. Linked' BY <1>2, <1>3 DEF Linked
<1>6. Told(run)' /\ Told(disk)' BY <1>2 DEF RInv, Ahead, Told
<1>7. Shown' BY <1>2, <1>3 DEF Shown
<1> QED BY <1>4, <1>5, <1>6, <1>7 DEF Ahead

-------------------------------------------------------------------------------
(* The thread's actions *)

\* Past its reading, the thread's run is open on disk.
LEMMA OpenOnDisk ==
    ASSUME RInv, pc \notin {"off", "batch"}
    PROVE  disk.top \notin Stoppable
  BY DEF RInv, Ahead, Shown

\* What every action may use.
LEMMA RFacts ==
    ASSUME RInv
    PROVE  /\ run \in Run /\ run.top \in TopState /\ run.node \in Nodes
           /\ SameWork(run, run) /\ Worked(run, run)
           /\ Told(run)
<1>1. run \in Run /\ run.top \in TopState /\ run.node \in Nodes
  BY DEF RInv, TInv, IInv, Sound, Run
<1>2. SameWork(run, run) BY <1>1 DEF SameWork
<1>3. Told(run) BY DEF RInv, Ahead
<1> QED BY <1>1, <1>2, <1>3, SameWorkWorked

\* Saving a run whose work is as it was.
LEMMA SaveSame ==
    ASSUME NEW r, RInv, IInv', pc # "off", disk.top \notin Stoppable,
           SameWork(run, r), Save(r),
           r.top \in Stoppable => pc' \in {"batch", "off"}
    PROVE  Ahead' /\ Kept
<1>1. Worked(run, r) /\ r.done = run.done BY RFacts, SameWorkWorked
<1>2. Told(r) BY <1>1 DEF Worked
<1> QED BY <1>1, <1>2, SavingStep DEF Save

\* Keeping such a run in memory.
LEMMA KeepSame ==
    ASSUME NEW r, RInv, pc \notin {"off", "inject"}, disk.top \notin Stoppable,
           SameWork(run, r), run' = r, disk' = disk, pc' # "off"
    PROVE  Ahead' /\ Kept
<1>1. Worked(run, run') /\ run'.node = run.node BY RFacts, SameWorkWorked
<1> QED BY <1>1, MemoryStep

\* The start of the thread.
LEMMA BootKept == RInv /\ IInv' /\ Boot => Ahead' /\ Kept
<1> SUFFICES ASSUME RInv, IInv', Boot PROVE Ahead' /\ Kept OBVIOUS
<1>1. pc = "boot" /\ disk.top \notin Stoppable
  BY OpenOnDisk DEF Boot, BootSeesCheckpoint, BootInjects, BootObserves, BootResumed,
                    BootStranded, BootFails
<1>2. run = disk BY <1>1 DEF RInv, TInv, Settled
<1>3. SameWork(run, Attached) /\ Attached.top = "ATTACHED"
  BY RFacts, SameWorkTop DEF Attached, TopState
<1>4. SameWork(run, MarkInjected(Attached)) /\ MarkInjected(Attached).top = "ATTACHED"
  <2>1. SameWork(Attached, MarkInjected(Attached)) /\ MarkInjected(Attached).top = "ATTACHED"
    BY <1>3, SameWorkInjected DEF SameWork
  <2> QED BY <1>3, <2>1, SameWorkTwice
<1>5. CASE BootSeesCheckpoint
  <2> DEFINE d == Attached
  <2> DEFINE s == MarkInjected(Attached)
  <2>1. disk' = d /\ run' = s /\ pc' = "poll" BY <1>5 DEF BootSeesCheckpoint
  <2>2. Worked(run, d) /\ Told(s) /\ s.reviews = d.reviews /\ s.done = d.done
    BY <1>3, <1>4, RFacts, SameWorkWorked DEF SameWork, Worked
  <2>3. d.top \notin Stoppable BY <1>3 DEF Stoppable, FinalStates
  <2> HIDE DEF d, s
  <2> QED BY <1>1, <2>1, <2>2, <2>3, SavingStep
<1>6. CASE BootInjects
  BY <1>1, <1>4, <1>6, SaveSame DEF BootInjects, Stoppable, FinalStates
<1>7. CASE BootObserves
  BY <1>1, <1>3, <1>7, SaveSame DEF BootObserves, Stoppable, FinalStates
<1>8. CASE BootResumed
  BY <1>1, <1>8, RFacts, KeepSame DEF BootResumed
<1>9. CASE BootStranded
  BY <1>1, <1>9, RFacts, SameWorkLeaving, SaveSame
  DEF BootStranded, EndThread, Pause, TopState
<1>10. CASE BootFails
  <2>1. pc' = "off" BY <1>10 DEF BootFails, EndThread
  <2>2. CASE UNCHANGED <<run, disk>>
    BY <1>1, <1>2, <2>1, <2>2, RFacts, SaveSame DEF Save
  <2>3. CASE Save(Attached) BY <1>1, <1>3, <2>1, <2>3, SaveSame
  <2> QED BY <1>10, <2>2, <2>3 DEF BootFails
<1> QED BY <1>5, <1>6, <1>7, <1>8, <1>9, <1>10 DEF Boot

\* Entering a recovery from a run whose work is as it was, saved or not.
LEMMA RecoverFromKept ==
    ASSUME NEW r, NEW why, RInv, IInv', pc \notin {"off", "inject"},
           disk.top \notin Stoppable, SameWork(run, r), RecoverFrom(r, why),
           disk' = disk \/ (disk' = r /\ r.top \notin Stoppable)
    PROVE  Ahead' /\ Kept
<1> DEFINE s == EnterRecovery(r)
<1>1. run' = s /\ pc' = "recover" BY DEF RecoverFrom
<1>2. SameWork(r, s) /\ SameWork(run, s)
  BY SameWorkLeaving, SameWorkTwice DEF EnterRecovery, SameWork, TopState
<1> HIDE DEF s
<1>3. CASE disk' = disk BY <1>1, <1>2, <1>3, KeepSame
<1>4. CASE disk' = r /\ r.top \notin Stoppable
  <2>1. /\ Worked(run, r) /\ Told(s)
        /\ s.reviews = r.reviews /\ s.done = r.done /\ r.done = run.done
    BY <1>2, RFacts, SameWorkWorked DEF SameWork, Worked
  <2> QED BY <1>1, <1>4, <2>1, SavingStep
<1> QED BY <1>3, <1>4

\* The arrival of an event leaves the work alone.
LEMMA SameWorkEvent ==
    ASSUME NEW r \in Run
    PROVE  SameWork(r, EventArrives(r))
<1> DEFINE top == IF r.top \in GatedByEvent THEN "GATING" ELSE r.top
<1>1. top \in TopState BY DEF Run, TopState
<1> HIDE DEF top
<1>2. SameWork(r, [r EXCEPT !.top = top]) BY <1>1, SameWorkTop
<1> QED BY <1>2 DEF EventArrives, top

\* The top of the loop.
LEMMA PollKept == RInv /\ IInv' /\ Poll => Ahead' /\ Kept
<1> SUFFICES ASSUME RInv, IInv', Poll PROVE Ahead' /\ Kept OBVIOUS
<1>1. pc = "poll" /\ disk.top \notin Stoppable
  BY OpenOnDisk DEF Poll, Interrupt, DeliveryTimeout, IdleTimeout, OutageSeen, OutageRetry
<1>2. run.top \in LoopStates
  BY <1>1, InActionTops DEF RInv, TInv, IInv, Placed
<1>3. CASE Interrupt
  BY <1>1, <1>3, RFacts, SaveSame DEF Interrupt, EndThread
<1>4. CASE DeliveryTimeout
  BY <1>1, <1>4, RFacts, RecoverFromKept DEF DeliveryTimeout
<1>5. CASE IdleTimeout
  BY <1>1, <1>5, RFacts, SameWorkEvent, RecoverFromKept DEF IdleTimeout
<1>6. CASE OutageSeen
  BY <1>1, <1>2, <1>6, RFacts, SaveSame DEF OutageSeen, Save, LoopStates
<1>7. CASE OutageRetry
  <2>1. SameWork(run, MarkInjected(run)) /\ MarkInjected(run).top = run.top
    BY RFacts, SameWorkInjected
  <2> QED BY <1>1, <1>2, <1>7, <2>1, SaveSame DEF OutageRetry, LoopStates
<1> QED BY <1>3, <1>4, <1>5, <1>6, <1>7 DEF Poll

\* A checkpoint of another node.
LEMMA MismatchKept == RInv /\ IInv' /\ Mismatch => Ahead' /\ Kept
<1> SUFFICES ASSUME RInv, IInv', Mismatch PROVE Ahead' /\ Kept OBVIOUS
<1> DEFINE r == [run EXCEPT !.mism = @ + 1]
<1> DEFINE s == Refused(r, "RECOVERY_NEEDED")
<1>1. SameWork(run, r) /\ r.top = run.top
  <2>1. run.mism + 1 \in Nat BY RFacts DEF Run
  <2> QED BY <2>1, RFacts, SameWorkMismatch
<1>2. SameWork(run, s) /\ s.top = run.top
  <2>1. r \in Run BY <1>1 DEF SameWork
  <2> HIDE DEF r
  <2>2. SameWork(r, s) /\ s.top = r.top
    BY <2>1, SameWorkNotLeft DEF TopState
  <2> QED BY <1>1, <2>2, SameWorkTwice
<1>3. pc \notin {"off", "inject"} BY DEF Mismatch, Reading
<1>4. \/ Save(r) /\ pc' = "batch"
      \/ CanTransition(r.top, "RECOVERY_NEEDED") /\ disk' = r /\ RecoverFrom(r, "mismatch")
      \/ Save(s) /\ pc' = "off"
  BY DEF Mismatch, EndThread
<1> HIDE DEF r, s
<1>5. CASE Save(r) /\ pc' = "batch"
  BY <1>1, <1>3, <1>5, SaveSame, ReadingOn DEF Save
<1>6. CASE CanTransition(r.top, "RECOVERY_NEEDED") /\ disk' = r /\ RecoverFrom(r, "mismatch")
  <2>1. r.top \in TopState BY <1>1, RFacts
  <2>2. r.top \in LoopStates BY <1>6, <2>1, CanRecover, InActionTops
  <2>3. r.top \notin Stoppable BY <2>2 DEF LoopStates
  <2>4. disk.top \notin Stoppable BY <1>1, <1>3, <2>3 DEF RInv, Ahead, Shown
  <2> QED BY <1>1, <1>3, <1>6, <2>3, <2>4, RecoverFromKept
<1>7. CASE Save(s) /\ pc' = "off"
  BY <1>2, <1>3, <1>7, SaveSame, ReadingOn DEF Save
<1> QED BY <1>4, <1>5, <1>6, <1>7

\* A report of a done node on a read-only surface.
LEMMA StaleObservationKept == RInv /\ IInv' /\ StaleObservation => Ahead' /\ Kept
<1> SUFFICES ASSUME RInv, IInv', StaleObservation PROVE Ahead' /\ Kept OBVIOUS
<1> DEFINE p == Pause(run)
<1> DEFINE s == Refused(run, "PAUSED_FOR_HUMAN")
<1>1. SameWork(run, p) /\ p.top = "PAUSED_FOR_HUMAN"
  BY RFacts, SameWorkLeaving DEF Pause, TopState
<1>2. SameWork(run, s) /\ s.top = run.top
  BY RFacts, SameWorkNotLeft DEF TopState
<1>3. pc # "off" /\ pc' = "off" BY DEF StaleObservation, Reading, EndThread
<1>4. \/ CanTransition(run.top, "PAUSED_FOR_HUMAN") /\ Save(p)
      \/ Save(s)
  BY DEF StaleObservation
<1> HIDE DEF p, s
<1>5. CASE CanTransition(run.top, "PAUSED_FOR_HUMAN") /\ Save(p)
  <2>1. CASE disk.top \notin Stoppable BY <1>1, <1>3, <1>5, <2>1, SaveSame
  <2>2. CASE disk.top \in Stoppable
    <3>1. run.top \in Stoppable BY <1>3, <2>2 DEF RInv, Ahead, Shown
    <3>2. run.top = "PAUSED_FOR_HUMAN"
      BY <1>5, <3>1 DEF CanTransition, AllowedTransitions, Stoppable, FinalStates
    <3> QED BY <1>1, <1>3, <1>5, <2>2, <3>2, ReadingOn DEF Save
  <2> QED BY <2>1, <2>2
<1>6. CASE Save(s)
  BY <1>2, <1>3, <1>6, SaveSame, ReadingOn DEF Save
<1> QED BY <1>4, <1>5, <1>6

\* A checkpoint accepted.
LEMMA AcceptKept ==
    ASSUME NEW cp, RInv, IInv', Accept(cp)
    PROVE  Ahead' /\ Kept
<1> DEFINE b == Received(cp)
<1> DEFINE r == EventArrives(b)
<1>1. SameWork(run, b) /\ b.top = run.top BY RFacts, ReceivedTop
<1>2. pc \notin {"off", "inject"} /\ run' = r /\ disk' = disk
  BY DEF Accept, Reading
<1>3. pc' = "batch" \/ (pc' = "decide" /\ r.top \in {"GATING", "ATTACHED"})
  BY DEF Accept
<1>4. b.top \notin GatedByEvent => r = b BY <1>1 DEF EventArrives, SameWork, Run
<1> HIDE DEF b
<1>5. SameWork(run, r)
  <2>1. SameWork(b, r) BY <1>1, SameWorkEvent DEF SameWork
  <2> QED BY <1>1, <2>1, SameWorkTwice
<1> HIDE DEF r
<1>6. CASE disk.top \notin Stoppable BY <1>2, <1>3, <1>5, <1>6, KeepSame
<1>7. CASE disk.top \in Stoppable
  <2>1. run.top \in Stoppable BY <1>2, <1>7 DEF RInv, Ahead, Shown
  <2>2. r.top = run.top /\ r.top \notin {"GATING", "ATTACHED"}
    BY <1>1, <1>4, <2>1 DEF Stoppable, FinalStates, GatedByEvent
  <2> QED BY <1>2, <1>3, <1>5, <1>7, <2>2, ReadingOn
<1> QED BY <1>6, <1>7

\* The end of a text.
LEMMA EndBatchKept == RInv /\ IInv' /\ EndBatch => Ahead' /\ Kept
<1> SUFFICES ASSUME RInv, IInv', EndBatch PROVE Ahead' /\ Kept OBVIOUS
<1>1. pc = "batch" BY DEF EndBatch
<1>2. \/ run.top = "RUNNING" /\ Save(MarkInjected(run))
      \/ run.top \in LoopStates /\ Save(run)
      \/ run.top \notin LoopStates /\ Save(run) /\ pc' = "off"
  BY DEF EndBatch, EndThread
<1>3. SameWork(run, MarkInjected(run)) /\ MarkInjected(run).top = run.top
  BY RFacts, SameWorkInjected
<1>4. CASE disk.top \notin Stoppable
  BY <1>1, <1>2, <1>3, <1>4, RFacts, SaveSame DEF LoopStates, Stoppable, FinalStates
<1>5. CASE disk.top \in Stoppable
  <2>1. run.top \in Stoppable BY <1>1, <1>5 DEF RInv, Ahead, Shown
  <2>2. Save(run) /\ pc' = "off" BY <1>2, <2>1 DEF LoopStates, Stoppable, FinalStates
  <2> QED BY <1>1, <1>5, <2>2, RFacts, ReadingOn DEF Save
<1> QED BY <1>4, <1>5

-------------------------------------------------------------------------------
(* After the gate *)

\* A step of the work, then one that leaves it alone.
LEMMA WorkedThen ==
    ASSUME NEW r, NEW s, NEW t, Worked(r, s), s.node = r.node, SameWork(s, t)
    PROVE  Worked(r, t) /\ t.node = r.node /\ t.done = s.done
  BY DEF Worked, SameWork, Told

\* A run that goes on at its node, to be injected if the worker needs it.
LEMMA GoesOnKept ==
    ASSUME NEW s \in Run, RInv, pc \notin {"off", "inject"}, disk.top \notin Stoppable,
           Worked(run, s), s.node = run.node, InjectIfNeeded(s)
    PROVE  Ahead' /\ Kept
<1>1. run' = s /\ disk' = disk /\ pc' # "off"
  BY DEF InjectIfNeeded, Compose, NextCheckpoint
<1> QED BY <1>1, MemoryStep

\* A run that moves to a node: about to be saved, or at a node the worker was told of
\* before, which is done or a decision.
LEMMA MovesOnKept ==
    ASSUME NEW r \in Run, NEW n \in Nodes, RInv, pc \notin {"off", "inject"},
           disk.top \notin Stoppable,
           Worked(run, r), r.node = run.node, r.node \in r.done \cup DecisionNodes,
           InjectIfNeeded(MoveTo(r, n))
    PROVE  Ahead' /\ Kept
<1> DEFINE m == MoveTo(r, n)
<1>1. /\ m \in Run /\ m.node = n
      /\ m.done = r.done /\ m.reviews = r.reviews /\ m.injNode = r.injNode
  BY MovedRun
<1>2. IF NeedsInjection(m) THEN Compose(m) ELSE NextCheckpoint(m)
  BY DEF InjectIfNeeded
<1> HIDE DEF m
<1>3. run' = m /\ disk' = disk /\ pc' # "off" BY <1>2 DEF Compose, NextCheckpoint
<1>4. m.injNode \in {NoNode} \cup m.done \cup DecisionNodes
  BY <1>1 DEF Worked, Told
<1>5. pc' = "inject" \/ m.node \in m.done \cup DecisionNodes
  <2>1. CASE NeedsInjection(m) BY <1>2, <2>1 DEF Compose
  <2>2. CASE ~NeedsInjection(m)
    <3>1. m.node = m.injNode BY <2>2 DEF NeedsInjection
    <3>2. m.node # NoNode BY <1>1, SpecAssumption DEF Nodes, NoNode
    <3> QED BY <1>4, <3>1, <3>2
  <2> QED BY <2>1, <2>2
<1>6. m.done = disk.done \/ \E k \in Nodes : m.done = disk.done \cup {k}
  BY <1>1, OneAhead
<1>7. Linked'
  <2>1. run'.reviews = disk'.reviews BY <1>1, <1>3 DEF RInv, Ahead, Linked, Worked
  <2> QED BY <1>3, <1>5, <1>6, <2>1 DEF Linked
<1>8. Told(run)' /\ Told(disk)' BY <1>3, <1>4 DEF RInv, Ahead, Told
<1>9. Shown' BY <1>3 DEF RInv, Ahead, Shown
<1>10. Kept BY <1>3, NothingShown
<1> QED BY <1>7, <1>8, <1>9, <1>10 DEF Ahead

\* A run that is paused, for good or not.
LEMMA PausesKept ==
    ASSUME NEW c \in Run, RInv, pc \notin {"off", "inject"}, disk.top \notin Stoppable,
           Worked(run, c), c.node = run.node,
           run' = Pause(c), disk' = disk, pc' # "off"
    PROVE  Ahead' /\ Kept
<1> DEFINE p == Pause(c)
<1>1. SameWork(c, p) BY SameWorkLeaving DEF Pause, TopState
<1>2. run' = p OBVIOUS
<1> HIDE DEF p
<1>3. Worked(run, p) /\ p.node = run.node BY <1>1, WorkedThen
<1> QED BY <1>2, <1>3, MemoryStep

\* A failure counted.
LEMMA RetryOrPauseKept ==
    ASSUME NEW c \in Run, RInv, pc \notin {"off", "inject"}, disk.top \notin Stoppable,
           Worked(run, c), c.node = run.node, RetryOrPause(c)
    PROVE  Ahead' /\ Kept
<1>1. CASE Exhausted(c)
  BY <1>1, PausesKept DEF RetryOrPause, PauseExhausted, PauseFor
<1>2. CASE ~Exhausted(c)
  <2> DEFINE s == [c EXCEPT !.top = "RUNNING"]
  <2>1. SameWork(c, s) BY SameWorkTop DEF TopState
  <2>2. InjectIfNeeded(s) BY <1>2 DEF RetryOrPause
  <2> HIDE DEF s
  <2>3. Worked(run, s) /\ s.node = run.node BY <2>1, WorkedThen
  <2>4. s \in Run BY <2>1 DEF SameWork
  <2> QED BY <2>2, <2>3, <2>4, GoesOnKept
<1> QED BY <1>1, <1>2

\* A charged retry leaves the work as it was.
LEMMA ChargedWorked ==
    ASSUME NEW f \in Run, Worked(run, f), f.node = run.node
    PROVE  /\ ChargeRetry(f) \in Run
           /\ Worked(run, ChargeRetry(f)) /\ ChargeRetry(f).node = run.node
<1> DEFINE c == ChargeRetry(f)
<1>1. /\ c \in Run /\ c.node = f.node /\ c.done = f.done
      /\ c.reviews = f.reviews /\ c.injNode = f.injNode
  BY ChargedRun
<1> HIDE DEF c
<1>2. Worked(run, c) /\ c.node = run.node BY <1>1 DEF Worked, Told
<1> QED BY <1>1, <1>2 DEF c

\* Every decision of the gate.
LEMMA JudgeKept == RInv /\ IInv' /\ Judge => Ahead' /\ Kept
<1> SUFFICES ASSUME RInv, IInv', Judge PROVE Ahead' /\ Kept OBVIOUS
<1>1. pc = "decide" /\ disk.top \notin Stoppable
  BY OpenOnDisk DEF Judge, Continue, VerifyStep, ReInject, Retry, EscalateToHuman, Decided,
                    Answers, Branch, BranchUndecided
<1>2. run \in Run /\ Worked(run, run) BY RFacts
<1>3. \A top \in {"RUNNING", "VERIFYING"} :
         LET r == [run EXCEPT !.reinj = 0, !.top = top]
         IN  SameWork(run, r) /\ r.top = top
  BY <1>2 DEF SameWork, Run, TopState
<1>4. ASSUME NEW r, SameWork(run, r), run' = Pause(r), disk' = disk, pc' # "off"
      PROVE  Ahead' /\ Kept
  <2>1. r \in Run /\ Worked(run, r) /\ r.node = run.node
    BY <1>4, RFacts, SameWorkWorked DEF SameWork
  <2> QED BY <1>1, <1>4, <2>1, PausesKept
<1>5. ASSUME NEW d, Continue(d) PROVE Ahead' /\ Kept
  <2> DEFINE r == [run EXCEPT !.reinj = 0, !.top = "RUNNING"]
  <2>1. SameWork(run, r) /\ r.top = "RUNNING" BY <1>3
  <2>2. \/ run' = r /\ disk' = disk /\ pc' = "batch"
        \/ InjectIfNeeded(r)
    BY <1>5 DEF Continue
  <2> HIDE DEF r
  <2>3. r \in Run /\ Worked(run, r) /\ r.node = run.node
    BY <2>1, RFacts, SameWorkWorked DEF SameWork
  <2> QED BY <1>1, <2>1, <2>2, <2>3, KeepSame, GoesOnKept
<1>6. ASSUME NEW d, VerifyStep(d) PROVE Ahead' /\ Kept
  BY <1>1, <1>3, <1>6, KeepSame DEF VerifyStep
<1>7. ASSUME NEW d, ReInject(d) PROVE Ahead' /\ Kept
  <2> DEFINE n == IF run.reinj <= MaxReInjects THEN run.reinj + 1 ELSE run.reinj
  <2> DEFINE r == [run EXCEPT !.reinj = n]
  <2>1. SameWork(run, r)
    <3>1. n \in Nat BY <1>2 DEF Run
    <3> HIDE DEF n
    <3> QED BY <1>2, <3>1, SameWorkReInject
  <2>2. CountReInject(run) = r BY DEF CountReInject
  <2>3. (run' = Pause(r) \/ run' = r) /\ disk' = disk /\ pc' # "off"
    BY <1>7, <2>2 DEF ReInject, Compose, NextCheckpoint
  <2> HIDE DEF r
  <2> QED BY <1>1, <1>4, <2>1, <2>3, KeepSame
<1>8. ASSUME NEW d, Retry(d) PROVE Ahead' /\ Kept
  <2> DEFINE r0 == [run EXCEPT !.reinj = 0]
  <2>1. SameWork(run, r0) BY <1>2, SameWorkReInject
  <2>2. RetryOrPause(ChargeRetry(r0)) BY <1>8 DEF Retry
  <2> HIDE DEF r0
  <2>3. r0 \in Run /\ Worked(run, r0) /\ r0.node = run.node
    BY <2>1, RFacts, SameWorkWorked DEF SameWork
  <2> QED BY <1>1, <2>2, <2>3, ChargedWorked, RetryOrPauseKept
<1>9. ASSUME NEW d, EscalateToHuman(d) PROVE Ahead' /\ Kept
  <2> DEFINE h == [run EXCEPT !.held = TRUE]
  <2>1. SameWork(run, h) BY <1>2 DEF SameWork, Run
  <2>2. (run' = Pause(run) \/ run' = Pause(h)) /\ disk' = disk /\ pc' # "off"
    BY <1>9 DEF EscalateToHuman, PauseQuoting, PauseForGood, PauseFor, NextCheckpoint
  <2> HIDE DEF h
  <2> QED BY <1>4, <2>1, <2>2, RFacts
<1>10. ASSUME NEW n \in Nodes, Branch(n) PROVE Ahead' /\ Kept
  BY <1>1, <1>2, <1>10, MovesOnKept DEF Branch
<1>11. CASE BranchUndecided
  <2>1. run' = Pause(run) /\ disk' = disk /\ pc' # "off"
    BY <1>11 DEF BranchUndecided, PauseQuoting, PauseForGood, PauseFor, NextCheckpoint
  <2> QED BY <1>4, <2>1, RFacts
<1> QED BY <1>5, <1>6, <1>7, <1>8, <1>9, <1>10, <1>11 DEF Judge

\* A node verified is a step of the work.
LEMMA VerifiedWorked ==
    ASSUME RInv, pc = "verify"
    PROVE  /\ Verified(run) \in Run /\ Worked(run, Verified(run))
           /\ Verified(run).node = run.node /\ run.node \in Verified(run).done
           /\ Verified(run).top = run.top
<1> DEFINE v == Verified(run)
<1>1. /\ v \in Run /\ v.node = run.node /\ v.done = run.done \cup {run.node}
      /\ v.reviews = run.reviews /\ v.injNode = run.injNode /\ v.top = run.top
  BY RFacts, VerifiedRun
<1> HIDE DEF v
<1>2. run.node \notin DecisionNodes BY DEF RInv, TInv, IInv, Placed
<1>3. Worked(run, v) BY <1>1, <1>2, RFacts DEF Worked, Told
<1> QED BY <1>1, <1>3 DEF v

\* Every outcome of a verification.
LEMMA VerifyKept == RInv /\ IInv' /\ Verify => Ahead' /\ Kept
<1> SUFFICES ASSUME RInv, IInv', Verify PROVE Ahead' /\ Kept OBVIOUS
<1>1. pc = "verify" /\ disk.top \notin Stoppable
  BY OpenOnDisk DEF Verify, VerifyPasses, VerifyFails
<1>2. ASSUME NEW extras, VerifyPasses(extras) PROVE Ahead' /\ Kept
  <2> DEFINE v == Verified(run)
  <2> DEFINE next == NextNode(run.node)
  <2>1. /\ v \in Run /\ Worked(run, v)
        /\ v.node = run.node /\ v.node \in v.done
    BY <1>1, VerifiedWorked
  <2>2. CASE next # NoNode
    <3>1. next \in Nodes BY <2>2, RFacts, NextNodeFact
    <3>2. InjectIfNeeded(MoveTo(v, next)) BY <1>2, <2>2 DEF VerifyPasses
    <3> HIDE DEF v, next
    <3> QED BY <1>1, <2>1, <3>1, <3>2, MovesOnKept
  <2>3. CASE next = NoNode
    <3> DEFINE s == [v EXCEPT !.top = "COMPLETED"]
    <3>1. (run' = s \/ run' = Pause(v)) /\ disk' = disk /\ pc' # "off"
      BY <1>2, <2>3 DEF VerifyPasses, PauseQuoting, PauseForGood, PauseFor, NextCheckpoint
    <3> HIDE DEF v
    <3>2. SameWork(v, s) BY <2>1, SameWorkTop DEF TopState, FinalStates
    <3> HIDE DEF s
    <3>3. CASE run' = s
      <4>1. Worked(run, s) /\ s.node = run.node BY <2>1, <3>2, WorkedThen
      <4> QED BY <1>1, <3>1, <3>3, <4>1, MemoryStep
    <3> QED BY <1>1, <2>1, <3>1, <3>3, PausesKept
  <2> QED BY <2>2, <2>3
<1>3. CASE VerifyFails
  <2> DEFINE f == [run EXCEPT !.verdict = "failed"]
  <2>1. /\ f \in Run /\ f.node = run.node /\ f.done = run.done
        /\ f.reviews = run.reviews /\ f.injNode = run.injNode
    BY RFacts DEF Run
  <2>2. RetryOrPause(ChargeRetry(f)) BY <1>3 DEF VerifyFails
  <2> HIDE DEF f
  <2>3. Worked(run, f) BY <2>1, RFacts DEF Worked, Told
  <2> QED BY <1>1, <2>1, <2>2, <2>3, ChargedWorked, RetryOrPauseKept
<1> QED BY <1>2, <1>3 DEF Verify

\* The injection of an instruction: what was ahead is saved.
LEMMA InjectKept == RInv /\ IInv' /\ Inject => Ahead' /\ Kept
<1> SUFFICES ASSUME RInv, IInv', Inject PROVE Ahead' /\ Kept OBVIOUS
<1>1. pc = "inject" /\ disk.top \notin Stoppable BY OpenOnDisk DEF Inject
<1>2. SameWork(run, MarkInjected(run)) /\ MarkInjected(run).top = run.top
  BY RFacts, SameWorkInjected
<1>3. run.top \notin Stoppable
  BY <1>1, InActionTops DEF RInv, TInv, IInv, Placed, LoopStates
<1>4. Save(MarkInjected(run)) BY DEF Inject
<1> QED BY <1>1, <1>2, <1>3, <1>4, SaveSame

\* A delivery, made or failed.
LEMMA DeliverKept == RInv /\ IInv' /\ Deliver => Ahead' /\ Kept
<1> SUFFICES ASSUME RInv, IInv', Deliver PROVE Ahead' /\ Kept OBVIOUS
<1>1. pc = "deliver" /\ disk.top \notin Stoppable
  BY OpenOnDisk DEF Deliver, Delivered, DeliveryFails, HandoffFails
<1>2. run.top \notin Stoppable
  BY <1>1, InActionTops DEF RInv, TInv, IInv, Placed, LoopStates
<1>3. CASE Delivered
  BY <1>1, <1>2, <1>3, RFacts, SaveSame DEF Delivered, Save
<1>4. ASSUME NEW why, DeliveryFails(why) PROVE Ahead' /\ Kept
  BY <1>1, <1>4, RFacts, RecoverFromKept DEF DeliveryFails
<1>5. CASE HandoffFails
  <2>1. SameWork(run, Pause(run)) BY RFacts, SameWorkLeaving DEF Pause, TopState
  <2>2. (Save(Pause(run)) \/ Save(run)) /\ pc' = "off"
    BY <1>5 DEF HandoffFails, EndThread
  <2> QED BY <1>1, <2>1, <2>2, RFacts, SaveSame
<1> QED BY <1>3, <1>4, <1>5 DEF Deliver

\* An auto-intervention, or its refusal.
LEMMA RescueKept == RInv /\ IInv' /\ Rescue => Ahead' /\ Kept
<1> SUFFICES ASSUME RInv, IInv', Rescue PROVE Ahead' /\ Kept OBVIOUS
<1>1. pc \in {"recover", "rescue"} /\ disk.top \notin Stoppable
  BY OpenOnDisk DEF Rescue, AutoIntervene, GiveUp, StayPaused
<1>2. run \in Run /\ run.granted \in BOOLEAN BY RFacts DEF Run
<1>3. CASE AutoIntervene
  <2> DEFINE g == run.granted \/ pc = "rescue"
  <2> DEFINE s == [run EXCEPT !.autos = @ + 1, !.top = "RUNNING", !.pre = "none",
                              !.granted = g]
  <2>1. SameWork(run, s) /\ s.top = "RUNNING" BY <1>2, SameWorkIntervened
  <2>2. Save(s) BY <1>3 DEF AutoIntervene
  <2> HIDE DEF s
  <2>3. s.top \notin Stoppable BY <2>1 DEF Stoppable, FinalStates
  <2> QED BY <1>1, <2>1, <2>2, <2>3, SaveSame
<1>4. CASE GiveUp
  <2>1. SameWork(run, Pause(run)) BY RFacts, SameWorkLeaving DEF Pause, TopState
  <2>2. Save(Pause(run)) /\ pc' = "off" BY <1>4 DEF GiveUp, EndThread
  <2> QED BY <1>1, <2>1, <2>2, SaveSame
<1>5. CASE StayPaused
  BY <1>1, <1>5, RFacts, KeepSame DEF StayPaused
<1> QED BY <1>3, <1>4, <1>5 DEF Rescue

\* An exception, after which the run is saved as it is.
LEMMA LoopErrorKept == RInv /\ IInv' /\ LoopError => Ahead' /\ Kept
<1> SUFFICES ASSUME RInv, IInv', LoopError PROVE Ahead' /\ Kept OBVIOUS
<1>1. pc # "off" /\ pc' = "off"
  BY DEF LoopError, EndThread
<1>2. CASE Save(run)
  <2>1. CASE disk.top \notin Stoppable BY <1>1, <1>2, <2>1, RFacts, SaveSame
  <2>2. CASE disk.top \in Stoppable BY <1>1, <1>2, <2>2, RFacts, ReadingOn DEF Save
  <2> QED BY <2>1, <2>2
<1>3. CASE pc = "verify" /\ Save(Verified(run))
  <2>1. disk.top \notin Stoppable BY <1>3, OpenOnDisk
  <2>2. Worked(run, Verified(run)) /\ Told(Verified(run))
    BY <1>3, VerifiedWorked DEF Worked
  <2> QED BY <1>1, <1>3, <2>1, <2>2, SavingStep DEF Save
<1> QED BY <1>2, <1>3 DEF LoopError

-------------------------------------------------------------------------------
(* The daemon, and all together *)

\* Memory and disk agree, and the run is either without a thread or open.
LEMMA AgreedAhead ==
    ASSUME NEW r, Told(r), run' = r, disk' = r, pc' = "off" \/ r.top \notin Stoppable
    PROVE  Ahead'
  BY DEF Ahead, Linked, Told, Shown

\* The daemon's operations, a crash included.
LEMMA DaemonKept == RInv /\ IInv' /\ Daemon => Ahead' /\ Kept
<1> SUFFICES ASSUME RInv, IInv', Daemon PROVE Ahead' /\ Kept OBVIOUS
<1>1. Sound(disk) /\ disk \in Run /\ disk.top \in TopState /\ Told(disk)
  BY DEF RInv, TInv, IInv, Sound, Run, Ahead
<1>2. CASE Stop \/ Reap
  <2>1. UNCHANGED <<run, disk, pc>> BY <1>2 DEF Stop, Reap
  <2>2. Ahead' BY <2>1 DEF RInv, Ahead, Linked, Told, Shown
  <2>3. Kept BY <2>1, NothingShown
  <2> QED BY <2>2, <2>3
<1>3. CASE Resume
  <2> DEFINE r == Resumed(disk)
  <2>1. /\ pc = "off" /\ pc' = "boot" /\ run' = r /\ disk' = r
        /\ disk.top \in Resumable
    BY <1>3 DEF Resume, Save
  <2>2. SameWork(disk, r) BY <1>1, SameWorkResumed
  <2>3. r.top \notin Stoppable
    <3>1. CASE disk.top # "PAUSED_FOR_HUMAN"
      BY <2>1, <3>1 DEF Resumed, Resumable, Stoppable, FinalStates
    <3>2. CASE disk.top = "PAUSED_FOR_HUMAN"
      <4> DEFINE top == IF disk.pre = "ATTACHED" THEN "ATTACHED" ELSE "RUNNING"
      <4>1. r.top = top BY <1>1, <3>2 DEF Resumed, Run
      <4> QED BY <4>1 DEF Stoppable, FinalStates
    <3> QED BY <3>1, <3>2
  <2> HIDE DEF r
  <2>4. Ahead' BY <1>1, <2>1, <2>2, <2>3, SameWorkWorked, AgreedAhead DEF Worked
  <2>5. ContractStatus(disk) \in {"open", "paused"}
    BY <1>1, <2>1, StatusOpen DEF Resumable, FinalStates
  <2>6. ContractStatus(disk') = "open"
    BY <2>1, <2>2, <2>3, StatusOpen DEF SameWork, Run
  <2>7. disk'.done = disk.done /\ disk'.reviews = disk.reviews
    BY <2>1, <2>2 DEF SameWork
  <2>8. Contract!Reopen BY <2>1, <2>5, <2>6, <2>7 DEF Contract!Reopen
  <2> QED BY <2>4, <2>8 DEF Kept, Contract!ContractNext
<1>4. CASE DaemonCrash
  <2> DEFINE r == [disk EXCEPT !.held = run.held]
  <2>1. run' = r /\ disk' = r /\ pc' = "off" BY <1>4 DEF DaemonCrash, Save, EndThread
  <2>2. /\ r.top = disk.top /\ r.node = disk.node /\ r.injNode = disk.injNode
        /\ r.done = disk.done /\ r.reviews = disk.reviews
    BY <1>1 DEF Run
  <2> HIDE DEF r
  <2>3. Ahead' BY <1>1, <2>1, <2>2, AgreedAhead DEF Told
  <2>4. Kept BY <2>1, <2>2, NothingShown DEF ContractStatus
  <2> QED BY <2>3, <2>4
<1>5. CASE DaemonStart
  <2>1. pc = "off" /\ pc' = "off" BY <1>5 DEF DaemonStart, RInv, TInv, Alive
  <2>2. CASE disk.top \in Orphaned
    <3> DEFINE r == [disk EXCEPT !.top = "PAUSED_FOR_HUMAN"]
    <3>1. SameWork(disk, r) /\ r.top = "PAUSED_FOR_HUMAN"
      BY <1>1, SameWorkTop DEF TopState
    <3>2. run' = r /\ disk' = r BY <1>5, <2>2 DEF DaemonStart, Save
    <3> HIDE DEF r
    <3>3. Ahead' BY <1>1, <2>1, <3>1, <3>2, SameWorkWorked, AgreedAhead DEF Worked
    <3>4. ContractStatus(disk) = "open"
      BY <1>1, <2>2, StatusOpen DEF Orphaned, Stoppable, FinalStates
    <3>5. ContractStatus(disk') = "paused"
      BY <3>1, <3>2, StatusOpen DEF TopState
    <3>6. Contract!Park
      BY <2>1, <3>1, <3>2, <3>4, <3>5 DEF Contract!Park, SameWork
    <3> QED BY <3>3, <3>6 DEF Kept, Contract!ContractNext
  <2>3. CASE disk.top \notin Orphaned
    <3>1. run' = disk /\ disk' = disk BY <1>5, <2>3 DEF DaemonStart, Save
    <3>2. Ahead' BY <1>1, <2>1, <3>1, AgreedAhead
    <3>3. Kept BY <2>1, <3>1, NothingShown
    <3> QED BY <3>2, <3>3
  <2> QED BY <2>2, <2>3
<1>6. ASSUME NEW reviewer \in Acknowledgers, NEW extras, AckReview(reviewer, extras)
      PROVE  Ahead' /\ Kept
  <2> DEFINE reviews == disk.reviews \cup {reviewer}
  <2> DEFINE r == [disk EXCEPT !.reviews = reviews]
  <2> DEFINE s == [r EXCEPT !.top = "COMPLETED"]
  <2>1. pc = "off" /\ pc' = "off" BY <1>6 DEF AckReview
  <2>2. reviewer \in Reviewers /\ reviews \in SUBSET Reviewers
    BY <1>1, SidecarAssumption DEF Run
  <2>3. (run' = r \/ run' = s) /\ disk' = run' BY <1>6 DEF AckReview, Save
  <2> HIDE DEF reviews
  <2>4. /\ r \in Run /\ r.top = disk.top /\ r.reviews = reviews
        /\ r.done = disk.done /\ r.node = disk.node /\ r.injNode = disk.injNode
    BY <1>1, <2>2 DEF Run
  <2> HIDE DEF r
  <2>5. SameWork(r, s) /\ s.top = "COMPLETED" BY <2>4, SameWorkTop DEF TopState, FinalStates
  <2> HIDE DEF s
  <2>6. Told(run') BY <1>1, <2>3, <2>4, <2>5, SameWorkWorked DEF Told, Worked
  <2>7. Ahead' BY <2>1, <2>3, <2>6, AgreedAhead
  <2>8. disk'.done = disk.done /\ disk'.reviews = reviews
    BY <2>3, <2>4, <2>5 DEF SameWork
  <2>9. ContractStatus(disk') \in {ContractStatus(disk), "closed"}
    <3>1. CASE run' = r BY <2>3, <2>4, <3>1 DEF ContractStatus
    <3>2. CASE run' = s
      BY <2>3, <2>5, <3>2, StatusOpen DEF SameWork, Run, TopState, FinalStates
    <3> QED BY <2>3, <3>1, <3>2
  <2>10. Sound(disk') BY DEF IInv
  <2>11. ContractStatus(disk') = "closed" =>
           /\ (IF RequireAll /\ Kind = "linear_plan" THEN Nodes ELSE {}) \subseteq disk'.done
           /\ ReviewMet(disk'.reviews)
    BY <2>10, ClosedMeetsContract
  <2>12. Contract!Acknowledge
    BY <2>1, <2>2, <2>8, <2>9, <2>11 DEF Contract!Acknowledge, Contract!MayClose, reviews
  <2> QED BY <2>7, <2>12 DEF Kept, Contract!ContractNext
<1> QED BY <1>2, <1>3, <1>4, <1>5, <1>6 DEF Daemon

\* Every step keeps the invariant and the contract.
LEMMA RStep == RInv /\ [Next]_vars => RInv' /\ Kept
<1> SUFFICES ASSUME RInv, [Next]_vars PROVE RInv' /\ Kept OBVIOUS
<1>1. TInv' /\ IInv' BY TInvKeeps DEF RInv, TInv
<1>2. CASE Next
  <2>1. Read => Ahead' /\ Kept
    BY <1>1, MismatchKept, StaleObservationKept, AcceptKept DEF Read
  <2>2. Ahead' /\ Kept
    BY <1>1, <1>2, <2>1, BootKept, PollKept, EndBatchKept, JudgeKept, VerifyKept,
       InjectKept, DeliverKept, RescueKept, LoopErrorKept, DaemonKept DEF Next, Sidecar
  <2> QED BY <1>1, <2>2 DEF RInv
<1>3. CASE UNCHANGED vars
  <2>1. UNCHANGED <<run, disk, pc>> BY <1>3 DEF vars
  <2>2. Ahead' BY <2>1 DEF RInv, Ahead, Linked, Told, Shown
  <2>3. Kept BY <2>1, NothingShown
  <2> QED BY <1>1, <2>2, <2>3 DEF RInv
<1> QED BY <1>2, <1>3

\* A new run is a new contract.
LEMMA InitKept == Init => RInv /\ Contract!ContractInit
<1> SUFFICES ASSUME Init PROVE RInv /\ Contract!ContractInit OBVIOUS
<1>1. TInv BY InitIInv DEF Init, TInv, Alive, Started, Settled
<1>2. Ahead BY DEF Init, NewRun, Ahead, Linked, Told, Shown, Stoppable, FinalStates
<1>3. ContractStatus(disk) = "open"
  BY StatusOpen DEF Init, NewRun, Stoppable, FinalStates, TopState
<1>4. Contract!ContractInit BY <1>3 DEF Init, NewRun, Contract!ContractInit
<1> QED BY <1>1, <1>2, <1>4 DEF RInv

\* What is on disk keeps the contract: no crash, resume, recovery or late checkpoint
\* makes it skip or lose a node, lift a pause without a new owner, close a run whose
\* conditions are not met or reopen one that is closed (loop.py, server.py).
THEOREM ContractIsKept == Spec => KeepsContract
<1>1. Init => RInv /\ Contract!ContractInit BY InitKept
<1>2. RInv /\ [Next]_vars => RInv' /\ [Contract!ContractNext]_(Contract!contract)
  BY RStep DEF Kept
<1> QED BY <1>1, <1>2, PTL DEF Spec, KeepsContract, Contract!ContractSpec
===============================================================================
