---------------------------- MODULE SupervisorProofs ----------------------------
(***************************************************************************)
(* The safety of the supervised run, proved for every workflow, budget and *)
(* worker.  The inductive invariant IInv says that both copies of the run  *)
(* are Sound and ties the thread's step to the top state of its copy       *)
(* (Placed).                                                               *)
(***************************************************************************)
EXTENDS SupervisorProps, TLAPS

-------------------------------------------------------------------------------
(* What the proofs know of a run record, in memory or on disk, and that the operators
   of RunState and the small steps of Supervisor preserve it: a step of the system is
   then a matter of naming the lemma *)

\* The workflows that are worked off strictly in the order of their nodes.
IsLinear == Kind = "linear_plan" /\ DecisionNodes = {}

Judged(r) == r.done # {} => r.verdict # "pending"

\* No step fails or aborts a run: the judge's answers are cut down to four.
Unfailed(r) == r.top \notin {"FAILED", "ABORTED"}

Sound(r) ==
    /\ r \in Run
    /\ Unfailed(r)
    /\ Earned(r)
    /\ Judged(r)
    /\ WithinBudget(r)
    /\ IsLinear => InOrder(r)

-------------------------------------------------------------------------------
(* Steps on a run record *)

\* s is r after a step that leaves the work done and the failures counted alone, and
\* tells the worker of no other node.
SameWork(r, s) ==
    /\ s \in Run
    /\ s.node = r.node /\ s.done = r.done /\ s.verdict = r.verdict
    /\ s.attempt = r.attempt /\ s.used = r.used
    /\ s.reviews = r.reviews
    /\ s.injNode \in {r.injNode, r.node}
    /\ r.granted => s.granted

\* A step that leaves the work alone keeps a run sound if it does not finish the run
\* and puts it in action only when it was so before, or may be.
LEMMA SameWorkSound ==
    ASSUME NEW r, NEW s, Sound(r), SameWork(r, s),
           \/ s.top = r.top
           \/ /\ s.top \notin FinalStates
              /\ s.top \in InAction => (r.top \in InAction \/ ~Exhausted(r) \/ s.granted)
    PROVE  Sound(s)
<1>1. Earned(s)
  BY DEF Sound, SameWork, Earned, RequiredNodes, FinalStates
<1>2. Judged(s)
  BY DEF Sound, SameWork, Judged
<1>3. WithinBudget(s)
  BY DEF Sound, SameWork, WithinBudget, Exhausted
<1>4. IsLinear => InOrder(s)
  BY DEF Sound, SameWork, InOrder
<1> QED BY <1>1, <1>2, <1>3, <1>4 DEF Sound, SameWork, Unfailed, FinalStates, InAction

\* Two such steps in a row are one.
LEMMA SameWorkTwice ==
    ASSUME NEW r, NEW s, NEW t, SameWork(r, s), SameWork(s, t)
    PROVE  SameWork(r, t)
  BY DEF SameWork

\* Setting the top state alone is such a step.
LEMMA SameWorkTop ==
    ASSUME NEW r \in Run, NEW top \in TopState
    PROVE  SameWork(r, [r EXCEPT !.top = top]) /\ [r EXCEPT !.top = top].top = top
  BY DEF SameWork, Run

\* So is leaving a state for a pause or a recovery, which notes the state left.
LEMMA SameWorkLeaving ==
    ASSUME NEW r \in Run, NEW top \in TopState
    PROVE  SameWork(r, LeavingFor(r, top)) /\ LeavingFor(r, top).top = top
<1> DEFINE pre == IF r.pre = "none" THEN r.top ELSE r.pre
<1>1. pre \in TopState \cup {"none"} BY DEF Run
<1> HIDE DEF pre
<1>2. /\ SameWork(r, [r EXCEPT !.top = top, !.pre = pre])
      /\ [r EXCEPT !.top = top, !.pre = pre].top = top
  BY <1>1 DEF SameWork, Run
<1> QED BY <1>2 DEF pre, LeavingFor

\* So is marking the instruction for the current node and attempt as injected.
LEMMA SameWorkInjected ==
    ASSUME NEW r \in Run
    PROVE  SameWork(r, MarkInjected(r)) /\ MarkInjected(r).top = r.top
<1>1. r.node \in Nodes \cup {NoNode} /\ r.attempt \in Nat \cup {-1} BY DEF Run
<1> QED BY <1>1 DEF SameWork, MarkInjected, Run

\* So is setting the count of re-injects,
LEMMA SameWorkReInject ==
    ASSUME NEW r \in Run, NEW n \in Nat
    PROVE  SameWork(r, [r EXCEPT !.reinj = n]) /\ [r EXCEPT !.reinj = n].top = r.top
  BY DEF SameWork, Run

\* the count of mismatches,
LEMMA SameWorkMismatch ==
    ASSUME NEW r \in Run, NEW n \in Nat
    PROVE  SameWork(r, [r EXCEPT !.mism = n]) /\ [r EXCEPT !.mism = n].top = r.top
  BY DEF SameWork, Run

\* or, on an accepted checkpoint, the counters it clears.
LEMMA SameWorkReceived ==
    ASSUME NEW r \in Run, NEW autos \in {0, r.autos}, NEW p \in BOOLEAN
    PROVE  /\ SameWork(r, [r EXCEPT !.mism = 0, !.proven = p, !.autos = autos])
           /\ [r EXCEPT !.mism = 0, !.proven = p, !.autos = autos].top = r.top
<1>1. autos \in Nat BY DEF Run
<1> QED BY <1>1 DEF SameWork, Run

\* What a resume makes of a paused run, whatever state it goes back to.
LEMMA SameWorkResumed ==
    ASSUME NEW r \in Run
    PROVE  /\ SameWork(r, Resumed(r))
           /\ \/ Resumed(r).top = r.top
              \/ Resumed(r).top \notin FinalStates /\ Resumed(r).granted
<1>1. CASE r.top # "PAUSED_FOR_HUMAN"
  BY <1>1 DEF SameWork, Resumed
<1>2. CASE r.top = "PAUSED_FOR_HUMAN"
  <2> DEFINE top == IF r.pre = "ATTACHED" THEN "ATTACHED" ELSE "RUNNING"
  <2> DEFINE reinj == IF r.pre = "ATTACHED" THEN 0 ELSE r.reinj
  <2> DEFINE s == [r EXCEPT !.top = top, !.reinj = reinj, !.autos = 0, !.mism = 0,
                            !.pre = "none", !.granted = TRUE, !.held = FALSE,
                            !.refused = FALSE]
  <2>1. top \in TopState /\ top \notin FinalStates BY DEF TopState, FinalStates
  <2>2. reinj \in Nat BY DEF Run
  <2>3. Resumed(r) = s BY <1>2 DEF Resumed
  <2> HIDE DEF top, reinj
  <2>4. SameWork(r, s) /\ s.top = top /\ s.granted BY <2>1, <2>2 DEF SameWork, Run
  <2> QED BY <2>1, <2>3, <2>4
<1> QED BY <1>1, <1>2

\* An auto-intervention counts itself and makes the run RUNNING, with g for granted.
LEMMA SameWorkIntervened ==
    ASSUME NEW r \in Run, NEW g \in BOOLEAN, r.granted => g
    PROVE  LET s == [r EXCEPT !.autos = @ + 1, !.top = "RUNNING", !.pre = "none",
                              !.granted = g]
           IN  SameWork(r, s) /\ s.top = "RUNNING" /\ s.granted = g
<1> DEFINE autos == r.autos + 1
<1>1. autos \in Nat BY DEF Run
<1> HIDE DEF autos
<1>2. LET s == [r EXCEPT !.autos = autos, !.top = "RUNNING", !.pre = "none", !.granted = g]
      IN  SameWork(r, s) /\ s.top = "RUNNING" /\ s.granted = g
  BY <1>1 DEF SameWork, Run, TopState
<1> QED BY <1>2 DEF autos

-------------------------------------------------------------------------------
(* Steps that change what is done, or what has failed *)

\* A new run is sound: nothing done, nothing failed, at the first node.
LEMMA NewRunSound == Sound(NewRun)
<1>1. NewRun \in Run
  BY SpecAssumption DEF NewRun, Run, TopState, Nodes, NoNode, Reviewers
<1>2. Earned(NewRun) /\ Judged(NewRun)
  BY DEF NewRun, Earned, Judged
<1>3. WithinBudget(NewRun)
  BY PolicyAssumption DEF NewRun, WithinBudget, Exhausted
<1>4. InOrder(NewRun)
  BY DEF NewRun, InOrder
<1> QED BY <1>1, <1>2, <1>3, <1>4 DEF Sound, Unfailed, NewRun, FinalStates

\* What a counted failure changes is the attempt, the budget and the grant alone.
LEMMA ChargedRun ==
    ASSUME NEW r \in Run
    PROVE  LET c == ChargeRetry(r)
           IN  /\ c \in Run
               /\ c.top = r.top /\ c.node = r.node /\ c.done = r.done
               /\ c.verdict = r.verdict /\ c.reviews = r.reviews /\ c.injNode = r.injNode
<1> DEFINE a == r.attempt + 1
<1> DEFINE u == r.used + 1
<1> DEFINE s == [r EXCEPT !.attempt = a, !.used = u, !.granted = FALSE]
<1>1. a \in Nat /\ u \in Nat BY DEF Run
<1> HIDE DEF a, u
<1>2. /\ s \in Run
      /\ s.top = r.top /\ s.node = r.node /\ s.done = r.done
      /\ s.verdict = r.verdict /\ s.reviews = r.reviews /\ s.injNode = r.injNode
  BY <1>1 DEF Run
<1>3. ChargeRetry(r) = s BY DEF ChargeRetry, a, u
<1> QED BY <1>2, <1>3

\* A failure may be counted if the run is then taken out of action, or if the
\* budget still has room.
LEMMA FailedSound ==
    ASSUME NEW r, NEW s \in Run, Sound(r),
           s.node = r.node, s.done = r.done,
           s.verdict = r.verdict \/ s.verdict = "failed",
           s.top \notin FinalStates,
           s.top \in InAction => ~Exhausted(s)
    PROVE  Sound(s)
<1>1. Earned(s) BY DEF Earned, FinalStates
<1>2. Judged(s) BY DEF Sound, Judged
<1>3. WithinBudget(s) BY DEF WithinBudget
<1>4. IsLinear => InOrder(s) BY DEF Sound, InOrder
<1> QED BY <1>1, <1>2, <1>3, <1>4 DEF Sound, Unfailed, NewRun, FinalStates

\* What a passed verification changes is the verdict and the done nodes alone.
LEMMA VerifiedRun ==
    ASSUME NEW r \in Run
    PROVE  LET v == Verified(r)
           IN  /\ v \in Run
               /\ v.top = r.top /\ v.node = r.node /\ v.verdict = "ok"
               /\ v.done = r.done \cup {r.node}
               /\ v.attempt = r.attempt /\ v.used = r.used
               /\ v.granted = r.granted /\ v.reviews = r.reviews /\ v.injNode = r.injNode
<1> DEFINE done == r.done \cup {r.node}
<1>1. done \in SUBSET Nodes BY DEF Run
<1> HIDE DEF done
<1>2. LET v == [r EXCEPT !.verdict = "ok", !.done = done]
      IN  /\ v \in Run
          /\ v.top = r.top /\ v.node = r.node /\ v.verdict = "ok"
          /\ v.done = done
          /\ v.attempt = r.attempt /\ v.used = r.used
          /\ v.granted = r.granted /\ v.reviews = r.reviews /\ v.injNode = r.injNode
  BY <1>1 DEF Run
<1> QED BY <1>2 DEF done, Verified

\* What moving to a node changes is the node, the attempt and the top state alone.
LEMMA MovedRun ==
    ASSUME NEW r \in Run, NEW n \in Nodes
    PROVE  LET m == MoveTo(r, n)
           IN  /\ m \in Run
               /\ m.top = "RUNNING" /\ m.node = n /\ m.attempt = 0
               /\ m.used = r.used /\ m.granted = r.granted
               /\ m.done = r.done /\ m.verdict = r.verdict
               /\ m.reviews = r.reviews /\ m.injNode = r.injNode
  BY DEF MoveTo, Run, TopState

\* Moving on clears the attempts, so a run in action stays within its budget.
LEMMA MovedWithinBudget ==
    ASSUME NEW r, NEW m, WithinBudget(r), r.top \in InAction,
           m.attempt = 0, m.used = r.used, m.granted = r.granted
    PROVE  WithinBudget(m)
  BY PolicyAssumption DEF WithinBudget, Exhausted

\* A successor of a node is a node of the spec; in a linear plan it is the one
\* listed next, and only the last node has none.
LEMMA NextNodeFact ==
    ASSUME NEW n \in Nodes
    PROVE  /\ NextNode(n) \in Nodes \cup {NoNode}
           /\ Kind = "linear_plan" =>
                 \/ n = N /\ NextNode(n) = NoNode
                 \/ n < N /\ NextNode(n) = n + 1
<1>1. CASE Kind = "linear_plan"
  BY <1>1, SpecAssumption DEF NextNode, Nodes, NoNode
<1>2. CASE Kind # "linear_plan"
  BY <1>2, SpecAssumption DEF NextNode, Nodes, NoNode
<1> QED BY <1>1, <1>2

\* The verifiers passed and there is a next node.
LEMMA AdvanceSound ==
    ASSUME NEW r, Sound(r), r.top = "VERIFYING", NextNode(r.node) # NoNode
    PROVE  Sound(MoveTo(Verified(r), NextNode(r.node)))
<1> DEFINE v == Verified(r)
<1> DEFINE m == MoveTo(v, NextNode(r.node))
<1>1. r \in Run /\ r.node \in Nodes BY DEF Sound, Run
<1>2. NextNode(r.node) \in Nodes BY <1>1, NextNodeFact
<1>3. /\ v \in Run
      /\ v.node = r.node /\ v.verdict = "ok" /\ v.done = r.done \cup {r.node}
      /\ v.used = r.used /\ v.granted = r.granted
  BY <1>1, VerifiedRun
<1>4. /\ m \in Run
      /\ m.top = "RUNNING" /\ m.node = NextNode(r.node) /\ m.attempt = 0
      /\ m.used = v.used /\ m.granted = v.granted
      /\ m.done = v.done /\ m.verdict = v.verdict
  BY <1>2, <1>3, MovedRun
<1> HIDE DEF v, m
<1>5. Earned(m) BY <1>4 DEF Earned
<1>6. Judged(m) BY <1>3, <1>4 DEF Judged
<1>7. WithinBudget(m)
  BY <1>3, <1>4, MovedWithinBudget DEF Sound, InAction
<1>8. IsLinear => InOrder(m)
  <2> SUFFICES ASSUME IsLinear PROVE InOrder(m) OBVIOUS
  <2>1. r.node < N /\ m.node = r.node + 1
    BY <1>1, <1>4, NextNodeFact DEF IsLinear
  <2>2. r.node \in Nat \ {0} /\ N \in Nat BY <1>1, SpecAssumption DEF Nodes
  <2>3. r.node # N BY <2>1, <2>2
  <2>4. r.done = 1 .. (r.node - 1) BY <2>3 DEF Sound, InOrder
  <2>5. m.done = 1 .. (m.node - 1) BY <1>3, <1>4, <2>1, <2>2, <2>4
  <2> QED BY <2>5 DEF InOrder
<1>9. Sound(m) BY <1>4, <1>5, <1>6, <1>7, <1>8 DEF Sound, Unfailed
<1> QED BY <1>9 DEF m, v

\* A decision node sends the run to one of its options.
LEMMA BranchSound ==
    ASSUME NEW r, Sound(r), NEW n \in Nodes, r.top \in InAction,
           r.node \in DecisionNodes
    PROVE  Sound(MoveTo(r, n))
<1> DEFINE m == MoveTo(r, n)
<1>1. /\ m \in Run
      /\ m.top = "RUNNING" /\ m.node = n /\ m.attempt = 0
      /\ m.used = r.used /\ m.granted = r.granted
      /\ m.done = r.done /\ m.verdict = r.verdict
  BY MovedRun DEF Sound
<1> HIDE DEF m
<1>2. Earned(m) BY <1>1 DEF Earned
<1>3. Judged(m) BY <1>1 DEF Sound, Judged
<1>4. WithinBudget(m) BY <1>1, MovedWithinBudget DEF Sound
<1>5. ~IsLinear BY DEF IsLinear
<1>6. Sound(m) BY <1>1, <1>2, <1>3, <1>4, <1>5 DEF Sound, Unfailed
<1> QED BY <1>6 DEF m

\* The verifiers passed at a node without a successor.
LEMMA LastNodeSound ==
    ASSUME NEW r, Sound(r), r.top = "VERIFYING", NextNode(r.node) = NoNode
    PROVE  Sound(Verified(r))
<1> DEFINE v == Verified(r)
<1>1. r \in Run /\ r.node \in Nodes BY DEF Sound, Run
<1>2. /\ v \in Run
      /\ v.top = r.top /\ v.node = r.node /\ v.verdict = "ok"
      /\ v.done = r.done \cup {r.node}
      /\ v.attempt = r.attempt /\ v.used = r.used /\ v.granted = r.granted
  BY <1>1, VerifiedRun
<1> HIDE DEF v
<1>3. Earned(v) BY <1>2 DEF Earned
<1>4. Judged(v) BY <1>2 DEF Judged
<1>5. WithinBudget(v) BY <1>2 DEF Sound, WithinBudget, Exhausted
<1>6. IsLinear => InOrder(v)
  <2> SUFFICES ASSUME IsLinear PROVE InOrder(v) OBVIOUS
  <2>1. r.node = N BY <1>1, NextNodeFact, SpecAssumption DEF IsLinear, NoNode, Nodes
  <2>2. N \in Nat \ {0} BY SpecAssumption
  <2>3. r.done = 1 .. (N - 1) \/ r.done = Nodes BY <2>1 DEF Sound, InOrder
  <2>4. v.done = Nodes BY <1>2, <2>1, <2>2, <2>3 DEF Nodes
  <2> QED BY <1>2, <2>1, <2>4 DEF InOrder
<1>7. Sound(v) BY <1>2, <1>3, <1>4, <1>5, <1>6 DEF Sound, Unfailed
<1> QED BY <1>7 DEF v

\* What passes the finish gate has earned its completion: required nodes that are
\* done leave no verification pending.
LEMMA FinishedSound ==
    ASSUME NEW r, Sound(r), NEW extras, FinishOk(r, extras)
    PROVE  Sound([r EXCEPT !.top = "COMPLETED"])
<1> DEFINE s == [r EXCEPT !.top = "COMPLETED"]
<1>1. r \in Run /\ r.node \in Nodes /\ r.done \subseteq Nodes BY DEF Sound, Run
<1>2. SameWork(r, s) /\ s.top = "COMPLETED"
  BY <1>1, SameWorkTop DEF TopState, FinalStates
<1> HIDE DEF s
<1>3. RequireAll => r.done # {}
  <2>1. 1 \in Nodes BY SpecAssumption DEF Nodes
  <2>2. RequiredNodes(r) # {} BY <2>1 DEF RequiredNodes
  <2> QED BY <2>2 DEF FinishOk
<1>4. RequireAll /\ RequireVerify => r.verdict = "ok"
  <2>1. r.verdict \in {"pending", "ok", "failed"} BY <1>1 DEF Run
  <2> QED BY <1>3, <2>1 DEF Sound, Judged, FinishOk
<1>5. Earned(s)
  <2>1. RequiredNodes(s) = RequiredNodes(r) BY <1>2 DEF SameWork, RequiredNodes
  <2> QED BY <1>2, <1>4, <2>1 DEF Earned, FinishOk, SameWork
<1>6. Judged(s) BY <1>2 DEF Sound, Judged, SameWork
<1>7. WithinBudget(s) BY <1>2 DEF WithinBudget, InAction
<1>8. IsLinear => InOrder(s) BY <1>2 DEF Sound, InOrder, SameWork
<1>9. Sound(s) BY <1>2, <1>5, <1>6, <1>7, <1>8 DEF Sound, SameWork, Unfailed
<1> QED BY <1>9 DEF s

\* A review more can only help.
LEMMA ReviewedSound ==
    ASSUME NEW r, Sound(r), NEW reviewer \in Reviewers
    PROVE  Sound([r EXCEPT !.reviews = @ \cup {reviewer}])
<1> DEFINE reviews == r.reviews \cup {reviewer}
<1> DEFINE s == [r EXCEPT !.reviews = reviews]
<1>1. r \in Run BY DEF Sound
<1>2. reviews \in SUBSET Reviewers BY <1>1 DEF Run
<1>3. ReviewMet(r.reviews) => ReviewMet(reviews)
  BY PolicyAssumption DEF ReviewMet, Reviewers
<1> HIDE DEF reviews
<1>4. /\ s \in Run
      /\ s.top = r.top /\ s.node = r.node /\ s.done = r.done
      /\ s.verdict = r.verdict /\ s.attempt = r.attempt /\ s.used = r.used
      /\ s.granted = r.granted /\ s.reviews = reviews
  BY <1>1, <1>2 DEF Run
<1> HIDE DEF s
<1>5. RequiredNodes(s) = RequiredNodes(r) BY <1>4 DEF RequiredNodes
<1>6. Earned(s) BY <1>3, <1>4, <1>5 DEF Sound, Earned
<1>7. Judged(s) BY <1>4 DEF Sound, Judged
<1>8. WithinBudget(s) BY <1>4 DEF Sound, WithinBudget, Exhausted
<1>9. IsLinear => InOrder(s) BY <1>4 DEF Sound, InOrder
<1>10. Sound(s) BY <1>4, <1>6, <1>7, <1>8, <1>9 DEF Sound, Unfailed
<1> QED BY <1>10 DEF s, reviews

-------------------------------------------------------------------------------
(* The steps the sidecar and the daemon are made of *)

\* The loop goes round exactly while the run is in action.
LEMMA InActionTops ==
    InAction = LoopStates /\ InAction \subseteq TopState
  BY DEF InAction, LoopStates, TopState, Stoppable, FinalStates

\* The transition table lets only a run in action enter recovery.
LEMMA CanRecover ==
    ASSUME NEW top \in TopState, CanTransition(top, "RECOVERY_NEEDED")
    PROVE  top \in InAction
  BY DEF CanTransition, AllowedTransitions, TopState, Stoppable, FinalStates, InAction

\* A sound run may be given any top state but a final one that its budget allows.
LEMMA RetopSound ==
    ASSUME NEW r, Sound(r), NEW top \in TopState \ FinalStates,
           top \in InAction => (r.top \in InAction \/ ~Exhausted(r) \/ r.granted)
    PROVE  Sound([r EXCEPT !.top = top]) /\ [r EXCEPT !.top = top].top = top
<1> DEFINE s == [r EXCEPT !.top = top]
<1>1. SameWork(r, s) /\ s.top = top BY SameWorkTop DEF Sound
<1>2. r.granted => s.granted BY <1>1 DEF SameWork
<1> HIDE DEF s
<1>3. Sound(s) BY <1>1, <1>2, SameWorkSound
<1> QED BY <1>1, <1>3 DEF s

\* Pausing keeps a run sound, whatever it was doing.
LEMMA PauseSound ==
    ASSUME NEW r, Sound(r)
    PROVE  Sound(Pause(r)) /\ Pause(r).top = "PAUSED_FOR_HUMAN"
<1>1. SameWork(r, Pause(r)) /\ Pause(r).top = "PAUSED_FOR_HUMAN"
  BY SameWorkLeaving DEF Sound, Pause, TopState
<1> QED BY <1>1, SameWorkSound DEF InAction, FinalStates

\* So does entering recovery from a run in action.
LEMMA RecoverySound ==
    ASSUME NEW r, Sound(r), r.top \in InAction
    PROVE  Sound(EnterRecovery(r)) /\ EnterRecovery(r).top = "RECOVERY_NEEDED"
<1>1. SameWork(r, EnterRecovery(r)) /\ EnterRecovery(r).top = "RECOVERY_NEEDED"
  BY SameWorkLeaving DEF Sound, EnterRecovery, TopState
<1> QED BY <1>1, SameWorkSound DEF FinalStates

\* Marking the instruction as injected keeps a run sound, in the same top state.
LEMMA InjectedSound ==
    ASSUME NEW r, Sound(r)
    PROVE  Sound(MarkInjected(r)) /\ MarkInjected(r).top = r.top
<1>1. SameWork(r, MarkInjected(r)) /\ MarkInjected(r).top = r.top
  BY SameWorkInjected DEF Sound
<1> QED BY <1>1, SameWorkSound

\* The arrival of an event keeps a run sound and in action.
LEMMA EventSound ==
    ASSUME NEW r, Sound(r)
    PROVE  /\ Sound(EventArrives(r))
           /\ r.top \in InAction => EventArrives(r).top \in InAction
<1>1. CASE r.top \in GatedByEvent
  <2>1. EventArrives(r) = [r EXCEPT !.top = "GATING"] BY <1>1 DEF EventArrives
  <2>2. r.top \in InAction BY <1>1 DEF GatedByEvent, InAction
  <2>3. "GATING" \in TopState \ FinalStates BY DEF TopState, FinalStates
  <2>4. Sound([r EXCEPT !.top = "GATING"]) /\ [r EXCEPT !.top = "GATING"].top = "GATING"
    BY <2>2, <2>3, RetopSound
  <2> QED BY <2>1, <2>4 DEF InAction
<1>2. CASE r.top \notin GatedByEvent
  <2>1. r.top \in TopState BY DEF Sound, Run
  <2>2. SameWork(r, [r EXCEPT !.top = r.top]) /\ [r EXCEPT !.top = r.top].top = r.top
    BY <2>1, SameWorkTop DEF Sound
  <2>3. EventArrives(r) = [r EXCEPT !.top = r.top] BY <1>2 DEF EventArrives
  <2> QED BY <2>2, <2>3, SameWorkSound
<1> QED BY <1>1, <1>2

\* Clearing counters on an accepted checkpoint keeps the run sound.
LEMMA ReceivedSound ==
    ASSUME NEW cp, Sound(run)
    PROVE  Sound(Received(cp))
<1>1. run \in Run BY DEF Sound
<1>2. PICK autos \in {0, run.autos}, p \in BOOLEAN :
          Received(cp) = [run EXCEPT !.mism = 0, !.proven = p, !.autos = autos]
  <2> DEFINE shown == run.proven \/ ~cp.admin
  <2>1. shown \in BOOLEAN BY <1>1 DEF Run
  <2>2. CASE cp.status \in ProgressStatus
    <3>1. Received(cp) = [run EXCEPT !.mism = 0, !.proven = shown, !.autos = 0]
      BY <1>1, <2>2 DEF Received, ResetRecoveryTracking, Run
    <3> HIDE DEF shown
    <3> QED BY <2>1, <3>1
  <2>3. CASE cp.status \notin ProgressStatus
    <3>1. Received(cp) = [run EXCEPT !.mism = 0, !.proven = shown, !.autos = run.autos]
      BY <1>1, <2>3 DEF Received, Run
    <3> HIDE DEF shown
    <3> QED BY <2>1, <3>1
  <2> QED BY <2>2, <2>3
<1> DEFINE s == [run EXCEPT !.mism = 0, !.proven = p, !.autos = autos]
<1>3. SameWork(run, s) /\ s.top = run.top BY <1>1, SameWorkReceived
<1>4. Sound(s)
  <2> HIDE DEF s
  <2> QED BY <1>3, SameWorkSound
<1> QED BY <1>2, <1>4

\* Any count of re-injects will do,
LEMMA ReInjectSound ==
    ASSUME NEW r, Sound(r), NEW n \in Nat
    PROVE  Sound([r EXCEPT !.reinj = n]) /\ [r EXCEPT !.reinj = n].top = r.top
<1> DEFINE s == [r EXCEPT !.reinj = n]
<1>1. SameWork(r, s) /\ s.top = r.top BY SameWorkReInject DEF Sound
<1> HIDE DEF s
<1>2. Sound(s) BY <1>1, SameWorkSound
<1> QED BY <1>1, <1>2 DEF s

\* the next one in particular.
LEMMA CountReInjectSound ==
    ASSUME NEW r, Sound(r)
    PROVE  Sound(CountReInject(r)) /\ CountReInject(r).top = r.top
<1> DEFINE n == IF r.reinj <= MaxReInjects THEN r.reinj + 1 ELSE r.reinj
<1>1. n \in Nat BY DEF Sound, Run
<1> HIDE DEF n
<1>2. Sound([r EXCEPT !.reinj = n]) /\ [r EXCEPT !.reinj = n].top = r.top
  BY <1>1, ReInjectSound
<1> QED BY <1>2 DEF n, CountReInject

\* Counting a mismatch keeps a run sound, in the same top state.
LEMMA MismatchSound ==
    ASSUME NEW r, Sound(r)
    PROVE  LET s == [r EXCEPT !.mism = @ + 1]
           IN  Sound(s) /\ s.top = r.top
<1> DEFINE n == r.mism + 1
<1>1. n \in Nat BY DEF Sound, Run
<1> HIDE DEF n
<1>2. SameWork(r, [r EXCEPT !.mism = n]) /\ [r EXCEPT !.mism = n].top = r.top
  BY <1>1, SameWorkMismatch DEF Sound
<1>3. Sound([r EXCEPT !.mism = n]) BY <1>2, SameWorkSound
<1> QED BY <1>2, <1>3 DEF n

\* Noting the state that could not be left, without leaving it.
LEMMA NotLeftSound ==
    ASSUME NEW r, NEW top \in TopState, Sound(r)
    PROVE  Sound(Refused(r, top))
<1> DEFINE l == LeavingFor(r, top)
<1> DEFINE s == [l EXCEPT !.top = r.top, !.refused = TRUE]
<1>1. r \in Run /\ r.top \in TopState BY DEF Sound, Run
<1>2. SameWork(r, l) BY <1>1, SameWorkLeaving
<1> HIDE DEF l
<1>3. SameWork(l, s) /\ s.top = r.top BY <1>1, <1>2 DEF SameWork, Run
<1>4. SameWork(r, s) BY <1>2, <1>3, SameWorkTwice
<1> HIDE DEF s
<1>5. Sound(s) BY <1>3, <1>4, SameWorkSound
<1> QED BY <1>5 DEF s, l, Refused

\* Noting that a run was put before a human keeps it sound, in the same top state.
LEMMA HeldSound ==
    ASSUME NEW r, Sound(r), NEW h \in BOOLEAN
    PROVE  Sound([r EXCEPT !.held = h]) /\ [r EXCEPT !.held = h].top = r.top
<1> DEFINE s == [r EXCEPT !.held = h]
<1>1. SameWork(r, s) /\ s.top = r.top BY DEF Sound, SameWork, Run
<1> HIDE DEF s
<1>2. Sound(s) BY <1>1, SameWorkSound
<1> QED BY <1>1, <1>2 DEF s

-------------------------------------------------------------------------------
(* The two copies of the run and the thread *)

\* What the thread's step says about its copy of the run.
Placed ==
    /\ pc \in {"poll", "inject", "deliver"} => run.top \in InAction
    /\ pc = "decide" => run.top \in {"GATING", "ATTACHED"}
    /\ pc = "verify" => run.top = "VERIFYING" /\ run.node \notin DecisionNodes
    /\ pc = "recover" => run.top = "RECOVERY_NEEDED"
    /\ pc = "rescue" => run.top = "PAUSED_FOR_HUMAN"

IInv == Sound(run) /\ Sound(disk) /\ Placed

\* A thread lives in a daemon.
Alive == pc # "off" => up

-------------------------------------------------------------------------------
(* The inductive invariant, one lemma for each group of actions *)

\* The invariant holds initially.
LEMMA InitIInv == Init => IInv
<1> SUFFICES ASSUME Init PROVE IInv OBVIOUS
<1>1. Sound(run) /\ Sound(disk) BY NewRunSound DEF Init
<1>2. Placed BY DEF Init, Placed
<1> QED BY <1>1, <1>2 DEF IInv

\* A saved run in any sound state, and a thread whose step says nothing of it.
LEMMA SavedKeeps ==
    ASSUME NEW r, Sound(r), Save(r), pc' \in {"off", "boot", "batch"}
    PROVE  IInv'
  BY DEF Save, IInv, Placed

\* A saved run in action, and a thread about to poll or to deliver.
LEMMA InActionKeeps ==
    ASSUME NEW r, Sound(r), Save(r), r.top \in InAction, pc' \in {"poll", "deliver"}
    PROVE  IInv'
  BY DEF Save, IInv, Placed

\* The start of the thread keeps the invariant.
LEMMA BootKeeps == IInv /\ Boot => IInv'
<1> SUFFICES ASSUME IInv, Boot PROVE IInv' OBVIOUS
<1>1. Sound(run) /\ run \in Run BY DEF IInv, Sound
<1>2. run.top = "READY" => Sound(Attached) /\ Attached.top = "ATTACHED"
  <2> SUFFICES ASSUME run.top = "READY" PROVE Sound(Attached) /\ Attached.top = "ATTACHED"
    OBVIOUS
  <2>1. "ATTACHED" \in TopState \ FinalStates BY DEF TopState, FinalStates
  <2>2. run.top \in InAction BY DEF InAction
  <2> QED BY <1>1, <2>1, <2>2, RetopSound DEF Attached
<1>3. CASE BootSeesCheckpoint
  <2>1. Sound(MarkInjected(Attached)) /\ MarkInjected(Attached).top = "ATTACHED"
    BY <1>2, <1>3, InjectedSound DEF BootSeesCheckpoint
  <2>2. Sound(run') /\ Sound(disk') BY <1>2, <1>3, <2>1 DEF BootSeesCheckpoint
  <2>3. Placed' BY <1>3, <2>1 DEF BootSeesCheckpoint, Placed, InAction
  <2> QED BY <2>2, <2>3 DEF IInv
<1>4. CASE BootInjects
  <2>1. Sound(MarkInjected(Attached)) /\ MarkInjected(Attached).top = "ATTACHED"
    BY <1>2, <1>4, InjectedSound DEF BootInjects
  <2> QED BY <1>4, <2>1, InActionKeeps DEF BootInjects, InAction
<1>5. CASE BootObserves
  BY <1>2, <1>5, InActionKeeps DEF BootObserves, InAction
<1>6. CASE BootResumed
  BY <1>6 DEF BootResumed, IInv, Placed, InAction
<1>7. CASE BootStranded
  BY <1>1, <1>7, PauseSound, SavedKeeps DEF BootStranded, EndThread
<1>8. CASE BootFails
  <2>1. pc' = "off" BY <1>8 DEF BootFails, EndThread
  <2>2. CASE UNCHANGED <<run, disk>> BY <2>1, <2>2 DEF IInv, Placed
  <2>3. CASE run.top = "READY" /\ Save(Attached) BY <1>2, <2>1, <2>3, SavedKeeps
  <2> QED BY <1>8, <2>2, <2>3 DEF BootFails
<1> QED BY <1>3, <1>4, <1>5, <1>6, <1>7, <1>8 DEF Boot

\* Entering recovery in memory, with a sound run on disk.
LEMMA RecoverFromKeeps ==
    ASSUME NEW r, NEW why, Sound(r), r.top \in InAction, RecoverFrom(r, why), Sound(disk')
    PROVE  IInv'
<1>1. Sound(run') /\ run'.top = "RECOVERY_NEEDED" BY RecoverySound DEF RecoverFrom
<1>2. pc' = "recover" BY DEF RecoverFrom
<1> QED BY <1>1, <1>2 DEF IInv, Placed

\* The top of the loop keeps the invariant: it runs only for a run in action.
LEMMA PollKeeps == IInv /\ Poll => IInv'
<1> SUFFICES ASSUME IInv, Poll PROVE IInv' OBVIOUS
<1>1. Sound(run) /\ Sound(disk) BY DEF IInv
<1>2. run.top \in InAction
  BY DEF IInv, Placed, Poll, Interrupt, DeliveryTimeout, IdleTimeout, OutageSeen, OutageRetry
<1>3. CASE Interrupt BY <1>1, <1>3, SavedKeeps DEF Interrupt, EndThread
<1>4. CASE DeliveryTimeout BY <1>1, <1>2, <1>4, RecoverFromKeeps DEF DeliveryTimeout
<1>5. CASE IdleTimeout
  BY <1>1, <1>2, <1>5, EventSound, RecoverFromKeeps DEF IdleTimeout
<1>6. CASE OutageSeen BY <1>1, <1>2, <1>6 DEF OutageSeen, IInv, Placed
<1>7. CASE OutageRetry
  BY <1>1, <1>2, <1>7, InjectedSound, InActionKeeps DEF OutageRetry
<1> QED BY <1>3, <1>4, <1>5, <1>6, <1>7 DEF Poll

\* Reading a checkpoint keeps it, for a run that has paused or finished as well.
LEMMA ReadKeeps == IInv /\ Read => IInv'
<1> SUFFICES ASSUME IInv, Read PROVE IInv' OBVIOUS
<1>1. Sound(run) /\ Sound(disk) /\ run \in Run /\ run.top \in TopState
  BY DEF IInv, Sound, Run
<1>2. CASE Mismatch
  <2> DEFINE r == [run EXCEPT !.mism = @ + 1]
  <2>1. Sound(r) /\ r.top = run.top BY <1>1, MismatchSound
  <2>2. \/ Save(r) /\ pc' = "batch"
        \/ CanTransition(r.top, "RECOVERY_NEEDED") /\ disk' = r /\ RecoverFrom(r, "mismatch")
        \/ Save(Refused(r, "RECOVERY_NEEDED")) /\ EndThread
    BY <1>2 DEF Mismatch
  <2> HIDE DEF r
  <2>3. CASE Save(r) /\ pc' = "batch" BY <2>1, <2>3, SavedKeeps
  <2>4. CASE CanTransition(r.top, "RECOVERY_NEEDED") /\ disk' = r /\ RecoverFrom(r, "mismatch")
    <3>1. r.top \in InAction BY <1>1, <2>1, <2>4, CanRecover
    <3> QED BY <2>1, <2>4, <3>1, RecoverFromKeeps
  <2>5. CASE Save(Refused(r, "RECOVERY_NEEDED")) /\ EndThread
    <3>1. Sound(Refused(r, "RECOVERY_NEEDED")) BY <2>1, NotLeftSound DEF TopState
    <3> QED BY <2>5, <3>1, SavedKeeps DEF EndThread
  <2> QED BY <2>2, <2>3, <2>4, <2>5
<1>3. CASE StaleObservation
  <2>1. Sound(Pause(run)) BY <1>1, PauseSound
  <2>2. Sound(Refused(run, "PAUSED_FOR_HUMAN")) BY <1>1, NotLeftSound DEF TopState
  <2>3. pc' = "off" BY <1>3 DEF StaleObservation, EndThread
  <2>4. Save(Pause(run)) \/ Save(Refused(run, "PAUSED_FOR_HUMAN"))
    BY <1>3 DEF StaleObservation
  <2> QED BY <2>1, <2>2, <2>3, <2>4, SavedKeeps
<1>4. ASSUME NEW cp \in Reports, Accept(cp) PROVE IInv'
  <2> DEFINE r == EventArrives(Received(cp))
  <2>1. Sound(r) BY <1>1, ReceivedSound, EventSound
  <2>2. run' = r /\ disk' = disk BY <1>4 DEF Accept
  <2>3. \/ pc' = "decide" /\ r.top \in {"GATING", "ATTACHED"}
        \/ pc' = "batch"
    BY <1>4 DEF Accept
  <2> HIDE DEF r
  <2> QED BY <1>1, <2>1, <2>2, <2>3 DEF IInv, Placed
<1> QED BY <1>2, <1>3, <1>4 DEF Read

\* So does the end of a text.
LEMMA EndBatchKeeps == IInv /\ EndBatch => IInv'
<1> SUFFICES ASSUME IInv, EndBatch PROVE IInv' OBVIOUS
<1>1. Sound(run) BY DEF IInv
<1>2. \/ run.top = "RUNNING" /\ Save(MarkInjected(run)) /\ pc' = "deliver"
      \/ run.top \in LoopStates /\ Save(run) /\ pc' = "poll"
      \/ Save(run) /\ EndThread
  BY DEF EndBatch
<1>3. CASE run.top = "RUNNING" /\ Save(MarkInjected(run)) /\ pc' = "deliver"
  BY <1>1, <1>3, InjectedSound, InActionKeeps DEF InAction
<1>4. CASE run.top \in LoopStates /\ Save(run) /\ pc' = "poll"
  BY <1>1, <1>4, InActionTops, InActionKeeps
<1>5. CASE Save(run) /\ EndThread
  BY <1>1, <1>5, SavedKeeps DEF EndThread
<1> QED BY <1>2, <1>3, <1>4, <1>5

\* A sound run in memory, and the next checkpoint.
LEMMA NextCheckpointKeeps ==
    ASSUME NEW r, IInv, Sound(r), NextCheckpoint(r)
    PROVE  IInv'
  BY DEF NextCheckpoint, IInv, Placed

\* A run in action, and an instruction to be composed.
LEMMA ComposeKeeps ==
    ASSUME NEW r, IInv, Sound(r), r.top \in InAction, Compose(r)
    PROVE  IInv'
  BY DEF Compose, IInv, Placed

\* A run in action whose worker is told of it only if it does not know.
LEMMA InjectIfNeededKeeps ==
    ASSUME NEW r, IInv, Sound(r), r.top \in InAction, InjectIfNeeded(r)
    PROVE  IInv'
  BY ComposeKeeps, NextCheckpointKeeps DEF InjectIfNeeded

\* A sound run that is paused, for good or so that a recipe may take the pause back.
LEMMA PausesKeep ==
    ASSUME NEW r, IInv, Sound(r), PauseForGood(r) \/ PauseQuoting(r)
    PROVE  IInv'
<1>1. Sound(Pause(r)) /\ Pause(r).top = "PAUSED_FOR_HUMAN" BY PauseSound
<1>2. CASE PauseForGood(r) BY <1>1, <1>2, NextCheckpointKeeps DEF PauseForGood
<1>3. CASE PauseFor(r, "quoted") BY <1>1, <1>3 DEF PauseFor, IInv, Placed
<1> QED BY <1>2, <1>3 DEF PauseQuoting

\* A failure counted: c is the run with the failure, b the run before it.
LEMMA RetryOrPauseKeeps ==
    ASSUME NEW b, NEW c \in Run, IInv, Sound(b),
           c.node = b.node, c.done = b.done,
           c.verdict = b.verdict \/ c.verdict = "failed",
           c.top \notin FinalStates,
           RetryOrPause(c)
    PROVE  IInv'
<1>1. CASE Exhausted(c)
  <2>1. SameWork(c, Pause(c)) /\ Pause(c).top = "PAUSED_FOR_HUMAN"
    BY SameWorkLeaving DEF Pause, TopState
  <2>2. Sound(Pause(c)) BY <2>1, FailedSound DEF SameWork, InAction, FinalStates
  <2>3. run' = Pause(c) /\ disk' = disk /\ pc' = "rescue"
    BY <1>1 DEF RetryOrPause, PauseExhausted, PauseFor
  <2> QED BY <2>1, <2>2, <2>3 DEF IInv, Placed
<1>2. CASE ~Exhausted(c)
  <2> DEFINE s == [c EXCEPT !.top = "RUNNING"]
  <2>1. SameWork(c, s) /\ s.top = "RUNNING" BY SameWorkTop DEF TopState
  <2>2. InjectIfNeeded(s) BY <1>2 DEF RetryOrPause
  <2> HIDE DEF s
  <2>3. ~Exhausted(s) BY <1>2, <2>1 DEF SameWork, Exhausted
  <2>4. Sound(s) BY <2>1, <2>3, FailedSound DEF SameWork, FinalStates
  <2> QED BY <2>1, <2>2, <2>4, InjectIfNeededKeeps DEF InAction
<1> QED BY <1>1, <1>2

\* Every decision of the gate keeps the invariant.
LEMMA JudgeKeeps == IInv /\ Judge => IInv'
<1> SUFFICES ASSUME IInv, Judge PROVE IInv' OBVIOUS
<1> DEFINE r0 == [run EXCEPT !.reinj = 0]
<1>1. Sound(run) /\ run \in Run /\ run.top \in InAction /\ run.top \notin FinalStates
  BY DEF IInv, Sound, Placed, Judge, Continue, VerifyStep, ReInject, Retry, EscalateToHuman,
         Decided, Answers, Branch, BranchUndecided, InAction, FinalStates
<1>2. Sound(r0) /\ r0.top = run.top /\ r0 \in Run
  BY <1>1, ReInjectSound DEF Sound
<1>3. /\ r0.node = run.node /\ r0.done = run.done /\ r0.verdict = run.verdict
      /\ r0.top \notin FinalStates
  BY <1>1 DEF Run
<1>4. \A top \in {"RUNNING", "VERIFYING"} :
         /\ Sound([run EXCEPT !.reinj = 0, !.top = top])
         /\ [run EXCEPT !.reinj = 0, !.top = top].top = top
  <2> SUFFICES ASSUME NEW top \in {"RUNNING", "VERIFYING"}
               PROVE  /\ Sound([r0 EXCEPT !.top = top])
                      /\ [r0 EXCEPT !.top = top].top = top
    OBVIOUS
  <2>1. top \in TopState \ FinalStates BY DEF TopState, FinalStates
  <2> HIDE DEF r0
  <2> QED BY <1>1, <1>2, <2>1, RetopSound
<1>5. ASSUME NEW d, Continue(d) PROVE IInv'
  <2> DEFINE r == [run EXCEPT !.reinj = 0, !.top = "RUNNING"]
  <2>1. Sound(r) /\ r.top = "RUNNING" BY <1>4
  <2>2. \/ run' = r /\ pc' = "batch" /\ disk' = disk
        \/ InjectIfNeeded(r)
    BY <1>5 DEF Continue
  <2> HIDE DEF r
  <2>3. CASE run' = r /\ pc' = "batch" /\ disk' = disk BY <2>1, <2>3 DEF IInv, Placed
  <2>4. CASE InjectIfNeeded(r) BY <2>1, <2>4, InjectIfNeededKeeps DEF InAction
  <2> QED BY <2>2, <2>3, <2>4
<1>6. ASSUME NEW d, VerifyStep(d) PROVE IInv'
  <2>1. Sound(run') /\ run'.top = "VERIFYING" BY <1>4, <1>6 DEF VerifyStep
  <2>2. disk' = disk /\ pc' = "verify" BY <1>6 DEF VerifyStep
  <2>3. run'.node = run.node /\ run.node \notin DecisionNodes
    BY <1>1, <1>6 DEF VerifyStep, Decided, Answers, Run
  <2> QED BY <2>1, <2>2, <2>3 DEF IInv, Placed
<1>7. ASSUME NEW d, ReInject(d) PROVE IInv'
  <2> DEFINE r == CountReInject(run)
  <2>1. Sound(r) BY <1>1, CountReInjectSound
  <2>2. Sound(Pause(r)) BY <2>1, PauseSound
  <2>3. \/ NextCheckpoint(Pause(r))
        \/ r.top = "ATTACHED" /\ Compose(r)
        \/ NextCheckpoint(r)
    BY <1>7 DEF ReInject
  <2> HIDE DEF r
  <2>4. CASE r.top = "ATTACHED" /\ Compose(r)
    BY <2>1, <2>4, ComposeKeeps DEF InAction
  <2> QED BY <2>1, <2>2, <2>3, <2>4, NextCheckpointKeeps
<1>8. ASSUME NEW d, Retry(d) PROVE IInv'
  <2> DEFINE c == ChargeRetry(r0)
  <2>1. /\ c \in Run
        /\ c.top = r0.top /\ c.node = r0.node /\ c.done = r0.done
        /\ c.verdict = r0.verdict
    BY <1>2, ChargedRun
  <2>2. RetryOrPause(c) BY <1>8 DEF Retry
  <2> HIDE DEF c, r0
  <2> QED BY <1>2, <1>3, <2>1, <2>2, RetryOrPauseKeeps
<1>9. ASSUME NEW d, EscalateToHuman(d) PROVE IInv'
  <2>1. Sound([run EXCEPT !.held = TRUE]) BY <1>1, HeldSound
  <2> QED BY <1>1, <1>9, <2>1, PausesKeep DEF EscalateToHuman
<1>10. ASSUME NEW n \in Nodes, Branch(n) PROVE IInv'
  <2>1. Sound(MoveTo(run, n)) BY <1>1, <1>10, BranchSound DEF Branch
  <2>2. MoveTo(run, n).top = "RUNNING" BY <1>1, MovedRun
  <2> QED BY <1>10, <2>1, <2>2, InjectIfNeededKeeps DEF Branch, InAction
<1>11. CASE BranchUndecided
  BY <1>1, <1>11, PausesKeep DEF BranchUndecided
<1> QED BY <1>5, <1>6, <1>7, <1>8, <1>9, <1>10, <1>11 DEF Judge

\* Every outcome of a verification does, the finish gate included.
LEMMA VerifyKeeps == IInv /\ Verify => IInv'
<1> SUFFICES ASSUME IInv, Verify PROVE IInv' OBVIOUS
<1>1. Sound(run) /\ run \in Run /\ run.node \in Nodes /\ run.top = "VERIFYING"
  BY DEF IInv, Sound, Run, Placed, Verify, VerifyPasses, VerifyFails
<1>2. ASSUME NEW extras \in Extras, VerifyPasses(extras) PROVE IInv'
  <2> DEFINE v == Verified(run)
  <2> DEFINE next == NextNode(run.node)
  <2>1. CASE next # NoNode
    <3>1. Sound(MoveTo(v, next)) BY <1>1, <2>1, AdvanceSound
    <3>2. v \in Run /\ next \in Nodes BY <1>1, <2>1, VerifiedRun, NextNodeFact
    <3>3. MoveTo(v, next).top = "RUNNING" BY <3>2, MovedRun
    <3>4. InjectIfNeeded(MoveTo(v, next)) BY <1>2, <2>1 DEF VerifyPasses
    <3> QED BY <3>1, <3>3, <3>4, InjectIfNeededKeeps DEF InAction
  <2>2. CASE next = NoNode
    <3>1. Sound(v) BY <1>1, <2>2, LastNodeSound
    <3>2. \/ FinishOk(v, extras) /\ NextCheckpoint([v EXCEPT !.top = "COMPLETED"])
          \/ PauseForGood(v) \/ PauseQuoting(v)
      BY <1>2, <2>2 DEF VerifyPasses
    <3> HIDE DEF v
    <3>3. CASE FinishOk(v, extras) /\ NextCheckpoint([v EXCEPT !.top = "COMPLETED"])
      BY <3>1, <3>3, FinishedSound, NextCheckpointKeeps
    <3>4. CASE PauseForGood(v) \/ PauseQuoting(v)
      BY <3>1, <3>4, PausesKeep
    <3> QED BY <3>2, <3>3, <3>4
  <2> QED BY <2>1, <2>2
<1>3. CASE VerifyFails
  <2> DEFINE f == [run EXCEPT !.verdict = "failed"]
  <2> DEFINE c == ChargeRetry(f)
  <2>1. /\ f \in Run
        /\ f.top = run.top /\ f.node = run.node /\ f.done = run.done
        /\ f.verdict = "failed"
    BY <1>1 DEF Run
  <2>2. RetryOrPause(c) BY <1>3 DEF VerifyFails
  <2> HIDE DEF f
  <2>3. /\ c \in Run
        /\ c.top = f.top /\ c.node = f.node /\ c.done = f.done /\ c.verdict = f.verdict
    BY <2>1, ChargedRun
  <2> HIDE DEF c
  <2> QED BY <1>1, <2>1, <2>2, <2>3, RetryOrPauseKeeps DEF FinalStates
<1> QED BY <1>2, <1>3 DEF Verify

\* So does the injection of an instruction, saved before it is made,
LEMMA InjectKeeps == IInv /\ Inject => IInv'
<1> SUFFICES ASSUME IInv, Inject PROVE IInv' OBVIOUS
<1>1. Sound(run) /\ run.top \in InAction BY DEF IInv, Placed, Inject
<1> QED BY <1>1, InjectedSound, InActionKeeps DEF Inject

\* a delivery, made or failed,
LEMMA DeliverKeeps == IInv /\ Deliver => IInv'
<1> SUFFICES ASSUME IInv, Deliver PROVE IInv' OBVIOUS
<1>1. Sound(run) /\ Sound(disk) /\ run.top \in InAction
  BY DEF IInv, Placed, Deliver, Delivered, DeliveryFails, HandoffFails
<1>2. CASE Delivered BY <1>1, <1>2 DEF Delivered, IInv, Placed
<1>3. ASSUME NEW why, DeliveryFails(why) PROVE IInv'
  BY <1>1, <1>3, RecoverFromKeeps DEF DeliveryFails
<1>4. CASE HandoffFails
  BY <1>1, <1>4, PauseSound, SavedKeeps DEF HandoffFails, EndThread
<1> QED BY <1>2, <1>3, <1>4 DEF Deliver

\* an auto-intervention or its refusal,
LEMMA RescueKeeps == IInv /\ Rescue => IInv'
<1> SUFFICES ASSUME IInv, Rescue PROVE IInv' OBVIOUS
<1>1. Sound(run) /\ Sound(disk) /\ run \in Run /\ run.granted \in BOOLEAN
  BY DEF IInv, Sound, Run
<1>2. CASE AutoIntervene
  <2> DEFINE g == run.granted \/ pc = "rescue"
  <2> DEFINE s == [run EXCEPT !.autos = @ + 1, !.top = "RUNNING", !.pre = "none",
                              !.granted = g]
  <2>1. SameWork(run, s) /\ s.top = "RUNNING" /\ s.granted = g
    BY <1>1, SameWorkIntervened
  <2>2. Save(s) /\ pc' = "poll" BY <1>2 DEF AutoIntervene
  <2>3. run.top \in InAction \/ g
    BY <1>2 DEF AutoIntervene, IInv, Placed, InAction
  <2> HIDE DEF s
  <2>4. Sound(s) BY <1>1, <2>1, <2>3, SameWorkSound DEF FinalStates
  <2> QED BY <2>1, <2>2, <2>4, InActionKeeps DEF InAction
<1>3. CASE GiveUp BY <1>1, <1>3, PauseSound, SavedKeeps DEF GiveUp, EndThread
<1>4. CASE StayPaused BY <1>4 DEF StayPaused, IInv, Placed
<1> QED BY <1>2, <1>3, <1>4 DEF Rescue

\* and an exception that ends the thread.
LEMMA LoopErrorKeeps == IInv /\ LoopError => IInv'
<1> SUFFICES ASSUME IInv, LoopError PROVE IInv' OBVIOUS
<1>1. Sound(run) /\ pc' = "off" BY DEF IInv, LoopError, EndThread
<1>2. CASE Save(run) BY <1>1, <1>2, SavedKeeps
<1>3. CASE pc = "verify" /\ NextNode(run.node) = NoNode /\ Save(Verified(run))
  <2>1. run.top = "VERIFYING" BY <1>3 DEF IInv, Placed
  <2> QED BY <1>1, <1>3, <2>1, LastNodeSound, SavedKeeps
<1> QED BY <1>2, <1>3 DEF LoopError

\* The operations of the daemon keep the invariant, a crash and a start included.
LEMMA DaemonKeeps == IInv /\ Alive /\ Daemon => IInv'
<1> SUFFICES ASSUME IInv, Alive, Daemon PROVE IInv' OBVIOUS
<1>1. Sound(run) /\ Sound(disk) /\ disk \in Run BY DEF IInv, Sound
<1>2. CASE Stop BY <1>2 DEF Stop, IInv, Placed
<1>3. CASE Reap BY <1>3 DEF Reap, IInv, Placed
<1>4. CASE Resume
  <2>1. /\ SameWork(disk, Resumed(disk))
        /\ \/ Resumed(disk).top = disk.top
           \/ Resumed(disk).top \notin FinalStates /\ Resumed(disk).granted
    BY <1>1, SameWorkResumed
  <2>2. Sound(Resumed(disk)) BY <1>1, <2>1, SameWorkSound
  <2> QED BY <1>4, <2>2, SavedKeeps DEF Resume
<1>5. CASE DaemonCrash
  <2>1. run.held \in BOOLEAN BY <1>1 DEF Sound, Run
  <2> QED BY <1>1, <1>5, <2>1, HeldSound, SavedKeeps DEF DaemonCrash, EndThread
<1>6. CASE DaemonStart
  <2> DEFINE parked == [disk EXCEPT !.top = "PAUSED_FOR_HUMAN"]
  <2>1. "PAUSED_FOR_HUMAN" \in TopState \ FinalStates /\ "PAUSED_FOR_HUMAN" \notin InAction
    BY DEF TopState, InAction, FinalStates
  <2>2. Sound(parked) BY <1>1, <2>1, RetopSound
  <2>3. run' = disk' /\ Sound(run') /\ pc' = pc
    BY <1>1, <1>6, <2>2 DEF DaemonStart, Save
  <2>4. pc = "off"
    BY <1>6 DEF DaemonStart, Alive
  <2> QED BY <2>3, <2>4 DEF IInv, Placed
<1>7. ASSUME NEW reviewer \in Acknowledgers, NEW extras \in Extras,
             AckReview(reviewer, extras)
      PROVE  IInv'
  <2> DEFINE r == [disk EXCEPT !.reviews = @ \cup {reviewer}]
  <2>1. reviewer \in Reviewers BY SidecarAssumption
  <2>2. Sound(r) BY <1>1, <2>1, ReviewedSound
  <2>3. /\ \/ FinishOk(r, extras) /\ Save([r EXCEPT !.top = "COMPLETED"])
           \/ Save(r)
        /\ pc = "off" /\ pc' = "off"
    BY <1>7 DEF AckReview
  <2> HIDE DEF r
  <2> QED BY <2>2, <2>3, FinishedSound, SavedKeeps
<1> QED BY <1>2, <1>3, <1>4, <1>5, <1>6, <1>7 DEF Daemon

\* Only a thread that is there steps, and it leaves the daemon alone.
LEMMA SidecarActs == Sidecar => pc # "off" /\ UNCHANGED daemon
<1> SUFFICES ASSUME Sidecar PROVE pc # "off" /\ UNCHANGED daemon OBVIOUS
<1>1. CASE Boot
  BY <1>1 DEF Boot, BootSeesCheckpoint, BootInjects, BootObserves, BootResumed,
              BootStranded, BootFails
<1>2. CASE Poll
  BY <1>2 DEF Poll, Interrupt, DeliveryTimeout, IdleTimeout, OutageSeen, OutageRetry
<1>3. CASE Read
  BY <1>3 DEF Read, Reading, Mismatch, StaleObservation, Accept
<1>4. CASE EndBatch \/ Inject BY <1>4 DEF EndBatch, Inject
<1>5. CASE Judge
  <2>1. pc = "decide"
    BY <1>5 DEF Judge, Continue, VerifyStep, ReInject, Retry, EscalateToHuman, Decided,
                Answers, Branch, BranchUndecided
  <2>2. UNCHANGED daemon
    BY <1>5 DEF Judge, Continue, VerifyStep, ReInject, Retry, EscalateToHuman, Decided,
                Branch, BranchUndecided
  <2> QED BY <2>1, <2>2
<1>6. CASE Verify BY <1>6 DEF Verify, VerifyPasses, VerifyFails
<1>7. CASE Deliver BY <1>7 DEF Deliver, Delivered, DeliveryFails, HandoffFails
<1>8. CASE Rescue BY <1>8 DEF Rescue, AutoIntervene, GiveUp, StayPaused
<1>9. CASE LoopError BY <1>9 DEF LoopError
<1> QED BY <1>1, <1>2, <1>3, <1>4, <1>5, <1>6, <1>7, <1>8, <1>9 DEF Sidecar

\* No step leaves a thread behind in a daemon that is gone.
LEMMA AliveKeeps == Alive /\ Next => Alive'
<1> SUFFICES ASSUME Alive, Next PROVE Alive' OBVIOUS
<1>1. CASE Sidecar BY <1>1, SidecarActs DEF Alive, daemon
<1>2. CASE Daemon
  BY <1>2 DEF Alive, Daemon, Stop, Reap, Resume, DaemonCrash, DaemonStart, AckReview,
              EndThread, daemon
<1> QED BY <1>1, <1>2 DEF Next

\* Every step of the system, or a stutter, keeps both.
LEMMA StepKeeps == IInv /\ Alive /\ [Next]_vars => IInv' /\ Alive'
<1> SUFFICES ASSUME IInv, Alive, [Next]_vars PROVE IInv' /\ Alive' OBVIOUS
<1>1. CASE Next
  BY <1>1, BootKeeps, PollKeeps, ReadKeeps, EndBatchKeeps, JudgeKeeps, VerifyKeeps,
     InjectKeeps, DeliverKeeps, RescueKeeps, LoopErrorKeeps, DaemonKeeps, AliveKeeps DEF Next, Sidecar
<1>2. CASE UNCHANGED vars
  BY <1>2 DEF vars, IInv, Placed, Alive
<1> QED BY <1>1, <1>2

\* In every reachable state both copies of the run are sound, and the thread's step
\* agrees with the top state of its copy.
THEOREM Inductive == Spec => [](IInv /\ Alive)
<1>1. Init => IInv /\ Alive BY InitIInv DEF Init, Alive
<1>2. IInv /\ Alive /\ [Next]_vars => (IInv /\ Alive)' BY StepKeeps
<1> QED BY <1>1, <1>2, PTL DEF Spec

\* A run is COMPLETED only when the acceptance contract is met (finish_gate.py and
\* the acknowledgement of a review in server.py), in every workflow.
THEOREM CompletionIsEarned == Spec => []CompletedEarned
<1>1. IInv => CompletedEarned BY DEF IInv, Sound, CompletedEarned
<1> QED BY <1>1, Inductive, PTL

\* A run whose retry budget is exhausted is never in action on its own account
\* (apply_decision, apply_verification and the rescue in loop.py).
THEOREM BudgetIsRespected == Spec => []BudgetRespected
<1>1. IInv => BudgetRespected BY DEF IInv, Sound, BudgetRespected
<1> QED BY <1>1, Inductive, PTL

\* A linear plan without decision nodes is worked off in the order of its nodes,
\* of any number (next_node_id, apply_verification and done_node_ids).
THEOREM LinearPlanInOrder ==
    ASSUME Kind = "linear_plan", DecisionNodes = {}
    PROVE  Spec => []OrderedProgress
<1>1. IInv => OrderedProgress BY DEF IInv, Sound, IsLinear, OrderedProgress
<1> QED BY <1>1, Inductive, PTL

-------------------------------------------------------------------------------
(* Types *)

\* What TypeOK says of the thread's own variables and of the daemon's.
ThreadOK ==
    /\ pc \in {"off", "boot", "poll", "batch", "decide", "verify", "inject", "deliver",
               "recover", "rescue"}
    /\ report \in Reports \cup {NoReport}
    /\ deferred \in (Nodes \X Nat) \cup {NoDeferred}
    /\ armed \in BOOLEAN
    /\ origin \in {"none", "timeout", "idle", "mismatch", "notready", "inject", "budget",
                   "quoted"}
    /\ outages \in 0 .. MaxOutageRetries

DaemonOK == up \in BOOLEAN /\ registered \in BOOLEAN /\ stop \in BOOLEAN

\* The count of outage retries starts in its range.
LEMMA NoRetriesYet == 0 \in 0 .. MaxOutageRetries
  BY SidecarAssumption

\* A thread that has ended leaves well-typed variables.
LEMMA EndThreadOK == EndThread => ThreadOK'
  BY NoRetriesYet DEF EndThread, ThreadOK

\* The daemon's variables keep their types.
LEMMA DaemonTypeKeeps == DaemonOK /\ Next => DaemonOK'
<1> SUFFICES ASSUME DaemonOK, Next PROVE DaemonOK' OBVIOUS
<1>1. CASE Sidecar BY <1>1, SidecarActs DEF daemon, DaemonOK
<1>2. CASE Daemon
  BY <1>2 DEF Daemon, Stop, Reap, Resume, DaemonCrash, DaemonStart, AckReview, daemon, DaemonOK
<1> QED BY <1>1, <1>2 DEF Next

\* What injecting if needed does to the thread's variables.
LEMMA InjectIfNeededOK ==
    ASSUME NEW r, ThreadOK, InjectIfNeeded(r)
    PROVE  pc' \in {"inject", "batch"} /\ deferred' = deferred
  BY DEF InjectIfNeeded, Compose, NextCheckpoint

\* What pausing for a reason does to them.
LEMMA PausesOK ==
    ASSUME NEW r, ThreadOK, PauseForGood(r) \/ PauseQuoting(r)
    PROVE  /\ pc' \in {"batch", "rescue"} /\ deferred' = deferred
           /\ origin' \in {origin, "quoted"}
  BY DEF PauseQuoting, PauseForGood, PauseFor, NextCheckpoint

\* What retrying or pausing does to the thread's variables.
LEMMA RetryOrPauseOK ==
    ASSUME NEW r, ThreadOK, RetryOrPause(r)
    PROVE  /\ pc' \in {"inject", "batch", "rescue"}
           /\ deferred' = deferred
           /\ origin' \in {origin, "budget"}
<1>1. CASE Exhausted(r) BY <1>1 DEF RetryOrPause, PauseExhausted, PauseFor
<1>2. CASE ~Exhausted(r) BY <1>2, InjectIfNeededOK DEF RetryOrPause
<1> QED BY <1>1, <1>2

\* The thread's variables keep their types.
LEMMA ThreadTypeKeeps == run \in Run /\ ThreadOK /\ Next => ThreadOK'
<1> SUFFICES ASSUME run \in Run, ThreadOK, Next PROVE ThreadOK' OBVIOUS
<1>1. CASE Boot
  BY <1>1, EndThreadOK DEF ThreadOK, Boot, BootSeesCheckpoint, BootInjects, BootObserves,
     BootResumed, BootStranded, BootFails, thread
<1>2. CASE Poll
  <2>1. CASE OutageRetry
    BY <2>1, SidecarAssumption DEF OutageRetry, ThreadOK
  <2>2. CASE Interrupt BY <2>2, EndThreadOK DEF Interrupt
  <2>3. CASE DeliveryTimeout \/ IdleTimeout \/ OutageSeen
    BY <2>3 DEF ThreadOK, DeliveryTimeout, IdleTimeout, OutageSeen, RecoverFrom, thread
  <2> QED BY <1>2, <2>1, <2>2, <2>3 DEF Poll
<1>3. CASE Read
  BY <1>3, EndThreadOK DEF ThreadOK, Read, Mismatch, StaleObservation, Accept,
     RecoverFrom, thread
<1>4. CASE EndBatch
  BY <1>4, EndThreadOK DEF ThreadOK, EndBatch
<1>5. CASE Judge
  <2>1. ASSUME NEW d, Continue(d) PROVE ThreadOK'
    <3> DEFINE r == [run EXCEPT !.reinj = 0, !.top = "RUNNING"]
    <3>1. <<r.node, r.attempt>> \in Nodes \X Nat BY DEF Run
    <3>2. \/ pc' = "batch" /\ deferred' = <<r.node, r.attempt>>
          \/ InjectIfNeeded(r)
      BY <2>1 DEF Continue
    <3> HIDE DEF r
    <3>3. pc' \in {"batch", "inject"}
          /\ deferred' \in {<<r.node, r.attempt>>, deferred}
      BY <3>2, InjectIfNeededOK
    <3> QED BY <2>1, <3>1, <3>3 DEF Continue, Decided, ThreadOK
  <2>2. ASSUME NEW d, VerifyStep(d) PROVE ThreadOK'
    BY <2>2 DEF VerifyStep, Decided, ThreadOK
  <2>3. ASSUME NEW d, ReInject(d) PROVE ThreadOK'
    BY <2>3 DEF ReInject, Decided, ThreadOK, NextCheckpoint, Compose
  <2>4. ASSUME NEW d, Retry(d) PROVE ThreadOK'
    BY <2>4, RetryOrPauseOK DEF Retry, Decided, ThreadOK
  <2>5. ASSUME NEW d, EscalateToHuman(d) PROVE ThreadOK'
    BY <2>5, PausesOK DEF EscalateToHuman, Decided, ThreadOK
  <2>6. ASSUME NEW n, Branch(n) PROVE ThreadOK'
    BY <2>6, InjectIfNeededOK DEF Branch, ThreadOK
  <2>7. CASE BranchUndecided
    BY <2>7, PausesOK DEF BranchUndecided, ThreadOK
  <2> QED BY <1>5, <2>1, <2>2, <2>3, <2>4, <2>5, <2>6, <2>7 DEF Judge
<1>6. CASE Verify
  <2>1. ASSUME NEW extras, VerifyPasses(extras) PROVE ThreadOK'
    <3>1. /\ pc' \in {"inject", "batch", "rescue"} /\ deferred' = deferred
          /\ origin' \in {origin, "quoted"}
      BY <2>1, InjectIfNeededOK, PausesOK DEF VerifyPasses, NextCheckpoint
    <3> QED BY <2>1, <3>1 DEF VerifyPasses, ThreadOK
  <2>2. CASE VerifyFails
    BY <2>2, RetryOrPauseOK DEF VerifyFails, ThreadOK
  <2> QED BY <1>6, <2>1, <2>2 DEF Verify
<1>7. CASE Inject \/ Deliver
  BY <1>7, EndThreadOK DEF ThreadOK, Inject, Deliver, Delivered, DeliveryFails, HandoffFails,
     RecoverFrom
<1>8. CASE Rescue
  BY <1>8, EndThreadOK DEF ThreadOK, Rescue, AutoIntervene, GiveUp, StayPaused
<1>9. CASE LoopError
  BY <1>9, EndThreadOK DEF LoopError
<1>10. CASE Daemon
  BY <1>10, EndThreadOK DEF ThreadOK, Daemon, Stop, Reap, Resume, DaemonCrash, DaemonStart,
     AckReview, thread
<1> QED
  BY <1>1, <1>2, <1>3, <1>4, <1>5, <1>6, <1>7, <1>8, <1>9, <1>10 DEF Next, Sidecar

\* Every variable keeps its type; the types of the two copies of the run are part of
\* their soundness.
THEOREM TypesHold == Spec => []TypeOK
<1>1. Init => ThreadOK /\ DaemonOK
  BY NoRetriesYet DEF Init, ThreadOK, DaemonOK
<1>2. (IInv /\ Alive) /\ (ThreadOK /\ DaemonOK) /\ [Next]_vars => (ThreadOK /\ DaemonOK)'
  <2> SUFFICES ASSUME IInv, ThreadOK, DaemonOK, [Next]_vars PROVE (ThreadOK /\ DaemonOK)'
    OBVIOUS
  <2>1. run \in Run BY DEF IInv, Sound
  <2>2. CASE Next BY <2>1, <2>2, ThreadTypeKeeps, DaemonTypeKeeps
  <2>3. CASE UNCHANGED vars BY <2>3 DEF vars, ThreadOK, DaemonOK
  <2> QED BY <2>2, <2>3
<1>3. IInv /\ ThreadOK /\ DaemonOK => TypeOK
  BY DEF IInv, Sound, ThreadOK, DaemonOK, TypeOK
<1> QED BY <1>1, <1>2, <1>3, Inductive, PTL DEF Spec

-------------------------------------------------------------------------------
(* The attach boundary, on a read-only surface and without crashes *)

\* A run whose worker has shown no execution evidence: no node is accepted, and it
\* is on the boundary, or off it with the boundary noted, or finished.
OnBoundary(r) ==
    ~r.proven =>
        /\ r.done = {}
        /\ \/ r.top \in {"READY", "ATTACHED"} /\ r.pre \in {"none", "ATTACHED"}
           \/ r.top \in {"RECOVERY_NEEDED", "PAUSED_FOR_HUMAN"} /\ r.pre = "ATTACHED"
           \/ r.top \in FinalStates

\* The thread has attached, and the gate is asked in ATTACHED, about a checkpoint
\* without evidence, as long as there has been none.
BInv ==
    /\ OnBoundary(run) /\ OnBoundary(disk)
    /\ pc \notin {"off", "boot"} => run.top # "READY"
    /\ pc = "decide" /\ ~run.proven => run.top = "ATTACHED" /\ report.admin
    /\ report \in Reports \cup {NoReport}
    /\ pc = "decide" => report \in Reports
    /\ up

\* On the boundary, a checkpoint without evidence is sent back or escalated: it
\* neither lets the run go on nor reaches a verifier.
LEMMA BoundaryGate ==
    ASSUME NEW cp \in Checkpoint, cp.admin, NEW d \in Gate("ATTACHED", cp)
    PROVE  d.kind \in {"RE_INJECT", "ESCALATE_TO_HUMAN"}
<1> DEFINE Held == {"RE_INJECT", "ESCALATE_TO_HUMAN"}
<1>1. \A c : Escalate(c).kind \in Held /\ EscalateQuoting(c).kind \in Held
  BY DEF EscalateQuoting, Escalate, Decide
<1>2. Decide("RE_INJECT").kind \in Held BY DEF Decide
<1>3. \A e \in DeclaredEscalation(cp) : e.kind \in Held
  BY <1>1 DEF DeclaredEscalation
<1>4. \A e \in AttachGate(cp) : e.kind \in Held
  BY <1>1, <1>2 DEF AttachGate, EscalateHit
<1>5. cp.status = "blocked" \/ AttachWithoutExecution("ATTACHED", cp)
  BY DEF Checkpoint, RawCheckpoint, AttachWithoutExecution
<1> HIDE DEF Held
<1>6. d.kind \in Held BY <1>1, <1>2, <1>3, <1>4, <1>5 DEF Gate
<1> QED BY <1>6 DEF Held

\* Only the top state, its note, the done nodes and the evidence count.
LEMMA SameBoundary ==
    ASSUME NEW r, NEW s, OnBoundary(r), s.top = r.top, s.pre = r.pre,
           s.done = r.done, s.proven = r.proven
    PROVE  OnBoundary(s)
  BY DEF OnBoundary

\* A run in action that pauses or enters a recovery keeps the note.
LEMMA LeavingBoundary ==
    ASSUME NEW r \in Run, OnBoundary(r), r.proven \/ r.top \notin FinalStates \cup {"READY"},
           NEW top \in {"RECOVERY_NEEDED", "PAUSED_FOR_HUMAN"}
    PROVE  /\ OnBoundary(LeavingFor(r, top))
           /\ LeavingFor(r, top).top = top
  BY DEF OnBoundary, LeavingFor, Run

\* Marking an injection changes nothing of it.
LEMMA InjectedBoundary ==
    ASSUME NEW r \in Run, OnBoundary(r)
    PROVE  OnBoundary(MarkInjected(r)) /\ MarkInjected(r).top = r.top
  BY SameBoundary DEF MarkInjected, Run

\* A run whose worker has shown evidence is off the boundary for good.
LEMMA ProvenBoundary == \A r : r.proven => OnBoundary(r)
  BY DEF OnBoundary

\* What the start of the thread does to the boundary.
LEMMA BootBoundary == IInv /\ BInv /\ ObservationOnly /\ Boot => BInv'
<1> SUFFICES ASSUME IInv, BInv, ObservationOnly, Boot PROVE BInv' OBVIOUS
<1>1. run \in Run /\ pc = "boot"
  BY DEF IInv, Sound, Boot, BootSeesCheckpoint, BootInjects, BootObserves, BootResumed,
         BootStranded, BootFails
<1>2. run.top = "READY" => /\ Attached \in Run /\ Attached.top = "ATTACHED"
                           /\ OnBoundary(Attached)
  BY <1>1 DEF Attached, Run, BInv, OnBoundary, TopState, FinalStates
<1>3. CASE BootSeesCheckpoint
  <2>1. OnBoundary(MarkInjected(Attached)) /\ MarkInjected(Attached).top = "ATTACHED"
    BY <1>2, <1>3, InjectedBoundary DEF BootSeesCheckpoint
  <2> QED BY <1>2, <1>3, <2>1 DEF BootSeesCheckpoint, BInv, daemon
<1>4. CASE BootInjects BY <1>4 DEF BootInjects
<1>5. CASE BootObserves
  BY <1>2, <1>5 DEF BootObserves, Save, BInv, thread, daemon
<1>6. CASE BootResumed
  BY <1>6 DEF BootResumed, BInv, thread, daemon
<1>7. CASE BootStranded
  <2>1. OnBoundary(Pause(run))
    BY <1>1, <1>7, LeavingBoundary DEF BootStranded, Pause, BInv, FinalStates
  <2> QED BY <1>7, <2>1 DEF BootStranded, Save, EndThread, BInv, daemon
<1>8. CASE BootFails
  BY <1>2, <1>8 DEF BootFails, Save, EndThread, BInv, daemon
<1> QED BY <1>3, <1>4, <1>5, <1>6, <1>7, <1>8 DEF Boot

\* A recovery begun in action keeps the invariant.
LEMMA RecoverBoundary ==
    ASSUME BInv, NEW r \in Run, NEW why, OnBoundary(r),
           r.proven \/ r.top \notin FinalStates \cup {"READY"},
           RecoverFrom(r, why), UNCHANGED <<disk, report, daemon>>
    PROVE  BInv'
<1>1. OnBoundary(run') /\ run'.top = "RECOVERY_NEEDED"
  BY LeavingBoundary DEF RecoverFrom, EnterRecovery
<1> QED BY <1>1 DEF RecoverFrom, BInv, daemon

\* The top of the loop keeps it.
LEMMA PollBoundary == IInv /\ BInv /\ Poll => BInv'
<1> SUFFICES ASSUME IInv, BInv, Poll PROVE BInv' OBVIOUS
<1>1. /\ run \in Run /\ pc = "poll"
      /\ run.top \notin FinalStates \cup {"READY"}
  BY DEF IInv, Sound, BInv, Placed, InAction, FinalStates, Poll, Interrupt, DeliveryTimeout,
         IdleTimeout, OutageSeen, OutageRetry
<1>2. CASE Interrupt BY <1>2 DEF Interrupt, Save, EndThread, BInv, daemon
<1>3. CASE DeliveryTimeout
  BY <1>1, <1>3, RecoverBoundary DEF DeliveryTimeout, BInv
<1>4. CASE IdleTimeout
  <2> DEFINE r == EventArrives(run)
  <2>1. /\ r \in Run /\ r.proven = run.proven
        /\ r.top \notin FinalStates \cup {"READY"}
        /\ OnBoundary(r)
    BY <1>1 DEF EventArrives, Run, BInv, OnBoundary, GatedByEvent, TopState, FinalStates
  <2>2. RecoverFrom(r, "idle") /\ UNCHANGED <<disk, report, daemon>>
    BY <1>4 DEF IdleTimeout
  <2> HIDE DEF r
  <2> QED BY <2>1, <2>2, RecoverBoundary
<1>5. CASE OutageSeen BY <1>5 DEF OutageSeen, BInv, thread, daemon
<1>6. CASE OutageRetry
  <2>1. OnBoundary(MarkInjected(run)) /\ MarkInjected(run).top = run.top
    BY <1>1, InjectedBoundary DEF BInv
  <2> QED BY <1>1, <1>6, <2>1 DEF OutageRetry, Save, BInv, daemon
<1> QED BY <1>2, <1>3, <1>4, <1>5, <1>6 DEF Poll

\* Reading does: evidence opens the boundary, and nothing else does.
LEMMA ReadBoundary == IInv /\ BInv /\ ObservationOnly /\ Read => BInv'
<1> SUFFICES ASSUME IInv, BInv, ObservationOnly, Read PROVE BInv' OBVIOUS
<1>1. run \in Run /\ OnBoundary(run) BY DEF IInv, Sound, BInv
<1>2. CASE Mismatch BY <1>2 DEF Mismatch
<1>3. CASE StaleObservation
  <2>1. run.proven BY <1>1, <1>3 DEF StaleObservation, OnBoundary
  <2>2. Pause(run).proven = run.proven
        /\ Refused(run, "PAUSED_FOR_HUMAN").proven = run.proven
    BY <1>1 DEF Refused, Pause, LeavingFor, Run
  <2>3. OnBoundary(run') /\ OnBoundary(disk')
    BY <1>3, <2>1, <2>2, ProvenBoundary DEF StaleObservation, Save
  <2> QED BY <1>3, <2>3 DEF StaleObservation, EndThread, BInv, daemon
<1>4. ASSUME NEW cp \in Reports, Accept(cp) PROVE BInv'
  <2> DEFINE a == Received(cp)
  <2>1. /\ a \in Run /\ a.top = run.top /\ a.pre = run.pre /\ a.done = run.done
        /\ a.proven = (run.proven \/ ~cp.admin)
    <3> DEFINE shown == run.proven \/ ~cp.admin
    <3>1. a \in Run BY <1>4, ReceivedSound DEF IInv, Sound
    <3>2. PICK autos : a = [run EXCEPT !.mism = 0, !.proven = shown, !.autos = autos]
      <4>1. CASE cp.status \in ProgressStatus
        <5>1. a = [run EXCEPT !.mism = 0, !.proven = shown, !.autos = 0]
          BY <1>1, <4>1 DEF Received, ResetRecoveryTracking, Run
        <5> QED BY <5>1
      <4>2. CASE cp.status \notin ProgressStatus
        <5>1. a = [run EXCEPT !.mism = 0, !.proven = shown, !.autos = run.autos]
          BY <1>1, <4>2 DEF Received, Run
        <5> QED BY <5>1
      <4> QED BY <4>1, <4>2
    <3> HIDE DEF a, shown
    <3>3. /\ a.top = run.top /\ a.pre = run.pre /\ a.done = run.done
          /\ a.proven = shown
      BY <1>1, <3>2 DEF Run
    <3> QED BY <3>1, <3>3 DEF shown
  <2>2. run.top # "READY" BY <1>4 DEF Accept, Reading, BInv
  <2>3. run' = EventArrives(a) /\ disk' = disk /\ UNCHANGED daemon
    BY <1>4 DEF Accept
  <2>4. \/ pc' = "decide" /\ report' = cp /\ EventArrives(a).top \in {"GATING", "ATTACHED"}
        \/ pc' = "batch" /\ report' = report
    BY <1>4 DEF Accept
  <2> HIDE DEF a
  <2> DEFINE r == EventArrives(a)
  <2>5. /\ r.pre = a.pre /\ r.done = a.done /\ r.proven = a.proven
        /\ r.top = IF a.top \in GatedByEvent THEN "GATING" ELSE a.top
    BY <2>1 DEF EventArrives, Run
  <2>6. r.top # "READY" BY <2>1, <2>2, <2>5
  <2>7. ~r.proven => cp.admin /\ ~run.proven /\ r.top = run.top /\ r.top # "GATING"
    BY <1>1, <2>1, <2>2, <2>5 DEF OnBoundary, GatedByEvent, FinalStates
  <2> HIDE DEF r
  <2>8. OnBoundary(r)
    BY <1>1, <2>1, <2>5, <2>7 DEF OnBoundary
  <2>9. run' = r /\ (pc' = "decide" => r.top \in {"GATING", "ATTACHED"})
    BY <2>3, <2>4 DEF r
  <2> QED BY <2>3, <2>4, <2>6, <2>7, <2>8, <2>9 DEF BInv, daemon
<1> QED BY <1>2, <1>3, <1>4 DEF Read

\* So does the end of a text,
LEMMA EndBatchBoundary == IInv /\ BInv /\ EndBatch => BInv'
<1> SUFFICES ASSUME IInv, BInv, EndBatch PROVE BInv' OBVIOUS
<1>1. run \in Run /\ run.top # "READY" /\ OnBoundary(run)
  BY DEF IInv, Sound, BInv, EndBatch
<1>2. OnBoundary(MarkInjected(run)) /\ MarkInjected(run).top = run.top
  BY <1>1, InjectedBoundary
<1>3. /\ run' = disk' /\ run' \in {run, MarkInjected(run)}
      /\ pc' # "decide" /\ report' \in {report, NoReport}
      /\ UNCHANGED daemon
  BY DEF EndBatch, Save, EndThread
<1> QED BY <1>1, <1>2, <1>3 DEF BInv, daemon

\* Counting a failure takes no evidence away.
LEMMA ChargedProven ==
    ASSUME NEW r \in Run
    PROVE  ChargeRetry(r).proven = r.proven
<1> DEFINE a == r.attempt + 1
<1> DEFINE u == r.used + 1
<1>1. ChargeRetry(r) = [r EXCEPT !.attempt = a, !.used = u, !.granted = FALSE]
  BY DEF ChargeRetry
<1> HIDE DEF a, u
<1>2. [r EXCEPT !.attempt = a, !.used = u, !.granted = FALSE].proven = r.proven BY DEF Run
<1> QED BY <1>1, <1>2

\* A failure counted against a run whose worker has shown evidence.
LEMMA RetryBoundary ==
    ASSUME NEW c \in Run, c.proven, RetryOrPause(c)
    PROVE  run'.proven /\ disk' = disk /\ run'.top # "READY"
<1>1. CASE Exhausted(c)
  <2>1. run' = Pause(c) /\ disk' = disk BY <1>1 DEF RetryOrPause, PauseExhausted, PauseFor
  <2> QED BY <2>1 DEF Pause, LeavingFor, Run
<1>2. CASE ~Exhausted(c)
  <2> DEFINE s == [c EXCEPT !.top = "RUNNING"]
  <2>1. s.proven /\ s.top = "RUNNING" BY DEF Run
  <2>2. InjectIfNeeded(s) BY <1>2 DEF RetryOrPause
  <2> HIDE DEF s
  <2> QED BY <2>1, <2>2 DEF InjectIfNeeded, Compose, NextCheckpoint
<1> QED BY <1>1, <1>2

\* every decision of the gate,
LEMMA JudgeBoundary == IInv /\ BInv /\ DecisionNodes = {} /\ Judge => BInv'
<1> SUFFICES ASSUME IInv, BInv, DecisionNodes = {}, Judge PROVE BInv' OBVIOUS
<1>1. run \in Run /\ OnBoundary(run) /\ OnBoundary(disk) BY DEF IInv, Sound, BInv
<1>2. PICK d : Continue(d) \/ VerifyStep(d) \/ ReInject(d) \/ Retry(d) \/ EscalateToHuman(d)
  BY DEF Judge, Branch, BranchUndecided
<1>3. /\ pc = "decide" /\ d \in Gate(run.top, report) /\ report \in Reports
      /\ report' = NoReport /\ up' = up
  BY <1>2 DEF Continue, VerifyStep, ReInject, Retry, EscalateToHuman, Decided, Answers, BInv,
             daemon
<1>4. ~run.proven => run.top = "ATTACHED" /\ d.kind \in {"RE_INJECT", "ESCALATE_TO_HUMAN"}
  BY <1>3, BoundaryGate, SidecarAssumption DEF BInv
<1>5. run.top \in {"GATING", "ATTACHED"} BY <1>3 DEF IInv, Placed
<1>6. pc' \in {"batch", "verify", "inject", "rescue"}
  BY <1>2 DEF Continue, VerifyStep, ReInject, Retry, EscalateToHuman, RetryOrPause,
              PauseExhausted, PauseQuoting, PauseForGood, PauseFor, InjectIfNeeded, Compose,
              NextCheckpoint
<1> SUFFICES OnBoundary(run') /\ OnBoundary(disk') /\ run'.top # "READY"
  BY <1>3, <1>6 DEF BInv
<1>7. CASE ReInject(d)
  <2> DEFINE r == CountReInject(run)
  <2>1. /\ r \in Run /\ r.top = run.top /\ r.pre = run.pre /\ r.done = run.done
        /\ r.proven = run.proven
    BY <1>1, PolicyAssumption DEF CountReInject, Run
  <2>2. \/ NextCheckpoint(Pause(r))
        \/ Compose(r)
        \/ NextCheckpoint(r)
    BY <1>7 DEF ReInject
  <2> HIDE DEF r
  <2>3. OnBoundary(r) BY <1>1, <2>1, SameBoundary
  <2>4. OnBoundary(Pause(r)) /\ Pause(r).top # "READY"
    BY <1>5, <2>1, <2>3, LeavingBoundary DEF Pause, FinalStates
  <2> QED BY <1>1, <1>5, <2>1, <2>2, <2>3, <2>4 DEF NextCheckpoint, Compose
<1>8. CASE EscalateToHuman(d)
  <2> DEFINE h == [run EXCEPT !.held = TRUE]
  <2>1. /\ h \in Run /\ h.top = run.top /\ h.pre = run.pre /\ h.done = run.done
        /\ h.proven = run.proven
    BY <1>1 DEF Run
  <2>2. /\ disk' = disk
        /\ run' = Pause(run) \/ run' = Pause(h)
    BY <1>8 DEF EscalateToHuman, PauseQuoting, PauseForGood, PauseFor, NextCheckpoint
  <2> HIDE DEF h
  <2>3. OnBoundary(h) BY <1>1, <2>1, SameBoundary
  <2>4. /\ OnBoundary(Pause(run)) /\ Pause(run).top # "READY"
        /\ OnBoundary(Pause(h)) /\ Pause(h).top # "READY"
    BY <1>1, <1>5, <2>1, <2>3, LeavingBoundary DEF Pause, FinalStates
  <2> QED BY <1>1, <2>2, <2>4
<1>9. CASE Continue(d) \/ VerifyStep(d) \/ Retry(d)
  <2>1. run.proven BY <1>4, <1>9 DEF Continue, VerifyStep, Retry
  <2>2. run'.proven /\ disk' = disk /\ run'.top # "READY"
    <3>1. CASE Continue(d)
      BY <1>1, <2>1, <3>1 DEF Continue, InjectIfNeeded, Compose, NextCheckpoint, Save,
         MarkInjected, Run
    <3>2. CASE VerifyStep(d)
      BY <1>1, <2>1, <3>2 DEF VerifyStep, Run
    <3>3. CASE Retry(d)
      <4> DEFINE c == ChargeRetry([run EXCEPT !.reinj = 0])
      <4>1. c \in Run /\ c.proven
        <5> DEFINE f == [run EXCEPT !.reinj = 0]
        <5>1. f \in Run /\ f.proven BY <1>1, <2>1 DEF Run
        <5>2. c = ChargeRetry(f) OBVIOUS
        <5> HIDE DEF c, f
        <5> QED BY <5>1, <5>2, ChargedRun, ChargedProven
      <4>2. RetryOrPause(c) BY <3>3 DEF Retry
      <4> HIDE DEF c
      <4> QED BY <4>1, <4>2, RetryBoundary
    <3> QED BY <1>9, <3>1, <3>2, <3>3
  <2> QED BY <1>1, <2>2, ProvenBoundary
<1> QED BY <1>2, <1>7, <1>8, <1>9

\* every outcome of a verification, which only a worker with evidence reaches,
LEMMA VerifyBoundary == IInv /\ BInv /\ Verify => BInv'
<1> SUFFICES ASSUME IInv, BInv, Verify PROVE BInv' OBVIOUS
<1>1. run \in Run /\ run.node \in Nodes /\ OnBoundary(disk) /\ pc = "verify"
  BY DEF IInv, Sound, Run, BInv, Verify, VerifyPasses, VerifyFails
<1>2. run.proven
  BY <1>1 DEF IInv, Placed, BInv, OnBoundary, FinalStates
<1>3. /\ pc' \in {"batch", "inject", "rescue"} /\ report' = report /\ up' = up
  BY DEF Verify, VerifyPasses, VerifyFails, RetryOrPause, PauseExhausted, PauseQuoting,
         PauseForGood, PauseFor, InjectIfNeeded, Compose, NextCheckpoint, daemon
<1>4. run'.proven /\ disk' = disk /\ run'.top # "READY"
  <2>1. ASSUME NEW extras, VerifyPasses(extras)
        PROVE  run'.proven /\ disk' = disk /\ run'.top # "READY"
    <3> DEFINE v == Verified(run)
    <3>1. v \in Run /\ v.proven /\ v.top = run.top BY <1>1, <1>2 DEF Verified, Run
    <3>2. \/ InjectIfNeeded(MoveTo(v, NextNode(run.node)))
          \/ NextCheckpoint([v EXCEPT !.top = "COMPLETED"])
          \/ PauseForGood(v) \/ PauseQuoting(v)
      BY <2>1 DEF VerifyPasses
    <3> HIDE DEF v
    <3> QED BY <3>1, <3>2 DEF InjectIfNeeded, Compose, NextCheckpoint, PauseQuoting,
            PauseForGood, PauseFor, MoveTo, Pause, LeavingFor, Run
  <2>2. ASSUME VerifyFails
        PROVE  run'.proven /\ disk' = disk /\ run'.top # "READY"
    <3> DEFINE c == ChargeRetry([run EXCEPT !.verdict = "failed"])
    <3>1. c \in Run /\ c.proven
      <4> DEFINE f == [run EXCEPT !.verdict = "failed"]
      <4>1. f \in Run /\ f.proven BY <1>1, <1>2 DEF Run
      <4>2. c = ChargeRetry(f) OBVIOUS
      <4> HIDE DEF c, f
      <4> QED BY <4>1, <4>2, ChargedRun, ChargedProven
    <3>2. RetryOrPause(c) BY <2>2 DEF VerifyFails
    <3> HIDE DEF c
    <3> QED BY <3>1, <3>2, RetryBoundary
  <2> QED BY <2>1, <2>2 DEF Verify
<1> QED BY <1>1, <1>3, <1>4, ProvenBoundary DEF BInv

\* an injection,
LEMMA InjectBoundary == IInv /\ BInv /\ Inject => BInv'
<1> SUFFICES ASSUME IInv, BInv, Inject PROVE BInv' OBVIOUS
<1>1. run \in Run /\ run.top # "READY" /\ OnBoundary(run)
  BY DEF IInv, Sound, BInv, Inject
<1>2. OnBoundary(MarkInjected(run)) /\ MarkInjected(run).top = run.top
  BY <1>1, InjectedBoundary
<1> QED BY <1>1, <1>2 DEF Inject, Save, BInv, daemon

\* a hand-off to the Stop hook,
LEMMA DeliverBoundary == IInv /\ BInv /\ ObservationOnly /\ Deliver => BInv'
<1> SUFFICES ASSUME IInv, BInv, ObservationOnly, Deliver PROVE BInv' OBVIOUS
<1>1. run \in Run /\ run.top \notin FinalStates \cup {"READY"} /\ OnBoundary(run)
  BY DEF IInv, Sound, Placed, InAction, FinalStates, BInv, Deliver, Delivered, DeliveryFails,
         HandoffFails
<1>2. CASE Delivered BY <1>2 DEF Delivered, BInv, daemon
<1>3. CASE HandoffFails
  <2>1. OnBoundary(Pause(run)) BY <1>1, LeavingBoundary DEF Pause
  <2> QED BY <1>1, <1>3, <2>1 DEF HandoffFails, Save, EndThread, BInv, daemon
<1> QED BY <1>2, <1>3 DEF Deliver, DeliveryFails

\* a recovery, which no intervention into the pane can end, and an exception,
LEMMA RescueBoundary == IInv /\ BInv /\ ObservationOnly /\ (Rescue \/ LoopError) => BInv'
<1> SUFFICES ASSUME IInv, BInv, ObservationOnly, Rescue \/ LoopError PROVE BInv' OBVIOUS
<1>1. run \in Run /\ OnBoundary(run) BY DEF IInv, Sound, BInv
<1>2. CASE AutoIntervene BY <1>2 DEF AutoIntervene
<1>3. CASE GiveUp
  <2>1. run.top = "RECOVERY_NEEDED" BY <1>3 DEF GiveUp, IInv, Placed
  <2>2. OnBoundary(Pause(run)) BY <1>1, <2>1, LeavingBoundary DEF Pause, FinalStates
  <2> QED BY <1>3, <2>2 DEF GiveUp, Save, EndThread, BInv, daemon
<1>4. CASE StayPaused BY <1>4 DEF StayPaused, BInv, daemon
<1>5. CASE LoopError
  <2>1. CASE Save(run) BY <1>5, <2>1 DEF LoopError, Save, EndThread, BInv, daemon
  <2>2. CASE pc = "verify" /\ Save(Verified(run))
    <3>1. run.proven BY <1>1, <2>2 DEF IInv, Placed, OnBoundary, FinalStates
    <3>2. OnBoundary(Verified(run)) BY <1>1, <3>1 DEF Verified, OnBoundary, Run
    <3> QED BY <1>5, <2>2, <3>2 DEF LoopError, Save, EndThread, BInv, daemon
  <2> QED BY <1>5, <2>1, <2>2 DEF LoopError
<1> QED BY <1>2, <1>3, <1>4, <1>5 DEF Rescue

\* and the operations of a daemon that does not crash, a resume included.
LEMMA DaemonBoundary == IInv /\ BInv /\ ~DaemonCrashes /\ Daemon => BInv'
<1> SUFFICES ASSUME IInv, BInv, ~DaemonCrashes, Daemon PROVE BInv' OBVIOUS
<1>1. disk \in Run /\ OnBoundary(disk) BY DEF IInv, Sound, BInv
<1>2. CASE Stop \/ Reap BY <1>2 DEF Stop, Reap, BInv, thread
<1>3. CASE Resume
  <2>1. OnBoundary(Resumed(disk))
    BY <1>1, <1>3 DEF Resume, Resumed, Resumable, OnBoundary, Run, FinalStates
  <2> QED BY <1>3, <2>1 DEF Resume, Save, BInv, thread
<1>4. CASE DaemonCrash BY <1>4 DEF DaemonCrash
<1>5. CASE DaemonStart BY <1>5 DEF DaemonStart, BInv
<1>6. ASSUME NEW reviewer, NEW extras, AckReview(reviewer, extras) PROVE BInv'
  <2> DEFINE r == [disk EXCEPT !.reviews = @ \cup {reviewer}]
  <2>1. OnBoundary(r) /\ OnBoundary([r EXCEPT !.top = "COMPLETED"])
    BY <1>1 DEF OnBoundary, Run, FinalStates
  <2>2. Save(r) \/ Save([r EXCEPT !.top = "COMPLETED"]) BY <1>6 DEF AckReview
  <2> HIDE DEF r
  <2> QED BY <1>6, <2>1, <2>2 DEF AckReview, Save, BInv, thread, daemon
<1> QED BY <1>2, <1>3, <1>4, <1>5, <1>6 DEF Daemon

\* On a read-only surface, where nothing is injected into the pane, of a plan of
\* steps, and while the daemon lives, no node is accepted before execution evidence
\* was seen (gate() in ATTACHED, _pause_for_human and _do_resume).
THEOREM BoundaryIsKept ==
    ASSUME ObservationOnly, ~DaemonCrashes, DecisionNodes = {}
    PROVE  Spec => []AttachBoundaryKept
<1>1. Init => BInv
  BY DEF Init, BInv, NewRun, OnBoundary
<1>2. (IInv /\ Alive) /\ BInv /\ [Next]_vars => BInv'
  <2> SUFFICES ASSUME IInv, BInv, [Next]_vars PROVE BInv' OBVIOUS
  <2>1. CASE UNCHANGED vars BY <2>1 DEF vars, BInv
  <2>2. CASE Next
    BY <2>2, BootBoundary, PollBoundary, ReadBoundary, EndBatchBoundary, JudgeBoundary,
       VerifyBoundary, InjectBoundary, DeliverBoundary, RescueBoundary, DaemonBoundary DEF Next, Sidecar
  <2> QED BY <2>1, <2>2
<1>3. BInv => AttachBoundaryKept
  BY DEF BInv, OnBoundary, AttachBoundaryKept, Proven
<1> QED BY <1>1, <1>2, <1>3, Inductive, PTL DEF Spec
===============================================================================
