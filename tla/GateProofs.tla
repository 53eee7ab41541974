------------------------------- MODULE GateProofs -------------------------------
(***************************************************************************)
(* What the gates answer, by the order of their early returns: each        *)
(* property follows from the branches of Gate that can still be reached.   *)
(***************************************************************************)
EXTENDS MCGates, TLAPS

\* What has been answered is one of the gates' decisions about this checkpoint.
Asked ==
    /\ top \in {"ATTACHED", "GATING"} /\ cp \in Checkpoint
    /\ decision = NoDecision \/ decision \in Gate(top, cp)

\* A pause is a decision with a class, any other has none.
Paused(d) ==
    /\ d \in Decision /\ d.kind = "ESCALATE_TO_HUMAN" /\ d.class # "none"
Plain(d, kinds) == d \in Decision /\ d.kind \in kinds /\ d.class = "none"

\* An escalation pauses with the class its reason gives it, whosever words that has.
LEMMA EscalatePauses ==
    ASSUME NEW class \in PauseClasses
    PROVE  Paused(Escalate(class)) /\ Paused(EscalateQuoting(class))
BY DEF Escalate, EscalateQuoting, Decide, Paused, Decision, GateKinds, PauseClasses

\* A decision of another kind has no class.
LEMMA DecidePlain ==
    ASSUME NEW kind \in GateKinds \ {"ESCALATE_TO_HUMAN"} PROVE Plain(Decide(kind), {kind})
BY DEF Decide, Plain, Decision, GateKinds

\* What a pattern family asks for is a pause.
LEMMA HitPauses == ASSUME NEW hit PROVE Paused(EscalateHit(hit))
BY EscalatePauses DEF EscalateHit, PauseClasses

\* The judge lets the worker go on, verify or retry, or it pauses the run.
LEMMA ContinueAnswers ==
    ASSUME NEW c \in Checkpoint, NEW d \in ContinueGate(c)
    PROVE  Paused(d) \/ Plain(d, {"CONTINUE", "VERIFY_STEP", "RETRY"})
<1>1. Plain(ContinueWithGuidance, {"CONTINUE"})
  BY DEF ContinueWithGuidance, Decide, Plain, Decision, GateKinds
<1>2. \A k \in {"CONTINUE", "VERIFY_STEP", "RETRY"} : Plain(Decide(k), {k})
  BY DecidePlain DEF GateKinds
<1>3. \A k \in {"business", "safety", "review"} : Paused(EscalateQuoting(k))
  BY EscalatePauses DEF PauseClasses
<1>4. \A h : Paused(EscalateHit(h)) BY HitPauses
<1>5. \/ d = ContinueWithGuidance
      \/ \E h : d = EscalateHit(h)
      \/ \E k \in {"CONTINUE", "VERIFY_STEP", "RETRY"} : d = Decide(k)
      \/ \E k \in {"business", "safety", "review"} : d = EscalateQuoting(k)
  BY DEF ContinueGate, JudgeDecisions
<1>6. \A k \in {"CONTINUE", "VERIFY_STEP", "RETRY"} : \A x :
        Plain(x, {k}) => Plain(x, {"CONTINUE", "VERIFY_STEP", "RETRY"})
  BY DEF Plain
<1> QED BY <1>1, <1>2, <1>3, <1>4, <1>5, <1>6

\* On the attach boundary the answer is a pause or a re-inject.
LEMMA AttachAnswers ==
    ASSUME NEW c, NEW d \in AttachGate(c) PROVE Paused(d) \/ Plain(d, {"RE_INJECT"})
BY HitPauses, DecidePlain DEF AttachGate, GateKinds

\* Where in gate() an answer comes from: a pause, a re-inject, a verification of what is
\* claimed to be done, or the ContinueGate for a worker that is still working, that
\* declared nothing and that is past the attach boundary or shows execution.
LEMMA GateAnswers ==
    ASSUME NEW t, NEW c \in Checkpoint, NEW d \in Gate(t, c)
    PROVE  \/ Paused(d)
           \/ Plain(d, {"RE_INJECT"}) /\ c.auth # "yes" /\ ~DeclaresEscalation(c)
           \/ /\ Plain(d, {"VERIFY_STEP"}) /\ ClaimsDone(c)
              /\ c.auth # "yes" /\ ~DeclaresEscalation(c) /\ ~AttachWithoutExecution(t, c)
           \/ /\ Plain(d, {"CONTINUE", "VERIFY_STEP", "RETRY"}) /\ ~ClaimsDone(c)
              /\ c.auth # "yes" /\ ~DeclaresEscalation(c) /\ ~AttachWithoutExecution(t, c)
<1>1. Paused(Escalate("safety")) /\ Paused(Escalate("business")) /\ Paused(Escalate("review"))
  BY EscalatePauses DEF PauseClasses
<1>2. /\ Plain(Decide("RE_INJECT"), {"RE_INJECT"})
      /\ Plain(Decide("VERIFY_STEP"), {"VERIFY_STEP"})
  BY DecidePlain DEF GateKinds
<1>3. \A e \in DeclaredEscalation(c) : Paused(e)
  BY EscalatePauses DEF DeclaredEscalation, PauseClasses
<1>4. DeclaresEscalation(c) => Contradiction(c) # "execution" BY DEF Contradiction
<1>5. CASE c.auth = "yes" BY <1>1, <1>5 DEF Gate
<1>6. CASE c.auth # "yes" /\ Contradiction(c) \in {"safety", "business"}
  BY <1>1, <1>6 DEF Gate
<1>7. CASE c.auth # "yes" /\ Contradiction(c) = "execution" BY <1>2, <1>4, <1>7 DEF Gate
<1>8. ASSUME c.auth # "yes", Contradiction(c) \notin {"safety", "business", "execution"},
             DeclaresEscalation(c) \/ c.status = "blocked"
      PROVE  Paused(d)
  BY <1>1, <1>3, <1>8 DEF Gate
<1>9. ASSUME c.auth # "yes", Contradiction(c) \notin {"safety", "business", "execution"},
             ~DeclaresEscalation(c), c.status # "blocked"
      PROVE  d \in IF AttachWithoutExecution(t, c) THEN AttachGate(c)
                   ELSE IF ClaimsDone(c) THEN {Decide("VERIFY_STEP")}
                   ELSE ContinueGate(c)
  BY <1>9 DEF Gate
<1> QED BY <1>2, <1>5, <1>6, <1>7, <1>8, <1>9, AttachAnswers, ContinueAnswers

\* What is answered stays an answer to the checkpoint that was asked about.
LEMMA AskedHolds == Spec => []Asked
<1>1. Init => Asked BY DEF Init, Asked
<1>2. Asked /\ [Next]_<<top, cp, decision>> => Asked' BY DEF Asked, Next, AskGate
<1> QED BY <1>1, <1>2, PTL DEF Spec

\* Every answer is of a kind the sidecar applies, with a pause class if and only if it
\* pauses the run (SupervisorLoop.gate, escalation_decision).
THEOREM TypedHolds == Spec => []DecisionTyped
<1>1. Asked => DecisionTyped
  <2> SUFFICES ASSUME Asked, Answered PROVE DecisionTyped BY DEF DecisionTyped
  <2>1. cp \in Checkpoint /\ decision \in Gate(top, cp) BY DEF Asked, Answered
  <2>2. Paused(decision)
        \/ Plain(decision, {"RE_INJECT", "CONTINUE", "VERIFY_STEP", "RETRY"})
    BY <2>1, GateAnswers DEF Plain
  <2> QED BY <2>2 DEF DecisionTyped, Paused, Plain
<1> QED BY <1>1, AskedHolds, PTL

\* A worker that claims progress on the attach boundary without execution evidence is
\* re-injected or paused (_is_admin_only_evidence).
THEOREM AttachHolds == Spec => []AttachNeedsExecution
<1>1. Asked => AttachNeedsExecution
  <2> SUFFICES ASSUME Asked, Answered, top = "ATTACHED", cp.status # "blocked", cp.admin
               PROVE  decision.kind \in {"RE_INJECT", "ESCALATE_TO_HUMAN"}
    BY DEF AttachNeedsExecution
  <2>1. cp \in Checkpoint /\ decision \in Gate(top, cp) BY DEF Asked, Answered
  <2>2. cp.status \in ProgressStatus
    <3>1. cp.status \in ProgressStatus \cup {"blocked"}
      BY <2>1 DEF Checkpoint, RawCheckpoint
    <3> QED BY <3>1
  <2>3. AttachWithoutExecution(top, cp) BY <2>2 DEF AttachWithoutExecution
  <2>4. Paused(decision) \/ Plain(decision, {"RE_INJECT"}) BY <2>1, <2>3, GateAnswers
  <2> QED BY <2>4 DEF Paused, Plain
<1> QED BY <1>1, AskedHolds, PTL

\* A claim that a step is done is verified, refused or put to a human.
THEOREM DoneHolds == Spec => []DoneIsNotContinued
<1>1. Asked => DoneIsNotContinued
  <2> SUFFICES ASSUME Asked, Answered, ClaimsDone(cp)
               PROVE  decision.kind \notin {"CONTINUE", "RETRY"}
    BY DEF DoneIsNotContinued, ClaimsDone
  <2>1. cp \in Checkpoint /\ decision \in Gate(top, cp) BY DEF Asked, Answered
  <2>2. Paused(decision) \/ Plain(decision, {"RE_INJECT"}) \/ Plain(decision, {"VERIFY_STEP"})
    BY <2>1, GateAnswers
  <2> QED BY <2>2 DEF Paused, Plain
<1> QED BY <1>1, AskedHolds, PTL
===============================================================================
