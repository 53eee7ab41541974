SPECIFICATION Spec
INVARIANTS
    DecisionTyped
    AttachNeedsExecution
    DoneIsNotContinued
CHECK_DEADLOCK FALSE
