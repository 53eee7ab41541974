-------------------------------- MODULE MCBranch --------------------------------
(* A conditional workflow: a step, a decision that goes back to it or on to a   *)
(* last step; one outage retry, one auto-intervention, no crashes.              *)
EXTENDS SupervisorProps

StepSucc == <<2, 0, 0>>
BackOrOn == <<{}, {1, 3}, {}>>

V1(status, admin) ==
    [status |-> status, hits |-> {}, admin |-> admin, v2 |-> FALSE,
     claims |-> FALSE, escal |-> "unset", auth |-> "unset", blocking |-> FALSE]

\* Progress and completion with evidence, completion without, and a v2 claim of
\* execution that the evidence does not bear out.
SomeReports ==
    {V1("working", FALSE), V1("step_done", FALSE), V1("step_done", TRUE),
     [V1("working", TRUE) EXCEPT !.v2 = TRUE, !.claims = TRUE, !.escal = "none",
                                 !.auth = "no"]}
===============================================================================
