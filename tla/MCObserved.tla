------------------------------- MODULE MCObserved -------------------------------
(* A linear plan on a read-only surface: no injection into the pane and so no   *)
(* auto-intervention; delivery by the Stop hook.                                *)
EXTENDS SupervisorProps

NoSucc == [n \in Nodes |-> NoNode]
NoOptions == [n \in Nodes |-> {}]

V1(status, admin) ==
    [status |-> status, hits |-> {}, admin |-> admin, v2 |-> FALSE,
     claims |-> FALSE, escal |-> "unset", auth |-> "unset", blocking |-> FALSE]

\* Progress and completion with and without evidence, a text that asks whether to
\* go on, and a blocked worker.
SomeReports ==
    {V1("working", FALSE), V1("working", TRUE), V1("step_done", FALSE),
     V1("step_done", TRUE), V1("blocked", TRUE),
     [V1("working", TRUE) EXCEPT !.hits = {"SOFT_CONFIRMATION"}]}
===============================================================================
