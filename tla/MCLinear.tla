-------------------------------- MODULE MCLinear --------------------------------
(* A linear plan of two nodes, with review, crashes and one auto-intervention. *)
EXTENDS SupervisorProps

NoSucc == [n \in Nodes |-> NoNode]
NoOptions == [n \in Nodes |-> {}]

V1(status, admin) ==
    [status |-> status, hits |-> {}, admin |-> admin, v2 |-> FALSE,
     claims |-> FALSE, escal |-> "unset", auth |-> "unset", blocking |-> FALSE]

\* Work in progress with and without execution evidence, a step said to be done
\* with and without, a blocked worker, and a v2 claim of execution that the
\* evidence does not bear out.
SomeReports ==
    {V1("working", FALSE), V1("working", TRUE), V1("step_done", FALSE),
     V1("step_done", TRUE), V1("blocked", TRUE),
     [V1("working", TRUE) EXCEPT !.v2 = TRUE, !.claims = TRUE, !.escal = "none",
                                 !.auth = "no"]}
===============================================================================
