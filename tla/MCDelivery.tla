------------------------------- MODULE MCDelivery -------------------------------
(***************************************************************************)
(* Two nodes, three pieces of output, two instructions, one resume: on     *)
(* each surface, with a worker that may number anew from 1.                *)
(***************************************************************************)
EXTENDS DeliveryProps

MCNumbering == {"next", "restart"}
===============================================================================
