------------------------------- MODULE MCDaemons -------------------------------
(***************************************************************************)
(* Two daemon processes, the second a restart or a double of the first, a  *)
(* foreground process, a reader, and two runs in one pane.                 *)
(***************************************************************************)
EXTENDS DaemonsProps, TLC

CONSTANTS d1, d2, r1, r2

MCDaemons == {d1, d2}
MCRuns == {r1, r2}
MCSymmetry == Permutations(MCDaemons) \cup Permutations(MCRuns)
===============================================================================
