--------------------------------- MODULE MCPlane ---------------------------------
(***************************************************************************)
(* Two runs of one spec, two request threads of one client, one key, one   *)
(* process beside the daemon.                                              *)
(***************************************************************************)
EXTENDS PlaneProps, TLC

CONSTANTS r1, r2, h1, h2

MCRuns == {r1, r2}
MCHandlers == {h1, h2}
MCKeys == {"key"}
MCPolicies == {"block_session", "notify_only"}
MCLoads ==
    {[run |-> 3, line |-> 1, task |-> 1, post |-> 0, death |-> 0, guest |-> 0],
     [run |-> 2, line |-> 1, task |-> 1, post |-> 0, death |-> 1, guest |-> 0],
     [run |-> 2, line |-> 1, task |-> 0, post |-> 0, death |-> 1, guest |-> 1],
     [run |-> 1, line |-> 1, task |-> 1, post |-> 0, death |-> 1, guest |-> 1],
     [run |-> 1, line |-> 2, task |-> 0, post |-> 0, death |-> 0, guest |-> 2],
     [run |-> 1, line |-> 0, task |-> 2, post |-> 0, death |-> 1, guest |-> 0],
     [run |-> 0, line |-> 0, task |-> 3, post |-> 0, death |-> 1, guest |-> 0],
     [run |-> 0, line |-> 0, task |-> 2, post |-> 1, death |-> 1, guest |-> 0],
     [run |-> 0, line |-> 0, task |-> 0, post |-> 3, death |-> 0, guest |-> 0],
     [run |-> 0, line |-> 0, task |-> 0, post |-> 2, death |-> 1, guest |-> 0]}
MCSymmetry == Permutations(MCRuns) \cup Permutations(MCHandlers)
===============================================================================
