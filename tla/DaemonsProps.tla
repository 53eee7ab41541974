------------------------------ MODULE DaemonsProps ------------------------------
(***************************************************************************)
(* What pane locks, daemon start-up and shutdown promise about who         *)
(* controls a run.                                                         *)
(***************************************************************************)
EXTENDS Daemons

\* Every variable holds a value of its kind.
TypeOK ==
    /\ alive \subseteq Procs
    /\ lock = NoFile \/ lock \in [by : Procs, run : Runs \cup {Unwritten}]
    /\ op \in [Procs -> [step : Steps, run : Runs \cup {NoRun}]]
    /\ contended \in BOOLEAN /\ lingered \in BOOLEAN
    /\ pc \in [Procs \ {Viewer} -> {"off", "unlink", "bind", "recover", "accept", "acquire",
                                    "join", "leave", "run", "dead"}]
    /\ sock \in Daemons \cup {Nobody}
    /\ disk \in [Runs -> [top : {"NONE", "COMPLETED"} \cup Resumable,
                          mode : {"daemon", "foreground"}]]
    /\ threads \subseteq Runs \X (Procs \ {Viewer})
    /\ registry \in [Daemons -> SUBSET Runs]
    /\ stops \subseteq Runs \X Daemons
    /\ requests \in Nat /\ resumed \subseteq Runs

\* Only one loop at a time controls the pane.
PaneExclusive == \A s, t \in threads : s = t

\* Two loops control the pane only after two processes were at the lock file between
\* each other's system calls, or a closing daemon released it with its thread alive:
\* neither daemons taken for dead, nor crashes, nor refused requests, nor a second
\* start of the same run do it.
ExclusiveUnlessRaced == contended \/ lingered \/ PaneExclusive

\* Start-up recovery parks no run that the foreground process is working on, however
\* daemons start, die and are doubled, unless somebody has asked a daemon to resume
\* that run: that is refused, but has made it a daemon's run on disk.
ForegroundNotParked ==
    [][\A d \in Daemons, r \in Runs :
          pc[d] = "recover" /\ pc'[d] = "accept" /\ disk[r].top # disk'[r].top
          => <<r, Foreground>> \notin threads \/ r \in resumed]_vars

\* The lock never outlives its run in a process that goes on: where it names a live
\* process, that process has the run, or is just taking or leaving it.
LockHasHolder ==
    Held => \/ lock.by \in Daemons /\ (lock.run \in registry[lock.by] \/ op[lock.by].run = lock.run)
            \/ lock.by = Foreground /\ op[Foreground].run = lock.run
===============================================================================
