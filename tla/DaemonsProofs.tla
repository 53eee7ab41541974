----------------------------- MODULE DaemonsProofs -----------------------------
(***************************************************************************)
(* What daemons, foreground processes and viewers that share a pane and    *)
(* its lock file do in every instance: the types, that a holder has its    *)
(* file (HIInv), that two control a pane only after a race for the file    *)
(* (CIInv), and that no daemon parks a foreground run (FIInv).             *)
(***************************************************************************)
EXTENDS DaemonsProps, TLAPS

\* Only a process that seeks a lock is at the file, for its run; a viewer only clears it.
Sought ==
    /\ op[Viewer].step \in {"none", "clear"}
    /\ \A p \in Procs \ {Viewer} : op[p].step # "none" => op[p].run \in Runs

\* The state a daemon process starts from is typed.
LEMMA TypeInit == Init => TypeOK
<1> SUFFICES ASSUME Init PROVE TypeOK OBVIOUS
<1>1. alive \subseteq Procs /\ lock = NoFile /\ contended \in BOOLEAN
  BY DEF Init, LockInit, Procs
<1>2. op \in [Procs -> [step : Steps, run : Runs \cup {NoRun}]]
  BY DEF Init, LockInit, Idle, Steps
<1>3. disk \in [Runs -> [top : {"NONE", "COMPLETED"} \cup Resumable,
                        mode : {"daemon", "foreground"}]]
  BY DEF Init, Fresh
<1> QED BY <1>1, <1>2, <1>3 DEF Init, TypeOK, Nobody

\* The end of a process leaves everything it touches typed.
LEMMA DiesTyped ==
    ASSUME TypeOK, NEW p \in Procs \ {Viewer}, Dies(p)
    PROVE  /\ alive' \subseteq Procs /\ contended' \in BOOLEAN
           /\ op' \in [Procs -> [step : Steps, run : Runs \cup {NoRun}]]
           /\ pc' \in [Procs \ {Viewer} -> {"off", "unlink", "bind", "recover", "accept",
                                           "acquire", "join", "leave", "run", "dead"}]
           /\ threads' \subseteq Runs \X (Procs \ {Viewer})
           /\ registry' \in [Daemons -> SUBSET Runs]
           /\ stops' \subseteq Runs \X Daemons
<1>1. Idle \in [step : Steps, run : Runs \cup {NoRun}] BY DEF Idle, Steps
<1>2. op' \in [Procs -> [step : Steps, run : Runs \cup {NoRun}]]
  BY <1>1 DEF TypeOK, Dies
<1>3. registry' \in [Daemons -> SUBSET Runs] BY DEF TypeOK, Dies
<1>4. alive' \subseteq Procs /\ contended' \in BOOLEAN BY DEF TypeOK, Dies
<1>5. pc' \in [Procs \ {Viewer} -> {"off", "unlink", "bind", "recover", "accept",
                                    "acquire", "join", "leave", "run", "dead"}]
  BY DEF TypeOK, Dies, At
<1>6. threads' \subseteq Runs \X (Procs \ {Viewer}) /\ stops' \subseteq Runs \X Daemons
  BY DEF TypeOK, Dies
<1> QED BY <1>2, <1>3, <1>4, <1>5, <1>6

\* Every step of a process, a person or a lock keeps each variable in its range.
LEMMA TypeStep == TypeOK /\ Sought /\ [Next]_vars => TypeOK'
<1> SUFFICES ASSUME TypeOK, Sought, [Next]_vars PROVE TypeOK' OBVIOUS
<1> USE PaneLocksAssumption
<1>1. ASSUME NEW p \in Procs, Acquire(p), UNCHANGED daemonVars PROVE TypeOK'
  <2>1. CASE Check(p)
    BY <1>1, <2>1 DEF Check, Go, daemonVars, TypeOK, Procs, Steps
  <2>2. CASE Clear(p)
    BY <1>1, <2>2 DEF Clear, Go, daemonVars, TypeOK, Steps
  <2>3. CASE Create(p)
    <3>1. CASE lock = NoFile
      <4>1. lock' = [by |-> p, run |-> Unwritten] BY <1>1, <2>3, <3>1 DEF Create
      <4> QED BY <1>1, <2>3, <3>1, <4>1 DEF Create, Go, daemonVars, TypeOK, Steps
    <3>2. CASE lock # NoFile
      BY <1>1, <2>3, <3>2 DEF Create, Go, daemonVars, TypeOK, Steps
    <3> QED BY <3>1, <3>2
  <2>4. CASE Write(p)
    <3>1. lock' = NoFile \/ lock' \in [by : Procs, run : Runs \cup {Unwritten}]
      <4>1. CASE lock = [by |-> p, run |-> Unwritten]
        <5>1. lock' = [by |-> p, run |-> op[p].run] BY <1>1, <2>4, <4>1 DEF Write
        <5>2. op[p].run \in Runs BY <1>1, <2>4 DEF Write, Sought
        <5> QED BY <5>1, <5>2
      <4>2. CASE lock # [by |-> p, run |-> Unwritten]
        BY <1>1, <2>4, <4>2 DEF Write, TypeOK
      <4> QED BY <4>1, <4>2
    <3> QED BY <1>1, <2>4, <3>1 DEF Write, Go, daemonVars, TypeOK, Steps
  <2>5. CASE FindAgain(p)
    BY <1>1, <2>5 DEF FindAgain, Go, daemonVars, TypeOK, Steps
  <2>6. CASE ClearAgain(p)
    BY <1>1, <2>6 DEF ClearAgain, Go, daemonVars, TypeOK, Steps
  <2> QED BY <1>1, <2>1, <2>2, <2>3, <2>4, <2>5, <2>6 DEF Acquire
<1>2. CASE ViewerStep
  <2>1. CASE ViewerReads
    BY <1>2, <2>1 DEF ViewerStep, ViewerReads, Go, daemonVars, TypeOK, Procs, Steps
  <2>2. CASE ViewerClears
    BY <1>2, <2>2 DEF ViewerStep, ViewerClears, Ends, daemonVars, TypeOK, Idle, Steps
  <2> QED BY <1>2, <2>1, <2>2 DEF ViewerStep
<1>3. ASSUME NEW d \in Daemons, DaemonStep(d) PROVE TypeOK'
  <2>1. CASE Start(d)
    BY <2>1 DEF Start, At, TypeOK, Procs
  <2>2. CASE UnlinkSocket(d)
    BY <2>2 DEF UnlinkSocket, At, lockVars, TypeOK
  <2>3. CASE Bind(d)
    <3>1. CASE sock = Nobody
      BY <2>3, <3>1 DEF Bind, At, TypeOK, lockVars
    <3>2. CASE sock # Nobody
      <4>1. Dies(d) /\ d \in Procs \ {Viewer} BY <2>3, <3>2 DEF Bind, Procs
      <4> QED BY <2>3, <3>2, <4>1, DiesTyped DEF Bind, TypeOK
    <3> QED BY <3>1, <3>2
  <2>4. CASE Recover(d)
    BY <2>4 DEF Recover, At, Orphans, lockVars, TypeOK, Resumable
  <2>5. CASE Shutdown(d)
    BY <2>5 DEF Shutdown, At, lockVars, TypeOK
  <2>6. CASE ReleaseAll(d)
    BY <2>6 DEF ReleaseAll, At, Released, ThreadsOf, TypeOK
  <2>7. CASE Leave(d)
    <3>1. Dies(d) /\ d \in Procs \ {Viewer}
      BY <2>7, PaneLocksAssumption DEF Leave, Procs
    <3> QED
      BY <2>7, <3>1, DiesTyped DEF Leave, TypeOK
  <2>8. CASE Crash(d)
    <3>1. Dies(d) /\ d \in Procs \ {Viewer}
      BY <2>8, PaneLocksAssumption DEF Crash, Procs
    <3> QED
      BY <2>8, <3>1, DiesTyped DEF Crash, TypeOK
  <2>9. CASE Launch(d)
    <3> DEFINE r == op[d].run
    <3>1. r \in Runs BY <2>9 DEF Launch, Sought, Procs
    <3>2. disk' \in [Runs -> [top : {"NONE", "COMPLETED"} \cup Resumable,
                              mode : {"daemon", "foreground"}]]
      BY <2>9, <3>1 DEF Launch, TypeOK, Resumable
    <3>3. threads' \subseteq Runs \X (Procs \ {Viewer})
      BY <2>9, <3>1 DEF Launch, TypeOK, Procs
    <3>4. registry' \in [Daemons -> SUBSET Runs] BY <2>9, <3>1 DEF Launch, TypeOK
    <3>5. op' \in [Procs -> [step : Steps, run : Runs \cup {NoRun}]]
      BY <2>9 DEF Launch, Ends, Idle, TypeOK, Steps
    <3> QED BY <2>9, <3>2, <3>3, <3>4, <3>5 DEF Launch, At, Ends, TypeOK
  <2>10. CASE TurnAway(d)
    BY <2>10 DEF TurnAway, At, Ends, TypeOK, Idle, Steps
  <2>11. CASE \E r \in Runs : Register(d, r)
    <3> SUFFICES ASSUME NEW r \in Runs, Register(d, r) PROVE TypeOK' BY <2>11
    <3>1. disk' \in [Runs -> [top : {"NONE", "COMPLETED"} \cup Resumable,
                              mode : {"daemon", "foreground"}]]
      BY DEF Register, TypeOK, Resumable
    <3>2. pc' \in [Procs \ {Viewer} -> {"off", "unlink", "bind", "recover", "accept",
                                        "acquire", "join", "leave", "run", "dead"}]
      BY DEF Register, Seek, At, TypeOK
    <3>3. op' \in [Procs -> [step : Steps, run : Runs \cup {NoRun}]]
      BY DEF Register, Seek, Begins, TypeOK, Steps
    <3> QED BY <3>1, <3>2, <3>3 DEF Register, Seek, Begins, TypeOK
  <2>12. CASE \E r \in Runs : Resume(d, r)
    <3> SUFFICES ASSUME NEW r \in Runs, Resume(d, r) PROVE TypeOK' BY <2>12
    <3>1. disk' \in [Runs -> [top : {"NONE", "COMPLETED"} \cup Resumable,
                              mode : {"daemon", "foreground"}]]
      BY DEF Resume, TypeOK
    <3>2. pc' \in [Procs \ {Viewer} -> {"off", "unlink", "bind", "recover", "accept",
                                        "acquire", "join", "leave", "run", "dead"}]
      BY DEF Resume, Seek, At, TypeOK
    <3>3. op' \in [Procs -> [step : Steps, run : Runs \cup {NoRun}]]
      BY DEF Resume, Seek, Begins, TypeOK, Steps
    <3> QED BY <3>1, <3>2, <3>3 DEF Resume, Seek, Begins, TypeOK
  <2>13. CASE \E r \in Runs : Stop(d, r)
    BY <2>13 DEF Stop, Serves, lockVars, TypeOK
  <2>14. CASE \E r \in Runs : Reap(d, r)
    BY <2>14 DEF Reap, Released, Reapable, TypeOK
  <2> QED
    BY <1>3, <2>1, <2>2, <2>3, <2>4, <2>5, <2>6, <2>7, <2>8, <2>9, <2>10, <2>11, <2>12,
       <2>13, <2>14 DEF DaemonStep
<1>4. ASSUME NEW t \in threads, NEW top \in {"RUNNING", "PAUSED_FOR_HUMAN", "COMPLETED"},
             Works(t[1], t[2]) \/ LoopRaises(t[1], t[2]) \/ EndsRun(t[1], t[2], top)
      PROVE  TypeOK'
  <2>1. CASE Works(t[1], t[2])
    BY <2>1 DEF Works, Saves, ModeOf, lockVars, TypeOK, Resumable
  <2>2. CASE LoopRaises(t[1], t[2])
    BY <2>2 DEF LoopRaises, lockVars, TypeOK
  <2>3. CASE EndsRun(t[1], t[2], top)
    BY <2>3 DEF EndsRun, Saves, ModeOf, lockVars, TypeOK, Resumable
  <2> QED BY <1>4, <2>1, <2>2, <2>3
<1>5. CASE ForegroundStep
  <2>1. CASE \E r \in Runs : ForegroundStart(r)
    BY <2>1 DEF ForegroundStart, At, Begins, TypeOK, Procs, Steps
  <2>2. CASE ForegroundRun
    <3> DEFINE r == op[Foreground].run
    <3>1. r \in Runs BY <2>2 DEF ForegroundRun, Sought, Procs
    <3>2. disk' \in [Runs -> [top : {"NONE", "COMPLETED"} \cup Resumable,
                              mode : {"daemon", "foreground"}]]
      BY <2>2, <3>1 DEF ForegroundRun, TypeOK, Resumable
    <3>3. threads' \subseteq Runs \X (Procs \ {Viewer})
      BY <2>2, <3>1 DEF ForegroundRun, TypeOK, Procs
    <3> QED BY <2>2, <3>2, <3>3 DEF ForegroundRun, At, TypeOK, lockVars
  <2>3. CASE ForegroundRefused
    <3>1. Dies(Foreground) /\ Foreground \in Procs \ {Viewer}
      BY <2>3, PaneLocksAssumption DEF ForegroundRefused, Procs
    <3> QED
      BY <2>3, <3>1, DiesTyped DEF ForegroundRefused, TypeOK
  <2>4. CASE ForegroundEnd
    <3>1. Dies(Foreground) /\ Foreground \in Procs \ {Viewer}
      BY <2>4, PaneLocksAssumption DEF ForegroundEnd, Procs
    <3> QED
      BY <2>4, <3>1, DiesTyped DEF ForegroundEnd, TypeOK, Released
  <2>5. CASE ForegroundKilled
    <3>1. Dies(Foreground) /\ Foreground \in Procs \ {Viewer}
      BY <2>5, PaneLocksAssumption DEF ForegroundKilled, Procs
    <3> QED
      BY <2>5, <3>1, DiesTyped DEF ForegroundKilled, TypeOK
  <2> QED BY <1>5, <2>1, <2>2, <2>3, <2>4, <2>5 DEF ForegroundStep
<1>6. CASE UNCHANGED vars
  BY <1>6 DEF vars, lockVars, daemonVars, TypeOK
<1> QED BY <1>1, <1>2, <1>3, <1>4, <1>5, <1>6 DEF Next, LockStep, LoopStep

\* The steps of a process at the lock file are for its own run.
LEMMA SoughtStep == TypeOK /\ Sought /\ [Next]_vars => Sought'
<1> SUFFICES ASSUME TypeOK, Sought, [Next]_vars PROVE Sought' OBVIOUS
<1> USE PaneLocksAssumption
<1>1. ASSUME NEW p \in Procs, Acquire(p), UNCHANGED daemonVars PROVE Sought'
  <2>1. CASE Check(p)
    BY <1>1, <2>1 DEF Check, Go, daemonVars, Sought
  <2>2. CASE Clear(p)
    BY <1>1, <2>2 DEF Clear, Go, daemonVars, Sought
  <2>3. CASE Create(p)
    BY <1>1, <2>3 DEF Create, Go, daemonVars, Sought, TypeOK, Procs
  <2>4. CASE Write(p)
    BY <1>1, <2>4 DEF Write, Go, daemonVars, Sought
  <2>5. CASE FindAgain(p)
    BY <1>1, <2>5 DEF FindAgain, Go, daemonVars, Sought
  <2>6. CASE ClearAgain(p)
    BY <1>1, <2>6 DEF ClearAgain, Go, daemonVars, Sought
  <2> QED BY <1>1, <2>1, <2>2, <2>3, <2>4, <2>5, <2>6 DEF Acquire
<1>2. CASE ViewerStep
  <2>1. CASE ViewerReads
    BY <1>2, <2>1 DEF ViewerStep, ViewerReads, Go, daemonVars, Sought
  <2>2. CASE ViewerClears
    BY <1>2, <2>2 DEF ViewerStep, ViewerClears, Ends, daemonVars, Sought, Idle
  <2> QED BY <1>2, <2>1, <2>2 DEF ViewerStep
<1>3. ASSUME NEW d \in Daemons, DaemonStep(d) PROVE Sought'
  <2>1. CASE Start(d)
    BY <2>1 DEF Start, At, Sought
  <2>2. CASE UnlinkSocket(d)
    BY <2>2 DEF UnlinkSocket, At, lockVars, Sought
  <2>3. CASE Bind(d)
    BY <2>3 DEF Bind, At, Dies, ThreadsOf, Sought, TypeOK, Procs, Idle
  <2>4. CASE Recover(d)
    BY <2>4 DEF Recover, At, Orphans, lockVars, Sought
  <2>5. CASE Shutdown(d)
    BY <2>5 DEF Shutdown, At, lockVars, Sought
  <2>6. CASE ReleaseAll(d)
    BY <2>6 DEF ReleaseAll, At, Released, ThreadsOf, Sought
  <2>7. CASE Leave(d)
    BY <2>7 DEF Leave, At, Dies, ThreadsOf, Sought, Idle
  <2>8. CASE Crash(d)
    BY <2>8 DEF Crash, At, Dies, ThreadsOf, Sought, Idle
  <2>9. CASE Launch(d)
    BY <2>9 DEF Launch, At, Ends, Sought, Idle
  <2>10. CASE TurnAway(d)
    BY <2>10 DEF TurnAway, At, Ends, Sought, Idle
  <2>11. CASE \E r \in Runs : Register(d, r)
    BY <2>11 DEF Register, At, Seek, Begins, Serves, PaneBusy, Sought, TypeOK, Procs
  <2>12. CASE \E r \in Runs : Resume(d, r)
    BY <2>12 DEF Resume, At, Seek, Begins, Serves, PaneBusy, Sought, TypeOK, Procs
  <2>13. CASE \E r \in Runs : Stop(d, r)
    BY <2>13 DEF Stop, Serves, lockVars, Sought
  <2>14. CASE \E r \in Runs : Reap(d, r)
    BY <2>14 DEF Reap, Released, Reapable, Sought
  <2> QED
    BY <1>3, <2>1, <2>2, <2>3, <2>4, <2>5, <2>6, <2>7, <2>8, <2>9, <2>10, <2>11, <2>12,
       <2>13, <2>14 DEF DaemonStep
<1>4. ASSUME NEW t \in threads, NEW top \in {"RUNNING", "PAUSED_FOR_HUMAN", "COMPLETED"},
             Works(t[1], t[2]) \/ LoopRaises(t[1], t[2]) \/ EndsRun(t[1], t[2], top)
      PROVE  Sought'
  <2>1. CASE Works(t[1], t[2])
    BY <2>1 DEF Works, Saves, ModeOf, lockVars, Sought
  <2>2. CASE LoopRaises(t[1], t[2])
    BY <2>2 DEF LoopRaises, lockVars, Sought
  <2>3. CASE EndsRun(t[1], t[2], top)
    BY <2>3 DEF EndsRun, Saves, ModeOf, lockVars, Sought
  <2> QED BY <1>4, <2>1, <2>2, <2>3
<1>5. CASE ForegroundStep
  <2>1. CASE \E r \in Runs : ForegroundStart(r)
    BY <2>1 DEF ForegroundStart, At, Begins, Sought
  <2>2. CASE ForegroundRun
    BY <2>2 DEF ForegroundRun, At, lockVars, Sought
  <2>3. CASE ForegroundRefused
    BY <2>3 DEF ForegroundRefused, At, Dies, ThreadsOf, Sought, Idle
  <2>4. CASE ForegroundEnd
    BY <2>4 DEF ForegroundEnd, At, Dies, ThreadsOf, Released, Sought, Idle
  <2>5. CASE ForegroundKilled
    BY <2>5 DEF ForegroundKilled, At, Dies, ThreadsOf, Sought, Idle
  <2> QED BY <1>5, <2>1, <2>2, <2>3, <2>4, <2>5 DEF ForegroundStep
<1>6. CASE UNCHANGED vars
  BY <1>6 DEF vars, lockVars, daemonVars, Sought
<1> QED BY <1>1, <1>2, <1>3, <1>4, <1>5, <1>6 DEF Next, LockStep, LoopStep

\* What a process is at says whether it lives and whether it is at the lock file.
Placed ==
    /\ \A p \in Procs \ {Viewer} : p \in alive <=> pc[p] \notin {"off", "dead"}
    /\ \A d \in Daemons :
          /\ pc[d] # "acquire" => op[d] = Idle
          /\ pc[d] # "run"
          /\ d \notin alive => registry[d] = {}
    /\ pc[Foreground] \in {"off", "acquire", "run", "dead"}
    /\ pc[Foreground] = "run" => op[Foreground].step = "owned"
    /\ pc[Foreground] = "acquire" => op[Foreground].step # "none"
    /\ pc[Foreground] \in {"off", "dead"} => op[Foreground] = Idle

\* A lock file was made by a process that has been started; a process may die and
\* its file stay.
Filed == lock # NoFile => lock.by \in Procs \ {Viewer} /\ pc[lock.by] # "off"

\* A live process that the file names has the run, or is just about to.
Kept ==
    Held => \/ lock.by \in Daemons /\ lock.run \in registry[lock.by]
            \/ op[lock.by].step = "owned" /\ op[lock.by].run = lock.run

\* A process has a place at the file only while it is where the code takes a lock.
LEMMA PlacedStep == TypeOK /\ Sought /\ Placed /\ [Next]_vars => Placed'
<1> SUFFICES ASSUME TypeOK, Sought, Placed, [Next]_vars PROVE Placed' OBVIOUS
<1> USE PaneLocksAssumption
<1>1. ASSUME NEW p \in Procs, Acquire(p), UNCHANGED daemonVars PROVE Placed'
  <2>1. CASE Check(p)
    BY <1>1, <2>1 DEF Check, Go, daemonVars, Placed, Idle
  <2>2. CASE Clear(p)
    BY <1>1, <2>2 DEF Clear, Go, daemonVars, Placed, Idle
  <2>3. CASE Create(p)
    BY <1>1, <2>3 DEF Create, Go, daemonVars, Placed, TypeOK, Procs, Idle
  <2>4. CASE Write(p)
    BY <1>1, <2>4 DEF Write, Go, daemonVars, Placed, Idle
  <2>5. CASE FindAgain(p)
    BY <1>1, <2>5 DEF FindAgain, Go, daemonVars, Placed, Idle
  <2>6. CASE ClearAgain(p)
    BY <1>1, <2>6 DEF ClearAgain, Go, daemonVars, Placed, Idle
  <2> QED BY <1>1, <2>1, <2>2, <2>3, <2>4, <2>5, <2>6 DEF Acquire
<1>2. CASE ViewerStep
  <2>1. CASE ViewerReads
    BY <1>2, <2>1 DEF ViewerStep, ViewerReads, Go, daemonVars, Placed
  <2>2. CASE ViewerClears
    BY <1>2, <2>2 DEF ViewerStep, ViewerClears, Ends, daemonVars, Placed
  <2> QED BY <1>2, <2>1, <2>2 DEF ViewerStep
<1>3. ASSUME NEW d \in Daemons, DaemonStep(d) PROVE Placed'
  <2>1. CASE Start(d)
    BY <2>1 DEF Start, At, Placed, TypeOK
  <2>2. CASE UnlinkSocket(d)
    BY <2>2 DEF UnlinkSocket, At, lockVars, Placed
  <2>3. CASE Bind(d)
    BY <2>3 DEF Bind, At, Dies, ThreadsOf, Placed, TypeOK, Procs
  <2>4. CASE Recover(d)
    BY <2>4 DEF Recover, At, Orphans, lockVars, Placed
  <2>5. CASE Shutdown(d)
    BY <2>5 DEF Shutdown, At, lockVars, Placed
  <2>6. CASE ReleaseAll(d)
    BY <2>6 DEF ReleaseAll, At, Released, ThreadsOf, Placed
  <2>7. CASE Leave(d)
    BY <2>7 DEF Leave, At, Dies, ThreadsOf, Placed, TypeOK
  <2>8. CASE Crash(d)
    BY <2>8 DEF Crash, At, Dies, ThreadsOf, Placed, TypeOK
  <2>9. CASE Launch(d)
    BY <2>9 DEF Launch, At, Ends, Placed, TypeOK, Procs
  <2>10. CASE TurnAway(d)
    BY <2>10 DEF TurnAway, At, Ends, Placed, TypeOK
  <2>11. CASE \E r \in Runs : Register(d, r)
    <3> SUFFICES ASSUME NEW r \in Runs, Register(d, r) PROVE Placed' BY <2>11
    <3>1. CASE PaneBusy(d) \/ r \in registry[d]
      BY <3>1 DEF Register, Seek, Placed
    <3>2. CASE ~(PaneBusy(d) \/ r \in registry[d])
      BY <3>2 DEF Register, Seek, Begins, At, Serves, Placed, TypeOK, Procs
    <3> QED BY <3>1, <3>2
  <2>12. CASE \E r \in Runs : Resume(d, r)
    <3> SUFFICES ASSUME NEW r \in Runs, Resume(d, r) PROVE Placed' BY <2>12
    <3>1. CASE PaneBusy(d) \/ r \in registry[d]
      BY <3>1 DEF Resume, Seek, Placed
    <3>2. CASE ~(PaneBusy(d) \/ r \in registry[d])
      BY <3>2 DEF Resume, Seek, Begins, At, Serves, Placed, TypeOK, Procs
    <3> QED BY <3>1, <3>2
  <2>13. CASE \E r \in Runs : Stop(d, r)
    BY <2>13 DEF Stop, Serves, lockVars, Placed
  <2>14. CASE \E r \in Runs : Reap(d, r)
    BY <2>14 DEF Reap, Released, Reapable, Placed
  <2> QED
    BY <1>3, <2>1, <2>2, <2>3, <2>4, <2>5, <2>6, <2>7, <2>8, <2>9, <2>10, <2>11, <2>12,
       <2>13, <2>14 DEF DaemonStep
<1>4. ASSUME NEW t \in threads, NEW top \in {"RUNNING", "PAUSED_FOR_HUMAN", "COMPLETED"},
             Works(t[1], t[2]) \/ LoopRaises(t[1], t[2]) \/ EndsRun(t[1], t[2], top)
      PROVE  Placed'
  <2>1. CASE Works(t[1], t[2])
    BY <2>1 DEF Works, Saves, ModeOf, lockVars, Placed
  <2>2. CASE LoopRaises(t[1], t[2])
    BY <2>2 DEF LoopRaises, lockVars, Placed
  <2>3. CASE EndsRun(t[1], t[2], top)
    BY <2>3 DEF EndsRun, Saves, ModeOf, lockVars, Placed
  <2> QED BY <1>4, <2>1, <2>2, <2>3
<1>5. CASE ForegroundStep
  <2>1. CASE \E r \in Runs : ForegroundStart(r)
    BY <2>1 DEF ForegroundStart, At, Begins, Placed, TypeOK
  <2>2. CASE ForegroundRun
    BY <2>2 DEF ForegroundRun, At, lockVars, Placed
  <2>3. CASE ForegroundRefused
    BY <2>3 DEF ForegroundRefused, At, Dies, ThreadsOf, Placed, TypeOK
  <2>4. CASE ForegroundEnd
    BY <2>4 DEF ForegroundEnd, At, Dies, ThreadsOf, Released, Placed, TypeOK
  <2>5. CASE ForegroundKilled
    BY <2>5 DEF ForegroundKilled, At, Dies, ThreadsOf, Placed, TypeOK
  <2> QED BY <1>5, <2>1, <2>2, <2>3, <2>4, <2>5 DEF ForegroundStep
<1>6. CASE UNCHANGED vars
  BY <1>6 DEF vars, lockVars, daemonVars, Placed
<1> QED BY <1>1, <1>2, <1>3, <1>4, <1>5, <1>6 DEF Next, LockStep, LoopStep

\* Only a process that has been started makes a lock file.
LEMMA FiledStep == TypeOK /\ Sought /\ Placed /\ Filed /\ [Next]_vars => Filed'
<1> SUFFICES ASSUME TypeOK, Sought, Placed, Filed, [Next]_vars PROVE Filed' OBVIOUS
<1> USE PaneLocksAssumption
<1>1. ASSUME NEW p \in Procs, Acquire(p), UNCHANGED daemonVars PROVE Filed'
  <2>1. CASE Check(p)
    BY <1>1, <2>1 DEF Check, Go, daemonVars, Filed
  <2>2. CASE Clear(p)
    BY <1>1, <2>2 DEF Clear, Go, daemonVars, Filed
  <2>3. CASE Create(p)
    <3>1. pc'[p] # "off" \/ p = Viewer
      BY <1>1, <2>3 DEF Create, daemonVars, Placed, Idle, Procs
    <3>2. p # Viewer BY <1>1, <2>3 DEF Create, Sought
    <3> QED BY <1>1, <2>3, <3>1, <3>2 DEF Create, daemonVars, Filed
  <2>4. CASE Write(p)
    BY <1>1, <2>4 DEF Write, Go, daemonVars, Filed, Procs, NoFile
  <2>5. CASE FindAgain(p)
    BY <1>1, <2>5 DEF FindAgain, Go, daemonVars, Filed
  <2>6. CASE ClearAgain(p)
    BY <1>1, <2>6 DEF ClearAgain, Go, daemonVars, Filed
  <2> QED BY <1>1, <2>1, <2>2, <2>3, <2>4, <2>5, <2>6 DEF Acquire
<1>2. CASE ViewerStep
  <2>1. CASE ViewerReads
    BY <1>2, <2>1 DEF ViewerStep, ViewerReads, Go, daemonVars, Filed
  <2>2. CASE ViewerClears
    BY <1>2, <2>2 DEF ViewerStep, ViewerClears, Ends, daemonVars, Filed
  <2> QED BY <1>2, <2>1, <2>2 DEF ViewerStep
<1>3. ASSUME NEW d \in Daemons, DaemonStep(d) PROVE Filed'
  <2>1. CASE Start(d)
    BY <2>1 DEF Start, At, Filed
  <2>2. CASE UnlinkSocket(d)
    BY <2>2 DEF UnlinkSocket, At, lockVars, Filed
  <2>3. CASE Bind(d)
    BY <2>3 DEF Bind, At, Dies, ThreadsOf, Filed, TypeOK
  <2>4. CASE Recover(d)
    BY <2>4 DEF Recover, At, Orphans, lockVars, Filed
  <2>5. CASE Shutdown(d)
    BY <2>5 DEF Shutdown, At, lockVars, Filed
  <2>6. CASE ReleaseAll(d)
    BY <2>6 DEF ReleaseAll, At, Released, ThreadsOf, Filed
  <2>7. CASE Leave(d)
    BY <2>7 DEF Leave, At, Dies, ThreadsOf, Filed
  <2>8. CASE Crash(d)
    BY <2>8 DEF Crash, At, Dies, ThreadsOf, Filed
  <2>9. CASE Launch(d)
    BY <2>9 DEF Launch, At, Ends, Filed
  <2>10. CASE TurnAway(d)
    BY <2>10 DEF TurnAway, At, Ends, Filed
  <2>11. CASE \E r \in Runs : Register(d, r)
    <3> SUFFICES ASSUME NEW r \in Runs, Register(d, r) PROVE Filed' BY <2>11
    <3>1. CASE PaneBusy(d) \/ r \in registry[d]
      BY <3>1 DEF Register, Seek, Filed
    <3>2. CASE ~(PaneBusy(d) \/ r \in registry[d])
      BY <3>2 DEF Register, Seek, Begins, At, Serves, Filed, TypeOK
    <3> QED BY <3>1, <3>2
  <2>12. CASE \E r \in Runs : Resume(d, r)
    <3> SUFFICES ASSUME NEW r \in Runs, Resume(d, r) PROVE Filed' BY <2>12
    <3>1. CASE PaneBusy(d) \/ r \in registry[d]
      BY <3>1 DEF Resume, Seek, Filed
    <3>2. CASE ~(PaneBusy(d) \/ r \in registry[d])
      BY <3>2 DEF Resume, Seek, Begins, At, Serves, Filed, TypeOK
    <3> QED BY <3>1, <3>2
  <2>13. CASE \E r \in Runs : Stop(d, r)
    BY <2>13 DEF Stop, Serves, lockVars, Filed
  <2>14. CASE \E r \in Runs : Reap(d, r)
    BY <2>14 DEF Reap, Released, Reapable, Filed
  <2> QED
    BY <1>3, <2>1, <2>2, <2>3, <2>4, <2>5, <2>6, <2>7, <2>8, <2>9, <2>10, <2>11, <2>12,
       <2>13, <2>14 DEF DaemonStep
<1>4. ASSUME NEW t \in threads, NEW top \in {"RUNNING", "PAUSED_FOR_HUMAN", "COMPLETED"},
             Works(t[1], t[2]) \/ LoopRaises(t[1], t[2]) \/ EndsRun(t[1], t[2], top)
      PROVE  Filed'
  <2>1. CASE Works(t[1], t[2])
    BY <2>1 DEF Works, Saves, ModeOf, lockVars, Filed
  <2>2. CASE LoopRaises(t[1], t[2])
    BY <2>2 DEF LoopRaises, lockVars, Filed
  <2>3. CASE EndsRun(t[1], t[2], top)
    BY <2>3 DEF EndsRun, Saves, ModeOf, lockVars, Filed
  <2> QED BY <1>4, <2>1, <2>2, <2>3
<1>5. CASE ForegroundStep
  <2>1. CASE \E r \in Runs : ForegroundStart(r)
    BY <2>1 DEF ForegroundStart, At, Begins, Filed
  <2>2. CASE ForegroundRun
    BY <2>2 DEF ForegroundRun, At, lockVars, Filed
  <2>3. CASE ForegroundRefused
    BY <2>3 DEF ForegroundRefused, At, Dies, ThreadsOf, Filed
  <2>4. CASE ForegroundEnd
    BY <2>4 DEF ForegroundEnd, At, Dies, ThreadsOf, Released, Filed
  <2>5. CASE ForegroundKilled
    BY <2>5 DEF ForegroundKilled, At, Dies, ThreadsOf, Filed
  <2> QED BY <1>5, <2>1, <2>2, <2>3, <2>4, <2>5 DEF ForegroundStep
<1>6. CASE UNCHANGED vars
  BY <1>6 DEF vars, lockVars, daemonVars, Filed
<1> QED BY <1>1, <1>2, <1>3, <1>4, <1>5, <1>6 DEF Next, LockStep, LoopStep

\* Taking, launching, reaping and dying leave a live owner's lock with a run it has.
LEMMA KeptStep ==
    TypeOK /\ Sought /\ Placed /\ Filed /\ Kept /\ [Next]_vars => Kept'
<1> SUFFICES ASSUME TypeOK, Sought, Placed, Filed, Kept, [Next]_vars PROVE Kept' OBVIOUS
<1> USE PaneLocksAssumption
<1>1. ASSUME NEW p \in Procs, Acquire(p), UNCHANGED daemonVars PROVE Kept'
  <2>1. CASE Check(p)
    BY <1>1, <2>1 DEF Check, Go, Held, daemonVars, Kept
  <2>2. CASE Clear(p)
    BY <1>1, <2>2 DEF Clear, Go, daemonVars, Kept, Held
  <2>3. CASE Create(p)
    BY <1>1, <2>3 DEF Create, Go, daemonVars, Kept, Held, TypeOK
  <2>4. CASE Write(p)
    BY <1>1, <2>4 DEF Write, Go, daemonVars, Kept, Held, TypeOK
  <2>5. CASE FindAgain(p)
    BY <1>1, <2>5 DEF FindAgain, Go, Held, daemonVars, Kept
  <2>6. CASE ClearAgain(p)
    BY <1>1, <2>6 DEF ClearAgain, Go, daemonVars, Kept, Held
  <2> QED BY <1>1, <2>1, <2>2, <2>3, <2>4, <2>5, <2>6 DEF Acquire
<1>2. CASE ViewerStep
  <2>1. CASE ViewerReads
    BY <1>2, <2>1 DEF ViewerStep, ViewerReads, Go, Held, daemonVars, Kept
  <2>2. CASE ViewerClears
    BY <1>2, <2>2 DEF ViewerStep, ViewerClears, Ends, daemonVars, Kept, Held
  <2> QED BY <1>2, <2>1, <2>2 DEF ViewerStep
<1>3. ASSUME NEW d \in Daemons, DaemonStep(d) PROVE Kept'
  <2>1. CASE Start(d)
    BY <2>1 DEF Start, At, Kept, Held, Filed
  <2>2. CASE UnlinkSocket(d)
    BY <2>2 DEF UnlinkSocket, At, lockVars, Kept, Held
  <2>3. CASE Bind(d)
    BY <2>3 DEF Bind, At, Dies, ThreadsOf, Kept, Held, TypeOK
  <2>4. CASE Recover(d)
    BY <2>4 DEF Recover, At, Orphans, lockVars, Kept, Held
  <2>5. CASE Shutdown(d)
    BY <2>5 DEF Shutdown, At, lockVars, Kept, Held
  <2>6. CASE ReleaseAll(d)
    BY <2>6 DEF ReleaseAll, At, Released, ThreadsOf, Kept, Held
  <2>7. CASE Leave(d)
    BY <2>7 DEF Leave, At, Dies, ThreadsOf, Kept, Held
  <2>8. CASE Crash(d)
    BY <2>8 DEF Crash, At, Dies, ThreadsOf, Kept, Held
  <2>9. CASE Launch(d)
    BY <2>9 DEF Launch, At, Ends, Kept, Held, TypeOK
  <2>10. CASE TurnAway(d)
    BY <2>10 DEF TurnAway, At, Ends, Kept, Held
  <2>11. CASE \E r \in Runs : Register(d, r)
    <3> SUFFICES ASSUME NEW r \in Runs, Register(d, r) PROVE Kept' BY <2>11
    <3>1. UNCHANGED <<lock, alive, registry>> BY DEF Register
    <3>2. \A p \in Procs : p # d => op'[p] = op[p] BY DEF Register, Seek, Begins, TypeOK
    <3>3. op[d] = Idle BY DEF Register, Serves, Placed
    <3> QED BY <3>1, <3>2, <3>3 DEF Kept, Held, Filed, Idle
  <2>12. CASE \E r \in Runs : Resume(d, r)
    <3> SUFFICES ASSUME NEW r \in Runs, Resume(d, r) PROVE Kept' BY <2>12
    <3>1. UNCHANGED <<lock, alive, registry>> BY DEF Resume
    <3>2. \A p \in Procs : p # d => op'[p] = op[p] BY DEF Resume, Seek, Begins, TypeOK
    <3>3. op[d] = Idle BY DEF Resume, Serves, Placed
    <3> QED BY <3>1, <3>2, <3>3 DEF Kept, Held, Filed, Idle
  <2>13. CASE \E r \in Runs : Stop(d, r)
    BY <2>13 DEF Stop, Serves, lockVars, Kept, Held
  <2>14. CASE \E r \in Runs : Reap(d, r)
    BY <2>14 DEF Reap, Released, Reapable, Kept, Held
  <2> QED
    BY <1>3, <2>1, <2>2, <2>3, <2>4, <2>5, <2>6, <2>7, <2>8, <2>9, <2>10, <2>11, <2>12,
       <2>13, <2>14 DEF DaemonStep
<1>4. ASSUME NEW t \in threads, NEW top \in {"RUNNING", "PAUSED_FOR_HUMAN", "COMPLETED"},
             Works(t[1], t[2]) \/ LoopRaises(t[1], t[2]) \/ EndsRun(t[1], t[2], top)
      PROVE  Kept'
  <2>1. CASE Works(t[1], t[2])
    BY <2>1 DEF Works, Saves, ModeOf, lockVars, Kept, Held
  <2>2. CASE LoopRaises(t[1], t[2])
    BY <2>2 DEF LoopRaises, lockVars, Kept, Held
  <2>3. CASE EndsRun(t[1], t[2], top)
    BY <2>3 DEF EndsRun, Saves, ModeOf, lockVars, Kept, Held
  <2> QED BY <1>4, <2>1, <2>2, <2>3
<1>5. CASE ForegroundStep
  <2>1. CASE \E r \in Runs : ForegroundStart(r)
    BY <2>1 DEF ForegroundStart, At, Begins, Kept, Held, Filed
  <2>2. CASE ForegroundRun
    BY <2>2 DEF ForegroundRun, At, lockVars, Kept, Held
  <2>3. CASE ForegroundRefused
    BY <2>3 DEF ForegroundRefused, At, Dies, ThreadsOf, Kept, Held
  <2>4. CASE ForegroundEnd
    BY <2>4 DEF ForegroundEnd, At, Dies, ThreadsOf, Released, Kept, Held
  <2>5. CASE ForegroundKilled
    BY <2>5 DEF ForegroundKilled, At, Dies, ThreadsOf, Kept, Held
  <2> QED BY <1>5, <2>1, <2>2, <2>3, <2>4, <2>5 DEF ForegroundStep
<1>6. CASE UNCHANGED vars
  BY <1>6 DEF vars, lockVars, daemonVars, Kept, Held
<1> QED BY <1>1, <1>2, <1>3, <1>4, <1>5, <1>6 DEF Next, LockStep, LoopStep

\* The inductive invariant behind LockHasHolder.
HIInv == TypeOK /\ Sought /\ Placed /\ Filed /\ Kept

\* At the start no lock stands and nobody seeks one.
LEMMA HInit == Init => HIInv
<1> SUFFICES ASSUME Init PROVE HIInv OBVIOUS
<1>1. TypeOK BY TypeInit
<1>2. Sought /\ Placed /\ Filed /\ Kept
  BY PaneLocksAssumption DEF Init, LockInit, Sought, Placed, Filed, Kept, Held, Procs, Idle
<1> QED BY <1>1, <1>2 DEF HIInv
\* The four parts carry each other over every step.
LEMMA HNext == HIInv /\ [Next]_vars => HIInv'
  BY TypeStep, SoughtStep, PlacedStep, FiledStep, KeptStep DEF HIInv

\* A lock that names a live process names a run that process has, or is taking or leaving:
\* in every instance no lock outlives its run (acquire_pane_lock, release_pane_lock, _reap).
THEOREM HolderHolds == Spec => []LockHasHolder
<1>1. HIInv => LockHasHolder
  BY DEF HIInv, Kept, LockHasHolder, Held, Filed, Procs
<1> QED BY HInit, HNext, <1>1, PTL DEF Spec

\* Every variable keeps to its range in every instance, whatever the number of daemons,
\* foreground processes and runs.
THEOREM TypesHold == Spec => []TypeOK
<1>1. HIInv => TypeOK BY DEF HIInv
<1> QED BY HInit, HNext, <1>1, PTL DEF Spec

\* A daemon that has runs has its lock, until it has released it.
Owns ==
    \A d \in Daemons, r \in Runs :
        r \in registry[d] /\ pc[d] # "leave" => lock = [by |-> d, run |-> r]

\* A thread belongs to a run its process has.
Threaded ==
    /\ \A d \in Daemons, r \in Runs :
          <<r, d>> \in threads => r \in registry[d] /\ pc[d] # "leave"
    /\ \A r \in Runs :
          <<r, Foreground>> \in threads =>
             pc[Foreground] = "run" /\ op[Foreground].run = r

\* What a process read of the file is still so.
Turns ==
    \A p \in Procs :
        /\ op[p].step = "owned" => lock = [by |-> p, run |-> op[p].run]
        /\ op[p].step = "write" => lock = [by |-> p, run |-> Unwritten]
        /\ op[p].step = "create" => lock = NoFile
        /\ op[p].step = "clear" => ~Held
        /\ op[p].step \notin {"again", "reclear"}

\* One process at a time is between its system calls.
OneMid == \A p, q \in Procs : Mid(op, p) /\ Mid(op, q) => p = q

Calm == Owns /\ Threaded /\ Turns /\ OneMid
Quiet == ~contended /\ ~lingered

\* A process that goes on alone is the only one between its system calls.
LEMMA GoAlone ==
    ASSUME TypeOK, OneMid, NEW p \in Procs, NEW s, Go(p, s), ~contended'
    PROVE  OneMid'
<1> SUFFICES ASSUME NEW q \in Procs, NEW u \in Procs, Mid(op', q), Mid(op', u), q # u PROVE FALSE
  BY DEF OneMid
<1>1. \A v \in Procs : v # p => (Mid(op', v) <=> Mid(op, v))
  BY DEF Go, Mid
<1>2. \A v \in Procs \ {p} : ~(Mid(op, v) /\ Mid(op', p)) BY DEF Go
<1> QED BY <1>1, <1>2 DEF OneMid

\* While nothing is contended, a run in a registry has the lock until its daemon leaves.
LEMMA OwnsStep ==
    ASSUME TypeOK, Sought, Placed, Filed, Owns, Turns, [Next]_vars, Quiet, Quiet'
    PROVE  Owns'
<1> USE PaneLocksAssumption
<1>1. ASSUME NEW p \in Procs, Acquire(p), UNCHANGED daemonVars PROVE Owns'
  <2>1. CASE Check(p)
    BY <1>1, <2>1 DEF Check, Go, daemonVars, Owns
  <2>2. CASE Clear(p)
    BY <1>1, <2>2 DEF Clear, Go, daemonVars, Owns, Turns, Held, Placed
  <2>3. CASE Create(p)
    BY <1>1, <2>3 DEF Create, Go, daemonVars, Owns, NoFile
  <2>4. CASE Write(p)
    BY <1>1, <2>4 DEF Write, Go, daemonVars, Owns
  <2>5. CASE FindAgain(p)
    BY <1>1, <2>5 DEF FindAgain, Go, daemonVars, Owns
  <2>6. CASE ClearAgain(p)
    BY <1>1, <2>6 DEF ClearAgain, Go, daemonVars, Owns, Turns
  <2> QED BY <1>1, <2>1, <2>2, <2>3, <2>4, <2>5, <2>6 DEF Acquire
<1>2. CASE ViewerStep
  <2>1. CASE ViewerReads
    BY <1>2, <2>1 DEF ViewerStep, ViewerReads, Go, daemonVars, Owns
  <2>2. CASE ViewerClears
    BY <1>2, <2>2 DEF ViewerStep, ViewerClears, Ends, daemonVars, Owns, Turns, Held, Placed,
       Procs
  <2> QED BY <1>2, <2>1, <2>2 DEF ViewerStep
<1>3. ASSUME NEW d \in Daemons, DaemonStep(d) PROVE Owns'
  <2>1. CASE Start(d)
    BY <2>1 DEF Start, At, Owns
  <2>2. CASE UnlinkSocket(d)
    BY <2>2 DEF UnlinkSocket, At, lockVars, Owns
  <2>3. CASE Bind(d)
    BY <2>3 DEF Bind, At, Dies, ThreadsOf, Owns, TypeOK, Procs
  <2>4. CASE Recover(d)
    BY <2>4 DEF Recover, At, Orphans, lockVars, Owns
  <2>5. CASE Shutdown(d)
    BY <2>5 DEF Shutdown, At, lockVars, Owns
  <2>6. CASE ReleaseAll(d)
    BY <2>6 DEF ReleaseAll, At, Released, ThreadsOf, Owns, TypeOK
  <2>7. CASE Leave(d)
    BY <2>7 DEF Leave, At, Dies, ThreadsOf, Owns
  <2>8. CASE Crash(d)
    BY <2>8 DEF Crash, At, Dies, ThreadsOf, Owns
  <2>9. CASE Launch(d)
    BY <2>9 DEF Launch, At, Ends, Owns, Turns, Procs
  <2>10. CASE TurnAway(d)
    BY <2>10 DEF TurnAway, At, Ends, Owns
  <2>11. CASE \E r \in Runs : Register(d, r)
    <3> SUFFICES ASSUME NEW r \in Runs, Register(d, r) PROVE Owns' BY <2>11
    <3>1. CASE PaneBusy(d) \/ r \in registry[d]
      BY <3>1 DEF Register, Seek, Owns
    <3>2. CASE ~(PaneBusy(d) \/ r \in registry[d])
      BY <3>2 DEF Register, Seek, Begins, At, Serves, Owns, TypeOK, Procs
    <3> QED BY <3>1, <3>2
  <2>12. CASE \E r \in Runs : Resume(d, r)
    <3> SUFFICES ASSUME NEW r \in Runs, Resume(d, r) PROVE Owns' BY <2>12
    <3>1. CASE PaneBusy(d) \/ r \in registry[d]
      BY <3>1 DEF Resume, Seek, Owns
    <3>2. CASE ~(PaneBusy(d) \/ r \in registry[d])
      BY <3>2 DEF Resume, Seek, Begins, At, Serves, Owns, TypeOK, Procs
    <3> QED BY <3>1, <3>2
  <2>13. CASE \E r \in Runs : Stop(d, r)
    BY <2>13 DEF Stop, Serves, lockVars, Owns
  <2>14. CASE \E r \in Runs : Reap(d, r)
    BY <2>14 DEF Reap, Released, Reapable, Owns, TypeOK
  <2> QED
    BY <1>3, <2>1, <2>2, <2>3, <2>4, <2>5, <2>6, <2>7, <2>8, <2>9, <2>10, <2>11, <2>12,
       <2>13, <2>14 DEF DaemonStep
<1>4. ASSUME NEW t \in threads, NEW top \in {"RUNNING", "PAUSED_FOR_HUMAN", "COMPLETED"},
             Works(t[1], t[2]) \/ LoopRaises(t[1], t[2]) \/ EndsRun(t[1], t[2], top)
      PROVE  Owns'
  <2>1. CASE Works(t[1], t[2])
    BY <2>1 DEF Works, Saves, ModeOf, lockVars, Owns
  <2>2. CASE LoopRaises(t[1], t[2])
    BY <2>2 DEF LoopRaises, lockVars, Owns
  <2>3. CASE EndsRun(t[1], t[2], top)
    BY <2>3 DEF EndsRun, Saves, ModeOf, lockVars, Owns
  <2> QED BY <1>4, <2>1, <2>2, <2>3
<1>5. CASE ForegroundStep
  <2>1. CASE \E r \in Runs : ForegroundStart(r)
    BY <2>1 DEF ForegroundStart, At, Begins, Owns
  <2>2. CASE ForegroundRun
    BY <2>2 DEF ForegroundRun, At, lockVars, Owns
  <2>3. CASE ForegroundRefused
    BY <2>3 DEF ForegroundRefused, At, Dies, ThreadsOf, Owns
  <2>4. CASE ForegroundEnd
    BY <2>4 DEF ForegroundEnd, At, Dies, ThreadsOf, Released, Owns, Turns, Placed, Procs
  <2>5. CASE ForegroundKilled
    BY <2>5 DEF ForegroundKilled, At, Dies, ThreadsOf, Owns
  <2> QED BY <1>5, <2>1, <2>2, <2>3, <2>4, <2>5 DEF ForegroundStep
<1>6. CASE UNCHANGED vars
  BY <1>6 DEF vars, lockVars, daemonVars, Owns
<1> QED BY <1>1, <1>2, <1>3, <1>4, <1>5, <1>6 DEF Next, LockStep, LoopStep

\* A loop's thread belongs to a run its process still has.
LEMMA ThreadedStep ==
    ASSUME TypeOK, Sought, Placed, Filed, Owns, Threaded, Turns, [Next]_vars, Quiet, Quiet'
    PROVE  Threaded'
<1> USE PaneLocksAssumption
<1>1. ASSUME NEW p \in Procs, Acquire(p), UNCHANGED daemonVars PROVE Threaded'
  <2>1. CASE Check(p)
    BY <1>1, <2>1 DEF Check, Go, daemonVars, Threaded
  <2>2. CASE Clear(p)
    BY <1>1, <2>2 DEF Clear, Go, daemonVars, Threaded
  <2>3. CASE Create(p)
    BY <1>1, <2>3 DEF Create, Go, daemonVars, Threaded, TypeOK
  <2>4. CASE Write(p)
    BY <1>1, <2>4 DEF Write, Go, daemonVars, Threaded
  <2>5. CASE FindAgain(p)
    BY <1>1, <2>5 DEF FindAgain, Go, daemonVars, Threaded
  <2>6. CASE ClearAgain(p)
    BY <1>1, <2>6 DEF ClearAgain, Go, daemonVars, Threaded
  <2> QED BY <1>1, <2>1, <2>2, <2>3, <2>4, <2>5, <2>6 DEF Acquire
<1>2. CASE ViewerStep
  <2>1. CASE ViewerReads
    BY <1>2, <2>1 DEF ViewerStep, ViewerReads, Go, daemonVars, Threaded
  <2>2. CASE ViewerClears
    BY <1>2, <2>2 DEF ViewerStep, ViewerClears, Ends, daemonVars, Threaded
  <2> QED BY <1>2, <2>1, <2>2 DEF ViewerStep
<1>3. ASSUME NEW d \in Daemons, DaemonStep(d) PROVE Threaded'
  <2>1. CASE Start(d)
    BY <2>1 DEF Start, At, Threaded
  <2>2. CASE UnlinkSocket(d)
    BY <2>2 DEF UnlinkSocket, At, lockVars, Threaded
  <2>3. CASE Bind(d)
    BY <2>3 DEF Bind, At, Dies, ThreadsOf, Threaded, TypeOK
  <2>4. CASE Recover(d)
    BY <2>4 DEF Recover, At, Orphans, lockVars, Threaded
  <2>5. CASE Shutdown(d)
    BY <2>5 DEF Shutdown, At, lockVars, Threaded
  <2>6. CASE ReleaseAll(d)
    <3>1. ThreadsOf(d) = {} BY <2>6 DEF ReleaseAll, Quiet
    <3>2. \A r \in Runs : <<r, d>> \notin threads BY <3>1 DEF ThreadsOf
    <3> QED BY <2>6, <3>2 DEF ReleaseAll, At, Threaded
  <2>7. CASE Leave(d)
    BY <2>7 DEF Leave, At, Dies, ThreadsOf, Threaded
  <2>8. CASE Crash(d)
    BY <2>8 DEF Crash, At, Dies, ThreadsOf, Threaded
  <2>9. CASE Launch(d)
    BY <2>9 DEF Launch, At, Ends, Threaded, TypeOK
  <2>10. CASE TurnAway(d)
    BY <2>10 DEF TurnAway, At, Ends, Threaded
  <2>11. CASE \E r \in Runs : Register(d, r)
    <3> SUFFICES ASSUME NEW r \in Runs, Register(d, r) PROVE Threaded' BY <2>11
    <3>1. CASE PaneBusy(d) \/ r \in registry[d]
      BY <3>1 DEF Register, Seek, Threaded
    <3>2. CASE ~(PaneBusy(d) \/ r \in registry[d])
      BY <3>2 DEF Register, Seek, Begins, At, Serves, Threaded, TypeOK
    <3> QED BY <3>1, <3>2
  <2>12. CASE \E r \in Runs : Resume(d, r)
    <3> SUFFICES ASSUME NEW r \in Runs, Resume(d, r) PROVE Threaded' BY <2>12
    <3>1. CASE PaneBusy(d) \/ r \in registry[d]
      BY <3>1 DEF Resume, Seek, Threaded
    <3>2. CASE ~(PaneBusy(d) \/ r \in registry[d])
      BY <3>2 DEF Resume, Seek, Begins, At, Serves, Threaded, TypeOK, Procs
    <3> QED BY <3>1, <3>2
  <2>13. CASE \E r \in Runs : Stop(d, r)
    BY <2>13 DEF Stop, Serves, lockVars, Threaded
  <2>14. CASE \E r \in Runs : Reap(d, r)
    <3> SUFFICES ASSUME NEW r \in Runs, Reap(d, r) PROVE Threaded' BY <2>14
    <3> QED BY DEF Reap, Reapable, Threaded
  <2> QED
    BY <1>3, <2>1, <2>2, <2>3, <2>4, <2>5, <2>6, <2>7, <2>8, <2>9, <2>10, <2>11, <2>12,
       <2>13, <2>14 DEF DaemonStep
<1>4. ASSUME NEW t \in threads, NEW top \in {"RUNNING", "PAUSED_FOR_HUMAN", "COMPLETED"},
             Works(t[1], t[2]) \/ LoopRaises(t[1], t[2]) \/ EndsRun(t[1], t[2], top)
      PROVE  Threaded'
  <2>1. CASE Works(t[1], t[2])
    BY <2>1 DEF Works, Saves, ModeOf, lockVars, Threaded
  <2>2. CASE LoopRaises(t[1], t[2])
    BY <2>2 DEF LoopRaises, lockVars, Threaded
  <2>3. CASE EndsRun(t[1], t[2], top)
    BY <2>3 DEF EndsRun, Saves, ModeOf, lockVars, Threaded
  <2> QED BY <1>4, <2>1, <2>2, <2>3
<1>5. CASE ForegroundStep
  <2>1. CASE \E r \in Runs : ForegroundStart(r)
    BY <2>1 DEF ForegroundStart, At, Begins, Threaded
  <2>2. CASE ForegroundRun
    BY <2>2 DEF ForegroundRun, At, lockVars, Threaded, TypeOK, Procs
  <2>3. CASE ForegroundRefused
    BY <2>3 DEF ForegroundRefused, At, Dies, ThreadsOf, Threaded
  <2>4. CASE ForegroundEnd
    BY <2>4 DEF ForegroundEnd, At, Dies, ThreadsOf, Released, Threaded
  <2>5. CASE ForegroundKilled
    BY <2>5 DEF ForegroundKilled, At, Dies, ThreadsOf, Threaded
  <2> QED BY <1>5, <2>1, <2>2, <2>3, <2>4, <2>5 DEF ForegroundStep
<1>6. CASE UNCHANGED vars
  BY <1>6 DEF vars, lockVars, daemonVars, Threaded
<1> QED BY <1>1, <1>2, <1>3, <1>4, <1>5, <1>6 DEF Next, LockStep, LoopStep

\* At most one process is between creating the file and having read it back.
LEMMA OneMidStep ==
    ASSUME TypeOK, Sought, Placed, Filed, OneMid, [Next]_vars, Quiet, Quiet'
    PROVE  OneMid'
<1> USE PaneLocksAssumption
<1>1. ASSUME NEW p \in Procs, Acquire(p), UNCHANGED daemonVars PROVE OneMid'
  <2>1. CASE Check(p)
    BY <1>1, <2>1, GoAlone DEF Check, Quiet
  <2>2. CASE Clear(p)
    BY <1>1, <2>2, GoAlone DEF Clear, Quiet
  <2>3. CASE Create(p)
    BY <1>1, <2>3, GoAlone DEF Create, Quiet
  <2>4. CASE Write(p)
    BY <1>1, <2>4, GoAlone DEF Write, Quiet
  <2>5. CASE FindAgain(p)
    BY <1>1, <2>5, GoAlone DEF FindAgain, Quiet
  <2>6. CASE ClearAgain(p)
    BY <1>1, <2>6, GoAlone DEF ClearAgain, Quiet
  <2> QED BY <1>1, <2>1, <2>2, <2>3, <2>4, <2>5, <2>6 DEF Acquire
<1>2. CASE ViewerStep
  <2>1. CASE ViewerReads
    BY <1>2, <2>1 DEF ViewerStep, ViewerReads, Go, daemonVars, OneMid, Mid, TypeOK, Sought,
       Filed, Quiet, Idle, NoFile
  <2>2. CASE ViewerClears
    BY <1>2, <2>2 DEF ViewerStep, ViewerClears, Ends, daemonVars, OneMid, Mid
  <2> QED BY <1>2, <2>1, <2>2 DEF ViewerStep
<1>3. ASSUME NEW d \in Daemons, DaemonStep(d) PROVE OneMid'
  <2>1. CASE Start(d)
    BY <2>1 DEF Start, At, OneMid, Mid
  <2>2. CASE UnlinkSocket(d)
    BY <2>2 DEF UnlinkSocket, At, lockVars, OneMid, Mid
  <2>3. CASE Bind(d)
    BY <2>3 DEF Bind, At, Dies, ThreadsOf, OneMid, Mid, TypeOK, Placed
  <2>4. CASE Recover(d)
    BY <2>4 DEF Recover, At, Orphans, lockVars, OneMid, Mid
  <2>5. CASE Shutdown(d)
    BY <2>5 DEF Shutdown, At, lockVars, OneMid, Mid
  <2>6. CASE ReleaseAll(d)
    BY <2>6 DEF ReleaseAll, At, Released, ThreadsOf, OneMid, Mid
  <2>7. CASE Leave(d)
    BY <2>7 DEF Leave, At, Dies, ThreadsOf, OneMid, Mid, Placed
  <2>8. CASE Crash(d)
    BY <2>8 DEF Crash, At, Dies, ThreadsOf, OneMid, Mid, Idle
  <2>9. CASE Launch(d)
    BY <2>9 DEF Launch, At, Ends, OneMid, Mid, Idle
  <2>10. CASE TurnAway(d)
    BY <2>10 DEF TurnAway, At, Ends, OneMid, Mid, Idle
  <2>11. CASE \E r \in Runs : Register(d, r)
    <3> SUFFICES ASSUME NEW r \in Runs, Register(d, r) PROVE OneMid' BY <2>11
    <3>1. \A p \in Procs : Mid(op', p) => Mid(op, p)
      BY DEF Register, Seek, Begins, Mid, TypeOK
    <3> QED BY <3>1 DEF OneMid
  <2>12. CASE \E r \in Runs : Resume(d, r)
    <3> SUFFICES ASSUME NEW r \in Runs, Resume(d, r) PROVE OneMid' BY <2>12
    <3>1. \A p \in Procs : Mid(op', p) => Mid(op, p)
      BY DEF Resume, Seek, Begins, Mid, TypeOK
    <3> QED BY <3>1 DEF OneMid
  <2>13. CASE \E r \in Runs : Stop(d, r)
    BY <2>13 DEF Stop, Serves, lockVars, OneMid, Mid
  <2>14. CASE \E r \in Runs : Reap(d, r)
    BY <2>14 DEF Reap, Released, Reapable, OneMid, Mid
  <2> QED
    BY <1>3, <2>1, <2>2, <2>3, <2>4, <2>5, <2>6, <2>7, <2>8, <2>9, <2>10, <2>11, <2>12,
       <2>13, <2>14 DEF DaemonStep
<1>4. ASSUME NEW t \in threads, NEW top \in {"RUNNING", "PAUSED_FOR_HUMAN", "COMPLETED"},
             Works(t[1], t[2]) \/ LoopRaises(t[1], t[2]) \/ EndsRun(t[1], t[2], top)
      PROVE  OneMid'
  <2>1. CASE Works(t[1], t[2])
    BY <2>1 DEF Works, Saves, ModeOf, lockVars, OneMid, Mid
  <2>2. CASE LoopRaises(t[1], t[2])
    BY <2>2 DEF LoopRaises, lockVars, OneMid, Mid
  <2>3. CASE EndsRun(t[1], t[2], top)
    BY <2>3 DEF EndsRun, Saves, ModeOf, lockVars, OneMid, Mid
  <2> QED BY <1>4, <2>1, <2>2, <2>3
<1>5. CASE ForegroundStep
  <2>1. CASE \E r \in Runs : ForegroundStart(r)
    BY <2>1 DEF ForegroundStart, At, Begins, OneMid, Mid
  <2>2. CASE ForegroundRun
    BY <2>2 DEF ForegroundRun, At, lockVars, OneMid, Mid
  <2>3. CASE ForegroundRefused
    BY <2>3 DEF ForegroundRefused, At, Dies, ThreadsOf, OneMid, Mid, Idle
  <2>4. CASE ForegroundEnd
    BY <2>4 DEF ForegroundEnd, At, Dies, ThreadsOf, Released, OneMid, Mid, Idle
  <2>5. CASE ForegroundKilled
    BY <2>5 DEF ForegroundKilled, At, Dies, ThreadsOf, OneMid, Mid, Idle
  <2> QED BY <1>5, <2>1, <2>2, <2>3, <2>4, <2>5 DEF ForegroundStep
<1>6. CASE UNCHANGED vars
  BY <1>6 DEF vars, lockVars, daemonVars, OneMid, Mid
<1> QED BY <1>1, <1>2, <1>3, <1>4, <1>5, <1>6 DEF Next, LockStep, LoopStep

\* Alone at the file, a process still finds there what it read.
LEMMA TurnsStep ==
    ASSUME TypeOK, Sought, Placed, Filed, Owns, Turns, OneMid, [Next]_vars, Quiet, Quiet'
    PROVE  Turns'
<1> USE PaneLocksAssumption
<1>1. ASSUME NEW p \in Procs, Acquire(p), UNCHANGED daemonVars PROVE Turns'
  <2>1. CASE Check(p)
    BY <1>1, <2>1 DEF Check, Go, Held, daemonVars, Turns, OneMid, Mid
  <2>2. CASE Clear(p)
    BY <1>1, <2>2 DEF Clear, Go, daemonVars, Turns, OneMid, Mid, Held, Sought, Placed,
       Procs, Idle
  <2>3. CASE Create(p)
    BY <1>1, <2>3 DEF Create, Go, daemonVars, Turns, OneMid, Mid, TypeOK, Procs, Idle,
       NoFile
  <2>4. CASE Write(p)
    BY <1>1, <2>4 DEF Write, Go, daemonVars, Turns, OneMid, Mid, TypeOK
  <2>5. CASE FindAgain(p)
    BY <1>1, <2>5 DEF FindAgain, Go, daemonVars, Turns, OneMid, Mid
  <2>6. CASE ClearAgain(p)
    BY <1>1, <2>6 DEF ClearAgain, Go, daemonVars, Turns, OneMid, Mid
  <2> QED BY <1>1, <2>1, <2>2, <2>3, <2>4, <2>5, <2>6 DEF Acquire
<1>2. CASE ViewerStep
  <2>1. CASE ViewerReads
    BY <1>2, <2>1 DEF ViewerStep, ViewerReads, Go, Held, daemonVars, Turns, OneMid, Mid
  <2>2. CASE ViewerClears
    BY <1>2, <2>2 DEF ViewerStep, ViewerClears, Ends, daemonVars, Turns, OneMid, Mid, Held,
       Sought, Placed, Procs, Idle
  <2> QED BY <1>2, <2>1, <2>2 DEF ViewerStep
<1>3. ASSUME NEW d \in Daemons, DaemonStep(d) PROVE Turns'
  <2>1. CASE Start(d)
    BY <2>1 DEF Start, At, Turns, OneMid, Mid, Held, Filed
  <2>2. CASE UnlinkSocket(d)
    BY <2>2 DEF UnlinkSocket, At, lockVars, Turns, OneMid, Mid, Held
  <2>3. CASE Bind(d)
    BY <2>3 DEF Bind, At, Dies, ThreadsOf, Turns, OneMid, Mid, Held, TypeOK, Placed
  <2>4. CASE Recover(d)
    BY <2>4 DEF Recover, At, Orphans, lockVars, Turns, OneMid, Mid, Held
  <2>5. CASE Shutdown(d)
    BY <2>5 DEF Shutdown, At, lockVars, Turns, OneMid, Mid, Held
  <2>6. CASE ReleaseAll(d)
    BY <2>6 DEF ReleaseAll, At, Released, ThreadsOf, Turns, Owns, OneMid, Mid, Held, TypeOK,
       Placed, Idle
  <2>7. CASE Leave(d)
    BY <2>7 DEF Leave, At, Dies, ThreadsOf, Turns, OneMid, Mid, Held, Placed
  <2>8. CASE Crash(d)
    BY <2>8 DEF Crash, At, Dies, ThreadsOf, Turns, OneMid, Mid, Held, Idle
  <2>9. CASE Launch(d)
    BY <2>9 DEF Launch, At, Ends, Turns, OneMid, Mid, Held, Idle
  <2>10. CASE TurnAway(d)
    BY <2>10 DEF TurnAway, At, Ends, Turns, OneMid, Mid, Held, Idle
  <2>11. CASE \E r \in Runs : Register(d, r)
    <3> SUFFICES ASSUME NEW r \in Runs, Register(d, r) PROVE Turns' BY <2>11
    <3>1. UNCHANGED <<lock, alive>> BY DEF Register
    <3>2. \A p \in Procs : op'[p] = op[p] \/ op'[p].step = "check"
      BY DEF Register, Seek, Begins, TypeOK
    <3> QED BY <3>1, <3>2 DEF Turns, Held
  <2>12. CASE \E r \in Runs : Resume(d, r)
    <3> SUFFICES ASSUME NEW r \in Runs, Resume(d, r) PROVE Turns' BY <2>12
    <3>1. UNCHANGED <<lock, alive>> BY DEF Resume
    <3>2. \A p \in Procs : op'[p] = op[p] \/ op'[p].step = "check"
      BY DEF Resume, Seek, Begins, TypeOK
    <3> QED BY <3>1, <3>2 DEF Turns, Held
  <2>13. CASE \E r \in Runs : Stop(d, r)
    BY <2>13 DEF Stop, Serves, lockVars, Turns, OneMid, Mid, Held
  <2>14. CASE \E r \in Runs : Reap(d, r)
    BY <2>14 DEF Reap, Released, Reapable, Turns, Owns, OneMid, Mid, Held, Placed, Idle
  <2> QED
    BY <1>3, <2>1, <2>2, <2>3, <2>4, <2>5, <2>6, <2>7, <2>8, <2>9, <2>10, <2>11, <2>12,
       <2>13, <2>14 DEF DaemonStep
<1>4. ASSUME NEW t \in threads, NEW top \in {"RUNNING", "PAUSED_FOR_HUMAN", "COMPLETED"},
             Works(t[1], t[2]) \/ LoopRaises(t[1], t[2]) \/ EndsRun(t[1], t[2], top)
      PROVE  Turns'
  <2>1. CASE Works(t[1], t[2])
    BY <2>1 DEF Works, Saves, ModeOf, lockVars, Turns, OneMid, Mid, Held
  <2>2. CASE LoopRaises(t[1], t[2])
    BY <2>2 DEF LoopRaises, lockVars, Turns, OneMid, Mid, Held
  <2>3. CASE EndsRun(t[1], t[2], top)
    BY <2>3 DEF EndsRun, Saves, ModeOf, lockVars, Turns, OneMid, Mid, Held
  <2> QED BY <1>4, <2>1, <2>2, <2>3
<1>5. CASE ForegroundStep
  <2>1. CASE \E r \in Runs : ForegroundStart(r)
    BY <2>1 DEF ForegroundStart, At, Begins, Turns, OneMid, Mid, Held, Filed
  <2>2. CASE ForegroundRun
    BY <2>2 DEF ForegroundRun, At, lockVars, Turns, OneMid, Mid, Held
  <2>3. CASE ForegroundRefused
    BY <2>3 DEF ForegroundRefused, At, Dies, ThreadsOf, Turns, OneMid, Mid, Held, Idle
  <2>4. CASE ForegroundEnd
    BY <2>4 DEF ForegroundEnd, At, Dies, ThreadsOf, Released, Turns, OneMid, Mid, Held,
       TypeOK, Placed, Procs, Idle
  <2>5. CASE ForegroundKilled
    BY <2>5 DEF ForegroundKilled, At, Dies, ThreadsOf, Turns, OneMid, Mid, Held, Idle
  <2> QED BY <1>5, <2>1, <2>2, <2>3, <2>4, <2>5 DEF ForegroundStep
<1>6. CASE UNCHANGED vars
  BY <1>6 DEF vars, lockVars, daemonVars, Turns, OneMid, Mid, Held
<1> QED BY <1>1, <1>2, <1>3, <1>4, <1>5, <1>6 DEF Next, LockStep, LoopStep

\* The inductive invariant behind ExclusiveUnlessRaced.
CIInv == HIInv /\ (Quiet => Calm)

\* Nobody is in the middle of anything at the start.
LEMMA CInit == Init => CIInv
<1> SUFFICES ASSUME Init PROVE CIInv OBVIOUS
<1>1. HIInv BY HInit
<1>2. Calm
  BY PaneLocksAssumption DEF Init, LockInit, Calm, Owns, Threaded, Turns, OneMid, Mid, Idle
<1> QED BY <1>1, <1>2 DEF CIInv

\* Contention and lingering are never taken back, so a quiet state was quiet before.
LEMMA QuietWas == [Next]_vars /\ Quiet' => Quiet

<1> SUFFICES ASSUME [Next]_vars, Quiet' PROVE Quiet OBVIOUS
<1>1. ASSUME NEW p \in Procs, Acquire(p), UNCHANGED daemonVars PROVE Quiet
  <2>1. CASE Check(p)
    BY <1>1, <2>1 DEF Check, Go, daemonVars, Quiet
  <2>2. CASE Clear(p)
    BY <1>1, <2>2 DEF Clear, Go, daemonVars, Quiet
  <2>3. CASE Create(p)
    BY <1>1, <2>3 DEF Create, Go, daemonVars, Quiet
  <2>4. CASE Write(p)
    BY <1>1, <2>4 DEF Write, Go, daemonVars, Quiet
  <2>5. CASE FindAgain(p)
    BY <1>1, <2>5 DEF FindAgain, Go, daemonVars, Quiet
  <2>6. CASE ClearAgain(p)
    BY <1>1, <2>6 DEF ClearAgain, Go, daemonVars, Quiet
  <2> QED BY <1>1, <2>1, <2>2, <2>3, <2>4, <2>5, <2>6 DEF Acquire
<1>2. CASE ViewerStep
  <2>1. CASE ViewerReads
    BY <1>2, <2>1 DEF ViewerStep, ViewerReads, Go, daemonVars, Quiet
  <2>2. CASE ViewerClears
    BY <1>2, <2>2 DEF ViewerStep, ViewerClears, Ends, daemonVars, Quiet
  <2> QED BY <1>2, <2>1, <2>2 DEF ViewerStep
<1>3. ASSUME NEW d \in Daemons, DaemonStep(d) PROVE Quiet
  <2>1. CASE Start(d)
    BY <2>1 DEF Start, At, Quiet
  <2>2. CASE UnlinkSocket(d)
    BY <2>2 DEF UnlinkSocket, At, lockVars, Quiet
  <2>3. CASE Bind(d)
    BY <2>3 DEF Bind, At, Dies, ThreadsOf, Quiet
  <2>4. CASE Recover(d)
    BY <2>4 DEF Recover, At, Orphans, lockVars, Quiet
  <2>5. CASE Shutdown(d)
    BY <2>5 DEF Shutdown, At, lockVars, Quiet
  <2>6. CASE ReleaseAll(d)
    BY <2>6 DEF ReleaseAll, At, Released, ThreadsOf, Quiet
  <2>7. CASE Leave(d)
    BY <2>7 DEF Leave, At, Dies, ThreadsOf, Quiet
  <2>8. CASE Crash(d)
    BY <2>8 DEF Crash, At, Dies, ThreadsOf, Quiet
  <2>9. CASE Launch(d)
    BY <2>9 DEF Launch, At, Ends, Quiet
  <2>10. CASE TurnAway(d)
    BY <2>10 DEF TurnAway, At, Ends, Quiet
  <2>11. CASE \E r \in Runs : Register(d, r)
    BY <2>11 DEF Register, At, Seek, Begins, Serves, PaneBusy, Quiet
  <2>12. CASE \E r \in Runs : Resume(d, r)
    BY <2>12 DEF Resume, At, Seek, Begins, Serves, PaneBusy, Quiet
  <2>13. CASE \E r \in Runs : Stop(d, r)
    BY <2>13 DEF Stop, Serves, lockVars, Quiet
  <2>14. CASE \E r \in Runs : Reap(d, r)
    BY <2>14 DEF Reap, Released, Reapable, Quiet
  <2> QED
    BY <1>3, <2>1, <2>2, <2>3, <2>4, <2>5, <2>6, <2>7, <2>8, <2>9, <2>10, <2>11, <2>12,
       <2>13, <2>14 DEF DaemonStep
<1>4. ASSUME NEW t \in threads, NEW top \in {"RUNNING", "PAUSED_FOR_HUMAN", "COMPLETED"},
             Works(t[1], t[2]) \/ LoopRaises(t[1], t[2]) \/ EndsRun(t[1], t[2], top)
      PROVE  Quiet
  <2>1. CASE Works(t[1], t[2])
    BY <2>1 DEF Works, Saves, ModeOf, lockVars, Quiet
  <2>2. CASE LoopRaises(t[1], t[2])
    BY <2>2 DEF LoopRaises, lockVars, Quiet
  <2>3. CASE EndsRun(t[1], t[2], top)
    BY <2>3 DEF EndsRun, Saves, ModeOf, lockVars, Quiet
  <2> QED BY <1>4, <2>1, <2>2, <2>3
<1>5. CASE ForegroundStep
  <2>1. CASE \E r \in Runs : ForegroundStart(r)
    BY <2>1 DEF ForegroundStart, At, Begins, Quiet
  <2>2. CASE ForegroundRun
    BY <2>2 DEF ForegroundRun, At, lockVars, Quiet
  <2>3. CASE ForegroundRefused
    BY <2>3 DEF ForegroundRefused, At, Dies, ThreadsOf, Quiet
  <2>4. CASE ForegroundEnd
    BY <2>4 DEF ForegroundEnd, At, Dies, ThreadsOf, Released, Quiet
  <2>5. CASE ForegroundKilled
    BY <2>5 DEF ForegroundKilled, At, Dies, ThreadsOf, Quiet
  <2> QED BY <1>5, <2>1, <2>2, <2>3, <2>4, <2>5 DEF ForegroundStep
<1>6. CASE UNCHANGED vars
  BY <1>6 DEF vars, lockVars, daemonVars, Quiet
<1> QED BY <1>1, <1>2, <1>3, <1>4, <1>5, <1>6 DEF Next, LockStep, LoopStep

\* Exclusion needs the lock's own invariant and, while quiet, the four parts of Calm.
LEMMA CNext == CIInv /\ [Next]_vars => CIInv'
<1> SUFFICES ASSUME CIInv, [Next]_vars PROVE CIInv' OBVIOUS
<1>1. HIInv' BY HNext DEF CIInv
<1>2. ASSUME Quiet' PROVE Calm'
  <2>1. Quiet BY <1>2, QuietWas
  <2>2. Owns' BY <1>2, <2>1, OwnsStep DEF CIInv, HIInv, Calm
  <2>3. Threaded' BY <1>2, <2>1, ThreadedStep DEF CIInv, HIInv, Calm
  <2>4. Turns' BY <1>2, <2>1, TurnsStep DEF CIInv, HIInv, Calm
  <2>5. OneMid' BY <1>2, <2>1, OneMidStep DEF CIInv, HIInv, Calm
  <2> QED BY <2>2, <2>3, <2>4, <2>5 DEF Calm
<1> QED BY <1>1, <1>2 DEF CIInv

\* Two processes control one pane only after a race for its lock file or after a daemon
\* ended without waiting for its threads: pane exclusion for every number of daemons.
THEOREM ExclusiveHolds == Spec => []ExclusiveUnlessRaced
<1>1. ASSUME HIInv, Calm PROVE PaneExclusive
  <2> SUFFICES ASSUME NEW s \in threads, NEW t \in threads PROVE s = t BY DEF PaneExclusive
  <2> DEFINE Names(u) == lock = [by |-> u[2], run |-> u[1]]
  <2>1. ASSUME NEW u \in threads PROVE Names(u) /\ u = <<u[1], u[2]>>
    <3>1. u = <<u[1], u[2]>> /\ u[1] \in Runs /\ u[2] \in Procs \ {Viewer} BY <1>1 DEF
                                                                              HIInv, TypeOK
    <3>2. CASE u[2] \in Daemons BY <1>1, <3>1, <3>2 DEF Calm, Owns, Threaded
    <3>3. CASE u[2] = Foreground
      BY <1>1, <3>1, <3>3 DEF HIInv, Placed, Calm, Threaded, Turns
    <3> QED BY <3>1, <3>2, <3>3 DEF Procs
  <2>2. Names(s) /\ Names(t) /\ s = <<s[1], s[2]>> /\ t = <<t[1], t[2]>> BY <2>1
  <2>3. s[1] = lock.run /\ s[2] = lock.by /\ t[1] = lock.run /\ t[2] = lock.by BY <2>2
  <2> QED BY <2>2, <2>3
<1>2. CIInv => ExclusiveUnlessRaced BY <1>1 DEF CIInv, Quiet, ExclusiveUnlessRaced
<1> QED BY CInit, CNext, <1>2, PTL DEF Spec

\* Foreground works on a recorded run, and is about to start a new one.
Started ==
    \A r \in Runs :
        /\ <<r, Foreground>> \in threads =>
              disk[r].top # "NONE" /\ pc[Foreground] = "run"
        /\ pc[Foreground] = "acquire" /\ op[Foreground].run = r => disk[r].top = "NONE"

\* No daemon has anything to do with a run nobody recorded.
Unrecorded ==
    \A r \in Runs : disk[r].top = "NONE" =>
        \A d \in Daemons : <<r, d>> \notin threads /\ op[d].run # r

\* A run of the foreground process that no daemon was asked to resume is its own.
Apart ==
    \A r \in Runs : <<r, Foreground>> \in threads /\ r \notin resumed =>
        /\ disk[r].mode = "foreground"
        /\ \A d \in Daemons : <<r, d>> \notin threads /\ op[d].run # r

\* A run a foreground process works on has been recorded as its own.
LEMMA StartedStep ==
    ASSUME TypeOK, Sought, Placed, Started, Unrecorded, [Next]_vars
    PROVE  Started'
<1> USE PaneLocksAssumption
<1>1. ASSUME NEW p \in Procs, Acquire(p), UNCHANGED daemonVars PROVE Started'
  <2>1. CASE Check(p)
    BY <1>1, <2>1 DEF Check, Go, daemonVars, Started
  <2>2. CASE Clear(p)
    BY <1>1, <2>2 DEF Clear, Go, daemonVars, Started
  <2>3. CASE Create(p)
    BY <1>1, <2>3 DEF Create, Go, daemonVars, Started, TypeOK, Procs
  <2>4. CASE Write(p)
    BY <1>1, <2>4 DEF Write, Go, daemonVars, Started
  <2>5. CASE FindAgain(p)
    BY <1>1, <2>5 DEF FindAgain, Go, daemonVars, Started
  <2>6. CASE ClearAgain(p)
    BY <1>1, <2>6 DEF ClearAgain, Go, daemonVars, Started
  <2> QED BY <1>1, <2>1, <2>2, <2>3, <2>4, <2>5, <2>6 DEF Acquire
<1>2. CASE ViewerStep
  <2>1. CASE ViewerReads
    BY <1>2, <2>1 DEF ViewerStep, ViewerReads, Go, daemonVars, Started
  <2>2. CASE ViewerClears
    BY <1>2, <2>2 DEF ViewerStep, ViewerClears, Ends, daemonVars, Started
  <2> QED BY <1>2, <2>1, <2>2 DEF ViewerStep
<1>3. ASSUME NEW d \in Daemons, DaemonStep(d) PROVE Started'
  <2>1. CASE Start(d)
    BY <2>1 DEF Start, At, Started
  <2>2. CASE UnlinkSocket(d)
    BY <2>2 DEF UnlinkSocket, At, lockVars, Started
  <2>3. CASE Bind(d)
    BY <2>3 DEF Bind, At, Dies, ThreadsOf, Started, TypeOK, Procs
  <2>4. CASE Recover(d)
    BY <2>4 DEF Recover, At, Orphans, lockVars, Started
  <2>5. CASE Shutdown(d)
    BY <2>5 DEF Shutdown, At, lockVars, Started
  <2>6. CASE ReleaseAll(d)
    BY <2>6 DEF ReleaseAll, At, Released, ThreadsOf, Started
  <2>7. CASE Leave(d)
    BY <2>7 DEF Leave, At, Dies, ThreadsOf, Started
  <2>8. CASE Crash(d)
    BY <2>8 DEF Crash, At, Dies, ThreadsOf, Started
  <2>9. CASE Launch(d)
    BY <2>9 DEF Launch, At, Ends, Started
  <2>10. CASE TurnAway(d)
    BY <2>10 DEF TurnAway, At, Ends, Started
  <2>11. CASE \E r \in Runs : Register(d, r)
    <3> SUFFICES ASSUME NEW r \in Runs, Register(d, r) PROVE Started' BY <2>11
    <3>1. UNCHANGED threads /\ pc'[Foreground] = pc[Foreground] /\ op'[Foreground] = op[Foreground]
      BY DEF Register, Seek, Begins, At, TypeOK, Procs
    <3>2. disk[r].top = "NONE" /\ op[Foreground].run # r BY DEF Register
    <3>3. \A q \in Runs : q # r => disk'[q] = disk[q] BY DEF Register
    <3>4. disk'[r].top = "READY" BY DEF Register, TypeOK
    <3> QED BY <3>1, <3>2, <3>3, <3>4 DEF Started
  <2>12. CASE \E r \in Runs : Resume(d, r)
    <3> SUFFICES ASSUME NEW r \in Runs, Resume(d, r) PROVE Started' BY <2>12
    <3>1. CASE PaneBusy(d) \/ r \in registry[d]
      BY <3>1 DEF Resume, Seek, Started
    <3>2. CASE ~(PaneBusy(d) \/ r \in registry[d])
      BY <3>2 DEF Resume, Seek, Begins, At, Serves, Started, TypeOK, Procs
    <3> QED BY <3>1, <3>2
  <2>13. CASE \E r \in Runs : Stop(d, r)
    BY <2>13 DEF Stop, Serves, lockVars, Started
  <2>14. CASE \E r \in Runs : Reap(d, r)
    BY <2>14 DEF Reap, Released, Reapable, Started
  <2> QED
    BY <1>3, <2>1, <2>2, <2>3, <2>4, <2>5, <2>6, <2>7, <2>8, <2>9, <2>10, <2>11, <2>12,
       <2>13, <2>14 DEF DaemonStep
<1>4. ASSUME NEW t \in threads, NEW top \in {"RUNNING", "PAUSED_FOR_HUMAN", "COMPLETED"},
             Works(t[1], t[2]) \/ LoopRaises(t[1], t[2]) \/ EndsRun(t[1], t[2], top)
      PROVE  Started'
  <2>1. CASE Works(t[1], t[2])
    BY <2>1 DEF Works, Saves, ModeOf, lockVars, Started, Unrecorded, TypeOK, Procs
  <2>2. CASE LoopRaises(t[1], t[2])
    BY <2>2 DEF LoopRaises, lockVars, Started
  <2>3. CASE EndsRun(t[1], t[2], top)
    BY <2>3 DEF EndsRun, Saves, ModeOf, lockVars, Started, Unrecorded, TypeOK, Procs
  <2> QED BY <1>4, <2>1, <2>2, <2>3
<1>5. CASE ForegroundStep
  <2>1. CASE \E r \in Runs : ForegroundStart(r)
    BY <2>1 DEF ForegroundStart, At, Begins, Started, TypeOK
  <2>2. CASE ForegroundRun
    BY <2>2 DEF ForegroundRun, At, lockVars, Started, TypeOK, Procs
  <2>3. CASE ForegroundRefused
    BY <2>3 DEF ForegroundRefused, At, Dies, ThreadsOf, Started, TypeOK
  <2>4. CASE ForegroundEnd
    BY <2>4 DEF ForegroundEnd, At, Dies, ThreadsOf, Released, Started
  <2>5. CASE ForegroundKilled
    BY <2>5 DEF ForegroundKilled, At, Dies, ThreadsOf, Started, TypeOK
  <2> QED BY <1>5, <2>1, <2>2, <2>3, <2>4, <2>5 DEF ForegroundStep
<1>6. CASE UNCHANGED vars
  BY <1>6 DEF vars, lockVars, daemonVars, Started
<1> QED BY <1>1, <1>2, <1>3, <1>4, <1>5, <1>6 DEF Next, LockStep, LoopStep

\* A run a daemon has not recorded has no thread in it.
LEMMA UnrecordedStep ==
    ASSUME TypeOK, Sought, Placed, Unrecorded, Started, [Next]_vars
    PROVE  Unrecorded'
<1> USE PaneLocksAssumption
<1>1. ASSUME NEW p \in Procs, Acquire(p), UNCHANGED daemonVars PROVE Unrecorded'
  <2>1. CASE Check(p)
    BY <1>1, <2>1 DEF Check, Go, daemonVars, Unrecorded
  <2>2. CASE Clear(p)
    BY <1>1, <2>2 DEF Clear, Go, daemonVars, Unrecorded
  <2>3. CASE Create(p)
    BY <1>1, <2>3 DEF Create, Go, daemonVars, Unrecorded, TypeOK, Sought, Placed, Procs,
       NoRun
  <2>4. CASE Write(p)
    BY <1>1, <2>4 DEF Write, Go, daemonVars, Unrecorded
  <2>5. CASE FindAgain(p)
    BY <1>1, <2>5 DEF FindAgain, Go, daemonVars, Unrecorded
  <2>6. CASE ClearAgain(p)
    BY <1>1, <2>6 DEF ClearAgain, Go, daemonVars, Unrecorded
  <2> QED BY <1>1, <2>1, <2>2, <2>3, <2>4, <2>5, <2>6 DEF Acquire
<1>2. CASE ViewerStep
  <2>1. CASE ViewerReads
    BY <1>2, <2>1 DEF ViewerStep, ViewerReads, Go, daemonVars, Unrecorded
  <2>2. CASE ViewerClears
    BY <1>2, <2>2 DEF ViewerStep, ViewerClears, Ends, daemonVars, Unrecorded
  <2> QED BY <1>2, <2>1, <2>2 DEF ViewerStep
<1>3. ASSUME NEW d \in Daemons, DaemonStep(d) PROVE Unrecorded'
  <2>1. CASE Start(d)
    BY <2>1 DEF Start, At, Unrecorded
  <2>2. CASE UnlinkSocket(d)
    BY <2>2 DEF UnlinkSocket, At, lockVars, Unrecorded
  <2>3. CASE Bind(d)
    BY <2>3 DEF Bind, At, Dies, ThreadsOf, Unrecorded, TypeOK, Placed
  <2>4. CASE Recover(d)
    BY <2>4 DEF Recover, At, Orphans, lockVars, Unrecorded
  <2>5. CASE Shutdown(d)
    BY <2>5 DEF Shutdown, At, lockVars, Unrecorded
  <2>6. CASE ReleaseAll(d)
    BY <2>6 DEF ReleaseAll, At, Released, ThreadsOf, Unrecorded
  <2>7. CASE Leave(d)
    BY <2>7 DEF Leave, At, Dies, ThreadsOf, Unrecorded, Placed
  <2>8. CASE Crash(d)
    BY <2>8 DEF Crash, At, Dies, ThreadsOf, Unrecorded, Idle
  <2>9. CASE Launch(d)
    BY <2>9 DEF Launch, At, Ends, Unrecorded, Idle
  <2>10. CASE TurnAway(d)
    BY <2>10 DEF TurnAway, At, Ends, Unrecorded, Idle
  <2>11. CASE \E r \in Runs : Register(d, r)
    <3> SUFFICES ASSUME NEW r \in Runs, Register(d, r) PROVE Unrecorded' BY <2>11
    <3>1. CASE PaneBusy(d) \/ r \in registry[d]
      BY <3>1 DEF Register, Seek, Unrecorded
    <3>2. CASE ~(PaneBusy(d) \/ r \in registry[d])
      BY <3>2 DEF Register, Seek, Begins, At, Serves, Unrecorded, TypeOK, Procs
    <3> QED BY <3>1, <3>2
  <2>12. CASE \E r \in Runs : Resume(d, r)
    <3> SUFFICES ASSUME NEW r \in Runs, Resume(d, r) PROVE Unrecorded' BY <2>12
    <3>1. CASE PaneBusy(d) \/ r \in registry[d]
      BY <3>1 DEF Resume, Seek, Unrecorded
    <3>2. CASE ~(PaneBusy(d) \/ r \in registry[d])
      BY <3>2 DEF Resume, Seek, Begins, At, Serves, Unrecorded, Resumable, TypeOK, Procs,
         Idle
    <3> QED BY <3>1, <3>2
  <2>13. CASE \E r \in Runs : Stop(d, r)
    BY <2>13 DEF Stop, Serves, lockVars, Unrecorded
  <2>14. CASE \E r \in Runs : Reap(d, r)
    BY <2>14 DEF Reap, Released, Reapable, Unrecorded
  <2> QED
    BY <1>3, <2>1, <2>2, <2>3, <2>4, <2>5, <2>6, <2>7, <2>8, <2>9, <2>10, <2>11, <2>12,
       <2>13, <2>14 DEF DaemonStep
<1>4. ASSUME NEW t \in threads, NEW top \in {"RUNNING", "PAUSED_FOR_HUMAN", "COMPLETED"},
             Works(t[1], t[2]) \/ LoopRaises(t[1], t[2]) \/ EndsRun(t[1], t[2], top)
      PROVE  Unrecorded'
  <2>1. CASE Works(t[1], t[2])
    BY <2>1 DEF Works, Saves, ModeOf, lockVars, Unrecorded
  <2>2. CASE LoopRaises(t[1], t[2])
    BY <2>2 DEF LoopRaises, lockVars, Unrecorded
  <2>3. CASE EndsRun(t[1], t[2], top)
    BY <2>3 DEF EndsRun, Saves, ModeOf, lockVars, Unrecorded
  <2> QED BY <1>4, <2>1, <2>2, <2>3
<1>5. CASE ForegroundStep
  <2>1. CASE \E r \in Runs : ForegroundStart(r)
    BY <2>1 DEF ForegroundStart, At, Begins, Unrecorded
  <2>2. CASE ForegroundRun
    BY <2>2 DEF ForegroundRun, At, lockVars, Unrecorded
  <2>3. CASE ForegroundRefused
    BY <2>3 DEF ForegroundRefused, At, Dies, ThreadsOf, Unrecorded
  <2>4. CASE ForegroundEnd
    BY <2>4 DEF ForegroundEnd, At, Dies, ThreadsOf, Released, Unrecorded
  <2>5. CASE ForegroundKilled
    BY <2>5 DEF ForegroundKilled, At, Dies, ThreadsOf, Unrecorded
  <2> QED BY <1>5, <2>1, <2>2, <2>3, <2>4, <2>5 DEF ForegroundStep
<1>6. CASE UNCHANGED vars
  BY <1>6 DEF vars, lockVars, daemonVars, Unrecorded
<1> QED BY <1>1, <1>2, <1>3, <1>4, <1>5, <1>6 DEF Next, LockStep, LoopStep

\* A run of a foreground process is in no daemon's registry.
LEMMA ApartStep ==
    ASSUME TypeOK, Sought, Placed, Apart, Started, Unrecorded, [Next]_vars
    PROVE  Apart'
<1> USE PaneLocksAssumption
<1>1. ASSUME NEW p \in Procs, Acquire(p), UNCHANGED daemonVars PROVE Apart'
  <2>1. CASE Check(p)
    BY <1>1, <2>1 DEF Check, Go, daemonVars, Apart
  <2>2. CASE Clear(p)
    BY <1>1, <2>2 DEF Clear, Go, daemonVars, Apart
  <2>3. CASE Create(p)
    BY <1>1, <2>3 DEF Create, Go, daemonVars, Apart, Started, Unrecorded, TypeOK, Procs,
       Idle, NoRun
  <2>4. CASE Write(p)
    BY <1>1, <2>4 DEF Write, Go, daemonVars, Apart
  <2>5. CASE FindAgain(p)
    BY <1>1, <2>5 DEF FindAgain, Go, daemonVars, Apart
  <2>6. CASE ClearAgain(p)
    BY <1>1, <2>6 DEF ClearAgain, Go, daemonVars, Apart
  <2> QED BY <1>1, <2>1, <2>2, <2>3, <2>4, <2>5, <2>6 DEF Acquire
<1>2. CASE ViewerStep
  <2>1. CASE ViewerReads
    BY <1>2, <2>1 DEF ViewerStep, ViewerReads, Go, daemonVars, Apart
  <2>2. CASE ViewerClears
    BY <1>2, <2>2 DEF ViewerStep, ViewerClears, Ends, daemonVars, Apart
  <2> QED BY <1>2, <2>1, <2>2 DEF ViewerStep
<1>3. ASSUME NEW d \in Daemons, DaemonStep(d) PROVE Apart'
  <2>1. CASE Start(d)
    BY <2>1 DEF Start, At, Apart
  <2>2. CASE UnlinkSocket(d)
    BY <2>2 DEF UnlinkSocket, At, lockVars, Apart
  <2>3. CASE Bind(d)
    BY <2>3 DEF Bind, At, Dies, ThreadsOf, Apart, TypeOK, Placed
  <2>4. CASE Recover(d)
    BY <2>4 DEF Recover, At, Orphans, lockVars, Apart
  <2>5. CASE Shutdown(d)
    BY <2>5 DEF Shutdown, At, lockVars, Apart
  <2>6. CASE ReleaseAll(d)
    BY <2>6 DEF ReleaseAll, At, Released, ThreadsOf, Apart
  <2>7. CASE Leave(d)
    BY <2>7 DEF Leave, At, Dies, ThreadsOf, Apart, Placed
  <2>8. CASE Crash(d)
    BY <2>8 DEF Crash, At, Dies, ThreadsOf, Apart, Idle
  <2>9. CASE Launch(d)
    BY <2>9 DEF Launch, At, Ends, Apart, Idle
  <2>10. CASE TurnAway(d)
    BY <2>10 DEF TurnAway, At, Ends, Apart, Idle
  <2>11. CASE \E r \in Runs : Register(d, r)
    <3> SUFFICES ASSUME NEW r \in Runs, Register(d, r) PROVE Apart' BY <2>11
    <3>1. CASE PaneBusy(d) \/ r \in registry[d]
      BY <3>1 DEF Register, Seek, Apart
    <3>2. CASE ~(PaneBusy(d) \/ r \in registry[d])
      BY <3>2 DEF Register, Seek, Begins, At, Serves, Apart, Started, TypeOK, Placed, Procs,
         Idle
    <3> QED BY <3>1, <3>2
  <2>12. CASE \E r \in Runs : Resume(d, r)
    <3> SUFFICES ASSUME NEW r \in Runs, Resume(d, r) PROVE Apart' BY <2>12
    <3>1. CASE PaneBusy(d) \/ r \in registry[d]
      BY <3>1 DEF Resume, Seek, Apart
    <3>2. CASE ~(PaneBusy(d) \/ r \in registry[d])
      BY <3>2 DEF Resume, Seek, Begins, At, Serves, Apart, Started, TypeOK, Procs
    <3> QED BY <3>1, <3>2
  <2>13. CASE \E r \in Runs : Stop(d, r)
    BY <2>13 DEF Stop, Serves, lockVars, Apart
  <2>14. CASE \E r \in Runs : Reap(d, r)
    BY <2>14 DEF Reap, Released, Reapable, Apart
  <2> QED
    BY <1>3, <2>1, <2>2, <2>3, <2>4, <2>5, <2>6, <2>7, <2>8, <2>9, <2>10, <2>11, <2>12,
       <2>13, <2>14 DEF DaemonStep
<1>4. ASSUME NEW t \in threads, NEW top \in {"RUNNING", "PAUSED_FOR_HUMAN", "COMPLETED"},
             Works(t[1], t[2]) \/ LoopRaises(t[1], t[2]) \/ EndsRun(t[1], t[2], top)
      PROVE  Apart'
  <2>1. CASE Works(t[1], t[2])
    BY <2>1 DEF Works, Saves, ModeOf, lockVars, Apart, TypeOK, Procs
  <2>2. CASE LoopRaises(t[1], t[2])
    BY <2>2 DEF LoopRaises, lockVars, Apart
  <2>3. CASE EndsRun(t[1], t[2], top)
    BY <2>3 DEF EndsRun, Saves, ModeOf, lockVars, Apart, TypeOK, Procs
  <2> QED BY <1>4, <2>1, <2>2, <2>3
<1>5. CASE ForegroundStep
  <2>1. CASE \E r \in Runs : ForegroundStart(r)
    BY <2>1 DEF ForegroundStart, At, Begins, Apart
  <2>2. CASE ForegroundRun
    BY <2>2 DEF ForegroundRun, At, lockVars, Apart, Started, Unrecorded, TypeOK
  <2>3. CASE ForegroundRefused
    BY <2>3 DEF ForegroundRefused, At, Dies, ThreadsOf, Apart
  <2>4. CASE ForegroundEnd
    BY <2>4 DEF ForegroundEnd, At, Dies, ThreadsOf, Released, Apart
  <2>5. CASE ForegroundKilled
    BY <2>5 DEF ForegroundKilled, At, Dies, ThreadsOf, Apart
  <2> QED BY <1>5, <2>1, <2>2, <2>3, <2>4, <2>5 DEF ForegroundStep
<1>6. CASE UNCHANGED vars
  BY <1>6 DEF vars, lockVars, daemonVars, Apart
<1> QED BY <1>1, <1>2, <1>3, <1>4, <1>5, <1>6 DEF Next, LockStep, LoopStep

\* The inductive invariant behind ForegroundNotParked.
FIInv == HIInv /\ Started /\ Unrecorded /\ Apart

\* Nothing has been started at the start.
LEMMA FInit == Init => FIInv
<1> SUFFICES ASSUME Init PROVE FIInv OBVIOUS
<1>1. HIInv BY HInit
<1>2. Started /\ Unrecorded /\ Apart
  BY PaneLocksAssumption DEF Init, LockInit, Started, Unrecorded, Apart, Idle, Procs, Fresh
<1> QED BY <1>1, <1>2 DEF FIInv

\* The three parts and the lock's invariant carry each other.
LEMMA FNext == FIInv /\ [Next]_vars => FIInv'
  BY HNext, StartedStep, UnrecordedStep, ApartStep DEF FIInv, HIInv

Parks(d, r) == pc[d] = "recover" /\ pc'[d] = "accept" /\ disk[r].top # disk'[r].top
Spared == \A d \in Daemons, r \in Runs :
             Parks(d, r) => <<r, Foreground>> \notin threads \/ r \in resumed

\* From a state of the invariant no daemon's recovery touches a foreground run.
LEMMA SparedStep == FIInv /\ [Next]_vars => Spared
<1> SUFFICES ASSUME FIInv, [Next]_vars, NEW e \in Daemons, NEW r0 \in Runs, Parks(e, r0)
             PROVE  <<r0, Foreground>> \notin threads \/ r0 \in resumed
  BY DEF Spared
<1> DEFINE Goal == <<r0, Foreground>> \notin threads \/ r0 \in resumed
<1> HIDE DEF Goal
<1>0. TypeOK /\ Placed /\ Apart BY DEF FIInv, HIInv
<1> USE PaneLocksAssumption
<1>1. ASSUME NEW p \in Procs, Acquire(p), UNCHANGED daemonVars PROVE Goal
  <2>1. CASE Check(p)
    BY <1>1, <2>1, <1>0 DEF Check, Go, daemonVars, Parks
  <2>2. CASE Clear(p)
    BY <1>1, <2>2, <1>0 DEF Clear, Go, daemonVars, Parks
  <2>3. CASE Create(p)
    BY <1>1, <2>3, <1>0 DEF Create, Go, daemonVars, Parks
  <2>4. CASE Write(p)
    BY <1>1, <2>4, <1>0 DEF Write, Go, daemonVars, Parks
  <2>5. CASE FindAgain(p)
    BY <1>1, <2>5, <1>0 DEF FindAgain, Go, daemonVars, Parks
  <2>6. CASE ClearAgain(p)
    BY <1>1, <2>6, <1>0 DEF ClearAgain, Go, daemonVars, Parks
  <2> QED BY <1>1, <2>1, <2>2, <2>3, <2>4, <2>5, <2>6 DEF Acquire
<1>2. CASE ViewerStep
  <2>1. CASE ViewerReads
    BY <1>2, <2>1, <1>0 DEF ViewerStep, ViewerReads, Go, daemonVars, Parks
  <2>2. CASE ViewerClears
    BY <1>2, <2>2, <1>0 DEF ViewerStep, ViewerClears, Ends, daemonVars, Parks
  <2> QED BY <1>2, <2>1, <2>2 DEF ViewerStep
<1>3. ASSUME NEW d \in Daemons, DaemonStep(d) PROVE Goal
  <2>1. CASE Start(d)
    BY <2>1, <1>0 DEF Start, At, Parks
  <2>2. CASE UnlinkSocket(d)
    BY <2>2, <1>0 DEF UnlinkSocket, At, lockVars, Parks
  <2>3. CASE Bind(d)
    BY <2>3, <1>0 DEF Bind, At, Dies, ThreadsOf, Parks
  <2>4. CASE Recover(d)
    <3>1. CASE e = d
      <4>1. r0 \in Orphans BY <2>4, <1>0 DEF Recover, Parks
      <4> QED BY <1>0, <4>1 DEF Orphans, Apart, Goal
    <3>2. CASE e # d
      BY <2>4, <3>2, <1>0 DEF Recover, At, Parks
    <3> QED BY <3>1, <3>2
  <2>5. CASE Shutdown(d)
    BY <2>5, <1>0 DEF Shutdown, At, lockVars, Parks
  <2>6. CASE ReleaseAll(d)
    BY <2>6, <1>0 DEF ReleaseAll, At, Released, ThreadsOf, Parks
  <2>7. CASE Leave(d)
    BY <2>7, <1>0 DEF Leave, At, Dies, ThreadsOf, Parks
  <2>8. CASE Crash(d)
    BY <2>8, <1>0 DEF Crash, At, Dies, ThreadsOf, Parks
  <2>9. CASE Launch(d)
    BY <2>9, <1>0 DEF Launch, At, Ends, Parks
  <2>10. CASE TurnAway(d)
    BY <2>10, <1>0 DEF TurnAway, At, Ends, Parks
  <2>11. CASE \E r \in Runs : Register(d, r)
    <3> SUFFICES ASSUME NEW r \in Runs, Register(d, r) PROVE Goal BY <2>11
    <3>1. pc[d] = "accept" /\ \A p \in Daemons : p # d => pc'[p] = pc[p]
      BY <1>0 DEF Register, Serves, Seek, At, TypeOK, Procs
    <3> QED BY <3>1 DEF Parks
  <2>12. CASE \E r \in Runs : Resume(d, r)
    <3> SUFFICES ASSUME NEW r \in Runs, Resume(d, r) PROVE Goal BY <2>12
    <3>1. pc[d] = "accept" /\ \A p \in Daemons : p # d => pc'[p] = pc[p]
      BY <1>0 DEF Resume, Serves, Seek, At, TypeOK, Procs
    <3> QED BY <3>1 DEF Parks
  <2>13. CASE \E r \in Runs : Stop(d, r)
    BY <2>13, <1>0 DEF Stop, Serves, lockVars, Parks
  <2>14. CASE \E r \in Runs : Reap(d, r)
    BY <2>14, <1>0 DEF Reap, Released, Reapable, Parks
  <2> QED
    BY <1>3, <2>1, <2>2, <2>3, <2>4, <2>5, <2>6, <2>7, <2>8, <2>9, <2>10, <2>11, <2>12,
       <2>13, <2>14 DEF DaemonStep
<1>4. ASSUME NEW t \in threads, NEW top \in {"RUNNING", "PAUSED_FOR_HUMAN", "COMPLETED"},
             Works(t[1], t[2]) \/ LoopRaises(t[1], t[2]) \/ EndsRun(t[1], t[2], top)
      PROVE  Goal
  <2>1. CASE Works(t[1], t[2])
    BY <2>1, <1>0 DEF Works, Saves, ModeOf, lockVars, Parks
  <2>2. CASE LoopRaises(t[1], t[2])
    BY <2>2, <1>0 DEF LoopRaises, lockVars, Parks
  <2>3. CASE EndsRun(t[1], t[2], top)
    BY <2>3, <1>0 DEF EndsRun, Saves, ModeOf, lockVars, Parks
  <2> QED BY <1>4, <2>1, <2>2, <2>3
<1>5. CASE ForegroundStep
  <2>1. CASE \E r \in Runs : ForegroundStart(r)
    BY <2>1, <1>0 DEF ForegroundStart, At, Begins, Parks
  <2>2. CASE ForegroundRun
    BY <2>2, <1>0 DEF ForegroundRun, At, lockVars, Parks
  <2>3. CASE ForegroundRefused
    BY <2>3, <1>0 DEF ForegroundRefused, At, Dies, ThreadsOf, Parks
  <2>4. CASE ForegroundEnd
    BY <2>4, <1>0 DEF ForegroundEnd, At, Dies, ThreadsOf, Released, Parks
  <2>5. CASE ForegroundKilled
    BY <2>5, <1>0 DEF ForegroundKilled, At, Dies, ThreadsOf, Parks
  <2> QED BY <1>5, <2>1, <2>2, <2>3, <2>4, <2>5 DEF ForegroundStep
<1>6. CASE UNCHANGED vars
  BY <1>6 DEF vars, lockVars, daemonVars, Parks
<1> QED BY <1>1, <1>2, <1>3, <1>4, <1>5, <1>6 DEF Next, LockStep, LoopStep, Goal

\* Start-up recovery parks no run that the foreground process works on, unless a daemon was
\* asked to resume it (_recover_orphaned_runs, which looks at controller_mode), for every instance.
THEOREM ForegroundHolds == Spec => ForegroundNotParked
<1>1. FIInv /\ [Next]_vars =>
        [\A d \in Daemons, r \in Runs :
            pc[d] = "recover" /\ pc'[d] = "accept" /\ disk[r].top # disk'[r].top
            => <<r, Foreground>> \notin threads \/ r \in resumed]_vars
  BY SparedStep DEF Spared, Parks
<1> QED BY FInit, FNext, <1>1, PTL DEF Spec, ForegroundNotParked
================================================================================
