-------------------------------- MODULE Daemons --------------------------------
(***************************************************************************)
(* Who controls the runs of one worktree: daemon processes, started when   *)
(* no daemon answers a ping, and a foreground process; one pane, whose     *)
(* lock they take, the socket, and the saved state of each run.  A client  *)
(* waits five seconds for an answer, so a daemon that is busy, starting or *)
(* closing passes for a dead one.  RUNNING on disk stands for every state  *)
(* a loop works in.                                                        *)
(*                                                                         *)
(* pc[d]: "off", "unlink", "bind", "recover" (starting), "accept" (in its  *)
(* accept loop), "acquire" (serving a register or resume), "join" and      *)
(* "leave" (closing), "dead".  For the foreground: "off", "acquire",       *)
(* "run", "dead".                                                          *)
(***************************************************************************)
EXTENDS PaneLocks

CONSTANT MaxRequests  \* bound on registrations and resumes, for model checking

ASSUME DaemonsAssumption == MaxRequests \in Nat

VARIABLES
    pc,        \* of each daemon and of the foreground process
    sock,      \* the daemon whose socket is at the socket path
    disk,      \* state.json of each run: top state and controller mode
    threads,   \* the live sidecar loops: <<run, process>>
    registry,  \* _runs of each daemon
    stops,     \* <<run, daemon>> whose stop event is set
    lingered,  \* history: a lock was released while its thread was still alive
    requests,  \* number of register and resume requests
    resumed    \* history: the runs a daemon was asked to resume

daemonVars == <<pc, sock, disk, threads, registry, stops, lingered, requests, resumed>>
vars == <<lockVars, daemonVars>>

Nobody == "nobody"
Fresh == [top |-> "NONE", mode |-> "daemon"]
Resumable == {"READY", "RUNNING", "PAUSED_FOR_HUMAN"}

Init ==
    /\ LockInit
    /\ pc = [p \in Procs \ {Viewer} |-> "off"]
    /\ sock = Nobody
    /\ disk = [r \in Runs |-> Fresh]
    /\ threads = {} /\ registry = [d \in Daemons |-> {}] /\ stops = {}
    /\ lingered = FALSE /\ requests = 0 /\ resumed = {}

At(p, label) == pc' = [pc EXCEPT ![p] = label]
ThreadsOf(p) == {t \in threads : t[2] = p}

\* Mutant: the process is saved, not its mode.
ModeOf_Raw(p) == p

\* The controller_mode a process's loop saves with its run.
ModeOf(p) == IF p = Foreground THEN "foreground" ELSE "daemon"

\* The process ends, its threads and all it remembers with it; its files stay.
Dies(p) ==
    /\ alive' = alive \ {p}
    /\ At(p, "dead")
    /\ threads' = threads \ ThreadsOf(p)
    /\ registry' = [d \in Daemons |-> IF d = p THEN {} ELSE registry[d]]
    /\ stops' = {s \in stops : s[2] # p}
    /\ op' = [op EXCEPT ![p] = Idle]
    /\ UNCHANGED contended

-------------------------------------------------------------------------------
(* A daemon's life *)

\* DaemonClient.is_running.
Answers == sock \in Daemons /\ pc[sock] = "accept"

\* _ensure_daemon, cmd_daemon_start and bootstrap fork one when no daemon answers.
NoDaemon == ~Answers

Start(d) ==
    /\ pc[d] = "off" /\ NoDaemon
    /\ alive' = alive \cup {d} /\ At(d, "unlink")
    /\ UNCHANGED <<lock, op, contended, sock, disk, threads, registry, stops, lingered, requests, resumed>>

UnlinkSocket(d) ==
    /\ pc[d] = "unlink"
    /\ sock' = Nobody /\ At(d, "bind")
    /\ UNCHANGED <<lockVars, disk, threads, registry, stops, lingered, requests, resumed>>

Bind(d) ==
    /\ pc[d] = "bind"
    /\ IF sock = Nobody
       THEN /\ sock' = d /\ At(d, "recover")
            /\ UNCHANGED <<alive, threads, registry, stops, op, contended>>
       ELSE Dies(d) /\ UNCHANGED sock
    /\ UNCHANGED <<lock, disk, lingered, requests, resumed>>

\* Mutant: foreground runs are not passed over.
Orphans_All == {r \in Runs : disk[r].top = "RUNNING"}

\* What a starting daemon takes for orphaned: the saved state is all it looks at.
Orphans == {r \in Runs : disk[r].top = "RUNNING" /\ disk[r].mode # "foreground"}

Recover(d) ==
    /\ pc[d] = "recover"
    /\ disk' = [r \in Runs |-> IF r \in Orphans
                               THEN [disk[r] EXCEPT !.top = "PAUSED_FOR_HUMAN"] ELSE disk[r]]
    /\ At(d, "accept")
    /\ UNCHANGED <<lockVars, sock, threads, registry, stops, lingered, requests, resumed>>

\* SIGTERM, or idle for ten minutes with no runs.
Shutdown(d) ==
    /\ pc[d] = "accept"
    /\ stops' = stops \cup (registry[d] \X {d})
    /\ At(d, "join")
    /\ UNCHANGED <<lockVars, sock, disk, threads, registry, lingered, requests, resumed>>

\* Five seconds for each thread, then the locks are released.
ReleaseAll(d) ==
    /\ pc[d] = "join"
    /\ lock' = Released(registry[d])
    /\ lingered' = (lingered \/ ThreadsOf(d) # {})
    /\ At(d, "leave")
    /\ UNCHANGED <<alive, op, contended, sock, disk, threads, registry, stops, requests, resumed>>

\* The socket path is unlinked, whoever is listening there by now.
Leave(d) ==
    /\ pc[d] = "leave"
    /\ sock' = Nobody
    /\ Dies(d)
    /\ UNCHANGED <<lock, disk, lingered, requests, resumed>>

\* SIGKILL; before the handler is installed SIGTERM does the same.
Crash(d) ==
    /\ d \in alive
    /\ Dies(d)
    /\ UNCHANGED <<lock, sock, disk, lingered, requests, resumed>>

-------------------------------------------------------------------------------
(* Requests to a daemon *)

Serves(d) == pc[d] = "accept" /\ sock = d
PaneBusy(d) == \E r \in registry[d] : <<r, d>> \in threads

\* The lock is sought, unless this daemon has a live run in the pane.
Seek(d, r) ==
    IF PaneBusy(d) \/ r \in registry[d]
    THEN UNCHANGED <<pc, op, contended>>
    ELSE At(d, "acquire") /\ Begins(d, r)

\* The state is saved before the lock is tried, and stays when it is refused.  A run's
\* id is new.
Register(d, r) ==
    /\ Serves(d) /\ requests < MaxRequests
    /\ disk[r].top = "NONE" /\ op[Foreground].run # r
    /\ disk' = [disk EXCEPT ![r].top = "READY"]
    /\ requests' = requests + 1
    /\ Seek(d, r)
    /\ UNCHANGED <<alive, lock, sock, threads, registry, stops, lingered, resumed>>

\* load_or_init makes it a daemon's run before the lock is tried.
Resume(d, r) ==
    /\ Serves(d) /\ requests < MaxRequests /\ disk[r].top \in Resumable
    /\ disk' = [disk EXCEPT ![r].mode = "daemon"]
    /\ requests' = requests + 1 /\ resumed' = resumed \cup {r}
    /\ Seek(d, r)
    /\ UNCHANGED <<alive, lock, sock, threads, registry, stops, lingered>>

\* The lock is this daemon's: the thread starts.
Launch(d) ==
    LET r == op[d].run IN
    /\ pc[d] = "acquire" /\ op[d].step = "owned"
    /\ Ends(d) /\ At(d, "accept")
    /\ threads' = threads \cup {<<r, d>>}
    /\ registry' = [registry EXCEPT ![d] = @ \cup {r}]
    /\ stops' = stops \ {<<r, d>>}
    /\ disk' = [disk EXCEPT ![r].top = IF @ = "PAUSED_FOR_HUMAN" THEN "RUNNING" ELSE @]
    /\ UNCHANGED <<alive, lock, sock, lingered, requests, resumed>>

TurnAway(d) ==
    /\ pc[d] = "acquire" /\ op[d].step = "refused"
    /\ Ends(d) /\ At(d, "accept")
    /\ UNCHANGED <<alive, lock, sock, disk, threads, registry, stops, lingered, requests, resumed>>

\* _do_stop and _do_stop_all.
Stop(d, r) ==
    /\ Serves(d) /\ r \in registry[d]
    /\ stops' = stops \cup {<<r, d>>}
    /\ UNCHANGED <<lockVars, pc, sock, disk, threads, registry, lingered, requests, resumed>>

\* The two seconds a stopping thread gets may not do: it is left for the next round.
Reapable(d, r) == <<r, d>> \notin threads

\* Mutant: the run is dropped and its lock forgotten.
Reap_Forgets(d, r) ==
    /\ pc[d] = "accept" /\ r \in registry[d] /\ Reapable(d, r)
    /\ registry' = [registry EXCEPT ![d] = @ \ {r}]
    /\ UNCHANGED <<lockVars, pc, sock, disk, threads, stops, lingered, requests, resumed>>

Reap(d, r) ==
    /\ pc[d] = "accept" /\ r \in registry[d] /\ Reapable(d, r)
    /\ lock' = Released({r})
    /\ registry' = [registry EXCEPT ![d] = @ \ {r}]
    /\ UNCHANGED <<alive, op, contended, pc, sock, disk, threads, stops, lingered, requests, resumed>>

-------------------------------------------------------------------------------
(* The loops themselves, as far as the saved state and the thread go *)

Saves(r, p, top) == disk' = [disk EXCEPT ![r] = [top |-> top, mode |-> ModeOf(p)]]

Works(r, p) ==
    /\ <<r, p>> \in threads
    /\ Saves(r, p, "RUNNING")
    /\ UNCHANGED <<lockVars, pc, sock, threads, registry, stops, lingered, requests, resumed>>

\* The loop pauses, completes, is stopped or interrupted.
EndsRun(r, p, top) ==
    /\ <<r, p>> \in threads
    /\ top = "RUNNING" => p = Foreground \/ <<r, p>> \in stops
    /\ Saves(r, p, top)
    /\ threads' = threads \ {<<r, p>>}
    /\ UNCHANGED <<lockVars, pc, sock, registry, stops, lingered, requests, resumed>>

\* The surface cannot be made, the doctor refuses it or a round raises: the saved
\* state stays as it is and the thread ends.
LoopRaises(r, p) ==
    /\ threads' = threads \ {<<r, p>>}
    /\ UNCHANGED <<lockVars, pc, sock, disk, registry, stops, lingered, requests, resumed>>

-------------------------------------------------------------------------------
(* `run foreground` *)

ForegroundStart(r) ==
    /\ pc[Foreground] = "off" /\ disk[r].top = "NONE"
    /\ alive' = alive \cup {Foreground} /\ At(Foreground, "acquire")
    /\ Begins(Foreground, r)
    /\ UNCHANGED <<lock, sock, disk, threads, registry, stops, lingered, requests, resumed>>

\* The run is recorded and its loop entered; the surface's doctor may refuse.
ForegroundRun ==
    LET r == op[Foreground].run IN
    /\ pc[Foreground] = "acquire" /\ op[Foreground].step = "owned"
    /\ disk' = [disk EXCEPT ![r] = [top |-> "READY", mode |-> "foreground"]]
    /\ threads' = threads \cup {<<r, Foreground>>}
    /\ At(Foreground, "run")
    /\ UNCHANGED <<lockVars, sock, registry, stops, lingered, requests, resumed>>

ForegroundRefused ==
    /\ pc[Foreground] = "acquire" /\ op[Foreground].step = "refused"
    /\ Dies(Foreground)
    /\ UNCHANGED <<lock, sock, disk, lingered, requests, resumed>>

ForegroundEnd ==
    /\ pc[Foreground] = "run" /\ ThreadsOf(Foreground) = {}
    /\ lock' = Released({op[Foreground].run})
    /\ Dies(Foreground)
    /\ UNCHANGED <<sock, disk, lingered, requests, resumed>>

ForegroundKilled ==
    /\ Foreground \in alive
    /\ Dies(Foreground)
    /\ UNCHANGED <<lock, sock, disk, lingered, requests, resumed>>

-------------------------------------------------------------------------------
LockStep == (\E p \in Procs : Acquire(p)) /\ UNCHANGED daemonVars
ViewerStep == (ViewerReads \/ ViewerClears) /\ UNCHANGED daemonVars

DaemonStep(d) ==
    \/ Start(d) \/ UnlinkSocket(d) \/ Bind(d) \/ Recover(d)
    \/ Shutdown(d) \/ ReleaseAll(d) \/ Leave(d) \/ Crash(d)
    \/ Launch(d) \/ TurnAway(d)
    \/ \E r \in Runs : Register(d, r) \/ Resume(d, r) \/ Stop(d, r) \/ Reap(d, r)

LoopStep ==
    \E t \in threads :
        \/ Works(t[1], t[2]) \/ LoopRaises(t[1], t[2])
        \/ \E top \in {"RUNNING", "PAUSED_FOR_HUMAN", "COMPLETED"} : EndsRun(t[1], t[2], top)

ForegroundStep ==
    \/ (\E r \in Runs : ForegroundStart(r))
    \/ ForegroundRun \/ ForegroundRefused \/ ForegroundEnd \/ ForegroundKilled

Next ==
    \/ LockStep \/ ViewerStep
    \/ (\E d \in Daemons : DaemonStep(d))
    \/ LoopStep \/ ForegroundStep

Spec == Init /\ [][Next]_vars
===============================================================================
