------------------------------ MODULE OperatorViews ------------------------------
(***************************************************************************)
(* What an operator sees of the runs of a worktree and may ask of them:    *)
(* the tag a scan gives each run, the capabilities that follow from it,    *)
(* and what the call does.  run[r].at: the process whose loop drives r;    *)
(* run[r].stop: its stop event is set.  A run whose foreground process died *)
(* is "left": on disk it is a foreground run still.                        *)
(***************************************************************************)
EXTENDS Naturals, TopStates

CONSTANTS
    Runs,
    Live  \* those that have not ended before the operator looks, for model checking

ASSUME ViewsAssumption == Live \subseteq Runs

VARIABLES
    run,  \* of each run: top state and pause class on disk, at, stop
    up    \* a daemon of the worktree answers

viewVars == <<run, up>>

\* GATING and VERIFYING are to an operator what RUNNING is, and every end is COMPLETED.
Going == {"ATTACHED", "RUNNING", "RECOVERY_NEEDED"}
Tops == Going \cup {"READY", "PAUSED_FOR_HUMAN", "COMPLETED"}

Views == [top : Tops,
          class : {"", "recorded"},
          at : {"daemon", "foreground", "nowhere", "left"}, stop : BOOLEAN]

At(top, class, at) == [top |-> top, class |-> class, at |-> at, stop |-> FALSE]

\* A pause without a class is one an earlier version saved.
ViewsInit ==
    /\ up \in BOOLEAN
    /\ \E v \in {At("ATTACHED", "", "foreground"), At("PAUSED_FOR_HUMAN", "", "nowhere")}
               \cup (IF up THEN {At("ATTACHED", "", "daemon")} ELSE {}) :
         run = [r \in Runs |-> IF r \in Live THEN v ELSE At("COMPLETED", "", "nowhere")]

\* _liveness and _derive_tag: a daemon in the worktree is taken to drive all its runs.
TagOf(v) ==
    IF v.top \in FinalStates THEN "completed"
    ELSE IF v.top = "PAUSED_FOR_HUMAN" THEN (IF v.class = "" THEN "paused" ELSE "paused-class")
    ELSE IF v.top = "ATTACHED" THEN "attached"
    ELSE IF v.top = "RECOVERY_NEEDED" THEN "recovery"
    ELSE IF v.at = "foreground" THEN "foreground"
    ELSE IF up THEN "daemon"
    ELSE IF v.top = "READY" THEN "local" ELSE "orphaned"

\* One record of collect_sessions.
Row(r) == [run |-> r, tag |-> TagOf(run[r]), top |-> run[r].top]

Rows == [run : Runs, top : Tops,
         tag : {"completed", "paused", "paused-class", "attached", "recovery", "foreground",
                "daemon", "orphaned", "local"}]

-------------------------------------------------------------------------------
(* The capability matrix: by the row's tag, which may be out of date, and whether a
   daemon answers now *)

\* Inspection, explanations and notes go to a daemon, or to the files (and no notes).
ThroughDaemon(row) == row.tag = "daemon" \/ (row.tag \in {"orphaned", "paused"} /\ up)

PauseOffered(row) == row.tag = "daemon" /\ row.top \in {"RUNNING", "READY"}

ResumeOffered(row) ==
    \/ row.tag = "daemon" /\ row.top = "PAUSED_FOR_HUMAN"
    \/ row.tag \in {"orphaned", "paused"}

-------------------------------------------------------------------------------
(* The runs and the daemon *)

\* A run that was stopped keeps its state; another goes on, pauses or ends.
Works(r) ==
    /\ run[r].at \in {"daemon", "foreground"}
    /\ \E v \in IF run[r].stop THEN {At(run[r].top, "", "nowhere")}
                ELSE {At(top, "", run[r].at) :
                        top \in {t \in Going : CanTransition(run[r].top, t)}}
                     \cup {At("PAUSED_FOR_HUMAN", "recorded", "nowhere"),
                           At("COMPLETED", "", "nowhere")} :
         run' = [run EXCEPT ![r] = v]
    /\ UNCHANGED up

\* With the loops of its runs.
DaemonDies ==
    /\ up /\ up' = FALSE
    /\ run' = [r \in Runs |-> IF run[r].at = "daemon" THEN At(run[r].top, "", "nowhere")
                             ELSE run[r]]

ForegroundDies(r) ==
    /\ run[r].at = "foreground"
    /\ run' = [run EXCEPT ![r] = At(@.top, "", "left")]
    /\ UNCHANGED up

\* _recover_orphaned_runs of the daemon that starts.
Recovered ==
    [r \in Runs |-> IF run[r].top \in Orphaned /\ run[r].at = "nowhere"
                    THEN At("PAUSED_FOR_HUMAN", "recorded", "nowhere") ELSE run[r]]

DaemonStarts == ~up /\ up' = TRUE /\ run' = Recovered

-------------------------------------------------------------------------------
(* What the calls of an operator do *)

\* stop_run: a run the daemon does not drive is not found.
DoPause(row) ==
    /\ PauseOffered(row)
    /\ IF up /\ run[row.run].at = "daemon"
       THEN run' = [run EXCEPT ![row.run].stop = TRUE]
       ELSE UNCHANGED run
    /\ UNCHANGED up

\* do_resume starts a daemon when none answers, unless the row names one.  A pause of the
\* attach boundary ends there.
DoResume(row) ==
    LET world == IF up THEN run ELSE Recovered
        v == world[row.run] IN
    /\ ResumeOffered(row)
    /\ IF ~up /\ row.tag = "daemon" THEN UNCHANGED viewVars
       ELSE /\ up' = TRUE
            /\ \E top \in IF v.top = "PAUSED_FOR_HUMAN" THEN {"ATTACHED", "RUNNING"}
                          ELSE {v.top} :
                 run' = IF v.at \in {"nowhere", "left"} /\ v.top \notin FinalStates
                        THEN [world EXCEPT ![row.run] = At(top, "", "daemon")]
                        ELSE world
===============================================================================
