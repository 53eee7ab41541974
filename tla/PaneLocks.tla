------------------------------- MODULE PaneLocks -------------------------------
(***************************************************************************)
(* The lock file of one tmux pane (global_registry).  Every process reads  *)
(* it, unlinks it when its owner is dead or unreadable, creates it with    *)
(* O_EXCL and then writes its record into it: four system calls, between   *)
(* which other processes make theirs.  A created file that another process *)
(* has unlinked meanwhile takes the record all the same.                   *)
(***************************************************************************)
EXTENDS Naturals, FiniteSets

CONSTANTS
    Daemons,     \* daemon processes, each started at most once
    Foreground,  \* the process of `run foreground`
    Viewer,      \* a process that only reads: status, overview, bootstrap
    Runs

Unwritten == "unwritten"
NoRun == "none"

ASSUME PaneLocksAssumption ==
    /\ Foreground \notin Daemons /\ Viewer \notin Daemons /\ Foreground # Viewer
    /\ "nobody" \notin Daemons \cup {Foreground, Viewer}
    /\ Unwritten \notin Runs /\ NoRun \notin Runs

VARIABLES
    alive,      \* the live processes
    lock,       \* the lock file: NoFile, or who created it and the run recorded
    op,         \* what each process is doing to it, and for which run
    contended   \* history: two processes were between their system calls at once

lockVars == <<alive, lock, op, contended>>

Procs == Daemons \cup {Foreground, Viewer}
NoFile == [by |-> "nobody", run |-> NoRun]
Idle == [step |-> "none", run |-> NoRun]
Steps == {"none", "check", "clear", "create", "write", "again", "reclear", "owned",
          "refused"}

LockInit ==
    /\ alive = {Viewer}
    /\ lock = NoFile
    /\ op = [p \in Procs |-> Idle]
    /\ contended = FALSE

\* _pid_alive of the recorded owner; an empty or half-written record names nobody.
Held == lock # NoFile /\ lock.run # Unwritten /\ lock.by \in alive

\* Acting on what was read before: the file may have changed since.
Mid(steps, p) == steps[p].step \in {"clear", "create", "write", "reclear"}

Go(p, step) ==
    /\ op' = [op EXCEPT ![p].step = step]
    /\ contended' = (contended \/ \E q \in Procs \ {p} : Mid(op, q) /\ Mid(op', p))

Begins(p, r) ==
    /\ op' = [op EXCEPT ![p] = [step |-> "check", run |-> r]]
    /\ UNCHANGED contended

Ends(p) == op' = [op EXCEPT ![p] = Idle] /\ UNCHANGED contended

\* find_pane_owner, its first half: anything but a live owner will be unlinked.
Check(p) ==
    /\ op[p].step = "check"
    /\ Go(p, IF Held THEN "refused" ELSE "clear")
    /\ UNCHANGED <<alive, lock>>

\* ... and its second half.
Clear(p) ==
    /\ op[p].step = "clear" /\ p # Viewer
    /\ lock' = NoFile
    /\ Go(p, "create")
    /\ UNCHANGED alive

Create(p) ==
    /\ op[p].step = "create"
    /\ IF lock = NoFile
       THEN lock' = [by |-> p, run |-> Unwritten] /\ Go(p, "write")
       ELSE UNCHANGED lock /\ Go(p, "again")
    /\ UNCHANGED alive

\* The record goes to the file created, which need not be at the path any more.
Write(p) ==
    /\ op[p].step = "write"
    /\ lock' = IF lock = [by |-> p, run |-> Unwritten] THEN [lock EXCEPT !.run = op[p].run]
               ELSE lock
    /\ Go(p, "owned")
    /\ UNCHANGED alive

\* The file exists: find_pane_owner is called once more, to name the owner, and
\* unlinks what it finds unwritten.
FindAgain(p) ==
    /\ op[p].step = "again"
    /\ Go(p, IF Held THEN "refused" ELSE "reclear")
    /\ UNCHANGED <<alive, lock>>

ClearAgain(p) ==
    /\ op[p].step = "reclear"
    /\ lock' = NoFile
    /\ Go(p, "refused")
    /\ UNCHANGED alive

Acquire(p) == Check(p) \/ Clear(p) \/ Create(p) \/ Write(p) \/ FindAgain(p) \/ ClearAgain(p)

\* Mutant: whatever run the file names, it is unlinked.
Released_Unchecked(runs) == NoFile

\* release_pane_lock for each of these runs: an unwritten file goes too.
Released(runs) ==
    IF runs # {} /\ lock.run \in runs \cup {Unwritten} THEN NoFile ELSE lock

\* list_pane_owners and _validate_pane.
ViewerReads ==
    /\ op[Viewer].step = "none" /\ lock # NoFile /\ ~Held
    /\ Go(Viewer, "clear")
    /\ UNCHANGED <<alive, lock>>

ViewerClears ==
    /\ op[Viewer].step = "clear"
    /\ lock' = NoFile
    /\ Ends(Viewer)
    /\ UNCHANGED alive
===============================================================================
