--------------------------------- MODULE Console ---------------------------------
(***************************************************************************)
(* The terminal console (_curses_main): it polls its one pending job,      *)
(* scans the runs every three seconds, draws, and takes a key, which acts  *)
(* on the row it drew.  What the panes show is left out, and with it the   *)
(* global view, which takes no key that acts.                              *)
(***************************************************************************)
EXTENDS OperatorJobs

None == 0

VARIABLES
    rows,     \* the runs as last scanned
    sel,      \* the run of the selected row
    pending,  \* pending_job
    hint,     \* last_clarify: the answered clarification that E escalates
    asked     \* history: the clarification last asked for, and not failed to submit

consoleVars == <<rows, sel, pending, hint, asked>>

ConsoleInit ==
    /\ rows = [r \in Runs |-> Row(r)]
    /\ sel \in Runs
    /\ pending = None /\ hint = None /\ asked = None

Selected == rows[sel]

\* The daemon's answer to a call may come too late: the call is made, and raises.
CallAnswered(row) == {TRUE} \cup (IF ThroughDaemon(row) THEN {FALSE} ELSE {})

\* A low-confidence answer can be escalated; another takes the offer back.
Answered(low) == IF low THEN pending ELSE None

PollPending ==
    /\ pending # None
    /\ LET status == PollJob(pending) IN
       \/ /\ status \in {"running", "unknown"}
          /\ UNCHANGED <<pending, hint>>
       \/ /\ status \in {"done", "raises"}  \* an error, or there is no answer
          /\ pending' = None /\ UNCHANGED hint
       \/ /\ status = "done" /\ pending' = None
          /\ IF job[pending].ask THEN \E low \in BOOLEAN : hint' = Answered(low)
             ELSE UNCHANGED hint
    /\ UNCHANGED <<viewVars, jobVars, rows, sel, asked>>

\* The list is in order of recency, and the selection is an index into it.
Scan ==
    /\ rows' = [r \in Runs |-> Row(r)]
    /\ sel' \in Runs
    /\ UNCHANGED <<viewVars, jobVars, pending, hint, asked>>

\* j and k.
Move ==
    /\ \E r \in Runs \ {sel} : sel' = r
    /\ hint' = None
    /\ UNCHANGED <<viewVars, jobVars, rows, pending, asked>>

-------------------------------------------------------------------------------
(* e, x, d and c.  Nothing is asked of a daemon that is not there *)

Reachable(row) == ~ThroughDaemon(row) \/ up

\* Mutant: the question is asked, and the offer of an earlier answer stays.
Ask_Keeps(j) ==
    /\ pending' = j /\ asked' = j
    /\ UNCHANGED hint

\* The job is the pending one once its id is known.
Ask(j) ==
    /\ pending' = j /\ asked' = j
    /\ hint' = None

Explain(j) ==
    /\ pending' = j
    /\ UNCHANGED <<asked, hint>>

KeyJob(j) ==
    /\ pending = None /\ Reachable(Selected)
    /\ \E ask \in BOOLEAN, ok \in CallAnswered(Selected) :
         /\ Submit(j, Selected, ask)
         /\ IF ~ok THEN UNCHANGED <<pending, asked, hint>>
            ELSE IF ask THEN Ask(j) ELSE Explain(j)
    /\ UNCHANGED <<viewVars, rows, sel>>

\* E: an event in the log of the run that was asked about; the offer stays if it fails.
KeyEscalate ==
    /\ pending = None /\ hint # None
    /\ hint' = None
    /\ UNCHANGED <<viewVars, jobVars, rows, sel, pending, asked>>

\* p and r, on the row as it was drawn.
KeyPause ==
    /\ DoPause(Selected)
    /\ UNCHANGED <<jobVars, consoleVars>>

KeyResume ==
    /\ DoResume(Selected)
    /\ UNCHANGED <<jobVars, consoleVars>>
===============================================================================
