------------------------------ MODULE OperatorJobs ------------------------------
(***************************************************************************)
(* The explanations and clarifications an operator asks for: jobs that a   *)
(* tracker runs in a thread each, in the daemon for a run it can be asked  *)
(* about and otherwise in the operator's own process, and that are polled  *)
(* until they are done.                                                    *)
(***************************************************************************)
EXTENDS OperatorViews, Sequences, FiniteSets

CONSTANTS
    MaxJobs,      \* bound on the jobs submitted, for model checking
    MaxCompleted  \* the finished jobs a tracker keeps

ASSUME OperatorJobsAssumption == MaxJobs \in Nat /\ MaxCompleted \in Nat

Jobs == 1 .. MaxJobs  \* a job's id: its number in order of submission

Places == {"daemon", "local"}
States == {"new", "running", "done", "gone"}

VARIABLES
    job,      \* of each job: where it runs, its state, the run and the question it is about
    finished  \* of each tracker: its finished jobs, in the order they ended

jobVars == <<job, finished>>

JobsInit ==
    /\ job = [j \in Jobs |-> [at |-> "local", state |-> "new", ask |-> FALSE]]
    /\ finished = [p \in Places |-> <<>>]

\* _evict_old: of the finished jobs, as many of the oldest go as there are too many.
Surplus(s) == IF Len(s) > MaxCompleted THEN Len(s) - MaxCompleted ELSE 0
Evicted(s) == {s[n] : n \in 1 .. Surplus(s)}

IsNew(j) == job[j].state = "new"
IsNext(j) == IsNew(j) /\ \A i \in 1 .. j - 1 : ~IsNew(i)

\* JobTracker.submit, in the daemon (through the IPC call) or in the process itself.
Submit(j, row, ask) ==
    /\ IsNext(j)
    /\ job' = [job EXCEPT ![j] = [at |-> IF ThroughDaemon(row) THEN "daemon" ELSE "local",
                                  state |-> "running", ask |-> ask]]
    /\ UNCHANGED finished

\* The job's thread ends, with an answer or an error: it may push others out of the tracker.
Finish(j) ==
    LET p == job[j].at
        s == Append(finished[p], j) IN
    /\ job[j].state = "running"
    /\ job' = [i \in Jobs |-> IF i \in Evicted(s) THEN [job[i] EXCEPT !.state = "gone"]
                              ELSE IF i = j THEN [job[i] EXCEPT !.state = "done"]
                              ELSE job[i]]
    /\ finished' = [finished EXCEPT ![p] = SubSeq(s, Surplus(s) + 1, Len(s))]

\* The process of the tracker ends, and with it its jobs and what it knew of them.
TrackerDies(p) ==
    /\ job' = [j \in Jobs |-> IF job[j].at = p /\ ~IsNew(j)
                              THEN [job[j] EXCEPT !.state = "gone"] ELSE job[j]]
    /\ finished' = [finished EXCEPT ![p] = <<>>]

\* poll_job: what is learned of a job, "done" if it is completed or failed.  A daemon
\* that does not know it answers with an error and no status, and one that is not there
\* cannot be asked; an unknown job of the process itself has failed.
PollJob(j) ==
    IF job[j].at = "daemon" /\ ~up THEN "raises"
    ELSE IF job[j].state # "gone" THEN job[j].state
    ELSE IF job[j].at = "daemon" THEN "unknown" ELSE "done"
===============================================================================
