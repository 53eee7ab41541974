------------------------------ MODULE OperatorProps ------------------------------
(***************************************************************************)
(* What an operator may rely on.                                           *)
(***************************************************************************)
EXTENDS Operator

\* Every variable holds a value of its kind; a tracker keeps no more finished jobs
\* than it may, and one process at most receives.
TypeOK ==
    /\ run \in [Runs -> Views] /\ up \in BOOLEAN
    /\ job \in [Jobs -> [at : Places, state : States, ask : BOOLEAN]]
    /\ \A p \in Places :
         /\ Len(finished[p]) <= MaxCompleted
         /\ \A n \in DOMAIN finished[p] :
              job[finished[p][n]].at = p /\ job[finished[p][n]].state = "done"
    /\ rows \in [Runs -> Rows] /\ sel \in Runs
    /\ {pending, hint, asked} \subseteq Jobs \cup {None}
    /\ host \in [Hosts -> {"off", "sends", "receives", "dead"}]
    /\ Cardinality({h \in Hosts : host[h] = "receives"}) <= 1
    /\ sent \in {0} \cup Messages
    /\ confirmed <= sent /\ offset <= sent /\ Cardinality(seen) <= SeenMax
    /\ late \subseteq tracked /\ tracked \subseteq Jobs

\* A message runs again only where the memory of it was lost, with the receiver that
\* had it or in a trim of the ids; a button in Lark, which is not told apart, is
\* excepted.  And what Telegram has dropped was run or, as old text, passed over.
HandledOnce ==
    \A m \in Messages :
      /\ ran[m] <= 1 + forgot[m] \/ (surface = "lark" /\ m \in Buttons)
      /\ m \in 1 .. confirmed => ran[m] > 0 \/ Skips(m)

\* What E escalates is the last clarification that was asked for, and not one that a
\* later question has replaced.
EscalatesLastAsked == (pending = None /\ hint # None) => hint = asked

Waiting(j) == j \in tracked \/ pending = j

\* The console waits for ever for a job that its daemon does not know any more.
Lost(j) == pending = j /\ job[j].state = "gone"

\* When in the end a daemon stays up, whoever waits for a job gets an answer, be it that
\* it took too long.
JobAnswered == <>[]up => \A j \in Jobs : Waiting(j) ~> (~Waiting(j) \/ Lost(j))

\* A paused run that no process drives can be resumed from an operator's surface
\* (do_resume: "Resume a paused/orphaned run, auto-starting daemon if needed").
PausedIsResumable ==
    \A r \in Runs : run[r].top = "PAUSED_FOR_HUMAN" => ResumeOffered(Row(r))
===============================================================================
