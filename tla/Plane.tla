---------------------------------- MODULE Plane ----------------------------------
(***************************************************************************)
(* The daemon's server thread between the runs and the event plane, with   *)
(* the A2A server writing to the same files: one call at a time in the     *)
(* daemon, whose remaining appends are todo["daemon"], each in its turn    *)
(* among those of workers, jobs and request threads.  Either process may   *)
(* die between any two of them.                                            *)
(***************************************************************************)
EXTENDS RunSessions, Ingress, SequencesExt

Kinds == {"run", "line", "task", "post", "death", "guest"}

CONSTANT Loads  \* bounds for model checking: calls about runs, lines of workers, calls
                \* about tasks, posts, deaths, guests

ASSUME PlaneAssumption == Loads \subseteq [Kinds -> Nat]

VARIABLE left  \* how many of each may still come

vars == <<sessionVars, eventVars, ingressVars, left>>

\* With or without a closed session of an earlier run.
Init ==
    /\ SessionsInit /\ EventInit /\ IngressInit
    /\ left \in Loads
    /\ sessions = IF left["run"] = 0 THEN <<"closed">> ELSE <<>>

\* What a handler of the daemon appends to the log of r through store s.
Event(r, s) == Step("event", s, r)
Note(r) == IF r = NoRun THEN <<>> ELSE <<Step("note", 0, r)>>

Comes(kind) == left[kind] > 0 /\ left' = [left EXCEPT ![kind] = @ - 1]
Serving == up /\ todo["daemon"] = <<>> /\ ~ServerWrites
NextDue(do) == up /\ Due("daemon", do) /\ ~ServerWrites

-------------------------------------------------------------------------------
(* Runs *)

RegisterRun(r, started) ==
    /\ Serving /\ Comes("run")
    /\ Register(r, started)
    /\ UNCHANGED <<eventVars, ingressVars>>

\* _do_resume, the run on disk and not in the registry, its pane not held by a foreground
\* process: a new store is opened, and the pause ended with two events.
Resume(r) ==
    /\ Serving /\ Comes("run")
    /\ run[r].where = "left" /\ run[r].top \in {"PAUSED_FOR_HUMAN", "READY"}
    /\ \A g \in Guests : guest[g].as = "foreground" => guest[g].run # r
    /\ OpenStore(r)
    /\ Steps("daemon",
             (IF run[r].top = "READY" THEN <<>>
              ELSE <<Event(r, NextStore(r)), Event(r, NextStore(r))>>)
             \o <<Step("launch", NextStore(r), r)>>)
    /\ UNCHANGED <<requests, waits, results, items, ingressVars>>

LaunchRun ==
    /\ NextDue("launch")
    /\ Launch(Head(todo["daemon"]).run, Its("daemon")) /\ Done("daemon")
    /\ UNCHANGED <<requests, waits, results, items, ingressVars, left>>

\* _do_ack_review, finished: the finish gate passes and the run was not final.
AckReview(r, finished) ==
    LET s == IF run[r].where = "ended" THEN run[r].entry ELSE NextStore(r) IN
    /\ Serving /\ Comes("run")
    /\ run[r].where \in {"ended", "left"}
    /\ finished => run[r].top \notin FinalStates
    /\ LoadAgain(r)
    /\ Steps("daemon", <<Event(r, s)>> \o
             (IF finished THEN <<Event(r, s), Event(r, s), Step("final", 0, r)>> ELSE <<>>))
    /\ UNCHANGED <<requests, waits, results, items, ingressVars>>

SaveFinal ==
    /\ NextDue("final")
    /\ SaveTop(Head(todo["daemon"]).run, "COMPLETED") /\ Done("daemon")
    /\ UNCHANGED <<requests, waits, results, items, ingressVars, left>>

\* _do_escalate_clarification: one event, through the entry's store or none.
Escalate(r) ==
    /\ Serving /\ Comes("run") /\ OnDisk(r)
    /\ Steps("daemon", <<Event(r, run[r].entry)>>)
    /\ UNCHANGED <<sessionVars, requests, waits, results, items, ingressVars>>

AskClarification(r) ==
    /\ Serving /\ Comes("run") /\ Clarify(r) /\ UNCHANGED <<eventVars, ingressVars>>

ReapRuns ==
    /\ Serving /\ Reap /\ UNCHANGED <<eventVars, ingressVars, left>>

-------------------------------------------------------------------------------
(* The server thread's next append *)

WriteEvent ==
    LET r == Head(todo["daemon"]).run IN
    /\ NextDue("event") /\ Room(r)
    /\ ServerWrites1(r, Its("daemon")) /\ Done("daemon")
    /\ UNCHANGED <<requests, waits, results, items, ingressVars, left>>

WriteNote ==
    LET r == Head(todo["daemon"]).run IN
    /\ NextDue("note") /\ Room(r)
    /\ ServerNotes(r) /\ Done("daemon")
    /\ UNCHANGED <<requests, waits, results, items, ingressVars, left>>

\* The bound on the log is reached: the line is not modelled.
SkipLine ==
    /\ NextDue("event") \/ NextDue("note")
    /\ ~Room(Head(todo["daemon"]).run) /\ Done("daemon")
    /\ UNCHANGED <<sessionVars, requests, waits, results, items, ingressVars, left>>

Append1 ==
    /\ up /\ ~ServerWrites
    /\ EnterWait("daemon") \/ RecordResult("daemon") \/ SettleWait("daemon")
         \/ Complete("daemon")
         \/ LET r == Head(todo["daemon"]).run IN
            Decide("daemon", IF r = NoRun THEN NoWake ELSE run[r].top)
    /\ UNCHANGED <<sessionVars, ingressVars, left>>

ParkOrphan ==
    /\ NextDue("park")
    /\ SaveTop(Head(todo["daemon"]).run, "PAUSED_FOR_HUMAN") /\ Done("daemon")
    /\ UNCHANGED <<requests, waits, results, items, ingressVars, left>>

-------------------------------------------------------------------------------
(* External tasks *)

\* _do_external_task_create: of a run, in its session, or of a session alone.
CreateTask(r, s, policy) ==
    /\ Serving /\ Comes("task")
    /\ IF r = NoRun THEN s \in 1..Len(sessions) ELSE OnDisk(r) /\ s = run[r].session
    /\ Request("daemon", s, r, policy, "plain", Note(r))
    /\ UNCHANGED <<sessionVars, ingressVars>>

\* Mutant: the wake policy is not applied.
WakeOf_Never(i, j) == Note(requests[i].run)

\* _do_external_result_ingest after a result that was not seen before.
WakeOf(i, j) ==
    LET r == requests[i].run IN
    Note(r) \o <<Step("wake", j, r)>> \o Note(r)

IngestResult(i, key) ==
    /\ Serving /\ Comes("task")
    /\ i \in Requests
    /\ Ingest(i, key, life, WakeOf(i, Len(items) + 1))
    /\ UNCHANGED <<sessionVars, ingressVars>>

AckItem(j) ==
    /\ Serving /\ Comes("task") /\ Ack(j) /\ UNCHANGED <<sessionVars, ingressVars>>

-------------------------------------------------------------------------------
(* Workers, jobs, lines *)

Lands == \E w \in writing : Land(w) /\ UNCHANGED <<eventVars, ingressVars, left>>

Work(r) ==
    /\ up
    /\ \/ WorkerWrites(r) /\ Comes("line")
       \/ WorkerSaves(r) /\ UNCHANGED left
       \/ \E t \in {"PAUSED_FOR_HUMAN", "COMPLETED"} : WorkerEnds(r, t) /\ UNCHANGED left
    /\ UNCHANGED <<eventVars, ingressVars>>

Answers(r) == JobWrites(r) /\ UNCHANGED <<eventVars, ingressVars, left>>

\* Whoever comes beside the daemon; a recovery beside none is that of DaemonStarts.
GuestComes(g, r) ==
    /\ Comes("guest")
    /\ StartsForeground(g, r) \/ (up /\ StartsRecovery(g, r)) \/ StartsJob(g, r)
    /\ UNCHANGED <<eventVars, ingressVars>>

GuestWorks(g) ==
    /\ \/ GuestWrites(g) /\ (IF guest[g].as = "foreground" THEN Comes("line") ELSE UNCHANGED left)
       \/ GuestSaves(g) /\ UNCHANGED left
       \/ \E top \in TopState : GuestLeaves(g, top) /\ UNCHANGED left
       \/ GuestDies(g) /\ Comes("death")
    /\ UNCHANGED <<eventVars, ingressVars>>

-------------------------------------------------------------------------------
(* Posts *)

Post(h) ==
    /\ Comes("post")
    /\ \E c \in Clients, m \in Methods, t \in Texts, f \in Refs, v \in BOOLEAN :
         Arrive(h, c, m, t, f, v)
    /\ UNCHANGED <<sessionVars, eventVars>>

Handle(h) ==
    /\ \/ Guard(h) /\ UNCHANGED eventVars
       \/ (\E b \in BOOLEAN : Audit(h, b)) /\ UNCHANGED eventVars
       \/ Refuse(h) /\ UNCHANGED eventVars
       \/ Sent(h) /\ UNCHANGED eventVars
       \/ GetResults(h) /\ UNCHANGED eventVars
       \/ \E i \in Requests : GetStatus(h, i) /\ UNCHANGED eventVars
       \/ \E s \in 1..Len(sessions), p \in Policies : Send(h, s, TRUE, p)
       \/ EnterWait(h) /\ UNCHANGED ingressVars
       \/ SeedItem(h, handler[h].text) /\ UNCHANGED ingressVars
    /\ UNCHANGED <<sessionVars, left>>

ClockTicks ==
    /\ \E c \in Clients : passed[c] # <<>>
    /\ Tick /\ UNCHANGED <<sessionVars, eventVars, left>>

-------------------------------------------------------------------------------
(* Stops *)

DaemonDies ==
    /\ Comes("death") /\ Die
    /\ Steps("daemon", <<>>)
    /\ UNCHANGED <<requests, waits, results, items, ingressVars>>

\* The runs are recovered one after the other before a connection is accepted.
Recovery(r) == <<Event(r, NextStore(r)), Event(r, NextStore(r)), Step("park", 0, r)>>

DaemonStarts ==
    /\ Restart
    /\ \E order \in SetToSeqs(Orphans) :
         Steps("daemon", [n \in 1..3 * Len(order) |->
                            Recovery(order[(n + 2) \div 3])[((n + 2) % 3) + 1]])
    /\ UNCHANGED <<requests, waits, results, items, ingressVars, left>>

\* The A2A server ends with its request threads, and its limiter with it.
IngressDies ==
    /\ Comes("death") /\ \E h \in Handlers : handler[h] # AtRest
    /\ todo' = [p \in Callers |-> IF p = "daemon" THEN todo[p] ELSE <<>>]
    /\ handler' = [h \in Handlers |-> AtRest]
    /\ bucket' = [c \in Clients |-> <<>>] /\ passed' = [c \in Clients |-> <<>>]
    /\ swept' = 0 /\ entered' = 0 /\ late' = FALSE
    /\ UNCHANGED <<now, audited, unaudited, sessionVars, requests, waits, results, items>>

Next ==
    \/ \E r \in Runs, b \in BOOLEAN : RegisterRun(r, b) \/ AckReview(r, b)
    \/ \E r \in Runs : Resume(r) \/ Escalate(r) \/ AskClarification(r) \/ Work(r) \/ Answers(r)
    \/ LaunchRun \/ SaveFinal \/ ReapRuns \/ WriteEvent \/ WriteNote \/ SkipLine \/ Append1
    \/ ParkOrphan \/ Lands
    \/ \E g \in Guests : GuestWorks(g) \/ \E r \in Runs : GuestComes(g, r)
    \/ \E r \in Runs \cup {NoRun}, s \in 1..Len(sessions), p \in Policies : CreateTask(r, s, p)
    \/ \E i \in Requests, k \in Keys \cup {NoKey} : IngestResult(i, k)
    \/ \E j \in 1..Len(items) : AckItem(j)
    \/ \E h \in Handlers : Post(h) \/ Handle(h)
    \/ ClockTicks
    \/ DaemonDies \/ DaemonStarts \/ IngressDies

Spec == Init /\ [][Next]_vars
===============================================================================
