------------------------------- MODULE PlaneProps -------------------------------
(***************************************************************************)
(* What session logs, sessions, tasks and posts promise.                   *)
(***************************************************************************)
EXTENDS Plane

StepSet ==
    [do : {"wait", "result", "settle", "complete", "item", "wake", "event", "note", "launch",
           "final", "park"}, n : Nat, run : Runs \cup {NoRun, NoWake}]

\* The type of every variable: state.json, sessions.jsonl, session_log.jsonl, the
\* three event-plane files, the limiter's buckets.
TypeOK ==
    /\ sessions \in Seq({"active", "closed"})
    /\ \A r \in Runs :
         /\ run[r].where \in {"nowhere", "live", "ended", "left"}
         /\ run[r].top \in TopState /\ run[r].session \in 0..Len(sessions)
         /\ run[r].mode \in {"daemon", "foreground"}
         /\ {run[r].entry, run[r].cached, run[r].jobStore} \subseteq 0..Len(stores[r])
         /\ run[r].job \in 0..2
         /\ Len(log[r]) <= MaxLines
         /\ \A i \in 1..Len(stores[r]) : stores[r][i].seen \in 0..Len(log[r])
    /\ \A w \in writing : w.by \in Writers /\ w.run \in Runs /\ w.seq \in Nat \ {0}
                          /\ w.store \in 0..Len(stores[w.run])
    /\ \A g \in Guests :
         \/ guest[g] = Away
         \/ /\ guest[g].run \in Runs /\ guest[g].as \in {"foreground", "recovery", "job"}
            /\ guest[g].store \in 0..Len(stores[guest[g].run]) /\ guest[g].due \in 0..2
    /\ \A i \in Requests :
         /\ requests[i].session \in 1..Len(sessions) /\ requests[i].policy \in Policies
         /\ requests[i].status \in {"pending", "completed"}
         /\ waits[i] \in {"none", "waiting", "satisfied"}
    /\ \A x \in results : x.req \in Requests /\ x.item \in 1..Len(items)
    /\ \A j \in 1..Len(items) : items[j].req \in Requests
    /\ \A p \in Callers : todo[p] \in Seq(StepSet)
    /\ now \in 0..MaxTime /\ left \in [Kinds -> Nat]
    /\ \A c \in Clients : Len(bucket[c]) <= Limit

Repeated(r, a, b) ==
    /\ {a, b} \subseteq 1..Len(log[r])
    /\ a < b /\ log[r][a].seq = log[r][b].seq

OutOfOrder(r) == \E a, b \in 1..Len(log[r]) : a < b /\ log[r][a].seq > log[r][b].seq

\* The store the daemon keeps of a run that left the registry does not give an event a
\* number "written while the run was live", be it live once more (_find_store_for_run).
NoteDoesNotCollide ==
    \A r \in Runs : \A a, b \in 1..Len(log[r]) :
        Repeated(r, a, b) /\ run[r].cached # NoStore =>
            ~(log[r][b].store = run[r].cached /\ log[r][a].store > run[r].cached)

\* Nobody gives a number again that he has read, and no store one it gave before: where a
\* log in order repeats one, the first of the two lines was written after the second
\* writer had last looked at the log, and they have two writers or one whose counter was
\* set back.  That is so of every writer there is: the daemon's threads with the stores
\* of entries, calls and _reaped_stores, one daemon after another, a foreground run
\* (app.py), a second daemon that starts (_recover_orphaned_runs), an operator
\* (append_timeline_event).
RepeatNotRead ==
    \A r \in Runs : \A a, b \in 1..Len(log[r]) :
        Repeated(r, a, b) =>
            \/ OutOfOrder(r)
            \/ /\ a > log[r][b].read
               /\ log[r][a].store = log[r][b].store /\ log[r][a].store # NoStore =>
                    stores[r][log[r][a].store].reread

\* A run of the daemon works in an open session unless it was resumed: its session is not
\* closed by another run of it that finishes, and the next run of the spec is not given
\* a closed one (_maybe_close_session_for, _resolve_session_id).
FreshRunHasOpenSession ==
    \A r \in Registered : run[r].entry = 1 => sessions[run[r].session] = "active"

\* A completed request has its result on disk and nobody waiting for it, wherever
\* the daemon was killed (ingest_result appends in this order).
CompletedIsSettled ==
    \A i \in Requests : requests[i].status = "completed" =>
        waits[i] # "waiting" /\ \E x \in results : x.req = i

\* A provider that retries with its key gets one mailbox item, and at most one more
\* for every time the daemon died (ingest_result's deduplication).
ItemOncePerKey ==
    \A i \in Requests, k \in Keys :
        Cardinality({j \in 1..Len(items) : items[j].req = i /\ items[j].key = k}) <= life

\* A task reported completed comes with an artifact, though its status and its
\* results are read one after the other (handle_tasks_get).
CompletedHasArtifact ==
    \A h \in Handlers : handler[h].at = "status" /\ handler[h].state = "completed" =>
        Artifacts(h) # {}

\* No client is admitted more often in a window than the limit says, however threads
\* interleave, unless one read the clock before another and entered after it
\* (RateLimiter.check).
LimitKept ==
    \A c \in Clients : late \/ \A i \in 1..Len(passed[c]) :
        Cardinality({k \in 1..i : passed[c][k] >= passed[c][i] - Window}) <= Limit

\* An A2A post leaves an item in a mailbox only after the guard accepted it and wrote, or
\* tried to write, its audit line; and the text of its message stands there without a
\* secret and without what the scan rejects (do_POST runs the guard before the method;
\* handle_tasks_send is given the normalized text).  Nothing is said of ref: the guard
\* does not see target_ref and task_kind, which are kept as they came.
InboundVetted ==
    LET Posted == {j \in 1..Len(items) : items[j].by = "a2a"} IN
    /\ Cardinality(Posted) <= audited + unaudited
    /\ \A j \in Posted : items[j].text \in {"plain", "redacted"}

Settles(j) ==
    /\ requests[items[j].req].status = "completed" /\ waits[items[j].req] # "waiting"
    /\ items[j].wake # Undecided

\* When the daemon takes its next call, every result it took in since it started has
\* completed its request, ended its wait and got a wake decision
\* (_do_external_result_ingest).
ResultTakesEffect ==
    Serving => \A j \in 1..Len(items) :
        items[j].by = "daemon" /\ items[j].life = life => Settles(j)
===============================================================================
