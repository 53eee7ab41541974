------------------------------ MODULE RunSessions ------------------------------
(***************************************************************************)
(* The runs of one daemon, the logical session each belongs to and the     *)
(* session log of each run.  A run's log is appended to through StateStore *)
(* objects, each with a counter of its own, and through                    *)
(* append_timeline_event, which has none and reads the last line; a number *)
(* is drawn under a lock and its line is written after it, so the server   *)
(* thread, a run's worker and an operator job may write in another order   *)
(* than they drew.  So may other processes, the guests: a foreground run,  *)
(* the recovery of a second daemon, an operator whose worktree has none.   *)
(***************************************************************************)
EXTENDS TopStates, Naturals, Sequences, FiniteSets

CONSTANTS
    Runs,     \* all of one workspace and spec
    Guests,   \* processes other than the daemon
    MaxLines  \* bound on the lines of a log, for model checking

ASSUME RunSessionsAssumption ==
    IsFiniteSet(Runs) /\ MaxLines \in Nat /\ Guests \cap {"worker", "server", "job"} = {}

VARIABLES
    sessions,  \* sessions.jsonl, folded: the status of each session, in order
    run,       \* of each run: registry entry, saved state and stores in use
    stores,    \* of each run: every StateStore opened on it
    log,       \* of each run: the lines of its session log
    writing,   \* the numbers drawn whose line is not written yet
    guest,     \* of each guest: as what it works on which run
    up, life   \* the daemon is running; how often it was started

sessionVars == <<sessions, run, stores, log, writing, guest, up, life>>

NoRun == "none"
NoStore == 0    \* the session log is written without a store
DaemonThreads == {"worker", "server", "job"}
Writers == DaemonThreads \cup Guests

\* where: "nowhere"; "live" and "ended", in the registry with its thread alive or
\* not; "left", only on disk.  mode: controller_mode.
Unborn == [where |-> "nowhere", top |-> "READY", mode |-> "daemon", session |-> 0,
           entry |-> NoStore, cached |-> NoStore, job |-> 0, jobStore |-> NoStore]

\* due: the events a guest that is no run has still to write.
Away == [as |-> "nobody", run |-> NoRun, store |-> NoStore, due |-> 0]

SessionsInit ==
    /\ run = [r \in Runs |-> Unborn]
    /\ stores = [r \in Runs |-> <<>>] /\ log = [r \in Runs |-> <<>>]
    /\ writing = {} /\ guest = [g \in Guests |-> Away]
    /\ up = TRUE /\ life = 1

Registered == {r \in Runs : run[r].where \in {"live", "ended"}}
OnDisk(r) == run[r].where # "nowhere"
LastSeq(r) == IF log[r] = <<>> THEN 0 ELSE log[r][Len(log[r])].seq

\* Mutant: a store opened on an existing log counts from zero.
Aligned_Zero(r) == 0

\* The counter of a store that has read the log: load_or_init, _recover_orphaned_runs
\* and _find_store_for_run all set it so.
Aligned(r) == LastSeq(r)

\* seen: so many lines were in the log it was last aligned with.  reread: load_or_init
\* was called on it a second time.  Both are history.
Opened(r) == Append(stores[r], [count |-> Aligned(r), seen |-> Len(log[r]), reread |-> FALSE])
NextStore(r) == Len(stores[r]) + 1

-------------------------------------------------------------------------------
(* Session log *)

Busy(by, r) == \E w \in writing : w.by = by /\ w.run = r
ServerWrites == \E w \in writing : w.by = "server"
Room(r) == Len(log[r]) + Cardinality({w \in writing : w.run = r}) < MaxLines

\* The threads of the same process.
Beside(by) == IF by \in Guests THEN {by} ELSE DaemonThreads

\* append_session_event up to the lock's release, on store s of given stores;
\* append_timeline_event, which keeps its process's lock until the line is written, on
\* none.  read, which is history: the lines of the log the writer knows of.
Draw(by, r, s, ss) ==
    LET n == IF s = NoStore THEN LastSeq(r) + 1 ELSE ss[s].count + 1 IN
    LET k == IF s = NoStore THEN Len(log[r]) ELSE ss[s].seen IN
    /\ s = NoStore => \A w \in writing : w.by \in Beside(by) => w.store # NoStore
    /\ writing' = writing \cup
                    {[by |-> by, run |-> r, store |-> s, seq |-> n, read |-> k]}
    /\ stores' = [stores EXCEPT ![r] = IF s = NoStore THEN ss ELSE [ss EXCEPT ![s].count = n]]

\* The line is appended.
Land(w) ==
    /\ writing' = writing \ {w}
    /\ log' = [log EXCEPT ![w.run] =
                  Append(@, [seq |-> w.seq, store |-> w.store, read |-> w.read])]
    /\ UNCHANGED <<sessions, run, stores, guest, up, life>>

WorkerWrites(r) ==
    /\ run[r].where = "live" /\ ~Busy("worker", r) /\ Room(r)
    /\ Draw("worker", r, run[r].entry, stores[r])
    /\ UNCHANGED <<sessions, run, log, guest, up, life>>

\* run_sidecar returns, with the run paused or finished.
WorkerEnds(r, top) ==
    /\ run[r].where = "live" /\ ~Busy("worker", r)
    /\ run' = [run EXCEPT ![r].where = "ended", ![r].top = top]
    /\ UNCHANGED <<sessions, stores, log, writing, guest, up, life>>

\* The thread of a run saves what it has in memory, whoever saved the run meanwhile.
ThreadSaves(r, mode) ==
    /\ run[r].top # "RUNNING" \/ run[r].mode # mode
    /\ run' = [run EXCEPT ![r].top = "RUNNING", ![r].mode = mode]
    /\ UNCHANGED <<sessions, stores, log, writing, guest, up, life>>

WorkerSaves(r) == run[r].where = "live" /\ ThreadSaves(r, "daemon")

\* _write_event of a clarification job: it keeps the store it found when it was asked.
JobWrites(r) ==
    /\ run[r].job > 0 /\ ~Busy("job", r) /\ Room(r)
    /\ Draw("job", r, run[r].jobStore, stores[r])
    /\ run' = [run EXCEPT ![r].job = @ - 1]
    /\ UNCHANGED <<sessions, log, guest, up, life>>

-------------------------------------------------------------------------------
(* What the server thread does to runs; Plane says when *)

Open == {i \in 1..Len(sessions) : sessions[i] = "active"}

\* load_or_init of a new run: the oldest open session is adopted, else one is created.
Adopted == IF Open # {} THEN CHOOSE i \in Open : \A j \in Open : i <= j
           ELSE Len(sessions) + 1

NewRunAt(r, v) ==
    /\ ~OnDisk(r)
    /\ sessions' = IF Open # {} THEN sessions ELSE Append(sessions, "active")
    /\ stores' = [stores EXCEPT ![r] = Opened(r)]
    /\ run' = [run EXCEPT ![r] = v]
    /\ UNCHANGED <<log, writing, up, life>>

\* _do_register.  A run whose pane is taken is refused after its state was saved.
Register(r, started) ==
    /\ NewRunAt(r, [Unborn EXCEPT !.where = IF started THEN "live" ELSE "left",
                                  !.top = IF started THEN "RUNNING" ELSE "READY",
                                  !.session = Adopted,
                                  !.entry = IF started THEN NextStore(r) ELSE NoStore])
    /\ UNCHANGED guest

\* _do_resume after its events: the state is saved and the thread started.
Launch(r, s) ==
    /\ run' = [run EXCEPT ![r].where = "live", ![r].top = "RUNNING", ![r].entry = s,
                          ![r].mode = "daemon"]
    /\ UNCHANGED <<sessions, stores, log, writing, guest, up, life>>

\* The state is saved with another top state.
SaveTop(r, top) ==
    /\ run' = [run EXCEPT ![r].top = top]
    /\ UNCHANGED <<sessions, stores, log, writing, guest, up, life>>

OpenStore(r) ==
    /\ stores' = [stores EXCEPT ![r] = Opened(r)]
    /\ UNCHANGED <<sessions, run, log, writing, guest, up, life>>

\* load_or_init of the acknowledgement: on a store of its own, or again on the entry's.
\* The run is saved as the daemon's.
LoadAgain(r) ==
    /\ stores' = [stores EXCEPT ![r] =
                     IF run[r].where = "left" THEN Opened(r)
                     ELSE [@ EXCEPT ![run[r].entry] =
                             [count |-> Aligned(r), seen |-> Len(log[r]), reread |-> TRUE]]]
    /\ run' = [run EXCEPT ![r].mode = "daemon"]
    /\ UNCHANGED <<sessions, log, writing, guest, up, life>>

\* Mutant: the other runs of the session are not looked at.
Closable_Alone(gone) ==
    {run[r].session : r \in {q \in gone : run[q].top \in FinalStates}}

\* _maybe_close_session_for each of the runs just taken out of the registry.
Closable(gone) ==
    {run[r].session : r \in {q \in gone : run[q].top \in FinalStates}}
        \ {run[r].session : r \in Registered \ gone}

\* _reap_finished.  Looking for a session to close opens, and caches, a store of
\* every reaped run, closed or not.
Reap ==
    LET gone == {r \in Registered : run[r].where = "ended"} IN
    LET caches == {r \in gone : run[r].cached = NoStore} IN
    /\ gone # {}
    /\ run' = [r \in Runs |->
                 IF r \notin gone THEN run[r]
                 ELSE [run[r] EXCEPT !.where = "left", !.entry = NoStore,
                         !.cached = IF r \in caches THEN NextStore(r) ELSE @]]
    /\ stores' = [r \in Runs |-> IF r \in caches THEN Opened(r) ELSE stores[r]]
    /\ sessions' = [i \in 1..Len(sessions) |->
                      IF i \in Closable(gone) THEN "closed" ELSE sessions[i]]
    /\ UNCHANGED <<log, writing, guest, up, life>>

\* _append_run_session_event: through the entry's store, the cached one, or one
\* opened and cached now.
ServerNotes(r) ==
    LET opens == run[r].where = "left" /\ run[r].cached = NoStore IN
    LET s == IF opens THEN NextStore(r)
             ELSE IF run[r].where = "left" THEN run[r].cached ELSE run[r].entry IN
    /\ OnDisk(r)
    /\ Draw("server", r, s, IF opens THEN Opened(r) ELSE stores[r])
    /\ run' = [run EXCEPT ![r].cached = IF opens THEN s ELSE @]
    /\ UNCHANGED <<sessions, log, guest, up, life>>

ServerWrites1(r, s) ==
    /\ Draw("server", r, s, stores[r])
    /\ UNCHANGED <<sessions, run, log, guest, up, life>>

\* _do_request_clarification: a job of two events.
Clarify(r) ==
    /\ OnDisk(r) /\ run[r].job = 0
    /\ run' = [run EXCEPT ![r].job = 2, ![r].jobStore = run[r].entry]
    /\ UNCHANGED <<sessions, stores, log, writing, guest, up, life>>

\* The daemon dies: what is on disk stays.
Die ==
    /\ up /\ up' = FALSE /\ writing' = {w \in writing : w.by \in Guests}
    /\ run' = [r \in Runs |->
                 [run[r] EXCEPT !.where = IF r \in Registered THEN "left" ELSE @,
                    !.entry = NoStore, !.cached = NoStore, !.job = 0, !.jobStore = NoStore]]
    /\ UNCHANGED <<sessions, stores, log, guest, life>>

\* _recover_orphaned_runs opens a store on every run it is going to park.
Orphans == {r \in Runs : OnDisk(r) /\ run[r].top \in Orphaned /\ run[r].mode = "daemon"}

Restart ==
    /\ ~up /\ up' = TRUE /\ life' = life + 1
    /\ stores' = [r \in Runs |-> IF r \in Orphans THEN Opened(r) ELSE stores[r]]
    /\ UNCHANGED <<sessions, run, log, writing, guest>>

-------------------------------------------------------------------------------
(* Guests *)

Comes1(g, as, r, s, due) ==
    /\ guest[g] = Away
    /\ guest' = [guest EXCEPT ![g] = [as |-> as, run |-> r, store |-> s, due |-> due]]

\* run_foreground.
StartsForeground(g, r) ==
    /\ Comes1(g, "foreground", r, NextStore(r), 0)
    /\ NewRunAt(r, [Unborn EXCEPT !.where = "left", !.top = "RUNNING",
                                  !.mode = "foreground", !.session = Adopted])

\* A second daemon starts, whose _recover_orphaned_runs takes a run for an orphan that
\* the first may well have; it is going to write two events.
StartsRecovery(g, r) ==
    /\ r \in Orphans
    /\ Comes1(g, "recovery", r, NextStore(r), 2)
    /\ stores' = [stores EXCEPT ![r] = Opened(r)]
    /\ UNCHANGED <<sessions, run, log, writing, up, life>>

\* submit_clarification where no daemon can be asked: a job of two events, without a store.
StartsJob(g, r) ==
    /\ OnDisk(r)
    /\ Comes1(g, "job", r, NoStore, 2)
    /\ UNCHANGED <<sessions, run, stores, log, writing, up, life>>

GuestWrites(g) ==
    LET r == guest[g].run IN
    /\ guest[g].as = "foreground" \/ guest[g].due > 0
    /\ ~Busy(g, r) /\ Room(r)
    /\ Draw(g, r, guest[g].store, stores[r])
    /\ guest' = [guest EXCEPT ![g].due = IF @ = 0 THEN 0 ELSE @ - 1]
    /\ UNCHANGED <<sessions, run, log, up, life>>

GuestSaves(g) == guest[g].as = "foreground" /\ ThreadSaves(guest[g].run, "foreground")

\* The guest has done what it came for; the run it leaves is saved as it has it, and its
\* mode as it read it.
GuestLeaves(g, top) ==
    LET r == guest[g].run IN
    /\ guest[g].as # "nobody" /\ ~Busy(g, r)
    /\ guest[g].due = 0 \/ ~Room(r)
    /\ CASE guest[g].as = "foreground" ->
              /\ top \in {"PAUSED_FOR_HUMAN", "COMPLETED"}
              /\ run' = [run EXCEPT ![r].top = top, ![r].mode = "foreground"]
         [] guest[g].as = "recovery" ->
              /\ top = "PAUSED_FOR_HUMAN"
              /\ run' = [run EXCEPT ![r].top = top, ![r].mode = "daemon"]
         [] OTHER -> top = run[r].top /\ UNCHANGED run
    /\ guest' = [guest EXCEPT ![g] = Away]
    /\ UNCHANGED <<sessions, stores, log, writing, up, life>>

\* Its process dies.
GuestDies(g) ==
    /\ guest[g].as # "nobody"
    /\ guest' = [guest EXCEPT ![g] = Away]
    /\ writing' = {w \in writing : w.by # g}
    /\ UNCHANGED <<sessions, run, stores, log, up, life>>
===============================================================================
