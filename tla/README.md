# A TLA+ model of thin-supervisor

thin-supervisor watches a coding agent (the *worker*), reads the *checkpoints* it prints,
decides after each whether the worker may go on, must prove its step, must try again or
needs a human, and gives it the next instruction. Around that loop stand a daemon that owns
the runs, a lock per terminal pane, a hand-off to the agent's Stop hook, an event plane for
tasks of other systems, and the surfaces an operator uses. This project models what decides,
remembers and hands over in all of them, model-checks small instances and proves the
properties that matter most for every instance.

Paths below are relative to `src/supervisor/` unless they begin with `docs/` or `tests/`.

## 1. Inventory

| Component | State it keeps | Operations | Talks to |
|---|---|---|---|
| **run record** (`domain/`) | `SupervisorState`: top state, node, counters, done nodes, verification, reviews | `transition_top_state` | everything |
| **gates** (`gates/`, `protocol/normalizer.py`, `llm/judge_client.py`) | none | normalize, classify, detect contradictions, decide; finish gate | called by the loop and by `_do_ack_review` |
| **sidecar loop** (`loop.py`, `interventions.py`) | the `SupervisorState` in memory; delivery deadline, deferred CONTINUE, outage counters | boot, poll, accept a batch of checkpoints, gate, verify, inject, recover, intervene | surfaces, gates, store; `stop_event` |
| **daemon lifecycle** (`daemon/server.py`) | `_runs`, one thread and `stop_event` each; the socket | start, register, stop, reap, resume, ack_review, shutdown, orphan recovery | store, loop, pane locks |
| **state store** (`storage/state_store.py`, `event_log.py`) | `state.json`, `session_log.jsonl` and a counter per store object | `load_or_init`, `save`, append | files |
| **checkpoint intake** (`adapters/transcript_adapter.py`, head of the loop's batch) | last sequence number and content | parse, filter, tell new from old | what the surface shows |
| **terminal surface** (`terminal/adapter.py`) | read guard, last delivery state | read, look whether the pane is ready, type, confirm | tmux |
| **open-relay surface** (`adapters/open_relay_surface.py`) | the last capture | read, send | `oly` |
| **stop-hook hand-off** (`hook.py`, `adapters/jsonl_observer.py`) | instruction file, acknowledgement file; offset and buffer | write, deliver, acknowledge, poll | the agent's Stop hook, a process of its own |
| **pane locks** (`global_registry.py`) | one lock file per pane, shared by all processes | acquire, release, find the owner | files, process ids |
| **event plane** (`event_plane/`) | append-only requests, waits, mailbox items, results | register, ingest, acknowledge, wake decision | daemon, A2A server |
| **sessions** (`event_plane/store.py`, `daemon/server.py`) | `sessions.jsonl` | adopt or create at register, close at reap | daemon, event plane |
| **boundary guard and A2A server** (`boundary/`, `adapters/a2a/`) | rate buckets, audit file | auth, rate limit, scan, redact, audit; tasks/send, tasks/get | providers; event plane |
| **operator jobs** (`operator/jobs.py`) | table of jobs, a bounded list of finished ones | submit, finish, evict, poll | console, channels, daemon |
| **operator views** (`operator/session_index.py`, `run_context.py`, `actions.py`, `tui.py`) | rows of the last scan, selection, pending job, escalation offer | scan, tag, capabilities, pause, resume, ask, escalate | daemon client, files |
| **operator channels** (`operator/channel_host.py`, `command_dispatch.py`, `adapters/telegram_command.py`, `adapters/lark_command.py`) | host lock, Telegram offset, Lark's set of event ids, jobs followed | receive, dispatch, answer | chats, jobs, views |
| **command line and client** (`app.py`, `daemon/client.py`, `bootstrap.py`) | none | start a daemon when none answers, `run foreground`, `hook` | daemon, locks |

`PROJECT.json` lists these, and the parts without state of a run's control (plan loader,
runtime recovery, verifiers, instructions and oracle, evaluation), with sources and status.

**How they interact.** The daemon's IPC loop is one thread that serves one request at a time
and reaps between requests. Each run has its own thread, which works on its own copy of the
run's state and writes `state.json` at certain points only; daemon operations read
`state.json`, and refuse a run whose thread is alive. So the two never write that file at
once, but at any moment memory and disk differ, and a crash makes the disk the truth. The
session log is another matter: thread, server, operator jobs, a foreground run and the
recovery of a second daemon all append to it, through counters of their own. Other processes
(a second daemon, `run foreground`, the A2A server, the Stop hook, a console, a channel
host) share only files with the daemon, and a client that gets no answer in five seconds
takes a busy daemon for a dead one.

**What is hard.**
 * *Memory against disk.* COMPLETED is set and announced before the save at the end of the
   batch (`loop.py:573`); an instruction is marked as injected before it is (`1375`); an
   exception saves whatever the state is (`890`).
 * *Batches.* One text may hold many checkpoints. Those after the one that paused or
   finished the run are still handled, up to the fifth mismatch or a node already done on a
   read-only surface, for which a transition is asked that raises (`loop.py:1204`, `1233`).
 * *Old and new.* A surface shows again what was handled; numbers, contents, windows and
   rotations are all the loop has to tell the two apart, and the worker may number anew.
 * *Delivery in two steps.* Typing and Enter, the acknowledgement and the print of the
   hook, marking and injecting: a person, a kill or a busy pane may come between.
 * *Two ways out of a pause.* An auto-intervention and an operator's resume make a paused
   run go on, through different code with different resets.
 * *The attach boundary.* Until execution evidence is seen the run is ATTACHED, and that
   must survive pauses, recoveries, resumes and restarts.
 * *Lock files.* Four system calls make one acquisition, and dead owners' files are removed
   on the way; daemons may be started twice and close slowly.
 * *Appends without a transaction.* One result is four records in two files, each with the
   risk of a death before it and of another writer beside it.
 * *Stale rows.* An operator acts on a row drawn seconds ago, through capabilities looked up
   by a tag computed elsewhere.
 * *At least once and at most once.* Telegram's offset, Lark's repeated posts, evicted jobs.
 * *Deadlines.* A delivery, an idle window, an outage and a stop request race each other
   and late checkpoints.

`PROJECT.json` "hazards" lists these at their lines, those that no property covers included.

**What makes each part correct.** A run completes only when it has earned it; a linear plan
is worked off in order; the retry budget binds; the worker's word is never taken for a step;
what the gate put before a human stays there; a stop is honoured; silence is escalated;
nothing on disk contradicts what the operator was promised. A checkpoint is handled once;
instructions arrive in order, once, and none disappears unnoticed. One loop controls a pane,
and nobody parks a run that is being worked on. A log number repeats only between writers
that did not know of each other, a completed task has its result, a result takes effect
once, a post is limited and the text of its message vetted. An operator's command runs once,
gets an answer, and is about what the operator saw.

## 2. The modules

| Module | Models |
|---|---|
| `TopStates` | `domain/enums.py`, `domain/state_machine.py`; the sets of top states the loop and the daemon test for |
| `Gates` | checkpoints as the gates see them; `rules.py`, `contradictions.py`, `escalation.py`, `continue_gate.py`, the judge's answers, `SupervisorLoop.gate` |
| `RunState` | `WorkflowSpec`, `SupervisorState` and the pure steps on it; the finish gate |
| `Supervisor` | one run under the daemon: the thread, state.json, registry, crash and restart. Extends the three above |
| `SupervisorProps` | its properties, and the mapping to `RunContract` |
| `RunContract` | what the operator is promised, stated abstractly |
| `Transcript` | what the worker has printed and what each of three surfaces lets the loop see of it; the parser |
| `PaneInput` | the input line of a tmux pane: readiness, typing, Enter, confirmation |
| `StopHook` | instruction file, acknowledgement file and the hook process |
| `Delivery` | the loop between its two ends. Extends the three above |
| `PaneLocks` | the lock file, system call by system call |
| `Daemons` | daemon processes, a foreground run and the socket. Extends `PaneLocks` |
| `RunSessions` | registry, stores, session log and logical sessions of one daemon, and the processes beside it that write to the same logs |
| `EventPlane` | requests, waits, results, mailbox items, wake decisions |
| `Ingress` | the A2A server's request threads and the boundary guard. Extends `EventPlane` |
| `Plane` | the daemon's calls on all of them. Extends `RunSessions` and `Ingress` |
| `OperatorViews` | tags, capabilities, and what pause and resume do |
| `OperatorJobs` | the job tracker. Extends `OperatorViews` |
| `Console` | the terminal console's loop. Extends `OperatorJobs` |
| `Inbound` | channel hosts, Telegram, Lark, the job poller. Extends `OperatorJobs` |
| `Operator` | an operator at one of three surfaces. Extends `Console` and `Inbound` |
| `DeliveryProps`, `DaemonsProps`, `PlaneProps`, `OperatorProps` | the properties of each composition |
| `GateProofs`, `SupervisorProofs`, `RefinementProofs`, `DeliveryProofs`, `DaemonsProofs`, `PlaneProofs`, `SessionProofs`, `OperatorProofs` | the proofs, section 4; `RefinementProofs` extends `SupervisorProofs`, `SessionProofs` extends `PlaneProofs` |
| `MCLinear`, `MCBranch`, `MCObserved`, `MCGates`, `MCDelivery`, `MCDaemons`, `MCPlane`, `MCOperator` | constants for TLC; `MCGates` also a one-step specification that asks the gate |

The five compositions meet at the run's top state, which each keeps at the grain it needs:
all of it in `Supervisor`, five values in `Delivery` and `Daemons`, what the daemon's calls
and the wake policy ask for in `Plane`, what a scan shows in `Operator`.

### The run (`RunState`)

A run is a record of the fields that control depends on; the module's head names each
field's source. Counters are exact except `reinj`, which stops at the first value over
`MaxReInjects`, since nothing tells later values apart. `granted`, `proven`, `held` and
`refused` are history fields no action reads: the first is set by what lets an exhausted run
go on and cleared by the next counted failure, the second by a checkpoint with execution
evidence, the third by an escalation in the gate's own words and cleared by a resume, the
fourth where `transition_top_state` raises (`Refused`). Left out: `delivery_state` (written
and shown, never tested), escalation and branch history, timestamps; sequence numbers, which
are in `Delivery`.

`SpecAssumption` is what `load_spec` accepts, plus that `next` and option targets
name nodes: the loader does not check that, and `get_node` raises at the first use.

### The gates (`Gates`)

A checkpoint is a record of what the gates can tell apart: status, the set of pattern
families its text matches, whether its evidence is administrative only, and the v2
fields. `Gate(top, cp)` is the *set* of decisions possible: a singleton except where the
judge is asked or where words the worker chose decide the class of the pause. The judge is
limited to the four decisions `_sanitize_result` lets through, so FINISH and ABORT, which
`apply_decision` also handles, never come. `is_admin_only_evidence` and the pattern
matches are inputs, not computed: which words match is data.

### The thread (`Supervisor`)

`pc` names what the thread is about to do; between two values of it nothing is observable
by another actor except through `disk`, `stop` and a crash, and every point at which the
code saves, injects, or runs something slow has a `pc` value of its own:

    boot -> poll -> (batch -> decide -> verify)* -> deliver -> poll
                 -> recover -> poll | off            rescue -> poll | batch
    verify | decide -> inject -> deliver             decide | verify -> rescue

An action is a whole handler: `Accept` is `handle_event` with the resets before it,
`VerifyPasses` is `apply_verification` with the finish gate and the choice of the next node.
An exception may come at any of these points (`LoopError`), between the move to a node and
its injection included: the run is saved as it is and the thread ends. A pause for a
decision goes to `rescue`, where `_attempt_auto_intervention` looks for a recipe by the
words of the reason: one the gate words itself has none (`PauseForGood`), one that quotes
the worker, the judge or the spec may have one (`PauseQuoting`), and the exhausted budget
has one. `Mismatch` and `StaleObservation` ask for their transition without a test, as the
code does; where the table refuses it, the thread ends by the exception. `run` is the
thread's copy, `disk` the file; an action that saves says `Save`. A crash (`DaemonCrash`)
sets `run` to `disk`, and the next `DaemonStart` is `_recover_orphaned_runs`.

Abstractions: time is absent, so a deadline may pass whenever it is set and an idle
window at any poll; a verifier, a delivery, a hand-off, an intervention's injection and
the look at the repository (`Extras`) may go either way; the text read is any sequence
of checkpoints from `Reports`; which of them are duplicates is `Delivery`'s subject. A
graceful shutdown is a `Stop` of the run followed, if its thread does not end in time, by a
crash. `FailureBound` stops the model, not the code, from counting failures for ever.

### Intake and delivery (`Transcript`, `PaneInput`, `StopHook`, `Delivery`)

`written` is everything the worker ever printed; a piece of output is named by its position
in it, and a text is a *set of positions*, read oldest first. So "the same checkpoint
again" is a fact about positions, which the code cannot see, while the code's own tests
(`OldNumber`, `SameAsLast`) look at numbers and contents. `Read` is one of the three
surfaces: a window of the pane read anew each time, the relay's log which returns nothing
when it is unchanged, or the observer's rolling buffer with its offset and its rotation.

`loop` is the thread again, at the grain of delivery: `batch` holds what is left of a text,
and `write`/`wait`, `send`, `window`/`type`/`confirm` are the three ways out. The gate is
reduced to "a step reported done is verified"; its other answers do not touch a surface
otherwise than by the same delivery. `composer` is the pane's input line; Enter may be
swallowed, a person may type in between (`raced` records it), a call of tmux may raise, the
tail may look stuck though it is not. It is assumed that text which does stand in the input
line looks stuck: the code searches the last twelve lines that are not blank, and
`SubmittedReached` and `NotMixed` rest on the input line being among them. The hook is a
process of two steps with a kill after each. `told`, `accepted`, `epoch`, `replayed`,
`givenUp` and `killed` are history.

### Who controls the pane (`PaneLocks`, `Daemons`)

`op[p]` is where process `p` stands between reading the lock, unlinking it, creating it and
writing its record. `lock.by` is the creator, `lock.run` what has been written. `contended`
is history: two processes were between their system calls at once. A daemon is started
whenever none answers, which a busy one does not; `UnlinkSocket`, `Bind`, `Recover` and
`Leave` are the steps by which two of them meet. A loop is reduced to "works" and
"ends"; `disk` has its top state and the controller mode that orphan recovery reads.

### Runs, logs and tasks (`RunSessions`, `EventPlane`, `Ingress`, `Plane`)

Every file is append-only and folded on reading; the model keeps the fold, except for the
session log, whose lines are the subject. A daemon's call is a list of appends still to
make (`todo["daemon"]`), so that the daemon, a worker, a job and the A2A threads interleave
between any two of them, and `DaemonDies` leaves the rest unwritten. A store is its counter:
`Draw` takes a number, `Land` writes its line, and several stores of one log may be open.
A *guest* is a process beside the daemon: a foreground run with its own store
(`app.py:340`), the start-up recovery of a second daemon, which takes a live run for an orphan
(`server.py:231`), or an operator whose worktree has no daemon and who writes without a store
(`operator/api.py:133`). It writes, saves the run as it has it, leaves or dies at any time
among the daemon's own steps. An append fails only with its process: one that raises while
the process lives on (a full disk) is not modelled, but for the audit line, whose failure
the code swallows.
In `Ingress` a request thread reads the clock on arrival and enters the limiter later;
`bucket` is what the limiter remembers, `passed` the history it is checked against. What a
text contains is one of four kinds: empty, plain, one the redaction changes, one the scan
rejects. `ref` stands for the post's `task_ref` and `task_kind`, which pass the guard unseen
and are stored in the request and in the item.

### The operator (`OperatorViews`, `OperatorJobs`, `Console`, `Inbound`, `Operator`)

`run[r]` is top state, pause class, the process that drives it and its stop event; `Row(r)`
is the record a scan makes of it, and everything a key does goes through the row as drawn,
not through the run. `OperatorJobs` has one tracker in the daemon and one in the operator's
process. `TagOf` has the tags of the attach boundary and of a recovery, which come before
the liveness of the run. `Console` has one pending job and one offer to escalate (`hint`).
In `Inbound` a message is a number; `forgot` counts how often what told that it had run was
lost (the process died, or a trim of Lark's ids dropped it), the only excuse for running it
twice.

## 3. Properties and runs

| Run | Instance | Shows |
|---|---|---|
| `core_linear` | linear, N=2, PerNode=GlobalLimit=2, MaxReInjects=0, MaxAuto=1, MaxMismatch=2, review by `stronger_reviewer`, crashes | `TypeOK`, `CompletedEarned`, `OrderedProgress`, `BudgetRespected`, `EscalationStands`, `LegalMoves`, `KeepsContract` |
| `core_branch` | step, decision (back or on), step; PerNode=1, MaxMismatch=1, FailureBound=1, one outage retry, no crashes | `CompletedEarned`, `KeepsContract`; `StopHonoured`, `SilenceEscalates`, `StoppedRunEndsThread` under fairness |
| `observed` | read-only surface with hook delivery, no crashes, MaxReInjects=1 | `AttachBoundaryKept`, `StopHonoured` |
| `gates` | every checkpoint of `Checkpoint`, both gated states | `DecisionTyped`, `AttachNeedsExecution`, `DoneIsNotContinued`; exhaustive |
| `delivery` | three surfaces; Window=BufferCap=2, GapReset=3, N=2, 3 pieces printed, 2 instructions, MaxMismatch=2, MaxAuto=1, MaxDefers=2, one resume, a worker that counts on or starts over | `TypeOK`, `ReplayNeedsRestart`, `ToldInOrder`, `LostOnlyGivenUp`, `SubmittedReached`, `NotMixed` |
| `daemons` | 2 daemons, a foreground process, a viewer, 2 runs, MaxRequests=2; symmetric in daemons and in runs | `TypeOK`, `ExclusiveUnlessRaced`, `LockHasHolder`, `ForegroundNotParked` |
| `plane` | 2 runs, 2 request threads (both symmetric), 1 guest, 1 client, 1 key, 2 policies, MaxLines=4, Limit=Window=1, MaxTime=3, ten `Loads` | `TypeOK`, `RepeatNotRead`, `FreshRunHasOpenSession`, `CompletedIsSettled`, `ItemOncePerKey`, `CompletedHasArtifact`, `LimitKept`, `InboundVetted`, `ResultTakesEffect` |
| `operator` | 2 runs, one of them over; 2 jobs, 2 hosts, 2 messages, one a button; MaxCompleted=1, MaxCopies=2, SeenMax=1 | `TypeOK`, `HandledOnce`, `EscalatesLastAsked`; `JobAnswered` under fairness |
| `gating_stuck`, `pane_race`, `seq_collision`, `resume_refused` | the instances of `core_linear`, `daemons`, `plane`, `operator` | each a disagreement of the code with its documents, section 5 |

Distinct states: `core_linear` 1,237,208; `core_branch` 249,998; `observed` 30,686; `gates`
39,854; `delivery` 3,391,532; `daemons` 1,105,423; `plane` 1,665,577; `operator` 425,849.

What the properties say beyond their names:

 * `KeepsContract` is a refinement: `disk`, seen as open, paused or closed with its accepted
   nodes and reviews, behaves as `RunContract` allows. It says more than the invariants: one
   node at a time reaches the disk, none is lost to a crash, a pause is lifted only through a
   new owner, a closed run stays closed. In `core_branch` no node is required and no review, so
   there the condition on closing is empty and the rest is what the run shows.
 * `CompletedEarned` takes the required nodes as the finish gate computes them: in a workflow
   with branches these are the nodes done and the current one, and the property does not
   say that others should have been asked for.
 * `LegalMoves`: every change of a top state is one `ALLOWED_TRANSITIONS` has, step by step
   and over the several changes of one step; and a change is asked for and refused only for
   a checkpoint handled after the run paused or finished earlier in the same text. Then
   `transition_top_state` raises, and the thread ends. Neither a recovery, nor a resume of
   whatever was saved, nor an acknowledgement or a restart ever does that.
 * `EscalationStands`: what the gate put before a human in words of its own waits for a
   resume, whatever the rest of the text, an auto-intervention, an exception or a crash
   does. It says nothing of a pause whose reason quotes the worker, the judge or the spec:
   `maybe_plan` chooses its recipes by substrings of the reason, so such a pause may be taken
   back, and it says nothing of a class the gate does not read (section 5).
 * `ReplayNeedsRestart`: whatever a surface shows again (after a resume, a rotation, a
   batch given up halfway), a checkpoint is handled a second time only after one that, by
   all the loop can tell, started the numbering over (`StartsOver`: number 0, 1 or
   `GapReset` back). That a worker without numbers is heard twice is thus part of the
   statement, not an exception from it.
 * `LostOnlyGivenUp`: an instruction overwritten in the hand-off file before the worker had
   it was given up by the loop, which paused or stopped, or its hook was killed between
   acknowledging and printing.
 * `ExclusiveUnlessRaced`: two loops control the pane only after two processes were between
   each other's system calls, or a closing daemon released the lock of a thread that had not
   ended. Doubled daemons, crashes and refused requests do not suffice.
 * `RepeatNotRead`: sequence numbers do repeat; the property says between whom. In a log in
   order, the first of the two lines was written after the second writer had last looked at
   the log, and the two have different writers, or one whose counter was set back by a second
   `load_or_init`. So nobody gives out a number he has read, and no store one it gave before,
   with every writer there is: the daemon's stores in one life and over several, a
   foreground run, a second daemon, an operator without one. Once the lines of a log are out
   of order it says nothing, since every reader takes the last line for the highest.
 * `FreshRunHasOpenSession` is about the runs registered with the daemon. It does not look at
   the session of a foreground run, which a run of the daemon in the same session may close.
 * `InboundVetted`: an item of an A2A post is there only after the guard accepted the post and
   wrote its audit line or failed to, and the text of the message stands in it redacted. It
   says nothing of `ref`.
 * `ItemOncePerKey`: a provider's retries make one mailbox item per life of the daemon.
 * `HandledOnce`: a message runs again only as often as the memory of it was lost; what
   Telegram was told to drop was run or, as old text, passed over.
 * `EscalatesLastAsked`: a question counts as asked when its call was answered; one whose call
   timed out does not.
 * `JobAnswered` says that a job is not waited for for ever: an answer that could not be
   shown (a failed edit of a message is ignored), or whose receiver died, counts as given.
 * `ResultTakesEffect` is about results the daemon took in; the items of A2A posts are never
   decided about, though `task_mapper.py:13-14` hopes for it.
 * `AttachBoundaryKept` is run without crashes, for the restart breaks it (section 5).

**Bounds.** Two nodes give a first, a last and an advance between them; the branch
instance has a loop, so a node is done twice. Budgets of one or two reach both limits, and
with `GlobalLimit = PerNode` the two tests are told apart by the reset at an advance.
`FailureBound` is above the limit in `core_linear`, so failures after a resume happen. The
gates need no bound: the space is finite. In `delivery` three pieces fill a window and a
buffer of two and are cut once; a gap of 3 stands for the code's 100 and is reached; two
instructions overwrite each other. Two daemons and a foreground process make three
contenders for one lock file, as many as its four steps tell apart. In `plane` the whole is
too large for one budget, so `Loads` is a set of ten: calls about runs with a line and a
task; deaths and guests among runs; two guests beside one run; deaths among results; tasks
beside a post; posts with and without a death. Four lines of a log hold two stores' numbers
twice. In `operator` only one of the two messages is text, so `SeenMax = 1` is not passed and
Lark's trim of its ids is not reached; with a third message the run has more than five
million states. The trim is part of `Kept`, and `HandledHolds` proves the property with it
for any number of messages. Every property is violated by a mutant of a
mapped definition within these bounds.

**Deadlock** is not checked: in each of these instances the system may come to rest, with
every run over and reaped, every process dead, every bound reached, or the gate's one answer
given.

**Fairness.** `Supervisor` (`FairSpec`): weak fairness of the thread's steps between polls,
which are straight-line code with bounded waits; strong fairness of `EndBatch`, since a text
is finite and its batch ends, and of `Interrupt` and `DeliveryTimeout`, since each round
passes both tests, time runs, and nothing keeps a round from ending. None for the worker,
for operators, or for the start of another daemon. So `SilenceEscalates` holds for a worker
that never prints anything, and also of one that prints checkpoints of the wrong node for
ever. `Operator`: weak fairness of the console's poll (every turn of its loop), of the
poller's answer and of the passing of two minutes, and of the end of a job's thread, whose
calls to a model are bounded. None for the runs, the daemon or the operator: `JobAnswered`
therefore says "if in the end a daemon stays up" itself.

## 4. Proofs

The proof modules prove for **all** values of the constants, that is for every workflow,
budget, surface, number of processes, runs, messages and threads, and for any number of
crashes where the module has them:

| Theorem | Statement |
|---|---|
| `SupervisorProofs!TypesHold` | `Spec => []TypeOK` |
| `SupervisorProofs!CompletionIsEarned` | `Spec => []CompletedEarned` |
| `SupervisorProofs!BudgetIsRespected` | `Spec => []BudgetRespected` |
| `SupervisorProofs!LinearPlanInOrder` | `Spec => []OrderedProgress`, for a linear plan without decision nodes |
| `SupervisorProofs!BoundaryIsKept` | `Spec => []AttachBoundaryKept`, on a read-only surface, for a plan of steps, without crashes |
| `SupervisorProofs!Inductive` | `Spec => [](IInv /\ Alive)`, on which the others rest |
| `RefinementProofs!TransitionsAreLegal` | `Spec => LegalMoves` |
| `RefinementProofs!EscalationsStand` | `Spec => []EscalationStands` |
| `RefinementProofs!ContractIsKept` | `Spec => KeepsContract`: `Supervisor` implements `RunContract` |
| `DeliveryProofs!TypesHold` | `Spec => []TypeOK` |
| `DeliveryProofs!NoReplay` | `Spec => []ReplayNeedsRestart` |
| `DeliveryProofs!OrderHolds` | `Spec => []ToldInOrder` |
| `DeliveryProofs!NothingLost` | `Spec => []LostOnlyGivenUp` |
| `DeliveryProofs!SubmittedHolds`, `NeverMixed` | `Spec => []SubmittedReached`, `Spec => []NotMixed` |
| `DaemonsProofs!TypesHold`, `HolderHolds` | `Spec => []TypeOK`, `Spec => []LockHasHolder` |
| `DaemonsProofs!ExclusiveHolds` | `Spec => []ExclusiveUnlessRaced` |
| `DaemonsProofs!ForegroundHolds` | `Spec => ForegroundNotParked` |
| `PlaneProofs!CompletedHolds` | `Spec => []CompletedIsSettled` |
| `PlaneProofs!VettedHolds`, `ArtifactHolds` | `Spec => []InboundVetted`, `Spec => []CompletedHasArtifact` |
| `PlaneProofs!EffectHolds`, `OneItemHolds` | `Spec => []ResultTakesEffect`, `Spec => []ItemOncePerKey` |
| `SessionProofs!TypesHold` | `Spec => []TypeOK`, of `Plane` |
| `SessionProofs!LimitHolds` | `Spec => []LimitKept` |
| `SessionProofs!FreshHolds`, `RepeatHolds` | `Spec => []FreshRunHasOpenSession`, `Spec => []RepeatNotRead` |
| `GateProofs!TypedHolds` | `Spec => []DecisionTyped` |
| `GateProofs!AttachHolds`, `DoneHolds` | `Spec => []AttachNeedsExecution`, `Spec => []DoneIsNotContinued` |
| `OperatorProofs!TypesHold` | `Spec => []TypeOK`, of `Operator` |
| `OperatorProofs!EscalationHolds` | `Spec => []EscalatesLastAsked` |
| `OperatorProofs!HandledHolds` | `Spec => []HandledOnce` |

Every invariant and every action property of a passing run, and the refinement, is the
statement of one of them.

**Assumptions**, named where the constants are declared and evaluated by TLC in every run:
`SpecAssumption`, `PolicyAssumption`, `SidecarAssumption`; `TranscriptAssumption`,
`HookAssumption`, `DeliveryAssumption`; `PaneLocksAssumption`, `DaemonsAssumption`;
`RunSessionsAssumption`, `EventPlaneAssumption`, `IngressAssumption`, `PlaneAssumption`;
`ViewsAssumption`, `OperatorJobsAssumption`, `InboundAssumption`. They give the constants
their kinds, and keep apart names that the code keeps apart (`RunSessionsAssumption`, for
one, the guests from the daemon's own threads).

### The supervised run

The properties are not inductive: a run about to complete must already have a verdict that
matches its done nodes, and a saved copy is read back after a crash, when the thread's copy
that satisfied the property is gone. `Sound(r)` strengthens them for one record: what its
verdict says of its done nodes, where a linear plan's current node stands among them, what a
full budget implies of `granted`, and that it is not FAILED or ABORTED. The lemmas of
`SupervisorProofs` show of each pure step (pause, recovery, advance, branch, finish, review,
resume) that it keeps a run sound, or what it needs to. `IInv` requires soundness of `run`
and `disk`, and `Placed`, which ties the thread's step to the top state of its copy: it
polls and delivers only a run in action, decides in GATING or ATTACHED, verifies in
VERIFYING, recovers from RECOVERY_NEEDED and rescues from PAUSED_FOR_HUMAN. `Alive` adds
that a thread lives only in a live daemon. There is one `Keeps` lemma per group of actions,
with a step per action. `ThreadOK` and `DaemonOK` are the types of the other variables.

`BoundaryIsKept` needs to know where a run without execution evidence can be: `OnBoundary`
says that it is READY or ATTACHED, or recovering or paused with ATTACHED noted, or over, with
no node done; `BInv` adds that the checkpoint before the gate then has none either, and
`BoundaryGate` that the gate's answers to it are to send it back or to escalate. The theorem
has three hypotheses, each because the statement is false without it: on a pane an
auto-intervention sets the run RUNNING, a decision node moves on without evidence, and a
restart after a crash parks an ATTACHED run without the note (section 5).

For `TransitionsAreLegal`, two facts are added to the invariant. `Started`: the loop never
meets a READY run, from which a recovery would raise. `Settled`: without a thread, and until
it has begun, memory and disk agree, so that what a resume or an acknowledgement makes of
the file is a legal successor of what the thread left. Each action is then shown legal, and
to note nothing of a refusal (`Unasked`) or to be one in a text read on (`RefusedInBatch`).

`EscalationsStand` rests on `HeldStays`: a run the gate put before a human has no thread but
one that reads on, which moves it nowhere (`ReadOnHeld`), and is paused or finished; or, while
the daemon is down after a crash that lost the pause, it is saved in a state that the restart
parks, because past its start a thread has saved the run as attached (`SavedStarted`).

The refinement adds `Ahead`, which bounds what a crash can lose: memory is ahead of the
disk by no review and by at most one accepted node; while it is, the current node is not
accepted anew, for it is done, or a decision, or about to be saved (`Linked`). That holds
because a move to another node is injected, hence saved, unless the worker was told of that
node already, and it was told of none but the current one, one that is done or a decision
(`Told`); and once the disk shows a
pause or an end, the thread only reads on and memory shows the same (`Shown`). Every
step of the thread is then one of three: in memory alone (a stutter), a save of an open
run (`Work`), or reading on (a stutter, and in the end `Leave`). The daemon's map to
`Reopen`, `Park`, `Acknowledge` and `Leave`.

### Intake and delivery

`Typed` is the type of every variable and what a step of the loop implies about it: a batch
names printed checkpoints, an id on its way is the last composed. On it rest four
invariants, each with a lemma per action. `EpochOK`: nothing accepted since the numbering
started over has a number above the last one, so what is seen again is old by its number.
`HookOrder` orders what was told, the acknowledgement, what the hook holds and what is in
the file; `SendOrder` does the same for the pane and the relay with the input line and the
instruction about to be sent. `FateKnown`: an instruction the loop no longer waits for has
reached the worker, is in the hook's hands, or is among those given up or killed. `LineOK`:
unless a person typed meanwhile, the line is empty whenever the loop types, and what
confirmed has left it.

### Who controls the pane

`HIInv` places every process: only a daemon serving a request and a foreground process at
its start are at the lock file, and a file that names a live process names a run it has or
is just taking (`Kept`). `CIInv` shows that as long as nobody contended and nobody lingered
(`Quiet`), what a process read of the file is still so when it acts on it (`Turns`), at most
one process is between its calls (`OneMid`), and a daemon's runs own the file (`Owns`); two
threads in one pane would then both be the one the file names. `FIInv` shows that no daemon
has anything to do with a run of the foreground process, nor sees it as its own on disk,
unless it was asked to resume it.

### Tasks and posts

`Orderly` carries what a call is still going to append: a `complete` ahead in `todo` has the
settling of its wait and the record of its result either done or ahead of it, in this order.
`Orderly2` adds for each request thread what it owes: an audited send is an item or is going
to be one (`Owes`), and texts behind the guard are vetted; the count in `InboundVetted`
follows from `Posted` and `Owed` being disjoint contributions to what the guard accepted
(`Tried`: the audit lines written and those that failed). `Orderly3`
adds, for every item of this life of the daemon, that each of its four effects is there or
ahead, and that within one life a key has one item.

### The gates

There is no invariant to find: `GateAnswers` says from which of the early returns of
`gate()` an answer comes and which conditions have been passed by then, for all answers of
the judge. An answer is a pause; or a re-inject, for a worker that declared nothing; or a
verification of what is claimed to be done; or the continue gate's, for a worker still at
work, past the attach boundary or with evidence of execution. The three theorems are read
off it. TLC asks the same of each checkpoint in turn.

### The rate limiter

`LimitKept` speaks of all admissions, the bucket only of those the limiter remembers.
`InOrder` relates them: as long as threads enter in the order in which they read the clock,
the admissions of a client rise, and its bucket is what is left of them behind a number of
first ones (`Remembers`) that are out of every window which can still be asked about. So an
admission finds all of its window in the bucket (`Within`). The sweep, which drops a bucket
whose last time is stale, forgets past times only. `late` therefore
compares with the newest time *any* thread has entered with (`entered`), of any client and
admitted or not: what a refused thread sweeps or cuts off is forgotten for all.

### Sessions and the session log

`Housed` says what the processes have of a run: the stores they hold exist (`Placed`,
`Hosted`), a run on disk has a session and a store, a daemon that is down holds and writes
nothing (`Quiet`), though its guests may. `Numbered` is about one log, and is shown to survive
each of the things done to it: opening a store, a new run, reading a store again, drawing a
number, writing a line, a death. Its parts: lines and numbers are of stores that exist, and
nobody has read more lines than there are (`Filled`); a store that was never set back gives
each number once, to a line or to one still to be written (`Once1`); and in a log in order
(`Rises`), whoever has read a line numbers above it, be it a store's counter, a number drawn
or a line written (`Above`). `Above` is what carries the writers of other processes and
other lives: it asks nothing of who they are, only of what they had read when they drew, and
a death leaves it as it is. It needs the lines to be in order, since every reader takes the
*last* line of the log for the highest; that is the disjunct `OutOfOrder` of `RepeatNotRead`,
and the reason why the property cannot do without it.

`FreshHolds` is part of `Housed`: `Reap` closes a session only when no run that stays
registered is of it, and a new run is given an open one. A resume takes a run back with its
session as it is, hence the property's restriction to runs never resumed.

For `TypesHold` a call has to be followed from its first step to its last: `Doable` says of
each step in `todo` that the run, store, request or item it names exists, and of a request
thread that it only has steps of its own kind; `Filed` says the same of what is in the
files. Both rest on the files only growing (`FilesStay`), in a death too.

### The operator

`Offers` relates the offer, the pending job and the question asked last. `HandledInv` has
one part per channel: with Telegram, the batch continues what is taken up, and what was
taken up has run (`OneByOne`); with Lark, runs and threads due are accounted for by
remembered and forgotten ids (`ToldApart`).

For the types, `Trackers` says that what a tracker remembers are finished jobs of its own,
each once, and no more than `MaxCompleted`; `_evict_old` drops from the front exactly the
surplus, which `LastOnes` states once. `Receiver` says that one host at most receives and
that nothing in its batch, taken up or confirmed is beyond what was sent.

**Model-checked only.** The liveness properties (`StopHonoured`, `SilenceEscalates`,
`StoppedRunEndsThread`, `JobAnswered`), which rest on fairness and `ENABLED`, out of the
prover's reach. They are the only properties of a passing run without a theorem.

## 5. Where code and documents disagree

Shown by a run each:

1. **`NoWaitInGating`** (`gating_stuck`). `contradictions.py:8-11` says execution
   contradictions re-inject. For a RUNNING run `gate()` decides RE_INJECT, but the loop
   injects only when ATTACHED (`loop.py:1298`). The run waits in GATING with nothing sent and
   no deadline; if it is stopped there, resume refuses it.
2. **`PaneExclusive`** (`pane_race`). `app.py:313` and the plan in `docs/plans/` want the pane
   lock to keep two runs out of one pane. `acquire_pane_lock` creates the file and then
   writes it; between the two `find_pane_owner` of another process takes it for a dead
   owner's and unlinks it, and both go on as owners.
3. **`NoteDoesNotCollide`** (`seq_collision`). `daemon/server.py:1152-1164` caches a store per
   run so that numbers do not collide. A resume or an acknowledgement opens another store on
   the same log, and the cached counter falls behind it.
4. **`PausedIsResumable`** (`resume_refused`). `do_resume` is to resume a paused run. A pause
   with a class is tagged `paused-<class>`, which the capability matrix does not know, so
   every surface refuses it; every pause the current code makes has a class.

Met while modelling, visible in the modules, without a run of their own:

 * `_recover_orphaned_runs` (`daemon/server.py:256`) parks an ATTACHED run without
   `pre_pause_top_state`, so it resumes as RUNNING and accepts a step on admin-only evidence,
   which `615-623` promises resume does not let happen. `BoundaryIsKept` therefore assumes no
   crash.
 * A review of the project (`docs/reviews/2026-04-13-supervisor-multi-review.md:392`) takes
   `max_auto_interventions` to end the cycle of failure and intervention; each progress
   checkpoint resets the count (`loop.py:1259`).
 * `continue_gate.py:15-18` says a flagged dangerous action wins over any CONTINUE;
   `classify_text` returns the soft-confirmation match first (`rules.py:39`).
 * The protocol offers `escalation_class: safety` to the worker (`protocol/checkpoints.py:37`);
   `gate()` has branches for `business` and `review` only (`loop.py:222`), so a worker that
   declares it is not given a human on that account. No property says it is.
 * Every pause for a decision is offered to the auto-intervention (`loop.py:1283-1288`), whose
   recipes are chosen by substrings of the reason (`interventions.py:36-105`). Reasons quote the
   worker's `blocking_inputs`, the judge or the spec, so a pause of class business may be
   taken back by the words in it. `EscalateToHuman` and `PauseQuoting` model it.
 * The guard of the A2A server is shown the text of the message only
   (`adapters/a2a/server.py:163-186`); `task_ref` and `task_kind` are stored as posted in the
   request and in the item (`task_mapper.py:130-164`), unscanned and unredacted, although
   redaction is there "so downstream writes never persist raw API keys / JWTs"
   (`guard.py:10-11`).
 * `guard.py:12-13` says of the audit "always write one JSONL line"; a write that fails is
   swallowed (`guard.py:37-42`), and an accepted post then has no line.
 * `handle_tasks_send` leaves items about which no wake policy decides; `task_mapper.py:13-14`
   expects the daemon's wake path to.
 * After a text has paused a run, an old checkpoint with number 1 still in sight is taken
   for a new numbering (`loop.py:1168`), and at a node already done raises the alarm of a lost
   instruction (`loop.py:1185`).
 * An injection that is not confirmed leaves the read guard cleared (`adapter.py:93`), so the
   auto-intervention that follows at once is refused by the guard.
 * A daemon that no longer knows a job answers without a status, and the console's pending
   job stays for ever (`tui.py:484`; `Lost` in `JobAnswered`). The poller's two minutes do not
   run while polls raise (`command_dispatch.py:636`).
 * An operator's pause leaves the run RUNNING on disk, and under a live daemon its tag is
   `daemon`, which offers no resume; the console reports "paused" whatever `stop_run`
   answered.
 * Lark's card actions are not told apart by an id; the trim of its ids keeps 500 in no order
   (`lark_command.py:215`). Telegram updates taken up and not confirmed run again after a
   restart. A process that did not get the channel host's lock never tries again.

## 6. What is done and what is left

Done: the supervised run with its contract; intake and delivery on three surfaces; pane
locks, daemons and the foreground run; sessions, session log, event plane and A2A ingress;
console, channels and jobs. Of each composition the types and every invariant that a run
checks are proved.

Left, in the order of what it would add: `load_or_init`'s archive branch, with a run whose
surface changes between two resumes; the outage windows of `runtime_recovery.py` as a small
clock model; the composition of `Delivery` with the gate's full set of answers; an abstract
specification of the event plane (a request, answered at most once for each key) and of the
pane lock, with a proof that `Plane` and `Daemons` implement it up to their excuses.

## 7. Not modelled

 * Text, wording, layout, notifications, timestamps and progress files; which words a
   pattern matches; what a model answers.
 * `load_or_init`'s archive branches; the decision log, the system event log, notes, the
   installing of the hook; the list of known daemons and worktrees, which is only read.
 * The refusals of resume and acknowledgement for a changed or unapproved spec, which change
   no state; the `deadline_at` of a wait, which nothing acts on, and the states expired,
   cancelled and in_flight of the event plane, which nothing sets.
 * `runtime_recovery.py` (when to look again after an outage; in `Supervisor` an outage may
   be seen at any poll), verifiers (an outcome in `Supervisor`), the plan loader (what it
   accepts is `SpecAssumption`), instructions, oracle and explainer, the evaluation harness:
   they keep no state of a run's control.
 * Argument parsing, set-up and the one-request commands of the command line; what they ask
   is modelled at the daemon.

`PROJECT.json` gives the reason for each component.

## 8. Running

    tlc -workers 2 -config MCLinear.cfg MCLinear
    tlc -workers 2 -config MCDelivery.cfg MCDelivery
    tlapm GateProofs.tla
    tlapm SupervisorProofs.tla

and so on for the other `MC*.cfg` (the configurations of a disagreement use the module of
their instance: `MCGatingStuck.cfg` with `MCLinear`, `MCPaneRace.cfg` with `MCDaemons`,
`MCSeqCollision.cfg` with `MCPlane`, `MCResumeRefused.cfg` with `MCOperator`) and for the
other proof modules. A run takes from seconds to a few minutes, a proof module from well
under a minute to about ten.
