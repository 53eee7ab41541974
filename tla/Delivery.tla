-------------------------------- MODULE Delivery --------------------------------
(***************************************************************************)
(* The loop between its two ends: checkpoints come in from a surface       *)
(* (Transcript) and are told apart from those it has handled already;      *)
(* instructions go out through the pane's input line (PaneInput), an       *)
(* open-relay session, or the Stop hook (StopHook).  Verification is an    *)
(* outcome here and the gate's other answers are left to Supervisor; what  *)
(* the surfaces do to reports and instructions is kept in full.            *)
(*                                                                         *)
(* loop.pc: "boot", "poll" and "batch" read; "write" and "wait" hand off   *)
(* to the hook, "send" goes to open-relay, "window", "type" and "confirm"  *)
(* to the pane; "off" when the thread has ended.                           *)
(***************************************************************************)
EXTENDS Transcript, StopHook, PaneInput

CONSTANTS
    MaxMismatch,  \* max_node_mismatch
    MaxAuto,      \* max_auto_interventions
    MaxDefers,    \* max_defers
    MaxPrinted,   \* bound on what the worker prints, for model checking
    MaxResumes,   \* bound on resumes, for model checking
    Numbering     \* how the worker may number: "next", "restart", "none"

ASSUME DeliveryAssumption ==
    /\ MaxMismatch \in Nat \ {0} /\ MaxAuto \in Nat /\ MaxDefers \in Nat \ {0}
    /\ MaxPrinted \in Nat /\ MaxResumes \in Nat
    /\ Numbering \subseteq {"next", "restart", "none"}

VARIABLES
    loop,      \* the sidecar thread and the part of the run's state it uses
    agent,     \* the node the worker is at and its last number
    issued,    \* the node of each instruction composed; its id is its position
    told,      \* history: the instructions that reached the worker, turn by turn
    accepted,  \* history: the pieces of output accepted as checkpoints
    epoch,     \* history: those accepted since the numbering last started over
    replayed,  \* history: a piece of the same epoch was accepted again
    givenUp,   \* history: instructions the loop has stopped waiting for
    raced,     \* history: a person typed between the readiness check and Enter
    resumes    \* history: number of resumes

readVars == <<surface, written, cut>>
taken == <<accepted, epoch, replayed>>
history == <<told, taken, givenUp, raced, resumes>>
vars == <<readVars, view, hookVars, paneVars, loop, agent, issued, history>>

NoCheckpoint == [kind |-> "text"]
Active == loop.top # "COMPLETED"

Init ==
    /\ TranscriptInit /\ HookInit /\ PaneInit
    /\ loop = [pc |-> "boot", top |-> "READY", seq |-> 0, last |-> NoCheckpoint,
               node |-> 1, mism |-> 0, batch |-> {}, id |-> NoInstruction,
               tries |-> 0, autos |-> 0, auto |-> FALSE, armed |-> "off"]
    /\ agent = [node |-> 1, seq |-> 0]
    /\ issued = <<>> /\ told = <<>> /\ accepted = {} /\ epoch = {} /\ replayed = FALSE
    /\ givenUp = {} /\ raced = FALSE /\ resumes = 0

-------------------------------------------------------------------------------
(* Composing and delivering *)

\* Compose the instruction for the loop's node and start to deliver it: to a file
\* on an observed surface, otherwise to the terminal.
Deliver(l, auto) ==
    /\ Len(issued) < MaxInstruction
    /\ issued' = Append(issued, l.node)
    /\ loop' = [l EXCEPT !.id = Len(issued) + 1, !.tries = 0, !.auto = auto,
                         !.batch = {},
                         !.pc = CASE surface = "jsonl" -> "write"
                                  [] surface = "relay" -> "send"
                                  [] surface = "tmux" -> "window"]

\* _pause_for_human and the end of the thread.
Paused(l) ==
    [l EXCEPT !.top = "PAUSED_FOR_HUMAN", !.pc = "off", !.batch = {}, !.armed = "off",
              !.id = NoInstruction, !.tries = 0, !.auto = FALSE]

\* _enter_recovery, then _attempt_auto_intervention or a pause.
Recover(l) ==
    IF surface # "jsonl" /\ ~l.auto /\ l.autos < MaxAuto
    THEN Deliver([l EXCEPT !.top = "RECOVERY_NEEDED"], TRUE)
    ELSE loop' = Paused(l) /\ UNCHANGED issued

\* The surface reports the instruction as delivered.
Arrived ==
    loop' = [loop EXCEPT !.pc = "poll", !.armed = "set", !.top = "RUNNING",
                         !.autos = IF loop.auto THEN @ + 1 ELSE @, !.auto = FALSE,
                         !.id = NoInstruction, !.tries = 0]

WriteHandoff ==
    /\ loop.pc = "write"
    /\ WriteInstruction(loop.id)
    /\ loop' = [loop EXCEPT !.pc = "wait"]
    /\ UNCHANGED <<readVars, view, paneVars, agent, issued, history>>

AckSeen ==
    /\ loop.pc = "wait" /\ Delivered(loop.id)
    /\ Arrived
    /\ UNCHANGED <<readVars, view, hookVars, paneVars, agent, issued, history>>

\* No acknowledgement in ten minutes, five poll errors in a row, or the file could
\* not be written: a pause.  The file, if there, stays.
GiveUp ==
    /\ loop.pc \in {"write", "wait"}
    /\ loop' = Paused(loop)
    /\ givenUp' = givenUp \cup {loop.id}
    /\ UNCHANGED <<readVars, view, hookVars, paneVars, agent, issued, told, taken, raced, resumes>>

\* oly send takes the text, or raises: the only recovery is one auto-intervention.
RelaySend ==
    /\ loop.pc = "send"
    /\ \/ Arrived /\ told' = Append(told, {loop.id})
          /\ agent' = [agent EXCEPT !.node = issued[loop.id]]
          /\ busy' = TRUE /\ delivery' = "SUBMITTED"
          /\ UNCHANGED <<guard, composer, rounds, issued>>
       \/ Recover(loop) /\ UNCHANGED <<told, agent, paneVars>>
    /\ UNCHANGED <<readVars, view, hookVars, taken, givenUp, raced,
                   resumes>>

\* _wait_for_injection_window: three looks; a pane that stays busy or is gone has
\* no recipe and pauses the run.
Look(outcome) ==
    /\ loop.pc = "window" /\ outcome \in Readiness
    /\ loop' = CASE outcome = "inject" -> [loop EXCEPT !.pc = "type"]
                 [] outcome = "defer" /\ loop.tries + 1 < MaxDefers ->
                        [loop EXCEPT !.tries = @ + 1]
                 [] OTHER -> Paused(loop)
    /\ UNCHANGED <<readVars, view, hookVars, paneVars, agent, issued, history>>

TypeText ==
    /\ loop.pc = "type" /\ Type(loop.id)
    /\ loop' = [loop EXCEPT !.pc = "confirm"]
    /\ UNCHANGED <<readVars, view, hookVars, agent, issued, history>>

\* inject raises before anything is typed.
TypeFails ==
    /\ loop.pc = "type"
    /\ \/ Unguarded /\ UNCHANGED paneVars
       \/ KeysFail
    /\ Recover(loop)
    /\ UNCHANGED <<readVars, view, hookVars, agent, told, taken, givenUp,
                   raced, resumes>>

\* The instructions among what stands in the input line, which reach the worker at once.
InComposer == composer \ {UserText}

Submit(takes) ==
    IF takes /\ InComposer # {}
    THEN /\ told' = Append(told, InComposer)
         /\ \E i \in InComposer :
               /\ \A j \in InComposer : j <= i
               /\ agent' = [agent EXCEPT !.node = issued[i]]
    ELSE UNCHANGED <<told, agent>>

Confirm(takes, shows) ==
    /\ loop.pc = "confirm"
    /\ ConfirmRound(takes, shows) /\ Submit(takes)
    /\ IF delivery' \in Confirmed THEN Arrived /\ UNCHANGED issued
       ELSE IF delivery' = "FAILED" THEN Recover(loop)
       ELSE UNCHANGED <<loop, issued>>
    /\ UNCHANGED <<readVars, view, hookVars, taken, givenUp, raced,
                   resumes>>

-------------------------------------------------------------------------------
(* Reading and telling new from old *)

Guarded == guard' = (guard \/ surface = "tmux")

\* READY: the last checkpoint in sight, if it is of this run, stands for an agent at
\* work, and all the text is handled; otherwise the first instruction goes out, but
\* not to a read-only surface, and the text is dropped.
Boot ==
    LET cps == Parsed(Read.text)
        atWork == \E i \in cps : (\A j \in cps : j <= i) /\ written[i].run = "own"
        attached == [loop EXCEPT !.top = "RUNNING", !.pc = "poll"]
    IN
    /\ loop.pc = "boot"
    /\ view' = Read.view /\ Guarded
    /\ IF atWork
       THEN /\ loop' = [attached EXCEPT !.pc = "batch", !.batch = cps, !.armed = "set"]
            /\ UNCHANGED issued
       ELSE IF surface = "jsonl" THEN loop' = attached /\ UNCHANGED issued
       ELSE Deliver(attached, FALSE)
    /\ UNCHANGED <<readVars, hookVars, composer, busy, rounds, delivery, agent, history>>

\* The delivery deadline is far longer than the time between two reads.
Aged == [loop EXCEPT !.armed = IF @ = "set" THEN "due" ELSE @]

Poll ==
    /\ loop.pc = "poll" /\ loop.top = "RUNNING"
    /\ view' = Read.view /\ Guarded
    /\ Parsed(Read.text) # {}
    /\ loop' = [Aged EXCEPT !.pc = "batch", !.batch = Parsed(Read.text)]
    /\ UNCHANGED <<readVars, hookVars, composer, busy, rounds, delivery, agent, issued,
                   history>>

\* A reading without a checkpoint changes only what the surface remembers.
PollsText ==
    /\ loop.pc = "poll" /\ loop.top = "RUNNING" /\ Parsed(Read.text) = {}
    /\ view' = Read.view /\ Guarded
    /\ loop' = Aged
    /\ UNCHANGED <<readVars, hookVars, composer, busy, rounds, delivery, agent, issued,
                   history>>

\* 60 seconds without a checkpoint after a delivery.
AckDeadline ==
    /\ loop.pc = "poll" /\ loop.armed = "due"
    /\ Recover(loop)
    /\ UNCHANGED <<readVars, view, hookVars, paneVars, agent, history>>

\* Mutant: the numbers are not compared.
OldNumber_Ignored(piece) == FALSE

\* Seq-based dedup: a number not above the last one is old, unless it is 1 or lies
\* GapReset or more back: then the worker's numbering is taken to have restarted.
OldNumber(piece) ==
    /\ piece.seq > 0 /\ piece.seq <= loop.seq
    /\ piece.seq # 1
    /\ loop.seq - piece.seq < GapReset

\* Content-based dedup looks at the last accepted checkpoint only.
SameAsLast(piece) ==
    /\ loop.last.kind = "checkpoint"
    /\ <<piece.status, piece.node, piece.seq>> =
           <<loop.last.status, loop.last.node, loop.last.seq>>

Handled(piece) == piece.run = "other" \/ OldNumber(piece) \/ SameAsLast(piece)

\* The pieces of a batch are taken oldest first.
Oldest(i) == loop.pc = "batch" /\ i \in loop.batch /\ \A j \in loop.batch : i <= j
New(i) == Oldest(i) /\ ~Handled(written[i])
After(i) == [loop EXCEPT !.batch = @ \ {i}]

Skip(i) ==
    /\ Oldest(i) /\ Handled(written[i])
    /\ loop' = After(i)
    /\ UNCHANGED <<readVars, view, hookVars, paneVars, agent, issued, history>>

\* The worker is heard at another node.  An observed one may be ahead, and is taken
\* to mean the current node; at a node already done, its instruction is taken for
\* lost and the run pauses.
Elsewhere(i) == written[i].node # loop.node
StaysBehind(i) == surface = "jsonl" /\ written[i].node < loop.node

Stalled(i) ==
    /\ New(i) /\ StaysBehind(i)
    /\ loop' = Paused(loop)
    /\ UNCHANGED <<readVars, view, hookVars, paneVars, agent, issued, history>>

\* On the other surfaces it is counted, and the count recovered from at the limit.
Misplaced(i) == Elsewhere(i) /\ surface # "jsonl"
Persistent == loop.mism + 1 >= MaxMismatch

Mismatch(i) ==
    /\ New(i) /\ Misplaced(i)
    /\ IF ~Persistent
       THEN loop' = [After(i) EXCEPT !.mism = @ + 1] /\ UNCHANGED issued
       ELSE Recover([loop EXCEPT !.mism = @ + 1])
    /\ UNCHANGED <<readVars, view, hookVars, paneVars, agent, history>>

Absorbed(i) ==
    [After(i) EXCEPT !.seq = IF written[i].seq > 0 THEN written[i].seq ELSE @,
                     !.last = [written[i] EXCEPT !.node = loop.node],
                     !.mism = 0, !.autos = 0, !.armed = "off"]

\* Whether the piece's number starts the numbering over, by all the loop can tell.
StartsOver(piece) == piece.seq \in {0, 1} \/ piece.seq + GapReset <= loop.seq

Remember(i) ==
    /\ accepted' = accepted \cup {i}
    /\ epoch' = IF StartsOver(written[i]) THEN {i} ELSE epoch \cup {i}
    /\ replayed' = (replayed \/ (~StartsOver(written[i]) /\ i \in epoch))

\* Mutant: after the last node there is one more.
MoreToDo_OffByOne(passes) == ~passes \/ loop.node <= N

MoreToDo(passes) == ~passes \/ loop.node < N

\* An accepted checkpoint.  A step reported done is verified: it passes, and the next
\* node is injected or the run completes, or it fails and the node is injected again.
\* An injection ends the batch and consumes all of it, the rest unhandled.
Accept(i, passes) ==
    LET done == written[i].status = "step_done" /\ loop.top = "RUNNING"
        again == done /\ MoreToDo(passes)
        next == IF passes THEN [Absorbed(i) EXCEPT !.node = @ + 1] ELSE Absorbed(i)
    IN
    /\ New(i) /\ ~StaysBehind(i) /\ ~Misplaced(i)
    /\ Remember(i)
    /\ IF again
       THEN Deliver(next, FALSE) /\ view' = Consumed(view)
       ELSE /\ loop' = IF done THEN [Absorbed(i) EXCEPT !.top = "COMPLETED"] ELSE Absorbed(i)
            /\ UNCHANGED <<issued, view>>
    /\ UNCHANGED <<readVars, hookVars, paneVars, agent, told, givenUp, raced, resumes>>

EndBatch ==
    /\ loop.pc = "batch" /\ loop.batch = {}
    /\ view' = Consumed(view)
    /\ loop' = [loop EXCEPT !.pc = IF Active THEN "poll" ELSE "off"]
    /\ UNCHANGED <<readVars, hookVars, paneVars, agent, issued, history>>

-------------------------------------------------------------------------------
(* Stop, orphan recovery, resume *)

Interrupt ==
    /\ loop.pc \in {"poll", "wait"}
    /\ loop' = [loop EXCEPT !.pc = "off", !.armed = "off"]
    /\ givenUp' = givenUp \cup (IF loop.pc = "wait" THEN {loop.id} ELSE {})
    /\ UNCHANGED <<readVars, view, hookVars, paneVars, agent, issued, told, taken, raced, resumes>>

Park ==
    /\ loop.pc = "off" /\ loop.top = "RUNNING"
    /\ loop' = Paused(loop)
    /\ UNCHANGED <<readVars, view, hookVars, paneVars, agent, issued, history>>

\* _do_resume makes a new surface object, which reads from the start.
Resume ==
    /\ loop.pc = "off" /\ loop.top = "PAUSED_FOR_HUMAN" /\ resumes < MaxResumes
    /\ resumes' = resumes + 1
    /\ loop' = [loop EXCEPT !.pc = "poll", !.top = "RUNNING", !.autos = 0, !.mism = 0]
    /\ view' = Unread /\ guard' = FALSE /\ delivery' = "IDLE"
    /\ UNCHANGED <<readVars, hookVars, composer, busy, rounds, agent, issued, told,
                   taken, givenUp, raced>>

-------------------------------------------------------------------------------
(* The worker, its Stop hook and a person at the pane *)

Numbers == {k \in {agent.seq + 1, 1, 0} :
              \/ k = agent.seq + 1 /\ "next" \in Numbering
              \/ k = 1 /\ "restart" \in Numbering
              \/ k = 0 /\ "none" \in Numbering}

worker == <<loop, issued, taken, givenUp, resumes>>

Reports(seq, status) ==
    /\ busy /\ Len(written) < MaxPrinted
    /\ Emits([kind |-> "checkpoint", run |-> "own", seq |-> seq, node |-> agent.node,
              status |-> status])
    /\ agent' = [agent EXCEPT !.seq = IF seq = 0 THEN @ ELSE seq]
    /\ UNCHANGED <<hookVars, paneVars, worker, told, raced>>

PrintsText ==
    /\ surface = "jsonl" /\ busy /\ Len(written) < MaxPrinted
    /\ Emits(PlainText)
    /\ UNCHANGED <<hookVars, paneVars, agent, worker, told, raced>>

Truncated == Truncate /\ UNCHANGED <<hookVars, paneVars, agent, worker, told, raced>>

Stops == AgentStops /\ UNCHANGED <<readVars, view, hookVars, agent, worker, told, raced>>

\* The Stop hook runs when an observed agent stops.
HookStep ==
    /\ surface = "jsonl" /\ ~busy
    /\ \/ HookReads /\ UNCHANGED <<busy, agent, told>>
       \/ HookAcks /\ UNCHANGED <<busy, agent, told>>
       \/ HookEmits /\ busy' = TRUE /\ told' = Append(told, {hook.id})
          /\ agent' = [agent EXCEPT !.node = issued[hook.id]]
       \/ HookFallsThrough /\ busy' = Active /\ UNCHANGED <<agent, told>>
       \/ HookKilled /\ busy' = TRUE /\ UNCHANGED <<agent, told>>
    /\ UNCHANGED <<readVars, view, guard, composer, rounds, delivery, worker, raced>>

PersonTypes ==
    /\ surface = "tmux" /\ loop.pc \in {"window", "type", "confirm"} /\ UserTypes
    /\ raced' = (loop.pc \in {"type", "confirm"})
    /\ UNCHANGED <<readVars, view, hookVars, agent, worker, told>>

-------------------------------------------------------------------------------
LoopStep ==
    \/ Boot \/ Poll \/ PollsText \/ AckDeadline
    \/ (\E i \in loop.batch : Skip(i) \/ Stalled(i) \/ Mismatch(i))
    \/ (\E i \in loop.batch, passes \in BOOLEAN : Accept(i, passes))
    \/ EndBatch
    \/ WriteHandoff \/ AckSeen \/ GiveUp \/ RelaySend
    \/ (\E outcome \in {"inject", "defer", "offline"} : Look(outcome))
    \/ TypeText \/ TypeFails
    \/ (\E takes \in BOOLEAN, shows \in {"progress", "clear", "stuck"} :
            Confirm(takes, shows))

Next ==
    \/ LoopStep
    \/ Interrupt \/ Park \/ Resume
    \/ (\E seq \in Numbers, status \in Statuses : Reports(seq, status))
    \/ PrintsText \/ Truncated \/ Stops \/ HookStep \/ PersonTypes

Spec == Init /\ [][Next]_vars
===============================================================================
