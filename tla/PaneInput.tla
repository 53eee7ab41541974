------------------------------- MODULE PaneInput -------------------------------
(***************************************************************************)
(* The input side of a tmux pane (TerminalAdapter): the read guard, the    *)
(* readiness check before an injection, typing the text, pressing Enter    *)
(* and looking at the tail to see whether the text was taken.              *)
(*                                                                         *)
(* composer is what stands in the agent's input line: instruction ids, and *)
(* UserText for what a person types.  The prompt is one the adapter knows, *)
(* so a cursor behind text shows.                                          *)
(***************************************************************************)
EXTENDS Integers

VARIABLES
    guard,     \* the pane is in _read_guard
    composer,  \* what stands in the input line
    busy,      \* the agent works, and shows a progress marker
    rounds,    \* rounds of Enter already tried for this injection
    delivery   \* last_delivery_state

paneVars == <<guard, composer, busy, rounds, delivery>>

UserText == 0
Confirmed == {"SUBMITTED", "ACKNOWLEDGED"}

PaneInit ==
    /\ guard = FALSE /\ composer = {} /\ busy \in BOOLEAN
    /\ rounds = 0 /\ delivery = "IDLE"

\* Mutant: the input line is not looked at.
Readiness_NoPrompt == {IF busy THEN "defer" ELSE "inject", "offline"}

\* injection_readiness: the pane moves or shows a marker, or the cursor stands
\* behind text; a pane that is gone is offline.
Readiness == {IF busy \/ composer # {} THEN "defer" ELSE "inject", "offline"}

\* inject without a read since the last write raises; sending the keys may fail
\* before anything is typed; otherwise the text stands in the input line.
Unguarded == ~guard
KeysFail == guard /\ UNCHANGED paneVars
Type(id) ==
    /\ guard
    /\ composer' = composer \cup {id}
    /\ guard' = FALSE /\ rounds' = 0 /\ delivery' = "INJECTED"
    /\ UNCHANGED busy

\* Enter takes effect, or the agent's interface swallows it.
Enter(takes) ==
    /\ composer' = IF takes THEN {} ELSE composer
    /\ busy' = (busy \/ (takes /\ composer # {}))

\* Mutant: the text still standing in the input line is taken for an echo.
SnapshotShows_Echo == {"clear", "stuck"} \cup (IF busy' THEN {"progress"} ELSE {})

\* _submission_snapshot_status: a marker anywhere in the tail is progress; text that
\* stands in the input line looks stuck, and so may its echo above it.
SnapshotShows ==
    (IF composer' = {} THEN {"clear", "stuck"} ELSE {"stuck"})
    \cup (IF busy' THEN {"progress"} ELSE {})

\* One of the two rounds of _confirm_injection; a call of tmux may raise, before Enter or
\* after it.
ConfirmRound(takes, shows) ==
    /\ Enter(takes)
    /\ shows \in SnapshotShows \cup {"raises"}
    /\ delivery' = CASE shows = "progress" -> "ACKNOWLEDGED"
                     [] shows = "clear" -> "SUBMITTED"
                     [] shows = "raises" \/ (shows = "stuck" /\ rounds = 1) -> "FAILED"
                     [] OTHER -> delivery
    /\ rounds' = IF delivery' = "INJECTED" THEN 1 ELSE 0
    /\ UNCHANGED guard

UserTypes == composer = {} /\ composer' = {UserText}
             /\ UNCHANGED <<guard, busy, rounds, delivery>>

AgentStops == busy /\ busy' = FALSE /\ UNCHANGED <<guard, composer, rounds, delivery>>
===============================================================================
