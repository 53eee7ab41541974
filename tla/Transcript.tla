------------------------------- MODULE Transcript -------------------------------
(***************************************************************************)
(* What the worker has printed and what a surface lets the loop see of it: *)
(* the tmux pane (TerminalAdapter.read), the open-relay log                *)
(* (OpenRelaySurface.read) and the agent's JSONL transcript                *)
(* (JsonlObserver.read, consume_checkpoint), and the parser that takes the *)
(* checkpoints out of it (TranscriptAdapter).                              *)
(*                                                                         *)
(* written is the history of everything printed; a piece of output is      *)
(* named by its position in it.  What is still in the pane or the file is  *)
(* written after the first cut pieces.  A piece that is not a whole line   *)
(* yet is not written yet: the observer stops at the last newline.         *)
(***************************************************************************)
EXTENDS Integers, Sequences, FiniteSets

CONSTANTS
    Window,      \* pieces of output a capture of the pane or the log returns
    BufferCap,   \* pieces the observer's buffer keeps (2 * lines)
    GapReset,    \* 100 in the code: a number this far back is a new numbering
    N            \* number of nodes of the plan

ASSUME TranscriptAssumption ==
    /\ Window \in Nat \ {0} /\ BufferCap \in Nat \ {0}
    /\ GapReset \in Nat \ {0} /\ N \in Nat \ {0}

VARIABLES
    surface,  \* "tmux", "relay" or "jsonl"
    written,  \* everything the worker has printed, oldest first
    cut,      \* how many pieces are gone from the pane or the file
    view      \* the surface object's memory: offset and buffer, or the last read

Nodes == 1 .. N
Statuses == {"working", "step_done"}

\* The parser's result for a piece: what sanitize_checkpoint_payload lets through,
\* or plain text.  run_id is the loop's own when the worker left it out or wrote one
\* that is not an identifier; a number that is not one, or negative, reads as 0.
Checkpoints == [kind: {"checkpoint"}, run: {"own", "other"}, seq: Nat,
                node: Nodes, status: Statuses]
PlainText == [kind |-> "text"]
Pieces == Checkpoints \cup {PlainText}

Positions == 1 .. Len(written)
Present == {i \in Positions : i > cut}

\* The last k positions of S: a text is a set of positions, read oldest first.
LastOf(S, k) == {i \in S : Cardinality({j \in S : j >= i}) <= k}

\* A new surface object has read nothing.
Unread == [offset |-> 0, buffer |-> {}]

\* A file shorter than the offset was rotated: start over with an empty buffer.
Rotated == Len(written) - cut < view.offset

Sighted == IF Rotated THEN Unread ELSE view

FreshLines == {i \in Present : i > cut + Sighted.offset}

\* JsonlObserver.read: new lines go to the end of the rolling buffer, all of which
\* is returned; no new line, nothing returned.
Observed ==
    IF FreshLines = {} THEN [view |-> Sighted, text |-> {}]
    ELSE LET buffer == LastOf(Sighted.buffer \cup FreshLines, BufferCap)
         IN  [view |-> [offset |-> Len(written) - cut, buffer |-> buffer],
              text |-> buffer]

\* The last Window pieces of the pane, read anew every time.
Captured == LastOf(Present, Window)

\* OpenRelaySurface.read: nothing when it reads as it did the last time.
Relayed == [view |-> [view EXCEPT !.buffer = Captured],
            text |-> IF Captured = view.buffer THEN {} ELSE Captured]

Read == CASE surface = "jsonl" -> Observed
          [] surface = "relay" -> Relayed
          [] surface = "tmux"  -> [view |-> view, text |-> Captured]

IsCheckpoint(i) == written[i].kind = "checkpoint"
Parsed(text) == {i \in text : IsCheckpoint(i)}

\* consume_checkpoint: only the observer has it.  Everything up to the last
\* checkpoint of the buffer goes, handled or not.
Consumed(v) ==
    IF surface # "jsonl" THEN v
    ELSE [v EXCEPT !.buffer = {i \in @ : \A j \in Parsed(@) : j < i}]

-------------------------------------------------------------------------------
(* The worker's side *)

TranscriptInit ==
    /\ surface \in {"tmux", "relay", "jsonl"}
    /\ written \in {<<>>, <<[kind |-> "checkpoint", run |-> "other", seq |-> 1,
                             node |-> 1, status |-> "step_done"]>>}
    /\ cut = 0
    /\ view = Unread

Emits(piece) == written' = Append(written, piece) /\ UNCHANGED <<surface, cut, view>>

\* The screen is cleared, or the transcript starts a new file under the same name.
Truncate == /\ cut < Len(written)
            /\ cut' = Len(written)
            /\ UNCHANGED <<surface, written, view>>
===============================================================================
