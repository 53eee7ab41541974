----------------------------- MODULE DeliveryProps -----------------------------
(***************************************************************************)
(* What checkpoint intake and instruction delivery promise.                *)
(***************************************************************************)
EXTENDS Delivery

\* Every variable holds a value of its kind.
TypeOK ==
    /\ surface \in {"tmux", "relay", "jsonl"}
    /\ cut \in 0 .. Len(written)
    /\ view.offset \in Nat /\ view.buffer \subseteq Positions
    /\ pending \in Instructions \cup {NoInstruction}
    /\ acked \in Instructions \cup {NoInstruction}
    /\ hook.pc \in {"idle", "read", "acked"}
    /\ guard \in BOOLEAN /\ busy \in BOOLEAN /\ rounds \in 0 .. 2
    /\ delivery \in {"IDLE", "INJECTED", "FAILED"} \cup Confirmed
    /\ loop.pc \in {"boot", "poll", "batch", "write", "wait", "send", "window", "type",
                    "confirm", "off"}
    /\ loop.top \in {"READY", "RUNNING", "RECOVERY_NEEDED", "PAUSED_FOR_HUMAN", "COMPLETED"}
    /\ loop.node \in Nodes /\ loop.mism \in Nat
    /\ loop.autos \in 0 .. MaxAuto
    /\ \A k \in DOMAIN issued : issued[k] \in Nodes

\* A checkpoint is handled again only after the worker's numbering has, by all the
\* loop can tell, started over: whatever the surface shows again, after resumes,
\* rotations and partial batches.
ReplayNeedsRestart == ~replayed

\* Instructions reach the worker in the order they were composed and none twice,
\* though hooks are killed, acknowledgements come late and files are overwritten.
ToldInOrder ==
    \A k, l \in 1 .. Len(told) : k < l => \A a \in told[k], b \in told[l] : a < b

Superseded(id) == pending > id
Reached(id) == \E k \in 1 .. Len(told) : id \in told[k]

\* An instruction that was overwritten in the hand-off file before the worker had it
\* was given up on by the loop, which paused or stopped then, or its hook was killed
\* between acknowledging and printing it.
LostOnlyGivenUp ==
    surface = "jsonl" =>
        \A id \in 1 .. Len(issued) :
            Superseded(id) => \/ Reached(id) \/ hook.id = id
                              \/ id \in givenUp \cup killed

\* What tmux delivery reports as submitted has left the input line: a stuck text is
\* never reported as delivered, unless a person typed in between.
SubmittedReached ==
    (surface = "tmux" /\ delivery \in Confirmed /\ ~raced) => InComposer = {}

\* No instruction is typed behind another text, a stuck one from before included.
NotMixed == raced \/ Cardinality(composer) <= 1
===============================================================================
