-------------------------------- MODULE StopHook --------------------------------
(***************************************************************************)
(* Delivery to an agent that is only observed (hook.py): the loop writes   *)
(* the next instruction to a file it owns, overwriting what is there; the  *)
(* agent's Stop hook, a process of its own, reads it, writes the           *)
(* acknowledgement and only then prints the instruction and exits with 2.  *)
(* Both files are replaced atomically.  One agent session runs one hook at *)
(* a time; the agent kills a hook that takes too long.                     *)
(***************************************************************************)
EXTENDS Integers, Sequences

CONSTANT MaxInstruction  \* bound on the instructions composed, for model checking

ASSUME HookAssumption == MaxInstruction \in Nat \ {0}

NoInstruction == 0
Instructions == 1 .. MaxInstruction

VARIABLES
    pending,   \* <session>.json: the instruction in the file
    acked,     \* <session>.delivered.json
    hook,      \* the running hook: pc and the instruction it has read
    killed     \* history: instructions whose hook was killed after acknowledging

hookVars == <<pending, acked, hook, killed>>

IdleHook == [pc |-> "idle", id |-> NoInstruction]

HookInit ==
    /\ pending = NoInstruction /\ acked = NoInstruction
    /\ hook = IdleHook /\ killed = {}

WriteInstruction(id) == pending' = id /\ UNCHANGED <<acked, hook, killed>>

\* Mutant: the file once written, the instruction counts as delivered.
Delivered_Written(id) == pending = id

\* poll_delivery
Delivered(id) == acked = id

\* Mutant: the acknowledgement is not looked at.
Undelivered_Always == pending # NoInstruction

\* run_stop_hook reads the instruction, then the acknowledgement that only hooks
\* write.  Nothing new: the agent is told to go on if a run is active (exit 2).
Undelivered == pending # NoInstruction /\ acked # pending

HookReads ==
    /\ hook = IdleHook /\ Undelivered
    /\ hook' = [pc |-> "read", id |-> pending]
    /\ UNCHANGED <<pending, acked, killed>>

HookFallsThrough ==
    /\ hook = IdleHook /\ ~Undelivered
    /\ UNCHANGED hookVars

HookAcks ==
    /\ hook.pc = "read"
    /\ acked' = hook.id
    /\ hook' = [hook EXCEPT !.pc = "acked"]
    /\ UNCHANGED <<pending, killed>>

HookEmits ==
    /\ hook.pc = "acked"
    /\ hook' = IdleHook
    /\ UNCHANGED <<pending, acked, killed>>

\* Killed before or after the acknowledgement, never having printed anything.
HookKilled ==
    /\ hook.pc # "idle"
    /\ killed' = killed \cup (IF hook.pc = "acked" THEN {hook.id} ELSE {})
    /\ hook' = IdleHook
    /\ UNCHANGED <<pending, acked>>
===============================================================================
