------------------------------- MODULE EventPlane -------------------------------
(***************************************************************************)
(* External tasks: requests, waits, results and mailbox items, each an     *)
(* append-only file folded by id (event_plane/).  A call appends several   *)
(* records, one after the other; whoever dies between two of them leaves   *)
(* the rest unwritten.  todo[p] is what is left to append of p's call.     *)
(***************************************************************************)
EXTENDS TopStates, Naturals, Sequences, FiniteSets

CONSTANTS
    Handlers,        \* request threads of the A2A server
    Keys,            \* the idempotency keys providers send
    Policies         \* the blocking policies of requests

ASSUME EventPlaneAssumption ==
    "daemon" \notin Handlers /\ IsFiniteSet(Handlers) /\ "nokey" \notin Keys

VARIABLES
    requests,  \* external_tasks.jsonl, the requests folded, in order of their first record
    waits,     \* session_waits.jsonl, folded: the wait of each request
    results,   \* external_tasks.jsonl, the results
    items,     \* session_mailbox.jsonl, folded
    todo       \* of the daemon's server thread and of each A2A handler

eventVars == <<requests, waits, results, items, todo>>

NoKey == "nokey"
NoWake == ""
Undecided == NoWake
Requests == 1..Len(requests)
Callers == {"daemon"} \cup Handlers

EventInit ==
    /\ requests = <<>> /\ waits = <<>> /\ results = {} /\ items = <<>>
    /\ todo = [p \in Callers |-> <<>>]

\* A step of a call still to be done; n is a request, an item or a store.
Step(do, n, r) == [do |-> do, n |-> n, run |-> r]
Steps(p, ss) == todo' = [todo EXCEPT ![p] = ss]
Due(p, do) == todo[p] # <<>> /\ Head(todo[p]).do = do
Done(p) == todo' = [todo EXCEPT ![p] = Tail(@)]
Its(p) == Head(todo[p]).n

-------------------------------------------------------------------------------
(* register_request *)

\* The request is appended, with its target_ref and task_kind as they came (ref); the wait
\* and what the caller adds follow.
Request(p, session, r, policy, ref, rest) ==
    /\ requests' = Append(requests, [session |-> session, run |-> r, policy |-> policy,
                                     ref |-> ref, status |-> "pending"])
    /\ waits' = Append(waits, "none")
    /\ Steps(p, <<Step("wait", Len(requests) + 1, r)>> \o rest)
    /\ UNCHANGED <<results, items>>

EnterWait(p) ==
    /\ Due(p, "wait")
    /\ waits' = [waits EXCEPT ![Its(p)] = "waiting"]
    /\ Done(p)
    /\ UNCHANGED <<requests, results, items>>

-------------------------------------------------------------------------------
(* ingest_result *)

\* Mutant: a result is never recognised.
Seen_Never(i, key) == FALSE

\* The result of this key is already recorded: the call answers with it.
Seen(i, key) == key # NoKey /\ \E x \in results : x.req = i /\ x.key = key

\* Mutant: the request is completed before its result is recorded.
Ingestion_Eager(i, j) ==
    <<Step("complete", i, NoWake), Step("result", j, NoWake), Step("settle", i, NoWake)>>

\* What is appended after the mailbox item j of request i.
Ingestion(i, j) ==
    <<Step("result", j, NoWake), Step("settle", i, NoWake), Step("complete", i, NoWake)>>

Item(i, by, key, text, ref, life) ==
    [req |-> i, by |-> by, key |-> key, text |-> text, ref |-> ref, life |-> life,
     status |-> "new", wake |-> Undecided]

\* A callback is known by its provider from the answer to the request.
Announced(i) == \A p \in Callers : \A k \in 1..Len(todo[p]) :
                   todo[p][k].do = "wait" => todo[p][k].n # i

Ingest(i, key, life, rest) ==
    /\ i \in Requests /\ Announced(i) /\ ~Seen(i, key)
    /\ items' = Append(items, Item(i, "daemon", key, "result", "", life))
    /\ Steps("daemon", Ingestion(i, Len(items) + 1) \o rest)
    /\ UNCHANGED <<requests, waits, results>>

RecordResult(p) ==
    /\ Due(p, "result")
    /\ results' = results \cup {[req |-> items[Its(p)].req, key |-> items[Its(p)].key,
                                 item |-> Its(p)]}
    /\ Done(p)
    /\ UNCHANGED <<requests, waits, items>>

\* Mutant: the wait is written back as it was.
Settled_Kept(w) == w

\* A wait that is not "waiting" is left alone.
Settled(w) == IF w = "waiting" THEN "satisfied" ELSE w

SettleWait(p) ==
    /\ Due(p, "settle")
    /\ waits' = [waits EXCEPT ![Its(p)] = Settled(@)]
    /\ Done(p)
    /\ UNCHANGED <<requests, results, items>>

Complete(p) ==
    /\ Due(p, "complete")
    /\ requests' = [requests EXCEPT ![Its(p)].status = "completed"]
    /\ Done(p)
    /\ UNCHANGED <<waits, results, items>>

-------------------------------------------------------------------------------
(* The mailbox *)

\* evaluate(request, item, run_state); top is NoWake when there is no run to ask.
WakeDecision(policy, top) ==
    CASE policy = "advisory_only" -> "record_only"
      [] policy = "block_session" /\ top \in {"PAUSED_FOR_HUMAN", "RECOVERY_NEEDED"}
            -> "wake_worker"
      [] policy = "block_session" /\ top \in {"RUNNING", "GATING", "VERIFYING", "ATTACHED"}
            -> "defer"
      [] OTHER -> "notify_operator"

\* _apply_wake_policy: read, decide, append, for the run the state was read of.
Decide(p, top) ==
    /\ Due(p, "wake")
    /\ items' = [items EXCEPT ![Its(p)].wake =
                   WakeDecision(requests[items[Its(p)].req].policy, top)]
    /\ Done(p)
    /\ UNCHANGED <<requests, waits, results>>

\* ack_mailbox_item.
Ack(j) ==
    /\ j \in 1..Len(items) /\ items[j].status = "new"
    /\ items' = [items EXCEPT ![j].status = "acknowledged"]
    /\ UNCHANGED <<requests, waits, results, todo>>

\* The item of an A2A task, whose payload repeats what the request refers to: nothing
\* decides about its wake.
SeedItem(p, text) ==
    /\ Due(p, "item")
    /\ items' = Append(items, Item(Its(p), "a2a", NoKey, text, requests[Its(p)].ref, 0))
    /\ Done(p)
    /\ UNCHANGED <<requests, waits, results>>
===============================================================================
