--------------------------------- MODULE Ingress ---------------------------------
(***************************************************************************)
(* The A2A server in front of the event plane: request threads, each of    *)
(* which takes a post through the boundary guard (auth, rate limit,        *)
(* injection scan, redaction, audit) before its method is looked at        *)
(* (adapters/a2a/, boundary/).  The rate limiter reads the clock before it *)
(* takes its lock, so threads may enter in another order than they read.   *)
(***************************************************************************)
EXTENDS EventPlane

CONSTANTS
    Clients,
    Limit, Window,  \* admissions of a client per window
    MaxTime         \* bound on the clock, for model checking

ASSUME IngressAssumption == Limit \in Nat \ {0} /\ Window \in Nat \ {0} /\ MaxTime \in Nat

VARIABLES
    now,
    handler,   \* of each request thread: where it is in its post
    bucket,    \* of each client: the times the limiter remembers
    swept,     \* when buckets were last swept
    passed,    \* history: of each client, the times at which it was admitted
    entered,   \* history: the newest time with which a thread entered the limiter
    late,      \* history: a thread entered the limiter with an older time than one before it
    audited,   \* the accepted sends in the audit file
    unaudited  \* history: the accepted sends whose audit line could not be written

ingressVars == <<now, handler, bucket, swept, passed, entered, late, audited, unaudited>>

Methods == {"tasks/send", "tasks/get", "other"}
Texts == {"empty", "plain", "secret", "hostile"}
Refs == {"plain", "secret"}
AtRest == [at |-> "idle", client |-> "none", method |-> "other", text |-> "empty", ref |-> "plain",
           time |-> 0, ok |-> FALSE, task |-> 0, state |-> ""]

IngressInit ==
    /\ now = 0 /\ swept = 0 /\ entered = 0 /\ late = FALSE
    /\ audited = 0 /\ unaudited = 0
    /\ handler = [h \in Handlers |-> AtRest]
    /\ bucket = [c \in Clients |-> <<>>] /\ passed = [c \in Clients |-> <<>>]

Tick ==
    /\ now < MaxTime /\ now' = now + 1
    /\ UNCHANGED <<handler, bucket, swept, passed, entered, late, audited, unaudited>>

\* do_POST and check_auth.  A post that is not JSON-RPC ends before this; one that
\* may not come in (vouched: the right token, or none asked of a local client) goes
\* to the audit with its refusal.  ref: its target_ref and task_kind.
Arrive(h, c, method, text, ref, vouched) ==
    /\ handler[h].at = "idle"
    /\ method # "tasks/send" => text = "empty" /\ ref = "plain"
    /\ handler' = [handler EXCEPT ![h] =
                     IF vouched
                     THEN [AtRest EXCEPT !.at = "limit", !.client = c, !.method = method,
                                         !.text = text, !.ref = ref, !.time = now]
                     ELSE [AtRest EXCEPT !.at = "audit"]]
    /\ UNCHANGED <<now, bucket, swept, passed, entered, late, audited, unaudited>>

\* _sweep_locked drops a bucket whose newest time is out of the window.
Stale(b, cutoff) == b = <<>> \/ b[Len(b)] < cutoff

\* Mutant: a time at the edge of the window is forgotten.
Recent_Edge(b, cutoff) ==
    LET kept == {i \in 1..Len(b) : \E k \in 1..i : b[k] > cutoff} IN
    SubSeq(b, Len(b) - Cardinality(kept) + 1, Len(b))

\* Times of at least cutoff, and those behind them; the times in front of them go.
Recent(b, cutoff) ==
    LET kept == {i \in 1..Len(b) : \E k \in 1..i : b[k] >= cutoff} IN
    SubSeq(b, Len(b) - Cardinality(kept) + 1, Len(b))

\* What the limiter looks at when it is entered with this time, after any sweep.
Swept(t) == IF t >= swept + Window
            THEN [c \in Clients |-> IF Stale(bucket[c], t - Window) THEN <<>> ELSE bucket[c]]
            ELSE bucket

\* Mutant: one too many is let in.
Admits_OffByOne(b) == Len(b) <= Limit

Admits(b) == Len(b) < Limit

\* Mutant: the text that was scanned is passed on.
Redacted_Raw(text) == text

\* redact: what looks like a key, token or JWT is replaced.
Redacted(text) == IF text = "secret" THEN "redacted" ELSE text

\* RateLimiter.check under its lock, then scan and redact the text of the message: the
\* guard is given no other part of the post (_extract_text_for_guard).
Guard(h) ==
    LET t == handler[h].time IN
    LET c == handler[h].client IN
    LET b == Recent(Swept(t)[c], t - Window) IN
    LET admitted == Admits(b) IN
    LET ok == admitted /\ handler[h].text # "hostile" IN
    /\ handler[h].at = "limit"
    /\ swept' = IF t >= swept + Window THEN t ELSE swept
    /\ bucket' = [Swept(t) EXCEPT ![c] = IF admitted THEN Append(b, t) ELSE b]
    /\ passed' = IF admitted THEN [passed EXCEPT ![c] = Append(@, t)] ELSE passed
    /\ late' = (late \/ t < entered)
    /\ entered' = IF t > entered THEN t ELSE entered
    /\ handler' = [handler EXCEPT ![h].at = "audit", ![h].ok = ok,
                                  ![h].text = IF ok THEN Redacted(@) ELSE "empty"]
    /\ UNCHANGED <<now, audited, unaudited>>

\* append_audit, whatever the verdict; the verdict stands where it fails.
Audit(h, written) ==
    LET n == IF handler[h].ok /\ handler[h].method = "tasks/send" THEN 1 ELSE 0 IN
    /\ handler[h].at = "audit"
    /\ IF written THEN audited' = audited + n /\ UNCHANGED unaudited
       ELSE unaudited' = unaudited + n /\ UNCHANGED audited
    /\ handler' = IF handler[h].ok THEN [handler EXCEPT ![h].at = "dispatch"]
                  ELSE [handler EXCEPT ![h] = AtRest]
    /\ UNCHANGED <<now, bucket, swept, passed, entered, late>>

Answer(h) ==
    /\ handler' = [handler EXCEPT ![h] = AtRest]
    /\ UNCHANGED <<now, bucket, swept, passed, entered, late, audited, unaudited>>

\* An unknown method, a send without text or session, a get without a known id.
Refuse(h) == handler[h].at = "dispatch" /\ Answer(h)

\* handle_tasks_send: known is whether the session is in sessions.jsonl.
Send(h, session, known, policy) ==
    /\ handler[h].at = "dispatch" /\ handler[h].method = "tasks/send"
    /\ handler[h].text # "empty" /\ known
    /\ Request(h, session, "none", policy, handler[h].ref,
               <<Step("item", Len(requests) + 1, "none")>>)
    /\ handler' = [handler EXCEPT ![h].at = "sending"]
    /\ UNCHANGED <<now, bucket, swept, passed, entered, late, audited, unaudited>>

Sent(h) == handler[h].at = "sending" /\ todo[h] = <<>> /\ Answer(h)

\* handle_tasks_get reads the request ...
GetStatus(h, i) ==
    /\ handler[h].at = "dispatch" /\ handler[h].method = "tasks/get"
    /\ i \in Requests
    /\ handler' = [handler EXCEPT ![h].at = "status", ![h].task = i,
                                  ![h].state = requests[i].status]
    /\ UNCHANGED <<now, bucket, swept, passed, entered, late, audited, unaudited>>

\* ... and then its results.
Artifacts(h) == {x \in results : x.req = handler[h].task}
GetResults(h) == handler[h].at = "status" /\ Answer(h)
===============================================================================
