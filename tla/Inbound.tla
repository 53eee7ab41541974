--------------------------------- MODULE Inbound ---------------------------------
(***************************************************************************)
(* Commands from a chat: processes that share a bot, of which the holder   *)
(* of a file lock receives; Telegram updates, fetched in batches from an   *)
(* offset that only the next fetch confirms; Lark events, which may be     *)
(* posted more than once and are told apart by a bounded set of ids; the   *)
(* commands they run; and the poller that answers for jobs.                *)
(***************************************************************************)
EXTENDS OperatorJobs

CONSTANTS
    MaxHosts,  \* bound on the processes with the bot in their configuration
    Messages,  \* what the operator sends, 1 .. its number, for model checking
    Buttons,   \* those of them that press a button of an alert
    MaxCopies, \* how often Lark posts one, for model checking
    SeenMax    \* the event ids a Lark channel remembers

ASSUME InboundAssumption ==
    /\ MaxHosts \in Nat
    /\ Messages \subseteq Nat /\ Buttons \subseteq Messages
    /\ MaxCopies \in Nat /\ SeenMax \in Nat

Hosts == 1 .. MaxHosts  \* in the order in which they start

VARIABLES
    host,       \* of each process: "off", "sends" (without the lock), "dead"; or "receives"
    sent,       \* how many messages the operator has sent
    old,        \* those of them more than a minute old
    confirmed,  \* the last update Telegram has dropped
    offset,     \* the last update the receiver has taken up
    batch,      \* the updates it has fetched and not taken up
    copies,     \* how often each message may still be posted to a Lark channel
    seen,       \* _seen_event_ids
    threads,    \* the commands whose thread has not run yet
    ran,        \* history: how often each message ran
    forgot,     \* history: how often what told it had run was lost
    tracked,    \* the jobs the receiver's poller follows
    late        \* those that are two minutes old

telegramVars == <<old, confirmed, offset, batch>>
larkVars == <<copies, seen, threads>>
inboundVars == <<host, sent, telegramVars, larkVars, ran, forgot, tracked, late>>

InboundInit ==
    /\ host = [h \in Hosts |-> "off"] /\ sent = 0
    /\ old = {} /\ confirmed = 0 /\ offset = 0 /\ batch = <<>>
    /\ copies = [m \in Messages |-> MaxCopies] /\ seen = {} /\ threads = {}
    /\ ran = [m \in Messages |-> 0] /\ forgot = [m \in Messages |-> 0]
    /\ tracked = {} /\ late = {}

Receiving == \E h \in Hosts : host[h] = "receives"

\* The operator writes, or presses a button.
Sends ==
    /\ sent + 1 \in Messages /\ sent' = sent + 1
    /\ UNCHANGED <<host, telegramVars, larkVars, ran, forgot, tracked, late>>

-------------------------------------------------------------------------------
(* The processes: OperatorChannelHost *)

\* Mutant: a process that does not get the lock receives all the same.
HostStarts_Unlocked(h) ==
    /\ host[h] = "off" /\ \A g \in 1 .. h - 1 : host[g] # "off"
    /\ host' = [host EXCEPT ![h] = "receives"]

\* The lock is tried once: who does not get it only ever sends.
HostStarts(h) ==
    /\ host[h] = "off" /\ \A g \in 1 .. h - 1 : host[g] # "off"
    /\ host' = [host EXCEPT ![h] = IF Receiving THEN "sends" ELSE "receives"]

\* What was taken up and not confirmed, or is in the set, is forgotten.
HostDies(h, lark) ==
    /\ host[h] = "receives"
    /\ host' = [host EXCEPT ![h] = "dead"]
    /\ forgot' = [m \in Messages |->
                    forgot[m] + IF (IF lark THEN m \in seen ELSE m \in confirmed + 1 .. offset)
                                THEN 1 ELSE 0]
    /\ offset' = 0 /\ batch' = <<>> /\ seen' = {} /\ threads' = {}
    /\ tracked' = {} /\ late' = {}
    /\ TrackerDies("local")
    /\ UNCHANGED <<viewVars, sent, old, confirmed, copies, ran>>

-------------------------------------------------------------------------------
(* Commands: dispatch_command scans the runs and acts on one of them *)

Quiet == UNCHANGED <<viewVars, jobVars, tracked>>

\* explain, drift, exchange and ask: the job is followed once the chat has taken the
\* message that its answer will replace.
JobCommand(row) ==
    /\ \E j \in Jobs :
         /\ Submit(j, row, FALSE)
         /\ tracked' \in {tracked, tracked \cup {j}}
    /\ UNCHANGED viewVars

\* The other commands: pause, resume, those that read and notes.
OtherCommand(row) ==
    /\ DoPause(row) \/ DoResume(row) \/ UNCHANGED viewVars
    /\ UNCHANGED <<jobVars, tracked>>

\* A call that is not answered in five seconds raises, whatever the daemon does.
RunsCommand(raises) ==
    \E r \in Runs :
      LET row == Row(r) IN
      \/ ~raises /\ (JobCommand(row) \/ OtherCommand(row))
      \/ raises /\ ThroughDaemon(row) /\ OtherCommand(row)
      \/ raises /\ ThroughDaemon(row)
         /\ \E j \in Jobs : Submit(j, row, FALSE)
         /\ UNCHANGED <<viewVars, tracked>>

Ran(m) == ran' = [ran EXCEPT ![m] = @ + 1]

-------------------------------------------------------------------------------
(* Telegram *)

Ages ==
    /\ \E m \in 1 .. sent : m \notin old /\ old' = old \cup {m}
    /\ UNCHANGED <<viewVars, jobVars, host, sent, confirmed, offset, batch, larkVars, ran,
                   forgot, tracked, late>>

\* getUpdates: asking from the offset confirms what is before it.
Fetch ==
    LET from == IF offset > confirmed THEN offset ELSE confirmed IN
    /\ Receiving /\ batch = <<>>
    /\ confirmed' = from
    /\ batch' = [n \in 1 .. sent - from |-> from + n]
    /\ UNCHANGED <<viewVars, jobVars, host, sent, old, offset, larkVars, ran, forgot, tracked,
                   late>>

\* Mutant: the offset moves past the whole batch.
OffsetAfter_Batch == batch[Len(batch)]

\* The offset moves before the update is handled.
OffsetAfter == Head(batch)

\* Text that is more than a minute old is passed over.
Skips(m) == m \in old \ Buttons

\* What raises ends the batch; what is left of it is fetched again.
TakeUpdate ==
    LET m == Head(batch) IN
    /\ Receiving /\ batch # <<>>
    /\ offset' = OffsetAfter
    /\ \/ Skips(m) /\ batch' = Tail(batch) /\ Quiet /\ UNCHANGED ran
       \/ ~Skips(m) /\ batch' = Tail(batch) /\ RunsCommand(FALSE) /\ Ran(m)
       \/ ~Skips(m) /\ batch' = <<>> /\ RunsCommand(TRUE) /\ Ran(m)
    /\ UNCHANGED <<host, sent, old, confirmed, larkVars, forgot, late>>

-------------------------------------------------------------------------------
(* Lark *)

\* Half of a set that has grown too large is kept, in no order.
Kept(s) ==
    IF Cardinality(s) > SeenMax
    THEN {t \in SUBSET s : Cardinality(t) = SeenMax \div 2} ELSE {s}

\* An event or a card action arrives.  Text is told apart by its event id, and run in a
\* thread once the request has been answered.
Posted(m) ==
    /\ Receiving /\ m \in 1 .. sent /\ copies[m] > 0
    /\ copies' = [copies EXCEPT ![m] = @ - 1]
    /\ \/ /\ m \in Buttons /\ Ran(m)
          /\ \E raises \in BOOLEAN : RunsCommand(raises)
          /\ UNCHANGED <<seen, threads, forgot>>
       \/ /\ m \notin Buttons /\ m \in seen
          /\ Quiet /\ UNCHANGED <<seen, threads, ran, forgot>>
       \/ /\ m \notin Buttons \cup seen
          /\ seen' \in Kept(seen \cup {m})
          /\ threads' = threads \cup {m}
          /\ forgot' = [i \in Messages |->
                          forgot[i] + IF i \in (seen \cup {m}) \ seen' THEN 1 ELSE 0]
          /\ Quiet /\ UNCHANGED ran
    /\ UNCHANGED <<host, sent, telegramVars, late>>

RunThread(m) ==
    /\ m \in threads /\ threads' = threads \ {m}
    /\ Ran(m)
    /\ \E raises \in BOOLEAN : RunsCommand(raises)
    /\ UNCHANGED <<host, sent, telegramVars, copies, seen, forgot, late>>

-------------------------------------------------------------------------------
(* AsyncJobPoller *)

\* Mutant: there is no limit to how long a job may take.
Settles_Never(j) == PollJob(j) = "done"

\* It is done, or has not been for two minutes; while asking raises, nothing is decided.
Settles(j) ==
    \/ PollJob(j) = "done"
    \/ PollJob(j) \in {"running", "unknown"} /\ j \in late

\* The message is replaced by the answer, or by what went wrong.
AnswerJob(j) ==
    /\ j \in tracked /\ Settles(j)
    /\ tracked' = tracked \ {j} /\ late' = late \ {j}
    /\ UNCHANGED <<viewVars, jobVars, host, sent, telegramVars, larkVars, ran, forgot>>

JobLate(j) ==
    /\ j \in tracked \ late /\ late' = late \cup {j}
    /\ UNCHANGED <<viewVars, jobVars, host, sent, telegramVars, larkVars, ran, forgot, tracked>>
===============================================================================
