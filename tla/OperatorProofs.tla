----------------------------- MODULE OperatorProofs -----------------------------
(***************************************************************************)
(* What an operator may rely on in every instance: what is escalated, how  *)
(* often a message runs, what a tracker keeps, and who receives.           *)
(***************************************************************************)
EXTENDS OperatorProps, FiniteSetTheorems, SequenceTheorems, TLAPS

-------------------------------------------------------------------------------
(* The console *)

\* A job keeps the question it is about; only a new one gets its own.
JobsKept ==
    \A j \in Jobs : ~IsNew(j) => job'[j].ask = job[j].ask /\ ~IsNew(j)'

JobsTyped == job \in [Jobs -> [at : Places, state : States, ask : BOOLEAN]]

\* The offer is the last question's, and so is the job that will make the next offer.
Offers ==
    /\ JobsTyped
    /\ pending \in Jobs \cup {None}
    /\ hint # None => hint = asked
    /\ pending # None => ~IsNew(pending) /\ (job[pending].ask => pending = asked)

\* Submitting, finishing and losing jobs keeps the others.
LEMMA SubmitKeeps ==
    ASSUME JobsTyped, NEW j \in Jobs, NEW row, NEW ask \in BOOLEAN, Submit(j, row, ask)
    PROVE  JobsTyped' /\ JobsKept /\ ~IsNew(j)' /\ job'[j].ask = ask
  BY DEF Submit, JobsTyped, JobsKept, IsNext, IsNew, Places, States

\* A thread's end changes states, and none to new.
LEMMA FinishKeeps ==
    ASSUME JobsTyped, NEW j \in Jobs, Finish(j)
    PROVE  JobsTyped' /\ JobsKept
<1> DEFINE gone == Evicted(Append(finished[job[j].at], j))
<1>1. job' = [i \in Jobs |-> IF i \in gone THEN [job[i] EXCEPT !.state = "gone"]
                             ELSE IF i = j THEN [job[i] EXCEPT !.state = "done"]
                             ELSE job[i]]
  BY DEF Finish
<1> HIDE DEF gone
<1> QED BY <1>1 DEF JobsTyped, JobsKept, IsNew, States

\* So does the end of a tracker.
LEMMA TrackerDiesKeeps ==
    ASSUME JobsTyped, NEW p, TrackerDies(p)
    PROVE  JobsTyped' /\ JobsKept
  BY DEF TrackerDies, JobsTyped, JobsKept, IsNew, States

\* A command from a chat submits at most one job.
LEMMA CommandKeeps ==
    ASSUME JobsTyped, NEW raises \in BOOLEAN, RunsCommand(raises)
    PROVE  JobsTyped' /\ JobsKept
<1>1. ASSUME NEW j \in Jobs, NEW row, Submit(j, row, FALSE) PROVE JobsTyped' /\ JobsKept
  BY <1>1, SubmitKeeps
<1>2. ASSUME UNCHANGED job PROVE JobsTyped' /\ JobsKept
  BY <1>2 DEF JobsTyped, JobsKept, IsNew
<1> QED BY <1>1, <1>2 DEF RunsCommand, JobCommand, OtherCommand, jobVars

\* Whatever leaves the console alone and keeps the jobs keeps its offers.
LEMMA OffersStay ==
    ASSUME Offers, JobsTyped', JobsKept, UNCHANGED <<pending, hint, asked>>
    PROVE  Offers'
  BY DEF Offers, JobsKept, IsNew, None, Jobs

\* At the console an offer is made by the question last asked and taken back by the next.
LEMMA OffersStep == Offers /\ [Next]_vars => Offers'
<1> SUFFICES ASSUME Offers, [Next]_vars PROVE Offers' OBVIOUS
<1>0. JobsTyped BY DEF Offers
<1>1. ASSUME UNCHANGED <<jobVars, consoleVars>> PROVE Offers'
  BY <1>1 DEF jobVars, consoleVars, Offers, JobsTyped, IsNew
<1>2. CASE World
  <2>1. CASE DaemonDies /\ TrackerDies("daemon")
             /\ UNCHANGED <<consoleVars, inboundVars, surface>>
    BY <1>0, <2>1, TrackerDiesKeeps, OffersStay DEF consoleVars
  <2> QED BY <1>1, <1>2, <2>1 DEF World, Idle
<1>3. CASE Polls
  <2>1. pending # None /\ UNCHANGED <<jobVars, asked>> BY <1>3 DEF Polls, PollPending
  <2>2. CASE UNCHANGED <<pending, hint>>
    BY <2>1, <2>2 DEF jobVars, Offers, JobsTyped, IsNew
  <2>3. CASE pending' = None /\ UNCHANGED hint
    BY <2>1, <2>3 DEF jobVars, Offers, JobsTyped, IsNew
  <2>4. CASE pending' = None /\ job[pending].ask /\ \E low \in BOOLEAN : hint' = Answered(low)
    BY <2>1, <2>4 DEF jobVars, Offers, JobsTyped, IsNew, Answered
  <2> QED BY <1>3, <2>2, <2>3, <2>4 DEF Polls, PollPending
<1>4. CASE AtConsole
  <2>1. CASE Scan BY <2>1 DEF Scan, jobVars, Offers, JobsTyped, IsNew
  <2>2. CASE Move BY <2>2 DEF Move, jobVars, Offers, JobsTyped, IsNew
  <2>3. CASE KeyEscalate BY <2>3 DEF KeyEscalate, jobVars, Offers, JobsTyped, IsNew
  <2>4. CASE KeyPause \/ KeyResume BY <1>1, <2>4 DEF KeyPause, KeyResume
  <2>5. ASSUME NEW j \in Jobs, KeyJob(j) PROVE Offers'
    <3>1. PICK ask \in BOOLEAN :
            /\ Submit(j, Selected, ask)
            /\ \/ UNCHANGED <<pending, asked, hint>>
               \/ ask /\ Ask(j)
               \/ ~ask /\ Explain(j)
      BY <2>5 DEF KeyJob
    <3>2. JobsTyped' /\ JobsKept /\ ~IsNew(j)' /\ job'[j].ask = ask
      BY <1>0, <3>1, SubmitKeeps
    <3>3. CASE UNCHANGED <<pending, asked, hint>> BY <3>2, <3>3, OffersStay
    <3>4. CASE ask /\ Ask(j) BY <3>2, <3>4 DEF Ask, Offers, IsNew
    <3>5. CASE ~ask /\ Explain(j) BY <3>2, <3>5 DEF Explain, Offers, IsNew
    <3> QED BY <3>1, <3>3, <3>4, <3>5
  <2> QED BY <1>4, <2>1, <2>2, <2>3, <2>4, <2>5 DEF AtConsole
<1>5. CASE InChat
  <2>0. UNCHANGED <<pending, hint, asked>> BY <1>5 DEF InChat, consoleVars
  <2>1. CASE UNCHANGED jobVars BY <1>1, <1>5, <2>1 DEF InChat
  <2>2. ASSUME NEW raises \in BOOLEAN, RunsCommand(raises) PROVE Offers'
    BY <1>0, <2>0, <2>2, CommandKeeps, OffersStay
  <2>3. CASE TrackerDies("local") BY <1>0, <2>0, <2>3, TrackerDiesKeeps, OffersStay
  <2> QED
    BY <1>5, <2>1, <2>2, <2>3
    DEF InChat, HostDies, Ages, Fetch, TakeUpdate, Posted, RunThread, Quiet
<1>6. ASSUME NEW j \in Jobs, JobEnds(j) PROVE Offers'
  BY <1>0, <1>6, FinishKeeps, OffersStay DEF JobEnds, consoleVars
<1>7. ASSUME NEW j \in Jobs, Answers(j) \/ GetsLate(j) PROVE Offers'
  BY <1>1, <1>7 DEF Answers, GetsLate, AnswerJob, JobLate
<1>8. CASE UNCHANGED vars BY <1>1, <1>8 DEF vars
<1> QED BY <1>2, <1>3, <1>4, <1>5, <1>6, <1>7, <1>8 DEF Next

\* What E escalates is the clarification asked last, for any number of jobs (tui.py,
\* last_clarify).
THEOREM EscalationHolds == Spec => []EscalatesLastAsked
<1>1. Init => Offers
  BY DEF Init, JobsInit, ConsoleInit, Offers, JobsTyped, None, Places, States
<1>2. Offers => EscalatesLastAsked BY DEF Offers, EscalatesLastAsked
<1> QED BY <1>1, <1>2, OffersStep, PTL DEF Spec
-------------------------------------------------------------------------------
(* The chats *)

\* Counters are numbers, and each channel uses its own variables only.
Counted ==
    /\ surface \in {"console", "telegram", "lark"}
    /\ sent \in Nat /\ confirmed \in Nat /\ offset \in Nat /\ batch \in Seq(Nat)
    /\ ran \in [Messages -> Nat] /\ forgot \in [Messages -> Nat]
    /\ surface # "telegram" => confirmed = 0 /\ offset = 0
    /\ surface = "console" => \A m \in Messages : ran[m] = 0

\* The last update that will not be fetched again while the receiver lives.
TakenUp == IF offset > confirmed THEN offset ELSE confirmed

\* The batch follows what is taken up; what is taken up has run, and nothing else has
\* but by a receiver that forgot it.
OneByOne ==
    surface = "telegram" =>
        /\ \A n \in 1 .. Len(batch) : batch[n] = TakenUp + n
        /\ \A m \in Messages :
             /\ ran[m] <= 1 + forgot[m]
             /\ m > TakenUp => ran[m] <= forgot[m]
             /\ m \in 1 .. TakenUp => ran[m] > 0 \/ Skips(m)

\* How often m ran or will, and how often the memory of it accounts for.
Due(m) == ran[m] + (IF m \in threads THEN 1 ELSE 0)
Known(m) == forgot[m] + (IF m \in seen THEN 1 ELSE 0)

\* Text that ran, or will in its thread, is remembered or was forgotten.
ToldApart == surface = "lark" => \A m \in Messages \ Buttons : Due(m) <= Known(m)

HandledInv == Counted /\ OneByOne /\ ToldApart

\* What leaves the channels alone, but for the hosts and the jobs that are followed.
LEMMA ChannelsStay ==
    ASSUME HandledInv,
           UNCHANGED <<surface, sent, telegramVars, larkVars, ran, forgot>>
    PROVE  HandledInv'
  BY DEF HandledInv, Counted, OneByOne, ToldApart, TakenUp, Due, Known, Skips, telegramVars,
     larkVars

\* Every step of a channel counts as the memory of it goes.
LEMMA HandledStep == HandledInv /\ [Next]_vars => HandledInv'
<1> SUFFICES ASSUME HandledInv, [Next]_vars PROVE HandledInv' OBVIOUS
<1> USE InboundAssumption
<1>1. CASE World \/ Polls \/ AtConsole
  BY <1>1, ChannelsStay DEF World, Idle, Polls, AtConsole, inboundVars
<1>2. CASE InChat
  <2>1. surface # "console" /\ UNCHANGED surface BY <1>2 DEF InChat
  <2>2. CASE Sends
    BY <2>1, <2>2 DEF Sends, HandledInv, Counted, OneByOne, ToldApart, TakenUp, Due, Known,
       Skips, telegramVars, larkVars
  <2>3. CASE UNCHANGED <<sent, telegramVars, larkVars, ran, forgot>>
    BY <2>1, <2>3, ChannelsStay
  <2>4. ASSUME NEW h \in Hosts, HostDies(h, surface = "lark") PROVE HandledInv'
    <3>1. /\ forgot' = [m \in Messages |->
                         forgot[m] + IF (IF surface = "lark" THEN m \in seen
                                         ELSE m \in confirmed + 1 .. offset)
                                     THEN 1 ELSE 0]
          /\ offset' = 0 /\ batch' = <<>> /\ seen' = {} /\ threads' = {}
          /\ UNCHANGED <<sent, old, confirmed, ran>>
      BY <2>4 DEF HostDies
    <3>2. Counted' BY <2>1, <3>1 DEF HandledInv, Counted
    <3>3. ASSUME surface = "telegram" PROVE OneByOne'
      <4>1. TakenUp' = confirmed BY <3>1 DEF HandledInv, Counted, TakenUp
      <4>2. \A m \in Messages :
              forgot'[m] = forgot[m] + IF m \in confirmed + 1 .. offset THEN 1 ELSE 0
        BY <3>1, <3>3
      <4>3. ASSUME NEW m \in Messages
            PROVE  /\ ran'[m] <= 1 + forgot'[m]
                   /\ m > TakenUp' => ran'[m] <= forgot'[m]
                   /\ m \in 1 .. TakenUp' => ran'[m] > 0 \/ Skips(m)'
        <5>1. /\ m \in Nat /\ ran[m] \in Nat /\ forgot[m] \in Nat /\ ran'[m] = ran[m]
              /\ offset \in Nat /\ confirmed \in Nat
          BY <3>1 DEF HandledInv, Counted
        <5>2. /\ ran[m] <= 1 + forgot[m] /\ (m > TakenUp => ran[m] <= forgot[m])
              /\ m \in 1 .. TakenUp => ran[m] > 0 \/ Skips(m)
          BY <3>3 DEF HandledInv, OneByOne
        <5>3. Skips(m)' = Skips(m) BY <3>1 DEF Skips
        <5> QED BY <4>1, <4>2, <5>1, <5>2, <5>3 DEF TakenUp
      <4> QED BY <3>1, <4>3 DEF OneByOne
    <3>4. ASSUME surface = "lark" PROVE ToldApart'
      BY <3>1, <3>4 DEF HandledInv, Counted, ToldApart, Due, Known
    <3> QED BY <2>1, <3>2, <3>3, <3>4 DEF HandledInv, OneByOne, ToldApart
  <2>5. CASE surface = "telegram" /\ Ages
    <3>1. UNCHANGED <<sent, confirmed, offset, batch, larkVars, ran, forgot>>
          /\ old \subseteq old'
      BY <2>5 DEF Ages
    <3> QED
      BY <2>1, <3>1 DEF HandledInv, Counted, OneByOne, ToldApart, TakenUp, Due, Known, Skips,
         larkVars
  <2>6. CASE surface = "telegram" /\ Fetch
    <3>1. /\ confirmed' = TakenUp /\ UNCHANGED <<sent, offset, old, ran, forgot>>
          /\ batch' = [n \in 1 .. sent - TakenUp |-> TakenUp + n]
      BY <2>6 DEF Fetch, TakenUp
    <3>2. TakenUp \in Nat /\ TakenUp' = TakenUp /\ sent \in Nat
      BY <3>1 DEF HandledInv, Counted, TakenUp
    <3>3. batch' \in Seq(Nat) /\ \A n \in 1 .. Len(batch') : batch'[n] = TakenUp + n
      <4>1. CASE sent - TakenUp \in Nat
        <5>1. batch' \in [1 .. sent - TakenUp -> Nat] BY <3>1, <3>2
        <5>2. batch' \in Seq(Nat) /\ Len(batch') = sent - TakenUp BY <4>1, <5>1
        <5> QED BY <3>1, <5>2
      <4>2. CASE sent - TakenUp \notin Nat
        <5>1. 1 .. sent - TakenUp = {} BY <3>2, <4>2
        <5>2. batch' = <<>> BY <3>1, <5>1
        <5> QED BY <5>2
      <4> QED BY <4>1, <4>2
    <3>4. Counted' BY <2>1, <2>6, <3>1, <3>2, <3>3 DEF HandledInv, Counted
    <3>5. OneByOne' BY <2>1, <3>1, <3>2, <3>3 DEF HandledInv, OneByOne, Skips
    <3> QED BY <2>1, <2>6, <3>4, <3>5 DEF HandledInv, ToldApart
  <2>7. CASE surface = "telegram" /\ TakeUpdate
    <3> DEFINE x == Head(batch)
    <3>1. /\ batch # <<>> /\ offset' = x /\ UNCHANGED <<sent, old, confirmed, forgot>>
          /\ batch' = Tail(batch) \/ batch' = <<>>
          /\ \/ Skips(x) /\ UNCHANGED ran
             \/ ~Skips(x) /\ ran' = [ran EXCEPT ![x] = @ + 1]
      BY <2>7 DEF TakeUpdate, OffsetAfter, Quiet, Ran
    <3>2. batch \in Seq(Nat) /\ confirmed \in Nat /\ offset \in Nat
      BY DEF HandledInv, Counted
    <3>3. /\ Len(batch) \in Nat \ {0} /\ x = TakenUp + 1 /\ TakenUp \in Nat
          /\ Tail(batch) \in Seq(Nat) /\ Len(Tail(batch)) = Len(batch) - 1
          /\ \A n \in 1 .. Len(batch) - 1 : Tail(batch)[n] = batch[n + 1]
      BY <2>7, <3>1, <3>2 DEF HandledInv, OneByOne, TakenUp
    <3>4. TakenUp' = TakenUp + 1 BY <3>1, <3>2, <3>3 DEF TakenUp
    <3>5. \A n \in 1 .. Len(batch') : batch'[n] = TakenUp' + n
      <4>1. CASE batch' = Tail(batch)
        BY <2>7, <3>3, <3>4, <4>1 DEF HandledInv, OneByOne
      <4>2. CASE batch' = <<>> BY <4>2
      <4> QED BY <3>1, <4>1, <4>2
    <3>6. Counted'
      <4>1. ran' \in [Messages -> Nat] BY <3>1 DEF HandledInv, Counted
      <4>2. offset' \in Nat BY <3>1, <3>3
      <4>3. batch' \in Seq(Nat)
        <5>1. <<>> \in Seq(Nat) OBVIOUS
        <5>2. Tail(batch) \in Seq(Nat) BY <3>3
        <5> QED BY <3>1, <5>1, <5>2
      <4> QED BY <2>1, <2>7, <3>1, <4>1, <4>2, <4>3 DEF HandledInv, Counted
    <3>7. ASSUME NEW m \in Messages
          PROVE  /\ ran'[m] <= 1 + forgot'[m]
                 /\ m > TakenUp' => ran'[m] <= forgot'[m]
                 /\ m \in 1 .. TakenUp' => ran'[m] > 0 \/ Skips(m)'
      <4>1. m \in Nat /\ ran[m] \in Nat /\ forgot[m] \in Nat BY DEF HandledInv, Counted
      <4>2. /\ ran[m] <= 1 + forgot[m] /\ (m > TakenUp => ran[m] <= forgot[m])
            /\ m \in 1 .. TakenUp => ran[m] > 0 \/ Skips(m)
        BY <2>7 DEF HandledInv, OneByOne
      <4>3. Skips(m)' = Skips(m) BY <3>1 DEF Skips
      <4>4. CASE m # x
        <5>1. ran'[m] = ran[m] BY <3>1, <4>1, <4>4 DEF HandledInv, Counted
        <5> QED BY <3>1, <3>3, <3>4, <4>1, <4>2, <4>3, <4>4, <5>1
      <4>5. CASE m = x
        <5>1. \/ Skips(m) /\ ran'[m] = ran[m]
              \/ ran'[m] = ran[m] + 1
          BY <3>1, <4>1, <4>5 DEF HandledInv, Counted
        <5> QED BY <3>1, <3>3, <3>4, <4>1, <4>2, <4>3, <4>5, <5>1
      <4> QED BY <4>4, <4>5
    <3>8. OneByOne' BY <3>5, <3>7 DEF OneByOne
    <3> QED BY <2>1, <2>7, <3>6, <3>8 DEF HandledInv, ToldApart
  <2>8. ASSUME surface = "lark", NEW m \in Messages, Posted(m) PROVE HandledInv'
    <3>1. UNCHANGED <<sent, telegramVars>> BY <2>8 DEF Posted
    <3>2. CASE m \in Buttons /\ ran' = [ran EXCEPT ![m] = @ + 1]
               /\ UNCHANGED <<seen, threads, forgot>>
      BY <2>1, <2>8, <3>1, <3>2
      DEF HandledInv, Counted, OneByOne, ToldApart, Due, Known, telegramVars
    <3>3. CASE UNCHANGED <<seen, threads, ran, forgot>>
      BY <2>1, <2>8, <3>1, <3>3
      DEF HandledInv, Counted, OneByOne, ToldApart, Due, Known, telegramVars
    <3>4. CASE /\ m \notin seen /\ seen' \in Kept(seen \cup {m})
               /\ threads' = threads \cup {m} /\ UNCHANGED ran
               /\ forgot' = [i \in Messages |->
                               forgot[i] + IF i \in (seen \cup {m}) \ seen' THEN 1 ELSE 0]
      <4>1. seen' \subseteq seen \cup {m} BY <3>4 DEF Kept
      <4>2. Counted' BY <2>1, <3>1, <3>4 DEF HandledInv, Counted, telegramVars
      <4>3. ASSUME NEW i \in Messages \ Buttons PROVE Due(i)' <= Known(i)'
        <5>1. ran[i] \in Nat /\ forgot[i] \in Nat /\ Due(i) <= Known(i)
          BY <2>8 DEF HandledInv, Counted, ToldApart
        <5> QED BY <3>4, <4>1, <5>1 DEF Due, Known
      <4> QED BY <2>1, <2>8, <4>2, <4>3 DEF HandledInv, OneByOne, ToldApart
    <3> QED BY <2>8, <3>2, <3>3, <3>4 DEF Posted, Ran
  <2>9. ASSUME surface = "lark", NEW m \in Messages, RunThread(m) PROVE HandledInv'
    <3>1. /\ UNCHANGED <<sent, telegramVars, seen, forgot>>
          /\ m \in threads /\ threads' = threads \ {m} /\ ran' = [ran EXCEPT ![m] = @ + 1]
      BY <2>9 DEF RunThread, Ran
    <3>2. Counted' BY <2>1, <2>9, <3>1 DEF HandledInv, Counted, telegramVars
    <3>3. ASSUME NEW i \in Messages \ Buttons PROVE Due(i)' <= Known(i)'
      <4>1. ran[i] \in Nat /\ forgot[i] \in Nat /\ Due(i) <= Known(i)
        BY <2>9 DEF HandledInv, Counted, ToldApart
      <4>2. ran'[i] = IF i = m THEN ran[i] + 1 ELSE ran[i]
        BY <3>1 DEF HandledInv, Counted
      <4> QED BY <3>1, <4>1, <4>2 DEF Due, Known
    <3> QED BY <2>1, <2>9, <3>2, <3>3 DEF HandledInv, OneByOne, ToldApart
  <2> QED
    BY <1>2, <2>2, <2>3, <2>4, <2>5, <2>6, <2>7, <2>8, <2>9
    DEF InChat, telegramVars, larkVars
<1>3. ASSUME NEW j \in Jobs, JobEnds(j) \/ Answers(j) \/ GetsLate(j) PROVE HandledInv'
  BY <1>3, ChannelsStay DEF JobEnds, Answers, GetsLate, AnswerJob, JobLate, inboundVars
<1>4. CASE UNCHANGED vars BY <1>4, ChannelsStay DEF vars, inboundVars
<1> QED BY <1>1, <1>2, <1>3, <1>4 DEF Next

\* A message runs again only where the memory of it was lost, and nothing that Telegram
\* has dropped was missed, for any number of messages and processes
\* (telegram_command.py, the offset; lark_command.py, _seen_event_ids).
THEOREM HandledHolds == Spec => []HandledOnce
<1>1. Init => HandledInv
  <2> SUFFICES ASSUME Init PROVE HandledInv OBVIOUS
  <2> USE InboundAssumption DEF Init, InboundInit
  <2>1. Counted BY DEF Counted
  <2>2. OneByOne BY DEF OneByOne, TakenUp
  <2>3. ToldApart BY DEF ToldApart, Due, Known
  <2> QED BY <2>1, <2>2, <2>3 DEF HandledInv
<1>2. HandledInv => HandledOnce
  <2> SUFFICES ASSUME HandledInv, NEW m \in Messages
               PROVE  /\ ran[m] <= 1 + forgot[m] \/ (surface = "lark" /\ m \in Buttons)
                      /\ m \in 1 .. confirmed => ran[m] > 0 \/ Skips(m)
    BY DEF HandledOnce
  <2>1. ran[m] \in Nat /\ forgot[m] \in Nat /\ confirmed \in Nat /\ offset \in Nat
    BY DEF HandledInv, Counted
  <2>2. CASE surface = "telegram"
    BY <2>1, <2>2 DEF HandledInv, OneByOne, TakenUp
  <2>3. CASE surface = "lark"
    <3>1. m \notin Buttons => Due(m) <= Known(m) BY <2>3 DEF HandledInv, ToldApart
    <3>2. confirmed = 0 BY <2>3 DEF HandledInv, Counted
    <3> QED BY <2>1, <2>3, <3>1, <3>2 DEF Due, Known
  <2>4. CASE surface = "console"
    BY <2>1, <2>4 DEF HandledInv, Counted
  <2> QED BY <2>2, <2>3, <2>4 DEF HandledInv, Counted
<1> QED BY <1>1, <1>2, HandledStep, PTL DEF Spec
-------------------------------------------------------------------------------
(* The types *)

\* A tracker remembers each of its jobs once, all of them done, and not too many.
Trackers ==
    /\ JobsTyped /\ finished \in [Places -> Seq(Jobs)]
    /\ \A p \in Places :
         /\ Len(finished[p]) <= MaxCompleted
         /\ \A n \in 1 .. Len(finished[p]) :
              /\ job[finished[p][n]].at = p /\ job[finished[p][n]].state = "done"
              /\ \A m \in 1 .. n - 1 : finished[p][m] # finished[p][n]

\* What the operator sees is of the kinds a scan returns.
Seen ==
    /\ run \in [Runs -> Views] /\ up \in BOOLEAN /\ rows \in [Runs -> Rows] /\ sel \in Runs
    /\ {pending, hint, asked} \subseteq Jobs \cup {None}

\* One process receives, and nothing it has or has taken up was not sent.
Receiver ==
    /\ host \in [Hosts -> {"off", "sends", "receives", "dead"}]
    /\ \A g, h \in Hosts : host[g] = "receives" /\ host[h] = "receives" => g = h
    /\ sent \in {0} \cup Messages
    /\ batch \in Seq(Nat) /\ \A n \in 1 .. Len(batch) : batch[n] <= sent
    /\ confirmed \in Nat /\ offset \in Nat /\ confirmed <= sent /\ offset <= sent
    /\ IsFiniteSet(seen) /\ Cardinality(seen) <= SeenMax
    /\ late \subseteq tracked /\ tracked \subseteq Jobs

\* Of jobs that ended one after the other, what a tracker keeps is the last of them.
LEMMA LastOnes ==
    ASSUME NEW s \in Seq(Jobs)
    PROVE  LET e == SubSeq(s, Surplus(s) + 1, Len(s)) IN
           /\ e \in Seq(Jobs) /\ Surplus(s) \in 0 .. Len(s) /\ Len(e) = Len(s) - Surplus(s)
           /\ Len(e) <= MaxCompleted
           /\ \A n \in 1 .. Len(e) : e[n] = s[Surplus(s) + n]
<1> DEFINE d == Surplus(s)
<1> DEFINE e == SubSeq(s, d + 1, Len(s))
<1>1. /\ Len(s) \in Nat /\ MaxCompleted \in Nat /\ d \in 0 .. Len(s)
      /\ Len(s) - d <= MaxCompleted
  BY OperatorJobsAssumption DEF Surplus
<1> HIDE DEF d
<1>2. \A n \in d + 1 .. Len(s) : s[n] \in Jobs BY <1>1
<1>3. /\ e \in Seq(Jobs) /\ Len(e) = IF d + 1 <= Len(s) THEN Len(s) - (d + 1) + 1 ELSE 0
      /\ \A n \in 1 .. Len(s) - (d + 1) + 1 : e[n] = s[(d + 1) + n - 1]
  BY <1>1, <1>2, SubSeqProperties
<1> HIDE DEF e
<1>4. Len(e) = Len(s) - d BY <1>1, <1>3
<1>5. ASSUME NEW n \in 1 .. Len(e) PROVE e[n] = s[d + n]
  <2>1. n \in 1 .. Len(s) - (d + 1) + 1 /\ (d + 1) + n - 1 = d + n BY <1>1, <1>4
  <2> QED BY <1>3, <2>1
<1> QED BY <1>1, <1>3, <1>4, <1>5 DEF d, e

\* A new job is nobody's finished job.
LEMMA SubmitTracked ==
    ASSUME Trackers, NEW j \in Jobs, NEW row, NEW ask \in BOOLEAN, Submit(j, row, ask)
    PROVE  Trackers'
<1>1. JobsTyped' BY SubmitKeeps DEF Trackers
<1>2. finished' = finished /\ IsNew(j) /\ \A i \in Jobs \ {j} : job'[i] = job[i]
  BY DEF Submit, IsNext, Trackers, JobsTyped
<1>3. \A p \in Places : \A n \in 1 .. Len(finished[p]) :
        finished[p][n] \in Jobs /\ finished[p][n] # j
  BY <1>2 DEF Trackers, IsNew
<1> QED BY <1>1, <1>2, <1>3 DEF Trackers

\* A job that ends is put behind the others; what falls out in front is gone.
LEMMA FinishTracked == ASSUME Trackers, NEW j \in Jobs, Finish(j) PROVE Trackers'
<1> DEFINE p == job[j].at
<1> DEFINE s == Append(finished[p], j)
<1> DEFINE d == Surplus(s)
<1> DEFINE e == SubSeq(s, d + 1, Len(s))
<1>1. /\ job[j].state = "running" /\ finished' = [finished EXCEPT ![p] = e]
      /\ job' = [i \in Jobs |-> IF i \in Evicted(s) THEN [job[i] EXCEPT !.state = "gone"]
                                ELSE IF i = j THEN [job[i] EXCEPT !.state = "done"]
                                ELSE job[i]]
  BY DEF Finish
<1>2. /\ p \in Places /\ JobsTyped /\ finished \in [Places -> Seq(Jobs)]
      /\ s \in Seq(Jobs) /\ Len(s) = Len(finished[p]) + 1 /\ s[Len(s)] = j
      /\ Len(finished[p]) \in Nat
      /\ \A n \in 1 .. Len(finished[p]) : s[n] = finished[p][n]
  BY DEF Trackers, JobsTyped
<1>3. JobsTyped' BY <1>2, FinishKeeps
<1>4. /\ e \in Seq(Jobs) /\ d \in 0 .. Len(s) /\ Len(e) = Len(s) - d
      /\ Len(e) <= MaxCompleted /\ \A n \in 1 .. Len(e) : e[n] = s[d + n]
  BY <1>2, LastOnes
<1>5. Evicted(s) = {s[n] : n \in 1 .. d} BY DEF Evicted
<1> HIDE DEF d, e
<1>6. \A n \in 1 .. Len(s) :
        /\ s[n] \in Jobs /\ job[s[n]].at = p
        /\ s[n] = j \/ job[s[n]].state = "done"
        /\ \A m \in 1 .. n - 1 : s[m] # s[n]
  <2> SUFFICES ASSUME NEW n \in 1 .. Len(s)
               PROVE  /\ s[n] \in Jobs /\ job[s[n]].at = p
                      /\ s[n] = j \/ job[s[n]].state = "done"
                      /\ \A m \in 1 .. n - 1 : s[m] # s[n]
    OBVIOUS
  <2>1. \A m \in 1 .. Len(finished[p]) :
          job[finished[p][m]].at = p /\ job[finished[p][m]].state = "done"
    BY <1>2 DEF Trackers
  <2>2. CASE n = Len(s)
    <3>1. \A m \in 1 .. n - 1 : s[m] # j BY <1>1, <1>2, <2>1, <2>2
    <3> QED BY <1>2, <2>2, <3>1
  <2>3. CASE n # Len(s)
    <3>1. n \in 1 .. Len(finished[p]) BY <1>2, <2>3
    <3>2. \A m \in 1 .. n - 1 : finished[p][m] # finished[p][n] BY <1>2, <3>1 DEF Trackers
    <3>3. \A m \in 1 .. n - 1 : s[m] # s[n] BY <1>2, <3>1, <3>2
    <3>4. s[n] = finished[p][n] /\ s[n] \in Jobs BY <1>2, <3>1
    <3> QED BY <2>1, <3>1, <3>3, <3>4
  <2> QED BY <2>2, <2>3
<1>7. \A q \in Places \ {p} : \A n \in 1 .. Len(finished[q]) :
        finished[q][n] \in Jobs /\ job[finished[q][n]].at = q
  BY <1>2 DEF Trackers
<1> HIDE DEF s
<1>8. \A i \in Evicted(s) : i \in Jobs /\ job[i].at = p
  <2>1. \A n \in 1 .. d : n \in 1 .. Len(s) BY <1>2, <1>4
  <2> QED BY <1>5, <1>6, <2>1
<1>9. \A q \in Places \ {p} : \A n \in 1 .. Len(finished[q]) :
        job'[finished[q][n]] = job[finished[q][n]]
  BY <1>1, <1>7, <1>8
<1>10. ASSUME NEW n \in 1 .. Len(e)
       PROVE  /\ job'[e[n]].at = p /\ job'[e[n]].state = "done"
              /\ \A m \in 1 .. n - 1 : e[m] # e[n]
  <2>1. d + n \in 1 .. Len(s) /\ e[n] = s[d + n] BY <1>2, <1>4
  <2>2. e[n] \notin Evicted(s)
    <3>1. \A m \in 1 .. d : s[m] # s[d + n] BY <1>4, <1>6, <2>1
    <3> QED BY <1>5, <2>1, <3>1
  <2>3. \A m \in 1 .. n - 1 : d + m \in 1 .. (d + n) - 1 /\ e[m] = s[d + m] BY <1>2, <1>4
  <2>4. \A m \in 1 .. n - 1 : e[m] # e[n] BY <1>6, <2>1, <2>3
  <2>5. /\ e[n] \in Jobs /\ job[e[n]].at = p
        /\ e[n] = j \/ job[e[n]].state = "done"
    BY <1>6, <2>1
  <2>6. job'[e[n]] = IF e[n] = j THEN [job[e[n]] EXCEPT !.state = "done"] ELSE job[e[n]]
    BY <1>1, <2>2, <2>5
  <2>7. job[e[n]] \in [at : Places, state : States, ask : BOOLEAN] BY <1>2, <2>5 DEF JobsTyped
  <2>8. job'[e[n]].at = p /\ job'[e[n]].state = "done" BY <2>5, <2>6, <2>7
  <2> QED BY <2>4, <2>8
<1> HIDE DEF p
<1>11. finished'[p] = e /\ \A q \in Places \ {p} : finished'[q] = finished[q]
  BY <1>1, <1>2
<1>12. finished' \in [Places -> Seq(Jobs)] BY <1>1, <1>2, <1>4
<1>13. ASSUME NEW q \in Places
       PROVE  /\ Len(finished'[q]) <= MaxCompleted
              /\ \A n \in 1 .. Len(finished'[q]) :
                   /\ job'[finished'[q][n]].at = q /\ job'[finished'[q][n]].state = "done"
                   /\ \A m \in 1 .. n - 1 : finished'[q][m] # finished'[q][n]
  <2>1. CASE q = p BY <1>4, <1>10, <1>11, <2>1
  <2>2. CASE q # p BY <1>9, <1>11, <2>2 DEF Trackers
  <2> QED BY <2>1, <2>2
<1> QED BY <1>3, <1>12, <1>13 DEF Trackers

\* A tracker that ends forgets its own jobs.
LEMMA TrackerDiesTracked == ASSUME Trackers, NEW p \in Places, TrackerDies(p) PROVE Trackers'
<1>1. JobsTyped' BY TrackerDiesKeeps DEF Trackers
<1>2. /\ finished' = [finished EXCEPT ![p] = <<>>] /\ finished \in [Places -> Seq(Jobs)]
      /\ \A i \in Jobs : job[i].at # p => job'[i] = job[i]
  BY DEF TrackerDies, Trackers
<1>3. finished' \in [Places -> Seq(Jobs)]
  <2>1. <<>> \in Seq(Jobs) OBVIOUS
  <2> QED BY <1>2, <2>1
<1>4. ASSUME NEW q \in Places
      PROVE  /\ Len(finished'[q]) <= MaxCompleted
             /\ \A n \in 1 .. Len(finished'[q]) :
                  /\ job'[finished'[q][n]].at = q /\ job'[finished'[q][n]].state = "done"
                  /\ \A m \in 1 .. n - 1 : finished'[q][m] # finished'[q][n]
  <2>1. CASE q = p
    <3>1. finished'[q] = <<>> /\ Len(<<>>) = 0 BY <1>2, <2>1
    <3> QED BY <3>1, OperatorJobsAssumption
  <2>2. CASE q # p
    <3>1. finished'[q] = finished[q] BY <1>2, <2>2
    <3>2. \A n \in 1 .. Len(finished[q]) :
            finished[q][n] \in Jobs /\ job[finished[q][n]].at = q
      BY <1>2 DEF Trackers
    <3>3. \A n \in 1 .. Len(finished[q]) : job'[finished[q][n]] = job[finished[q][n]]
      BY <1>2, <2>2, <3>2
    <3> QED BY <3>1, <3>3 DEF Trackers
  <2> QED BY <2>1, <2>2
<1> QED BY <1>1, <1>3, <1>4 DEF Trackers

\* Every step keeps the trackers.
LEMMA NextTracked == ASSUME Trackers, [Next]_vars PROVE Trackers'
<1>1. ASSUME UNCHANGED jobVars PROVE Trackers' BY <1>1 DEF jobVars, Trackers, JobsTyped
<1>2. "daemon" \in Places /\ "local" \in Places BY DEF Places
<1>3. ASSUME NEW raises, RunsCommand(raises) PROVE Trackers'
  BY <1>1, <1>3, SubmitTracked DEF RunsCommand, JobCommand, OtherCommand
<1>4. CASE World BY <1>1, <1>2, <1>4, TrackerDiesTracked DEF World, Idle
<1>5. CASE Polls BY <1>1, <1>5 DEF Polls, PollPending
<1>6. CASE AtConsole
  BY <1>1, <1>6, SubmitTracked DEF AtConsole, Scan, Move, KeyEscalate, KeyPause, KeyResume, KeyJob
<1>7. CASE InChat
  BY <1>1, <1>2, <1>3, <1>7, TrackerDiesTracked
  DEF InChat, HostDies, Ages, Fetch, TakeUpdate, Posted, RunThread, Quiet
<1>8. ASSUME NEW j \in Jobs, JobEnds(j) \/ Answers(j) \/ GetsLate(j) PROVE Trackers'
  BY <1>1, <1>8, FinishTracked DEF JobEnds, Answers, GetsLate, AnswerJob, JobLate
<1>9. CASE UNCHANGED vars BY <1>1, <1>9 DEF vars
<1> QED BY <1>4, <1>5, <1>6, <1>7, <1>8, <1>9 DEF Next

\* What a scan returns of a run, and what the calls of an operator make of it.
LEMMA RowsAreRows ==
    ASSUME run \in [Runs -> Views], NEW r \in Runs
    PROVE  Row(r) \in Rows
<1>1. /\ run[r].top \in Tops
      /\ run[r].class \in {"", "recorded"}
      /\ run[r].at \in {"daemon", "foreground", "nowhere", "left"}
  BY DEF Views
<1>2. TagOf(run[r]) \in {"completed", "paused", "paused-class", "attached", "recovery",
                         "foreground", "daemon", "orphaned", "local"}
  BY DEF TagOf
<1> QED BY <1>1, <1>2 DEF Row, Rows

\* A view is of a run at rest, but for the stop event of one that is told to pause.
LEMMA ViewsAreViews ==
    ASSUME NEW top \in Tops,
           NEW class \in {"", "recorded"},
           NEW at \in {"daemon", "foreground", "nowhere", "left"}
    PROVE  At(top, class, at) \in Views
BY DEF At, Views

\* So is what a daemon finds when it starts.
LEMMA RecoveredViews ==
    ASSUME run \in [Runs -> Views] PROVE Recovered \in [Runs -> Views]
<1>1. At("PAUSED_FOR_HUMAN", "recorded", "nowhere") \in Views BY ViewsAreViews DEF Tops
<1> QED BY <1>1 DEF Recovered

\* A pause or a resume, by the row as it was drawn.
LEMMA CallsView ==
    ASSUME run \in [Runs -> Views], up \in BOOLEAN, NEW row \in Rows,
           DoPause(row) \/ DoResume(row)
    PROVE  run' \in [Runs -> Views] /\ up' \in BOOLEAN
<1>1. row.run \in Runs BY DEF Rows
<1>2. CASE DoPause(row)
  <2>1. run' = [run EXCEPT ![row.run] = [run[row.run] EXCEPT !.stop = TRUE]] \/ UNCHANGED run
    BY <1>2 DEF DoPause
  <2>2. [run[row.run] EXCEPT !.stop = TRUE] \in Views BY <1>1 DEF Views
  <2> QED BY <1>2, <2>1, <2>2 DEF DoPause
<1>3. CASE DoResume(row)
  <2> DEFINE world == IF up THEN run ELSE Recovered
  <2> DEFINE tops == IF world[row.run].top = "PAUSED_FOR_HUMAN" THEN {"ATTACHED", "RUNNING"}
                     ELSE {world[row.run].top}
  <2>1. world \in [Runs -> Views] BY RecoveredViews
  <2>2. ASSUME NEW top \in tops PROVE At(top, "", "daemon") \in Views
    <3>1. world[row.run].top \in Tops BY <1>1, <2>1 DEF Views
    <3>2. top \in Tops BY <3>1 DEF Tops, Going
    <3> QED BY <3>2, ViewsAreViews
  <2>3. \/ UNCHANGED <<run, up>>
        \/ /\ up' = TRUE
           /\ \E top \in tops : \/ run' = world
                              \/ run' = [world EXCEPT ![row.run] = At(top, "", "daemon")]
    BY <1>3 DEF DoResume, viewVars
  <2> HIDE DEF world, tops
  <2> QED BY <2>1, <2>2, <2>3
<1> QED BY <1>2, <1>3

\* What happens to the runs by themselves.
LEMMA WorldViews ==
    ASSUME run \in [Runs -> Views], up \in BOOLEAN, World
    PROVE  run' \in [Runs -> Views] /\ up' \in BOOLEAN
<1>1. \A r \in Runs : run[r].top \in Tops
                      /\ run[r].at \in {"daemon", "foreground", "nowhere", "left"}
  BY DEF Views
<1>2. ASSUME NEW r \in Runs, Works(r) PROVE run' \in [Runs -> Views] /\ up' \in BOOLEAN
  <2>1. PICK v \in {At(run[r].top, "", "nowhere")}
                   \cup {At(top, "", run[r].at) : top \in Going}
                   \cup {At("PAUSED_FOR_HUMAN", "recorded", "nowhere"),
                         At("COMPLETED", "", "nowhere")} : run' = [run EXCEPT ![r] = v]
    BY <1>2 DEF Works
  <2>2. v \in Views BY <1>1, <2>1, ViewsAreViews DEF Tops
  <2> QED BY <1>2, <2>1, <2>2 DEF Works
<1>3. ASSUME NEW r \in Runs, ForegroundDies(r)
      PROVE  run' \in [Runs -> Views] /\ up' \in BOOLEAN
  <2>1. At(run[r].top, "", "left") \in Views BY <1>1, ViewsAreViews
  <2> QED BY <1>3, <2>1 DEF ForegroundDies
<1>4. CASE DaemonDies
  <2>1. \A r \in Runs : At(run[r].top, "", "nowhere") \in Views BY <1>1, ViewsAreViews
  <2> QED BY <1>4, <2>1 DEF DaemonDies
<1>5. CASE DaemonStarts BY <1>5, RecoveredViews DEF DaemonStarts
<1> QED BY <1>2, <1>3, <1>4, <1>5 DEF World

\* Every step keeps what is seen of its kind.
LEMMA NextSeen == ASSUME Seen, [Next]_vars PROVE Seen'
<1>1. /\ run \in [Runs -> Views] /\ up \in BOOLEAN /\ rows \in [Runs -> Rows] /\ sel \in Runs
      /\ pending \in Jobs \cup {None} /\ hint \in Jobs \cup {None} /\ asked \in Jobs \cup {None}
  BY DEF Seen
<1>2. ASSUME UNCHANGED consoleVars, run' \in [Runs -> Views], up' \in BOOLEAN PROVE Seen'
  BY <1>1, <1>2 DEF consoleVars, Seen
<1>3. ASSUME UNCHANGED <<viewVars, consoleVars>> PROVE Seen'
  BY <1>1, <1>2, <1>3 DEF viewVars
<1>4. CASE World
  <2>1. UNCHANGED consoleVars BY <1>4 DEF World, Idle
  <2> QED BY <1>1, <1>2, <1>4, <2>1, WorldViews
<1>5. CASE Polls
  <2>1. /\ UNCHANGED <<run, up, rows, sel, asked>> /\ pending' \in {pending, None}
        /\ \/ UNCHANGED hint
           \/ \E low \in BOOLEAN : hint' = Answered(low)
    BY <1>5 DEF Polls, PollPending, viewVars
  <2>2. hint' \in Jobs \cup {None} BY <1>1, <2>1 DEF Answered
  <2> QED BY <1>1, <2>1, <2>2 DEF Seen
<1>6. CASE AtConsole
  <2>1. CASE Scan
    <3>1. rows' = [r \in Runs |-> Row(r)] BY <2>1 DEF Scan
    <3>2. rows' \in [Runs -> Rows] BY <1>1, <3>1, RowsAreRows
    <3> QED BY <1>1, <2>1, <3>2 DEF Scan, viewVars, Seen
  <2>2. CASE Move BY <1>1, <2>2 DEF Move, viewVars, Seen
  <2>3. CASE KeyEscalate BY <1>1, <2>3 DEF KeyEscalate, viewVars, Seen
  <2>4. CASE KeyPause \/ KeyResume
    <3>1. Selected \in Rows BY <1>1 DEF Selected
    <3> QED BY <1>1, <1>2, <2>4, <3>1, CallsView DEF KeyPause, KeyResume
  <2>5. ASSUME NEW j \in Jobs, KeyJob(j) PROVE Seen'
    BY <1>1, <2>5 DEF KeyJob, Ask, Explain, viewVars, Seen
  <2> QED BY <1>6, <2>1, <2>2, <2>3, <2>4, <2>5 DEF AtConsole
<1>7. CASE InChat
  <2>0. UNCHANGED consoleVars BY <1>7 DEF InChat
  <2>1. CASE UNCHANGED viewVars BY <1>3, <2>0, <2>1
  <2>2. ASSUME NEW raises, RunsCommand(raises) PROVE Seen'
    <3>1. UNCHANGED viewVars \/ \E r \in Runs : DoPause(Row(r)) \/ DoResume(Row(r))
      BY <2>2 DEF RunsCommand, JobCommand, OtherCommand
    <3>2. run' \in [Runs -> Views] /\ up' \in BOOLEAN
      BY <1>1, <3>1, RowsAreRows, CallsView DEF viewVars
    <3> QED BY <1>2, <2>0, <3>2
  <2> QED BY <1>7, <2>1, <2>2
      DEF InChat, HostDies, Ages, Fetch, TakeUpdate, Posted, RunThread, Quiet
<1>8. ASSUME NEW j \in Jobs, JobEnds(j) \/ Answers(j) \/ GetsLate(j) PROVE Seen'
  BY <1>3, <1>8 DEF JobEnds, Answers, GetsLate, AnswerJob, JobLate
<1>9. CASE UNCHANGED vars BY <1>3, <1>9 DEF vars
<1> QED BY <1>4, <1>5, <1>6, <1>7, <1>8, <1>9 DEF Next

\* The step of a channel, by what it does to the hosts, the messages and the jobs followed.
LEMMA ReceiverStays ==
    ASSUME Receiver, UNCHANGED <<sent, confirmed, offset, batch, seen>>,
           host' = host \/ \E h \in Hosts : HostStarts(h),
           late' \subseteq tracked', tracked' \subseteq Jobs
    PROVE  Receiver'
<1>1. CASE host' = host BY <1>1 DEF Receiver
<1>2. ASSUME NEW h \in Hosts, HostStarts(h) PROVE Receiver'
  <2>1. host' = [host EXCEPT ![h] = IF Receiving THEN "sends" ELSE "receives"]
    BY <1>2 DEF HostStarts
  <2>2. host' \in [Hosts -> {"off", "sends", "receives", "dead"}] BY <2>1 DEF Receiver
  <2>3. \A f, g \in Hosts : host'[f] = "receives" /\ host'[g] = "receives" => f = g
    BY <2>1 DEF Receiver, Receiving
  <2> QED BY <2>2, <2>3 DEF Receiver
<1> QED BY <1>1, <1>2

\* A command follows a job, or none.
LEMMA CommandFollows ==
    ASSUME Receiver, UNCHANGED late, NEW raises, RunsCommand(raises) \/ Quiet
    PROVE  late' \subseteq tracked' /\ tracked' \subseteq Jobs
BY DEF Receiver, RunsCommand, JobCommand, OtherCommand, Quiet

\* Every step keeps one receiver at most, and what it has within what was sent.
LEMMA NextReceiver == ASSUME Receiver, [Next]_vars PROVE Receiver'
<1> USE InboundAssumption
<1>0. /\ late \subseteq tracked /\ tracked \subseteq Jobs
      /\ sent \in Nat /\ confirmed \in Nat /\ offset \in Nat /\ batch \in Seq(Nat)
  BY DEF Receiver
<1>1. CASE World \/ Polls \/ AtConsole
  BY <1>0, <1>1, ReceiverStays
  DEF World, Idle, Polls, AtConsole, inboundVars, telegramVars, larkVars
<1>2. ASSUME NEW j \in Jobs, JobEnds(j) \/ Answers(j) \/ GetsLate(j) PROVE Receiver'
  <2>1. /\ UNCHANGED <<sent, confirmed, offset, batch, seen, host>>
        /\ late' \subseteq tracked' /\ tracked' \subseteq Jobs
    BY <1>0, <1>2
    DEF JobEnds, Answers, GetsLate, AnswerJob, JobLate, inboundVars, telegramVars, larkVars
  <2> QED BY <2>1, ReceiverStays
<1>3. CASE InChat
  <2>1. CASE Sends
    <3>1. sent + 1 \in Messages /\ sent' = sent + 1
          /\ UNCHANGED <<host, confirmed, offset, batch, seen, tracked, late>>
      BY <2>1 DEF Sends, telegramVars, larkVars
    <3>2. \A n \in 1 .. Len(batch) : batch[n] \in Nat /\ batch[n] <= sent + 1
      BY <1>0 DEF Receiver
    <3> QED BY <1>0, <3>1, <3>2 DEF Receiver
  <2>2. ASSUME NEW h \in Hosts, HostStarts(h),
               UNCHANGED <<sent, telegramVars, larkVars, tracked, late>>
        PROVE  Receiver'
    BY <1>0, <2>2, ReceiverStays DEF telegramVars, larkVars
  <2>3. ASSUME NEW h \in Hosts, HostDies(h, surface = "lark") PROVE Receiver'
    <3>1. /\ host' = [host EXCEPT ![h] = "dead"] /\ offset' = 0 /\ batch' = <<>> /\ seen' = {}
          /\ tracked' = {} /\ late' = {} /\ UNCHANGED <<sent, confirmed>>
      BY <2>3 DEF HostDies
    <3>2. IsFiniteSet(seen') /\ Cardinality(seen') <= SeenMax BY <3>1, FS_EmptySet
    <3>3. batch' \in Seq(Nat) /\ Len(batch') = 0 BY <3>1
    <3>4. \A f, g \in Hosts : host'[f] = "receives" /\ host'[g] = "receives" => f = g
      BY <3>1 DEF Receiver
    <3>5. host' \in [Hosts -> {"off", "sends", "receives", "dead"}] BY <3>1 DEF Receiver
    <3> QED BY <1>0, <3>1, <3>2, <3>3, <3>4, <3>5 DEF Receiver
  <2>4. CASE Ages
    BY <1>0, <2>4, ReceiverStays DEF Ages, larkVars
  <2>5. CASE Fetch
    <3>1. /\ confirmed' = TakenUp /\ UNCHANGED <<host, sent, offset, seen, tracked, late>>
          /\ batch' = [n \in 1 .. sent - TakenUp |-> TakenUp + n]
      BY <2>5 DEF Fetch, TakenUp, larkVars
    <3>2. TakenUp \in Nat /\ TakenUp <= sent BY <1>0 DEF Receiver, TakenUp
    <3>3. /\ sent - TakenUp \in Nat
          /\ \A n \in 1 .. sent - TakenUp : TakenUp + n \in Nat /\ TakenUp + n <= sent
      BY <1>0, <3>2
    <3>4. batch' \in [1 .. sent - TakenUp -> Nat] BY <3>1, <3>3
    <3>5. batch' \in Seq(Nat) /\ Len(batch') = sent - TakenUp BY <3>3, <3>4
    <3>6. \A n \in 1 .. Len(batch') : batch'[n] <= sent' BY <3>1, <3>3, <3>5
    <3> QED BY <3>1, <3>2, <3>5, <3>6 DEF Receiver
  <2>6. CASE TakeUpdate
    <3>1. /\ batch # <<>> /\ offset' = Head(batch)
          /\ UNCHANGED <<host, sent, confirmed, seen, late>>
          /\ batch' = Tail(batch) \/ batch' = <<>>
          /\ Quiet \/ RunsCommand(FALSE) \/ RunsCommand(TRUE)
      BY <2>6 DEF TakeUpdate, OffsetAfter, larkVars
    <3>2. late' \subseteq tracked' /\ tracked' \subseteq Jobs BY <3>1, CommandFollows
    <3>3. /\ Head(batch) = batch[1] /\ Head(batch) \in Nat /\ Len(batch) \in Nat \ {0}
          /\ Tail(batch) \in Seq(Nat) /\ Len(Tail(batch)) = Len(batch) - 1
          /\ \A n \in 1 .. Len(batch) - 1 : Tail(batch)[n] = batch[n + 1]
      BY <1>0, <3>1
    <3>4. \A n \in 1 .. Len(batch) : batch[n] <= sent BY DEF Receiver
    <3>5. Head(batch) <= sent BY <3>3, <3>4
    <3>6. batch' \in Seq(Nat) /\ \A n \in 1 .. Len(batch') : batch'[n] <= sent
      <4>1. CASE batch' = Tail(batch) BY <3>3, <3>4, <4>1
      <4>2. CASE batch' = <<>>
        <5>1. <<>> \in Seq(Nat) /\ Len(<<>>) = 0 OBVIOUS
        <5> QED BY <4>2, <5>1
      <4> QED BY <3>1, <4>1, <4>2
    <3> QED BY <3>1, <3>2, <3>3, <3>5, <3>6 DEF Receiver
  <2>7. ASSUME NEW m \in Messages, Posted(m) PROVE Receiver'
    <3>1. /\ UNCHANGED <<host, sent, confirmed, offset, batch, late>>
          /\ Quiet \/ \E raises \in BOOLEAN : RunsCommand(raises)
          /\ seen' = seen \/ seen' \in Kept(seen \cup {m})
      BY <2>7 DEF Posted, telegramVars
    <3>2. late' \subseteq tracked' /\ tracked' \subseteq Jobs BY <3>1, CommandFollows
    <3>3. CASE seen' = seen BY <3>1, <3>2, <3>3, ReceiverStays
    <3>4. CASE seen' \in Kept(seen \cup {m})
      <4> DEFINE s == seen \cup {m}
      <4>1. IsFiniteSet(s) /\ Cardinality(s) \in Nat
        <5>1. IsFiniteSet(seen) BY DEF Receiver
        <5>2. IsFiniteSet(s) BY <5>1, FS_AddElement
        <5> QED BY <5>2, FS_CardinalityType
      <4>2. \/ Cardinality(s) > SeenMax /\ seen' \subseteq s
               /\ Cardinality(seen') = SeenMax \div 2
            \/ Cardinality(s) <= SeenMax /\ seen' = s
        <5> HIDE DEF s
        <5>1. seen' \in Kept(s) BY <3>4 DEF s
        <5> QED BY <4>1, <5>1 DEF Kept
      <4> HIDE DEF s
      <4>3. SeenMax \div 2 <= SeenMax OBVIOUS
      <4>4. IsFiniteSet(seen') /\ Cardinality(seen') <= SeenMax
        BY <4>1, <4>2, <4>3, FS_Subset
      <4> QED BY <3>1, <3>2, <4>4 DEF Receiver
    <3> QED BY <3>1, <3>3, <3>4
  <2>8. ASSUME NEW m \in Messages, RunThread(m) PROVE Receiver'
    <3>1. /\ UNCHANGED <<host, sent, confirmed, offset, batch, seen, late>>
          /\ \E raises \in BOOLEAN : RunsCommand(raises)
      BY <2>8 DEF RunThread, telegramVars
    <3>2. late' \subseteq tracked' /\ tracked' \subseteq Jobs BY <3>1, CommandFollows
    <3> QED BY <3>1, <3>2, ReceiverStays
  <2> QED BY <1>3, <2>1, <2>2, <2>3, <2>4, <2>5, <2>6, <2>7, <2>8 DEF InChat
<1>4. CASE UNCHANGED vars
  BY <1>0, <1>4, ReceiverStays DEF vars, inboundVars, telegramVars, larkVars
<1> QED BY <1>1, <1>2, <1>3, <1>4 DEF Next

\* Every variable holds a value of its kind: a tracker keeps no more finished jobs than it
\* may and each of them once, and one process at most receives (_evict_old,
\* OperatorChannelHost).
THEOREM TypesHold == Spec => []TypeOK
<1>1. Init => Trackers /\ Seen /\ Receiver
  <2> SUFFICES ASSUME Init PROVE Trackers /\ Seen /\ Receiver OBVIOUS
  <2>1. Trackers
    <3>1. \A p \in Places : finished[p] = <<>> /\ Len(<<>>) = 0 BY DEF Init, JobsInit
    <3>2. finished \in [Places -> Seq(Jobs)]
      <4>1. <<>> \in Seq(Jobs) OBVIOUS
      <4> QED BY <4>1 DEF Init, JobsInit
    <3>3. JobsTyped BY DEF Init, JobsInit, JobsTyped, Places, States
    <3> QED BY <3>1, <3>2, <3>3, OperatorJobsAssumption DEF Trackers
  <2>2. Seen
    <3>1. run \in [Runs -> Views] /\ up \in BOOLEAN
      <4>1. PICK v \in {At("ATTACHED", "", "foreground"), At("PAUSED_FOR_HUMAN", "", "nowhere"),
                        At("ATTACHED", "", "daemon")} :
              run = [r \in Runs |-> IF r \in Live THEN v ELSE At("COMPLETED", "", "nowhere")]
        BY DEF Init, ViewsInit
      <4>2. v \in Views /\ At("COMPLETED", "", "nowhere") \in Views
        BY <4>1, ViewsAreViews DEF Tops, Going
      <4> QED BY <4>1, <4>2 DEF Init, ViewsInit
    <3>2. rows \in [Runs -> Rows] BY <3>1, RowsAreRows DEF Init, ConsoleInit
    <3> QED BY <3>1, <3>2 DEF Init, ConsoleInit, Seen
  <2>3. Receiver
    <3>1. /\ host = [h \in Hosts |-> "off"] /\ sent = 0 /\ confirmed = 0 /\ offset = 0
          /\ batch = <<>> /\ seen = {} /\ tracked = {} /\ late = {}
      BY DEF Init, InboundInit
    <3>2. IsFiniteSet(seen) /\ Cardinality(seen) <= SeenMax
      BY <3>1, FS_EmptySet, InboundAssumption
    <3>3. batch \in Seq(Nat) /\ Len(batch) = 0 BY <3>1
    <3> QED BY <3>1, <3>2, <3>3 DEF Receiver
  <2> QED BY <2>1, <2>2, <2>3
<1>2. Trackers /\ Seen /\ Receiver => TypeOK
  <2> SUFFICES ASSUME Trackers, Seen, Receiver PROVE TypeOK OBVIOUS
  <2>1. \A p \in Places :
          /\ Len(finished[p]) <= MaxCompleted
          /\ \A n \in DOMAIN finished[p] :
               job[finished[p][n]].at = p /\ job[finished[p][n]].state = "done"
    <3>1. \A p \in Places : DOMAIN finished[p] = 1 .. Len(finished[p]) BY DEF Trackers
    <3> QED BY <3>1 DEF Trackers
  <2>2. Cardinality({h \in Hosts : host[h] = "receives"}) <= 1
    <3> DEFINE R == {h \in Hosts : host[h] = "receives"}
    <3>1. R = {} \/ \E h \in Hosts : R = {h} BY DEF Receiver
    <3> HIDE DEF R
    <3>2. CASE R = {}
      <4>1. Cardinality(R) = 0 BY <3>2, FS_EmptySet
      <4> QED BY <4>1 DEF R
    <3>3. ASSUME NEW h \in Hosts, R = {h} PROVE Cardinality(R) <= 1
      <4>1. Cardinality({h}) = 1 BY FS_Singleton
      <4> QED BY <3>3, <4>1
    <3> QED BY <3>1, <3>2, <3>3 DEF R
  <2> QED BY <2>1, <2>2 DEF TypeOK, Trackers, JobsTyped, Seen, Receiver
<1>3. Trackers /\ Seen /\ Receiver /\ [Next]_vars => Trackers' /\ Seen' /\ Receiver'
  BY NextTracked, NextSeen, NextReceiver
<1> QED BY <1>1, <1>2, <1>3, PTL DEF Spec
===============================================================================
