-------------------------------- MODULE Operator --------------------------------
(***************************************************************************)
(* An operator of a worktree's runs at one of three surfaces: the console, *)
(* a Telegram chat, a Lark chat.                                           *)
(***************************************************************************)
EXTENDS Console, Inbound

VARIABLE surface

vars == <<viewVars, jobVars, consoleVars, inboundVars, surface>>

\* At the console the run may also be in the foreground, or paused by an older version.
Init ==
    /\ ViewsInit /\ JobsInit /\ ConsoleInit /\ InboundInit
    /\ surface \in {"console", "telegram", "lark"}
    /\ surface # "console" => \A r \in Live : run[r].at = "daemon"

Idle == UNCHANGED <<jobVars, consoleVars, inboundVars, surface>>

\* The runs and their daemon.
World ==
    \/ (\E r \in Runs : Works(r) \/ ForegroundDies(r)) /\ Idle
    \/ DaemonStarts /\ Idle
    \/ DaemonDies /\ TrackerDies("daemon") /\ UNCHANGED <<consoleVars, inboundVars, surface>>

\* The thread of a job ends.
JobEnds(j) == Finish(j) /\ UNCHANGED <<viewVars, consoleVars, inboundVars, surface>>

Polls ==
    /\ surface = "console"
    /\ PollPending /\ UNCHANGED <<inboundVars, surface>>

AtConsole ==
    /\ surface = "console"
    /\ \/ Scan \/ Move \/ KeyEscalate \/ KeyPause \/ KeyResume
       \/ \E j \in Jobs : KeyJob(j)
    /\ UNCHANGED <<inboundVars, surface>>

InChat ==
    /\ surface # "console"
    /\ \/ Sends /\ UNCHANGED <<viewVars, jobVars>>
       \/ \E h \in Hosts : \/ /\ HostStarts(h)
                              /\ UNCHANGED <<viewVars, jobVars, sent, telegramVars, larkVars,
                                             ran, forgot, tracked, late>>
                           \/ HostDies(h, surface = "lark")
       \/ surface = "telegram" /\ (Ages \/ Fetch \/ TakeUpdate)
       \/ surface = "lark" /\ \E m \in Messages : Posted(m) \/ RunThread(m)
    /\ UNCHANGED <<consoleVars, surface>>

Answers(j) == AnswerJob(j) /\ UNCHANGED <<consoleVars, surface>>
GetsLate(j) == JobLate(j) /\ UNCHANGED <<consoleVars, surface>>

Next ==
    \/ World \/ Polls \/ AtConsole \/ InChat
    \/ \E j \in Jobs : JobEnds(j) \/ Answers(j) \/ GetsLate(j)

\* The console polls on every turn of its loop and the poller every two seconds; two
\* minutes pass; a job's thread ends, its calls to the model being bounded.
Fairness ==
    /\ WF_vars(Polls)
    /\ \A j \in Jobs : WF_vars(JobEnds(j)) /\ WF_vars(Answers(j)) /\ WF_vars(GetsLate(j))

Spec == Init /\ [][Next]_vars /\ Fairness
===============================================================================
