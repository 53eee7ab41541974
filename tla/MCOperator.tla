------------------------------- MODULE MCOperator -------------------------------
(***************************************************************************)
(* One run that goes on and one that has ended, two jobs of which a        *)
(* tracker keeps one, two processes with the bot, and two messages.        *)
(***************************************************************************)
EXTENDS OperatorProps

CONSTANTS r1, r2

MCRuns == {r1, r2}
MCLive == {r1}
MCMessages == {1, 2}
MCButtons == {2}
===============================================================================
