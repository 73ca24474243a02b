---------------------------- MODULE MCTimerQueue ----------------------------
EXTENDS TimerQueue, TLC

CONSTANTS once, soon, often

MCDelays == {-1, 0, 3}
MCInterval == (once :> 0) @@ (soon :> 0) @@ (often :> 2)
==============================================================================
