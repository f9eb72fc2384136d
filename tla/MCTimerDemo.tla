------------------------------- MODULE MCTimerDemo -------------------------------
(* Seven expiries: the five the demo waits for and two that come while it   *)
(* cancels the timer and closes the event.                                 *)
EXTENDS TimerDemo
================================================================================
