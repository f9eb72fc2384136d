---------------------------- MODULE TimerDemo_proofs ----------------------------
(***************************************************************************)
(* The safety of the timer demo, for any number of expiries.  TypeOK is    *)
(* not inductive alone: Count stays within the expiries only because no    *)
(* notification is counted twice, which is part of TimerInv.               *)
(***************************************************************************)
EXTENDS TimerDemo, TLAPS

\* The initial states satisfy the invariant.
LEMMA InitInv == Init => TypeOK /\ TimerInv
  BY TickAssumption DEF Init, TypeOK, TimerInv, Outstanding, TicksWanted,
     TPL_APPLICATION, TPL_CALLBACK, TPL_NOTIFY

\* Every step of the application, of a notification and of the timers keeps
\* the type and the inductive invariant.
LEMMA StepInv == TypeOK /\ TimerInv /\ [Next]_vars => TypeOK' /\ TimerInv'
<1> SUFFICES ASSUME TypeOK, TimerInv, [Next]_vars PROVE TypeOK' /\ TimerInv'
  OBVIOUS
<1> USE TickAssumption
    DEF TypeOK, TimerInv, Outstanding, TicksWanted, TPL_APPLICATION, TPL_CALLBACK, TPL_NOTIFY,
        App, AppRuns, CanDispatch
<1>1. CASE InitContext
  BY <1>1 DEF InitContext, InitialContext
<1>2. CASE CreateEvent
  BY <1>2 DEF CreateEvent
<1>3. CASE SetTimer
  BY <1>3 DEF SetTimer, PollTpl, EventAfterSetError
<1>4. CASE PollDone
  BY <1>4 DEF PollDone, AfterPoll
<1>5. CASE CancelTimer
  BY <1>5 DEF CancelTimer
<1>6. CASE CloseEvent
  BY <1>6 DEF CloseEvent
<1>7. CASE RaiseTPL
  BY <1>7 DEF RaiseTPL, CriticalTpl
<1>8. CASE RestoreTPL
  BY <1>8 DEF RestoreTPL, RestoredTpl
<1>9. CASE Dispatch
  BY <1>9 DEF Dispatch
<1>10. CASE TimerCallback
  BY <1>10 DEF TimerCallback, IsDone
<1>11. CASE SystemCallback
  BY <1>11 DEF SystemCallback
<1>12. CASE DemoTick
  BY <1>12 DEF DemoTick
<1>13. CASE SystemTick
  BY <1>13 DEF SystemTick
<1>14. CASE UNCHANGED vars
  BY <1>14 DEF vars
<1> QED
  BY <1>1, <1>2, <1>3, <1>4, <1>5, <1>6, <1>7, <1>8, <1>9, <1>10, <1>11, <1>12, <1>13, <1>14
  DEF Next, Application, Notification

\* Type correctness, with the inductive invariant it needs.
THEOREM TimerTypeCorrect == Spec => [](TypeOK /\ TimerInv)
<1> QED
  BY InitInv, StepInv, PTL DEF Spec

\* The notification function never runs, and is never queued, once the
\* frame that holds its context is gone.
THEOREM DeadFrameSafe == Spec => []NoCallbackIntoDeadFrame
<1>1. TypeOK /\ TimerInv => NoCallbackIntoDeadFrame
  BY DEF TypeOK, TimerInv, NoCallbackIntoDeadFrame, InFrame
<1> QED
  BY <1>1, TimerTypeCorrect, PTL

\* No path out of DemoBootServicesEvents leaves its event behind.
THEOREM EventAlwaysReleased == Spec => []EventReleased
<1>1. TypeOK /\ TimerInv => EventReleased
  BY DEF TypeOK, TimerInv, EventReleased, InFrame
<1> QED
  BY <1>1, TimerTypeCorrect, PTL

\* The demo leaves its polling loop only after five counted notifications.
THEOREM FiveTicksCounted == Spec => []FiveTicksSeen
<1>1. TypeOK /\ TimerInv => FiveTicksSeen
  BY DEF TypeOK, TimerInv, FiveTicksSeen, Outstanding
<1> QED
  BY <1>1, TimerTypeCorrect, PTL

\* No callback-level notification runs inside the raised section.
THEOREM RaisedSectionSafe == Spec => []CriticalSectionUninterrupted
<1>1. TimerInv => CriticalSectionUninterrupted
  BY DEF TimerInv, CriticalSectionUninterrupted
<1> QED
  BY <1>1, TimerTypeCorrect, PTL

================================================================================
