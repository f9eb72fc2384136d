------------------------------- MODULE TimerDemo -------------------------------
(***************************************************************************)
(* ServicesExample.c: DemoBootServicesEvents, its notification function    *)
(* TimerCallback, and DemoTaskPriorityLevels, as ServicesExampleMain calls *)
(* them one after the other.                                               *)
(*                                                                         *)
(* Three activities share the processor.  The application runs at          *)
(* TPL_APPLICATION, or at the level it raised to.  The timer interrupt may *)
(* come between any two steps and queues the notification of the demo's    *)
(* periodic timer, or of a timer of the firmware itself (the system event).*)
(* A queued notification is dispatched when the current level is below     *)
(* TPL_CALLBACK, and then before the application's next step; it preempts  *)
(* the application.  A timer that expires while its notification is        *)
(* already queued queues nothing.                                          *)
(*                                                                         *)
(* The context of the callback, TIMER_CONTEXT, is a local variable of      *)
(* DemoBootServicesEvents: it exists only while that function runs.        *)
(***************************************************************************)
EXTENDS Integers

CONSTANT MaxTicks    \* bound on the expiries that queue a notification

\* The numbers of the task priority levels, and the ticks the demo waits for.
TPL_APPLICATION == 4
TPL_CALLBACK == 8
TPL_NOTIFY == 16
TicksWanted == 5

\* The demo can end within the bound.
ASSUME TickAssumption == MaxTicks \in Nat /\ MaxTicks >= TicksWanted

VARIABLES
    pc,         \* where the application is
    tpl,        \* the level it runs at
    context,    \* TIMER_CONTEXT, in the frame of DemoBootServicesEvents
    event,      \* the timer event: "none", "created" or "armed"
    queued,     \* notifications queued: a subset of {"demo", "system"}
    running,    \* the notification function being executed, or "none"
    ticks       \* expiries of the demo's timer that queued a notification

vars == <<pc, tpl, context, event, queued, running, ticks>>

InFrame == pc \in {"init", "create", "set", "poll", "cancel", "close"}

TypeOK ==
    /\ pc \in {"init", "create", "set", "poll", "cancel", "close", "raise", "critical", "end"}
    /\ tpl \in {TPL_APPLICATION, TPL_CALLBACK, TPL_NOTIFY}
    /\ context \in [Count : 0 .. MaxTicks, Done : BOOLEAN]
    /\ event \in {"none", "created", "armed"}
    /\ queued \subseteq {"demo", "system"}
    /\ running \in {"none", "demo", "system"}
    /\ ticks \in 0 .. MaxTicks

--------------------------------------------------------------------------------
(* The firmware: timer interrupt and notification dispatch.                *)

\* The system's timer expires; its period is longer than its notification
\* function, or no application could run.
SystemTick ==
    /\ "system" \notin queued /\ running # "system"
    /\ queued' = queued \cup {"system"}
    /\ UNCHANGED <<pc, tpl, context, event, running, ticks>>

\* The demo's periodic timer expires.  (An expiry with the notification
\* already queued changes nothing and is not counted.)
DemoTick ==
    /\ event = "armed" /\ "demo" \notin queued
    /\ ticks < MaxTicks
    /\ ticks' = ticks + 1
    /\ queued' = queued \cup {"demo"}
    /\ UNCHANGED <<pc, tpl, context, event, running>>

\* Both notifications are at TPL_CALLBACK.
CanDispatch == running = "none" /\ queued # {} /\ tpl < TPL_CALLBACK

\* A notification is taken off the queue and its function called.
Dispatch ==
    /\ CanDispatch
    /\ \E e \in queued : running' = e /\ queued' = queued \ {e}
    /\ UNCHANGED <<pc, tpl, context, event, ticks>>

SystemCallback ==
    /\ running = "system"
    /\ running' = "none"
    /\ UNCHANGED <<pc, tpl, context, event, queued, ticks>>

--------------------------------------------------------------------------------
(* The notification function.                                              *)

\* When the context says that the demo is over.
OneTickShort(count) == count >= TicksWanted - 1
IsDone(count) == count >= TicksWanted

TimerCallback ==
    /\ running = "demo"
    /\ LET n == context.Count + 1 IN
         context' = [Count |-> n, Done |-> context.Done \/ IsDone(n)]
    /\ running' = "none"
    /\ UNCHANGED <<pc, tpl, event, queued, ticks>>

--------------------------------------------------------------------------------
(* The application.                                                        *)

\* The application executes: no notification runs or has to run first.
AppRuns == running = "none" /\ ~CanDispatch

App(from, to) == AppRuns /\ pc = from /\ pc' = to

\* What DemoBootServicesEvents puts in its context before it is shared.
InitialContext == [Count |-> 0, Done |-> FALSE]

InitContext ==
    /\ App("init", "create")
    /\ context' = InitialContext
    /\ UNCHANGED <<tpl, event, queued, running, ticks>>

\* CreateEvent; on an error the function returns it.
CreateEvent ==
    /\ \/ App("create", "set") /\ event' = "created"
       \/ App("create", "raise") /\ UNCHANGED event
    /\ UNCHANGED <<tpl, context, queued, running, ticks>>

\* The event after a failed SetTimer: it is closed before the return.
KeepsEvent == "created"
EventAfterSetError == "none"

\* The level the application polls at.
PollsRaised == TPL_NOTIFY
PollTpl == TPL_APPLICATION

\* SetTimer(TimerPeriodic).
SetTimer ==
    /\ \/ App("set", "poll") /\ event' = "armed" /\ tpl' = PollTpl
       \/ App("set", "raise") /\ event' = EventAfterSetError /\ UNCHANGED tpl
    /\ UNCHANGED <<context, queued, running, ticks>>

\* Where the application goes when it finds the context done.
ReturnsAtOnce == "raise"
AfterPoll == "cancel"

\* The polling loop.  WaitForEvent refuses an event with a notification
\* function, so the loop spins on the flag and waits for nothing else.
PollDone ==
    /\ App("poll", AfterPoll)
    /\ context.Done
    /\ UNCHANGED <<tpl, context, event, queued, running, ticks>>

\* SetTimer(TimerCancel): no more expiries; a queued notification stays.
CancelTimer ==
    /\ App("cancel", "close")
    /\ event' = "created"
    /\ UNCHANGED <<tpl, context, queued, running, ticks>>

\* CloseEvent takes the notification off the queue; then the demo returns.
CloseEvent ==
    /\ App("close", "raise")
    /\ event' = "none"
    /\ queued' = queued \ {"demo"}
    /\ UNCHANGED <<tpl, context, running, ticks>>

\* The level of the critical section.
NotRaised == TPL_APPLICATION
CriticalTpl == TPL_NOTIFY

RaiseTPL ==
    /\ App("raise", "critical")
    /\ tpl' = CriticalTpl
    /\ UNCHANGED <<context, event, queued, running, ticks>>

\* The level after RestoreTPL(OldTpl).
StaysRaised == tpl
RestoredTpl == TPL_APPLICATION

RestoreTPL ==
    /\ App("critical", "end")
    /\ tpl' = RestoredTpl
    /\ UNCHANGED <<context, event, queued, running, ticks>>

--------------------------------------------------------------------------------
\* The context is uninitialised until InitContext: any value in its range.
Init ==
    /\ pc = "init"
    /\ tpl = TPL_APPLICATION
    /\ context \in [Count : {0, MaxTicks}, Done : BOOLEAN]
    /\ event = "none"
    /\ queued = {}
    /\ running = "none"
    /\ ticks = 0

Application ==
    \/ InitContext \/ CreateEvent \/ SetTimer \/ PollDone \/ CancelTimer
    \/ CloseEvent \/ RaiseTPL \/ RestoreTPL

Notification == Dispatch \/ TimerCallback \/ SystemCallback

Next == Application \/ Notification \/ DemoTick \/ SystemTick

Spec == Init /\ [][Next]_vars

\* The processor never stops executing the application or the notification
\* that preempts it, and a periodic timer expires again and again.  Of the
\* choice between two queued notifications nothing is assumed: the queue of
\* a level is served in order, so neither is passed over for ever.
FairSpec ==
    /\ Spec
    /\ SF_vars(Application)
    /\ WF_vars(Notification)
    /\ SF_vars(Dispatch /\ running' = "demo")
    /\ SF_vars(Dispatch /\ running' = "system")
    /\ WF_vars(DemoTick)

--------------------------------------------------------------------------------
(* Properties.                                                             *)

\* The notification function is neither queued nor running once
\* DemoBootServicesEvents has returned and its context is gone.
NoCallbackIntoDeadFrame == ~InFrame => "demo" \notin queued /\ running # "demo"

\* Every path out of DemoBootServicesEvents gives its event back.
EventReleased == ~InFrame => event = "none"

\* The demo goes on only after five notifications have really run: Done is
\* not set early and no expiry is counted twice.
FiveTicksSeen ==
    /\ context.Count <= ticks \/ pc = "init"
    /\ pc \in {"cancel", "close"} => context.Done /\ context.Count >= TicksWanted

\* Expiries whose notification has not been counted yet.
Outstanding ==
    (IF "demo" \in queued THEN 1 ELSE 0) + (IF running = "demo" THEN 1 ELSE 0)

\* The inductive invariant: which part of the demo each state of the event,
\* of its notification and of the level belongs to, and how far Count and
\* Done may be.
TimerInv ==
    /\ event # "none" => pc \in {"set", "poll", "cancel", "close"}
    /\ event = "armed" => pc \in {"poll", "cancel"}
    /\ "demo" \in queued \/ running = "demo" => pc \in {"poll", "cancel", "close"}
    /\ tpl # TPL_APPLICATION => pc = "critical"
    /\ pc = "critical" => tpl = TPL_NOTIFY /\ running = "none"
    /\ pc = "init" => ticks = 0
    /\ pc # "init" => context.Count + Outstanding <= ticks
    /\ pc # "init" /\ context.Done => context.Count >= TicksWanted
    /\ pc \in {"cancel", "close"} => context.Done

\* Between RaiseTPL and RestoreTPL no TPL_CALLBACK notification runs.
CriticalSectionUninterrupted == pc = "critical" => running = "none"

\* A queued notification of the firmware is dispatched in the end: the
\* application's critical section only defers it.
NoNotificationStarves == "system" \in queued ~> running = "system"

\* The application gets through both demos.
DemosEnd == <>(pc = "end")
================================================================================
