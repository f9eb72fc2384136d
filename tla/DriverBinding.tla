----------------------------- MODULE DriverBinding -----------------------------
(***************************************************************************)
(* DriverExample.c and the part of the UEFI handle database it lives in.   *)
(*                                                                         *)
(* The example is loaded as one or more driver images.  The firmware calls *)
(* the driver binding functions of an image from ConnectController(),      *)
(* DisconnectController() and from the removal of a PCI function.  A call  *)
(* made at one task priority level can be preempted, between any two boot  *)
(* services, by an event notification at a higher level that connects,     *)
(* disconnects or removes controllers itself (hot plug).                   *)
(*                                                                         *)
(* The database keeps, for every controller, the agents that have its PCI  *)
(* I/O protocol open BY_DRIVER.  The driver keeps no state of its own: the *)
(* open entry IS the ownership of the device, so everything depends on     *)
(* Supported(), Start() and Stop() opening and closing it in step with     *)
(* what they return.  `managing' records what they returned.               *)
(*                                                                         *)
(* One assumption about the firmware: no call on a controller preempts the *)
(* open/close pair with which Supported() probes the same controller.      *)
(***************************************************************************)
EXTENDS Integers, FiniteSets

CONSTANTS
    Images,        \* loaded copies of the driver (agents in the open list)
    Controllers,   \* controller handles of PCI functions
    MaxLevel,      \* nesting of task priority levels that make calls
    MaxCalls       \* bound on the environment's calls and hot plug events

ASSUME LevelAssumption == MaxLevel \in Nat \ {0}
ASSUME CallAssumption == MaxCalls \in Nat

VARIABLES
    loaded,     \* images whose driver binding protocol is installed
    present,    \* controllers that carry the PCI I/O protocol
    opens,      \* opens[c]: agents with c's PCI I/O open BY_DRIVER
    managing,   \* managing[c]: images whose Start(c) succeeded, Stop(c) not yet
    frame,      \* frame[l]: the call in progress at priority level l
    calls       \* environment calls made so far

vars == <<loaded, present, opens, managing, frame, calls>>

Levels == 1 .. MaxLevel

Phases == {"idle", "scan", "probe", "start", "disconnect", "remove"}

\* A call: its phase, its controller, the images still to be tried (or to
\* be stopped), and the image whose function runs.
Frame == [pc : Phases, ctl : Controllers, todo : SUBSET Images, img : Images]

TypeOK ==
    /\ loaded \subseteq Images
    /\ present \subseteq Controllers
    /\ opens \in [Controllers -> SUBSET Images]
    /\ managing \in [Controllers -> SUBSET Images]
    /\ frame \in [Levels -> Frame]
    /\ calls \in 0 .. MaxCalls

--------------------------------------------------------------------------------
(* The handle database services the driver calls.                          *)

\* OpenProtocol(BY_DRIVER) can succeed: the interface is there and no agent
\* has it.  The same agent would get ALREADY_STARTED, another ACCESS_DENIED.
CanOpen(c) == c \in present /\ opens[c] = {}

\* A controller's open list after OpenProtocol and after CloseProtocol by
\* agent i.  Closing what is not open is NOT_FOUND and changes nothing.
Opened(c, i) == [opens EXCEPT ![c] = @ \cup {i}]
Closed(c, i) == [opens EXCEPT ![c] = @ \ {i}]

--------------------------------------------------------------------------------
(* Levels and calls.                                                       *)

\* Level l has the processor: nothing runs at a higher priority.
Runs(l) == \A m \in Levels : m > l => frame[m].pc = "idle"

\* A call on controller c can begin at level l.
CanBegin(l, c) ==
    /\ calls < MaxCalls
    /\ frame[l].pc = "idle"
    /\ Runs(l)
    /\ \A m \in Levels : frame[m].pc = "probe" => frame[m].ctl # c

\* Level l begins a call in the given phase, over a snapshot of images.
Begin(l, c, pc, images) ==
    /\ CanBegin(l, c)
    /\ frame' = [frame EXCEPT ![l] = [pc |-> pc, ctl |-> c, todo |-> images, img |-> @.img]]
    /\ calls' = calls + 1

ConnectController(l, c) ==
    /\ Begin(l, c, "scan", loaded)
    /\ UNCHANGED <<loaded, present, opens, managing>>

DisconnectController(l, c) ==
    /\ Begin(l, c, "disconnect", opens[c])
    /\ UNCHANGED <<loaded, present, opens, managing>>

\* The bus driver uninstalls PCI I/O from a removed function.
RemoveController(l, c) ==
    /\ c \in present
    /\ Begin(l, c, "remove", {})
    /\ UNCHANGED <<loaded, present, opens, managing>>

\* The bus driver installs PCI I/O on a function that appears, in an event
\* notification that may preempt every call in progress.
AddController(c) ==
    /\ calls < MaxCalls
    /\ c \notin present
    /\ present' = present \cup {c}
    /\ calls' = calls + 1
    /\ UNCHANGED <<loaded, opens, managing, frame>>

--------------------------------------------------------------------------------
(* The driver.                                                             *)

\* DriverExampleEntryPoint: the binding is installed.  When that fails the
\* error is returned, the image is unloaded and nothing has changed.
\* Images are started at the application level only.
DriverExampleEntryPoint(i) ==
    /\ i \notin loaded
    /\ \A l \in Levels : frame[l].pc = "idle"
    /\ loaded' = loaded \cup {i}
    /\ UNCHANGED <<present, opens, managing, frame, calls>>

\* The open list when Supported's or Start's OpenProtocol fails: they return
\* the error at once.
OpensAfterErrorCloses(c, i) == Closed(c, i)
OpensAfterError(c, i) == opens

\* Supported, up to its OpenProtocol.  The error return makes the firmware
\* pass the image over; OpenProtocol may also be out of resources.
SupportedOpen(l, i) ==
    LET c == frame[l].ctl IN
    /\ Runs(l) /\ frame[l].pc = "scan" /\ i \in frame[l].todo
    /\ \/ /\ CanOpen(c)
          /\ opens' = Opened(c, i)
          /\ frame' = [frame EXCEPT ![l] = [@ EXCEPT !.pc = "probe", !.img = i]]
       \/ /\ opens' = OpensAfterError(c, i)
          /\ frame' = [frame EXCEPT ![l].todo = @ \ {i}]
    /\ UNCHANGED <<loaded, present, managing, calls>>

\* The open list after the probe: Supported gives the protocol back.
ProbeKeepsOpen(c, i) == opens
OpensAfterProbe(c, i) == Closed(c, i)

\* Supported, its CloseProtocol and EFI_SUCCESS.
SupportedClose(l) ==
    LET c == frame[l].ctl  i == frame[l].img IN
    /\ Runs(l) /\ frame[l].pc = "probe"
    /\ opens' = OpensAfterProbe(c, i)
    /\ frame' = [frame EXCEPT ![l].pc = "start"]
    /\ UNCHANGED <<loaded, present, managing, calls>>

\* Call f after its image has been tried: on with the others.
Tried(f) == [f EXCEPT !.pc = "scan", !.todo = @ \ {f.img}]

\* Start succeeds when its own OpenProtocol does, whatever Supported found.
\* EFI_SUCCESS means the image now manages the controller.
DriverBindingStart(l) ==
    LET c == frame[l].ctl  i == frame[l].img IN
    /\ Runs(l) /\ frame[l].pc = "start"
    /\ \/ /\ CanOpen(c)
          /\ opens' = Opened(c, i)
          /\ managing' = [managing EXCEPT ![c] = @ \cup {i}]
       \/ /\ opens' = OpensAfterError(c, i)
          /\ UNCHANGED managing
    /\ frame' = [frame EXCEPT ![l] = Tried(frame[l])]
    /\ UNCHANGED <<loaded, present, calls>>

\* The open list after Stop: the protocol Start opened is closed.
StopKeepsOpen(c, i) == opens
OpensAfterStop(c, i) == Closed(c, i)

\* Stop: always EFI_SUCCESS, so image i no longer manages controller c.
DriverBindingStop(c, i) ==
    /\ opens' = OpensAfterStop(c, i)
    /\ managing' = [managing EXCEPT ![c] = @ \ {i}]

--------------------------------------------------------------------------------
(* The firmware's side of the calls.                                       *)

\* DisconnectController stops the images of its snapshot one by one.
DisconnectStops(l, i) ==
    /\ Runs(l) /\ frame[l].pc = "disconnect" /\ i \in frame[l].todo
    /\ DriverBindingStop(frame[l].ctl, i)
    /\ frame' = [frame EXCEPT ![l].todo = @ \ {i}]
    /\ UNCHANGED <<loaded, present, calls>>

\* A removal stops agents until nobody has the protocol open.
RemoveStops(l, i) ==
    /\ Runs(l) /\ frame[l].pc = "remove" /\ i \in opens[frame[l].ctl]
    /\ DriverBindingStop(frame[l].ctl, i)
    /\ UNCHANGED <<loaded, present, frame, calls>>

\* Then, under the database lock, the interface goes.
RemoveUninstalls(l) ==
    /\ Runs(l) /\ frame[l].pc = "remove" /\ opens[frame[l].ctl] = {}
    /\ present' = present \ {frame[l].ctl}
    /\ frame' = [frame EXCEPT ![l].pc = "idle"]
    /\ UNCHANGED <<loaded, opens, managing, calls>>

\* A connect or disconnect call returns when no image is left to call.
CallReturns(l) ==
    /\ Runs(l) /\ frame[l].pc \in {"scan", "disconnect"} /\ frame[l].todo = {}
    /\ frame' = [frame EXCEPT ![l].pc = "idle"]
    /\ UNCHANGED <<loaded, present, opens, managing, calls>>

--------------------------------------------------------------------------------
Init ==
    /\ loaded = {}
    /\ present \in SUBSET Controllers
    /\ opens = [c \in Controllers |-> {}]
    /\ managing = [c \in Controllers |-> {}]
    /\ frame \in [Levels -> [pc : {"idle"}, ctl : Controllers, todo : {{}}, img : Images]]
    /\ calls = 0

\* What goes on inside a call at level l.
Step(l) ==
    \/ \E i \in Images : SupportedOpen(l, i)
    \/ SupportedClose(l)
    \/ DriverBindingStart(l)
    \/ \E i \in Images : DisconnectStops(l, i)
    \/ \E i \in Images : RemoveStops(l, i)
    \/ RemoveUninstalls(l)
    \/ CallReturns(l)

\* What the environment may do at any time.
Environment ==
    \/ \E i \in Images : DriverExampleEntryPoint(i)
    \/ \E c \in Controllers : AddController(c)
    \/ \E l \in Levels, c \in Controllers : ConnectController(l, c)
    \/ \E l \in Levels, c \in Controllers : DisconnectController(l, c)
    \/ \E l \in Levels, c \in Controllers : RemoveController(l, c)

Next == Environment \/ \E l \in Levels : Step(l)

Spec == Init /\ [][Next]_vars

\* The processor keeps executing the call at the highest active level.
FairSpec == Spec /\ \A l \in Levels : WF_vars(Step(l))

--------------------------------------------------------------------------------
(* Properties.                                                             *)

\* The images that are between OpenProtocol and CloseProtocol of Supported.
Probing(c) ==
    {frame[l].img : l \in {m \in Levels : frame[m].pc = "probe" /\ frame[m].ctl = c}}

\* A controller's PCI I/O is open for exactly the image that manages it, or
\* that is probing it: no success is returned without the protocol, no probe
\* or stop leaves it open, and no error path closes a manager's entry.
OpenIffManagedOrProbed ==
    \A c \in Controllers : opens[c] = managing[c] \cup Probing(c)

\* A managed controller still carries PCI I/O.  A removal waits for the open
\* list to empty, so it stops every image whose Start succeeded only if no
\* error path of Supported or Start, no probe and no second Start of the
\* same image, has taken that image off the list before.
ManagedIsPresent == \A c \in Controllers : managing[c] # {} => c \in present

\* What the firmware's own checks give the proof: at most one agent has a
\* controller open, and what is open carries PCI I/O.
OneAgentPerController ==
    \A c \in Controllers : \A i, j \in opens[c] : i = j

OpenIsPresent == \A c \in Controllers : opens[c] # {} => c \in present

\* What keeps a probe exclusive: a call nested inside it is about another
\* controller, so that nobody starts or stops a driver on the probed one.
ProbeUndisturbed ==
    /\ \A l, m \in Levels :
         m > l /\ frame[l].pc = "probe" /\ frame[m].pc # "idle" =>
            frame[m].ctl # frame[l].ctl
    /\ \A l \in Levels : frame[l].pc = "probe" => managing[frame[l].ctl] = {}

\* The inductive invariant behind the safety properties.
IInv == OpenIffManagedOrProbed /\ OneAgentPerController /\ OpenIsPresent /\ ProbeUndisturbed

\* Ownership as the abstract specification tells it.
Ownership == INSTANCE DeviceOwnership WITH owners <- managing

\* Start and Stop change hands as DeviceOwnership allows: through a free
\* controller, never from one image straight to another.
ImplementsOwnership == Ownership!Spec

\* Every connect, disconnect and removal returns; a removal can always get
\* every driver off the controller because Stop always releases it.
CallsReturn == \A l \in Levels : frame[l].pc # "idle" ~> frame[l].pc = "idle"
================================================================================
