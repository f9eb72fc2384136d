------------------------- MODULE HandleDatabase_proofs -------------------------
(***************************************************************************)
(* Proofs about the two programs that keep something in the handle         *)
(* database.                                                               *)
(*                                                                         *)
(*   DriverBinding     its open list discipline, for any number of images, *)
(*                     controllers and priority levels, and the proof that *)
(*                     it implements DeviceOwnership                       *)
(*   ProtocolExample   its installed interfaces, for any number of runs    *)
(***************************************************************************)
EXTENDS DriverBinding, ProtocolExample, SequenceTheorems, TLAPS

(* DriverBinding.                                                          *)

\* Every variable of DriverBinding keeps its type in every reachable state.
THEOREM TypeCorrect == Spec => []TypeOK
<1>1. Init => TypeOK
  BY LevelAssumption, CallAssumption DEF Init, TypeOK, Frame, Phases
<1>2. TypeOK /\ [Next]_vars => TypeOK'
  <2> SUFFICES ASSUME TypeOK, [Next]_vars PROVE TypeOK'
    OBVIOUS
  <2> USE LevelAssumption, CallAssumption DEF TypeOK, Frame, Phases
  <2>1. ASSUME NEW i \in Images, DriverExampleEntryPoint(i) PROVE TypeOK'
    BY <2>1 DEF DriverExampleEntryPoint
  <2>2. ASSUME NEW c \in Controllers, AddController(c) PROVE TypeOK'
    BY <2>2 DEF AddController
  <2>3. ASSUME NEW l \in Levels, NEW c \in Controllers, ConnectController(l, c) PROVE TypeOK'
    BY <2>3 DEF ConnectController, Begin, CanBegin
  <2>4. ASSUME NEW l \in Levels, NEW c \in Controllers, DisconnectController(l, c) PROVE TypeOK'
    <3>1. frame[l] \in Frame /\ opens[c] \in SUBSET Images
      OBVIOUS
    <3>2. frame' \in [Levels -> Frame]
      BY <2>4, <3>1 DEF DisconnectController, Begin
    <3> QED
      BY <2>4, <3>2 DEF DisconnectController, Begin, CanBegin
  <2>5. ASSUME NEW l \in Levels, NEW c \in Controllers, RemoveController(l, c) PROVE TypeOK'
    BY <2>5 DEF RemoveController, Begin, CanBegin
  <2>6. ASSUME NEW l \in Levels, NEW i \in Images, SupportedOpen(l, i) PROVE TypeOK'
    <3>1. frame[l] \in Frame /\ frame[l].ctl \in Controllers
      OBVIOUS
    <3>2. CASE opens' = Opened(frame[l].ctl, i)
               /\ frame' = [frame EXCEPT ![l] = [@ EXCEPT !.pc = "probe", !.img = i]]
      BY <2>6, <3>1, <3>2 DEF SupportedOpen, Opened
    <3>3. CASE opens' = OpensAfterError(frame[l].ctl, i)
               /\ frame' = [frame EXCEPT ![l].todo = @ \ {i}]
      BY <2>6, <3>1, <3>3 DEF SupportedOpen, OpensAfterError
    <3> QED
      BY <2>6, <3>2, <3>3 DEF SupportedOpen
  <2>7. ASSUME NEW l \in Levels, SupportedClose(l) PROVE TypeOK'
    BY <2>7 DEF SupportedClose, OpensAfterProbe, Closed
  <2>8. ASSUME NEW l \in Levels, DriverBindingStart(l) PROVE TypeOK'
    <3>1. frame[l] \in Frame /\ frame[l].ctl \in Controllers /\ frame[l].img \in Images
      OBVIOUS
    <3>2. Tried(frame[l]) \in Frame
      BY <3>1 DEF Tried
    <3>3. frame' \in [Levels -> Frame]
      BY <2>8, <3>2 DEF DriverBindingStart
    <3>4. opens' \in [Controllers -> SUBSET Images] /\ managing' \in [Controllers -> SUBSET Images]
      BY <2>8, <3>1 DEF DriverBindingStart, Opened, OpensAfterError
    <3> QED
      BY <2>8, <3>3, <3>4 DEF DriverBindingStart
  <2>9. ASSUME NEW l \in Levels, NEW i \in Images, DisconnectStops(l, i) PROVE TypeOK'
    <3>1. frame[l] \in Frame /\ frame[l].ctl \in Controllers
      OBVIOUS
    <3>2. frame' \in [Levels -> Frame]
      BY <2>9, <3>1 DEF DisconnectStops
    <3> QED
      BY <2>9, <3>1, <3>2 DEF DisconnectStops, DriverBindingStop, OpensAfterStop, Closed
  <2>10. ASSUME NEW l \in Levels, NEW i \in Images, RemoveStops(l, i) PROVE TypeOK'
    BY <2>10 DEF RemoveStops, DriverBindingStop, OpensAfterStop, Closed
  <2>11. ASSUME NEW l \in Levels, RemoveUninstalls(l) PROVE TypeOK'
    BY <2>11 DEF RemoveUninstalls
  <2>12. ASSUME NEW l \in Levels, CallReturns(l) PROVE TypeOK'
    BY <2>12 DEF CallReturns
  <2>13. CASE UNCHANGED vars
    BY <2>13 DEF vars
  <2> QED
    BY <2>1, <2>2, <2>3, <2>4, <2>5, <2>6, <2>7, <2>8, <2>9, <2>10, <2>11, <2>12, <2>13
    DEF Next, Environment, Step
<1> QED
  BY <1>1, <1>2, PTL DEF Spec

--------------------------------------------------------------------------------
\* Steps of a call that leave opens, managing and present alone, and put no
\* frame in a probe, keep the inductive invariant if a frame that becomes
\* active does so on a controller nobody is probing.
LEMMA QuietStep ==
    ASSUME TypeOK, TypeOK', IInv,
           UNCHANGED <<present, opens, managing>>,
           NEW l \in Levels,
           frame[l].pc # "probe", frame'[l].pc # "probe",
           \A m \in Levels : m # l => frame'[m] = frame[m],
           frame'[l].pc # "idle" =>
              \A m \in Levels : frame[m].pc = "probe" => frame[m].ctl # frame'[l].ctl
    PROVE  IInv'
<1>1. \A c \in Controllers : Probing(c)' = Probing(c)
  BY DEF Probing
<1>2. OpenIffManagedOrProbed' /\ OneAgentPerController' /\ OpenIsPresent'
  BY <1>1 DEF IInv, OpenIffManagedOrProbed, OneAgentPerController, OpenIsPresent
<1>3. ProbeUndisturbed'
  BY DEF IInv, ProbeUndisturbed, TypeOK, Levels
<1> QED
  BY <1>2, <1>3 DEF IInv

\* Nobody has open what nobody manages or probes.
LEMMA FreeWhenClosed ==
    ASSUME TypeOK, IInv, NEW c \in Controllers, opens[c] = {}
    PROVE  managing[c] = {} /\ \A m \in Levels : frame[m].pc = "probe" => frame[m].ctl # c
  BY DEF IInv, OpenIffManagedOrProbed, Probing

\* A stop at a level that has the processor, of a frame that is stopping
\* drivers on c, meets no probe of c: only i's managing entry can go.
LEMMA StopStep ==
    ASSUME TypeOK, TypeOK', IInv,
           NEW l \in Levels, NEW i \in Images,
           Runs(l), frame[l].pc \in {"disconnect", "remove"},
           DriverBindingStop(frame[l].ctl, i),
           UNCHANGED present,
           frame'[l].pc = frame[l].pc, frame'[l].ctl = frame[l].ctl,
           \A m \in Levels : m # l => frame'[m] = frame[m]
    PROVE  IInv'
<1> DEFINE c == frame[l].ctl
<1>1. c \in Controllers
  BY DEF TypeOK, Frame
<1>2. \A m \in Levels : frame[m].pc = "probe" => frame[m].ctl # c
  <2> SUFFICES ASSUME NEW m \in Levels, frame[m].pc = "probe", frame[m].ctl = c PROVE FALSE
    OBVIOUS
  <2>1. l > m
    BY DEF Runs, Levels
  <2> QED
    BY <2>1 DEF IInv, ProbeUndisturbed
<1>3. \A d \in Controllers : Probing(d)' = Probing(d)
  BY DEF Probing
<1>4. Probing(c) = {}
  BY <1>2 DEF Probing
<1>5. /\ opens' = [opens EXCEPT ![c] = @ \ {i}]
      /\ managing' = [managing EXCEPT ![c] = @ \ {i}]
  BY DEF DriverBindingStop, OpensAfterStop, Closed
<1>6. \A d \in Controllers : opens'[d] \subseteq opens[d] /\ managing'[d] \subseteq managing[d]
  BY <1>1, <1>5 DEF TypeOK
<1>7. OpenIffManagedOrProbed'
  BY <1>1, <1>3, <1>4, <1>5 DEF IInv, OpenIffManagedOrProbed, TypeOK
<1>8. OneAgentPerController' /\ OpenIsPresent'
  BY <1>6 DEF IInv, OneAgentPerController, OpenIsPresent
<1>9. ProbeUndisturbed'
  <2>1. ASSUME NEW m \in Levels, frame'[m].pc = "probe" PROVE managing'[frame'[m].ctl] = {}
    <3>1. m # l /\ frame'[m] = frame[m] /\ frame[m].ctl \in Controllers
      BY <2>1 DEF TypeOK, Frame
    <3> QED
      BY <2>1, <3>1, <1>6 DEF IInv, ProbeUndisturbed
  <2>2. ASSUME NEW m \in Levels, NEW n \in Levels, n > m,
               frame'[m].pc = "probe", frame'[n].pc # "idle"
        PROVE  frame'[n].ctl # frame'[m].ctl
    BY <2>2 DEF IInv, ProbeUndisturbed
  <2> QED
    BY <2>1, <2>2 DEF ProbeUndisturbed
<1> QED
  BY <1>7, <1>8, <1>9 DEF IInv

\* The inductive step: every action of the driver and of the firmware keeps
\* the open list in step with what the driver returned.
LEMMA InductiveStep ==
    ASSUME TypeOK, TypeOK', IInv, [Next]_vars
    PROVE  IInv'
<1>1. ASSUME NEW i \in Images, DriverExampleEntryPoint(i) PROVE IInv'
  BY <1>1 DEF DriverExampleEntryPoint, IInv, OpenIffManagedOrProbed, Probing,
              OneAgentPerController, OpenIsPresent, ProbeUndisturbed
<1>2. ASSUME NEW c \in Controllers, AddController(c) PROVE IInv'
  BY <1>2 DEF AddController, IInv, OpenIffManagedOrProbed, Probing,
              OneAgentPerController, OpenIsPresent, ProbeUndisturbed
<1>3. ASSUME NEW l \in Levels, NEW c \in Controllers, NEW ph \in {"scan", "disconnect", "remove"},
             NEW images, Begin(l, c, ph, images),
             UNCHANGED <<loaded, present, opens, managing>>
      PROVE  IInv'
  <2>1. /\ frame'[l].pc = ph /\ frame'[l].ctl = c
        /\ \A m \in Levels : m # l => frame'[m] = frame[m]
    BY <1>3 DEF Begin, TypeOK
  <2>2. frame[l].pc = "idle" /\ \A m \in Levels : frame[m].pc = "probe" => frame[m].ctl # c
    BY <1>3 DEF Begin, CanBegin
  <2> QED
    BY <1>3, <2>1, <2>2, QuietStep
<1>4. ASSUME NEW l \in Levels, NEW c \in Controllers,
             \/ ConnectController(l, c)
             \/ DisconnectController(l, c)
             \/ RemoveController(l, c)
      PROVE  IInv'
  BY <1>3, <1>4 DEF ConnectController, DisconnectController, RemoveController
<1>5. ASSUME NEW l \in Levels, NEW i \in Images, SupportedOpen(l, i) PROVE IInv'
  <2> DEFINE c == frame[l].ctl
  <2>0. c \in Controllers /\ frame[l].pc = "scan"
    BY <1>5 DEF TypeOK, Frame, SupportedOpen
  <2>1. ASSUME CanOpen(c), opens' = Opened(c, i),
               frame' = [frame EXCEPT ![l] = [@ EXCEPT !.pc = "probe", !.img = i]]
        PROVE  IInv'
    <3>1. /\ frame'[l].pc = "probe" /\ frame'[l].ctl = c /\ frame'[l].img = i
          /\ \A m \in Levels : m # l => frame'[m] = frame[m]
      BY <2>1 DEF TypeOK, Frame
    <3>2. opens[c] = {} /\ c \in present /\ managing' = managing /\ present' = present
      BY <1>5, <2>1 DEF CanOpen, SupportedOpen
    <3>3. managing[c] = {} /\ \A m \in Levels : frame[m].pc = "probe" => frame[m].ctl # c
      BY <3>2, <2>0, FreeWhenClosed
    <3>4. opens' = [opens EXCEPT ![c] = {i}]
      BY <2>1, <3>2, <2>0 DEF Opened, TypeOK
    <3>5. ASSUME NEW d \in Controllers, d = c PROVE Probing(d)' = {i}
      BY <3>1, <3>3, <3>5 DEF Probing
    <3>6. \A d \in Controllers \ {c} : Probing(d)' = Probing(d)
      BY <3>1, <2>0 DEF Probing
    <3>7. ASSUME NEW d \in Controllers PROVE opens'[d] = managing'[d] \cup Probing(d)'
      <4>1. CASE d = c
        BY <3>2, <3>3, <3>4, <3>5, <4>1 DEF TypeOK
      <4>2. CASE d # c
        BY <3>2, <3>4, <3>6, <4>2 DEF IInv, OpenIffManagedOrProbed, TypeOK
      <4> QED
        BY <4>1, <4>2
    <3>8. OneAgentPerController' /\ OpenIsPresent'
      BY <3>2, <3>4 DEF IInv, OneAgentPerController, OpenIsPresent, TypeOK
    <3>9. \A m \in Levels : m > l => frame[m].pc = "idle"
      BY <1>5 DEF SupportedOpen, Runs
    <3>10. ProbeUndisturbed'
      BY <3>1, <3>2, <3>3, <3>9 DEF IInv, ProbeUndisturbed, Levels
    <3> QED
      BY <3>7, <3>8, <3>10 DEF IInv, OpenIffManagedOrProbed
  <2>2. ASSUME opens' = opens, frame' = [frame EXCEPT ![l].todo = @ \ {i}]
        PROVE  IInv'
    <3>1. \A m \in Levels :
            frame'[m].pc = frame[m].pc /\ frame'[m].ctl = frame[m].ctl /\ frame'[m].img = frame[m].img
      BY <2>2 DEF TypeOK, Frame
    <3>2. \A d \in Controllers : Probing(d)' = Probing(d)
      BY <3>1 DEF Probing
    <3>3. managing' = managing /\ present' = present
      BY <1>5 DEF SupportedOpen
    <3>4. OpenIffManagedOrProbed' /\ OneAgentPerController' /\ OpenIsPresent'
      BY <2>2, <3>2, <3>3 DEF IInv, OpenIffManagedOrProbed, OneAgentPerController, OpenIsPresent
    <3>5. ProbeUndisturbed'
      BY <3>1, <3>3 DEF IInv, ProbeUndisturbed
    <3> QED
      BY <3>4, <3>5 DEF IInv
  <2> QED
    BY <1>5, <2>1, <2>2 DEF SupportedOpen, OpensAfterError
<1>6. ASSUME NEW l \in Levels, SupportedClose(l) PROVE IInv'
  <2> DEFINE c == frame[l].ctl
             i == frame[l].img
  <2>1. /\ c \in Controllers /\ i \in Images
        /\ frame[l].pc = "probe" /\ managing' = managing /\ present' = present
    BY <1>6 DEF TypeOK, Frame, SupportedClose
  <2>2. opens' = [opens EXCEPT ![c] = @ \ {i}]
    BY <1>6 DEF SupportedClose, OpensAfterProbe, Closed
  <2>3. /\ frame'[l].pc = "start" /\ frame'[l].ctl = c
        /\ \A m \in Levels : m # l => frame'[m] = frame[m]
    BY <1>6 DEF TypeOK, Frame, SupportedClose
  <2>4. managing[c] = {} /\ \A m \in Levels \ {l} : frame[m].pc = "probe" => frame[m].ctl # c
    BY <2>1 DEF IInv, ProbeUndisturbed, Levels
  <2>5. ASSUME NEW d \in Controllers, d = c PROVE Probing(d) = {i} /\ Probing(d)' = {}
    BY <2>1, <2>3, <2>4, <2>5 DEF Probing
  <2>6. \A d \in Controllers \ {c} : Probing(d)' = Probing(d)
    BY <2>1, <2>3 DEF Probing
  <2>7. ASSUME NEW d \in Controllers PROVE opens'[d] = managing'[d] \cup Probing(d)'
    <3>1. CASE d = c
      <4>1. opens[c] = {i}
        BY <2>1, <2>4, <2>5 DEF IInv, OpenIffManagedOrProbed
      <4> QED
        BY <2>1, <2>2, <2>4, <2>5, <3>1, <4>1 DEF TypeOK
    <3>2. CASE d # c
      BY <2>1, <2>2, <2>6, <3>2 DEF IInv, OpenIffManagedOrProbed, TypeOK
    <3> QED
      BY <3>1, <3>2
  <2>8. OneAgentPerController' /\ OpenIsPresent'
    BY <2>1, <2>2 DEF IInv, OneAgentPerController, OpenIsPresent, TypeOK
  <2>9. ProbeUndisturbed'
    <3>1. ASSUME NEW k \in Levels, NEW m \in Levels, m > k,
                 frame'[k].pc = "probe", frame'[m].pc # "idle"
          PROVE  frame'[m].ctl # frame'[k].ctl
      <4>1. frame[k] = frame'[k] /\ frame[m].pc # "idle" /\ frame'[m].ctl = frame[m].ctl
        BY <2>1, <2>3, <3>1
      <4> QED
        BY <3>1, <4>1 DEF IInv, ProbeUndisturbed
    <3>2. ASSUME NEW k \in Levels, frame'[k].pc = "probe" PROVE managing'[frame'[k].ctl] = {}
      BY <2>1, <2>3, <3>2 DEF IInv, ProbeUndisturbed
    <3> QED
      BY <3>1, <3>2 DEF ProbeUndisturbed
  <2> QED
    BY <2>7, <2>8, <2>9 DEF IInv, OpenIffManagedOrProbed
<1>7. ASSUME NEW l \in Levels, DriverBindingStart(l) PROVE IInv'
  <2> DEFINE c == frame[l].ctl
             i == frame[l].img
  <2>1. c \in Controllers /\ i \in Images /\ frame[l].pc = "start" /\ present' = present
    BY <1>7 DEF TypeOK, Frame, DriverBindingStart
  <2>2. /\ frame'[l].pc = "scan" /\ frame'[l].ctl = c
        /\ \A m \in Levels : m # l => frame'[m] = frame[m]
    BY <1>7 DEF TypeOK, Frame, DriverBindingStart, Tried
  <2>3. \A d \in Controllers : Probing(d)' = Probing(d)
    BY <2>1, <2>2 DEF Probing
  <2>4. ASSUME CanOpen(c), opens' = Opened(c, i), managing' = [managing EXCEPT ![c] = @ \cup {i}]
        PROVE  IInv'
    <3>1. opens[c] = {} /\ c \in present
      BY <2>4 DEF CanOpen
    <3>2. managing[c] = {} /\ \A m \in Levels : frame[m].pc = "probe" => frame[m].ctl # c
      BY <3>1, <2>1, FreeWhenClosed
    <3>3. opens' = [opens EXCEPT ![c] = {i}] /\ managing' = [managing EXCEPT ![c] = {i}]
      BY <2>4, <3>1, <3>2, <2>1 DEF Opened, TypeOK
    <3>4. Probing(c) = {}
      BY <3>2 DEF Probing
    <3>5. OpenIffManagedOrProbed'
      BY <3>3, <3>4, <2>1, <2>3 DEF IInv, OpenIffManagedOrProbed, TypeOK
    <3>6. OneAgentPerController' /\ OpenIsPresent'
      BY <3>1, <3>3, <2>1 DEF IInv, OneAgentPerController, OpenIsPresent, TypeOK
    <3>7. ASSUME NEW m \in Levels, frame'[m].pc = "probe" PROVE managing'[frame'[m].ctl] = {}
      <4>1. m # l /\ frame'[m] = frame[m] /\ frame[m].ctl \in Controllers \ {c}
        BY <3>7, <2>2, <3>2 DEF TypeOK, Frame
      <4> QED
        BY <3>7, <4>1, <3>3 DEF IInv, ProbeUndisturbed, TypeOK
    <3>8. \A m, n \in Levels :
            n > m /\ frame'[m].pc = "probe" /\ frame'[n].pc # "idle" => frame'[n].ctl # frame'[m].ctl
      BY <2>1, <2>2, <3>2 DEF IInv, ProbeUndisturbed
    <3> QED
      BY <3>5, <3>6, <3>7, <3>8 DEF IInv, ProbeUndisturbed
  <2>5. ASSUME opens' = opens, managing' = managing PROVE IInv'
    <3>1. \A m \in Levels : frame[m].pc = "probe" => frame[m].ctl # c
      <4> SUFFICES ASSUME NEW m \in Levels, frame[m].pc = "probe", frame[m].ctl = c PROVE FALSE
        OBVIOUS
      <4>1. l > m
        BY <1>7, <2>1 DEF DriverBindingStart, Runs, Levels
      <4> QED
        BY <4>1, <2>1 DEF IInv, ProbeUndisturbed
    <3> QED
      BY <2>1, <2>2, <2>5, <3>1, QuietStep
  <2> QED
    BY <1>7, <2>4, <2>5 DEF DriverBindingStart, OpensAfterError
<1>8. ASSUME NEW l \in Levels, NEW i \in Images, DisconnectStops(l, i) PROVE IInv'
  <2>1. frame'[l].pc = frame[l].pc /\ frame'[l].ctl = frame[l].ctl
        /\ \A m \in Levels : m # l => frame'[m] = frame[m]
    BY <1>8 DEF DisconnectStops, TypeOK, Frame
  <2> QED
    BY <1>8, <2>1, StopStep DEF DisconnectStops
<1>9. ASSUME NEW l \in Levels, NEW i \in Images, RemoveStops(l, i) PROVE IInv'
  BY <1>9, StopStep DEF RemoveStops
<1>10. ASSUME NEW l \in Levels, RemoveUninstalls(l) PROVE IInv'
  <2> DEFINE c == frame[l].ctl
  <2>1. c \in Controllers /\ opens[c] = {} /\ opens' = opens /\ managing' = managing
        /\ present' = present \ {c}
    BY <1>10 DEF TypeOK, Frame, RemoveUninstalls
  <2>2. /\ frame[l].pc = "remove" /\ frame'[l].pc = "idle"
        /\ \A m \in Levels : m # l => frame'[m] = frame[m]
    BY <1>10 DEF TypeOK, Frame, RemoveUninstalls
  <2>3. \A d \in Controllers : Probing(d)' = Probing(d)
    BY <2>2 DEF Probing
  <2> QED
    BY <2>1, <2>2, <2>3 DEF IInv, OpenIffManagedOrProbed, OneAgentPerController,
       OpenIsPresent, ProbeUndisturbed, Levels
<1>11. ASSUME NEW l \in Levels, CallReturns(l) PROVE IInv'
  <2>1. /\ frame[l].pc # "probe" /\ frame'[l].pc = "idle"
        /\ \A m \in Levels : m # l => frame'[m] = frame[m]
        /\ UNCHANGED <<present, opens, managing>>
    BY <1>11 DEF CallReturns, TypeOK, Frame
  <2> QED
    BY <2>1, QuietStep
<1>12. CASE UNCHANGED vars
  BY <1>12 DEF vars, IInv, OpenIffManagedOrProbed, Probing, OneAgentPerController,
               OpenIsPresent, ProbeUndisturbed
<1> QED
  BY <1>1, <1>2, <1>4, <1>5, <1>6, <1>7, <1>8, <1>9, <1>10, <1>11, <1>12
  DEF Next, Environment, Step

\* The inductive invariant holds in every reachable state.
THEOREM Invariance == Spec => []IInv
<1>1. Init => IInv
  BY DEF Init, IInv, OpenIffManagedOrProbed, Probing, OneAgentPerController,
         OpenIsPresent, ProbeUndisturbed
<1>2. TypeOK /\ TypeOK' /\ IInv /\ [Next]_vars => IInv'
  BY InductiveStep
<1> QED
  BY <1>1, <1>2, TypeCorrect, PTL DEF Spec

\* The open list says who manages what: no success is returned without the
\* protocol, and no probe, error path or preempting call disturbs a manager.
THEOREM OpenListCorrect == Spec => []OpenIffManagedOrProbed
<1>1. IInv => OpenIffManagedOrProbed
  BY DEF IInv
<1> QED
  BY <1>1, Invariance, PTL

\* A device is never removed under an image whose Start succeeded: the
\* managing image is in the open list until its Stop, so that a removal stops
\* it first, and what is in the open list is present.
THEOREM NoRemovalUnderManager == Spec => []ManagedIsPresent
<1>1. IInv => ManagedIsPresent
  <2> SUFFICES ASSUME IInv, NEW c \in Controllers, managing[c] # {} PROVE c \in present
    BY DEF ManagedIsPresent
  <2>1. managing[c] \subseteq opens[c]
    BY DEF IInv, OpenIffManagedOrProbed
  <2> QED
    BY <2>1 DEF IInv, OpenIsPresent
<1> QED
  BY <1>1, Invariance, PTL

\* What a stop does to the managers of its controller is a release by the
\* single manager, or nothing.
LEMMA StopReleases ==
    ASSUME TypeOK, IInv, NEW c \in Controllers, NEW i \in Images, DriverBindingStop(c, i)
    PROVE  Ownership!Release(i, c) \/ UNCHANGED managing
<1>1. managing[c] \subseteq opens[c]
  BY DEF IInv, OpenIffManagedOrProbed
<1>2. CASE i \in managing[c]
  <2>1. managing[c] = {i}
    BY <1>1, <1>2 DEF IInv, OneAgentPerController
  <2> QED
    BY <2>1 DEF DriverBindingStop, Ownership!Release, TypeOK
<1>3. CASE i \notin managing[c]
  <2>1. managing[c] \ {i} = managing[c]
    BY <1>3
  <2> QED
    BY <2>1 DEF DriverBindingStop, TypeOK
<1> QED
  BY <1>2, <1>3

\* Every step of DriverBinding is a Take, a Release or a stutter of
\* DeviceOwnership.
THEOREM Refinement == Spec => ImplementsOwnership
<1>1. Init => Ownership!Init
  BY DEF Init, Ownership!Init
<1>2. TypeOK /\ IInv /\ [Next]_vars => [Ownership!Next]_managing
  <2> SUFFICES ASSUME TypeOK, IInv, [Next]_vars PROVE [Ownership!Next]_managing
    OBVIOUS
  <2>1. ASSUME NEW l \in Levels, DriverBindingStart(l) PROVE [Ownership!Next]_managing
    <3> DEFINE c == frame[l].ctl
               i == frame[l].img
    <3>1. c \in Controllers /\ i \in Images
      BY DEF TypeOK, Frame
    <3>2. ASSUME CanOpen(c), managing' = [managing EXCEPT ![c] = @ \cup {i}]
          PROVE  Ownership!Take(i, c)
      <4>1. managing[c] = {}
        BY <3>1, <3>2, FreeWhenClosed DEF CanOpen
      <4> QED
        BY <3>1, <3>2, <4>1 DEF Ownership!Take, TypeOK
    <3> QED
      BY <2>1, <3>1, <3>2 DEF DriverBindingStart, Ownership!Next
  <2>2. ASSUME NEW l \in Levels, NEW i \in Images, DisconnectStops(l, i) \/ RemoveStops(l, i)
        PROVE  [Ownership!Next]_managing
    <3>1. frame[l].ctl \in Controllers
      BY DEF TypeOK, Frame
    <3> QED
      BY <2>2, <3>1, StopReleases DEF DisconnectStops, RemoveStops, Ownership!Next
  <2>3. ASSUME NEW l \in Levels, NEW i \in Images, SupportedOpen(l, i) PROVE UNCHANGED managing
    BY <2>3 DEF SupportedOpen
  <2>4. ASSUME Environment PROVE UNCHANGED managing
    BY <2>4 DEF Environment, DriverExampleEntryPoint, AddController, ConnectController,
                DisconnectController, RemoveController
  <2>5. ASSUME NEW l \in Levels, SupportedClose(l) \/ RemoveUninstalls(l) \/ CallReturns(l)
        PROVE  UNCHANGED managing
    BY <2>5 DEF SupportedClose, RemoveUninstalls, CallReturns
  <2> QED
    BY <2>1, <2>2, <2>3, <2>4, <2>5 DEF Next, Step, vars
<1> QED
  BY <1>1, <1>2, TypeCorrect, Invariance, PTL DEF Spec, ImplementsOwnership, Ownership!Spec

--------------------------------------------------------------------------------
(* ProtocolExample.                                                        *)

\* The labels at which the interface of the run is installed.
WithInterface == {"locate", "set", "get", "handle", "uninstall"}

\* Interfaces are installed by runs that have begun, none twice: that of the
\* current run is the last one.
InstalledInOrder ==
    /\ \A i \in 1 .. Len(installed) : installed[i] \in 1 .. run
    /\ pc = "install" => \A i \in 1 .. Len(installed) : installed[i] # run
    /\ pc \in WithInterface =>
         /\ installed # <<>> /\ installed[Len(installed)] = run
         /\ \A i \in 1 .. Len(installed) : i # Len(installed) => installed[i] # run

\* Nothing happens before the first run, and calls go through what was located.
RunKnown ==
    /\ run = 0 => pc = "exit"
    /\ pc \in {"set", "get"} => located \in RunNumbers

\* The properties are nearly inductive: what is missing is where in the list
\* the run's own interface is, which LocateProtocol and the uninstall go by.
ProtocolInv ==
    ProtocolTypeOK /\ RunKnown /\ InstalledInOrder /\ OutlivesOnlyIfRefused /\ LocatesOwn

\* The members of a sequence, by their place.
LEMMA MembersByPlace ==
    ASSUME NEW T, NEW s \in Seq(T)
    PROVE  Len(s) \in Nat /\ DOMAIN s = 1 .. Len(s) /\ ToSet(s) = {s[i] : i \in 1 .. Len(s)}
BY LenProperties DEF ToSet

\* The installed interfaces, by their place in the list.
LEMMA InterfacesByPlace ==
    ASSUME ProtocolTypeOK
    PROVE  /\ Len(installed) \in Nat /\ DOMAIN installed = 1 .. Len(installed)
           /\ Interfaces = {installed[i] : i \in 1 .. Len(installed)}
           /\ Interfaces \subseteq RunNumbers
BY MembersByPlace, ElementOfSeq DEF ProtocolTypeOK, Interfaces

\* Taking out the last of a list of interfaces.
LEMMA LastRemoved ==
    ASSUME NEW T, NEW s \in Seq(T), s # <<>>
    PROVE  /\ RemoveAt(s, Len(s)) \in Seq(T)
           /\ Len(RemoveAt(s, Len(s))) = Len(s) - 1
           /\ \A i \in 1 .. Len(s) - 1 : RemoveAt(s, Len(s))[i] = s[i]
<1> DEFINE n == Len(s)
           a == SubSeq(s, 1, n - 1)
           b == SubSeq(s, n + 1, n)
<1>1. n \in Nat /\ n > 0 /\ \A i \in 1 .. n : s[i] \in T
  BY LenProperties, ElementOfSeq, EmptySeq
<1>2. a \in Seq(T) /\ Len(a) = n - 1 /\ \A i \in 1 .. n - 1 : a[i] = s[i]
  <2> HIDE DEF n
  <2>1. 1 \in Int /\ n - 1 \in Int /\ \A i \in 1 .. n - 1 : s[i] \in T
    BY <1>1
  <2>2. /\ a \in Seq(T)
        /\ Len(a) = IF 1 <= n - 1 THEN (n - 1) - 1 + 1 ELSE 0
        /\ \A i \in 1 .. (n - 1) - 1 + 1 : a[i] = s[1 + i - 1]
    BY <2>1, SubSeqProperties
  <2> QED BY <1>1, <2>2
<1>3. b \in Seq(T) /\ Len(b) = 0
  <2> HIDE DEF n
  <2>1. n + 1 \in Int /\ n \in Int /\ \A i \in n + 1 .. n : s[i] \in T
    BY <1>1
  <2>2. b \in Seq(T) /\ Len(b) = IF n + 1 <= n THEN n - (n + 1) + 1 ELSE 0
    BY <2>1, SubSeqProperties
  <2> QED BY <1>1, <2>2
<1>4. RemoveAt(s, n) = a \o b
  BY DEF RemoveAt
<1> HIDE DEF a, b, n
<1>5. /\ a \o b \in Seq(T) /\ Len(a \o b) = Len(a) + Len(b)
      /\ \A i \in 1 .. Len(a) + Len(b) : (a \o b)[i] = IF i <= Len(a) THEN a[i] ELSE b[i - Len(a)]
  BY <1>2, <1>3, ConcatProperties
<1>6. Len(a) + Len(b) = n - 1 /\ \A i \in 1 .. n - 1 : i <= Len(a)
  BY <1>1, <1>2, <1>3
<1> QED BY <1>2, <1>4, <1>5, <1>6 DEF n

\* A successful uninstall leaves the interfaces of the earlier runs.
LEMMA UninstallLeavesOthers ==
    ASSUME ProtocolTypeOK, InstalledInOrder, pc \in WithInterface
    PROVE  /\ WithoutInterface(run) \in Seq(RunNumbers)
           /\ \A i \in 1 .. Len(WithoutInterface(run)) :
                /\ WithoutInterface(run)[i] \in Interfaces
                /\ WithoutInterface(run)[i] # run
<1> DEFINE n == Len(installed)
<1>1. installed \in Seq(RunNumbers) /\ installed # <<>> /\ n \in Nat /\ n > 0
  BY EmptySeq, LenProperties DEF ProtocolTypeOK, InstalledInOrder
<1>2. DOMAIN installed = 1 .. n /\ installed[n] = run /\ \A i \in 1 .. n : i # n => installed[i] # run
  BY InterfacesByPlace DEF InstalledInOrder
<1>3. n \in DOMAIN installed
  <2> HIDE DEF n
  <2>1. n \in 1 .. n
    BY <1>1
  <2> QED BY <1>2, <2>1
<1>4. (CHOOSE i \in DOMAIN installed : installed[i] = run) = n
  BY <1>2, <1>3
<1>5. WithoutInterface(run) = RemoveAt(installed, n)
  BY <1>4 DEF WithoutInterface
<1>6. /\ RemoveAt(installed, n) \in Seq(RunNumbers) /\ Len(RemoveAt(installed, n)) = n - 1
      /\ \A i \in 1 .. n - 1 : RemoveAt(installed, n)[i] = installed[i]
  BY <1>1, LastRemoved
<1> HIDE DEF n
<1>7. \A i \in 1 .. n - 1 : i \in 1 .. n /\ i # n
  BY <1>1
<1>8. \A i \in 1 .. n - 1 : installed[i] \in Interfaces
  BY <1>7, InterfacesByPlace DEF n
<1> QED BY <1>2, <1>5, <1>6, <1>7, <1>8

\* Before the first run no interface is installed.
LEMMA ProtocolInitially == ProtocolInit => ProtocolInv
<1> SUFFICES ASSUME ProtocolInit
             PROVE  ProtocolInv
  OBVIOUS
<1>1. 0 \in 0 .. MaxRuns
  BY RunAssumption
<1>2. ProtocolTypeOK
  BY <1>1, EmptySeq DEF ProtocolInit, ProtocolTypeOK
<1>3. Interfaces = {} /\ \A i \in 1 .. Len(installed) : FALSE
  BY <1>2, InterfacesByPlace, EmptySeq DEF ProtocolInit
<1>4. InstalledInOrder
  BY <1>3 DEF ProtocolInit, InstalledInOrder, WithInterface
<1> QED BY <1>2, <1>3, <1>4 DEF ProtocolInv, RunKnown, OutlivesOnlyIfRefused, LocatesOwn, ProtocolInit

\* A new run begins, whose interface is not installed yet.
LEMMA StartKeeps == ProtocolInv /\ StartRun => ProtocolInv'
<1> SUFFICES ASSUME ProtocolInv, StartRun
             PROVE  ProtocolInv'
  OBVIOUS
<1>1. /\ UNCHANGED <<installed, open, stored, refused>> /\ pc = "exit" /\ pc' = "install"
      /\ run' = run + 1 /\ run < MaxRuns /\ located' = 0 /\ value' = 0
  BY DEF StartRun, Go
<1>2. run \in Nat /\ run' \in 1 .. MaxRuns /\ 0 \in 0 .. MaxRuns
  BY <1>1, RunAssumption DEF ProtocolInv, ProtocolTypeOK
<1>3. ProtocolTypeOK'
  <2>1. run' \in 0 .. MaxRuns
    BY <1>2, RunAssumption
  <2> QED BY <1>1, <1>2, <2>1 DEF ProtocolInv, ProtocolTypeOK
<1>4. InstalledInOrder'
  <2>1. \A r \in 1 .. run : r \in 1 .. run + 1 /\ r # run + 1
    BY <1>2
  <2> QED BY <1>1, <2>1 DEF ProtocolInv, InstalledInOrder, WithInterface
<1>5. OutlivesOnlyIfRefused'
  BY <1>1 DEF ProtocolInv, OutlivesOnlyIfRefused, Interfaces, Loaded
<1>6. LocatesOwn' /\ RunKnown'
  BY <1>1, <1>2 DEF LocatesOwn, RunKnown
<1> QED BY <1>3, <1>4, <1>5, <1>6 DEF ProtocolInv

\* The interface of the run joins the list, or the run ends at once.
LEMMA InstallKeeps == ProtocolInv /\ Install => ProtocolInv'
<1> SUFFICES ASSUME ProtocolInv, Install
             PROVE  ProtocolInv'
  OBVIOUS
<1>1. /\ UNCHANGED <<run, open, stored, located, value, refused>>
      /\ pc = "install"
      /\ \/ pc' = "locate" /\ installed' = Append(installed, run)
         \/ pc' = "exit" /\ UNCHANGED installed
  BY DEF Install, Go
<1>2. run \in 1 .. MaxRuns
  BY <1>1, RunAssumption DEF ProtocolInv, ProtocolTypeOK, RunKnown
<1>3. CASE pc' = "locate" /\ installed' = Append(installed, run)
  <2> DEFINE n == Len(installed)
  <2>1. n \in Nat /\ installed \in Seq(RunNumbers) /\ run \in RunNumbers
    BY <1>2, LenProperties DEF ProtocolInv, ProtocolTypeOK, RunNumbers
  <2>2. /\ installed' \in Seq(RunNumbers) /\ Len(installed') = n + 1 /\ installed'[n + 1] = run
        /\ \A i \in 1 .. n : installed'[i] = installed[i]
    BY <1>3, <2>1, AppendProperties
  <2>3. ProtocolTypeOK'
    BY <1>1, <1>3, <2>2 DEF ProtocolInv, ProtocolTypeOK
  <2>4. \A i \in 1 .. n : installed[i] \in 1 .. run /\ installed[i] # run
    BY <1>1 DEF ProtocolInv, InstalledInOrder
  <2>5. installed' # <<>>
    BY <2>1, <2>2, EmptySeq
  <2>9. run \in 1 .. run
    BY <1>2
  <2> HIDE DEF n
  <2>6. \A i \in 1 .. n + 1 : i = n + 1 \/ i \in 1 .. n
    BY <2>1
  <2>7. InstalledInOrder'
    BY <1>1, <1>3, <2>2, <2>4, <2>5, <2>6, <2>9 DEF InstalledInOrder
  <2>8. OutlivesOnlyIfRefused'
    <3>1. Interfaces' \subseteq Interfaces \cup {run}
      <4>1. Interfaces' = {installed'[i] : i \in 1 .. n + 1}
        BY <2>2, MembersByPlace DEF Interfaces
      <4>2. \A i \in 1 .. n : installed[i] \in Interfaces
        BY InterfacesByPlace DEF ProtocolInv, n
      <4> QED BY <2>2, <2>6, <4>1, <4>2
    <3> QED BY <1>1, <1>3, <3>1 DEF ProtocolInv, OutlivesOnlyIfRefused, Loaded
  <2> QED BY <1>1, <1>2, <1>3, <2>3, <2>7, <2>8 DEF ProtocolInv, LocatesOwn, RunKnown
<1>4. CASE pc' = "exit" /\ UNCHANGED installed
  <2>1. ProtocolTypeOK' /\ InstalledInOrder'
    BY <1>1, <1>4 DEF ProtocolInv, ProtocolTypeOK, InstalledInOrder, WithInterface
  <2>2. run \notin Interfaces
    BY <1>1, InterfacesByPlace DEF ProtocolInv, InstalledInOrder
  <2>3. OutlivesOnlyIfRefused'
    BY <1>1, <1>4, <2>2 DEF ProtocolInv, OutlivesOnlyIfRefused, Interfaces, Loaded
  <2> QED BY <1>1, <1>4, <2>1, <2>3 DEF ProtocolInv, LocatesOwn, RunKnown
<1> QED BY <1>1, <1>3, <1>4

\* LocateProtocol returns the oldest interface: as long as none was left
\* behind that is the run's own.
LEMMA LocateKeeps == ProtocolInv /\ Locate => ProtocolInv'
<1> SUFFICES ASSUME ProtocolInv, Locate
             PROVE  ProtocolInv'
  OBVIOUS
<1>1. /\ UNCHANGED <<run, installed, open, stored, value, refused>> /\ pc = "locate"
      /\ \/ pc' = "set" /\ located' = Head(installed)
         \/ pc' = "uninstall" /\ UNCHANGED located
  BY DEF Locate, Go
<1>2. /\ Head(installed) \in Interfaces /\ Head(installed) \in RunNumbers
      /\ Head(installed) \in 0 .. MaxRuns
  <2>1. installed \in Seq(RunNumbers) /\ installed # <<>>
    BY <1>1 DEF ProtocolInv, ProtocolTypeOK, InstalledInOrder, WithInterface
  <2>2. Head(installed) = installed[1] /\ 1 \in 1 .. Len(installed)
    BY <2>1, HeadTailProperties, EmptySeq, LenProperties
  <2>3. Head(installed) \in Interfaces /\ Head(installed) \in RunNumbers
    BY <2>2, InterfacesByPlace DEF ProtocolInv
  <2> QED BY <2>3, RunAssumption DEF RunNumbers
<1>3. refused = {} => Head(installed) = run
  BY <1>2 DEF ProtocolInv, OutlivesOnlyIfRefused, Loaded
<1>4. ProtocolTypeOK'
  BY <1>1, <1>2 DEF ProtocolInv, ProtocolTypeOK
<1>5. InstalledInOrder' /\ OutlivesOnlyIfRefused' /\ LocatesOwn' /\ RunKnown'
  BY <1>1, <1>2, <1>3 DEF ProtocolInv, InstalledInOrder, WithInterface, OutlivesOnlyIfRefused,
                    Interfaces, Loaded, LocatesOwn, RunKnown
<1> QED BY <1>4, <1>5 DEF ProtocolInv

\* The calls through the located interface, those that crash too.
LEMMA UseKeeps == ProtocolInv /\ (SetValue \/ GetValue \/ Handle) => ProtocolInv'
<1> SUFFICES ASSUME ProtocolInv, SetValue \/ GetValue \/ Handle
             PROVE  ProtocolInv'
  OBVIOUS
<1>1. /\ UNCHANGED <<run, installed, open, refused>>
      /\ pc \in {"set", "get", "handle"} /\ pc' \in {"get", "handle", "uninstall", "crashed"}
      /\ pc' = "get" => pc = "set" /\ UNCHANGED located
      /\ located' \in {run, located}
      /\ stored' \in {stored, [stored EXCEPT ![located] = 42]}
      /\ value' \in {value, stored[located]}
  BY DEF SetValue, GetValue, ExampleGetValue, Handle, Calls, Go
<1>2. located' \in 0 .. MaxRuns /\ (pc \in {"set", "get"} => located \in RunNumbers)
  <2>1. run \in 0 .. MaxRuns /\ located \in 0 .. MaxRuns
    BY DEF ProtocolInv, ProtocolTypeOK
  <2> QED BY <1>1, <2>1 DEF ProtocolInv, RunKnown
<1>3. stored' \in [RunNumbers -> Values \cup {0, 42}] /\ value' \in Values \cup {0, 42}
  <2>1. /\ stored \in [RunNumbers -> Values \cup {0, 42}] /\ value \in Values \cup {0, 42}
        /\ pc = "get" => stored[located] \in Values \cup {0, 42}
    BY <1>2 DEF ProtocolInv, ProtocolTypeOK
  <2>2. value' = value \/ (pc = "get" /\ value' = stored[located])
    BY DEF SetValue, GetValue, ExampleGetValue, Handle, Calls, Go
  <2> QED BY <1>1, <2>1, <2>2
<1>4. ProtocolTypeOK'
  BY <1>1, <1>2, <1>3 DEF ProtocolInv, ProtocolTypeOK
<1>5. RunKnown'
  BY <1>1, <1>2 DEF ProtocolInv, RunKnown
<1>6. InstalledInOrder' /\ LocatesOwn' /\ OutlivesOnlyIfRefused'
  BY <1>1 DEF ProtocolInv, InstalledInOrder, WithInterface, LocatesOwn, OutlivesOnlyIfRefused,
              Interfaces, Loaded
<1> QED BY <1>4, <1>5, <1>6 DEF ProtocolInv

\* The end of a run: its interface goes, or the firmware refused to let it go.
LEMMA UninstallKeeps == ProtocolInv /\ Uninstall => ProtocolInv'
<1> SUFFICES ASSUME ProtocolInv, Uninstall
             PROVE  ProtocolInv'
  OBVIOUS
<1>1. /\ UNCHANGED <<run, open, stored, located, value>> /\ pc = "uninstall" /\ pc' = "exit"
      /\ \/ refused' = refused \cup {run} /\ UNCHANGED installed
         \/ installed' = WithoutInterface(run) /\ UNCHANGED refused
  BY DEF Uninstall, Go
<1>2. run \in RunNumbers
  BY <1>1, RunAssumption DEF ProtocolInv, ProtocolTypeOK, RunKnown, RunNumbers
<1>3. CASE refused' = refused \cup {run} /\ UNCHANGED installed
  <2>1. ProtocolTypeOK' /\ InstalledInOrder' /\ RunKnown' /\ LocatesOwn'
    BY <1>1, <1>2, <1>3 DEF ProtocolInv, ProtocolTypeOK, InstalledInOrder, WithInterface, RunKnown,
                            LocatesOwn
  <2>2. OutlivesOnlyIfRefused'
    BY <1>1, <1>3 DEF ProtocolInv, OutlivesOnlyIfRefused, Interfaces, Loaded
  <2> QED BY <2>1, <2>2 DEF ProtocolInv
<1>4. CASE installed' = WithoutInterface(run) /\ UNCHANGED refused
  <2>1. /\ installed' \in Seq(RunNumbers)
        /\ \A i \in 1 .. Len(installed') : installed'[i] \in Interfaces /\ installed'[i] # run
    BY <1>1, <1>4, UninstallLeavesOthers DEF ProtocolInv, WithInterface
  <2>2. ProtocolTypeOK'
    BY <1>1, <1>4, <2>1 DEF ProtocolInv, ProtocolTypeOK
  <2>3. Interfaces' \subseteq Interfaces \ {run}
    BY <2>1, MembersByPlace DEF Interfaces
  <2>4. \A r \in Interfaces : r \in 1 .. run
    BY InterfacesByPlace DEF ProtocolInv, InstalledInOrder
  <2>5. InstalledInOrder' /\ RunKnown' /\ LocatesOwn'
    BY <1>1, <1>2, <2>1, <2>4 DEF InstalledInOrder, WithInterface, ProtocolInv, RunKnown, LocatesOwn
  <2>6. OutlivesOnlyIfRefused'
    BY <1>1, <1>4, <2>3 DEF ProtocolInv, OutlivesOnlyIfRefused, Loaded
  <2> QED BY <2>2, <2>5, <2>6 DEF ProtocolInv
<1> QED BY <1>1, <1>3, <1>4

\* The other component changes stored values and what it has open.
LEMMA OtherKeeps == ProtocolInv /\ Other => ProtocolInv'
<1> SUFFICES ASSUME ProtocolInv, Other
             PROVE  ProtocolInv'
  OBVIOUS
<1>1. /\ UNCHANGED <<run, pc, installed, located, value, refused>>
      /\ open' \subseteq RunNumbers
      /\ stored' \in [RunNumbers -> Values \cup {0, 42}]
  <2>1. open \subseteq RunNumbers /\ stored \in [RunNumbers -> Values \cup {0, 42}]
    BY DEF ProtocolInv, ProtocolTypeOK
  <2> QED BY <2>1 DEF Other, OtherOpens, OtherCloses, OtherStores
<1> QED BY <1>1 DEF ProtocolInv, ProtocolTypeOK, RunKnown, InstalledInOrder, OutlivesOnlyIfRefused,
                    Interfaces, Loaded, LocatesOwn

\* The invariant holds of every sequence of runs.
LEMMA ProtocolInvariance == ProtocolSpec => []ProtocolInv
<1>1. ProtocolInv /\ [ProtocolNext]_protocolVars => ProtocolInv'
  <2>1. ProtocolInv /\ UNCHANGED protocolVars => ProtocolInv'
    BY DEF ProtocolInv, ProtocolTypeOK, RunKnown, InstalledInOrder, OutlivesOnlyIfRefused,
           Interfaces, Loaded, LocatesOwn, protocolVars
  <2> QED BY <2>1, StartKeeps, InstallKeeps, LocateKeeps, UseKeeps, UninstallKeeps, OtherKeeps
             DEF ProtocolNext, Application
<1> QED BY <1>1, ProtocolInitially, PTL DEF ProtocolSpec

\* Every variable of ProtocolExample keeps its type: no call goes through an
\* interface that was never located.
THEOREM ProtocolTypeCorrect == ProtocolSpec => []ProtocolTypeOK
<1>1. ProtocolInv => ProtocolTypeOK
  BY DEF ProtocolInv
<1> QED BY <1>1, ProtocolInvariance, PTL

\* However often the program runs, and whatever its services return: only a
\* refused UninstallProtocolInterface leaves an interface behind its image.
THEOREM InterfaceGoesWithImage == ProtocolSpec => []OutlivesOnlyIfRefused
<1>1. ProtocolInv => OutlivesOnlyIfRefused
  BY DEF ProtocolInv
<1> QED BY <1>1, ProtocolInvariance, PTL

\* LocateProtocol, which gives the oldest interface, gives the run its own as
\* long as no uninstall was refused.
THEOREM RunLocatesItself == ProtocolSpec => []LocatesOwn
<1>1. ProtocolInv => LocatesOwn
  BY DEF ProtocolInv
<1> QED BY <1>1, ProtocolInvariance, PTL
================================================================================
