------------------------- MODULE NetworkClients_proofs -------------------------
(***************************************************************************)
(* Proofs about NetworkClients, for replies of every length and a pool of  *)
(* every size.                                                             *)
(*                                                                         *)
(* The two properties speak of the moments when the driver holds the token *)
(* and when a demonstration has ended.  The inductive invariant says what  *)
(* the demonstrations hold at every label in between: a failure at any of  *)
(* them has to give back exactly that.                                     *)
(***************************************************************************)
EXTENDS NetworkClients, TLAPS

\* The labels with a child, with a configured child, and with an event; at
\* "release" the child may be configured or not.
WithChild == {"protocol", "servers", "configure", "event", "lookup", "wait", "clean", "release"}
WithConfiguration == {"event", "lookup", "wait", "clean"}
WithEvent == {"lookup", "wait", "clean"}

\* What a demonstration holds, and when the driver has the token.
HoldingsKnown ==
    /\ list = IF pc \in {"locate", "end"} THEN FALSE ELSE TRUE
    /\ info = IF pc = "data" THEN TRUE ELSE FALSE
    /\ child = IF pc \in WithChild THEN TRUE ELSE FALSE
    /\ event = IF pc \in WithEvent THEN TRUE ELSE FALSE
    /\ pc # "configure" => servers = FALSE
    /\ pc \in WithConfiguration => configured = TRUE
    /\ pc \notin WithConfiguration \cup {"release"} => configured = FALSE
    /\ token = "queued" => pc = "wait"

NetworkInv == TypeOK /\ HoldingsKnown

--------------------------------------------------------------------------------
\* The first demonstration starts with nothing held.
LEMMA NetworkInitially == Init => NetworkInv
<1> SUFFICES ASSUME Init
             PROVE  NetworkInv
  OBVIOUS
<1>1. 0 \in 0 .. MaxAddresses /\ 0 \in 0 .. PoolReplies
  BY AddressAssumption, PoolAssumption
<1>2. TypeOK
  BY <1>1 DEF Init, TypeOK, Demos
<1>3. HoldingsKnown
  BY DEF Init, HoldingsKnown, WithChild, WithConfiguration, WithEvent
<1> QED BY <1>2, <1>3 DEF NetworkInv

\* The handles of the service binding, and of CheckNetworkStatus its buffer.
LEMMA BindingKeeps ==
    ASSUME NetworkInv, LocateHandles \/ GetBinding \/ GetInfoSize \/ AllocateInfo \/ GetInfoData
    PROVE  NetworkInv'
<1>1. /\ UNCHANGED <<demo, child, servers, configured, event, token, addresses, shown, replies>>
      /\ status' \in {"success", "error"} /\ list' \in BOOLEAN /\ info' \in BOOLEAN
      /\ pc' \in {"binding", "size", "info", "data", "create", "end"}
  BY DEF NetworkInv, TypeOK, LocateHandles, GetBinding, GetInfoSize, AllocateInfo, GetInfoData,
         Succeeds, Fails, Go, reply
<1>2. TypeOK'
  BY <1>1 DEF NetworkInv, TypeOK
<1>3. HoldingsKnown'
  <2>1. CASE LocateHandles \/ GetBinding
    BY <1>1, <2>1 DEF NetworkInv, HoldingsKnown, WithChild, WithConfiguration, WithEvent,
                      LocateHandles, GetBinding, Succeeds, Fails, Go
  <2>2. CASE GetInfoSize \/ AllocateInfo \/ GetInfoData
    BY <1>1, <2>2 DEF NetworkInv, HoldingsKnown, WithChild, WithConfiguration, WithEvent,
                      GetInfoSize, AllocateInfo, GetInfoData, Succeeds, Fails, Go
  <2> QED BY <2>1, <2>2
<1> QED BY <1>2, <1>3 DEF NetworkInv

\* The child: its creation, and every way to fail with it.
LEMMA ChildKeeps ==
    ASSUME NetworkInv, CreateChild \/ GetProtocol \/ AllocateServers \/ Configure \/ CreateEvent
    PROVE  NetworkInv'
<1>1. /\ UNCHANGED <<demo, info, token, addresses, shown, replies>>
      /\ status' \in {"success", "error"} /\ list' \in BOOLEAN /\ child' \in BOOLEAN
      /\ servers' \in BOOLEAN /\ configured' \in BOOLEAN /\ event' \in BOOLEAN
      /\ pc' \in {"protocol", "servers", "configure", "event", "lookup", "release", "end"}
  BY DEF NetworkInv, TypeOK, CreateChild, GetProtocol, AllocateServers, Configure, CreateEvent,
         ChildAfterError, Succeeds, Fails, Go, reply
<1>2. TypeOK'
  BY <1>1 DEF NetworkInv, TypeOK
<1>3. HoldingsKnown'
  <2>1. CASE CreateChild \/ GetProtocol \/ AllocateServers
    BY <1>1, <2>1 DEF NetworkInv, HoldingsKnown, WithChild, WithConfiguration, WithEvent,
                      CreateChild, GetProtocol, AllocateServers, ChildAfterError, Succeeds, Fails, Go
  <2>2. CASE Configure \/ CreateEvent
    BY <1>1, <2>2 DEF NetworkInv, HoldingsKnown, WithChild, WithConfiguration, WithEvent,
                      Configure, CreateEvent, ChildAfterError, Succeeds, Fails, Go
  <2> QED BY <2>1, <2>2
<1> QED BY <1>2, <1>3 DEF NetworkInv

\* The lookup, up to the moment when the token is back.
LEMMA LookupKeeps ==
    ASSUME NetworkInv, HostNameToIp \/ WaitForEvent \/ CloseEvent
    PROVE  NetworkInv'
<1>1. /\ UNCHANGED <<demo, list, info, child, servers, configured, addresses, replies>>
      /\ status' \in {"success", "error"} /\ event' \in BOOLEAN
      /\ token' \in {token, "queued"} /\ shown' \in {"nothing", "address"}
      /\ pc' \in {"wait", "clean", "release"}
  BY DEF NetworkInv, TypeOK, HostNameToIp, WaitForEvent, CloseEvent, Printed,
         Succeeds, Fails, Go, ledger, reply
<1>2. TypeOK'
  BY <1>1 DEF NetworkInv, TypeOK
<1>3. HoldingsKnown'
  BY <1>1 DEF NetworkInv, HoldingsKnown, WithChild, WithConfiguration, WithEvent,
              HostNameToIp, WaitForEvent, CloseEvent, Signalled, Succeeds, Fails, Go, ledger, reply
<1> QED BY <1>2, <1>3 DEF NetworkInv

\* The common end, and the next demonstration.
LEMMA EndKeeps == NetworkInv /\ (Release \/ NextDemo) => NetworkInv'
<1> SUFFICES ASSUME NetworkInv, Release \/ NextDemo
             PROVE  NetworkInv'
  OBVIOUS
<1>1. CASE Release
  <2>1. /\ pc = "release" /\ pc' = "end" /\ UNCHANGED <<demo, info, servers, event>>
        /\ UNCHANGED <<addresses, shown, replies>>
        /\ configured' = FALSE /\ child' = FALSE /\ list' = FALSE
        /\ token' = (IF token = "queued" THEN "cancelled" ELSE token)
        /\ status' \in {status, "success"}
    BY <1>1 DEF Release, ReturnedStatus, Go
  <2>2. TypeOK'
    BY <2>1 DEF NetworkInv, TypeOK
  <2>3. HoldingsKnown'
    BY <2>1 DEF NetworkInv, HoldingsKnown, WithChild, WithConfiguration, WithEvent
  <2> QED BY <2>2, <2>3 DEF NetworkInv
<1>2. CASE NextDemo
  <2>1. /\ pc = "end" /\ pc' = "locate"
        /\ UNCHANGED <<list, info, child, servers, configured, event, replies, status>>
        /\ token' = "none" /\ addresses' = 0 /\ shown' = "nothing"
    BY <1>2 DEF NextDemo, Go, ledger
  <2>2. demo' \in Demos
    BY <1>2 DEF NetworkInv, TypeOK, NextDemo, Demos
  <2>3. addresses' \in 0 .. MaxAddresses
    BY <2>1, AddressAssumption
  <2>4. TypeOK'
    BY <2>1, <2>2, <2>3 DEF NetworkInv, TypeOK
  <2>5. HoldingsKnown'
    BY <2>1 DEF NetworkInv, HoldingsKnown, WithChild, WithConfiguration, WithEvent
  <2> QED BY <2>4, <2>5 DEF NetworkInv
<1> QED BY <1>1, <1>2

\* The driver completes the token it holds.
LEMMA CompleteKeeps == NetworkInv /\ Complete => NetworkInv'
<1> SUFFICES ASSUME NetworkInv, Complete
             PROVE  NetworkInv'
  OBVIOUS
<1>1. /\ UNCHANGED <<demo, pc, list, info, child, servers, configured, event, shown, status>>
      /\ token' \in {"resolved", "failed"} /\ addresses' \in 0 .. MaxAddresses
      /\ UNCHANGED replies \/ (replies < PoolReplies /\ replies' = replies + 1)
  BY DEF NetworkInv, TypeOK, Complete, ledger
<1>2. replies' \in 0 .. PoolReplies
  <2>1. replies \in 0 .. PoolReplies
    BY DEF NetworkInv, TypeOK
  <2> QED BY <1>1, <2>1, PoolAssumption
<1>3. TypeOK'
  BY <1>1, <1>2 DEF NetworkInv, TypeOK
<1>4. HoldingsKnown'
  BY <1>1 DEF NetworkInv, HoldingsKnown, WithChild, WithConfiguration, WithEvent
<1> QED BY <1>3, <1>4 DEF NetworkInv

\* Every step is one of the cases above, or leaves all variables alone.
LEMMA NetworkStep == NetworkInv /\ [Next]_vars => NetworkInv'
<1> SUFFICES ASSUME NetworkInv, [Next]_vars
             PROVE  NetworkInv'
  OBVIOUS
<1>1. CASE UNCHANGED vars
  <2>1. UNCHANGED <<demo, pc, list, info, child, servers, configured, event,
                    token, addresses, shown, replies, status>>
    BY <1>1 DEF vars, ledger, reply
  <2>2. TypeOK'
    BY <2>1 DEF NetworkInv, TypeOK
  <2>3. HoldingsKnown'
    BY <2>1 DEF NetworkInv, HoldingsKnown, WithChild, WithConfiguration, WithEvent
  <2> QED BY <2>2, <2>3 DEF NetworkInv
<1> QED
  BY <1>1, BindingKeeps, ChildKeeps, LookupKeeps, EndKeeps, CompleteKeeps DEF Next, Demo

\* The invariant holds of every run.
LEMMA NetworkInvariance == Spec => []NetworkInv
BY NetworkInitially, NetworkStep, PTL DEF Spec

--------------------------------------------------------------------------------
\* All variables keep their types.
THEOREM NetworkTypeCorrect == Spec => []TypeOK
<1>1. NetworkInv => TypeOK
  BY DEF NetworkInv
<1> QED BY <1>1, NetworkInvariance, PTL

\* Whenever the driver answers, and after whatever failures: it finds the
\* frame with its token, the event it signals, and the child it works for.
THEOREM DriverFindsItsToken == Spec => []TokenIsAlive
<1>1. NetworkInv => TokenIsAlive
  BY DEF NetworkInv, HoldingsKnown, TokenIsAlive, WithChild, WithConfiguration, WithEvent
<1> QED BY <1>1, NetworkInvariance, PTL

\* Whatever failed, and in whichever of the four demonstrations: at its end
\* nothing is held.
THEOREM DemosCleanUp == Spec => []NothingLeftBehind
<1>1. NetworkInv => NothingLeftBehind
  BY DEF NetworkInv, HoldingsKnown, NothingLeftBehind, WithChild, WithConfiguration, WithEvent
<1> QED BY <1>1, NetworkInvariance, PTL
================================================================================
