----------------------------- MODULE NetworkClients -----------------------------
(***************************************************************************)
(* The network demonstrations of NetworkApp.c and NetworkExample.c:        *)
(*   "ip4"  CheckNetworkStatus, which decides whether NetworkApp goes on   *)
(*   "dns"  DemoDnsLookup                                                  *)
(*   "tcp"  DemoTcpConnection                                              *)
(*   "udp"  DemoUdp4, which NetworkExample runs                            *)
(* The last three create a child of a service binding protocol, configure  *)
(* it, and release it again; every service may fail.  DemoDnsLookup also   *)
(* hands the DNS driver a token on its stack.  The driver completes it     *)
(* from its own notifications: it stores the result in the token and       *)
(* signals the token's event.                                              *)
(***************************************************************************)
EXTENDS Integers

CONSTANTS
    MaxAddresses,   \* addresses a reply may hold
    PoolReplies     \* replies the pool has room for

ASSUME AddressAssumption == MaxAddresses \in Nat
ASSUME PoolAssumption == PoolReplies \in Nat

VARIABLES
    demo,        \* the demonstration that runs
    pc,
    list,        \* HandleBuffer is allocated
    info,        \* Info of CheckNetworkStatus is allocated
    child,       \* the child handle exists
    servers,     \* Config.DnsServerList is allocated
    configured,  \* the child is configured
    event,       \* Event exists
    token,       \* the token at the driver
    addresses,   \* RspData.H2AData->IpCount of a resolved token
    shown,       \* what DemoDnsLookup printed
    replies,     \* replies in the pool: DemoDnsLookup frees none
    status       \* Status, and at the end what the demonstration returns

ledger == <<list, info, child, servers, configured, event>>
reply == <<token, addresses, shown, replies>>
vars == <<demo, pc, ledger, reply, status>>

Demos == {"ip4", "dns", "tcp", "udp"}

TypeOK ==
    /\ demo \in Demos
    /\ pc \in {"locate", "binding", "size", "info", "data", "create", "protocol",
               "servers", "configure", "event", "lookup", "wait", "clean", "release", "end"}
    /\ list \in BOOLEAN /\ info \in BOOLEAN /\ child \in BOOLEAN /\ servers \in BOOLEAN
    /\ configured \in BOOLEAN /\ event \in BOOLEAN
    /\ token \in {"none", "queued", "resolved", "failed", "cancelled"}
    /\ addresses \in 0 .. MaxAddresses
    /\ shown \in {"nothing", "address"}
    /\ replies \in 0 .. PoolReplies
    /\ status \in {"success", "error"}

--------------------------------------------------------------------------------
Go(from, to) == pc = from /\ pc' = to

\* A service that succeeds, and one that fails: the function goes on or ends.
Succeeds(from, to) == Go(from, to) /\ status' = "success"
Fails(from, to) == Go(from, to) /\ status' = "error"

\* LocateHandleBuffer; an error or no handle ends the demonstration.
LocateHandles ==
    /\ \/ Succeeds("locate", "binding") /\ list' = TRUE
       \/ Fails("locate", "end") /\ UNCHANGED list
    /\ UNCHANGED <<demo, info, child, servers, configured, event, reply>>

\* HandleProtocol on the first handle.
GetBinding ==
    /\ \/ Succeeds("binding", IF demo = "ip4" THEN "size" ELSE "create") /\ UNCHANGED list
       \/ Fails("binding", "end") /\ list' = FALSE
    /\ UNCHANGED <<demo, info, child, servers, configured, event, reply>>

\* GetData for the size, and AllocatePool.
GetInfoSize ==
    /\ \/ Succeeds("size", "info") /\ UNCHANGED list
       \/ Fails("size", "end") /\ list' = FALSE
    /\ UNCHANGED <<demo, info, child, servers, configured, event, reply>>

AllocateInfo ==
    /\ \/ Succeeds("info", "data") /\ info' = TRUE /\ UNCHANGED list
       \/ Fails("info", "end") /\ list' = FALSE /\ UNCHANGED info
    /\ UNCHANGED <<demo, child, servers, configured, event, reply>>

\* GetData: success if it succeeds with a station address that does not begin
\* with 0.  Both buffers are freed.
GetInfoData ==
    /\ Succeeds("data", "end") \/ Fails("data", "end")
    /\ list' = FALSE /\ info' = FALSE
    /\ UNCHANGED <<demo, child, servers, configured, event, reply>>

CreateChild ==
    /\ \/ Succeeds("create", "protocol") /\ child' = TRUE /\ UNCHANGED list
       \/ Fails("create", "end") /\ list' = FALSE /\ UNCHANGED child
    /\ UNCHANGED <<demo, info, servers, configured, event, reply>>

\* The child handle after a failure behind its creation.
KeepsChild == child
ChildAfterError == FALSE

\* HandleProtocol on the child.
GetProtocol ==
    /\ \/ /\ Succeeds("protocol", IF demo = "dns" THEN "servers" ELSE "configure")
          /\ UNCHANGED <<list, child>>
       \/ Fails("protocol", "end") /\ list' = FALSE /\ child' = ChildAfterError
    /\ UNCHANGED <<demo, info, servers, configured, event, reply>>

\* The list with the one DNS server; without memory Configure gets none.
AllocateServers ==
    /\ Go("servers", "configure")
    /\ servers' \in BOOLEAN
    /\ UNCHANGED <<demo, list, info, child, configured, event, reply, status>>

\* Configure.  The list of servers is freed whatever it returns.  A failure
\* ends the DNS demonstration; the others clean up as after a success.
Configure ==
    /\ \/ /\ Succeeds("configure", IF demo = "dns" THEN "event" ELSE "release")
          /\ configured' = TRUE
          /\ UNCHANGED <<list, child>>
       \/ /\ Fails("configure", "release") /\ demo # "dns"
          /\ UNCHANGED <<list, child, configured>>
       \/ /\ Fails("configure", "end") /\ demo = "dns"
          /\ list' = FALSE /\ child' = ChildAfterError
          /\ UNCHANGED configured
    /\ servers' = FALSE
    /\ UNCHANGED <<demo, info, event, reply>>

CreateEvent ==
    /\ \/ Succeeds("event", "lookup") /\ event' = TRUE /\ UNCHANGED <<list, child, configured>>
       \/ /\ Fails("event", "end")
          /\ list' = FALSE /\ child' = ChildAfterError /\ configured' = FALSE
          /\ UNCHANGED event
    /\ UNCHANGED <<demo, info, servers, reply>>

\* HostNameToIp takes the token, or refuses it.
HostNameToIp ==
    /\ \/ Succeeds("lookup", "wait") /\ token' = "queued"
       \/ Fails("lookup", "clean") /\ UNCHANGED token
    /\ UNCHANGED <<demo, ledger, addresses, shown, replies>>

\* The driver completes the token it holds; a reply takes room in the pool.
Complete ==
    /\ token = "queued"
    /\ \/ /\ token' = "resolved" /\ addresses' \in 0 .. MaxAddresses
          /\ replies < PoolReplies /\ replies' = replies + 1
       \/ token' = "failed" /\ UNCHANGED <<addresses, replies>>
    /\ UNCHANGED <<demo, pc, ledger, shown, status>>

\* WaitForEvent returns once the event is signalled: there is no timer.  It has
\* no error to return for one event that is no notification, at TPL_APPLICATION.
WaitsForNothing == TRUE
WaitsForAddress == token = "resolved"
Signalled == token # "queued"

\* What is printed of a reply.
Printed(n) == IF n > 0 THEN "address" ELSE "nothing"

\* Status is that of WaitForEvent, not the token's.
WaitForEvent ==
    /\ Succeeds("wait", "clean")
    /\ Signalled
    /\ shown' = IF token = "resolved" THEN Printed(addresses) ELSE "nothing"
    /\ UNCHANGED <<demo, ledger, token, addresses, replies>>

CloseEvent ==
    /\ Go("clean", "release")
    /\ event' = FALSE
    /\ UNCHANGED <<demo, list, info, child, servers, configured, reply, status>>

\* What is returned: DemoUdp4 has nothing but success to return here.
ReturnedStatus(s) == IF demo = "udp" THEN "success" ELSE s

\* Configure with no data, which cancels what the child still has to do;
\* DestroyChild; FreePool; the return.
Release ==
    /\ Go("release", "end")
    /\ configured' = FALSE /\ child' = FALSE /\ list' = FALSE
    /\ token' = IF token = "queued" THEN "cancelled" ELSE token
    /\ status' = ReturnedStatus(status)
    /\ UNCHANGED <<demo, info, servers, event, addresses, shown, replies>>

\* The next demonstration: NetworkAppMain ends when the network is not ready,
\* and NetworkExample is run after it.
NextDemo ==
    /\ Go("end", "locate")
    /\ demo' = CASE demo = "ip4" -> IF status = "success" THEN "dns" ELSE "udp"
                 [] demo = "dns" -> "tcp"
                 [] demo = "tcp" -> "udp"
                 [] demo = "udp" -> "ip4"
    /\ token' = "none" /\ addresses' = 0 /\ shown' = "nothing"
    /\ UNCHANGED <<ledger, replies, status>>

--------------------------------------------------------------------------------
Init ==
    /\ demo = "ip4" /\ pc = "locate"
    /\ list = FALSE /\ info = FALSE /\ child = FALSE /\ servers = FALSE
    /\ configured = FALSE /\ event = FALSE
    /\ token = "none" /\ addresses = 0 /\ shown = "nothing" /\ replies = 0
    /\ status = "success"

Demo ==
    \/ LocateHandles \/ GetBinding \/ GetInfoSize \/ AllocateInfo \/ GetInfoData
    \/ CreateChild \/ GetProtocol \/ AllocateServers \/ Configure \/ CreateEvent
    \/ HostNameToIp \/ WaitForEvent \/ CloseEvent \/ Release

Next == Demo \/ NextDemo \/ Complete

Spec == Init /\ [][Next]_vars

\* The application runs on.  Nothing makes the driver answer.
FairSpec == Spec /\ WF_vars(Demo)

--------------------------------------------------------------------------------
(* Properties.                                                             *)

\* While the driver holds the token, the frame of DemoDnsLookup with the token
\* is alive, its event exists, and its child is configured: the driver never
\* signals a closed event nor stores into a frame that is gone.
TokenIsAlive ==
    token = "queued" => pc = "wait" /\ event /\ child /\ configured

\* Whatever failed, no demonstration leaves allocated what it allocated itself,
\* nor an event, nor a child.  (The replies are the driver's allocations.)
NothingLeftBehind ==
    pc = "end" => ~list /\ ~info /\ ~child /\ ~servers /\ ~configured /\ ~event

\* Each demonstration ends, unless the driver never answers: then, without a
\* timer, DemoDnsLookup waits for ever.  An answer of any kind ends the wait, a
\* failure and a reply without address too.
EndsUnlessUnanswered ==
    pc = "locate" ~> (pc = "end" \/ [](pc = "wait" /\ token = "queued"))
================================================================================
