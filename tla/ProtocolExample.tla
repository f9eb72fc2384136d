---------------------------- MODULE ProtocolExample ----------------------------
(***************************************************************************)
(* ProtocolExample.c: an application that installs a protocol, locates and *)
(* uses it as another component would, and uninstalls it.  It is run       *)
(* several times in a row; every run is a new copy of the image, whose     *)
(* data holds the interface structure, and is unloaded when it returns.    *)
(*                                                                         *)
(* Between any two steps of a run another component may use the protocol   *)
(* too: it stores a value, opens the interface of a run BY_DRIVER, and     *)
(* closes it again.  The firmware refuses to uninstall an interface that a *)
(* driver has open and does not let go.                                    *)
(***************************************************************************)
EXTENDS Integers, Sequences, SequencesExt

CONSTANTS
    MaxRuns,    \* how often the application is run
    Values      \* values another component may store

ASSUME RunAssumption == MaxRuns \in Nat
ASSUME ValueAssumption == Values \subseteq Nat

RunNumbers == 1 .. MaxRuns

VARIABLES
    run,        \* the current run
    pc,         \* where it is; "exit" between two runs, "crashed" for good
    installed,  \* the interfaces of the GUID, oldest first, by their run
    open,       \* interfaces that the other component has open BY_DRIVER
    stored,     \* stored[r]: StoredValue in the interface of run r
    located,    \* the interface LocateProtocol returned, as its run
    value,      \* what GetValue returned
    refused     \* runs whose uninstall the firmware refused

protocolVars == <<run, pc, installed, open, stored, located, value, refused>>

\* The image of run r is in memory.
Loaded(r) == r = run /\ pc # "exit"

ProtocolTypeOK ==
    /\ run \in 0 .. MaxRuns
    /\ pc \in {"install", "locate", "set", "get", "handle", "uninstall", "exit", "crashed"}
    /\ installed \in Seq(RunNumbers)
    /\ open \subseteq RunNumbers
    /\ stored \in [RunNumbers -> Values \cup {0, 42}]
    /\ located \in 0 .. MaxRuns
    /\ value \in Values \cup {0, 42}
    /\ refused \subseteq RunNumbers

Interfaces == ToSet(installed)

--------------------------------------------------------------------------------
(* The application.                                                        *)

Go(from, to) == pc = from /\ pc' = to

\* The image is loaded: its interface holds the initial value.
StartRun ==
    /\ Go("exit", "install")
    /\ run < MaxRuns
    /\ run' = run + 1
    /\ located' = 0 /\ value' = 0
    /\ UNCHANGED <<installed, open, stored, refused>>

\* InstallProtocolInterface on a new handle.  On an error the run returns it.
Install ==
    /\ \/ Go("install", "locate") /\ installed' = Append(installed, run)
       \/ Go("install", "exit") /\ UNCHANGED installed
    /\ UNCHANGED <<run, open, stored, located, value, refused>>

\* LocateProtocol returns the first interface of the GUID; an error goes to
\* the clean-up.
Locate ==
    /\ \/ Go("locate", "set") /\ located' = Head(installed)
       \/ Go("locate", "uninstall") /\ UNCHANGED located
    /\ UNCHANGED <<run, installed, open, stored, value, refused>>

\* A call through an interface whose image is gone: the memory may have been
\* reused, or not yet.
Calls(from, to) ==
    Go(from, to) \/ (~Loaded(located) /\ Go(from, "crashed"))

\* ExampleSetValue stores into the interface it is given.
SetValue ==
    /\ Calls("set", "get")
    /\ stored' = [stored EXCEPT ![located] = 42]
    /\ UNCHANGED <<run, installed, open, located, value, refused>>

\* What ExampleGetValue returns from the interface it is given.
ExampleGetValue(this) == stored[this]

GetValue ==
    /\ Calls("get", "handle")
    /\ value' = ExampleGetValue(located)
    /\ UNCHANGED <<run, installed, open, stored, located, refused>>

\* HandleProtocol on the run's own handle: from here on Protocol is the
\* run's own interface.  After an error the clean-up follows all the same.
Handle ==
    /\ Go("handle", "uninstall")
    /\ located' \in {run, located}
    /\ UNCHANGED <<run, installed, open, stored, value, refused>>

\* The interfaces left by a successful UninstallProtocolInterface.
KeepsInterface(r) == installed
WithoutInterface(r) == RemoveAt(installed, CHOOSE i \in DOMAIN installed : installed[i] = r)

\* Step 5.  A refusal is printed and not returned.
Uninstall ==
    /\ Go("uninstall", "exit")
    /\ IF run \in open
         THEN refused' = refused \cup {run} /\ UNCHANGED installed
         ELSE installed' = WithoutInterface(run) /\ UNCHANGED refused
    /\ UNCHANGED <<run, open, stored, located, value>>

--------------------------------------------------------------------------------
(* The other component.  It uses the interfaces of loaded images.          *)

OtherStores(r, v) ==
    /\ r \in Interfaces /\ Loaded(r)
    /\ stored' = [stored EXCEPT ![r] = v]
    /\ UNCHANGED <<run, pc, installed, open, located, value, refused>>

OtherOpens(r) ==
    /\ r \in Interfaces \ open /\ Loaded(r)
    /\ open' = open \cup {r}
    /\ UNCHANGED <<run, pc, installed, stored, located, value, refused>>

OtherCloses(r) ==
    /\ r \in open
    /\ open' = open \ {r}
    /\ UNCHANGED <<run, pc, installed, stored, located, value, refused>>

--------------------------------------------------------------------------------
ProtocolInit ==
    /\ run = 0
    /\ pc = "exit"
    /\ installed = <<>>
    /\ open = {}
    /\ stored = [r \in RunNumbers |-> 0]
    /\ located = 0
    /\ value = 0
    /\ refused = {}

Application ==
    \/ StartRun \/ Install \/ Locate \/ SetValue \/ GetValue \/ Handle \/ Uninstall

Other ==
    \E r \in RunNumbers : OtherOpens(r) \/ OtherCloses(r) \/ \E v \in Values : OtherStores(r, v)

ProtocolNext == Application \/ Other

ProtocolSpec == ProtocolInit /\ [][ProtocolNext]_protocolVars

--------------------------------------------------------------------------------
(* Properties.                                                             *)

\* An interface outlives its image only if a component that had it open
\* made the firmware refuse the uninstall: no path of the application
\* itself leaves its interface behind.
OutlivesOnlyIfRefused ==
    \A r \in Interfaces : ~Loaded(r) => r \in refused

\* As long as no uninstall was refused, the run works on its own interface,
\* however often the application ran before.
LocatesOwn ==
    refused = {} /\ pc \in {"set", "get"} => located = run
================================================================================
