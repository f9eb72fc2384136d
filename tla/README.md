# Verification of the UEFI guide's example programs

The repository is a tutorial on UEFI programming. Its code is the EDK II package
`src/examples/UefiGuidePkg`: one UEFI driver and fourteen UEFI applications, all small, all written
against the boot services and protocols of the firmware. This directory holds TLA+ models of
the programs that keep state over calls which can fail, block or be interleaved with others, TLC
configurations that check them on small instances, and TLAPS proofs of their safety properties for
every instance.

All line numbers below are those of `src/examples/UefiGuidePkg/<program>/<program>.c`.

## 1. Inventory

The programs do not call each other. What they share is the firmware: the handle database, the
event dispatcher, the memory map and pool, the variable store, volumes and network drivers. UEFI has one
processor and no preemptive threads; what interrupts a program between two of its service calls
is an event notification at a higher task priority level (TPL), and what changes under it is
firmware state that such a notification, or a driver in it, changes. Nearly every service may
fail.

| Program | State it keeps | Operations | Hard behaviour | What makes it correct |
|---|---|---|---|---|
| DriverExample | none of its own: the BY_DRIVER open entry in the handle database | entry point, Supported, Start, Stop | calls nested at several TPLs, hot plug, several images | open entry in step with what was returned; one driver per device |
| ServicesExample | event and `TIMER_CONTEXT` on the stack; TPL | CreateEvent, SetTimer, poll, cancel, close, notification function; RaiseTPL/RestoreTPL | notification shares stack memory with the application | no notification into a dead frame; event released; five ticks; critical section |
| ProtocolExample | interface structure in the image's data, handle | install, locate, Get/SetValue, HandleProtocol, uninstall | interface outlives the image; other users | interface gone with the image; own interface found |
| BootMenu | `MENU_STATE`: options, count, selection | LoadBootOptions, DrawMenu, keys, BootNext, reset | variables change between size query and read | list matches BootOrder; buffers freed; the highlighted line is the one stored in BootNext |
| MemoryExample, ShellCommand, BootLoader (memory map) | map buffer, size, MapKey | size query, allocate, read, walk, free | the allocation changes the map that is read | enough room; only the map is walked; the key is current |
| BootLoader (LoadKernel) | two files, FileInfo, pages | open, open, allocate, GetInfo, AllocatePages, Read | nine returns; file changes in between | nothing left open; read fits the pages |
| FileSystemExample | volume, open files, listing and FileInfo buffers | list, create, write, flush, read | failures that are not acted on; power failure | nothing left open; reads back what it wrote |
| NetworkApp, NetworkExample | handle list, child, server list, configuration, event, DNS token on the stack | locate, create, configure, lookup, wait, release | the driver completes the token asynchronously | driver never writes to a dead token; everything released |
| ConsoleExample | line buffer and index | read keys, edit a line | one variable in two roles | the line read is the line typed |
| VariableExample, ServicesExample (variables) | name of the walk, counts; the variable store | read, enumerate, create, delete | the store is written by others while enumerated; power failure | the walk misses nothing and ends; the store is left as it was |
| BlockIoExample | sector buffers, device count | read LBA 0 and 1, decide MBR or GPT, dump | medium changed between two reads; a read that fails | the table reported is that of one medium |
| GopExample | none; the frame buffer | modes, boxes, gradient, capture | unsigned geometry | all boxes on the screen and apart |
| MemoryExample (pool, pages), ShellCommand (command line), NetworkExample (interfaces) | the buffers they own | allocate, use, release | each step may fail | nothing left allocated |
| HelloWorld | none | prints, waits for a key | none | - |

`Include/UefiGuide.h` holds printing macros; the `.dec`, `.dsc` and `.inf` files and the GitHub
workflows describe builds; the Markdown under `part*`, `appendices` and `_includes` is the text of the
guide. None of these has behaviour to model. The guide's text, and comments and messages in the
code, are used as statements of intent, never as the source of a definition.

`PROJECT.json` lists the hazards of this code at their lines, each with the properties that would
catch it, or with the reason why none does yet.

## 2. Modules

| Module | Models | Instance, runs |
|---|---|---|
| `DeviceOwnership` | abstract specification: a device is free or has one owner | refined by `DriverBinding` |
| `DriverBinding` | DriverExample and the handle database | `MCDriverBinding`: `driver_binding` |
| `TimerDemo` | events and TPL of ServicesExample, timer interrupt, dispatcher | `MCTimerDemo`: `timer_demo` |
| `TimerDemo_proofs` | theorems about it | |
| `ProtocolExample` | ProtocolExample beside another user | `MCProtocolExample`: `protocol_example` |
| `HandleDatabase_proofs` | theorems about `DriverBinding` and `ProtocolExample` | |
| `BootMenu` | BootMenu over the variable store | `MCBootMenu`: `boot_menu`, `text_mode` |
| `BootMenu_proofs` | theorems about it | |
| `MemoryServices` | the firmware's memory map and pool (external) | extended by `MapClients` |
| `MapClients` | the three readers of the memory map | `MCMapClients`: `memory_map`, `exit_key` |
| `MapClients_proofs` | theorems about it | |
| `KernelLoader` | LoadKernel | `MCKernelLoader`: `kernel_loader` |
| `KernelLoader_proofs` | theorems about it | |
| `FileSystemExample` | FileSystemExample, its volume and the driver's cache | `MCFileSystemExample`: `file_system` |
| `FileSystemExample_proofs` | theorems about it | |
| `NetworkClients` | the status check and the DNS, TCP and UDP demonstrations | `MCNetworkClients`: `network_clients` |
| `NetworkClients_proofs` | theorems about it | |
| `LineInput` | DemoTextInput of ConsoleExample | `MCLineInput`: `line_input` |
| `UefiShell` | the shell and the pool (external) | extended by the next seven |
| `VariableStore` | the variable services (external) | extended by `VariableClients` |
| `VariableClients` | VariableExample, and DemoRuntimeServicesVariables of ServicesExample | part of `ShellSession` |
| `BlockIoExample` | BlockIoExample | part of `ShellSession` |
| `GopExample` | GopExample | part of `ShellSession` |
| `MemoryExample` | MemoryExample, the map reading as one step | part of `ShellSession` |
| `ShellCommand` | ShellCommand, the printing as one step | part of `ShellSession` |
| `NetworkInterfaces` | the two walks over interfaces of NetworkExample | part of `ShellSession` |
| `ShellSession` | the six above, started in any order over one pool | `MCShellSession`: `shell_session` |
| `ShellSession_proofs` | theorems about the six programs, in every session | |

Conventions. `pc` is the place in the function that runs, one action per service call (with
whatever the code does up to the next one), so that other actors come between any two services
and never inside one. An error return is a disjunct of the action of the service that failed. Small
operators such as `OpensAfterStop`, `PoolAfterOrderError` or `SizeToPages` hold one decision of the
code each; the operators defined just before them with other names (`StopKeepsOpen`,
`KeepsOrderBuffer`, `RoundsDown`, ...) are plausible wrong versions of the same decision. They are
used by no action; `PROJECT.json` pairs them ("mutants") to show that each property notices the
mistake.

### DriverBinding (the driver and the handle database)

`opens[c]` is the part of the handle database that matters: the agents with BY_DRIVER access to the
PCI I/O protocol of controller `c`. `present` are the controllers with that protocol. `managing`
is what the return values of Start and Stop say. Calls live in `frame[l]`, one per TPL: the call at
the highest active level runs, so a call is preempted exactly as a notification preempts it.

* `DriverExampleEntryPoint` (lines 204-233): install the binding.
* `SupportedOpen`, `SupportedClose`: Supported (71-111) split at its two services.
* `DriverBindingStart`: Start (124-159). One service changes state, so one action.
* `DriverBindingStop`: Stop (172-194).
* `ConnectController`, `DisconnectController`, `RemoveController`, `AddController`, `DisconnectStops`,
  `RemoveStops`, `RemoveUninstalls`, `CallReturns`: the firmware's side, external.

Assumption about the firmware, named in `CanBegin`: it does not start a call on a controller inside
the open/close pair with which Supported probes the *same* controller. Without it Supported's
CloseProtocol, which names the agent and not the open, could close a Start's entry.

`DeviceOwnership` says what this amounts to for a device: taken only while free, released only by
its owner, never handed over in one step. `ImplementsOwnership` is its specification under the
refinement mapping `owners <- managing`.

That at most one agent has a controller open, and that PCI I/O is not uninstalled while it is open, are rules of the
firmware (`CanOpen`, `RemoveUninstalls`), so neither is a property here. What the driver has to do for them to mean
something is: a controller that it manages must not go (`ManagedIsPresent`), for which its entry must
stay in the open list over every probe and every error return in between.

### TimerDemo (events and TPL)

The application, the timer interrupt and the dispatcher share the processor. `queued` is the
notification queue, `running` the function being executed, `tpl` the current level. `AppRuns` says
when the application may step: no notification runs, and none that may be dispatched is waiting.
`context` is the structure on the stack of DemoBootServicesEvents; it starts with arbitrary
content, and after the return (`~InFrame`) it does not exist. WaitForEvent is refused for an event
with a notification function, so the loop at 109 is a polling loop (`PollDone`). The time, variable
and reset demonstrations of the program are not in the model.

### ProtocolExample

Each run is a new image with its own interface structure, named by its run. Another component may
store a value, open the interface and close it. Uninstalling is refused while it is open; the
program prints that and returns. LocateProtocol gives the oldest interface of the GUID.

### BootMenu

The store (`bootOrder`, `optionSize`, `bootNext`) and the application. BootNext may be set before the menu starts. Data is abstracted to
sizes, which is all the loader decides on: absent, too short for a header (6 bytes), and two usable
sizes, so that a variable can shrink or grow between the two calls and stay usable. Another
component writes BootOrder, BootNext or an option between any two services, and each GetVariable may fail whatever is
stored. `described` has how much of each description was read. Drawing is one action; it goes through the graphics
protocol that may not have been found, and leaves the option it highlights in `highlighted`, which is what the user sees
until the next drawing. After the reset the firmware boots; nothing comes back.

The status of SetVariable(BootNext) at 259 is ignored: after a failure the reset follows with an older BootNext, or
none. Both outcomes are in `SetBootNext`; the history variable `written` says that BootNext is what the menu stored, and
`BootNextIsHighlighted` claims only then that it is the highlighted option.

### MemoryServices and MapClients

`MemoryServices` has the number of descriptors, the key and the allocated buffers. A pool request
leaves the map alone, or changes its key and adds up to two descriptors (taking the middle of a
free range leaves three ranges); a free removes up to two. `MapClients` runs the three programs'
functions over it, any number in a row, each with a buffer of its own. They share the pattern size query / allocate with room
for two more / read, and differ in what they do after an error and after the use (`ReadError`,
`UseAndFree`): the boot loader goes on to its next steps without a map too (`AfterMap`).

### KernelLoader

LoadKernel (111-231) service by service. `handles`, `info`, `pages` are what it holds; `kernelSize`
and `kernelBuffer` its two outputs. The file may be rewritten between any two services. Nobody in
the repository calls LoadKernel; the model's caller retries after a failure.

### FileSystemExample

The volume (`testDir`, `testFile`) survives a `Reset`, the application does not. The file is a
sequence of units that are "new" (what WriteFile writes) or "old". Writes may stop half-way. The file
system driver caches: `testDir` and `testFile` are what the application sees, `durable` is what is on the
medium for sure. A successful Flush (208) makes the two equal. At a power failure each unit of the file
is taken from either (`Torn`), and directory and file may be old or new, since what else the cache wrote
back by then is not known. The history variable `kept` remembers that some run wrote the file completely
and its Flush did not fail. The status of Flush is ignored by the code: WriteFile's success promises nothing
after a failed one, and neither does the property.

### NetworkClients

The four functions that acquire something, run one after the other. They have the same shape (list of handles, child, protocol,
configuration, release), so they share actions; `demo` says which one runs and decides where the
code differs (what Configure's failure releases, what is returned). Only the DNS lookup has a server list
(`AllocateServers`), which it frees after Configure. `Complete` is the DNS driver, and allocates the replies (`replies`)
that nobody frees: they are counted, but are not part of `NothingLeftBehind`. WaitForEvent always succeeds: for one
event without a notification function, at TPL_APPLICATION, the service has no error to return.

### LineInput

DemoTextInput with keys as classes. `line` is what the user typed and corrected, `buffer` and
`index` what the code has.

### The shell session: VariableClients, BlockIoExample, GopExample, MemoryExample, ShellCommand, NetworkInterfaces

These programs have the same frame: the shell enters them (`program`, `pc`), they allocate and free
(`pool`, the buffers that are allocated by the pointer they were stored in), they return. `UefiShell`
holds this frame, each module one program with its own variables and the part of the world that acts
while it runs (`VariablesNext`, `BlockNext`, ...), and `ShellSession` extends them all: a step of the session is
one of these over the shared `program`, `pc` and `pool`, with the frames of the other programs unchanged.
A free of what is not allocated has no step in the model, so that a program which did it would stop, and
violate `ProgramsEnd`. Between two runs of a program its world is not followed: a run starts with any
store, any devices, any of the resolutions. Locals are back at their initial values after the return.

* `VariableClients`. The store is the set of variables with their attributes and an order of enumeration
  (`list`); a variable that is written may move in it. GetNextVariableName finds its place by the name it
  is given (`NextNames`). Another component may write or delete between any two services, and the power may
  fail. `theirs` is what the attributes would be without this program, `quiet` that nobody else wrote;
  both are history variables for the properties. The standard variables other than BootOrder have no
  effect, so that only their order and number is kept (`Standard`). VariableExample walks until an error
  (315-351), ServicesExample at most ten variables (310).
* `BlockIoExample`. A buffer holds the medium it was read from, or zeros (AllocateZeroPool). There are two media
  with a GPT, so that one can be exchanged for the other without a change of the table's kind. The driver's
  Media structure describes the medium it has *seen*; ReadBlocks on another one fails, and the driver
  notices. `noticed` is the history variable for the one case in which two sectors of different media come
  together: another component's read between the two makes the driver notice first, and
  `Media->MediaId`, read again at 160, names the new medium.
* `GopExample`. All geometry is modulo `Word`, and so is Blt's own parameter check (`Fits`), as a check
  that adds position and size is. `asked` are the rectangles Blt was called with, `refused` those outside
  the screen. The columns of the gradient are one rectangle.
* `MemoryExample`, `ShellCommand`, `NetworkInterfaces`: what is allocated, what may fail, what is freed. In
  ShellCommand, Problem is not initialised (234) and compared with NULL after any error of the parser
  (261). If the library did not write it, the comparison and the free are those of an arbitrary pointer: the
  label "wild", from which there is no step.

## 3. Runs

Passing runs. TLC explores every state; deadlock is not checked where the program ends
(`CHECK_DEADLOCK FALSE`; in `shell_session` it may end at "wild"), except in `network_clients`, whose demonstrations follow each other for
ever, so that it could only stop by waiting for an answer that was given already. (`timer_demo` says
`DemosEnd` instead.)

| Run | Bounds | Shows |
|---|---|---|
| `driver_binding` | 2 images, 2 controllers, 2 levels, 4 environment calls | `OpenIffManagedOrProbed`: the open list agrees with the return values at every point of every nesting. `ManagedIsPresent`: no controller goes while an image manages it. `ImplementsOwnership`: the refinement. `CallsReturn`: every call ends |
| `timer_demo` | 7 expiries | `NoCallbackIntoDeadFrame`, `EventReleased`, `FiveTicksSeen`, `CriticalSectionUninterrupted`; `DemosEnd`, `NoNotificationStarves` |
| `protocol_example` | 3 runs, one foreign value | `OutlivesOnlyIfRefused`, `LocatesOwn` |
| `boot_menu` | 2 option numbers, 4 sizes, BootOrder up to 3, 2 options at most, 1 foreign write | `SelectionInRange`, `ReadsInsideBuffer`, `ListFollowsOrder`, `DescriptionWasRead`, `BuffersFreed`, `BootNextIsHighlighted` |
| `memory_map` | 2 programs in a row, 1 to 3 descriptors at first, 2 foreign changes | `QuietReadSucceeds`, `WalksTheMap`, `KeyFreshWhileHeld`, `BufferReturned` |
| `kernel_loader` | pages of 2 units, files up to 5 | `NothingLeftOpen`, `PagesFollowStatus`, `ReadFitsPages`, `SizeIsWhatWasRead` |
| `file_system` | content 2, read buffer 3, old file up to 4, 2 other entries, 2 power failures | `NothingLeftOpen`, `ReadsBackWhatWasWritten`, `FlushedWriteSurvives` |
| `network_clients` | replies of up to 2 addresses, room for 2 replies | `TokenIsAlive`, `NothingLeftBehind`, `EndsUnlessUnanswered` |
| `shell_session` | 4 variables, one with a name over 255 characters, a limit of 2, 1 foreign write; 2 devices, of which 1 is shown, 4 media, 2 changes of media; 2 modes, 5 resolutions, 16-bit words; 2 interfaces | `TypeOK` of all six programs; `NothingLeftInPool` and `ProgramsEnd` of whatever sequence of programs; `WalkIsComplete`, `StoreAsFound`; `VerdictIsOfOneMedium`; `DrawnOnScreen`, `BoxesApart` |

The type invariants of the other modules are not among the runs' properties. They are theorems, as is every
safety property of the table; only that of `LineInput`, whose one run looks for a violation, is there for
readers alone.

Why the bounds are enough. The safety properties are proved for all values of the constants (section 4), so that
what matters is that the runs meet the cases in which they could fail.
* driver: two images and two levels give every race of a connect inside a connect, and of a
  removal inside either; four calls let a controller be connected, lost, found and connected again.
* timer: seven expiries leave two after the fifth, one to be queued when the timer is cancelled and
  one while the notification runs.
* protocol: three runs let an interface be left behind, be found by the second run, and be one of
  two for the third.
* boot menu: MAX_BOOT_OPTIONS 2 below a BootOrder of 3, with entries that are absent or
  unusable, makes "entries looked at" and "entries listed" differ in both directions. One
  write suffices for a stale size: the pair of calls it can fall between is short, and the next pair
  asks again.
* memory: `MaxSplit` 2 is the largest growth one allocation can cause, and equals the room the
  programs add; two programs in a row let one inherit the map and the leak of the other.
* kernel: sizes 0 to 5 with pages of 2 have an empty file, partial last pages and exact
  multiples.
* file system: the old file is shorter than, as long as and longer than both the content and the
  read buffer; two failures let a run find what a run that was itself a restart left.
* session: four names give a walk a beginning, a middle, an end and a name that does not fit, more of
  them than the limit of the limited loop; one write between any two calls can delete the variable the walk
  stands on, move it, or add one before or behind it. Two media changes exchange a medium and exchange it
  again. Two devices with a limit of one reach the limit before the end of the handles. The resolutions
  include the smallest with room for the boxes (84x63), heights below and at the limits for the bar (70
  lines) and for box and bar apart (180 lines), and two usual ones. `Word` only has to be larger
  than the screen: a wrapped size is as far off in 16 bits as in 64.
* network: 0, 1 and 2 addresses are the cases of the test on IpCount; the pool runs full.

Fairness.
* `driver_binding`: weak fairness of the steps inside a call, per level. The processor executes;
  nothing is assumed about the environment's calls.
* `timer_demo`: the processor executes notifications (weak) and the application (strong, because
  notifications disable it again and again but each ends); a level's queue is first in, first out,
  so neither of two queued notifications is passed over for ever (strong, per notification); and the
  armed periodic timer expires again (weak).
* `network_clients`: weak fairness of the application, and nothing of the driver. NetworkApp.c says "(with timeout)" at
  244 and prints "timed out" at 258, but the wait at 246 has only the token's event: no timer exists. So a lookup that
  the driver never answers never ends, and `EndsUnlessUnanswered` says that this is the only way for a demonstration
  not to end. The zeroed configuration leaves the driver's own retry limits at their defaults, on which
  this code relies without saying so.
* `shell_session`: weak fairness of the application that runs: the processor executes it, its services return,
  and at GopExample's prompts the user presses a key. Nothing is assumed of the writers of the store, of
  the media, or that another program is ever started.

Runs that must find a violation. Each checks one statement of the repository that the code does not keep.
* `text_mode`: BootMenu prints "Graphics not available, using text mode" (301), sets Gop to NULL and
  calls DrawMenu, whose FillRect calls through it (196, 76).
* `exit_key`: DemoBootProcess states that MapKey must match (367) and presents ExitBootServices as
  its step 5, after the FreePool at 319. With nobody else active the key can already be old there.
* `line_input`: in DemoTextInput the count of characters is passed to WaitForEvent as the place for
  the index of the signalled event (161), which is 0. Each character is stored at Buffer[0].

## 4. Proofs

`tlapm` checks eight modules. For every safety property of a passing run there is a theorem
`Spec => []Property`, for every value of the constants, and one for each type invariant but that of
`LineInput`. `PROJECT.json` lists them.

Assumptions are the named ones on the constants; TLC evaluates them in the runs.
* Most only say that a bound is natural or positive (`LevelAssumption`, `CallAssumption`, `RunAssumption`,
  `TickAssumption`, `BoundAssumption`, `OtherAssumption`, `PageSizeAssumption`, `MaxSizeAssumption`,
  `ContentAssumption`, `ReadAssumption`, `ResetAssumption`, `AddressAssumption`, `PoolAssumption`,
  `LimitAssumption`, `DeviceAssumption`, `SwapAssumption`, `ModeAssumption`, `InterfaceAssumption`), or that
  sizes, values and buffers are numbers (`SizeAssumption`, `ValueAssumption`, `BufferAssumption`).
* `NameAssumption`: the store has finitely many names, since it has finite room; the empty string, with which a
  walk begins, is not one of them; BootOrder is. `TestVarAssumption`: TestVar is one of them.
* `WordAssumption` and `ResolutionAssumption`: at least 84x63 pixels, and less than half of UINTN.

The invariants are seldom inductive as they stand. A property speaks of one label, usually the last one, and what
is true there was settled at the labels before; so each proof has an invariant that says what the program holds
and knows at every label, one lemma per action (or per group of actions with the same frame) that the step keeps
it, and one theorem per property.

**DriverBinding** (`HandleDatabase_proofs`) - for any sets of images and controllers, any nesting depth and
number of calls. `TypeCorrect`; `Invariance` for `IInv`; `OpenListCorrect` and
`NoRemovalUnderManager` from it; `Refinement`: `Spec => ImplementsOwnership`. `IInv` has `OpenIffManagedOrProbed`,
what the firmware's rules give (`OneAgentPerController`, `OpenIsPresent`), and `ProbeUndisturbed`. `ManagedIsPresent`
follows from `OpenIffManagedOrProbed` and `OpenIsPresent`: a manager is in the open list, so the removal waits for it.
`ProbeUndisturbed` is needed because `OpenIffManagedOrProbed` is not inductive: when Supported closes its probe,
"open iff managed or probed" survives only if the closing image does not manage the controller
(second part of `ProbeUndisturbed`) and no other level probes it (first part, which also follows
calls nested in the probe). The step has one lemma for the actions that touch neither list
(`QuietStep`) and one for Stop (`StopStep`), which two actions share. For the refinement, Start is
Take because a free open list means no manager, and Stop is Release or a stutter
(`StopReleases`), because at most one image manages.

**ProtocolExample** (`HandleDatabase_proofs`) - for any number of runs. `ProtocolInv` adds `InstalledInOrder`: the
interface of the current run is the last in the list and is there once. LocateProtocol takes the first, so that the two
are the same exactly when the list has no other (`LocateKeeps`); the uninstall takes the last and leaves the
others (`UninstallLeavesOthers`).

**TimerDemo** - for any bound on expiries. `TimerTypeCorrect` proves `TypeOK /\ TimerInv`;
`DeadFrameSafe`, `EventAlwaysReleased`, `FiveTicksCounted`, `RaisedSectionSafe` follow. `TimerInv` says
to which part of the program each state of the event, the queue and the level belongs, and that
counted plus outstanding notifications never exceed the expiries; without the outstanding ones the
count would not be inductive across `Dispatch` and `TimerCallback`.

**BootMenu** - for any options and orders, any MAX_BOOT_OPTIONS and any number of foreign writes. `BootInv` has
the buffers (`PoolKnown`), what the loop knows of the order it read (`OrderKnown`), the selection
(`SelectionKnown`), what is highlighted and stored (`BootNextKnown`) and the descriptions (`DescriptionWasRead`). `ListFollowsOrder` is part of it: it
quantifies over the function `at` from lines to entries, and the proof carries that witness along. It stays the same when an entry is
passed over (`PassedOverFollows`), gets one more line when an option is appended (`AppendedFollows`), and a
foreign write costs only the part about undisturbed stores (`WrittenFollows`).

**MapClients** - for any memory map, any number of programs, and any growth of the map by others.
`BuffersKnown` says which buffers are allocated: those that leaked, and that of the current run while it holds one.
`MapKnown` says, while nobody else was active, how the map relates to what the program knows of it: as the
size query found it, then at most one allocation away (`TakenBounds`: `MaxSplit` descriptors), then as it was read.
That is why the room of two descriptors is enough (`SlackIsEnough`).

**KernelLoader** - for any page size and any file sizes. `LoadInvariant` for `LoadInv`, which says what is
held at each step (`HeldAt`); `LoadTypeCorrect`, `LoadLeavesNothingOpen`, `LoadPagesFollowStatus`,
`LoadReadFitsPages`, `LoadSizeIsWhatWasRead` follow. The arithmetic of EFI_SIZE_TO_PAGES is in lemmas:
`EnoughPages` (the pages hold the size, one fewer does not) and `PagesInBounds`.

**FileSystemExample** - for any content, read buffer, old files and number of power failures.
`FlushedWriteSurvives` speaks of the volume as the application sees it, and a power failure replaces that by the medium
or by a mixture of the two. So `KeptKnown` says the same of both copies: whatever unit of the file is
taken from either (`TornIs`), it is new. `WriteKnown` follows a successful WriteFile to what is read back, and
`HandlesKnown` says what is open at each label. Files are sequences; `OverwrittenIs` and `FirstPartIs` say what a
write and a read of a part make of one.

**NetworkClients** - for replies of any length and any room for them. `HoldingsKnown` gives the handles, the child, its
configuration and the event as functions of the label, for all four demonstrations at once, and says that
the driver has the token only while the application waits. `DriverFindsItsToken` and `DemosCleanUp` read both
properties off.

**The shell session** - `SessionInv` is the conjunction of an invariant per program and one for the pool.
* Each program's own invariant is about its own frame, and is kept by the steps of the others because they do not
  touch that frame and the program is not the one that runs (the lemmas `Elsewhere...`, from `Runs`: which
  programs run before and after a step of each part).
* The store: `Enumerates` says that the list has every variable once; InsertAt and RemoveAt keep it
  (`InsertedEnumerates`, `RemovedEnumerates`), and so does any order a new store may have (`OrdersEnumerate`).
  `WalkKnown` says that an undisturbed walk has listed the first variables of the enumeration, in its order; at the
  end those are all (`WalkListsTheStore`). `StoreKnown` says in what the store may differ from what the others
  made it, label by label (`StoreIsLeftAsFound`).
* The tables: `DisksKnown` says what the buffers are of at each label, and that until LBA 1 is read the medium that
  LBA 0 is of is the one the driver has seen, unless `noticed` is set (`TableIsOfOneMedium`).
* The graphics: `Divisions` states what the division into four columns and three rows gives, `NoWrap`
  removes the modulus below `Word`; from them each box has the place it has without overflow (`BoxIsPlaced`), is
  on the screen (`BoxFits`) and apart from the others (`BoxesAreApart`, `BarIsApart`), and Blt's wrapping test
  lets none of the other rectangles leave the screen (`OthersFit`). `GopInv` says that only these
  rectangles were asked for, and that each was tested against the resolution the screen still has: the two
  properties speak of rectangles asked for earlier, and would mean nothing of another resolution
  (`SessionDrawsOnScreen`, `SessionKeepsBoxesApart`).
* The pool: `PoolKnown` gives its contents as a function of the label of the program that runs (`BlockOwns`,
  `MemoryOwns`, ...), hence empty in the shell (`PoolComesBack`). It is an equality: that no buffer is
  there too much gives the property, and that none is missing says that each free finds what it frees.

Only model-checked: liveness (`CallsReturn`, `DemosEnd`, `NoNotificationStarves`, `EndsUnlessUnanswered`, `ProgramsEnd`), since
fairness and ENABLED are beyond the prover. The three runs that find a violation need no proof.

## 5. Not modelled

* HelloWorld; the time and reset demonstrations of ServicesExample; text output, colours and modes of
  ConsoleExample; GetFramebufferInfo and FindAcpiRsdp of BootLoader; firmware, time and boot information of
  ShellCommand; the storage sizes of VariableExample, of which the percentage at 394 divides by a number
  of the firmware's. They read and print; there is no state that a step could get wrong.
* The removal of a block device while BlockIoExample holds its BlockIo pointer: a driver that goes away
  takes the structure with it, and the program has no guard. Only media are changed in the model.
* Screens below 84x63, where GopExample's box sizes wrap around or become empty: no firmware has such a mode
  (`ResolutionAssumption`).
* Colours, layout, texts, time stamps, pixels, the bytes of options, files and packets.
* The memory behind a dangling interface or null protocol: the models stop at `crashed`.

## 6. Plan

Done in this order: driver and handle database (the one component with real concurrency and
with an abstract specification), events and TPL, protocol, boot menu, memory map, kernel
loading, file system, network, line input; proofs for the driver, the timer and the kernel loader; then
the durable copy of the file, the variable store and its two clients, partition tables, graphics, the
remaining programs that allocate, and their composition in a session; the proofs of the graphics, the boot menu, the
memory map, the file system, the network clients, the session and the protocol.

To come: nothing of the safety properties; the step lemmas of the session that are still long could be split by
service, and the liveness of the loops (`ProgramsEnd`, `DemosEnd`, `EndsUnlessUnanswered`) could be brought closer to a proof
by stating a variant for each loop as an action property.

BootMenu keeps its own view of the store, with sizes and without an order, which `VariableStore` does not
need; the two are not composed.
