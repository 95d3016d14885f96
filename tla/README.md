# Verification of graviton

Graviton is a node agent in C++: libraries for threads, logging, tracked memory, discovery
over multicast, sockets, ini files and access to the operating system, and an installer,
`apps/graviton0`. This directory holds TLA+ models of that code, the TLC runs that check
them on small instances, and TLAPS proofs of what holds for every value of their constants.

Run from this directory, with the run's module and configuration from the table under *Runs*:

    tlc -workers 2 -config monitor_any.cfg MCThreadMonitor
    tlapm DiscoveryProofs.tla

`PROJECT.json` maps every definition to the lines it models, and lists the runs, the mutants
(a plausible bug per property, defined beside the operator it breaks, which the property must
catch), the hazards of the code and the theorems.

## The system

| component | state | operations | interactions | what is hard | what makes it correct |
|---|---|---|---|---|---|
| Thread (`libs/base/thread`) | `m_state`, `m_thread`, `m_handle` | Start, Pause, Resume, Stop, Run, constructor, destructor | registers itself with ThreadMonitor from its constructor; Start detaches a std::thread that runs the virtual Run | `m_state` is read and written by controllers and workers without a lock; Stop polls it; virtual calls reach Thread's own methods while the derived part is not built or already gone | a thread that reads Stopped has no worker; Stopping is not lost |
| ThreadMonitor (`libs/service/threadmonitor`) | `m_threadMap`, the handle counter, `m_mutex` | Initialize-, Start-, Pause-, Resume-, StopThreads, Register, Unregister | calls the virtual operations of each thread, with the mutex held (not in InitializeThreads) | waits for workers under the mutex; lock-free initialization; destruction of the statics at exit | calls return, threads are visited in the order they were named |
| ConfigurationThread (`libs/protocol/resource`) | none of its own | empty overrides, Initialize reads an ini file | ThreadMonitor, StringUtility | its empty Run and Stop against Thread's protocol | the program can exit after it was started |
| DiscoveryThread (`libs/protocol/discovery`) | `m_mc`, `m_ipIntfMap`, `m_usableIntfList`, `m_secondCounter`, the registration packet | Initialize, Run, Stop, the ten-second and minute ticks | ThreadMonitor, EthHandler, IpMulticast, Protocol | the worker uses what other threads free and replace; wrap of the counter | nothing is used when freed or freed twice, nothing is left, heartbeats keep their pace |
| Protocol, byte order (`libs/protocol/protocol`) | packet, sequence number | prepare a packet | DiscoveryThread, MemoryUtility | widths and byte orders | any node can read what any other sends |
| Ip, Mac, Ipv6 (`libs/base`) | the bytes or words of an address | read from a text, write as a text, classify | EthHandler makes them from texts of what the kernel lists | runs of digits, separators, buffers of fixed size | what was written is read back, what the map holds is what the kernel said |
| LogManager, Log (`libs/service/logmanager`) | `m_logMap`, `m_logTarget`, `m_fp` | Register, Unregister, AddTarget, ClearTarget, the print functions | called from every thread and from static constructors and destructors | shared names; `m_logTarget` is read twice per line and changed without a lock | no dead Log in the map; a line reaches the targets Print knows that are on |
| Memory, MemoryUtility (`libs/base/memory`, `libs/utility/memoryutility.h`) | `s_map`, `s_index` | constructor, destructor, Dump; alignment | `new[]` | 32-bit sums and masks on 64-bit pointers; an index that wraps | Dump meets live objects only; an aligned pointer leads into its block |
| EthHandler, IpMulticast (`libs/service/ethhandler`) | `m_sockFd`; local sockets | open, bind, join, close; send, receive, select; GetPublicIp; EnumerateInterfaces | DiscoveryThread; the kernel | each of a dozen system calls may fail after some have succeeded; datagrams are lost, replies come in pieces | no descriptor is lost or closed twice; an object that has a socket has one that is set up; who sent a datagram is told truly |
| OsInterface, StringUtility, FileUtility (`libs/utility`) | files | UpdateEtcHosts, Execute, SplitIpv4, the ini reader, creating and deleting files and folders | graviton0, other processes on the same files | read, truncate and write without a lock; results nobody looks at; text matched as substrings | foreign lines survive, an address and a name are mapped once, results tell the truth |
| graviton0 (`apps/graviton0/main.cpp`) | what its commands install | VerifyHciRequirements, install master / client, AddNodes | OsInterface, FileUtility | commands fail, the program is killed and run again; what the machine is found to be is asked for only once | a run that meets no failure installs every tool it has the rights to; a machine that is accepted is one that is supported |

Not modelled: Gid, Guid, NodeId and EthTime (values with conversions to text that decide
nothing elsewhere), the Ethernet headers and Message (nothing uses them), StateMachine
(a template with members of type `auto`, which no compiler accepts), LicenseClient (an empty
class), UserInterface (abstract, without an implementation), StringBuilder (formatting), and
the build files.

## Modules

| module | models | built on |
|---|---|---|
| `ThreadService` | what StartThreads and StopThreads promise a client that calls them in order | |
| `ThreadMonitor` | Thread, ThreadMonitor and the overrides of the two registered threads | refines `ThreadService` |
| `Discovery` | DiscoveryThread's own state | extends `ThreadMonitor`, each action of which it takes with its effect |
| `Registry` | what LogManager and Memory have in common, a map of live objects | |
| `LogManager` | LogManager and Log | refines `Registry` |
| `MemoryTracker` | Memory and the alignment of MemoryUtility | refines `Registry` |
| `Sockets` | EthHandler and IpMulticast: every system call on a socket | |
| `Addresses` | Ip, Mac and Ipv6: what their constructors make of a text, what ToString makes of the value | |
| `Wire` | EnumerateInterfaces, InitializeMcGroups and the registration packet, down to the bytes sent | extends `Addresses` |
| `HostsFile` | AddNodes, SplitIpv4, UpdateEtcHosts, WriteToFile | |
| `Requirements` | SetSystemDetails and VerifyHciRequirements | |
| `Installer` | the install commands of graviton0 and Execute | extends `Requirements` |
| `FileTree` | FileUtility's operations on files and folders | |
| `IniFile` | Trim and InterpretIniFile | |
| `MC*` | instances of these for TLC | the module of that name |
| `TextProofs` | theorems about `IniFile` and `Wire`, which share lemmas on sequences and numbers | both |
| `*Proofs` | theorems about `Discovery` and, in the same module, `ThreadMonitor`; `LogManager`, `MemoryTracker`, `Sockets`, `HostsFile`, `Installer`, `FileTree` | the module of that name |

How state and steps correspond to the code:

- **ThreadMonitor.** A *controller* is a program thread that calls ThreadMonitor, a *worker* a
  detached std::thread. `state`, `handle`, `lock`, `registered` are `m_state`, `m_handle`,
  `m_mutex`, `m_threadMap`. `at[c]` says where a controller is in the operation `op[c]`, `todo`
  and `cur` are its loop over the map, `worker[t][k]` is where the k-th worker of t is. Each
  read and each write of `m_state` is a step of its own: Thread::Stop is CheckStopped,
  CheckStopping, MarkStopping, AwaitStopped, MarkStopped, and Run is RunBegin, TestStopping,
  Body, RunEnd. The derived class of an object is `built` only between the end of its constructor and the
  beginning of its destructor; outside of that virtual calls reach Thread. The static
  destructors run in Main's `exit`, after which the process and its workers are `Gone`.
- **Discovery.** The ThreadMonitor steps that run a part of DiscoveryThread are split: a
  controller in Initialize goes through clearing the list, enumerating, listing and joining, one
  in Stop through delete, null, and deleting the addresses. IpMulticast objects and enumerations
  are numbered, so that a pointer to a deleted one can be told. Misuse is recorded in `fault`
  and has no further effect.
- **LogManager.** PrintLine is the entry of Debug, Verbose, Info, Warning and Error; the reads of
  `m_logTarget` before the file and before the shell are two steps; `|=` and `&=` are a load and a store.
  `Targets` has the console too, which can be turned on and off although Print never looks at it.
- **MemoryTracker.** Arithmetic is done modulo `WordSize` and `AddressSize`, where the code does it
  in `u32_t` and `u64_t`; `new[]` returns any of `Bases` that overlaps no other block. Addresses are
  wider than words, as on a 64-bit machine, and MemAlignPointer masks them to a word.
- **Sockets.** One step per system call and test of its result; each may fail. The kernel's part
  (`open`, `bound`, `quiet`, `joined`, `waiting`) is shared by all owners, as descriptors are. A
  datagram waits at a socket until it is read, one at a time: what comes meanwhile is lost.
  `announced` is a history: IsPacketReceived answered true and the owner has not read since. The flags that
  select leaves in `m_rxFlags` and `m_txFlags` are not kept, for nothing reads them later: each use sets or clears
  its own first. IsPacketSent changes nothing else, and has no action. A recvfrom may fail while a datagram waits;
  that the kernel announces one and then drops it is not modelled. After a recvfrom that failed
  `remote` is anything. GetPublicIp's reply comes whole, in pieces or fills the buffer.
- **Addresses, Wire.** A text is a sequence of digits and separators. The kernel's list is read
  entry by entry, each address by way of its text, into a multimap (`Insert`); InitializeMcGroups takes from it what
  the packet says. A field is the sequence of its bytes as memory holds it, on a machine of either
  byte order; CheckAndSwap, casts and the assignment of narrow values to wide fields are operators on it.
- **HostsFile.** A process reads /etc/hosts, opens it (which truncates it), and writes when the
  stream is closed, which may fail; it may end between any two of these. A line is an address
  and a name, and `line.find` matches an address or a host anywhere in it: `Begins` says which decimal numbers
  begin with which, `Endings` which prefix ends with which (the host node1 is in a line of mynode1), and
  `mentions` and `names` what else the text of a line that was there before contains (110.0.0.25 contains
  10.0.0.25 and 10.0.0.2). The histories
  `atomic`, what the file would be had each update been one step, `stale` and `serial`, whether somebody
  wrote from a reading that was outdated, say which updates overlapped.
- **Requirements.** A machine is a record of what the program looks at. `lucky` are the folders that
  are not there for which the size GetFolderSize leaves uninitialized happens to be enough.
- **Installer.** A command is named for what it leaves behind; `Needs` says which earlier ones it
  depends on. It may succeed, fail, or be cut off with the program; a cut-off download leaves a
  part. What a process knows (`osType`, `accepted`, `result`, ...) goes when it ends. `faults` counts
  commands that fail for no reason the model knows of, hostnamectl's among them, and kills. A command whose
  popen or pclose fails gives -1 instead of 0; one that asks a question nobody answers (yum without -y, ssh-keygen)
  has failed by itself. A run is by root or not, `root`, and one command lacks its sudo. `Needs` orders the
  program's own commands and says no more of what the shell needs: mirrors, licences and the network are
  the environment's.
- **FileTree.** One step per stat, mkdir, chmod, unlink, rmdir; permissions are `sealed` or not. The test
  `st_mode & S_IFDIR` is true of folders, block devices and sockets; the kind "device" stands for the last two.
  `born[x]` counts what was made at x and `found[p]` is the one SafeDelete met there, so that an entry and the
  one made in its place differ.
- **IniFile.** One step per line; lines are sequences of characters, as the reader works on them.

## Callers and fairness

The repository has no main program that drives the thread service, so `Client` says how it is
called (AddNodes has no caller either, for main does not offer it; `HostsFile` calls it with ranges and
lists such as SplitIpv4 reads). `"any"`: any operation at any time from any controller, only that the
exit waits for the others to return. `"ordered"`: one after the other, initialize, start, pauses and resumes,
stop, and then either initialize again, for another life of the service, or exit. `"awaiting"`:
ordered, and StopThreads only when each worker was seen to run.

`FairSpec` of ThreadMonitor has weak fairness of each controller's next step and of each
worker's: the operating system runs every runnable thread, and a loop that polls with a sleep
goes on polling. No fairness is put on the calls: nobody has to call anything. The mutex needs
no strong fairness, for its holder releases it at most once per call and calls are bounded.
Weak fairness of a process in `HostsFile` is the same assumption.

`CHECK_DEADLOCK FALSE` stands where the program ends or the bound on calls is used up.

## Runs

| run | module | shows | instance |
|---|---|---|---|
| `monitor_any` | MCThreadMonitor | A Stopped thread has no worker in its loop; nobody but a worker, InitializeThreads or the stopper overwrites Stopping; handles follow the order of InitializeThreads, even when two controllers run it. | both threads, two controllers, every operation at any time, Initialize and Stop twice; 1.8 million states |
| `discovery_ordered` | MCDiscovery | The client in order gets `ThreadService`, in each life; no freed, null or destroyed memory is used; nothing is left after StopThreads, of this life or the one before; heartbeats come at least every Ten seconds, also across the wrap of the counter. | two lives, one pause; Ten = 2, Minute = 4, and 5 counter values, which neither divides, as 10 and 60 do not divide 2^32; any life with or without a fit interface; 1.9 million states |
| `monitor_awaiting` | MCThreadMonitor | The wait of StopThreads cannot be in vain, and StopThreads returns (`ThreadService` with fairness), in a second life too; an exit ends, or it waits in the destructor of a started thread that does not loop, never for one that loops or was not started. | two lives with a pause and a resume in each; 43 thousand states |
| `monitor_race` | MCThreadMonitor | *Violation*: StopThreads right after StartThreads never returns. | as above, in order but not awaiting |
| `log_manager` | MCLogManager | The map of Logs is a `Registry`; a line reaches the shell, and the file if it could be opened, when it is on throughout. | three Logs, two of one name; two threads; three targets |
| `memory` | MCMemoryTracker | The map of blocks is a `Registry` although the index wraps; until it does every block is in it; an aligned pointer is the low word of an aligned address in its block; a short request gets its bytes. | 32 words, 64 addresses, blocks on both sides of the word limit and across it, a length that wraps, alignment 4, `new[]` aligned to 1, 2 index values, 4 objects |
| `sockets` | MCSockets | Whatever fails, no descriptor is lost, closed twice or closed for another; an object with a socket has it bound, silent to itself and in the group; ReceiveMc names another host as the sender, never this one or what was there before; what is announced as received waits until it is read; a reply that came whole is told. | two objects and a caller of GetPublicIp for two descriptors; the objects are symmetric; 660 thousand states |
| `hosts` | MCHostsFile | Two processes, with failures of open and write, that may end anywhere. As long as none writes from an outdated reading: no address or name has two lines, foreign lines go only with a crash or a failed write, and the updates add up as if each were one step. After an update that went through, /etc/hosts maps the nodes of the inventory. Splitting a range comes nearer its end. | bytes of the real width; a file with localhost and one line whose text contains addresses and a host that are added; two prefixes, one the end of the other; an empty range, one up to 254, lists that take and give back its addresses, some the beginning of others; three calls; 2.9 million states |
| `installer` | MCInstaller | A run with no part of a download and no blocker in its way in which no command fails by itself installs every tool it has the rights to, after any earlier runs and with what they left whole; a file stands where the folder belongs only after an mkdir that failed by itself; a machine that is accepted is supported, has room, and is served as its system needs. | four machines, one of them unfit; three runs by root or a user, three faults; sshd running or an older copy installed before; 1.7 million states |
| `files` | MCFileTree | A create that returns true found or made a folder, or met a device, never a file; when SafeDelete is true, what it found is gone, and of two that found one entry only one is told so. | two processes, paths of up to two names, a folder, a file and a device; four calls; 273 thousand states |
| `ini_usual` | MCIniFile | A file in the usual forms is read as it was meant. | eight kinds of lines, the empty one and two that are as long as the buffer among them; every file of up to five |
| `wire` | MCWire | What a node of either byte order sends any node can read, and it names an active private address; the map of interfaces agrees with the kernel's list, with a link exactly when it came with data, and IPv4 and MAC addresses survive their texts. | four lists: none, one and two fit interfaces among others, a link without data, in another order than that of their names; the wrap of the sequence, any rest of the stack |

Why these bounds: the races of the thread service need one worker, one stopper and one other
caller. In `Registry`, two objects of one key and a third of another show every
order of replacement and erasure; the index of two values wraps twice. A leak or a double close
needs two owners and a descriptor that is given out again, which two descriptors for three owners allow. Whatever the discovery thread or a stop leaves
behind shows in a second life. For the files two processes are what interferes, and three or four
calls let one finish and begin again while the other is under way. In the installer a fault may
leave something behind, another spoil the run that trips over it, and a third run follow; three faults leave one to spare. A value over several lines, interrupted by a comment and followed
by the next pair, needs five lines.

## Deviations

`monitor_race` is a finding: `RunBegin` assigns Running without looking, so when the new
worker gets there after StopThreads assigned Stopping, the worker loops for ever and
StopThreads waits for ever with `m_mutex` held.

These properties are defined in the modules too, and TLC refutes each: replace the properties of
the named configuration by this one (and `SYMMETRY`, if any, by nothing), with the change given.

| property | configuration, change | what the code does |
|---|---|---|
| `ExitReturns` (PROPERTY) | `monitor_awaiting` | ConfigurationThread::Run returns without RunEnd and its Stop is empty: after StartThreads ~Thread waits for ever; so it does for a DiscoveryThread that was started and stopped and then only initialized again |
| `PausedIsSilent` | `discovery_ordered` | the loop of DiscoveryThread::Run tests for Stopping only: a paused thread goes on sending |
| `NoFault` | `discovery_ordered`, `Client = "any"` | out of order, the worker and the destructors meet null, freed or destroyed members |
| `AlignedPointsInside` | `memory` | the 32-bit mask of MemAlignPointer clears the high word of the address |
| `AlignedFitsInside` | `memory` | the aligned bytes may run past the block when `new[]` returns an address that is not aligned |
| `BlockCoversRequest` | `memory` | rounding up a length near 2^32 wraps to almost none |
| `LinesReachEveryTarget` | `log_manager` | Print never writes to the console, though LogTarget has it |
| `TrueMeansPublicIp` | `sockets` | one recv may return a part of the reply; GetPublicIp is true without an address |
| `OnlyMatchingLinesGo` | `hosts` | adding 10.0.0.25 removes the lines of 10.0.0.253 and 110.0.0.25, adding node1 that of mynode1 |
| `TrueMeansUpdated` | `hosts` | a write that fails when the stream closes leaves an empty file, and true is returned |
| `UpdatesStay` | `hosts`, `IoErrors = FALSE` | of two updates at the same time one is lost |
| `SplitReturns` (PROPERTY) | `hosts`, `FairSpec`, `LastRange`, `MaxCalls = 1` | a range that ends at 255 is never left, the index is a byte |
| `RunInstalls` | `installer` | a part of a download, or a file where the folder should be, stays in the way of every later run |
| `UserRunInstalls` | `installer` | the roles are installed without sudo (main.cpp:201), which only root can |
| `ZeroMeansSuccess` | `installer` | Execute does not look at the exit status |
| `SshdIsStarted` | `installer` | `!find("active")` holds only at position 0: sshd is never started |
| `CopiedMeansCopied` | `installer` | an older copy is taken for the new one |
| `AcceptedMeansFit` | `installer` | GetFolderSize does not look whether statvfs failed: a folder that is not there has the size the stack held, and may pass |
| `CreatedIsFolder` | `files` | `st_mode & S_IFDIR` is true of block devices and sockets: the creation answers true and there is no folder |
| `DeletesWhatItFound` (PROPERTY) | `files` | between the stat and the remove of SafeDelete another process replaces the entry, and the new one is deleted |
| `FalseMeansNoFolder` | `files` | of two processes that make one folder the later gets EEXIST and false |
| `FolderIsWritable` | `files` | the mode 777 is decimal, octal 1411 |
| `DeleteFolderTells` (PROPERTY) | `files` | Remove returns rmdir's 0 as false |
| `ReadsWellFormed` | `ini_usual`, `CommentedLines` and `Commented` | a comment with no space before it takes the whole line |
| `ReadsWellFormed` | `ini_usual`, `BlankLines` and `Blank` | a trailing blank stays in the value |
| `ReadsWellFormed` | `ini_usual`, `LongLines`, `Long`, `LineSize = 4` | a line that does not fit the buffer ends the reading |
| `SignatureIsProtocols` | `wire` | the 32-bit signature is cast to 16 bits |
| `PacketIdIsDeclared` | `wire` | Registration is 0, the comment says 1 |
| `GroupIsMulticast` | `wire` | 233.255.14.7 is classified as Unknown |
| `PortIsProtocols` | `wire` | the port is swapped on machines of one byte order only |
| `Ipv6Agrees` | `wire` | the constructor of Ipv6 reads "::" as one word of zero, not as many as are missing |
| `TextsDiffer` | `wire` | Ipv6::ToString prints into 16 characters, fifteen of the address |

EnumerateInterfaces returns the number of interfaces as 0 whatever it found; nobody uses it, so no property is about it.

## Proofs

Every theorem is proved for any constants that satisfy the ASSUMEs of its module, which say no
more than what the constants are (`Main` is a controller, no object is the value that stands for none,
word sizes are multiples of the alignment and of each other, there is a name, an address the kernel lists has
the length of its family, a link's six bytes or more). TLC evaluates them in the
runs. A theorem that needs more says so as its hypothesis: `Client # "any"`, a client that calls in order;
`Client = "awaiting"`, one that also awaits the workers before it stops them (without it `monitor_race`
refutes the conclusion); `NoListRepeats` and `Unique(InitialHosts)`, for nobody removes a double that
the user typed or that was in /etc/hosts before; `SixBytes`, for of a longer link address Mac keeps the first
six; `UsualFile`, since lines in other forms are misread as *Deviations* shows. The instances of the runs satisfy each.

- `DiscoveryProofs`, first of ThreadMonitor, for any threads, controllers, budgets and clients: **TypeCorrect**,
  **StoppedThreadsAreQuiet**, **ThreadsKeepTheirOrder**, **StoppingIsNotOverwritten**. That a Stopped
  thread is quiet is not inductive: `IInv` adds where a controller can be in each operation
  (`PlaceInv`), that operations past Acquire hold the mutex (`LockInv`), what the exit of Main excludes
  (`ExitInv`), that the workers of a thread are those its Start calls spawned (`WorkerInv`) and that
  where Thread::Stop may mark the thread its worker is gone (`StopInv`). For the order of the
  handles, `HandleInv` says who has been given one and `OrderInv` that names before have them before. One lemma
  per group of actions. The action property needs `StoppingInv`: where a thread reads Stopping, some
  controller is waiting for it or finishing it; by `LockInv` and `ExitInv` no other one is past Acquire then.

  For the client in order, any number of lives: **StopsAreHeard**, **ServiceIsImplemented**. `OrderedInv`
  adds that one controller at a time is in a call (`Alone`), and in one whose turn it is (`InTurn`);
  what InitializeThreads has built so far (`BuiltInv`); that StopThreads visits a thread once
  (`VisitInv`); that only the latest worker of a thread is alive (`OneWorker`); that a client that awaits its
  workers leaves none to begin (`BegunInv`); and, the heart of it, `LifeInv`: by the phase and by how far
  StartThreads or StopThreads has come, each looping thread is resting, active, asked to stop, or
  stopped. The refinement maps a Start to `Begin`, the call of StopThreads to `RequestStop`, RunEnd
  to `End`, the release of the mutex at the end of StopThreads to `ReturnStop`, which by `LifeInv` nobody
  in a loop sees, the end of the next InitializeThreads to `Restart`, and every other step to a stutter.

  Then of the discovery thread: **DiscoveryImplementsThreadMonitor**, every step of Discovery is one of
  ThreadMonitor or leaves it alone; so **StoppedDiscoveryIsQuiet** is inherited. **DiscoveryTypeCorrect** needs
  that a join finds the map of addresses its enumeration made: `PartInv`, which holds because only the exit
  takes the map away, and by `ExitInv` nobody else is in a call then.

  For the client in order: **DiscoveryFaultless**, **DiscoveryLeavesNothing**, **DiscoveryBeatsInTime**,
  **DiscoveryImplementsService**. They are proved together, in `DOrderedInv`: no
  fault comes because of what is alive, and what is alive is known because nothing was faulty. `HeapInv`
  says what the thread owns: a map of addresses and, if the map had a usable interface, a group while it is
  in service (`Held`), nothing before and after (`Freed`), and at each part of Initialize and Stop what is
  made (`Making`) or lost (`Losing`) so far. By `LifeInv` a worker in its loop means that the thread is in service or in
  the stop that has not freed anything yet, so what it uses is there. `TickInv` bounds the silence
  by the second of the counter at each part of the loop's body, for any modulus: where the counter wraps, a
  beat comes early, never late.
- `LogManagerProofs`: **LogManagerImplementsRegistry** by step simulation, and from it
  **LogMapIsLive**, by `RegistryInv`, which holds because each step is one of Registry; **LogTypeCorrect**; **LinesAreNotLost** by
  `SteadyTargets`: what has been on since the line was begun is among the targets while the line is
  printed, and has been written to when its turn is over if Print knows it.
- `MemoryTrackerProofs`: **MemoryImplementsRegistry** and **DumpMeetsLiveObjects** likewise;
  **MemoryTypeCorrect**; **DumpShowsEveryBlock**, until the index wraps; **AlignedPointersPointInside** and
  **ShortRequestsGetTheirBytes** for every alignment, word and address size and blocks anywhere, from lemmas on
  rounding by remainders.
- `SocketsProofs`: **SocketsTypeCorrect**, **NoDescriptorLeaks**, **BuiltIsComplete**, **OnlyOthersAreHeard**,
  **AnnouncedIsThere**, **RepliesAreTold**. `IInv` adds
  that an owner at rest holds nothing (`IdleHoldsNothing`), that the open descriptors are those held and each
  has one holder (`Owned`), and what is set up by each step of the constructor (`SetUp`).
- `HostsFileProofs`, for any processes, ranges, lists, prefixes and byte size: **HostsTypeCorrect**,
  **SplitGoesForward**, **HostsGivesOneMappingEach**, **HostsUpdatesAddUp**, **HostsKeepsForeignLines**,
  **HostsCoversInventory**. What the loop over the lines keeps (`KeptLines`: those that do not match, all of
  them, none twice) is proved by induction on the number of lines, from the fact that a set of numbers has a
  least one. `UniqueInv` carries over to what an update is about to write. `AtomicInv` is
  the argument that read, truncate and write are as good as one step: unless something failed or an
  outdated reading was written, one process at most is between truncating and writing, the file is empty then and
  what atomic updates would have made of it otherwise, and a reading that is not `stale` is current.
  `AskedInv` says that what a call holds was asked for, `ForeignInv` that what was not asked for survives atomic updates,
  `InventoryInv` that only one process at a time is on its way from a reading to the inventory while
  `complete` holds.
- `InstallerProofs`, for any machines and any number of runs, failures and kills:
  **InstallerTypeCorrect**; **OnlyFailuresBlock**, by `FolderOrFailure`: where the copy is next
  and the folder is not there, an mkdir failed by itself; **FaultlessRunInstalls**, by `Achieved`,
  which says step by step what a run without faults has installed, and is what each next command needs;
  **AcceptedMachinesAreServed**, by `Verdict`: the system asked for once is still the one of the
  machine. Lemmas spell out the two scripts, which the model composes of sequences.
- `FileTreeProofs`, for any processes, names, depth and initial tree: **FileTypeCorrect**,
  **CreatedFoldersAreThere**, **SafeDeleteIsTruthful**, by `PlaceInv`: which system calls belong to which
  operation, that CreatePath stays within its argument, and that who has not returned has not
  answered. The tree itself may be changed by anyone. For SafeDelete, `FoundBefore` says that what was found
  is no younger than what is there, and every step goes `Onward`: an entry that is gone comes back only as a
  younger one. So who removes an entry is the last that can be told so of it.
- `TextProofs`, first of IniFile, for files of any number of lines, with any names and values: **IniTypes**,
  **IniReadsUsual**, under `UsualFile`: each line is a comment, empty, a section, a pair or an item of a
  list, written with no blank at its end and no comment behind it (`AsUsual`). `TrimUsual` says that Trim leaves
  the body of such a line; `PairBody`, `OpenBody`, `SectionBody` and `ListBody` what each test of the reader
  says of each kind of body. The invariant `Reading` says that what was passed on so far, with the value that
  is being read, is what the lines read so far mean; each kind of line extends both in the same way,
  which `FlattenOneMore` carries over from items to text, by induction on their number.


  Then of Wire, for any lists of interfaces, of any length, and any values of the fields: **WireTypes**,
  **SentIsReadable**, **ActiveIsAdvertised**, **MapSaysWhatIsListed**. Underneath are facts about texts:
  `Number` reads back the digits `Digits` wrote (`DigitsWrite`, `ShortNumbers`); the loop of Ip and Mac reads
  back texts joined by separators (`RunsRead`), the one of Ipv6 eight words in full (`WordsRead`); so
  `IpReadsBack`, `MacReadsBack`, `Ipv6ReadsBack`. `Enumerated` says that the multimap holds the entries
  that are kept and no others, by induction on the list, whatever the order of names and insertions. `WordValue`
  says that bytes give back the number they were made of, `Swapped` that CheckAndSwap undoes what memory does
  on either machine, `PartIs` that a field is found at the sum of the sizes before it, and `PacketRead`
  that the bytes sent of a packet say what its fields were given. ReadableByAll and AdvertisesActive are inductive
  with the types and `UsableKnown`: who lists a usable interface is initialized, knows the group of
  the protocol, and has its address from the list enumerated last.

`TypeOK` of `ThreadMonitor`, `LogManager`, `MemoryTracker`, `Installer` and `FileTree` is proved and not
listed in their runs; those of the other modules are checked.

Only model-checked: what needs fairness (`ImplementsFairService`, `ExitWaitsOnlyForSilent`), which is out of
reach of the prover. Every other property of the passing runs is stated by a theorem.

## What is left

Abstracted away: text and wording of logs; the contents of replies and packets other than the
registration packet; the time a call takes (GetPublicIp connects and receives without a timeout
in the discovery worker, so that heartbeats and StopThreads wait for a remote server); a clock that is
set back, which makes ElapsedTime's duration a huge unsigned number and the next tick come at once.
A second StartThreads without a stop in between is modelled by `starts` and `worker[t][k]`, but no
property speaks of it and no run makes one.

Partly modelled: Protocol (the setters nothing calls keep their first values), LogManager (the text of
lines; the pointer to the file name, which may dangle), OsInterface (the times, the user and the
drives are readings of the machine), StringUtility (Format), FileUtility (RenameFile is one system
call; GetFileCount and the helpers on names change nothing), ElapsedTime.

Next, in this order:

1. Time: a clock for ElapsedTime that may be set back, and calls of GetPublicIp that take time.
2. Discovery under clients out of order: two starts and repeated initialization, with what is
   leaked as a bound, and when `m_mc` may dangle.
3. A link address of fewer than six bytes, for which Mac keeps bytes nobody set: `IsListing` leaves it out.
