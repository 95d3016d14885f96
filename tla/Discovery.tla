----------------------------- MODULE Discovery -----------------------------
(***************************************************************************)
(* DiscoveryThread (libs/protocol/discovery) on top of the thread service: *)
(* what its Initialize, Run, Stop and destructor do to the IpMulticast     *)
(* object, the enumerated addresses, the list of usable interfaces and the *)
(* tick counter, none of which any lock protects.                          *)
(*                                                                         *)
(* An action is one of ThreadMonitor with its effect on this state, or a   *)
(* step inside one (a heartbeat, a part of InitializeMcGroups) that leaves *)
(* the state of ThreadMonitor alone. Misuse of memory is recorded in the   *)
(* history variable fault, never acted upon.                               *)
(***************************************************************************)
EXTENDS ThreadMonitor

CONSTANTS
  discovery,    \* the singleton
  Ten, Minute,  \* seconds between heartbeats to the group, to the office
  CounterSize   \* bound standing for 2^32, the values of m_secondCounter

ASSUME DiscoveryAssumption ==
  /\ discovery \in Threads
  /\ Looping = {discovery}
  /\ Ten \in Nat \ {0} /\ Minute \in Nat \ {0} /\ CounterSize \in Nat \ {0}

VARIABLES
  groups,       \* how many IpMulticast objects, and address maps, were made
  mc,           \* m_mc: the number of an IpMulticast object, 0 for null
  liveGroups,   \* the IpMulticast objects not deleted
  addresses,    \* m_ipIntfMap: the number of the enumeration it holds, or 0
  liveAddresses,\* the enumerations whose addresses are not deleted
  usable,       \* the length of m_usableIntfList
  part,         \* where a controller is inside Initialize or Stop
  tick,         \* where a worker is inside ProcessSecondTick
  second,       \* m_secondCounter
  silent,       \* history: ticks since the last heartbeat of this worker's run
  pausedBeats,  \* history: heartbeats sent since the last Pause, at most 2
  fault         \* history: what the program did to freed or null memory

heap    == <<groups, mc, liveGroups, addresses, liveAddresses, usable>>
history == <<silent, pausedBeats>>
dvars   == <<heap, part, tick, second, history, fault>>
allVars == <<vars, dvars>>

Parts  == {"clear", "enumerate", "use", "join", "delete", "forget"}
Ticks  == {"sleep", "ten", "send", "minute", "count"}
Faults == {"null", "freed", "double delete", "destroyed"}

DTypeOK ==
  /\ groups \in Nat /\ mc \in 0..groups /\ addresses \in 0..groups
  /\ liveGroups \subseteq 1..groups /\ liveAddresses \subseteq 1..groups
  /\ usable \in {0, 1}
  /\ part \in [Controllers -> Parts]
  /\ tick \in [1..MaxStarts -> Ticks]
  /\ second \in 0..(CounterSize - 1)
  /\ silent \in Nat /\ pausedBeats \in 0..2
  /\ fault \subseteq Faults

DInit ==
  /\ Init
  /\ groups = 0 /\ mc = 0 /\ addresses = 0
  /\ liveGroups = {} /\ liveAddresses = {}
  /\ usable = 0
  /\ part = [c \in Controllers |-> "clear"]
  /\ tick = [k \in 1..MaxStarts |-> "sleep"]
  /\ second = 0
  /\ silent = 0 /\ pausedBeats = 0
  /\ fault = {}

Blame(f, bad) == fault' = IF bad THEN fault \cup {f} ELSE fault

-----------------------------------------------------------------------------
(* InitializeMcGroups, part by part: m_usableIntfList is cleared, the      *)
(* addresses enumerated, the first fit interface listed, its group joined. *)
(* Neither the former map's addresses nor the former group are deleted.    *)
McPart(c, from, to) ==
  /\ at[c] = "prepare" /\ cur[c] = discovery
  /\ part[c] = from
  /\ part' = [part EXCEPT ![c] = to]
  /\ UNCHANGED <<tick, second, history, fault>>

ClearUsable(c) ==
  /\ McPart(c, "clear", "enumerate")
  /\ usable' = 0
  /\ UNCHANGED <<vars, groups, mc, liveGroups, addresses, liveAddresses>>

\* The kernel's list may have a fit interface in one life and none in another.
EnumerateInterfaces(c) ==
  /\ \/ McPart(c, "enumerate", "use") /\ UNCHANGED vars
     \/ McPart(c, "enumerate", "clear") /\ Prepare(c)
  /\ groups' = groups + 1
  /\ addresses' = groups + 1
  /\ liveAddresses' = liveAddresses \cup {groups + 1}
  /\ UNCHANGED <<mc, liveGroups, usable>>

UseInterface(c) ==
  /\ McPart(c, "use", "join")
  /\ usable' = 1
  /\ UNCHANGED <<vars, groups, mc, liveGroups, addresses, liveAddresses>>

JoinGroup(c) ==
  /\ McPart(c, "join", "clear")
  /\ mc' = addresses
  /\ liveGroups' = liveGroups \cup {addresses}
  /\ UNCHANGED <<groups, addresses, liveAddresses, usable>>
  /\ Prepare(c)

PrepareOther(c) ==
  /\ cur[c] # discovery
  /\ Prepare(c)
  /\ UNCHANGED dvars

-----------------------------------------------------------------------------
(* ClearMcGroups, which ends DiscoveryThread::Stop: delete m_mc, set it to *)
(* null, delete every address but keep the map and the usable interfaces.  *)
ClearPart(c, from, to) ==
  /\ at[c] = "leave"
  /\ part[c] = from
  /\ part' = [part EXCEPT ![c] = to]
  /\ UNCHANGED <<groups, addresses, usable, tick, second, history>>

DeleteGroup_Leaks(c) ==  \* mutant: m_mc is not deleted
  /\ ClearPart(c, "clear", "forget")
  /\ UNCHANGED <<vars, mc, liveGroups, liveAddresses, fault>>

DeleteGroup(c) ==
  /\ ClearPart(c, "clear", "forget")
  /\ liveGroups' = liveGroups \ {mc}
  /\ Blame("double delete", mc # 0 /\ mc \notin liveGroups)
  /\ UNCHANGED <<vars, mc, liveAddresses>>

ForgetGroup(c) ==
  /\ ClearPart(c, "forget", "delete")
  /\ mc' = 0
  /\ UNCHANGED <<vars, liveGroups, liveAddresses, fault>>

DeleteAddresses(c) ==
  /\ ClearPart(c, "delete", "clear")
  /\ liveAddresses' = liveAddresses \ {addresses}
  /\ Blame("double delete", addresses # 0 /\ addresses \notin liveAddresses)
  /\ UNCHANGED <<mc, liveGroups>>
  /\ LeaveStop(c)

\* The members of a DiscoveryThread die before ~Thread stops its worker;
\* the pointer m_mc and the addresses are deleted by nobody.
DestroyMembers(c, t) ==
  /\ Destroy(c, t)
  /\ IF t = discovery THEN usable' = 0 /\ addresses' = 0
                      ELSE UNCHANGED <<usable, addresses>>
  /\ UNCHANGED <<groups, mc, liveGroups, liveAddresses, part,
                 tick, second, history, fault>>

-----------------------------------------------------------------------------
(* The loop of Run: every 100 ms a look at the clock, once a second        *)
(* ProcessSecondTick.                                                      *)
TickPart(k, from, to) ==
  /\ worker[discovery][k] = "body" /\ ~Gone
  /\ tick[k] = from
  /\ tick' = [tick EXCEPT ![k] = to]
  /\ UNCHANGED <<heap, part>>

SleepOn(k) ==
  /\ TickPart(k, "sleep", "sleep")
  /\ Body(discovery, k)
  /\ UNCHANGED <<second, history, fault>>

SecondElapsed(k) ==
  /\ TickPart(k, "sleep", "ten")
  /\ UNCHANGED <<vars, second, history, fault>>

TenSecondTick_ElseIf(k) ==  \* mutant: the minute tick replaces this one
  /\ TickPart(k, "ten", IF second % Ten = 0 /\ second % Minute # 0 /\ usable > 0
                         THEN "send" ELSE "minute")
  /\ UNCHANGED <<vars, second, history, fault>>

\* SendHeartbeatToMcGroup up to the packet: the list is asked, m_mc is not.
TenSecondTick(k) ==
  /\ TickPart(k, "ten", IF second % Ten = 0 /\ usable > 0 THEN "send" ELSE "minute")
  /\ Blame("destroyed", second % Ten = 0 /\ discovery \notin built)
  /\ UNCHANGED <<vars, second, history>>

SendHeartbeat(k) ==
  /\ TickPart(k, "send", "minute")
  /\ fault' = fault \cup (IF mc = 0 THEN {"null"}
                          ELSE IF mc \notin liveGroups THEN {"freed"} ELSE {})
  /\ silent' = 0
  /\ pausedBeats' = IF state[discovery] = "Paused" /\ pausedBeats < 2
                    THEN pausedBeats + 1 ELSE pausedBeats
  /\ UNCHANGED <<vars, second>>

\* SendHeartbeatToRemoteOffice prepares a packet and sends it nowhere.
MinuteTick(k) ==
  /\ TickPart(k, "minute", "count")
  /\ Blame("destroyed", second % Minute = 0 /\ discovery \notin built)
  /\ UNCHANGED <<vars, second, history>>

CountSecond_NoWrap(k) ==  \* mutant: a counter that does not wrap
  /\ TickPart(k, "count", "sleep")
  /\ second' = second + 1
  /\ silent' = IF usable > 0 THEN silent + 1 ELSE 0
  /\ Body(discovery, k)
  /\ UNCHANGED <<pausedBeats, fault>>

CountSecond(k) ==
  /\ TickPart(k, "count", "sleep")
  /\ second' = (second + 1) % CounterSize
  /\ silent' = IF usable > 0 THEN silent + 1 ELSE 0
  /\ Body(discovery, k)
  /\ UNCHANGED <<pausedBeats, fault>>

-----------------------------------------------------------------------------
(* The steps of the thread service that do no more here than there.        *)
DPause(c, t) ==
  /\ Pause(c, t)
  /\ pausedBeats' = IF t = discovery THEN 0 ELSE pausedBeats
  /\ UNCHANGED <<heap, part, tick, second, silent, fault>>

DBegin(t, k) ==
  /\ RunBegin(t, k)
  /\ silent' = 0
  /\ UNCHANGED <<heap, part, tick, second, pausedBeats, fault>>

ServiceStep(c) ==
  \/ Acquire(c) \/ Release(c)
  \/ \E t \in Threads : Start(c, t) \/ Resume(c, t) \/ Stop(c, t)
  \/ CheckStopped(c) \/ CheckStopping(c) \/ MarkStopping(c)
  \/ AwaitStopped(c) \/ MarkStopped(c)
  \/ \E t \in Threads : RegisterThread(c, t) \/ GetInstance(c, t)
  \/ FinishConstructor(c) \/ Initialize(c) \/ ReturnInitialize(c)
  \/ Delete(c) \/ UnregisterThread(c) \/ Leave(c)

DControllerStep(c) ==
  \/ ServiceStep(c) /\ UNCHANGED dvars
  \/ \E t \in Threads : DPause(c, t) \/ DestroyMembers(c, t)
  \/ ClearUsable(c) \/ EnumerateInterfaces(c) \/ UseInterface(c)
  \/ JoinGroup(c) \/ PrepareOther(c)
  \/ DeleteGroup(c) \/ ForgetGroup(c) \/ DeleteAddresses(c)

TickStep(k) ==
  \/ SleepOn(k) \/ SecondElapsed(k) \/ TenSecondTick(k) \/ SendHeartbeat(k)
  \/ MinuteTick(k) \/ CountSecond(k)

DWorkerSteps(t, k) ==
  \/ DBegin(t, k)
  \/ (RunEmpty(t, k) \/ RunBase(t, k) \/ TestStopping(t, k) \/ RunEnd(t, k))
       /\ UNCHANGED dvars
  \/ t = discovery /\ TickStep(k)

DNext ==
  \/ \E c \in Controllers, o \in Ops : Call(c, o) /\ UNCHANGED dvars
  \/ \E c \in Controllers : DControllerStep(c)
  \/ \E t \in Threads, k \in 1..MaxStarts : DWorkerSteps(t, k)

DSpec == DInit /\ [][DNext]_allVars

DFairness ==
  /\ \A c \in Controllers : WF_allVars(DControllerStep(c))
  /\ \A t \in Threads, k \in 1..MaxStarts : WF_allVars(DWorkerSteps(t, k))

DFairSpec == DSpec /\ DFairness
-----------------------------------------------------------------------------
(* Properties.                                                             *)

\* No step uses m_mc when it is null or deleted, deletes anything twice, or
\* reads members the destructor of DiscoveryThread has ended.
NoFault == fault = {}

\* When StopThreads has returned, every group joined and every address
\* enumerated since the start of the program, in this life of the service or
\* an earlier one, is deleted; and so they are until Initialize makes new ones.
Initializing == \E c \in Controllers : op[c] = "initialize" /\ ~Idle(c)
NothingLeftAfterStop ==
  phase = "stopped" /\ ~Initializing => liveGroups = {} /\ liveAddresses = {}

\* A running node with a usable interface sends a heartbeat at least every
\* Ten seconds, also where the second counter wraps.
HeartbeatInTime == silent <= Ten

\* A paused thread sends nothing but the heartbeat Pause found under way.
PausedIsSilent == pausedBeats <= 1
=============================================================================
