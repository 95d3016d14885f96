--------------------------- MODULE ThreadMonitor ---------------------------
(***************************************************************************)
(* The thread service: Thread (libs/base/thread), ThreadMonitor            *)
(* (libs/service/threadmonitor) and what the two registered threads,       *)
(* DiscoveryThread and ConfigurationThread, override of Thread.            *)
(*                                                                         *)
(* A CONTROLLER is a thread of the program that calls the operations of    *)
(* ThreadMonitor; a THREAD is an object of a class derived from Thread; a  *)
(* WORKER is a std::thread that Thread::Start detaches to execute Run.     *)
(* m_state is read and written by controllers and workers without a lock,  *)
(* so each of its reads and writes is a step; m_mutex serialises Start,    *)
(* Pause, Resume, Stop, RegisterThread and UnregisterThread, and nothing   *)
(* else: InitializeThreads takes no lock.                                  *)
(***************************************************************************)
EXTENDS Integers, FiniteSets

CONSTANTS
  Threads,      \* the singleton Thread objects
  Looping,      \* those whose Run is RunBegin, the loop, RunEnd (Discovery);
                \* the others override every method with an empty body
  Controllers,  \* the program's threads that call ThreadMonitor
  Main,         \* the one whose exit runs the static destructors
  NoOne,        \* owner of an unlocked m_mutex
  InitRank,     \* the order in which InitializeThreads names the threads
  Budget,       \* bound: how often each operation is called
  Client        \* discipline of the callers, see MayCall

Ops == {"initialize", "start", "pause", "resume", "stop", "exit"}
MaxStarts == Budget["start"]

ASSUME ThreadsAssumption ==
  /\ Threads # {}
  /\ Looping \subseteq Threads
  /\ InitRank \in [Threads -> Nat]
ASSUME ControllersAssumption ==
  /\ Main \in Controllers
  /\ NoOne \notin Controllers
ASSUME ClientAssumption ==
  /\ Budget \in [Ops -> Nat]
  /\ Client \in {"any", "ordered", "awaiting"}

VARIABLES
  lock,         \* owner of ThreadMonitor::m_mutex
  registered,   \* the threads in m_threadMap
  handleCounter,
  handle,       \* m_handle, 0 before the constructor
  built,        \* the objects whose dynamic type is the derived class
  state,        \* m_state
  starts,       \* how often Start ran: m_thread is null iff this is 0
  worker,       \* where the k-th worker of a thread is
  op,           \* the operation a controller executes
  at,           \* where in it the controller is
  todo,         \* the threads its loop has still to visit
  cur,          \* the thread it visits
  override,     \* whether the Stop it executes is the derived class's
  calls,        \* how often each operation was called
  phase         \* the last operation that returned, of a client in order

monitor  == <<lock, registered, handleCounter, handle>>
client   == <<calls, phase>>
place    == <<op, at, todo, cur, override>>
vars     == <<monitor, built, state, starts, worker, place, client>>

States    == {"Unknown", "Created", "Initialized", "Running", "Paused",
              "Stopping", "Stopped", "Destroyed"}
InLoop    == {"test", "body", "ending"}
Stages    == {"none", "spawned", "ended"} \cup InLoop
StopSteps == {"check", "recheck", "mark", "wait", "finish"}
Locked    == {"start", "pause", "resume", "stop"}
Places    == {"idle", "acquire", "each", "leave", "construct", "derive",
              "prepare", "initialize", "destroy", "delete", "unregister",
              "gone"} \cup StopSteps
Phases    == {"fresh", "initialized", "started", "stopped"}

TypeOK ==
  /\ lock \in Controllers \cup {NoOne}
  /\ registered \subseteq Threads
  /\ handleCounter \in Nat
  /\ handle \in [Threads -> Nat]
  /\ built \subseteq Threads
  /\ state \in [Threads -> States]
  /\ starts \in [Threads -> 0..MaxStarts]
  /\ worker \in [Threads -> [1..MaxStarts -> Stages]]
  /\ op \in [Controllers -> Ops]
  /\ at \in [Controllers -> Places]
  /\ todo \in [Controllers -> SUBSET Threads]
  /\ cur \in [Controllers -> Threads]
  /\ override \in [Controllers -> BOOLEAN]
  /\ calls \in [Ops -> Nat]
  /\ phase \in Phases

Init ==
  /\ lock = NoOne
  /\ registered = {}
  /\ handleCounter = 0
  /\ handle = [t \in Threads |-> 0]
  /\ built = {}
  /\ state = [t \in Threads |-> "Unknown"]
  /\ starts = [t \in Threads |-> 0]
  /\ worker = [t \in Threads |-> [k \in 1..MaxStarts |-> "none"]]
  /\ op = [c \in Controllers |-> "exit"]
  /\ at = [c \in Controllers |-> "idle"]
  /\ todo = [c \in Controllers |-> {}]
  /\ cur = [c \in Controllers |-> CHOOSE t \in Threads : TRUE]
  /\ override = [c \in Controllers |-> FALSE]
  /\ calls = [o \in Ops |-> 0]
  /\ phase = "fresh"

Goto(c, p)    == at' = [at EXCEPT ![c] = p]
Visit(c, t)   == cur' = [cur EXCEPT ![c] = t]
SetState(t, s) == state' = [state EXCEPT ![t] = s]

\* Iteration order of the std::map of handles, and of the static destructors.
FirstInMap(c, t) == t \in todo[c] /\ \A u \in todo[c] : handle[t] <= handle[u]
LastBuilt(c, t)  == t \in todo[c] /\ \A u \in todo[c] : handle[t] >= handle[u]
FirstNamed_AnyOrder(c, t) == t \in todo[c]  \* mutant: order forgotten
FirstNamed(c, t) == t \in todo[c] /\ \A u \in todo[c] : InitRank[t] <= InitRank[u]

\* Virtual dispatch: a method of an object that is still (or again) a plain
\* Thread is Thread's own; that of a built Configuration is empty.
Empty(t) == t \in built \ Looping

-----------------------------------------------------------------------------
(* What the callers do.                                                    *)
Idle(c)  == at[c] = "idle"
Gone     == at[Main] = "gone"
Exiting  == op[Main] = "exit" /\ ~Idle(Main)
Quiet    == \A t \in Threads, k \in 1..MaxStarts : worker[t][k] # "spawned"

\* The order the names of the operations ask for; a service that was stopped
\* may be initialized and started again.
InOrder(o) ==
  \/ o = "initialize"         /\ phase \in {"fresh", "stopped"}
  \/ o = "start"              /\ phase = "initialized"
  \/ o \in {"pause", "resume", "stop"} /\ phase = "started"
  \/ o = "exit"               /\ phase # "started"

\* "any": any operation at any time, from any controller, but the exit of the
\* program, which waits for the other controllers. "ordered": one operation
\* after the other returned, in order, one life of the service or several.
\* "awaiting": moreover Stop only when every worker has begun to run.
MayCall(c, o) ==
  /\ ~Exiting
  /\ o = "exit" => c = Main /\ \A d \in Controllers : Idle(d)
  /\ Client # "any" => InOrder(o) /\ \A d \in Controllers : Idle(d)
  /\ Client = "awaiting" /\ o = "stop" => Quiet

Entry(o) == IF o = "initialize" THEN "construct"
            ELSE IF o = "exit" THEN "destroy" ELSE "acquire"

Call(c, o) ==
  /\ Idle(c)
  /\ calls[o] < Budget[o]
  /\ MayCall(c, o)
  /\ calls' = [calls EXCEPT ![o] = @ + 1]
  /\ op' = [op EXCEPT ![c] = o]
  /\ Goto(c, Entry(o))
  /\ todo' = [todo EXCEPT ![c] = IF o = "initialize" THEN Threads
                                 ELSE IF o = "exit" THEN built ELSE {}]
  /\ UNCHANGED <<monitor, built, state, starts, worker, cur, override, phase>>

Return(c) ==
  /\ Goto(c, "idle")
  /\ phase' = CASE op[c] = "initialize" -> "initialized"
                [] op[c] = "start" -> "started"
                [] op[c] = "stop" -> "stopped"
                [] OTHER -> phase

-----------------------------------------------------------------------------
(* StartThreads, PauseThreads, ResumeThreads, StopThreads: LockGuard, then *)
(* the method of each registered thread in the order of the handles.       *)
Acquire_NoGuard(c) ==  \* mutant: no LockGuard
  /\ at[c] = "acquire"
  /\ lock' = c
  /\ todo' = [todo EXCEPT ![c] = registered]
  /\ Goto(c, "each")
  /\ UNCHANGED <<registered, handleCounter, handle, built, state, starts,
                 worker, op, cur, override, client>>

Acquire(c) ==
  /\ at[c] = "acquire"
  /\ lock = NoOne
  /\ lock' = c
  /\ todo' = [todo EXCEPT ![c] = registered]
  /\ Goto(c, "each")
  /\ UNCHANGED <<registered, handleCounter, handle, built, state, starts,
                 worker, op, cur, override, client>>

Release(c) ==
  /\ at[c] = "each"
  /\ todo[c] = {}
  /\ lock' = NoOne
  /\ Return(c)
  /\ UNCHANGED <<registered, handleCounter, handle, built, state, starts,
                 worker, op, todo, cur, override, calls>>

Each(c, o, t) ==
  /\ at[c] = "each"
  /\ op[c] = o
  /\ FirstInMap(c, t)
  /\ todo' = [todo EXCEPT ![c] = @ \ {t}]

Start(c, t) ==
  /\ Each(c, "start", t)
  /\ starts[t] < MaxStarts
  /\ starts' = [starts EXCEPT ![t] = @ + 1]
  /\ worker' = [worker EXCEPT ![t][starts[t] + 1] = "spawned"]
  /\ UNCHANGED <<monitor, built, state, op, at, cur, override, client>>

Pause(c, t) ==
  /\ Each(c, "pause", t)
  /\ IF Empty(t) THEN UNCHANGED state ELSE SetState(t, "Paused")
  /\ UNCHANGED <<monitor, built, starts, worker, op, at, cur, override, client>>

Resume(c, t) ==
  /\ Each(c, "resume", t)
  /\ IF Empty(t) THEN UNCHANGED state ELSE SetState(t, "Running")
  /\ UNCHANGED <<monitor, built, starts, worker, op, at, cur, override, client>>

\* ConfigurationThread::Stop is empty, DiscoveryThread::Stop calls
\* Thread::Stop first.
Stop(c, t) ==
  /\ Each(c, "stop", t)
  /\ IF Empty(t)
     THEN UNCHANGED <<at, cur, override>>
     ELSE /\ Goto(c, "check")
          /\ Visit(c, t)
          /\ override' = [override EXCEPT ![c] = t \in built]
  /\ UNCHANGED <<monitor, built, state, starts, worker, op, client>>

-----------------------------------------------------------------------------
(* Thread::Stop, of the thread cur[c], called by StopThreads or ~Thread.   *)
AfterStop(c) == IF op[c] = "exit" THEN "delete"
                ELSE IF override[c] THEN "leave" ELSE "each"

StopStep(c, from) ==
  /\ at[c] = from
  /\ UNCHANGED <<monitor, built, starts, worker, op, todo, cur, override, client>>

CheckStopped(c) ==
  /\ StopStep(c, "check")
  /\ Goto(c, IF state[cur[c]] = "Stopped" THEN AfterStop(c) ELSE "recheck")
  /\ UNCHANGED state

CheckStopping(c) ==
  /\ StopStep(c, "recheck")
  /\ Goto(c, IF state[cur[c]] = "Stopping" THEN AfterStop(c) ELSE "mark")
  /\ UNCHANGED state

MarkStopping_Waits(c) ==  \* mutant: a thread never started is awaited too
  /\ StopStep(c, "mark")
  /\ SetState(cur[c], "Stopping")
  /\ Goto(c, "wait")

\* A detached thread is not joinable, so Stop goes straight to the wait.
MarkStopping(c) ==
  /\ StopStep(c, "mark")
  /\ SetState(cur[c], "Stopping")
  /\ Goto(c, IF starts[cur[c]] = 0 THEN "finish" ELSE "wait")

AwaitStopped_NoWait(c) ==  \* mutant: the wait for RunEnd is missing
  /\ StopStep(c, "wait")
  /\ Goto(c, "finish")
  /\ UNCHANGED state

AwaitStopped(c) ==
  /\ StopStep(c, "wait")
  /\ state[cur[c]] = "Stopped"
  /\ Goto(c, "finish")
  /\ UNCHANGED state

MarkStopped(c) ==
  /\ StopStep(c, "finish")
  /\ SetState(cur[c], "Stopped")
  /\ Goto(c, AfterStop(c))

\* The rest of the overriding Stop (ClearMcGroups in DiscoveryThread).
LeaveStop(c) ==
  /\ StopStep(c, "leave")
  /\ Goto(c, "each")
  /\ UNCHANGED state

-----------------------------------------------------------------------------
(* InitializeThreads: GetInstance of each singleton, whose constructor     *)
(* registers the object while it is still a plain Thread, then Initialize. *)
InitializeStep(c, from, to) ==
  /\ at[c] = from
  /\ Goto(c, to)
  /\ UNCHANGED <<starts, worker, op, override, calls>>

RegisterThread(c, t) ==
  /\ InitializeStep(c, "construct", "derive")
  /\ FirstNamed(c, t)
  /\ handle[t] = 0
  /\ lock = NoOne
  /\ handleCounter' = handleCounter + 1
  /\ handle' = [handle EXCEPT ![t] = handleCounter + 1]
  /\ registered' = registered \cup {t}
  /\ SetState(t, "Created")
  /\ Visit(c, t)
  /\ UNCHANGED <<lock, built, todo, phase>>

FinishConstructor(c) ==
  /\ InitializeStep(c, "derive", "prepare")
  /\ built' = built \cup {cur[c]}
  /\ UNCHANGED <<monitor, state, todo, cur, phase>>

\* The static local exists; a caller that finds it under construction waits.
GetInstance(c, t) ==
  /\ InitializeStep(c, "construct", "prepare")
  /\ FirstNamed(c, t)
  /\ t \in built
  /\ Visit(c, t)
  /\ UNCHANGED <<monitor, built, state, todo, phase>>

\* What the derived Initialize does before Thread::Initialize.
Prepare(c) ==
  /\ InitializeStep(c, "prepare", "initialize")
  /\ UNCHANGED <<monitor, built, state, todo, cur, phase>>

\* Only DiscoveryThread::Initialize chains to Thread::Initialize.
Initialize(c) ==
  /\ InitializeStep(c, "initialize", "construct")
  /\ IF Empty(cur[c]) THEN UNCHANGED state ELSE SetState(cur[c], "Initialized")
  /\ todo' = [todo EXCEPT ![c] = @ \ {cur[c]}]
  /\ UNCHANGED <<monitor, built, cur, phase>>

ReturnInitialize(c) ==
  /\ at[c] = "construct"
  /\ todo[c] = {}
  /\ Return(c)
  /\ UNCHANGED <<monitor, built, state, starts, worker, op, todo, cur,
                 override, calls>>

-----------------------------------------------------------------------------
(* Exit of the program: ~Thread of the singletons, last built first. Only  *)
(* Thread's own Stop runs, the derived part of the object is gone by then. *)
ExitStep(c, from, to) ==
  /\ at[c] = from
  /\ Goto(c, to)
  /\ UNCHANGED <<lock, handleCounter, handle, starts, worker, op, override, client>>

Destroy(c, t) ==
  /\ ExitStep(c, "destroy", "check")
  /\ LastBuilt(c, t)
  /\ built' = built \ {t}
  /\ Visit(c, t)
  /\ UNCHANGED <<registered, state, todo>>

Delete(c) ==
  /\ ExitStep(c, "delete", "unregister")
  /\ SetState(cur[c], "Destroyed")
  /\ UNCHANGED <<registered, built, todo, cur>>

UnregisterThread(c) ==
  /\ ExitStep(c, "unregister", "destroy")
  /\ lock = NoOne
  /\ registered' = registered \ {cur[c]}
  /\ todo' = [todo EXCEPT ![c] = @ \ {cur[c]}]
  /\ UNCHANGED <<built, state, cur>>

\* The process ends, and its detached workers with it.
Leave(c) ==
  /\ ExitStep(c, "destroy", "gone")
  /\ todo[c] = {}
  /\ UNCHANGED <<registered, built, state, todo, cur>>

-----------------------------------------------------------------------------
(* The workers.                                                            *)
WorkerStep(t, k, from, to) ==
  /\ ~Gone
  /\ worker[t][k] = from
  /\ worker' = [worker EXCEPT ![t][k] = to]
  /\ UNCHANGED <<monitor, built, starts, place, client>>

RunBegin(t, k) ==
  /\ WorkerStep(t, k, "spawned", "test")
  /\ t \in built \cap Looping
  /\ SetState(t, "Running")

RunEmpty(t, k) ==
  /\ WorkerStep(t, k, "spawned", "ended")
  /\ Empty(t)
  /\ UNCHANGED state

\* Thread::Run, when the worker runs before or after the derived class lives.
RunBase(t, k) ==
  /\ WorkerStep(t, k, "spawned", "ended")
  /\ t \notin built
  /\ SetState(t, "Running")

TestStopping_Stopped(t, k) ==  \* mutant: the loop waits for Stopped
  /\ WorkerStep(t, k, "test", IF state[t] = "Stopped" THEN "ending" ELSE "body")
  /\ UNCHANGED state

TestStopping(t, k) ==
  /\ WorkerStep(t, k, "test", IF state[t] = "Stopping" THEN "ending" ELSE "body")
  /\ UNCHANGED state

Body(t, k) ==
  /\ WorkerStep(t, k, "body", "test")
  /\ UNCHANGED state

RunEnd_Silent(t, k) ==  \* mutant: Run returns without RunEnd
  /\ WorkerStep(t, k, "ending", "ended")
  /\ UNCHANGED state

RunEnd(t, k) ==
  /\ WorkerStep(t, k, "ending", "ended")
  /\ SetState(t, "Stopped")

-----------------------------------------------------------------------------
StopThreadsStep(c) ==
  \/ CheckStopped(c) \/ CheckStopping(c) \/ MarkStopping(c)
  \/ AwaitStopped(c) \/ MarkStopped(c) \/ LeaveStop(c)

ControllerStep(c) ==
  \/ Acquire(c) \/ Release(c)
  \/ \E t \in Threads : Start(c, t) \/ Pause(c, t) \/ Resume(c, t) \/ Stop(c, t)
  \/ StopThreadsStep(c)
  \/ \E t \in Threads : RegisterThread(c, t) \/ GetInstance(c, t)
  \/ FinishConstructor(c) \/ Prepare(c) \/ Initialize(c) \/ ReturnInitialize(c)
  \/ \E t \in Threads : Destroy(c, t)
  \/ Delete(c) \/ UnregisterThread(c) \/ Leave(c)

WorkerSteps(t, k) ==
  \/ RunBegin(t, k) \/ RunEmpty(t, k) \/ RunBase(t, k)
  \/ TestStopping(t, k) \/ Body(t, k) \/ RunEnd(t, k)

Next ==
  \/ \E c \in Controllers, o \in Ops : Call(c, o)
  \/ \E c \in Controllers : ControllerStep(c)
  \/ \E t \in Threads, k \in 1..MaxStarts : WorkerSteps(t, k)

Spec == Init /\ [][Next]_vars

\* The operating system schedules every thread that can run; whether another
\* operation is called at all is the client's choice.
Fairness ==
  /\ \A c \in Controllers : WF_vars(ControllerStep(c))
  /\ \A t \in Threads, k \in 1..MaxStarts : WF_vars(WorkerSteps(t, k))

FairSpec == Spec /\ Fairness

-----------------------------------------------------------------------------
(* Properties.                                                             *)

\* A thread that reads Stopped and was started at most once has no worker in
\* the loop of Run, whatever the controllers call and in whatever order:
\* Thread::Stop waits for RunEnd before it marks the thread (thread.cpp).
StoppedMeansQuiet ==
  \A t \in Threads, k \in 1..MaxStarts :
    state[t] = "Stopped" /\ starts[t] <= 1 => worker[t][k] \notin InLoop

\* Nothing a PauseThreads, ResumeThreads or exit of another controller does
\* overwrites the Stopping a worker has still to see: only a worker
\* (RunBegin, Thread::Run), InitializeThreads or the stopper itself does.
StopNotOverwritten ==
  [][\A t \in Threads :
       state[t] = "Stopping" /\ state'[t] # "Stopping" =>
         \/ state'[t] = "Initialized"
         \/ worker'[t] # worker[t]
         \/ \E c \in Controllers : MarkStopped(c) /\ cur[c] = t]_vars

\* Handles, and with them the order of Start, Stop and of the static
\* destructors, follow the order in which InitializeThreads names the
\* singletons, even when two controllers run InitializeThreads at once.
HandlesFollowNames ==
  \A t, u \in registered : InitRank[t] < InitRank[u] => handle[t] < handle[u]

\* While StopThreads waits for a looping thread, the worker has still to see
\* Stopping, or has answered with Stopped: the wait can never be in vain.
StopHandshake ==
  \A c \in Controllers :
    LET t == cur[c] IN
    op[c] = "stop" /\ at[c] = "wait" /\ t \in Looping =>
      \/ state[t] = "Stopping" /\ worker[t][starts[t]] \in InLoop
      \/ state[t] = "Stopped"  /\ worker[t][starts[t]] = "ended"

\* A StopThreads that was called returns.
StopThreadsReturns ==
  \A c \in Controllers : op[c] = "stop" /\ ~Idle(c) ~> Idle(c)

\* A program whose Main returns runs the destructors of its threads to the end.
ExitReturns == Exiting ~> Gone

\* It does, or it comes to wait in the destructor of a started thread whose Run
\* never answers (ConfigurationThread, which every StartThreads starts): never
\* for a thread that was not started, and never for one that loops, which is
\* destroyed after the silent one.
ExitWaitsOnlyForSilent ==
  Exiting ~>
    \/ Gone
    \/ at[Main] = "wait" /\ cur[Main] \notin Looping /\ starts[cur[Main]] > 0

\* The thread service implements what its callers are promised.
Running == {t \in Looping :
              \E k \in 1..MaxStarts : worker[t][k] \in {"spawned"} \cup InLoop}
Serving == IF \E c \in Controllers : op[c] = "stop" /\ ~Idle(c) THEN "stopping"
           ELSE IF phase = "stopped" THEN "down" ELSE "up"

Service == INSTANCE ThreadService
             WITH Workers <- Looping, running <- Running, serving <- Serving

\* Called in order, StartThreads and StopThreads keep the promise: a worker
\* ends only after a stop was requested, and none outlives StopThreads.
ImplementsService == Service!Spec

\* And StopThreads returns, when every worker was seen to run first.
ImplementsFairService == Service!FairSpec
=============================================================================
