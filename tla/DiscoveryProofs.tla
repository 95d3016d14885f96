-------------------------- MODULE DiscoveryProofs --------------------------
(***************************************************************************)
(* Proofs of the safety of the thread service and of the discovery thread, *)
(* for any number of threads, controllers, interfaces and clients and any  *)
(* order of their calls. First what ThreadMonitor does by itself; then     *)
(* Discovery, which adds state to it and takes nothing from it: what is    *)
(* proved of the one holds of the other.                                   *)
(***************************************************************************)
EXTENDS Discovery, TLAPS

-----------------------------------------------------------------------------
(* The inductive invariant.                                                *)

\* Each place in the code belongs to certain operations.
Legal(p, o) ==
  /\ p \in StopSteps => o \in {"stop", "exit"}
  /\ p \in {"acquire", "each"} => o \in Locked
  /\ p = "leave" => o = "stop"
  /\ p \in {"construct", "derive", "prepare", "initialize"} => o = "initialize"
  /\ p \in {"destroy", "delete", "unregister", "gone"} => o = "exit"

PlaceInv == \A c \in Controllers : Legal(at[c], op[c])

Critical == {"each", "leave"} \cup StopSteps

\* m_mutex is held from Acquire to Release.
LockInv ==
  \A c \in Controllers :
    at[c] \in Critical /\ op[c] # "exit" => lock = c

\* Only Main exits, and only alone.
ExitInv ==
  \A c \in Controllers :
    ~Idle(c) /\ op[c] = "exit" =>
      c = Main /\ \A d \in Controllers : d # Main => Idle(d)

\* The workers of a thread are those its Start calls spawned.
WorkerInv ==
  \A t \in Threads, k \in 1..MaxStarts : starts[t] < k <=> worker[t][k] = "none"

\* Where Thread::Stop may mark the thread Stopped, its worker is gone.
StopInv ==
  \A c \in Controllers :
    /\ at[c] = "finish" \/ (at[c] = "wait" /\ state[cur[c]] = "Stopped")
    /\ starts[cur[c]] <= 1
    => \A k \in 1..MaxStarts : worker[cur[c]][k] \in {"none", "ended"}

ControlInv == TypeOK /\ PlaceInv /\ LockInv /\ ExitInv
IInv == ControlInv /\ WorkerInv /\ StopInv /\ StoppedMeansQuiet

-----------------------------------------------------------------------------
LEMMA TypeInit == Init => TypeOK
BY ThreadsAssumption, ControllersAssumption, ClientAssumption
   DEF Init, TypeOK, MaxStarts, Ops, States, Stages, Places, Phases, StopSteps

LEMMA TypeStep == TypeOK /\ [Next]_vars => TypeOK'
<1> SUFFICES ASSUME TypeOK, [Next]_vars PROVE TypeOK'
  OBVIOUS
<1> USE ThreadsAssumption, ControllersAssumption, ClientAssumption
<1>0. MaxStarts \in Nat
  BY DEF MaxStarts, Ops
<1> USE <1>0
<1>1. ASSUME NEW c \in Controllers, NEW o \in Ops, Call(c, o) PROVE TypeOK'
  <2>1. Entry(o) \in Places
    BY DEF Entry, Places
  <2>2. calls' \in [Ops -> Nat]
    <3>1. calls \in [Ops -> Nat] /\ calls' = [calls EXCEPT ![o] = calls[o] + 1]
      BY <1>1 DEF TypeOK, Call
    <3> QED
      BY <3>1
  <2>3. at' \in [Controllers -> Places]
    BY <1>1, <2>1 DEF TypeOK, Call, Goto
  <2>4. op' \in [Controllers -> Ops] /\ todo' \in [Controllers -> SUBSET Threads]
    BY <1>1 DEF TypeOK, Call
  <2> QED
    BY <1>1, <2>2, <2>3, <2>4 DEF TypeOK, Call, monitor
<1>2. ASSUME NEW c \in Controllers, ControllerStep(c) PROVE TypeOK'
  <2>1. CASE Acquire(c)
    BY <2>1 DEF TypeOK, Acquire, Goto, client, Places
  <2>2. CASE Release(c)
    BY <2>2 DEF TypeOK, Release, Return, Goto, Places, Phases
  <2>3. ASSUME NEW t \in Threads, Start(c, t) PROVE TypeOK'
    <3> DEFINE n == starts[t] + 1
    <3>1. starts \in [Threads -> 0..MaxStarts]
      BY DEF TypeOK
    <3>2. n \in 1..MaxStarts /\ n \in 0..MaxStarts
      BY <2>3, <3>1 DEF Start
    <3>3. worker' = [worker EXCEPT ![t][n] = "spawned"] /\ "spawned" \in Stages
      BY <2>3 DEF Start, Stages
    <3>4. starts' = [starts EXCEPT ![t] = n]
      BY <2>3 DEF Start
    <3> HIDE DEF n
    <3>5. worker' \in [Threads -> [1..MaxStarts -> Stages]]
      BY <3>2, <3>3 DEF TypeOK
    <3>6. starts' \in [Threads -> 0..MaxStarts]
      BY <3>1, <3>2, <3>4
    <3> QED
      BY <2>3, <3>5, <3>6 DEF TypeOK, Start, Each, monitor, client
  <2>4. ASSUME NEW t \in Threads, Pause(c, t) \/ Resume(c, t) PROVE TypeOK'
    <3>1. state' \in [Threads -> States]
      BY <2>4 DEF TypeOK, Empty, Pause, Resume, SetState, States
    <3>2. todo' \in [Controllers -> SUBSET Threads]
      <4>1. todo' = [todo EXCEPT ![c] = @ \ {t}]
        BY <2>4 DEF Pause, Resume, Each
      <4> QED
        BY <4>1 DEF TypeOK
    <3> QED
      BY <2>4, <3>1, <3>2 DEF TypeOK, Pause, Resume, monitor, client
  <2>5. ASSUME NEW t \in Threads, Stop(c, t) PROVE TypeOK'
    <3>1. at' \in [Controllers -> Places] /\ cur' \in [Controllers -> Threads]
          /\ override' \in [Controllers -> BOOLEAN]
      <4>1. CASE Empty(t)
        BY <2>5, <4>1 DEF TypeOK, Stop
      <4>2. CASE ~Empty(t)
        <5>1. at' = [at EXCEPT ![c] = "check"] /\ cur' = [cur EXCEPT ![c] = t]
          BY <2>5, <4>2 DEF Stop, Goto, Visit
        <5> DEFINE b == t \in built
        <5>2. override' = [override EXCEPT ![c] = b] /\ b \in BOOLEAN
          BY <2>5, <4>2 DEF Stop
        <5>3. at' \in [Controllers -> Places] /\ cur' \in [Controllers -> Threads]
          BY <5>1 DEF TypeOK, Places, StopSteps
        <5> HIDE DEF b
        <5>4. override' \in [Controllers -> BOOLEAN]
          BY <5>2 DEF TypeOK
        <5> QED
          BY <5>3, <5>4
      <4> QED
        BY <4>1, <4>2
    <3>2. todo' \in [Controllers -> SUBSET Threads]
      BY <2>5 DEF TypeOK, Stop, Each
    <3> QED
      BY <2>5, <3>1, <3>2 DEF TypeOK, Stop, monitor, client
  <2>6. CASE StopThreadsStep(c)
    <3>1. at' \in [Controllers -> Places]
      BY <2>6 DEF TypeOK, StopThreadsStep, StopStep, CheckStopped, CheckStopping,
                  MarkStopping, AwaitStopped, MarkStopped, LeaveStop, AfterStop,
                  Goto, Places, StopSteps
    <3>2. state' \in [Threads -> States]
      BY <2>6 DEF TypeOK, StopThreadsStep, StopStep, CheckStopped, CheckStopping,
                  MarkStopping, AwaitStopped, MarkStopped, LeaveStop, SetState, States
    <3>3. /\ UNCHANGED <<monitor, built, starts, worker, op, todo, cur, override>>
          /\ UNCHANGED client
      BY <2>6 DEF StopThreadsStep, StopStep, CheckStopped, CheckStopping,
                  MarkStopping, AwaitStopped, MarkStopped, LeaveStop, monitor, client
    <3> QED
      BY <3>1, <3>2, <3>3 DEF TypeOK, monitor, client
  <2>7. ASSUME NEW t \in Threads, RegisterThread(c, t) \/ GetInstance(c, t)
        PROVE TypeOK'
    <3>1. CASE RegisterThread(c, t)
      <4>1. state' \in [Threads -> States] /\ handle' \in [Threads -> Nat]
        BY <3>1 DEF TypeOK, RegisterThread, SetState, States
      <4>2. at' \in [Controllers -> Places] /\ cur' \in [Controllers -> Threads]
        BY <3>1 DEF TypeOK, RegisterThread, InitializeStep, Goto, Visit, Places
      <4> QED
        BY <3>1, <4>1, <4>2 DEF TypeOK, RegisterThread, InitializeStep
    <3>2. CASE GetInstance(c, t)
      BY <3>2 DEF TypeOK, GetInstance, InitializeStep, Goto, Visit, monitor,
                  Places
    <3> QED
      BY <2>7, <3>1, <3>2
  <2>8. CASE FinishConstructor(c) \/ Prepare(c) \/ Initialize(c) \/ ReturnInitialize(c)
    <3>1. CASE FinishConstructor(c) \/ Prepare(c)
      BY <3>1 DEF TypeOK, FinishConstructor, Prepare, InitializeStep, Goto,
                  monitor, Places
    <3>2. CASE Initialize(c)
      BY <3>2 DEF TypeOK, Empty, Initialize, InitializeStep, Goto, SetState,
                  monitor, Places, States
    <3>3. CASE ReturnInitialize(c)
      BY <3>3 DEF TypeOK, ReturnInitialize, Return, Goto, monitor, Places, Phases
    <3> QED
      BY <2>8, <3>1, <3>2, <3>3
  <2>9. ASSUME NEW t \in Threads, Destroy(c, t) PROVE TypeOK'
    BY <2>9 DEF TypeOK, Destroy, ExitStep, Goto, Visit, client, Places, StopSteps
  <2>10. CASE Delete(c) \/ UnregisterThread(c) \/ Leave(c)
    <3>1. CASE Delete(c)
      BY <3>1 DEF TypeOK, Delete, ExitStep, Goto, SetState, client, Places, States
    <3>2. CASE UnregisterThread(c)
      BY <3>2 DEF TypeOK, UnregisterThread, ExitStep, Goto, client, Places
    <3>3. CASE Leave(c)
      BY <3>3 DEF TypeOK, Leave, ExitStep, Goto, client, Places
    <3> QED
      BY <2>10, <3>1, <3>2, <3>3
  <2> QED
    BY <1>2, <2>1, <2>2, <2>3, <2>4, <2>5, <2>6, <2>7, <2>8, <2>9, <2>10
       DEF ControllerStep
<1>3. ASSUME NEW t \in Threads, NEW k \in 1..MaxStarts, WorkerSteps(t, k)
      PROVE TypeOK'
  <2>1. PICK to \in Stages :
          /\ worker' = [worker EXCEPT ![t][k] = to]
          /\ UNCHANGED <<monitor, built, starts, place, client>>
    BY <1>3 DEF WorkerSteps, WorkerStep, RunBegin, RunEmpty, RunBase,
                TestStopping, Body, RunEnd, Stages, InLoop
  <2>2. state' \in [Threads -> States]
    BY <1>3 DEF TypeOK, WorkerSteps, RunBegin, RunEmpty, RunBase, TestStopping,
                Body, RunEnd, SetState, States
  <2>3. worker' \in [Threads -> [1..MaxStarts -> Stages]]
    BY <2>1 DEF TypeOK
  <2> QED
    BY <2>1, <2>2, <2>3 DEF TypeOK, monitor, place, client
<1>4. CASE UNCHANGED vars
  BY <1>4 DEF TypeOK, vars, monitor, place, client
<1> QED
  BY <1>1, <1>2, <1>3, <1>4 DEF Next

\* m_state, the monitor's map and every step of a call stay within the values
\* the code gives them.
THEOREM TypeCorrect == Spec => []TypeOK
BY TypeInit, TypeStep, PTL DEF Spec
-----------------------------------------------------------------------------
(* Who may be where.                                                       *)

LEMMA ControlInit == Init => PlaceInv /\ LockInv /\ ExitInv
BY DEF Init, PlaceInv, Legal, LockInv, ExitInv, StopSteps, Critical, Idle

\* What a step of a controller does to the control state: it moves this
\* controller alone, keeps its operation, and keeps the rules of the lock.
LEMMA ControllerMoves ==
  ASSUME TypeOK, PlaceInv, LockInv, NEW c \in Controllers, ControllerStep(c)
  PROVE  /\ op' = op
         /\ at[c] # "idle"
         /\ \A d \in Controllers : d # c => at'[d] = at[d]
         /\ Legal(at'[c], op[c])
         /\ lock' = lock \/ lock = NoOne \/ lock = c
         /\ at'[c] \in Critical /\ op[c] # "exit" => lock' = c
<1>0. at \in [Controllers -> Places] /\ op \in [Controllers -> Ops]
  BY DEF TypeOK
<1>1. Legal(at[c], op[c])
  BY DEF PlaceInv
<1>2. at[c] \in Critical /\ op[c] # "exit" => lock = c
  BY DEF LockInv
<1> USE <1>0, <1>1, <1>2 DEF Legal, Critical, StopSteps, Locked
<1>3. CASE Acquire(c)
  BY <1>3 DEF Acquire, Goto
<1>4. CASE Release(c)
  BY <1>4 DEF Release, Return, Goto
<1>5. ASSUME NEW t \in Threads, Start(c, t) \/ Pause(c, t) \/ Resume(c, t)
      PROVE at' = at /\ op' = op /\ lock' = lock /\ at[c] = "each"
  BY <1>5 DEF Start, Pause, Resume, Each, monitor
<1>6. ASSUME NEW t \in Threads, Stop(c, t)
      PROVE /\ at' = at \/ at' = [at EXCEPT ![c] = "check"]
            /\ op' = op /\ lock' = lock /\ at[c] = "each" /\ op[c] = "stop"
  BY <1>6 DEF Stop, Empty, Each, Goto, monitor
<1>7. CASE StopThreadsStep(c)
  BY <1>7 DEF StopThreadsStep, StopStep, CheckStopped, CheckStopping,
              MarkStopping, AwaitStopped, MarkStopped, LeaveStop, AfterStop,
              Goto, monitor
<1>8. ASSUME NEW t \in Threads, RegisterThread(c, t) \/ GetInstance(c, t)
      PROVE /\ \E p \in {"derive", "prepare"} : at' = [at EXCEPT ![c] = p]
            /\ op' = op /\ lock' = lock /\ at[c] = "construct"
  BY <1>8 DEF RegisterThread, GetInstance, InitializeStep, Goto, monitor
<1>9. CASE FinishConstructor(c) \/ Prepare(c) \/ Initialize(c) \/ ReturnInitialize(c)
  BY <1>9 DEF FinishConstructor, Prepare, Initialize, ReturnInitialize,
              InitializeStep, Return, Goto, monitor
<1>10. ASSUME NEW t \in Threads, Destroy(c, t)
       PROVE /\ at' = [at EXCEPT ![c] = "check"]
             /\ op' = op /\ lock' = lock /\ at[c] = "destroy"
  BY <1>10 DEF Destroy, ExitStep, Goto
<1>11. CASE Delete(c) \/ UnregisterThread(c) \/ Leave(c)
  BY <1>11 DEF Delete, UnregisterThread, Leave, ExitStep, Goto
<1> QED
  BY <1>3, <1>4, <1>5, <1>6, <1>7, <1>8, <1>9, <1>10, <1>11 DEF ControllerStep

LEMMA ControlStep == ControlInv /\ [Next]_vars => PlaceInv' /\ LockInv' /\ ExitInv'
<1> SUFFICES ASSUME ControlInv, [Next]_vars PROVE PlaceInv' /\ LockInv' /\ ExitInv'
  OBVIOUS
<1>0. at \in [Controllers -> Places] /\ op \in [Controllers -> Ops]
  BY DEF ControlInv, TypeOK
<1>1. ASSUME NEW c \in Controllers, NEW o \in Ops, Call(c, o)
      PROVE PlaceInv' /\ LockInv' /\ ExitInv'
  <2>1. /\ at' = [at EXCEPT ![c] = Entry(o)] /\ op' = [op EXCEPT ![c] = o]
        /\ lock' = lock /\ Idle(c)
    BY <1>1 DEF Call, Goto, monitor
  <2>2. Legal(Entry(o), o) /\ Entry(o) \notin Critical
    BY DEF Legal, Entry, Ops, Locked, StopSteps, Critical
  <2>3. PlaceInv'
    BY <1>0, <2>1, <2>2 DEF ControlInv, PlaceInv
  <2>4. LockInv'
    BY <1>0, <2>1, <2>2 DEF ControlInv, LockInv
  <2>5. /\ ~(op[Main] = "exit" /\ ~Idle(Main))
        /\ o = "exit" => c = Main /\ \A d \in Controllers : Idle(d)
    BY <1>1 DEF Call, MayCall, Exiting
  <2>6. ExitInv'
    BY <1>0, <2>1, <2>5, ControllersAssumption DEF ControlInv, ExitInv, Idle
  <2> QED
    BY <2>3, <2>4, <2>6
<1>2. ASSUME NEW c \in Controllers, ControllerStep(c)
      PROVE PlaceInv' /\ LockInv' /\ ExitInv'
  <2>1. /\ op' = op /\ at[c] # "idle"
        /\ \A d \in Controllers : d # c => at'[d] = at[d]
        /\ Legal(at'[c], op[c])
        /\ lock' = lock \/ lock = NoOne \/ lock = c
        /\ at'[c] \in Critical /\ op[c] # "exit" => lock' = c
    BY <1>2, ControllerMoves DEF ControlInv
  <2>2. PlaceInv'
    BY <2>1 DEF ControlInv, PlaceInv
  <2>3. LockInv'
    BY <2>1, ControllersAssumption DEF ControlInv, LockInv
  <2>4. ExitInv'
    BY <2>1 DEF ControlInv, ExitInv, Idle
  <2> QED
    BY <2>2, <2>3, <2>4
<1>3. ASSUME NEW t \in Threads, NEW k \in 1..MaxStarts, WorkerSteps(t, k)
      PROVE UNCHANGED <<at, op, lock>>
  BY <1>3 DEF WorkerSteps, WorkerStep, RunBegin, RunEmpty, RunBase,
              TestStopping, Body, RunEnd, monitor, place
<1>4. CASE UNCHANGED vars
  BY <1>4 DEF vars, monitor, place, ControlInv, PlaceInv, LockInv, ExitInv, Idle
<1>5. CASE UNCHANGED <<at, op, lock>>
  BY <1>5 DEF ControlInv, PlaceInv, LockInv, ExitInv, Idle
<1> QED
  BY <1>1, <1>2, <1>3, <1>4, <1>5 DEF Next

\* Who executes Thread::Stop does so alone: nobody else executes it, nor
\* iterates over the threads.
LEMMA StopExcludes ==
  ASSUME ControlInv, NEW c \in Controllers, NEW d \in Controllers,
         at[c] \in StopSteps, d # c
  PROVE  at[d] \notin {"each"} \cup StopSteps
<1>1. Legal(at[c], op[c]) /\ Legal(at[d], op[d])
  BY DEF ControlInv, PlaceInv
<1>2. CASE op[c] = "exit"
  BY <1>2 DEF ControlInv, ExitInv, Idle, StopSteps
<1>3. CASE op[c] = "stop"
  <2>1. lock = c
    BY <1>3 DEF ControlInv, LockInv, Critical
  <2>2. CASE op[d] = "exit"
    BY <2>2 DEF ControlInv, ExitInv, Idle, StopSteps
  <2>3. CASE op[d] # "exit"
    BY <2>1, <2>3 DEF ControlInv, LockInv, Critical
  <2> QED
    BY <2>2, <2>3
<1> QED
  BY <1>1, <1>2, <1>3 DEF Legal

-----------------------------------------------------------------------------
(* What the steps do to m_state and to the workers.                        *)

\* But for Start and MarkStopped, a controller spawns no worker and marks
\* no thread Stopped.
LEMMA ControllerWrites ==
  ASSUME TypeOK, NEW c \in Controllers, ControllerStep(c),
         ~MarkStopped(c), \A t \in Threads : ~Start(c, t)
  PROVE  /\ UNCHANGED <<worker, starts>>
         /\ \A t \in Threads : state'[t] = "Stopped" => state[t] = "Stopped"
         /\ \A d \in Controllers : d # c => cur'[d] = cur[d]
<1>0. state \in [Threads -> States] /\ cur \in [Controllers -> Threads]
  BY DEF TypeOK
<1> USE <1>0 DEF SetState, Visit
<1>1. CASE Acquire(c) \/ Release(c)
  BY <1>1 DEF Acquire, Release
<1>2. ASSUME NEW t \in Threads, Pause(c, t) \/ Resume(c, t)
      PROVE /\ UNCHANGED <<worker, starts, cur>>
            /\ state' = state \/ \E s \in {"Paused", "Running"} :
                                  state' = [state EXCEPT ![t] = s]
  BY <1>2 DEF Pause, Resume, Empty
<1>3. ASSUME NEW t \in Threads, Stop(c, t)
      PROVE /\ UNCHANGED <<worker, starts, state>>
            /\ cur' = cur \/ cur' = [cur EXCEPT ![c] = t]
  BY <1>3 DEF Stop, Empty
<1>4. CASE StopThreadsStep(c)
  BY <1>4 DEF StopThreadsStep, StopStep, CheckStopped, CheckStopping,
              MarkStopping, AwaitStopped, LeaveStop
<1>5. ASSUME NEW t \in Threads, RegisterThread(c, t) \/ GetInstance(c, t)
      PROVE /\ UNCHANGED <<worker, starts>>
            /\ state' = state \/ state' = [state EXCEPT ![t] = "Created"]
            /\ cur' = [cur EXCEPT ![c] = t]
  BY <1>5 DEF RegisterThread, GetInstance, InitializeStep
<1>6. CASE FinishConstructor(c) \/ Prepare(c) \/ Initialize(c) \/ ReturnInitialize(c)
  BY <1>6 DEF FinishConstructor, Prepare, Initialize, ReturnInitialize,
              InitializeStep, Empty
<1>7. ASSUME NEW t \in Threads, Destroy(c, t)
      PROVE UNCHANGED <<worker, starts, state>> /\ cur' = [cur EXCEPT ![c] = t]
  BY <1>7 DEF Destroy, ExitStep
<1>8. CASE Delete(c) \/ UnregisterThread(c) \/ Leave(c)
  BY <1>8 DEF Delete, UnregisterThread, Leave, ExitStep
<1> QED
  BY <1>1, <1>2, <1>3, <1>4, <1>5, <1>6, <1>7, <1>8 DEF ControllerStep

\* A worker step moves one worker that had not ended; it marks its thread
\* Stopped only as that worker ends, and enters the loop only as Running.
LEMMA WorkerMoves ==
  ASSUME TypeOK, NEW t \in Threads, NEW k \in 1..MaxStarts, WorkerSteps(t, k)
  PROVE  /\ UNCHANGED <<starts, at, cur>>
         /\ worker[t][k] \notin {"none", "ended"}
         /\ worker'[t][k] # "none"
         /\ \A j \in 1..MaxStarts : j # k => worker'[t][j] = worker[t][j]
         /\ \A u \in Threads : u # t =>
              worker'[u] = worker[u] /\ state'[u] = state[u]
         /\ state'[t] = "Stopped" /\ state[t] # "Stopped" =>
              worker'[t][k] = "ended"
         /\ state'[t] = "Stopped" /\ worker'[t][k] \in InLoop =>
              worker[t][k] \in InLoop
<1>0. /\ state \in [Threads -> States]
      /\ worker \in [Threads -> [1..MaxStarts -> Stages]]
  BY DEF TypeOK
<1>1. PICK from \in {"spawned"} \cup InLoop, to \in Stages \ {"none"} :
        /\ worker[t][k] = from
        /\ worker' = [worker EXCEPT ![t][k] = to]
        /\ UNCHANGED <<monitor, built, starts, place, client>>
        /\ \/ from = "spawned" /\ state' = [state EXCEPT ![t] = "Running"]
           \/ UNCHANGED state /\ (from \in InLoop \/ to = "ended")
           \/ to = "ended"     /\ state' = [state EXCEPT ![t] = "Stopped"]
  BY DEF WorkerSteps, WorkerStep, RunBegin, RunEmpty, RunBase, TestStopping,
         Body, RunEnd, SetState, Stages, InLoop
<1> QED
  BY <1>0, <1>1 DEF place, InLoop

LEMMA WorkerInit == Init => WorkerInv /\ StopInv /\ StoppedMeansQuiet
<1>1. MaxStarts \in Nat
  BY ClientAssumption DEF MaxStarts, Ops
<1> QED
  BY <1>1, ControllersAssumption
     DEF Init, WorkerInv, StopInv, StoppedMeansQuiet, InLoop

LEMMA WorkerStepInv ==
  ASSUME IInv, NEW t \in Threads, NEW k \in 1..MaxStarts, WorkerSteps(t, k)
  PROVE  WorkerInv' /\ StopInv' /\ StoppedMeansQuiet'
<1>0. MaxStarts \in Nat /\ starts \in [Threads -> 0..MaxStarts]
      /\ cur \in [Controllers -> Threads]
  BY ClientAssumption DEF MaxStarts, Ops, IInv, ControlInv, TypeOK
<1>1. /\ UNCHANGED <<starts, at, cur>>
      /\ worker[t][k] \notin {"none", "ended"}
      /\ worker'[t][k] # "none"
      /\ \A j \in 1..MaxStarts : j # k => worker'[t][j] = worker[t][j]
      /\ \A u \in Threads : u # t => worker'[u] = worker[u] /\ state'[u] = state[u]
      /\ state'[t] = "Stopped" /\ state[t] # "Stopped" => worker'[t][k] = "ended"
      /\ state'[t] = "Stopped" /\ worker'[t][k] \in InLoop => worker[t][k] \in InLoop
  BY WorkerMoves DEF IInv, ControlInv
<1>2. WorkerInv'
  <2> SUFFICES ASSUME NEW u \in Threads, NEW j \in 1..MaxStarts
               PROVE  starts[u] < j <=> worker'[u][j] = "none"
    BY <1>1 DEF WorkerInv
  <2>1. starts[u] < j <=> worker[u][j] = "none"
    BY DEF IInv, WorkerInv
  <2> QED
    BY <1>1, <2>1
\* The only worker of a thread started once is this one.
<1>3. ASSUME starts[t] <= 1, NEW j \in 1..MaxStarts, j # k
      PROVE  worker[t][j] = "none" /\ worker'[t][j] = "none"
  <2>1. (starts[t] < j <=> worker[t][j] = "none") /\ ~(starts[t] < k)
    BY <1>1 DEF IInv, WorkerInv
  <2>2. starts[t] < j
    BY <1>0, <1>3, <2>1
  <2> QED
    BY <1>1, <1>3, <2>1, <2>2
<1>4. StopInv'
  <2> SUFFICES ASSUME NEW c \in Controllers, starts[cur[c]] <= 1,
                      at[c] = "finish" \/ (at[c] = "wait" /\ state'[cur[c]] = "Stopped"),
                      NEW j \in 1..MaxStarts
               PROVE  worker'[cur[c]][j] \in {"none", "ended"}
    BY <1>1 DEF StopInv
  <2>1. cur[c] \in Threads
    BY <1>0
  <2>2. at[c] = "finish" \/ (at[c] = "wait" /\ state[cur[c]] = "Stopped") =>
          \A i \in 1..MaxStarts : worker[cur[c]][i] \in {"none", "ended"}
    BY DEF IInv, StopInv
  <2>3. CASE cur[c] # t
    BY <1>1, <2>1, <2>2, <2>3
  <2>4. CASE cur[c] = t
    BY <1>1, <1>3, <2>2, <2>4
  <2> QED
    BY <2>3, <2>4
<1>5. StoppedMeansQuiet'
  <2> SUFFICES ASSUME NEW u \in Threads, NEW j \in 1..MaxStarts,
                      state'[u] = "Stopped", starts[u] <= 1
               PROVE  worker'[u][j] \notin InLoop
    BY <1>1 DEF StoppedMeansQuiet
  <2>1. state[u] = "Stopped" => worker[u][j] \notin InLoop
    BY DEF IInv, StoppedMeansQuiet
  <2>2. CASE u # t
    BY <1>1, <2>1, <2>2
  <2>3. CASE u = t /\ j # k
    BY <1>3, <2>3 DEF InLoop
  <2>4. CASE u = t /\ j = k
    BY <1>1, <2>1, <2>4 DEF InLoop
  <2> QED
    BY <2>2, <2>3, <2>4
<1> QED
  BY <1>2, <1>4, <1>5

LEMMA ControllerStepInv ==
  ASSUME IInv, NEW c \in Controllers, ControllerStep(c)
  PROVE  WorkerInv' /\ StopInv' /\ StoppedMeansQuiet'
<1>0. /\ MaxStarts \in Nat /\ starts \in [Threads -> 0..MaxStarts]
      /\ cur \in [Controllers -> Threads] /\ at \in [Controllers -> Places]
      /\ state \in [Threads -> States]
      /\ worker \in [Threads -> [1..MaxStarts -> Stages]]
  BY ClientAssumption DEF MaxStarts, Ops, IInv, ControlInv, TypeOK
<1>m. \A d \in Controllers : d # c => at'[d] = at[d]
  BY ControllerMoves DEF IInv, ControlInv
<1>1. ASSUME NEW t \in Threads, Start(c, t)
      PROVE  WorkerInv' /\ StopInv' /\ StoppedMeansQuiet'
  <2> DEFINE n == starts[t] + 1
  <2>1. /\ n \in 1..MaxStarts /\ at[c] = "each" /\ UNCHANGED <<at, state, cur>>
        /\ starts' = [starts EXCEPT ![t] = n]
        /\ worker' = [worker EXCEPT ![t][n] = "spawned"]
    BY <1>0, <1>1 DEF Start, Each
  <2>2. starts[t] = n - 1
    BY <1>0
  <2> HIDE DEF n
  <2>3. WorkerInv'
    <3> SUFFICES ASSUME NEW u \in Threads, NEW j \in 1..MaxStarts
                 PROVE  starts'[u] < j <=> worker'[u][j] = "none"
      BY DEF WorkerInv
    <3>1. starts[u] < j <=> worker[u][j] = "none"
      BY DEF IInv, WorkerInv
    <3>2. CASE u # t \/ j # n
      BY <1>0, <2>1, <2>2, <3>1, <3>2
    <3>3. CASE u = t /\ j = n
      BY <1>0, <2>1, <3>3
    <3> QED
      BY <3>2, <3>3
  <2>4. StopInv'
    <3>1. \A d \in Controllers : at[d] \notin StopSteps
      BY <2>1, StopExcludes DEF IInv, StopSteps
    <3> QED
      BY <2>1, <3>1 DEF StopInv, StopSteps
  <2>5. StoppedMeansQuiet'
    <3> SUFFICES ASSUME NEW u \in Threads, NEW j \in 1..MaxStarts,
                        state[u] = "Stopped", starts'[u] <= 1
                 PROVE  worker'[u][j] \notin InLoop
      BY <2>1 DEF StoppedMeansQuiet
    <3>1. starts[u] <= 1
      BY <1>0, <2>1, <2>2
    <3>2. worker[u][j] \notin InLoop
      BY <3>1 DEF IInv, StoppedMeansQuiet
    <3>3. worker'[u][j] = worker[u][j] \/ worker'[u][j] = "spawned"
      BY <1>0, <2>1
    <3> QED
      BY <3>2, <3>3 DEF InLoop
  <2> QED
    BY <2>3, <2>4, <2>5
<1>2. CASE MarkStopped(c)
  <2>1. /\ UNCHANGED <<worker, starts, cur>> /\ at[c] = "finish"
        /\ state' = [state EXCEPT ![cur[c]] = "Stopped"]
        /\ at'[c] \notin {"wait", "finish"}
    BY <1>0, <1>2 DEF MarkStopped, StopStep, Goto, SetState, AfterStop
  <2>2. WorkerInv'
    BY <2>1 DEF IInv, WorkerInv
  <2>3. StopInv'
    <3>1. \A d \in Controllers : at'[d] \notin {"wait", "finish"}
      BY <1>m, <2>1, StopExcludes DEF IInv, StopSteps
    <3> QED
      BY <3>1 DEF StopInv
  <2>4. StoppedMeansQuiet'
    <3> SUFFICES ASSUME NEW u \in Threads, NEW j \in 1..MaxStarts,
                        state'[u] = "Stopped", starts[u] <= 1
                 PROVE  worker[u][j] \notin InLoop
      BY <2>1 DEF StoppedMeansQuiet
    <3>1. CASE u = cur[c]
      BY <2>1, <3>1 DEF IInv, StopInv, InLoop
    <3>2. CASE u # cur[c]
      BY <1>0, <2>1, <3>2 DEF IInv, StoppedMeansQuiet
    <3> QED
      BY <3>1, <3>2
  <2> QED
    BY <2>2, <2>3, <2>4
<1>3. CASE ~MarkStopped(c) /\ \A t \in Threads : ~Start(c, t)
  <2>1. /\ UNCHANGED <<worker, starts>>
        /\ \A t \in Threads : state'[t] = "Stopped" => state[t] = "Stopped"
        /\ \A d \in Controllers : d # c => cur'[d] = cur[d]
    BY <1>3, ControllerWrites DEF IInv, ControlInv
  <2>2. WorkerInv'
    BY <2>1 DEF IInv, WorkerInv
  <2>3. StoppedMeansQuiet'
    BY <2>1 DEF IInv, StoppedMeansQuiet
  <2>4. StopInv'
    <3> SUFFICES ASSUME NEW d \in Controllers, starts'[cur'[d]] <= 1,
                        at'[d] = "finish"
                          \/ (at'[d] = "wait" /\ state'[cur'[d]] = "Stopped"),
                        NEW j \in 1..MaxStarts
                 PROVE  worker'[cur'[d]][j] \in {"none", "ended"}
      BY DEF StopInv
    <3>1. CASE d # c
      BY <1>0, <1>m, <2>1, <3>1 DEF IInv, StopInv
    <3>2. CASE d = c
      <4>1. at'[c] \in {"wait", "finish"} => MarkStopping(c) \/ AwaitStopped(c)
        BY <1>0, <1>3, <3>2
           DEF ControllerStep, Acquire, Release, Return, Start, Pause, Resume,
               Stop, Each, Empty, StopThreadsStep, StopStep, CheckStopped,
               CheckStopping, LeaveStop, AfterStop, RegisterThread, GetInstance,
               InitializeStep, FinishConstructor, Prepare, Initialize,
               ReturnInitialize, Destroy, Delete, UnregisterThread, Leave,
               ExitStep, Goto
      <4>2. CASE MarkStopping(c)
        <5>1. /\ state' = [state EXCEPT ![cur[c]] = "Stopping"] /\ cur' = cur
              /\ at'[c] = IF starts[cur[c]] = 0 THEN "finish" ELSE "wait"
          BY <1>0, <4>2 DEF MarkStopping, StopStep, SetState, Goto
        <5>2. starts[cur[c]] = 0 => worker[cur[c]][j] = "none"
          BY <1>0 DEF IInv, WorkerInv
        <5> QED
          BY <1>0, <2>1, <3>2, <5>1, <5>2
      <4>3. CASE AwaitStopped(c)
        BY <2>1, <3>2, <4>3 DEF AwaitStopped, StopStep, IInv, StopInv
      <4> QED
        BY <3>2, <4>1, <4>2, <4>3
    <3> QED
      BY <3>1, <3>2
  <2> QED
    BY <2>2, <2>3, <2>4
<1> QED
  BY <1>1, <1>2, <1>3

LEMMA IInvStep == IInv /\ [Next]_vars => IInv'
<1> SUFFICES ASSUME IInv, [Next]_vars PROVE IInv'
  OBVIOUS
<1>1. ControlInv'
  BY TypeStep, ControlStep DEF IInv, ControlInv
<1>2. ASSUME NEW c \in Controllers, NEW o \in Ops, Call(c, o)
      PROVE  WorkerInv' /\ StopInv' /\ StoppedMeansQuiet'
  <2>1. /\ UNCHANGED <<worker, starts, state, cur>>
        /\ at' = [at EXCEPT ![c] = Entry(o)]
        /\ Entry(o) \notin {"wait", "finish"}
    BY <1>2 DEF Call, Goto, Entry
  <2>2. at \in [Controllers -> Places]
    BY DEF IInv, ControlInv, TypeOK
  <2> QED
    BY <2>1, <2>2 DEF IInv, WorkerInv, StopInv, StoppedMeansQuiet
<1>3. CASE UNCHANGED vars
  <2>1. UNCHANGED <<worker, starts, state, cur, at>>
    BY <1>3 DEF vars, place
  <2>2. WorkerInv' /\ StoppedMeansQuiet'
    BY <2>1 DEF IInv, WorkerInv, StoppedMeansQuiet
  <2>3. StopInv'
    BY <2>1 DEF IInv, StopInv
  <2> QED
    BY <1>1, <2>2, <2>3 DEF IInv
<1> QED
  BY <1>1, <1>2, <1>3, ControllerStepInv, WorkerStepInv DEF Next, IInv

\* Whatever the controllers call, and however the calls and the workers
\* interleave, a thread that reads Stopped has no worker in its loop.
THEOREM StoppedThreadsAreQuiet == Spec => []StoppedMeansQuiet
<1>1. Init => IInv
  BY TypeInit, ControlInit, WorkerInit DEF IInv, ControlInv
<1>2. IInv => StoppedMeansQuiet
  BY DEF IInv
<1> QED
  BY <1>1, <1>2, IInvStep, PTL DEF Spec
-----------------------------------------------------------------------------
(* Handles.                                                                *)

\* Places where cur[c] is a thread the controller works on.
Visiting == {"derive", "prepare", "initialize", "delete", "unregister"} \cup StopSteps

\* What is in the map, or built, or worked on, has been given a handle; so
\* has what a loop over the map has still to visit, and what InitializeThreads
\* has visited.
HandleInv ==
  /\ \A t \in Threads : handle[t] <= handleCounter
  /\ \A t \in registered \cup built : handle[t] # 0
  /\ \A c \in Controllers : at[c] \in Visiting => handle[cur[c]] # 0
  /\ \A c \in Controllers, t \in Threads :
       IF op[c] = "initialize" THEN t \notin todo[c] => handle[t] # 0
                               ELSE t \in todo[c] => handle[t] # 0

\* A thread gets its handle after those named before it.
OrderInv ==
  \A t, u \in Threads : InitRank[t] < InitRank[u] /\ handle[u] # 0 =>
    handle[t] # 0 /\ handle[t] < handle[u]

LEMMA HandleInit == Init => HandleInv /\ OrderInv
BY ControllersAssumption DEF Init, HandleInv, OrderInv, Visiting, StopSteps

\* The steps that give no handle: what they may put in the map, in todo and
\* in cur.
LEMMA ControllerKeepsHandles ==
  ASSUME ControlInv, NEW c \in Controllers, ControllerStep(c),
         \A t \in Threads : ~RegisterThread(c, t)
  PROVE  /\ UNCHANGED <<handle, handleCounter, op>>
         /\ \A t \in registered' \cup built' :
              t \in registered \cup built \/ (at[c] = "derive" /\ t = cur[c])
         /\ \A d \in Controllers : d # c =>
              at'[d] = at[d] /\ cur'[d] = cur[d] /\ todo'[d] = todo[d]
         /\ at'[c] \in Visiting =>
              \/ at[c] \in Visiting /\ cur'[c] = cur[c]
              \/ cur'[c] \in todo[c] /\ op[c] # "initialize"
              \/ cur'[c] \in built
         /\ \A t \in Threads :
              IF op[c] = "initialize"
              THEN t \notin todo'[c] => t \notin todo[c] \/ (at[c] \in Visiting /\ t = cur[c])
              ELSE t \in todo'[c] => t \in todo[c] \cup registered
<1>0. /\ at \in [Controllers -> Places] /\ op \in [Controllers -> Ops]
      /\ cur \in [Controllers -> Threads] /\ todo \in [Controllers -> SUBSET Threads]
  BY DEF ControlInv, TypeOK
<1>1. Legal(at[c], op[c])
  BY DEF ControlInv, PlaceInv
<1> USE <1>0, <1>1 DEF Legal, Visiting, StopSteps, Locked
<1>2. CASE Acquire(c)
  BY <1>2 DEF Acquire, Goto
<1>3. CASE Release(c)
  BY <1>3 DEF Release, Return, Goto
<1>4. ASSUME NEW t \in Threads, Start(c, t) \/ Pause(c, t) \/ Resume(c, t)
      PROVE  /\ UNCHANGED <<handle, handleCounter, op, registered, built, at, cur>>
             /\ todo' = [todo EXCEPT ![c] = @ \ {t}] /\ at[c] = "each"
  BY <1>4 DEF Start, Pause, Resume, Each, monitor
<1>5. ASSUME NEW t \in Threads, Stop(c, t)
      PROVE  /\ UNCHANGED <<handle, handleCounter, op, registered, built>>
             /\ todo' = [todo EXCEPT ![c] = @ \ {t}] /\ at[c] = "each" /\ op[c] = "stop"
             /\ \/ at' = at /\ cur' = cur
                \/ /\ at' = [at EXCEPT ![c] = "check"] /\ cur' = [cur EXCEPT ![c] = t]
                   /\ t \in todo[c]
  BY <1>5 DEF Stop, Empty, Each, FirstInMap, Goto, Visit, monitor
<1>6. CASE StopThreadsStep(c)
  <2>1. /\ UNCHANGED <<handle, handleCounter, op, registered, built, cur, todo>>
        /\ at[c] \in StopSteps \cup {"leave"}
        /\ \E p \in StopSteps \cup {"delete", "leave", "each"} : at' = [at EXCEPT ![c] = p]
        /\ at[c] = "leave" => at'[c] = "each"
    BY <1>6 DEF StopThreadsStep, StopStep, CheckStopped, CheckStopping,
                MarkStopping, AwaitStopped, MarkStopped, LeaveStop, AfterStop,
                Goto, monitor
  <2> QED
    BY <2>1
<1>7. ASSUME NEW t \in Threads, GetInstance(c, t)
      PROVE  /\ UNCHANGED <<handle, handleCounter, op, registered, built, todo>>
             /\ at' = [at EXCEPT ![c] = "prepare"] /\ cur' = [cur EXCEPT ![c] = t]
             /\ t \in built /\ at[c] = "construct"
  BY <1>7 DEF GetInstance, InitializeStep, Goto, Visit, monitor
<1>8. CASE FinishConstructor(c) \/ Prepare(c) \/ Initialize(c)
  BY <1>8 DEF FinishConstructor, Prepare, Initialize, InitializeStep, Goto, monitor
<1>9. CASE ReturnInitialize(c)
  BY <1>9 DEF ReturnInitialize, Return, Goto, monitor
<1>10. ASSUME NEW t \in Threads, Destroy(c, t)
       PROVE  /\ UNCHANGED <<handle, handleCounter, op, registered, todo>>
              /\ built' \subseteq built /\ t \in todo[c] /\ op[c] = "exit"
              /\ at' = [at EXCEPT ![c] = "check"] /\ cur' = [cur EXCEPT ![c] = t]
  BY <1>10 DEF Destroy, ExitStep, LastBuilt, Goto, Visit
<1>11. CASE Delete(c) \/ UnregisterThread(c) \/ Leave(c)
  BY <1>11 DEF Delete, UnregisterThread, Leave, ExitStep, Goto
<1> QED
  BY <1>2, <1>3, <1>4, <1>5, <1>6, <1>7, <1>8, <1>9, <1>10, <1>11 DEF ControllerStep

LEMMA RegisterKeepsOrder ==
  ASSUME TypeOK, PlaceInv, HandleInv, OrderInv,
         NEW c \in Controllers, NEW t \in Threads, RegisterThread(c, t)
  PROVE  HandleInv' /\ OrderInv'
<1>0. /\ at \in [Controllers -> Places] /\ cur \in [Controllers -> Threads]
      /\ handle \in [Threads -> Nat] /\ handleCounter \in Nat
      /\ InitRank \in [Threads -> Nat]
      /\ registered \subseteq Threads /\ built \subseteq Threads
  BY ThreadsAssumption DEF TypeOK
<1>1. /\ handleCounter' = handleCounter + 1 /\ handle[t] = 0
      /\ handle' = [handle EXCEPT ![t] = handleCounter + 1]
      /\ registered' = registered \cup {t} /\ built' = built
      /\ at[c] = "construct" /\ at' = [at EXCEPT ![c] = "derive"]
      /\ cur' = [cur EXCEPT ![c] = t] /\ op' = op /\ todo' = todo
      /\ FirstNamed(c, t)
  BY DEF RegisterThread, InitializeStep, Goto, Visit
<1>2. op[c] = "initialize"
  BY <1>1 DEF PlaceInv, Legal
<1>3. /\ handle'[t] = handleCounter + 1
      /\ \A u \in Threads : u # t => handle'[u] = handle[u]
      /\ \A u \in Threads : handle[u] # 0 => handle'[u] # 0
  BY <1>0, <1>1
<1>4. HandleInv'
  <2>1. \A u \in Threads : handle'[u] <= handleCounter'
    BY <1>0, <1>1, <1>3 DEF HandleInv
  <2>2. \A u \in registered' \cup built' : handle'[u] # 0
    BY <1>0, <1>1, <1>3 DEF HandleInv
  <2>3. \A d \in Controllers : at'[d] \in Visiting => handle'[cur'[d]] # 0
    BY <1>0, <1>1, <1>3 DEF HandleInv
  <2>4. \A d \in Controllers, u \in Threads :
          IF op'[d] = "initialize" THEN u \notin todo'[d] => handle'[u] # 0
                                   ELSE u \in todo'[d] => handle'[u] # 0
    BY <1>1, <1>3 DEF HandleInv
  <2> QED
    BY <2>1, <2>2, <2>3, <2>4 DEF HandleInv
<1>5. \A u \in Threads : InitRank[u] < InitRank[t] => handle[u] # 0
  BY <1>0, <1>1, <1>2 DEF FirstNamed, HandleInv
<1>6. \A u \in Threads : InitRank[t] < InitRank[u] => handle[u] = 0
  BY <1>1 DEF OrderInv
<1>7. \A u \in Threads : handle[u] < handleCounter + 1
  BY <1>0 DEF HandleInv
<1>8. OrderInv'
  <2> SUFFICES ASSUME NEW u \in Threads, NEW v \in Threads,
                      InitRank[u] < InitRank[v], handle'[v] # 0
               PROVE  handle'[u] # 0 /\ handle'[u] < handle'[v]
    BY DEF OrderInv
  <2>1. CASE v = t
    BY <1>0, <1>3, <1>5, <1>7, <2>1
  <2>2. CASE u = t
    BY <1>0, <1>3, <1>6, <2>2
  <2>3. CASE u # t /\ v # t
    BY <1>3, <2>3 DEF OrderInv
  <2> QED
    BY <2>1, <2>2, <2>3
<1> QED
  BY <1>4, <1>8

LEMMA HandleStep ==
  ControlInv /\ HandleInv /\ OrderInv /\ [Next]_vars => HandleInv' /\ OrderInv'
<1> SUFFICES ASSUME ControlInv, HandleInv, OrderInv, [Next]_vars
             PROVE  HandleInv' /\ OrderInv'
  OBVIOUS
<1>0. /\ at \in [Controllers -> Places] /\ op \in [Controllers -> Ops]
      /\ cur \in [Controllers -> Threads] /\ todo \in [Controllers -> SUBSET Threads]
      /\ registered \subseteq Threads /\ built \subseteq Threads
  BY DEF ControlInv, TypeOK
<1>1. ASSUME NEW c \in Controllers, NEW o \in Ops, Call(c, o)
      PROVE  HandleInv' /\ OrderInv'
  <2>1. /\ UNCHANGED <<handle, handleCounter, registered, built, cur>>
        /\ at' = [at EXCEPT ![c] = Entry(o)] /\ op' = [op EXCEPT ![c] = o]
        /\ todo' = [todo EXCEPT ![c] = IF o = "initialize" THEN Threads
                                       ELSE IF o = "exit" THEN built ELSE {}]
    BY <1>1 DEF Call, Goto, monitor
  <2>2. Entry(o) \notin Visiting
    BY DEF Entry, Visiting, StopSteps
  <2>3. \A d \in Controllers : at'[d] \in Visiting => handle'[cur'[d]] # 0
    BY <1>0, <2>1, <2>2 DEF HandleInv
  <2>4. \A d \in Controllers, u \in Threads :
          IF op'[d] = "initialize" THEN u \notin todo'[d] => handle'[u] # 0
                                   ELSE u \in todo'[d] => handle'[u] # 0
    <3> SUFFICES ASSUME NEW d \in Controllers, NEW u \in Threads
                 PROVE  IF op'[d] = "initialize" THEN u \notin todo'[d] => handle'[u] # 0
                                                 ELSE u \in todo'[d] => handle'[u] # 0
      OBVIOUS
    <3>1. CASE d = c
      BY <1>0, <2>1, <3>1 DEF HandleInv
    <3>2. CASE d # c
      BY <1>0, <2>1, <3>2 DEF HandleInv
    <3> QED
      BY <3>1, <3>2
  <2> QED
    BY <2>1, <2>3, <2>4 DEF HandleInv, OrderInv
<1>2. ASSUME NEW c \in Controllers, ControllerStep(c)
      PROVE  HandleInv' /\ OrderInv'
  <2>1. CASE \E t \in Threads : RegisterThread(c, t)
    BY <2>1, RegisterKeepsOrder DEF ControlInv
  <2>2. CASE \A t \in Threads : ~RegisterThread(c, t)
    <3>1. /\ UNCHANGED <<handle, handleCounter, op>>
          /\ \A t \in registered' \cup built' :
               t \in registered \cup built \/ (at[c] = "derive" /\ t = cur[c])
          /\ \A d \in Controllers : d # c =>
               at'[d] = at[d] /\ cur'[d] = cur[d] /\ todo'[d] = todo[d]
          /\ at'[c] \in Visiting =>
               \/ at[c] \in Visiting /\ cur'[c] = cur[c]
               \/ cur'[c] \in todo[c] /\ op[c] # "initialize"
               \/ cur'[c] \in built
          /\ \A t \in Threads :
               IF op[c] = "initialize"
               THEN t \notin todo'[c] => t \notin todo[c] \/ (at[c] \in Visiting /\ t = cur[c])
               ELSE t \in todo'[c] => t \in todo[c] \cup registered
      BY <1>2, <2>2, ControllerKeepsHandles
    <3>2. \A t \in registered' \cup built' : handle'[t] # 0
      BY <3>1 DEF HandleInv, Visiting
    <3>3. \A d \in Controllers : at'[d] \in Visiting => handle'[cur'[d]] # 0
      BY <1>0, <3>1 DEF HandleInv
    <3>4. \A d \in Controllers, u \in Threads :
            IF op'[d] = "initialize" THEN u \notin todo'[d] => handle'[u] # 0
                                     ELSE u \in todo'[d] => handle'[u] # 0
      BY <3>1 DEF HandleInv
    <3> QED
      BY <3>1, <3>2, <3>3, <3>4 DEF HandleInv, OrderInv
  <2> QED
    BY <2>1, <2>2
<1>3. ASSUME NEW t \in Threads, NEW k \in 1..MaxStarts, WorkerSteps(t, k)
      PROVE  UNCHANGED <<handle, handleCounter, registered, built, at, cur, op, todo>>
  BY <1>3 DEF WorkerSteps, WorkerStep, RunBegin, RunEmpty, RunBase,
              TestStopping, Body, RunEnd, monitor, place
<1>4. CASE UNCHANGED vars
  BY <1>4 DEF vars, monitor, place, HandleInv, OrderInv
<1>5. CASE UNCHANGED <<handle, handleCounter, registered, built, at, cur, op, todo>>
  BY <1>5 DEF HandleInv, OrderInv
<1> QED
  BY <1>1, <1>2, <1>3, <1>4, <1>5 DEF Next

\* However many controllers run InitializeThreads at once, the threads in the
\* map are visited in the order InitializeThreads names them.
THEOREM ThreadsKeepTheirOrder == Spec => []HandlesFollowNames
<1>1. Init => ControlInv
  BY TypeInit, ControlInit DEF ControlInv
<1>2. ControlInv /\ [Next]_vars => ControlInv'
  BY TypeStep, ControlStep DEF ControlInv
<1>3. ControlInv /\ HandleInv /\ OrderInv => HandlesFollowNames
  BY DEF ControlInv, TypeOK, HandleInv, OrderInv, HandlesFollowNames
<1> QED
  BY <1>1, <1>2, <1>3, HandleInit, HandleStep, PTL DEF Spec
-----------------------------------------------------------------------------
(* Stopping.                                                               *)

\* Where m_state reads Stopping, the one who wrote it is still in Thread::Stop.
StoppingInv ==
  \A t \in Threads : state[t] = "Stopping" =>
    \E c \in Controllers : at[c] \in {"wait", "finish"} /\ cur[c] = t

OnlyStopped(t) ==
  \/ state'[t] = "Initialized"
  \/ worker'[t] # worker[t]
  \/ \E c \in Controllers : MarkStopped(c) /\ cur[c] = t

\* A controller that writes m_state: of which thread, from where, and what.
LEMMA ControllerWritesState ==
  ASSUME TypeOK, NEW c \in Controllers, ControllerStep(c),
         NEW t \in Threads, state'[t] # state[t]
  PROVE  \/ at[c] = "each"
         \/ MarkStopping(c) /\ t = cur[c]
         \/ MarkStopped(c) /\ t = cur[c]
         \/ RegisterThread(c, t) /\ handle[t] = 0 /\ state'[t] = "Created"
         \/ state'[t] = "Initialized"
         \/ at[c] = "delete" /\ state'[t] = "Destroyed"
<1>0. state \in [Threads -> States] /\ cur \in [Controllers -> Threads]
  BY DEF TypeOK
<1> USE <1>0 DEF SetState
<1>1. CASE Acquire(c) \/ Release(c)
  BY <1>1 DEF Acquire, Release
<1>2. ASSUME NEW u \in Threads, Start(c, u) \/ Pause(c, u) \/ Resume(c, u) \/ Stop(c, u)
      PROVE  at[c] = "each"
  BY <1>2 DEF Start, Pause, Resume, Stop, Each
<1>3. CASE StopThreadsStep(c)
  BY <1>3 DEF StopThreadsStep, CheckStopped, CheckStopping, MarkStopping,
              AwaitStopped, MarkStopped, LeaveStop
<1>4. ASSUME NEW u \in Threads, RegisterThread(c, u) \/ GetInstance(c, u)
      PROVE  RegisterThread(c, t) /\ handle[t] = 0 /\ state'[t] = "Created"
  <2>1. RegisterThread(c, u)
    BY <1>4 DEF GetInstance
  <2>2. state' = [state EXCEPT ![u] = "Created"] /\ handle[u] = 0
    BY <2>1 DEF RegisterThread
  <2>3. u = t
    BY <2>2
  <2> QED
    BY <2>1, <2>2, <2>3
<1>5. CASE FinishConstructor(c) \/ Prepare(c) \/ Initialize(c) \/ ReturnInitialize(c)
  BY <1>5 DEF FinishConstructor, Prepare, Initialize, ReturnInitialize
<1>6. ASSUME NEW u \in Threads, Destroy(c, u) PROVE FALSE
  BY <1>6 DEF Destroy
<1>7. CASE Delete(c) \/ UnregisterThread(c) \/ Leave(c)
  BY <1>7 DEF Delete, UnregisterThread, Leave, ExitStep
<1> QED
  BY <1>1, <1>2, <1>3, <1>4, <1>5, <1>6, <1>7 DEF ControllerStep

\* A worker that writes m_state moves on.
LEMMA WorkerWritesState ==
  ASSUME TypeOK, NEW t \in Threads, NEW k \in 1..MaxStarts, WorkerSteps(t, k)
  PROVE  /\ UNCHANGED <<at, cur>>
         /\ worker'[t] # worker[t]
         /\ \A u \in Threads : state'[u] # state[u] => u = t /\ state'[u] # "Stopping"
<1>1. PICK to \in Stages :
        /\ worker[t][k] # to
        /\ worker' = [worker EXCEPT ![t][k] = to]
        /\ UNCHANGED <<at, cur>>
  BY DEF WorkerSteps, WorkerStep, RunBegin, RunEmpty, RunBase, TestStopping,
         Body, RunEnd, Stages, InLoop, place
<1>2. worker'[t] # worker[t]
  BY <1>1 DEF TypeOK
<1>3. \A u \in Threads : state'[u] # state[u] => u = t /\ state'[u] # "Stopping"
  BY DEF TypeOK, WorkerSteps, RunBegin, RunEmpty, RunBase, TestStopping, Body,
         RunEnd, SetState
<1> QED
  BY <1>1, <1>2, <1>3

\* What steps of controllers keep: the stopper stays until the thread is Stopped.
LEMMA StopperStays ==
  ASSUME ControlInv, NEW c \in Controllers, ControllerStep(c),
         NEW t \in Threads, state[t] = "Stopping", state'[t] = "Stopping",
         NEW d \in Controllers, at[d] \in {"wait", "finish"}, cur[d] = t
  PROVE  at'[d] = at[d] /\ cur'[d] = t
<1>0. /\ at \in [Controllers -> Places] /\ op \in [Controllers -> Ops]
      /\ cur \in [Controllers -> Threads] /\ state \in [Threads -> States]
  BY DEF ControlInv, TypeOK
<1>1. CASE c # d
  <2>1. at'[d] = at[d]
    BY <1>1, ControllerMoves DEF ControlInv
  <2>2. cur'[d] = cur[d]
    <3>1. CASE MarkStopped(c)
      BY <3>1 DEF MarkStopped, StopStep
    <3>2. CASE \E u \in Threads : Start(c, u)
      BY <3>2 DEF Start
    <3>3. CASE ~MarkStopped(c) /\ \A u \in Threads : ~Start(c, u)
      BY <1>1, <3>3, ControllerWrites DEF ControlInv
    <3> QED
      BY <3>1, <3>2, <3>3
  <2> QED
    BY <2>1, <2>2
<1>2. CASE c = d
  <2>1. AwaitStopped(c) \/ MarkStopped(c)
    BY <1>2 DEF ControllerStep, Acquire, Release, Start, Pause, Resume, Stop,
                Each, StopThreadsStep, StopStep, CheckStopped, CheckStopping,
                MarkStopping, LeaveStop, RegisterThread, GetInstance,
                InitializeStep, FinishConstructor, Prepare, Initialize,
                ReturnInitialize, Destroy, Delete, UnregisterThread, Leave, ExitStep
  <2>2. FALSE
    BY <1>0, <1>2, <2>1 DEF AwaitStopped, MarkStopped, SetState
  <2> QED
    BY <2>2
<1> QED
  BY <1>1, <1>2

LEMMA StoppingStep ==
  ASSUME ControlInv, HandleInv, StoppingInv, [Next]_vars
  PROVE  /\ StoppingInv'
         /\ \A t \in Threads :
              state[t] = "Stopping" /\ state'[t] # "Stopping" => OnlyStopped(t)
<1>0. /\ at \in [Controllers -> Places] /\ op \in [Controllers -> Ops]
      /\ cur \in [Controllers -> Threads] /\ state \in [Threads -> States]
  BY DEF ControlInv, TypeOK
<1>1. ASSUME NEW c \in Controllers, NEW o \in Ops, Call(c, o)
      PROVE  state' = state /\ StoppingInv'
  <2>1. UNCHANGED <<state, cur>> /\ at' = [at EXCEPT ![c] = Entry(o)] /\ at[c] = "idle"
    BY <1>1 DEF Call, Goto, Idle
  <2> QED
    BY <1>0, <2>1 DEF StoppingInv
<1>2. ASSUME NEW c \in Controllers, ControllerStep(c)
      PROVE  StoppingInv'
  <2> SUFFICES ASSUME NEW t \in Threads, state'[t] = "Stopping"
               PROVE  \E d \in Controllers : at'[d] \in {"wait", "finish"} /\ cur'[d] = t
    BY DEF StoppingInv
  <2>1. CASE state[t] = "Stopping"
    <3>1. PICK d \in Controllers : at[d] \in {"wait", "finish"} /\ cur[d] = t
      BY <2>1 DEF StoppingInv
    <3>2. at'[d] = at[d] /\ cur'[d] = t
      BY <1>2, <2>1, <3>1, StopperStays
    <3> QED
      BY <3>1, <3>2
  <2>2. CASE state[t] # "Stopping"
    <3>1. MarkStopping(c) /\ t = cur[c]
      <4>1. \/ at[c] = "each"
            \/ MarkStopping(c) /\ t = cur[c]
            \/ MarkStopped(c) /\ t = cur[c]
            \/ at[c] = "delete" /\ state'[t] = "Destroyed"
        BY <1>2, <2>2, ControllerWritesState DEF ControlInv
      <4>2. ~MarkStopped(c)
        BY <1>0, <2>2 DEF MarkStopped, SetState
      <4>3. at[c] # "each"
        <5> SUFFICES ASSUME at[c] = "each" PROVE FALSE
          OBVIOUS
        <5>1. /\ state' = state \/ \E u \in Threads, s \in {"Paused", "Running"} :
                                      state' = [state EXCEPT ![u] = s]
          BY <1>2 DEF ControllerStep, Acquire, Release, Start, Pause, Resume, Stop,
                      StopThreadsStep, StopStep, CheckStopped, CheckStopping,
                      MarkStopping, AwaitStopped, MarkStopped, LeaveStop,
                      RegisterThread, GetInstance, InitializeStep,
                      FinishConstructor, Prepare, Initialize, ReturnInitialize,
                      Destroy, Delete, UnregisterThread, Leave, ExitStep, SetState
        <5> QED
          BY <1>0, <2>2, <5>1
      <4> QED
        BY <4>1, <4>2, <4>3
    <3>2. at'[c] \in {"wait", "finish"} /\ cur' = cur
      BY <1>0, <3>1 DEF MarkStopping, StopStep, Goto
    <3> QED
      BY <3>1, <3>2
  <2> QED
    BY <2>1, <2>2
<1>3. ASSUME NEW c \in Controllers, ControllerStep(c), NEW t \in Threads,
             state[t] = "Stopping", state'[t] # "Stopping"
      PROVE  OnlyStopped(t)
  <2>1. PICK d \in Controllers : at[d] \in {"wait", "finish"} /\ cur[d] = t
    BY <1>3 DEF StoppingInv
  <2>2. \/ at[c] = "each"
        \/ MarkStopping(c) /\ t = cur[c]
        \/ MarkStopped(c) /\ t = cur[c]
        \/ RegisterThread(c, t) /\ handle[t] = 0 /\ state'[t] = "Created"
        \/ state'[t] = "Initialized"
        \/ at[c] = "delete" /\ state'[t] = "Destroyed"
    BY <1>3, ControllerWritesState DEF ControlInv
  <2>3. at[c] # "each"
    BY <2>1, StopExcludes DEF StopSteps
  <2>4. ~MarkStopping(c)
    BY <1>0, <1>3, <2>1, StopExcludes DEF MarkStopping, StopStep, StopSteps
  <2>5. handle[t] # 0
    BY <2>1 DEF HandleInv, Visiting, StopSteps
  <2>6. at[c] # "delete"
    <3> SUFFICES ASSUME at[c] = "delete" PROVE FALSE
      OBVIOUS
    <3>1. op[c] = "exit"
      BY DEF ControlInv, PlaceInv, Legal
    <3> QED
      BY <2>1, <3>1 DEF ControlInv, ExitInv, Idle
  <2> QED
    BY <2>2, <2>3, <2>4, <2>5, <2>6 DEF OnlyStopped
<1>4. ASSUME NEW t \in Threads, NEW k \in 1..MaxStarts, WorkerSteps(t, k)
      PROVE  /\ StoppingInv'
             /\ \A u \in Threads :
                  state[u] = "Stopping" /\ state'[u] # "Stopping" => OnlyStopped(u)
  BY <1>4, WorkerWritesState DEF ControlInv, StoppingInv, OnlyStopped
<1>5. CASE UNCHANGED vars
  BY <1>5 DEF vars, place, StoppingInv
<1> QED
  BY <1>1, <1>2, <1>3, <1>4, <1>5 DEF Next

\* No pause, resume or exit overwrites the Stopping a worker has still to see.
THEOREM StoppingIsNotOverwritten == Spec => StopNotOverwritten
<1>1. Init => ControlInv /\ HandleInv /\ OrderInv /\ StoppingInv
  BY TypeInit, ControlInit, HandleInit DEF ControlInv, Init, StoppingInv
<1>2. ControlInv /\ [Next]_vars => ControlInv'
  BY TypeStep, ControlStep DEF ControlInv
<1>3. ControlInv /\ HandleInv /\ StoppingInv /\ [Next]_vars => StoppingInv'
  BY StoppingStep
<1> DEFINE Kept == \A t \in Threads :
         state[t] = "Stopping" /\ state'[t] # "Stopping" =>
           \/ state'[t] = "Initialized"
           \/ worker'[t] # worker[t]
           \/ \E c \in Controllers : MarkStopped(c) /\ cur[c] = t
<1>4. ControlInv /\ HandleInv /\ StoppingInv /\ [Next]_vars => [Kept]_vars
  BY StoppingStep DEF OnlyStopped
<1> QED
  BY <1>1, <1>2, <1>3, <1>4, HandleStep, PTL DEF Spec, StopNotOverwritten
-----------------------------------------------------------------------------
(* Clients in order. One controller at a time is in a call; the phase says *)
(* which calls came before it, and with where it is in its loop over the   *)
(* threads what m_state and the worker of each looping thread may be.      *)

\* A worker of t that has still to end.
Live(t, k) == worker[t][k] \in {"spawned"} \cup InLoop

Resting(t) == \A k \in 1..MaxStarts : ~Live(t, k)

\* In service: nobody has asked the worker to stop.
Active(t) ==
  /\ starts[t] \in 1..MaxStarts
  /\ worker[t][starts[t]] \in {"spawned", "test", "body"}
  /\ state[t] \in {"Initialized", "Running", "Paused"}

\* Thread::Stop waits for the worker. If that had not begun to run, RunBegin
\* overwrites Stopping.
Heard(t) ==
  /\ starts[t] \in 1..MaxStarts
  /\ LET w == worker[t][starts[t]] IN
     \/ state[t] = "Stopping" /\ w \in InLoop
     \/ state[t] = "Stopping" /\ w = "spawned" /\ Client = "ordered"
     \/ state[t] = "Running" /\ w \in {"test", "body"} /\ Client = "ordered"
     \/ state[t] = "Stopped" /\ w = "ended"

\* StartThreads has started t, StopThreads waits for it or is done with it.
Started(t) ==
  \E c \in Controllers : op[c] = "start" /\ at[c] = "each" /\ t \notin todo[c]
Marked(t) ==
  \E c \in Controllers : op[c] = "stop" /\ at[c] = "wait" /\ cur[c] = t
Done(t) ==
  \E c \in Controllers :
    /\ op[c] = "stop" /\ at[c] \in Critical /\ t \notin todo[c]
    /\ ~(cur[c] = t /\ at[c] \in {"check", "recheck", "mark", "wait"})

Life(t) ==
  IF phase = "started"
  THEN IF Marked(t) THEN Heard(t)
       ELSE IF Done(t) THEN Resting(t) /\ state[t] = "Stopped"
       ELSE Active(t)
  ELSE IF Started(t) THEN Active(t)
  ELSE Resting(t) /\ (phase = "initialized" /\ ~Exiting => state[t] = "Initialized")

LifeInv == \A t \in Looping : Life(t)

OneWorker == \A t \in Looping, k \in 1..MaxStarts : Live(t, k) => k = starts[t]

Alone == \A c, d \in Controllers : ~Idle(c) /\ ~Idle(d) => c = d

InTurn == \A c \in Controllers : ~Idle(c) => InOrder(op[c])

\* What InitializeThreads has done so far, and what it leaves.
BuiltBy(c) ==
  /\ Threads \ todo[c] \subseteq built
  /\ at[c] = "derive" => cur[c] \in registered
  /\ at[c] \in {"prepare", "initialize"} => cur[c] \in built
  /\ \A t \in Looping \ todo[c] : state[t] = "Initialized"

BuiltInv ==
  /\ phase # "fresh" /\ ~Exiting => registered = Threads /\ built = Threads
  /\ ~Exiting => built \subseteq registered
  /\ \A c \in Controllers : ~Idle(c) /\ op[c] = "initialize" => BuiltBy(c)

\* StopThreads visits a thread once.
VisitInv ==
  \A c \in Controllers :
    op[c] = "stop" /\ at[c] \in StopSteps \cup {"leave"} => cur[c] \notin todo[c]

\* A client that awaits its workers has none left to begin when it stops them.
BegunInv ==
  Client = "awaiting" /\ (\E c \in Controllers : op[c] = "stop" /\ ~Idle(c)) =>
    \A t \in Looping, k \in 1..MaxStarts : worker[t][k] # "spawned"

ClientInv == ControlInv /\ Alone /\ InTurn
OrderedInv == ClientInv /\ BuiltInv /\ VisitInv /\ BegunInv /\ OneWorker /\ LifeInv

\* Where a call ends, and what it may change on the way.
LEMMA CallEnds ==
  ASSUME ControlInv, NEW c \in Controllers, ControllerStep(c)
  PROVE  /\ phase' = phase \/ at'[c] = "idle"
         /\ at'[c] = "idle" => op[c] # "exit"
<1>0. at \in [Controllers -> Places] /\ op \in [Controllers -> Ops] /\ Legal(at[c], op[c])
  BY DEF ControlInv, TypeOK, PlaceInv
<1>1. CASE Release(c) \/ ReturnInitialize(c)
  BY <1>0, <1>1 DEF Release, ReturnInitialize, Return, Goto, Legal, Locked
<1>2. CASE Acquire(c)
  BY <1>0, <1>2 DEF Acquire, Goto, client
<1>3. ASSUME NEW t \in Threads, Start(c, t) \/ Pause(c, t) \/ Resume(c, t) \/ Stop(c, t)
      PROVE  phase' = phase /\ at'[c] # "idle"
  BY <1>0, <1>3 DEF Start, Pause, Resume, Stop, Each, Goto, client
<1>4. CASE StopThreadsStep(c)
  BY <1>0, <1>4 DEF StopThreadsStep, StopStep, CheckStopped, CheckStopping, MarkStopping,
                    AwaitStopped, MarkStopped, LeaveStop, AfterStop, Goto, client
<1>5. ASSUME NEW t \in Threads, RegisterThread(c, t) \/ GetInstance(c, t)
      PROVE  phase' = phase /\ at'[c] # "idle"
  BY <1>0, <1>5 DEF RegisterThread, GetInstance, InitializeStep, Goto
<1>6. CASE FinishConstructor(c) \/ Prepare(c) \/ Initialize(c)
  BY <1>0, <1>6 DEF FinishConstructor, Prepare, Initialize, InitializeStep, Goto
<1>7. ASSUME NEW t \in Threads, Destroy(c, t)
      PROVE  phase' = phase /\ at'[c] # "idle"
  BY <1>0, <1>7 DEF Destroy, ExitStep, Goto, client
<1>8. CASE Delete(c) \/ UnregisterThread(c) \/ Leave(c)
  BY <1>0, <1>8 DEF Delete, UnregisterThread, Leave, ExitStep, Goto, client
<1> QED
  BY <1>1, <1>2, <1>3, <1>4, <1>5, <1>6, <1>7, <1>8 DEF ControllerStep

\* A worker leaves the controllers and the phase alone.
LEMMA WorkerLeaves ==
  ASSUME NEW t \in Threads, NEW k \in 1..MaxStarts, WorkerSteps(t, k)
  PROVE  UNCHANGED <<op, at, todo, cur, phase, starts, registered, built, monitor>>
BY DEF WorkerSteps, WorkerStep, RunBegin, RunEmpty, RunBase, TestStopping, Body, RunEnd,
       monitor, place, client

LEMMA ClientInvStep ==
  ASSUME Client # "any", ClientInv, [Next]_vars
  PROVE  ClientInv'
<1>0. at \in [Controllers -> Places] /\ op \in [Controllers -> Ops]
  BY DEF ClientInv, ControlInv, TypeOK
<1>1. ControlInv'
  BY TypeStep, ControlStep DEF ClientInv, ControlInv
<1>2. ASSUME NEW c \in Controllers, NEW o \in Ops, Call(c, o)
      PROVE  Alone' /\ InTurn'
  <2>1. /\ at' = [at EXCEPT ![c] = Entry(o)] /\ op' = [op EXCEPT ![c] = o]
        /\ phase' = phase /\ InOrder(o) /\ \A d \in Controllers : Idle(d)
    BY <1>2 DEF Call, MayCall, Goto
  <2> QED
    BY <1>0, <2>1 DEF Alone, InTurn, Idle, InOrder
<1>3. ASSUME NEW c \in Controllers, ControllerStep(c)
      PROVE  Alone' /\ InTurn'
  <2>1. /\ op' = op /\ at[c] # "idle" /\ \A d \in Controllers : d # c => at'[d] = at[d]
        /\ phase' = phase \/ at'[c] = "idle"
    BY <1>3, ControllerMoves, CallEnds DEF ClientInv, ControlInv
  <2> QED
    BY <2>1 DEF ClientInv, Alone, InTurn, Idle, InOrder
<1>4. ASSUME UNCHANGED <<op, at, phase>> PROVE Alone' /\ InTurn'
  BY <1>4 DEF ClientInv, Alone, InTurn, Idle, InOrder
<1>5. ASSUME NEW t \in Threads, NEW k \in 1..MaxStarts, WorkerSteps(t, k)
      PROVE  Alone' /\ InTurn'
  BY <1>4, <1>5, WorkerLeaves
<1>6. CASE UNCHANGED vars
  BY <1>1, <1>4, <1>6 DEF ClientInv, vars, place, client
<1> QED
  BY <1>1, <1>2, <1>3, <1>5, <1>6 DEF Next, ClientInv

\* The controller in a call is the only one: what the other places say is
\* said by where this one is.
LEMMA Sole ==
  ASSUME NEW c \in Controllers, \A d \in Controllers : d # c => at[d] = "idle"
  PROVE  \A t \in Threads :
           /\ Started(t) <=> op[c] = "start" /\ at[c] = "each" /\ t \notin todo[c]
           /\ Marked(t) <=> op[c] = "stop" /\ at[c] = "wait" /\ cur[c] = t
           /\ Done(t) <=> /\ op[c] = "stop" /\ at[c] \in Critical /\ t \notin todo[c]
                          /\ ~(cur[c] = t /\ at[c] \in {"check", "recheck", "mark", "wait"})
BY DEF Started, Marked, Done, Critical, StopSteps

LEMMA SoleNext ==
  ASSUME NEW c \in Controllers, \A d \in Controllers : d # c => at'[d] = "idle"
  PROVE  \A t \in Threads :
           /\ Started(t)' <=> op'[c] = "start" /\ at'[c] = "each" /\ t \notin todo'[c]
           /\ Marked(t)' <=> op'[c] = "stop" /\ at'[c] = "wait" /\ cur'[c] = t
           /\ Done(t)' <=> /\ op'[c] = "stop" /\ at'[c] \in Critical /\ t \notin todo'[c]
                           /\ ~(cur'[c] = t /\ at'[c] \in {"check", "recheck", "mark", "wait"})
BY DEF Started, Marked, Done, Critical, StopSteps

\* A step that leaves a thread and where its stop is alone.
LEMMA LifeKept ==
  ASSUME NEW t \in Threads, Life(t), UNCHANGED <<state[t], worker[t], starts[t], phase>>,
         Started(t)' <=> Started(t), Marked(t)' <=> Marked(t), Done(t)' <=> Done(t),
         Exiting => Exiting'
  PROVE  Life(t)'
BY DEF Life, Heard, Active, Resting, Live

\* Whose turn it is: a step of a controller, seen from the calls in order.
LEMMA Turn ==
  ASSUME ClientInv, NEW c \in Controllers, ControllerStep(c)
  PROVE  /\ op' = op /\ at[c] # "idle" /\ InOrder(op[c])
         /\ \A d \in Controllers : d # c => at[d] = "idle" /\ at'[d] = "idle"
         /\ phase' = phase \/ at'[c] = "idle"
         /\ Exiting <=> op[c] = "exit"
         /\ Exiting' <=> op[c] = "exit"
         /\ Legal(at[c], op[c])
<1>1. /\ op' = op /\ at[c] # "idle" /\ \A d \in Controllers : d # c => at'[d] = at[d]
      /\ phase' = phase \/ at'[c] = "idle"
      /\ at'[c] = "idle" => op[c] # "exit"
  BY ControllerMoves, CallEnds DEF ClientInv, ControlInv
<1>2. \A d \in Controllers : d # c => at[d] = "idle"
  BY <1>1 DEF ClientInv, Alone, Idle
<1>3. InOrder(op[c]) /\ Legal(at[c], op[c])
  BY <1>1 DEF ClientInv, ControlInv, PlaceInv, InTurn, Idle
<1>4. op[c] = "exit" => c = Main
  BY <1>1 DEF ClientInv, ControlInv, ExitInv, Idle
<1> QED
  BY <1>1, <1>2, <1>3, <1>4, ControllersAssumption DEF Exiting, Idle

\* A worker of a looping thread that takes a step is in service or stopping.
LEMMA LifeOfWorker ==
  ASSUME Client # "any", OrderedInv,
         NEW t \in Threads, NEW k \in 1..MaxStarts, WorkerSteps(t, k)
  PROVE  LifeInv'
<1>0. /\ MaxStarts \in Nat /\ starts \in [Threads -> 0..MaxStarts]
      /\ state \in [Threads -> States]
      /\ worker \in [Threads -> [1..MaxStarts -> Stages]]
      /\ Looping \subseteq Threads
  BY ClientAssumption, ThreadsAssumption
     DEF MaxStarts, Ops, OrderedInv, ClientInv, ControlInv, TypeOK
<1>1. UNCHANGED <<op, at, todo, cur, phase, starts, registered, built>>
  BY WorkerLeaves
<1>2. \A u \in Threads : u # t => worker'[u] = worker[u] /\ state'[u] = state[u]
  BY WorkerMoves DEF OrderedInv, ClientInv, ControlInv
<1>3. \A u \in Threads : /\ Started(u)' <=> Started(u)
                         /\ Marked(u)' <=> Marked(u)
                         /\ Done(u)' <=> Done(u)
  BY <1>1 DEF Started, Marked, Done
<1>4. Exiting' <=> Exiting
  BY <1>1 DEF Exiting, Idle
<1>5. ASSUME NEW u \in Looping, u # t PROVE Life(u)'
  <2>1. u \in Threads /\ Life(u)
    BY <1>0 DEF OrderedInv, LifeInv
  <2> QED
    BY <1>1, <1>2, <1>3, <1>4, <1>5, <2>1, LifeKept
<1>6. ASSUME t \in Looping PROVE Life(t)'
  <2>1. Life(t)
    BY <1>6 DEF OrderedInv, LifeInv
  <2>2. Live(t, k)
    BY DEF WorkerSteps, WorkerStep, RunBegin, RunEmpty, RunBase, TestStopping, Body,
           RunEnd, Live, InLoop
  <2>3. k = starts[t]
    BY <1>6, <2>2 DEF OrderedInv, OneWorker
  <2>4. ~Resting(t)
    BY <2>2 DEF Resting
  <2>5. ~RunEmpty(t, k)
    BY <1>6 DEF RunEmpty, Empty
  <2>6. ~RunBase(t, k)
    <3>1. phase = "started" \/ Started(t)
      BY <2>1, <2>4 DEF Life
    <3>2. ~Exiting /\ phase # "fresh"
      BY <3>1, ControllersAssumption
         DEF OrderedInv, ClientInv, Alone, InTurn, InOrder, Exiting, Started, Idle
    <3>3. built = Threads
      BY <3>2 DEF OrderedInv, BuiltInv
    <3> QED
      BY <3>3 DEF RunBase
  <2>7. \/ /\ worker[t][k] = "spawned" /\ worker'[t][k] = "test"
           /\ state'[t] = "Running"
        \/ /\ worker[t][k] = "test" /\ state'[t] = state[t]
           /\ worker'[t][k] = IF state[t] = "Stopping" THEN "ending" ELSE "body"
        \/ /\ worker[t][k] = "body" /\ worker'[t][k] = "test" /\ state'[t] = state[t]
        \/ /\ worker[t][k] = "ending" /\ worker'[t][k] = "ended"
           /\ state'[t] = "Stopped"
    BY <1>0, <2>5, <2>6 DEF WorkerSteps, WorkerStep, RunBegin, TestStopping, Body, RunEnd,
                            SetState
  <2>8. Active(t) => Active(t)'
    BY <1>1, <2>3, <2>7 DEF Active
  <2>9. Heard(t) => Heard(t)'
    BY <1>1, <2>3, <2>7 DEF Heard, InLoop
  <2> QED
    BY <1>1, <1>3, <1>4, <2>1, <2>4, <2>8, <2>9 DEF Life
<1> QED
  BY <1>5, <1>6 DEF LifeInv

\* A step of a controller that leaves the workers alone and does not move the
\* one controller's account of t, nor its state.
LEMMA LifeAside ==
  ASSUME ClientInv, NEW c \in Controllers, ControllerStep(c), phase' = phase,
         NEW t \in Threads, Life(t),
         UNCHANGED <<state[t], worker[t], starts[t]>>,
         op[c] = "start" =>
           (at'[c] = "each" /\ t \notin todo'[c] <=> at[c] = "each" /\ t \notin todo[c]),
         op[c] = "stop" =>
           /\ (at'[c] = "wait" /\ cur'[c] = t) <=> (at[c] = "wait" /\ cur[c] = t)
           /\ (/\ at'[c] \in Critical /\ t \notin todo'[c]
               /\ ~(cur'[c] = t /\ at'[c] \in {"check", "recheck", "mark", "wait"}))
              <=> (/\ at[c] \in Critical /\ t \notin todo[c]
                   /\ ~(cur[c] = t /\ at[c] \in {"check", "recheck", "mark", "wait"}))
  PROVE  Life(t)'
<1>1. /\ op' = op
      /\ \A d \in Controllers : d # c => at[d] = "idle" /\ at'[d] = "idle"
      /\ Exiting' <=> Exiting
  BY Turn
<1>2. /\ Started(t)' <=> Started(t)
      /\ Marked(t)' <=> Marked(t)
      /\ Done(t)' <=> Done(t)
  BY <1>1, Sole, SoleNext
<1> QED
  BY <1>1, <1>2, LifeKept

\* StartThreads spawns the worker of a thread at rest.
LEMMA LifeOfStart ==
  ASSUME OrderedInv, NEW c \in Controllers, NEW t \in Threads, Start(c, t)
  PROVE  /\ LifeInv'
         /\ t \in Looping => Resting(t)
<1>0. /\ MaxStarts \in Nat /\ starts \in [Threads -> 0..MaxStarts]
      /\ worker \in [Threads -> [1..MaxStarts -> Stages]] /\ Looping \subseteq Threads
      /\ todo \in [Controllers -> SUBSET Threads]
  BY ClientAssumption, ThreadsAssumption
     DEF MaxStarts, Ops, OrderedInv, ClientInv, ControlInv, TypeOK
<1>s. ControllerStep(c)
  BY DEF ControllerStep
<1> DEFINE n == starts[t] + 1
<1>1. /\ at[c] = "each" /\ op[c] = "start" /\ t \in todo[c] /\ n \in 1..MaxStarts
      /\ todo' = [todo EXCEPT ![c] = @ \ {t}] /\ UNCHANGED <<at, op, state, cur, phase>>
      /\ starts' = [starts EXCEPT ![t] = n] /\ worker' = [worker EXCEPT ![t][n] = "spawned"]
  BY <1>0 DEF Start, Each, FirstInMap, client
<1> HIDE DEF n
<1>2. /\ \A d \in Controllers : d # c => at[d] = "idle" /\ at'[d] = "idle"
      /\ phase = "initialized" /\ ~Exiting
  BY <1>s, <1>1, Turn DEF OrderedInv, InOrder
<1>3. ~Started(t) /\ Started(t)' /\ phase' = "initialized"
  BY <1>0, <1>1, <1>2, Sole, SoleNext
<1>4. ASSUME t \in Looping PROVE Resting(t) /\ state[t] = "Initialized"
  BY <1>2, <1>3, <1>4 DEF OrderedInv, LifeInv, Life
<1>5. ASSUME t \in Looping PROVE Life(t)'
  <2>1. /\ starts'[t] = n /\ worker'[t][n] = "spawned" /\ state'[t] = "Initialized"
    BY <1>0, <1>1, <1>4, <1>5
  <2> QED
    BY <1>1, <1>3, <2>1 DEF Life, Active
<1>6. ASSUME NEW u \in Looping, u # t PROVE Life(u)'
  <2>1. u \in Threads /\ Life(u) /\ UNCHANGED <<state[u], worker[u], starts[u]>>
    BY <1>0, <1>1, <1>6 DEF OrderedInv, LifeInv
  <2>2. u \in todo'[c] <=> u \in todo[c]
    BY <1>0, <1>1, <1>6
  <2> QED
    BY <1>s, <1>1, <2>1, <2>2, LifeAside DEF OrderedInv
<1> QED
  BY <1>4, <1>5, <1>6 DEF LifeInv

\* PauseThreads and ResumeThreads find every worker in service.
LEMMA LifeOfPause ==
  ASSUME OrderedInv, NEW c \in Controllers, NEW t \in Threads,
         Pause(c, t) \/ Resume(c, t)
  PROVE  LifeInv'
<1>0. /\ state \in [Threads -> States] /\ Looping \subseteq Threads
      /\ todo \in [Controllers -> SUBSET Threads]
  BY ThreadsAssumption DEF OrderedInv, ClientInv, ControlInv, TypeOK
<1>s. ControllerStep(c)
  BY DEF ControllerStep
<1>1. /\ at[c] = "each" /\ op[c] \in {"pause", "resume"}
      /\ UNCHANGED <<at, op, worker, starts, cur, phase>>
      /\ \A u \in Threads : u # t => state'[u] = state[u]
      /\ t \in Looping => state'[t] \in {"Paused", "Running"}
  BY <1>0 DEF Pause, Resume, Each, Empty, SetState, client
<1>2. /\ \A d \in Controllers : d # c => at[d] = "idle" /\ at'[d] = "idle"
      /\ phase = "started"
  BY <1>s, <1>1, Turn DEF OrderedInv, InOrder
<1>3. ASSUME t \in Looping PROVE Life(t)'
  <2>1. ~Marked(t) /\ ~Done(t) /\ ~Marked(t)' /\ ~Done(t)'
    BY <1>1, <1>2, Sole, SoleNext
  <2>2. Active(t)
    BY <1>2, <1>3, <2>1 DEF OrderedInv, LifeInv, Life
  <2>3. Active(t)'
    BY <1>1, <1>3, <2>2 DEF Active
  <2> QED
    BY <1>1, <1>2, <2>1, <2>3 DEF Life
<1>4. ASSUME NEW u \in Looping, u # t PROVE Life(u)'
  <2>1. u \in Threads /\ Life(u) /\ UNCHANGED <<state[u], worker[u], starts[u]>>
    BY <1>0, <1>1, <1>4 DEF OrderedInv, LifeInv
  <2> QED
    BY <1>s, <1>1, <2>1, LifeAside DEF OrderedInv
<1> QED
  BY <1>3, <1>4 DEF LifeInv

\* StopThreads turns to the next thread.
LEMMA LifeOfStop ==
  ASSUME OrderedInv, NEW c \in Controllers, NEW t \in Threads, Stop(c, t)
  PROVE  LifeInv'
<1>0. /\ Looping \subseteq Threads /\ todo \in [Controllers -> SUBSET Threads]
      /\ at \in [Controllers -> Places] /\ cur \in [Controllers -> Threads]
  BY ThreadsAssumption DEF OrderedInv, ClientInv, ControlInv, TypeOK
<1>s. ControllerStep(c)
  BY DEF ControllerStep
<1>1. /\ at[c] = "each" /\ op[c] = "stop" /\ t \in todo[c]
      /\ todo' = [todo EXCEPT ![c] = @ \ {t}]
      /\ UNCHANGED <<op, state, worker, starts, phase>>
  BY DEF Stop, Each, FirstInMap, client
<1>2. \/ t \notin Looping /\ UNCHANGED <<at, cur>>
      \/ at'[c] = "check" /\ cur'[c] = t
  BY <1>0 DEF Stop, Empty, Goto, Visit
<1> SUFFICES ASSUME NEW u \in Looping PROVE Life(u)'
  BY DEF LifeInv
<1>3. u \in Threads /\ Life(u)
  BY <1>0 DEF OrderedInv, LifeInv
<1>4. u # t => (u \in todo'[c] <=> u \in todo[c])
  BY <1>0, <1>1
<1>5. at'[c] \in {"each", "check"}
  BY <1>1, <1>2
<1> QED
  BY <1>s, <1>1, <1>2, <1>3, <1>4, <1>5, LifeAside DEF OrderedInv, Critical, StopSteps

\* Thread::Stop takes a worker from service to rest.
LEMMA LifeOfStopThreads ==
  ASSUME Client # "any", OrderedInv, NEW c \in Controllers, StopThreadsStep(c),
         op[c] = "stop"
  PROVE  LifeInv'
<1>0. /\ MaxStarts \in Nat /\ starts \in [Threads -> 0..MaxStarts]
      /\ state \in [Threads -> States] /\ Looping \subseteq Threads
      /\ at \in [Controllers -> Places] /\ cur \in [Controllers -> Threads]
  BY ClientAssumption, ThreadsAssumption
     DEF MaxStarts, Ops, OrderedInv, ClientInv, ControlInv, TypeOK
<1>s. ControllerStep(c)
  BY DEF ControllerStep
<1>t. PICK t \in Threads : cur[c] = t
  BY <1>0
<1>1. /\ UNCHANGED <<op, worker, starts, todo, cur, phase>> /\ cur'[c] = t
      /\ at[c] \in StopSteps \cup {"leave"} /\ at'[c] \in Critical
      /\ \A u \in Threads : u # t => state'[u] = state[u]
  BY <1>0, <1>t DEF StopThreadsStep, StopStep, CheckStopped, CheckStopping, MarkStopping,
              AwaitStopped, MarkStopped, LeaveStop, AfterStop, SetState, Goto, client,
              StopSteps, Critical
<1>2. /\ \A d \in Controllers : d # c => at[d] = "idle" /\ at'[d] = "idle"
      /\ phase = "started"
  BY <1>s, Turn DEF OrderedInv, InOrder
<1>3. t \notin todo[c] /\ at[c] \in Critical
  BY <1>t, <1>1, <1>2 DEF OrderedInv, VisitInv, Critical, StopSteps
<1>4. ASSUME NEW u \in Looping, u # t PROVE Life(u)'
  <2>1. u \in Threads /\ Life(u) /\ UNCHANGED <<state[u], worker[u], starts[u]>>
    BY <1>0, <1>1, <1>4 DEF OrderedInv, LifeInv
  <2>2. cur[c] # u /\ cur'[c] # u
    BY <1>t, <1>1, <1>4
  <2> QED
    BY <1>s, <1>1, <1>3, <2>1, <2>2, LifeAside DEF OrderedInv
<1>5. ASSUME t \in Looping PROVE Life(t)'
  <2>1. Life(t)
    BY <1>5 DEF OrderedInv, LifeInv
  <2>2. /\ Marked(t) <=> at[c] = "wait"
        /\ Done(t) <=> at[c] \in {"finish", "leave", "each"}
    BY <1>t, <1>1, <1>2, <1>3, Sole DEF Critical, StopSteps
  <2>3. /\ Marked(t)' <=> at'[c] = "wait"
        /\ Done(t)' <=> at'[c] \in {"finish", "leave", "each"}
    BY <1>1, <1>2, <1>3, SoleNext DEF Critical, StopSteps
  <2>4. CASE CheckStopped(c) \/ CheckStopping(c)
    <3>1. Active(t) /\ at[c] \in {"check", "recheck"} /\ UNCHANGED state
      BY <1>2, <2>1, <2>2, <2>4 DEF Life, CheckStopped, CheckStopping, StopStep
    <3>2. at'[c] \in {"recheck", "mark"}
      BY <1>0, <1>t, <2>4, <3>1 DEF CheckStopped, CheckStopping, StopStep, Goto, Active
    <3> QED
      BY <1>1, <1>2, <2>3, <3>1, <3>2 DEF Life, Active
  <2>5. CASE MarkStopping(c)
    <3>1. Active(t) /\ at[c] = "mark" /\ state'[t] = "Stopping"
      BY <1>0, <1>t, <1>1, <1>2, <2>1, <2>2, <2>5 DEF Life, MarkStopping, StopStep, SetState
    <3>2. at'[c] = "wait"
      BY <1>0, <1>t, <2>5, <3>1 DEF MarkStopping, StopStep, Goto, Active
    <3>3. worker[t][starts[t]] = "spawned" => Client = "ordered"
      BY <1>1, <1>5, <3>1, ClientAssumption DEF OrderedInv, BegunInv, Idle, Active
    <3>4. Heard(t)'
      BY <1>1, <3>1, <3>3 DEF Active, Heard, InLoop
    <3> QED
      BY <1>1, <1>2, <2>3, <3>2, <3>4 DEF Life
  <2>6. CASE AwaitStopped(c)
    <3>1. /\ Heard(t) /\ state[t] = "Stopped" /\ state'[t] = "Stopped"
          /\ at'[c] = "finish"
      BY <1>0, <1>t, <1>2, <2>1, <2>2, <2>6 DEF Life, AwaitStopped, StopStep, Goto
    <3>2. Resting(t)
      BY <1>5, <3>1 DEF Heard, Resting, Live, InLoop, OrderedInv, OneWorker
    <3> QED
      BY <1>1, <1>2, <2>3, <3>1, <3>2 DEF Life, Resting, Live
  <2>7. CASE MarkStopped(c) \/ LeaveStop(c)
    <3>1. Resting(t) /\ state[t] = "Stopped"
      BY <1>2, <2>1, <2>2, <2>7 DEF Life, MarkStopped, LeaveStop, StopStep
    <3>2. state'[t] = "Stopped" /\ at'[c] \in {"each", "leave"}
      BY <1>0, <1>t, <1>1, <2>7, <3>1 DEF MarkStopped, LeaveStop, StopStep, SetState, Goto,
                                    AfterStop
    <3> QED
      BY <1>1, <1>2, <2>3, <3>1, <3>2 DEF Life, Resting, Live
  <2> QED
    BY <2>4, <2>5, <2>6, <2>7 DEF StopThreadsStep
<1> QED
  BY <1>4, <1>5 DEF LifeInv

\* StartThreads and StopThreads begin with every thread and end with none.
LEMMA LifeOfLock ==
  ASSUME OrderedInv, NEW c \in Controllers, Acquire(c) \/ Release(c)
  PROVE  LifeInv'
<1>0. /\ Looping \subseteq Threads /\ todo \in [Controllers -> SUBSET Threads]
      /\ at \in [Controllers -> Places]
  BY ThreadsAssumption DEF OrderedInv, ClientInv, ControlInv, TypeOK
<1>s. ControllerStep(c)
  BY DEF ControllerStep
<1>1. UNCHANGED <<op, state, worker, starts, cur>>
  BY DEF Acquire, Release
<1>2. /\ \A d \in Controllers : d # c => at[d] = "idle" /\ at'[d] = "idle"
      /\ InOrder(op[c]) /\ op[c] \in Locked
      /\ Exiting' <=> Exiting
  BY <1>s, Turn DEF OrderedInv, Legal, Acquire, Release
<1>e. ~Exiting
  BY <1>s, <1>2, Turn DEF OrderedInv, Locked
<1> SUFFICES ASSUME NEW u \in Looping PROVE Life(u)'
  BY DEF LifeInv
<1>3. u \in Threads /\ Life(u)
  BY <1>0 DEF OrderedInv, LifeInv
<1>4. CASE Acquire(c)
  <2>1. /\ at[c] = "acquire" /\ at'[c] = "each" /\ todo'[c] = registered
        /\ phase' = phase
    BY <1>0, <1>4 DEF Acquire, Goto, client
  <2>2. registered = Threads
    BY <1>2, <1>e DEF InOrder, Locked, OrderedInv, BuiltInv
  <2> QED
    BY <1>s, <1>1, <1>3, <2>1, <2>2, LifeAside DEF OrderedInv, Critical, StopSteps
<1>5. CASE Release(c)
  <2>1. /\ at[c] = "each" /\ at'[c] = "idle" /\ todo[c] = {}
        /\ phase' = IF op[c] = "start" THEN "started"
                    ELSE IF op[c] = "stop" THEN "stopped" ELSE phase
    BY <1>0, <1>2, <1>5 DEF Release, Return, Goto, Locked
  <2>2. /\ Started(u) <=> op[c] = "start"
        /\ ~Marked(u)
        /\ Done(u) <=> op[c] = "stop"
    BY <1>2, <1>3, <2>1, Sole DEF Critical, StopSteps
  <2>3. ~Started(u)' /\ ~Marked(u)' /\ ~Done(u)'
    BY <1>2, <1>3, <2>1, SoleNext DEF Critical, StopSteps
  <2> QED
    BY <1>1, <1>2, <1>3, <2>1, <2>2, <2>3 DEF Life, Locked, InOrder, Active, Resting, Live
<1> QED
  BY <1>4, <1>5

\* Neither InitializeThreads nor the exit meets a worker.
LEMMA LifeOfRest ==
  ASSUME OrderedInv, NEW c \in Controllers, ControllerStep(c),
         op[c] \in {"initialize", "exit"}
  PROVE  /\ LifeInv'
         /\ UNCHANGED <<worker, starts>>
         /\ \A t \in Looping : Resting(t)
<1>1. /\ op' = op /\ InOrder(op[c]) /\ Legal(at[c], op[c])
      /\ \A d \in Controllers : d # c => at[d] = "idle" /\ at'[d] = "idle"
      /\ phase' = phase \/ at'[c] = "idle"
      /\ Exiting' <=> op[c] = "exit"
  BY Turn DEF OrderedInv
<1>2. at[c] # "each"
  BY <1>1 DEF Legal, Locked
<1>3. UNCHANGED <<worker, starts>>
  <2>1. \A t \in Threads : ~Start(c, t)
    BY <1>2 DEF Start, Each
  <2>2. CASE MarkStopped(c)
    BY <2>2 DEF MarkStopped, StopStep
  <2>3. CASE ~MarkStopped(c)
    BY <2>1, <2>3, ControllerWrites DEF OrderedInv, ClientInv, ControlInv
  <2> QED
    BY <2>2, <2>3
<1>4. Looping \subseteq Threads
  BY ThreadsAssumption
<1>5. ASSUME NEW t \in Looping PROVE Resting(t)
  <2>1. ~Started(t) /\ phase # "started"
    BY <1>1, <1>4, Sole DEF InOrder
  <2> QED
    BY <2>1 DEF OrderedInv, LifeInv, Life
<1>6. ASSUME NEW t \in Looping PROVE Life(t)'
  <2>1. ~Started(t)' /\ Resting(t)'
    BY <1>1, <1>3, <1>4, <1>5, SoleNext DEF Resting, Live
  <2>2. phase' = "initialized" => op[c] = "exit" \/ ReturnInitialize(c)
    <3>1. phase # "initialized" \/ op[c] = "exit"
      BY <1>1 DEF InOrder
    <3>2. phase' # phase => Release(c) \/ ReturnInitialize(c)
      BY DEF ControllerStep, Acquire, Start, Pause, Resume, Stop, StopThreadsStep, StopStep,
             CheckStopped, CheckStopping, MarkStopping, AwaitStopped, MarkStopped, LeaveStop,
             RegisterThread, GetInstance, FinishConstructor, Prepare, Initialize,
             Destroy, Delete, UnregisterThread, Leave, ExitStep, client
    <3>3. ~Release(c)
      BY <1>2 DEF Release
    <3> QED
      BY <3>1, <3>2, <3>3
  <2>3. phase' # "started"
    <3>1. CASE op[c] = "exit"
      BY <3>1, <1>1, CallEnds DEF OrderedInv, ClientInv, InOrder
    <3>2. CASE op[c] = "initialize"
      BY <3>2, <1>1, <1>2
         DEF InOrder, ControllerStep, Release, ReturnInitialize, Return, Acquire,
             Start, Pause, Resume, Stop, StopThreadsStep, StopStep,
             CheckStopped, CheckStopping, MarkStopping, AwaitStopped, MarkStopped, LeaveStop,
             RegisterThread, GetInstance, FinishConstructor, Prepare, Initialize,
             Destroy, Delete, UnregisterThread, Leave, ExitStep, client
    <3> QED
      BY <3>1, <3>2
  <2>4. ReturnInitialize(c) => state'[t] = "Initialized"
    BY <1>1, <1>4 DEF ReturnInitialize, OrderedInv, BuiltInv, BuiltBy, Idle, Legal
  <2>5. phase' = "initialized" /\ ~Exiting' => state'[t] = "Initialized"
    BY <1>1, <2>2, <2>4
  <2> QED
    BY <2>1, <2>3, <2>5 DEF Life
<1> QED
  BY <1>3, <1>5, <1>6 DEF LifeInv

\* Which of a controller's steps it is, by what it executes.
LEMMA StepOf ==
  ASSUME ClientInv, NEW c \in Controllers, ControllerStep(c)
  PROVE  \/ op[c] \in {"initialize", "exit"}
         \/ Acquire(c) \/ Release(c)
         \/ \E t \in Threads : Start(c, t) \/ Pause(c, t) \/ Resume(c, t) \/ Stop(c, t)
         \/ op[c] = "stop" /\ StopThreadsStep(c)
<1>1. Legal(at[c], op[c])
  BY Turn
<1>2. CASE StopThreadsStep(c)
  BY <1>1, <1>2 DEF Legal, StopSteps, StopThreadsStep, StopStep, CheckStopped, CheckStopping,
                    MarkStopping, AwaitStopped, MarkStopped, LeaveStop
<1>3. ASSUME NEW t \in Threads, RegisterThread(c, t) \/ GetInstance(c, t)
      PROVE  op[c] = "initialize"
  BY <1>1, <1>3 DEF Legal, RegisterThread, GetInstance, InitializeStep
<1>4. CASE FinishConstructor(c) \/ Prepare(c) \/ Initialize(c) \/ ReturnInitialize(c)
  BY <1>1, <1>4 DEF Legal, FinishConstructor, Prepare, Initialize, ReturnInitialize,
                    InitializeStep
<1>5. ASSUME NEW t \in Threads, Destroy(c, t) PROVE op[c] = "exit"
  BY <1>1, <1>5 DEF Legal, Destroy, ExitStep
<1>6. CASE Delete(c) \/ UnregisterThread(c) \/ Leave(c)
  BY <1>1, <1>6 DEF Legal, Delete, UnregisterThread, Leave, ExitStep
<1> QED
  BY <1>2, <1>3, <1>4, <1>5, <1>6 DEF ControllerStep

\* But for Start, no step of a controller touches a worker.
LEMMA WorkersKept ==
  ASSUME ClientInv, NEW c \in Controllers, ControllerStep(c),
         \A t \in Threads : ~Start(c, t)
  PROVE  UNCHANGED <<worker, starts>>
<1>1. CASE MarkStopped(c)
  BY <1>1 DEF MarkStopped, StopStep
<1>2. CASE ~MarkStopped(c)
  BY <1>2, ControllerWrites DEF ClientInv, ControlInv
<1> QED
  BY <1>1, <1>2

\* A call begins between calls.
LEMMA CallAlone ==
  ASSUME Client # "any", ClientInv, NEW c \in Controllers, NEW o \in Ops, Call(c, o)
  PROVE  /\ InOrder(o) /\ ~Exiting
         /\ UNCHANGED <<registered, built, state, starts, worker, cur, phase>>
         /\ op'[c] = o /\ at'[c] = Entry(o) /\ at'[c] # "idle"
         /\ o = "initialize" => todo'[c] = Threads
         /\ \A d \in Controllers : at[d] = "idle" /\ (d # c => at'[d] = "idle")
<1>1. /\ at \in [Controllers -> Places] /\ op \in [Controllers -> Ops]
      /\ todo \in [Controllers -> SUBSET Threads]
  BY DEF ClientInv, ControlInv, TypeOK
<1> QED
  BY <1>1 DEF Call, MayCall, Idle, Goto, Entry, monitor

LEMMA LifeStep ==
  ASSUME Client # "any", OrderedInv, [Next]_vars
  PROVE  LifeInv'
<1>0. Looping \subseteq Threads
  BY ThreadsAssumption
<1>1. ASSUME NEW c \in Controllers, NEW o \in Ops, Call(c, o) PROVE LifeInv'
  <2>1. /\ UNCHANGED <<state, worker, starts, phase>> /\ at'[c] = Entry(o) /\ ~Exiting
        /\ \A d \in Controllers : at[d] = "idle" /\ (d # c => at'[d] = "idle")
    BY <1>1, CallAlone DEF OrderedInv
  <2>2. Entry(o) \notin {"each"} \cup Critical
    BY DEF Entry, Critical, StopSteps
  <2>3. \A t \in Threads : /\ ~Started(t) /\ ~Marked(t) /\ ~Done(t)
                           /\ ~Started(t)' /\ ~Marked(t)' /\ ~Done(t)'
    BY <2>1, <2>2, Sole, SoleNext DEF Critical, StopSteps
  <2> QED
    BY <1>0, <2>1, <2>3, LifeKept DEF OrderedInv, LifeInv
<1>2. ASSUME NEW c \in Controllers, ControllerStep(c) PROVE LifeInv'
  BY <1>2, StepOf, LifeOfStart, LifeOfPause, LifeOfStop, LifeOfStopThreads, LifeOfLock,
     LifeOfRest DEF OrderedInv
<1>3. ASSUME NEW t \in Threads, NEW k \in 1..MaxStarts, WorkerSteps(t, k) PROVE LifeInv'
  BY <1>3, LifeOfWorker
<1>4. CASE UNCHANGED vars
  BY <1>4 DEF vars, place, client, OrderedInv, LifeInv, Life, Started, Marked, Done, Exiting,
              Idle, Active, Heard, Resting, Live
<1> QED
  BY <1>1, <1>2, <1>3, <1>4 DEF Next

\* The workers a step of its thread moves were alive before.
LEMMA WorkerWasLive ==
  ASSUME TypeOK, NEW t \in Threads, NEW k \in 1..MaxStarts, WorkerSteps(t, k),
         NEW u \in Threads, NEW j \in 1..MaxStarts
  PROVE  /\ Live(u, j)' => Live(u, j)
         /\ worker'[u][j] = "spawned" => worker[u][j] = "spawned"
<1>0. worker \in [Threads -> [1..MaxStarts -> Stages]]
  BY DEF TypeOK
<1>1. PICK from \in {"spawned"} \cup InLoop, to \in Stages :
        /\ worker[t][k] = from /\ to # "spawned"
        /\ worker' = [worker EXCEPT ![t][k] = to]
  BY DEF WorkerSteps, WorkerStep, RunBegin, RunEmpty, RunBase, TestStopping, Body, RunEnd,
         Stages, InLoop
<1> QED
  BY <1>0, <1>1 DEF Live

LEMMA OneWorkerStep ==
  ASSUME Client # "any", OrderedInv, [Next]_vars
  PROVE  OneWorker' /\ BegunInv'
<1>0. /\ MaxStarts \in Nat /\ starts \in [Threads -> 0..MaxStarts]
      /\ worker \in [Threads -> [1..MaxStarts -> Stages]] /\ Looping \subseteq Threads
  BY ClientAssumption, ThreadsAssumption
     DEF MaxStarts, Ops, OrderedInv, ClientInv, ControlInv, TypeOK
<1>1. ASSUME NEW c \in Controllers, NEW o \in Ops, Call(c, o)
      PROVE  OneWorker' /\ BegunInv'
  <2>1. /\ UNCHANGED <<worker, starts>> /\ op'[c] = o
        /\ \A d \in Controllers : d # c => at'[d] = "idle"
    BY <1>1, CallAlone DEF OrderedInv
  <2>2. Client = "awaiting" /\ o = "stop" => Quiet
    BY <1>1 DEF Call, MayCall
  <2> QED
    BY <1>0, <2>1, <2>2 DEF OrderedInv, OneWorker, BegunInv, Live, Idle, Quiet
<1>2. ASSUME NEW c \in Controllers, ControllerStep(c)
      PROVE  OneWorker' /\ BegunInv'
  <2>1. /\ op' = op /\ at[c] # "idle"
        /\ \A d \in Controllers : d # c => at[d] = "idle" /\ at'[d] = "idle"
    BY <1>2, Turn DEF OrderedInv
  <2>2. ASSUME NEW t \in Threads, Start(c, t) PROVE OneWorker' /\ BegunInv'
    <3> DEFINE n == starts[t] + 1
    <3>1. /\ starts' = [starts EXCEPT ![t] = n] /\ worker' = [worker EXCEPT ![t][n] = "spawned"]
          /\ op[c] = "start"
      BY <2>2 DEF Start, Each
    <3> HIDE DEF n
    <3>2. t \in Looping => Resting(t)
      BY <2>2, LifeOfStart
    <3>3. ASSUME NEW u \in Looping, NEW j \in 1..MaxStarts, Live(u, j)' PROVE j = starts'[u]
      <4>1. CASE u # t
        BY <1>0, <3>1, <3>3, <4>1 DEF Live, OrderedInv, OneWorker
      <4>2. CASE u = t
        BY <1>0, <3>1, <3>2, <3>3, <4>2 DEF Live, Resting
      <4> QED
        BY <4>1, <4>2
    <3>4. BegunInv'
      BY <2>1, <3>1 DEF BegunInv, Idle
    <3> QED
      BY <3>3, <3>4 DEF OneWorker
  <2>3. CASE \A t \in Threads : ~Start(c, t)
    <3>1. UNCHANGED <<worker, starts>>
      BY <1>2, <2>3, WorkersKept DEF OrderedInv
    <3> QED
      BY <2>1, <3>1 DEF OrderedInv, OneWorker, BegunInv, Live, Idle
  <2> QED
    BY <2>2, <2>3
<1>3. ASSUME NEW t \in Threads, NEW k \in 1..MaxStarts, WorkerSteps(t, k)
      PROVE  OneWorker' /\ BegunInv'
  <2>1. UNCHANGED <<op, at, starts>>
    BY <1>3, WorkerLeaves
  <2> QED
    BY <1>0, <1>3, <2>1, WorkerWasLive
       DEF OrderedInv, ClientInv, ControlInv, OneWorker, BegunInv, Idle
<1>4. CASE UNCHANGED vars
  BY <1>4 DEF vars, place, OrderedInv, OneWorker, BegunInv, Live, Idle
<1> QED
  BY <1>1, <1>2, <1>3, <1>4 DEF Next

LEMMA VisitStep ==
  ASSUME Client # "any", OrderedInv, [Next]_vars
  PROVE  VisitInv'
<1>0. /\ todo \in [Controllers -> SUBSET Threads] /\ at \in [Controllers -> Places]
      /\ cur \in [Controllers -> Threads]
  BY DEF OrderedInv, ClientInv, ControlInv, TypeOK
<1>1. ASSUME NEW c \in Controllers, NEW o \in Ops, Call(c, o) PROVE VisitInv'
  <2>1. at'[c] = Entry(o) /\ \A d \in Controllers : d # c => at'[d] = "idle"
    BY <1>1, CallAlone DEF OrderedInv
  <2> QED
    BY <2>1 DEF VisitInv, Entry, StopSteps
<1>2. ASSUME NEW c \in Controllers, ControllerStep(c) PROVE VisitInv'
  <2>1. op' = op /\ \A d \in Controllers : d # c => at'[d] = "idle"
    BY <1>2, Turn DEF OrderedInv
  <2> SUFFICES ASSUME op[c] = "stop", at'[c] \in StopSteps \cup {"leave"}
               PROVE  cur'[c] \notin todo'[c]
    BY <2>1 DEF VisitInv, StopSteps
  <2>2. ASSUME NEW t \in Threads, Stop(c, t) PROVE cur'[c] \notin todo'[c]
    <3>1. at[c] = "each" /\ todo' = [todo EXCEPT ![c] = @ \ {t}]
      BY <2>2 DEF Stop, Each
    <3>2. cur'[c] = t
      BY <1>0, <2>2, <3>1 DEF Stop, Visit, StopSteps
    <3> QED
      BY <1>0, <3>1, <3>2
  <2>3. CASE StopThreadsStep(c)
    <3>1. UNCHANGED <<todo, cur>> /\ at[c] \in StopSteps \cup {"leave"}
      BY <2>3 DEF StopThreadsStep, StopStep, CheckStopped, CheckStopping, MarkStopping,
                  AwaitStopped, MarkStopped, LeaveStop, StopSteps
    <3> QED
      BY <3>1 DEF OrderedInv, VisitInv
  <2>4. CASE Acquire(c) \/ Release(c)
    BY <1>0, <2>4 DEF Acquire, Release, Return, Goto, StopSteps
  <2>5. \A t \in Threads : ~Start(c, t) /\ ~Pause(c, t) /\ ~Resume(c, t)
    BY DEF Start, Pause, Resume, Each
  <2> QED
    BY <1>2, <2>2, <2>3, <2>4, <2>5, StepOf DEF OrderedInv
<1>3. ASSUME NEW t \in Threads, NEW k \in 1..MaxStarts, WorkerSteps(t, k) PROVE VisitInv'
  BY <1>3, WorkerLeaves DEF OrderedInv, VisitInv
<1>4. CASE UNCHANGED vars
  BY <1>4 DEF vars, place, OrderedInv, VisitInv
<1> QED
  BY <1>1, <1>2, <1>3, <1>4 DEF Next

\* InitializeThreads leaves every thread built, registered and Initialized.
LEMMA InitializeBuilds ==
  ASSUME OrderedInv, NEW c \in Controllers, ControllerStep(c), op[c] = "initialize"
  PROVE  BuiltInv'
<1>0. /\ Looping \subseteq Threads /\ todo \in [Controllers -> SUBSET Threads]
      /\ at \in [Controllers -> Places] /\ cur \in [Controllers -> Threads]
      /\ state \in [Threads -> States] /\ built \subseteq Threads /\ registered \subseteq Threads
  BY ThreadsAssumption DEF OrderedInv, ClientInv, ControlInv, TypeOK
<1>1. /\ op' = op /\ at[c] # "idle" /\ ~Exiting /\ ~Exiting' /\ Legal(at[c], "initialize")
      /\ \A d \in Controllers : d # c => at[d] = "idle" /\ at'[d] = "idle"
      /\ phase \in {"fresh", "stopped"}
  BY Turn DEF OrderedInv, InOrder
<1>2. /\ phase # "fresh" => registered = Threads /\ built = Threads
      /\ built \subseteq registered
      /\ BuiltBy(c)
  BY <1>1 DEF OrderedInv, BuiltInv, Idle
<1> DEFINE Built == /\ phase' # "fresh" => registered' = Threads /\ built' = Threads
                    /\ built' \subseteq registered'
                    /\ at'[c] # "idle" => BuiltBy(c)'
<1> SUFFICES Built
  BY <1>1 DEF BuiltInv, Idle
<1> USE <1>0, <1>2 DEF BuiltBy
<1>3. ASSUME NEW t \in Threads, RegisterThread(c, t) PROVE Built
  BY <1>3 DEF RegisterThread, InitializeStep, FirstNamed, Goto, Visit, SetState
<1>4. ASSUME NEW t \in Threads, GetInstance(c, t) PROVE Built
  BY <1>4 DEF GetInstance, InitializeStep, Goto, Visit, monitor
<1>5. CASE FinishConstructor(c)
  BY <1>5 DEF FinishConstructor, InitializeStep, Goto, monitor
<1>6. CASE Prepare(c)
  BY <1>6 DEF Prepare, InitializeStep, Goto, monitor
<1>7. CASE Initialize(c)
  BY <1>7 DEF Initialize, InitializeStep, Goto, SetState, Empty, monitor
<1>8. CASE ReturnInitialize(c)
  BY <1>8 DEF ReturnInitialize, Return, Goto, monitor
<1>9. \/ \E t \in Threads : RegisterThread(c, t) \/ GetInstance(c, t)
      \/ FinishConstructor(c) \/ Prepare(c) \/ Initialize(c) \/ ReturnInitialize(c)
  BY <1>1 DEF Legal, Locked, StopSteps, ControllerStep, Acquire, Release, Start, Pause, Resume,
              Stop, Each, StopThreadsStep, StopStep, CheckStopped, CheckStopping, MarkStopping,
              AwaitStopped, MarkStopped, LeaveStop, Destroy, Delete, UnregisterThread, Leave,
              ExitStep
<1> QED
  BY <1>3, <1>4, <1>5, <1>6, <1>7, <1>8, <1>9

LEMMA BuiltStep ==
  ASSUME Client # "any", OrderedInv, [Next]_vars
  PROVE  BuiltInv'
<1>1. ASSUME NEW c \in Controllers, NEW o \in Ops, Call(c, o) PROVE BuiltInv'
  <2>1. /\ InOrder(o) /\ ~Exiting /\ UNCHANGED <<registered, built, state, cur, phase>>
        /\ op'[c] = o /\ at'[c] = Entry(o) /\ (o = "initialize" => todo'[c] = Threads)
        /\ \A d \in Controllers : d # c => at'[d] = "idle"
    BY <1>1, CallAlone DEF OrderedInv
  <2>2. Looping \subseteq Threads
    BY ThreadsAssumption
  <2> QED
    BY <2>1, <2>2 DEF OrderedInv, BuiltInv, BuiltBy, Entry, Idle
<1>2. ASSUME NEW c \in Controllers, ControllerStep(c) PROVE BuiltInv'
  <2>1. /\ op' = op /\ at[c] # "idle" /\ InOrder(op[c])
        /\ \A d \in Controllers : d # c => at'[d] = "idle"
        /\ Exiting <=> op[c] = "exit"
        /\ Exiting' <=> op[c] = "exit"
    BY <1>2, Turn DEF OrderedInv
  <2>2. CASE op[c] = "initialize"
    BY <1>2, <2>2, InitializeBuilds
  <2>3. CASE op[c] = "exit"
    BY <2>1, <2>3 DEF BuiltInv, Idle
  <2>4. CASE op[c] \notin {"initialize", "exit"}
    <3>1. UNCHANGED <<registered, built>>
      BY <1>2, <2>4, StepOf
         DEF OrderedInv, Acquire, Release, Start, Pause, Resume, Stop, StopThreadsStep, StopStep,
             CheckStopped, CheckStopping, MarkStopping, AwaitStopped, MarkStopped, LeaveStop,
             monitor
    <3>2. phase # "fresh"
      BY <2>1, <2>4 DEF InOrder
    <3> QED
      BY <2>1, <2>4, <3>1, <3>2 DEF OrderedInv, BuiltInv, Idle
  <2> QED
    BY <2>2, <2>3, <2>4
<1>3. ASSUME NEW t \in Threads, NEW k \in 1..MaxStarts, WorkerSteps(t, k) PROVE BuiltInv'
  <2>1. UNCHANGED <<op, at, todo, cur, phase, registered, built>>
    BY <1>3, WorkerLeaves
  <2>2. \A u \in Threads : u # t => state'[u] = state[u]
    BY <1>3, WorkerMoves DEF OrderedInv, ClientInv, ControlInv
  <2>3. ASSUME NEW c \in Controllers, ~Idle(c), op[c] = "initialize" PROVE t \notin Looping
    <3>1. \A d \in Controllers : d # c => at[d] = "idle"
      BY <2>3 DEF OrderedInv, ClientInv, Alone, Idle
    <3>2. ~Started(t) /\ phase # "started"
      BY <2>3, <3>1, Sole DEF OrderedInv, ClientInv, InTurn, InOrder
    <3>3. t \in Looping => Resting(t)
      BY <3>2 DEF OrderedInv, LifeInv, Life
    <3>4. Live(t, k)
      BY <1>3 DEF WorkerSteps, WorkerStep, RunBegin, RunEmpty, RunBase, TestStopping, Body,
                  RunEnd, Live, InLoop
    <3> QED
      BY <3>3, <3>4 DEF Resting
  <2>4. Looping \subseteq Threads
    BY ThreadsAssumption
  <2> QED
    BY <2>1, <2>2, <2>3, <2>4 DEF OrderedInv, BuiltInv, BuiltBy, Exiting, Idle
<1>4. CASE UNCHANGED vars
  BY <1>4 DEF vars, monitor, place, client, OrderedInv, BuiltInv, BuiltBy, Exiting, Idle
<1> QED
  BY <1>1, <1>2, <1>3, <1>4 DEF Next

LEMMA OrderedInit == Init => OrderedInv
<1> SUFFICES ASSUME Init PROVE OrderedInv
  OBVIOUS
<1>1. ClientInv
  BY TypeInit, ControlInit DEF ClientInv, ControlInv, Init, Alone, InTurn, Idle
<1>2. /\ phase = "fresh" /\ built = {} /\ registered = {}
      /\ \A c \in Controllers : at[c] = "idle"
      /\ \A t \in Threads, k \in 1..MaxStarts : worker[t][k] = "none"
  BY DEF Init
<1>3. Looping \subseteq Threads
  BY ThreadsAssumption
<1>4. BuiltInv /\ VisitInv /\ BegunInv
  BY <1>2 DEF BuiltInv, VisitInv, BegunInv, StopSteps, Idle
<1>5. OneWorker /\ LifeInv
  BY <1>2, <1>3 DEF OneWorker, LifeInv, Life, Started, Resting, Live, InLoop
<1> QED
  BY <1>1, <1>4, <1>5 DEF OrderedInv

LEMMA OrderedStep ==
  ASSUME Client # "any", OrderedInv, [Next]_vars
  PROVE  OrderedInv'
BY ClientInvStep, BuiltStep, VisitStep, OneWorkerStep, LifeStep DEF OrderedInv

\* What a client in order relies on, all at once.
LEMMA OrderedAlways == Client # "any" /\ Spec => []OrderedInv
<1>1. CASE Client # "any"
  BY <1>1, OrderedInit, OrderedStep, PTL DEF Spec
<1> QED
  BY <1>1

\* While StopThreads waits for a looping thread, its worker has still to see
\* Stopping or has answered: proved for clients that saw every worker begin,
\* and false for the others, whose RunBegin overwrites Stopping.
THEOREM StopsAreHeard ==
  ASSUME Client = "awaiting"
  PROVE  Spec => []StopHandshake
<1>1. ASSUME OrderedInv PROVE StopHandshake
  <2> SUFFICES ASSUME NEW c \in Controllers, op[c] = "stop", at[c] = "wait",
                      cur[c] \in Looping
               PROVE  LET t == cur[c] IN
                      \/ state[t] = "Stopping" /\ worker[t][starts[t]] \in InLoop
                      \/ state[t] = "Stopped"  /\ worker[t][starts[t]] = "ended"
    BY DEF StopHandshake
  <2>1. phase = "started"
    BY <1>1 DEF OrderedInv, ClientInv, InTurn, InOrder, Idle
  <2>2. Marked(cur[c])
    BY DEF Marked
  <2>3. Heard(cur[c])
    BY <1>1, <2>1, <2>2 DEF OrderedInv, LifeInv, Life
  <2> QED
    BY <2>3 DEF Heard
<1>2. Spec => []OrderedInv
  BY OrderedAlways
<1> QED
  BY <1>1, <1>2, PTL

-----------------------------------------------------------------------------
(* The refinement. A StartThreads begins the workers, a call of StopThreads *)
(* requests the stop, RunEnd ends a worker, and the Release of StopThreads  *)
(* is its return; the rest of the code stutters.                            *)
Stops == \E c \in Controllers : op[c] = "stop" /\ ~Idle(c)

LEMMA ServingStop == Stops => Serving = "stopping"
BY DEF Stops, Serving

LEMMA ServingElse == ~Stops => Serving = IF phase = "stopped" THEN "down" ELSE "up"
BY DEF Stops, Serving

\* What only moves the controllers, or the phase from one that is up to
\* another, is a stutter.
LEMMA Stutters ==
  ASSUME UNCHANGED worker, Stops' <=> Stops, phase' = "stopped" <=> phase = "stopped"
  PROVE  UNCHANGED Service!vars
BY DEF Service!vars, Running, Serving, Stops

LEMMA RunningAre == Running = {t \in Looping : ~Resting(t)}
BY DEF Running, Resting, Live

LEMMA ServiceOfCall ==
  ASSUME Client # "any", OrderedInv, NEW c \in Controllers, NEW o \in Ops, Call(c, o)
  PROVE  [Service!Next]_Service!vars
<1>1. /\ InOrder(o) /\ UNCHANGED <<worker, phase>> /\ op'[c] = o /\ at'[c] # "idle"
      /\ \A d \in Controllers : at[d] = "idle" /\ (d # c => at'[d] = "idle")
  BY CallAlone DEF OrderedInv
<1>2. ~Stops /\ (Stops' <=> o = "stop")
  BY <1>1 DEF Stops, Idle
<1>3. CASE o = "stop"
  <2>1. Serving = "up" /\ Serving' = "stopping" /\ Running' = Running
    BY <1>1, <1>2, <1>3, ServingStop, ServingElse DEF InOrder, Stops, Serving, Running
  <2> QED
    BY <2>1 DEF Service!Next, Service!RequestStop
<1>4. CASE o # "stop"
  BY <1>1, <1>2, <1>4, Stutters
<1> QED
  BY <1>3, <1>4

LEMMA ServiceOfController ==
  ASSUME Client # "any", OrderedInv, NEW c \in Controllers, ControllerStep(c)
  PROVE  [Service!Next]_Service!vars
<1>0. /\ MaxStarts \in Nat /\ starts \in [Threads -> 0..MaxStarts]
      /\ worker \in [Threads -> [1..MaxStarts -> Stages]] /\ Looping \subseteq Threads
      /\ at \in [Controllers -> Places]
  BY ClientAssumption, ThreadsAssumption
     DEF MaxStarts, Ops, OrderedInv, ClientInv, ControlInv, TypeOK
<1>1. /\ op' = op /\ at[c] # "idle" /\ InOrder(op[c])
      /\ \A d \in Controllers : d # c => at[d] = "idle" /\ at'[d] = "idle"
      /\ phase' = phase \/ at'[c] = "idle"
  BY Turn DEF OrderedInv
<1>2. /\ Stops <=> op[c] = "stop"
      /\ Stops' <=> op[c] = "stop" /\ at'[c] # "idle"
  BY <1>1 DEF Stops, Idle
<1>3. ASSUME NEW t \in Threads, Start(c, t) PROVE [Service!Next]_Service!vars
  <2>1. PICK n \in 1..MaxStarts :
          /\ worker' = [worker EXCEPT ![t][n] = "spawned"]
          /\ op[c] = "start" /\ phase' = phase
    <3>1. starts[t] + 1 \in 1..MaxStarts
      BY <1>0, <1>3 DEF Start
    <3> QED
      BY <1>3, <3>1 DEF Start, Each, client
  <2>2. Serving = "up" /\ Serving' = "up"
    BY <1>1, <1>2, <2>1, ServingElse DEF InOrder, Serving, Stops
  <2>3. \A u \in Looping : u # t => (Resting(u)' <=> Resting(u))
    BY <1>0, <2>1 DEF Resting, Live
  <2>4. t \in Looping => Resting(t) /\ ~Resting(t)'
    <3>1. t \in Looping => Resting(t)
      BY <1>3, LifeOfStart
    <3>2. Live(t, n)'
      BY <1>0, <2>1 DEF Live
    <3> QED
      BY <2>1, <3>1, <3>2 DEF Resting
  <2>5. Running' = {u \in Looping : ~Resting(u)'}
    BY DEF Running, Resting, Live
  <2>6. CASE t \in Looping
    <3>1. t \notin Running /\ Running' = Running \cup {t}
      BY <2>3, <2>4, <2>5, <2>6, RunningAre
    <3> QED
      BY <2>2, <2>6, <3>1 DEF Service!Next, Service!Begin
  <2>7. CASE t \notin Looping
    <3>1. Running' = Running
      BY <2>3, <2>5, <2>7, RunningAre
    <3> QED
      BY <2>2, <3>1 DEF Service!vars
  <2> QED
    BY <2>6, <2>7
<1>4. CASE \A t \in Threads : ~Start(c, t)
  <2>1. UNCHANGED worker
    BY <1>4, WorkersKept DEF OrderedInv
  <2>2. Running' = Running
    BY <2>1 DEF Running
  <2>3. CASE phase' = phase /\ at'[c] # "idle"
    BY <1>2, <2>1, <2>3, Stutters
  <2>4. CASE Release(c)
    <3>1. /\ at[c] = "each" /\ at'[c] = "idle" /\ todo[c] = {} /\ op[c] \in Locked
          /\ phase' = IF op[c] = "start" THEN "started"
                      ELSE IF op[c] = "stop" THEN "stopped" ELSE phase
      BY <1>0, <2>4, Turn DEF Release, Return, Goto, Locked, Legal, OrderedInv
    <3>2. CASE op[c] = "stop"
      <4>1. \A t \in Looping : ~Marked(t) /\ Done(t)
        BY <1>0, <1>1, <3>1, <3>2, Sole DEF Critical, StopSteps
      <4>2. \A t \in Looping : Resting(t)
        BY <1>1, <3>2, <4>1 DEF InOrder, OrderedInv, LifeInv, Life
      <4>3. Running = {}
        BY <4>2, RunningAre
      <4>4. Serving = "stopping" /\ Serving' = "down"
        BY <1>2, <3>1, <3>2, ServingStop DEF Serving, Stops
      <4> QED
        BY <2>2, <4>3, <4>4 DEF Service!Next, Service!ReturnStop
    <3>3. CASE op[c] # "stop"
      BY <1>1, <1>2, <2>1, <3>1, <3>3, Stutters DEF InOrder, Locked
    <3> QED
      BY <3>2, <3>3
  <2>5. CASE ReturnInitialize(c)
    <3>1. op[c] = "initialize" /\ phase' = "initialized"
      BY <2>5, Turn DEF ReturnInitialize, Return, Legal, OrderedInv
    <3>2. CASE phase = "stopped"
      <4>1. Serving = "down" /\ Serving' = "up"
        BY <1>2, <3>1, <3>2, ServingElse DEF Serving, Stops
      <4> QED
        BY <2>2, <4>1 DEF Service!Next, Service!Restart
    <3>3. CASE phase # "stopped"
      BY <1>2, <2>1, <3>1, <3>3, Stutters
    <3> QED
      BY <3>2, <3>3
  <2>6. at'[c] = "idle" => Release(c) \/ ReturnInitialize(c)
    BY <1>0, <1>1, <1>4
       DEF ControllerStep, Acquire, Pause, Resume, Stop, Each, Empty, StopThreadsStep, StopStep,
           CheckStopped, CheckStopping, MarkStopping, AwaitStopped, MarkStopped, LeaveStop,
           AfterStop, RegisterThread, GetInstance, InitializeStep, FinishConstructor, Prepare,
           Initialize, Destroy, Delete, UnregisterThread, Leave, ExitStep, Goto
  <2> QED
    BY <1>1, <2>3, <2>4, <2>5, <2>6
<1> QED
  BY <1>3, <1>4

LEMMA ServiceOfWorker ==
  ASSUME Client # "any", OrderedInv,
         NEW t \in Threads, NEW k \in 1..MaxStarts, WorkerSteps(t, k)
  PROVE  [Service!Next]_Service!vars
<1>0. /\ worker \in [Threads -> [1..MaxStarts -> Stages]] /\ Looping \subseteq Threads
  BY ThreadsAssumption DEF OrderedInv, ClientInv, ControlInv, TypeOK
<1>1. UNCHANGED <<op, at, todo, cur, phase, starts>>
  BY WorkerLeaves
<1>2. Serving' = Serving
  BY <1>1 DEF Serving, Idle
<1>3. Running' = {u \in Looping : ~Resting(u)'}
  BY DEF Running, Resting, Live
<1>4. /\ \A u \in Threads : u # t => worker'[u] = worker[u]
      /\ \A j \in 1..MaxStarts : j # k => worker'[t][j] = worker[t][j]
  BY WorkerMoves DEF OrderedInv, ClientInv, ControlInv
<1>5. \A u \in Threads : u # t => (Resting(u)' <=> Resting(u))
  BY <1>4 DEF Resting, Live
<1>6. Live(t, k) /\ ~Resting(t)
  BY DEF WorkerSteps, WorkerStep, RunBegin, RunEmpty, RunBase, TestStopping, Body, RunEnd,
         Resting, Live, InLoop
<1>7. CASE t \notin Looping \/ Live(t, k)'
  <2>1. Live(t, k)' => ~Resting(t)'
    BY DEF Resting
  <2>2. Running' = Running
    BY <1>0, <1>3, <1>5, <1>6, <1>7, <2>1, RunningAre
  <2> QED
    BY <1>2, <2>2 DEF Service!vars
<1>8. CASE t \in Looping /\ ~Live(t, k)'
  <2>1. k = starts[t]
    BY <1>6, <1>8 DEF OrderedInv, OneWorker
  <2>2. \A j \in 1..MaxStarts : j # k => ~Live(t, j)
    BY <1>8, <2>1 DEF OrderedInv, OneWorker
  <2>3. Resting(t)'
    BY <1>4, <1>8, <2>2 DEF Resting, Live
  <2>4. Life(t) /\ Life(t)'
    BY <1>8, LifeOfWorker DEF OrderedInv, LifeInv
  <2>5. ~Active(t)'
    BY <1>1, <1>8, <2>1 DEF Active, Live, InLoop
  <2>6. phase = "started" /\ Marked(t)
    <3>1. /\ Started(t)' <=> Started(t)
          /\ Marked(t)' <=> Marked(t)
          /\ Done(t)' <=> Done(t)
      BY <1>1 DEF Started, Marked, Done
    <3> QED
      BY <1>1, <1>6, <2>4, <2>5, <3>1 DEF Life
  <2>7. Serving = "stopping"
    BY <2>6 DEF Serving, Marked, Idle
  <2>8. t \in Running /\ Running' = Running \ {t}
    BY <1>0, <1>3, <1>5, <1>6, <1>8, <2>3, RunningAre
  <2> QED
    BY <1>2, <1>8, <2>7, <2>8 DEF Service!Next, Service!End
<1> QED
  BY <1>7, <1>8

\* Called in order, StartThreads and StopThreads keep their promise: no worker
\* ends before a stop is requested, and none outlives the StopThreads.
THEOREM ServiceIsImplemented ==
  ASSUME Client # "any"
  PROVE  Spec => ImplementsService
<1>1. Init => Service!Init
  <2> SUFFICES ASSUME Init PROVE Service!Init
    OBVIOUS
  <2>1. \A t \in Looping, k \in 1..MaxStarts : worker[t][k] = "none"
    BY ThreadsAssumption DEF Init
  <2>2. Running = {}
    BY <2>1 DEF Running, InLoop
  <2>3. Serving = "up"
    BY DEF Init, Serving, Idle
  <2> QED
    BY <2>2, <2>3 DEF Service!Init
<1>2. ASSUME OrderedInv, [Next]_vars PROVE [Service!Next]_Service!vars
  <2>1. CASE UNCHANGED vars
    BY <2>1 DEF vars, place, client, Service!vars, Running, Serving, Idle
  <2> QED
    BY <1>2, <2>1, ServiceOfCall, ServiceOfController, ServiceOfWorker DEF Next
<1>3. Spec => []OrderedInv
  BY OrderedAlways
<1> QED
  BY <1>1, <1>2, <1>3, PTL DEF Spec, ImplementsService, Service!Spec

-----------------------------------------------------------------------------
(* The discovery thread.                                                   *)
LEMMA DInitImplies == DInit => Init
BY DEF DInit

\* Every step of Discovery is a step of ThreadMonitor or leaves it alone.
LEMMA DNextImplies == [DNext]_allVars => [Next]_vars
<1> SUFFICES ASSUME [DNext]_allVars PROVE Next \/ UNCHANGED vars
  OBVIOUS
<1>1. CASE \E c \in Controllers, o \in Ops : Call(c, o) /\ UNCHANGED dvars
  BY <1>1 DEF Next
<1>2. ASSUME NEW c \in Controllers, DControllerStep(c)
      PROVE  ControllerStep(c) \/ UNCHANGED vars
  <2>1. CASE ServiceStep(c)
    BY <2>1 DEF ServiceStep, ControllerStep, StopThreadsStep
  <2>2. ASSUME NEW t \in Threads, DPause(c, t) \/ DestroyMembers(c, t)
        PROVE  ControllerStep(c)
    BY <2>2 DEF DPause, DestroyMembers, ControllerStep
  <2>3. CASE ClearUsable(c) \/ EnumerateInterfaces(c) \/ UseInterface(c)
             \/ JoinGroup(c) \/ PrepareOther(c)
    BY <2>3 DEF ClearUsable, EnumerateInterfaces, UseInterface, JoinGroup,
                PrepareOther, ControllerStep
  <2>4. CASE DeleteGroup(c) \/ ForgetGroup(c) \/ DeleteAddresses(c)
    BY <2>4 DEF DeleteGroup, ForgetGroup, DeleteAddresses, ControllerStep,
                StopThreadsStep
  <2> QED
    BY <1>2, <2>1, <2>2, <2>3, <2>4 DEF DControllerStep
<1>3. ASSUME NEW t \in Threads, NEW k \in 1..MaxStarts, DWorkerSteps(t, k)
      PROVE  WorkerSteps(t, k) \/ UNCHANGED vars
  BY <1>3 DEF DWorkerSteps, DBegin, TickStep, SleepOn, SecondElapsed,
              TenSecondTick, SendHeartbeat, MinuteTick, CountSecond, WorkerSteps
<1>4. CASE UNCHANGED allVars
  BY <1>4 DEF allVars
<1> QED
  BY <1>1, <1>2, <1>3, <1>4 DEF DNext, Next

\* The discovery thread implements the thread service it is built on.
THEOREM DiscoveryImplementsThreadMonitor == DSpec => Spec
BY DInitImplies, DNextImplies, PTL DEF DSpec, Spec

\* No heartbeat loop runs when the discovery thread, started once, reads
\* Stopped.
THEOREM StoppedDiscoveryIsQuiet == DSpec => []StoppedMeansQuiet
BY DiscoveryImplementsThreadMonitor, StoppedThreadsAreQuiet, PTL

-----------------------------------------------------------------------------
\* Inside InitializeMcGroups, past the enumeration, there is a map: nobody
\* exits meanwhile, and the exit alone takes it away.
PartInv ==
  \A c \in Controllers : part[c] \in {"use", "join"} =>
    at[c] = "prepare" /\ cur[c] = discovery /\ addresses # 0

\* DTypeOK, in the parts the steps change together.
HeapOK ==
  /\ groups \in Nat /\ mc \in 0..groups /\ addresses \in 0..groups
  /\ liveGroups \subseteq 1..groups /\ liveAddresses \subseteq 1..groups
  /\ usable \in {0, 1}

PartOK == part \in [Controllers -> Parts]

ClockOK ==
  /\ tick \in [1..MaxStarts -> Ticks]
  /\ second \in 0..(CounterSize - 1)
  /\ silent \in Nat /\ pausedBeats \in 0..2

RestOK == fault \subseteq Faults

LEMMA DTypeParts == /\ DTypeOK <=> HeapOK /\ PartOK /\ ClockOK /\ RestOK
                    /\ DTypeOK' <=> HeapOK' /\ PartOK' /\ ClockOK' /\ RestOK'
BY DEF DTypeOK, HeapOK, PartOK, ClockOK, RestOK

LEMMA DTypeInit == DInit => DTypeOK /\ PartInv
<1> SUFFICES ASSUME DInit PROVE DTypeOK /\ PartInv
  OBVIOUS
<1>1. HeapOK
  BY DEF DInit, HeapOK
<1>2. part = [c \in Controllers |-> "clear"]
  BY DEF DInit
<1>3. PartOK /\ PartInv
  BY <1>2 DEF PartOK, PartInv, Parts
<1>4. ClockOK
  BY DiscoveryAssumption DEF DInit, ClockOK, Ticks
<1>5. RestOK
  BY DEF DInit, RestOK
<1>6. QED
  BY <1>1, <1>3, <1>4, <1>5, DTypeParts

\* A step that runs no part of DiscoveryThread finds its controller elsewhere.
LEMMA ServiceElsewhere ==
  ASSUME NEW c \in Controllers, ServiceStep(c)
  PROVE  at[c] # "prepare" /\ ControllerStep(c)
<1>1. at[c] # "prepare"
  BY DEF ServiceStep, Acquire, Release, Start, Resume, Stop, Each, CheckStopped, CheckStopping,
         MarkStopping, AwaitStopped, MarkStopped, StopStep, RegisterThread, GetInstance,
         FinishConstructor, Initialize, ReturnInitialize, InitializeStep, Delete,
         UnregisterThread, Leave, ExitStep
<1>2. ControllerStep(c)
  BY DEF ServiceStep, ControllerStep, StopThreadsStep
<1>3. QED
  BY <1>1, <1>2

\* A controller moves on to a thread of its own alone.
LEMMA OthersVisit ==
  ASSUME TypeOK, PlaceInv, LockInv, NEW c \in Controllers, ControllerStep(c)
  PROVE  \A d \in Controllers : d # c => at'[d] = at[d] /\ cur'[d] = cur[d]
<1>1. cur \in [Controllers -> Threads]
  BY DEF TypeOK
<1>2. cur' = cur \/ \E t \in Threads : cur' = [cur EXCEPT ![c] = t]
  <2>1. ASSUME NEW t \in Threads, Start(c, t) \/ Pause(c, t) \/ Resume(c, t) PROVE cur' = cur
    BY <2>1 DEF Start, Pause, Resume
  <2>2. ASSUME NEW t \in Threads, Stop(c, t) \/ RegisterThread(c, t) \/ GetInstance(c, t)
                                  \/ Destroy(c, t)
        PROVE  cur' = cur \/ cur' = [cur EXCEPT ![c] = t]
    BY <2>2 DEF Stop, RegisterThread, GetInstance, Destroy, Visit
  <2>3. CASE StopThreadsStep(c)
    BY <2>3 DEF StopThreadsStep, CheckStopped, CheckStopping, MarkStopping, AwaitStopped,
                MarkStopped, LeaveStop, StopStep
  <2>4. CASE \/ Acquire(c) \/ Release(c) \/ FinishConstructor(c) \/ Prepare(c) \/ Initialize(c)
             \/ ReturnInitialize(c) \/ Delete(c) \/ UnregisterThread(c) \/ Leave(c)
    BY <2>4 DEF Acquire, Release, FinishConstructor, Prepare, Initialize, ReturnInitialize,
                Delete, UnregisterThread, Leave
  <2>5. QED
    BY <2>1, <2>2, <2>3, <2>4 DEF ControllerStep
<1>3. QED
  BY <1>1, <1>2, ControllerMoves

\* What a step of another place leaves of PartInv.
LEMMA PartKept ==
  ASSUME PartInv, NEW c \in Controllers, part' = part, addresses' = addresses \/ addresses' # 0,
         at[c] # "prepare", \A d \in Controllers : d # c => at'[d] = at[d] /\ cur'[d] = cur[d]
  PROVE  PartInv'
BY DEF PartInv

LEMMA DControllerTypes ==
  ASSUME ControlInv, DTypeOK, PartInv, NEW c \in Controllers, DControllerStep(c)
  PROVE  DTypeOK' /\ PartInv'
<1>0. /\ HeapOK /\ PartOK /\ ClockOK /\ RestOK
      /\ TypeOK /\ PlaceInv /\ LockInv /\ ExitInv
      /\ at \in [Controllers -> Places]
  BY DTypeParts DEF ControlInv, TypeOK
<1>1. CASE ServiceStep(c) /\ UNCHANGED dvars
  <2>1. HeapOK' /\ PartOK' /\ ClockOK' /\ RestOK'
    BY <1>0, <1>1 DEF HeapOK, PartOK, ClockOK, RestOK, dvars, heap, history
  <2>2. at[c] # "prepare" /\ ControllerStep(c)
    BY <1>1, ServiceElsewhere
  <2>3. \A d \in Controllers : d # c => at'[d] = at[d] /\ cur'[d] = cur[d]
    BY <1>0, <2>2, OthersVisit
  <2>4. part' = part /\ addresses' = addresses
    BY <1>1 DEF dvars, heap
  <2>5. PartInv'
    BY <2>2, <2>3, <2>4, PartKept
  <2>6. QED
    BY <2>1, <2>5, DTypeParts
<1>2. ASSUME NEW t \in Threads, DPause(c, t) PROVE DTypeOK' /\ PartInv'
  <2>1. UNCHANGED <<at, cur>> /\ UNCHANGED <<heap, part, tick, second, silent, fault>>
    BY <1>2 DEF DPause, Pause
  <2>2. HeapOK' /\ PartOK' /\ RestOK'
    BY <1>0, <2>1 DEF HeapOK, PartOK, RestOK, heap
  <2>3. ClockOK'
    BY <1>0, <1>2 DEF ClockOK, DPause
  <2>4. PartInv'
    BY <2>1 DEF PartInv, heap
  <2>5. QED
    BY <2>2, <2>3, <2>4, DTypeParts
<1>3. ASSUME NEW t \in Threads, DestroyMembers(c, t) PROVE DTypeOK' /\ PartInv'
  <2>1. at[c] = "destroy" /\ op[c] = "exit"
    BY <1>0, <1>3 DEF DestroyMembers, Destroy, ExitStep, PlaceInv, Legal
  <2>2. \A d \in Controllers : at[d] # "prepare"
    BY <1>0, <2>1 DEF ExitInv, Idle
  <2>3. \A d \in Controllers : part[d] \notin {"use", "join"}
    BY <2>2 DEF PartInv
  <2>4. part' = part
    BY <1>3 DEF DestroyMembers
  <2>5. PartInv'
    BY <2>3, <2>4 DEF PartInv
  <2>6. HeapOK'
    BY <1>0, <1>3 DEF HeapOK, DestroyMembers
  <2>7. PartOK' /\ ClockOK' /\ RestOK'
    BY <1>0, <1>3 DEF PartOK, ClockOK, RestOK, DestroyMembers, history
  <2>8. QED
    BY <2>5, <2>6, <2>7, DTypeParts
<1>4. CASE ClearUsable(c) \/ EnumerateInterfaces(c) \/ UseInterface(c) \/ JoinGroup(c)
  <2>1. /\ at[c] = "prepare" /\ cur[c] = discovery
        /\ UNCHANGED <<tick, second, history, fault>>
        /\ ControllerStep(c) \/ UNCHANGED <<at, cur>>
    BY <1>4 DEF ClearUsable, EnumerateInterfaces, UseInterface, JoinGroup, McPart,
                ControllerStep, vars, place
  <2>2. \A d \in Controllers : d # c => at'[d] = at[d] /\ cur'[d] = cur[d]
    <3>1. CASE ControllerStep(c)
      BY <1>0, <3>1, OthersVisit
    <3>2. CASE UNCHANGED <<at, cur>>
      BY <3>2
    <3>3. QED
      BY <2>1, <3>1, <3>2
  <2>3. ClockOK' /\ RestOK'
    BY <1>0, <2>1 DEF ClockOK, RestOK, history
  <2>4. CASE ClearUsable(c) \/ UseInterface(c)
    <3>1. HeapOK'
      BY <1>0, <2>4 DEF HeapOK, ClearUsable, UseInterface
    <3>2. at' = at /\ cur' = cur /\ addresses' = addresses
      BY <2>4 DEF ClearUsable, UseInterface, vars, place
    <3>3. \/ part' = [part EXCEPT ![c] = "enumerate"]
          \/ part' = [part EXCEPT ![c] = "join"] /\ part[c] = "use"
      BY <2>4 DEF ClearUsable, UseInterface, McPart
    <3>4. PartOK'
      BY <1>0, <3>3 DEF PartOK, Parts
    <3>5. PartInv'
      BY <1>0, <3>2, <3>3 DEF PartInv, PartOK
    <3>6. QED
      BY <2>3, <3>1, <3>4, <3>5, DTypeParts
  <2>5. CASE EnumerateInterfaces(c)
    <3>1. HeapOK'
      BY <1>0, <2>5 DEF HeapOK, EnumerateInterfaces
    <3>2. /\ \/ part' = [part EXCEPT ![c] = "use"] /\ at' = at /\ cur' = cur
             \/ part' = [part EXCEPT ![c] = "clear"]
          /\ addresses' = groups + 1
      BY <2>5 DEF EnumerateInterfaces, McPart, vars, place
    <3>3. addresses' # 0
      BY <1>0, <3>2 DEF HeapOK
    <3>4. PartOK'
      BY <1>0, <3>2 DEF PartOK, Parts
    <3>5. ASSUME NEW d \in Controllers, part'[d] \in {"use", "join"} 
          PROVE at'[d] = "prepare" /\ cur'[d] = discovery
      <4>1. CASE d = c
        <5>1. at' = at /\ cur' = cur
          BY <1>0, <3>2, <3>5, <4>1 DEF PartOK
        <5>2. QED
          BY <2>1, <3>2, <4>1, <5>1
      <4>2. CASE d # c
        BY <1>0, <2>2, <3>2, <3>5, <4>2 DEF PartOK, PartInv
      <4>3. QED
        BY <4>1, <4>2
    <3>6. PartInv'
      BY <3>3, <3>5 DEF PartInv
    <3>7. QED
      BY <2>3, <3>1, <3>4, <3>6, DTypeParts
  <2>6. CASE JoinGroup(c)
    <3>1. part[c] = "join" /\ part' = [part EXCEPT ![c] = "clear"] /\ addresses' = addresses
      BY <2>6 DEF JoinGroup, McPart
    <3>2. addresses # 0
      BY <3>1 DEF PartInv
    <3>3. addresses \in 1..groups
      BY <1>0, <3>2 DEF HeapOK
    <3>4. HeapOK'
      BY <1>0, <2>6, <3>3 DEF HeapOK, JoinGroup
    <3>5. PartOK'
      BY <1>0, <3>1 DEF PartOK, Parts
    <3>6. PartInv'
      BY <1>0, <2>2, <3>1 DEF PartInv, PartOK
    <3>7. QED
      BY <2>3, <3>4, <3>5, <3>6, DTypeParts
  <2>7. QED
    BY <1>4, <2>4, <2>5, <2>6
<1>5. CASE PrepareOther(c)
  <2>1. UNCHANGED dvars /\ at[c] = "prepare" /\ cur[c] # discovery /\ ControllerStep(c)
    BY <1>5 DEF PrepareOther, Prepare, InitializeStep, ControllerStep
  <2>2. HeapOK' /\ PartOK' /\ ClockOK' /\ RestOK'
    BY <1>0, <2>1 DEF HeapOK, PartOK, ClockOK, RestOK, dvars, heap, history
  <2>3. \A d \in Controllers : d # c => at'[d] = at[d] /\ cur'[d] = cur[d]
    BY <1>0, <2>1, OthersVisit
  <2>4. part' = part /\ addresses' = addresses
    BY <2>1 DEF dvars, heap
  <2>5. part[c] \notin {"use", "join"}
    BY <2>1 DEF PartInv
  <2>6. PartInv'
    BY <2>3, <2>4, <2>5 DEF PartInv
  <2>7. QED
    BY <2>2, <2>6, DTypeParts
<1>6. CASE DeleteGroup(c) \/ ForgetGroup(c) \/ DeleteAddresses(c)
  <2>1. /\ at[c] = "leave"
        /\ \E to \in {"clear", "forget", "delete"} : part' = [part EXCEPT ![c] = to]
        /\ UNCHANGED <<groups, addresses, usable, tick, second, history>>
        /\ ControllerStep(c) \/ UNCHANGED <<at, cur>>
    BY <1>6 DEF DeleteGroup, ForgetGroup, DeleteAddresses, ClearPart, ControllerStep,
                StopThreadsStep, vars, place
  <2>2. \A d \in Controllers : d # c => at'[d] = at[d] /\ cur'[d] = cur[d]
    <3>1. CASE ControllerStep(c)
      BY <1>0, <3>1, OthersVisit
    <3>2. CASE UNCHANGED <<at, cur>>
      BY <3>2
    <3>3. QED
      BY <2>1, <3>1, <3>2
  <2>3. HeapOK'
    <3>1. /\ UNCHANGED <<groups, addresses, usable>> /\ mc' \in {mc, 0}
          /\ liveGroups' \in {liveGroups, liveGroups \ {mc}}
          /\ liveAddresses' \in {liveAddresses, liveAddresses \ {addresses}}
      BY <1>6, <2>1 DEF DeleteGroup, ForgetGroup, DeleteAddresses
    <3>2. liveGroups' \subseteq liveGroups /\ liveAddresses' \subseteq liveAddresses
      BY <3>1
    <3>3. mc' \in 0..groups
      BY <1>0, <3>1 DEF HeapOK
    <3>4. QED
      BY <1>0, <3>1, <3>2, <3>3 DEF HeapOK
  <2>4. PartOK' /\ ClockOK'
    BY <1>0, <2>1 DEF PartOK, Parts, ClockOK, history
  <2>5. RestOK'
    <3>1. fault' = fault \/ fault' = fault \cup {"double delete"}
      BY <1>6 DEF DeleteGroup, ForgetGroup, DeleteAddresses, Blame
    <3>2. fault' \subseteq Faults
      BY <1>0, <3>1 DEF RestOK, Faults
    <3>3. QED
      BY <1>0, <2>1, <3>2 DEF RestOK
  <2>6. PartInv'
    BY <1>0, <2>1, <2>2 DEF PartInv, PartOK
  <2>7. QED
    BY <2>3, <2>4, <2>5, <2>6, DTypeParts
<1>7. QED
  BY <1>1, <1>2, <1>3, <1>4, <1>5, <1>6 DEF DControllerStep

LEMMA DWorkerTypes ==
  ASSUME ControlInv, DTypeOK, PartInv, NEW t \in Threads, NEW k \in 1..MaxStarts, DWorkerSteps(t, k)
  PROVE  DTypeOK' /\ PartInv'
<1>0. HeapOK /\ PartOK /\ ClockOK /\ RestOK
  BY DTypeParts
<1>1. UNCHANGED <<heap, part>> /\ UNCHANGED <<at, cur>>
  <2>1. CASE DBegin(t, k)
    BY <2>1 DEF DBegin, RunBegin, WorkerStep, place
  <2>2. CASE (RunEmpty(t, k) \/ RunBase(t, k) \/ TestStopping(t, k) \/ RunEnd(t, k)) /\ UNCHANGED dvars
    BY <2>2 DEF RunEmpty, RunBase, TestStopping, RunEnd, WorkerStep, place, dvars
  <2>3. CASE TickStep(k)
    BY <2>3 DEF TickStep, SleepOn, SecondElapsed, TenSecondTick, SendHeartbeat, MinuteTick,
                CountSecond, TickPart, Body, WorkerStep, place, vars
  <2>4. QED
    BY <2>1, <2>2, <2>3 DEF DWorkerSteps
<1>2. HeapOK' /\ PartOK' /\ PartInv'
  BY <1>0, <1>1 DEF HeapOK, PartOK, PartInv, heap
<1>3. fault' \subseteq Faults
  <2>1. CASE UNCHANGED fault
    BY <1>0, <2>1 DEF RestOK
  <2>2. CASE SendHeartbeat(k)
    BY <1>0, <2>2 DEF RestOK, SendHeartbeat, Faults
  <2>3. CASE TenSecondTick(k) \/ MinuteTick(k)
    BY <1>0, <2>3 DEF RestOK, TenSecondTick, MinuteTick, Blame, Faults
  <2>4. QED
    BY <2>1, <2>2, <2>3 DEF DWorkerSteps, DBegin, TickStep, SleepOn, SecondElapsed, CountSecond, dvars
<1>4. tick' \in [1..MaxStarts -> Ticks]
  <2>1. CASE UNCHANGED tick
    BY <1>0, <2>1 DEF ClockOK
  <2>2. CASE \E to \in Ticks : tick' = [tick EXCEPT ![k] = to]
    BY <1>0, <2>2 DEF ClockOK
  <2>3. CASE TickStep(k)
    BY <2>2, <2>3 DEF TickStep, SleepOn, SecondElapsed, TenSecondTick, SendHeartbeat, MinuteTick,
                      CountSecond, TickPart, Ticks
  <2>4. QED
    BY <2>1, <2>3 DEF DWorkerSteps, DBegin, dvars
<1>5. second' \in 0..(CounterSize - 1)
  <2>1. CASE UNCHANGED second
    BY <1>0, <2>1 DEF ClockOK
  <2>2. CASE second' = (second + 1) % CounterSize
    BY <1>0, <2>2, DiscoveryAssumption DEF ClockOK
  <2>3. QED
    BY <2>1, <2>2 DEF DWorkerSteps, DBegin, TickStep, SleepOn, SecondElapsed, TenSecondTick,
                      SendHeartbeat, MinuteTick, CountSecond, dvars
<1>6. silent' \in Nat /\ pausedBeats' \in 0..2
  <2>1. CASE UNCHANGED history
    BY <1>0, <2>1 DEF ClockOK, history
  <2>2. CASE DBegin(t, k) \/ SendHeartbeat(k) \/ CountSecond(k)
    BY <1>0, <2>2 DEF ClockOK, DBegin, SendHeartbeat, CountSecond
  <2>3. QED
    BY <2>1, <2>2 DEF DWorkerSteps, TickStep, SleepOn, SecondElapsed, TenSecondTick, MinuteTick, dvars
<1>7. ClockOK' /\ RestOK'
  BY <1>0, <1>1, <1>3, <1>4, <1>5, <1>6 DEF ClockOK, RestOK
<1>8. QED
  BY <1>2, <1>7, DTypeParts

LEMMA DTypeStep ==
  ASSUME ControlInv, DTypeOK, PartInv, [DNext]_allVars
  PROVE  ControlInv' /\ DTypeOK' /\ PartInv'
<1>1. ControlInv'
  BY DNextImplies, TypeStep, ControlStep DEF ControlInv
<1>2. ASSUME NEW c \in Controllers, NEW o \in Ops, Call(c, o), UNCHANGED dvars
      PROVE  DTypeOK' /\ PartInv'
  <2>1. HeapOK /\ PartOK /\ ClockOK /\ RestOK
    BY DTypeParts
  <2>2. HeapOK' /\ PartOK' /\ ClockOK' /\ RestOK'
    BY <1>2, <2>1 DEF HeapOK, PartOK, ClockOK, RestOK, dvars, heap, history
  <2>3. at \in [Controllers -> Places]
    BY DEF ControlInv, TypeOK
  <2>4. /\ at[c] # "prepare" /\ part' = part /\ addresses' = addresses
        /\ at' = [at EXCEPT ![c] = Entry(o)] /\ cur' = cur
    BY <1>2 DEF Call, Idle, Goto, dvars, heap
  <2>5. \A d \in Controllers : d # c => at'[d] = at[d] /\ cur'[d] = cur[d]
    BY <2>3, <2>4
  <2>6. PartInv'
    BY <2>4, <2>5, PartKept
  <2>7. QED
    BY <2>2, <2>6, DTypeParts
<1>3. CASE UNCHANGED allVars
  <2>1. UNCHANGED <<groups, mc, liveGroups, addresses, liveAddresses, usable, part,
                    tick, second, silent, pausedBeats, fault, at, cur>>
    BY <1>3 DEF allVars, dvars, heap, history, vars, place
  <2>2. HeapOK /\ PartOK /\ ClockOK /\ RestOK
    BY DTypeParts
  <2>3. HeapOK' /\ PartOK'
    BY <2>1, <2>2 DEF HeapOK, PartOK
  <2>4. ClockOK'
    BY <2>1, <2>2 DEF ClockOK
  <2>5. RestOK'
    BY <2>1, <2>2 DEF RestOK
  <2>6. DTypeOK'
    BY <2>3, <2>4, <2>5, DTypeParts, Zenon
  <2>7. PartInv'
    BY <2>1 DEF PartInv
  <2>8. QED
    BY <1>1, <2>6, <2>7
<1>4. QED
  BY <1>1, <1>2, <1>3, DControllerTypes, DWorkerTypes DEF DNext

\* Type correctness of the discovery thread: no join finds the map of addresses
\* gone, and no index leaves its range, whoever calls what.
THEOREM DiscoveryTypeCorrect == DSpec => []DTypeOK
<1>1. DInit => ControlInv /\ DTypeOK /\ PartInv
  BY DInitImplies, TypeInit, ControlInit, DTypeInit DEF ControlInv
<1>2. ControlInv /\ DTypeOK /\ PartInv /\ [DNext]_allVars => (ControlInv /\ DTypeOK /\ PartInv)'
  BY DTypeStep
<1>3. QED
  BY <1>1, <1>2, PTL DEF DSpec

-----------------------------------------------------------------------------
(* Clients in order. What the discovery thread holds, by where the one      *)
(* controller in a call is; and what its worker, if there is one, does      *)
(* with it.                                                                 *)

\* What InitializeMcGroups leaves, on a node with an interface and without.
Held ==
  /\ addresses # 0 /\ liveAddresses = {addresses}
  /\ usable = 1 => mc # 0
  /\ liveGroups = IF mc = 0 THEN {} ELSE {mc}

\* What ClearMcGroups leaves: the map and the list stay, their objects do not.
Freed == mc = 0 /\ liveGroups = {} /\ liveAddresses = {}

\* The addresses alone.
Enumerated ==
  /\ addresses # 0 /\ liveAddresses = {addresses}
  /\ liveGroups = {}

\* Inside InitializeThreads.
Making(c) ==
  LET mine == at[c] = "prepare" /\ cur[c] = discovery
      made == discovery \notin todo[c] \/ (at[c] = "initialize" /\ cur[c] = discovery)
  IN  /\ at[c] \in {"derive", "prepare", "initialize"} => cur[c] \in todo[c]
      /\ made => Held
      /\ mine /\ part[c] \in {"use", "join"} => Enumerated /\ mc = 0
      /\ mine /\ part[c] \in {"enumerate", "use"} => usable = 0
      /\ ~made /\ ~(mine /\ part[c] \in {"use", "join"}) => Freed

\* Inside StopThreads. Only the Stop of the discovery thread is not empty.
Losing(c) ==
  LET stopping == at[c] \in StopSteps \/ (at[c] = "leave" /\ part[c] = "clear")
  IN  /\ at[c] \in StopSteps \cup {"leave"} => cur[c] = discovery /\ override[c]
      /\ at[c] = "acquire" \/ discovery \in todo[c] \/ stopping => Held
      /\ at[c] = "leave" /\ part[c] \in {"forget", "delete"} => Enumerated
      /\ at[c] = "leave" /\ part[c] = "delete" => mc = 0
      /\ at[c] = "each" /\ discovery \notin todo[c] => Freed

HeapInv ==
  /\ \A c \in Controllers : ~Idle(c) /\ op[c] = "initialize" => Making(c)
  /\ \A c \in Controllers : ~Idle(c) /\ op[c] = "stop" => Losing(c)
  /\ phase \in {"initialized", "started"} /\ ~Stops /\ ~Exiting => Held
  /\ phase \in {"fresh", "stopped"} /\ ~Initializing => Freed

PlaceOfPart ==
  \A c \in Controllers : part[c] # "clear" =>
    \/ at[c] = "prepare" /\ cur[c] = discovery /\ part[c] \in {"enumerate", "use", "join"}
    \/ at[c] = "leave" /\ part[c] \in {"forget", "delete"}

\* The heartbeats a worker is behind, before and after it looked whether to
\* send one at this second.
Due == IF second % Ten = 0 THEN Ten ELSE second % Ten

TickInv ==
  \A k \in 1..MaxStarts :
    /\ worker[discovery][k] # "body" => tick[k] = "sleep"
    /\ worker[discovery][k] \in InLoop =>
         /\ usable = 0 => silent = 0
         /\ tick[k] \in {"sleep", "ten", "send"} => silent <= Due
         /\ tick[k] = "send" => usable = 1 /\ second % Ten = 0
         /\ tick[k] \in {"minute", "count"} => silent <= second % Ten

DOrderedInv ==
  /\ OrderedInv /\ DTypeOK /\ PartInv
  /\ PlaceOfPart /\ HeapInv /\ TickInv /\ NoFault /\ HeartbeatInTime

-----------------------------------------------------------------------------
\* The counter one second on.
LEMMA NextSecond ==
  ASSUME NEW s \in Nat, NEW n \in Nat \ {0}
  PROVE  /\ s % n \in 0..(n - 1)
         /\ (s + 1) % n = 0 \/ (s + 1) % n = (s % n) + 1
<1>1. s % n \in 0..(n - 1) /\ (s + 1) % n \in 0..(n - 1)
  OBVIOUS
<1>2. PICK q \in Int : s = n * q + (s % n)
  <2>1. s = n * (s \div n) + (s % n) /\ (s \div n) \in Int
    OBVIOUS
  <2> QED
    BY <2>1
<1>3. PICK p \in Int : s + 1 = n * p + ((s + 1) % n)
  <2>1. s + 1 = n * ((s + 1) \div n) + ((s + 1) % n) /\ ((s + 1) \div n) \in Int
    OBVIOUS
  <2> QED
    BY <2>1
<1>4. n * p - n * q = (s % n) + 1 - ((s + 1) % n)
  BY <1>1, <1>2, <1>3
<1>5. CASE p <= q
  <2>1. n * p <= n * q
    BY <1>5
  <2> QED
    BY <1>1, <1>4, <2>1
<1>6. CASE p >= q + 1
  <2>1. n * p >= n * (q + 1) /\ n * (q + 1) = n * q + n
    BY <1>6
  <2> QED
    BY <1>1, <1>4, <2>1
<1> QED
  BY <1>5, <1>6

LEMMA Wraps ==
  ASSUME NEW s \in Nat, NEW n \in Nat \ {0}, s <= n - 1
  PROVE  /\ (s + 1) % n = s + 1 \/ (s + 1) % n = 0
         /\ 0 % n = 0
<1>1. s % n = s /\ 0 % n = 0
  OBVIOUS
<1> QED
  BY <1>1, NextSecond

LEMMA DOrderedInit == DInit => DOrderedInv
<1> SUFFICES ASSUME DInit PROVE DOrderedInv
  OBVIOUS
<1>1. OrderedInv /\ DTypeOK /\ PartInv
  BY DInitImplies, OrderedInit, DTypeInit
<1>2. /\ phase = "fresh" /\ \A c \in Controllers : at[c] = "idle" /\ part[c] = "clear"
      /\ \A k \in 1..MaxStarts : worker[discovery][k] = "none" /\ tick[k] = "sleep"
      /\ silent = 0 /\ fault = {} /\ mc = 0 /\ liveGroups = {} /\ liveAddresses = {}
  BY DInitImplies, DiscoveryAssumption DEF DInit, Init
<1>3. HeapInv /\ PlaceOfPart /\ TickInv
  BY <1>2 DEF HeapInv, Freed, Idle, PlaceOfPart, TickInv, InLoop
<1> QED
  BY <1>1, <1>2, <1>3, DiscoveryAssumption DEF DOrderedInv, NoFault, HeartbeatInTime

\* Whose turn it is, also where a part of Initialize or Stop leaves the thread
\* service alone.
LEMMA DTurn ==
  ASSUME DOrderedInv, NEW c \in Controllers, DControllerStep(c)
  PROVE  /\ op' = op /\ at[c] # "idle" /\ InOrder(op[c]) /\ Legal(at[c], op[c])
         /\ \A d \in Controllers : d # c => at[d] = "idle" /\ at'[d] = "idle"
         /\ phase' = phase \/ at'[c] = "idle"
         /\ op[c] = "exit" => phase' = phase
         /\ Exiting <=> op[c] = "exit"
         /\ Exiting' <=> op[c] = "exit"
<1>1. ClientInv
  BY DEF DOrderedInv, OrderedInv
<1>2. CASE ControllerStep(c)
  <2>1. op[c] = "exit" => phase' = phase
    BY <1>1, <1>2, CallEnds DEF ClientInv
  <2> QED
    BY <1>1, <1>2, <2>1, Turn
<1>3. CASE UNCHANGED vars /\ at[c] # "idle"
  <2>1. UNCHANGED <<op, at, phase>>
    BY <1>3 DEF vars, place, client
  <2>2. /\ InOrder(op[c]) /\ Legal(at[c], op[c])
        /\ \A d \in Controllers : d # c => at[d] = "idle"
        /\ op[c] = "exit" => c = Main
    BY <1>1, <1>3 DEF ClientInv, ControlInv, PlaceInv, ExitInv, InTurn, Alone, Idle
  <2> QED
    BY <1>3, <2>1, <2>2, ControllersAssumption DEF Exiting, Idle
<1>4. ControllerStep(c) \/ (UNCHANGED vars /\ at[c] # "idle")
  BY ServiceElsewhere
     DEF DControllerStep, DPause, DestroyMembers, ControllerStep, StopThreadsStep, ClearUsable,
         EnumerateInterfaces, UseInterface, JoinGroup, PrepareOther, McPart, DeleteGroup,
         ForgetGroup, DeleteAddresses, ClearPart
<1> QED
  BY <1>2, <1>3, <1>4

\* What HeapInv says of the one controller in a call, before a step and after.
LEMMA HeapNow ==
  ASSUME DOrderedInv, NEW c \in Controllers, at[c] # "idle"
  PROVE  /\ op[c] = "initialize" => Making(c)
         /\ op[c] = "stop" => Losing(c)
         /\ op[c] \in {"start", "pause", "resume"} => Held
         /\ op[c] = "exit" /\ phase \in {"fresh", "stopped"} => Freed
<1>1. \A d \in Controllers : d # c => at[d] = "idle"
  BY DEF DOrderedInv, OrderedInv, ClientInv, Alone, Idle
<1>2. InOrder(op[c]) /\ (op[c] # "exit" => ~Exiting)
  BY <1>1, ControllersAssumption
     DEF DOrderedInv, OrderedInv, ClientInv, InTurn, Idle, Exiting
<1> QED
  BY <1>1, <1>2 DEF DOrderedInv, HeapInv, Idle, Stops, Initializing, InOrder

LEMMA HeapNext ==
  ASSUME NEW c \in Controllers, \A d \in Controllers : d # c => at'[d] = "idle",
         Exiting' <=> op'[c] = "exit",
         at'[c] # "idle" /\ op'[c] = "initialize" => Making(c)',
         at'[c] # "idle" /\ op'[c] = "stop" => Losing(c)',
         phase' \in {"initialized", "started"} /\ op'[c] # "exit"
           /\ (at'[c] = "idle" \/ op'[c] # "stop") => Held',
         phase' \in {"fresh", "stopped"} /\ (at'[c] = "idle" \/ op'[c] # "initialize") => Freed'
  PROVE  HeapInv'
BY DEF HeapInv, Stops, Initializing, Idle

\* A worker that is alive finds its thread built and its objects held.
LEMMA LiveHolds ==
  ASSUME DOrderedInv, ~Resting(discovery)
  PROVE  discovery \in built /\ Held
<1>0. discovery \in Threads /\ discovery \in Looping
  BY DiscoveryAssumption
<1>1. Life(discovery)
  BY <1>0 DEF DOrderedInv, OrderedInv, LifeInv
<1>2. phase = "started" \/ Started(discovery)
  BY <1>1 DEF Life
<1>3. ~Exiting /\ phase \in {"initialized", "started"}
  BY <1>2, ControllersAssumption
     DEF DOrderedInv, OrderedInv, ClientInv, Alone, InTurn, InOrder, Exiting, Started, Idle
<1>4. discovery \in built
  BY <1>0, <1>3 DEF DOrderedInv, OrderedInv, BuiltInv
<1>5. ASSUME ~Stops PROVE Held
  BY <1>3, <1>5 DEF DOrderedInv, HeapInv
<1>6. ASSUME NEW c \in Controllers, op[c] = "stop", ~Idle(c) PROVE Held
  <2>1. Losing(c) /\ Legal(at[c], "stop")
    BY <1>6 DEF DOrderedInv, HeapInv, OrderedInv, ClientInv, ControlInv, PlaceInv
  <2>2. phase = "started" /\ \A d \in Controllers : d # c => at[d] = "idle"
    BY <1>6 DEF DOrderedInv, OrderedInv, ClientInv, Alone, InTurn, InOrder, Idle
  <2>3. Marked(discovery) \/ ~Done(discovery)
    BY <1>1, <2>2 DEF Life
  <2>4. at[c] \in {"acquire"} \cup Critical
    <3>1. at[c] \in Places
      BY DEF DOrderedInv, OrderedInv, ClientInv, ControlInv, TypeOK
    <3> QED
      BY <1>6, <2>1, <3>1 DEF Legal, Locked, Critical, StopSteps, Places, Idle
  <2>5. \/ at[c] = "acquire" \/ discovery \in todo[c]
        \/ at[c] \in StopSteps
    BY <1>0, <1>6, <2>2, <2>3, <2>4, Sole DEF StopSteps
  <2> QED
    BY <2>1, <2>5 DEF Losing
<1> QED
  BY <1>4, <1>5, <1>6 DEF Stops

\* What a step of the service that moves no part of the discovery thread
\* leaves of PlaceOfPart.
LEMMA PlacesKept ==
  ASSUME PlaceOfPart, NEW c \in Controllers, part' = part, part[c] = "clear",
         \A d \in Controllers : d # c => at[d] = "idle"
  PROVE  PlaceOfPart'
BY DEF PlaceOfPart

\* InitializeThreads makes what it finds freed.
LEMMA HeapOfInitialize ==
  ASSUME DOrderedInv, NEW c \in Controllers, DControllerStep(c), op[c] = "initialize"
  PROVE  HeapInv' /\ PlaceOfPart' /\ fault' = fault
<1>0. /\ todo \in [Controllers -> SUBSET Threads] /\ at \in [Controllers -> Places]
      /\ cur \in [Controllers -> Threads] /\ part \in [Controllers -> Parts]
      /\ groups \in Nat
  BY DEF DOrderedInv, OrderedInv, ClientInv, ControlInv, TypeOK, DTypeOK
<1>1. /\ op' = op /\ at[c] # "idle" /\ Legal(at[c], "initialize")
      /\ phase \in {"fresh", "stopped"} /\ ~Exiting'
      /\ \A d \in Controllers : d # c => at[d] = "idle" /\ at'[d] = "idle"
  BY DTurn DEF InOrder
<1>2. Making(c)
  BY <1>1, HeapNow
<1>3. /\ \A d \in Controllers : d # c => part[d] = "clear"
      /\ part[c] # "clear" => at[c] = "prepare" /\ cur[c] = discovery
                              /\ part[c] \in {"enumerate", "use", "join"}
  BY <1>1 DEF DOrderedInv, PlaceOfPart, Legal
<1> DEFINE Kept == /\ at'[c] # "idle" => Making(c)' /\ phase' = phase
                   /\ at'[c] = "idle" => Held' /\ phase' = "initialized"
                   /\ PlaceOfPart' /\ fault' = fault
<1> SUFFICES Kept
  BY <1>1, HeapNext
<1>4. ASSUME ServiceStep(c), UNCHANGED dvars PROVE Kept
  <2>1. at[c] # "prepare" /\ part[c] = "clear"
    BY <1>3, <1>4, ServiceElsewhere
  <2>2. UNCHANGED <<part, fault, usable, addresses, liveAddresses, mc, liveGroups>>
    BY <1>4 DEF dvars, heap
  <2>3. PlaceOfPart'
    BY <1>1, <2>1, <2>2, PlacesKept DEF DOrderedInv
  <2> USE <1>0, <1>2, <2>1, <2>2, <2>3 DEF Making, Held, Freed, Enumerated
  <2>4. ASSUME NEW t \in Threads, RegisterThread(c, t) PROVE Kept
    BY <2>4 DEF RegisterThread, InitializeStep, FirstNamed, Goto, Visit
  <2>5. ASSUME NEW t \in Threads, GetInstance(c, t) PROVE Kept
    BY <2>5 DEF GetInstance, InitializeStep, FirstNamed, Goto, Visit
  <2>6. CASE FinishConstructor(c)
    BY <2>6 DEF FinishConstructor, InitializeStep, Goto
  <2>7. CASE Initialize(c)
    BY <2>7 DEF Initialize, InitializeStep, Goto
  <2>8. CASE ReturnInitialize(c)
    BY <1>1, <2>8, DiscoveryAssumption DEF ReturnInitialize, Return, Goto
  <2>9. \/ \E t \in Threads : RegisterThread(c, t) \/ GetInstance(c, t)
        \/ FinishConstructor(c) \/ Initialize(c) \/ ReturnInitialize(c)
    BY <1>1, <1>4 DEF Legal, Locked, StopSteps, ServiceStep, Acquire, Release, Start, Resume,
              Stop, Each, StopStep, CheckStopped, CheckStopping, MarkStopping,
              AwaitStopped, MarkStopped, Delete, UnregisterThread, Leave, ExitStep
  <2> QED
    BY <2>4, <2>5, <2>6, <2>7, <2>8, <2>9
<1>5. CASE ClearUsable(c)
  <2>1. /\ at[c] = "prepare" /\ cur[c] = discovery /\ part[c] = "clear"
        /\ part' = [part EXCEPT ![c] = "enumerate"] /\ usable' = 0
        /\ UNCHANGED <<at, cur, todo, phase, fault, addresses, liveAddresses, mc, liveGroups>>
    BY <1>5 DEF ClearUsable, McPart, vars, place, client
  <2>2. Making(c)'
    BY <1>0, <1>2, <2>1 DEF Making, Held, Freed, Enumerated
  <2>3. PlaceOfPart'
    BY <1>0, <1>3, <2>1 DEF PlaceOfPart
  <2> QED
    BY <2>1, <2>2, <2>3
<1>6. CASE EnumerateInterfaces(c)
  <2>1. /\ at[c] = "prepare" /\ cur[c] = discovery /\ part[c] = "enumerate"
        /\ addresses' = groups + 1 /\ liveAddresses' = liveAddresses \cup {groups + 1}
        /\ UNCHANGED <<todo, cur, phase, fault, mc, liveGroups, usable>>
        /\ \/ part' = [part EXCEPT ![c] = "use"] /\ at' = at
           \/ /\ part' = [part EXCEPT ![c] = "clear"]
              /\ at' = [at EXCEPT ![c] = "initialize"]
    BY <1>6 DEF EnumerateInterfaces, McPart, vars, place, client, Prepare, InitializeStep, Goto
  <2>2. addresses' # 0
    BY <1>0, <2>1
  <2>3. Making(c)'
    BY <1>0, <1>2, <2>1, <2>2 DEF Making, Held, Freed, Enumerated
  <2>4. PlaceOfPart'
    BY <1>0, <1>3, <2>1 DEF PlaceOfPart
  <2>5. at'[c] # "idle"
    BY <1>0, <2>1
  <2> QED
    BY <2>1, <2>3, <2>4, <2>5
<1>7. CASE UseInterface(c)
  <2>1. /\ at[c] = "prepare" /\ cur[c] = discovery /\ part[c] = "use"
        /\ part' = [part EXCEPT ![c] = "join"] /\ usable' = 1
        /\ UNCHANGED <<at, cur, todo, phase, fault, addresses, liveAddresses, mc, liveGroups>>
    BY <1>7 DEF UseInterface, McPart, vars, place, client
  <2>2. Making(c)'
    BY <1>0, <1>2, <2>1 DEF Making, Held, Freed, Enumerated
  <2>3. PlaceOfPart'
    BY <1>0, <1>3, <2>1 DEF PlaceOfPart
  <2> QED
    BY <2>1, <2>2, <2>3
<1>8. CASE JoinGroup(c)
  <2>1. /\ at[c] = "prepare" /\ cur[c] = discovery /\ part[c] = "join"
        /\ part' = [part EXCEPT ![c] = "clear"] /\ at' = [at EXCEPT ![c] = "initialize"]
        /\ mc' = addresses /\ liveGroups' = liveGroups \cup {addresses}
        /\ UNCHANGED <<cur, todo, phase, fault, addresses, liveAddresses, usable>>
    BY <1>8 DEF JoinGroup, McPart, Prepare, InitializeStep, Goto
  <2>2. Making(c)'
    BY <1>0, <1>2, <2>1 DEF Making, Held, Freed, Enumerated
  <2>3. PlaceOfPart'
    BY <1>0, <1>3, <2>1 DEF PlaceOfPart
  <2>4. at'[c] # "idle"
    BY <1>0, <2>1
  <2> QED
    BY <2>1, <2>2, <2>3, <2>4
<1>9. CASE PrepareOther(c)
  <2>1. /\ at[c] = "prepare" /\ cur[c] # discovery /\ at' = [at EXCEPT ![c] = "initialize"]
        /\ UNCHANGED <<cur, todo, phase, fault, part, addresses, liveAddresses, mc, liveGroups,
                       usable>>
    BY <1>9 DEF PrepareOther, Prepare, InitializeStep, Goto, dvars, heap
  <2>2. Making(c)'
    BY <1>0, <1>2, <2>1 DEF Making, Held, Freed, Enumerated
  <2>3. PlaceOfPart'
    BY <1>1, <1>3, <2>1, PlacesKept DEF DOrderedInv
  <2>4. at'[c] # "idle"
    BY <1>0, <2>1
  <2> QED
    BY <2>1, <2>2, <2>3, <2>4
<1>10. /\ ~DeleteGroup(c) /\ ~ForgetGroup(c) /\ ~DeleteAddresses(c)
       /\ \A t \in Threads : ~DPause(c, t) /\ ~DestroyMembers(c, t)
  BY <1>1 DEF Legal, Locked, DeleteGroup, ForgetGroup, DeleteAddresses, ClearPart, DPause, Pause,
              Each, DestroyMembers, Destroy, ExitStep
<1> QED
  BY <1>4, <1>5, <1>6, <1>7, <1>8, <1>9, <1>10 DEF DControllerStep

\* StopThreads frees what it finds held, once.
LEMMA HeapOfStop ==
  ASSUME DOrderedInv, NEW c \in Controllers, DControllerStep(c), op[c] = "stop"
  PROVE  HeapInv' /\ PlaceOfPart' /\ fault' = fault
<1>0. /\ todo \in [Controllers -> SUBSET Threads] /\ at \in [Controllers -> Places]
      /\ cur \in [Controllers -> Threads] /\ part \in [Controllers -> Parts]
      /\ override \in [Controllers -> BOOLEAN] /\ discovery \in Threads
      /\ Looping = {discovery}
  BY DiscoveryAssumption DEF DOrderedInv, OrderedInv, ClientInv, ControlInv, TypeOK, DTypeOK
<1>1. /\ op' = op /\ at[c] # "idle" /\ Legal(at[c], "stop")
      /\ phase = "started" /\ ~Exiting /\ ~Exiting'
      /\ \A d \in Controllers : d # c => at[d] = "idle" /\ at'[d] = "idle"
  BY DTurn DEF InOrder
<1>2. Losing(c)
  BY <1>1, HeapNow
<1>3. /\ \A d \in Controllers : d # c => part[d] = "clear"
      /\ part[c] # "clear" => at[c] = "leave" /\ part[c] \in {"forget", "delete"}
  BY <1>1 DEF DOrderedInv, PlaceOfPart, Legal
<1>4. registered = Threads /\ built = Threads
  BY <1>1 DEF DOrderedInv, OrderedInv, BuiltInv
<1>5. at[c] \in StopSteps \cup {"leave"} => cur[c] \notin todo[c]
  BY <1>1 DEF DOrderedInv, OrderedInv, VisitInv
<1> DEFINE Kept == /\ at'[c] # "idle" => Losing(c)' /\ phase' = phase
                   /\ at'[c] = "idle" => Freed' /\ phase' = "stopped"
                   /\ PlaceOfPart' /\ fault' = fault
<1> SUFFICES Kept
  BY <1>1, HeapNext
<1>6. ASSUME ServiceStep(c), UNCHANGED dvars PROVE Kept
  <2>1. UNCHANGED <<part, fault, usable, addresses, liveAddresses, mc, liveGroups>>
    BY <1>6 DEF dvars, heap
  <2>2. at[c] # "leave" /\ part[c] = "clear"
    BY <1>1, <1>3, <1>6 DEF ServiceStep, Acquire, Release, Start, Resume, Stop, Each,
              CheckStopped, CheckStopping, MarkStopping, AwaitStopped, MarkStopped, StopStep,
              RegisterThread, GetInstance, FinishConstructor, Initialize, ReturnInitialize,
              InitializeStep, Delete, UnregisterThread, Leave, ExitStep
  <2>3. PlaceOfPart'
    BY <1>1, <2>1, <2>2, PlacesKept DEF DOrderedInv
  <2> USE <1>0, <1>2, <2>1, <2>2, <2>3 DEF Losing, Held, Freed, Enumerated
  <2>4. CASE Acquire(c)
    <3>1. /\ at[c] = "acquire" /\ at'[c] = "each" /\ todo'[c] = registered /\ phase' = phase
      BY <2>4 DEF Acquire, Goto, client
    <3> QED
      BY <1>4, <3>1 DEF StopSteps
  <2>5. CASE Release(c)
    <3>1. /\ at[c] = "each" /\ at'[c] = "idle" /\ todo[c] = {} /\ phase' = "stopped"
      BY <1>1, <2>5 DEF Release, Return, Goto
    <3> QED
      BY <3>1 DEF StopSteps
  <2>6. ASSUME NEW t \in Threads, Stop(c, t) PROVE Kept
    <3>1. /\ at[c] = "each" /\ t \in todo[c] /\ todo' = [todo EXCEPT ![c] = @ \ {t}]
          /\ phase' = phase
      BY <2>6 DEF Stop, Each, FirstInMap, client
    <3>2. CASE t = discovery
      <4>1. at'[c] = "check" /\ cur'[c] = t /\ override'[c]
        BY <1>4, <2>6, <3>2 DEF Stop, Empty, Goto, Visit
      <4> QED
        BY <3>1, <3>2, <4>1 DEF StopSteps
    <3>3. CASE t # discovery
      <4>1. at' = at
        BY <1>4, <2>6, <3>3 DEF Stop, Empty
      <4>2. discovery \in todo'[c] <=> discovery \in todo[c]
        BY <3>1, <3>3
      <4> QED
        BY <3>1, <4>1, <4>2 DEF StopSteps
    <3> QED
      BY <3>2, <3>3
  <2>7. CASE \/ CheckStopped(c) \/ CheckStopping(c) \/ MarkStopping(c)
             \/ AwaitStopped(c) \/ MarkStopped(c)
    <3>1. /\ UNCHANGED <<todo, cur, override, phase>> /\ at[c] \in StopSteps
          /\ at'[c] \in StopSteps \cup {AfterStop(c)}
      BY <2>7 DEF StopStep, CheckStopped, CheckStopping, MarkStopping, AwaitStopped,
                  MarkStopped, Goto, StopSteps, client
    <3>2. AfterStop(c) = "leave"
      BY <3>1 DEF AfterStop
    <3> QED
      BY <1>5, <3>1, <3>2 DEF StopSteps
  <2>8. \/ \E t \in Threads : Stop(c, t)
        \/ Acquire(c) \/ Release(c) \/ CheckStopped(c) \/ CheckStopping(c) \/ MarkStopping(c)
        \/ AwaitStopped(c) \/ MarkStopped(c)
    BY <1>1, <1>6 DEF Legal, ServiceStep, Start, Resume, Each, RegisterThread, GetInstance,
              FinishConstructor, Initialize, ReturnInitialize, InitializeStep, Delete,
              UnregisterThread, Leave, ExitStep
  <2> QED
    BY <2>4, <2>5, <2>6, <2>7, <2>8
<1>7. CASE DeleteGroup(c)
  <2>1. /\ at[c] = "leave" /\ part[c] = "clear" /\ part' = [part EXCEPT ![c] = "forget"]
        /\ liveGroups' = liveGroups \ {mc}
        /\ fault' = IF mc # 0 /\ mc \notin liveGroups THEN fault \cup {"double delete"} ELSE fault
        /\ UNCHANGED <<at, cur, todo, override, phase, addresses, liveAddresses, mc, usable>>
    BY <1>7 DEF DeleteGroup, ClearPart, Blame, vars, place, client
  <2>2. Losing(c)'
    BY <1>0, <1>2, <1>5, <2>1 DEF Losing, Held, Freed, Enumerated, StopSteps
  <2>3. PlaceOfPart'
    BY <1>0, <1>3, <2>1 DEF PlaceOfPart
  <2>4. fault' = fault
    BY <1>2, <2>1 DEF Losing, Held
  <2> QED
    BY <2>1, <2>2, <2>3, <2>4
<1>8. CASE ForgetGroup(c)
  <2>1. /\ at[c] = "leave" /\ part[c] = "forget" /\ part' = [part EXCEPT ![c] = "delete"]
        /\ mc' = 0
        /\ UNCHANGED <<at, cur, todo, override, phase, fault, addresses, liveAddresses,
                       liveGroups, usable>>
    BY <1>8 DEF ForgetGroup, ClearPart, vars, place, client
  <2>2. Losing(c)'
    BY <1>0, <1>2, <1>5, <2>1 DEF Losing, Held, Freed, Enumerated, StopSteps
  <2>3. PlaceOfPart'
    BY <1>0, <1>3, <2>1 DEF PlaceOfPart
  <2> QED
    BY <2>1, <2>2, <2>3
<1>9. CASE DeleteAddresses(c)
  <2>1. /\ at[c] = "leave" /\ part[c] = "delete" /\ part' = [part EXCEPT ![c] = "clear"]
        /\ at' = [at EXCEPT ![c] = "each"] /\ liveAddresses' = liveAddresses \ {addresses}
        /\ fault' = IF addresses # 0 /\ addresses \notin liveAddresses
                    THEN fault \cup {"double delete"} ELSE fault
        /\ UNCHANGED <<cur, todo, override, phase, addresses, liveGroups, mc, usable>>
    BY <1>9 DEF DeleteAddresses, ClearPart, Blame, LeaveStop, StopStep, Goto, client
  <2>2. Losing(c)'
    BY <1>0, <1>2, <1>5, <2>1 DEF Losing, Held, Freed, Enumerated, StopSteps
  <2>3. PlaceOfPart'
    BY <1>0, <1>3, <2>1 DEF PlaceOfPart
  <2>4. fault' = fault /\ at'[c] # "idle"
    BY <1>0, <1>2, <2>1 DEF Losing, Enumerated
  <2> QED
    BY <2>1, <2>2, <2>3, <2>4
<1>10. /\ ~ClearUsable(c) /\ ~EnumerateInterfaces(c) /\ ~UseInterface(c) /\ ~JoinGroup(c)
       /\ ~PrepareOther(c)
       /\ \A t \in Threads : ~DPause(c, t) /\ ~DestroyMembers(c, t)
  BY <1>1 DEF Legal, ClearUsable, EnumerateInterfaces, UseInterface, JoinGroup, PrepareOther,
              McPart, Prepare, InitializeStep, DPause, Pause, Each, DestroyMembers, Destroy,
              ExitStep
<1> QED
  BY <1>6, <1>7, <1>8, <1>9, <1>10 DEF DControllerStep

\* The other operations touch neither the group nor the addresses; the exit
\* takes the map, not what is in it.
LEMMA HeapOfOthers ==
  ASSUME DOrderedInv, NEW c \in Controllers, DControllerStep(c),
         op[c] \notin {"initialize", "stop"}
  PROVE  HeapInv' /\ PlaceOfPart' /\ fault' = fault
<1>0. op \in [Controllers -> Ops] /\ at \in [Controllers -> Places]
  BY DEF DOrderedInv, OrderedInv, ClientInv, ControlInv, TypeOK
<1>1. /\ op' = op /\ at[c] # "idle" /\ InOrder(op[c]) /\ Legal(at[c], op[c])
      /\ \A d \in Controllers : d # c => at[d] = "idle" /\ at'[d] = "idle"
      /\ phase' = phase \/ at'[c] = "idle"
      /\ op[c] = "exit" => phase' = phase
      /\ Exiting' <=> op[c] = "exit"
  BY DTurn
<1>2. at[c] \notin {"prepare", "leave"}
  BY <1>1 DEF Legal
<1>3. /\ UNCHANGED <<part, fault, mc, liveGroups, liveAddresses>>
      /\ op[c] # "exit" => UNCHANGED <<usable, addresses>>
      /\ phase' # phase => phase' = "started"
  <2>1. CASE ServiceStep(c) /\ UNCHANGED dvars
    <3>1. phase' = phase \/ phase' = "started"
      BY <1>1, <2>1 DEF ServiceStep, Acquire, Release, Return, Start, Resume, Stop,
              CheckStopped, CheckStopping, MarkStopping, AwaitStopped, MarkStopped, StopStep,
              RegisterThread, GetInstance, FinishConstructor, Initialize, ReturnInitialize,
              Legal, Delete, UnregisterThread, Leave, ExitStep, client
    <3> QED
      BY <2>1, <3>1 DEF dvars, heap
  <2>2. ASSUME NEW t \in Threads, DPause(c, t)
        PROVE  UNCHANGED <<part, fault, mc, liveGroups, liveAddresses, usable, addresses, phase>>
    BY <2>2 DEF DPause, Pause, heap, client
  <2>3. ASSUME NEW t \in Threads, DestroyMembers(c, t)
        PROVE  op[c] = "exit" /\ UNCHANGED <<part, fault, mc, liveGroups, liveAddresses, phase>>
    BY <1>1, <2>3 DEF DestroyMembers, Destroy, ExitStep, Legal, client
  <2> QED
    BY <1>2, <2>1, <2>2, <2>3
       DEF DControllerStep, ClearUsable, EnumerateInterfaces, UseInterface, JoinGroup,
           PrepareOther, McPart, Prepare, InitializeStep, DeleteGroup, ForgetGroup,
           DeleteAddresses, ClearPart
<1>4. part[c] = "clear"
  BY <1>2 DEF DOrderedInv, PlaceOfPart
<1>5. PlaceOfPart'
  BY <1>1, <1>3, <1>4, PlacesKept DEF DOrderedInv
<1>6. /\ op[c] \in {"start", "pause", "resume"} => Held
      /\ op[c] = "exit" /\ phase \in {"fresh", "stopped"} => Freed
  BY <1>1, HeapNow
<1>7. CASE op[c] = "exit"
  <2>1. phase' = phase /\ phase' # "started" /\ (phase' = "initialized" => op'[c] = "exit")
    BY <1>1, <1>7 DEF InOrder
  <2>2. phase' \in {"fresh", "stopped"} => Freed'
    BY <1>3, <1>6, <1>7, <2>1 DEF Freed
  <2>3. HeapInv'
    BY <1>1, <1>7, <2>1, <2>2, HeapNext
  <2> QED
    BY <1>3, <1>5, <2>3
<1>8. CASE op[c] \in {"start", "pause", "resume"}
  <2>1. Held' /\ phase' \in {"initialized", "started"}
    BY <1>1, <1>3, <1>6, <1>8 DEF Held, InOrder
  <2>2. HeapInv'
    BY <1>1, <1>8, <2>1, HeapNext
  <2> QED
    BY <1>3, <1>5, <1>8, <2>2
<1> QED
  BY <1>0, <1>3, <1>5, <1>7, <1>8 DEF Ops

-----------------------------------------------------------------------------
(* The worker.                                                             *)

\* InitializeThreads and the exit find no worker alive.
LEMMA AtRest ==
  ASSUME DOrderedInv, NEW c \in Controllers, at[c] # "idle", op[c] \in {"initialize", "exit"}
  PROVE  Resting(discovery)
<1>1. \A d \in Controllers : d # c => at[d] = "idle"
  BY DEF DOrderedInv, OrderedInv, ClientInv, Alone, Idle
<1>2. InOrder(op[c])
  BY DEF DOrderedInv, OrderedInv, ClientInv, InTurn, Idle
<1>3. ~Started(discovery) /\ phase # "started"
  BY <1>1, <1>2, Sole, DiscoveryAssumption DEF InOrder
<1> QED
  BY <1>3, DiscoveryAssumption DEF DOrderedInv, OrderedInv, LifeInv, Life

LEMMA TickOfController ==
  ASSUME DOrderedInv, NEW c \in Controllers, DControllerStep(c)
  PROVE  TickInv' /\ silent' = silent
<1>0. /\ MaxStarts \in Nat /\ discovery \in Looping /\ Looping \subseteq Threads
      /\ worker \in [Threads -> [1..MaxStarts -> Stages]] /\ starts \in [Threads -> 0..MaxStarts]
  BY ClientAssumption, ThreadsAssumption, DiscoveryAssumption
     DEF MaxStarts, Ops, DOrderedInv, OrderedInv, ClientInv, ControlInv, TypeOK
<1>1. at[c] # "idle" /\ Legal(at[c], op[c])
  BY DTurn
<1>2. UNCHANGED <<tick, second, silent>>
  BY DEF DControllerStep, dvars, history, DPause, DestroyMembers, ClearUsable,
         EnumerateInterfaces, UseInterface, JoinGroup, PrepareOther, McPart, DeleteGroup,
         ForgetGroup, DeleteAddresses, ClearPart
<1>3. usable' = usable \/ op[c] \in {"initialize", "exit"}
  BY <1>1 DEF Legal, DControllerStep, dvars, heap, DPause, DestroyMembers, Destroy, ExitStep,
         ClearUsable, EnumerateInterfaces, UseInterface, JoinGroup, PrepareOther, McPart,
         DeleteGroup, ForgetGroup, DeleteAddresses, ClearPart
<1>4. \/ UNCHANGED worker
      \/ \E n \in 1..MaxStarts : /\ worker'[discovery] = [worker[discovery] EXCEPT ![n] = "spawned"]
                                 /\ Resting(discovery)
      \/ UNCHANGED worker[discovery]
  <2>1. DControllerStep(c) => ControllerStep(c) \/ UNCHANGED vars
    BY ServiceElsewhere
       DEF DControllerStep, DPause, DestroyMembers, ControllerStep, StopThreadsStep, ClearUsable,
           EnumerateInterfaces, UseInterface, JoinGroup, PrepareOther, DeleteGroup,
           ForgetGroup, DeleteAddresses
  <2>2. CASE UNCHANGED vars
    BY <2>2 DEF vars
  <2>3. ASSUME NEW t \in Threads, Start(c, t), t = discovery
        PROVE  \E n \in 1..MaxStarts :
                 /\ worker'[discovery] = [worker[discovery] EXCEPT ![n] = "spawned"]
                 /\ Resting(discovery)
    <3>1. Resting(discovery)
      BY <1>0, <2>3, LifeOfStart DEF DOrderedInv
    <3>2. starts[discovery] + 1 \in 1..MaxStarts
      BY <1>0, <2>3 DEF Start
    <3>3. worker'[discovery] = [worker[discovery] EXCEPT ![starts[discovery] + 1] = "spawned"]
      BY <1>0, <2>3 DEF Start
    <3> QED
      BY <3>1, <3>2, <3>3
  <2>4. ASSUME NEW t \in Threads, Start(c, t), t # discovery PROVE UNCHANGED worker[discovery]
    BY <1>0, <2>4 DEF Start
  <2>5. CASE ControllerStep(c) /\ \A t \in Threads : ~Start(c, t)
    BY <2>5, WorkersKept DEF DOrderedInv, OrderedInv
  <2> QED
    BY <2>1, <2>2, <2>3, <2>4, <2>5
<1>5. ASSUME NEW k \in 1..MaxStarts
      PROVE  /\ worker'[discovery][k] = "body" => worker[discovery][k] = "body"
             /\ worker'[discovery][k] \in InLoop => worker[discovery][k] \in InLoop
             /\ worker[discovery][k] = "body" => worker'[discovery][k] = "body"
  BY <1>0, <1>4 DEF Resting, Live, InLoop
<1>6. ASSUME NEW k \in 1..MaxStarts, worker[discovery][k] \in InLoop PROVE usable' = usable
  <2>1. ~Resting(discovery)
    BY <1>6 DEF Resting, Live
  <2> QED
    BY <1>1, <1>3, <2>1, AtRest
<1> QED
  BY <1>2, <1>5, <1>6 DEF DOrderedInv, TickInv, Due

\* A step of the worker: it keeps the beat and meets no dead object.
LEMMA TickOfWorker ==
  ASSUME DOrderedInv, NEW t \in Threads, NEW k \in 1..MaxStarts, DWorkerSteps(t, k)
  PROVE  TickInv' /\ silent' <= Ten /\ fault' = fault
<1> DEFINE d == discovery
<1>0. /\ MaxStarts \in Nat /\ d \in Looping /\ Looping = {d} /\ d \in Threads
      /\ worker \in [Threads -> [1..MaxStarts -> Stages]]
      /\ tick \in [1..MaxStarts -> Ticks] /\ usable \in {0, 1} /\ silent \in Nat
      /\ second \in Nat /\ second <= CounterSize - 1 /\ CounterSize \in Nat \ {0}
      /\ Ten \in Nat \ {0} /\ silent <= Ten /\ TickInv
  <2>1. MaxStarts \in Nat /\ d \in Looping /\ Looping = {d} /\ d \in Threads
    BY ClientAssumption, DiscoveryAssumption DEF MaxStarts, Ops
  <2>2. worker \in [Threads -> [1..MaxStarts -> Stages]]
    BY DEF DOrderedInv, OrderedInv, ClientInv, ControlInv, TypeOK
  <2>3. /\ tick \in [1..MaxStarts -> Ticks] /\ usable \in {0, 1} /\ silent \in Nat
        /\ second \in 0..(CounterSize - 1)
    BY DEF DOrderedInv, DTypeOK
  <2>4. CounterSize \in Nat \ {0} /\ Ten \in Nat \ {0}
    BY DiscoveryAssumption
  <2>5. silent <= Ten /\ TickInv
    BY DEF DOrderedInv, HeartbeatInTime
  <2> HIDE DEF d
  <2> QED
    BY <2>1, <2>2, <2>3, <2>4, <2>5
<1>1. second % Ten \in 0..(Ten - 1)
  BY <1>0, NextSecond
<1>2. CASE t # d
  <2>1. UNCHANGED <<dvars, worker[d]>>
    BY <1>0, <1>2 DEF DWorkerSteps, DBegin, RunBegin, RunEmpty, RunBase, TestStopping, RunEnd,
                      WorkerStep
  <2> QED
    BY <1>0, <2>1 DEF TickInv, Due, dvars, heap, history
<1>3. CASE t = d
  <2>1. worker[d][k] \in {"spawned"} \cup InLoop
    BY <1>3 DEF DWorkerSteps, DBegin, RunBegin, RunEmpty, RunBase, TestStopping, RunEnd,
                TickStep, SleepOn, SecondElapsed, TenSecondTick, SendHeartbeat, MinuteTick,
                CountSecond, TickPart, WorkerStep, InLoop
  <2>2. d \in built /\ Held
    BY <1>0, <2>1, LiveHolds DEF Resting, Live
  <2>3. ~RunEmpty(t, k) /\ ~RunBase(t, k)
    BY <1>0, <1>3, <2>2 DEF RunEmpty, Empty, RunBase
  <2>4. \A j \in 1..MaxStarts : j # k => worker[d][j] \notin InLoop
    BY <1>0, <2>1 DEF DOrderedInv, OrderedInv, OneWorker, Live
  \* It is enough to look at this worker.
  <2> DEFINE Beat == /\ worker'[d][k] # "body" => tick'[k] = "sleep"
                     /\ worker'[d][k] \in InLoop =>
                          /\ usable = 0 => silent' = 0
                          /\ tick'[k] \in {"sleep", "ten", "send"} => silent' <= Due'
                          /\ tick'[k] = "send" => usable = 1 /\ second' % Ten = 0
                          /\ tick'[k] \in {"minute", "count"} => silent' <= second' % Ten
                     /\ usable' = usable
                     /\ \A j \in 1..MaxStarts : j # k => /\ worker'[d][j] = worker[d][j]
                                                         /\ tick'[j] = tick[j]
                     /\ silent' <= Ten /\ fault' = fault
  <2> SUFFICES Beat
    BY <1>0, <2>4 DEF TickInv, InLoop
  <2>5. \A to \in Stages, j \in 1..MaxStarts :
          worker' = [worker EXCEPT ![t][k] = to] =>
            worker'[d][j] = IF j = k THEN to ELSE worker[d][j]
    BY <1>0, <1>3
  <2>6. CASE DBegin(t, k)
    <3>1. worker'[d][k] = "test" /\ tick'[k] = "sleep" /\ silent' = 0
      BY <1>0, <1>3, <2>6 DEF DBegin, RunBegin, WorkerStep, TickInv
    <3>2. UNCHANGED <<tick, second, usable, fault>>
      BY <2>6 DEF DBegin, heap
    <3>3. \A j \in 1..MaxStarts : j # k => worker'[d][j] = worker[d][j]
      BY <1>0, <1>3, <2>6 DEF DBegin, RunBegin, WorkerStep
    <3> QED
      BY <1>0, <1>1, <3>1, <3>2, <3>3 DEF Due
  <2>7. CASE TestStopping(t, k) /\ UNCHANGED dvars
    <3>1. worker[d][k] = "test" /\ worker'[d][k] \in {"ending", "body"}
          /\ \A j \in 1..MaxStarts : j # k => worker'[d][j] = worker[d][j]
      BY <1>0, <1>3, <2>7 DEF TestStopping, WorkerStep
    <3> QED
      BY <1>0, <2>7, <3>1 DEF TickInv, Due, dvars, heap, history, InLoop
  <2>8. CASE RunEnd(t, k) /\ UNCHANGED dvars
    <3>1. worker[d][k] = "ending" /\ worker'[d][k] = "ended"
          /\ \A j \in 1..MaxStarts : j # k => worker'[d][j] = worker[d][j]
      BY <1>0, <1>3, <2>8 DEF RunEnd, WorkerStep
    <3> QED
      BY <1>0, <2>8, <3>1 DEF TickInv, dvars, heap, history, InLoop
  <2>9. ASSUME NEW from \in Ticks, NEW to \in Ticks, TickPart(k, from, to)
        PROVE  /\ worker[d][k] = "body" /\ tick[k] = from /\ tick'[k] = to
               /\ usable' = usable
               /\ \A j \in 1..MaxStarts : j # k => tick'[j] = tick[j]
    BY <1>0, <2>9 DEF TickPart, heap
  <2>10. ASSUME Body(discovery, k)
         PROVE  /\ worker'[d][k] = "test"
                /\ \A j \in 1..MaxStarts : j # k => worker'[d][j] = worker[d][j]
    BY <1>0, <2>10 DEF Body, WorkerStep
  <2>11. UNCHANGED vars => worker' = worker
    BY DEF vars
  <2>12. CASE SleepOn(k)
    <3>1. tick[k] = "sleep" /\ tick'[k] = "sleep" /\ worker[d][k] = "body"
          /\ UNCHANGED <<second, silent, fault>>
      BY <2>9, <2>12 DEF SleepOn, Ticks, history
    <3> QED
      BY <1>0, <2>9, <2>10, <2>12, <3>1 DEF SleepOn, Ticks, TickInv, Due, InLoop
  <2>13. CASE SecondElapsed(k)
    <3>1. /\ tick[k] = "sleep" /\ tick'[k] = "ten" /\ worker[d][k] = "body"
          /\ UNCHANGED <<second, silent, fault, worker>>
      BY <2>9, <2>11, <2>13 DEF SecondElapsed, Ticks, history
    <3> QED
      BY <1>0, <2>9, <2>13, <3>1 DEF SecondElapsed, Ticks, TickInv, Due, InLoop
  <2>14. CASE TenSecondTick(k)
    <3> DEFINE to == IF second % Ten = 0 /\ usable > 0 THEN "send" ELSE "minute"
    <3>1. TickPart(k, "ten", to) /\ to \in Ticks /\ "ten" \in Ticks
      BY <2>14 DEF TenSecondTick, Ticks
    <3>2. tick[k] = "ten" /\ tick'[k] = to /\ worker[d][k] = "body" /\ usable' = usable
          /\ \A j \in 1..MaxStarts : j # k => tick'[j] = tick[j]
      BY <2>9, <3>1
    <3>3. UNCHANGED <<second, silent, fault, worker>>
      BY <2>2, <2>11, <2>14 DEF TenSecondTick, Blame, history
    <3> QED
      BY <1>0, <1>1, <3>2, <3>3 DEF TickInv, Due, InLoop
  <2>15. CASE SendHeartbeat(k)
    <3>1. /\ tick[k] = "send" /\ tick'[k] = "minute" /\ worker[d][k] = "body"
          /\ UNCHANGED <<second, worker>> /\ silent' = 0
      BY <2>9, <2>11, <2>15 DEF SendHeartbeat, Ticks
    <3>2. usable = 1
      BY <1>0, <3>1 DEF TickInv, InLoop
    <3>3. fault' = fault
      BY <2>2, <2>15, <3>2 DEF SendHeartbeat, Held
    <3> QED
      BY <1>0, <1>1, <2>9, <2>15, <3>1, <3>2, <3>3 DEF SendHeartbeat, Ticks
  <2>16. CASE MinuteTick(k)
    <3>1. /\ tick[k] = "minute" /\ tick'[k] = "count" /\ worker[d][k] = "body"
          /\ UNCHANGED <<second, silent, fault, worker>>
      BY <2>2, <2>9, <2>11, <2>16 DEF MinuteTick, Ticks, Blame, history
    <3> QED
      BY <1>0, <2>9, <2>16, <3>1 DEF MinuteTick, Ticks, TickInv, InLoop
  <2>17. CASE CountSecond(k)
    <3>1. /\ tick[k] = "count" /\ tick'[k] = "sleep" /\ worker[d][k] = "body"
          /\ second' = (second + 1) % CounterSize /\ fault' = fault
          /\ silent' = IF usable > 0 THEN silent + 1 ELSE 0
      BY <2>9, <2>17 DEF CountSecond, Ticks
    <3>2. silent <= second % Ten
      BY <1>0, <3>1 DEF TickInv, InLoop
    <3>3. second' = second + 1 \/ second' = 0
      <4>1. (second + 1) % CounterSize = second + 1 \/ (second + 1) % CounterSize = 0
        BY <1>0, Wraps, Zenon
      <4> QED
        BY <3>1, <4>1, Zenon
    <3>4. /\ (second + 1) % Ten = 0 \/ (second + 1) % Ten = (second % Ten) + 1
          /\ 0 % Ten = 0
      <4>1. 0 \in Nat /\ 0 <= Ten - 1
        BY <1>0
      <4> QED
        BY <1>0, <4>1, NextSecond, Wraps, Zenon
    <3>5. silent' <= Due' /\ silent' <= Ten
      <4>1. PICK r \in 0..(Ten - 1) : r = second % Ten
        BY <1>1, Zenon
      <4>2. second' % Ten = 0 \/ second' % Ten = r + 1
        BY <3>3, <3>4, <4>1, Zenon
      <4>3. silent' <= r + 1 /\ silent' <= Ten
        <5>1. silent <= r
          BY <3>2, <4>1, Zenon
        <5> QED
          BY <1>0, <3>1, <4>1, <5>1
      <4>4. Due' = Ten \/ Due' = r + 1
        BY <4>2 DEF Due
      <4> QED
        BY <4>3, <4>4
    <3> QED
      BY <1>0, <2>9, <2>10, <2>17, <3>1, <3>5 DEF CountSecond, Ticks
  <2> QED
    BY <1>3, <2>3, <2>6, <2>7, <2>8, <2>12, <2>13, <2>14, <2>15, <2>16, <2>17
       DEF DWorkerSteps, TickStep
<1> QED
  BY <1>2, <1>3

-----------------------------------------------------------------------------
\* A call changes nothing yet, but whose turn it is.
LEMMA HeapOfCall ==
  ASSUME Client # "any", DOrderedInv, NEW c \in Controllers, NEW o \in Ops, Call(c, o),
         UNCHANGED dvars
  PROVE  HeapInv' /\ PlaceOfPart' /\ TickInv' /\ NoFault' /\ HeartbeatInTime'
<1>0. discovery \in Threads
  BY DiscoveryAssumption
<1>1. /\ InOrder(o) /\ ~Exiting /\ UNCHANGED <<worker, phase>>
      /\ op'[c] = o /\ at'[c] = Entry(o) /\ at'[c] # "idle"
      /\ o = "initialize" => todo'[c] = Threads
      /\ \A d \in Controllers : at[d] = "idle" /\ (d # c => at'[d] = "idle")
  BY CallAlone DEF DOrderedInv, OrderedInv
<1>2. UNCHANGED <<part, usable, addresses, liveAddresses, mc, liveGroups, tick, second, silent,
                  fault>>
  BY DEF dvars, heap, history
<1>3. phase \in {"initialized", "started"} => Held
  BY <1>1 DEF DOrderedInv, HeapInv, Stops, Idle
<1>4. phase \in {"fresh", "stopped"} => Freed
  BY <1>1 DEF DOrderedInv, HeapInv, Initializing, Idle
<1>5. (Held' <=> Held) /\ (Freed' <=> Freed)
  BY <1>2 DEF Held, Freed
<1>6. o = "initialize" => Making(c)'
  BY <1>0, <1>1, <1>4, <1>5 DEF Making, Entry, InOrder
<1>7. o = "stop" => Losing(c)'
  BY <1>1, <1>3, <1>5 DEF Losing, Entry, InOrder, StopSteps
<1>8. Exiting' <=> o = "exit"
  <2>1. ExitInv'
    BY ControlStep DEF DOrderedInv, OrderedInv, ClientInv, Next
  <2> QED
    BY <1>1, <2>1, ControllersAssumption DEF Exiting, ExitInv, Idle
<1>9. HeapInv'
  BY <1>1, <1>3, <1>4, <1>5, <1>6, <1>7, <1>8, HeapNext
<1>10. PlaceOfPart'
  BY <1>1, <1>2 DEF DOrderedInv, PlaceOfPart
<1>11. TickInv' /\ NoFault' /\ HeartbeatInTime'
  BY <1>1, <1>2 DEF DOrderedInv, TickInv, Due, NoFault, HeartbeatInTime
<1> QED
  BY <1>9, <1>10, <1>11

LEMMA DOrderedStep ==
  ASSUME Client # "any", DOrderedInv, [DNext]_allVars
  PROVE  DOrderedInv'
<1>1. OrderedInv'
  BY DNextImplies, OrderedStep DEF DOrderedInv
<1>2. DTypeOK' /\ PartInv'
  BY DTypeStep DEF DOrderedInv, OrderedInv, ClientInv
<1>3. ASSUME NEW c \in Controllers, NEW o \in Ops, Call(c, o), UNCHANGED dvars
      PROVE  DOrderedInv'
  BY <1>1, <1>2, <1>3, HeapOfCall DEF DOrderedInv
<1>4. ASSUME NEW c \in Controllers, DControllerStep(c) PROVE DOrderedInv'
  <2>1. HeapInv' /\ PlaceOfPart' /\ fault' = fault
    BY <1>4, HeapOfInitialize, HeapOfStop, HeapOfOthers
  <2>2. TickInv' /\ silent' = silent
    BY <1>4, TickOfController
  <2> QED
    BY <1>1, <1>2, <2>1, <2>2 DEF DOrderedInv, NoFault, HeartbeatInTime
<1>5. ASSUME NEW t \in Threads, NEW k \in 1..MaxStarts, DWorkerSteps(t, k) PROVE DOrderedInv'
  <2>1. TickInv' /\ silent' <= Ten /\ fault' = fault
    BY <1>5, TickOfWorker
  <2>2. UNCHANGED <<heap, part>>
    BY <1>5 DEF DWorkerSteps, DBegin, dvars, TickStep, SleepOn, SecondElapsed, TenSecondTick,
                SendHeartbeat, MinuteTick, CountSecond, TickPart
  <2>3. UNCHANGED <<op, at, todo, cur, override, phase>>
    BY <1>5 DEF DWorkerSteps, DBegin, RunBegin, RunEmpty, RunBase, TestStopping, RunEnd,
                TickStep, SleepOn, SecondElapsed, TenSecondTick, SendHeartbeat, MinuteTick,
                CountSecond, Body, WorkerStep, vars, place, client
  <2>4. HeapInv' /\ PlaceOfPart'
    BY <2>2, <2>3 DEF DOrderedInv, HeapInv, Making, Losing, Held, Freed, Enumerated, Stops,
                      Initializing, Exiting, Idle, PlaceOfPart, heap
  <2> QED
    BY <1>1, <1>2, <2>1, <2>4 DEF DOrderedInv, NoFault, HeartbeatInTime
<1>6. CASE UNCHANGED allVars
  <2>1. UNCHANGED <<vars, heap, part, tick, second, silent, fault>>
    BY <1>6 DEF allVars, dvars, history
  <2>2. HeapInv' /\ PlaceOfPart' /\ TickInv' /\ NoFault' /\ HeartbeatInTime'
    BY <2>1 DEF DOrderedInv, HeapInv, Making, Losing, Held, Freed, Enumerated, Stops,
                Initializing, Exiting, Idle, PlaceOfPart, TickInv, Due, NoFault,
                HeartbeatInTime, heap, vars, place, client
  <2> QED
    BY <1>1, <1>2, <2>2 DEF DOrderedInv
<1> QED
  BY <1>3, <1>4, <1>5, <1>6 DEF DNext

LEMMA DOrderedAlways == Client # "any" /\ DSpec => []DOrderedInv
<1>1. CASE Client # "any"
  BY <1>1, DOrderedInit, DOrderedStep, PTL DEF DSpec
<1> QED
  BY <1>1

\* Called in order, the thread service meets no deleted or null object: neither
\* the worker, whatever its step, nor a second StopThreads.
THEOREM DiscoveryFaultless ==
  ASSUME Client # "any"
  PROVE  DSpec => []NoFault
<1>1. DOrderedInv => NoFault
  BY DEF DOrderedInv
<1> QED
  BY <1>1, DOrderedAlways, PTL

\* And StopThreads leaves nothing of this life of the service behind.
THEOREM DiscoveryLeavesNothing ==
  ASSUME Client # "any"
  PROVE  DSpec => []NothingLeftAfterStop
<1>1. DOrderedInv => NothingLeftAfterStop
  BY DEF DOrderedInv, HeapInv, Freed, NothingLeftAfterStop
<1> QED
  BY <1>1, DOrderedAlways, PTL

\* A node in service with an interface sends a heartbeat in every Ten seconds,
\* whatever the modulus of the counter: where it wraps, one comes early.
THEOREM DiscoveryBeatsInTime ==
  ASSUME Client # "any"
  PROVE  DSpec => []HeartbeatInTime
<1>1. DOrderedInv => HeartbeatInTime
  BY DEF DOrderedInv
<1> QED
  BY <1>1, DOrderedAlways, PTL

\* The discovery thread keeps what the thread service promises.
THEOREM DiscoveryImplementsService ==
  ASSUME Client # "any"
  PROVE  DSpec => ImplementsService
BY DiscoveryImplementsThreadMonitor, ServiceIsImplemented
=============================================================================
