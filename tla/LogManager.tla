----------------------------- MODULE LogManager -----------------------------
(***************************************************************************)
(* LogManager and Log (libs/service/logmanager): Log objects register      *)
(* under their component name, threads print through them to the targets.  *)
(* m_mutex makes Register and Unregister atomic; nothing guards            *)
(* m_logTarget, which AddTarget and ClearTarget load and store apart, and  *)
(* which Print loads once for each target.                                 *)
(***************************************************************************)
EXTENDS Integers, FiniteSets

CONSTANTS
  Logs,       \* the Log objects
  Names,      \* component names
  component,  \* the name each Log is built with; names may be shared
  NoLog,
  Printers,   \* the threads that print and set targets
  MaxPrints   \* bound: lines printed by each thread

ASSUME LogAssumption ==
  /\ component \in [Logs -> Names]
  /\ NoLog \notin Logs
  /\ MaxPrints \in Nat

\* The bits of LogTarget, and its values as the sets of bits they are; None is
\* a value without a bit.
Targets == {"File", "Shell", "Console"}
Masks   == {{}} \cup {{g} : g \in Targets}

VARIABLES
  live,     \* the Log objects that exist
  logMap,   \* m_logMap
  file,     \* whether m_fp is open
  targets,  \* m_logTarget
  at,       \* where a thread is in Print, AddTarget or ClearTarget
  using,    \* the Log it prints through, or NoLog
  loaded,   \* the value of m_logTarget it is about to store, if any
  prints,   \* how many lines it began to print
  reached,  \* history: the targets its last line was written to
  steady    \* history: the targets on ever since that line began

registry == <<live, logMap>>
vars     == <<registry, file, targets, at, using, loaded, prints, reached, steady>>

TypeOK ==
  /\ live \subseteq Logs
  /\ logMap \in [Names -> Logs \cup {NoLog}]
  /\ file \in BOOLEAN
  /\ targets \subseteq Targets
  /\ at \in [Printers -> {"idle", "file", "shell", "store"}]
  /\ using \in [Printers -> Logs \cup {NoLog}]
  /\ loaded \in [Printers -> SUBSET Targets]
  /\ prints \in [Printers -> 0..MaxPrints]
  /\ reached \in [Printers -> SUBSET Targets]
  /\ steady \in [Printers -> SUBSET Targets]

\* The constructor selects the file; fopen may fail.
Init ==
  /\ live = {}
  /\ logMap = [n \in Names |-> NoLog]
  /\ file \in BOOLEAN
  /\ targets = {"File"}
  /\ at = [t \in Printers |-> "idle"]
  /\ using = [t \in Printers |-> NoLog]
  /\ loaded = [t \in Printers |-> {}]
  /\ prints = [t \in Printers |-> 0]
  /\ reached = [t \in Printers |-> {}]
  /\ steady = [t \in Printers |-> {}]

-----------------------------------------------------------------------------
\* Log::Log, Register under m_mutex.
Register(l) ==
  /\ l \notin live
  /\ live' = live \cup {l}
  /\ logMap' = [logMap EXCEPT ![component[l]] = l]
  /\ UNCHANGED <<file, targets, at, using, loaded, prints, reached, steady>>

Unregister_Keeps(l) ==  \* mutant: the entry stays
  /\ l \in live
  /\ \A t \in Printers : using[t] # l
  /\ live' = live \ {l}
  /\ UNCHANGED <<logMap, file, targets, at, using, loaded, prints, reached, steady>>

\* Log::~Log, of an object nobody prints through: the name is erased even if
\* another Log has taken it.
Unregister(l) ==
  /\ l \in live
  /\ \A t \in Printers : using[t] # l
  /\ live' = live \ {l}
  /\ logMap' = [logMap EXCEPT ![component[l]] = NoLog]
  /\ UNCHANGED <<file, targets, at, using, loaded, prints, reached, steady>>

-----------------------------------------------------------------------------
\* Print: the level of the line and the Log's own level decide nothing.
PrintLine(t, l) ==
  /\ at[t] = "idle"
  /\ at' = [at EXCEPT ![t] = "file"]
  /\ l \in live
  /\ prints[t] < MaxPrints
  /\ using' = [using EXCEPT ![t] = l]
  /\ prints' = [prints EXCEPT ![t] = @ + 1]
  /\ reached' = [reached EXCEPT ![t] = {}]
  /\ steady' = [steady EXCEPT ![t] = targets]
  /\ UNCHANGED <<registry, file, targets, loaded>>

PrintFile_Else(t) ==  \* mutant: the file excludes the shell
  /\ at[t] = "file"
  /\ at' = [at EXCEPT ![t] = IF "File" \in targets /\ file THEN "idle" ELSE "shell"]
  /\ reached' = [reached EXCEPT ![t] = IF "File" \in targets /\ file
                                       THEN @ \cup {"File"} ELSE @]
  /\ using' = [using EXCEPT ![t] = IF at'[t] = "idle" THEN NoLog ELSE @]
  /\ UNCHANGED <<registry, file, targets, loaded, prints, steady>>

PrintFile(t) ==
  /\ at[t] = "file"
  /\ at' = [at EXCEPT ![t] = "shell"]
  /\ reached' = [reached EXCEPT ![t] = IF "File" \in targets /\ file
                                       THEN @ \cup {"File"} ELSE @]
  /\ UNCHANGED <<registry, file, targets, using, loaded, prints, steady>>

PrintShell(t) ==
  /\ at[t] = "shell"
  /\ at' = [at EXCEPT ![t] = "idle"]
  /\ reached' = [reached EXCEPT ![t] = IF "Shell" \in targets
                                       THEN @ \cup {"Shell"} ELSE @]
  /\ using' = [using EXCEPT ![t] = NoLog]
  /\ UNCHANGED <<registry, file, targets, loaded, prints, steady>>

-----------------------------------------------------------------------------
\* AddTarget and ClearTarget: load m_logTarget and compute, then store.
LoadTargets(t, new) ==
  /\ at[t] = "idle"
  /\ at' = [at EXCEPT ![t] = "store"]
  /\ loaded' = [loaded EXCEPT ![t] = new]
  /\ UNCHANGED <<registry, file, targets, using, prints, reached, steady>>

AddTarget(t, m)   == LoadTargets(t, targets \cup m)
ClearTarget(t, m) == LoadTargets(t, targets \ m)

StoreTargets(t) ==
  /\ at[t] = "store"
  /\ at' = [at EXCEPT ![t] = "idle"]
  /\ targets' = loaded[t]
  /\ loaded' = [loaded EXCEPT ![t] = {}]
  /\ steady' = [u \in Printers |-> steady[u] \cap loaded[t]]
  /\ UNCHANGED <<registry, file, using, prints, reached>>

Next ==
  \/ \E l \in Logs : Register(l) \/ Unregister(l)
  \/ \E t \in Printers :
       \/ \E l \in Logs : PrintLine(t, l)
       \/ PrintFile(t) \/ PrintShell(t)
       \/ \E m \in Masks : AddTarget(t, m) \/ ClearTarget(t, m)
       \/ StoreTargets(t)

Spec == Init /\ [][Next]_vars
-----------------------------------------------------------------------------
\* The targets Print knows: it never looks at Console, and it writes to the
\* file only if that could be opened.
Printed == {"Shell"} \cup (IF file THEN {"File"} ELSE {})

\* A printed line reached every target Print knows that was on from its start
\* to its end, whatever other threads did to the targets meanwhile.
LinesReachSteadyTargets ==
  \A t \in Printers :
    at[t] # "file" /\ at[t] # "shell" /\ prints[t] > 0 =>
      steady[t] \cap Printed \subseteq reached[t]

\* A line reaches whatever target is on: Console too, if the file could be opened.
LinesReachEveryTarget ==
  \A t \in Printers :
    file /\ at[t] # "file" /\ at[t] # "shell" /\ prints[t] > 0 => steady[t] \subseteq reached[t]

\* The map of Logs is a registry: it never holds a dead Log, although
\* components may share a name.
LogRegistry == INSTANCE Registry
  WITH Objects <- Logs, Keys <- Names, NoObject <- NoLog,
       key <- component, map <- logMap

ImplementsRegistry == LogRegistry!Spec
=============================================================================
