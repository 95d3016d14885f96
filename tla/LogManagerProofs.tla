-------------------------- MODULE LogManagerProofs --------------------------
(***************************************************************************)
(* The log manager implements the registry for any Logs, names and         *)
(* threads: m_logMap holds no dead Log even when components share a name.  *)
(* A line reaches every target Print knows that stays on while it is       *)
(* printed.                                                                *)
(***************************************************************************)
EXTENDS LogManager, TLAPS

MapIsLive == LogRegistry!MapIsLive

LEMMA InitImplements == Init => LogRegistry!Init
BY LogAssumption DEF Init, LogRegistry!Init

LEMMA StepImplements ==
  ASSUME [Next]_vars
  PROVE  [LogRegistry!Next]_LogRegistry!vars
<1>1. ASSUME NEW l \in Logs, Register(l) PROVE LogRegistry!Next
  <2>1. component[l] \in Names
    BY LogAssumption
  <2>2. component = [component EXCEPT ![l] = component[l]]
    BY LogAssumption
  <2>3. LogRegistry!Build(l, component[l])
    BY <1>1, <2>2 DEF Register, LogRegistry!Build
  <2>4. QED
    BY <2>1, <2>3 DEF LogRegistry!Next
<1>2. ASSUME NEW l \in Logs, Unregister(l) PROVE LogRegistry!Next
  BY <1>2 DEF Unregister, LogRegistry!Die, LogRegistry!Next
<1>3. ASSUME NEW t \in Printers,
             \/ \E l \in Logs : PrintLine(t, l)
             \/ PrintFile(t) \/ PrintShell(t)
             \/ \E m \in Masks : AddTarget(t, m) \/ ClearTarget(t, m)
             \/ StoreTargets(t)
      PROVE  UNCHANGED registry
  BY <1>3 DEF PrintLine, PrintFile, PrintShell, AddTarget, ClearTarget, LoadTargets, StoreTargets
<1>4. CASE UNCHANGED vars
  BY <1>4 DEF vars, registry, LogRegistry!vars
<1>5. UNCHANGED registry => UNCHANGED LogRegistry!vars
  BY DEF registry, LogRegistry!vars
<1>6. QED
  BY <1>1, <1>2, <1>3, <1>4, <1>5 DEF Next

\* Building and destroying a Log are the steps of a registry, printing and
\* choosing targets are none.
THEOREM LogManagerImplementsRegistry == Spec => ImplementsRegistry
BY InitImplements, StepImplements, PTL
   DEF Spec, ImplementsRegistry, LogRegistry!Spec

\* What a registry keeps: an entry that is overwritten or erased leaves no
\* dead object behind, whoever shares its key.
RegistryInv == LogRegistry!TypeOK /\ MapIsLive

LEMMA RegistryStep ==
  ASSUME RegistryInv, [LogRegistry!Next]_LogRegistry!vars
  PROVE  RegistryInv'
<1> USE DEF RegistryInv, LogRegistry!TypeOK
<1>1. ASSUME NEW o \in Logs, NEW k \in Names, LogRegistry!Build(o, k)
      PROVE  RegistryInv'
  <2>1. LogRegistry!TypeOK'
    BY <1>1 DEF LogRegistry!Build
  <2>2. ASSUME NEW j \in Names, logMap'[j] # NoLog
        PROVE  logMap'[j] \in live' /\ component'[logMap'[j]] = j
    <3>1. CASE j = k
      BY <1>1, <3>1 DEF LogRegistry!Build
    <3>2. CASE j # k
      BY <1>1, <2>2, <3>2 DEF MapIsLive, LogRegistry!MapIsLive, LogRegistry!Build
    <3>3. QED
      BY <3>1, <3>2
  <2>3. QED
    BY <2>1, <2>2 DEF MapIsLive, LogRegistry!MapIsLive
<1>2. ASSUME NEW o \in Logs, LogRegistry!Die(o) PROVE RegistryInv'
  BY <1>2, LogAssumption DEF MapIsLive, LogRegistry!MapIsLive, LogRegistry!Die
<1>3. CASE UNCHANGED LogRegistry!vars
  BY <1>3 DEF MapIsLive, LogRegistry!MapIsLive, LogRegistry!vars
<1>4. QED
  BY <1>1, <1>2, <1>3 DEF LogRegistry!Next

\* A Log found in m_logMap is live and registered under its own name.
THEOREM LogMapIsLive == Spec => []MapIsLive
<1>1. LogRegistry!Init => RegistryInv
  BY DEF LogRegistry!Init, RegistryInv, LogRegistry!TypeOK, MapIsLive, LogRegistry!MapIsLive
<1>2. RegistryInv => MapIsLive
  BY DEF RegistryInv
<1>3. RegistryInv /\ [LogRegistry!Next]_LogRegistry!vars => RegistryInv'
  BY RegistryStep
<1>4. QED
  BY <1>1, <1>2, <1>3, LogManagerImplementsRegistry, PTL DEF ImplementsRegistry, LogRegistry!Spec
-----------------------------------------------------------------------------
\* Every variable of the log manager keeps its type.
THEOREM LogTypeCorrect == Spec => []TypeOK
<1>1. ASSUME Init PROVE TypeOK
  <2>1. file \in BOOLEAN
    BY <1>1 DEF Init
  <2>2. live \subseteq Logs /\ logMap \in [Names -> Logs \cup {NoLog}] /\ targets \subseteq Targets
    BY <1>1 DEF Init, Targets
  <2>3. /\ at \in [Printers -> {"idle", "file", "shell", "store"}]
        /\ using \in [Printers -> Logs \cup {NoLog}]
        /\ prints \in [Printers -> 0..MaxPrints]
    BY <1>1, LogAssumption DEF Init
  <2>4. /\ loaded \in [Printers -> SUBSET Targets]
        /\ reached \in [Printers -> SUBSET Targets]
        /\ steady \in [Printers -> SUBSET Targets]
    BY <1>1 DEF Init
  <2>5. QED
    BY <2>1, <2>2, <2>3, <2>4 DEF TypeOK
<1>2. TypeOK /\ [Next]_vars => TypeOK'
  <2> SUFFICES ASSUME TypeOK, [Next]_vars
               PROVE  TypeOK'
    OBVIOUS
  <2>1. ASSUME NEW l \in Logs, Register(l) \/ Unregister(l) PROVE TypeOK'
    BY <2>1, LogAssumption DEF Register, Unregister, TypeOK
  <2>2. ASSUME NEW t \in Printers, NEW l \in Logs, PrintLine(t, l) PROVE TypeOK'
    <3>1. prints[t] + 1 \in 0..MaxPrints
      BY <2>2, LogAssumption DEF PrintLine, TypeOK
    <3>2. prints' \in [Printers -> 0..MaxPrints]
      BY <2>2, <3>1 DEF PrintLine, TypeOK
    <3>3. /\ at' \in [Printers -> {"idle", "file", "shell", "store"}]
          /\ using' \in [Printers -> Logs \cup {NoLog}]
      BY <2>2 DEF PrintLine, TypeOK
    <3>4. reached' \in [Printers -> SUBSET Targets] /\ steady' \in [Printers -> SUBSET Targets]
      BY <2>2 DEF PrintLine, TypeOK
    <3>5. UNCHANGED <<live, logMap, file, targets, loaded>>
      BY <2>2 DEF PrintLine, registry
    <3>6. /\ live' \subseteq Logs /\ logMap' \in [Names -> Logs \cup {NoLog}]
          /\ file' \in BOOLEAN /\ targets' \subseteq Targets
          /\ loaded' \in [Printers -> SUBSET Targets]
      BY <3>5 DEF TypeOK
    <3>7. QED
      BY <3>2, <3>3, <3>4, <3>6 DEF TypeOK
  <2>3. ASSUME NEW t \in Printers, PrintFile(t) \/ PrintShell(t) PROVE TypeOK'
    <3>1. reached' \in [Printers -> SUBSET Targets]
      <4>1. \E v \in SUBSET Targets : reached' = [reached EXCEPT ![t] = v]
        BY <2>3 DEF PrintFile, PrintShell, TypeOK, Targets
      <4>2. QED
        BY <4>1 DEF TypeOK
    <3>2. /\ at' \in [Printers -> {"idle", "file", "shell", "store"}]
          /\ using' \in [Printers -> Logs \cup {NoLog}]
      BY <2>3 DEF PrintFile, PrintShell, TypeOK
    <3>3. UNCHANGED <<live, logMap, file, targets, loaded, prints, steady>>
      BY <2>3 DEF PrintFile, PrintShell, registry
    <3>4. /\ live' \subseteq Logs /\ logMap' \in [Names -> Logs \cup {NoLog}]
          /\ file' \in BOOLEAN /\ targets' \subseteq Targets
          /\ loaded' \in [Printers -> SUBSET Targets]
          /\ prints' \in [Printers -> 0..MaxPrints]
          /\ steady' \in [Printers -> SUBSET Targets]
      BY <3>3 DEF TypeOK
    <3>5. QED
      BY <3>1, <3>2, <3>4 DEF TypeOK
  <2>4. ASSUME NEW t \in Printers, NEW m \in Masks, AddTarget(t, m) \/ ClearTarget(t, m)
        PROVE  TypeOK'
    <3>1. /\ at' \in [Printers -> {"idle", "file", "shell", "store"}]
          /\ loaded' \in [Printers -> SUBSET Targets]
      BY <2>4 DEF AddTarget, ClearTarget, LoadTargets, Masks, TypeOK
    <3>2. UNCHANGED <<live, logMap, file, targets, using, prints, reached, steady>>
      BY <2>4 DEF AddTarget, ClearTarget, LoadTargets, registry
    <3>3. QED
      BY <3>1, <3>2 DEF TypeOK
  <2>5. ASSUME NEW t \in Printers, StoreTargets(t) PROVE TypeOK'
    <3>1. /\ at' \in [Printers -> {"idle", "file", "shell", "store"}]
          /\ targets' \subseteq Targets
          /\ loaded' \in [Printers -> SUBSET Targets]
          /\ steady' \in [Printers -> SUBSET Targets]
      BY <2>5 DEF StoreTargets, TypeOK
    <3>2. UNCHANGED <<live, logMap, file, using, prints, reached>>
      BY <2>5 DEF StoreTargets, registry
    <3>3. QED
      BY <3>1, <3>2 DEF TypeOK
  <2>6. CASE UNCHANGED vars
    BY <2>6 DEF vars, registry, TypeOK
  <2>7. QED
    BY <2>1, <2>2, <2>3, <2>4, <2>5, <2>6 DEF Next
<1>3. QED
  BY <1>1, <1>2, PTL DEF Spec

\* The targets that have been steady since a line began are on until it ends,
\* and those the line has passed it was written to.
SteadyTargets ==
  \A t \in Printers :
    /\ at[t] \in {"file", "shell"} => steady[t] \subseteq targets
    /\ at[t] = "shell" /\ file /\ "File" \in steady[t] => "File" \in reached[t]
    /\ at[t] \in {"idle", "store"} /\ prints[t] > 0 => steady[t] \cap Printed \subseteq reached[t]

LEMMA SteadyInitially == Init => SteadyTargets
BY DEF Init, SteadyTargets

LEMMA SteadyStays ==
  ASSUME TypeOK, TypeOK', SteadyTargets, [Next]_vars
  PROVE  SteadyTargets'
<1>1. ASSUME NEW l \in Logs, Register(l) \/ Unregister(l) PROVE SteadyTargets'
  BY <1>1 DEF Register, Unregister, SteadyTargets, Printed
<1>2. ASSUME NEW t \in Printers, NEW l \in Logs, PrintLine(t, l) PROVE SteadyTargets'
  BY <1>2 DEF PrintLine, SteadyTargets, Printed, TypeOK
<1>3. ASSUME NEW t \in Printers, PrintFile(t) PROVE SteadyTargets'
  BY <1>3 DEF PrintFile, SteadyTargets, Printed, TypeOK
<1>4. ASSUME NEW t \in Printers, PrintShell(t) PROVE SteadyTargets'
  <2>1. steady[t] \cap Printed \subseteq reached'[t]
    BY <1>4 DEF PrintShell, SteadyTargets, Printed, TypeOK, Targets
  <2>2. QED
    BY <1>4, <2>1 DEF PrintShell, SteadyTargets, Printed, TypeOK
<1>5. ASSUME NEW t \in Printers, NEW m \in Masks, AddTarget(t, m) \/ ClearTarget(t, m)
      PROVE  SteadyTargets'
  BY <1>5 DEF AddTarget, ClearTarget, LoadTargets, SteadyTargets, Printed, TypeOK
<1>6. ASSUME NEW t \in Printers, StoreTargets(t) PROVE SteadyTargets'
  BY <1>6 DEF StoreTargets, SteadyTargets, Printed, TypeOK
<1>7. CASE UNCHANGED vars
  BY <1>7 DEF vars, registry, SteadyTargets, Printed
<1>8. QED
  BY <1>1, <1>2, <1>3, <1>4, <1>5, <1>6, <1>7 DEF Next

\* Print loads m_logTarget once for the file and once for the shell, without a
\* lock; even so a line misses neither if it is on throughout, however many
\* threads print and change the targets, Console among them.
THEOREM LinesAreNotLost == Spec => []LinesReachSteadyTargets
<1>1. TypeOK /\ SteadyTargets => LinesReachSteadyTargets
  BY DEF TypeOK, SteadyTargets, LinesReachSteadyTargets, Printed
<1>2. QED
  BY <1>1, SteadyInitially, SteadyStays, LogTypeCorrect, PTL DEF Spec
=============================================================================
