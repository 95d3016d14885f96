--------------------------- MODULE InstallerProofs ---------------------------
(***************************************************************************)
(* The installer for any machines, faults and runs: what a run that meets  *)
(* no fault leaves behind, what an accepted machine is, and what blocks    *)
(* the product's folder.                                                   *)
(***************************************************************************)
EXTENDS Installer, TLAPS, SequenceTheorems

-----------------------------------------------------------------------------
(* The scripts, command by command.                                        *)
Commands ==
  {"folder", "copy", "epel", "ansible", "rpm", "gdeploy", "repository",
   "subscription", "cockpit", "archive", "dashboard", "clean", "socket",
   "firewall", "roles", "sshd", "key"}

LEMMA Joined ==
  ASSUME NEW s \in Seq(Commands), NEW t \in Seq(Commands)
  PROVE  /\ s \o t \in Seq(Commands)
         /\ Len(s \o t) = Len(s) + Len(t)
         /\ \A i \in 1..Len(s) : (s \o t)[i] = s[i]
         /\ \A i \in 1..Len(t) : (s \o t)[Len(s) + i] = t[i]
<1>1. s \o t \in Seq(Commands) /\ Len(s \o t) = Len(s) + Len(t)
  BY ConcatProperties, Zenon
<1>2. \A i \in 1..Len(s) : (s \o t)[i] = s[i]
  OBVIOUS
<1>3. \A i \in 1..Len(t) : (s \o t)[Len(s) + i] = t[i]
  OBVIOUS
<1>4. QED
  BY <1>1, <1>2, <1>3

LEMMA Parts ==
  /\ LoadEthinza \in Seq(Commands) /\ Len(LoadEthinza) = 2
  /\ InstallAnsible \in Seq(Commands) /\ Len(InstallAnsible) = 2
  /\ InstallGdeploy \in Seq(Commands) /\ Len(InstallGdeploy) = 2
  /\ InstallOvirtEngine \in Seq(Commands) /\ Len(InstallOvirtEngine) = 9
  /\ CheckAndStartSshd \in Seq(Commands) /\ Len(CheckAndStartSshd) = 2
<1>1. LoadEthinza \in Seq(Commands) /\ Len(LoadEthinza) = 2
  BY DEF LoadEthinza, Commands
<1>2. InstallAnsible \in Seq(Commands) /\ Len(InstallAnsible) = 2
  BY DEF InstallAnsible, Commands
<1>3. InstallGdeploy \in Seq(Commands) /\ Len(InstallGdeploy) = 2
  BY DEF InstallGdeploy, Commands
<1>4. InstallOvirtEngine \in Seq(Commands) /\ Len(InstallOvirtEngine) = 9
  BY DEF InstallOvirtEngine, Commands
<1>5. CheckAndStartSshd \in Seq(Commands) /\ Len(CheckAndStartSshd) = 2
  BY DEF CheckAndStartSshd, Commands
<1>6. QED
  BY <1>1, <1>2, <1>3, <1>4, <1>5

Loaded == LoadEthinza \o InstallAnsible
Common == Loaded \o InstallGdeploy
Engine == Common \o InstallOvirtEngine

LEMMA LoadedCommands ==
  /\ Loaded \in Seq(Commands) /\ Len(Loaded) = 4
  /\ Loaded[1] = "folder" /\ Loaded[2] = "copy" /\ Loaded[3] = "epel" /\ Loaded[4] = "ansible"
<1>0. LoadEthinza \in Seq(Commands) /\ InstallAnsible \in Seq(Commands)
  BY Parts
<1>1. /\ Loaded \in Seq(Commands) /\ Len(Loaded) = Len(LoadEthinza) + Len(InstallAnsible)
      /\ \A i \in 1..Len(LoadEthinza) : Loaded[i] = LoadEthinza[i]
      /\ \A i \in 1..Len(InstallAnsible) : Loaded[Len(LoadEthinza) + i] = InstallAnsible[i]
  BY <1>0, Joined, Zenon DEF Loaded
<1>2. /\ Len(Loaded) = 4
      /\ Loaded[1] = LoadEthinza[1] /\ Loaded[2] = LoadEthinza[2]
      /\ Loaded[3] = InstallAnsible[1] /\ Loaded[4] = InstallAnsible[2]
  BY <1>1, Parts
<1>3. QED
  BY <1>1, <1>2 DEF LoadEthinza, InstallAnsible

LEMMA CommonCommands ==
  /\ Common \in Seq(Commands) /\ Len(Common) = 6
  /\ Common[1] = "folder" /\ Common[2] = "copy" /\ Common[3] = "epel"
  /\ Common[4] = "ansible" /\ Common[5] = "rpm" /\ Common[6] = "gdeploy"
<1>0. Loaded \in Seq(Commands) /\ InstallGdeploy \in Seq(Commands)
  BY LoadedCommands, Parts
<1>1. /\ Common \in Seq(Commands) /\ Len(Common) = Len(Loaded) + Len(InstallGdeploy)
      /\ \A i \in 1..Len(Loaded) : Common[i] = Loaded[i]
      /\ \A i \in 1..Len(InstallGdeploy) : Common[Len(Loaded) + i] = InstallGdeploy[i]
  BY <1>0, Joined, Zenon DEF Common
<1>2. /\ Len(Common) = 6
      /\ Common[1] = Loaded[1] /\ Common[2] = Loaded[2] /\ Common[3] = Loaded[3]
      /\ Common[4] = Loaded[4] /\ Common[5] = InstallGdeploy[1] /\ Common[6] = InstallGdeploy[2]
  BY <1>1, Parts, LoadedCommands
<1>3. QED
  BY <1>1, <1>2, LoadedCommands DEF InstallGdeploy

\* The first six commands are those of both roles.
CommonPrefix(s) ==
  /\ s[1] = "folder" /\ s[2] = "copy" /\ s[3] = "epel"
  /\ s[4] = "ansible" /\ s[5] = "rpm" /\ s[6] = "gdeploy"

EnginePrefix(s) ==
  /\ CommonPrefix(s)
  /\ s[7] = "repository" /\ s[8] = "subscription" /\ s[9] = "cockpit"
  /\ s[10] = "archive" /\ s[11] = "dashboard" /\ s[12] = "clean"
  /\ s[13] = "socket" /\ s[14] = "firewall" /\ s[15] = "roles"

LEMMA EngineCommands == Engine \in Seq(Commands) /\ Len(Engine) = 15 /\ EnginePrefix(Engine)
<1>0. Common \in Seq(Commands) /\ InstallOvirtEngine \in Seq(Commands)
  BY CommonCommands, Parts
<1>1. /\ Engine \in Seq(Commands) /\ Len(Engine) = Len(Common) + Len(InstallOvirtEngine)
      /\ \A i \in 1..Len(Common) : Engine[i] = Common[i]
      /\ \A i \in 1..Len(InstallOvirtEngine) : Engine[Len(Common) + i] = InstallOvirtEngine[i]
  BY <1>0, Joined, Zenon DEF Engine
<1>2. /\ Len(Engine) = 15
      /\ Engine[1] = Common[1] /\ Engine[2] = Common[2] /\ Engine[3] = Common[3]
      /\ Engine[4] = Common[4] /\ Engine[5] = Common[5] /\ Engine[6] = Common[6]
  BY <1>1, Parts, CommonCommands
<1>3. /\ Engine[7] = InstallOvirtEngine[1] /\ Engine[8] = InstallOvirtEngine[2]
      /\ Engine[9] = InstallOvirtEngine[3] /\ Engine[10] = InstallOvirtEngine[4]
      /\ Engine[11] = InstallOvirtEngine[5] /\ Engine[12] = InstallOvirtEngine[6]
      /\ Engine[13] = InstallOvirtEngine[7] /\ Engine[14] = InstallOvirtEngine[8]
      /\ Engine[15] = InstallOvirtEngine[9]
  BY <1>1, Parts, CommonCommands
<1>4. QED
  BY <1>1, <1>2, <1>3, CommonCommands DEF EnginePrefix, CommonPrefix, InstallOvirtEngine

LEMMA MasterScript ==
  /\ Len(Script("master")) = 17
  /\ EnginePrefix(Script("master"))
  /\ Script("master")[16] = "sshd" /\ Script("master")[17] = "key"
<1> DEFINE s == Script("master")
<1>0. Engine \in Seq(Commands) /\ CheckAndStartSshd \in Seq(Commands)
  BY Parts, EngineCommands
<1>1. s = Engine \o CheckAndStartSshd
  BY DEF Script, Engine, Common, Loaded
<1> HIDE DEF s
<1>2. /\ Len(s) = Len(Engine) + Len(CheckAndStartSshd)
      /\ \A i \in 1..Len(Engine) : s[i] = Engine[i]
      /\ \A i \in 1..Len(CheckAndStartSshd) : s[Len(Engine) + i] = CheckAndStartSshd[i]
  BY <1>0, <1>1, Joined, Zenon
<1>3. Len(s) = 17 /\ s[16] = CheckAndStartSshd[1] /\ s[17] = CheckAndStartSshd[2]
  BY <1>2, Parts, EngineCommands
<1>4. \A i \in 1..15 : s[i] = Engine[i]
  BY <1>2, EngineCommands
<1>5. EnginePrefix(s)
  BY <1>4, EngineCommands DEF EnginePrefix, CommonPrefix
<1>6. s[16] = "sshd" /\ s[17] = "key"
  BY <1>3 DEF CheckAndStartSshd
<1>7. QED
  BY <1>3, <1>5, <1>6 DEF s

LEMMA ClientScript ==
  /\ Len(Script("client")) = 8
  /\ CommonPrefix(Script("client"))
  /\ Script("client")[7] = "sshd" /\ Script("client")[8] = "key"
<1> DEFINE s == Script("client")
<1>1. s = (Common \o <<>>) \o CheckAndStartSshd
  BY DEF Script, Common, Loaded
<1>2. Common \o <<>> = Common
  BY CommonCommands, ConcatEmptySeq, Zenon
<1>3. s = Common \o CheckAndStartSshd
  BY <1>1, <1>2
<1> HIDE DEF s
<1>4. /\ Len(s) = Len(Common) + Len(CheckAndStartSshd)
      /\ \A i \in 1..Len(Common) : s[i] = Common[i]
      /\ \A i \in 1..Len(CheckAndStartSshd) : s[Len(Common) + i] = CheckAndStartSshd[i]
  BY <1>3, Parts, CommonCommands, Joined
<1>5. Len(s) = 8 /\ s[7] = CheckAndStartSshd[1] /\ s[8] = CheckAndStartSshd[2]
  BY <1>4, Parts, CommonCommands
<1>6. \A i \in 1..6 : s[i] = Common[i]
  BY <1>4, CommonCommands
<1>7. CommonPrefix(s)
  BY <1>6, CommonCommands DEF CommonPrefix
<1>8. s[7] = "sshd" /\ s[8] = "key"
  BY <1>5 DEF CheckAndStartSshd
<1>9. QED
  BY <1>5, <1>7, <1>8 DEF s
-----------------------------------------------------------------------------
\* Which command comes at which step.
CommandAt ==
  /\ Command \in Commands
  /\ Command = "folder" <=> step = 1
  /\ Command = "copy" <=> step = 2
  /\ Command = "epel" <=> step = 3
  /\ Command = "ansible" <=> step = 4
  /\ Command = "rpm" <=> step = 5
  /\ Command = "gdeploy" <=> step = 6
  /\ Command = "repository" <=> role = "master" /\ step = 7
  /\ Command = "subscription" <=> role = "master" /\ step = 8
  /\ Command = "cockpit" <=> role = "master" /\ step = 9
  /\ Command = "archive" <=> role = "master" /\ step = 10
  /\ Command = "dashboard" <=> role = "master" /\ step = 11
  /\ Command = "clean" <=> role = "master" /\ step = 12
  /\ Command = "socket" <=> role = "master" /\ step = 13
  /\ Command = "roles" <=> role = "master" /\ step = 15

LEMMA CommandIsAt ==
  ASSUME role \in Roles, step \in Nat, Running
  PROVE  CommandAt
<1>1. CASE role = "master"
  <2> DEFINE s == Script("master")
  <2>1. Len(s) = 17 /\ s[1] = "folder" /\ s[2] = "copy" /\ s[3] = "epel" /\ s[4] = "ansible"
        /\ s[5] = "rpm" /\ s[6] = "gdeploy" /\ s[7] = "repository" /\ s[8] = "subscription"
        /\ s[9] = "cockpit" /\ s[10] = "archive" /\ s[11] = "dashboard" /\ s[12] = "clean"
        /\ s[13] = "socket" /\ s[14] = "firewall" /\ s[15] = "roles"
        /\ s[16] = "sshd" /\ s[17] = "key"
    BY MasterScript DEF EnginePrefix, CommonPrefix
  <2>2. step > 0 /\ step <= Len(s) /\ Command = s[step]
    BY <1>1 DEF Running, Command
  <2> HIDE DEF s
  <2>3. step \in 1..17
    BY <2>1, <2>2
  <2>4. QED
    BY <1>1, <2>1, <2>2, <2>3 DEF CommandAt, Commands
<1>2. CASE role = "client"
  <2> DEFINE s == Script("client")
  <2>1. Len(s) = 8 /\ s[1] = "folder" /\ s[2] = "copy" /\ s[3] = "epel" /\ s[4] = "ansible"
        /\ s[5] = "rpm" /\ s[6] = "gdeploy" /\ s[7] = "sshd" /\ s[8] = "key"
    BY ClientScript DEF EnginePrefix, CommonPrefix
  <2>2. step > 0 /\ step <= Len(s) /\ Command = s[step]
    BY <1>2 DEF Running, Command
  <2> HIDE DEF s
  <2>3. step \in 1..8
    BY <2>1, <2>2
  <2>4. QED
    BY <1>2, <2>1, <2>2, <2>3 DEF CommandAt, Commands
<1>3. QED
  BY <1>1, <1>2 DEF Roles

LEMMA ThingsAre == Things = (Commands \ {"clean"}) \cup {"old copy", "blocker"}
<1>1. ToSet(Script("master")) = {Script("master")[i] : i \in 1..17}
  <2>1. DOMAIN Script("master") = 1..17
    <3>1. Engine \in Seq(Commands) /\ CheckAndStartSshd \in Seq(Commands)
      BY Parts, EngineCommands
    <3>2. Script("master") = Engine \o CheckAndStartSshd
      BY DEF Script, Engine, Common, Loaded
    <3>3. Script("master") \in Seq(Commands)
      BY <3>1, <3>2, Joined, Zenon
    <3>4. QED
      BY <3>3, MasterScript
  <2>2. QED
    BY <2>1 DEF ToSet
<1>2. {Script("master")[i] : i \in 1..17} = Commands
  <2> DEFINE s == Script("master")
  <2>1. /\ s[1] = "folder" /\ s[2] = "copy" /\ s[3] = "epel" /\ s[4] = "ansible"
        /\ s[5] = "rpm" /\ s[6] = "gdeploy" /\ s[7] = "repository" /\ s[8] = "subscription"
        /\ s[9] = "cockpit" /\ s[10] = "archive" /\ s[11] = "dashboard" /\ s[12] = "clean"
        /\ s[13] = "socket" /\ s[14] = "firewall" /\ s[15] = "roles"
        /\ s[16] = "sshd" /\ s[17] = "key"
    BY MasterScript DEF EnginePrefix, CommonPrefix
  <2> HIDE DEF s
  <2>2. \A i \in 1..17 : s[i] \in Commands
    BY <2>1 DEF Commands
  <2>3. \A c \in Commands : \E i \in 1..17 : s[i] = c
    BY <2>1 DEF Commands
  <2>4. {s[i] : i \in 1..17} = Commands
    BY <2>2, <2>3
  <2>5. QED
    BY <2>4 DEF s
<1>3. QED
  BY <1>1, <1>2 DEF Things
ScriptLength(r) == IF r = "master" THEN 17 ELSE 8

LEMMA ScriptLengths == \A r \in Roles : Len(Script(r)) = ScriptLength(r)
BY MasterScript, ClientScript DEF Roles, ScriptLength

-----------------------------------------------------------------------------
\* Every variable of the installer keeps its type.
ProcessOK ==
  /\ osType \in {"Unknown", "Centos", "Rhel"}
  /\ accepted \in BOOLEAN
  /\ result \in {0, -1}
  /\ worked \in BOOLEAN /\ copied \in BOOLEAN /\ clean \in BOOLEAN /\ fresh \in BOOLEAN
  /\ root \in BOOLEAN

PlaceOK ==
  /\ machine \in Machines
  /\ role \in Roles
  /\ step \in 0..(ScriptLength(role) + 1)
  /\ faults \in 0..MaxFaults
  /\ runs \in 0..MaxRuns

ThingsOK ==
  /\ have \subseteq Things
  /\ partial \subseteq Downloads
  /\ noFolder \in BOOLEAN

LEMMA TypeParts == TypeOK <=> ProcessOK /\ PlaceOK /\ ThingsOK
<1>1. PlaceOK => step \in 0..(Len(Script(role)) + 1)
  BY ScriptLengths DEF PlaceOK
<1>2. TypeOK => PlaceOK
  BY ScriptLengths DEF TypeOK, PlaceOK
<1>3. QED
  BY <1>1, <1>2 DEF TypeOK, ProcessOK, PlaceOK, ThingsOK

LEMMA VerdictIsBoolean ==
  ASSUME NEW m, NEW o, NEW l
  PROVE  VerifyHciRequirements(m, o, l) \in BOOLEAN
BY DEF VerifyHciRequirements

LEMMA OsTypes ==
  ASSUME NEW m \in Machines, NEW p \in BOOLEAN
  PROVE  /\ OsType(m, p) \in {"Unknown", "Centos", "Rhel"}
         /\ OsType(m, p) = "Rhel" => m.os = "Red Hat"
         /\ OsType(m, p) = "Centos" => m.os = "CentOS"
BY InstallerAssumption DEF OsType, IsMachine, Systems

LEMMA RunningStep ==
  ASSUME PlaceOK, Running
  PROVE  CommandAt /\ step + 1 \in 0..(ScriptLength(role) + 1)
<1>1. step \in Nat /\ Len(Script(role)) = ScriptLength(role) /\ ScriptLength(role) \in Nat
  BY ScriptLengths DEF PlaceOK, ScriptLength
<1>2. step + 1 \in 0..(ScriptLength(role) + 1)
  BY <1>1 DEF Running
<1>3. QED
  BY <1>1, <1>2, CommandIsAt DEF PlaceOK

LEMMA FaultsCount ==
  ASSUME PlaceOK, NEW n \in {0, 1}, Faults(n)
  PROVE  faults' \in 0..MaxFaults
BY InstallerAssumption DEF PlaceOK, Faults

THEOREM InstallerTypeCorrect == Spec => []TypeOK
<1>1. Init => TypeOK
  <2> SUFFICES ASSUME Init PROVE TypeOK
    OBVIOUS
  <2>1. PlaceOK
    <3>1. MaxFaults \in Nat /\ MaxRuns \in Nat
      BY InstallerAssumption
    <3>2. machine \in Machines /\ role \in Roles /\ step = 0 /\ faults = 0 /\ runs = 0
      BY DEF Init
    <3>3. QED
      BY <3>1, <3>2 DEF PlaceOK, ScriptLength
  <2>2. ThingsOK
    BY ThingsAre DEF Init, ThingsOK, Commands
  <2>3. ProcessOK
    BY DEF Init, ProcessOK
  <2>4. QED
    BY <2>1, <2>2, <2>3, TypeParts
<1>2. TypeOK /\ [Next]_vars => TypeOK'
  <2> SUFFICES ASSUME TypeOK, [Next]_vars PROVE ProcessOK' /\ PlaceOK' /\ ThingsOK'
    BY TypeParts, PTL
  <2>0. ProcessOK /\ PlaceOK /\ ThingsOK
    BY TypeParts
  <2>1. ASSUME NEW r \in Roles, Start(r) PROVE ProcessOK' /\ PlaceOK' /\ ThingsOK'
    <3>1. PICK printed \in BOOLEAN, lucky \in SUBSET Lacks(machine) :
            /\ Faults(IF printed THEN 0 ELSE 1)
            /\ osType' = OsType(machine, printed)
            /\ accepted' = VerifyHciRequirements(machine, osType', lucky)
      BY <2>1 DEF Start
    <3>2. osType' \in {"Unknown", "Centos", "Rhel"} /\ accepted' \in BOOLEAN
      BY <3>1, <2>0, OsTypes, VerdictIsBoolean DEF PlaceOK
    <3>3. faults' \in 0..MaxFaults
      BY <3>1, <2>0, InstallerAssumption DEF Faults, PlaceOK
    <3>4. /\ runs' \in 0..MaxRuns /\ step' = 1 /\ role' = r
          /\ fresh' \in BOOLEAN /\ root' \in BOOLEAN
      BY <2>1, <2>0, InstallerAssumption DEF Start, PlaceOK
    <3>5. UNCHANGED <<machine, have, partial, result, worked, copied, clean, noFolder>>
      BY <2>1 DEF Start
    <3>6. PlaceOK'
      BY <2>0, <3>3, <3>4, <3>5 DEF PlaceOK, ScriptLength
    <3>7. ThingsOK'
      BY <2>0, <3>5 DEF ThingsOK
    <3>8. ProcessOK'
      BY <2>0, <3>2, <3>4, <3>5 DEF ProcessOK
    <3>9. QED
      BY <3>6, <3>7, <3>8
  <2>2. CASE Skip
    <3>1. step' = step + 1 /\ step' \in 0..(ScriptLength(role) + 1)
      BY <2>2, <2>0, RunningStep DEF Skip
    <3>2. UNCHANGED <<machine, role, have, partial, root, osType, accepted, result, worked,
                     copied, clean, fresh, noFolder, faults, runs>>
      BY <2>2 DEF Skip, process
    <3>3. PlaceOK'
      BY <2>0, <3>1, <3>2 DEF PlaceOK, ScriptLength
    <3>4. ThingsOK'
      BY <2>0, <3>2 DEF ThingsOK
    <3>5. ProcessOK'
      BY <2>0, <3>2 DEF ProcessOK
    <3>6. QED
      BY <3>3, <3>4, <3>5
  <2>3. ASSUME NEW code \in {0, -1}, Succeed(code) PROVE ProcessOK' /\ PlaceOK' /\ ThingsOK'
    <3>1. CommandAt /\ step' \in 0..(ScriptLength(role) + 1)
      BY <2>3, <2>0, RunningStep DEF Succeed
    <3>2. have' \subseteq Things
      BY <2>3, <2>0, <3>1, ThingsAre DEF Succeed, ThingsOK, CommandAt
    <3>3. partial' \subseteq Downloads /\ UNCHANGED noFolder
      BY <2>3, <2>0 DEF Succeed, ThingsOK
    <3>4. result' = code /\ worked' = TRUE /\ copied' \in BOOLEAN
      BY <2>3, <2>0 DEF Succeed, Execute, LookForCopy, ProcessOK
    <3>5. UNCHANGED <<machine, role, root, osType, accepted, clean, fresh, runs>>
      BY <2>3 DEF Succeed
    <3>6. faults' \in 0..MaxFaults
      <4>1. Faults(IF code = 0 THEN 0 ELSE 1)
        BY <2>3 DEF Succeed
      <4>2. QED
        BY <2>0, <4>1, FaultsCount
    <3>7. PlaceOK'
      BY <2>0, <3>1, <3>5, <3>6 DEF PlaceOK, ScriptLength
    <3>8. ThingsOK'
      BY <2>0, <3>2, <3>3 DEF ThingsOK
    <3>9. ProcessOK'
      BY <2>0, <3>4, <3>5 DEF ProcessOK
    <3>10. QED
      BY <3>7, <3>8, <3>9
  <2>4. ASSUME NEW code \in {0, -1}, FailCommand(code) PROVE ProcessOK' /\ PlaceOK' /\ ThingsOK'
    <3>1. step' \in 0..(ScriptLength(role) + 1)
      BY <2>4, <2>0, RunningStep DEF FailCommand
    <3>2. partial' \subseteq Downloads /\ noFolder' \in BOOLEAN
      BY <2>4, <2>0 DEF FailCommand, LeavePart, ThingsOK
    <3>3. result' = code /\ worked' = FALSE /\ copied' \in BOOLEAN /\ clean' \in BOOLEAN
      BY <2>4, <2>0 DEF FailCommand, Execute, LookForCopy, ProcessOK
    <3>4. faults' \in 0..MaxFaults
      <4>1. PICK n \in {0, 1} : Faults(n)
        BY <2>4 DEF FailCommand
      <4>2. QED
        BY <2>0, <4>1, FaultsCount
    <3>5. UNCHANGED <<machine, role, have, root, osType, accepted, fresh, runs>>
      BY <2>4 DEF FailCommand
    <3>6. PlaceOK'
      BY <2>0, <3>1, <3>4, <3>5 DEF PlaceOK, ScriptLength
    <3>7. ThingsOK'
      BY <2>0, <3>2, <3>5 DEF ThingsOK
    <3>8. ProcessOK'
      BY <2>0, <3>3, <3>5 DEF ProcessOK
    <3>9. QED
      BY <3>6, <3>7, <3>8
  <2>5. CASE Kill \/ Finish
    <3>1. ProcessOK'
      BY <2>5 DEF Kill, Finish, ProcessEnds, ProcessOK
    <3>2. ThingsOK'
      BY <2>5, <2>0 DEF Kill, Finish, LeavePart, ThingsOK
    <3>3. faults' \in 0..MaxFaults
      BY <2>5, <2>0, InstallerAssumption DEF Kill, Finish, Faults, PlaceOK
    <3>4. step' = 0 /\ UNCHANGED <<machine, role, runs>>
      BY <2>5 DEF Kill, Finish
    <3>5. PlaceOK'
      BY <2>0, <3>3, <3>4 DEF PlaceOK, ScriptLength
    <3>6. QED
      BY <3>1, <3>2, <3>5
  <2>6. CASE UNCHANGED vars
    <3>1. UNCHANGED <<machine, role, step, have, partial, noFolder, faults, runs>>
      BY <2>6 DEF vars
    <3>2. UNCHANGED <<root, osType, accepted, result, worked, copied, clean, fresh>>
      BY <2>6 DEF vars, process
    <3>3. PlaceOK' /\ ThingsOK'
      BY <2>0, <3>1 DEF PlaceOK, ThingsOK, ScriptLength
    <3>4. ProcessOK'
      BY <2>0, <3>2 DEF ProcessOK
    <3>5. QED
      BY <3>3, <3>4
  <2>7. QED
    BY <2>1, <2>2, <2>3, <2>4, <2>5, <2>6 DEF Next
<1>3. QED
  BY <1>1, <1>2, PTL DEF Spec
-----------------------------------------------------------------------------
(* What the steps do to the things there are.                              *)
LEMMA SkipEffect ==
  ASSUME PlaceOK, Skip
  PROVE  /\ CommandAt /\ step' = step + 1
         /\ UNCHANGED <<machine, role, have, partial, root, osType, accepted, clean, fresh, noFolder>>
         /\ Command = "folder" => "folder" \in have
         /\ Command \in {"epel", "ansible"} => "ansible" \in have
         /\ Command \in {"rpm", "gdeploy"} => "gdeploy" \in have
         /\ Command = "subscription" => osType # "Rhel"
         /\ Command \in {"folder", "epel", "ansible", "rpm", "gdeploy", "subscription", "sshd"}
<1>1. CommandAt
  BY RunningStep DEF Skip
<1>2. QED
  BY <1>1 DEF Skip, Skipped, process, CommandAt, Commands

LEMMA SucceedEffect ==
  ASSUME PlaceOK, NEW code, Succeed(code)
  PROVE  /\ CommandAt /\ step' = step + 1
         /\ UNCHANGED <<machine, role, root, osType, accepted, clean, fresh, noFolder>>
         /\ \A x \in have : x = "old copy" \/ (x = "archive" /\ Command = "clean") \/ x \in have'
         /\ Command \notin {"clean", "copy", "rpm", "archive"} => Command \in have'
         /\ Command \in {"rpm", "archive"} /\ Command \notin partial => Command \in have'
         /\ Command = "copy" /\ "folder" \in have => "copy" \in have'
         /\ "blocker" \in have' => "blocker" \in have \/ (Command = "copy" /\ "folder" \notin have)
         /\ partial' \subseteq partial
<1>1. CommandAt
  BY RunningStep DEF Succeed
<1>2. CASE Command \in {"clean", "copy", "rpm", "archive"}
  BY <1>1, <1>2 DEF Succeed, Downloads
<1>3. CASE Command \notin {"clean", "copy", "rpm", "archive"}
  <2>1. have' = have \cup {Command} /\ partial' = partial
    BY <1>3 DEF Succeed, Downloads
  <2>2. Command # "blocker"
    BY <1>1 DEF CommandAt, Commands
  <2>3. QED
    BY <1>1, <1>3, <2>1, <2>2 DEF Succeed
<1>4. QED
  BY <1>2, <1>3

LEMMA FailEffect ==
  ASSUME PlaceOK, NEW code, FailCommand(code)
  PROVE  /\ CommandAt /\ step' = step + 1
         /\ UNCHANGED <<machine, role, have, root, osType, accepted, fresh>>
         /\ clean' = (clean /\ ~CanSucceed(Command))
         /\ noFolder \/ (Command = "folder" /\ CanSucceed(Command)) => noFolder'
         /\ Command \notin Downloads => partial' = partial
<1>1. CommandAt
  BY RunningStep DEF FailCommand
<1>2. QED
  BY <1>1 DEF FailCommand, LeavePart

-----------------------------------------------------------------------------
\* The copy is made with no folder only after an mkdir that failed.
FolderOrFailure ==
  /\ "blocker" \in have => noFolder
  /\ step = 2 /\ "folder" \notin have => noFolder

\* The folder of the product is blocked only by an mkdir that failed by itself,
\* wherever runs are cut off and whichever other command fails.
THEOREM OnlyFailuresBlock == Spec => []BlockerNeedsFailure
<1>1. Init => FolderOrFailure
  <2>1. Init => step = 0 /\ "blocker" \notin have
    BY DEF Init
  <2>2. QED
    BY <2>1 DEF FolderOrFailure
<1>2. ASSUME TypeOK, FolderOrFailure, [Next]_vars PROVE FolderOrFailure'
  <2>0. PlaceOK /\ step \in Nat
    BY <1>2, TypeParts DEF PlaceOK
  <2>1. ASSUME NEW r \in Roles, Start(r) PROVE FolderOrFailure'
    BY <1>2, <2>1 DEF Start, FolderOrFailure
  <2>2. CASE Skip
    BY <1>2, <2>0, <2>2, SkipEffect DEF FolderOrFailure, CommandAt, PlaceOK
  <2>3. ASSUME NEW code \in {0, -1}, Succeed(code) PROVE FolderOrFailure'
    <3>1. CommandAt /\ step' = step + 1 /\ step \in Nat
      BY <2>0, <2>3, SucceedEffect
    <3>2. /\ "blocker" \in have' => "blocker" \in have \/ (step = 2 /\ "folder" \notin have)
          /\ step = 1 => "folder" \in have'
          /\ noFolder' = noFolder
      BY <2>0, <2>3, <3>1, SucceedEffect DEF CommandAt
    <3>3. QED
      BY <1>2, <3>1, <3>2 DEF FolderOrFailure
  <2>4. ASSUME NEW code \in {0, -1}, FailCommand(code) PROVE FolderOrFailure'
    <3>1. Command = "folder" => CanSucceed(Command) \/ "blocker" \in have
      BY DEF CanSucceed, Needs
    <3>2. CommandAt /\ step' = step + 1 /\ step \in Nat /\ have' = have
      BY <2>0, <2>4, FailEffect
    <3>3. noFolder \/ (Command = "folder" /\ CanSucceed(Command)) => noFolder'
      BY <2>0, <2>4, FailEffect
    <3>4. step = 1 <=> Command = "folder"
      BY <3>2 DEF CommandAt
    <3>5. QED
      BY <1>2, <3>1, <3>2, <3>3, <3>4 DEF FolderOrFailure
  <2>5. CASE Kill \/ Finish
    BY <1>2, <2>5 DEF Kill, Finish, FolderOrFailure
  <2>6. CASE UNCHANGED vars
    BY <1>2, <2>6 DEF vars, FolderOrFailure
  <2>7. QED
    BY <1>2, <2>1, <2>2, <2>3, <2>4, <2>5, <2>6 DEF Next
<1>3. FolderOrFailure => BlockerNeedsFailure
  BY DEF FolderOrFailure, BlockerNeedsFailure
<1>4. QED
  BY <1>1, <1>2, <1>3, InstallerTypeCorrect, PTL DEF Spec

-----------------------------------------------------------------------------
\* What a run that began with nothing in its way and met no fault has got at
\* each step.
Achieved ==
  /\ "blocker" \notin have /\ partial = {}
  /\ step > 1 => "folder" \in have
  /\ step > 2 => "copy" \in have
  /\ step > 3 => "epel" \in have \/ "ansible" \in have
  /\ step > 4 => "ansible" \in have
  /\ step > 5 => "rpm" \in have \/ "gdeploy" \in have
  /\ step > 6 => "gdeploy" \in have
  /\ role = "master" =>
       /\ step > 7 => "repository" \in have
       /\ step > 9 => "cockpit" \in have
       /\ step \in {11, 12} => "archive" \in have
       /\ step > 11 => "dashboard" \in have
       /\ step > 13 => "socket" \in have
       /\ step > 15 /\ root => "roles" \in have

FaultlessAchieves == step > 0 /\ clean /\ fresh => Achieved

\* A run that begins with no part of a download and no file in the folder's way,
\* and in which no command fails by itself, installs every tool, the roles if
\* root runs it, whatever is there already.
THEOREM FaultlessRunInstalls == Spec => []FreshRunInstalls
<1>1. Init => FaultlessAchieves
  <2>1. Init => step = 0
    BY DEF Init
  <2>2. QED
    BY <2>1 DEF FaultlessAchieves
<1>2. ASSUME TypeOK, FaultlessAchieves, [Next]_vars PROVE FaultlessAchieves'
  <2>0. PlaceOK /\ ThingsOK /\ step \in Nat
    BY <1>2, TypeParts DEF PlaceOK
  <2>1. ASSUME NEW r \in Roles, Start(r) PROVE FaultlessAchieves'
    <3>1. step' = 1 /\ UNCHANGED <<have, partial>>
      BY <2>1 DEF Start
    <3>2. fresh' => "blocker" \notin have /\ partial = {}
      BY <2>0, <2>1 DEF Start, ThingsOK
    <3>3. QED
      BY <3>1, <3>2 DEF FaultlessAchieves, Achieved
  <2>2. CASE Skip
    <3> SUFFICES ASSUME clean, fresh PROVE Achieved'
      BY <2>0, <2>2, SkipEffect DEF FaultlessAchieves
    <3>1. Achieved /\ CommandAt /\ step' = step + 1 /\ UNCHANGED <<role, root, have, partial>>
      BY <1>2, <2>0, <2>2, SkipEffect DEF FaultlessAchieves, Skip, Running
    <3>2. QED
      BY <2>0, <2>2, <3>1, SkipEffect DEF Achieved, CommandAt
  <2>3. ASSUME NEW code \in {0, -1}, Succeed(code) PROVE FaultlessAchieves'
    <3> SUFFICES ASSUME clean, fresh PROVE Achieved'
      BY <2>0, <2>3, SucceedEffect DEF FaultlessAchieves
    <3>1. Achieved /\ CommandAt /\ step' = step + 1 /\ UNCHANGED <<role, root>>
      BY <1>2, <2>0, <2>3, SucceedEffect DEF FaultlessAchieves, Succeed, Running
    <3>2. \A x \in have : x = "old copy" \/ (x = "archive" /\ Command = "clean") \/ x \in have'
      BY <2>0, <2>3, SucceedEffect
    <3>3. /\ Command \notin {"clean", "copy", "rpm", "archive"} => Command \in have'
          /\ Command \in {"rpm", "archive"} /\ Command \notin partial => Command \in have'
          /\ Command = "copy" /\ "folder" \in have => "copy" \in have'
      BY <2>0, <2>3, SucceedEffect
    <3>4. /\ "blocker" \in have' => "blocker" \in have \/ (Command = "copy" /\ "folder" \notin have)
          /\ partial' \subseteq partial
      BY <2>0, <2>3, SucceedEffect
    <3>5. "blocker" \notin have' /\ partial' = {}
      BY <2>0, <3>1, <3>4 DEF Achieved, CommandAt
    <3>6. /\ Command \notin {"clean", "copy"} => Command \in have'
          /\ Command = "copy" => "copy" \in have'
      <4>1. partial = {} /\ (Command = "copy" => "folder" \in have)
        BY <2>0, <3>1 DEF Achieved, CommandAt
      <4>2. QED
        BY <3>3, <4>1
    <3>7. /\ step = 1 => "folder" \in have'
          /\ step = 2 => "copy" \in have'
          /\ step = 3 => "epel" \in have'
          /\ step = 4 => "ansible" \in have'
          /\ step = 5 => "rpm" \in have'
          /\ step = 6 => "gdeploy" \in have'
      BY <3>1, <3>6 DEF CommandAt
    <3>8. role = "master" =>
             /\ step = 7 => "repository" \in have'
             /\ step = 9 => "cockpit" \in have'
             /\ step = 10 => "archive" \in have'
             /\ step = 11 => "dashboard" \in have'
             /\ step = 13 => "socket" \in have'
             /\ step = 15 => "roles" \in have'
             /\ Command = "clean" <=> step = 12
      BY <3>1, <3>6 DEF CommandAt
    <3>9. step' = step + 1 /\ step \in Nat /\ Achieved
      BY <2>0, <3>1
    <3>10. /\ "folder" \in have => "folder" \in have'
           /\ "copy" \in have => "copy" \in have'
           /\ "epel" \in have => "epel" \in have'
           /\ "ansible" \in have => "ansible" \in have'
           /\ "rpm" \in have => "rpm" \in have'
           /\ "gdeploy" \in have => "gdeploy" \in have'
           /\ "repository" \in have => "repository" \in have'
           /\ "cockpit" \in have => "cockpit" \in have'
           /\ "dashboard" \in have => "dashboard" \in have'
           /\ "socket" \in have => "socket" \in have'
           /\ "roles" \in have => "roles" \in have'
           /\ "archive" \in have /\ Command # "clean" => "archive" \in have'
      BY <3>2
    <3>11. QED
      BY <3>1, <3>5, <3>7, <3>8, <3>9, <3>10 DEF Achieved
  <2>4. ASSUME NEW code \in {0, -1}, FailCommand(code) PROVE FaultlessAchieves'
    <3> SUFFICES ASSUME clean, fresh, ~CanSucceed(Command) PROVE Achieved'
      BY <2>0, <2>4, FailEffect DEF FaultlessAchieves
    <3>1. Achieved /\ CommandAt /\ step' = step + 1 /\ UNCHANGED <<role, root, have>>
      BY <1>2, <2>0, <2>4, FailEffect DEF FaultlessAchieves, FailCommand, Running
    <3>2. ~(Command = "ansible" /\ "ansible" \in have) /\ ~(Command = "gdeploy" /\ "gdeploy" \in have)
      BY <2>4 DEF FailCommand, Skipped
    <3>3. Needs(Command) \subseteq have /\ (Command = "folder" => "blocker" \notin have)
      BY <2>0, <3>1, <3>2 DEF Achieved, CommandAt, Needs
    <3>4. role = "master" /\ step = 15 /\ ~root /\ Command = "roles"
      BY <3>1, <3>3 DEF CanSucceed, CommandAt
    <3>5. partial' = partial
      BY <2>0, <2>4, <3>4, FailEffect DEF Downloads
    <3>6. QED
      BY <3>1, <3>4, <3>5 DEF Achieved
  <2>5. CASE Kill \/ Finish
    BY <2>5 DEF Kill, Finish, FaultlessAchieves
  <2>6. CASE UNCHANGED vars
    BY <1>2, <2>6 DEF vars, process, FaultlessAchieves, Achieved
  <2>7. QED
    BY <1>2, <2>1, <2>2, <2>3, <2>4, <2>5, <2>6 DEF Next
<1>3. TypeOK /\ FaultlessAchieves => FreshRunInstalls
  <2> SUFFICES ASSUME TypeOK, FaultlessAchieves, Finished, clean, fresh
               PROVE  {t \in Tools(role) : t = "roles" => root} \subseteq have
    BY DEF FreshRunInstalls
  <2>1. role \in Roles /\ step = ScriptLength(role) + 1
    BY ScriptLengths, TypeParts DEF Finished, PlaceOK
  <2>2. Achieved
    BY <2>1 DEF FaultlessAchieves, ScriptLength
  <2>3. QED
    BY <2>1, <2>2 DEF Achieved, Tools, Roles, ScriptLength
<1>4. QED
  BY <1>1, <1>2, <1>3, InstallerTypeCorrect, PTL DEF Spec
-----------------------------------------------------------------------------
\* A machine that was accepted is of a supported kind, its system was told, and
\* past the subscription a run without a fault has a RHEL's repositories.
FitMachine(m) ==
  /\ m.vendor \in {"Intel", "AMD"} /\ {"lm", "nx"} \subseteq m.flags
  /\ \A f \in Folders \ Lacks(m) : m.size[f] >= MinSize(f)

Verdict(m, o) ==
  /\ FitMachine(m)
  /\ o \in {"Centos", "Rhel"}
  /\ o = "Rhel" <=> m.os = "Red Hat"
  /\ o = "Centos" <=> m.os = "CentOS"

Subscribes == accepted /\ clean /\ role = "master" /\ osType = "Rhel"

AcceptedIsFit ==
  /\ accepted => Verdict(machine, osType)
  /\ Subscribes => (step > 8 => "subscription" \in have)

LEMMA VerifiedIsFit ==
  ASSUME NEW m \in Machines, NEW p \in BOOLEAN, NEW l,
         VerifyHciRequirements(m, OsType(m, p), l)
  PROVE  Verdict(m, OsType(m, p))
<1>1. IsMachine(m)
  BY InstallerAssumption
<1>2. m.vendor \in {"Intel", "AMD"} /\ "lm" \in m.flags
  BY <1>1 DEF VerifyHciRequirements, ProcessorType, IsMachine, Vendors
<1>3. "nx" \in m.flags
  BY DEF VerifyHciRequirements, IsVirtualizationSupported
<1>4. \A f \in Folders \ Lacks(m) : m.size[f] >= MinSize(f)
  BY DEF VerifyHciRequirements, CheckFolderSize
<1>5. OsType(m, p) \in {"Centos", "Rhel"}
  BY DEF VerifyHciRequirements
<1>6. /\ OsType(m, p) = "Rhel" <=> m.os = "Red Hat"
      /\ OsType(m, p) = "Centos" <=> m.os = "CentOS"
  BY <1>1, <1>5 DEF OsType, IsMachine, Systems
<1>7. QED
  BY <1>2, <1>3, <1>4, <1>5, <1>6 DEF FitMachine, Verdict

\* A machine VerifyHciRequirements accepts is one the program supports, and gets
\* what its system needs in a run without a fault.
THEOREM AcceptedMachinesAreServed == Spec => []AcceptedIsServed
<1>1. Init => AcceptedIsFit
  <2>1. Init => accepted = FALSE
    BY DEF Init
  <2>2. QED
    BY <2>1 DEF AcceptedIsFit, Subscribes
<1>2. ASSUME TypeOK, AcceptedIsFit, [Next]_vars PROVE AcceptedIsFit'
  <2>0. PlaceOK /\ step \in Nat
    BY <1>2, TypeParts DEF PlaceOK
  <2>1. ASSUME NEW r \in Roles, Start(r) PROVE AcceptedIsFit'
    <3>1. PICK printed \in BOOLEAN, lucky \in SUBSET Lacks(machine) :
            /\ osType' = OsType(machine, printed)
            /\ accepted' = VerifyHciRequirements(machine, osType', lucky)
      BY <2>1 DEF Start
    <3>2. step' = 1 /\ machine' = machine
      BY <2>1 DEF Start
    <3>3. accepted' => Verdict(machine, osType')
      BY <2>0, <3>1, VerifiedIsFit DEF PlaceOK
    <3>4. ~(step' > 8)
      BY <3>2
    <3>5. accepted' => Verdict(machine', osType')
      BY <3>2, <3>3, Zenon
    <3>6. QED
      BY <3>4, <3>5, Zenon DEF AcceptedIsFit
  <2>2. CASE Skip
    <3>1. /\ CommandAt /\ step' = step + 1
          /\ UNCHANGED <<machine, role, have, osType, accepted, clean>>
          /\ Command = "subscription" => osType # "Rhel"
      BY <2>0, <2>2, SkipEffect
    <3>2. ~(step = 8 /\ role = "master" /\ osType = "Rhel")
      BY <3>1 DEF CommandAt
    <3>3. step' > 8 => step > 8 \/ step = 8
      BY <2>0, <3>1
    <3>4. accepted' => Verdict(machine', osType')
      BY <1>2, <3>1, Zenon DEF AcceptedIsFit
    <3>5. Subscribes' => Subscribes /\ step # 8
      BY <3>1, <3>2, Zenon DEF Subscribes
    <3>6. QED
      BY <1>2, <3>1, <3>3, <3>4, <3>5, Zenon DEF AcceptedIsFit
  <2>3. ASSUME NEW code \in {0, -1}, Succeed(code) PROVE AcceptedIsFit'
    <3>1. /\ CommandAt /\ step' = step + 1
          /\ UNCHANGED <<machine, role, osType, accepted, clean>>
          /\ \A x \in have : x = "old copy" \/ (x = "archive" /\ Command = "clean") \/ x \in have'
          /\ Command \notin {"clean", "copy", "rpm", "archive"} => Command \in have'
      BY <2>0, <2>3, SucceedEffect
    <3>2. /\ step = 8 /\ role = "master" => "subscription" \in have'
          /\ "subscription" \in have => "subscription" \in have'
      BY <3>1 DEF CommandAt
    <3>3. step' > 8 => step > 8 \/ step = 8
      <4>1. step \in Nat /\ step' = step + 1
        BY <2>0, <3>1, Zenon
      <4>2. QED
        BY <4>1
    <3>4. accepted' => Verdict(machine', osType')
      BY <1>2, <3>1, Zenon DEF AcceptedIsFit
    <3>5. Subscribes' => Subscribes /\ role = "master"
      BY <3>1, Zenon DEF Subscribes
    <3>6. QED
      BY <1>2, <3>2, <3>3, <3>4, <3>5, Zenon DEF AcceptedIsFit
  <2>4. ASSUME NEW code \in {0, -1}, FailCommand(code) PROVE AcceptedIsFit'
    <3>1. /\ CommandAt /\ step' = step + 1
          /\ UNCHANGED <<machine, role, have, osType, accepted>>
          /\ clean' = (clean /\ ~CanSucceed(Command))
      BY <2>0, <2>4, FailEffect
    <3>2. Command = "subscription" => CanSucceed(Command)
      BY DEF CanSucceed, Needs
    <3>3. step = 8 /\ role = "master" => CanSucceed(Command)
      BY <3>1, <3>2 DEF CommandAt
    <3>4. step' > 8 => step > 8 \/ step = 8
      BY <2>0, <3>1
    <3>5. accepted' => Verdict(machine', osType')
      BY <1>2, <3>1, Zenon DEF AcceptedIsFit
    <3>6. Subscribes' => Subscribes /\ step # 8
      BY <3>1, <3>3, Zenon DEF Subscribes
    <3>7. QED
      BY <1>2, <3>1, <3>4, <3>5, <3>6, Zenon DEF AcceptedIsFit
  <2>5. CASE Kill \/ Finish
    <3>1. accepted' = FALSE
      BY <2>5 DEF Kill, Finish, ProcessEnds
    <3>2. QED
      BY <3>1 DEF AcceptedIsFit, Subscribes
  <2>6. CASE UNCHANGED vars
    <3>1. UNCHANGED <<machine, role, step, have, osType, accepted, clean>>
      BY <2>6 DEF vars, process
    <3>2. QED
      BY <1>2, <3>1, Zenon DEF AcceptedIsFit, Subscribes
  <2>7. QED
    BY <1>2, <2>1, <2>2, <2>3, <2>4, <2>5, <2>6 DEF Next
<1>3. TypeOK /\ AcceptedIsFit => AcceptedIsServed
  <2> SUFFICES ASSUME TypeOK, AcceptedIsFit, accepted
               PROVE  /\ FitMachine(machine) /\ machine.os # "another"
                      /\ (Finished /\ clean /\ role = "master" /\ machine.os = "Red Hat")
                           => "subscription" \in have
    BY DEF AcceptedIsServed, FitMachine
  <2>1. Verdict(machine, osType)
    BY DEF AcceptedIsFit
  <2>2. machine.os # "another" /\ (machine.os = "Red Hat" => osType = "Rhel")
    BY <2>1 DEF Verdict
  <2>3. ASSUME Finished, role = "master" PROVE step > 8
    <3>1. Len(Script("master")) = ScriptLength("master")
      BY ScriptLengths DEF Roles
    <3>2. step = ScriptLength("master") + 1
      BY <2>3, <3>1 DEF Finished
    <3>3. QED
      BY <3>2 DEF ScriptLength
  <2>4. ASSUME Finished, clean, role = "master", machine.os = "Red Hat"
        PROVE "subscription" \in have
    BY <2>2, <2>3, <2>4, Zenon DEF AcceptedIsFit, Subscribes
  <2>5. FitMachine(machine)
    BY <2>1 DEF Verdict
  <2>6. QED
    BY <2>2, <2>4, <2>5
<1>4. QED
  BY <1>1, <1>2, <1>3, InstallerTypeCorrect, PTL DEF Spec
=============================================================================
