----------------------------- MODULE Installer -----------------------------
(***************************************************************************)
(* apps/graviton0: "install master" and "install client" look the machine  *)
(* over and run one shell command after another through                    *)
(* OsInterface::Execute, with no look at any result. Each command succeeds *)
(* or fails, the program may be killed between and during commands, and is *)
(* run again. A thing is what one command leaves behind. What a command    *)
(* needs is the environment's, and the model names only what decides which *)
(* of the program's own commands have to go before which. A question that  *)
(* yum without -y or ssh-keygen asks and nobody answers is a failure that  *)
(* the command has by itself.                                              *)
(***************************************************************************)
EXTENDS Requirements, Sequences, SequencesExt

CONSTANTS
  Machines,  \* the machines it is run on
  MaxFaults, \* bound: commands that fail for a reason of their own, and kills
  MaxRuns    \* bound: runs of the program

ASSUME InstallerAssumption ==
  /\ \A m \in Machines : IsMachine(m)
  /\ {MaxFaults, MaxRuns} \subseteq Nat

Roles == {"master", "client"}

-----------------------------------------------------------------------------
(* The commands of a role in order, each named for what it leaves behind;  *)
(* "clean" is the rm of the downloaded archive.                            *)
InstallOvirtEngine_Dashboard ==  \* mutant: cockpit after its dashboard
  <<"repository", "subscription", "archive", "dashboard", "clean", "cockpit",
    "socket", "firewall", "roles">>

InstallOvirtEngine ==
  <<"repository", "subscription", "cockpit", "archive", "dashboard", "clean",
    "socket", "firewall", "roles">>

LoadEthinza_CopyFirst == <<"copy", "folder">>  \* mutant

LoadEthinza      == <<"folder", "copy">>
InstallAnsible   == <<"epel", "ansible">>
InstallGdeploy   == <<"rpm", "gdeploy">>
CheckAndStartSshd == <<"sshd", "key">>

Script(role) ==
  LoadEthinza \o InstallAnsible \o InstallGdeploy
  \o (IF role = "master" THEN InstallOvirtEngine ELSE <<>>)
  \o CheckAndStartSshd

Downloads == {"rpm", "archive"}
Things    == (ToSet(Script("master")) \ {"clean"}) \cup {"old copy", "blocker"}

\* What has to be there for a command to succeed.
Needs(c) ==
  CASE c = "ansible"   -> {"epel"}
    [] c = "gdeploy"   -> {"rpm"}
    [] c = "cockpit"   -> {"repository"}
    [] c = "dashboard" -> {"archive", "cockpit"}
    [] c = "socket"    -> {"cockpit"}
    [] c = "roles"     -> {"repository"}
    [] OTHER           -> {}

\* The tools the program is run for.
Tools(role) ==
  {"copy", "ansible", "gdeploy"}
    \cup (IF role = "master" THEN {"cockpit", "dashboard", "socket", "roles"} ELSE {})

-----------------------------------------------------------------------------
VARIABLES
  machine,  \* the machine
  role,     \* what is being installed
  step,     \* the next command of Script(role); 0 between runs
  have,     \* the things there are
  partial,  \* the downloads that were cut off
  root,     \* whether the user who runs the program is root
  osType,   \* the system hostnamectl told of
  accepted, \* what VerifyHciRequirements returned
  result,   \* what the last Execute returned
  worked,   \* history: whether its command succeeded
  copied,   \* whether the last LoadEthinza said "copied"
  clean,    \* history: no command of this run failed for a reason of its own
  fresh,    \* history: nothing was left over when it began
  noFolder, \* history: some mkdir failed for a reason of its own
  faults,   \* history: the faults there were
  runs      \* history: runs begun

process == <<root, osType, accepted, result, worked, copied, clean, fresh>>
vars == <<machine, role, step, have, partial, process, noFolder, faults, runs>>

TypeOK ==
  /\ machine \in Machines
  /\ role \in Roles
  /\ step \in 0..(Len(Script(role)) + 1)
  /\ have \subseteq Things
  /\ partial \subseteq Downloads
  /\ osType \in {"Unknown", "Centos", "Rhel"}
  /\ result \in {0, -1}
  /\ {root, accepted, worked, copied, clean, fresh, noFolder} \subseteq BOOLEAN
  /\ faults \in 0..MaxFaults
  /\ runs \in 0..MaxRuns

\* sshd may run already, or an older graviton0 be installed.
Init ==
  /\ machine \in Machines
  /\ role \in Roles
  /\ step = 0
  /\ have \in {{}, {"sshd"}, {"folder", "old copy"}}
  /\ partial = {}
  /\ root = FALSE /\ osType = "Unknown" /\ accepted = FALSE
  /\ result = 0 /\ worked = TRUE /\ copied = FALSE
  /\ clean = TRUE /\ fresh = TRUE
  /\ noFolder = FALSE
  /\ faults = 0 /\ runs = 0

Running == step > 0 /\ step <= Len(Script(role))
Command == Script(role)[step]

-----------------------------------------------------------------------------
\* find("active") in what systemctl status prints: never at the start, which
\* is a bullet and the unit's name, whatever state it then reports.
FindActive == "inside"

\* CheckAndStartSshd starts sshd when find is 0.
StartsSshd == FindActive = "start"

\* The conditions the code puts on commands.
Skipped(c) ==
  CASE c = "folder"              -> "folder" \in have
    [] c \in {"epel", "ansible"} -> "ansible" \in have
    [] c \in {"rpm", "gdeploy"}  -> "gdeploy" \in have
    [] c = "subscription"        -> osType # "Rhel"
    [] c = "sshd"                -> ~StartsSshd
    [] OTHER                     -> FALSE

\* n faults take place.
Faults(n) ==
  /\ faults + n <= MaxFaults
  /\ faults' = faults + n

\* A role is given and VerifyHciRequirements looks the machine over; its result
\* goes nowhere but to the user.
Start(r) ==
  /\ step = 0
  /\ runs < MaxRuns
  /\ runs' = runs + 1
  /\ role' = r
  /\ step' = 1
  /\ \E printed \in BOOLEAN, lucky \in SUBSET Lacks(machine) :
       /\ Faults(IF printed THEN 0 ELSE 1)
       /\ osType' = OsType(machine, printed)
       /\ accepted' = VerifyHciRequirements(machine, osType', lucky)
  /\ root' \in BOOLEAN
  /\ fresh' = (partial = {} /\ "blocker" \notin have)
  /\ UNCHANGED <<machine, have, partial, result, worked, copied, clean, noFolder>>

\* Execute: 0 once the command was run and waited for, whatever its status, and
\* -1 when popen or pclose fails: then the command may or may not have been run.
\* back() of an empty output reads the byte before its text, the last one of a
\* length or of the heap's own data, which no build makes a newline.
Execute(ok, code) ==
  /\ result' = code
  /\ worked' = ok

\* LoadEthinza looks whether there is a copy, new or old.
LookForCopy(now) ==
  copied' = IF Command = "copy" THEN now \cap {"copy", "old copy"} # {} ELSE copied

Skip ==
  /\ Running /\ Skipped(Command)
  /\ step' = step + 1
  /\ UNCHANGED <<machine, role, have, partial, process, noFolder, faults, runs>>

\* The roles are installed without sudo.
CanSucceed(c) ==
  /\ Needs(c) \subseteq have
  /\ c = "folder" => "blocker" \notin have
  /\ c = "roles" => root

\* cp without the folder makes a file of its name, which is in mkdir's way;
\* wget never writes over a file: it saves under another name.
Succeed(code) ==
  /\ Running /\ ~Skipped(Command)
  /\ CanSucceed(Command)
  /\ Faults(IF code = 0 THEN 0 ELSE 1)
  /\ Execute(TRUE, code)
  /\ have' = CASE Command = "clean"                            -> have \ {"archive"}
               [] Command \in Downloads /\ Command \in partial -> have
               [] Command = "copy" /\ "folder" \in have        ->
                    (have \cup {"copy"}) \ {"old copy"}
               [] Command = "copy" /\ "folder" \notin have     -> have \cup {"blocker"}
               [] OTHER                                        -> have \cup {Command}
  /\ partial' = IF Command = "clean" THEN partial \ {"archive"} ELSE partial
  /\ LookForCopy(have')
  /\ step' = step + 1
  /\ UNCHANGED <<machine, role, root, osType, accepted, clean, fresh, noFolder, runs>>

\* A download that fails may leave a part of the file.
LeavePart ==
  partial' \in {partial, partial \cup (({Command} \cap Downloads) \ have)}

\* A failed command is not noticed.
FailCommand(code) ==
  /\ Running /\ ~Skipped(Command)
  /\ Faults(IF code = 0 /\ ~CanSucceed(Command) THEN 0 ELSE 1)
  /\ Execute(FALSE, code)
  /\ LeavePart
  /\ LookForCopy(have)
  /\ clean' = (clean /\ ~CanSucceed(Command))
  /\ noFolder' = (noFolder \/ (Command = "folder" /\ CanSucceed(Command)))
  /\ step' = step + 1
  /\ UNCHANGED <<machine, role, have, root, osType, accepted, fresh, runs>>

\* What the process knew is gone with it.
ProcessEnds ==
  /\ root' = FALSE /\ osType' = "Unknown" /\ accepted' = FALSE
  /\ result' = 0 /\ worked' = TRUE /\ copied' = FALSE
  /\ clean' = TRUE /\ fresh' = TRUE

Kill ==
  /\ Running
  /\ Faults(1)
  /\ LeavePart
  /\ step' = 0
  /\ ProcessEnds
  /\ UNCHANGED <<machine, role, have, noFolder, runs>>

\* The program ends, and may be run again.
Finish ==
  /\ step = Len(Script(role)) + 1
  /\ runs < MaxRuns
  /\ step' = 0
  /\ ProcessEnds
  /\ UNCHANGED <<machine, role, have, partial, noFolder, faults, runs>>

Next ==
  \/ \E r \in Roles : Start(r)
  \/ Skip \/ Kill \/ Finish
  \/ \E code \in {0, -1} : Succeed(code) \/ FailCommand(code)

Spec == Init /\ [][Next]_vars
-----------------------------------------------------------------------------
Finished == step = Len(Script(role)) + 1

\* A run that begins with no part of a download and no file in the folder's way,
\* and in which no command fails for a reason of its own, installs every tool,
\* the roles for root only, whatever earlier runs left or were cut off: each
\* command finds what it needs.
FreshRunInstalls ==
  Finished /\ clean /\ fresh => {t \in Tools(role) : t = "roles" => root} \subseteq have

\* The same of any user, as sudo in every other command that installs suggests.
UserRunInstalls == Finished /\ clean /\ fresh => Tools(role) \subseteq have

\* The folder of the product is blocked for good only by an earlier mkdir that
\* failed by itself, never by a run that was cut off: LoadEthinza copies last.
BlockerNeedsFailure == "blocker" \in have => noFolder

\* What the program holds for fit is: when VerifyHciRequirements had nothing to
\* warn of, the machine is of a kind that is supported and its folders are large
\* enough, and a run in which no command fails has a RHEL's additional
\* repositories too, although the system's name is asked for only once.
AcceptedIsServed ==
  accepted =>
    /\ machine.vendor \in {"Intel", "AMD"} /\ {"lm", "nx"} \subseteq machine.flags
    /\ machine.os # "another"
    /\ \A f \in Folders \ Lacks(machine) : machine.size[f] >= MinSize(f)
    /\ (Finished /\ clean /\ role = "master" /\ machine.os = "Red Hat") => "subscription" \in have

\* Every folder the requirements name is there.
AcceptedMeansFit == accepted => Lacks(machine) = {}

\* A run of root in which no command fails by itself installs every tool,
\* whatever was left over.
RunInstalls == Finished /\ clean /\ root => Tools(role) \subseteq have

\* Execute returns 0 only for a command that succeeded.
ZeroMeansSuccess == result = 0 => worked

\* A run in which no command fails leaves sshd running.
SshdIsStarted == Finished /\ clean => "sshd" \in have

\* When LoadEthinza has said that graviton0 is copied, this version is there.
CopiedMeansCopied == copied => "copy" \in have
=============================================================================
