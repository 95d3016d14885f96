---------------------------- MODULE Requirements ----------------------------
(***************************************************************************)
(* What graviton0 finds out about its machine (OsInterface's               *)
(* SetSystemDetails) and whether it takes that to be enough                *)
(* (VerifyHciRequirements). Sizes are in GB.                               *)
(***************************************************************************)
EXTENDS Integers

Vendors == {"Intel", "AMD", "IBM", "another"}
Systems == {"CentOS", "Red Hat", "another"}
Folders == {"/", "/home", "/tmp", "/var", "/var/log", "/var/log/audit", "/var/tmp", "/boot"}

\* The size of the file system of a folder that is not there.
Missing == -1

\* A machine; flags is the part of the first flags line the code looks for.
IsMachine(m) ==
  /\ m.vendor \in Vendors
  /\ m.flags \subseteq {"lm", "nx", "svm", "vmx"}
  /\ m.os \in Systems
  /\ {m.cores, m.ram, m.version} \subseteq Nat
  /\ m.size \in [Folders -> Nat \cup {Missing}]

Lacks(m) == {f \in Folders : m.size[f] = Missing}

-----------------------------------------------------------------------------
(* SetSystemDetails *)
ProcessorType(m) ==
  IF "lm" \notin m.flags THEN "Unknown"
  ELSE CASE m.vendor = "Intel"   -> "Intel64"
         [] m.vendor = "AMD"     -> "Amd64"
         [] m.vendor = "IBM"     -> "IbmPower8"
         [] m.vendor = "another" -> "Unknown"

IsVirtualizationSupported(m) == "nx" \in m.flags /\ m.flags \cap {"svm", "vmx"} # {}

\* From what hostnamectl prints, nothing when it fails.
OsType(m, printed) ==
  CASE ~printed                        -> "Unknown"
    [] printed /\ m.os = "CentOS"  -> "Centos"
    [] printed /\ m.os = "Red Hat" -> "Rhel"
    [] printed /\ m.os = "another" -> "Unknown"

-----------------------------------------------------------------------------
(* VerifyHciRequirements *)
MinSize(f) ==
  CASE f = "/" -> 6        [] f = "/home" -> 1   [] f = "/tmp" -> 1
    [] f = "/var" -> 15    [] f = "/var/log" -> 8
    [] f = "/var/log/audit" -> 2  [] f = "/var/tmp" -> 5  [] f = "/boot" -> 1

\* GetFolderSize does not look whether statvfs failed: the size of a folder that
\* is not there is whatever the stack held, enough for those in lucky.
CheckFolderSize(m, f, lucky) ==
  IF f \in Lacks(m) THEN f \in lucky ELSE m.size[f] >= MinSize(f)

VerifyHciRequirements_AnyOs(m, osType, lucky) ==  \* mutant: the system's name is not looked at
  /\ m.cores >= 4 /\ m.ram >= 4
  /\ m.version >= 7
  /\ ProcessorType(m) \in {"Intel64", "Amd64"} /\ IsVirtualizationSupported(m)
  /\ m.size["/"] >= 45 /\ \A f \in Folders : CheckFolderSize(m, f, lucky)

VerifyHciRequirements(m, osType, lucky) ==
  /\ m.cores >= 4 /\ m.ram >= 4
  /\ osType \in {"Centos", "Rhel"} /\ m.version >= 7
  /\ ProcessorType(m) \in {"Intel64", "Amd64"} /\ IsVirtualizationSupported(m)
  /\ m.size["/"] >= 45 /\ \A f \in Folders : CheckFolderSize(m, f, lucky)
=============================================================================
