--------------------------- MODULE FileTreeProofs ---------------------------
(* What FileUtility's answers are worth, for any number of processes, any  *)
(* names and depth, and any tree to begin with.                            *)
EXTENDS FileTree, TLAPS

LEMMA PathsAreSequences ==
  ASSUME NEW x \in Paths
  PROVE  x \in Seq(Names) /\ Len(x) \in 1..MaxDepth
BY FileTreeAssumption DEF Paths

LEMMA SequencesArePaths ==
  ASSUME NEW x \in Seq(Names), Len(x) \in 1..MaxDepth
  PROVE  x \in Paths
<1>1. x \in [1..Len(x) -> Names]
  OBVIOUS
<1>2. QED
  BY <1>1 DEF Paths

LEMMA PrefixIsPath ==
  ASSUME NEW x \in Paths, NEW n \in Nat \ {0}
  PROVE  /\ Prefix(x, n) \in Paths
         /\ n >= Len(x) => Prefix(x, n) = x
<1>1. x \in Seq(Names) /\ Len(x) \in 1..MaxDepth /\ MaxDepth \in Nat
  BY PathsAreSequences, FileTreeAssumption
<1> DEFINE m == IF n < Len(x) THEN n ELSE Len(x)
<1>2. m \in 1..Len(x)
  BY <1>1
<1>3. SubSeq(x, 1, m) \in Seq(Names) /\ Len(SubSeq(x, 1, m)) = m
  BY <1>1, <1>2
<1>4. Prefix(x, n) = SubSeq(x, 1, m)
  BY DEF Prefix
<1>5. n >= Len(x) => SubSeq(x, 1, m) = x
  BY <1>1
<1>6. m \in 1..MaxDepth
  BY <1>1
<1> HIDE DEF m
<1>7. SubSeq(x, 1, m) \in Paths
  <2>1. Len(SubSeq(x, 1, m)) \in 1..MaxDepth
    BY <1>3, <1>6
  <2>2. QED
    BY <1>3, <2>1, SequencesArePaths
<1>8. QED
  BY <1>4, <1>5, <1>7

-----------------------------------------------------------------------------
\* Which system calls belong to which operation; CreatePath stays within its
\* argument, and a process that has not returned has not answered.
PlaceInv ==
  \A p \in Processes :
    /\ depth[p] \in 1..Len(path[p])
    /\ pc[p] = "mkdir" => op[p] \in {"CreateIfDoesNotExist", "CreatePath"}
    /\ pc[p] = "stat"  => op[p] \in {"CreateIfDoesNotExist", "CreatePath", "SafeDelete"}
    /\ pc[p] = "chmod" => op[p] \in {"SafeDelete", "DeleteFile", "DeleteFolder"}
    /\ pc[p] = "remove" => op[p] = "SafeDelete"
    /\ pc[p] = "rmdir" => op[p] = "DeleteFolder"
    /\ pc[p] # "idle" => ok[p] = FALSE

LEMMA CurrentIsPath ==
  ASSUME TypeOK, PlaceInv, NEW p \in Processes
  PROVE  /\ Current(p) \in Paths
         /\ ~(op[p] = "CreatePath" /\ depth[p] < Len(path[p])) => Current(p) = path[p]
<1>1. path[p] \in Paths /\ depth[p] \in Nat \ {0}
  BY FileTreeAssumption DEF TypeOK
<1>2. Len(path[p]) \in Nat
  BY <1>1, PathsAreSequences
<1>3. QED
  BY <1>1, <1>2, PrefixIsPath DEF Current

-----------------------------------------------------------------------------
\* Types, without those of what the processes are at.
TreeOK ==
  /\ kind \in [Paths -> Kinds]
  /\ sealed \subseteq Paths
  /\ removed \subseteq Paths
  /\ born \in [Paths -> Nat]

ProcessOK ==
  /\ op \in [Processes -> Operations \cup {"none"}]
  /\ path \in [Processes -> Paths]
  /\ depth \in [Processes -> 1..MaxDepth]
  /\ pc \in [Processes -> {"idle", "stat", "mkdir", "chmod", "remove", "rmdir"}]
  /\ ok \in [Processes -> BOOLEAN]
  /\ found \in [Processes -> Nat]
  /\ calls \in 0..MaxCalls

LEMMA TypeParts == (TypeOK <=> TreeOK /\ ProcessOK) /\ (TypeOK' <=> TreeOK' /\ ProcessOK')
BY DEF TypeOK, TreeOK, ProcessOK

\* What an operation of one process does to what is known of all.
LEMMA InitOK == Init => TypeOK /\ PlaceInv
<1> SUFFICES ASSUME Init PROVE TypeOK /\ PlaceInv
  OBVIOUS
<1> DEFINE one == CHOOSE x \in Paths : Len(x) = 1
<1>1. one \in Paths /\ Len(one) = 1
  <2>1. PICK a \in Names : TRUE
    BY FileTreeAssumption
  <2>2. <<a>> \in Paths /\ Len(<<a>>) = 1
    <3>1. <<a>> \in Seq(Names) /\ Len(<<a>>) = 1 /\ 1 \in 1..MaxDepth
      BY <2>1, FileTreeAssumption
    <3>2. QED
      BY <3>1, SequencesArePaths
  <2>3. \E x \in Paths : Len(x) = 1
    BY <2>2, Zenon
  <2>4. QED
    BY <2>3, Zenon
<1>2. path \in [Processes -> {one}]
  BY DEF Init
<1> HIDE DEF one
<1>3. \A p \in Processes : path[p] \in Paths /\ Len(path[p]) = 1
  BY <1>1, <1>2
<1>4. path \in [Processes -> Paths]
  BY <1>1, <1>2
<1>5. TreeOK
  BY FileTreeAssumption DEF Init, TreeOK
<1>6. ProcessOK
  BY <1>4, FileTreeAssumption DEF Init, ProcessOK
<1>7. PlaceInv
  <2>1. \A p \in Processes : depth[p] \in 1..Len(path[p])
    <3>1. depth = [p \in Processes |-> 1]
      BY DEF Init
    <3>2. \A p \in Processes : depth[p] = 1
      BY <3>1
    <3>3. ASSUME NEW p \in Processes PROVE depth[p] \in 1..Len(path[p])
      <4>1. depth[p] = 1 /\ Len(path[p]) = 1
        BY <1>3, <3>2
      <4>2. QED
        BY <4>1
    <3>4. QED
      BY <3>3
  <2>2. \A p \in Processes : pc[p] = "idle"
    BY DEF Init
  <2>3. QED
    BY <2>1, <2>2 DEF PlaceInv
<1>8. QED
  BY <1>5, <1>6, <1>7, TypeParts

LEMMA CallStep ==
  ASSUME TypeOK, PlaceInv, NEW p \in Processes, NEW o \in Called, NEW x \in Paths, Call(p, o, x)
  PROVE  TypeOK' /\ PlaceInv'
<1>1. TreeOK'
  BY TypeParts DEF Call, tree, TreeOK
<1>2. o \in Operations /\ FirstCall(o) \in {"stat", "chmod"} /\ Len(x) \in 1..MaxDepth
  BY FileTreeAssumption, PathsAreSequences DEF FirstCall
<1>3. ProcessOK'
  BY <1>2, TypeParts, FileTreeAssumption DEF Call, ProcessOK
<1>4. PlaceInv'
  BY <1>2 DEF PlaceInv, TypeOK, Call, FirstCall, Operations
<1>5. QED
  BY <1>1, <1>3, <1>4, TypeParts, Zenon

LEMMA CreatedStep ==
  ASSUME TypeOK, PlaceInv, NEW p \in Processes, pc[p] \in {"stat", "mkdir"}, Creating(p),
         Created(p), found' = found
  PROVE  ProcessOK' /\ PlaceInv'
<1>1. path[p] \in Paths /\ Len(path[p]) \in 1..MaxDepth
  BY PathsAreSequences DEF TypeOK
<1>2. CASE op[p] = "CreatePath" /\ depth[p] < Len(path[p])
  <2>1. depth[p] + 1 \in 1..MaxDepth /\ depth[p] + 1 \in 1..Len(path[p])
    BY <1>1, <1>2, FileTreeAssumption DEF TypeOK
  <2>2. ProcessOK'
    BY <1>2, <2>1, TypeParts DEF Created, ProcessOK
  <2>3. PlaceInv'
    BY <1>2, <2>1 DEF Created, PlaceInv, TypeOK
  <2>4. QED
    BY <2>2, <2>3
<1>3. CASE ~(op[p] = "CreatePath" /\ depth[p] < Len(path[p]))
  <2>1. Return(p, TRUE)
    BY <1>3 DEF Created
  <2>2. ProcessOK'
    BY <2>1, TypeParts DEF Return, ProcessOK
  <2>3. PlaceInv'
    BY <2>1 DEF Return, PlaceInv, TypeOK
  <2>4. QED
    BY <2>2, <2>3
<1>4. QED
  BY <1>2, <1>3

LEMMA ReturnStep ==
  ASSUME TypeOK, PlaceInv, NEW p \in Processes, NEW b \in BOOLEAN, Return(p, b),
         found' \in [Processes -> Nat]
  PROVE  ProcessOK' /\ PlaceInv'
<1>1. ProcessOK'
  BY TypeParts DEF Return, ProcessOK
<1>2. PlaceInv'
  BY DEF Return, PlaceInv, TypeOK
<1>3. QED
  BY <1>1, <1>2

LEMMA ContinueStep ==
  ASSUME TypeOK, PlaceInv, NEW p \in Processes, found' \in [Processes -> Nat],
         pc[p] = "stat",
         \/ Continue(p, "mkdir") /\ Creating(p)
         \/ Continue(p, "chmod") /\ op[p] = "SafeDelete"
  PROVE  ProcessOK' /\ PlaceInv'
<1>1. ProcessOK'
  BY TypeParts DEF Continue, ProcessOK
<1>2. PlaceInv'
  BY DEF Continue, PlaceInv, TypeOK, Creating
<1>3. QED
  BY <1>1, <1>2

LEMMA TreeStep ==
  ASSUME TypeOK, NEW x \in Paths,
         \/ UNCHANGED tree
         \/ Make(x)
         \/ Take(x)
         \/ UNCHANGED <<kind, removed, born>> /\ (SetAttribute(x) \/ UNCHANGED sealed)
  PROVE  TreeOK'
BY TypeParts DEF TreeOK, Kinds, tree, Make, Take, SetAttribute

LEMMA StatStep ==
  ASSUME TypeOK, PlaceInv, NEW p \in Processes, Stat(p)
  PROVE  TreeOK' /\ ProcessOK' /\ PlaceInv'
<1>1. /\ pc[p] = "stat" /\ path[p] \in Paths
      /\ op[p] \in {"CreateIfDoesNotExist", "CreatePath", "SafeDelete"}
  BY DEF Stat, PlaceInv, TypeOK
<1>2. TreeOK'
  BY <1>1, TreeStep DEF Stat
<1>3. found' \in [Processes -> Nat]
  <2>1. born[path[p]] \in Nat
    BY <1>1 DEF TypeOK
  <2>2. QED
    BY <2>1 DEF Stat, TypeOK
<1>4. CASE Created(p) /\ Creating(p) /\ UNCHANGED found
  BY <1>1, <1>2, <1>4, CreatedStep
<1>5. CASE Continue(p, "mkdir") /\ Creating(p)
  BY <1>1, <1>2, <1>3, <1>5, ContinueStep
<1>6. CASE Continue(p, "chmod") /\ ~Creating(p)
  <2>1. op[p] = "SafeDelete"
    BY <1>1, <1>6 DEF Creating
  <2>2. QED
    BY <1>1, <1>2, <1>3, <1>6, <2>1, ContinueStep
<1>7. CASE Return(p, FALSE)
  BY <1>1, <1>2, <1>3, <1>7, ReturnStep
<1>8. QED
  BY <1>4, <1>5, <1>6, <1>7 DEF Stat

LEMMA MkdirStep ==
  ASSUME TypeOK, PlaceInv, NEW p \in Processes, Mkdir(p)
  PROVE  TreeOK' /\ ProcessOK' /\ PlaceInv'
<1>1. pc[p] = "mkdir" /\ found' = found /\ Creating(p)
  BY DEF Mkdir, PlaceInv, Creating
<1>2. TreeOK'
  <2>1. Current(p) \in Paths
    BY CurrentIsPath
  <2>2. QED
    BY <2>1, TreeStep DEF Mkdir
<1>3. CASE Created(p)
  BY <1>1, <1>2, <1>3, CreatedStep
<1>4. CASE Return(p, FALSE)
  BY <1>1, <1>2, <1>4, ReturnStep DEF TypeOK
<1>5. QED
  BY <1>3, <1>4 DEF Mkdir

LEMMA ChmodStep ==
  ASSUME TypeOK, PlaceInv, NEW p \in Processes, Chmod(p)
  PROVE  TreeOK' /\ ProcessOK' /\ PlaceInv'
<1>1. /\ pc[p] = "chmod" /\ found' = found /\ path[p] \in Paths
      /\ op[p] \in {"SafeDelete", "DeleteFile", "DeleteFolder"}
  BY DEF Chmod, PlaceInv, TypeOK
<1>2. TreeOK'
  BY <1>1, TreeStep DEF Chmod
<1>3. CASE Exists(path[p])
  <2>1. /\ pc' = [pc EXCEPT ![p] = AfterChmod(p)]
        /\ op' = [op EXCEPT ![p] = IF @ = "DeleteFile" THEN "SafeDelete" ELSE @]
        /\ UNCHANGED <<path, depth, ok, calls, found>>
    BY <1>3 DEF Chmod
  <2>2. \/ op[p] = "SafeDelete" /\ AfterChmod(p) = "remove"
        \/ op[p] = "DeleteFile" /\ AfterChmod(p) = "stat"
        \/ op[p] = "DeleteFolder" /\ AfterChmod(p) = "rmdir"
    BY <1>1 DEF AfterChmod
  <2>3. ProcessOK'
    BY <2>1, <2>2, TypeParts DEF ProcessOK, Operations
  <2>4. ASSUME NEW q \in Processes, q # p
        PROVE  UNCHANGED <<pc[q], op[q], path[q], depth[q], ok[q]>>
    BY <2>1, <2>4 DEF TypeOK
  <2>5. /\ UNCHANGED <<path[p], depth[p], ok[p]>>
        /\ \/ op'[p] = "SafeDelete" /\ pc'[p] \in {"remove", "stat"}
           \/ op'[p] = "DeleteFolder" /\ pc'[p] = "rmdir"
    BY <2>1, <2>2 DEF TypeOK
  <2>6. PlaceInv'
    <3> SUFFICES ASSUME NEW q \in Processes
                 PROVE  (/\ depth[q] \in 1..Len(path[q])
                         /\ pc[q] = "mkdir" => op[q] \in {"CreateIfDoesNotExist", "CreatePath"}
                         /\ pc[q] = "stat"  => op[q] \in {"CreateIfDoesNotExist", "CreatePath", "SafeDelete"}
                         /\ pc[q] = "chmod" => op[q] \in {"SafeDelete", "DeleteFile", "DeleteFolder"}
                         /\ pc[q] = "remove" => op[q] = "SafeDelete"
                         /\ pc[q] = "rmdir" => op[q] = "DeleteFolder"
                         /\ pc[q] # "idle" => ok[q] = FALSE)'
      BY DEF PlaceInv
    <3>1. CASE q = p
      BY <1>1, <2>5, <3>1 DEF PlaceInv
    <3>2. CASE q # p
      BY <2>4, <3>2 DEF PlaceInv
    <3>3. QED
      BY <3>1, <3>2
  <2>7. QED
    BY <1>2, <2>3, <2>6
<1>4. CASE Return(p, FALSE)
  BY <1>1, <1>2, <1>4, ReturnStep DEF TypeOK
<1>5. QED
  BY <1>3, <1>4 DEF Chmod

LEMMA RemoveStep ==
  ASSUME TypeOK, PlaceInv, NEW p \in Processes, RemoveFile(p) \/ RemoveFolder(p)
  PROVE  TreeOK' /\ ProcessOK' /\ PlaceInv'
<1>1. path[p] \in Paths
  BY DEF TypeOK
<1>2. TreeOK'
  BY <1>1, TreeStep DEF RemoveFile, RemoveFolder
<1>3. (Return(p, TRUE) \/ Return(p, FALSE)) /\ found' \in [Processes -> Nat]
  BY DEF RemoveFile, RemoveFolder, TypeOK
<1>4. QED
  BY <1>2, <1>3, ReturnStep

\* The tree and the processes on it stay of their types, and each process in
\* the calls of its operation.
LEMMA FilePlacesCorrect == Spec => [](TypeOK /\ PlaceInv)
<1>1. TypeOK /\ PlaceInv /\ [Next]_vars => (TypeOK /\ PlaceInv)'
  <2> SUFFICES ASSUME TypeOK, PlaceInv, [Next]_vars PROVE TypeOK' /\ PlaceInv'
    OBVIOUS
  <2>1. ASSUME NEW p \in Processes, NEW o \in Called, NEW x \in Paths, Call(p, o, x)
        PROVE  TypeOK' /\ PlaceInv'
    BY <2>1, CallStep
  <2>2. ASSUME NEW p \in Processes, Stat(p) PROVE TypeOK' /\ PlaceInv'
    BY <2>2, StatStep, TypeParts
  <2>3. ASSUME NEW p \in Processes, Mkdir(p) PROVE TypeOK' /\ PlaceInv'
    BY <2>3, MkdirStep, TypeParts
  <2>4. ASSUME NEW p \in Processes, Chmod(p) PROVE TypeOK' /\ PlaceInv'
    BY <2>4, ChmodStep, TypeParts
  <2>5. ASSUME NEW p \in Processes, RemoveFile(p) \/ RemoveFolder(p) PROVE TypeOK' /\ PlaceInv'
    BY <2>5, RemoveStep, TypeParts
  <2>6. CASE UNCHANGED vars
    BY <2>6 DEF vars, tree, TypeOK, PlaceInv
  <2>7. QED
    BY <2>1, <2>2, <2>3, <2>4, <2>5, <2>6 DEF Next
<1>2. QED
  BY <1>1, InitOK, PTL DEF Spec

\* Type correctness of FileUtility's operations.
THEOREM FileTypeCorrect == Spec => []TypeOK
BY FilePlacesCorrect, PTL

-----------------------------------------------------------------------------
\* What one process answers true to stays so: a folder that was made or found
\* is only lost to a removal.
LEMMA KeepsFolders ==
  ASSUME TypeOK, PlaceInv, NEW p \in Processes,
         Stat(p) \/ Mkdir(p) \/ Chmod(p) \/ RemoveFile(p) \/ RemoveFolder(p),
         NEW x \in Paths, kind[x] \in {"folder", "device"} \/ x \in removed
  PROVE  (kind[x] \in {"folder", "device"} \/ x \in removed)'
<1>1. Current(p) \in Paths /\ path[p] \in Paths /\ kind \in [Paths -> Kinds]
  BY CurrentIsPath DEF TypeOK
<1>2. CASE Mkdir(p)
  BY <1>1, <1>2 DEF Mkdir, Make, tree
<1>3. CASE RemoveFile(p) \/ RemoveFolder(p)
  BY <1>1, <1>3 DEF RemoveFile, RemoveFolder, Take, tree
<1>4. CASE Stat(p) \/ Chmod(p)
  BY <1>4 DEF Stat, Chmod, tree
<1>5. QED
  BY <1>2, <1>3, <1>4

\* The answer of a process that is about to answer: true to a request for a
\* folder only when it is there, or what FolderExists takes for one.
LEMMA AnswersTruly ==
  ASSUME TypeOK, PlaceInv, NEW p \in Processes,
         Stat(p) \/ Mkdir(p) \/ Chmod(p) \/ RemoveFile(p) \/ RemoveFolder(p),
         pc'[p] = "idle", Creating(p), ok'[p]
  PROVE  kind'[path[p]] \in {"folder", "device"}
<1>1. /\ kind \in [Paths -> Kinds] /\ path[p] \in Paths
      /\ pc[p] \in {"stat", "mkdir"}
  <2>1. pc[p] \notin {"idle", "chmod", "remove", "rmdir"}
    BY DEF Stat, Mkdir, Chmod, RemoveFile, RemoveFolder, PlaceInv, Creating
  <2>2. QED
    BY <2>1 DEF TypeOK
<1>2. ~Return(p, FALSE)
  BY DEF Return, TypeOK
<1>3. Created(p) /\ kind'[Current(p)] \in {"folder", "device"}
  <2>1. Current(p) \in Paths
    BY CurrentIsPath
  <2>2. CASE Mkdir(p)
    BY <1>1, <1>2, <2>1, <2>2 DEF Mkdir, Make
  <2>3. CASE Stat(p)
    <3>1. ~Continue(p, "mkdir")
      BY DEF Continue, TypeOK
    <3>2. QED
      BY <1>2, <2>3, <3>1 DEF Stat, FolderExists, tree
  <2>4. QED
    BY <1>1, <2>2, <2>3 DEF Chmod, RemoveFile, RemoveFolder
<1>4. Current(p) = path[p]
  <2>1. ~(op[p] = "CreatePath" /\ depth[p] < Len(path[p]))
    BY <1>3 DEF Created, TypeOK
  <2>2. QED
    BY <2>1, CurrentIsPath
<1>5. QED
  BY <1>3, <1>4

\* A creation that answers true leaves its folder there, or has found it or a
\* block device or socket there, until someone removes it, however processes interfere and however deep the path.
THEOREM CreatedFoldersAreThere == Spec => []TrueMeansFolder
<1>1. Init => TrueMeansFolder
  BY DEF Init, TrueMeansFolder, Creating
<1>2. TypeOK /\ PlaceInv /\ TrueMeansFolder /\ [Next]_vars => TrueMeansFolder'
  <2> SUFFICES ASSUME TypeOK, PlaceInv, TrueMeansFolder, [Next]_vars,
                      NEW q \in Processes, pc'[q] = "idle", Creating(q)', ok'[q]
               PROVE  (kind[path[q]] \in {"folder", "device"} \/ path[q] \in removed)'
    BY DEF TrueMeansFolder
  <2>1. ASSUME NEW p \in Processes, NEW o \in Called, NEW x \in Paths, Call(p, o, x)
        PROVE  (kind[path[q]] \in {"folder", "device"} \/ path[q] \in removed)'
    BY <2>1 DEF Call, tree, TypeOK, TrueMeansFolder, Creating, FirstCall
  <2>2. ASSUME NEW p \in Processes,
               Stat(p) \/ Mkdir(p) \/ Chmod(p) \/ RemoveFile(p) \/ RemoveFolder(p)
        PROVE  (kind[path[q]] \in {"folder", "device"} \/ path[q] \in removed)'
    <3>1. path' = path /\ path[q] \in Paths
      BY <2>2 DEF Stat, Mkdir, Chmod, RemoveFile, RemoveFolder, Created, Continue, Return, TypeOK
    <3>2. CASE q # p
      <4>1. UNCHANGED <<pc[q], op[q], ok[q]>>
        BY <2>2, <3>2 DEF Stat, Mkdir, Chmod, RemoveFile, RemoveFolder, Created, Continue,
                          Return, TypeOK
      <4>2. pc[q] = "idle" /\ Creating(q) /\ ok[q]
        BY <4>1 DEF Creating
      <4>3. kind[path[q]] \in {"folder", "device"} \/ path[q] \in removed
        BY <4>2 DEF TrueMeansFolder
      <4>4. (kind[path[q]] \in {"folder", "device"} \/ path[q] \in removed)' <=>
              kind'[path[q]] \in {"folder", "device"} \/ path[q] \in removed'
        BY <3>1
      <4>5. QED
        BY <2>2, <3>1, <4>3, <4>4, KeepsFolders
    <3>3. CASE q = p
      <4>1. Creating(p)
        BY <2>2, <3>3 DEF Stat, Mkdir, Chmod, RemoveFile, RemoveFolder, Created, Continue,
                          Return, TypeOK, Creating
      <4>2. kind'[path[p]] \in {"folder", "device"}
        BY <2>2, <3>3, <4>1, AnswersTruly
      <4>3. QED
        BY <3>1, <3>3, <4>2
    <3>4. QED
      BY <3>2, <3>3
  <2>3. CASE UNCHANGED vars
    BY <2>3 DEF vars, tree, TrueMeansFolder, Creating
  <2>4. QED
    BY <2>1, <2>2, <2>3 DEF Next
<1>3. QED
  BY <1>1, <1>2, FilePlacesCorrect, PTL DEF Spec

-----------------------------------------------------------------------------
\* A path is only made where nothing is, and each time it is counted.
Onward(x) ==
  /\ born'[x] >= born[x]
  /\ kind[x] = "none" => kind'[x] = "none" \/ born'[x] > born[x]

SystemCall(p) == Stat(p) \/ Mkdir(p) \/ Chmod(p) \/ RemoveFile(p) \/ RemoveFolder(p)

LEMMA CallsGoOnward ==
  ASSUME TypeOK, PlaceInv, NEW p \in Processes, SystemCall(p), NEW x \in Paths
  PROVE  Onward(x)
<1>1. Current(p) \in Paths /\ path[p] \in Paths /\ kind \in [Paths -> Kinds] /\ born \in [Paths -> Nat]
  BY CurrentIsPath DEF TypeOK
<1>2. born[x] \in Nat
  BY <1>1
<1>3. CASE Make(Current(p))
  <2>1. x # Current(p) => kind'[x] = kind[x] /\ born'[x] = born[x]
    BY <1>1, <1>3 DEF Make
  <2>2. x = Current(p) => born'[x] = born[x] + 1
    BY <1>1, <1>3 DEF Make
  <2>3. QED
    BY <1>2, <2>1, <2>2 DEF Onward
<1>4. CASE Take(path[p])
  BY <1>1, <1>2, <1>4 DEF Take, Onward
<1>5. CASE UNCHANGED <<kind, born>>
  BY <1>2, <1>5 DEF Onward
<1>6. QED
  BY <1>3, <1>4, <1>5 DEF SystemCall, Stat, Mkdir, Chmod, RemoveFile, RemoveFolder, tree

LEMMA OthersStay ==
  ASSUME TypeOK, NEW p \in Processes, SystemCall(p), NEW q \in Processes \ {p}
  PROVE  UNCHANGED <<pc[q], op[q], ok[q], path[q], found[q]>>
BY DEF SystemCall, Stat, Mkdir, Chmod, RemoveFile, RemoveFolder, Created, Continue, Return, TypeOK

\* What was found was there when it was found.
FoundBefore == \A p \in Processes : found[p] <= born[path[p]]

LEMMA FoundBeforeHolds ==
  ASSUME TypeOK, PlaceInv, FoundBefore, [Next]_vars PROVE FoundBefore'
<1> SUFFICES ASSUME NEW q \in Processes PROVE found'[q] <= born'[path'[q]]
  BY DEF FoundBefore
<1>1. /\ path[q] \in Paths /\ found[q] \in Nat /\ found[q] <= born[path[q]]
      /\ \A x \in Paths : born[x] \in Nat
  BY DEF TypeOK, FoundBefore
<1>2. ASSUME NEW p \in Processes, NEW o \in Called, NEW x \in Paths, Call(p, o, x)
      PROVE  found'[q] <= born'[path'[q]]
  <2>1. CASE q = p
    BY <1>1, <1>2, <2>1 DEF Call, tree, TypeOK
  <2>2. CASE q # p
    BY <1>1, <1>2, <2>2 DEF Call, tree, TypeOK
  <2>3. QED
    BY <2>1, <2>2
<1>3. ASSUME NEW p \in Processes, SystemCall(p) PROVE found'[q] <= born'[path'[q]]
  <2>1. path'[q] = path[q]
    BY <1>3 DEF SystemCall, Stat, Mkdir, Chmod, RemoveFile, RemoveFolder, Created, Continue, Return
  <2>2. born'[path[q]] >= born[path[q]] /\ born'[path[q]] \in Nat
    <3>1. TypeOK'
      BY <1>3, StatStep, MkdirStep, ChmodStep, RemoveStep, TypeParts DEF SystemCall
    <3>2. QED
      BY <1>1, <1>3, <3>1, CallsGoOnward DEF Onward, TypeOK
  <2>3. CASE UNCHANGED found
    BY <1>1, <2>1, <2>2, <2>3
  <2>4. CASE Stat(p) /\ found' = [found EXCEPT ![p] = born[path[p]]]
    <3>1. UNCHANGED born
      BY <2>4 DEF Stat, tree
    <3>2. found'[q] = found[q] \/ found'[q] = born[path[q]]
      BY <2>4 DEF TypeOK
    <3>3. QED
      BY <1>1, <2>1, <3>1, <3>2
  <2>5. QED
    BY <1>3, <2>3, <2>4 DEF SystemCall, Stat, Mkdir, Chmod, RemoveFile, RemoveFolder
<1>4. CASE UNCHANGED vars
  BY <1>1, <1>4 DEF vars, tree
<1>5. QED
  BY <1>2, <1>3, <1>4 DEF Next, SystemCall

\* SafeDelete answers true only at its own removal of what is there then.
LEMMA AnswersAtRemoval ==
  ASSUME TypeOK, PlaceInv, NEW p \in Processes, SystemCall(p), Deleted(p)'
  PROVE  /\ kind[path[p]] # "none" /\ kind'[path[p]] = "none"
         /\ UNCHANGED <<path, found>>
<1>1. pc'[p] = "idle" /\ op'[p] = "SafeDelete" /\ ok'[p]
  BY DEF Deleted
<1>2. ~Stat(p)
  <2> SUFFICES ASSUME Stat(p) PROVE FALSE
    OBVIOUS
  <2>1. ~Continue(p, "mkdir") /\ ~Continue(p, "chmod") /\ ~Return(p, FALSE)
    BY <1>1 DEF Continue, Return, TypeOK
  <2>2. Creating(p) /\ Created(p)
    BY <2>1 DEF Stat
  <2>3. op' = op
    BY <2>2 DEF Created, Return
  <2>4. QED
    BY <1>1, <2>2, <2>3 DEF Creating
<1>3. ~Mkdir(p) /\ ~RemoveFolder(p)
  <2>1. ASSUME Mkdir(p) \/ RemoveFolder(p) PROVE op' = op /\ op[p] # "SafeDelete"
    BY <2>1 DEF Mkdir, RemoveFolder, Created, Return, PlaceInv
  <2>2. QED
    BY <1>1, <2>1
<1>4. ~Chmod(p)
  <2> SUFFICES ASSUME Chmod(p) PROVE FALSE
    OBVIOUS
  <2>1. ~Return(p, FALSE)
    BY <1>1 DEF Return, TypeOK
  <2>2. UNCHANGED ok
    BY <2>1 DEF Chmod
  <2>3. pc[p] = "chmod" /\ ok[p] = FALSE
    BY DEF Chmod, PlaceInv
  <2>4. QED
    BY <1>1, <2>2, <2>3
<1>5. RemoveFile(p)
  BY <1>2, <1>3, <1>4 DEF SystemCall
<1>6. CanRemove(path[p]) /\ Take(path[p]) /\ Return(p, TRUE) /\ UNCHANGED found
  <2>1. ~Return(p, FALSE)
    BY <1>1 DEF Return, TypeOK
  <2>2. QED
    BY <1>5, <2>1 DEF RemoveFile
<1>7. QED
  BY <1>6 DEF CanRemove, Exists, Take, Return, TypeOK

\* When SafeDelete answers true, what it found is gone, and only one of those
\* that found it is told so, however processes interleave.
THEOREM SafeDeleteIsTruthful == Spec => []SafeDeleteTells
<1>1. Init => SafeDeleteTells
  <2> SUFFICES ASSUME Init, NEW q \in Processes PROVE ~Deleted(q)
    BY DEF SafeDeleteTells
  <2>1. op = [p \in Processes |-> "none"]
    BY DEF Init
  <2>2. QED
    BY <2>1 DEF Deleted
<1>2. Init => FoundBefore
  <2> SUFFICES ASSUME Init, TypeOK, NEW q \in Processes PROVE found[q] <= born[path[q]]
    BY InitOK DEF FoundBefore
  <2>1. path[q] \in Paths
    BY DEF TypeOK
  <2>2. QED
    BY <2>1 DEF Init
<1>3. TypeOK /\ PlaceInv /\ FoundBefore /\ SafeDeleteTells /\ [Next]_vars => SafeDeleteTells'
  <2> SUFFICES ASSUME TypeOK, PlaceInv, FoundBefore, SafeDeleteTells, [Next]_vars,
                      NEW p \in Processes, NEW q \in Processes,
                      Deleted(p)', Deleted(q)', path'[p] = path'[q], found'[p] = found'[q]
               PROVE  \/ born'[path'[p]] > found'[p]
                      \/ p = q /\ kind'[path'[p]] = "none"
    BY DEF SafeDeleteTells
  <2>1. ASSUME NEW r \in Processes, NEW o \in Called, NEW x \in Paths, Call(r, o, x)
        PROVE  \/ born'[path'[p]] > found'[p]
               \/ p = q /\ kind'[path'[p]] = "none"
    <3>1. p # r /\ q # r
      BY <2>1 DEF Call, Deleted, TypeOK, FirstCall
    <3>2. UNCHANGED tree /\ \A s \in {p, q} : UNCHANGED <<pc[s], op[s], ok[s], path[s], found[s]>>
      BY <2>1, <3>1 DEF Call, TypeOK
    <3>3. QED
      BY <3>2 DEF SafeDeleteTells, Deleted, tree
  <2>2. ASSUME NEW r \in Processes, SystemCall(r)
        PROVE  \/ born'[path'[p]] > found'[p]
               \/ p = q /\ kind'[path'[p]] = "none"
    <3>1. \A s \in Processes : path[s] \in Paths /\ found[s] \in Nat /\ born[path[s]] \in Nat
      BY DEF TypeOK
    <3>2. \A s \in Processes : Onward(path[s])
      BY <2>2, <3>1, CallsGoOnward
    <3>3. \A s \in Processes \ {r} : UNCHANGED <<path[s], found[s]>> /\ (Deleted(s)' => Deleted(s))
      BY <2>2, OthersStay DEF Deleted
    <3>4. Deleted(r)' =>
            kind[path[r]] # "none" /\ kind'[path[r]] = "none" /\ UNCHANGED <<path[r], found[r]>>
      BY <2>2, AnswersAtRemoval
    <3>5. UNCHANGED <<path[p], found[p], path[q], found[q]>>
      BY <3>3, <3>4
    <3>6. path[p] = path[q] /\ found[p] = found[q]
      BY <3>5
    <3>7. born'[path[p]] \in Nat
      <4>1. TypeOK'
        BY <2>2, StatStep, MkdirStep, ChmodStep, RemoveStep, TypeParts DEF SystemCall
      <4>2. QED
        BY <3>1, <4>1 DEF TypeOK
    <3>8. CASE p # r /\ q # r
      <4>1. born[path[p]] > found[p] \/ (p = q /\ kind[path[p]] = "none")
        BY <3>3, <3>6, <3>8 DEF SafeDeleteTells
      <4>2. found[p] <= born[path[p]]
        BY DEF FoundBefore
      <4>3. QED
        BY <3>1, <3>2, <3>5, <3>7, <4>1, <4>2 DEF Onward
    <3>9. CASE p = r /\ q = r
      BY <3>4, <3>5, <3>9
    <3>10. ASSUME NEW s \in {p, q}, s # r, p = r \/ q = r
           PROVE  born'[path'[p]] > found'[p]
      <4>1. Deleted(s) /\ kind[path[s]] # "none"
        BY <3>3, <3>4, <3>6, <3>10
      <4>2. born[path[s]] > found[s]
        BY <3>10, <4>1 DEF SafeDeleteTells
      <4>3. QED
        BY <3>1, <3>2, <3>5, <3>6, <3>7, <3>10, <4>2 DEF Onward
    <3>11. QED
      BY <3>8, <3>9, <3>10
  <2>3. CASE UNCHANGED vars
    BY <2>3 DEF vars, tree, SafeDeleteTells, Deleted
  <2>4. QED
    BY <2>1, <2>2, <2>3 DEF Next, SystemCall
<1>4. TypeOK /\ PlaceInv /\ FoundBefore /\ [Next]_vars => FoundBefore'
  BY FoundBeforeHolds
<1>5. QED
  BY <1>1, <1>2, <1>3, <1>4, FilePlacesCorrect, PTL DEF Spec
=============================================================================
