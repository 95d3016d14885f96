------------------------------ MODULE FileTree ------------------------------
(***************************************************************************)
(* FileUtility (libs/utility/fileutility): processes create and delete     *)
(* files and folders of one tree, each operation a sequence of system      *)
(* calls with nothing to keep two of them apart.                           *)
(***************************************************************************)
EXTENDS Integers, Sequences

CONSTANTS
  Processes,
  Names,      \* the names in a folder
  MaxDepth,   \* bound: names in a path
  Called,     \* the operations that are called
  Start,      \* the kind of each path at first
  MaxCalls    \* bound: operations begun

Paths == UNION {[1..n -> Names] : n \in 1..MaxDepth}
Kinds == {"none", "file", "folder", "device"}  \* a device or a socket
Operations == {"CreateIfDoesNotExist", "CreatePath", "SafeDelete", "DeleteFile", "DeleteFolder"}

ASSUME FileTreeAssumption ==
  /\ MaxDepth \in Nat \ {0} /\ MaxCalls \in Nat
  /\ Names # {} /\ Called \subseteq Operations
  /\ Start \in [Paths -> Kinds]
  /\ \A p \in Paths : Len(p) > 1 /\ Start[p] # "none" =>
       Start[SubSeq(p, 1, Len(p) - 1)] = "folder"

VARIABLES
  kind,     \* what is at each path
  sealed,   \* the paths whose owner may neither write nor search them
  op, path, \* the operation each process is in and its argument
  depth,    \* how much of path CreatePath has come to
  pc,       \* its next system call
  ok,       \* its result
  removed,  \* history: the paths removed and not made since
  born,     \* history: how often each path was made
  found,    \* history: how often path had been when SafeDelete found it
  calls     \* history: operations begun

tree == <<kind, sealed, removed, born>>
vars == <<tree, op, path, depth, pc, ok, found, calls>>

TypeOK ==
  /\ kind \in [Paths -> Kinds]
  /\ sealed \subseteq Paths
  /\ op \in [Processes -> Operations \cup {"none"}]
  /\ path \in [Processes -> Paths]
  /\ depth \in [Processes -> 1..MaxDepth]
  /\ pc \in [Processes -> {"idle", "stat", "mkdir", "chmod", "remove", "rmdir"}]
  /\ ok \in [Processes -> BOOLEAN]
  /\ removed \subseteq Paths
  /\ born \in [Paths -> Nat]
  /\ found \in [Processes -> Nat]
  /\ calls \in 0..MaxCalls

Init ==
  /\ kind = Start
  /\ sealed = {}
  /\ op = [p \in Processes |-> "none"]
  /\ path \in [Processes -> {CHOOSE x \in Paths : Len(x) = 1}]
  /\ depth = [p \in Processes |-> 1]
  /\ pc = [p \in Processes |-> "idle"]
  /\ ok = [p \in Processes |-> FALSE]
  /\ removed = {}
  /\ born = [x \in Paths |-> 0]
  /\ found = [p \in Processes |-> 0]
  /\ calls = 0

-----------------------------------------------------------------------------
(* The file system, as the calls of a user other than root see it.         *)
\* The first n names of x, or all there are.
Prefix(x, n)  == SubSeq(x, 1, IF n < Len(x) THEN n ELSE Len(x))
Children(x)   == {y \in Paths : Len(y) = Len(x) + 1 /\ Prefix(y, Len(x)) = x}

\* Every folder on the way to x can be searched.
Reaches(x) ==
  \A n \in 1..(Len(x) - 1) :
    kind[Prefix(x, n)] = "folder" /\ Prefix(x, n) \notin sealed

Exists(x) == Reaches(x) /\ kind[x] # "none"

IsFolder(x) == Exists(x) /\ kind[x] = "folder"

FolderExists_File(x) == Exists(x)  \* mutant: S_IFDIR is not looked at

\* st_mode & S_IFDIR: the bit is set for block devices and sockets too.
FolderExists(x) == Exists(x) /\ kind[x] \in {"folder", "device"}

CanMake(x)         == Reaches(x) /\ kind[x] = "none"
CanRemoveFolder(x) == IsFolder(x) /\ \A y \in Children(x) : kind[y] = "none"
CanRemove(x)       == Exists(x) /\ (kind[x] = "folder" => CanRemoveFolder(x))

\* chmod(x, 777) with 777 in decimal, octal 1411: the owner may only read.
SetAttribute(x) == sealed' = sealed \cup {x}

-----------------------------------------------------------------------------
\* The path a process is at: all of it but in CreatePath.
Current(p) == IF op[p] = "CreatePath" THEN Prefix(path[p], depth[p]) ELSE path[p]

Creating(p) == op[p] \in {"CreateIfDoesNotExist", "CreatePath"}

FirstCall(o) == IF o \in {"DeleteFile", "DeleteFolder"} THEN "chmod" ELSE "stat"

Call(p, o, x) ==
  /\ pc[p] = "idle" /\ calls < MaxCalls
  /\ op' = [op EXCEPT ![p] = o]
  /\ path' = [path EXCEPT ![p] = x]
  /\ depth' = [depth EXCEPT ![p] = 1]
  /\ pc' = [pc EXCEPT ![p] = FirstCall(o)]
  /\ ok' = [ok EXCEPT ![p] = FALSE]
  /\ found' = [found EXCEPT ![p] = 0]
  /\ calls' = calls + 1
  /\ UNCHANGED tree

Return(p, result) ==
  /\ ok' = [ok EXCEPT ![p] = result]
  /\ pc' = [pc EXCEPT ![p] = "idle"]
  /\ UNCHANGED <<op, path, depth, calls>>

Continue(p, next) ==
  /\ pc' = [pc EXCEPT ![p] = next]
  /\ UNCHANGED <<op, path, depth, ok, calls>>

\* There is a folder, or one was made: CreatePath goes on with the next.
Created(p) ==
  IF op[p] = "CreatePath" /\ depth[p] < Len(path[p])
    THEN /\ depth' = [depth EXCEPT ![p] = @ + 1]
         /\ pc' = [pc EXCEPT ![p] = "stat"]
         /\ UNCHANGED <<op, path, ok, calls>>
    ELSE Return(p, TRUE)

\* FolderExists of the two that create, FileExists of SafeDelete.
Stat(p) ==
  /\ pc[p] = "stat"
  /\ \/ /\ Creating(p)
        /\ IF FolderExists(Current(p)) THEN Created(p) ELSE Continue(p, "mkdir")
        /\ UNCHANGED found
     \/ /\ ~Creating(p)
        /\ IF Exists(path[p]) THEN Continue(p, "chmod") ELSE Return(p, FALSE)
        /\ found' = [found EXCEPT ![p] = born[path[p]]]
  /\ UNCHANGED tree

Make(x) ==
  /\ kind' = [kind EXCEPT ![x] = "folder"]
  /\ sealed' = sealed \ {x}
  /\ removed' = removed \ {x}
  /\ born' = [born EXCEPT ![x] = @ + 1]

Mkdir(p) ==
  /\ pc[p] = "mkdir"
  /\ IF CanMake(Current(p))
       THEN Make(Current(p)) /\ Created(p)
       ELSE Return(p, FALSE) /\ UNCHANGED tree
  /\ UNCHANGED found

\* SetAttribute; DeleteEntry of a file goes on with all of SafeDelete.
AfterChmod(p) ==
  CASE op[p] = "SafeDelete"   -> "remove"
    [] op[p] = "DeleteFile"   -> "stat"
    [] op[p] = "DeleteFolder" -> "rmdir"

Chmod(p) ==
  /\ pc[p] = "chmod"
  /\ IF Exists(path[p])
       THEN /\ SetAttribute(path[p])
            /\ pc' = [pc EXCEPT ![p] = AfterChmod(p)]
            /\ op' = [op EXCEPT ![p] = IF @ = "DeleteFile" THEN "SafeDelete" ELSE @]
            /\ UNCHANGED <<path, depth, ok, calls>>
       ELSE Return(p, FALSE) /\ UNCHANGED sealed
  /\ UNCHANGED <<kind, removed, born, found>>

Take(x) ==
  /\ kind' = [kind EXCEPT ![x] = "none"]
  /\ sealed' = sealed \ {x}
  /\ removed' = removed \cup {x}
  /\ UNCHANGED born

RemoveFile_True(p) ==  \* mutant: what remove returns is not looked at
  /\ pc[p] = "remove"
  /\ IF CanRemove(path[p]) THEN Take(path[p]) ELSE UNCHANGED tree
  /\ Return(p, TRUE)
  /\ UNCHANGED found

\* remove in SafeDelete.
RemoveFile(p) ==
  /\ pc[p] = "remove"
  /\ IF CanRemove(path[p])
       THEN Take(path[p]) /\ Return(p, TRUE)
       ELSE Return(p, FALSE) /\ UNCHANGED tree
  /\ UNCHANGED found

\* FileUtility::Remove returns what rmdir returns, which is 0 on success.
RemoveFolder(p) ==
  /\ pc[p] = "rmdir"
  /\ IF CanRemoveFolder(path[p])
       THEN Take(path[p]) /\ Return(p, FALSE)
       ELSE Return(p, TRUE) /\ UNCHANGED tree
  /\ UNCHANGED found

Next ==
  \E p \in Processes :
    \/ \E o \in Called, x \in Paths : Call(p, o, x)
    \/ Stat(p) \/ Mkdir(p) \/ Chmod(p) \/ RemoveFile(p) \/ RemoveFolder(p)

Spec == Init /\ [][Next]_vars
-----------------------------------------------------------------------------
\* When a folder was to be created and the answer is true, it is there, unless
\* someone has removed it since: a file of its name is no folder. (A block
\* device or socket of its name passes for one.)
TrueMeansFolder ==
  \A p \in Processes : pc[p] = "idle" /\ Creating(p) /\ ok[p] =>
    kind[path[p]] \in {"folder", "device"} \/ path[p] \in removed

\* Deleted(p): SafeDelete has answered true. Then what it found when it began
\* is gone, and of those that found one entry only one is told that it deleted
\* it, unless another was made in its place in the meantime.
Deleted(p) == pc[p] = "idle" /\ op[p] = "SafeDelete" /\ ok[p]

SafeDeleteTells ==
  \A p, q \in Processes :
    Deleted(p) /\ Deleted(q) /\ path[p] = path[q] /\ found[p] = found[q] =>
      \/ born[path[p]] > found[p]
      \/ p = q /\ kind[path[p]] = "none"

\* What SafeDelete deletes is what it found when it began.
DeletesWhatItFound ==
  [][\A p \in Processes :
       RemoveFile(p) /\ ok'[p] => born[path[p]] = found[p]]_vars

\* When a folder was to be created and the answer is true, there is a folder,
\* unless someone has removed it since.
CreatedIsFolder ==
  \A p \in Processes : pc[p] = "idle" /\ Creating(p) /\ ok[p] =>
    kind[path[p]] = "folder" \/ path[p] \in removed

\* When a folder was to be created and the answer is false, it is not there.
FalseMeansNoFolder ==
  \A p \in Processes : pc[p] = "idle" /\ Creating(p) /\ ~ok[p] => kind[path[p]] # "folder"

\* DeleteEntry makes a folder writable before it removes it.
FolderIsWritable ==
  \A p \in Processes : pc[p] = "rmdir" => path[p] \notin sealed

\* DeleteEntry answers true when it has removed the folder.
DeleteFolderTells ==
  [][\A p \in Processes :
       RemoveFolder(p) /\ kind'[path[p]] # kind[path[p]] => ok'[p]]_vars
=============================================================================
