----------------------------- MODULE HostsFile -----------------------------
(***************************************************************************)
(* AddNodes of apps/graviton0 with what it calls: SplitIpv4, which expands *)
(* a range of addresses, UpdateEtcHosts, which rewrites /etc/hosts, and    *)
(* WriteToFile, which rewrites the ansible inventory. Each process runs    *)
(* one call at a time; the files are shared and nothing locks them.        *)
(*                                                                         *)
(* Lines are taken to have one length and a file to fit the stream buffer: *)
(* it is read by one read and written by one write when the stream closes. *)
(* The ssh-copy-id run for each node changes nothing modelled here.        *)
(***************************************************************************)
EXTENDS Integers, Sequences, SequencesExt

CONSTANTS
  Processes,
  NodePrefixes, \* host name prefixes
  Endings,      \* the pairs of two of them of which the first ends the second
  Ranges,       \* the ranges start-end asked for, pairs of bytes
  Lists,        \* the addresses asked for one by one, sequences of bytes
  ByteSize,     \* the values of u8_t
  InitialHosts, \* /etc/hosts at first
  IoErrors,     \* whether opening and writing may fail
  MaxCalls,     \* bound: calls of AddNodes
  MaxList       \* bound: the list of addresses is recorded up to this length

Bytes == 0..(ByteSize - 1)

-----------------------------------------------------------------------------
(* A line maps the address ending in ip to the idx-th host of a prefix.    *)
(* Those that were there first may be of another network, which ip beyond  *)
(* the bytes stands for, and of foreign names, which NoPrefix stands for;  *)
(* mentions and names are the addresses and hosts that their text contains *)
(* otherwise: 110.0.0.1 contains 10.0.0.1, and notnode1 contains node1.    *)
NoPrefix == "other"
Line(ip, pre, idx) ==
  [ip |-> ip, prefix |-> pre, idx |-> idx, mentions |-> {}, names |-> {}]
Lines == [ip : Nat, prefix : NodePrefixes \cup {NoPrefix}, idx : Nat,
          mentions : SUBSET Bytes, names : SUBSET (NodePrefixes \X Nat)]

ASSUME HostsAssumption ==
  /\ ByteSize \in Nat \ {0}
  /\ Endings \subseteq NodePrefixes \X NodePrefixes
  /\ Ranges \subseteq Bytes \X Bytes
  /\ Lists \subseteq Seq(Bytes)
  /\ InitialHosts \in Seq(Lines)
  /\ IoErrors \in BOOLEAN
  /\ {MaxCalls, MaxList} \subseteq Nat

\* The decimal digits of a begin those of b, a number of three at most: as
\* text, 10.0.0.1 occurs in a line of 10.0.0.12, and node1 in one of node12.
Begins(a, b) == b = a \/ (b >= 10 /\ b \div 10 = a) \/ (b >= 100 /\ b \div 100 = a)

Mappings(pre, list) == [i \in 1..Len(list) |-> Line(list[i], pre, i)]

\* line.find, which finds an address or a host anywhere in the line.
HasIp(line, list) ==
  \E i \in 1..Len(list) :
    \/ line.ip \in Bytes /\ Begins(list[i], line.ip)
    \/ list[i] \in line.mentions

HasHost(line, pre, list) ==
  \E i \in 1..Len(list) :
    \/ (line.prefix = pre \/ <<pre, line.prefix>> \in Endings) /\ Begins(i, line.idx)
    \/ <<pre, i>> \in line.names

Kept_AnyHost(file, pre, list) ==  \* mutant: lines of a listed host stay
  SelectSeq(file, LAMBDA line : ~HasIp(line, list))

Matches(line, pre, list) == HasIp(line, list) \/ HasHost(line, pre, list)

\* The lines UpdateEtcHosts keeps, read one after the other.
Kept(file, pre, list) ==
  LET kept[n \in 0..Len(file)] ==
        IF n = 0 THEN <<>>
        ELSE IF Matches(file[n], pre, list) THEN kept[n - 1]
        ELSE Append(kept[n - 1], file[n])
  IN kept[Len(file)]

\* A write from the start of a file another process may have filled.
Overwrite(file, new) ==
  new \o SubSeq(file, Len(new) + 1, Len(file))

-----------------------------------------------------------------------------
VARIABLES
  hosts,      \* /etc/hosts
  inventory,  \* /etc/ansible/hosts
  pc,         \* where each process is
  prefix,     \* its argument
  next, end,  \* idx and end in SplitIpv4
  ips,        \* ipList
  content,    \* fileContent
  success,    \* what UpdateEtcHosts returned
  calls,      \* history: calls begun
  intact,     \* history: no write of /etc/hosts failed or was cut off by a crash
  complete,   \* history: the last Read found the others idle and nothing failed since
  stale,      \* history: those whose reading of /etc/hosts another has outdated
  serial,     \* history: nobody wrote /etc/hosts from an outdated reading
  atomic      \* history: /etc/hosts as it were if each update were one step

files  == <<hosts, inventory>>
locals == <<prefix, next, end, ips, content, success>>
past   == <<stale, serial, atomic>>
vars   == <<files, locals, pc, calls, intact, complete, past>>

TypeOK ==
  /\ hosts \in Seq(Lines)
  /\ inventory \in Seq(Lines)
  /\ pc \in [Processes -> {"idle", "split", "read", "open", "flush",
                           "inventory", "store"}]
  /\ prefix \in [Processes -> NodePrefixes \cup {NoPrefix}]
  /\ next \in [Processes -> Bytes]
  /\ end \in [Processes -> Bytes]
  /\ ips \in [Processes -> Seq(Bytes)]
  /\ content \in [Processes -> Seq(Lines)]
  /\ success \in [Processes -> BOOLEAN]
  /\ calls \in 0..MaxCalls
  /\ intact \in BOOLEAN /\ complete \in BOOLEAN
  /\ stale \subseteq Processes /\ serial \in BOOLEAN
  /\ atomic \in Seq(Lines)

Init ==
  /\ hosts = InitialHosts
  /\ inventory = <<>>
  /\ pc = [p \in Processes |-> "idle"]
  /\ prefix = [p \in Processes |-> NoPrefix]
  /\ next = [p \in Processes |-> 0]
  /\ end = [p \in Processes |-> 0]
  /\ ips = [p \in Processes |-> <<>>]
  /\ content = [p \in Processes |-> <<>>]
  /\ success = [p \in Processes |-> FALSE]
  /\ calls = 0
  /\ intact = TRUE
  /\ complete = TRUE
  /\ stale = {} /\ serial = TRUE
  /\ atomic = InitialHosts

Goto(p, from, to) == pc[p] = from /\ pc' = [pc EXCEPT ![p] = to]

-----------------------------------------------------------------------------
Begin(p, pre) ==
  /\ calls < MaxCalls
  /\ calls' = calls + 1
  /\ prefix' = [prefix EXCEPT ![p] = pre]
  /\ success' = [success EXCEPT ![p] = FALSE]
  /\ UNCHANGED <<files, content, intact, complete, past>>

AddRange_Offset(p, pre, range) ==  \* mutant: the end counts from the start
  /\ Goto(p, "idle", "split")
  /\ Begin(p, pre)
  /\ next' = [next EXCEPT ![p] = range[1]]
  /\ end' = [end EXCEPT ![p] = range[1] + range[2]]
  /\ ips' = [ips EXCEPT ![p] = <<>>]

\* AddNodes with "a.b.c.start-end".
AddRange(p, pre, range) ==
  /\ Goto(p, "idle", "split")
  /\ Begin(p, pre)
  /\ next' = [next EXCEPT ![p] = range[1]]
  /\ end' = [end EXCEPT ![p] = range[2]]
  /\ ips' = [ips EXCEPT ![p] = <<>>]

\* AddNodes with "a.b.c.d,...".
AddList(p, pre, list) ==
  /\ Goto(p, "idle", "read")
  /\ Begin(p, pre)
  /\ ips' = [ips EXCEPT ![p] = list]
  /\ UNCHANGED <<next, end>>

SplitStep_Stays(p) ==  \* mutant: idx is not increased
  /\ pc[p] = "split"
  /\ next[p] <= end[p]
  /\ ips' = [ips EXCEPT ![p] = IF Len(@) < MaxList THEN Append(@, next[p]) ELSE @]
  /\ UNCHANGED <<files, prefix, next, end, content, success, pc, calls, intact, complete, past>>

\* One turn of the loop of SplitIpv4; idx is a u8_t.
SplitStep(p) ==
  /\ pc[p] = "split"
  /\ next[p] <= end[p]
  /\ ips' = [ips EXCEPT ![p] = IF Len(@) < MaxList THEN Append(@, next[p]) ELSE @]
  /\ next' = [next EXCEPT ![p] = (@ + 1) % ByteSize]
  /\ UNCHANGED <<files, prefix, end, content, success, pc, calls, intact, complete, past>>

\* An empty list is an error and ends the call.
SplitDone(p) ==
  /\ next[p] > end[p]
  /\ Goto(p, "split", IF ips[p] = <<>> THEN "idle" ELSE "read")
  /\ UNCHANGED <<files, locals, calls, intact, complete, past>>

-----------------------------------------------------------------------------
Read_AfterOpen(p) ==  \* mutant: the file is truncated before it is read
  /\ Goto(p, "read", "open")
  /\ content' = [content EXCEPT ![p] = <<>>]
  /\ complete' = \A q \in Processes \ {p} : pc[q] = "idle"
  /\ stale' = stale \ {p}
  /\ UNCHANGED <<files, prefix, next, end, ips, success, calls, intact, serial, atomic>>

Read(p) ==
  /\ Goto(p, "read", "open")
  /\ content' = [content EXCEPT ![p] = Kept(hosts, prefix[p], ips[p])]
  /\ complete' = \A q \in Processes \ {p} : pc[q] = "idle"
  /\ stale' = stale \ {p}
  /\ UNCHANGED <<files, prefix, next, end, ips, success, calls, intact, serial, atomic>>

\* /etc/hosts cannot be read, or not be written: UpdateEtcHosts is false.
CannotOpen(p) ==
  /\ IoErrors
  /\ Goto(p, "read", "inventory") \/ Goto(p, "open", "inventory")
  /\ complete' = FALSE
  /\ UNCHANGED <<files, locals, calls, intact, past>>

\* What a write to /etc/hosts by p means to the others' readings.
Outdate(p) ==
  /\ stale' = stale \cup {q \in Processes \ {p} : pc[q] \in {"open", "flush"}}
  /\ serial' = (serial /\ p \notin stale)

Open_Keeps(p) ==  \* mutant: the file is not truncated
  /\ Goto(p, "open", "flush")
  /\ Outdate(p)
  /\ UNCHANGED <<files, locals, calls, intact, complete, atomic>>

\* The ofstream truncates the file.
Open(p) ==
  /\ Goto(p, "open", "flush")
  /\ hosts' = <<>>
  /\ Outdate(p)
  /\ UNCHANGED <<inventory, locals, calls, intact, complete, atomic>>

Close(p) ==
  /\ Goto(p, "flush", "inventory")
  /\ success' = [success EXCEPT ![p] = TRUE]
  /\ UNCHANGED <<inventory, prefix, next, end, ips, content, calls>>

Flush(p) ==
  /\ Close(p)
  /\ hosts' = Overwrite(hosts, content[p] \o Mappings(prefix[p], ips[p]))
  /\ Outdate(p)
  /\ atomic' = IF intact /\ serial'
               THEN Kept(atomic, prefix[p], ips[p]) \o Mappings(prefix[p], ips[p])
               ELSE <<>>
  /\ UNCHANGED <<intact, complete>>

\* A failed write is not looked at.
FlushFails(p) ==
  /\ IoErrors
  /\ Close(p)
  /\ intact' = FALSE
  /\ complete' = FALSE
  /\ UNCHANGED <<hosts, past>>

-----------------------------------------------------------------------------
\* WriteToFile, whatever UpdateEtcHosts returned.
OpenInventory_Append(p) ==  \* mutant: the file is not truncated
  /\ Goto(p, "inventory", "store")
  /\ UNCHANGED <<files, locals, calls, intact, complete, past>>

OpenInventory(p) ==
  /\ Goto(p, "inventory", "store")
  /\ inventory' = <<>>
  /\ UNCHANGED <<hosts, locals, calls, intact, complete, past>>

CannotOpenInventory(p) ==
  /\ IoErrors
  /\ Goto(p, "inventory", "idle")
  /\ complete' = FALSE
  /\ UNCHANGED <<files, locals, calls, intact, past>>

StoreInventory(p) ==
  /\ Goto(p, "store", "idle")
  /\ inventory' = Overwrite(inventory, Mappings(prefix[p], ips[p]))
  /\ UNCHANGED <<hosts, locals, calls, intact, complete, past>>

\* The process ends anywhere; what its streams hold is lost.
Crash(p) ==
  /\ pc[p] # "idle"
  /\ pc' = [pc EXCEPT ![p] = "idle"]
  /\ intact' = (intact /\ pc[p] # "flush")
  /\ complete' = FALSE
  /\ UNCHANGED <<files, locals, calls, past>>

Call(p) ==
  \E pre \in NodePrefixes :
    \/ \E range \in Ranges : AddRange(p, pre, range)
    \/ \E list \in Lists : AddList(p, pre, list)

Step(p) ==
  \/ SplitStep(p) \/ SplitDone(p)
  \/ Read(p) \/ Open(p) \/ Flush(p)
  \/ CannotOpen(p) \/ FlushFails(p)
  \/ OpenInventory(p) \/ CannotOpenInventory(p) \/ StoreInventory(p)

Next == \E p \in Processes : Call(p) \/ Step(p) \/ Crash(p)

Spec == Init /\ [][Next]_vars

\* A process that is in a call goes on with it.
FairSpec == Spec /\ \A p \in Processes : WF_vars(Step(p))
-----------------------------------------------------------------------------
\* However calls overlap in their addresses and names, and wherever they are
\* cut off, /etc/hosts never gives an address or a host twice, as long as
\* nobody writes it from an outdated reading.
OneMappingEach ==
  serial => \A i, j \in 1..Len(hosts) :
    i # j => /\ hosts[i].ip # hosts[j].ip
             /\ <<hosts[i].prefix, hosts[i].idx>> # <<hosts[j].prefix, hosts[j].idx>>

\* After an update that went through alone, every node of the inventory is
\* mapped by /etc/hosts to the address the inventory has.
InventoryAgrees ==
  complete /\ (\A p \in Processes : pc[p] = "idle") =>
    \A node \in ToSet(inventory) : node \in ToSet(hosts)

\* A line that contains no address that was asked for and no host of one of the
\* prefixes is there until a write of the file fails, is cut off or is made
\* from an outdated reading.
Asked(line) ==
  \/ \E range \in Ranges : \E a \in range[1]..range[2] : HasIp(line, <<a>>)
  \/ \E list \in Lists : HasIp(line, list)
  \/ line.prefix \in NodePrefixes \/ line.names # {}

ForeignLinesStay ==
  intact /\ serial /\ (\A p \in Processes : pc[p] # "flush") =>
    \A line \in ToSet(InitialHosts) : ~Asked(line) => line \in ToSet(hosts)

\* Updates by processes none of which writes from an outdated reading add up
\* as if each were one step: read, truncate and write of one may fall
\* between the other calls of another, and nothing that was added is lost.
UpdatesAddUp ==
  intact /\ serial /\ (\A p \in Processes : pc[p] # "flush") => hosts = atomic

\* UpdateEtcHosts drops only the lines with an address or host of the lists.
OnlyMatchingLinesGo ==
  \A p \in Processes : pc[p] = "open" /\ p \notin stale =>
    \A line \in ToSet(hosts) :
      \/ line \in ToSet(content[p])
      \/ \E m \in ToSet(Mappings(prefix[p], ips[p])) :
           line.ip = m.ip \/ <<line.prefix, line.idx>> = <<m.prefix, m.idx>>

\* When UpdateEtcHosts has returned true, the mappings are in the file.
TrueMeansUpdated ==
  \A p \in Processes : pc[p] = "inventory" /\ success[p] =>
    ToSet(Mappings(prefix[p], ips[p])) \subseteq ToSet(hosts)

\* When all have returned, the mappings of each are in the file, but for those
\* another gave the address or the host of.
UpdatesStay ==
  (\A p \in Processes : pc[p] = "idle") =>
    \A p \in Processes : success[p] =>
      \A m \in ToSet(Mappings(prefix[p], ips[p])) :
        \/ m \in ToSet(hosts)
        \/ \E q \in Processes \ {p} : \E n \in ToSet(Mappings(prefix[q], ips[q])) :
             n.ip = m.ip \/ <<n.prefix, n.idx>> = <<m.prefix, m.idx>>

\* SplitIpv4 never comes back to an address it has listed, so it ends, if the
\* range does not end at the largest byte.
SplitAdvances ==
  \A p \in Processes : pc[p] = "split" /\ end[p] < ByteSize - 1 =>
    \A a \in ToSet(ips[p]) : a < next[p]

\* SplitIpv4 returns.
SplitReturns == \A p \in Processes : pc[p] = "split" ~> pc[p] # "split"
=============================================================================
