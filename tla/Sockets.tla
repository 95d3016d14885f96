------------------------------ MODULE Sockets ------------------------------
(***************************************************************************)
(* The sockets of libs/service/ethhandler: IpMulticast objects, built over *)
(* EthHandler, hold one descriptor each; threads that ask for the public   *)
(* address hold one during the call. The descriptors are the process's, so *)
(* a descriptor closed twice may close another's. Each step is one system  *)
(* call and the test of its result; any system call may fail.              *)
(* A built object sends to its group and receives: a datagram waits at a   *)
(* socket until it is read, and more may be lost, as with any UDP.         *)
(* m_rxFlags and m_txFlags are not kept here: each call that looks at one  *)
(* fills it first, so that nothing of it is used by a later call.          *)
(***************************************************************************)
EXTENDS Integers

CONSTANTS
  Handlers,     \* the IpMulticast objects
  Askers,       \* the threads that call GetPublicIp
  Descriptors,  \* bound: the descriptors the process may have open
  MaxAsks,      \* bound: calls of GetPublicIp by each thread
  Others,       \* the other hosts that send to the group
  Self,         \* this host
  Unset         \* what was there before

Invalid == -1
Nothing == [from |-> Unset, empty |-> TRUE]   \* no datagram waits
Arrived == [from : Others \cup {Self}, empty : BOOLEAN]
Owners  == Handlers \cup Askers

ASSUME SocketsAssumption ==
  /\ Descriptors \subseteq Nat
  /\ Handlers \cap Askers = {}
  /\ MaxAsks \in Nat
  /\ Unset \notin Others \cup {Self} /\ Self \notin Others

VARIABLES
  open,     \* the open descriptors
  bound,    \* those bound to an address
  quiet,    \* those with IP_MULTICAST_LOOP off
  joined,   \* those that are members of the multicast group
  at,       \* the next step of each handler or thread
  fd,       \* m_sockFd of a handler, sock of a call
  status,   \* status in GetPublicIp, and what it returned
  ip,       \* retIp of GetPublicIp
  reply,    \* history: how the reply came
  asks,     \* history: calls of GetPublicIp
  waiting,  \* the datagram that waits at each bound socket
  remote,   \* the remote that ReceiveMc set for its caller
  result,   \* how the last Send or ReceiveMc ended
  announced \* history: IsPacketReceived was true, and ReceiveMc not called since

kernel == <<open, bound, quiet, joined, waiting>>
asking == <<status, ip, reply, asks>>
mailed == <<remote, result, announced>>
vars   == <<kernel, at, fd, asking, mailed>>

TypeOK ==
  /\ open \subseteq Descriptors
  /\ bound \subseteq Descriptors
  /\ quiet \subseteq Descriptors
  /\ joined \subseteq Descriptors
  /\ at \in [Owners -> {"none", "bind", "loop", "join", "ready", "close",
                        "connect", "send", "recv"}]
  /\ fd \in [Owners -> Descriptors \cup {Invalid}]
  /\ status \in [Askers -> BOOLEAN]
  /\ ip \in [Askers -> {"unset", "public", "other"}]
  /\ reply \in [Askers -> {"none", "whole", "piece", "full"}]
  /\ asks \in [Askers -> 0..MaxAsks]
  /\ waiting \in [Descriptors -> Arrived \cup {Nothing}]
  /\ remote \in [Handlers -> Others \cup {Self, Unset}]
  /\ result \in [Handlers -> {"none", "failed", "sent", "received"}]
  /\ announced \in [Handlers -> BOOLEAN]

Init ==
  /\ open = {} /\ bound = {} /\ quiet = {} /\ joined = {}
  /\ at = [o \in Owners |-> "none"]
  /\ fd = [o \in Owners |-> Invalid]
  /\ status = [t \in Askers |-> FALSE]
  /\ ip = [t \in Askers |-> "unset"]
  /\ reply = [t \in Askers |-> "none"]
  /\ asks = [t \in Askers |-> 0]
  /\ waiting = [d \in Descriptors |-> Nothing]
  /\ remote = [h \in Handlers |-> Unset]
  /\ result = [h \in Handlers |-> "none"]
  /\ announced = [h \in Handlers |-> FALSE]

Goto(o, from, to) == at[o] = from /\ at' = [at EXCEPT ![o] = to]

Socket_Errno(o) ==  \* mutant: failure is a negative errno, not -1
  /\ fd' = [fd EXCEPT ![o] = -24]
  /\ UNCHANGED kernel

\* socket: the lowest descriptor that is free, or -1.
Socket(o) ==
  /\ \/ \E d \in Descriptors \ open :
          /\ \A e \in Descriptors \ open : d <= e
          /\ open' = open \cup {d}
          /\ fd' = [fd EXCEPT ![o] = d]
     \/ fd' = [fd EXCEPT ![o] = Invalid] /\ UNCHANGED open
  /\ UNCHANGED <<bound, quiet, joined, waiting>>

\* close, which ends the socket's memberships and drops what waits; of -1 it
\* does nothing.
Close(d) ==
  /\ open' = open \ {d}
  /\ bound' = bound \ {d}
  /\ quiet' = quiet \ {d}
  /\ joined' = joined \ {d}
  /\ waiting' = [e \in Descriptors |-> IF e = d THEN Nothing ELSE waiting[e]]

CloseAndForget_Keeps(o) ==  \* mutant: m_sockFd keeps the closed descriptor
  Close(fd[o]) /\ UNCHANGED fd

CloseAndForget(o) ==
  Close(fd[o]) /\ fd' = [fd EXCEPT ![o] = Invalid]

-----------------------------------------------------------------------------
\* EthHandler::EthHandler. What fcntl and setsockopt return is only logged.
OpenHandler(h) ==
  /\ Goto(h, "none", "bind")
  /\ Socket(h)
  /\ announced' = [announced EXCEPT ![h] = FALSE]
  /\ UNCHANGED <<remote, result, asking>>

Bind(h) ==
  /\ Goto(h, "bind", "loop")
  /\ \/ /\ fd[h] # Invalid
        /\ bound' = bound \cup {fd[h]}
        /\ UNCHANGED <<open, quiet, joined, waiting, fd>>
     \/ CloseAndForget(h)
  /\ UNCHANGED <<asking, mailed>>

\* IpMulticast::IpMulticast. IP_MULTICAST_IF is only logged.
DisableLoopback(h) ==
  /\ Goto(h, "loop", "join")
  /\ \/ fd[h] = Invalid /\ UNCHANGED <<kernel, fd>>
     \/ /\ fd[h] # Invalid
        /\ quiet' = quiet \cup {fd[h]}
        /\ UNCHANGED <<open, bound, joined, waiting, fd>>
     \/ fd[h] # Invalid /\ CloseAndForget(h)
  /\ UNCHANGED <<asking, mailed>>

Join_OnlyWarns(h) ==  \* mutant: a socket that cannot join is kept
  /\ Goto(h, "join", "ready")
  /\ joined' \in {joined, joined \cup ({fd[h]} \ {Invalid})}
  /\ UNCHANGED <<open, bound, quiet, waiting, fd, asking, mailed>>

Join(h) ==
  /\ Goto(h, "join", "ready")
  /\ \/ fd[h] = Invalid /\ UNCHANGED <<kernel, fd>>
     \/ /\ fd[h] # Invalid
        /\ joined' = joined \cup {fd[h]}
        /\ UNCHANGED <<open, bound, quiet, waiting, fd>>
     \/ fd[h] # Invalid /\ CloseAndForget(h)
  /\ UNCHANGED <<asking, mailed>>

\* ~IpMulticast; leaving the group may fail.
Leave(h) ==
  /\ Goto(h, "ready", "close")
  /\ joined' \in {joined, joined \ {fd[h]}}
  /\ UNCHANGED <<open, bound, quiet, waiting, fd, asking, mailed>>

\* ~EthHandler.
CloseHandler(h) ==
  /\ Goto(h, "close", "none")
  /\ CloseAndForget(h)
  /\ UNCHANGED <<asking, mailed>>

-----------------------------------------------------------------------------
\* The network: a datagram comes to a bound socket that has room for it.
Waits(h)  == fd[h] # Invalid /\ waiting[fd[h]] # Nothing
Put(d, m) == [waiting EXCEPT ![d] = m]

Arrive ==
  /\ \E d \in bound, m \in [from : Others, empty : BOOLEAN] :
       waiting[d] = Nothing /\ waiting' = Put(d, m)
  /\ UNCHANGED <<open, bound, quiet, joined, at, fd, asking, mailed>>

\* What FD_ISSET finds: select takes the flag that FD_SET has set away again
\* unless a datagram waits. With no socket it is the flag of descriptor -1,
\* which is anything.
Polled(h) == IF fd[h] = Invalid THEN BOOLEAN ELSE {Waits(h)}

Answers(h, is) ==
  /\ at[h] = "ready"
  /\ announced' = [announced EXCEPT ![h] = is]
  /\ UNCHANGED <<kernel, at, fd, asking, remote, result>>

IsPacketReceived_LooksAnyway(h) ==  \* mutant: no return when select has failed
  \E is \in {TRUE} \cup Polled(h) : Answers(h, is)

\* A select that fails leaves the flag set; the answer is false without a look
\* at it. (IsPacketSent is the same for m_txFlags, and its answer, that the
\* socket has room, tells nothing that anything here depends on.)
IsPacketReceived(h) ==
  \E is \in {FALSE} \cup Polled(h) : Answers(h, is)

\* IpMulticast::Send, one sendto. The kernel hands the datagram to the members
\* of the group on this host too, unless the sender has turned that off.
Echoes(h) == IF fd[h] \in quiet THEN {} ELSE {d \in joined : waiting[d] = Nothing}

Send(h) ==
  /\ at[h] = "ready"
  /\ \/ /\ result' = [result EXCEPT ![h] = "sent"]
        /\ fd[h] # Invalid
        /\ waiting' \in {waiting} \cup {Put(d, [from |-> Self, empty |-> FALSE]) : d \in Echoes(h)}
     \/ result' = [result EXCEPT ![h] = "failed"] /\ UNCHANGED waiting
  /\ UNCHANGED <<open, bound, quiet, joined, at, fd, asking, remote, announced>>

\* IpMulticast::ReceiveMc. recvfrom may fail, with or without a datagram there,
\* and then it does not write remoteSock, of which anything is made. A datagram
\* that is empty is read and reported as an error.
Anything == Others \cup {Self, Unset}

Sender_NoRoom(h) == Anything  \* mutant: addrLen is not set, recvfrom writes no address

Sender(h) == {waiting[fd[h]].from}

Read(h) ==
  /\ Waits(h)
  /\ waiting' = [waiting EXCEPT ![fd[h]] = Nothing]
  /\ \E x \in Sender(h) : remote' = [remote EXCEPT ![h] = x]
  /\ result' = [result EXCEPT ![h] = IF waiting[fd[h]].empty THEN "failed" ELSE "received"]

ReadFails(h) ==
  /\ \E x \in Anything : remote' = [remote EXCEPT ![h] = x]
  /\ result' = [result EXCEPT ![h] = "failed"]
  /\ UNCHANGED waiting

ReceiveMc(h) ==
  /\ at[h] = "ready"
  /\ announced' = [announced EXCEPT ![h] = FALSE]
  /\ Read(h) \/ ReadFails(h)
  /\ UNCHANGED <<open, bound, quiet, joined, at, fd, asking>>

-----------------------------------------------------------------------------
\* GetPublicIp. A step that fails goes straight to the close at the end.
Ask(t) ==
  /\ asks[t] < MaxAsks
  /\ asks' = [asks EXCEPT ![t] = @ + 1]
  /\ Socket(t)
  /\ Goto(t, "none", IF fd'[t] = Invalid THEN "close" ELSE "connect")
  /\ status' = [status EXCEPT ![t] = fd'[t] # Invalid]
  /\ reply' = [reply EXCEPT ![t] = "none"]
  /\ UNCHANGED <<ip, mailed>>

Fail_KeepsStatus(t) ==  \* mutant: a call that fails leaves status as it is
  /\ at[t] \in {"connect", "send", "recv"}
  /\ at' = [at EXCEPT ![t] = "close"]
  /\ UNCHANGED <<kernel, fd, asking, mailed>>

Fail(t) ==
  /\ at[t] \in {"connect", "send", "recv"}
  /\ at' = [at EXCEPT ![t] = "close"]
  /\ status' = [status EXCEPT ![t] = FALSE]
  /\ UNCHANGED <<kernel, fd, ip, reply, asks, mailed>>

ConnectOrSend(t) ==
  /\ Goto(t, "connect", "send") \/ Goto(t, "send", "recv")
  /\ UNCHANGED <<kernel, fd, asking, mailed>>

\* What retIp becomes: a reply that came whole and leaves room in the buffer
\* ends with the address, the first piece of one that came in several with
\* any line, and one that fills the buffer is not looked at.
Ends(t, r) ==
  CASE r = "whole" -> {"public"}
    [] r = "piece" -> {"public", "other"}
    [] r = "full"  -> {ip[t]}

Receive(t) ==
  /\ Goto(t, "recv", "close")
  /\ \E r \in {"whole", "piece", "full"} : \E x \in Ends(t, r) :
       /\ reply' = [reply EXCEPT ![t] = r]
       /\ ip' = [ip EXCEPT ![t] = x]
  /\ UNCHANGED <<kernel, fd, status, asks, mailed>>

Return(t) ==
  /\ Goto(t, "close", "none")
  /\ CloseAndForget(t)
  /\ UNCHANGED <<asking, mailed>>

-----------------------------------------------------------------------------
HandlerStep(h) ==
  \/ OpenHandler(h) \/ Bind(h) \/ DisableLoopback(h) \/ Join(h)
  \/ Leave(h) \/ CloseHandler(h)
  \/ IsPacketReceived(h) \/ Send(h) \/ ReceiveMc(h)

AskerStep(t) == Ask(t) \/ Fail(t) \/ ConnectOrSend(t) \/ Receive(t) \/ Return(t)

Next ==
  \/ \E h \in Handlers : HandlerStep(h)
  \/ \E t \in Askers : AskerStep(t)
  \/ Arrive

Spec == Init /\ [][Next]_vars
-----------------------------------------------------------------------------
\* Nothing open is without an owner, nothing an owner holds is closed, and no
\* two hold the same descriptor: no call leaks one or closes another's.
DescriptorsOwned ==
  /\ open = {fd[o] : o \in Owners} \ {Invalid}
  /\ \A o, p \in Owners : o # p /\ fd[o] # Invalid => fd[o] # fd[p]

\* A multicast object that is built has no socket or one that is bound, hears
\* nothing of its own and is in the group; whoever fails on the way is shut.
ReadyIsComplete ==
  \A h \in Handlers :
    at[h] = "ready" /\ fd[h] # Invalid => fd[h] \in bound \cap quiet \cap joined

\* What ReceiveMc has received came from another host: never an echo of this
\* host's own datagrams, and never from what was in remoteSock before.
HeardOthers ==
  \A h \in Handlers : result[h] = "received" => remote[h] \in Others

\* When IsPacketReceived has returned true, a datagram waits until ReceiveMc is
\* called: neither a select that failed nor what other owners open and close in
\* between makes the answer wrong.
AnnouncedMeansWaiting ==
  \A h \in Handlers :
    at[h] = "ready" /\ fd[h] # Invalid /\ announced[h] => Waits(h)

\* A reply that came whole is never lost to GetPublicIp, and GetPublicIp is not
\* true without a reply.
WholeReplyIsTold ==
  \A t \in Askers : at[t] = "none" =>
    /\ reply[t] = "whole" => status[t] /\ ip[t] = "public"
    /\ status[t] => reply[t] # "none"

\* When GetPublicIp has returned true, it has returned the public address.
TrueMeansPublicIp ==
  \A t \in Askers : at[t] = "none" /\ status[t] => ip[t] = "public"
=============================================================================
