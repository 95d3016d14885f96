--------------------------- MODULE SocketsProofs ---------------------------
(***************************************************************************)
(* The sockets are owned, one owner each, and a multicast object that is   *)
(* built is complete or has no socket, for any objects, threads and        *)
(* descriptors.                                                            *)
(***************************************************************************)
EXTENDS Sockets, TLAPS

\* Who has not begun holds nothing that the next socket would overwrite.
IdleHoldsNothing == \A o \in Owners : at[o] = "none" => fd[o] = Invalid

\* What the constructors have done so far to a socket they still hold.
SetUp ==
  \A h \in Handlers : fd[h] # Invalid =>
    /\ at[h] \in {"loop", "join", "ready"} => fd[h] \in bound
    /\ at[h] \in {"join", "ready"} => fd[h] \in quiet
    /\ at[h] = "ready" => fd[h] \in joined

\* DescriptorsOwned in the form the steps preserve.
AllOwned == \A d \in open : \E o \in Owners : fd[o] = d
AllOpen  == \A o \in Owners : fd[o] # Invalid => fd[o] \in open
Distinct == \A o, p \in Owners : o # p /\ fd[o] # Invalid => fd[o] # fd[p]

Owned == AllOwned /\ AllOpen /\ Distinct

IInv == TypeOK /\ IdleHoldsNothing /\ Owned /\ SetUp

LEMMA InvalidIsNone == Invalid \notin Descriptors
BY SocketsAssumption DEF Invalid

LEMMA OwnedIsDescriptorsOwned == TypeOK /\ Owned => DescriptorsOwned
BY InvalidIsNone DEF TypeOK, Owned, AllOwned, AllOpen, Distinct, DescriptorsOwned

LEMMA SocketsInit == Init => IInv
<1> SUFFICES ASSUME Init PROVE IInv
  OBVIOUS
<1>1. TypeOK
  BY SocketsAssumption DEF Init, TypeOK
<1>2. IdleHoldsNothing /\ Owned /\ SetUp
  BY DEF Init, IdleHoldsNothing, Owned, AllOwned, AllOpen, Distinct, SetUp, Owners
<1>3. QED
  BY <1>1, <1>2 DEF IInv

(***************************************************************************)
(* What the two calls on descriptors do, whoever makes them.               *)
(***************************************************************************)
LEMMA SocketKeepsOwned ==
  ASSUME TypeOK, Owned, NEW o \in Owners, fd[o] = Invalid, Socket(o)
  PROVE  /\ Owned'
         /\ fd' \in [Owners -> Descriptors \cup {Invalid}]
         /\ open' \subseteq Descriptors
         /\ \A p \in Owners \ {o} : fd'[p] = fd[p]
<1>1. CASE fd' = [fd EXCEPT ![o] = Invalid] /\ UNCHANGED open
  BY <1>1 DEF TypeOK, Owned, AllOwned, AllOpen, Distinct
<1>2. CASE \E d \in Descriptors \ open : open' = open \cup {d} /\ fd' = [fd EXCEPT ![o] = d]
  <2>1. PICK d \in Descriptors \ open : open' = open \cup {d} /\ fd' = [fd EXCEPT ![o] = d]
    BY <1>2
  <2>2. fd'[o] = d /\ \A p \in Owners \ {o} : fd'[p] = fd[p]
    BY <2>1 DEF TypeOK
  <2>3. AllOwned' /\ AllOpen'
    <3>1. Invalid \notin open
      BY InvalidIsNone DEF TypeOK
    <3>2. QED
      BY <2>1, <2>2, <3>1 DEF Owned, AllOwned, AllOpen
  <2>4. Distinct'
    BY <2>1, <2>2, InvalidIsNone DEF Owned, AllOpen, Distinct
  <2>5. QED
    BY <2>1, <2>2, <2>3, <2>4 DEF TypeOK, Owned
<1>3. QED
  BY <1>1, <1>2 DEF Socket

LEMMA CloseKeepsOwned ==
  ASSUME TypeOK, Owned, NEW o \in Owners, CloseAndForget(o)
  PROVE  /\ Owned'
         /\ fd' \in [Owners -> Descriptors \cup {Invalid}]
         /\ /\ open' \subseteq Descriptors /\ bound' \subseteq Descriptors
            /\ quiet' \subseteq Descriptors /\ joined' \subseteq Descriptors
         /\ waiting' \in [Descriptors -> Arrived \cup {Nothing}]
         /\ fd'[o] = Invalid
         /\ \A p \in Owners \ {o} :
              /\ fd'[p] = fd[p]
              /\ fd[p] # Invalid => fd[p] # fd[o]
<1>1. /\ fd' = [fd EXCEPT ![o] = Invalid]
      /\ open' = open \ {fd[o]} /\ bound' = bound \ {fd[o]}
      /\ quiet' = quiet \ {fd[o]} /\ joined' = joined \ {fd[o]}
  BY DEF CloseAndForget, Close
<1>2. fd'[o] = Invalid /\ \A p \in Owners \ {o} : fd'[p] = fd[p]
  BY <1>1 DEF TypeOK
<1>3. \A p \in Owners \ {o} : fd[p] # Invalid => fd[p] # fd[o]
  BY DEF Owned, Distinct
<1>4. AllOwned' /\ AllOpen'
  BY <1>1, <1>2, <1>3 DEF Owned, AllOwned, AllOpen
<1>5. Distinct'
  BY <1>1, <1>2, <1>3 DEF Owned, Distinct
<1>6. waiting' \in [Descriptors -> Arrived \cup {Nothing}]
  BY DEF CloseAndForget, Close, TypeOK
<1>7. QED
  BY <1>1, <1>2, <1>3, <1>4, <1>5, <1>6 DEF TypeOK, Owned

LEMMA SetUpSurvivesClose ==
  ASSUME TypeOK, Owned, SetUp, NEW o \in Owners, CloseAndForget(o),
         \A p \in Owners \ {o} : at'[p] = at[p]
  PROVE  SetUp'
<1> SUFFICES ASSUME NEW h \in Handlers, fd'[h] # Invalid
             PROVE  /\ at'[h] \in {"loop", "join", "ready"} => fd'[h] \in bound'
                    /\ at'[h] \in {"join", "ready"} => fd'[h] \in quiet'
                    /\ at'[h] = "ready" => fd'[h] \in joined'
  BY DEF SetUp
<1>1. h \in Owners \ {o}
  BY CloseKeepsOwned DEF Owners
<1>2. fd'[h] = fd[h] /\ fd[h] # fd[o] /\ at'[h] = at[h]
  BY <1>1, CloseKeepsOwned
<1>3. QED
  BY <1>2 DEF SetUp, CloseAndForget, Close

-----------------------------------------------------------------------------
(***************************************************************************)
(* The steps.                                                              *)
(***************************************************************************)
LEMMA CloseStep ==
  ASSUME IInv, NEW o \in Owners, CloseAndForget(o),
         NEW to \in {"loop", "join", "ready", "none"},
         at' = [at EXCEPT ![o] = to], UNCHANGED <<asking, mailed>>
  PROVE  IInv'
<1>1. TypeOK /\ Owned /\ SetUp /\ IdleHoldsNothing
  BY DEF IInv
<1>2. TypeOK'
  BY <1>1, CloseKeepsOwned DEF TypeOK, asking, mailed
<1>3. Owned' /\ SetUp'
  BY <1>1, CloseKeepsOwned, SetUpSurvivesClose DEF TypeOK
<1>4. IdleHoldsNothing'
  BY <1>1, CloseKeepsOwned DEF IdleHoldsNothing, TypeOK
<1>5. QED
  BY <1>2, <1>3, <1>4 DEF IInv

LEMMA MarkStep ==  \* a successful bind, setsockopt or nothing to do
  ASSUME IInv, NEW h \in Handlers, NEW to \in {"loop", "join", "ready", "close"},
         at[h] # "none", at' = [at EXCEPT ![h] = to],
         UNCHANGED <<open, fd, waiting, asking, mailed>>,
         bound' \subseteq Descriptors, quiet' \subseteq Descriptors,
         joined' \subseteq Descriptors,
         SetUp'
  PROVE  IInv'
<1>1. TypeOK /\ Owned /\ IdleHoldsNothing
  BY DEF IInv
<1>2. TypeOK'
  BY <1>1 DEF TypeOK, asking, mailed
<1>3. Owned'
  BY <1>1 DEF Owned, AllOwned, AllOpen, Distinct
<1>4. IdleHoldsNothing'
  BY <1>1 DEF IdleHoldsNothing, TypeOK, Owners
<1>5. QED
  BY <1>2, <1>3, <1>4 DEF IInv

MailStep(h) == IsPacketReceived(h) \/ Send(h) \/ ReceiveMc(h)

\* The steps of a built object and of the network leave the descriptors alone.
LEMMA MailKeepsType == ASSUME TypeOK, NEW h \in Handlers, MailStep(h) PROVE TypeOK'
<1>1. fd[h] # Invalid => fd[h] \in Descriptors
  BY DEF TypeOK, Owners
<1>2. CASE IsPacketReceived(h)
  <2>1. PICK is \in BOOLEAN : Answers(h, is)
    BY <1>2 DEF IsPacketReceived, Polled, Waits
  <2>2. announced' \in [Handlers -> BOOLEAN]
    BY <2>1 DEF Answers, TypeOK
  <2>3. QED
    BY <2>1, <2>2 DEF Answers, TypeOK, kernel, asking
<1>3. CASE Send(h)
  <2>1. waiting' \in [Descriptors -> Arrived \cup {Nothing}]
    <3> DEFINE echo == [from |-> Self, empty |-> FALSE]
    <3>1. echo \in Arrived
      BY DEF Arrived
    <3>2. \/ UNCHANGED waiting
          \/ \E d \in Echoes(h) : waiting' = Put(d, echo)
      BY <1>3 DEF Send
    <3> HIDE DEF echo
    <3>3. QED
      BY <3>1, <3>2 DEF TypeOK, Put
  <2>2. result' \in [Handlers -> {"none", "failed", "sent", "received"}]
    BY <1>3 DEF Send, TypeOK
  <2>3. QED
    BY <1>3, <2>1, <2>2 DEF Send, TypeOK, asking
<1>4. CASE ReceiveMc(h)
  <2>1. waiting' \in [Descriptors -> Arrived \cup {Nothing}]
    BY <1>4 DEF ReceiveMc, Read, ReadFails, TypeOK
  <2>2. announced' \in [Handlers -> BOOLEAN]
    BY <1>4 DEF ReceiveMc, TypeOK
  <2>3. result' \in [Handlers -> {"none", "failed", "sent", "received"}]
    BY <1>4 DEF ReceiveMc, Read, ReadFails, TypeOK
  <2>4. \E x \in Anything : remote' = [remote EXCEPT ![h] = x]
    <3>1. CASE Read(h)
      <4>1. waiting[fd[h]] \in Arrived
        BY <1>1, <3>1 DEF Read, Waits, TypeOK
      <4>2. waiting[fd[h]].from \in Anything
        BY <4>1 DEF Arrived, Anything
      <4>3. QED
        BY <3>1, <4>2 DEF Read, Sender
    <3>2. QED
      BY <1>4, <3>1 DEF ReceiveMc, ReadFails
  <2>5. remote' \in [Handlers -> Others \cup {Self, Unset}]
    BY <2>4 DEF TypeOK, Anything
  <2>6. QED
    BY <1>4, <2>1, <2>2, <2>3, <2>5 DEF ReceiveMc, TypeOK, asking
<1>5. QED
  BY <1>2, <1>3, <1>4 DEF MailStep

LEMMA DescriptorsAlone ==
  ASSUME IInv, TypeOK', UNCHANGED <<open, bound, quiet, joined, at, fd>> PROVE IInv'
BY DEF IInv, IdleHoldsNothing, Owned, AllOwned, AllOpen, Distinct, SetUp

LEMMA MailStepKeeps == ASSUME IInv, NEW h \in Handlers, MailStep(h) PROVE IInv'
<1>1. UNCHANGED <<open, bound, quiet, joined, at, fd>>
  BY DEF MailStep, IsPacketReceived, Answers, Send, ReceiveMc, kernel
<1>2. TypeOK'
  BY MailKeepsType DEF IInv
<1>3. QED
  BY <1>1, <1>2, DescriptorsAlone

LEMMA HandlerStepKeeps ==
  ASSUME IInv, NEW h \in Handlers, HandlerStep(h) PROVE IInv'
<1>0. TypeOK /\ Owned /\ SetUp /\ IdleHoldsNothing /\ h \in Owners /\ at \in [Owners -> {"none", "bind", "loop", "join", "ready", "close", "connect", "send", "recv"}]
  BY DEF IInv, TypeOK, Owners
<1>a. fd[h] \in Descriptors \cup {Invalid}
  BY <1>0 DEF TypeOK
<1>1. CASE OpenHandler(h)
  <2>1. at[h] = "none" /\ at' = [at EXCEPT ![h] = "bind"] /\ Socket(h)
        /\ announced' = [announced EXCEPT ![h] = FALSE]
        /\ UNCHANGED <<remote, result, asking>>
    BY <1>1 DEF OpenHandler, Goto
  <2>2. fd[h] = Invalid
    BY <1>0, <2>1 DEF IdleHoldsNothing
  <2>3. TypeOK'
    BY <1>0, <2>1, <2>2, SocketKeepsOwned DEF TypeOK, Socket, asking
  <2>4. Owned'
    BY <1>0, <2>1, <2>2, SocketKeepsOwned
  <2>5. IdleHoldsNothing'
    BY <1>0, <2>1, <2>2, SocketKeepsOwned DEF IdleHoldsNothing
  <2>6. SetUp'
    BY <1>0, <2>1, <2>2, SocketKeepsOwned DEF SetUp, Socket, Owners
  <2>7. QED
    BY <2>3, <2>4, <2>5, <2>6 DEF IInv
<1>2. CASE Bind(h)
  <2>1. CASE CloseAndForget(h)
    BY <1>0, <1>2, <2>1, CloseStep DEF Bind, Goto
  <2>2. CASE fd[h] # Invalid /\ bound' = bound \cup {fd[h]} /\ UNCHANGED <<open, quiet, joined, waiting, fd>>
    <3>1. SetUp'
      BY <1>0, <1>2, <2>2 DEF Bind, Goto, SetUp, Owners
    <3>2. QED
      BY <1>0, <1>a, <1>2, <2>2, <3>1, MarkStep DEF Bind, Goto, TypeOK
  <2>3. QED
    BY <1>2, <2>1, <2>2 DEF Bind
<1>3. CASE DisableLoopback(h)
  <2>1. CASE CloseAndForget(h)
    BY <1>0, <1>3, <2>1, CloseStep DEF DisableLoopback, Goto
  <2>2. CASE fd[h] # Invalid /\ quiet' = quiet \cup {fd[h]} /\ UNCHANGED <<open, bound, joined, waiting, fd>>
    <3>1. SetUp'
      BY <1>0, <1>3, <2>2 DEF DisableLoopback, Goto, SetUp, Owners
    <3>2. QED
      BY <1>0, <1>a, <1>3, <2>2, <3>1, MarkStep DEF DisableLoopback, Goto, TypeOK
  <2>3. CASE fd[h] = Invalid /\ UNCHANGED <<kernel, fd>>
    <3>1. SetUp'
      BY <1>0, <1>3, <2>3 DEF DisableLoopback, Goto, SetUp, Owners, kernel
    <3>2. QED
      BY <1>0, <1>3, <2>3, <3>1, MarkStep DEF DisableLoopback, Goto, TypeOK, kernel
  <2>4. QED
    BY <1>3, <2>1, <2>2, <2>3 DEF DisableLoopback
<1>4. CASE Join(h)
  <2>1. CASE CloseAndForget(h)
    BY <1>0, <1>4, <2>1, CloseStep DEF Join, Goto
  <2>2. CASE fd[h] # Invalid /\ joined' = joined \cup {fd[h]} /\ UNCHANGED <<open, bound, quiet, waiting, fd>>
    <3>1. SetUp'
      BY <1>0, <1>4, <2>2 DEF Join, Goto, SetUp, Owners
    <3>2. QED
      BY <1>0, <1>a, <1>4, <2>2, <3>1, MarkStep DEF Join, Goto, TypeOK
  <2>3. CASE fd[h] = Invalid /\ UNCHANGED <<kernel, fd>>
    <3>1. SetUp'
      BY <1>0, <1>4, <2>3 DEF Join, Goto, SetUp, Owners, kernel
    <3>2. QED
      BY <1>0, <1>4, <2>3, <3>1, MarkStep DEF Join, Goto, TypeOK, kernel
  <2>4. QED
    BY <1>4, <2>1, <2>2, <2>3 DEF Join
<1>5. CASE Leave(h)
  <2>1. /\ at[h] = "ready" /\ at' = [at EXCEPT ![h] = "close"]
        /\ joined \ {fd[h]} \subseteq joined' /\ joined' \subseteq joined
        /\ UNCHANGED <<open, bound, quiet, waiting, fd, asking, mailed>>
    BY <1>5 DEF Leave, Goto
  <2>2. \A k \in Handlers \ {h} : fd[k] # Invalid => fd[k] # fd[h]
    BY <1>0 DEF Owned, Distinct, Owners
  <2>3. SetUp'
    BY <1>0, <2>1, <2>2 DEF SetUp, Owners
  <2>4. QED
    BY <1>0, <2>1, <2>3, MarkStep DEF TypeOK
<1>6. CASE CloseHandler(h)
  BY <1>0, <1>6, CloseStep DEF CloseHandler, Goto
<1>7. CASE MailStep(h)
  BY <1>7, MailStepKeeps
<1>8. QED
  BY <1>1, <1>2, <1>3, <1>4, <1>5, <1>6, <1>7 DEF HandlerStep, MailStep

LEMMA AskerStepKeeps ==
  ASSUME IInv, NEW t \in Askers, AskerStep(t) PROVE IInv'
<1>0. TypeOK /\ Owned /\ SetUp /\ IdleHoldsNothing /\ t \in Owners /\ t \notin Handlers
  BY SocketsAssumption DEF IInv, Owners
<1>1. CASE Ask(t)
  <2>1. /\ at[t] = "none" /\ Socket(t)
        /\ at' = [at EXCEPT ![t] = IF fd'[t] = Invalid THEN "close" ELSE "connect"]
        /\ status' = [status EXCEPT ![t] = fd'[t] # Invalid]
        /\ asks[t] < MaxAsks
        /\ asks' = [asks EXCEPT ![t] = @ + 1]
        /\ reply' = [reply EXCEPT ![t] = "none"]
        /\ UNCHANGED <<ip, mailed>>
    BY <1>1 DEF Ask, Goto
  <2>2. fd[t] = Invalid
    BY <1>0, <2>1 DEF IdleHoldsNothing
  <2>3. /\ Owned' /\ open' \subseteq Descriptors
        /\ fd' \in [Owners -> Descriptors \cup {Invalid}]
        /\ \A p \in Owners \ {t} : fd'[p] = fd[p]
    BY <1>0, <2>1, <2>2, SocketKeepsOwned
  <2>4. status' \in [Askers -> BOOLEAN]
    <3> DEFINE held == fd'[t] # Invalid
    <3>1. status' = [status EXCEPT ![t] = held]
      BY <2>1
    <3>2. held \in BOOLEAN
      OBVIOUS
    <3> HIDE DEF held
    <3>3. QED
      BY <1>0, <3>1, <3>2 DEF TypeOK
  <2>5. asks' \in [Askers -> 0..MaxAsks]
    BY <1>0, <2>1, SocketsAssumption DEF TypeOK
  <2>6. TypeOK'
    BY <1>0, <2>1, <2>3, <2>4, <2>5 DEF TypeOK, Socket, mailed
  <2>7. IdleHoldsNothing'
    BY <1>0, <2>1, <2>3 DEF IdleHoldsNothing, TypeOK
  <2>8. SetUp'
    BY <1>0, <2>1, <2>3 DEF SetUp, Socket, Owners, TypeOK
  <2>9. QED
    BY <2>3, <2>6, <2>7, <2>8 DEF IInv
<1>2. CASE Fail(t) \/ ConnectOrSend(t) \/ Receive(t)
  <2>1. UNCHANGED <<kernel, fd, asks, mailed>>
    BY <1>2 DEF Fail, ConnectOrSend, Receive, asking
  <2>2. /\ at[t] # "none"
        /\ \E to \in {"send", "recv", "close"} : at' = [at EXCEPT ![t] = to]
    BY <1>2 DEF Fail, ConnectOrSend, Receive, Goto
  <2>3. status' \in [Askers -> BOOLEAN]
    BY <1>0, <1>2 DEF TypeOK, Fail, ConnectOrSend, Receive, asking
  <2>4. ip' \in [Askers -> {"unset", "public", "other"}]
    BY <1>0, <1>2 DEF TypeOK, Fail, ConnectOrSend, Receive, Ends, asking
  <2>5. reply' \in [Askers -> {"none", "whole", "piece", "full"}]
    BY <1>0, <1>2 DEF TypeOK, Fail, ConnectOrSend, Receive, asking
  <2>a. TypeOK'
    BY <1>0, <2>1, <2>2, <2>3, <2>4, <2>5 DEF TypeOK, kernel, mailed
  <2>6. IdleHoldsNothing'
    BY <1>0, <2>1, <2>2 DEF IdleHoldsNothing, TypeOK
  <2>7. Owned'
    BY <1>0, <2>1 DEF Owned, AllOwned, AllOpen, Distinct, kernel
  <2>8. SetUp'
    BY <1>0, <2>1, <2>2 DEF SetUp, kernel, Owners, TypeOK
  <2>9. QED
    BY <2>a, <2>6, <2>7, <2>8 DEF IInv
<1>3. CASE Return(t)
  BY <1>0, <1>3, CloseStep DEF Return, Goto
<1>4. QED
  BY <1>1, <1>2, <1>3 DEF AskerStep

LEMMA SocketsStep == IInv /\ [Next]_vars => IInv'
<1> SUFFICES ASSUME IInv, [Next]_vars PROVE IInv'
  OBVIOUS
<1>1. ASSUME NEW h \in Handlers, HandlerStep(h) PROVE IInv'
  BY <1>1, HandlerStepKeeps
<1>2. ASSUME NEW t \in Askers, AskerStep(t) PROVE IInv'
  BY <1>2, AskerStepKeeps
<1>3. CASE Arrive
  <2>1. TypeOK'
    BY <1>3 DEF Arrive, IInv, TypeOK, Put, Arrived, asking, mailed
  <2>2. QED
    BY <1>3, <2>1, DescriptorsAlone DEF Arrive
<1>4. CASE UNCHANGED vars
  BY <1>4 DEF vars, kernel, asking, mailed, IInv, TypeOK, IdleHoldsNothing, Owned,
              AllOwned, AllOpen, Distinct, SetUp
<1>5. QED
  BY <1>1, <1>2, <1>3, <1>4 DEF Next

LEMMA Invariance == Spec => []IInv
BY SocketsInit, SocketsStep, PTL DEF Spec

-----------------------------------------------------------------------------
(***************************************************************************)
(* What is heard. No echo waits, because whoever sends is quiet (SetUp);   *)
(* and an object that is not built yet has not looked for a datagram.      *)
(***************************************************************************)
NoEcho == \A d \in Descriptors : waiting[d] # Nothing => waiting[d].from \in Others
NewSaidNothing ==
  \A h \in Handlers : at[h] \in {"bind", "loop", "join"} => ~announced[h]
MailInv == NoEcho /\ NewSaidNothing /\ HeardOthers /\ AnnouncedMeansWaiting

LEMMA MailInit == Init => MailInv
BY DEF Init, MailInv, NoEcho, NewSaidNothing, HeardOthers, AnnouncedMeansWaiting

\* Who is built was being built.
Onward ==
  \A h \in Handlers :
    /\ at'[h] = "ready" => at[h] \in {"join", "ready"}
    /\ at'[h] \in {"bind", "loop", "join"} => at[h] \in {"bind", "loop", "join"}

LEMMA OneGoesOnward ==
  ASSUME TypeOK, NEW o \in Owners, NEW to, at' = [at EXCEPT ![o] = to],
         to = "ready" => at[o] = "join",
         to \in {"bind", "loop", "join"} => at[o] \in {"bind", "loop", "join"}
  PROVE  Onward
BY DEF Onward, TypeOK, Owners

LEMMA MailUntouched ==
  ASSUME MailInv, UNCHANGED <<waiting, announced, remote, result, fd>>, Onward
  PROVE  MailInv'
BY DEF Onward, MailInv, NoEcho, NewSaidNothing, HeardOthers, AnnouncedMeansWaiting, Waits

LEMMA MailClosed ==
  ASSUME IInv, MailInv, NEW o \in Owners, CloseAndForget(o), UNCHANGED mailed, Onward
  PROVE  MailInv'
<1>1. TypeOK /\ Owned
  BY DEF IInv
<1>2. UNCHANGED <<announced, remote, result>>
  BY DEF mailed
<1>3. /\ fd'[o] = Invalid
      /\ \A p \in Owners \ {o} : fd'[p] = fd[p] /\ (fd[p] # Invalid => fd[p] # fd[o])
  BY <1>1, CloseKeepsOwned
<1>4. waiting' = [e \in Descriptors |-> IF e = fd[o] THEN Nothing ELSE waiting[e]]
  BY DEF CloseAndForget, Close
<1>5. NoEcho' /\ HeardOthers' /\ NewSaidNothing'
  BY <1>2, <1>4 DEF Onward, MailInv, NoEcho, NewSaidNothing, HeardOthers
<1>6. AnnouncedMeansWaiting'
  <2> SUFFICES ASSUME NEW h \in Handlers, at'[h] = "ready", fd'[h] # Invalid, announced'[h]
               PROVE  waiting'[fd'[h]] # Nothing
    BY DEF AnnouncedMeansWaiting, Waits
  <2>1. h \in Owners \ {o} /\ fd'[h] = fd[h] /\ fd[h] # fd[o] /\ fd[h] \in Descriptors
    BY <1>1, <1>3 DEF Owners, TypeOK
  <2>2. at[h] = "ready"
    BY <1>2, <2>1 DEF Onward, MailInv, NewSaidNothing
  <2>3. QED
    BY <1>2, <1>4, <2>1, <2>2 DEF MailInv, AnnouncedMeansWaiting, Waits
<1>7. QED
  BY <1>5, <1>6 DEF MailInv

LEMMA BuiltKeepsMail == ASSUME IInv, MailInv, NEW h \in Handlers, MailStep(h) PROVE MailInv'
<1>1. TypeOK /\ Owned /\ SetUp
  BY DEF IInv
<1>2. UNCHANGED <<at, fd>>
  BY DEF MailStep, IsPacketReceived, Answers, Send, ReceiveMc
<1>3. CASE IsPacketReceived(h)
  <2>1. PICK is \in {FALSE} \cup Polled(h) : Answers(h, is)
    BY <1>3 DEF IsPacketReceived
  <2>2. is /\ fd[h] # Invalid => Waits(h)
    BY DEF Polled
  <2>3. /\ at[h] = "ready" /\ UNCHANGED <<waiting, remote, result>>
        /\ announced' = [announced EXCEPT ![h] = is]
    BY <2>1 DEF Answers, kernel
  <2>4. NewSaidNothing' /\ AnnouncedMeansWaiting'
    BY <1>1, <1>2, <2>2, <2>3
       DEF MailInv, NewSaidNothing, AnnouncedMeansWaiting, Waits, TypeOK
  <2>5. QED
    BY <2>3, <2>4 DEF MailInv, NoEcho, HeardOthers
<1>4. CASE Send(h)
  <2>1. UNCHANGED waiting
    <3>1. fd[h] # Invalid => Echoes(h) = {}
      BY <1>1, <1>4 DEF Send, SetUp, Echoes
    <3>2. QED
      BY <1>4, <3>1 DEF Send
  <2>2. HeardOthers'
    BY <1>1, <1>4 DEF Send, MailInv, HeardOthers, TypeOK
  <2>3. QED
    BY <1>2, <1>4, <2>1, <2>2
       DEF Send, MailInv, NoEcho, NewSaidNothing, AnnouncedMeansWaiting, Waits
<1>5. CASE ReceiveMc(h)
  <2>1. announced' = [announced EXCEPT ![h] = FALSE]
    BY <1>5 DEF ReceiveMc
  <2>2. CASE Read(h)
    <3>1. waiting' = [waiting EXCEPT ![fd[h]] = Nothing]
      BY <2>2 DEF Read
    <3>2. fd[h] \in Descriptors /\ \A g \in Handlers \ {h} : fd[g] # fd[h]
      BY <1>1, <2>2 DEF Read, Waits, TypeOK, Owned, Distinct, Owners
    <3>3. remote' = [remote EXCEPT ![h] = waiting[fd[h]].from]
      BY <2>2 DEF Read, Sender
    <3>4. \A g \in Handlers \ {h} : result'[g] = result[g]
      BY <1>1, <2>2 DEF Read, TypeOK
    <3>5. NoEcho' /\ NewSaidNothing' /\ AnnouncedMeansWaiting'
      BY <1>1, <1>2, <2>1, <3>1, <3>2
         DEF MailInv, NoEcho, NewSaidNothing, AnnouncedMeansWaiting, Waits, TypeOK
    <3>6. HeardOthers'
      BY <1>1, <2>2, <3>2, <3>3, <3>4 DEF MailInv, NoEcho, HeardOthers, Read, Waits, TypeOK
    <3>7. QED
      BY <3>5, <3>6 DEF MailInv
  <2>3. CASE ReadFails(h)
    <3>1. UNCHANGED waiting /\ result' = [result EXCEPT ![h] = "failed"]
      BY <2>3 DEF ReadFails
    <3>2. \A g \in Handlers \ {h} : remote'[g] = remote[g]
      BY <1>1, <2>3 DEF ReadFails, TypeOK
    <3>3. HeardOthers'
      BY <1>1, <3>1, <3>2 DEF MailInv, HeardOthers, TypeOK
    <3>4. QED
      BY <1>1, <1>2, <2>1, <3>1, <3>3
         DEF MailInv, NoEcho, NewSaidNothing, AnnouncedMeansWaiting, Waits, TypeOK
  <2>4. QED
    BY <1>5, <2>2, <2>3 DEF ReceiveMc
<1>6. QED
  BY <1>3, <1>4, <1>5 DEF MailStep

LEMMA HandlersKeepMail ==
  ASSUME IInv, MailInv, NEW h \in Handlers, HandlerStep(h) PROVE MailInv'
<1>1. TypeOK /\ h \in Owners
  BY DEF IInv, Owners
<1>2. CASE OpenHandler(h)
  <2>1. /\ announced' = [announced EXCEPT ![h] = FALSE] /\ UNCHANGED <<waiting, remote, result>>
        /\ at' = [at EXCEPT ![h] = "bind"]
        /\ \A p \in Handlers \ {h} : fd'[p] = fd[p]
    BY <1>1, <1>2 DEF OpenHandler, Goto, Socket, TypeOK, Owners
  <2>2. QED
    BY <1>1, <2>1 DEF MailInv, NoEcho, NewSaidNothing, HeardOthers, AnnouncedMeansWaiting,
                      Waits, TypeOK, Owners
<1>3. CASE Bind(h) \/ DisableLoopback(h) \/ Join(h) \/ Leave(h) \/ CloseHandler(h)
  <2>1. Onward
    BY <1>1, <1>3, OneGoesOnward DEF Bind, DisableLoopback, Join, Leave, CloseHandler, Goto
  <2>2. UNCHANGED mailed /\ (CloseAndForget(h) \/ UNCHANGED <<waiting, fd>>)
    BY <1>3 DEF Bind, DisableLoopback, Join, Leave, CloseHandler, kernel
  <2>3. QED
    BY <1>1, <2>1, <2>2, MailClosed, MailUntouched DEF mailed
<1>4. CASE MailStep(h)
  BY <1>4, BuiltKeepsMail
<1>5. QED
  BY <1>2, <1>3, <1>4 DEF HandlerStep, MailStep

LEMMA AskersKeepMail ==
  ASSUME IInv, MailInv, NEW t \in Askers, AskerStep(t) PROVE MailInv'
<1>1. TypeOK /\ t \in Owners /\ t \notin Handlers
  BY SocketsAssumption DEF IInv, Owners
<1>2. \A h \in Handlers : at'[h] = at[h]
  <2>1. \E to \in {"none", "close", "connect", "send", "recv"} : at' = [at EXCEPT ![t] = to]
    BY DEF AskerStep, Ask, Fail, ConnectOrSend, Receive, Return, Goto
  <2>2. QED
    BY <1>1, <2>1 DEF TypeOK
<1>3. UNCHANGED mailed
  BY DEF AskerStep, Ask, Fail, ConnectOrSend, Receive, Return
<1>4. CASE Return(t)
  BY <1>1, <1>2, <1>3, <1>4, MailClosed DEF Return, Onward
<1>5. CASE Ask(t) \/ Fail(t) \/ ConnectOrSend(t) \/ Receive(t)
  <2>1. UNCHANGED waiting /\ \A h \in Handlers : fd'[h] = fd[h]
    <3>1. UNCHANGED waiting
      BY <1>5 DEF Ask, Fail, ConnectOrSend, Receive, Socket, kernel
    <3>2. UNCHANGED fd \/ \E x \in Descriptors \cup {Invalid} : fd' = [fd EXCEPT ![t] = x]
      BY <1>5 DEF Ask, Fail, ConnectOrSend, Receive, Socket, kernel
    <3>3. QED
      BY <1>1, <3>1, <3>2 DEF TypeOK, Owners
  <2>2. QED
    BY <1>2, <1>3, <2>1 DEF mailed, MailInv, NoEcho, NewSaidNothing, HeardOthers,
                            AnnouncedMeansWaiting, Waits
<1>6. QED
  BY <1>4, <1>5 DEF AskerStep

LEMMA MailHolds == IInv /\ MailInv /\ [Next]_vars => MailInv'
<1> SUFFICES ASSUME IInv, MailInv, [Next]_vars PROVE MailInv'
  OBVIOUS
<1>1. CASE Arrive
  <2>1. PICK d \in bound, m \in [from : Others, empty : BOOLEAN] : waiting' = Put(d, m)
    BY <1>1 DEF Arrive
  <2>2. m.from \in Others /\ m # Nothing
    BY SocketsAssumption DEF Nothing
  <2>3. UNCHANGED <<at, fd, announced, remote, result>>
    BY <1>1 DEF Arrive, mailed
  <2>4. TypeOK
    BY DEF IInv
  <2>5. QED
    BY <2>1, <2>2, <2>3, <2>4 DEF Put, MailInv, NoEcho, NewSaidNothing, HeardOthers,
                                  AnnouncedMeansWaiting, Waits, TypeOK
<1>2. CASE UNCHANGED vars
  BY <1>2, MailUntouched DEF vars, kernel, mailed, Onward
<1>3. QED
  BY <1>1, <1>2, HandlersKeepMail, AskersKeepMail DEF Next

-----------------------------------------------------------------------------
(***************************************************************************)
(* The calls of GetPublicIp: until recv has answered there is no reply and *)
(* status is still true.                                                   *)
(***************************************************************************)
Asking(t)  == at[t] \in {"connect", "send", "recv"}
Pending(t) == status[t] /\ reply[t] = "none"
Told(t)    == /\ reply[t] = "whole" => status[t] /\ ip[t] = "public"
              /\ status[t] => reply[t] # "none"

ReplyInv == \A t \in Askers : IF Asking(t) THEN Pending(t) ELSE Told(t)

LEMMA ReplyInit == Init => ReplyInv
BY DEF Init, ReplyInv, Asking, Pending, Told, Owners

LEMMA OthersKeepReply ==
  ASSUME ReplyInv, UNCHANGED asking,
         \A t \in Askers : Asking(t)' = Asking(t)
  PROVE  ReplyInv'
BY DEF ReplyInv, Pending, Told, asking

LEMMA AskersKeepReply ==
  ASSUME IInv, ReplyInv, NEW t \in Askers, AskerStep(t) PROVE ReplyInv'
<1>1. TypeOK /\ t \in Owners /\ \A u \in Askers : u \in Owners
  BY DEF IInv, Owners
<1>2. \A u \in Askers \ {t} :
        /\ at'[u] = at[u] /\ status'[u] = status[u]
        /\ reply'[u] = reply[u] /\ ip'[u] = ip[u]
  BY <1>1 DEF AskerStep, Ask, Fail, ConnectOrSend, Receive, Return, Goto, TypeOK, asking
<1>3. IF Asking(t)' THEN Pending(t)' ELSE Told(t)'
  <2>1. CASE Ask(t)
    <3>1. /\ at'[t] = (IF fd'[t] = Invalid THEN "close" ELSE "connect")
          /\ status'[t] = (fd'[t] # Invalid)
          /\ reply'[t] = "none"
      BY <1>1, <2>1 DEF Ask, Goto, TypeOK
    <3>2. QED
      BY <3>1 DEF Asking, Pending, Told
  <2>2. CASE Fail(t)
    <3>1. at'[t] = "close" /\ status'[t] = FALSE /\ reply'[t] = "none"
      BY <1>1, <2>2 DEF Fail, TypeOK, ReplyInv, Asking, Pending
    <3>2. QED
      BY <3>1 DEF Asking, Told
  <2>3. CASE ConnectOrSend(t)
    BY <1>1, <2>3 DEF ConnectOrSend, Goto, TypeOK, ReplyInv, Asking, Pending, asking
  <2>4. CASE Receive(t)
    <3>1. PICK r \in {"whole", "piece", "full"} :
            /\ reply' = [reply EXCEPT ![t] = r]
            /\ \E x \in Ends(t, r) : ip' = [ip EXCEPT ![t] = x]
      BY <2>4 DEF Receive
    <3>2. at'[t] = "close" /\ status'[t]
      BY <1>1, <2>4 DEF Receive, Goto, TypeOK, ReplyInv, Asking, Pending
    <3>3. reply'[t] = r /\ (r = "whole" => ip'[t] = "public")
      BY <1>1, <3>1 DEF Ends, TypeOK
    <3>4. QED
      BY <3>2, <3>3 DEF Asking, Told
  <2>5. CASE Return(t)
    BY <1>1, <2>5 DEF Return, Goto, TypeOK, ReplyInv, Asking, Told, asking
  <2>6. QED
    BY <2>1, <2>2, <2>3, <2>4, <2>5 DEF AskerStep
<1>4. QED
  BY <1>2, <1>3 DEF ReplyInv, Asking, Pending, Told

LEMMA ReplyHolds == IInv /\ ReplyInv /\ [Next]_vars => ReplyInv'
<1> SUFFICES ASSUME IInv, ReplyInv, [Next]_vars PROVE ReplyInv'
  OBVIOUS
<1>1. ASSUME NEW h \in Handlers, HandlerStep(h) PROVE ReplyInv'
  <2>1. TypeOK /\ h \in Owners /\ h \notin Askers
    BY SocketsAssumption DEF IInv, Owners
  <2>2. UNCHANGED asking /\ \A t \in Askers : at'[t] = at[t]
    <3>1. UNCHANGED asking
      BY <1>1 DEF HandlerStep, OpenHandler, Bind, DisableLoopback, Join, Leave, CloseHandler,
                  IsPacketReceived, Answers, Send, ReceiveMc
    <3>2. \/ UNCHANGED at
          \/ \E to \in {"none", "bind", "loop", "join", "ready", "close"} :
               at' = [at EXCEPT ![h] = to]
      BY <1>1 DEF HandlerStep, OpenHandler, Bind, DisableLoopback, Join, Leave, CloseHandler,
                  IsPacketReceived, Answers, Send, ReceiveMc, Goto
    <3>3. QED
      BY <2>1, <3>1, <3>2 DEF TypeOK, Owners
  <2>3. QED
    BY <2>2, OthersKeepReply DEF Asking
<1>2. CASE Arrive \/ UNCHANGED vars
  BY <1>2, OthersKeepReply DEF Arrive, vars, Asking
<1>3. QED
  BY <1>1, <1>2, AskersKeepReply DEF Next

-----------------------------------------------------------------------------
\* The variables of the socket layer stay in their types.
THEOREM SocketsTypeCorrect == Spec => []TypeOK
<1>1. IInv => TypeOK
  BY DEF IInv
<1>2. QED
  BY <1>1, Invariance, PTL

\* No call of EthHandler, IpMulticast or GetPublicIp leaks a descriptor,
\* keeps one it has closed or closes another's, whichever call fails.
THEOREM NoDescriptorLeaks == Spec => []DescriptorsOwned
<1>1. IInv => DescriptorsOwned
  BY OwnedIsDescriptorsOwned DEF IInv
<1>2. QED
  BY <1>1, Invariance, PTL

\* An IpMulticast that is built has no socket or a complete one.
THEOREM BuiltIsComplete == Spec => []ReadyIsComplete
<1>1. IInv => ReadyIsComplete
  BY DEF IInv, SetUp, ReadyIsComplete
<1>2. QED
  BY <1>1, Invariance, PTL

\* Whatever ReceiveMc returns a count for came from another host: no echo of
\* this host's own datagrams, no address left in memory.
THEOREM OnlyOthersAreHeard == Spec => []HeardOthers
<1>1. MailInv => HeardOthers
  BY DEF MailInv
<1>2. QED
  BY <1>1, SocketsInit, SocketsStep, MailInit, MailHolds, PTL DEF Spec

\* A datagram that IsPacketReceived has announced is there for ReceiveMc.
THEOREM AnnouncedIsThere == Spec => []AnnouncedMeansWaiting
<1>1. MailInv => AnnouncedMeansWaiting
  BY DEF MailInv
<1>2. QED
  BY <1>1, SocketsInit, SocketsStep, MailInit, MailHolds, PTL DEF Spec

\* GetPublicIp passes on every reply that comes whole, and nothing else than
\* a reply makes it true.
THEOREM RepliesAreTold == Spec => []WholeReplyIsTold
<1>1. ReplyInv => WholeReplyIsTold
  BY DEF ReplyInv, Asking, Told, WholeReplyIsTold
<1>2. QED
  BY <1>1, SocketsInit, SocketsStep, ReplyInit, ReplyHolds, PTL DEF Spec
=============================================================================
