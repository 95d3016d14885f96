-------------------------------- MODULE Wire --------------------------------
(***************************************************************************)
(* The registration packet: what EnumerateInterfaces makes of the kernel's *)
(* list, Protocol, the byte swapping of MemoryUtility and DiscoveryThread, *)
(* up to the bytes a node hands to the multicast group, for machines of    *)
(* either byte order. An integer of w bytes is the sequence of its bytes,  *)
(* the most significant first; what memory holds is Memory of it.          *)
(***************************************************************************)
EXTENDS Addresses

CONSTANTS
  Enumerations, \* what getifaddrs may list; <<>> when it fails
  Unnamed,      \* the sets of places in it where getnameinfo may fail
  Replies,      \* the last lines of replies of the internet provider
  Drives,       \* the lengths of the list of mounts
  Apps,         \* types and versions of the application
  Features,     \* values of m_featureBits
  Garbage,      \* what the stack may hold where intf is not assigned
  Counts,       \* values of m_sequence after earlier packets
  MaxPackets    \* bound: packets prepared

MaxU16 == 65535   \* the largest uint16_t
U16 == 0..MaxU16

\* What getifaddrs lists; data says whether ifa_data is set. A link's address
\* of fewer than six bytes is left out: Mac would keep bytes that are not set.
Families == {"none", "inet", "inet6", "packet", "other"}
Listing  == [name : Nat, family : Families, addr : Seq(U16), flags : SUBSET STRING,
             data : BOOLEAN]
IsListing(x) ==
  /\ x \in Listing
  /\ x.family = "inet" => x.addr \in Ip4
  /\ x.family = "inet6" => x.addr \in [1..8 -> U16]
  /\ x.family = "packet" => x.addr \in Seq(Byte) /\ Len(x.addr) >= MacByteLength

ASSUME WireAssumption ==
  /\ \A e \in Enumerations : e \in Seq(Listing) /\ \A i \in 1..Len(e) : IsListing(e[i])
  /\ Unnamed \subseteq SUBSET Nat
  /\ \A x \in Replies : x \in Seq(Byte \cup {Sep})
  /\ Drives \subseteq U16 /\ Features \subseteq U16 /\ Counts \subseteq U16
  /\ Apps \subseteq [type : Byte, version : U16]
  /\ Garbage \subseteq [1..12 -> Byte]
  /\ MaxPackets \in Nat

VARIABLES
  bigEndian,  \* Osi.IsBigEndianMachine()
  app,        \* m_appType and m_appVersion
  nodeId,     \* m_nodeId
  sequence,   \* m_sequence
  storage,    \* m_storageSize
  features,   \* m_featureBits
  publicIp,   \* m_publicIp
  listed,     \* history: the kernel's list that was enumerated last
  interfaces, \* m_ipIntfMap, in its order
  group,      \* m_mcGroupSockAddr as memory holds it
  usable,     \* m_usableIntfList
  packet,     \* m_packet, field by field as memory holds it
  datagram,   \* the bytes last passed to m_mc->Send
  meant,      \* history: what the node knew when it prepared that packet
  prepared    \* history: packets prepared

node  == <<bigEndian, app, features>>
links == <<listed, interfaces, group, usable>>
wvars  == <<node, nodeId, sequence, storage, publicIp, links, packet, datagram,
           meant, prepared>>

-----------------------------------------------------------------------------
(* Integers and memory.                                                    *)
\* All integers here are below 2^31.
Weight     == <<1, 256, 65536, 16777216>>
Word(n, w) == [i \in 1..w |-> IF w - i > 3 THEN 0 ELSE (n \div Weight[w - i + 1]) % 256]
Value(b)   == Number(b, 1, Len(b) + 1, 256)
Narrow(x, w) == SubSeq(x, Len(x) - w + 1, Len(x))
Widen(x, w)  == Word(0, w - Len(x)) \o x

Swap(x) == Reverse(x)

CheckAndSwap_Always(x) == Swap(x)  \* mutant: big endian machines swap as well

CheckAndSwap(x) == IF bigEndian THEN x ELSE Swap(x)
Memory(x)       == IF bigEndian THEN x ELSE Reverse(x)

\* A field of w bytes assigned the integer n by way of CheckAndSwap.
Put(n, w) == Memory(CheckAndSwap(Word(n, w)))

-----------------------------------------------------------------------------
(* Interfaces. Names are ranks: the map is a multimap, ordered by name and *)
(* within one by insertion.                                                *)
AddressOf(x) ==
  CASE x.family = "inet"   -> IpOf(x.addr, x.flags)
    [] x.family = "inet6"  -> Ipv6Of(x.addr)
    [] x.family = "packet" -> MacOf(x.addr)

Insert(map, name, address) ==
  InsertAt(map, SelectLastInSeq(map, LAMBDA i : i.name <= name) + 1,
           [name |-> name, address |-> address])

\* Entries without an address or of another family are skipped, and so are
\* those of the set unnamed, for which getnameinfo fails, and links without
\* ifa_data.
IsKept(e, unnamed, i) ==
  \/ e[i].family \in {"inet", "inet6"} /\ i \notin unnamed
  \/ e[i].family = "packet" /\ e[i].data

EnumerateInterfaces(e, unnamed) ==
  LET map[i \in 0..Len(e)] ==
        IF i = 0 THEN <<>>
        ELSE IF IsKept(e, unnamed, i) THEN Insert(map[i - 1], e[i].name, AddressOf(e[i]))
        ELSE map[i - 1]
  IN map[Len(e)]

MulticastGroup == StrToIpt(<<2, 3, 3, Sep, 2, 5, 5, Sep, 1, 4, Sep, 7>>)
Port           == 19007

AddressToSockAddr(ip, port) == [addr |-> ip, port |-> Memory(Swap(Word(port, 2)))]

IsUsable(a) ==
  a.type = "Ipv4" /\ FindIpAddressType(a.value) \in {"ClassA", "ClassB", "ClassC"} /\ a.active

\* Lan, Wan, Isl and Ethernet1g.
Capabilities == 2 + 8 + 4 + 65536

-----------------------------------------------------------------------------
(* The packet: the fields in their order, with their sizes, those of the   *)
(* first interface at the end.                                             *)
Layout ==
  << <<"signature", 4>>, <<"sequence", 2>>, <<"packet_type", 1>>, <<"retry_count", 1>>,
     <<"length", 2>>, <<"version", 1>>, <<"packet_id", 1>>, <<"node_type", 1>>,
     <<"node_id", 2>>, <<"reserved", 1>>, <<"reserved2", 4>>,
     <<"app_version", 2>>, <<"app_type", 1>>, <<"reserved1", 1>>, <<"public_ip", 4>>,
     <<"feature_bits", 4>>, <<"storage_size", 8>>, <<"total_interfaces", 1>>,
     <<"reserved3", 3>>,
     <<"type", 1>>, <<"reserved4", 3>>, <<"cap_bits", 4>>, <<"address", 16>> >>
Fields == {Layout[i][1] : i \in 1..Len(Layout)}
SizeOf(f) == Layout[CHOOSE i \in 1..Len(Layout) : Layout[i][1] = f][2]

RegistrationSize == 68
InterfaceSize    == 24
MaxPacketSize    == 1400

Zeros == [f \in Fields |-> Word(0, SizeOf(f))]
Bytes(p) == FlattenSeq([i \in 1..Len(Layout) |-> p[Layout[i][1]]])

\* What a node that knows only the declarations reads in the bytes b.
FieldOf(b, f) ==
  LET n == CHOOSE i \in 1..Len(Layout) : Layout[i][1] = f
      offset[i \in 1..Len(Layout)] == IF i = 1 THEN 0 ELSE offset[i - 1] + Layout[i - 1][2]
  IN SubSeq(b, offset[n] + 1, offset[n] + SizeOf(f))
Read(f) == Value(FieldOf(datagram, f))

WTypeOK ==
  /\ bigEndian \in BOOLEAN
  /\ app \in Apps /\ features \in Features
  /\ nodeId \in {0, 1} /\ sequence \in U16 /\ storage \in {0} \cup Drives
  /\ publicIp \in Ip4
  /\ listed \in Enumerations \cup {<<>>} /\ Len(interfaces) <= Len(listed)
  /\ group \in [addr : Ip4, port : [1..2 -> Byte]]
  /\ Len(usable) <= 1 /\ usable \in Seq([1..16 -> Byte])
  /\ DOMAIN packet = Fields /\ \A f \in Fields : packet[f] \in [1..SizeOf(f) -> Byte]
  /\ Len(datagram) <= MaxPacketSize
  /\ prepared \in 0..MaxPackets

WInit ==
  /\ bigEndian \in BOOLEAN
  /\ app \in Apps /\ features \in Features
  /\ nodeId = 0
  /\ sequence \in Counts
  /\ storage = 0
  /\ publicIp = Word(0, 4)
  /\ listed = <<>> /\ interfaces = <<>> /\ usable = <<>>
  /\ group = [addr |-> Word(0, 4), port |-> Word(0, 2)]
  /\ packet = Zeros
  /\ datagram = <<>> /\ meant = <<>>
  /\ prepared = 0

-----------------------------------------------------------------------------
(* DiscoveryThread::Initialize: the drives are counted, the interfaces     *)
(* enumerated, and the first usable one is listed and joins the group.     *)
(* Twelve bytes of its address are not set.                                *)
Initialize(e, unnamed, drives, rest) ==
  LET map   == EnumerateInterfaces(e, unnamed)
      first == SelectInSeq(map, LAMBDA i : IsUsable(i.address))
  IN /\ nodeId' = 1
     /\ storage' = drives
     /\ listed' = e
     /\ interfaces' = map
     /\ usable' = IF first = 0 THEN <<>> ELSE <<map[first].address.value \o rest>>
     /\ group' = IF first = 0 THEN group ELSE AddressToSockAddr(MulticastGroup, Port)
     /\ UNCHANGED <<node, sequence, publicIp, packet, datagram, meant, prepared>>

GetNextSequence_Unbounded == sequence + 1  \* mutant: the counter is wider than the field

GetNextSequence == (sequence + 1) % 65536

\* The constants of PrepareHeader, the signature narrowed to 16 bits.
Header ==
  [signature   |-> Memory(Widen(CheckAndSwap(Narrow(Word(250878250, 4), 2)), 4)),
   version     |-> Put(100, 1),
   node_id     |-> Put(nodeId, 2),
   node_type   |-> Put(0, 1),
   sequence    |-> Put(GetNextSequence, 2),
   retry_count |-> Put(0, 1),
   packet_id   |-> Put(0, 1),
   packet_type |-> Put(4, 1),
   length      |-> Put(RegistrationSize + (Len(usable) - 1) * InterfaceSize, 2)]

Registration ==
  [app_type         |-> Put(app.type, 1),
   app_version      |-> Put(app.version, 2),
   storage_size     |-> Put(storage, 8),
   feature_bits     |-> Put(features, 4),
   public_ip        |-> publicIp',
   total_interfaces |-> Put(Len(usable), 1),
   type             |-> Put(1, 1),
   cap_bits         |-> Put(Capabilities, 4),
   address          |-> usable[1]]

PrepareRegistrationPacket ==
  /\ usable # <<>> /\ prepared < MaxPackets
  /\ sequence' = GetNextSequence
  /\ packet' = [f \in Fields |-> CASE f \in DOMAIN Header       -> Header[f]
                                   [] f \in DOMAIN Registration -> Registration[f]
                                   [] OTHER                     -> Zeros[f]]
  /\ prepared' = prepared + 1
  /\ UNCHANGED <<node, nodeId, storage, links>>

\* The length is read back from the header; the rest of the union is zero.
Sent(p) ==
  SubSeq(Bytes(p) \o Word(0, MaxPacketSize - RegistrationSize), 1,
         Value(CheckAndSwap(Memory(p.length))))

SendHeartbeatToMcGroup ==
  /\ publicIp' = publicIp
  /\ PrepareRegistrationPacket
  /\ datagram' = Sent(packet')
  /\ meant' = [sequence |-> sequence', app |-> app, storage |-> storage,
               features |-> features, publicIp |-> publicIp, found |-> listed]

\* ProcessOneMinuteTick: GetPublicIp may fail, SendHeartbeatToRemoteOffice
\* prepares and sends nothing.
ProcessOneMinuteTick ==
  /\ publicIp' \in {StrToIpt(x) : x \in Replies} \cup {publicIp}
  /\ IF usable = <<>> THEN UNCHANGED <<node, nodeId, sequence, storage, links, packet, prepared>>
                      ELSE PrepareRegistrationPacket
  /\ UNCHANGED <<datagram, meant>>

WNext ==
  \/ \E e \in Enumerations, u \in Unnamed, d \in Drives, g \in Garbage : Initialize(e, u, d, g)
  \/ SendHeartbeatToMcGroup
  \/ ProcessOneMinuteTick

WSpec == WInit /\ [][WNext]_wvars
-----------------------------------------------------------------------------
\* A node of any byte order that knows only the declarations reads, in what
\* was sent, what the sender knew when it prepared the packet, and its length;
\* and the packet goes to the group, at its port if the sender is little endian.
ReadableByAll ==
  datagram # <<>> =>
    /\ Read("length") = Len(datagram) /\ Len(datagram) = RegistrationSize
    /\ Read("version") = 100 /\ Read("packet_type") = 4 /\ Read("node_id") = 1
    /\ Read("sequence") = meant.sequence
    /\ Read("app_type") = meant.app.type /\ Read("app_version") = meant.app.version
    /\ Read("storage_size") = meant.storage
    /\ Read("feature_bits") = meant.features
    /\ FieldOf(datagram, "public_ip") = meant.publicIp
    /\ Read("total_interfaces") = 1 /\ Read("type") = 1
    /\ Read("cap_bits") = Capabilities
    /\ group.addr = <<233, 255, 14, 7>> /\ (~bigEndian => group.port = Word(Port, 2))

IsPrivate(ip) == ip[1] = 10 \/ (ip[1] = 172 /\ ip[2] \in 16..31) \/ (ip[1] = 192 /\ ip[2] = 168)

\* The address a node sends is that of an interface the kernel listed last as
\* up, running and capable of multicast, with a private address.
AdvertisesActive ==
  datagram # <<>> =>
    \E x \in Range(meant.found) :
      /\ x.family = "inet" /\ {"UP", "RUNNING", "MULTICAST"} \subseteq x.flags
      /\ IsPrivate(x.addr) /\ x.addr = SubSeq(FieldOf(datagram, "address"), 1, 4)

\* What the map says of an interface is what the kernel said, although every
\* address goes through a text: IPv4 and MAC addresses always, IPv6 ones when
\* they are written in full; what ToString writes the constructors read; and
\* a link has its MAC address there exactly when the kernel gave data of it.
Agrees(x, i) ==
  /\ x.name = i.name
  /\ \/ x.family = "inet" /\ i.address.type = "Ipv4"
     \/ x.family = "inet6" /\ i.address.type = "Ipv6"
     \/ x.family = "packet" /\ x.data /\ i.address.type = "Mac"
  /\ x.addr = i.address.value

ReadsBack(a) ==
  /\ a.type = "Ipv4" => StrToIpt(IpToString(a.value)) = a.value
  /\ a.type = "Mac" => StrToMac(MacToString(a.value)) = a.value

MapAgrees ==
  /\ \A k \in 1..Len(interfaces) : ReadsBack(interfaces[k].address)
  /\ \A k \in 1..Len(interfaces) :
       \/ \E x \in Range(listed) : Agrees(x, interfaces[k])
       \/ interfaces[k].address.type = "Ipv6"
          /\ \E x \in Range(listed) : x.family = "inet6" /\ x.name = interfaces[k].name
                                        /\ ZeroRuns(x.addr) # {}
  /\ \A x \in Range(listed) : x.family = "packet" /\ x.data =>
       \E k \in 1..Len(interfaces) : Agrees(x, interfaces[k])

\* An IPv6 address in the map is one the kernel listed.
Ipv6Agrees ==
  \A k \in 1..Len(interfaces) : interfaces[k].address.type = "Ipv6" =>
    \E x \in Range(listed) : Agrees(x, interfaces[k])

\* The texts of two different addresses differ.
TextsDiffer ==
  \A k, l \in 1..Len(interfaces) :
    interfaces[k].address.type = "Ipv6" /\ interfaces[l].address.type = "Ipv6"
    /\ interfaces[k].address.value # interfaces[l].address.value
      => Ipv6ToString(interfaces[k].address.value) # Ipv6ToString(interfaces[l].address.value)

\* A packet goes to the port of the protocol, whatever machine sends it.
PortIsProtocols == datagram # <<>> => group.port = Word(Port, 2)

\* The signature sent is the protocol's.
SignatureIsProtocols == datagram # <<>> => FieldOf(datagram, "signature") = Word(250878250, 4)

\* A registration packet has the packet id its declaration gives it.
PacketIdIsDeclared == datagram # <<>> => Read("packet_id") = 1

\* When InitializeMcGroups has run, the group it names is of type Multicast.
GroupIsMulticast == nodeId # 0 => FindIpAddressType(MulticastGroup) = "Multicast"
=============================================================================
