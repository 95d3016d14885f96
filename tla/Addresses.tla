----------------------------- MODULE Addresses -----------------------------
(***************************************************************************)
(* The address classes of libs/base, Ip, Mac and Ipv6: what their          *)
(* constructors make of a text and what ToString makes of the value. A     *)
(* text is the sequence of its characters: a digit is its value, whatever  *)
(* stands between two numbers is Sep. A value is the sequence of its bytes *)
(* (Ip, Mac) or of its words as strtoul returned them (Ipv6).              *)
(***************************************************************************)
EXTENDS Integers, Sequences, SequencesExt, FiniteSetsExt

Byte == 0..255
Ip4  == [1..4 -> Byte]
Sep  == -1

IpByteLength   == 4
MacByteLength  == 6
Ipv6WordLength == 8
Unbounded      == 1000

Is(c, base) == c \in 0..base - 1   \* isdigit, isxdigit

\* Where the run of digits that begins at i ends, most digits at the most,
\* and where the next digit is; both may be the end of the text.
RunEnd(s, i, base, most) ==
  Min({j \in i..Len(s) + 1 : j > Len(s) \/ j = i + most \/ ~Is(s[j], base)})
NextDigit(s, i, base) == Min({j \in i..Len(s) + 1 : j > Len(s) \/ Is(s[j], base)})

\* strtoul of the digits from i up to j.
Number(s, i, j, base) ==
  LET number[k \in i..j] == IF k = i THEN 0 ELSE base * number[k - 1] + s[k - 1]
  IN number[j]

\* The loop of Ip::StrToIpt and of Mac::Mac: n runs of digits, each cast to a
\* byte, with whatever is no digit between; a run that is missing is 0.
NextRun(s, st, base, most) ==
  LET j == RunEnd(s, st.pos, base, most)
  IN [bytes |-> Append(st.bytes, Number(s, st.pos, j, base) % 256),
      pos   |-> NextDigit(s, j, base)]
Runs(s, n, base, most) ==
  LET run[k \in 0..n] == IF k = 0 THEN [bytes |-> <<>>, pos |-> 1]
                                   ELSE NextRun(s, run[k - 1], base, most)
  IN run[n].bytes

StrToIpt_Two(s) == Runs(s, IpByteLength, 10, 2)  \* mutant: room for two digits

StrToIpt(s) == Runs(s, IpByteLength, 10, 8)
StrToMac(s) == Runs(s, MacByteLength, 16, Unbounded)

-----------------------------------------------------------------------------
(* Ipv6::Ipv6. After "::" toConvert is false: the next word is 0 and the   *)
(* text is taken up again one character back, at the second colon.         *)
After(s, i, words) ==
  IF i > Len(s) \/ s[i] # Sep THEN [words |-> words, pos |-> i, convert |-> TRUE]
  ELSE IF i < Len(s) /\ s[i + 1] = Sep
       THEN [words |-> words, pos |-> i + 2, convert |-> FALSE]
       ELSE [words |-> words, pos |-> i + 1, convert |-> TRUE]

NextWord(s, st) ==
  IF st.convert
  THEN LET j == RunEnd(s, st.pos, 16, Unbounded)
       IN After(s, j, Append(st.words, Number(s, st.pos, j, 16) % 65536))
  ELSE After(s, st.pos - 1, Append(st.words, 0))

StrToIpv6(s) ==
  LET word[k \in 0..Ipv6WordLength] ==
        IF k = 0 THEN [words |-> <<>>, pos |-> 1, convert |-> TRUE] ELSE NextWord(s, word[k - 1])
  IN word[Ipv6WordLength].words

-----------------------------------------------------------------------------
(* Texts.                                                                  *)
Digits(n, base) ==  \* without leading zeros, of numbers of four digits at most
  CASE n < base               -> <<n>>
    [] n \in base..base * base - 1 -> <<n \div base, n % base>>
    [] n \in base * base..base * base * base - 1 ->
         <<n \div (base * base), (n \div base) % base, n % base>>
    [] OTHER -> <<n \div (base * base * base), (n \div (base * base)) % base,
                  (n \div base) % base, n % base>>
Padded(n, w) == [i \in 1..w - Len(Digits(n, 16)) |-> 0] \o Digits(n, 16)

Joined(texts) ==
  FlattenSeq([i \in 1..Len(texts) |-> IF i = 1 THEN texts[i] ELSE <<Sep>> \o texts[i]])

\* snprintf into a buffer of size characters, the last one for the zero.
Printed(s, size) == SubSeq(s, 1, IF Len(s) < size THEN Len(s) ELSE size - 1)

IpToString(ip)  == Printed(Joined([i \in 1..4 |-> Digits(ip[i], 10)]), 20)
MacToString(m)  == Printed(Joined([i \in 1..6 |-> Padded(m[i], 2)]), 18)
Ipv6ToString(v) == Printed(Joined([i \in 1..8 |-> Padded(v[i], 4)]), 16)

\* inet_ntop and getnameinfo of an IPv6 address: words without leading zeros,
\* the first longest run of two zeros or more written as "::".
ZeroRuns(v) == {r \in (1..8) \X (1..8) : r[1] < r[2] /\ \A k \in r[1]..r[2] : v[k] = 0}
Ipv6Text(v) ==
  LET hex(a, b) == Joined([k \in 1..b - a + 1 |-> Digits(v[a + k - 1], 16)])
      Longest   == {r \in ZeroRuns(v) : \A q \in ZeroRuns(v) : q[2] - q[1] <= r[2] - r[1]}
  IN IF Longest = {} THEN hex(1, 8)
     ELSE LET r == CHOOSE r \in Longest : \A q \in Longest : r[1] <= q[1]
          IN hex(1, r[1] - 1) \o <<Sep, Sep>> \o hex(r[2] + 1, 8)

-----------------------------------------------------------------------------
(* Ip::FindIpAddressType; % stands for & 0xF0. IsActive.                   *)
FindIpAddressType(ip) ==
  CASE ip[1] = 127                               -> "Loopback"
    [] ip[1] = 169 /\ ip[2] = 254                -> "LinkLocal"
    [] ip[1] = 224 /\ ip[2] = 239                -> "Multicast"
    [] ip[1] = 10                                -> "ClassA"
    [] ip[1] = 172 /\ ip[2] - (ip[2] % 16) = 16  -> "ClassB"
    [] ip[1] = 192 /\ ip[2] = 168                -> "ClassC"
    [] OTHER                                     -> "Unknown"

IsActive_Any(flags) ==  \* mutant: one of the flags will do
  flags \cap {"UP", "RUNNING", "MULTICAST"} # {}

IsActive(flags) == {"UP", "RUNNING", "MULTICAST"} \subseteq flags

-----------------------------------------------------------------------------
(* Made of what the kernel lists: an Ip by way of its text, its netmask    *)
(* and broadcast address left out; of a Mac the bytes that fit.            *)
SockaddrToIpt(addr) == StrToIpt(IpToString(addr))

IpOf(addr, flags) ==
  [type |-> "Ipv4", value |-> SockaddrToIpt(addr), active |-> IsActive(flags)]
Ipv6Of(addr) == [type |-> "Ipv6", value |-> StrToIpv6(Ipv6Text(addr))]
MacOf(addr)  == [type |-> "Mac", value |-> SubSeq(addr, 1, MacByteLength)]
=============================================================================
