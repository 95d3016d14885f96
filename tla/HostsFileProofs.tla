-------------------------- MODULE HostsFileProofs --------------------------
(***************************************************************************)
(* /etc/hosts and the inventory under any number of processes that add     *)
(* any ranges and lists of nodes, fail and are killed. What the loop over  *)
(* the lines of the file keeps is proved by induction on their number.     *)
(***************************************************************************)
EXTENDS HostsFile, SequenceTheorems, WellFoundedInduction, TLAPS

\* A set of numbers has a least one.
LEMMA LeastNumber ==
  ASSUME NEW T \in SUBSET Nat, T # {}
  PROVE  \E m \in T : \A k \in T : m <= k
<1>1. \E x \in T : \A y \in T : ~(<<y, x>> \in OpToRel(<, Nat))
  BY NatLessThanWellFounded, WFMin
<1>2. \E x \in T : \A y \in T : ~(y < x)
  BY <1>1 DEF OpToRel
<1> QED
  BY <1>2

\* Induction on the numbers up to N, for a set instead of a property.
LEMMA Induction ==
  ASSUME NEW N \in Nat, NEW T \in SUBSET (0..N), 0 \in T,
         \A n \in 1..N : n - 1 \in T => n \in T
  PROVE  T = 0..N
<1> SUFFICES ASSUME (0..N) \ T # {} PROVE FALSE
  OBVIOUS
<1> DEFINE Rest == (0..N) \ T
<1>1. PICK m \in Rest : \A k \in Rest : m <= k
  <2>1. Rest \in SUBSET Nat /\ Rest # {}
    OBVIOUS
  <2> HIDE DEF Rest
  <2> QED
    BY <2>1, LeastNumber
<1>2. m # 0 /\ m - 1 \in 0..N
  BY <1>1
<1>3. m - 1 \in T
  BY <1>1, <1>2
<1> QED
  BY <1>1, <1>2, <1>3

\* One turn of the loop over the lines, F being what it has kept so far.
Turn(F, file, pre, list, n) ==
  IF n = 0 THEN <<>>
  ELSE IF Matches(file[n], pre, list) THEN F[n - 1]
  ELSE Append(F[n - 1], file[n])

\* There is a function that does what the loop does.
LEMMA LoopRuns ==
  ASSUME NEW file, NEW pre, NEW list, NEW N \in Nat
  PROVE  \E F : F = [n \in 0..N |-> Turn(F, file, pre, list, n)]
<1> DEFINE Reached == {m \in 0..N : \E F : F = [n \in 0..m |-> Turn(F, file, pre, list, n)]}
<1>1. 0 \in Reached
  <2> DEFINE F == [n \in 0..0 |-> <<>>]
  <2>1. F = [n \in 0..0 |-> Turn(F, file, pre, list, n)]
    BY DEF Turn
  <2> QED
    BY <2>1
<1>2. ASSUME NEW m \in 1..N, m - 1 \in Reached
      PROVE  m \in Reached
  <2>1. PICK F : F = [n \in 0..(m - 1) |-> Turn(F, file, pre, list, n)]
    BY <1>2
  <2> DEFINE G == [n \in 0..m |-> IF n = m THEN Turn(F, file, pre, list, m) ELSE F[n]]
  <2>2. \A n \in 0..(m - 1) : G[n] = F[n]
    OBVIOUS
  <2>3. ASSUME NEW n \in 0..m PROVE G[n] = Turn(G, file, pre, list, n)
    <3>1. CASE n = 0
      BY <2>1, <3>1 DEF Turn
    <3>2. CASE n # 0
      <4>1. n - 1 \in 0..(m - 1) /\ G[n - 1] = F[n - 1]
        BY <3>2
      <4>2. Turn(G, file, pre, list, n) = Turn(F, file, pre, list, n)
        BY <3>2, <4>1 DEF Turn
      <4>3. G[n] = Turn(F, file, pre, list, n)
        BY <2>1
      <4> QED
        BY <4>2, <4>3
    <3> QED
      BY <3>1, <3>2
  <2>4. G = [n \in 0..m |-> Turn(G, file, pre, list, n)]
    <3>1. DOMAIN G = 0..m /\ G = [n \in 0..m |-> G[n]]
      OBVIOUS
    <3> HIDE DEF G
    <3> QED
      BY <2>3, <3>1
  <2> HIDE DEF G
  <2> QED
    BY <2>4
<1>3. Reached = 0..N
  <2>1. Reached \subseteq 0..N
    OBVIOUS
  <2> HIDE DEF Reached
  <2> QED
    BY <1>1, <1>2, <2>1, Induction
<1> QED
  BY <1>3

\* Kept is what the loop holds after the last line.
LEMMA KeptLoop ==
  ASSUME NEW S, NEW file \in Seq(S), NEW pre, NEW list
  PROVE  \E F : /\ Kept(file, pre, list) = F[Len(file)]
                /\ \A n \in 0..Len(file) : F[n] = Turn(F, file, pre, list, n)
<1> DEFINE F == CHOOSE F : F = [n \in 0..Len(file) |-> Turn(F, file, pre, list, n)]
<1>1. F = [n \in 0..Len(file) |-> Turn(F, file, pre, list, n)]
  BY LoopRuns
<1>2. Kept(file, pre, list) = F[Len(file)]
  BY DEF Kept, Turn
<1> QED
  BY <1>1, <1>2

\* No address and no host twice.
Unique(file) ==
  \A i, j \in 1..Len(file) : i # j =>
    /\ file[i].ip # file[j].ip
    /\ <<file[i].prefix, file[i].idx>> # <<file[j].prefix, file[j].idx>>

\* Appending a line with a new address and host keeps a file unambiguous.
LEMMA UniqueAppend ==
  ASSUME NEW S, NEW s \in Seq(S), NEW line \in S, Unique(s),
         \A i \in 1..Len(s) :
           /\ s[i].ip # line.ip
           /\ <<s[i].prefix, s[i].idx>> # <<line.prefix, line.idx>>
  PROVE  Unique(Append(s, line))
<1> DEFINE t == Append(s, line)
<1>1. /\ Len(t) = Len(s) + 1 /\ t[Len(s) + 1] = line /\ Len(s) \in Nat
      /\ \A i \in 1..Len(s) : t[i] = s[i]
  BY AppendProperties
<1> HIDE DEF t
<1> SUFFICES ASSUME NEW i \in 1..Len(t), NEW j \in 1..Len(t), i # j
             PROVE  /\ t[i].ip # t[j].ip
                    /\ <<t[i].prefix, t[i].idx>> # <<t[j].prefix, t[j].idx>>
  BY DEF Unique, t
<1>2. CASE i \in 1..Len(s) /\ j \in 1..Len(s)
  BY <1>1, <1>2 DEF Unique
<1>3. CASE i = Len(s) + 1 /\ j \in 1..Len(s)
  BY <1>1, <1>3
<1>4. CASE j = Len(s) + 1 /\ i \in 1..Len(s)
  BY <1>1, <1>4
<1> QED
  BY <1>1, <1>2, <1>3, <1>4

\* What the loop holds after n lines: those of them that do not match.
KeptOf(s, file, pre, list, n) ==
  /\ \A i \in 1..Len(s) : \E j \in 1..n : s[i] = file[j] /\ ~Matches(file[j], pre, list)
  /\ \A j \in 1..n : ~Matches(file[j], pre, list) => \E i \in 1..Len(s) : s[i] = file[j]
  /\ Unique(file) => Unique(s)

LEMMA KeptTurn ==
  ASSUME NEW S, NEW file \in Seq(S), NEW pre, NEW list, NEW n \in 1..Len(file),
         NEW s \in Seq(S), KeptOf(s, file, pre, list, n - 1)
  PROVE  IF Matches(file[n], pre, list)
         THEN KeptOf(s, file, pre, list, n)
         ELSE KeptOf(Append(s, file[n]), file, pre, list, n)
<1>1. n \in Nat /\ n - 1 \in Nat /\ \A j \in 1..n : j \in 1..(n - 1) \/ j = n
  OBVIOUS
<1>2. CASE Matches(file[n], pre, list)
  <2>1. \A i \in 1..Len(s) : \E j \in 1..n : s[i] = file[j] /\ ~Matches(file[j], pre, list)
    BY <1>1 DEF KeptOf
  <2>2. \A j \in 1..n : ~Matches(file[j], pre, list) => \E i \in 1..Len(s) : s[i] = file[j]
    BY <1>1, <1>2 DEF KeptOf
  <2> QED
    BY <1>2, <2>1, <2>2 DEF KeptOf
<1>3. CASE ~Matches(file[n], pre, list)
  <2> DEFINE t == Append(s, file[n])
  <2>1. file[n] \in S
    OBVIOUS
  <2>2. /\ Len(t) = Len(s) + 1 /\ t[Len(s) + 1] = file[n] /\ Len(s) \in Nat
        /\ \A i \in 1..Len(s) : t[i] = s[i]
    BY <2>1, AppendProperties
  <2>3. Unique(file) => Unique(t)
    <3> SUFFICES ASSUME Unique(file) PROVE Unique(t)
      OBVIOUS
    <3>1. ASSUME NEW i \in 1..Len(s)
          PROVE  /\ s[i].ip # file[n].ip
                 /\ <<s[i].prefix, s[i].idx>> # <<file[n].prefix, file[n].idx>>
      <4>1. PICK j \in 1..(n - 1) : s[i] = file[j]
        BY <1>1 DEF KeptOf
      <4>2. j # n /\ j \in 1..Len(file)
        OBVIOUS
      <4> QED
        BY <4>1, <4>2 DEF Unique
    <3>2. Unique(s)
      BY DEF KeptOf
    <3> QED
      BY <2>1, <3>1, <3>2, UniqueAppend
  <2> HIDE DEF t
  <2>4. \A i \in 1..Len(t) : \E j \in 1..n : t[i] = file[j] /\ ~Matches(file[j], pre, list)
    <3> SUFFICES ASSUME NEW i \in 1..Len(t)
                 PROVE  \E j \in 1..n : t[i] = file[j] /\ ~Matches(file[j], pre, list)
      OBVIOUS
    <3>1. CASE i \in 1..Len(s)
      BY <1>1, <2>2, <3>1 DEF KeptOf
    <3>2. CASE i = Len(s) + 1
      BY <1>3, <2>2, <3>2
    <3> QED
      BY <2>2, <3>1, <3>2
  <2>5. ASSUME NEW j \in 1..n, ~Matches(file[j], pre, list)
        PROVE  \E i \in 1..Len(t) : t[i] = file[j]
    <3>1. CASE j = n
      BY <2>2, <3>1
    <3>2. CASE j \in 1..(n - 1)
      <4>1. PICK i \in 1..Len(s) : s[i] = file[j]
        BY <2>5, <3>2 DEF KeptOf
      <4>2. i \in 1..Len(t) /\ t[i] = file[j]
        BY <2>2, <4>1
      <4> QED
        BY <4>2
    <3> QED
      BY <1>1, <3>1, <3>2
  <2> QED
    BY <1>3, <2>3, <2>4, <2>5 DEF KeptOf, t
<1> QED
  BY <1>2, <1>3

\* UpdateEtcHosts keeps the lines with no address and no host of the list,
\* all of them, and gives none twice.
LEMMA KeptLines ==
  ASSUME NEW S, NEW file \in Seq(S), NEW pre, NEW list
  PROVE  /\ Kept(file, pre, list) \in Seq(S)
         /\ KeptOf(Kept(file, pre, list), file, pre, list, Len(file))
<1>1. PICK F : /\ Kept(file, pre, list) = F[Len(file)]
               /\ \A n \in 0..Len(file) : F[n] = Turn(F, file, pre, list, n)
  BY KeptLoop
<1> DEFINE Good(n) == F[n] \in Seq(S) /\ KeptOf(F[n], file, pre, list, n)
           All == {n \in 0..Len(file) : Good(n)}
<1>2. Good(0)
  <2>1. F[0] = <<>>
    BY <1>1 DEF Turn
  <2> QED
    BY <2>1 DEF KeptOf, Unique
<1>3. ASSUME NEW n \in 1..Len(file), Good(n - 1)
      PROVE  Good(n)
  <2>1. F[n] = IF Matches(file[n], pre, list) THEN F[n - 1] ELSE Append(F[n - 1], file[n])
    BY <1>1 DEF Turn
  <2>2. file[n] \in S
    OBVIOUS
  <2>3. F[n] \in Seq(S)
    BY <1>3, <2>1, <2>2, AppendProperties
  <2>4. KeptOf(F[n], file, pre, list, n)
    BY <1>3, <2>1, KeptTurn
  <2> QED
    BY <2>3, <2>4
<1>4. Len(file) \in Nat
  OBVIOUS
<1> HIDE DEF Good
<1>5. 0 \in All
  BY <1>2, <1>4
<1>6. ASSUME NEW n \in 1..Len(file), n - 1 \in All
      PROVE  n \in All
  BY <1>3, <1>4, <1>6
<1>7. All \subseteq 0..Len(file)
  OBVIOUS
<1>8. All = 0..Len(file)
  <2> HIDE DEF All
  <2> QED
    BY <1>4, <1>5, <1>6, <1>7, Induction
<1>9. Good(Len(file))
  BY <1>4, <1>8
<1> QED
  BY <1>1, <1>9 DEF Good
-----------------------------------------------------------------------------
NoRepeat(list) == \A i, j \in 1..Len(list) : i # j => list[i] # list[j]

LEMMA LineFields ==
  ASSUME NEW ip, NEW pre, NEW idx
  PROVE  /\ Line(ip, pre, idx).ip = ip
         /\ Line(ip, pre, idx).prefix = pre
         /\ Line(ip, pre, idx).idx = idx
BY DEF Line

\* The lines of a call are one for each address of its list.
LEMMA MappingLines ==
  ASSUME NEW pre \in NodePrefixes \cup {NoPrefix}, NEW list \in Seq(Bytes)
  PROVE  /\ Mappings(pre, list) \in Seq(Lines)
         /\ Len(Mappings(pre, list)) = Len(list)
         /\ \A i \in 1..Len(list) : Mappings(pre, list)[i] = Line(list[i], pre, i)
<1> DEFINE m == Mappings(pre, list)
<1>1. Len(list) \in Nat /\ m = [i \in 1..Len(list) |-> Line(list[i], pre, i)]
  BY DEF Mappings
<1>2. \A i \in 1..Len(list) : Line(list[i], pre, i) \in Lines
  <2> SUFFICES ASSUME NEW i \in 1..Len(list) PROVE Line(list[i], pre, i) \in Lines
    OBVIOUS
  <2>1. list[i] \in Bytes
    OBVIOUS
  <2>2. list[i] \in Nat
    BY <2>1, HostsAssumption DEF Bytes
  <2> QED
    BY <2>2 DEF Line, Lines
<1>3. m \in [1..Len(list) -> Lines]
  BY <1>1, <1>2
<1> HIDE DEF m
<1>4. m \in Seq(Lines) /\ Len(m) = Len(list)
  BY <1>1, <1>3
<1> QED
  BY <1>1, <1>4 DEF m

\* A write from the start of a file leaves what was written there, and
\* nothing else when the file was empty.
LEMMA OverwriteLines ==
  ASSUME NEW S, NEW file \in Seq(S), NEW new \in Seq(S)
  PROVE  /\ Overwrite(file, new) \in Seq(S)
         /\ ToSet(new) \subseteq ToSet(Overwrite(file, new))
         /\ file = <<>> => Overwrite(file, new) = new
<1> DEFINE rest == SubSeq(file, Len(new) + 1, Len(file))
<1>1. Len(new) \in Nat /\ Len(file) \in Nat
  OBVIOUS
<1>2. rest \in Seq(S)
  <2>1. \A i \in (Len(new) + 1)..Len(file) : file[i] \in S
    BY <1>1
  <2> QED
    BY <1>1, <2>1, SubSeqProperties
<1>3. file = <<>> => rest = <<>>
  BY <1>1, SubSeqEmpty
<1>4. Overwrite(file, new) = new \o rest
  BY DEF Overwrite
<1> HIDE DEF rest
<1>5. ToSet(new) \subseteq ToSet(new \o rest)
  <2>1. /\ DOMAIN new = 1..Len(new) /\ DOMAIN (new \o rest) = 1..Len(new \o rest)
        /\ Len(rest) \in Nat
    BY <1>2, ConcatProperties, LenProperties
  <2>2. \A i \in 1..Len(new) : i \in 1..Len(new \o rest) /\ (new \o rest)[i] = new[i]
    BY <1>1, <1>2, <2>1, ConcatProperties
  <2> QED
    BY <2>1, <2>2 DEF ToSet
<1> QED
  BY <1>2, <1>3, <1>4, <1>5, ConcatProperties, ConcatEmptySeq

LEMMA ConcatSet ==
  ASSUME NEW S, NEW s \in Seq(S), NEW t \in Seq(S)
  PROVE  ToSet(s) \subseteq ToSet(s \o t) /\ ToSet(t) \subseteq ToSet(s \o t)
<1>1. /\ DOMAIN s = 1..Len(s) /\ DOMAIN t = 1..Len(t) /\ Len(s) \in Nat /\ Len(t) \in Nat
      /\ DOMAIN (s \o t) = 1..(Len(s) + Len(t))
  BY ConcatProperties, LenProperties
<1>2. \A i \in 1..Len(s) : i \in 1..(Len(s) + Len(t)) /\ (s \o t)[i] = s[i]
  BY <1>1, ConcatProperties
<1>3. \A i \in 1..Len(t) : /\ Len(s) + i \in 1..(Len(s) + Len(t))
                           /\ (s \o t)[Len(s) + i] = t[i]
  BY <1>1, ConcatProperties
<1> QED
  BY <1>1, <1>2, <1>3 DEF ToSet

\* What an update writes gives no address and no host twice, if the file it
\* read gave none twice.
LEMMA UpdateIsUnique ==
  ASSUME NEW file \in Seq(Lines), Unique(file), NEW pre \in NodePrefixes \cup {NoPrefix},
         NEW list \in Seq(Bytes), NoRepeat(list)
  PROVE  Unique(Kept(file, pre, list) \o Mappings(pre, list))
<1> DEFINE k == Kept(file, pre, list)
           m == Mappings(pre, list)
<1>1. k \in Seq(Lines) /\ KeptOf(k, file, pre, list, Len(file))
  BY KeptLines
<1>2. /\ m \in Seq(Lines) /\ Len(m) = Len(list) /\ Len(list) \in Nat
      /\ \A i \in 1..Len(list) : m[i].ip = list[i] /\ m[i].prefix = pre /\ m[i].idx = i
  <2>1. /\ m \in Seq(Lines) /\ Len(m) = Len(list)
        /\ \A i \in 1..Len(list) : m[i] = Line(list[i], pre, i)
    BY MappingLines
  <2> HIDE DEF m
  <2> QED
    BY <2>1, LineFields
<1>3. ASSUME NEW i \in 1..Len(k), NEW j \in 1..Len(list)
      PROVE  k[i].ip # list[j] /\ <<k[i].prefix, k[i].idx>> # <<pre, j>>
  <2>1. ~HasIp(k[i], list) /\ ~HasHost(k[i], pre, list)
    BY <1>1 DEF KeptOf, Matches
  <2> HIDE DEF k
  <2>2. k[i].ip # list[j]
    BY <2>1 DEF HasIp, Begins
  <2>3. <<k[i].prefix, k[i].idx>> # <<pre, j>>
    BY <2>1 DEF HasHost, Begins
  <2> QED
    BY <2>2, <2>3
<1>4. Unique(k) /\ Len(k) \in Nat
  BY <1>1 DEF KeptOf
<1>5. /\ Len(k \o m) = Len(k) + Len(m)
      /\ \A i \in 1..(Len(k) + Len(m)) : (k \o m)[i] = IF i <= Len(k) THEN k[i] ELSE m[i - Len(k)]
  <2>1. k \in Seq(Lines) /\ m \in Seq(Lines)
    BY <1>1, <1>2
  <2> HIDE DEF k, m
  <2> QED
    BY <2>1, ConcatProperties
<1> HIDE DEF k, m
<1> SUFFICES ASSUME NEW i \in 1..(Len(k) + Len(m)), NEW j \in 1..(Len(k) + Len(m)), i # j
             PROVE  /\ (k \o m)[i].ip # (k \o m)[j].ip
                    /\ <<(k \o m)[i].prefix, (k \o m)[i].idx>>
                         # <<(k \o m)[j].prefix, (k \o m)[j].idx>>
  BY <1>5 DEF Unique, k, m
<1>6. CASE i <= Len(k) /\ j <= Len(k)
  <2>1. i \in 1..Len(k) /\ j \in 1..Len(k) /\ (k \o m)[i] = k[i] /\ (k \o m)[j] = k[j]
    BY <1>4, <1>5, <1>6
  <2> QED
    BY <1>4, <2>1 DEF Unique
<1>7. CASE i <= Len(k) /\ j > Len(k)
  <2>1. /\ i \in 1..Len(k) /\ j - Len(k) \in 1..Len(list)
        /\ (k \o m)[i] = k[i] /\ (k \o m)[j] = m[j - Len(k)]
    BY <1>2, <1>4, <1>5, <1>7
  <2> QED
    BY <1>2, <1>3, <2>1
<1>8. CASE i > Len(k) /\ j <= Len(k)
  <2>1. /\ j \in 1..Len(k) /\ i - Len(k) \in 1..Len(list)
        /\ (k \o m)[j] = k[j] /\ (k \o m)[i] = m[i - Len(k)]
    BY <1>2, <1>4, <1>5, <1>8
  <2> QED
    BY <1>2, <1>3, <2>1
<1>9. CASE i > Len(k) /\ j > Len(k)
  <2>1. /\ i - Len(k) \in 1..Len(list) /\ j - Len(k) \in 1..Len(list)
        /\ i - Len(k) # j - Len(k)
        /\ (k \o m)[i] = m[i - Len(k)] /\ (k \o m)[j] = m[j - Len(k)]
    BY <1>2, <1>4, <1>5, <1>9
  <2>2. list[i - Len(k)] # list[j - Len(k)]
    BY <2>1 DEF NoRepeat
  <2>3. /\ m[i - Len(k)].ip = list[i - Len(k)] /\ m[i - Len(k)].idx = i - Len(k)
        /\ m[j - Len(k)].ip = list[j - Len(k)] /\ m[j - Len(k)].idx = j - Len(k)
    BY <1>2, <2>1
  <2> QED
    BY <2>1, <2>2, <2>3
<1>10. Len(k) \in Nat /\ i \in Nat /\ j \in Nat
  BY <1>2, <1>4
<1> QED
  BY <1>6, <1>7, <1>8, <1>9, <1>10
-----------------------------------------------------------------------------
LEMMA HostsInit == Init => TypeOK
<1> SUFFICES ASSUME Init PROVE TypeOK
  OBVIOUS
<1>1. <<>> \in Seq(Lines) /\ <<>> \in Seq(Bytes) /\ 0 \in Bytes
  BY HostsAssumption, EmptySeq DEF Bytes
<1> QED
  BY <1>1, HostsAssumption DEF Init, TypeOK

LEMMA HostsTypeStep ==
  ASSUME TypeOK, [Next]_vars
  PROVE  TypeOK'
<1> USE DEF TypeOK, Goto, files, locals, past
<1>1. ASSUME NEW p \in Processes, NEW pre \in NodePrefixes, NEW range \in Ranges,
             AddRange(p, pre, range)
      PROVE  TypeOK'
  <2>1. range[1] \in Bytes /\ range[2] \in Bytes /\ <<>> \in Seq(Bytes)
    BY HostsAssumption, EmptySeq
  <2> QED
    BY <1>1, <2>1, HostsAssumption DEF AddRange, Begin
<1>2. ASSUME NEW p \in Processes, NEW pre \in NodePrefixes, NEW list \in Lists,
             AddList(p, pre, list)
      PROVE  TypeOK'
  <2>1. list \in Seq(Bytes)
    BY HostsAssumption
  <2> QED
    BY <1>2, <2>1, HostsAssumption DEF AddList, Begin
<1>3. ASSUME NEW p \in Processes, SplitStep(p) PROVE TypeOK'
  <2>1. next[p] \in Bytes /\ ips[p] \in Seq(Bytes)
    OBVIOUS
  <2>2. (next[p] + 1) % ByteSize \in Bytes
    BY <2>1, HostsAssumption DEF Bytes
  <2>3. Append(ips[p], next[p]) \in Seq(Bytes)
    BY <2>1, AppendProperties
  <2>4. next' \in [Processes -> Bytes] /\ ips' \in [Processes -> Seq(Bytes)]
    BY <1>3, <2>1, <2>2, <2>3 DEF SplitStep
  <2> QED
    BY <1>3, <2>4 DEF SplitStep
<1>4. ASSUME NEW p \in Processes, SplitDone(p) PROVE TypeOK'
  BY <1>4 DEF SplitDone
<1>5. ASSUME NEW p \in Processes, Read(p) PROVE TypeOK'
  <2>1. Kept(hosts, prefix[p], ips[p]) \in Seq(Lines)
    BY KeptLines
  <2> QED
    BY <1>5, <2>1 DEF Read
<1>6. ASSUME NEW p \in Processes, CannotOpen(p) PROVE TypeOK'
  BY <1>6 DEF CannotOpen
<1>7. ASSUME NEW p \in Processes, Open(p) PROVE TypeOK'
  BY <1>7, EmptySeq DEF Open, Outdate
<1>8. ASSUME NEW p \in Processes, Flush(p) PROVE TypeOK'
  <2> DEFINE new == Mappings(prefix[p], ips[p])
             kept == Kept(atomic, prefix[p], ips[p])
  <2>1. prefix[p] \in NodePrefixes \cup {NoPrefix} /\ ips[p] \in Seq(Bytes)
    OBVIOUS
  <2>2. new \in Seq(Lines) /\ kept \in Seq(Lines) /\ content[p] \in Seq(Lines)
    BY <2>1, MappingLines, KeptLines
  <2>3. content[p] \o new \in Seq(Lines) /\ kept \o new \in Seq(Lines) /\ <<>> \in Seq(Lines)
    BY <2>2, ConcatProperties, EmptySeq
  <2>4. Overwrite(hosts, content[p] \o new) \in Seq(Lines)
    BY <2>3, OverwriteLines
  <2>5. hosts' \in Seq(Lines) /\ atomic' \in Seq(Lines)
    BY <1>8, <2>3, <2>4 DEF Flush
  <2> QED
    BY <1>8, <2>5 DEF Flush, Close, Outdate
<1>9. ASSUME NEW p \in Processes, FlushFails(p) PROVE TypeOK'
  <2>1. success' \in [Processes -> BOOLEAN]
    BY <1>9 DEF FlushFails, Close
  <2> QED
    BY <1>9, <2>1 DEF FlushFails, Close
<1>10. ASSUME NEW p \in Processes, OpenInventory(p) \/ CannotOpenInventory(p) PROVE TypeOK'
  <2>1. inventory' \in Seq(Lines)
    <3>1. inventory' \in {inventory, <<>>}
      BY <1>10 DEF OpenInventory, CannotOpenInventory
    <3>2. <<>> \in Seq(Lines)
      BY EmptySeq
    <3> QED
      BY <3>1, <3>2
  <2>2. /\ \E to \in {"idle", "store"} : pc' = [pc EXCEPT ![p] = to]
        /\ intact' \in BOOLEAN /\ complete' \in BOOLEAN
        /\ UNCHANGED <<hosts, locals, calls, past>>
    BY <1>10 DEF OpenInventory, CannotOpenInventory
  <2> QED
    BY <2>1, <2>2
<1>11. ASSUME NEW p \in Processes, StoreInventory(p) PROVE TypeOK'
  <2>1. prefix[p] \in NodePrefixes \cup {NoPrefix} /\ ips[p] \in Seq(Bytes)
    OBVIOUS
  <2>2. Overwrite(inventory, Mappings(prefix[p], ips[p])) \in Seq(Lines)
    BY <2>1, MappingLines, OverwriteLines
  <2> QED
    BY <1>11, <2>2 DEF StoreInventory
<1>12. ASSUME NEW p \in Processes, Crash(p) PROVE TypeOK'
  BY <1>12 DEF Crash
<1>13. CASE UNCHANGED vars
  BY <1>13 DEF vars
<1> QED
  BY <1>1, <1>2, <1>3, <1>4, <1>5, <1>6, <1>7, <1>8, <1>9, <1>10, <1>11, <1>12, <1>13
     DEF Next, Call, Step

\* Every variable keeps its type.
THEOREM HostsTypeCorrect == Spec => []TypeOK
BY HostsInit, HostsTypeStep, PTL DEF Spec
-----------------------------------------------------------------------------
(* SplitIpv4 lists ever larger addresses as long as idx cannot wrap, so a  *)
(* list that leaves it has no address twice.                               *)
Ends(p) == end[p] < ByteSize - 1

NoListRepeats == \A list \in Lists : NoRepeat(list)

SplitInv ==
  \A p \in Processes :
    /\ pc[p] = "split" /\ Ends(p) =>
         NoRepeat(ips[p]) /\ \A i \in 1..Len(ips[p]) : ips[p][i] < next[p]
    /\ pc[p] \notin {"idle", "split"} /\ NoListRepeats => NoRepeat(ips[p])

LEMMA NoRepeatAppend ==
  ASSUME NEW s \in Seq(Bytes), NEW a \in Bytes, NoRepeat(s), \A i \in 1..Len(s) : s[i] < a
  PROVE  /\ NoRepeat(Append(s, a))
         /\ \A i \in 1..Len(Append(s, a)) : Append(s, a)[i] < a + 1
<1> DEFINE t == Append(s, a)
<1>1. /\ Len(t) = Len(s) + 1 /\ t[Len(s) + 1] = a /\ Len(s) \in Nat
      /\ \A i \in 1..Len(s) : t[i] = s[i]
  BY AppendProperties
<1>2. a \in Int /\ \A i \in 1..Len(s) : s[i] \in Int
  BY HostsAssumption DEF Bytes
<1> HIDE DEF t
<1>3. \A i \in 1..Len(t) : t[i] < a + 1
  BY <1>1, <1>2
<1>4. ASSUME NEW i \in 1..Len(t), NEW j \in 1..Len(t), i # j
      PROVE  t[i] # t[j]
  <2>1. CASE i \in 1..Len(s) /\ j \in 1..Len(s)
    BY <1>1, <1>4, <2>1 DEF NoRepeat
  <2>2. CASE i = Len(s) + 1 /\ j \in 1..Len(s)
    BY <1>1, <1>2, <2>2
  <2>3. CASE j = Len(s) + 1 /\ i \in 1..Len(s)
    BY <1>1, <1>2, <2>3
  <2> QED
    BY <1>1, <1>4, <2>1, <2>2, <2>3
<1> QED
  BY <1>3, <1>4 DEF NoRepeat, t

LEMMA SplitInvStep ==
  ASSUME TypeOK, SplitInv, [Next]_vars
  PROVE  SplitInv'
<1> USE DEF Goto, locals
<1>1. ASSUME NEW p \in Processes, NEW pre \in NodePrefixes, NEW range \in Ranges,
             AddRange(p, pre, range)
      PROVE  SplitInv'
  <2>1. /\ \A q \in Processes \ {p} : UNCHANGED <<pc[q], ips[q], next[q], end[q]>>
        /\ pc'[p] = "split" /\ ips'[p] = <<>> /\ next'[p] = range[1]
    BY <1>1 DEF AddRange, TypeOK
  <2> QED
    BY <2>1 DEF SplitInv, Ends, NoRepeat
<1>2. ASSUME NEW p \in Processes, NEW pre \in NodePrefixes, NEW list \in Lists,
             AddList(p, pre, list)
      PROVE  SplitInv'
  <2>1. /\ \A q \in Processes \ {p} : UNCHANGED <<pc[q], ips[q], next[q], end[q]>>
        /\ pc'[p] = "read" /\ ips'[p] = list
    BY <1>2 DEF AddList, TypeOK
  <2> QED
    BY <2>1 DEF SplitInv, Ends, NoListRepeats
<1>3. ASSUME NEW p \in Processes, SplitStep(p) PROVE SplitInv'
  <2>1. /\ \A q \in Processes \ {p} : UNCHANGED <<pc[q], ips[q], next[q], end[q]>>
        /\ pc[p] = "split" /\ UNCHANGED <<pc[p], end[p]>> /\ next[p] <= end[p]
        /\ next'[p] = (next[p] + 1) % ByteSize
        /\ ips'[p] = IF Len(ips[p]) < MaxList THEN Append(ips[p], next[p]) ELSE ips[p]
    BY <1>3 DEF SplitStep, TypeOK
  <2>2. next[p] \in Bytes /\ end[p] \in Bytes /\ ips[p] \in Seq(Bytes)
    BY DEF TypeOK
  <2>3. ASSUME Ends(p)
        PROVE  NoRepeat(ips'[p]) /\ \A i \in 1..Len(ips'[p]) : ips'[p][i] < next'[p]
    <3>1. next'[p] = next[p] + 1
      <4>1. ByteSize \in Nat \ {0} /\ next[p] \in 0..(ByteSize - 1) /\ next[p] < ByteSize - 1
        BY <2>1, <2>2, <2>3, HostsAssumption DEF Bytes, Ends
      <4>2. (next[p] + 1) % ByteSize = next[p] + 1
        BY <4>1
      <4> QED
        BY <2>1, <4>2
    <3>2. NoRepeat(ips[p]) /\ \A i \in 1..Len(ips[p]) : ips[p][i] < next[p]
      BY <2>1, <2>3 DEF SplitInv
    <3>3. /\ NoRepeat(Append(ips[p], next[p]))
          /\ \A i \in 1..Len(Append(ips[p], next[p])) : Append(ips[p], next[p])[i] < next[p] + 1
      BY <2>2, <3>2, NoRepeatAppend
    <3>4. \A i \in 1..Len(ips[p]) : ips[p][i] < next[p] + 1
      BY <2>2, <3>2, HostsAssumption DEF Bytes
    <3>5. ips'[p] = Append(ips[p], next[p]) \/ ips'[p] = ips[p]
      BY <2>1
    <3> QED
      BY <3>1, <3>2, <3>3, <3>4, <3>5
  <2>4. Ends(p)' = Ends(p) /\ \A q \in Processes \ {p} : Ends(q)' = Ends(q)
    BY <2>1 DEF Ends
  <2> QED
    BY <2>1, <2>3, <2>4 DEF SplitInv
<1>4. ASSUME NEW p \in Processes, SplitDone(p) PROVE SplitInv'
  <2>1. /\ \A q \in Processes \ {p} : UNCHANGED <<pc[q], ips[q], next[q], end[q]>>
        /\ pc[p] = "split" /\ pc'[p] \in {"idle", "read"} /\ next[p] > end[p]
        /\ UNCHANGED ips[p]
    BY <1>4 DEF SplitDone, TypeOK
  <2>2. Ends(p)
    BY <2>1, HostsAssumption DEF Ends, TypeOK, Bytes
  <2> QED
    BY <2>1, <2>2 DEF SplitInv, Ends
<1>5. ASSUME NEW p \in Processes,
             UNCHANGED <<ips, next, end>>, pc'[p] \notin {"split"}, pc[p] \notin {"idle", "split"},
             \A q \in Processes \ {p} : UNCHANGED pc[q]
      PROVE  SplitInv'
  BY <1>5 DEF SplitInv, Ends
<1>6. ASSUME NEW p \in Processes,
             \/ Read(p) \/ Open(p) \/ Flush(p) \/ CannotOpen(p) \/ FlushFails(p)
             \/ OpenInventory(p) \/ CannotOpenInventory(p) \/ StoreInventory(p)
      PROVE  SplitInv'
  <2>1. /\ UNCHANGED <<ips, next, end>> /\ pc[p] \notin {"idle", "split"}
        /\ pc'[p] \notin {"split"} /\ \A q \in Processes \ {p} : UNCHANGED pc[q]
    BY <1>6 DEF TypeOK, Read, Open, Flush, CannotOpen, FlushFails, Close,
                OpenInventory, CannotOpenInventory, StoreInventory
  <2> QED
    BY <1>5, <2>1
<1>7. ASSUME NEW p \in Processes, Crash(p) PROVE SplitInv'
  <2>1. /\ UNCHANGED <<ips, next, end>> /\ pc'[p] = "idle"
        /\ \A q \in Processes \ {p} : UNCHANGED pc[q]
    BY <1>7 DEF Crash, TypeOK
  <2> QED
    BY <2>1 DEF SplitInv, Ends
<1>8. CASE UNCHANGED vars
  BY <1>8 DEF vars, SplitInv, Ends
<1> QED
  BY <1>1, <1>2, <1>3, <1>4, <1>6, <1>7, <1>8 DEF Next, Call, Step
LEMMA SplitInvInit == Init => SplitInv
BY DEF Init, SplitInv

\* SplitIpv4 never comes back to an address it has listed, for any ranges and
\* any number of addresses, if the range does not end at the largest.
THEOREM SplitGoesForward == Spec => []SplitAdvances
<1>1. TypeOK /\ SplitInv => SplitAdvances
  <2> SUFFICES ASSUME TypeOK, SplitInv, NEW p \in Processes, pc[p] = "split",
                      end[p] < ByteSize - 1, NEW a \in ToSet(ips[p])
               PROVE  a < next[p]
    BY DEF SplitAdvances
  <2>1. PICK i \in 1..Len(ips[p]) : a = ips[p][i]
    BY LenProperties DEF ToSet, TypeOK
  <2> QED
    BY <2>1 DEF SplitInv, Ends
<1>2. TypeOK /\ SplitInv /\ [Next]_vars => SplitInv'
  BY SplitInvStep
<1> QED
  BY <1>1, <1>2, HostsInit, SplitInvInit, HostsTypeStep, PTL DEF Spec
-----------------------------------------------------------------------------
\* Three actions touch /etc/hosts or what an update will write. The others
\* leave both alone and leave the update, if they are in one.
Elsewhere(p) ==
  /\ UNCHANGED <<hosts, content, past>>
  /\ \A q \in Processes \ {p} : UNCHANGED <<pc[q], prefix[q], ips[q]>>
  /\ pc'[p] \notin {"open", "flush"}
  /\ intact' => intact /\ pc[p] # "flush"

LEMMA HostsSteps ==
  ASSUME TypeOK, [Next]_vars
  PROVE  \/ UNCHANGED vars
         \/ \E p \in Processes : Read(p) \/ Open(p) \/ Flush(p) \/ Elsewhere(p)
<1> USE DEF Goto, files, locals, past, Elsewhere
<1>1. ASSUME NEW p \in Processes, Call(p)
      PROVE  Elsewhere(p)
  BY <1>1 DEF Call, AddRange, AddList, Begin, TypeOK
<1>2. ASSUME NEW p \in Processes, SplitStep(p) \/ SplitDone(p)
      PROVE  Elsewhere(p)
  BY <1>2 DEF SplitStep, SplitDone, TypeOK
<1>3. ASSUME NEW p \in Processes, CannotOpen(p) \/ FlushFails(p)
      PROVE  Elsewhere(p)
  BY <1>3 DEF CannotOpen, FlushFails, Close, TypeOK
<1>4. ASSUME NEW p \in Processes,
             OpenInventory(p) \/ CannotOpenInventory(p) \/ StoreInventory(p)
      PROVE  Elsewhere(p)
  BY <1>4 DEF OpenInventory, CannotOpenInventory, StoreInventory, TypeOK
<1>5. ASSUME NEW p \in Processes, Crash(p)
      PROVE  Elsewhere(p)
  BY <1>5 DEF Crash, TypeOK
<1> QED
  BY <1>1, <1>2, <1>3, <1>4, <1>5 DEF Next, Step
-----------------------------------------------------------------------------
(* While nobody wrote from an outdated reading, /etc/hosts and what each   *)
(* update will write are unambiguous, and who truncated the file last      *)
(* finds it empty.                                                         *)
New(p) == content[p] \o Mappings(prefix[p], ips[p])

UniqueInv ==
  serial =>
    /\ Unique(hosts)
    /\ \A p \in Processes :
         /\ pc[p] = "flush" /\ p \notin stale => hosts = <<>>
         /\ pc[p] \in {"open", "flush"} => Unique(New(p))

LEMMA UniqueInvStep ==
  ASSUME NoListRepeats, TypeOK, SplitInv, UniqueInv, [Next]_vars
  PROVE  UniqueInv'
<1> USE DEF Goto, files, locals, past
<1>1. ASSUME NEW p \in Processes, Read(p), serial'
      PROVE  UniqueInv'
  <2>1. /\ UNCHANGED <<hosts, prefix, ips, serial>>
        /\ \A q \in Processes \ {p} : UNCHANGED <<pc[q], content[q]>>
        /\ pc[p] = "read" /\ pc'[p] = "open" /\ stale \subseteq stale' \cup {p}
        /\ content'[p] = Kept(hosts, prefix[p], ips[p])
    BY <1>1 DEF Read, TypeOK
  <2>2. /\ hosts \in Seq(Lines) /\ prefix[p] \in NodePrefixes \cup {NoPrefix}
        /\ ips[p] \in Seq(Bytes)
    BY DEF TypeOK
  <2>3. Unique(hosts) /\ NoRepeat(ips[p])
    BY <1>1, <2>1 DEF UniqueInv, SplitInv
  <2>4. Unique(New(p))'
    BY <2>1, <2>2, <2>3, UpdateIsUnique DEF New
  <2>5. \A q \in Processes \ {p} : New(q)' = New(q)
    BY <2>1 DEF New
  <2> QED
    BY <1>1, <2>1, <2>3, <2>4, <2>5 DEF UniqueInv
<1>2. ASSUME NEW p \in Processes, Open(p), serial'
      PROVE  UniqueInv'
  <2>1. /\ UNCHANGED <<content, prefix, ips>> /\ serial /\ hosts' = <<>>
        /\ \A q \in Processes \ {p} : UNCHANGED pc[q]
        /\ pc[p] = "open" /\ pc'[p] = "flush"
    BY <1>2 DEF Open, Outdate, TypeOK
  <2>2. Unique(hosts')
    BY <2>1 DEF Unique
  <2>3. \A q \in Processes : New(q)' = New(q)
    BY <2>1 DEF New
  <2> QED
    BY <2>1, <2>2, <2>3 DEF UniqueInv
<1>3. ASSUME NEW p \in Processes, Flush(p), serial'
      PROVE  UniqueInv'
  <2>1. /\ UNCHANGED <<content, prefix, ips>> /\ serial /\ p \notin stale
        /\ \A q \in Processes \ {p} : UNCHANGED pc[q]
        /\ pc[p] = "flush" /\ pc'[p] = "inventory"
        /\ \A q \in Processes \ {p} : pc[q] = "flush" => q \in stale'
        /\ hosts' = Overwrite(hosts, New(p))
    BY <1>3 DEF Flush, Close, Outdate, New, TypeOK
  <2>2. hosts = <<>> /\ Unique(New(p))
    BY <2>1 DEF UniqueInv
  <2>3. New(p) \in Seq(Lines) /\ hosts \in Seq(Lines)
    BY MappingLines, ConcatProperties DEF New, TypeOK
  <2>4. hosts' = New(p)
    BY <2>1, <2>2, <2>3, OverwriteLines
  <2>5. \A q \in Processes : New(q)' = New(q)
    BY <2>1 DEF New
  <2> QED
    BY <2>1, <2>2, <2>4, <2>5 DEF UniqueInv
<1>4. ASSUME NEW p \in Processes, Elsewhere(p)
      PROVE  UniqueInv'
  <2>1. \A q \in Processes \ {p} : New(q)' = New(q)
    BY <1>4 DEF Elsewhere, New
  <2> QED
    BY <1>4, <2>1 DEF Elsewhere, UniqueInv
<1>5. CASE UNCHANGED vars
  <2>1. \A q \in Processes : New(q)' = New(q)
    BY <1>5 DEF vars, New
  <2> QED
    BY <1>5, <2>1 DEF vars, UniqueInv
<1>6. ~serial' => UniqueInv'
  BY DEF UniqueInv
<1> QED
  BY <1>1, <1>2, <1>3, <1>4, <1>5, <1>6, HostsSteps

\* For any addresses, prefixes and processes: if /etc/hosts names each address
\* and host once at first and no list asked for names an address twice, it
\* goes on so while nobody writes the file from an outdated reading.
THEOREM HostsGivesOneMappingEach ==
  ASSUME NoListRepeats, Unique(InitialHosts)
  PROVE  Spec => []OneMappingEach
<1>1. Init => UniqueInv
  BY DEF Init, UniqueInv
<1>2. TypeOK /\ SplitInv /\ UniqueInv /\ [Next]_vars => UniqueInv'
  BY UniqueInvStep
<1>3. UniqueInv => OneMappingEach
  BY DEF UniqueInv, Unique, OneMappingEach
<1>4. TypeOK /\ SplitInv /\ [Next]_vars => SplitInv'
  BY SplitInvStep
<1> QED
  BY <1>1, <1>2, <1>3, <1>4, HostsInit, SplitInvInit, HostsTypeStep, PTL DEF Spec
-----------------------------------------------------------------------------
(* An update reads the file, truncates it and writes it in three steps. As *)
(* long as no write failed, was cut off or came from an outdated reading,  *)
(* at most one is between truncating and writing; at any other moment the  *)
(* file is what atomic updates would have made of it, and an update whose  *)
(* reading is current holds the lines such an update would keep.           *)
Flushing(p) == pc[p] = "flush"

Current(p) == content[p] = Kept(atomic, prefix[p], ips[p])

Clean == intact /\ serial /\ \A p \in Processes : Flushing(p) => p \notin stale

AtomicInv ==
  Clean =>
    /\ \A p, q \in Processes : Flushing(p) /\ Flushing(q) => p = q
    /\ \A p \in Processes : Flushing(p) => hosts = <<>> /\ Current(p)
    /\ (\A p \in Processes : ~Flushing(p)) =>
         /\ hosts = atomic
         /\ \A p \in Processes \ stale : pc[p] = "open" => Current(p)

LEMMA AtomicInvStep ==
  ASSUME TypeOK, AtomicInv, [Next]_vars
  PROVE  AtomicInv'
<1> USE DEF Goto, files, locals, past, Flushing
<1>1. ASSUME NEW p \in Processes, Read(p), Clean'
      PROVE  AtomicInv'
  <2>1. /\ UNCHANGED <<hosts, prefix, ips, serial, intact, atomic>>
        /\ \A q \in Processes \ {p} : UNCHANGED <<pc[q], content[q]>>
        /\ pc[p] = "read" /\ pc'[p] = "open" /\ stale' = stale \ {p}
        /\ content'[p] = Kept(hosts, prefix[p], ips[p])
    BY <1>1 DEF Read, TypeOK
  <2>2. Clean
    BY <1>1, <2>1 DEF Clean
  <2>3. \A q \in Processes \ {p} : Current(q)' = Current(q)
    BY <2>1 DEF Current
  <2>4. \A q \in Processes : Flushing(q)' = Flushing(q)
    BY <2>1
  <2>5. hosts = atomic => Current(p)'
    BY <2>1 DEF Current
  <2> QED
    BY <2>1, <2>2, <2>3, <2>4, <2>5 DEF AtomicInv
<1>2. ASSUME NEW p \in Processes, Open(p), Clean'
      PROVE  AtomicInv'
  <2>1. /\ UNCHANGED <<content, prefix, ips, intact, atomic>> /\ hosts' = <<>>
        /\ serial /\ p \notin stale
        /\ \A q \in Processes \ {p} : UNCHANGED pc[q]
        /\ pc[p] = "open" /\ pc'[p] = "flush"
        /\ \A q \in Processes \ {p} : pc[q] = "flush" => q \in stale'
    BY <1>2 DEF Open, Outdate, TypeOK, Clean
  <2>2. \A q \in Processes : ~Flushing(q)
    BY <1>2, <2>1 DEF Clean
  <2>3. Clean
    BY <1>2, <2>1, <2>2 DEF Clean
  <2>4. Current(p)
    BY <2>1, <2>2, <2>3 DEF AtomicInv
  <2>5. Current(p)'
    BY <2>1, <2>4 DEF Current
  <2> QED
    BY <2>1, <2>2, <2>5 DEF AtomicInv
<1>3. ASSUME NEW p \in Processes, Flush(p), Clean'
      PROVE  AtomicInv'
  <2>1. /\ UNCHANGED <<content, prefix, ips, intact>> /\ intact /\ serial /\ p \notin stale
        /\ \A q \in Processes \ {p} : UNCHANGED pc[q]
        /\ pc[p] = "flush" /\ pc'[p] = "inventory"
        /\ stale' = stale \cup {q \in Processes \ {p} : pc[q] \in {"open", "flush"}}
        /\ hosts' = Overwrite(hosts, New(p))
        /\ atomic' = Kept(atomic, prefix[p], ips[p]) \o Mappings(prefix[p], ips[p])
    BY <1>3 DEF Flush, Close, Outdate, New, TypeOK, Clean
  <2>2. \A q \in Processes \ {p} : ~Flushing(q)
    BY <1>3, <2>1 DEF Clean
  <2>3. Clean
    BY <2>1, <2>2 DEF Clean
  <2>4. hosts = <<>> /\ Current(p)
    BY <2>1, <2>3 DEF AtomicInv
  <2>5. New(p) \in Seq(Lines) /\ hosts \in Seq(Lines)
    BY MappingLines, ConcatProperties DEF New, TypeOK
  <2>6. hosts' = New(p)
    BY <2>1, <2>4, <2>5, OverwriteLines
  <2>7. hosts' = atomic'
    BY <2>1, <2>4, <2>6 DEF New, Current
  <2>8. \A q \in Processes : ~Flushing(q)'
    BY <2>1, <2>2
  <2>9. \A q \in Processes \ stale' : pc'[q] # "open"
    BY <2>1
  <2> QED
    BY <2>7, <2>8, <2>9 DEF AtomicInv
<1>4. ASSUME NEW p \in Processes, Elsewhere(p), Clean'
      PROVE  AtomicInv'
  <2>1. Clean
    BY <1>4 DEF Elsewhere, Clean
  <2>2. \A q \in Processes : Flushing(q)' = Flushing(q)
    BY <1>4 DEF Elsewhere, Clean
  <2>3. \A q \in Processes \ {p} : Current(q)' = Current(q)
    BY <1>4 DEF Elsewhere, Current
  <2> QED
    BY <1>4, <2>1, <2>2, <2>3 DEF Elsewhere, AtomicInv
<1>5. CASE UNCHANGED vars
  <2>1. Clean' = Clean /\ \A q \in Processes : Current(q)' = Current(q)
    BY <1>5 DEF vars, Clean, Current
  <2> QED
    BY <1>5, <2>1 DEF vars, AtomicInv
<1>6. ~Clean' => AtomicInv'
  BY DEF AtomicInv
<1> QED
  BY <1>1, <1>2, <1>3, <1>4, <1>5, <1>6, HostsSteps

\* Reading, truncating and writing by several processes comes to the same
\* file as atomic updates, for any processes, addresses and prefixes.
THEOREM HostsUpdatesAddUp == Spec => []UpdatesAddUp
<1>1. Init => AtomicInv
  BY DEF Init, AtomicInv, Flushing
<1>2. TypeOK /\ AtomicInv /\ [Next]_vars => AtomicInv'
  BY AtomicInvStep
<1>3. AtomicInv => UpdatesAddUp
  BY DEF AtomicInv, UpdatesAddUp, Clean, Flushing
<1> QED
  BY <1>1, <1>2, <1>3, HostsInit, HostsTypeStep, PTL DEF Spec
-----------------------------------------------------------------------------
(* A line that was never asked for is in the file that atomic updates      *)
(* would have made: each address a call holds was asked for.               *)
AskedFor(a) ==
  \/ \E range \in Ranges : a \in range[1]..range[2]
  \/ \E list \in Lists : \E i \in 1..Len(list) : list[i] = a

InRange(p, range) ==
  /\ end[p] = range[2]
  /\ Ends(p) => /\ range[1] <= next[p]
                /\ \A i \in 1..Len(ips[p]) : ips[p][i] \in range[1]..range[2]

AskedInv ==
  \A p \in Processes :
    /\ pc[p] # "idle" => prefix[p] \in NodePrefixes
    /\ pc[p] = "split" => \E range \in Ranges : InRange(p, range)
    /\ pc[p] \notin {"idle", "split"} => \A i \in 1..Len(ips[p]) : AskedFor(ips[p][i])

ForeignInv ==
  intact /\ serial => \A line \in ToSet(InitialHosts) : ~Asked(line) => line \in ToSet(atomic)

\* Only lines that were asked for match the lists of an update.
LEMMA MatchesAsked ==
  ASSUME AskedInv, NEW p \in Processes, pc[p] \notin {"idle", "split"},
         NEW line, Matches(line, prefix[p], ips[p])
  PROVE  Asked(line)
<1>1. CASE HasIp(line, ips[p])
  <2>1. PICK i \in 1..Len(ips[p]) : \/ line.ip \in Bytes /\ Begins(ips[p][i], line.ip)
                                    \/ ips[p][i] \in line.mentions
    BY <1>1 DEF HasIp
  <2> DEFINE a == ips[p][i]
  <2>2. AskedFor(a)
    BY DEF AskedInv
  <2>3. HasIp(line, <<a>>)
    BY <2>1 DEF HasIp
  <2>4. ASSUME NEW list \in Lists, NEW k \in 1..Len(list), list[k] = a
        PROVE  HasIp(line, list)
    BY <2>1, <2>4 DEF HasIp
  <2> HIDE DEF a
  <2> QED
    BY <2>2, <2>3, <2>4 DEF AskedFor, Asked
<1>2. CASE HasHost(line, prefix[p], ips[p])
  <2>1. prefix[p] \in NodePrefixes
    BY DEF AskedInv
  <2> QED
    BY <1>2, <2>1, HostsAssumption DEF HasHost, Asked
<1> QED
  BY <1>1, <1>2 DEF Matches

LEMMA AskedInvStep ==
  ASSUME TypeOK, AskedInv, [Next]_vars
  PROVE  AskedInv'
<1> USE DEF Goto, locals
<1>1. ASSUME NEW p \in Processes, NEW pre \in NodePrefixes, NEW range \in Ranges,
             AddRange(p, pre, range)
      PROVE  AskedInv'
  <2>1. /\ \A q \in Processes \ {p} : UNCHANGED <<pc[q], prefix[q], ips[q], next[q], end[q]>>
        /\ pc'[p] = "split" /\ prefix'[p] = pre /\ ips'[p] = <<>>
        /\ next'[p] = range[1] /\ end'[p] = range[2]
    BY <1>1 DEF AddRange, Begin, TypeOK
  <2>2. range[1] \in Int
    BY HostsAssumption DEF Bytes
  <2> QED
    BY <2>1, <2>2 DEF AskedInv, InRange, Ends
<1>2. ASSUME NEW p \in Processes, NEW pre \in NodePrefixes, NEW list \in Lists,
             AddList(p, pre, list)
      PROVE  AskedInv'
  <2>1. /\ \A q \in Processes \ {p} : UNCHANGED <<pc[q], prefix[q], ips[q], next[q], end[q]>>
        /\ pc'[p] = "read" /\ prefix'[p] = pre /\ ips'[p] = list
    BY <1>2 DEF AddList, Begin, TypeOK
  <2>2. \A i \in 1..Len(list) : AskedFor(list[i])
    BY DEF AskedFor
  <2> QED
    BY <2>1, <2>2 DEF AskedInv, InRange, Ends
<1>3. ASSUME NEW p \in Processes, SplitStep(p) PROVE AskedInv'
  <2>1. /\ \A q \in Processes \ {p} : UNCHANGED <<pc[q], prefix[q], ips[q], next[q], end[q]>>
        /\ pc[p] = "split" /\ UNCHANGED <<pc[p], prefix[p], end[p]>> /\ next[p] <= end[p]
        /\ next'[p] = (next[p] + 1) % ByteSize
        /\ ips'[p] = IF Len(ips[p]) < MaxList THEN Append(ips[p], next[p]) ELSE ips[p]
    BY <1>3 DEF SplitStep, TypeOK
  <2>2. next[p] \in Bytes /\ end[p] \in Bytes /\ ips[p] \in Seq(Bytes)
    BY DEF TypeOK
  <2>3. PICK range \in Ranges : InRange(p, range)
    BY <2>1 DEF AskedInv
  <2>4. range[1] \in Int
    BY HostsAssumption DEF Bytes
  <2>5. ASSUME Ends(p)
        PROVE  /\ range[1] <= next'[p]
               /\ \A i \in 1..Len(ips'[p]) : ips'[p][i] \in range[1]..range[2]
    <3>1. ByteSize \in Nat \ {0} /\ next[p] \in 0..(ByteSize - 1) /\ next[p] < ByteSize - 1
      BY <2>1, <2>2, <2>5, HostsAssumption DEF Bytes, Ends
    <3>2. (next[p] + 1) % ByteSize = next[p] + 1
      BY <3>1
    <3>3. next[p] \in range[1]..range[2]
      BY <2>1, <2>3, <2>4, <2>5, <3>1 DEF InRange
    <3>4. \A i \in 1..Len(Append(ips[p], next[p])) :
            Append(ips[p], next[p])[i] \in range[1]..range[2]
      <4>1. /\ Len(Append(ips[p], next[p])) = Len(ips[p]) + 1 /\ Len(ips[p]) \in Nat
            /\ Append(ips[p], next[p])[Len(ips[p]) + 1] = next[p]
            /\ \A i \in 1..Len(ips[p]) : Append(ips[p], next[p])[i] = ips[p][i]
        BY <2>2, AppendProperties
      <4> QED
        BY <2>3, <2>5, <3>3, <4>1 DEF InRange
    <3>5. range[1] <= next'[p]
      BY <2>1, <2>4, <3>1, <3>2, <3>3
    <3>6. ips'[p] = Append(ips[p], next[p]) \/ ips'[p] = ips[p]
      BY <2>1
    <3> QED
      BY <2>3, <2>5, <3>4, <3>5, <3>6 DEF InRange
  <2>6. InRange(p, range)'
    BY <2>1, <2>3, <2>5 DEF InRange, Ends
  <2>7. \A q \in Processes \ {p}, r \in Ranges : InRange(q, r) => InRange(q, r)'
    BY <2>1 DEF InRange, Ends
  <2> QED
    BY <2>1, <2>6, <2>7 DEF AskedInv
<1>4. ASSUME NEW p \in Processes, SplitDone(p) PROVE AskedInv'
  <2>1. /\ \A q \in Processes \ {p} : UNCHANGED <<pc[q], prefix[q], ips[q], next[q], end[q]>>
        /\ pc[p] = "split" /\ pc'[p] \in {"idle", "read"} /\ next[p] > end[p]
        /\ UNCHANGED <<ips[p], prefix[p]>>
    BY <1>4 DEF SplitDone, TypeOK
  <2>2. Ends(p)
    BY <2>1, HostsAssumption DEF Ends, TypeOK, Bytes
  <2>3. \A i \in 1..Len(ips[p]) : AskedFor(ips[p][i])
    BY <2>1, <2>2 DEF AskedInv, AskedFor, InRange
  <2> QED
    BY <2>1, <2>3 DEF AskedInv, InRange, Ends
<1>5. ASSUME NEW p \in Processes,
             \/ Read(p) \/ Open(p) \/ Flush(p) \/ CannotOpen(p) \/ FlushFails(p)
             \/ OpenInventory(p) \/ CannotOpenInventory(p) \/ StoreInventory(p)
      PROVE  AskedInv'
  <2>1. /\ UNCHANGED <<prefix, ips, next, end>> /\ pc[p] \notin {"idle", "split"}
        /\ pc'[p] # "split" /\ \A q \in Processes \ {p} : UNCHANGED pc[q]
    BY <1>5 DEF TypeOK, Read, Open, Flush, CannotOpen, FlushFails, Close,
                OpenInventory, CannotOpenInventory, StoreInventory
  <2> QED
    BY <2>1 DEF AskedInv, InRange, Ends
<1>6. ASSUME NEW p \in Processes, Crash(p) PROVE AskedInv'
  <2>1. /\ UNCHANGED <<prefix, ips, next, end>> /\ pc'[p] = "idle"
        /\ \A q \in Processes \ {p} : UNCHANGED pc[q]
    BY <1>6 DEF Crash, TypeOK
  <2> QED
    BY <2>1 DEF AskedInv, InRange, Ends
<1>7. CASE UNCHANGED vars
  BY <1>7 DEF vars, AskedInv, InRange, Ends
<1> QED
  BY <1>1, <1>2, <1>3, <1>4, <1>5, <1>6, <1>7 DEF Next, Call, Step

LEMMA ForeignInvStep ==
  ASSUME TypeOK, AskedInv, ForeignInv, [Next]_vars
  PROVE  ForeignInv'
<1> USE DEF past
<1>1. ASSUME NEW p \in Processes, Flush(p), intact', serial'
      PROVE  ForeignInv'
  <2> DEFINE kept == Kept(atomic, prefix[p], ips[p])
             new  == Mappings(prefix[p], ips[p])
  <2>1. pc[p] = "flush" /\ intact /\ serial /\ atomic' = kept \o new
    BY <1>1 DEF Flush, Close, Goto, Outdate
  <2>2. /\ kept \in Seq(Lines) /\ new \in Seq(Lines) /\ atomic \in Seq(Lines)
        /\ KeptOf(kept, atomic, prefix[p], ips[p], Len(atomic))
    BY KeptLines, MappingLines DEF TypeOK
  <2> HIDE DEF kept, new
  <2>3. ASSUME NEW line \in ToSet(InitialHosts), ~Asked(line)
        PROVE  line \in ToSet(atomic')
    <3>1. PICK i \in 1..Len(atomic) : atomic[i] = line
      BY <2>1, <2>2, <2>3, LenProperties DEF ForeignInv, ToSet
    <3>2. ~Matches(atomic[i], prefix[p], ips[p])
      BY <2>1, <2>3, <3>1, MatchesAsked
    <3>3. PICK j \in 1..Len(kept) : kept[j] = line
      BY <2>2, <3>1, <3>2 DEF KeptOf
    <3>4. line \in ToSet(kept)
      BY <2>2, <3>3, LenProperties DEF ToSet
    <3> QED
      BY <2>1, <2>2, <3>4, ConcatSet
  <2> QED
    BY <2>3 DEF ForeignInv
<1>2. ASSUME NEW p \in Processes, Read(p) \/ Open(p)
      PROVE  ForeignInv'
  BY <1>2 DEF Read, Open, Outdate, ForeignInv
<1>3. ASSUME NEW p \in Processes, Elsewhere(p)
      PROVE  ForeignInv'
  BY <1>3 DEF Elsewhere, ForeignInv
<1>4. CASE UNCHANGED vars
  BY <1>4 DEF vars, ForeignInv
<1>5. ~(intact' /\ serial') => ForeignInv'
  BY DEF ForeignInv
<1> QED
  BY <1>1, <1>2, <1>3, <1>4, <1>5, HostsSteps

\* For any processes, ranges and lists, a line that nobody asked for survives
\* every update that was not cut off, did not fail and did not lose a race.
THEOREM HostsKeepsForeignLines == Spec => []ForeignLinesStay
<1>1. Init => AskedInv /\ ForeignInv
  BY DEF Init, AskedInv, ForeignInv
<1>2. TypeOK /\ AskedInv /\ [Next]_vars => AskedInv'
  BY AskedInvStep
<1>3. TypeOK /\ AskedInv /\ ForeignInv /\ [Next]_vars => ForeignInv'
  BY ForeignInvStep
<1>4. ForeignInv /\ UpdatesAddUp => ForeignLinesStay
  BY DEF ForeignInv, UpdatesAddUp, ForeignLinesStay
<1> QED
  BY <1>1, <1>2, <1>3, <1>4, HostsInit, HostsTypeStep, HostsUpdatesAddUp, PTL DEF Spec
-----------------------------------------------------------------------------
(* An update that went through alone has its lines in the file from its    *)
(* write on, and only then does it fill the inventory it truncated.        *)
Updating == {"open", "flush", "inventory", "store"}

InventoryInv ==
  complete =>
    /\ \A p, q \in Processes : pc[p] \in Updating /\ pc[q] \in Updating => p = q
    /\ (\A p \in Processes : pc[p] \notin Updating) => ToSet(inventory) \subseteq ToSet(hosts)
    /\ \A p \in Processes : pc[p] \in {"inventory", "store"} =>
         ToSet(Mappings(prefix[p], ips[p])) \subseteq ToSet(hosts)
    /\ \A p \in Processes : pc[p] = "store" => inventory = <<>>

LEMMA InventoryInvStep ==
  ASSUME TypeOK, InventoryInv, [Next]_vars
  PROVE  InventoryInv'
<1> USE DEF Goto, files, locals, Updating
<1>1. ASSUME NEW p \in Processes, Call(p) \/ SplitStep(p) \/ SplitDone(p)
      PROVE  InventoryInv'
  <2>1. /\ UNCHANGED <<hosts, inventory, complete>>
        /\ \A q \in Processes \ {p} : UNCHANGED <<pc[q], prefix[q], ips[q]>>
        /\ pc[p] \notin Updating /\ pc'[p] \notin Updating
    BY <1>1 DEF Call, AddRange, AddList, Begin, SplitStep, SplitDone, TypeOK
  <2> QED
    BY <2>1 DEF InventoryInv
<1>2. ASSUME NEW p \in Processes, Read(p)
      PROVE  InventoryInv'
  <2>1. /\ \A q \in Processes \ {p} : UNCHANGED pc[q]
        /\ pc'[p] = "open" /\ complete' = \A q \in Processes \ {p} : pc[q] = "idle"
    BY <1>2 DEF Read, TypeOK
  <2> QED
    BY <2>1 DEF InventoryInv
<1>3. ASSUME NEW p \in Processes, Open(p)
      PROVE  InventoryInv'
  <2>1. /\ \A q \in Processes \ {p} : UNCHANGED pc[q]
        /\ pc[p] = "open" /\ pc'[p] = "flush" /\ UNCHANGED complete
    BY <1>3 DEF Open, TypeOK
  <2> QED
    BY <2>1 DEF InventoryInv
<1>4. ASSUME NEW p \in Processes, Flush(p)
      PROVE  InventoryInv'
  <2>1. /\ \A q \in Processes \ {p} : UNCHANGED pc[q]
        /\ pc[p] = "flush" /\ pc'[p] = "inventory" /\ UNCHANGED <<complete, prefix, ips>>
        /\ hosts' = Overwrite(hosts, content[p] \o Mappings(prefix[p], ips[p]))
    BY <1>4 DEF Flush, Close, TypeOK
  <2> DEFINE m == Mappings(prefix[p], ips[p])
  <2>2. m \in Seq(Lines) /\ content[p] \in Seq(Lines) /\ hosts \in Seq(Lines)
    BY MappingLines DEF TypeOK
  <2>3. /\ ToSet(m) \subseteq ToSet(content[p] \o m)
        /\ ToSet(content[p] \o m) \subseteq ToSet(Overwrite(hosts, content[p] \o m))
    BY <2>2, ConcatSet, ConcatProperties, OverwriteLines
  <2>4. ToSet(m) \subseteq ToSet(hosts')
    BY <2>1, <2>3
  <2> HIDE DEF m
  <2>5. m' = m
    BY <2>1 DEF m
  <2> QED
    BY <2>1, <2>4, <2>5 DEF InventoryInv, m
<1>5. ASSUME NEW p \in Processes,
             CannotOpen(p) \/ FlushFails(p) \/ CannotOpenInventory(p) \/ Crash(p)
      PROVE  InventoryInv'
  BY <1>5 DEF CannotOpen, FlushFails, CannotOpenInventory, Crash, InventoryInv
<1>6. ASSUME NEW p \in Processes, OpenInventory(p)
      PROVE  InventoryInv'
  <2>1. /\ \A q \in Processes \ {p} : UNCHANGED pc[q]
        /\ pc[p] = "inventory" /\ pc'[p] = "store" /\ inventory' = <<>>
        /\ UNCHANGED <<hosts, complete, prefix, ips>>
    BY <1>6 DEF OpenInventory, TypeOK
  <2> QED
    BY <2>1 DEF InventoryInv
<1>7. ASSUME NEW p \in Processes, StoreInventory(p)
      PROVE  InventoryInv'
  <2>1. /\ \A q \in Processes \ {p} : UNCHANGED pc[q]
        /\ pc[p] = "store" /\ pc'[p] = "idle"
        /\ UNCHANGED <<hosts, complete, prefix, ips>>
        /\ inventory' = Overwrite(inventory, Mappings(prefix[p], ips[p]))
    BY <1>7 DEF StoreInventory, TypeOK
  <2>2. Mappings(prefix[p], ips[p]) \in Seq(Lines) /\ inventory \in Seq(Lines)
    BY MappingLines DEF TypeOK
  <2>3. complete => inventory = <<>>
    BY <2>1 DEF InventoryInv
  <2>4. complete => inventory' = Mappings(prefix[p], ips[p])
    BY <2>1, <2>2, <2>3, OverwriteLines
  <2> QED
    BY <2>1, <2>4 DEF InventoryInv
<1>8. CASE UNCHANGED vars
  BY <1>8 DEF vars, InventoryInv
<1> QED
  BY <1>1, <1>2, <1>3, <1>4, <1>5, <1>6, <1>7, <1>8 DEF Next, Step

\* After an update by any process that went through alone, the inventory
\* holds only what /etc/hosts maps.
THEOREM HostsCoversInventory == Spec => []InventoryAgrees
<1>1. Init => InventoryInv
  <2>1. ToSet(<<>>) = {}
    BY EmptySeq, LenProperties DEF ToSet
  <2> QED
    BY <2>1 DEF Init, InventoryInv, Updating
<1>2. TypeOK /\ InventoryInv /\ [Next]_vars => InventoryInv'
  BY InventoryInvStep
<1>3. InventoryInv => InventoryAgrees
  BY DEF InventoryInv, InventoryAgrees, Updating
<1> QED
  BY <1>1, <1>2, <1>3, HostsInit, HostsTypeStep, PTL DEF Spec
=============================================================================
