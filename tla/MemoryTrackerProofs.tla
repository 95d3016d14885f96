------------------------ MODULE MemoryTrackerProofs ------------------------
(***************************************************************************)
(* The memory tracker implements the registry for any objects, widths and  *)
(* alignment, so Dump meets live objects only however often s_index wraps. *)
(***************************************************************************)
EXTENDS MemoryTracker, TLAPS

MapIsLive == MemoryRegistry!MapIsLive

\* What Build needs of MemoryTracker: the key it enters is one of the keys.
CounterInv == counter \in Nat

LEMMA NextIndexInRange == ASSUME CounterInv PROVE NextIndex \in Indices
  BY MemoryAssumption DEF CounterInv, NextIndex, Indices

LEMMA InitImplements == Init => MemoryRegistry!Init
<1>1. 0 \in Indices BY MemoryAssumption DEF Indices
<1>2. QED BY <1>1 DEF Init, MemoryRegistry!Init

LEMMA StepImplements ==
  ASSUME CounterInv, [Next]_vars
  PROVE  [MemoryRegistry!Next]_MemoryRegistry!vars
<1>1. CASE \E b \in Blocks, n \in Lengths, a \in BOOLEAN, p \in Bases : New(b, n, a, p)
  <2>1. PICK b \in Blocks, n \in Lengths, a \in BOOLEAN, p \in Bases : New(b, n, a, p)
    BY <1>1
  <2>2. NextIndex \in Indices BY NextIndexInRange
  <2>3. MemoryRegistry!Build(b, NextIndex)
    BY <2>1 DEF New, MemoryRegistry!Build
  <2>4. QED BY <2>2, <2>3 DEF MemoryRegistry!Next
<1>2. CASE \E b \in Blocks : Delete(b)
  BY <1>2 DEF Delete, MemoryRegistry!Next, MemoryRegistry!Die
<1>3. CASE UNCHANGED vars
  BY <1>3 DEF vars, MemoryRegistry!vars
<1>4. QED BY <1>1, <1>2, <1>3 DEF Next

LEMMA CounterStep == CounterInv /\ [Next]_vars => CounterInv'
<1> SUFFICES ASSUME CounterInv, [Next]_vars PROVE CounterInv'
  OBVIOUS
<1>1. NextIndex \in Nat BY NextIndexInRange DEF Indices
<1>2. counter' \in {counter, NextIndex}
  BY DEF Next, New, Delete, vars
<1>3. QED BY <1>1, <1>2 DEF CounterInv

\* Building and deleting a Memory are the steps of a registry.
THEOREM MemoryImplementsRegistry == Spec => ImplementsRegistry
<1>1. Init => CounterInv BY DEF Init, CounterInv
<1>2. CounterInv /\ [Next]_vars => [MemoryRegistry!Next]_MemoryRegistry!vars
  BY StepImplements
<1>3. QED BY <1>1, <1>2, InitImplements, CounterStep, PTL
            DEF Spec, ImplementsRegistry, MemoryRegistry!Spec

\* What a registry keeps, whoever shares an index.
RegistryInv == MemoryRegistry!TypeOK /\ MapIsLive

LEMMA RegistryStep ==
  ASSUME RegistryInv, [MemoryRegistry!Next]_MemoryRegistry!vars
  PROVE  RegistryInv'
<1> USE DEF RegistryInv, MemoryRegistry!TypeOK
<1>1. ASSUME NEW o \in Blocks, NEW k \in Indices, MemoryRegistry!Build(o, k)
      PROVE  RegistryInv'
  <2>1. MemoryRegistry!TypeOK'
    BY <1>1 DEF MemoryRegistry!Build
  <2>2. ASSUME NEW j \in Indices, map'[j] # NoBlock
        PROVE  map'[j] \in live' /\ index'[map'[j]] = j
    <3>1. CASE j = k
      BY <1>1, <3>1 DEF MemoryRegistry!Build
    <3>2. CASE j # k
      BY <1>1, <2>2, <3>2 DEF MapIsLive, MemoryRegistry!MapIsLive, MemoryRegistry!Build
    <3>3. QED
      BY <3>1, <3>2
  <2>3. QED
    BY <2>1, <2>2 DEF MapIsLive, MemoryRegistry!MapIsLive
<1>2. ASSUME NEW o \in Blocks, MemoryRegistry!Die(o) PROVE RegistryInv'
  BY <1>2, MemoryAssumption DEF MapIsLive, MemoryRegistry!MapIsLive, MemoryRegistry!Die
<1>3. CASE UNCHANGED MemoryRegistry!vars
  BY <1>3 DEF MapIsLive, MemoryRegistry!MapIsLive, MemoryRegistry!vars
<1>4. QED
  BY <1>1, <1>2, <1>3 DEF MemoryRegistry!Next

\* Dump, which follows every pointer of s_map, meets live objects only.
THEOREM DumpMeetsLiveObjects == Spec => []MapIsLive
<1>1. MemoryRegistry!Init => RegistryInv
  BY DEF MemoryRegistry!Init, RegistryInv, MemoryRegistry!TypeOK, MapIsLive, MemoryRegistry!MapIsLive
<1>2. RegistryInv => MapIsLive
  BY DEF RegistryInv
<1>3. RegistryInv /\ [MemoryRegistry!Next]_MemoryRegistry!vars => RegistryInv'
  BY RegistryStep
<1>4. QED
  BY <1>1, <1>2, <1>3, MemoryImplementsRegistry, PTL DEF ImplementsRegistry, MemoryRegistry!Spec
-----------------------------------------------------------------------------
(* The values of the variables, and what the registry holds until s_index  *)
(* wraps.                                                                  *)

LEMMA RoundupIsWord ==
  ASSUME NEW size \in Nat
  PROVE  MemAlignRoundup(size) \in Words /\ MemAlignRoundedUpExtra(size) \in Words
<1> DEFINE sum == (size + Align) % WordSize
<1>1. WordSize \in Nat \ {0} /\ Align \in Nat \ {0}
  BY MemoryAssumption
<1>2. sum \in 0..(WordSize - 1)
  BY <1>1
<1> HIDE DEF sum
<1>3. sum % Align \in 0..sum
  BY <1>1, <1>2
<1>4. MemAlignRoundup(size) = sum - (sum % Align)
  BY DEF MemAlignRoundup, sum
<1>5. MemAlignRoundup(size) \in Words
  BY <1>1, <1>2, <1>3, <1>4 DEF Words
<1>6. MemAlignRoundedUpExtra(size) \in Words
  BY <1>1, <1>5 DEF MemAlignRoundedUpExtra, Words
<1> QED
  BY <1>5, <1>6

LEMMA TypeInit == Init => TypeOK
BY MemoryAssumption DEF Init, TypeOK, Indices, Words

LEMMA TypeStep == TypeOK /\ [Next]_vars => TypeOK'
<1> SUFFICES ASSUME TypeOK, [Next]_vars PROVE TypeOK'
  OBVIOUS
<1> USE MemoryAssumption DEF TypeOK
<1>1. ASSUME NEW b \in Blocks, NEW n \in Lengths, NEW a \in BOOLEAN, NEW p \in Bases,
             New(b, n, a, p)
      PROVE  TypeOK'
  <2> DEFINE size == AdjustedLength(n, a)
  <2>1. NextIndex \in Indices
    BY NextIndexInRange DEF CounterInv, Indices
  <2>2. n \in Words /\ p \in 0..(AddressSize - 1)
    BY DEF Words
  <2>3. size \in Words
    BY <2>2, RoundupIsWord DEF AdjustedLength, Words
  <2>4. /\ live' = live \cup {b} /\ counter' = NextIndex /\ made < MaxMade /\ made' = made + 1
        /\ index' = [index EXCEPT ![b] = NextIndex] /\ map' = [map EXCEPT ![NextIndex] = b]
        /\ aligned' = [aligned EXCEPT ![b] = a] /\ requested' = [requested EXCEPT ![b] = n]
        /\ adjusted' = [adjusted EXCEPT ![b] = size] /\ object' = [object EXCEPT ![b] = p]
    BY <1>1 DEF New
  <2> HIDE DEF size
  <2>5. live' \subseteq Blocks /\ counter' \in Indices /\ made' \in 0..MaxMade
    BY <2>1, <2>4
  <2>6. /\ index' \in [Blocks -> Indices]
        /\ map' \in [Indices -> Blocks \cup {NoBlock}]
        /\ aligned' \in [Blocks -> BOOLEAN]
    BY <2>1, <2>4
  <2>7. /\ requested' \in [Blocks -> Words] /\ adjusted' \in [Blocks -> Words]
        /\ object' \in [Blocks -> 0..(AddressSize - 1)]
    BY <2>2, <2>3, <2>4
  <2> QED
    BY <2>5, <2>6, <2>7
<1>2. ASSUME NEW b \in Blocks, Delete(b) PROVE TypeOK'
  BY <1>2 DEF Delete
<1>3. CASE UNCHANGED vars
  BY <1>3 DEF vars
<1> QED
  BY <1>1, <1>2, <1>3 DEF Next

\* The lengths the constructor computes are words, the indices it gives are
\* indices, whatever wraps.
THEOREM MemoryTypeCorrect == Spec => []TypeOK
BY TypeInit, TypeStep, PTL DEF Spec

\* Before s_index wraps it counts the objects made, and theirs are below it.
TrackedInv ==
  /\ made < IndexSize => counter = made /\ \A b \in live : index[b] \in 1..made
  /\ EveryBlockIsTracked

LEMMA NextIndexCounts ==
  ASSUME TypeOK, made < IndexSize, counter = made
  PROVE  NextIndex = IF made + 1 < IndexSize THEN made + 1 ELSE 0
<1>1. IndexSize \in Nat \ {0} /\ made \in Nat
  BY MemoryAssumption DEF TypeOK
<1>2. CASE made + 1 < IndexSize
  BY <1>1, <1>2 DEF NextIndex
<1>3. CASE made + 1 = IndexSize
  BY <1>1, <1>3 DEF NextIndex
<1> QED
  BY <1>1, <1>2, <1>3

LEMMA TrackedStep == TypeOK /\ TrackedInv /\ [Next]_vars => TrackedInv'
<1> SUFFICES ASSUME TypeOK, TrackedInv, [Next]_vars PROVE TrackedInv'
  OBVIOUS
<1>0. /\ IndexSize \in Nat \ {0} /\ made \in Nat /\ NoBlock \notin Blocks
      /\ live \subseteq Blocks
      /\ index \in [Blocks -> Indices] /\ map \in [Indices -> Blocks \cup {NoBlock}]
  BY MemoryAssumption DEF TypeOK
<1>1. ASSUME NEW b \in Blocks, NEW n \in Lengths, NEW a \in BOOLEAN, NEW p \in Bases,
             New(b, n, a, p)
      PROVE  TrackedInv'
  <2> DEFINE next == NextIndex
  <2>1. next \in Indices
    BY NextIndexInRange DEF CounterInv, Indices, TypeOK
  <2>2. /\ b \notin live /\ live' = live \cup {b} /\ counter' = next /\ made' = made + 1
        /\ index' = [index EXCEPT ![b] = next] /\ map' = [map EXCEPT ![next] = b]
    BY <1>1 DEF New
  <2>3. CASE made >= IndexSize
    BY <1>0, <2>2, <2>3 DEF TrackedInv, EveryBlockIsTracked
  <2>4. CASE made < IndexSize
    <3>1. next = IF made + 1 < IndexSize THEN made + 1 ELSE 0
      BY <2>4, NextIndexCounts DEF TrackedInv
    <3> HIDE DEF next
    <3>2. \A d \in live : index[d] \in 1..made /\ index[d] # next /\ map[index[d]] = d
      BY <1>0, <2>4, <3>1 DEF TrackedInv, EveryBlockIsTracked
    <3>3. \A d \in live : index'[d] = index[d]
      BY <1>0, <2>2
    <3>4. index'[b] = next
      BY <1>0, <2>2
    <3>5. made' < IndexSize => counter' = made' /\ \A d \in live' : index'[d] \in 1..made'
      BY <1>0, <2>2, <3>1, <3>2, <3>3, <3>4
    <3>6. \A d \in live : map'[index'[d]] = d
      BY <1>0, <2>2, <3>2, <3>3
    <3>7. map'[index'[b]] = b
      BY <1>0, <2>1, <2>2, <3>4
    <3> QED
      BY <2>2, <3>5, <3>6, <3>7 DEF TrackedInv, EveryBlockIsTracked
  <2> QED
    BY <1>0, <2>3, <2>4
<1>2. ASSUME NEW b \in Blocks, Delete(b) PROVE TrackedInv'
  <2>1. /\ b \in live /\ live' = live \ {b} /\ map' = [map EXCEPT ![index[b]] = NoBlock]
        /\ UNCHANGED <<counter, made, index>>
    BY <1>2 DEF Delete
  <2>2. made <= IndexSize => \A d \in live' : map'[index'[d]] = d
    <3> SUFFICES ASSUME made <= IndexSize, NEW d \in live' PROVE map'[index'[d]] = d
      OBVIOUS
    <3>1. map[index[d]] = d /\ map[index[b]] = b /\ d # b
      BY <2>1 DEF TrackedInv, EveryBlockIsTracked
    <3> QED
      BY <1>0, <2>1, <3>1
  <2> QED
    BY <2>1, <2>2 DEF TrackedInv, EveryBlockIsTracked
<1>3. CASE UNCHANGED vars
  BY <1>3 DEF vars, TrackedInv, EveryBlockIsTracked
<1> QED
  BY <1>1, <1>2, <1>3 DEF Next

\* Until s_index has wrapped, Dump shows every block that is alive, in
\* whatever order blocks are made and deleted.
THEOREM DumpShowsEveryBlock == Spec => []EveryBlockIsTracked
<1>1. Init => TrackedInv
  BY MemoryAssumption DEF Init, TrackedInv, EveryBlockIsTracked
<1>2. TrackedInv => EveryBlockIsTracked
  BY DEF TrackedInv
<1> QED
  BY <1>1, <1>2, TypeInit, TypeStep, TrackedStep, PTL DEF Spec
-----------------------------------------------------------------------------
(* Alignment, wherever the blocks lie.                                     *)

LEMMA Divides ==
  ASSUME NEW q \in Nat, NEW a \in Nat \ {0}
  PROVE  (a * q) % a = 0
OBVIOUS

LEMMA Cleared ==
  ASSUME NEW x \in Nat, NEW a \in Nat \ {0}
  PROVE  /\ (x - (x % a)) % a = 0
         /\ x - (x % a) \in Nat /\ x - a < x - (x % a) /\ x - (x % a) <= x
<1>1. PICK q \in Nat : x = a * q + (x % a)
  OBVIOUS
<1>2. x - (x % a) = a * q
  BY <1>1
<1>3. (x - (x % a)) % a = 0
  BY <1>2, Divides
<1> QED
  BY <1>3

LEMMA Division ==
  ASSUME NEW x \in Nat, NEW a \in Nat \ {0}
  PROVE  x % a \in 0..(a - 1) /\ \E k \in Nat : x = a * k + (x % a)
<1>1. PICK k \in Nat : x = a * k + (x % a)
  OBVIOUS
<1>2. x % a \in 0..(a - 1)
  OBVIOUS
<1> QED
  BY <1>1, <1>2

\* The remainder is the only one.
LEMMA Remainder ==
  ASSUME NEW q \in Nat, NEW a \in Nat \ {0}, NEW r \in 0..(a - 1)
  PROVE  (a * q + r) % a = r
<1> DEFINE y == a * q + r
<1>1. y \in Nat
  <2>1. a * q \in Nat
    OBVIOUS
  <2> QED
    BY <2>1
<1> DEFINE s == y % a
<1>2. s \in 0..(a - 1) /\ \E k \in Nat : y = a * k + s
  BY <1>1, Division
<1> HIDE DEF s
<1>3. PICK k \in Nat : y = a * k + s
  BY <1>2
<1>4. a * q + r = a * k + s
  BY <1>3
<1>5. k = q
  <2>1. ASSUME NEW d \in Nat \ {0} PROVE a * d >= a
    BY SMTT(30)
  <2>2. CASE k < q
    <3>1. q - k \in Nat \ {0} /\ a * q - a * k = a * (q - k)
      BY <2>2
    <3> QED
      BY <1>2, <1>4, <2>1, <3>1
  <2>3. CASE k > q
    <3>1. k - q \in Nat \ {0} /\ a * k - a * q = a * (k - q)
      BY <2>3
    <3> QED
      BY <1>2, <1>4, <2>1, <3>1
  <2> QED
    BY <2>2, <2>3
<1> QED
  BY <1>3, <1>4, <1>5, <1>2 DEF s

LEMMA Sums ==
  ASSUME NEW a \in Nat, NEW m \in Nat, NEW k \in Nat, NEW n \in Nat
  PROVE  m * k + n \in Nat /\ (a * m) * k + a * n = a * (m * k + n)
OBVIOUS

\* The low word of a number whose low bits are cleared is its low word with
\* its low bits cleared.
LEMMA ClearedWord ==
  ASSUME NEW x \in Nat, NEW a \in Nat \ {0}, NEW w \in Nat \ {0}, w % a = 0
  PROVE  (x - (x % a)) % w = (x % w) - (x % a)
<1>1. PICK m \in Nat : w = a * m
  OBVIOUS
<1> DEFINE r == x % w
<1>2. r \in 0..(w - 1) /\ \E k \in Nat : x = w * k + r
  BY Division
<1> HIDE DEF r
<1>3. PICK k \in Nat : x = w * k + r
  BY <1>2
<1> DEFINE s == r % a
<1>4. s \in 0..(a - 1) /\ \E n \in Nat : r = a * n + s
  <2>1. r \in Nat
    BY <1>2
  <2> QED
    BY <2>1, Division
<1> HIDE DEF s
<1>5. PICK n \in Nat : r = a * n + s
  BY <1>4
<1>6. m * k + n \in Nat /\ x = a * (m * k + n) + s
  <2> DEFINE u == w * k
             v == a * n
  <2>1. u \in Nat /\ v \in Nat
    <3>1. u \in Nat
      OBVIOUS
    <3>2. v \in Nat
      OBVIOUS
    <3> QED
      BY <3>1, <3>2
  <2>2. x = u + (v + s)
    BY <1>3, <1>5
  <2>3. m * k + n \in Nat /\ u + v = a * (m * k + n)
    BY <1>1, Sums
  <2> HIDE DEF u, v
  <2> QED
    BY <1>4, <2>1, <2>2, <2>3
<1>7. x % a = s
  BY <1>4, <1>6, Remainder
<1>8. r - s \in 0..(w - 1)
  <2>1. s <= r
    <3>1. a * n \in Nat
      OBVIOUS
    <3> QED
      BY <1>4, <1>5, <3>1
  <2> QED
    BY <1>2, <1>4, <2>1
<1>9. x - s = w * k + (r - s)
  <2>1. w * k \in Nat
    OBVIOUS
  <2> QED
    BY <1>2, <1>3, <1>4, <2>1
<1>10. (w * k + (r - s)) % w = r - s
  BY <1>8, Remainder
<1> QED
  BY <1>7, <1>9, <1>10 DEF r

\* The pointer MemAlignPointer makes is the low word of an aligned address at
\* most 2 * Align - 1 on.
LEMMA PointerIsAligned ==
  ASSUME NEW o \in Nat, o + 2 * Align <= AddressSize
  PROVE  \E p \in Nat :
           /\ MemAlignPointer(o) = p % WordSize
           /\ p % Align = 0
           /\ o + Align <= p /\ p < o + 2 * Align
           /\ o % Align = 0 => p = o + Align
<1> DEFINE x == o + 2 * Align - 1
<1>1. Align \in Nat \ {0} /\ WordSize \in Nat \ {0} /\ AddressSize \in Nat \ {0}
  BY MemoryAssumption
<1>2. x \in Nat /\ x % AddressSize = x
  BY <1>1
<1>3. MemAlignPointer(o) = (x % WordSize) - (x % Align)
  BY <1>2 DEF MemAlignPointer
<1> HIDE DEF x
<1>4. MemAlignPointer(o) = (x - (x % Align)) % WordSize
  <2>1. WordSize % Align = 0
    BY MemoryAssumption
  <2> QED
    BY <1>1, <1>2, <1>3, <2>1, ClearedWord
<1>5. /\ (x - (x % Align)) % Align = 0
      /\ x - (x % Align) \in Nat /\ x - Align < x - (x % Align) /\ x - (x % Align) <= x
  BY <1>1, <1>2, Cleared
<1>6. o + Align <= x - (x % Align) /\ x - (x % Align) < o + 2 * Align
  BY <1>1, <1>5 DEF x
<1>7. ASSUME o % Align = 0 PROVE x - (x % Align) = o + Align
  <2>1. PICK q \in Nat : o = Align * q
    BY <1>1, <1>7
  <2>2. x = Align * (q + 1) + (Align - 1)
    BY <1>1, <2>1 DEF x
  <2>3. x % Align = Align - 1
    BY <1>1, <2>2
  <2> QED
    BY <1>1, <2>3 DEF x
<1> DEFINE p == x - (x % Align)
<1>8. p \in Nat /\ MemAlignPointer(o) = p % WordSize /\ p % Align = 0
  BY <1>4, <1>5
<1>9. o + Align <= p /\ p < o + 2 * Align /\ (o % Align = 0 => p = o + Align)
  BY <1>6, <1>7
<1> HIDE DEF p
<1> QED
  BY <1>8, <1>9

\* What a length that does not wrap is rounded up to.
LEMMA RoundupHasRoom ==
  ASSUME NEW n \in Nat, n + 2 * Align < WordSize
  PROVE  /\ MemAlignRoundedUpExtra(n) \in Nat
         /\ n + Align < MemAlignRoundedUpExtra(n)
         /\ 2 * Align <= MemAlignRoundedUpExtra(n)
<1> DEFINE x == n + Align
<1>1. Align \in Nat \ {0} /\ WordSize \in Nat \ {0}
  BY MemoryAssumption
<1>2. x \in Nat /\ x % WordSize = x /\ Align <= x
  BY <1>1
<1>3. MemAlignRoundup(n) = x - (x % Align)
  BY <1>2 DEF MemAlignRoundup
<1> DEFINE r == x - (x % Align)
<1>4. r \in Nat /\ x - Align < r /\ r <= x /\ r % Align = 0
  BY <1>1, <1>2, Cleared
<1>5. Align <= r
  <2>1. r # 0
    BY <1>1, <1>2, <1>4
  <2> QED
    BY <1>1, <1>4, <2>1
<1> HIDE DEF r
<1>6. (r + Align) % WordSize = r + Align
  BY <1>1, <1>4 DEF x
<1>7. MemAlignRoundedUpExtra(n) = r + Align
  BY <1>3, <1>6 DEF MemAlignRoundedUpExtra, r
<1> QED
  BY <1>1, <1>4, <1>5, <1>7 DEF x

\* What the constructor stores of a block, and that it has its addresses.
BlockInv ==
  \A b \in live :
    /\ object[b] \in Bases /\ requested[b] \in Lengths
    /\ adjusted[b] = AdjustedLength(requested[b], aligned[b])
    /\ End(b) <= AddressSize

LEMMA BlockStep == TypeOK /\ BlockInv /\ [Next]_vars => BlockInv'
BY DEF TypeOK, BlockInv, End, Next, New, Fits, Delete, vars

\* Where an aligned block of a short request has its aligned address.
LEMMA AlignedAddress ==
  ASSUME TypeOK, BlockInv, NEW b \in live, aligned[b], IsShort(b)
  PROVE  \E p \in AlignedAt(b) :
           object[b] % Align = 0 => p + requested[b] <= End(b)
<1>0. Bases \subseteq Nat /\ Lengths \subseteq Nat /\ {Align, WordSize, AddressSize} \subseteq Nat
  BY MemoryAssumption
<1>1. /\ object[b] \in Nat /\ requested[b] \in Nat
      /\ adjusted[b] = MemAlignRoundedUpExtra(requested[b])
      /\ End(b) <= AddressSize
  BY <1>0 DEF BlockInv, AdjustedLength
<1>2. /\ adjusted[b] \in Nat
      /\ requested[b] + Align < adjusted[b] /\ 2 * Align <= adjusted[b]
  BY <1>1, RoundupHasRoom DEF IsShort
<1>3. object[b] + 2 * Align <= AddressSize
  BY <1>0, <1>1, <1>2 DEF End
<1>4. PICK p \in Nat :
        /\ AlignedObject(b) = p % WordSize
        /\ p % Align = 0
        /\ object[b] + Align <= p /\ p < object[b] + 2 * Align
        /\ object[b] % Align = 0 => p = object[b] + Align
  BY <1>1, <1>3, PointerIsAligned DEF AlignedObject
<1>5. p \in object[b]..(End(b) - 1)
  BY <1>0, <1>1, <1>2, <1>4 DEF End
<1>6. p \in AlignedAt(b)
  BY <1>4, <1>5 DEF AlignedAt
<1>7. object[b] % Align = 0 => p + requested[b] <= End(b)
  BY <1>0, <1>1, <1>2, <1>4 DEF End
<1> QED
  BY <1>6, <1>7

\* The aligned pointer of a block is the low word of an aligned address in it,
\* wherever new[] puts the block and whatever it is aligned to.
THEOREM AlignedPointersPointInside == Spec => []AlignedStartsInside
<1>1. TypeOK /\ BlockInv => AlignedStartsInside
  <2> SUFFICES ASSUME TypeOK, BlockInv, NEW b \in live, aligned[b], IsShort(b)
               PROVE  AlignedAt(b) # {}
    BY DEF AlignedStartsInside
  <2> QED
    BY AlignedAddress
<1>2. Init => BlockInv
  BY DEF Init, BlockInv
<1> QED
  BY <1>1, <1>2, TypeInit, TypeStep, BlockStep, PTL DEF Spec

\* Every request that rounding up does not wrap gets its bytes, from the
\* aligned address on when new[] returned an aligned one.
THEOREM ShortRequestsGetTheirBytes == Spec => []ShortRequestsFit
<1>1. TypeOK /\ BlockInv => ShortRequestsFit
  <2> SUFFICES ASSUME TypeOK, BlockInv, NEW b \in live, IsShort(b)
               PROVE  /\ requested[b] <= adjusted[b]
                      /\ aligned[b] /\ object[b] % Align = 0
                           => \E p \in AlignedAt(b) : p + requested[b] <= End(b)
    BY DEF ShortRequestsFit
  <2>1. requested[b] \in Nat /\ Align \in Nat
    <3>1. Lengths \subseteq Nat /\ Align \in Nat
      BY MemoryAssumption
    <3> QED
      BY <3>1 DEF BlockInv
  <2>2. adjusted[b] = IF aligned[b] THEN MemAlignRoundedUpExtra(requested[b]) ELSE requested[b]
    BY DEF BlockInv, AdjustedLength
  <2>3. /\ MemAlignRoundedUpExtra(requested[b]) \in Nat
        /\ requested[b] + Align < MemAlignRoundedUpExtra(requested[b])
    BY <2>1, RoundupHasRoom DEF IsShort
  <2>4. requested[b] <= adjusted[b]
    BY <2>1, <2>2, <2>3
  <2>5. ASSUME aligned[b], object[b] % Align = 0
        PROVE  \E p \in AlignedAt(b) : p + requested[b] <= End(b)
    BY <2>5, AlignedAddress
  <2> QED
    BY <2>4, <2>5
<1>2. Init => BlockInv
  BY DEF Init, BlockInv
<1> QED
  BY <1>1, <1>2, TypeInit, TypeStep, BlockStep, PTL DEF Spec
=============================================================================
