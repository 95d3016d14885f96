--------------------------- MODULE MemoryTracker ---------------------------
(***************************************************************************)
(* Memory (libs/base/memory): tracked blocks of memory and the registry    *)
(* Dump walks, with the alignment arithmetic of libs/utility/memoryutility *)
(* in the widths the code computes in. s_mutex makes the constructor, the  *)
(* destructor and Dump atomic. The header's name and signature are left    *)
(* out.                                                                    *)
(***************************************************************************)
EXTENDS Integers

CONSTANTS
  Blocks,       \* the Memory objects
  NoBlock,
  Align,        \* Constant::MemAlignSize
  NewAlign,     \* the alignment operator new[] gives
  WordSize,     \* the values of u32_t
  AddressSize,  \* the values of u64_t, and of a pointer
  IndexSize,    \* bound standing for WordSize, the values of s_index
  Bases,        \* bound: the addresses new[] chooses from
  Lengths,      \* bound: the lengths asked for
  MaxMade       \* bound: how many objects are built

ASSUME MemoryAssumption ==
  /\ NoBlock \notin Blocks
  /\ {Align, NewAlign, WordSize, AddressSize, IndexSize} \subseteq Nat \ {0}
  /\ WordSize % Align = 0 /\ AddressSize % WordSize = 0
  /\ Bases \subseteq 1..(AddressSize - 1)
  /\ Lengths \subseteq 0..(WordSize - 1)
  /\ MaxMade \in Nat

-----------------------------------------------------------------------------
(* memoryutility.h. Clearing the low bits of x is x - x % Align; the mask  *)
(* of MemAlignPointer is a u32_t, so it clears the high word as well.      *)
MemAlignRoundup_Truncates(size) == size - (size % Align)  \* mutant

MemAlignRoundup(size) ==
  LET sum == (size + Align) % WordSize IN sum - (sum % Align)

MemAlignRoundedUpExtra_None(size) == MemAlignRoundup(size)  \* mutant: no extra block

MemAlignRoundedUpExtra(size) == (MemAlignRoundup(size) + Align) % WordSize

MemAlignPointer(object) ==
  LET sum == (object + 2 * Align - 1) % AddressSize
  IN  (sum % WordSize) - (sum % Align)

-----------------------------------------------------------------------------
VARIABLES
  live,       \* the Memory objects that exist
  counter,    \* s_index
  made,       \* history: how many were built
  index,      \* component.index of each
  map,        \* s_map
  aligned,    \* whether it was built aligned
  requested,  \* requestedLength
  adjusted,   \* adjustedLength
  object      \* the address new[] returned

vars == <<live, counter, made, index, map, aligned, requested, adjusted, object>>

Indices == 0..(IndexSize - 1)
Words   == 0..(WordSize - 1)

TypeOK ==
  /\ live \subseteq Blocks
  /\ counter \in Indices
  /\ made \in 0..MaxMade
  /\ index \in [Blocks -> Indices]
  /\ map \in [Indices -> Blocks \cup {NoBlock}]
  /\ aligned \in [Blocks -> BOOLEAN]
  /\ requested \in [Blocks -> Words]
  /\ adjusted \in [Blocks -> Words]
  /\ object \in [Blocks -> 0..(AddressSize - 1)]

Init ==
  /\ live = {}
  /\ counter = 0
  /\ made = 0
  /\ index = [b \in Blocks |-> 0]
  /\ map = [i \in Indices |-> NoBlock]
  /\ aligned = [b \in Blocks |-> FALSE]
  /\ requested = [b \in Blocks |-> 0]
  /\ adjusted = [b \in Blocks |-> 0]
  /\ object = [b \in Blocks |-> 0]

\* new[]: an aligned range of addresses no live block has.
Fits(base, length) ==
  /\ base % NewAlign = 0
  /\ base + length <= AddressSize
  /\ \A b \in live : base + length <= object[b] \/ object[b] + adjusted[b] <= base

AdjustedLength(length, isAligned) ==
  IF isAligned THEN MemAlignRoundedUpExtra(length) ELSE length

NextIndex_Same == counter  \* mutant: the index is not counted on

NextIndex == (counter + 1) % IndexSize

\* Memory::Memory
New(b, length, isAligned, base) ==
  LET next == NextIndex
      size == AdjustedLength(length, isAligned) IN
  /\ b \notin live /\ made < MaxMade /\ Fits(base, size)
  /\ live' = live \cup {b}
  /\ counter' = next
  /\ made' = made + 1
  /\ index' = [index EXCEPT ![b] = next]
  /\ map' = [map EXCEPT ![next] = b]
  /\ aligned' = [aligned EXCEPT ![b] = isAligned]
  /\ requested' = [requested EXCEPT ![b] = length]
  /\ adjusted' = [adjusted EXCEPT ![b] = size]
  /\ object' = [object EXCEPT ![b] = base]

Delete_Keeps(b) ==  \* mutant: the entry of a deleted object stays
  /\ b \in live
  /\ live' = live \ {b}
  /\ UNCHANGED <<counter, made, index, map, aligned, requested, adjusted, object>>

\* Memory::~Memory
Delete(b) ==
  /\ b \in live
  /\ live' = live \ {b}
  /\ map' = [map EXCEPT ![index[b]] = NoBlock]
  /\ UNCHANGED <<counter, made, index, aligned, requested, adjusted, object>>

Next ==
  \/ \E b \in Blocks, n \in Lengths, a \in BOOLEAN, p \in Bases : New(b, n, a, p)
  \/ \E b \in Blocks : Delete(b)

Spec == Init /\ [][Next]_vars
-----------------------------------------------------------------------------
\* Dump meets live objects only, even after s_index has wrapped.
MemoryRegistry == INSTANCE Registry
  WITH Objects <- Blocks, Keys <- Indices, NoObject <- NoBlock,
       key <- index, map <- map, live <- live

ImplementsRegistry == MemoryRegistry!Spec

\* And until it wraps, Dump meets every live object.
EveryBlockIsTracked ==
  made <= IndexSize => \A b \in live : map[index[b]] = b

End(b)           == object[b] + adjusted[b]
AlignedObject(b) == MemAlignPointer(object[b])  \* GetObjectAligned

\* Requests that rounding up does not wrap.
IsShort(b) == requested[b] + 2 * Align < WordSize

\* The aligned addresses of the block whose low word the aligned pointer is;
\* MemAlignPointer keeps no more of an address than that.
AlignedAt(b) ==
  {p \in object[b]..(End(b) - 1) : p % Align = 0 /\ p % WordSize = AlignedObject(b)}

\* The aligned pointer of an aligned block is the low word of an aligned
\* address in it: on a heap below 2^32 it points into the block.
AlignedStartsInside ==
  \A b \in live : aligned[b] /\ IsShort(b) => AlignedAt(b) # {}

\* A request that is two alignments short of 2^32 gets a block as long as it
\* asked for, and from the aligned address on too when new[] was aligned.
ShortRequestsFit ==
  \A b \in live : IsShort(b) =>
    /\ requested[b] <= adjusted[b]
    /\ aligned[b] /\ object[b] % Align = 0 =>
         \E p \in AlignedAt(b) : p + requested[b] <= End(b)

\* The aligned pointer itself points into the block, wherever the heap is.
AlignedPointsInside ==
  \A b \in live : aligned[b] /\ IsShort(b) => AlignedObject(b) \in AlignedAt(b)

\* The bytes asked for lie in the block from the aligned address on, whatever
\* new[] returned.
AlignedFitsInside ==
  \A b \in live :
    aligned[b] /\ IsShort(b) => \E p \in AlignedAt(b) : p + requested[b] <= End(b)

\* A block is at least as long as was asked for.
BlockCoversRequest == \A b \in live : requested[b] <= adjusted[b]
=============================================================================
