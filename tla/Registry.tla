------------------------------ MODULE Registry ------------------------------
(***************************************************************************)
(* What the log manager and the memory tracker have in common: a map from  *)
(* keys to live objects. An object enters the map under its key when it is *)
(* built, over whatever was there, and its key is erased when it dies,     *)
(* whatever is there by then. Objects may share a key.                     *)
(***************************************************************************)
CONSTANTS Objects, Keys, NoObject

VARIABLES
  live,  \* the objects that exist
  key,   \* the key of each object, of meaning while it is live
  map    \* the registry

vars == <<live, key, map>>

TypeOK ==
  /\ live \subseteq Objects
  /\ key \in [Objects -> Keys]
  /\ map \in [Keys -> Objects \cup {NoObject}]

Init ==
  /\ live = {}
  /\ key \in [Objects -> Keys]
  /\ map = [k \in Keys |-> NoObject]

Build(o, k) ==
  /\ o \notin live
  /\ live' = live \cup {o}
  /\ key' = [key EXCEPT ![o] = k]
  /\ map' = [map EXCEPT ![k] = o]

Die(o) ==
  /\ o \in live
  /\ live' = live \ {o}
  /\ map' = [map EXCEPT ![key[o]] = NoObject]
  /\ UNCHANGED key

Next ==
  \/ \E o \in Objects, k \in Keys : Build(o, k)
  \/ \E o \in Objects : Die(o)

Spec == Init /\ [][Next]_vars

\* Whoever walks the map meets live objects only, each under its own key.
MapIsLive ==
  \A k \in Keys : map[k] # NoObject => map[k] \in live /\ key[map[k]] = k
=============================================================================
