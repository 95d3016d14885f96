--------------------------- MODULE ThreadService ---------------------------
(***************************************************************************)
(* What StartThreads and StopThreads promise a program that calls them in  *)
(* order: workers begin while the service is up, none ends before a stop   *)
(* is requested, and StopThreads returns only when none runs. Then the     *)
(* service may be initialized and started again.                           *)
(***************************************************************************)
CONSTANT Workers

VARIABLES
  running,  \* the workers that exist
  serving   \* "up", "stopping" while StopThreads runs, "down" after it

vars == <<running, serving>>

TypeOK == running \subseteq Workers /\ serving \in {"up", "stopping", "down"}

Init == running = {} /\ serving = "up"

Begin(w) ==
  /\ serving = "up"
  /\ w \notin running
  /\ running' = running \cup {w}
  /\ UNCHANGED serving

RequestStop ==
  /\ serving = "up"
  /\ serving' = "stopping"
  /\ UNCHANGED running

End(w) ==
  /\ serving = "stopping"
  /\ w \in running
  /\ running' = running \ {w}
  /\ UNCHANGED serving

ReturnStop ==
  /\ serving = "stopping"
  /\ running = {}
  /\ serving' = "down"
  /\ UNCHANGED running

Restart ==
  /\ serving = "down"
  /\ serving' = "up"
  /\ UNCHANGED running

Next ==
  \/ \E w \in Workers : Begin(w) \/ End(w)
  \/ RequestStop
  \/ ReturnStop
  \/ Restart

Spec == Init /\ [][Next]_vars

FairSpec ==
  /\ Spec
  /\ \A w \in Workers : WF_vars(End(w))
  /\ WF_vars(ReturnStop)
=============================================================================
