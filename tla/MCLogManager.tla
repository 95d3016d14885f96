---------------------------- MODULE MCLogManager ----------------------------
(* Three Logs, two of which share a name, and two threads.                 *)
EXTENDS LogManager, TLC

CONSTANTS common, discovery, other

MCComponent == [l \in Logs |-> IF l = common THEN "Common" ELSE "Discovery"]

Threads == Permutations(Printers)  \* the threads are alike
=============================================================================
