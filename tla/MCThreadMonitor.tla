-------------------------- MODULE MCThreadMonitor --------------------------
(* Instances of ThreadMonitor for TLC: the two singletons of the program.  *)
EXTENDS ThreadMonitor

CONSTANTS discovery, configuration

MCInitRank == [t \in Threads |-> IF t = discovery THEN 1 ELSE 2]

Calls(i, s, p, r, h) ==
  [o \in Ops |-> CASE o = "initialize" -> i [] o = "start" -> s
                   [] o = "pause" -> p [] o = "resume" -> r
                   [] o = "stop" -> h [] OTHER -> 1]

\* Two controllers, every operation, Stop and Initialize twice.
AnyBudget == Calls(2, 1, 1, 1, 2)

\* Two orderly lives of the service, with pauses.
OrderedBudget == Calls(2, 2, 2, 2, 2)
=============================================================================
