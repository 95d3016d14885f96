---------------------------- MODULE MCDiscovery ----------------------------
(* Instances of Discovery for TLC: the two singletons, scaled-down clocks. *)
EXTENDS Discovery

CONSTANTS configuration

MCInitRank == [t \in Threads |-> IF t = discovery THEN 1 ELSE 2]

Calls(i, s, p, r, h) ==
  [o \in Ops |-> CASE o = "initialize" -> i [] o = "start" -> s
                   [] o = "pause" -> p [] o = "resume" -> r
                   [] o = "stop" -> h [] OTHER -> 1]

\* Two lives of the service, with one pause.
OrderedBudget == Calls(2, 2, 1, 1, 2)
=============================================================================
