----------------------------- MODULE MCSockets -----------------------------
(* Three owners for two descriptors.                                       *)
EXTENDS Sockets, TLC

Alike == Permutations(Handlers)
=============================================================================
