-------------------------- MODULE MCMemoryTracker --------------------------
(* A machine of 5-bit words and 6-bit addresses, blocks aligned to 4; the  *)
(* last length is one that rounding up wraps.                              *)
EXTENDS MemoryTracker

\* On both sides of the first WordSize addresses and across, aligned and not.
MCBases   == {1, 4, 14, 27, 33, 36, 47}
MCLengths == {0, 3, 23, 31}
=============================================================================
