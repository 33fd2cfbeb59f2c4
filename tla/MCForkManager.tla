--------------------------- MODULE MCForkManager ---------------------------
(* A small instance of ForkManager for TLC. *)
EXTENDS ForkManager

CONSTANTS k1, k2, k3, k4

FourKeys == {k1, k2, k3, k4}
AllBad   == FourKeys
==============================================================================
