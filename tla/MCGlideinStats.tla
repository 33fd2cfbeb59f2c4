--------------------------- MODULE MCGlideinStats ---------------------------
(* A small instance of GlideinStats for TLC: one job that completes and one  *)
(* whose events make the log change.                                         *)
EXTENDS GlideinStats

CONSTANTS g1, g2

TwoGlideins == {g1, g2}
SomeEvents  == [g \in TwoGlideins |->
                   IF g = g1 THEN {"submit", "execute", "evict", "terminate"}
                   ELSE {"submit", "hold"}]
=============================================================================
