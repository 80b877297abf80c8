----------------------------- MODULE MCNicRing -----------------------------
(* NicRing on a ring of five pages in the middle of the real one: a CURR of  *)
(* 80 or more has the bit of the overflow latch, and one of 78 or 82 passes  *)
(* SELECT_PAGE's mask for page 1.                                            *)
EXTENDS NicRing

LostCycles == {"select", "bnry", "read", "curr", "header", "tx", "length", "txp", "txe", "clear"}
Misread == {"curr", "read", "repeat"}
=============================================================================
