----------------------------- MODULE MCUnetRecv -----------------------------
(***************************************************************************)
(* Instances of UnetRecv for TLC.                                          *)
(***************************************************************************)
EXTENDS UnetRecv

=============================================================================
