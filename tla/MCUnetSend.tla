----------------------------- MODULE MCUnetSend -----------------------------
(***************************************************************************)
(* Instances of UnetSend for TLC; the configurations give the bounds.       *)
(***************************************************************************)
EXTENDS UnetSend

=============================================================================
