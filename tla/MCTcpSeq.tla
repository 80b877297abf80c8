------------------------------ MODULE MCTcpSeq ------------------------------
(***************************************************************************)
(* Instances of TcpSeq for TLC: a small register, which both streams wrap   *)
(* from each of the initial sequence numbers.                              *)
(***************************************************************************)
EXTENDS TcpSeq

SomeStarts == {0, Modulus - 3}

=============================================================================
