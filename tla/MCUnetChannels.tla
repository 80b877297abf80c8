--------------------------- MODULE MCUnetChannels ---------------------------
(***************************************************************************)
(* UnetChannels for TLC.                                                   *)
(***************************************************************************)
EXTENDS UnetChannels

AllCalls == {"connect", "udpopen", "ping", "listen", "netdone"}
Clients == {"connect", "udpopen"}
NoRst == {}
RstOut == {"out"}
RstAll == {"out", "in"}
=============================================================================
