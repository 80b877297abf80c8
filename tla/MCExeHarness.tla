---------------------------- MODULE MCExeHarness ----------------------------
(* ExeHarness on the programs of module ExePrograms. *)
EXTENDS ExeHarness, ExePrograms

Correct == DOMAIN MCPrograms \ {"own_bracket"}
OwnBracket == {"own_bracket"}
=============================================================================
