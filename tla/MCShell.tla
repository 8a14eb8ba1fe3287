------------------------------ MODULE MCShell -------------------------------
(***************************************************************************)
(* Instances of Shell for TLC: e, ee, g and gg stand for echo, exec, game  *)
(* and help.                                                               *)
(***************************************************************************)
EXTENDS Shell

MCEcho  == <<101>>
MCExec  == <<101, 101>>
MCGame  == <<103>>
MCKnown == {<<103, 103>>}
=============================================================================
