----------------------------- MODULE MCConsole ------------------------------
(***************************************************************************)
(* Instances of Console for TLC.                                           *)
(***************************************************************************)
EXTENDS Console

(* A letter, another, the four controls, a character of the upper half.    *)
MCTexts == {<<97>>, <<98>>, <<BS>>, <<TAB>>, <<CR>>, <<LF>>, <<130, LF, 97>>}
=============================================================================
