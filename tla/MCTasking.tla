----------------------------- MODULE MCTasking -----------------------------
(***************************************************************************)
(* Instances of Tasking for TLC.                                           *)
(***************************************************************************)
EXTENDS Tasking

CONSTANTS Plain  \* register contents other than Entry and Trap

MCVal == {Entry, Trap} \cup Plain
=============================================================================
