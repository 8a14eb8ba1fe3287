------------------------------- MODULE MCHeap -------------------------------
(***************************************************************************)
(* Instances of Heap for TLC.                                              *)
(***************************************************************************)
EXTENDS Heap, TLC

ClientSymmetry == Permutations(Clients)

(* misled stays TRUE, and SoundUntilMisled and Coalesced say nothing then. *)
UntilMisled == ~misled
=============================================================================
