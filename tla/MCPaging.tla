------------------------------ MODULE MCPaging ------------------------------
(***************************************************************************)
(* Instances of Paging for TLC.  RAM holds zeros, or words that read as    *)
(* entries to be allocated on demand.                                      *)
(***************************************************************************)
EXTENDS Paging

MCLazy == {[frame |-> 0, flags |-> {"VM"}]}

MCZero == {Absent}
=============================================================================
