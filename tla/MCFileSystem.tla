---------------------------- MODULE MCFileSystem ----------------------------
(***************************************************************************)
(* Instances of FileSystem for TLC.                                        *)
(***************************************************************************)
EXTENDS FileSystem

MCMountName == <<"i">>
MCNames     == <<<<"a", "i">>, <<"a">>>>
MCSizes     == <<3, 0>>
MCPaths     == BoundedSeq(Char, 6)
=============================================================================
