---------------------------- MODULE MCControlFile ----------------------------
(***************************************************************************)
(* Two inodes and two chunk contents, interchangeable.                     *)
(***************************************************************************)
EXTENDS ControlFile, TLC

Symmetry == Permutations(Inode) \cup Permutations(Chunk)
=============================================================================
