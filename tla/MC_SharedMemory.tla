-------------------------- MODULE MC_SharedMemory --------------------------
(***************************************************************************)
(* Two pages of one word of flags, within which an invalidation widens;     *)
(* the texture is on both, each is allocated on its own, and a file read   *)
(* fills both.                                                             *)
(***************************************************************************)
EXTENDS SharedMemory, TLC

CONSTANT t1

MCPagesOf == [t \in {t1} |-> 0 .. 1]
MCAllocations == {0 .. 0, 1 .. 1}
MCReads == {0 .. 1}
ViewSymmetry == Permutations(Views)
=============================================================================
