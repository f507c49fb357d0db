--------------------------- MODULE MCSandboxStack ---------------------------
(***************************************************************************)
(* Constants of SandboxStack for TLC.                                      *)
(***************************************************************************)
EXTENDS SandboxStack, TLC

Symmetry == Permutations(Shells)
=============================================================================
