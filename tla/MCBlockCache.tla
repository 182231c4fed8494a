---------------------------- MODULE MCBlockCache ----------------------------
(***************************************************************************)
(* BlockCache for TLC: file names and payloads are model values, and only  *)
(* ever compared, so both are symmetric.                                   *)
(***************************************************************************)
EXTENDS BlockCache, TLC

Symmetry == Permutations(Names) \cup Permutations(Payloads)

=============================================================================
