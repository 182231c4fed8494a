---------------------------- MODULE MCHostTable ----------------------------
(***************************************************************************)
(* HostTable for TLC: addresses are model values that are only compared.   *)
(***************************************************************************)
EXTENDS HostTable, TLC

Symmetry == Permutations(Hosts \ {Self})

=============================================================================
