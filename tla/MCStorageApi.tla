---------------------------- MODULE MCStorageApi ----------------------------
(***************************************************************************)
(* StorageApi for TLC; names and payloads are symmetric model values.      *)
(***************************************************************************)
EXTENDS StorageApi, TLC

Symmetry == Permutations(Names) \cup Permutations(Payloads)

=============================================================================
