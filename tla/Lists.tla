------------------------------- MODULE Lists --------------------------------
(***************************************************************************)
(* Linked lists as sequences: what the modules on a6/storage.c and         *)
(* a6/ft_send_threaded.c have in common.                                   *)
(***************************************************************************)
EXTENDS Integers, Sequences, FiniteSets

SX == INSTANCE SequencesExt

\* The least member of a set of indices: lists are scanned from their head.
First(S) == CHOOSE i \in S : \A j \in S : i <= j

\* The elements of a list at the positions of a set, in the order of the list.
Rank(K, k) == Cardinality({j \in K : j <= k})
KeepOnly(m, K) == [r \in 1 .. Cardinality(K) |-> m[CHOOSE k \in K : Rank(K, k) = r]]

=============================================================================
