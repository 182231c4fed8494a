---------------------------- MODULE MCJobServer ----------------------------
(***************************************************************************)
(* JobServer for TLC: a file of three blocks in two words, one of one      *)
(* block, and one that cannot be read.                                     *)
(***************************************************************************)
EXTENDS JobServer

MCFiles == {"long", "short", "none"}
MCSize == [f \in MCFiles |-> CASE f = "long" -> 3 [] f = "short" -> 1 [] f = "none" -> 0]

\* The whole file, all but its first block, the block behind its end.
MCRequests == {{<<0, 9>>}, {<<1, 2>>}, {<<3, 3>>}}

=============================================================================
