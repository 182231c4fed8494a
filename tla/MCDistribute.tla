---------------------------- MODULE MCDistribute ----------------------------
(***************************************************************************)
(* Distribute for TLC: four hosts, the third of which is silent, for three *)
(* records.                                                                *)
(***************************************************************************)
EXTENDS Distribute, Sequences

CONSTANTS h1, h2, h3, h4

MCHosts == {h1, h2, h3, h4}
MCSilent == {h3}
MCTables == {[s \in 0 .. 2 |-> t[s + 1]] : t \in {<<h1, h2, h3>>, <<h1, h2, NoHost>>}}

=============================================================================
