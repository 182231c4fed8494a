----------------------------- MODULE MCTorrent ------------------------------
(***************************************************************************)
(* Torrent for TLC.                                                        *)
(***************************************************************************)
EXTENDS Torrent

MCStrays == {Foreign, Short}

=============================================================================
