------------------------- MODULE MCTorrentSession -------------------------
(***************************************************************************)
(* Instances of TorrentSession for TLC.                                     *)
(***************************************************************************)
EXTENDS TorrentSession
=============================================================================
