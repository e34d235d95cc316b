--------------------------- MODULE MCLoadTorrents ---------------------------
(* Instances of LoadTorrents for TLC: rows, chunk size and faults are in the *)
(* cfg files.                                                                *)
EXTENDS LoadTorrents
=============================================================================
