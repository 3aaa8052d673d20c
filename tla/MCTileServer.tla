---------------------------- MODULE MCTileServer ----------------------------
(* TileServer on small instances; the values of the constants are in the   *)
(* cfgs.                                                                   *)
EXTENDS TileServer
=============================================================================
