---------------------------- MODULE MCTilePrefetch ----------------------------
(* TLC instance of TilePrefetch.  Every constant is given in the cfg.        *)
EXTENDS TilePrefetch
===============================================================================
