----------------------------- MODULE MCSidecarPool -----------------------------
(* TLC instance of SidecarPool.  Every constant is given in the cfg.         *)
EXTENDS SidecarPool
===============================================================================
