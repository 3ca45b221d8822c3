---------------------------- MODULE MCAdapterGuard ----------------------------
(* TLC instance of AdapterGuard.  Every constant is given in the cfg.        *)
EXTENDS AdapterGuard
===============================================================================
