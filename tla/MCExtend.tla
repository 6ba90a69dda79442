------------------------------- MODULE MCExtend -------------------------------
(* Extend with the bound given in the configuration.                        *)
EXTENDS Extend
=============================================================================
