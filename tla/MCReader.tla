------------------------------- MODULE MCReader -------------------------------
(* Reader with bounds given in the configuration.                           *)
EXTENDS Reader
=============================================================================
