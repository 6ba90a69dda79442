------------------------------- MODULE MCExec -------------------------------
(* Small instances of Exec.  The two streams behave alike. *)
EXTENDS Exec, TLC
=============================================================================
