------------------------------ MODULE MCSignal ------------------------------
(* Small instances of Signal. *)
EXTENDS Signal, TLC

CONSTANTS f1, f2, g1

TwoFuncs == {f1, f2}
OneGoroutine == {g1}
=============================================================================
