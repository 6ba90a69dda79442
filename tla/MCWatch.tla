------------------------------- MODULE MCWatch -------------------------------
(* Watch with its timer's assumptions; the pollers are model values.        *)
EXTENDS Watch

CONSTANTS p1, p2

TwoPollers == {p1, p2}
=============================================================================
