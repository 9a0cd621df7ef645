------------------------------ MODULE MCReadiness ------------------------------
(* Small instances of Readiness: two probes that overlap. *)
EXTENDS Readiness

CONSTANTS p1, p2
===============================================================================
