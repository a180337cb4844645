----------------------------- MODULE MCSessions -----------------------------
(* Values of the constants of Sessions for TLC.                            *)
EXTENDS Sessions

CONSTANTS t1, t2, t3, u1
============================================================================
