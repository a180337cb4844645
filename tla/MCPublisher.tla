---------------------------- MODULE MCPublisher ----------------------------
(* Values of the constants of Publisher for TLC.                           *)
EXTENDS Publisher

CONSTANTS c1, c2, s1, s2
============================================================================
