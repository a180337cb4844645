----------------------------- MODULE MCPremium -----------------------------
(* Values of the constants of Premium for TLC.                             *)
EXTENDS Premium

CONSTANTS u1, u2, h1
============================================================================
