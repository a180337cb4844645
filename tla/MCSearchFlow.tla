---------------------------- MODULE MCSearchFlow ----------------------------
(* Values of the constants of SearchFlow for TLC.                          *)
EXTENDS SearchFlow, TLC

CONSTANTS h1, h2, k1

\* Observed: criteria that the constraint covers, and some that fit no column.
Observed == [keyword : {k1}, min : {2}, max : {2}] \cup [keyword : {k1}, min : {NoPrice}, max : {3}]

\* The updates are interchangeable.
Symmetry == Permutations({h1, h2})
============================================================================
