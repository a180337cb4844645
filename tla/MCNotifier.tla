----------------------------- MODULE MCNotifier -----------------------------
(* Values of the constants of Notifier for TLC.                            *)
EXTENDS Notifier, TLC

CONSTANTS m1, m2, s1, s2, u1, u2

\* Two users with one search each; one search.
MCTwoUsers == (s1 :> u1) @@ (s2 :> u2)
MCOneSearch == s1 :> u1

\* Everybody wants the first message, the first search also the second.
MCWanted == (m1 :> {s1, s2}) @@ (m2 :> {s1})

\* The first search wants the first message.
MCWantedFirst == [m \in Messages |-> IF m = m1 THEN {s1} ELSE {}]

MCAllFailures == FailureKinds
============================================================================
