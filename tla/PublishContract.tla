-------------------------- MODULE PublishContract --------------------------
(***************************************************************************)
(* What the scraper may rely on when it calls Publish (domain.Publisher):  *)
(* every call leaves at most one copy of its message in the queue; a call  *)
(* that returns an error has left none.  A call that returns nil promises  *)
(* nothing: the message may have died with its connection.                 *)
(***************************************************************************)
CONSTANTS Callers

VARIABLES
    call,     \* call[c]: "none", "open", or what the last call returned
    queued    \* queued[c]: copies of the message of c's last call in the queue

Init ==
    /\ call = [c \in Callers |-> "none"]
    /\ queued = [c \in Callers |-> 0]

Begin(c) ==
    /\ call[c] \in {"none", "nil", "error"}
    /\ call' = [call EXCEPT ![c] = "open"]
    /\ queued' = [queued EXCEPT ![c] = 0]

ReturnNil(c) ==
    /\ call[c] = "open"
    /\ call' = [call EXCEPT ![c] = "nil"]
    /\ \E n \in {0, 1} : queued' = [queued EXCEPT ![c] = n]

ReturnError(c) ==
    /\ call[c] = "open"
    /\ call' = [call EXCEPT ![c] = "error"]
    /\ UNCHANGED queued

\* A new process has no calls.
Restart ==
    /\ call' = [c \in Callers |-> "none"]
    /\ queued' = [c \in Callers |-> 0]

Next == Restart \/ \E c \in Callers : Begin(c) \/ ReturnNil(c) \/ ReturnError(c)

Spec == Init /\ [][Next]_<<call, queued>>
============================================================================
