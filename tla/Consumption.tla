---------------------------- MODULE Consumption ----------------------------
(***************************************************************************)
(* What the bot promises of the messages in new_items_queue, whatever      *)
(* happens to its connection, its tasks and its process: a message is      *)
(* taken against the searches the bot knows of, a matching search is told  *)
(* at most once per delivery, a message is acknowledged only when every    *)
(* search it matched was told or excused, whatever is not settled comes    *)
(* back, and a stop costs at most the one message it interrupts.  The bot  *)
(* knows of searches by copying the table now and then: between a change   *)
(* of the table and the copy it goes by the old ones.                      *)
(***************************************************************************)
EXTENDS Naturals

CONSTANTS
    Messages,    \* the messages that reach the queue
    Searches,    \* the searches
    Wanted       \* Wanted[m]: the searches whose words and prices m satisfies

VARIABLES
    where,       \* where[m]: "unsent", "ready", "unacked", "acked" or "dead"
    deliveries,  \* deliveries[m]: how often m was handed to the bot
    stock,       \* the messages handed over that the bot has still to take
    active,      \* the searches that are active
    cache,       \* those the bot goes by
    rows,        \* the copy under way
    copying,     \* there is one
    matched,     \* matched[m]: the searches m matched when last taken
    told,        \* told[m][s]: the alerts s got because of m
    excused      \* excused[m]: the searches the bot gave up on for m

queue == <<where, deliveries, stock>>
copy == <<cache, rows, copying>>
alerts == <<matched, told, excused>>
vars == <<queue, active, copy, alerts>>

Init ==
    /\ where = [m \in Messages |-> "unsent"]
    /\ deliveries = [m \in Messages |-> 0] /\ stock = {}
    /\ active \in SUBSET Searches
    /\ cache = {} /\ rows = {} /\ copying = FALSE
    /\ matched = [m \in Messages |-> {}] /\ excused = [m \in Messages |-> {}]
    /\ told = [m \in Messages |-> [s \in Searches |-> 0]]

----------------------------------------------------------------------------
Arrive(m) ==
    /\ where[m] = "unsent"
    /\ where' = [where EXCEPT ![m] = "ready"]
    /\ UNCHANGED <<deliveries, stock, active, copy, alerts>>

\* A search is stopped or restored.
EditSearch(s) ==
    /\ active' = IF s \in active THEN active \ {s} ELSE active \cup {s}
    /\ UNCHANGED <<queue, copy, alerts>>

Query ==
    /\ ~copying /\ copying' = TRUE /\ rows' = active
    /\ UNCHANGED <<queue, active, cache, alerts>>

Assign ==
    /\ copying /\ copying' = FALSE
    /\ cache' = rows /\ rows' = {}
    /\ UNCHANGED <<queue, active, alerts>>

----------------------------------------------------------------------------
\* Variant: what was taken back is not delivered again.
DeliverOnce(m) ==
    /\ where[m] = "ready" /\ deliveries[m] = 0
    /\ where' = [where EXCEPT ![m] = "unacked"]
    /\ deliveries' = [deliveries EXCEPT ![m] = 1]
    /\ stock' = stock \cup {m}
    /\ UNCHANGED <<active, copy, alerts>>

Deliver(m) ==
    /\ where[m] = "ready"
    /\ where' = [where EXCEPT ![m] = "unacked"]
    /\ deliveries' = [deliveries EXCEPT ![m] = @ + 1]
    /\ stock' = stock \cup {m}
    /\ UNCHANGED <<active, copy, alerts>>

\* Where the messages are once the broker has taken back what is not settled.
Requeued == [m \in Messages |-> IF where[m] = "unacked" THEN "ready" ELSE where[m]]

\* A delivery is decoded and matched.  Nobody wants it: it is settled, or,
\* when its channel is gone, everything is given back.  Otherwise the alerts
\* begin; a copy that came over a newer channel may still be in stock.
Take(m) ==
    /\ m \in stock /\ where[m] \in {"ready", "unacked"}
    /\ matched' = [matched EXCEPT ![m] = cache \cap Wanted[m]]
    /\ \/ /\ cache \cap Wanted[m] # {}
          /\ stock' = stock \ {m} \/ (where[m] = "unacked" /\ stock' = stock)
          /\ UNCHANGED where
       \/ /\ cache \cap Wanted[m] = {} /\ where[m] = "unacked"
          /\ where' = [where EXCEPT ![m] = "acked"] /\ stock' = stock \ {m}
       \/ /\ cache \cap Wanted[m] = {}
          /\ where' = Requeued /\ stock' = {}
    /\ UNCHANGED <<deliveries, active, copy, told, excused>>

\* Variant: an alert that was sent is sent again.
TellAgain(m, s) ==
    /\ s \in matched[m] /\ told[m][s] <= deliveries[m]
    /\ told' = [told EXCEPT ![m][s] = @ + 1]
    /\ UNCHANGED <<queue, active, copy, matched, excused>>

Tell(m, s) ==
    /\ s \in matched[m] /\ told[m][s] < deliveries[m]
    /\ told' = [told EXCEPT ![m][s] = @ + 1]
    /\ UNCHANGED <<queue, active, copy, matched, excused>>

\* The user has blocked the bot, or the call failed.
Excuse(m, s) ==
    /\ s \in matched[m]
    /\ excused' = [excused EXCEPT ![m] = @ \cup {s}]
    /\ UNCHANGED <<queue, active, copy, matched, told>>

Tried(m) == \A s \in matched[m] : told[m][s] > 0 \/ s \in excused[m]

Ack(m) ==
    /\ where[m] = "unacked" /\ matched[m] # {} /\ Tried(m)
    /\ where' = [where EXCEPT ![m] = "acked"]
    /\ UNCHANGED <<deliveries, stock, active, copy, alerts>>

\* A message nobody can read.
Reject(m) ==
    /\ m \in stock /\ where[m] = "unacked"
    /\ where' = [where EXCEPT ![m] = "dead"] /\ stock' = stock \ {m}
    /\ UNCHANGED <<deliveries, active, copy, alerts>>

----------------------------------------------------------------------------
\* The connection is lost, or the bot closes it and forgets its stock.
GiveBack ==
    /\ where' = Requeued /\ (stock' = stock \/ stock' = {})
    /\ UNCHANGED <<deliveries, active, copy, alerts>>

\* The bot stops or dies; a stop interrupts at most one message.
Stop ==
    /\ \/ where' = Requeued
       \/ \E m \in Messages : where[m] = "unacked" /\ where' = [Requeued EXCEPT ![m] = "dead"]
    /\ stock' = {} /\ cache' = {} /\ rows' = {} /\ copying' = FALSE
    /\ UNCHANGED <<deliveries, active, alerts>>

Next ==
    \/ \E m \in Messages :
          \/ Arrive(m) \/ Deliver(m) \/ Take(m) \/ Ack(m) \/ Reject(m)
          \/ \E s \in Searches : Tell(m, s) \/ Excuse(m, s)
    \/ \E s \in Searches : EditSearch(s)
    \/ Query \/ Assign \/ GiveBack \/ Stop

Spec == Init /\ [][Next]_vars
============================================================================
