------------------------------- MODULE Ledger -------------------------------
(***************************************************************************)
(* What the table mercari_parsed_items is for (processSearch, Save before  *)
(* Publish): a listing is sent only while it is on record, and every       *)
(* sender sends it at most once between its record and the end of the      *)
(* record.  That a listing is sent at all is not promised, nor that two    *)
(* senders do not both send it.                                            *)
(***************************************************************************)
CONSTANTS
    Senders,   \* whoever may send a listing
    Items      \* the listings

VARIABLES
    known,     \* the listings on record
    sent       \* sent[s][i]: 1 iff s has sent i since it is on record

Init ==
    /\ known = {}
    /\ sent = [s \in Senders |-> [i \in Items |-> 0]]

Record(i) ==
    /\ i \notin known
    /\ known' = known \cup {i}
    /\ UNCHANGED sent

Send(s, i) ==
    /\ i \in known /\ sent[s][i] = 0
    /\ sent' = [sent EXCEPT ![s][i] = 1]
    /\ UNCHANGED known

\* Retention: records disappear, and with them what they were there for.
Forget ==
    /\ known' \subseteq known
    /\ sent' = [s \in Senders |-> [i \in Items |-> IF i \in known' THEN sent[s][i] ELSE 0]]

Next ==
    \/ \E i \in Items : Record(i) \/ \E s \in Senders : Send(s, i)
    \/ Forget

Spec == Init /\ [][Next]_<<known, sent>>
============================================================================
