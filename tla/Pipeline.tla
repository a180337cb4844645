------------------------------ MODULE Pipeline ------------------------------
(***************************************************************************)
(* From a listing to the alerts of its searches: the scraper (which keeps  *)
(* the promise of Ledger), the queue, the bot's consumer (which keeps the  *)
(* promise of Consumption) and the rules by which a search wants a listing *)
(* (Matcher), put together.  The three share what they share in the        *)
(* program: table searches and new_items_queue.  Every copy that a worker  *)
(* publishes is a message of its own.                                      *)
(*                                                                         *)
(* A search is promised the listings that are recorded while it is active. *)
(* The module says which promises may fail, and why.  Rows of the dedup    *)
(* table do not expire here.                                               *)
(***************************************************************************)
EXTENDS Matcher

CONSTANTS
    Workers,     \* the scraper's workers
    Items,       \* the listings
    Listing,     \* Listing[i]: what the message about i says
    Searches,    \* rows of table searches
    Wish,        \* Wish[s]: what search s asks for
    MaxBreaks    \* bound: requeueings and stops in one behaviour

ASSUME PipelineAssumption ==
    /\ Listing \in [Items -> Item] /\ Wish \in [Searches -> Search]
    /\ MaxBreaks \in Nat

Messages == Workers \X Items

\* Variant: the bounds are excluded.
WantedWithin ==
    [m \in Messages |-> {s \in Searches : /\ Matches(Wish[s], Listing[m[2]])
                                         /\ Listing[m[2]].price \notin {Wish[s].min, Wish[s].max}}]

\* find_matches_in_memory, whatever the cache.
Wanted == [m \in Messages |-> {s \in Searches : Matches(Wish[s], Listing[m[2]])}]

VARIABLES
    known, sent,                            \* of Ledger
    where, deliveries, stock, active,       \* of Consumption
    cache, rows, copying,
    matched, told, excused,
    lost,        \* listings whose message was given up (see Scraper)
    breaks,      \* requeueings and stops so far
    promised,    \* history: <<s, i>>: i was recorded while s was active
    unseen       \* history: <<s, i>>: i was taken before the bot knew of s

L == INSTANCE Ledger WITH Senders <- Workers
C == INSTANCE Consumption

scraper == <<known, sent, lost>>
bot == <<where, deliveries, stock, active, cache, rows, copying, matched, told, excused>>
history == <<promised, unseen>>
vars == <<scraper, bot, breaks, history>>

Init == L!Init /\ C!Init /\ lost = {} /\ breaks = 0 /\ promised = {} /\ unseen = {}

----------------------------------------------------------------------------
(* The scraper.                                                            *)

\* What the user asked for: the same market, the words, the range of prices.
AskedFor(s, i) ==
    /\ LowerText(Wish[s].platform) = LowerText(Listing[i].platform)
    /\ KeywordMatches(Wish[s].keyword, Listing[i].name)
    /\ Wish[s].min = NoPrice \/ Wish[s].min <= Listing[i].price
    /\ Wish[s].max = NoPrice \/ Listing[i].price <= Wish[s].max

\* Exists and Save: the listing is new.
Record(i) ==
    /\ L!Record(i)
    /\ promised' = promised \cup {<<s, i>> : s \in {t \in active : AskedFor(t, i)}}
    /\ UNCHANGED <<lost, bot, breaks, unseen>>

Publish(w, i) ==
    /\ L!Send(w, i) /\ C!Arrive(<<w, i>>)
    /\ UNCHANGED <<lost, breaks, history>>

\* Variant: given up before it was saved.
LoseEarly(i) ==
    /\ lost' = lost \cup {i}
    /\ UNCHANGED <<known, sent, bot, breaks, history>>

\* Publishing failed, or the process was killed before.
Lose(i) ==
    /\ i \in known /\ lost' = lost \cup {i}
    /\ UNCHANGED <<known, sent, bot, breaks, history>>

----------------------------------------------------------------------------
(* The users and the bot.                                                  *)

\* Whoever stops a search gives up what it was promised.
EditSearch(s) ==
    /\ C!EditSearch(s)
    /\ promised' = {p \in promised : p[1] # s \/ s \notin active}
    /\ UNCHANGED <<scraper, breaks, unseen>>

\* The messages the broker has taken back, if any, cost a break.
Bounded ==
    breaks' = IF \E m \in Messages : where[m] = "unacked" /\ where'[m] = "ready"
              THEN breaks + 1 ELSE breaks

Take(m) ==
    /\ C!Take(m) /\ Bounded /\ breaks' <= MaxBreaks
    /\ unseen' = unseen \cup {<<s, m[2]>> : s \in (active \cap Wanted[m]) \ cache}
    /\ UNCHANGED <<scraper, promised>>

Alert(m, s) ==
    /\ C!Tell(m, s) \/ C!Excuse(m, s)
    /\ UNCHANGED <<scraper, breaks, history>>

Deliver(m) == C!Deliver(m) /\ UNCHANGED <<scraper, breaks, history>>
Ack(m) == C!Ack(m) /\ UNCHANGED <<scraper, breaks, history>>
Refresh == (C!Query \/ C!Assign) /\ UNCHANGED <<scraper, breaks, history>>

GiveBack == C!GiveBack /\ Bounded /\ breaks' <= MaxBreaks /\ UNCHANGED <<scraper, history>>

Stop ==
    /\ C!Stop /\ breaks < MaxBreaks /\ breaks' = breaks + 1
    /\ UNCHANGED <<scraper, history>>

----------------------------------------------------------------------------
Next ==
    \/ \E i \in Items : Record(i) \/ Lose(i) \/ \E w \in Workers : Publish(w, i)
    \/ \E s \in Searches : EditSearch(s)
    \/ \E m \in Messages : Take(m) \/ Deliver(m) \/ Ack(m) \/ \E s \in Searches : Alert(m, s)
    \/ Refresh \/ GiveBack \/ Stop

Spec == Init /\ [][Next]_vars

\* A worker that has recorded a listing goes on to publish it or loses it.
HandOver(i) ==
    /\ i \notin lost /\ \A w \in Workers : sent[w][i] = 0
    /\ Lose(i) \/ \E w \in Workers : Publish(w, i)

\* A task of a message that has not ended yet.
FirstAlert(m, s) == told[m][s] = 0 /\ s \notin excused[m] /\ Alert(m, s)

\* Scraper and Notifier justify it: a worker goes on unless it dies, and then
\* the listing is lost; the broker delivers; the loop takes what it was given,
\* and a task ends.  The cache need not be refreshed and nothing need break.
Fairness ==
    /\ \A i \in Items : WF_vars(HandOver(i))
    /\ \A m \in Messages : WF_vars(Deliver(m)) /\ WF_vars(Take(m))
    /\ \A m \in Messages, s \in Searches : WF_vars(FirstAlert(m, s))

LiveSpec == Spec /\ Fairness

----------------------------------------------------------------------------
(* Properties.                                                             *)

TypeOK ==
    /\ known \in SUBSET Items /\ lost \in SUBSET known
    /\ sent \in [Workers -> [Items -> {0, 1}]]
    /\ where \in [Messages -> {"unsent", "ready", "unacked", "acked", "dead"}]
    /\ deliveries \in [Messages -> 0..(MaxBreaks + 1)]
    /\ stock \in SUBSET Messages /\ copying \in BOOLEAN
    /\ active \in SUBSET Searches /\ cache \in SUBSET Searches /\ rows \in SUBSET Searches
    /\ matched \in [Messages -> SUBSET Searches] /\ excused \in [Messages -> SUBSET Searches]
    /\ told \in [Messages -> [Searches -> 0..(MaxBreaks + 1)]]
    /\ breaks \in 0..MaxBreaks
    /\ promised \in SUBSET (Searches \X known) /\ unseen \in SUBSET (Searches \X known)

Copies(i) == {m \in Messages : m[2] = i}

\* How a promise is kept or ends: the alert was sent or excused, or the
\* listing was lost by the scraper, dead-lettered by a stop, or taken before
\* the bot's copy of the table had the search.
Ended(s, i) ==
    \/ i \in lost \/ <<s, i>> \in unseen
    \/ \E m \in Copies(i) : told[m][s] > 0 \/ s \in excused[m] \/ where[m] = "dead"

\* Whoever searches for a listing that is recorded gets an alert, is about to,
\* or misses it for one of the reasons above, of which the words and prices
\* of a search are none: what is acknowledged was matched rightly.
EveryAlertAccountedFor ==
    \A p \in promised :
        \/ Ended(p[1], p[2])
        \/ \A w \in Workers : sent[w][p[2]] = 0
        \/ \E m \in Copies(p[2]) : where[m] \in {"ready", "unacked"}

\* One alert per copy a worker has sent and per time the broker took it back:
\* nothing else repeats an alert, neither tasks nor stale copies.
AlertsPerCopy ==
    \A w \in Workers, i \in Items, s \in Searches :
        told[<<w, i>>][s] <= sent[w][i] * (1 + breaks)

\* Every promise ends, unless its search is stopped first.
EveryPromiseEnds ==
    \A s \in Searches, i \in Items :
        <<s, i>> \in promised ~> (Ended(s, i) \/ <<s, i>> \notin promised)
============================================================================
