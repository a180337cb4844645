-------------------------- MODULE Notifier_proofs --------------------------
(***************************************************************************)
(* Proofs about Notifier, for any messages, searches and users, any        *)
(* prefetch limit, any number of permits, any failures and any number of   *)
(* lost connections, stops and kills.                                      *)
(***************************************************************************)
EXTENDS Notifier, FiniteSetTheorems, TLAPS

----------------------------------------------------------------------------
(* Types and the shape of the program's state.                             *)

\* TypeOK but for the upper bound of permits, which PermitsConserved gives.
Types ==
    /\ where \in [Messages -> {"unsent", "ready", "unacked", "acked", "dead"}]
    /\ link \in {"up", "down"}
    /\ loop \in {"connect", "consume", "notify", "backoff", "ended"}
    /\ held \in SUBSET Delivery /\ cur \in Delivery \cup {Nothing}
    /\ task \in [Searches -> {"none", "new", "wait", "send", "retry", "done"}]
    /\ permits \in Nat
    /\ active \in SUBSET Searches /\ cache \in SUBSET Searches /\ rows \in SUBSET Searches
    /\ refresh \in {"query", "assign", "sleep"}
    /\ blocked \in SUBSET Users /\ refusing \in SUBSET Users
    /\ breaks \in 0..MaxBreaks
    /\ deliveries \in [Messages -> Nat]
    /\ notified \in [Messages -> [Searches -> Nat]]
    /\ matched \in [Messages -> SUBSET Searches] /\ excused \in [Messages -> SUBSET Searches]
    /\ warm \in BOOLEAN /\ missed \in SUBSET Messages

\* There is a message in hand exactly while the loop notifies, and there are
\* tasks only then; outside its loop the program holds nothing.
Shape ==
    /\ cur # Nothing <=> loop = "notify"
    /\ cur = Nothing => task = Idle
    /\ loop \notin {"consume", "notify"} => held = {} /\ link = "down"

\* The tasks of a message that is not there.
LEMMA IdleType == Idle \in [Searches -> {"none", "new", "wait", "send", "retry", "done"}]
  BY DEF Idle

\* The bot starts in a well-typed state.
LEMMA InitTypes == Init => Types /\ Shape
  <1> SUFFICES ASSUME Init PROVE Types /\ Shape
    OBVIOUS
  <1>1. where \in [Messages -> {"unsent", "ready", "unacked", "acked", "dead"}]
    BY DEF Init
  <1>2. permits \in Nat /\ breaks \in 0..MaxBreaks
    BY NotifierAssumption DEF NotifierAssumption, Init
  <1>3. deliveries \in [Messages -> Nat] /\ notified \in [Messages -> [Searches -> Nat]]
    BY DEF Init
  <1>4. matched \in [Messages -> SUBSET Searches] /\ excused \in [Messages -> SUBSET Searches]
    BY DEF Init
  <1>5. active \in SUBSET Searches
    BY DEF Init
  <1>6. QED
    BY <1>1, <1>2, <1>3, <1>4, <1>5, IdleType DEF Init, Types, Shape

\* Deliveries are told from the absence of one, and by their message and their
\* channel.
LEMMA DeliveryFacts ==
  ASSUME NEW d \in Delivery
  PROVE  /\ d # Nothing /\ d.msg \in Messages /\ d.live \in BOOLEAN
         /\ Stale(d) \in Delivery /\ Stale(d).msg = d.msg /\ ~Stale(d).live
         /\ \A e \in Delivery : e.msg = d.msg /\ e.live = d.live => e = d
  <1>1. d # Nothing /\ d.msg \in Messages /\ d.live \in BOOLEAN
    BY NotifierAssumption DEF NotifierAssumption, Delivery
  <1>2. Stale(d) \in Delivery /\ Stale(d).msg = d.msg /\ ~Stale(d).live
    BY DEF Stale, Delivery
  <1>3. \A e \in Delivery : e.msg = d.msg /\ e.live = d.live => e = d
    BY DEF Delivery
  <1>4. QED
    BY <1>1, <1>2, <1>3

LEMMA NewDelivery ==
  ASSUME NEW m \in Messages
  PROVE  [msg |-> m, live |-> TRUE] \in Delivery
  BY DEF Delivery

\* A call of ack or reject, whatever it does to the message.
LEMMA SettleTypes ==
  ASSUME Types, NEW d \in Delivery, NEW fate \in {"acked", "dead"}, NEW rest \in SUBSET held,
         Settle(d, fate, rest)
  PROVE  /\ where' \in [Messages -> {"unsent", "ready", "unacked", "acked", "dead"}]
         /\ link' \in {"up", "down"} /\ loop' \in {"consume", "backoff"}
         /\ held' \in SUBSET Delivery
         /\ loop' = "backoff" => held' = {} /\ link' = "down"
  BY DEF Types, Settle, Requeued, Delivery

\* Every step keeps the types and the shape.
LEMMA NextTypes == Types /\ Shape /\ [Next]_vars => Types' /\ Shape'
  <1> SUFFICES ASSUME Types, Shape, [Next]_vars PROVE Types' /\ Shape'
    OBVIOUS
  <1> USE NotifierAssumption
      DEF NotifierAssumption, Types, Shape, consumer, tasks, caching, history
  <1>1. ASSUME NEW m \in Messages, Arrive(m) PROVE Types' /\ Shape'
    BY <1>1 DEF Arrive
  <1>2. ASSUME NEW m \in Messages, Deliver(m) PROVE Types' /\ Shape'
    <2>1. where' \in [Messages -> {"unsent", "ready", "unacked", "acked", "dead"}]
      BY <1>2 DEF Deliver
    <2>2. deliveries' \in [Messages -> Nat]
      BY <1>2 DEF Deliver
    <2>3. held' \in SUBSET Delivery /\ loop \in {"consume", "notify"}
      BY <1>2, NewDelivery DEF Deliver
    <2>4. QED
      BY <1>2, <2>1, <2>2, <2>3 DEF Deliver
  <1>3. ASSUME NEW s \in Searches, EditSearch(s) PROVE Types' /\ Shape'
    BY <1>3 DEF EditSearch
  <1>4. ASSUME NEW u \in Users, BlockBot(u) \/ ForgetBlocked(u) PROVE Types' /\ Shape'
    BY <1>4 DEF BlockBot, ForgetBlocked
  <1>5. CASE Connect \/ Backoff \/ RestoreLink \/ Restart
    BY <1>5 DEF Connect, Backoff, RestoreLink, Restart
  <1>6. CASE BreakLink
    <2>1. held' \in SUBSET Delivery /\ cur' \in Delivery \cup {Nothing}
      BY <1>6, DeliveryFacts DEF BreakLink
    <2>2. cur' = Nothing <=> cur = Nothing
      BY <1>6, DeliveryFacts DEF BreakLink
    <2>3. where' \in [Messages -> {"unsent", "ready", "unacked", "acked", "dead"}]
      BY <1>6 DEF BreakLink, Requeued
    <2>4. loop \in {"consume", "notify"}
      BY <1>6 DEF BreakLink
    <2>5. QED
      BY <1>6, <2>1, <2>2, <2>3, <2>4 DEF BreakLink
  <1>7. ASSUME NEW d \in Delivery, TakeInvalid(d) PROVE Types' /\ Shape'
    <2>1. Settle(d, "dead", held \ {d}) /\ loop = "consume"
      BY <1>7 DEF TakeInvalid, Yields
    <2>2. QED
      BY <1>7, <2>1, SettleTypes DEF TakeInvalid
  <1>8. ASSUME NEW d \in Delivery, TakeUnmatched(d) PROVE Types' /\ Shape'
    <2>1. Settle(d, "acked", held \ {d}) /\ loop = "consume"
      BY <1>8 DEF TakeUnmatched, Yields
    <2>2. matched' \in [Messages -> SUBSET Searches] /\ missed' \in SUBSET Messages
      BY <1>8 DEF TakeUnmatched, RecordMatches, Matches, Delivery
    <2>3. QED
      BY <1>8, <2>1, <2>2, SettleTypes DEF TakeUnmatched
  <1>9. ASSUME NEW d \in Delivery, TakeMatched(d) PROVE Types' /\ Shape'
    <2>1. matched' \in [Messages -> SUBSET Searches] /\ missed' \in SUBSET Messages
      BY <1>9 DEF TakeMatched, RecordMatches, Matches, Delivery
    <2>2. d # Nothing
      BY DEF Delivery
    <2>3. QED
      BY <1>9, <2>1, <2>2 DEF TakeMatched, Yields
  <1>10. CASE Finish
    <2>1. Settle(cur, "acked", held) /\ cur \in Delivery
      BY <1>10 DEF Finish
    <2>2. task' \in [Searches -> {"none", "new", "wait", "send", "retry", "done"}] /\ task' = Idle'
      BY <1>10 DEF Finish, Idle
    <2>3. QED
      BY <1>10, <2>1, <2>2, SettleTypes DEF Finish
  <1>11. ASSUME NEW s \in Searches, TaskStep(s) PROVE Types' /\ Shape'
    <2>1. task[s] # "none"
      BY <1>11 DEF TaskStep, SkipBlocked, Acquire, Delivered, Forbidden, FloodControl, SendFails, Holding
    <2>2. cur # Nothing /\ cur \in Delivery /\ cur.msg \in Messages
      BY <2>1 DEF Idle, Delivery
    <2>3. CASE Delivered(s)
      <3> DEFINE row == [notified[cur.msg] EXCEPT ![s] = @ + 1]
      <3>1. row \in [Searches -> Nat]
        BY <2>2
      <3>2. notified' = [notified EXCEPT ![cur.msg] = row]
        BY <2>3 DEF Delivered
      <3>3. notified' \in [Messages -> [Searches -> Nat]]
        BY <3>1, <3>2
      <3>4. QED
        BY <2>2, <2>3, <3>3 DEF Delivered, Release
    <2>4. CASE SkipBlocked(s)
      BY <2>2, <2>4 DEF SkipBlocked, Excuse
    <2>5. CASE Forbidden(s)
      BY <2>2, <2>5 DEF Forbidden, Excuse, Release, Users
    <2>6. CASE SendFails(s)
      BY <2>2, <2>6 DEF SendFails, Excuse, Release
    <2>7. CASE Acquire(s) \/ FloodControl(s)
      BY <2>2, <2>7 DEF Acquire, FloodControl
    <2>8. QED
      BY <1>11, <2>3, <2>4, <2>5, <2>6, <2>7 DEF TaskStep
  <1>12. CASE CacheStep
    BY <1>12 DEF CacheStep, CacheQuery, CacheError, CacheAssign, CacheWake, KeepCache, Fetched
  <1>13. CASE Shutdown
    <2>1. where' \in [Messages -> {"unsent", "ready", "unacked", "acked", "dead"}]
      BY <1>13 DEF Shutdown, EndProcess, RejectCurrent, Requeued
    <2>2. breaks' \in 0..MaxBreaks
      BY <1>13 DEF Shutdown, EndProcess
    <2>3. Types'
      BY <1>13, <2>1, <2>2, IdleType DEF Shutdown, EndProcess
    <2>4. Shape'
      BY <1>13 DEF Shutdown, EndProcess
    <2>5. QED
      BY <2>3, <2>4
  <1>14. CASE Kill
    <2>1. where' \in [Messages -> {"unsent", "ready", "unacked", "acked", "dead"}]
      BY <1>14 DEF Kill, EndProcess, Requeued
    <2>2. breaks' \in 0..MaxBreaks
      BY <1>14 DEF Kill, EndProcess
    <2>3. Types'
      BY <1>14, <2>1, <2>2, IdleType DEF Kill, EndProcess
    <2>4. Shape'
      BY <1>14 DEF Kill, EndProcess
    <2>5. QED
      BY <2>3, <2>4
  <1>15. CASE UNCHANGED vars
    BY <1>15 DEF vars, Idle
  <1>16. QED
    BY <1>1, <1>2, <1>3, <1>4, <1>5, <1>6, <1>7, <1>8, <1>9, <1>10, <1>11, <1>12, <1>13, <1>14, <1>15
       DEF Next, Take

----------------------------------------------------------------------------
(* Deliveries and their channels.                                          *)

\* The deliveries the program holds, cur among them.
InHand == held \cup ({cur} \ {Nothing})

\* A live delivery is what the broker waits for, on a connection that is up,
\* and there is one for each message it waits for; the message of a stale one
\* is back in the queue or out again, but not settled; a live delivery is
\* taken in hand only when no stale one is in store.
Channels ==
    /\ \A d \in InHand : where[d.msg] \in {"ready", "unacked"}
    /\ \A d \in InHand : d.live => where[d.msg] = "unacked" /\ link = "up"
    /\ \A m \in Unacked : [msg |-> m, live |-> TRUE] \in InHand
    /\ cur # Nothing /\ cur.live => cur \notin held /\ \A e \in held : e.live

\* The broker's limit.
Limit == IsFiniteSet(Unacked) /\ Cardinality(Unacked) <= Prefetch

\* The steps that neither move a message nor touch the connection.
LEMMA QuietSteps ==
  ASSUME [Next]_vars
  PROVE  \/ UNCHANGED <<where, link, held, cur>>
         \/ \E m \in Messages : Arrive(m) \/ Deliver(m)
         \/ Connect \/ BreakLink \/ RestoreLink
         \/ \E d \in Delivery : Take(d)
         \/ Finish \/ Shutdown \/ Kill
  <1> USE DEF consumer
  <1>1. ASSUME NEW s \in Searches, EditSearch(s) \/ TaskStep(s) PROVE UNCHANGED <<where, link, held, cur>>
    BY <1>1 DEF EditSearch, TaskStep, SkipBlocked, Acquire, Delivered, Forbidden, FloodControl, SendFails
  <1>2. ASSUME NEW u \in Users, BlockBot(u) \/ ForgetBlocked(u) PROVE UNCHANGED <<where, link, held, cur>>
    BY <1>2 DEF BlockBot, ForgetBlocked
  <1>3. ASSUME Backoff \/ CacheStep \/ Restart \/ UNCHANGED vars PROVE UNCHANGED <<where, link, held, cur>>
    BY <1>3 DEF Backoff, CacheStep, CacheQuery, CacheError, CacheAssign, CacheWake, Restart, vars
  <1>4. QED
    BY <1>1, <1>2, <1>3 DEF Next

\* A call of ack or reject for a delivery that leaves the program with it.
LEMMA SettleChannels ==
  ASSUME Types, Channels, NEW d \in InHand, NEW fate \in {"acked", "dead"}, NEW rest \in SUBSET held,
         Settle(d, fate, rest), d \notin rest, cur' = Nothing,
         d.live => rest \cup {d} = InHand /\ \A e \in rest : e.live
  PROVE  Channels'
  <1> USE DEF InHand
  <1>1. d \in Delivery /\ \A e \in rest : e \in Delivery
    BY DEF Types
  <1>2. CASE d.live
    <2>1. where' = [where EXCEPT ![d.msg] = fate] /\ held' = rest /\ link' = link
      BY <1>2 DEF Settle
    <2>2. \A e \in rest : e.msg # d.msg /\ where'[e.msg] = where[e.msg]
      BY <1>1, <1>2, <2>1, DeliveryFacts DEF Types
    <2>3. \A m \in Unacked' : m \in Unacked /\ m # d.msg
      BY <1>1, <2>1, DeliveryFacts DEF Types, Unacked
    <2>4. ASSUME NEW m \in Unacked' PROVE [msg |-> m, live |-> TRUE] \in rest
      <3>1. m \in Unacked /\ [msg |-> m, live |-> TRUE].msg # d.msg
        BY <2>3
      <3>2. [msg |-> m, live |-> TRUE] \in rest \cup {d}
        BY <1>2, <3>1 DEF Channels
      <3>3. QED
        BY <3>1, <3>2
    <2>5. QED
      BY <1>2, <2>1, <2>2, <2>4 DEF Channels
  <1>3. CASE ~d.live
    <2>1. where' = Requeued /\ held' = {}
      BY <1>3 DEF Settle
    <2>2. Unacked' = {}
      BY <2>1 DEF Unacked, Requeued
    <2>3. QED
      BY <2>1, <2>2 DEF Channels
  <1>4. QED
    BY <1>2, <1>3

LEMMA NextChannels == Types /\ Shape /\ Channels /\ [Next]_vars => Channels'
  <1> SUFFICES ASSUME Types, Shape, Channels, [Next]_vars PROVE Channels'
    OBVIOUS
  <1> USE DEF consumer
  <1>1. CASE UNCHANGED <<where, link, held, cur>>
    BY <1>1 DEF Channels, InHand, Unacked
  <1>2. ASSUME NEW m \in Messages, Arrive(m) PROVE Channels'
    <2>1. \A d \in InHand : d.msg # m /\ d.msg \in Messages
      BY <1>2, DeliveryFacts DEF Arrive, Types, InHand, Channels
    <2>2. InHand' = InHand /\ Unacked' = Unacked /\ UNCHANGED <<link, held, cur>>
      BY <1>2 DEF Arrive, Types, InHand, Unacked
    <2>3. \A d \in InHand : where'[d.msg] = where[d.msg]
      BY <1>2, <2>1 DEF Arrive, Types
    <2>4. QED
      BY <2>2, <2>3 DEF Channels
  <1>3. ASSUME NEW m \in Messages, Deliver(m) PROVE Channels'
    <2> DEFINE new == [msg |-> m, live |-> TRUE]
    <2>1. new \in Delivery /\ new.msg = m /\ new.live
      BY NewDelivery
    <2>2. new \notin InHand
      BY <1>3, <2>1 DEF Deliver, Channels
    <2>3. InHand' = InHand \cup {new} /\ UNCHANGED cur /\ held' = held \cup {new} /\ link' = link
      BY <1>3 DEF Deliver, InHand
    <2>4. \A d \in InHand : where'[d.msg] = IF d.msg = m THEN "unacked" ELSE where[d.msg]
      BY <1>3, DeliveryFacts DEF Deliver, Types, InHand
    <2>5. where'[m] = "unacked" /\ link = "up"
      BY <1>3 DEF Deliver, Types
    <2>6. Unacked' = Unacked \cup {m}
      BY <1>3 DEF Deliver, Types, Unacked
    <2>7. cur # Nothing => cur # new /\ cur \in InHand
      BY <2>2 DEF InHand
    <2>8. \A d \in InHand' : where'[d.msg] \in {"ready", "unacked"} /\ (d.live => where'[d.msg] = "unacked" /\ link' = "up")
      BY <2>1, <2>3, <2>4, <2>5 DEF Channels
    <2>9. \A n \in Unacked' : [msg |-> n, live |-> TRUE] \in InHand'
      BY <2>3, <2>6 DEF Channels
    <2>10. QED
      BY <2>1, <2>3, <2>7, <2>8, <2>9 DEF Channels
  <1>4. CASE Connect
    BY <1>4 DEF Connect, Shape, Channels, InHand, Unacked
  <1>5. CASE RestoreLink
    BY <1>5 DEF RestoreLink, Channels, InHand, Unacked
  <1>6. CASE BreakLink
    <2>1. Unacked' = {}
      BY <1>6 DEF BreakLink, Requeued, Unacked
    <2>2. \A d \in InHand' : d.live = FALSE /\ \E e \in InHand : d.msg = e.msg
      BY <1>6, DeliveryFacts DEF BreakLink, InHand, Types
    <2>3. \A d \in InHand : d.msg \in Messages
      BY DeliveryFacts DEF InHand, Types
    <2>4. \A d \in InHand' : where'[d.msg] \in {"ready", "unacked"}
      BY <1>6, <2>2, <2>3 DEF BreakLink, Requeued, Channels
    <2>5. cur' # Nothing => cur' \in InHand'
      BY DEF InHand
    <2>6. QED
      BY <2>1, <2>2, <2>4, <2>5 DEF Channels
  <1>7. ASSUME NEW d \in Delivery, TakeInvalid(d) \/ TakeUnmatched(d) PROVE Channels'
    <2>1. d \in held /\ cur = Nothing /\ cur' = Nothing /\ (d.live => \A e \in held : e.live)
      BY <1>7 DEF TakeInvalid, TakeUnmatched, Yields, Shape
    <2>2. \E fate \in {"acked", "dead"} : Settle(d, fate, held \ {d})
      BY <1>7 DEF TakeInvalid, TakeUnmatched
    <2>3. InHand = held
      BY <2>1 DEF InHand
    <2>4. QED
      BY <2>1, <2>2, <2>3, SettleChannels
  <1>8. ASSUME NEW d \in Delivery, TakeMatched(d) PROVE Channels'
    <2>1. d \in held /\ cur = Nothing /\ cur' = d /\ held' = held \ {d} /\ (d.live => \A e \in held : e.live)
      BY <1>8 DEF TakeMatched, Yields, Shape
    <2>2. InHand' = InHand /\ UNCHANGED <<where, link>>
      BY <1>8, <2>1, DeliveryFacts DEF TakeMatched, InHand
    <2>3. QED
      BY <2>1, <2>2 DEF Channels, Unacked
  <1>9. CASE Finish
    <2>1. cur # Nothing /\ cur' = Nothing /\ Settle(cur, "acked", held)
      BY <1>9 DEF Finish, Shape
    <2>2. InHand = held \cup {cur} /\ cur \in InHand
      BY <2>1 DEF InHand
    <2>3. CASE cur.live
      BY <2>1, <2>2, <2>3, SettleChannels DEF Channels
    <2>4. CASE ~cur.live
      <3>1. where' = Requeued /\ held' = {}
        BY <2>1, <2>4 DEF Settle
      <3>2. Unacked' = {} /\ InHand' = {}
        BY <2>1, <3>1 DEF Unacked, Requeued, InHand
      <3>3. QED
        BY <2>1, <3>2 DEF Channels
    <2>5. QED
      BY <2>3, <2>4
  <1>10. CASE Shutdown \/ Kill
    <2>1. held' = {} /\ cur' = Nothing /\ (where' = Requeued \/ where' = RejectCurrent)
      BY <1>10 DEF Shutdown, Kill, EndProcess
    <2>2. \A m \in Messages : where'[m] # "unacked"
      <3>1. CASE where' = Requeued
        BY <3>1 DEF Requeued
      <3>2. CASE where' = RejectCurrent
        BY <3>2 DEF Requeued, RejectCurrent
      <3>3. QED
        BY <2>1, <3>1, <3>2
    <2>3. Unacked' = {} /\ InHand' = {}
      BY <2>1, <2>2 DEF Unacked, InHand
    <2>4. QED
      BY <2>1, <2>3 DEF Channels
  <1>11. QED
    BY <1>1, <1>2, <1>3, <1>4, <1>5, <1>6, <1>7, <1>8, <1>9, <1>10, QuietSteps DEF Take

----------------------------------------------------------------------------
(* The broker's limit and the semaphore.                                   *)

\* Only a delivery adds to what the broker waits for.
LEMMA OnlyDeliverAdds ==
  ASSUME Types, Shape, [Next]_vars
  PROVE  Unacked' \subseteq Unacked \/ \E m \in Messages : Deliver(m)
  <1>1. CASE UNCHANGED <<where, link, held, cur>>
    BY <1>1 DEF Unacked
  <1>2. ASSUME NEW m \in Messages, Arrive(m) PROVE Unacked' \subseteq Unacked
    BY <1>2 DEF Arrive, Types, Unacked
  <1>3. CASE Connect \/ RestoreLink
    BY <1>3 DEF Connect, RestoreLink, Unacked
  <1>4. CASE BreakLink
    BY <1>4 DEF BreakLink, Requeued, Unacked
  <1>5. ASSUME NEW d \in Delivery, NEW fate \in {"acked", "dead"}, NEW rest, Settle(d, fate, rest)
        PROVE Unacked' \subseteq Unacked
    <2>1. where' = [where EXCEPT ![d.msg] = fate] \/ where' = Requeued
      BY <1>5 DEF Settle
    <2>2. \A m \in Messages : where'[m] = "unacked" => where[m] = "unacked"
      <3>1. CASE where' = [where EXCEPT ![d.msg] = fate]
        BY <3>1, DeliveryFacts DEF Types
      <3>2. CASE where' = Requeued
        BY <3>2 DEF Requeued
      <3>3. QED
        BY <2>1, <3>1, <3>2
    <2>3. QED
      BY <2>2 DEF Unacked
  <1>6. ASSUME NEW d \in Delivery, Take(d) PROVE Unacked' \subseteq Unacked
    BY <1>5, <1>6 DEF Take, TakeInvalid, TakeUnmatched, TakeMatched, Unacked
  <1>7. CASE Finish
    BY <1>5, <1>7 DEF Finish, Shape, Types
  <1>8. CASE Shutdown \/ Kill
    <2>1. where' = Requeued \/ where' = RejectCurrent
      BY <1>8 DEF Shutdown, Kill, EndProcess
    <2>2. \A m \in Messages : where'[m] # "unacked"
      <3>1. CASE where' = Requeued
        BY <3>1 DEF Requeued
      <3>2. CASE where' = RejectCurrent
        BY <3>2 DEF Requeued, RejectCurrent
      <3>3. QED
        BY <2>1, <3>1, <3>2
    <2>3. QED
      BY <2>2 DEF Unacked
  <1>9. QED
    BY <1>1, <1>2, <1>3, <1>4, <1>6, <1>7, <1>8, QuietSteps

LEMMA NextLimit == Types /\ Shape /\ Limit /\ [Next]_vars => Limit'
  <1> SUFFICES ASSUME Types, Shape, Limit, [Next]_vars PROVE Limit'
    OBVIOUS
  <1>1. CASE Unacked' \subseteq Unacked
    <2>1. IsFiniteSet(Unacked') /\ Cardinality(Unacked') <= Cardinality(Unacked)
      BY <1>1, FS_Subset DEF Limit
    <2>2. Cardinality(Unacked) \in Nat /\ Cardinality(Unacked') \in Nat /\ Prefetch \in Nat
      BY <2>1, FS_CardinalityType, NotifierAssumption DEF Limit, NotifierAssumption
    <2>3. QED
      BY <2>1, <2>2 DEF Limit
  <1>2. ASSUME NEW m \in Messages, Deliver(m) PROVE Limit'
    <2>1. Unacked' = Unacked \cup {m} /\ Cardinality(Unacked) < Prefetch
      BY <1>2 DEF Deliver, BelowPrefetch, Unacked, Types
    <2>2. IsFiniteSet(Unacked') /\ Cardinality(Unacked') <= Cardinality(Unacked) + 1
      BY <2>1, FS_AddElement, FS_CardinalityType DEF Limit
    <2>3. Cardinality(Unacked) \in Nat /\ Cardinality(Unacked') \in Nat /\ Prefetch \in Nat
      BY <2>2, FS_CardinalityType, NotifierAssumption DEF Limit, NotifierAssumption
    <2>4. QED
      BY <2>1, <2>2, <2>3 DEF Limit
  <1>3. QED
    BY <1>1, <1>2, OnlyDeliverAdds

\* The permits that are taken are held by tasks.
Semaphore == IsFiniteSet(Holding) /\ permits + Cardinality(Holding) = Permits

LEMMA IdleHolds == task = Idle => Holding = {}
  BY DEF Idle, Holding

LEMMA NextSemaphore == Types /\ Shape /\ Semaphore /\ [Next]_vars => Semaphore'
  <1> SUFFICES ASSUME Types, Shape, Semaphore, [Next]_vars PROVE Semaphore'
    OBVIOUS
  <1> USE DEF tasks, Semaphore
  <1>0. Cardinality(Holding) \in Nat /\ permits \in Nat /\ Permits \in Nat
    BY FS_CardinalityType, NotifierAssumption DEF Types, NotifierAssumption
  <1>1. CASE Holding' = Holding /\ permits' = permits
    BY <1>1
  <1>2. ASSUME NEW s \in Searches, s \in Holding, Release(s), Holding' = Holding \ {s} PROVE Semaphore'
    BY <1>0, <1>2, FS_RemoveElement DEF Release
  <1>3. ASSUME NEW s \in Searches, s \in Holding, task' = [task EXCEPT ![s] = "done"]
        PROVE Holding' = Holding \ {s}
    BY <1>3 DEF Holding, Types
  <1>4. ASSUME NEW s \in Searches, TaskStep(s) PROVE Semaphore'
    <2>1. CASE Delivered(s) \/ Forbidden(s) \/ SendFails(s)
      BY <1>2, <1>3, <2>1 DEF Delivered, Forbidden, SendFails, Excuse
    <2>2. CASE SkipBlocked(s) \/ FloodControl(s)
      BY <1>1, <2>2 DEF SkipBlocked, FloodControl, Excuse, Holding, Types
    <2>3. CASE Acquire(s)
      <3>1. s \notin Holding
        BY <2>3 DEF Acquire, Holding
      <3>2. CASE permits > 0
        <4>1. task' = [task EXCEPT ![s] = "send"] /\ permits' = permits - 1
          BY <2>3, <3>2, <1>0 DEF Acquire
        <4>2. Holding' = Holding \cup {s}
          BY <4>1 DEF Holding, Types
        <4>3. QED
          BY <1>0, <3>1, <4>1, <4>2, FS_AddElement
      <3>3. CASE ~(permits > 0)
        <4>1. task' = [task EXCEPT ![s] = "wait"] /\ permits' = permits
          BY <2>3, <3>3 DEF Acquire
        <4>2. Holding' = Holding
          BY <3>1, <4>1 DEF Holding, Types
        <4>3. QED
          BY <1>1, <4>1, <4>2
      <3>4. QED
        BY <3>2, <3>3
    <2>4. QED
      BY <1>4, <2>1, <2>2, <2>3 DEF TaskStep
  <1>5. ASSUME NEW d \in Delivery, Take(d) PROVE Semaphore'
    <2>1. Holding = {}
      BY <1>5, IdleHolds DEF Take, TakeInvalid, TakeUnmatched, TakeMatched, Yields, Shape
    <2>2. Holding' = {} /\ permits' = permits
      BY <1>5, <2>1 DEF Take, TakeInvalid, TakeUnmatched, TakeMatched, Holding
    <2>3. QED
      BY <1>1, <2>1, <2>2
  <1>6. CASE Finish
    <2>1. Holding = {}
      BY <1>6 DEF Finish, AllDone, Holding
    <2>2. Holding' = {} /\ permits' = permits
      BY <1>6 DEF Finish, Holding, Idle
    <2>3. QED
      BY <1>1, <2>1, <2>2
  <1>7. CASE Shutdown \/ Kill
    <2>1. Holding' = {} /\ permits' = Permits
      BY <1>7 DEF Shutdown, Kill, EndProcess, Holding, Idle
    <2>2. QED
      BY <1>0, <2>1, FS_EmptySet
  <1>8. ASSUME NEW m \in Messages, Arrive(m) \/ Deliver(m) PROVE Semaphore'
    BY <1>1, <1>8 DEF Arrive, Deliver, Holding
  <1>9. ASSUME NEW s \in Searches, EditSearch(s) PROVE Semaphore'
    BY <1>1, <1>9 DEF EditSearch, Holding
  <1>10. ASSUME NEW u \in Users, BlockBot(u) \/ ForgetBlocked(u) PROVE Semaphore'
    BY <1>1, <1>10 DEF BlockBot, ForgetBlocked, Holding
  <1>11. CASE Connect \/ Backoff \/ BreakLink \/ RestoreLink \/ Restart \/ CacheStep \/ UNCHANGED vars
    BY <1>1, <1>11 DEF Connect, Backoff, BreakLink, RestoreLink, Restart, CacheStep, CacheQuery,
          CacheError, CacheAssign, CacheWake, vars, Holding
  <1>12. QED
    BY <1>4, <1>5, <1>6, <1>7, <1>8, <1>9, <1>10, <1>11 DEF Next

----------------------------------------------------------------------------
(* Notifications per delivery.                                             *)

LiveOf(m) == IF [msg |-> m, live |-> TRUE] \in held THEN 1 ELSE 0
StaleOf(m) == IF [msg |-> m, live |-> FALSE] \in held THEN 1 ELSE 0
Pending(m, s) ==
    IF cur # Nothing /\ cur.msg = m /\ task[s] \in {"new", "wait", "send", "retry"} THEN 1 ELSE 0
Count(m, s) == notified[m][s] + LiveOf(m) + StaleOf(m) + Pending(m, s)

\* Every notification sent, every delivery in store and every task that may
\* still send stands for a delivery of its own.
Counting ==
    \A m \in Messages, s \in Searches : Count(m, s) <= deliveries[m]

LEMMA ZeroOne ==
  ASSUME NEW m \in Messages, NEW s \in Searches
  PROVE  LiveOf(m) \in 0..1 /\ StaleOf(m) \in 0..1 /\ Pending(m, s) \in 0..1
  BY DEF LiveOf, StaleOf, Pending

\* A step that sends nothing and leaves no more in store or to do.
LEMMA NoMoreToCount ==
  ASSUME Types, Counting, UNCHANGED <<notified, deliveries>>,
         \A m \in Messages, s \in Searches :
             LiveOf(m)' + StaleOf(m)' + Pending(m, s)'
                 <= LiveOf(m) + StaleOf(m) + Pending(m, s)
  PROVE  Counting'
  <1> SUFFICES ASSUME NEW m \in Messages, NEW s \in Searches
               PROVE  Count(m, s)' <= deliveries'[m]
    BY DEF Counting
  <1>1. notified[m][s] \in Nat /\ deliveries[m] \in Nat
    BY DEF Types
  <1>2. LiveOf(m)' \in 0..1 /\ StaleOf(m)' \in 0..1 /\ Pending(m, s)' \in 0..1
    BY DEF LiveOf, StaleOf, Pending
  <1>3. Count(m, s) <= deliveries[m]
    BY DEF Counting
  <1>4. QED
    BY <1>1, <1>2, <1>3, ZeroOne DEF Count

LEMMA NextCounting == Types /\ Shape /\ Channels /\ Counting /\ [Next]_vars => Counting'
  <1> SUFFICES ASSUME Types, Shape, Channels, Counting, [Next]_vars PROVE Counting'
    OBVIOUS
  <1> USE DEF consumer, tasks, history
  <1>1. CASE UNCHANGED <<held, cur, notified, deliveries>> /\ \A m \in Messages, s \in Searches : Pending(m, s)' <= Pending(m, s)
    <2>1. \A m \in Messages : LiveOf(m)' = LiveOf(m) /\ StaleOf(m)' = StaleOf(m)
      BY <1>1 DEF LiveOf, StaleOf
    <2>2. \A m \in Messages, s \in Searches : Pending(m, s)' \in 0..1
      BY DEF Pending
    <2>3. QED
      BY <1>1, <2>1, <2>2, NoMoreToCount, ZeroOne
  <1>2. CASE UNCHANGED <<held, cur, task, notified, deliveries>>
    BY <1>1, <1>2 DEF Pending
  <1>3. ASSUME NEW m \in Messages, Arrive(m) PROVE Counting'
    BY <1>2, <1>3 DEF Arrive
  <1>4. ASSUME NEW n \in Messages, Deliver(n) PROVE Counting'
    <2> SUFFICES ASSUME NEW m \in Messages, NEW s \in Searches PROVE Count(m, s)' <= deliveries'[m]
      BY DEF Counting
    <2>1. notified[m][s] \in Nat /\ deliveries[m] \in Nat
      BY DEF Types
    <2>2. Count(m, s) <= deliveries[m]
      BY DEF Counting
    <2>3. UNCHANGED <<cur, task, notified>> /\ held' = held \cup {[msg |-> n, live |-> TRUE]}
      BY <1>4 DEF Deliver
    <2>4. Pending(m, s)' = Pending(m, s) /\ StaleOf(m)' = StaleOf(m)
      BY <2>3 DEF Pending, LiveOf, StaleOf
    <2>5. CASE m = n
      <3>1. LiveOf(m) = 0 /\ LiveOf(m)' = 1
        <4> DEFINE new == [msg |-> n, live |-> TRUE]
        <4>1. where[new.msg] # "unacked" /\ new.live
          BY <1>4 DEF Deliver
        <4>2. new \notin held
          <5> HIDE DEF new
          <5>1. QED
            BY <4>1, DeliveryFacts DEF Channels, InHand
        <4>3. QED
          BY <2>3, <2>5, <4>2 DEF LiveOf, StaleOf
      <3>2. deliveries'[m] = deliveries[m] + 1
        BY <1>4, <2>5 DEF Deliver, Types
      <3>3. QED
        BY <2>1, <2>2, <2>3, <2>4, <3>1, <3>2, ZeroOne DEF Count
    <2>6. CASE m # n
      <3>1. LiveOf(m)' = LiveOf(m)
        BY <2>3, <2>6 DEF LiveOf, StaleOf
      <3>2. deliveries'[m] = deliveries[m]
        BY <1>4, <2>6 DEF Deliver, Types
      <3>3. QED
        BY <2>1, <2>2, <2>3, <2>4, <3>1, <3>2, ZeroOne DEF Count
    <2>7. QED
      BY <2>5, <2>6
  <1>5. CASE BreakLink
    <2>1. \A m \in Messages : LiveOf(m)' = 0 /\ StaleOf(m)' <= LiveOf(m) + StaleOf(m)
      <3> SUFFICES ASSUME NEW m \in Messages
                   PROVE  LiveOf(m)' = 0 /\ StaleOf(m)' <= LiveOf(m) + StaleOf(m)
        OBVIOUS
      <3>1. \A d \in held : d = [msg |-> d.msg, live |-> d.live] /\ d.live \in BOOLEAN
        BY DEF Types, Delivery
      <3>2. \A d \in held' : ~d.live /\ \E e \in held : e.msg = d.msg
        BY <1>5, DeliveryFacts DEF BreakLink, Types
      <3>3. [msg |-> m, live |-> TRUE] \notin held'
        BY <3>2
      <3>4. [msg |-> m, live |-> FALSE] \in held' =>
               [msg |-> m, live |-> TRUE] \in held \/ [msg |-> m, live |-> FALSE] \in held
        <4> SUFFICES ASSUME [msg |-> m, live |-> FALSE] \in held'
                     PROVE  [msg |-> m, live |-> TRUE] \in held \/ [msg |-> m, live |-> FALSE] \in held
          OBVIOUS
        <4>1. PICK e \in held : e.msg = [msg |-> m, live |-> FALSE].msg
          BY <3>2
        <4>2. e = [msg |-> m, live |-> e.live] /\ e.live \in BOOLEAN
          BY <3>1, <4>1
        <4>3. QED
          BY <4>2
      <3>5. QED
        BY <3>3, <3>4 DEF LiveOf, StaleOf
    <2>2. \A m \in Messages, s \in Searches : Pending(m, s)' <= Pending(m, s)
      <3>1. cur' # Nothing => cur # Nothing /\ cur'.msg = cur.msg
        BY <1>5, DeliveryFacts DEF BreakLink, Types
      <3>2. task' = task
        BY <1>5 DEF BreakLink
      <3>3. QED
        BY <3>1, <3>2 DEF Pending
    <2>3. UNCHANGED <<notified, deliveries>>
      BY <1>5 DEF BreakLink
    <2>4. \A m \in Messages, s \in Searches :
             LiveOf(m)' \in 0..1 /\ StaleOf(m)' \in 0..1 /\ Pending(m, s)' \in 0..1
      BY DEF LiveOf, StaleOf, Pending
    <2>5. QED
      BY <2>1, <2>2, <2>3, <2>4, NoMoreToCount, ZeroOne
  <1>6. ASSUME cur' = Nothing, held' \subseteq held, UNCHANGED <<notified, deliveries>> PROVE Counting'
    <2>1. \A m \in Messages, s \in Searches :
             /\ Pending(m, s)' = 0
             /\ LiveOf(m)' <= LiveOf(m) /\ LiveOf(m)' \in 0..1
             /\ StaleOf(m)' <= StaleOf(m) /\ StaleOf(m)' \in 0..1
      BY <1>6 DEF Pending, LiveOf, StaleOf
    <2>2. QED
      BY <1>6, <2>1, NoMoreToCount, ZeroOne
  <1>7. ASSUME NEW d \in Delivery, TakeInvalid(d) \/ TakeUnmatched(d) PROVE Counting'
    <2>1. cur' = Nothing /\ held' \subseteq held
      BY <1>7 DEF TakeInvalid, TakeUnmatched, Yields, Settle, Shape
    <2>2. QED
      BY <1>6, <1>7, <2>1 DEF TakeInvalid, TakeUnmatched
  <1>8. ASSUME NEW d \in Delivery, TakeMatched(d) PROVE Counting'
    <2>1. d \in held /\ held' = held \ {d} /\ cur = Nothing /\ cur' = d /\ UNCHANGED <<notified, deliveries>>
      BY <1>8 DEF TakeMatched, Yields, Shape
    <2>2. d = [msg |-> d.msg, live |-> d.live] /\ d.live \in BOOLEAN
      BY DEF Delivery
    <2> SUFFICES ASSUME NEW m \in Messages, NEW s \in Searches
                 PROVE  LiveOf(m)' + StaleOf(m)' + Pending(m, s)'
                            <= LiveOf(m) + StaleOf(m) + Pending(m, s)
      BY <2>1, NoMoreToCount
    <2>3. Pending(m, s) = 0 /\ Pending(m, s)' \in 0..1 /\ (m # d.msg => Pending(m, s)' = 0)
      BY <2>1 DEF Pending
    <2>4. /\ LiveOf(m)' <= LiveOf(m) /\ LiveOf(m)' \in 0..1 /\ LiveOf(m) \in 0..1
          /\ StaleOf(m)' <= StaleOf(m) /\ StaleOf(m)' \in 0..1 /\ StaleOf(m) \in 0..1
      BY <2>1 DEF LiveOf, StaleOf
    <2>5. CASE m = d.msg
      <3>1. CASE d.live = TRUE
        <4>1. LiveOf(m) = 1 /\ LiveOf(m)' = 0
          BY <2>1, <2>2, <2>5, <3>1 DEF LiveOf
        <4>2. QED
          BY <2>3, <2>4, <4>1
      <3>2. CASE d.live = FALSE
        <4>1. StaleOf(m) = 1 /\ StaleOf(m)' = 0
          BY <2>1, <2>2, <2>5, <3>2 DEF StaleOf
        <4>2. QED
          BY <2>3, <2>4, <4>1
      <3>3. QED
        BY <2>2, <3>1, <3>2
    <2>6. CASE m # d.msg
      BY <2>3, <2>4, <2>6
    <2>7. QED
      BY <2>5, <2>6
  <1>9. CASE Finish
    BY <1>6, <1>9 DEF Finish, Settle
  <1>10. CASE Shutdown \/ Kill
    BY <1>6, <1>10 DEF Shutdown, Kill, EndProcess
  <1>11. ASSUME NEW r \in Searches, TaskStep(r) PROVE Counting'
    <2>1. task[r] \in {"new", "wait", "send", "retry"} /\ UNCHANGED <<held, cur, deliveries>>
      BY <1>11 DEF TaskStep, SkipBlocked, Acquire, Delivered, Forbidden, FloodControl, SendFails, Holding
    <2>2. \A s \in Searches : task'[s] # task[s] => s = r
      BY <1>11 DEF TaskStep, SkipBlocked, Acquire, Delivered, Forbidden, FloodControl, SendFails, Excuse, Types
    <2>3. \A m \in Messages, s \in Searches : Pending(m, s)' <= Pending(m, s)
      BY <2>1, <2>2 DEF Pending
    <2>4. CASE notified' = notified
      BY <1>1, <2>1, <2>3, <2>4
    <2>5. CASE Delivered(r)
      <3>1. cur # Nothing /\ cur.msg \in Messages
        BY <2>1, DeliveryFacts DEF Shape, Idle, Types
      <3>2. \A m \in Messages, s \in Searches :
               notified'[m][s] = IF m = cur.msg /\ s = r THEN notified[m][s] + 1 ELSE notified[m][s]
        BY <2>5, <3>1 DEF Delivered, Types
      <3> SUFFICES ASSUME NEW m \in Messages, NEW s \in Searches PROVE Count(m, s)' <= deliveries'[m]
        BY DEF Counting
      <3>4. notified[m][s] \in Nat /\ deliveries[m] \in Nat /\ deliveries' = deliveries
        BY <2>1 DEF Types
      <3>5. Count(m, s) <= deliveries[m]
        BY DEF Counting
      <3>6. LiveOf(m)' = LiveOf(m) /\ StaleOf(m)' = StaleOf(m)
        BY <2>1 DEF LiveOf, StaleOf
      <3>7. Pending(m, s)' \in 0..1
        BY DEF Pending
      <3>8. CASE m = cur.msg /\ s = r
        <4>1. Pending(m, s) = 1 /\ Pending(m, s)' = 0
          BY <2>1, <2>5, <3>1, <3>8 DEF Pending, Delivered, Types
        <4>2. notified'[m][s] = notified[m][s] + 1
          BY <3>2, <3>8
        <4>3. QED
          BY <3>4, <3>5, <3>6, <4>1, <4>2, ZeroOne DEF Count
      <3>9. CASE ~(m = cur.msg /\ s = r)
        BY <2>3, <3>2, <3>4, <3>5, <3>6, <3>7, <3>9, ZeroOne DEF Count
      <3>10. QED
        BY <3>8, <3>9
    <2>6. QED
      BY <1>11, <2>4, <2>5 DEF TaskStep, SkipBlocked, Acquire, Forbidden, FloodControl, SendFails, Excuse
  <1>12. ASSUME NEW s \in Searches, EditSearch(s) PROVE Counting'
    BY <1>2, <1>12 DEF EditSearch
  <1>13. ASSUME NEW u \in Users, BlockBot(u) \/ ForgetBlocked(u) PROVE Counting'
    BY <1>2, <1>13 DEF BlockBot, ForgetBlocked
  <1>14. CASE Connect \/ Backoff \/ RestoreLink \/ Restart \/ CacheStep \/ UNCHANGED vars
    BY <1>2, <1>14 DEF Connect, Backoff, RestoreLink, Restart, CacheStep, CacheQuery, CacheError,
          CacheAssign, CacheWake, vars
  <1>15. QED
    BY <1>3, <1>4, <1>5, <1>7, <1>8, <1>9, <1>10, <1>11, <1>12, <1>13, <1>14 DEF Next, Take

----------------------------------------------------------------------------
(* What a message matched, and what became of it.                          *)

Served(m, s) == notified[m][s] > 0 \/ s \in excused[m]

\* The tasks of the message in hand are those of the searches it matched, and
\* one that is done has served its search; so has an acknowledged message.
Serving ==
    /\ cur # Nothing => matched[cur.msg] # {} /\ matched[cur.msg] = {s \in Searches : task[s] # "none"}
    /\ \A s \in Searches : task[s] = "done" => Served(cur.msg, s)
    /\ \A m \in Messages : where[m] = "acked" => \A s \in matched[m] : Served(m, s)

\* The searches nobody stops.
Steady == Searches \ Editable

\* They are in the database, in a copy that is under way, and in the cache
\* once there has been one; and a message taken since has matched them.
Knowing ==
    /\ Steady \subseteq active
    /\ refresh = "assign" => Steady \subseteq rows
    /\ warm => Steady \subseteq cache

Covering ==
    \A m \in Messages \ (missed \cup Invalid) :
        where[m] = "acked" \/ (cur # Nothing /\ cur.msg = m) => Wanted[m] \ Editable \subseteq matched[m]

\* A step that settles nothing and leaves the tasks and their message alone.
LEMMA NothingSettled ==
  ASSUME Serving, UNCHANGED <<task, matched, notified, excused>>, cur' = cur,
         \A m \in Messages : where'[m] = "acked" => where[m] = "acked"
  PROVE  Serving'
  BY DEF Serving, Served

\* A call of ack or reject: the message it acknowledges is that of d.
LEMMA SettleAcks ==
  ASSUME Types, NEW d \in Delivery, NEW fate \in {"acked", "dead"}, NEW rest, Settle(d, fate, rest)
  PROVE  \A m \in Messages : where'[m] = "acked" => where[m] = "acked" \/ (m = d.msg /\ d.live /\ fate = "acked")
  <1>1. CASE d.live
    BY <1>1, DeliveryFacts DEF Settle, Types
  <1>2. CASE ~d.live
    BY <1>2 DEF Settle, Requeued
  <1>3. QED
    BY <1>1, <1>2

LEMMA NextServing == Types /\ Shape /\ Channels /\ Serving /\ [Next]_vars => Serving'
  <1> SUFFICES ASSUME Types, Shape, Channels, Serving, [Next]_vars PROVE Serving'
    OBVIOUS
  <1> USE DEF consumer, tasks, history
  <1>1. ASSUME NEW m \in Messages, Arrive(m) \/ Deliver(m) PROVE Serving'
    <2>1. \A n \in Messages : where'[n] = "acked" => where[n] = "acked"
      BY <1>1 DEF Arrive, Deliver, Types
    <2>2. QED
      BY <1>1, <2>1, NothingSettled DEF Arrive, Deliver
  <1>2. ASSUME NEW s \in Searches, EditSearch(s) PROVE Serving'
    BY <1>2, NothingSettled DEF EditSearch
  <1>3. ASSUME NEW u \in Users, BlockBot(u) \/ ForgetBlocked(u) PROVE Serving'
    BY <1>3, NothingSettled DEF BlockBot, ForgetBlocked
  <1>4. CASE Connect \/ Backoff \/ RestoreLink \/ Restart \/ CacheStep \/ UNCHANGED vars
    BY <1>4, NothingSettled DEF Connect, Backoff, RestoreLink, Restart, CacheStep, CacheQuery, CacheError,
          CacheAssign, CacheWake, vars
  <1>5. CASE BreakLink
    <2>1. \A m \in Messages : where'[m] = "acked" => where[m] = "acked"
      BY <1>5 DEF BreakLink, Requeued
    <2>2. UNCHANGED <<task, matched, notified, excused>>
      BY <1>5 DEF BreakLink
    <2>3. cur' = Nothing <=> cur = Nothing
      BY <1>5, DeliveryFacts DEF BreakLink, Types
    <2>4. cur # Nothing => cur'.msg = cur.msg
      BY <1>5, DeliveryFacts DEF BreakLink, Types
    <2>5. cur = Nothing => \A s \in Searches : task[s] # "done"
      BY DEF Shape, Idle
    <2>6. QED
      BY <2>1, <2>2, <2>3, <2>4, <2>5 DEF Serving, Served
  <1>6. ASSUME NEW d \in Delivery, TakeInvalid(d) PROVE Serving'
    <2>1. Settle(d, "dead", held \ {d})
      BY <1>6 DEF TakeInvalid
    <2>2. \A m \in Messages : where'[m] = "acked" => where[m] = "acked"
      BY <2>1, SettleAcks
    <2>3. QED
      BY <1>6, <2>2, NothingSettled DEF TakeInvalid
  <1>7. ASSUME NEW d \in Delivery, TakeUnmatched(d) \/ TakeMatched(d)
        PROVE  /\ matched' = [matched EXCEPT ![d.msg] = Matches(d.msg)]
               /\ cur = Nothing /\ where[d.msg] # "acked"
               /\ d.msg \in Messages /\ UNCHANGED <<notified, excused>>
    <2>1. d \in held /\ cur = Nothing
      BY <1>7 DEF TakeUnmatched, TakeMatched, Yields, Shape
    <2>2. where[d.msg] # "acked"
      BY <2>1 DEF Channels, InHand
    <2>3. QED
      BY <1>7, <2>1, <2>2, DeliveryFacts DEF TakeUnmatched, TakeMatched, RecordMatches
  <1>8. ASSUME NEW d \in Delivery, TakeUnmatched(d) PROVE Serving'
    <2>1. Settle(d, "acked", held \ {d}) /\ Matches(d.msg) = {} /\ UNCHANGED <<task, cur>>
      BY <1>8 DEF TakeUnmatched
    <2>2. \A m \in Messages : where'[m] = "acked" => where[m] = "acked" \/ m = d.msg
      BY <2>1, SettleAcks
    <2>3. \A m \in Messages : where'[m] = "acked" => \A s \in matched'[m] : Served(m, s)'
      BY <1>7, <1>8, <2>1, <2>2 DEF Serving, Served, Types
    <2>4. \A s \in Searches : task'[s] # "done"
      BY <1>7, <1>8, <2>1 DEF Shape, Idle
    <2>5. QED
      BY <1>7, <1>8, <2>1, <2>3, <2>4 DEF Serving
  <1>9. ASSUME NEW d \in Delivery, TakeMatched(d) PROVE Serving'
    <2>1. /\ Matches(d.msg) # {} /\ cur' = d /\ where' = where
          /\ task' = [s \in Searches |-> IF s \in Matches(d.msg) THEN "new" ELSE "none"]
      BY <1>9 DEF TakeMatched
    <2>2. matched'[d.msg] = Matches(d.msg) /\ Matches(d.msg) \subseteq Searches
      BY <1>7, <1>9 DEF Types, Matches
    <2>3. matched'[d.msg] = {s \in Searches : task'[s] # "none"} /\ \A s \in Searches : task'[s] # "done"
      BY <2>1, <2>2
    <2>4. \A m \in Messages : where'[m] = "acked" => \A s \in matched'[m] : Served(m, s)'
      BY <1>7, <1>9, <2>1 DEF Serving, Served, Types
    <2>5. QED
      BY <2>1, <2>2, <2>3, <2>4 DEF Serving
  <1>10. CASE Finish
    <2>1. Settle(cur, "acked", held) /\ cur \in Delivery /\ cur' = Nothing /\ task' = Idle
      BY <1>10 DEF Finish, Shape, Types
    <2>2. \A m \in Messages : where'[m] = "acked" => where[m] = "acked" \/ m = cur.msg
      BY <2>1, SettleAcks
    <2>3. \A s \in matched[cur.msg] : Served(cur.msg, s)
      BY <1>10 DEF Finish, AllDone, Shape, Serving
    <2>4. UNCHANGED <<matched, notified, excused>>
      BY <1>10 DEF Finish
    <2>5. \A s \in Searches : task'[s] # "done"
      BY <2>1 DEF Idle
    <2>6. QED
      BY <2>1, <2>2, <2>3, <2>4, <2>5 DEF Serving, Served
  <1>11. CASE Shutdown \/ Kill
    <2>1. where' = Requeued \/ where' = RejectCurrent
      BY <1>11 DEF Shutdown, Kill, EndProcess
    <2>2. \A m \in Messages : where'[m] = "acked" => where[m] = "acked"
      <3>1. CASE where' = Requeued
        BY <3>1 DEF Requeued
      <3>2. CASE where' = RejectCurrent
        BY <3>2 DEF Requeued, RejectCurrent
      <3>3. QED
        BY <2>1, <3>1, <3>2
    <2>3. cur' = Nothing /\ task' = Idle /\ UNCHANGED <<matched, notified, excused>>
      BY <1>11 DEF Shutdown, Kill, EndProcess
    <2>4. \A s \in Searches : task'[s] # "done"
      BY <2>3 DEF Idle
    <2>5. QED
      BY <2>2, <2>3, <2>4 DEF Serving, Served
  <1>12. ASSUME NEW r \in Searches, TaskStep(r) PROVE Serving'
    <2>1. task[r] \notin {"none", "done"} /\ UNCHANGED <<where, cur, matched>>
      BY <1>12 DEF TaskStep, SkipBlocked, Acquire, Delivered, Forbidden, FloodControl, SendFails, Holding
    <2>2. cur # Nothing /\ cur.msg \in Messages
      BY <2>1, DeliveryFacts DEF Shape, Idle, Types
    <2>3. \A s \in Searches : (task'[s] # "none" <=> task[s] # "none") /\ (task'[s] = "done" => s = r \/ task[s] = "done")
      BY <1>12, <2>1 DEF TaskStep, SkipBlocked, Acquire, Delivered, Forbidden, FloodControl, SendFails, Excuse, Types
    <2>4. \A m \in Messages, s \in Searches : Served(m, s) => Served(m, s)'
      <3>1. CASE UNCHANGED <<notified, excused>>
        BY <3>1 DEF Served
      <3>2. CASE Excuse(r)
        BY <2>2, <3>2 DEF Excuse, Served, Types
      <3>3. CASE Delivered(r)
        <4>1. \A m \in Messages, s \in Searches : notified'[m][s] = notified[m][s] \/ notified'[m][s] = notified[m][s] + 1
          BY <2>2, <3>3 DEF Delivered, Types
        <4>2. excused' = excused /\ \A m \in Messages, s \in Searches : notified[m][s] \in Nat
          BY <3>3 DEF Delivered, Types
        <4>3. QED
          BY <4>1, <4>2 DEF Served
      <3>4. QED
        BY <1>12, <3>1, <3>2, <3>3 DEF TaskStep, SkipBlocked, Acquire, Forbidden, FloodControl, SendFails
    <2>5. task'[r] = "done" => Served(cur.msg, r)'
      <3>1. CASE Excuse(r)
        BY <2>1, <2>2, <3>1 DEF Excuse, Served, Types
      <3>2. CASE Delivered(r)
        <4>1. notified'[cur.msg][r] = notified[cur.msg][r] + 1 /\ notified[cur.msg][r] \in Nat
          BY <2>2, <3>2 DEF Delivered, Types
        <4>2. QED
          BY <2>1, <4>1 DEF Served
      <3>3. CASE Acquire(r) \/ FloodControl(r)
        BY <3>3 DEF Acquire, FloodControl, Types
      <3>4. QED
        BY <1>12, <3>1, <3>2, <3>3 DEF TaskStep, SkipBlocked, Forbidden, SendFails
    <2>6. \A m \in Messages, s \in Searches : m = cur.msg /\ task'[s] = "done" => Served(m, s)'
      <3> SUFFICES ASSUME NEW m \in Messages, NEW s \in Searches, m = cur.msg, task'[s] = "done"
                   PROVE  Served(m, s)'
        OBVIOUS
      <3>1. CASE s = r
        BY <2>1, <2>5, <3>1 DEF Served
      <3>2. CASE s # r
        BY <2>2, <2>3, <2>4, <3>2 DEF Serving
      <3>3. QED
        BY <3>1, <3>2
    <2>7. \A m \in Messages : where'[m] = "acked" => \A s \in matched'[m] : Served(m, s)'
      BY <2>1, <2>4 DEF Serving, Types
    <2>8. {s \in Searches : task'[s] # "none"} = {s \in Searches : task[s] # "none"}
      BY <2>3
    <2>9. cur' = cur /\ matched'[cur.msg] = matched[cur.msg]
      BY <2>1
    <2>10. \A s \in Searches : task'[s] = "done" => Served(cur.msg, s)'
      BY <2>2, <2>6, <2>9 DEF Served
    <2>11. QED
      BY <2>7, <2>8, <2>9, <2>10 DEF Serving
  <1>13. QED
    BY <1>1, <1>2, <1>3, <1>4, <1>5, <1>6, <1>8, <1>9, <1>10, <1>11, <1>12 DEF Next, Take

\* The cache, the copy under way and the database.
LEMMA NextKnowing == Types /\ Knowing /\ [Next]_vars => Knowing'
  <1> SUFFICES ASSUME Types, Knowing, [Next]_vars PROVE Knowing'
    OBVIOUS
  <1> USE DEF caching, history, Knowing, Steady
  <1>1. CASE UNCHANGED <<active, caching, warm>>
    BY <1>1
  <1>2. ASSUME NEW s \in Searches, EditSearch(s) PROVE Knowing'
    BY <1>2 DEF EditSearch
  <1>3. CASE CacheStep
    BY <1>3 DEF CacheStep, CacheQuery, CacheError, CacheAssign, CacheWake, KeepCache, Fetched
  <1>4. CASE Shutdown \/ Kill
    BY <1>4 DEF Shutdown, Kill, EndProcess
  <1>5. ASSUME NEW m \in Messages, Arrive(m) \/ Deliver(m) PROVE Knowing'
    BY <1>1, <1>5 DEF Arrive, Deliver
  <1>6. ASSUME NEW s \in Searches, TaskStep(s) PROVE Knowing'
    BY <1>1, <1>6 DEF TaskStep, SkipBlocked, Acquire, Delivered, Forbidden, FloodControl, SendFails
  <1>7. ASSUME NEW u \in Users, BlockBot(u) \/ ForgetBlocked(u) PROVE Knowing'
    BY <1>1, <1>7 DEF BlockBot, ForgetBlocked
  <1>8. ASSUME NEW d \in Delivery, Take(d) PROVE Knowing'
    BY <1>1, <1>8 DEF Take, TakeInvalid, TakeUnmatched, TakeMatched
  <1>9. CASE Connect \/ Backoff \/ BreakLink \/ RestoreLink \/ Finish \/ Restart \/ UNCHANGED vars
    BY <1>1, <1>9 DEF Connect, Backoff, BreakLink, RestoreLink, Finish, Restart, vars
  <1>10. QED
    BY <1>2, <1>3, <1>4, <1>5, <1>6, <1>7, <1>8, <1>9 DEF Next

\* A step after which no message is acknowledged or in hand that was not so
\* before, and no message has matched anew.
LEMMA NothingTaken ==
  ASSUME Covering, UNCHANGED <<matched, missed>>,
         \A m \in Messages : where'[m] = "acked" \/ (cur' # Nothing /\ cur'.msg = m)
                                 => where[m] = "acked" \/ (cur # Nothing /\ cur.msg = m)
  PROVE  Covering'
  BY DEF Covering

LEMMA NextCovering == Types /\ Shape /\ Channels /\ Knowing /\ Covering /\ [Next]_vars => Covering'
  <1> SUFFICES ASSUME Types, Shape, Channels, Knowing, Covering, [Next]_vars PROVE Covering'
    OBVIOUS
  <1> USE DEF consumer, tasks, history
  <1>1. ASSUME NEW m \in Messages, Arrive(m) \/ Deliver(m) PROVE Covering'
    <2>1. \A n \in Messages : where'[n] = "acked" => where[n] = "acked"
      BY <1>1 DEF Arrive, Deliver, Types
    <2>2. QED
      BY <1>1, <2>1, NothingTaken DEF Arrive, Deliver
  <1>2. CASE UNCHANGED <<where, cur, matched, missed>>
    BY <1>2, NothingTaken
  <1>3. ASSUME NEW s \in Searches, EditSearch(s) \/ TaskStep(s) PROVE Covering'
    BY <1>2, <1>3 DEF EditSearch, TaskStep, SkipBlocked, Acquire, Delivered, Forbidden, FloodControl, SendFails
  <1>4. ASSUME NEW u \in Users, BlockBot(u) \/ ForgetBlocked(u) PROVE Covering'
    BY <1>2, <1>4 DEF BlockBot, ForgetBlocked
  <1>5. CASE Connect \/ Backoff \/ RestoreLink \/ Restart \/ CacheStep \/ UNCHANGED vars
    BY <1>2, <1>5 DEF Connect, Backoff, RestoreLink, Restart, CacheStep, CacheQuery, CacheError,
          CacheAssign, CacheWake, vars
  <1>6. CASE BreakLink
    <2>1. \A m \in Messages : where'[m] = "acked" => where[m] = "acked"
      BY <1>6 DEF BreakLink, Requeued
    <2>2. cur' # Nothing => cur # Nothing /\ cur'.msg = cur.msg
      BY <1>6, DeliveryFacts DEF BreakLink, Types
    <2>3. QED
      BY <1>6, <2>1, <2>2, NothingTaken DEF BreakLink
  <1>7. ASSUME NEW d \in Delivery, TakeInvalid(d) PROVE Covering'
    <2>1. Settle(d, "dead", held \ {d})
      BY <1>7 DEF TakeInvalid
    <2>2. \A m \in Messages : where'[m] = "acked" => where[m] = "acked"
      BY <2>1, SettleAcks
    <2>3. QED
      BY <1>7, <2>2, NothingTaken DEF TakeInvalid
  <1>8. ASSUME NEW d \in Delivery, TakeUnmatched(d) \/ TakeMatched(d) PROVE Covering'
    <2>1. /\ matched' = [matched EXCEPT ![d.msg] = Matches(d.msg)] /\ d.msg \in Messages
          /\ missed' = IF warm THEN missed ELSE missed \cup {d.msg}
      BY <1>8, DeliveryFacts DEF TakeUnmatched, TakeMatched, RecordMatches
    <2>2. \A m \in Messages : where'[m] = "acked" \/ (cur' # Nothing /\ cur'.msg = m) => where[m] = "acked" \/ m = d.msg
      <3>1. CASE TakeUnmatched(d)
        <4>1. Settle(d, "acked", held \ {d}) /\ cur' = Nothing
          BY <3>1 DEF TakeUnmatched, Yields, Shape
        <4>2. QED
          BY <4>1, SettleAcks
      <3>2. CASE TakeMatched(d)
        BY <3>2 DEF TakeMatched
      <3>3. QED
        BY <1>8, <3>1, <3>2
    <2>3. d.msg \notin missed' => Wanted[d.msg] \ Editable \subseteq matched'[d.msg]
      <3>1. Wanted[d.msg] \subseteq Searches
        BY <2>1, NotifierAssumption DEF NotifierAssumption
      <3>2. d.msg \notin missed' => Wanted[d.msg] \ Editable \subseteq Matches(d.msg)
        BY <2>1, <3>1 DEF Knowing, Steady, Matches
      <3>3. QED
        BY <2>1, <3>2 DEF Types
    <2>4. \A m \in Messages : m # d.msg => matched'[m] = matched[m] /\ (m \notin missed' => m \notin missed)
      BY <2>1 DEF Types
    <2>5. QED
      BY <2>1, <2>2, <2>3, <2>4 DEF Covering
  <1>9. CASE Finish
    <2>1. Settle(cur, "acked", held) /\ cur # Nothing /\ cur' = Nothing /\ cur \in Delivery
      BY <1>9 DEF Finish, Shape, Types
    <2>2. \A m \in Messages : where'[m] = "acked" => where[m] = "acked" \/ m = cur.msg
      BY <2>1, SettleAcks
    <2>3. QED
      BY <1>9, <2>1, <2>2, NothingTaken DEF Finish
  <1>10. CASE Shutdown \/ Kill
    <2>1. where' = Requeued \/ where' = RejectCurrent
      BY <1>10 DEF Shutdown, Kill, EndProcess
    <2>2. \A m \in Messages : where'[m] = "acked" => where[m] = "acked"
      <3>1. CASE where' = Requeued
        BY <3>1 DEF Requeued
      <3>2. CASE where' = RejectCurrent
        BY <3>2 DEF Requeued, RejectCurrent
      <3>3. QED
        BY <2>1, <3>1, <3>2
    <2>3. QED
      BY <1>10, <2>2, NothingTaken DEF Shutdown, Kill, EndProcess
  <1>11. QED
    BY <1>1, <1>3, <1>4, <1>5, <1>6, <1>7, <1>8, <1>9, <1>10 DEF Next, Take

----------------------------------------------------------------------------
(* How often a message comes back.                                         *)

\* It waits for a first or another delivery; the program holds a delivery that
\* a lost connection has left behind, whose settlement will fail and give back
\* everything the new connection has brought.
InQueue(m) == IF where[m] \in {"unsent", "ready"} THEN 1 ELSE 0
Leftover == IF \E d \in InHand : ~d.live THEN 1 ELSE 0
Redelivery == \A m \in Messages : deliveries[m] + InQueue(m) + Leftover <= 1 + 2 * breaks

LEMMA RedeliveryTypes ==
  ASSUME Types, NEW m \in Messages
  PROVE  deliveries[m] \in Nat /\ InQueue(m) \in {0, 1} /\ Leftover \in {0, 1} /\ breaks \in Nat
  BY NotifierAssumption DEF NotifierAssumption, Types, InQueue, Leftover

\* Only the broker delivers, and breaks are counted up.
LEMMA OnlyDeliverCounts ==
  ASSUME Types, [Next]_vars
  PROVE  /\ breaks' = breaks \/ breaks' = breaks + 1
         /\ UNCHANGED deliveries \/ (breaks' = breaks /\ \E m \in Messages : Deliver(m))
  <1> USE DEF history
  <1> DEFINE Goal == /\ breaks' = breaks \/ breaks' = breaks + 1
                     /\ UNCHANGED deliveries \/ (breaks' = breaks /\ \E m \in Messages : Deliver(m))
  <1>1. ASSUME NEW m \in Messages, Arrive(m) \/ Deliver(m)
        PROVE  Goal
    BY <1>1 DEF Arrive, Deliver
  <1>2. ASSUME NEW s \in Searches, EditSearch(s) \/ TaskStep(s) PROVE Goal
    BY <1>2 DEF EditSearch, TaskStep, SkipBlocked, Acquire, Delivered, Forbidden, FloodControl, SendFails
  <1>3. ASSUME NEW u \in Users, BlockBot(u) \/ ForgetBlocked(u) PROVE Goal
    BY <1>3 DEF BlockBot, ForgetBlocked
  <1>4. ASSUME Backoff \/ RestoreLink \/ Finish \/ Restart \/ CacheStep \/ UNCHANGED vars
        PROVE  Goal
    BY <1>4 DEF Backoff, RestoreLink, Finish, Restart, CacheStep, CacheQuery, CacheError, CacheAssign, CacheWake, vars
  <1>5. ASSUME NEW d \in Delivery, Take(d) PROVE Goal
    BY <1>5 DEF Take, TakeInvalid, TakeUnmatched, TakeMatched
  <1>6. ASSUME Connect \/ BreakLink \/ Shutdown \/ Kill
        PROVE  Goal
    BY <1>6 DEF Connect, BreakLink, Shutdown, Kill, EndProcess
  <1> HIDE DEF Goal
  <1>7. Goal
    BY <1>1, <1>2, <1>3, <1>4, <1>5, <1>6 DEF Next
  <1>8. QED
    BY <1>7 DEF Goal

\* A delivery is settled: either its message leaves the queue, or the program
\* lets go of what a lost connection had left.
LEMMA SettleRedelivery ==
  ASSUME Types, Types', Redelivery, NEW d \in InHand, NEW fate \in {"acked", "dead"}, NEW rest \in SUBSET held,
         Settle(d, fate, rest), cur' = Nothing, UNCHANGED <<breaks, deliveries>>
  PROVE  Redelivery'
  <1> SUFFICES ASSUME NEW m \in Messages
               PROVE  deliveries'[m] + InQueue(m)' + Leftover' <= 1 + 2 * breaks'
    BY DEF Redelivery
  <1>1. deliveries[m] + InQueue(m) + Leftover <= 1 + 2 * breaks
    BY DEF Redelivery
  <1>2. d \in Delivery /\ InQueue(m)' \in {0, 1} /\ Leftover' \in {0, 1}
    BY RedeliveryTypes DEF InHand, Types, InQueue, Leftover
  <1>3. CASE d.live
    <2>1. InHand' \subseteq InHand
      BY <1>3 DEF Settle, InHand
    <2>2. InQueue(m)' <= InQueue(m)
      BY <1>2, <1>3, DeliveryFacts DEF Settle, InQueue, Types
    <2>3. Leftover' <= Leftover
      BY <2>1 DEF Leftover
    <2>4. QED
      BY <1>1, <1>2, <2>2, <2>3, RedeliveryTypes
  <1>4. CASE ~d.live
    <2>1. InHand' = {}
      BY <1>4 DEF Settle, InHand
    <2>2. Leftover = 1 /\ Leftover' = 0
      BY <1>4, <2>1 DEF Leftover
    <2>3. QED
      BY <1>1, <1>2, <2>2, RedeliveryTypes
  <1>5. QED
    BY <1>3, <1>4

LEMMA NextRedelivery == Types /\ Shape /\ Redelivery /\ [Next]_vars => Redelivery'
  <1> SUFFICES ASSUME Types, Shape, Redelivery, [Next]_vars PROVE Redelivery'
    OBVIOUS
  <1>1. Types'
    BY NextTypes
  <1>2. ASSUME NEW m \in Messages
        PROVE  /\ deliveries[m] \in Nat /\ InQueue(m) \in {0, 1} /\ Leftover \in {0, 1} /\ breaks \in Nat
               /\ deliveries'[m] \in Nat /\ InQueue(m)' \in {0, 1} /\ Leftover' \in {0, 1} /\ breaks' \in Nat
    BY <1>1, NotifierAssumption DEF NotifierAssumption, Types, InQueue, Leftover
  <1>3. CASE breaks' = breaks + 1
    BY <1>2, <1>3, OnlyDeliverCounts DEF Redelivery
  <1>4. ASSUME UNCHANGED <<breaks, deliveries>>, InHand' \subseteq InHand,
               \A m \in Messages : where[m] \notin {"unsent", "ready"} => where'[m] \notin {"unsent", "ready"}
        PROVE  Redelivery'
    <2>1. \A m \in Messages : InQueue(m)' <= InQueue(m)
      BY <1>4 DEF InQueue
    <2>2. Leftover' <= Leftover
      BY <1>4 DEF Leftover
    <2>3. QED
      BY <1>2, <1>4, <2>1, <2>2 DEF Redelivery
  <1>5. ASSUME NEW m \in Messages, Deliver(m) PROVE Redelivery'
    <2>1. Leftover' = Leftover
      BY <1>5 DEF Deliver, InHand, Leftover
    <2>2. \A n \in Messages \ {m} : InQueue(n)' = InQueue(n) /\ deliveries'[n] = deliveries[n]
      BY <1>5 DEF Deliver, InQueue, Types
    <2>3. InQueue(m) = 1 /\ InQueue(m)' = 0 /\ deliveries'[m] = deliveries[m] + 1 /\ breaks' = breaks
      BY <1>5 DEF Deliver, InQueue, Types
    <2>4. QED
      BY <1>2, <2>1, <2>2, <2>3 DEF Redelivery
  <1>6. CASE breaks' = breaks /\ UNCHANGED deliveries
    <2>1. CASE UNCHANGED <<where, link, held, cur>>
      BY <1>4, <1>6, <2>1 DEF InHand
    <2>2. ASSUME NEW m \in Messages, Arrive(m) PROVE Redelivery'
      BY <1>4, <1>6, <2>2 DEF Arrive, consumer, InHand, Types
    <2>3. CASE Connect \/ RestoreLink
      BY <1>4, <1>6, <2>3 DEF Connect, RestoreLink, InHand
    <2>4. ASSUME NEW d \in Delivery, TakeInvalid(d) \/ TakeUnmatched(d) PROVE Redelivery'
      <3>1. d \in InHand /\ cur' = Nothing /\ \E fate \in {"acked", "dead"} : Settle(d, fate, held \ {d})
        BY <2>4 DEF TakeInvalid, TakeUnmatched, Yields, Shape, InHand
      <3>2. QED
        BY <1>1, <1>6, <3>1, SettleRedelivery
    <2>5. ASSUME NEW d \in Delivery, TakeMatched(d) PROVE Redelivery'
      BY <1>4, <1>6, <2>5 DEF TakeMatched, Yields, InHand
    <2>6. CASE Finish
      <3>1. cur \in InHand /\ cur' = Nothing /\ Settle(cur, "acked", held)
        BY <2>6 DEF Finish, Shape, InHand
      <3>2. QED
        BY <1>1, <1>6, <3>1, SettleRedelivery
    <2>7. CASE BreakLink \/ Shutdown \/ Kill
      BY <1>2, <1>6, <2>7 DEF BreakLink, Shutdown, Kill, EndProcess, Types
    <2>8. ASSUME NEW m \in Messages, Deliver(m) PROVE Redelivery'
      BY <1>5, <2>8
    <2>9. QED
      BY <2>1, <2>2, <2>3, <2>4, <2>5, <2>6, <2>7, <2>8, QuietSteps DEF Take
  <1>7. QED
    BY <1>3, <1>5, <1>6, OnlyDeliverCounts

LEMMA InitRedelivery == Init => Redelivery
  BY DEF Init, Redelivery, InQueue, Leftover, InHand

----------------------------------------------------------------------------
(* The inductive invariant.                                                *)

IInv ==
    /\ Types /\ Shape /\ Channels /\ Limit /\ Semaphore /\ Counting
    /\ Serving /\ Knowing /\ Covering /\ Redelivery

LEMMA InitIInv == Init => IInv
  <1> SUFFICES ASSUME Init PROVE IInv
    OBVIOUS
  <1>1. Types /\ Shape
    BY InitTypes
  <1>2. Channels /\ Limit
    <2>1. Unacked = {} /\ InHand = {}
      BY DEF Init, Unacked, InHand
    <2>2. QED
      BY <2>1, FS_EmptySet, NotifierAssumption DEF Init, Channels, Limit, NotifierAssumption
  <1>3. Semaphore
    <2>1. Holding = {} /\ permits = Permits
      BY IdleHolds DEF Init
    <2>2. QED
      BY <2>1, FS_EmptySet, NotifierAssumption DEF Semaphore, NotifierAssumption
  <1>4. Counting
    BY DEF Init, Counting, Count, LiveOf, StaleOf, Pending
  <1>5. Serving /\ Knowing /\ Covering
    BY DEF Init, Serving, Knowing, Covering, Steady, Idle
  <1>6. QED
    BY <1>1, <1>2, <1>3, <1>4, <1>5, InitRedelivery DEF IInv

LEMMA NextIInv == IInv /\ [Next]_vars => IInv'
  BY NextTypes, NextChannels, NextLimit, NextSemaphore, NextCounting, NextServing, NextKnowing,
     NextCovering, NextRedelivery DEF IInv

LEMMA Invariance == Spec => []IInv
  BY InitIInv, NextIInv, PTL DEF Spec

----------------------------------------------------------------------------
(* What follows from it.                                                   *)

\* Types, for every number of messages, searches, users and permits.
THEOREM TypeCorrect == Spec => []TypeOK
<1>1. IInv => TypeOK
  <2> SUFFICES ASSUME IInv PROVE TypeOK
    OBVIOUS
  <2>1. Cardinality(Holding) \in Nat /\ permits \in Nat /\ permits + Cardinality(Holding) = Permits /\ Permits \in Nat
    BY FS_CardinalityType, NotifierAssumption DEF IInv, Types, Semaphore, NotifierAssumption
  <2>2. permits \in 0..Permits
    BY <2>1
  <2>3. QED
    BY <2>2 DEF IInv, Types, TypeOK
<1>2. QED
  BY <1>1, Invariance, PTL

\* What the broker waits for is what the bot holds with a live channel, and
\* within prefetch_count, whatever connections break and processes end.
THEOREM BrokerAndBotAgreeAlways == Spec => []BrokerAndBotAgree
<1>1. IInv => BrokerAndBotAgree
  <2> SUFFICES ASSUME IInv PROVE BrokerAndBotAgree
    OBVIOUS
  <2>1. ASSUME NEW d \in InHand, d.live PROVE d.msg \in Unacked
    BY <2>1, DeliveryFacts DEF IInv, Types, Channels, InHand, Unacked
  <2>2. ASSUME NEW m \in Unacked PROVE \E d \in InHand : d.live /\ d.msg = m
    <3>1. [msg |-> m, live |-> TRUE] \in InHand
      BY DEF IInv, Channels
    <3>2. QED
      BY <3>1
  <2>3. Unacked = {d.msg : d \in {e \in InHand : e.live}}
    BY <2>1, <2>2
  <2>4. QED
    BY <2>3 DEF BrokerAndBotAgree, InHand, IInv, Limit
<1>2. QED
  BY <1>1, Invariance, PTL

\* No permit is lost or made up, through flood control, failures and stops.
THEOREM PermitsConservedAlways == Spec => []PermitsConserved
<1>1. IInv => PermitsConserved
  <2> SUFFICES ASSUME IInv PROVE PermitsConserved
    OBVIOUS
  <2>1. ASSUME cur = Nothing PROVE permits = Permits
    <3>1. Holding = {}
      BY <2>1, IdleHolds DEF IInv, Shape
    <3>2. QED
      BY <3>1, FS_EmptySet DEF IInv, Semaphore, Types
  <2>2. QED
    BY <2>1 DEF IInv, Semaphore, PermitsConserved
<1>2. QED
  BY <1>1, Invariance, PTL

\* No search is notified of a message more often than it was delivered.
THEOREM OncePerDeliveryAlways == Spec => []OncePerDelivery
<1>1. IInv => OncePerDelivery
  <2> SUFFICES ASSUME IInv, NEW m \in Messages, NEW s \in Searches PROVE notified[m][s] <= deliveries[m]
    BY DEF OncePerDelivery
  <2>1. Count(m, s) <= deliveries[m] /\ notified[m][s] \in Nat /\ deliveries[m] \in Nat
    BY DEF IInv, Counting, Types
  <2>2. QED
    BY <2>1, ZeroOne DEF Count
<1>2. QED
  BY <1>1, Invariance, PTL

\* A search that is always active misses no message taken with a warm cache.
THEOREM WarmCacheMissesNothingAlways == Spec => []WarmCacheMissesNothing
<1>1. IInv => WarmCacheMissesNothing
  BY DEF IInv, Serving, Served, Covering, WarmCacheMissesNothing
<1>2. QED
  BY <1>1, Invariance, PTL

\* Of the messages the bot can read, only the one whose notifications a stop
\* interrupts becomes a dead letter.
THEOREM OneDeadLetterPerStopAlways == Spec => OneDeadLetterPerStop
<1> DEFINE Died == Buried' # Buried => /\ cur # Nothing /\ loop' = "ended"
                                      /\ Buried' = Buried \cup {cur.msg}
<1>1. IInv /\ [Next]_vars => [Died]_vars
  <2> SUFFICES ASSUME IInv, Next PROVE Died
    OBVIOUS
  <2> USE DEF IInv, consumer
  <2>1. \A d \in InHand : where[d.msg] # "dead" \/ ~d.live
    BY DEF Channels
  <2>2. CASE UNCHANGED where
    BY <2>2 DEF Buried
  <2>3. ASSUME NEW m \in Messages, Arrive(m) \/ Deliver(m) PROVE Died
    BY <2>3 DEF Arrive, Deliver, Types, Buried
  <2>4. CASE BreakLink \/ Kill
    BY <2>4 DEF BreakLink, Kill, EndProcess, Requeued, Buried
  <2>5. CASE Shutdown
    <3>1. loop' = "ended" /\ where' = RejectCurrent
      BY <2>5 DEF Shutdown, EndProcess
    <3>2. CASE cur # Nothing /\ cur.live
      BY <3>1, <3>2, DeliveryFacts DEF RejectCurrent, Requeued, Buried, Types
    <3>3. CASE ~(cur # Nothing /\ cur.live)
      BY <3>1, <3>3 DEF RejectCurrent, Requeued, Buried
    <3>4. QED
      BY <3>2, <3>3
  <2>6. ASSUME NEW d \in InHand, NEW fate \in {"acked", "dead"}, NEW rest, Settle(d, fate, rest),
               fate = "acked" \/ d.msg \in Invalid
        PROVE  Buried' = Buried
    <3>1. CASE d.live
      BY <2>1, <2>6, <3>1 DEF Settle, Types, Buried
    <3>2. CASE ~d.live
      BY <2>6, <3>2 DEF Settle, Requeued, Buried
    <3>3. QED
      BY <3>1, <3>2
  <2>7. ASSUME NEW d \in Delivery, Take(d) PROVE Died
    <3>1. d \in InHand
      BY <2>7 DEF Take, TakeInvalid, TakeUnmatched, TakeMatched, Yields, InHand
    <3>2. QED
      BY <2>2, <2>6, <2>7, <3>1 DEF Take, TakeInvalid, TakeUnmatched, TakeMatched
  <2>8. CASE Finish
    <3>1. cur \in InHand
      BY <2>8 DEF Finish, Shape, InHand
    <3>2. QED
      BY <2>6, <2>8, <3>1 DEF Finish
  <2>9. ASSUME NEW s \in Searches, EditSearch(s) \/ TaskStep(s) PROVE Died
    BY <2>2, <2>9 DEF EditSearch, TaskStep, SkipBlocked, Acquire, Delivered, Forbidden, FloodControl, SendFails
  <2>10. ASSUME NEW u \in Users, BlockBot(u) \/ ForgetBlocked(u) PROVE Died
    BY <2>2, <2>10 DEF BlockBot, ForgetBlocked
  <2>11. CASE Connect \/ Backoff \/ RestoreLink \/ Restart \/ CacheStep
    BY <2>2, <2>11 DEF Connect, Backoff, RestoreLink, Restart, CacheStep, CacheQuery, CacheError, CacheAssign, CacheWake
  <2>12. QED
    BY <2>3, <2>4, <2>5, <2>7, <2>8, <2>9, <2>10, <2>11 DEF Next
<1>2. QED
  BY <1>1, Invariance, PTL DEF Spec, OneDeadLetterPerStop

\* However often connections are lost and processes end, and however the
\* deliveries of an old and a new connection mix, a message comes at most twice
\* per break and once more, and nobody is told of it more often than that.
\* Twice: once for the break, once for the settlement that fails because of it
\* and gives back what the new connection has brought.
BoundedRedelivery ==
    \A m \in Messages :
        /\ deliveries[m] <= 1 + 2 * breaks
        /\ \A s \in Searches : notified[m][s] <= 1 + 2 * breaks

THEOREM BoundedRedeliveryAlways == Spec => []BoundedRedelivery
<1>1. IInv => BoundedRedelivery
  <2> SUFFICES ASSUME IInv, NEW m \in Messages
               PROVE  /\ deliveries[m] <= 1 + 2 * breaks
                      /\ \A s \in Searches : notified[m][s] <= 1 + 2 * breaks
    BY DEF BoundedRedelivery
  <2>1. /\ deliveries[m] \in Nat /\ InQueue(m) \in {0, 1} /\ Leftover \in {0, 1} /\ breaks \in Nat
        /\ deliveries[m] + InQueue(m) + Leftover <= 1 + 2 * breaks
    BY RedeliveryTypes DEF IInv, Redelivery
  <2>2. \A s \in Searches : notified[m][s] \in Nat /\ Count(m, s) <= deliveries[m]
    BY DEF IInv, Counting, Types
  <2>3. \A s \in Searches : notified[m][s] <= deliveries[m]
    BY <2>1, <2>2, ZeroOne DEF Count
  <2>4. QED
    BY <2>1, <2>2, <2>3
<1>2. QED
  BY <1>1, Invariance, PTL

\* Once a message is acknowledged or dead-lettered it stays so: it is not
\* delivered again, and no task that is left over from an earlier delivery
\* tells anybody of it.
SettledIsFinal ==
    \A m \in Messages : where[m] \in {"acked", "dead"} =>
        where'[m] = where[m] /\ deliveries'[m] = deliveries[m] /\ notified'[m] = notified[m]

THEOREM SettledIsFinalAlways == Spec => [][SettledIsFinal]_vars
<1>1. IInv /\ [Next]_vars => [SettledIsFinal]_vars
  <2> SUFFICES ASSUME IInv, Next, NEW m \in Messages, where[m] \in {"acked", "dead"}
               PROVE  where'[m] = where[m] /\ deliveries'[m] = deliveries[m] /\ notified'[m] = notified[m]
    BY DEF SettledIsFinal
  <2> USE DEF IInv, consumer, history
  <2>1. \A d \in InHand : d.msg # m /\ d \in Delivery /\ d.msg \in Messages
    BY DeliveryFacts DEF Channels, InHand, Types
  <2>2. ASSUME NEW n \in Messages, Arrive(n) \/ Deliver(n)
        PROVE  where'[m] = where[m] /\ deliveries'[m] = deliveries[m] /\ notified'[m] = notified[m]
    BY <2>2 DEF Arrive, Deliver, Types
  <2>3. ASSUME NEW s \in Searches, EditSearch(s) \/ TaskStep(s)
        PROVE  where'[m] = where[m] /\ deliveries'[m] = deliveries[m] /\ notified'[m] = notified[m]
    <3>1. CASE EditSearch(s) \/ SkipBlocked(s) \/ Acquire(s) \/ Forbidden(s) \/ FloodControl(s) \/ SendFails(s)
      BY <3>1 DEF EditSearch, SkipBlocked, Acquire, Forbidden, FloodControl, SendFails, Excuse
    <3>2. CASE Delivered(s)
      <4>1. cur \in InHand
        BY <3>2 DEF Delivered, Holding, Shape, Idle, InHand
      <4>2. QED
        BY <2>1, <3>2, <4>1 DEF Delivered, Types
    <3>3. QED
      BY <2>3, <3>1, <3>2 DEF TaskStep
  <2>4. ASSUME NEW d \in InHand, NEW fate \in {"acked", "dead"}, NEW rest, Settle(d, fate, rest)
        PROVE  where'[m] = where[m]
    BY <2>1, <2>4 DEF Settle, Requeued, Types
  <2>5. ASSUME NEW d \in Delivery, Take(d)
        PROVE  where'[m] = where[m] /\ deliveries'[m] = deliveries[m] /\ notified'[m] = notified[m]
    <3>1. d \in InHand
      BY <2>5 DEF Take, TakeInvalid, TakeUnmatched, TakeMatched, Yields, InHand
    <3>2. QED
      BY <2>4, <2>5, <3>1 DEF Take, TakeInvalid, TakeUnmatched, TakeMatched
  <2>6. CASE Finish
    <3>1. cur \in InHand
      BY <2>6 DEF Finish, Shape, InHand
    <3>2. QED
      BY <2>4, <2>6, <3>1 DEF Finish
  <2>7. CASE Connect \/ Backoff \/ RestoreLink \/ CacheStep \/ Restart
    BY <2>7 DEF Connect, Backoff, RestoreLink, CacheStep, CacheQuery, CacheError, CacheAssign, CacheWake, Restart
  <2>8. CASE BreakLink \/ Shutdown \/ Kill
    <3>1. Requeued[m] = where[m]
      BY DEF Requeued
    <3>2. RejectCurrent[m] = where[m]
      BY <2>1, <3>1 DEF RejectCurrent, InHand, Requeued
    <3>3. QED
      BY <2>8, <3>1, <3>2 DEF BreakLink, Shutdown, Kill, EndProcess
  <2>9. ASSUME NEW u \in Users, BlockBot(u) \/ ForgetBlocked(u)
        PROVE  where'[m] = where[m] /\ deliveries'[m] = deliveries[m] /\ notified'[m] = notified[m]
    BY <2>9 DEF BlockBot, ForgetBlocked
  <2>10. QED
    BY <2>2, <2>3, <2>5, <2>6, <2>7, <2>8, <2>9 DEF Next
<1>2. QED
  BY <1>1, Invariance, PTL DEF Spec

\* A task of the message in hand that can go on: it need not wait for a permit.
Runs(s) == task[s] \in {"new", "send", "retry"} \/ (task[s] = "wait" /\ permits > 0)

\* What the broker waits for never waits in vain, for any number of permits,
\* tasks and messages: the loop that holds it runs; if it notifies, all tasks
\* are done or one can go on, however they share the permits; if it consumes,
\* the iterator yields something; and a loop that has nothing in store can get
\* more, the prefetch limit notwithstanding.
NoMessageStuck ==
    /\ Unacked # {} => loop = "notify" \/ (loop = "consume" /\ held # {})
    /\ loop = "notify" => AllDone \/ \E s \in Searches : Runs(s)
    /\ loop = "consume" /\ held # {} => \E d \in held : Yields(d)
    /\ loop = "consume" /\ held = {} => BelowPrefetch

THEOREM NoMessageStuckAlways == Spec => []NoMessageStuck
<1>1. IInv => NoMessageStuck
  <2> SUFFICES ASSUME IInv PROVE NoMessageStuck
    OBVIOUS
  <2>1. InHand = {} => Unacked = {}
    BY DEF IInv, Channels
  <2>2. loop = "consume" /\ held = {} => InHand = {}
    BY DEF IInv, Shape, InHand
  <2>3. loop \notin {"consume", "notify"} => InHand = {}
    BY DEF IInv, Shape, InHand
  <2>4. ASSUME loop = "notify", ~AllDone PROVE \E s \in Searches : Runs(s)
    <3>1. PICK s \in Searches : task[s] \in {"new", "wait", "send", "retry"}
      BY <2>4 DEF IInv, Types, AllDone
    <3>2. CASE task[s] # "wait" \/ permits > 0
      BY <3>1, <3>2 DEF Runs
    <3>3. CASE permits = 0
      <4>1. Cardinality(Holding) # 0
        BY <3>3, FS_CardinalityType, NotifierAssumption DEF IInv, Semaphore, NotifierAssumption
      <4>2. PICK h \in Holding : TRUE
        BY <4>1, FS_EmptySet
      <4>3. QED
        BY <4>2 DEF Holding, Runs
    <3>4. QED
      BY <3>1, <3>2, <3>3 DEF IInv, Types
  <2>5. ASSUME loop = "consume", held # {} PROVE \E d \in held : Yields(d)
    <3>1. CASE \E d \in held : ~d.live
      BY <2>5, <3>1 DEF Yields
    <3>2. CASE \A d \in held : d.live
      BY <2>5, <3>2 DEF Yields
    <3>3. QED
      BY <3>1, <3>2
  <2>6. Unacked = {} => BelowPrefetch
    BY FS_EmptySet, NotifierAssumption DEF BelowPrefetch, NotifierAssumption
  <2>7. loop \in {"connect", "consume", "notify", "backoff", "ended"}
    BY DEF IInv, Types
  <2>8. QED
    BY <2>1, <2>2, <2>3, <2>4, <2>5, <2>6, <2>7 DEF NoMessageStuck
<1>2. QED
  BY <1>1, Invariance, PTL

----------------------------------------------------------------------------
(* The refinement of Consumption.                                          *)

Stock == {d.msg : d \in held}

\* What a step that changes none of Consumption's variables leaves alone.
Unseen == UNCHANGED <<where, deliveries, held, active, cache, rows, refresh, matched, notified, excused>>

LEMMA StutterStep == Unseen => UNCHANGED C!vars
  BY DEF Unseen, C!vars, C!queue, C!copy, C!alerts

\* The two modules say the same of what the broker takes back.
LEMMA SameRequeued == Requeued = C!Requeued
  BY DEF Requeued, C!Requeued

\* The connection is lost, or closed by the program.
LEMMA GiveBackStep ==
  ASSUME where' = Requeued, Stock' = Stock \/ Stock' = {},
         UNCHANGED <<deliveries, active, cache, rows, refresh, matched, notified, excused>>
  PROVE  C!Next
  <1>1. C!GiveBack
    BY SameRequeued DEF C!GiveBack, C!copy, C!alerts, Stock
  <1>2. QED
    BY <1>1 DEF C!Next

\* Every delivery in store is of one of the messages.
LEMMA StockFacts ==
  ASSUME Types, Channels
  PROVE  /\ Stock \subseteq Messages
         /\ \A d \in held : d.msg \in Stock /\ where[d.msg] \in {"ready", "unacked"}
         /\ \A d \in held : d.live => where[d.msg] = "unacked"
         /\ \A d \in held : (\A e \in held : e.live = d.live) =>
                {e.msg : e \in held \ {d}} = Stock \ {d.msg}
  <1>1. \A d \in held : d \in Delivery /\ d.msg \in Messages
    BY DeliveryFacts DEF Types
  <1>2. \A d \in held : where[d.msg] \in {"ready", "unacked"} /\ (d.live => where[d.msg] = "unacked")
    BY DEF Channels, InHand
  <1>3. ASSUME NEW d \in held, \A e \in held : e.live = d.live
        PROVE  {e.msg : e \in held \ {d}} = Stock \ {d.msg}
    <2>1. \A e \in held : e.msg = d.msg => e = d
      BY <1>1, <1>3, DeliveryFacts
    <2>2. QED
      BY <2>1 DEF Stock
  <1>4. QED
    BY <1>1, <1>2, <1>3 DEF Stock

LEMMA TakeStep ==
  ASSUME IInv, NEW d \in Delivery, Take(d)
  PROVE  C!Next
  <1> USE DEF consumer, tasks, caching, history
  <1>1. /\ d \in held /\ d.msg \in Messages /\ (d.live => \A e \in held : e.live)
        /\ Types /\ Channels
    BY DeliveryFacts DEF IInv, Take, TakeInvalid, TakeUnmatched, TakeMatched, Yields
  <1>2. /\ d.msg \in Stock /\ where[d.msg] \in {"ready", "unacked"}
        /\ d.live => where[d.msg] = "unacked" /\ {e.msg : e \in held \ {d}} = Stock \ {d.msg}
    <2>1. d.live => \A e \in held : e.live = d.live
      BY <1>1, DeliveryFacts DEF Types
    <2>2. QED
      BY <1>1, <2>1, StockFacts
  <1>3. ASSUME TakeInvalid(d) PROVE C!Next
    <2>1. Settle(d, "dead", held \ {d}) /\ UNCHANGED <<deliveries, active, cache, rows, refresh, matched, notified, excused>>
      BY <1>3 DEF TakeInvalid
    <2>2. CASE d.live
      <3>1. where' = [where EXCEPT ![d.msg] = "dead"] /\ Stock' = Stock \ {d.msg}
        BY <1>2, <2>1, <2>2 DEF Settle, Stock
      <3>2. C!Reject(d.msg)
        BY <1>2, <2>1, <2>2, <3>1 DEF C!Reject, C!copy, C!alerts, Stock
      <3>3. QED
        BY <1>1, <3>2 DEF C!Next
    <2>3. CASE ~d.live
      BY <2>1, <2>3, GiveBackStep DEF Settle, Stock
    <2>4. QED
      BY <2>2, <2>3
  <1>4. ASSUME TakeUnmatched(d) PROVE C!Next
    <2>1. /\ Settle(d, "acked", held \ {d}) /\ Matches(d.msg) = {}
          /\ matched' = [matched EXCEPT ![d.msg] = Matches(d.msg)]
          /\ UNCHANGED <<deliveries, active, cache, rows, refresh, notified, excused>>
      BY <1>4 DEF TakeUnmatched, RecordMatches
    <2>2. CASE d.live
      <3>1. where' = [where EXCEPT ![d.msg] = "acked"] /\ Stock' = Stock \ {d.msg}
        BY <1>2, <2>1, <2>2 DEF Settle, Stock
      <3>2. C!Take(d.msg)
        BY <1>2, <2>1, <2>2, <3>1 DEF C!Take, C!copy, Matches, Stock
      <3>3. QED
        BY <1>1, <3>2 DEF C!Next
    <2>3. CASE ~d.live
      <3>1. where' = Requeued /\ Stock' = {}
        BY <2>1, <2>3 DEF Settle, Stock
      <3>2. C!Take(d.msg)
        BY <1>2, <2>1, <3>1, SameRequeued DEF C!Take, C!copy, Matches, Stock
      <3>3. QED
        BY <1>1, <3>2 DEF C!Next
    <2>4. QED
      BY <2>2, <2>3
  <1>5. ASSUME TakeMatched(d) PROVE C!Next
    <2>1. /\ Matches(d.msg) # {} /\ matched' = [matched EXCEPT ![d.msg] = Matches(d.msg)]
          /\ held' = held \ {d}
          /\ UNCHANGED <<where, deliveries, active, cache, rows, refresh, notified, excused>>
      BY <1>5 DEF TakeMatched, RecordMatches
    <2>2. Stock' = Stock \ {d.msg} \/ (where[d.msg] = "unacked" /\ Stock' = Stock)
      <3>1. CASE \E e \in held \ {d} : e.msg = d.msg
        <4>1. PICK e \in held \ {d} : e.msg = d.msg
          BY <3>1
        <4>2. e.live # d.live
          BY <1>1, <4>1, DeliveryFacts DEF Types
        <4>3. e.live \/ d.live
          BY <1>1, <4>1, <4>2, DeliveryFacts DEF Types
        <4>4. where[d.msg] = "unacked"
          BY <1>1, <4>1, <4>3, StockFacts
        <4>5. Stock' = Stock
          BY <2>1, <4>1 DEF Stock
        <4>6. QED
          BY <4>4, <4>5
      <3>2. CASE \A e \in held \ {d} : e.msg # d.msg
        BY <2>1, <3>2 DEF Stock
      <3>3. QED
        BY <3>1, <3>2
    <2>3. C!Take(d.msg)
      BY <1>2, <2>1, <2>2 DEF C!Take, C!copy, Matches, Stock
    <2>4. QED
      BY <1>1, <2>3 DEF C!Next
  <1>6. QED
    BY <1>3, <1>4, <1>5 DEF Take

LEMMA FinishStep ==
  ASSUME IInv, Finish
  PROVE  C!Next
  <1> USE DEF caching, history
  <1>1. /\ Settle(cur, "acked", held) /\ cur \in Delivery /\ cur # Nothing /\ cur.msg \in Messages
        /\ UNCHANGED <<deliveries, active, cache, rows, refresh, matched, notified, excused>>
    BY DeliveryFacts DEF Finish, IInv, Shape, Types
  <1>2. CASE cur.live
    <2>1. where[cur.msg] = "unacked"
      BY <1>1, <1>2 DEF IInv, Channels, InHand
    <2>2. where' = [where EXCEPT ![cur.msg] = "acked"] /\ held' = held
      BY <1>1, <1>2 DEF Settle
    <2>3. matched[cur.msg] # {} /\ \A s \in matched[cur.msg] : notified[cur.msg][s] > 0 \/ s \in excused[cur.msg]
      BY <1>1 DEF IInv, Serving, Served, Finish, AllDone
    <2>4. C!Ack(cur.msg)
      BY <1>1, <2>1, <2>2, <2>3 DEF C!Ack, C!Tried, C!copy, C!alerts
    <2>5. QED
      BY <1>1, <2>4 DEF C!Next
  <1>3. CASE ~cur.live
    BY <1>1, <1>3, GiveBackStep DEF Settle, Stock
  <1>4. QED
    BY <1>2, <1>3

LEMMA TaskMaps ==
  ASSUME IInv, NEW s \in Searches, TaskStep(s)
  PROVE  C!Next \/ Unseen
  <1> USE DEF consumer, caching, history
  <1>1. task[s] \notin {"none", "done"}
    BY DEF TaskStep, SkipBlocked, Acquire, Delivered, Forbidden, FloodControl, SendFails, Holding
  <1>2. cur # Nothing /\ cur.msg \in Messages /\ s \in matched[cur.msg]
    BY <1>1, DeliveryFacts DEF IInv, Shape, Idle, Types, Serving
  <1>3. CASE Excuse(s) /\ (SkipBlocked(s) \/ Forbidden(s) \/ SendFails(s))
    <2>1. C!Excuse(cur.msg, s)
      BY <1>2, <1>3 DEF Excuse, SkipBlocked, Forbidden, SendFails, C!Excuse, C!queue, C!copy
    <2>2. QED
      BY <1>2, <2>1 DEF C!Next
  <1>4. CASE Delivered(s)
    <2>1. notified[cur.msg][s] < deliveries[cur.msg]
      <3>1. Pending(cur.msg, s) = 1
        BY <1>2, <1>4 DEF Pending, Delivered, Holding
      <3>2. Count(cur.msg, s) <= deliveries[cur.msg] /\ notified[cur.msg][s] \in Nat /\ deliveries[cur.msg] \in Nat
        BY <1>2 DEF IInv, Counting, Types
      <3>3. QED
        BY <1>2, <3>1, <3>2, ZeroOne DEF Count
    <2>2. C!Tell(cur.msg, s)
      BY <1>2, <1>4, <2>1 DEF Delivered, C!Tell, C!queue, C!copy
    <2>3. QED
      BY <1>2, <2>2 DEF C!Next
  <1>5. CASE Acquire(s) \/ FloodControl(s)
    BY <1>5 DEF Acquire, FloodControl, Unseen
  <1>6. QED
    BY <1>3, <1>4, <1>5 DEF TaskStep, SkipBlocked, Forbidden, SendFails

LEMMA CacheMaps ==
  ASSUME CacheStep
  PROVE  C!Next \/ UNCHANGED C!vars
  <1> USE DEF consumer, history, C!vars, C!queue, C!copy, C!alerts
  <1>1. CASE CacheQuery
    <2>1. C!Query
      BY <1>1 DEF CacheQuery, C!Query
    <2>2. QED
      BY <2>1 DEF C!Next
  <1>2. CASE CacheAssign
    <2>1. C!Assign
      BY <1>2 DEF CacheAssign, Fetched, C!Assign
    <2>2. QED
      BY <2>1 DEF C!Next
  <1>3. CASE CacheError
    BY <1>3 DEF CacheError, KeepCache
  <1>4. CASE CacheWake
    BY <1>4 DEF CacheWake
  <1>5. QED
    BY <1>1, <1>2, <1>3, <1>4 DEF CacheStep

LEMMA EndMaps ==
  ASSUME IInv, Shutdown \/ Kill
  PROVE  C!Next
  <1>1. /\ held' = {} /\ cache' = {} /\ refresh' = "query" /\ rows' = {}
        /\ UNCHANGED <<active, deliveries, matched, notified, excused>>
        /\ where' = Requeued \/ where' = RejectCurrent
    BY DEF Shutdown, Kill, EndProcess
  <1>2. where' = C!Requeued \/ \E m \in Messages : where[m] = "unacked" /\ where' = [C!Requeued EXCEPT ![m] = "dead"]
    <2>1. CASE cur # Nothing /\ cur.live
      <3>1. cur.msg \in Messages /\ where[cur.msg] = "unacked"
        BY <2>1, DeliveryFacts DEF IInv, Types, Channels, InHand
      <3>2. QED
        BY <1>1, <3>1, SameRequeued DEF RejectCurrent
    <2>2. CASE ~(cur # Nothing /\ cur.live)
      BY <1>1, <2>2, SameRequeued DEF RejectCurrent
    <2>3. QED
      BY <2>1, <2>2
  <1>3. C!Stop
    BY <1>1, <1>2 DEF C!Stop, C!alerts
  <1>4. QED
    BY <1>3 DEF C!Next

\* The consumer implements Consumption: a task that ends tells or excuses a
\* search, an acknowledgement comes after all of them, and whatever breaks
\* gives the unsettled messages back.
THEOREM ImplementsConsumption == Spec => ConsumptionSpec
<1>1. Init => C!Init
  BY DEF Init, C!Init
<1>2. IInv /\ [Next]_vars => [C!Next]_C!vars
  <2> SUFFICES ASSUME IInv, [Next]_vars PROVE C!Next \/ UNCHANGED C!vars
    OBVIOUS
  <2> USE DEF consumer, tasks, caching, history
  <2>1. ASSUME NEW m \in Messages, Arrive(m) PROVE C!Next
    <3>1. C!Arrive(m)
      BY <2>1 DEF Arrive, C!Arrive, C!copy, C!alerts
    <3>2. QED
      BY <3>1 DEF C!Next
  <2>2. ASSUME NEW m \in Messages, Deliver(m) PROVE C!Next
    <3>1. \E new \in Delivery : held' = held \cup {new} /\ new.msg = m
      <4> DEFINE new == [msg |-> m, live |-> TRUE]
      <4>1. held' = held \cup {new}
        BY <2>2 DEF Deliver
      <4>2. new \in Delivery /\ new.msg = m
        BY NewDelivery
      <4> HIDE DEF new
      <4>3. QED
        BY <4>1, <4>2
    <3>2. Stock' = Stock \cup {m}
      BY <3>1 DEF Stock
    <3>3. C!Deliver(m)
      BY <2>2, <3>2 DEF Deliver, C!Deliver, C!copy, C!alerts, Stock
    <3>4. QED
      BY <3>3 DEF C!Next
  <2>3. ASSUME NEW s \in Searches, EditSearch(s) PROVE C!Next
    <3>1. C!EditSearch(s)
      BY <2>3 DEF EditSearch, C!EditSearch, C!queue, C!copy, C!alerts
    <3>2. QED
      BY <3>1 DEF C!Next
  <2>4. ASSUME NEW u \in Users, BlockBot(u) \/ ForgetBlocked(u) PROVE UNCHANGED C!vars
    BY <2>4, StutterStep DEF BlockBot, ForgetBlocked, Unseen
  <2>5. CASE Connect \/ Backoff \/ RestoreLink \/ Restart \/ UNCHANGED vars
    BY <2>5, StutterStep DEF Connect, Backoff, RestoreLink, Restart, vars, Unseen
  <2>6. CASE BreakLink
    <3>1. held' = {Stale(d) : d \in held} /\ \A d \in held : Stale(d).msg = d.msg
      BY <2>6, DeliveryFacts DEF BreakLink, IInv, Types
    <3>2. Stock' = Stock
      BY <3>1 DEF Stock
    <3>3. QED
      BY <2>6, <3>2, GiveBackStep DEF BreakLink
  <2>7. ASSUME NEW s \in Searches, TaskStep(s) PROVE C!Next \/ UNCHANGED C!vars
    BY <2>7, TaskMaps, StutterStep
  <2>8. ASSUME NEW d \in Delivery, Take(d) PROVE C!Next
    BY <2>8, TakeStep
  <2>9. CASE Finish
    BY <2>9, FinishStep
  <2>10. CASE CacheStep
    BY <2>10, CacheMaps
  <2>11. CASE Shutdown \/ Kill
    BY <2>11, EndMaps
  <2> HIDE DEF consumer, tasks, caching, history
  <2>12. QED
    BY <2>1, <2>2, <2>3, <2>4, <2>5, <2>6, <2>7, <2>8, <2>9, <2>10, <2>11 DEF Next
<1>3. QED
  BY <1>1, <1>2, Invariance, PTL DEF Spec, ConsumptionSpec, C!Spec
============================================================================
