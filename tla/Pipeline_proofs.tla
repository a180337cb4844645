--------------------------- MODULE Pipeline_proofs ---------------------------
(***************************************************************************)
(* Proofs about Pipeline, for any workers, listings, searches, texts and   *)
(* prices, and any number of breaks.                                       *)
(***************************************************************************)
EXTENDS Pipeline, TLAPS

----------------------------------------------------------------------------
(* The inductive invariant.                                                *)

Wheres == {"unsent", "ready", "unacked", "acked", "dead"}

\* TypeOK but for the upper bounds of deliveries and alerts.
Types ==
    /\ known \in SUBSET Items /\ lost \in SUBSET known
    /\ sent \in [Workers -> [Items -> {0, 1}]]
    /\ where \in [Messages -> Wheres]
    /\ deliveries \in [Messages -> Nat]
    /\ stock \in SUBSET Messages /\ copying \in BOOLEAN
    /\ active \in SUBSET Searches /\ cache \in SUBSET Searches /\ rows \in SUBSET Searches
    /\ matched \in [Messages -> SUBSET Searches] /\ excused \in [Messages -> SUBSET Searches]
    /\ told \in [Messages -> [Searches -> Nat]]
    /\ breaks \in 0..MaxBreaks
    /\ promised \in SUBSET (Searches \X known) /\ unseen \in SUBSET (Searches \X known)

\* The queue holds what the scraper has sent, and that is on record.
Linking ==
    /\ \A w \in Workers, i \in Items : where[<<w, i>>] = "unsent" <=> sent[w][i] = 0
    /\ \A w \in Workers, i \in Items : sent[w][i] = 1 => i \in known

\* Every delivery of a message but one was taken back at a break of its own.
Counting ==
    \A m \in Messages :
        /\ where[m] = "unsent" => deliveries[m] = 0 /\ matched[m] = {}
        /\ where[m] = "ready" => deliveries[m] <= breaks
        /\ deliveries[m] <= breaks + 1
        /\ \A s \in Searches : told[m][s] <= deliveries[m]

\* A promise is made to an active search, about a listing it asked for.
Promising == \A s \in Searches, i \in Items : <<s, i>> \in promised => s \in active /\ AskedFor(s, i)

\* A message that has matched anything has matched whom it was promised to,
\* or the bot did not know of them.
Matching ==
    \A m \in Messages, s \in Searches :
        matched[m] # {} /\ <<s, m[2]>> \in promised => s \in matched[m] \/ <<s, m[2]>> \in unseen

\* A message is acknowledged when every promise about it is kept or ended.
Settling ==
    \A m \in Messages, s \in Searches :
        where[m] = "acked" /\ <<s, m[2]>> \in promised
            => <<s, m[2]>> \in unseen \/ told[m][s] > 0 \/ s \in excused[m]

IInv == Types /\ Linking /\ Counting /\ Promising /\ Matching /\ Settling

----------------------------------------------------------------------------
(* Messages and rules.                                                     *)

LEMMA MessageFacts ==
  ASSUME NEW m \in Messages
  PROVE  m[1] \in Workers /\ m[2] \in Items /\ m = <<m[1], m[2]>>
  BY DEF Messages

\* The rules of the matcher are what the user asked for.
LEMMA MatcherIsRight ==
  ASSUME NEW m \in Messages, NEW s \in Searches
  PROVE  s \in Wanted[m] <=> AskedFor(s, m[2])
  <1>1. Wish[s].min \in Int \cup {NoPrice} /\ Wish[s].max \in Int \cup {NoPrice} /\ Listing[m[2]].price \in Int
    BY MessageFacts, PipelineAssumption DEF PipelineAssumption, Search, Item, Limit
  <1>2. s \in Wanted[m] <=> Matches(Wish[s], Listing[m[2]])
    BY DEF Wanted
  <1>3. Matches(Wish[s], Listing[m[2]]) <=> AskedFor(s, m[2])
    BY <1>1 DEF Matches, PriceMatches, AskedFor
  <1>4. QED
    BY <1>2, <1>3

\* A message that has been sent is about a listing on record.
LEMMA SentFacts ==
  ASSUME IInv, NEW m \in Messages, where[m] # "unsent"
  PROVE  m[2] \in known
  <1>1. sent[m[1]][m[2]] = 1
    BY MessageFacts DEF IInv, Types, Linking
  <1>2. QED
    BY <1>1, MessageFacts DEF IInv, Linking

LEMMA InitIInv == Init => IInv
  <1> SUFFICES ASSUME Init PROVE IInv
    OBVIOUS
  <1>1. 0 \in 0..MaxBreaks
    BY PipelineAssumption DEF PipelineAssumption
  <1>2. Types
    BY <1>1 DEF Init, L!Init, C!Init, Types, Wheres
  <1>3. Linking
    BY DEF Init, L!Init, C!Init, Linking, Messages
  <1>4. Counting /\ Promising /\ Matching /\ Settling
    BY <1>2 DEF Init, L!Init, C!Init, Counting, Promising, Matching, Settling, Types
  <1>5. QED
    BY <1>2, <1>3, <1>4 DEF IInv

----------------------------------------------------------------------------
(* The scraper.                                                            *)

LEMMA RecordStep ==
  ASSUME IInv, NEW i \in Items, Record(i)
  PROVE  IInv'
  <1>1. /\ i \notin known /\ known' = known \cup {i}
        /\ UNCHANGED <<sent, lost, bot, breaks, unseen>>
        /\ \A s, j : <<s, j>> \in promised' <=> <<s, j>> \in promised \/ (j = i /\ s \in active /\ AskedFor(s, i))
    BY DEF Record, L!Record
  <1>2. promised' \in SUBSET (Searches \X known')
    BY <1>1 DEF Record, IInv, Types
  <1>3. Types'
    BY <1>1, <1>2 DEF IInv, Types, bot
  <1>4. Linking' /\ Counting'
    BY <1>1 DEF IInv, Linking, Counting, bot
  <1>5. Promising'
    BY <1>1 DEF IInv, Promising, bot
  <1>6. \A m \in Messages : m[2] = i => where[m] = "unsent" /\ matched[m] = {}
    BY <1>1, SentFacts DEF IInv, Counting
  <1>7. Matching' /\ Settling'
    BY <1>1, <1>6 DEF IInv, Matching, Settling, bot
  <1>8. QED
    BY <1>3, <1>4, <1>5, <1>7 DEF IInv

LEMMA PublishStep ==
  ASSUME IInv, NEW w \in Workers, NEW i \in Items, Publish(w, i)
  PROVE  IInv'
  <1>1. /\ i \in known /\ sent' = [sent EXCEPT ![w][i] = 1]
        /\ <<w, i>> \in Messages /\ where[<<w, i>>] = "unsent" /\ where' = [where EXCEPT ![<<w, i>>] = "ready"]
        /\ UNCHANGED <<known, lost, deliveries, stock, active, cache, rows, copying, matched, told, excused, breaks,
                       promised, unseen>>
    BY DEF Publish, L!Send, C!Arrive, C!copy, C!alerts, Messages, history
  <1>2. sent' \in [Workers -> [Items -> {0, 1}]]
    BY <1>1 DEF IInv, Types
  <1>3. where' \in [Messages -> Wheres]
    BY <1>1 DEF IInv, Types, Wheres
  <1>4. Types'
    BY <1>1, <1>2, <1>3 DEF IInv, Types
  <1>5. Linking'
    <2> SUFFICES ASSUME NEW v \in Workers, NEW j \in Items
                 PROVE  /\ where'[<<v, j>>] = "unsent" <=> sent'[v][j] = 0
                        /\ sent'[v][j] = 1 => j \in known'
      BY DEF Linking
    <2>1. CASE v = w /\ j = i
      BY <1>1, <2>1 DEF IInv, Types
    <2>2. CASE v # w \/ j # i
      <3>1. sent'[v][j] = sent[v][j] /\ where'[<<v, j>>] = where[<<v, j>>]
        BY <1>1, <2>2 DEF IInv, Types, Messages
      <3>2. QED
        BY <1>1, <3>1 DEF IInv, Linking
    <2>3. QED
      BY <2>1, <2>2
  <1>6. Counting'
    <2>1. deliveries[<<w, i>>] = 0 /\ breaks \in Nat
      BY <1>1, PipelineAssumption DEF IInv, Types, Counting, PipelineAssumption
    <2>2. deliveries[<<w, i>>] <= breaks
      BY <2>1
    <2>3. \A m \in Messages : where'[m] = IF m = <<w, i>> THEN "ready" ELSE where[m]
      BY <1>1 DEF IInv, Types
    <2>4. QED
      BY <1>1, <2>2, <2>3 DEF IInv, Counting
  <1>7. Promising' /\ Matching'
    BY <1>1 DEF IInv, Promising, Matching
  <1>8. Settling'
    BY <1>1 DEF IInv, Types, Settling
  <1>9. QED
    BY <1>4, <1>5, <1>6, <1>7, <1>8 DEF IInv

LEMMA LoseStep ==
  ASSUME IInv, NEW i \in Items, Lose(i)
  PROVE  IInv'
  <1>1. /\ lost' \in SUBSET known
        /\ UNCHANGED <<known, sent, where, deliveries, stock, active, cache, rows, copying, matched, told, excused,
                       breaks, promised, unseen>>
    BY DEF Lose, bot, history, IInv, Types
  <1>2. QED
    BY <1>1 DEF IInv, Types, Linking, Counting, Promising, Matching, Settling

----------------------------------------------------------------------------
(* The bot.                                                                *)

LEMMA EditStep ==
  ASSUME IInv, NEW s \in Searches, EditSearch(s)
  PROVE  IInv'
  <1>1. /\ active' = IF s \in active THEN active \ {s} ELSE active \cup {s}
        /\ promised' = {p \in promised : p[1] # s \/ s \notin active}
        /\ UNCHANGED <<known, sent, lost, where, deliveries, stock, cache, rows, copying, matched, told, excused,
                       breaks, unseen>>
    BY DEF EditSearch, C!EditSearch, C!queue, C!copy, C!alerts, scraper
  <1>2. \A t, i : <<t, i>> \in promised' => <<t, i>> \in promised /\ (t # s \/ s \notin active)
    BY <1>1
  <1>3. Types'
    BY <1>1 DEF IInv, Types
  <1>4. Linking' /\ Counting'
    BY <1>1 DEF IInv, Linking, Counting
  <1>5. Promising'
    BY <1>1, <1>2 DEF IInv, Promising
  <1>6. Matching' /\ Settling'
    BY <1>1, <1>2 DEF IInv, Matching, Settling
  <1>7. QED
    BY <1>3, <1>4, <1>5, <1>6 DEF IInv

\* The messages move among "ready", "unacked", "acked" and "dead"; what is
\* taken back costs a break.
LEMMA MoveStep ==
  ASSUME IInv, UNCHANGED <<known, sent, lost, active, promised>>,
         where' \in [Messages -> Wheres], stock' \in SUBSET Messages, copying' \in BOOLEAN,
         cache' \in SUBSET Searches, rows' \in SUBSET Searches,
         UNCHANGED <<deliveries, told, excused>>,
         matched' \in [Messages -> SUBSET Searches], unseen' \in SUBSET (Searches \X known),
         breaks' \in 0..MaxBreaks, breaks' = breaks \/ breaks' = breaks + 1,
         \A m \in Messages : where'[m] = "unsent" <=> where[m] = "unsent",
         \A m \in Messages : where[m] = "unsent" => matched'[m] = {},
         \A m \in Messages : where'[m] = "ready" /\ where[m] # "ready" => breaks' = breaks + 1,
         Matching', Settling'
  PROVE  IInv'
  <1>1. Types'
    BY DEF IInv, Types
  <1>2. Linking'
    BY DEF IInv, Linking, Messages
  <1>3. Promising'
    BY DEF IInv, Promising
  <1>4. breaks \in Nat /\ deliveries \in [Messages -> Nat]
    BY PipelineAssumption DEF IInv, Types, PipelineAssumption
  <1>5. Counting'
    <2> SUFFICES ASSUME NEW m \in Messages
                 PROVE  /\ where'[m] = "unsent" => deliveries[m] = 0 /\ matched'[m] = {}
                        /\ where'[m] = "ready" => deliveries[m] <= breaks'
                        /\ deliveries[m] <= breaks' + 1
                        /\ \A s \in Searches : told[m][s] <= deliveries[m]
      BY DEF Counting
    <2>1. /\ where[m] = "unsent" => deliveries[m] = 0
          /\ where[m] = "ready" => deliveries[m] <= breaks
          /\ deliveries[m] <= breaks + 1
          /\ \A s \in Searches : told[m][s] <= deliveries[m]
      BY DEF IInv, Counting
    <2>2. CASE breaks' = breaks
      BY <2>1, <2>2
    <2>3. CASE breaks' = breaks + 1
      <3>1. deliveries[m] <= breaks + 1 /\ deliveries[m] <= breaks + 1 + 1
        BY <1>4, <2>1
      <3>2. QED
        BY <2>1, <2>3, <3>1
    <2>4. QED
      BY <2>2, <2>3
  <1>6. QED
    BY <1>1, <1>2, <1>3, <1>5 DEF IInv

LEMMA BoundedFacts ==
  ASSUME IInv, Bounded, breaks' <= MaxBreaks
  PROVE  /\ breaks' \in 0..MaxBreaks /\ (breaks' = breaks \/ breaks' = breaks + 1)
         /\ \A m \in Messages : where[m] = "unacked" /\ where'[m] = "ready" => breaks' = breaks + 1
  <1>1. breaks \in 0..MaxBreaks /\ MaxBreaks \in Nat
    BY PipelineAssumption DEF IInv, Types, PipelineAssumption
  <1>2. CASE breaks' = breaks
    BY <1>1, <1>2 DEF Bounded
  <1>3. CASE breaks' = breaks + 1
    <2>1. breaks + 1 <= MaxBreaks
      BY <1>3
    <2>2. QED
      BY <1>1, <1>3, <2>1
  <1>4. QED
    BY <1>2, <1>3 DEF Bounded

LEMMA RequeuedFacts ==
  ASSUME IInv
  PROVE  /\ C!Requeued \in [Messages -> Wheres]
         /\ \A m \in Messages : C!Requeued[m] = IF where[m] = "unacked" THEN "ready" ELSE where[m]
  BY DEF IInv, Types, Wheres, C!Requeued

LEMMA TakeStep ==
  ASSUME IInv, NEW m \in Messages, Take(m)
  PROVE  IInv'
  <1>1. /\ m \in stock /\ where[m] \in {"ready", "unacked"}
        /\ matched' = [matched EXCEPT ![m] = cache \cap Wanted[m]]
        /\ unseen' = unseen \cup {<<s, m[2]>> : s \in (active \cap Wanted[m]) \ cache}
        /\ UNCHANGED <<known, sent, lost, deliveries, active, cache, rows, copying, told, excused, promised>>
        /\ Bounded /\ breaks' <= MaxBreaks
    BY DEF Take, C!Take, C!copy, scraper
  <1>2. \/ UNCHANGED where
        \/ cache \cap Wanted[m] = {} /\ where[m] = "unacked" /\ where' = [where EXCEPT ![m] = "acked"]
        \/ where' = C!Requeued
    BY DEF Take, C!Take
  <1>3. stock' \in SUBSET Messages
    BY DEF Take, C!Take, IInv, Types
  <1>4. unseen' \in SUBSET (Searches \X known) /\ unseen \subseteq unseen'
    BY <1>1, SentFacts DEF IInv, Types
  <1>5. matched' \in [Messages -> SUBSET Searches]
    BY <1>1 DEF IInv, Types
  <1>6. where' \in [Messages -> Wheres]
    BY <1>2, RequeuedFacts DEF IInv, Types, Wheres
  <1>7. /\ \A k \in Messages : where'[k] = "unsent" <=> where[k] = "unsent"
        /\ \A k \in Messages : where'[k] = "ready" /\ where[k] # "ready" => where[k] = "unacked"
        /\ \A k \in Messages : where'[k] = "acked" => \/ where[k] = "acked"
                                                      \/ k = m /\ cache \cap Wanted[m] = {}
    BY <1>2, RequeuedFacts DEF IInv, Types, Wheres
  <1>8. \A k \in Messages : where[k] = "unsent" => matched'[k] = {}
    BY <1>1 DEF IInv, Types, Counting
  \* Whom the listing was promised to is matched, or unknown to the bot.
  <1>9. \A s \in Searches : <<s, m[2]>> \in promised => s \in cache \cap Wanted[m] \/ <<s, m[2]>> \in unseen'
    <2> SUFFICES ASSUME NEW s \in Searches, <<s, m[2]>> \in promised, s \notin cache \cap Wanted[m]
                 PROVE  <<s, m[2]>> \in unseen'
      OBVIOUS
    <2>1. s \in active /\ s \in Wanted[m]
      BY MessageFacts, MatcherIsRight DEF IInv, Promising
    <2>2. QED
      BY <1>1, <2>1
  <1>10. Matching'
    BY <1>1, <1>4, <1>9 DEF IInv, Types, Matching
  <1>11. Settling'
    BY <1>1, <1>4, <1>7, <1>9 DEF IInv, Settling
  <1>12. /\ breaks' \in 0..MaxBreaks /\ (breaks' = breaks \/ breaks' = breaks + 1)
         /\ \A k \in Messages : where'[k] = "ready" /\ where[k] # "ready" => breaks' = breaks + 1
    BY <1>1, <1>7, BoundedFacts
  <1>13. copying' \in BOOLEAN /\ cache' \in SUBSET Searches /\ rows' \in SUBSET Searches
    BY <1>1 DEF IInv, Types
  <1>14. QED
    BY <1>1, <1>3, <1>4, <1>5, <1>6, <1>7, <1>8, <1>10, <1>11, <1>12, <1>13, MoveStep

LEMMA AckStep ==
  ASSUME IInv, NEW m \in Messages, Ack(m)
  PROVE  IInv'
  <1>1. /\ where[m] = "unacked" /\ matched[m] # {} /\ where' = [where EXCEPT ![m] = "acked"]
        /\ \A s \in matched[m] : told[m][s] > 0 \/ s \in excused[m]
        /\ UNCHANGED <<known, sent, lost, breaks, promised, unseen, deliveries, stock, active, cache, rows, copying,
                       matched, told, excused>>
    BY DEF Ack, C!Ack, C!Tried, C!copy, C!alerts, scraper, history
  <1>2. where' \in [Messages -> Wheres] /\ where'[m] = "acked" /\ \A k \in Messages : k # m => where'[k] = where[k]
    BY <1>1 DEF IInv, Types, Wheres
  <1>3. Matching'
    BY <1>1 DEF IInv, Matching
  <1>4. Settling'
    BY <1>1, <1>2 DEF IInv, Matching, Settling
  <1>5. \A k \in Messages : where[k] = "unsent" => matched'[k] = {}
    BY <1>1 DEF IInv, Counting
  <1>6. QED
    BY <1>1, <1>2, <1>3, <1>4, <1>5, MoveStep DEF IInv, Types

LEMMA DeliverStep ==
  ASSUME IInv, NEW m \in Messages, Deliver(m)
  PROVE  IInv'
  <1>1. /\ where[m] = "ready" /\ where' = [where EXCEPT ![m] = "unacked"]
        /\ deliveries' = [deliveries EXCEPT ![m] = @ + 1] /\ stock' = stock \cup {m}
        /\ UNCHANGED <<known, sent, lost, breaks, promised, unseen, active, cache, rows, copying,
                       matched, told, excused>>
    BY DEF Deliver, C!Deliver, C!copy, C!alerts, scraper, history
  <1>2. where' \in [Messages -> Wheres] /\ where'[m] = "unacked" /\ \A k \in Messages : k # m => where'[k] = where[k]
    BY <1>1 DEF IInv, Types, Wheres
  <1>3. /\ deliveries' \in [Messages -> Nat] /\ deliveries'[m] = deliveries[m] + 1
        /\ \A k \in Messages : k # m => deliveries'[k] = deliveries[k]
    BY <1>1 DEF IInv, Types
  <1>4. Types'
    BY <1>1, <1>2, <1>3 DEF IInv, Types
  <1>5. Linking'
    BY <1>1, <1>2 DEF IInv, Linking, Messages
  <1>6. Counting'
    <2>1. deliveries[m] \in Nat /\ breaks \in Nat /\ deliveries[m] <= breaks /\ told[m] \in [Searches -> Nat]
      BY <1>1, PipelineAssumption DEF IInv, Types, Counting, PipelineAssumption
    <2>2. /\ deliveries[m] + 1 <= breaks + 1
          /\ \A s \in Searches : told[m][s] <= deliveries[m] + 1
      BY <2>1 DEF IInv, Counting
    <2>3. QED
      BY <1>1, <1>2, <1>3, <2>2 DEF IInv, Counting
  <1>7. Promising' /\ Matching'
    BY <1>1 DEF IInv, Promising, Matching
  <1>8. Settling'
    BY <1>1, <1>2 DEF IInv, Settling
  <1>9. QED
    BY <1>4, <1>5, <1>6, <1>7, <1>8 DEF IInv

LEMMA AlertStep ==
  ASSUME IInv, NEW m \in Messages, NEW s \in Searches, Alert(m, s)
  PROVE  IInv'
  <1>1. UNCHANGED <<known, sent, lost, breaks, promised, unseen, where, deliveries, stock, active, cache, rows,
                    copying, matched>>
    BY DEF Alert, C!Tell, C!Excuse, C!queue, C!copy, scraper, history
  <1>2. CASE C!Tell(m, s)
    <2>1. told[m][s] < deliveries[m] /\ told' = [told EXCEPT ![m][s] = @ + 1] /\ excused' = excused
      BY <1>2 DEF C!Tell
    <2>2. told' \in [Messages -> [Searches -> Nat]]
      BY <2>1 DEF IInv, Types
    <2>3. \A k \in Messages, t \in Searches :
              told'[k][t] = IF k = m /\ t = s THEN told[m][s] + 1 ELSE told[k][t]
      BY <2>1 DEF IInv, Types
    <2>4. told[m][s] \in Nat /\ deliveries[m] \in Nat
      BY DEF IInv, Types
    <2>5. Types' /\ Linking' /\ Promising' /\ Matching'
      BY <1>1, <2>1, <2>2 DEF IInv, Types, Linking, Promising, Matching
    <2>6. Counting'
      BY <1>1, <2>1, <2>3, <2>4 DEF IInv, Counting
    <2>7. Settling'
      BY <1>1, <2>1, <2>3, <2>4 DEF IInv, Types, Settling
    <2>8. QED
      BY <2>5, <2>6, <2>7 DEF IInv
  <1>3. CASE C!Excuse(m, s)
    <2>1. excused' = [excused EXCEPT ![m] = @ \cup {s}] /\ told' = told
      BY <1>3 DEF C!Excuse
    <2>2. excused' \in [Messages -> SUBSET Searches] /\ \A k \in Messages : excused[k] \subseteq excused'[k]
      BY <2>1 DEF IInv, Types
    <2>3. QED
      BY <1>1, <2>1, <2>2 DEF IInv, Types, Linking, Counting, Promising, Matching, Settling
  <1>4. QED
    BY <1>2, <1>3 DEF Alert

LEMMA RefreshStep ==
  ASSUME IInv, Refresh
  PROVE  IInv'
  <1>1. /\ UNCHANGED <<known, sent, lost, breaks, promised, unseen, where, deliveries, stock, active, matched,
                       told, excused>>
        /\ copying' \in BOOLEAN /\ cache' \in SUBSET Searches /\ rows' \in SUBSET Searches
    BY DEF Refresh, C!Query, C!Assign, C!queue, C!alerts, scraper, history, IInv, Types
  <1>2. QED
    BY <1>1 DEF IInv, Types, Linking, Counting, Promising, Matching, Settling

LEMMA GiveBackStep ==
  ASSUME IInv, GiveBack
  PROVE  IInv'
  <1>1. /\ where' = C!Requeued /\ stock' \in SUBSET Messages /\ Bounded /\ breaks' <= MaxBreaks
        /\ UNCHANGED <<known, sent, lost, promised, unseen, deliveries, active, cache, rows, copying, matched,
                       told, excused>>
    BY DEF GiveBack, C!GiveBack, C!copy, C!alerts, scraper, history, IInv, Types
  <1>2. /\ where' \in [Messages -> Wheres]
        /\ \A k \in Messages : where'[k] = "unsent" <=> where[k] = "unsent"
        /\ \A k \in Messages : where'[k] = "ready" /\ where[k] # "ready" => where[k] = "unacked"
        /\ \A k \in Messages : where'[k] = "acked" => where[k] = "acked"
    BY <1>1, RequeuedFacts
  <1>3. Matching' /\ Settling'
    BY <1>1, <1>2 DEF IInv, Matching, Settling
  <1>4. /\ breaks' \in 0..MaxBreaks /\ (breaks' = breaks \/ breaks' = breaks + 1)
        /\ \A k \in Messages : where'[k] = "ready" /\ where[k] # "ready" => breaks' = breaks + 1
    BY <1>1, <1>2, BoundedFacts
  <1>5. /\ copying' \in BOOLEAN /\ cache' \in SUBSET Searches /\ rows' \in SUBSET Searches
        /\ matched' \in [Messages -> SUBSET Searches] /\ unseen' \in SUBSET (Searches \X known)
        /\ \A k \in Messages : where[k] = "unsent" => matched'[k] = {}
    BY <1>1 DEF IInv, Types, Counting
  <1>6. QED
    BY <1>1, <1>2, <1>3, <1>4, <1>5, MoveStep

LEMMA StopStep ==
  ASSUME IInv, Stop
  PROVE  IInv'
  <1>1. /\ stock' = {} /\ cache' = {} /\ rows' = {} /\ copying' = FALSE
        /\ breaks < MaxBreaks /\ breaks' = breaks + 1
        /\ UNCHANGED <<known, sent, lost, promised, unseen, deliveries, active, matched, told, excused>>
    BY DEF Stop, C!Stop, C!alerts, scraper, history
  <1>2. \/ where' = C!Requeued
        \/ \E m \in Messages : where[m] = "unacked" /\ where' = [C!Requeued EXCEPT ![m] = "dead"]
    BY DEF Stop, C!Stop
  <1>3. /\ where' \in [Messages -> Wheres]
        /\ \A k \in Messages : where'[k] = "unsent" <=> where[k] = "unsent"
        /\ \A k \in Messages : where'[k] = "acked" => where[k] = "acked"
    BY <1>2, RequeuedFacts DEF Wheres
  <1>4. Matching' /\ Settling'
    BY <1>1, <1>3 DEF IInv, Matching, Settling
  <1>5. breaks' \in 0..MaxBreaks
    <2>1. breaks + 1 \in 0..MaxBreaks
      BY <1>1, PipelineAssumption DEF IInv, Types, PipelineAssumption
    <2>2. QED
      BY <1>1, <2>1
  <1>6. /\ matched' \in [Messages -> SUBSET Searches] /\ unseen' \in SUBSET (Searches \X known)
        /\ \A k \in Messages : where[k] = "unsent" => matched'[k] = {}
    BY <1>1 DEF IInv, Types, Counting
  <1>7. QED
    BY <1>1, <1>3, <1>4, <1>5, <1>6, MoveStep

LEMMA NextIInv == IInv /\ [Next]_vars => IInv'
  <1> SUFFICES ASSUME IInv, [Next]_vars PROVE IInv'
    OBVIOUS
  <1>1. CASE UNCHANGED vars
    BY <1>1 DEF vars, scraper, bot, history, IInv, Types, Linking, Counting, Promising, Matching, Settling
  <1>2. CASE Next
    BY <1>2, RecordStep, LoseStep, PublishStep, EditStep, TakeStep, DeliverStep, AckStep, AlertStep, RefreshStep,
       GiveBackStep, StopStep DEF Next
  <1>3. QED
    BY <1>1, <1>2

LEMMA Invariance == Spec => []IInv
  BY InitIInv, NextIInv, PTL DEF Spec

----------------------------------------------------------------------------
(* The results.                                                            *)

\* Every variable keeps its type; no message is delivered, and no search told
\* of it, more than once plus once per break.
THEOREM TypeCorrect == Spec => []TypeOK
  <1>1. IInv => TypeOK
    <2> SUFFICES ASSUME IInv PROVE TypeOK
      OBVIOUS
    <2>1. \A m \in Messages : deliveries[m] \in 0..(MaxBreaks + 1)
      BY PipelineAssumption DEF PipelineAssumption, IInv, Types, Counting
    <2>2. \A m \in Messages, s \in Searches : told[m][s] \in 0..(MaxBreaks + 1)
      BY <2>1, PipelineAssumption DEF PipelineAssumption, IInv, Types, Counting
    <2>3. deliveries \in [Messages -> 0..(MaxBreaks + 1)]
      BY <2>1 DEF IInv, Types
    <2>4. told \in [Messages -> [Searches -> 0..(MaxBreaks + 1)]]
      BY <2>2 DEF IInv, Types
    <2>5. QED
      BY <2>3, <2>4 DEF IInv, Types, Wheres, TypeOK
  <1>2. QED
    BY <1>1, Invariance, PTL

\* Whatever a user was promised is delivered, on its way, or missed for one
\* of the reasons that Ended names; the matcher is never the reason.
THEOREM EveryAlertAccountedForAlways == Spec => []EveryAlertAccountedFor
  <1>1. IInv => EveryAlertAccountedFor
    <2> SUFFICES ASSUME IInv, NEW p \in promised,
                        NEW w \in Workers, sent[w][p[2]] # 0,
                        \A m \in Copies(p[2]) : where[m] \notin {"ready", "unacked"}
                 PROVE  Ended(p[1], p[2])
      BY DEF EveryAlertAccountedFor
    <2>1. p[1] \in Searches /\ p[2] \in Items /\ p = <<p[1], p[2]>>
      BY DEF IInv, Types
    <2> DEFINE m == <<w, p[2]>>
    <2>2. m \in Messages /\ m \in Copies(p[2]) /\ m[2] = p[2] /\ where[m] # "unsent"
      BY <2>1 DEF Messages, Copies, IInv, Linking
    <2>3. where[m] \in {"acked", "dead"}
      BY <2>2 DEF IInv, Types, Wheres
    <2>4. where[m] = "acked" => <<p[1], p[2]>> \in unseen \/ told[m][p[1]] > 0 \/ p[1] \in excused[m]
      BY <2>1, <2>2 DEF IInv, Settling
    <2>5. QED
      BY <2>2, <2>3, <2>4 DEF Ended
  <1>2. QED
    BY <1>1, Invariance, PTL

\* A user gets an alert once per copy that a worker has sent, and once more
\* per break at the most.
THEOREM AlertsPerCopyAlways == Spec => []AlertsPerCopy
  <1>1. IInv => AlertsPerCopy
    <2> SUFFICES ASSUME IInv, NEW w \in Workers, NEW i \in Items, NEW s \in Searches
                 PROVE  told[<<w, i>>][s] <= sent[w][i] * (1 + breaks)
      BY DEF AlertsPerCopy
    <2>1. <<w, i>> \in Messages /\ breaks \in Nat /\ sent[w][i] \in {0, 1}
      BY PipelineAssumption DEF PipelineAssumption, Messages, IInv, Types
    <2>2. told[<<w, i>>][s] \in Nat /\ deliveries[<<w, i>>] \in Nat
      BY <2>1 DEF IInv, Types
    <2>3. told[<<w, i>>][s] <= deliveries[<<w, i>>] /\ deliveries[<<w, i>>] <= breaks + 1
      BY <2>1 DEF IInv, Counting
    <2>4. CASE sent[w][i] = 0
      <3>1. deliveries[<<w, i>>] = 0
        BY <2>1, <2>4 DEF IInv, Linking, Counting
      <3>2. QED
        BY <2>1, <2>2, <2>3, <2>4, <3>1
    <2>5. CASE sent[w][i] = 1
      BY <2>1, <2>2, <2>3, <2>5
    <2>6. QED
      BY <2>1, <2>4, <2>5
  <1>2. QED
    BY <1>1, Invariance, PTL

----------------------------------------------------------------------------
(* Whom an alert is for, and how far a promise has come.                   *)

\* Who is matched or told wants the listing.
Justified ==
    \A m \in Messages, s \in Searches : s \in matched[m] \/ told[m][s] > 0 => s \in Wanted[m]

\* What the bot holds is in stock, or its alerts have begun.
Working ==
    \A m \in Messages :
        where[m] = "unacked" => deliveries[m] > 0 /\ (m \in stock \/ matched[m] # {})

\* Nobody is told of a listing they did not ask for, or that is not on record.
AlertsAreAsked ==
    \A m \in Messages, s \in Searches : told[m][s] > 0 => m[2] \in known /\ AskedFor(s, m[2])

\* The step that copy m of a listing waits for, when search s is promised it.
Awaits(m, s) ==
    \/ where[m] = "ready"
    \/ where[m] = "unacked" /\ m \in stock
    \/ s \in matched[m] /\ told[m][s] = 0 /\ told[m][s] < deliveries[m] /\ s \notin excused[m]

IsOpen(s, i) == <<s, i>> \in promised /\ ~Ended(s, i)

\* An open promise waits for a worker that has recorded the listing, or for a
\* step of a copy: to be delivered, to be taken, to be told of.
PromisesWaitForSomething ==
    \A s \in Searches, i \in Items :
        IsOpen(s, i) => \/ i \in known \ lost /\ \A w \in Workers : sent[w][i] = 0
                        \/ \E m \in Copies(i) : Awaits(m, s)

\* How far a copy is from its alerts, and how often it may have to start again.
Stage(m) ==
    IF where[m] = "unsent" THEN 3
    ELSE IF where[m] = "ready" THEN 2
    ELSE IF matched[m] = {} THEN 1 ELSE 0

Distance(m) == 4 * (MaxBreaks - breaks) + Stage(m)

\* The steps of copy m that are owed to search s.
Forward(m, s) ==
    \/ Publish(m[1], m[2]) \/ Deliver(m)
    \/ Take(m) /\ where[m] = "unacked" /\ matched[m] = {}
    \/ FirstAlert(m, s)

\* While a promise stays open no step takes a copy further from its alerts,
\* whatever breaks, and each step owed to it brings the copy nearer.
PromisesComeNearer ==
    \A s \in Searches, m \in Messages :
        IsOpen(s, m[2]) /\ IsOpen(s, m[2])' =>
            /\ Distance(m)' <= Distance(m)
            /\ Forward(m, s) => Distance(m)' < Distance(m)

LEMMA InitJustified == Init => Justified /\ Working
  BY DEF Init, L!Init, C!Init, Justified, Working

\* A step that moves nothing and tells nobody.
LEMMA QuietStep ==
  ASSUME Justified, Working, UNCHANGED <<where, deliveries, stock, matched, told>>
  PROVE  Justified' /\ Working'
  BY DEF Justified, Working

LEMMA NextJustified == IInv /\ Justified /\ Working /\ [Next]_vars => Justified' /\ Working'
  <1> SUFFICES ASSUME IInv, Justified, Working, [Next]_vars PROVE Justified' /\ Working'
    OBVIOUS
  <1> USE DEF IInv, Types
  <1>1. CASE UNCHANGED vars
    BY <1>1, QuietStep DEF vars, bot
  <1>2. ASSUME NEW i \in Items, Record(i) \/ Lose(i)
        PROVE  Justified' /\ Working'
    BY <1>2, QuietStep DEF Record, Lose, bot
  <1>3. ASSUME NEW i \in Items, NEW w \in Workers, Publish(w, i)
        PROVE  Justified' /\ Working'
    <2>1. where' = [where EXCEPT ![<<w, i>>] = "ready"] /\ UNCHANGED <<deliveries, stock, matched, told>>
      BY <1>3 DEF Publish, C!Arrive, C!alerts
    <2>2. QED
      BY <2>1 DEF Justified, Working
  <1>4. ASSUME NEW s \in Searches, EditSearch(s)
        PROVE  Justified' /\ Working'
    BY <1>4, QuietStep DEF EditSearch, C!EditSearch, C!queue, C!alerts
  <1>5. ASSUME NEW m \in Messages, Take(m)
        PROVE  Justified' /\ Working'
    <2>1. /\ matched' = [matched EXCEPT ![m] = cache \cap Wanted[m]] /\ UNCHANGED <<deliveries, told>>
          /\ \/ cache \cap Wanted[m] # {} /\ UNCHANGED where /\ (stock' = stock \ {m} \/ stock' = stock)
             \/ where' = [where EXCEPT ![m] = "acked"] /\ stock' = stock \ {m}
             \/ where' = C!Requeued /\ stock' = {}
      BY <1>5 DEF Take, C!Take
    <2>2. Justified'
      BY <2>1 DEF Justified
    <2>3. CASE cache \cap Wanted[m] # {} /\ UNCHANGED where /\ (stock' = stock \ {m} \/ stock' = stock)
      BY <2>1, <2>2, <2>3 DEF Working
    <2>4. CASE where' = [where EXCEPT ![m] = "acked"] /\ stock' = stock \ {m}
      BY <2>1, <2>2, <2>4 DEF Working
    <2>5. CASE where' = C!Requeued
      BY <2>2, <2>5, RequeuedFacts DEF Working
    <2>6. QED
      BY <2>1, <2>3, <2>4, <2>5
  <1>6. ASSUME NEW m \in Messages, Deliver(m)
        PROVE  Justified' /\ Working'
    <2>1. /\ where' = [where EXCEPT ![m] = "unacked"] /\ deliveries' = [deliveries EXCEPT ![m] = @ + 1]
          /\ stock' = stock \cup {m} /\ UNCHANGED <<matched, told>>
      BY <1>6 DEF Deliver, C!Deliver, C!alerts
    <2>2. deliveries[m] \in Nat /\ deliveries'[m] = deliveries[m] + 1
      BY <2>1
    <2>3. QED
      BY <2>1, <2>2 DEF Justified, Working
  <1>7. ASSUME NEW m \in Messages, Ack(m)
        PROVE  Justified' /\ Working'
    <2>1. where' = [where EXCEPT ![m] = "acked"] /\ UNCHANGED <<deliveries, stock, matched, told>>
      BY <1>7 DEF Ack, C!Ack, C!alerts
    <2>2. QED
      BY <2>1 DEF Justified, Working
  <1>8. ASSUME NEW m \in Messages, NEW s \in Searches, Alert(m, s)
        PROVE  Justified' /\ Working'
    <2>1. /\ s \in matched[m] /\ (told' = [told EXCEPT ![m][s] = @ + 1] \/ told' = told)
          /\ UNCHANGED <<where, deliveries, stock, matched>>
      BY <1>8 DEF Alert, C!Tell, C!Excuse, C!queue
    <2>2. QED
      BY <2>1 DEF Justified, Working
  <1>9. CASE Refresh
    BY <1>9, QuietStep DEF Refresh, C!Query, C!Assign, C!queue, C!alerts
  <1>10. CASE GiveBack \/ Stop
    <2>1. /\ UNCHANGED <<deliveries, matched, told>>
          /\ where' = C!Requeued \/ \E m \in Messages : where' = [C!Requeued EXCEPT ![m] = "dead"]
      BY <1>10 DEF GiveBack, Stop, C!GiveBack, C!Stop, C!alerts
    <2>2. \A m \in Messages : where'[m] # "unacked"
      BY <2>1, RequeuedFacts
    <2>3. QED
      BY <2>1, <2>2 DEF Justified, Working
  <1>11. QED
    BY <1>1, <1>2, <1>3, <1>4, <1>5, <1>6, <1>7, <1>8, <1>9, <1>10 DEF Next

LEMMA Moving == Spec => [](IInv /\ Justified /\ Working)
  <1>1. Init => IInv /\ Justified /\ Working
    BY InitIInv, InitJustified
  <1>2. IInv /\ Justified /\ Working /\ [Next]_vars => (IInv /\ Justified /\ Working)'
    BY NextIInv, NextJustified
  <1>3. QED
    BY <1>1, <1>2, PTL DEF Spec

\* Whoever gets an alert has asked for the listing, and it is on record:
\* through the scraper, the queue, old copies of the table and breaks.
THEOREM AlertsAreAskedAlways == Spec => []AlertsAreAsked
  <1>1. IInv /\ Justified => AlertsAreAsked
    <2> SUFFICES ASSUME IInv, Justified, NEW m \in Messages, NEW s \in Searches, told[m][s] > 0
                 PROVE  m[2] \in known /\ AskedFor(s, m[2])
      BY DEF AlertsAreAsked
    <2>1. AskedFor(s, m[2])
      BY MatcherIsRight DEF Justified
    <2>2. told[m][s] \in Nat /\ deliveries[m] \in Nat /\ told[m][s] <= deliveries[m]
      BY DEF IInv, Types, Counting
    <2>3. where[m] # "unsent"
      BY <2>2 DEF IInv, Counting
    <2>4. QED
      BY <2>1, <2>3, SentFacts
  <1>2. QED
    BY <1>1, Moving, PTL

----------------------------------------------------------------------------
(* Promises come nearer.                                                   *)

\* While a promise is open, nothing has come of any copy yet.
LEMMA OpenFacts ==
  ASSUME IInv, NEW s \in Searches, NEW m \in Messages, IsOpen(s, m[2])
  PROVE  /\ where[m] \in {"unsent", "ready", "unacked"}
         /\ told[m][s] = 0 /\ s \notin excused[m]
         /\ matched[m] # {} => s \in matched[m]
         /\ m[2] \in known \ lost
  <1>1. m[2] \in Items /\ m \in Copies(m[2])
    BY MessageFacts DEF Copies
  <1>2. /\ <<s, m[2]>> \in promised /\ m[2] \notin lost /\ <<s, m[2]>> \notin unseen
        /\ ~(told[m][s] > 0) /\ s \notin excused[m] /\ where[m] # "dead"
    BY <1>1 DEF IsOpen, Ended
  <1>3. told[m][s] \in Nat
    BY DEF IInv, Types
  <1>4. where[m] # "acked"
    BY <1>2 DEF IInv, Settling
  <1>5. matched[m] # {} => s \in matched[m]
    BY <1>2 DEF IInv, Matching
  <1>6. QED
    BY <1>2, <1>3, <1>4, <1>5 DEF IInv, Types, Wheres

LEMMA OpenLater ==
  ASSUME IInv', NEW s \in Searches, NEW m \in Messages, IsOpen(s, m[2])'
  PROVE  where'[m] \in {"unsent", "ready", "unacked"}
  <1>1. m[2] \in Items /\ m \in Copies(m[2])
    BY MessageFacts DEF Copies
  <1>2. /\ <<s, m[2]>> \in promised' /\ <<s, m[2]>> \notin unseen'
        /\ ~(told'[m][s] > 0) /\ s \notin excused'[m] /\ where'[m] # "dead"
    BY <1>1 DEF IsOpen, Ended, Copies
  <1>3. where'[m] # "acked"
    BY <1>2 DEF IInv, Settling
  <1>4. QED
    BY <1>2, <1>3 DEF IInv, Types, Wheres

\* Whoever waits for an alert waits for a step that can be taken.
THEOREM PromisesWaitForSomethingAlways == Spec => []PromisesWaitForSomething
  <1>1. IInv /\ Working => PromisesWaitForSomething
    <2> SUFFICES ASSUME IInv, Working, NEW s \in Searches, NEW i \in Items, IsOpen(s, i),
                        ~(i \in known \ lost /\ \A w \in Workers : sent[w][i] = 0)
                 PROVE  \E m \in Copies(i) : Awaits(m, s)
      BY DEF PromisesWaitForSomething
    <2>1. i \in known \ lost
      BY DEF IsOpen, Ended, IInv, Types
    <2>2. PICK w \in Workers : sent[w][i] # 0
      BY <2>1
    <2> DEFINE m == <<w, i>>
    <2>3. m \in Messages /\ m \in Copies(i) /\ m[2] = i /\ where[m] # "unsent"
      BY <2>2 DEF Messages, Copies, IInv, Linking
    <2>4. /\ where[m] \in {"ready", "unacked"} /\ told[m][s] = 0 /\ s \notin excused[m]
          /\ matched[m] # {} => s \in matched[m]
      BY <2>3, OpenFacts
    <2>5. Awaits(m, s)
      BY <2>3, <2>4 DEF Awaits, Working
    <2>6. QED
      BY <2>3, <2>5
  <1>2. QED
    BY <1>1, Moving, PTL

\* A break pays for every copy that starts again.
LEMMA Nearer ==
  ASSUME IInv, IInv', NEW m \in Messages,
         breaks' = breaks + 1 \/ (breaks' = breaks /\ Stage(m)' <= Stage(m))
  PROVE  Distance(m)' <= Distance(m)
  <1>1. breaks \in Nat /\ breaks' \in Nat /\ MaxBreaks \in Nat
    BY PipelineAssumption DEF IInv, Types, PipelineAssumption
  <1>2. Stage(m) \in 0..3 /\ Stage(m)' \in 0..3
    BY DEF Stage
  <1>3. QED
    BY <1>1, <1>2 DEF Distance

LEMMA Closer ==
  ASSUME IInv, IInv', NEW m \in Messages,
         breaks' = breaks + 1 \/ (breaks' = breaks /\ Stage(m)' < Stage(m))
  PROVE  Distance(m)' < Distance(m)
  <1>1. breaks \in Nat /\ breaks' \in Nat /\ MaxBreaks \in Nat
    BY PipelineAssumption DEF IInv, Types, PipelineAssumption
  <1>2. Stage(m) \in 0..3 /\ Stage(m)' \in 0..3
    BY DEF Stage
  <1>3. QED
    BY <1>1, <1>2 DEF Distance

\* Taking a copy: it is matched, or everything the bot holds starts again.
LEMMA TakeNearer ==
  ASSUME IInv, IInv', NEW s \in Searches, NEW m \in Messages, NEW k \in Messages,
         IsOpen(s, m[2]), IsOpen(s, m[2])', Take(k)
  PROVE  /\ breaks' = breaks + 1 \/ (breaks' = breaks /\ Stage(m)' <= Stage(m))
         /\ k = m /\ where[m] = "unacked" /\ matched[m] = {}
               => breaks' = breaks + 1 \/ (breaks' = breaks /\ Stage(m)' < Stage(m))
  <1>1. where[m] \in {"unsent", "ready", "unacked"} /\ where'[m] \in {"unsent", "ready", "unacked"}
    BY OpenFacts, OpenLater
  <1>2. matched' = [matched EXCEPT ![k] = cache \cap Wanted[k]]
    BY DEF Take, C!Take
  <1>3. /\ breaks' = breaks \/ breaks' = breaks + 1
        /\ where[m] = "unacked" /\ where'[m] = "ready" => breaks' = breaks + 1
    BY BoundedFacts DEF Take
  <1>4. CASE cache \cap Wanted[k] # {} /\ UNCHANGED where
    BY <1>1, <1>2, <1>3, <1>4 DEF Stage, IInv, Types
  <1>5. CASE cache \cap Wanted[k] = {} /\ where' = [where EXCEPT ![k] = "acked"]
    <2>1. k # m
      BY <1>1, <1>5 DEF IInv, Types
    <2>2. QED
      BY <1>1, <1>2, <1>3, <1>5, <2>1 DEF Stage, IInv, Types
  <1>6. CASE where' = C!Requeued
    BY <1>1, <1>2, <1>3, <1>6, RequeuedFacts DEF Stage
  <1>7. QED
    BY <1>4, <1>5, <1>6 DEF Take, C!Take

\* Every other step leaves the copy where it is, or brings it further.
LEMMA NextNearer ==
  ASSUME IInv, IInv', NEW s \in Searches, NEW m \in Messages,
         IsOpen(s, m[2]), IsOpen(s, m[2])', [Next]_vars
  PROVE  breaks' = breaks + 1 \/ (breaks' = breaks /\ Stage(m)' <= Stage(m))
  <1>1. /\ where[m] \in {"unsent", "ready", "unacked"} /\ where'[m] \in {"unsent", "ready", "unacked"}
        /\ where \in [Messages -> Wheres]
    BY OpenFacts, OpenLater DEF IInv, Types
  <1>2. ASSUME UNCHANGED <<where, matched, breaks>>
        PROVE  breaks' = breaks /\ Stage(m)' <= Stage(m)
    BY <1>2 DEF Stage
  <1>3. CASE UNCHANGED vars
    BY <1>2, <1>3 DEF vars, bot
  <1>4. ASSUME NEW i \in Items, Record(i) \/ Lose(i)
        PROVE  breaks' = breaks /\ Stage(m)' <= Stage(m)
    BY <1>2, <1>4 DEF Record, Lose, bot
  <1>5. ASSUME NEW i \in Items, NEW w \in Workers, Publish(w, i)
        PROVE  breaks' = breaks /\ Stage(m)' <= Stage(m)
    <2>1. where[<<w, i>>] = "unsent" /\ where' = [where EXCEPT ![<<w, i>>] = "ready"] /\ UNCHANGED <<matched, breaks>>
      BY <1>5 DEF Publish, C!Arrive, C!alerts
    <2>2. QED
      BY <1>1, <2>1 DEF Stage
  <1>6. ASSUME NEW t \in Searches, EditSearch(t)
        PROVE  breaks' = breaks /\ Stage(m)' <= Stage(m)
    BY <1>2, <1>6 DEF EditSearch, C!EditSearch, C!queue, C!alerts
  <1>7. ASSUME NEW k \in Messages, Deliver(k)
        PROVE  breaks' = breaks /\ Stage(m)' <= Stage(m)
    <2>1. where[k] = "ready" /\ where' = [where EXCEPT ![k] = "unacked"] /\ UNCHANGED <<matched, breaks>>
      BY <1>7 DEF Deliver, C!Deliver, C!alerts
    <2>2. QED
      BY <1>1, <2>1 DEF Stage
  <1>8. ASSUME NEW k \in Messages, Ack(k)
        PROVE  breaks' = breaks /\ Stage(m)' <= Stage(m)
    <2>1. where' = [where EXCEPT ![k] = "acked"] /\ UNCHANGED <<matched, breaks>>
      BY <1>8 DEF Ack, C!Ack, C!alerts
    <2>2. QED
      BY <1>1, <2>1 DEF Stage
  <1>9. ASSUME NEW k \in Messages, NEW t \in Searches, Alert(k, t)
        PROVE  breaks' = breaks /\ Stage(m)' <= Stage(m)
    BY <1>2, <1>9 DEF Alert, C!Tell, C!Excuse, C!queue
  <1>10. CASE Refresh
    BY <1>2, <1>10 DEF Refresh, C!Query, C!Assign, C!queue, C!alerts
  <1>11. CASE GiveBack
    <2>1. where' = C!Requeued /\ matched' = matched /\ Bounded /\ breaks' <= MaxBreaks
      BY <1>11 DEF GiveBack, C!GiveBack, C!alerts
    <2>2. where'[m] = IF where[m] = "unacked" THEN "ready" ELSE where[m]
      BY <2>1, RequeuedFacts
    <2>3. QED
      BY <1>1, <2>1, <2>2, BoundedFacts DEF Stage
  <1>12. CASE Stop
    BY <1>12 DEF Stop
  <1>13. QED
    BY <1>3, <1>4, <1>5, <1>6, <1>7, <1>8, <1>9, <1>10, <1>11, <1>12, TakeNearer DEF Next

\* The step a copy waits for brings it nearer, for every search it is owed to.
LEMMA ForwardNearer ==
  ASSUME IInv, IInv', NEW s \in Searches, NEW m \in Messages,
         IsOpen(s, m[2]), IsOpen(s, m[2])', Forward(m, s)
  PROVE  breaks' = breaks + 1 \/ (breaks' = breaks /\ Stage(m)' < Stage(m))
  <1>1. m[1] \in Workers /\ m[2] \in Items /\ m = <<m[1], m[2]>> /\ m \in Copies(m[2])
    BY MessageFacts DEF Copies
  <1>2. CASE Publish(m[1], m[2])
    <2>1. where[m] = "unsent" /\ where' = [where EXCEPT ![m] = "ready"] /\ UNCHANGED <<matched, breaks>>
      BY <1>1, <1>2 DEF Publish, C!Arrive, C!alerts
    <2>2. QED
      BY <2>1 DEF Stage, IInv, Types
  <1>3. CASE Deliver(m)
    <2>1. where[m] = "ready" /\ where' = [where EXCEPT ![m] = "unacked"] /\ UNCHANGED <<matched, breaks>>
      BY <1>3 DEF Deliver, C!Deliver, C!alerts
    <2>2. QED
      BY <2>1 DEF Stage, IInv, Types
  <1>4. CASE Take(m) /\ where[m] = "unacked" /\ matched[m] = {}
    BY <1>4, TakeNearer
  \* A first alert ends the promise.
  <1>5. CASE FirstAlert(m, s)
    <2>1. told[m][s] = 0 /\ s \notin excused[m]
          /\ \/ told' = [told EXCEPT ![m][s] = @ + 1]
             \/ excused' = [excused EXCEPT ![m] = @ \cup {s}]
      BY <1>5 DEF FirstAlert, Alert, C!Tell, C!Excuse
    <2>2. told'[m][s] > 0 \/ s \in excused'[m]
      BY <2>1 DEF IInv, Types
    <2>3. Ended(s, m[2])'
      BY <1>1, <2>2 DEF Ended, Copies
    <2>4. QED
      BY <2>3 DEF IsOpen
  <1>6. QED
    BY <1>2, <1>3, <1>4, <1>5 DEF Forward

\* Every promise that is not ended comes nearer to its end, however often the
\* connection breaks: with the fairness of the steps it waits for, it ends.
THEOREM PromisesComeNearerAlways == Spec => [][PromisesComeNearer]_vars
  <1>1. IInv /\ IInv' /\ [Next]_vars => [PromisesComeNearer]_vars
    <2> SUFFICES ASSUME IInv, IInv', [Next]_vars, NEW s \in Searches, NEW m \in Messages,
                        IsOpen(s, m[2]), IsOpen(s, m[2])'
                 PROVE  /\ Distance(m)' <= Distance(m)
                        /\ Forward(m, s) => Distance(m)' < Distance(m)
      BY DEF PromisesComeNearer
    <2>1. Distance(m)' <= Distance(m)
      BY NextNearer, Nearer
    <2>2. Forward(m, s) => Distance(m)' < Distance(m)
      BY ForwardNearer, Closer
    <2>3. QED
      BY <2>1, <2>2
  <1>2. QED
    BY <1>1, Invariance, PTL DEF Spec

----------------------------------------------------------------------------
(* The parts keep their promises when they are put together.               *)

\* The scraper's half of the composition is a Ledger.
THEOREM ImplementsLedger == Spec => L!Spec
  <1>1. Init => L!Init
    BY DEF Init
  <1>2. [Next]_vars => [L!Next]_<<known, sent>>
    <2> SUFFICES ASSUME [Next]_vars PROVE [L!Next]_<<known, sent>>
      OBVIOUS
    <2>1. CASE UNCHANGED vars
      BY <2>1 DEF vars, scraper
    <2>2. ASSUME NEW i \in Items, Record(i)
          PROVE  L!Next
      BY <2>2 DEF Record, L!Next
    <2>3. ASSUME NEW i \in Items, NEW w \in Workers, Publish(w, i)
          PROVE  L!Next
      BY <2>3 DEF Publish, L!Next
    <2>4. ASSUME NEW i \in Items, Lose(i)
          PROVE  UNCHANGED <<known, sent>>
      BY <2>4 DEF Lose
    <2>5. ASSUME NEW s \in Searches, EditSearch(s)
          PROVE  UNCHANGED <<known, sent>>
      BY <2>5 DEF EditSearch, scraper
    <2>6. ASSUME NEW m \in Messages, Take(m) \/ Deliver(m) \/ Ack(m) \/ \E s \in Searches : Alert(m, s)
          PROVE  UNCHANGED <<known, sent>>
      BY <2>6 DEF Take, Deliver, Ack, Alert, scraper
    <2>7. CASE Refresh \/ GiveBack \/ Stop
      BY <2>7 DEF Refresh, GiveBack, Stop, scraper
    <2>8. QED
      BY <2>1, <2>2, <2>3, <2>4, <2>5, <2>6, <2>7 DEF Next
  <1>3. QED
    BY <1>1, <1>2, PTL DEF Spec, L!Spec

\* The bot's half is a Consumption of what the workers publish.
THEOREM ImplementsConsumption == Spec => C!Spec
  <1>1. Init => C!Init
    BY DEF Init
  <1>2. [Next]_vars => [C!Next]_(C!vars)
    <2> SUFFICES ASSUME [Next]_vars PROVE [C!Next]_(C!vars)
      OBVIOUS
    <2>1. ASSUME UNCHANGED bot
          PROVE  UNCHANGED C!vars
      BY <2>1 DEF bot, C!vars, C!queue, C!copy, C!alerts
    <2>2. CASE UNCHANGED vars
      BY <2>1, <2>2 DEF vars
    <2>3. ASSUME NEW i \in Items, Record(i) \/ Lose(i)
          PROVE  UNCHANGED C!vars
      BY <2>1, <2>3 DEF Record, Lose
    <2>4. ASSUME NEW i \in Items, NEW w \in Workers, Publish(w, i)
          PROVE  C!Next
      BY <2>4 DEF Publish, C!Next, Messages
    <2>5. ASSUME NEW s \in Searches, EditSearch(s)
          PROVE  C!Next
      BY <2>5 DEF EditSearch, C!Next
    <2>6. ASSUME NEW m \in Messages, Take(m) \/ Deliver(m) \/ Ack(m) \/ \E s \in Searches : Alert(m, s)
          PROVE  C!Next
      BY <2>6 DEF Take, Deliver, Ack, Alert, C!Next
    <2>7. CASE Refresh \/ GiveBack \/ Stop
      BY <2>7 DEF Refresh, GiveBack, Stop, C!Next
    <2>8. QED
      BY <2>2, <2>3, <2>4, <2>5, <2>6, <2>7 DEF Next
  <1>3. QED
    BY <1>1, <1>2, PTL DEF Spec, C!Spec

=============================================================================
