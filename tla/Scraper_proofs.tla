--------------------------- MODULE Scraper_proofs ---------------------------
(***************************************************************************)
(* Proofs about Scraper, for any number of workers, keywords and listings, *)
(* any capacity, page size and row order, and any failures and stops.      *)
(***************************************************************************)
EXTENDS Scraper, FiniteSetTheorems, WellFoundedInduction, TLAPS

----------------------------------------------------------------------------
(* The inductive invariant.                                                *)

\* Only rows grow old, and no worker is busy with a listing whose row is old.
OldRows ==
    /\ aged \subseteq dedup
    /\ \A w \in Workers, i \in aged : ~Holds(w, i)

\* What was sent is on record and was sent once; a worker that holds a
\* listing has not sent it yet; a worker about to send has it on record.
SendingOf(w, i) ==
    /\ published[w][i] <= 1
    /\ published[w][i] > 0 => i \in dedup
    /\ Holds(w, i) => published[w][i] = 0
    /\ pc[w] = "publish" /\ Current(w, i) => i \in dedup

Sending == \A w \in Workers, i \in Items : SendingOf(w, i)

\* A worker without a listing has nothing left of its response, and a worker
\* stops after the channel was closed and emptied.
Idling ==
    \A w \in Workers :
        /\ pc[w] \in {"idle", "search", "stopped"} => todo[w] = {}
        /\ pc[w] = "stopped" => Closed /\ jobs = <<>>

\* The workers of a process that has ended.
Ending ==
    /\ sched = "stopped" => jobs = <<>> /\ \A w \in Workers : pc[w] = "stopped"
    /\ sched = "dead" => jobs = <<>> /\ \A w \in Workers : pc[w] = "idle"

IInv == TypeOK /\ OldRows /\ Sending /\ Idling /\ Ending /\ SilentLossHasCause

----------------------------------------------------------------------------
(* Types.                                                                  *)

\* The channel starts, and restarts, as a sequence of keywords of length zero.
LEMMA EmptyQueue == <<>> \in Seq(Keywords) /\ Len(<<>>) = 0
  OBVIOUS

\* main() creates a well-typed state.
LEMMA InitTypeOK == Init => TypeOK
  <1> SUFFICES ASSUME Init PROVE TypeOK
    OBVIOUS
  <1>1. jobs \in Seq(Keywords) /\ Len(jobs) <= Capacity
    BY ScraperAssumption, EmptyQueue DEF ScraperAssumption, Init
  <1>2. pc \in [Workers -> {"idle", "search", "exists", "save", "publish", "stopped"}]
    BY DEF Init
  <1>3. published \in [Workers -> [Items -> Nat]]
    BY DEF Init
  <1>4. kw \in [Workers -> Keywords \cup {NoKeyword}] /\ todo \in [Workers -> SUBSET Items]
    BY DEF Init
  <1>5. stops \in 0..MaxStops
    BY ScraperAssumption DEF ScraperAssumption, Init
  <1>6. QED
    BY <1>1, <1>2, <1>3, <1>4, <1>5 DEF Init, TypeOK

\* Every step of the program and of its surroundings keeps the types.
LEMMA NextTypeOK == TypeOK /\ [Next]_vars => TypeOK'
  <1> SUFFICES ASSUME TypeOK, [Next]_vars PROVE TypeOK'
    OBVIOUS
  <1> USE ScraperAssumption DEF ScraperAssumption, TypeOK, market, table, scheduler, workers, history
  <1>1. ASSUME NEW k \in Keywords, SearchesChange(k) PROVE TypeOK'
    BY <1>1 DEF SearchesChange
  <1>2. ASSUME NEW i \in Items, ListingsChange(i) PROVE TypeOK'
    BY <1>2 DEF ListingsChange
  <1>3. CASE GetActiveKeywords
    BY <1>3 DEF GetActiveKeywords
  <1>4. ASSUME NEW k \in Keywords, OfferJob(k) PROVE TypeOK'
    <2>1. jobs' \in Seq(Keywords) /\ Len(jobs') <= Capacity
      <3>1. CASE RoomForJob /\ jobs' = Append(jobs, k)
        BY <3>1 DEF RoomForJob
      <3>2. CASE jobs' = jobs
        BY <3>2
      <3>3. QED
        BY <1>4, <3>1, <3>2 DEF OfferJob
    <2>2. QED
      BY <1>4, <2>1 DEF OfferJob
  <1>5. CASE AbandonDispatch
    BY <1>5 DEF AbandonDispatch
  <1>6. CASE Tick
    BY <1>6 DEF Tick
  <1>7. CASE CloseJobs
    BY <1>7 DEF CloseJobs
  <1>8. CASE Stop
    BY <1>8 DEF Stop
  <1>9. ASSUME NEW w \in Workers, Receive(w) PROVE TypeOK'
    <2>1. Head(jobs) \in Keywords /\ jobs' \in Seq(Keywords) /\ Len(jobs') <= Capacity
      BY <1>9 DEF Receive
    <2>2. QED
      BY <1>9, <2>1 DEF Receive
  <1>10. ASSUME NEW w \in Workers, WorkerExit(w) PROVE TypeOK'
    BY <1>10 DEF WorkerExit
  <1>11. ASSUME NEW w \in Workers, Search(w) PROVE TypeOK'
    <2>1. \A k : SearchItems(k) \subseteq Items
      BY DEF SearchItems
    <2>2. QED
      BY <1>11, <2>1 DEF Search
  <1>12. ASSUME NEW w \in Workers, NEW i \in Items, Exists(w, i) PROVE TypeOK'
    BY <1>12 DEF Exists, NextItem
  <1>13. ASSUME NEW w \in Workers, NEW i \in Items, Save(w, i) PROVE TypeOK'
    BY <1>13 DEF Save, NextItem, InsertId
  <1>14. ASSUME NEW w \in Workers, NEW i \in Items, Publish(w, i) PROVE TypeOK'
    <2> DEFINE row == [published[w] EXCEPT ![i] = @ + 1]
    <2>1. published' \in [Workers -> [Items -> Nat]]
      <3>1. row \in [Items -> Nat]
        OBVIOUS
      <3>2. published' = [published EXCEPT ![w] = row] \/ published' = published
        BY <1>14 DEF Publish
      <3>3. QED
        BY <3>1, <3>2
    <2>2. todo' \in [Workers -> SUBSET Items] /\ lost' \in SUBSET Items
      BY <1>14 DEF Publish, NextItem
    <2>3. QED
      BY <1>14, <2>1, <2>2 DEF Publish, NextItem
  <1>15. ASSUME NEW i \in Items, Age(i) PROVE TypeOK'
    BY <1>15 DEF Age
  <1>16. CASE DeleteOlderThan
    BY <1>16 DEF DeleteOlderThan, Expired
  <1>17. CASE Sigterm
    BY <1>17 DEF Sigterm
  <1>18. CASE Kill
    <2>1. jobs' \in Seq(Keywords) /\ Len(jobs') <= Capacity
      BY <1>18, EmptyQueue DEF Kill, FreshProcess
    <2>2. stops' \in 0..MaxStops
      BY <1>18 DEF Kill
    <2>3. HalfDone \subseteq Items
      BY DEF HalfDone
    <2>4. lost' \in SUBSET Items
      BY <1>18, <2>3 DEF Kill
    <2>5. /\ pc' \in [Workers -> {"idle", "search", "exists", "save", "publish", "stopped"}]
          /\ kw' \in [Workers -> Keywords \cup {NoKeyword}]
          /\ todo' \in [Workers -> SUBSET Items]
      BY <1>18 DEF Kill, FreshProcess
    <2>6. sched' = "dead" /\ pending' = {} /\ cancelled' = FALSE
      BY <1>18 DEF Kill, FreshProcess
    <2>7. UNCHANGED <<market, table, published>>
      BY <1>18 DEF Kill, FreshProcess
    <2>8. QED
      BY <2>1, <2>2, <2>5, <2>6, <2>7, <2>4
  <1>19. CASE Restart
    <2>1. jobs' \in Seq(Keywords) /\ Len(jobs') <= Capacity
      BY <1>19, EmptyQueue DEF Restart, FreshProcess
    <2>2. QED
      BY <1>19, <2>1 DEF Restart, FreshProcess
  <1>20. CASE UNCHANGED vars
    BY <1>20 DEF vars
  <1>21. QED
    BY <1>1, <1>2, <1>3, <1>4, <1>5, <1>6, <1>7, <1>8, <1>9, <1>10, <1>11, <1>12,
       <1>13, <1>14, <1>15, <1>16, <1>17, <1>18, <1>19, <1>20
       DEF Next, Dispatch, WorkerStep

\* The program's variables keep their types; in particular the channel never
\* holds more than Capacity keywords.
THEOREM TypeCorrect == Spec => []TypeOK
  BY InitTypeOK, NextTypeOK, PTL DEF Spec

----------------------------------------------------------------------------
(* The invariant is inductive.                                             *)

\* The newest listing of a response is one listing.
LEMMA CurrentIsOne ==
    ASSUME TypeOK, NEW w \in Workers, NEW i \in Items, NEW j \in Items,
           Current(w, i), Current(w, j)
    PROVE  i = j
  BY ScraperAssumption DEF ScraperAssumption, TypeOK, Current

\* What a step must leave alone to keep the parts of IInv about the table.
LEMMA TableUntouched ==
    ASSUME IInv, UNCHANGED <<dedup, aged, pc, todo, published, lost>>
    PROVE  OldRows' /\ Sending' /\ SilentLossHasCause'
  BY DEF IInv, OldRows, Sending, SendingOf, SilentLossHasCause, HalfDone, Holds, Current

\* A worker that is busy with its response goes on, or is done with it.
LEMMA WorkerGoesOn ==
    ASSUME IInv, NEW w \in Workers, pc[w] \notin {"idle", "stopped"}, pc'[w] # "stopped",
           \A v \in Workers \ {w} : pc'[v] = pc[v] /\ todo'[v] = todo[v],
           pc'[w] \in {"idle", "search"} => todo'[w] = {},
           UNCHANGED <<sched, jobs>>
    PROVE  Idling' /\ Ending'
  <1>1. sched \notin {"stopped", "dead"}
    BY DEF IInv, Ending
  <1>2. Idling'
    BY DEF IInv, Idling, Closed
  <1> QED
    BY <1>1, <1>2 DEF Ending

\* The inductive invariant holds when main() starts on an empty table.
LEMMA InitIInv == Init => IInv
  <1> SUFFICES ASSUME Init PROVE IInv
    OBVIOUS
  <1>1. TypeOK
    BY InitTypeOK
  <1>2. OldRows /\ Idling /\ Ending /\ SilentLossHasCause
    BY DEF Init, OldRows, Idling, Ending, SilentLossHasCause, Holds
  <1>3. Sending
    BY DEF Init, Sending, SendingOf, Holds
  <1>4. QED
    BY <1>1, <1>2, <1>3 DEF IInv

\* Every step keeps the inductive invariant.
LEMMA NextIInv == IInv /\ [Next]_vars => IInv'
  <1> SUFFICES ASSUME IInv, [Next]_vars PROVE IInv'
    OBVIOUS
  <1>0. TypeOK /\ TypeOK'
    BY NextTypeOK DEF IInv
  <1> USE DEF market, table, scheduler, workers, history
  <1>1. ASSUME NEW k \in Keywords, SearchesChange(k) PROVE IInv'
    BY <1>0, <1>1, TableUntouched DEF SearchesChange, IInv, Idling, Ending, Closed
  <1>2. ASSUME NEW i \in Items, ListingsChange(i) PROVE IInv'
    BY <1>0, <1>2, TableUntouched DEF ListingsChange, IInv, Idling, Ending, Closed
  <1>3. CASE GetActiveKeywords
    BY <1>0, <1>3, TableUntouched DEF GetActiveKeywords, IInv, Idling, Ending, Closed
  <1>4. ASSUME NEW k \in Keywords, OfferJob(k) PROVE IInv'
    BY <1>0, <1>4, TableUntouched DEF OfferJob, IInv, Idling, Ending, Closed
  <1>5. CASE AbandonDispatch
    BY <1>0, <1>5, TableUntouched DEF AbandonDispatch, IInv, Idling, Ending, Closed
  <1>6. CASE Tick
    BY <1>0, <1>6, TableUntouched DEF Tick, IInv, Idling, Ending, Closed
  <1>7. CASE CloseJobs
    BY <1>0, <1>7, TableUntouched DEF CloseJobs, IInv, Idling, Ending, Closed
  <1>8. CASE Stop
    BY <1>0, <1>8, TableUntouched, ScraperAssumption
       DEF ScraperAssumption, Stop, IInv, Idling, Ending, Closed
  <1>9. ASSUME NEW w \in Workers, Receive(w) PROVE IInv'
    <2>1. OldRows' /\ Sending' /\ SilentLossHasCause'
      BY <1>0, <1>9 DEF Receive, IInv, TypeOK, OldRows, Sending, SendingOf, SilentLossHasCause, HalfDone, Holds, Current
    <2>2. Idling' /\ Ending'
      BY <1>0, <1>9 DEF Receive, IInv, TypeOK, Idling, Ending, Closed
    <2>3. QED
      BY <1>0, <2>1, <2>2 DEF IInv
  <1>10. ASSUME NEW w \in Workers, WorkerExit(w) PROVE IInv'
    <2>1. OldRows' /\ Sending' /\ SilentLossHasCause'
      BY <1>0, <1>10 DEF WorkerExit, IInv, TypeOK, OldRows, Sending, SendingOf, SilentLossHasCause, HalfDone, Holds, Current
    <2>2. Idling' /\ Ending'
      BY <1>0, <1>10 DEF WorkerExit, IInv, TypeOK, Idling, Ending, Closed
    <2>3. QED
      BY <1>0, <2>1, <2>2 DEF IInv
  <1>11. ASSUME NEW w \in Workers, Search(w) PROVE IInv'
    <2>1. OldRows'
      BY <1>0, <1>11 DEF Search, IInv, TypeOK, OldRows, Holds, Current
    <2>2. Sending'
      BY <1>0, <1>11 DEF Search, IInv, TypeOK, Sending, SendingOf, Holds, Current
    <2>3. SilentLossHasCause'
      BY <1>0, <1>11 DEF Search, IInv, TypeOK, SilentLossHasCause, HalfDone, Current
    <2>4. Idling' /\ Ending'
      BY <1>0, <1>11 DEF Search, IInv, TypeOK, Idling, Ending, Closed
    <2>5. QED
      BY <1>0, <2>1, <2>2, <2>3, <2>4 DEF IInv
  <1>12. ASSUME NEW w \in Workers, NEW i \in Items, Exists(w, i) PROVE IInv'
    <2>1. OldRows'
      BY <1>0, <1>12, CurrentIsOne DEF Exists, NextItem, IInv, TypeOK, OldRows, Holds, Current
    <2>2. Sending'
      <3> SUFFICES ASSUME NEW v \in Workers, NEW j \in Items PROVE SendingOf(v, j)'
        BY DEF Sending
      <3>1. SendingOf(v, j)
        BY DEF IInv, Sending
      <3>2. CASE v = w
        <4>1. pc'[w] \in {"idle", "exists"} \/ (pc'[w] = "save" /\ todo' = todo /\ i \notin dedup)
          BY <1>0, <1>12 DEF Exists, NextItem, TypeOK
        <4>2. Holds(v, j)' => j = i /\ i \notin dedup
          BY <1>0, <1>12, <3>2, <4>1, CurrentIsOne DEF Exists, Holds, Current
        <4>3. pc'[v] # "publish" /\ UNCHANGED <<dedup, published>>
          BY <1>12, <3>2, <4>1 DEF Exists
        <4>4. published[v][j] \in Nat
          BY <1>0 DEF TypeOK
        <4>5. QED
          BY <3>1, <4>2, <4>3, <4>4 DEF SendingOf
      <3>3. CASE v # w
        BY <1>0, <1>12, <3>1, <3>3 DEF Exists, NextItem, TypeOK, SendingOf, Holds, Current
      <3>4. QED
        BY <3>2, <3>3
    <2>3. SilentLossHasCause'
      BY <1>0, <1>12 DEF Exists, NextItem, IInv, TypeOK, SilentLossHasCause, HalfDone, Current
    <2>4. Idling' /\ Ending'
      <3>1. /\ pc[w] = "exists" /\ pc'[w] \in {"save", "exists", "idle"}
            /\ pc'[w] = "idle" => todo'[w] = {}
        BY <1>0, <1>12 DEF Exists, NextItem, TypeOK
      <3>2. \A v \in Workers \ {w} : pc'[v] = pc[v] /\ todo'[v] = todo[v]
        BY <1>0, <1>12 DEF Exists, NextItem, TypeOK
      <3>3. UNCHANGED <<sched, jobs>>
        BY <1>12 DEF Exists
      <3> QED
        BY <3>1, <3>2, <3>3, WorkerGoesOn
    <2>5. QED
      BY <1>0, <2>1, <2>2, <2>3, <2>4 DEF IInv
  <1>13. ASSUME NEW w \in Workers, NEW i \in Items, Save(w, i) PROVE IInv'
    <2>1. OldRows'
      BY <1>0, <1>13 DEF Save, InsertId, NextItem, IInv, TypeOK, OldRows, Holds, Current
    <2>2. Sending'
      <3> SUFFICES ASSUME NEW v \in Workers, NEW j \in Items PROVE SendingOf(v, j)'
        BY DEF Sending
      <3>1. SendingOf(v, j)
        BY DEF IInv, Sending
      <3>2. CASE v = w
        <4>1. dedup \subseteq dedup' /\ published' = published
          BY <1>13 DEF Save, InsertId
        <4>2. pc'[w] \in {"idle", "exists"} \/ (pc'[w] = "publish" /\ todo' = todo /\ i \in dedup')
          BY <1>0, <1>13 DEF Save, InsertId, NextItem, TypeOK
        <4>3. Holds(v, j)' => j = i /\ i \in dedup' /\ Holds(v, j)
          BY <1>0, <1>13, <3>2, <4>2, CurrentIsOne DEF Save, Holds, Current
        <4>4. QED
          BY <3>1, <4>1, <4>3 DEF SendingOf, Holds
      <3>3. CASE v # w
        BY <1>0, <1>13, <3>1, <3>3 DEF Save, InsertId, NextItem, TypeOK, SendingOf, Holds, Current
      <3>4. QED
        BY <3>2, <3>3
    <2>3. SilentLossHasCause'
      <3>1. HalfDone \subseteq HalfDone'
        BY <1>0, <1>13 DEF Save, NextItem, TypeOK, HalfDone, Current
      <3>2. dedup' \subseteq dedup \cup lost' \cup HalfDone'
        BY <1>0, <1>13 DEF Save, InsertId, NextItem, TypeOK, HalfDone, Current
      <3>3. QED
        BY <1>13, <3>1, <3>2 DEF Save, IInv, SilentLossHasCause
    <2>4. Idling' /\ Ending'
      <3>1. /\ pc[w] = "save" /\ pc'[w] \in {"publish", "exists", "idle"}
            /\ pc'[w] = "idle" => todo'[w] = {}
        BY <1>0, <1>13 DEF Save, NextItem, TypeOK
      <3>2. \A v \in Workers \ {w} : pc'[v] = pc[v] /\ todo'[v] = todo[v]
        BY <1>0, <1>13 DEF Save, NextItem, TypeOK
      <3>3. UNCHANGED <<sched, jobs>>
        BY <1>13 DEF Save
      <3> QED
        BY <3>1, <3>2, <3>3, WorkerGoesOn
    <2>5. QED
      BY <1>0, <2>1, <2>2, <2>3, <2>4 DEF IInv
  <1>14. ASSUME NEW w \in Workers, NEW i \in Items, Publish(w, i) PROVE IInv'
    <2>1. OldRows'
      BY <1>0, <1>14 DEF Publish, NextItem, IInv, TypeOK, OldRows, Holds, Current
    <2>2. Sending'
      <3> SUFFICES ASSUME NEW v \in Workers, NEW j \in Items PROVE SendingOf(v, j)'
        BY DEF Sending
      <3>1. SendingOf(v, j)
        BY DEF IInv, Sending
      <3>2. CASE v = w
        <4>1. pc'[w] \in {"idle", "exists"} /\ dedup' = dedup
          BY <1>0, <1>14 DEF Publish, NextItem, TypeOK
        <4>2. published[w][i] = 0 /\ i \in dedup
          BY <1>14 DEF Publish, IInv, Sending, SendingOf, Holds
        <4>3. published'[w][j] = published[w][j] \/ (j = i /\ published'[w][i] = 1)
          BY <1>0, <1>14, <4>2 DEF Publish, TypeOK
        <4>4. QED
          BY <3>1, <3>2, <4>1, <4>2, <4>3 DEF SendingOf, Holds
      <3>3. CASE v # w
        BY <1>0, <1>14, <3>1, <3>3 DEF Publish, NextItem, TypeOK, SendingOf, Holds, Current
      <3>4. QED
        BY <3>2, <3>3
    <2>3. SilentLossHasCause'
      <3>1. HalfDone \subseteq HalfDone' \cup {i}
        BY <1>0, <1>14, CurrentIsOne DEF Publish, NextItem, TypeOK, HalfDone, Current
      <3>2. i \in lost' \/ published'[w][i] > 0
        BY <1>0, <1>14 DEF Publish, TypeOK
      <3>3. \A v \in Workers, j \in Items : published[v][j] > 0 => published'[v][j] > 0
        <4> SUFFICES ASSUME NEW v \in Workers, NEW j \in Items, published[v][j] > 0
                     PROVE  published'[v][j] > 0
          OBVIOUS
        <4>1. published[v][j] \in Nat
          BY <1>0 DEF TypeOK
        <4>2. CASE published' = published
          BY <4>2
        <4>3. CASE published' = [published EXCEPT ![w][i] = @ + 1]
          <5>1. published'[v] = IF v = w THEN [published[v] EXCEPT ![i] = @ + 1] ELSE published[v]
            BY <1>0, <4>3 DEF TypeOK
          <5>2. published[v] \in [Items -> Nat]
            BY <1>0 DEF TypeOK
          <5>3. QED
            BY <4>1, <5>1, <5>2
        <4>4. QED
          BY <1>14, <4>2, <4>3 DEF Publish
      <3>4. lost \subseteq lost' /\ dedup' = dedup
        BY <1>14 DEF Publish, table
      <3>5. QED
        BY <1>0, <3>1, <3>2, <3>3, <3>4 DEF TypeOK, IInv, SilentLossHasCause
    <2>4. Idling' /\ Ending'
      <3>1. /\ pc[w] = "publish" /\ pc'[w] \in {"exists", "idle"}
            /\ pc'[w] = "idle" => todo'[w] = {}
        BY <1>0, <1>14 DEF Publish, NextItem, TypeOK
      <3>2. \A v \in Workers \ {w} : pc'[v] = pc[v] /\ todo'[v] = todo[v]
        BY <1>0, <1>14 DEF Publish, NextItem, TypeOK
      <3>3. UNCHANGED <<sched, jobs>>
        BY <1>14 DEF Publish
      <3> QED
        BY <3>1, <3>2, <3>3, WorkerGoesOn
    <2>5. QED
      BY <1>0, <2>1, <2>2, <2>3, <2>4 DEF IInv
  <1>15. ASSUME NEW i \in Items, Age(i) PROVE IInv'
    <2>1. OldRows'
      BY <1>15 DEF Age, IInv, OldRows, Holds, Current
    <2>2. Sending' /\ SilentLossHasCause' /\ Idling' /\ Ending'
      BY <1>15 DEF Age, IInv, Sending, SendingOf, SilentLossHasCause, HalfDone, Holds, Current, Idling, Ending, Closed
    <2>3. QED
      BY <1>0, <2>1, <2>2 DEF IInv
  <1>16. CASE DeleteOlderThan
    <2>1. OldRows' /\ Idling' /\ Ending'
      BY <1>16 DEF DeleteOlderThan, IInv, OldRows, Holds, Current, Idling, Ending, Closed
    <2>2. Sending'
      BY <1>0, <1>16 DEF DeleteOlderThan, Expired, IInv, TypeOK, OldRows, Sending, SendingOf, Holds, Current
    <2>3. SilentLossHasCause'
      BY <1>0, <1>16 DEF DeleteOlderThan, Expired, IInv, TypeOK, SilentLossHasCause, HalfDone, Current
    <2>4. QED
      BY <1>0, <2>1, <2>2, <2>3 DEF IInv
  <1>17. CASE Sigterm
    BY <1>0, <1>17, TableUntouched DEF Sigterm, IInv, Idling, Ending, Closed
  <1>18. CASE Kill
    <2>1. OldRows' /\ Idling' /\ Ending'
      BY <1>18 DEF Kill, FreshProcess, IInv, OldRows, Holds, Idling, Ending, Closed
    <2>2. Sending'
      BY <1>18 DEF Kill, FreshProcess, IInv, Sending, SendingOf, Holds, Current
    <2>3. SilentLossHasCause'
      BY <1>18 DEF Kill, FreshProcess, IInv, SilentLossHasCause, HalfDone
    <2>4. QED
      BY <1>0, <2>1, <2>2, <2>3 DEF IInv
  <1>19. CASE Restart
    <2>1. OldRows' /\ Idling' /\ Ending'
      BY <1>19 DEF Restart, FreshProcess, IInv, OldRows, Holds, Idling, Ending, Closed
    <2>2. Sending'
      BY <1>19 DEF Restart, FreshProcess, IInv, Sending, SendingOf, Holds, Current
    <2>3. HalfDone = {}
      BY <1>19 DEF Restart, IInv, Ending, HalfDone
    <2>4. SilentLossHasCause'
      BY <1>19, <2>3 DEF Restart, FreshProcess, IInv, SilentLossHasCause, HalfDone
    <2>5. QED
      BY <1>0, <2>1, <2>2, <2>4 DEF IInv
  <1>20. CASE UNCHANGED vars
    BY <1>0, <1>20, TableUntouched DEF vars, IInv, Idling, Ending, Closed
  <1>21. QED
    BY <1>1, <1>2, <1>3, <1>4, <1>5, <1>6, <1>7, <1>8, <1>9, <1>10, <1>11, <1>12,
       <1>13, <1>14, <1>15, <1>16, <1>17, <1>18, <1>19, <1>20
       DEF Next, Dispatch, WorkerStep

\* The inductive invariant holds throughout every behaviour.
LEMMA Invariance == Spec => []IInv
  BY InitIInv, NextIInv, PTL DEF Spec

----------------------------------------------------------------------------
(* Greatest and least numbers.                                             *)

\* A set of natural numbers that is not empty has a least element.
LEMMA LeastNumber ==
  ASSUME NEW T \in SUBSET Nat, T # {}
  PROVE  \E x \in T : \A y \in T : x <= y
  <1> DEFINE R == {ss \in Nat \X Nat : ss[1] < ss[2]}
  <1>1. R = OpToRel(<, Nat)
    BY DEF OpToRel
  <1>2. IsWellFoundedOn(R, Nat)
    BY <1>1, NatLessThanWellFounded
  <1> HIDE DEF R
  <1>3. PICK x \in T : \A y \in Nat : <<y, x>> \in R => y \notin T
    BY <1>2, WFMin
  <1>4. ASSUME NEW y \in T PROVE x <= y
    <2>1. x \in Nat /\ y \in Nat /\ <<y, x>> \notin R
      BY <1>3
    <2>2. ~(y < x)
      BY <2>1 DEF R
    <2>3. QED
      BY <2>1, <2>2
  <1>5. QED
    BY <1>4

\* A finite set of natural numbers is bounded: else take the smallest of its
\* subsets that is not, and one element out of it.
LEMMA FiniteIsBounded ==
  ASSUME NEW T \in SUBSET Nat, IsFiniteSet(T)
  PROVE  \E b \in Nat : \A x \in T : x <= b
  <1> DEFINE Bounded(U) == \E b \in Nat : \A x \in U : x <= b
             Sizes == {Cardinality(U) : U \in {V \in SUBSET T : ~Bounded(V)}}
  <1> SUFFICES ASSUME ~Bounded(T) PROVE FALSE
    OBVIOUS
  <1>1. \A U \in SUBSET T : IsFiniteSet(U) /\ Cardinality(U) \in Nat
    BY FS_Subset, FS_CardinalityType
  <1>2. Sizes \in SUBSET Nat /\ Sizes # {}
    BY <1>1
  <1>3. PICK n \in Sizes : \A k \in Sizes : n <= k
    BY <1>2, LeastNumber
  <1>4. PICK U \in SUBSET T : ~Bounded(U) /\ n = Cardinality(U)
    BY <1>3
  <1>5. U # {}
    BY <1>4
  <1>6. PICK u \in U : TRUE
    BY <1>5
  <1>7. Cardinality(U \ {u}) = n - 1 /\ n \in Nat
    BY <1>1, <1>4, <1>6, FS_RemoveElement
  <1>8. Bounded(U \ {u})
    <2>1. ASSUME ~Bounded(U \ {u}) PROVE FALSE
      <3>1. Cardinality(U \ {u}) \in Sizes
        BY <1>4, <2>1
      <3>2. n <= n - 1
        BY <1>3, <1>7, <3>1
      <3>3. QED
        BY <1>7, <3>2
    <2>2. QED
      BY <2>1
  <1>9. PICK b \in Nat : \A x \in U \ {u} : x <= b
    BY <1>8
  <1>10. Bounded(U)
    <2>1. u \in Nat /\ \A x \in U : x \in Nat
      BY <1>6
    <2>2. \A x \in U : x <= b + u
      BY <1>9, <2>1
    <2>3. b + u \in Nat
      BY <2>1
    <2>4. QED
      BY <2>2, <2>3
  <1>11. QED
    BY <1>4, <1>10

LEMMA GreatestNumber ==
  ASSUME NEW T \in SUBSET Nat, IsFiniteSet(T), T # {}
  PROVE  \E x \in T : \A y \in T : y <= x
  <1> DEFINE Bounds == {b \in Nat : \A x \in T : x <= b}
  <1>1. PICK b \in Bounds : \A c \in Bounds : b <= c
    <2>1. Bounds \in SUBSET Nat /\ Bounds # {}
      BY FiniteIsBounded
    <2>2. QED
      BY <2>1, LeastNumber
  <1>2. b \in Nat /\ \A x \in T : x \in Nat /\ x <= b
    BY <1>1
  <1>3. ASSUME b \notin T PROVE FALSE
    <2>1. \A x \in T : x <= b - 1
      BY <1>2, <1>3
    <2>2. b - 1 \in Nat
      <3>1. PICK x \in T : TRUE
        OBVIOUS
      <3>2. x \in Nat /\ x <= b - 1
        BY <1>2, <2>1, <3>1
      <3>3. QED
        BY <1>2, <3>2
    <2>3. b - 1 \in Bounds
      BY <2>1, <2>2
    <2>4. b <= b - 1
      BY <1>1, <2>3
    <2>5. QED
      BY <1>2, <2>4
  <1>4. QED
    BY <1>2, <1>3

----------------------------------------------------------------------------
(* Nobody is stuck, and the drain ends.                                    *)

\* A worker with a response has a listing left, and so has the dispatcher a
\* keyword.
Busy ==
    /\ \A w \in Workers : pc[w] \in {"exists", "save", "publish"} => todo[w] # {}
    /\ sched = "send" => pending # {}

LEMMA InitBusy == Init => Busy
  BY DEF Init, Busy

LEMMA NextBusy == TypeOK /\ Busy /\ [Next]_vars => Busy'
  <1> SUFFICES ASSUME TypeOK, Busy, [Next]_vars PROVE Busy'
    OBVIOUS
  <1> USE DEF scheduler, workers
  <1>1. ASSUME NEW w \in Workers, WorkerStep(w) PROVE Busy'
    <2>1. UNCHANGED <<sched, pending>> /\ \A v \in Workers \ {w} : pc'[v] = pc[v] /\ todo'[v] = todo[v]
      BY <1>1 DEF WorkerStep, Receive, WorkerExit, Search, Exists, Save, Publish, NextItem, TypeOK
    <2>2. CASE Receive(w) \/ WorkerExit(w)
      BY <2>1, <2>2 DEF Receive, WorkerExit, Busy, TypeOK
    <2>3. CASE Search(w)
      BY <2>1, <2>3 DEF Search, Busy, TypeOK
    <2>4. ASSUME NEW i \in Items, Exists(w, i) \/ Save(w, i) \/ Publish(w, i)
          PROVE  pc'[w] \in {"exists", "save", "publish"} => todo'[w] # {}
      BY <2>4 DEF Exists, Save, Publish, NextItem, Current, TypeOK
    <2>5. QED
      BY <1>1, <2>1, <2>2, <2>3, <2>4 DEF WorkerStep, Busy
  <1>2. ASSUME NEW k \in Keywords, SearchesChange(k) \/ OfferJob(k) PROVE Busy'
    BY <1>2 DEF SearchesChange, OfferJob, NextRow, Busy
  <1>3. ASSUME NEW i \in Items, ListingsChange(i) \/ Age(i) PROVE Busy'
    BY <1>3 DEF ListingsChange, Age, Busy
  <1>4. CASE GetActiveKeywords \/ AbandonDispatch \/ Tick \/ CloseJobs \/ Stop
    BY <1>4 DEF GetActiveKeywords, AbandonDispatch, Tick, CloseJobs, Stop, Busy
  <1>5. CASE DeleteOlderThan \/ Sigterm \/ Kill \/ Restart
    BY <1>5 DEF DeleteOlderThan, Sigterm, Kill, Restart, FreshProcess, Busy
  <1>6. CASE UNCHANGED vars
    BY <1>6 DEF vars, Busy
  <1>7. QED
    BY <1>1, <1>2, <1>3, <1>4, <1>5, <1>6 DEF Next, Dispatch

LEMMA BusyInvariance == Spec => []Busy
  BY InitTypeOK, NextTypeOK, InitBusy, NextBusy, PTL DEF Spec

\* Worker w has a step of its own.
WorkerGoes(w) ==
    \/ pc[w] = "idle" /\ (jobs # <<>> \/ Closed)
    \/ pc[w] = "search"
    \/ pc[w] \in {"exists", "save", "publish"} /\ \E i \in Items : Current(w, i)

\* So has the scheduler: GetActiveKeywords, OfferJob or AbandonDispatch, Tick,
\* or the end of wg.Wait().
SchedulerGoes ==
    \/ sched \in {"query", "wait"}
    \/ sched = "send" /\ pending # {}
    \/ sched = "drain" /\ \A w \in Workers : pc[w] = "stopped"

\* A worker waits for a job only, and only while the channel is open; the
\* scheduler waits for workers only, and when it does all those that have not
\* stopped can go on.  A full channel blocks nobody.
NobodyStuck ==
    /\ \A w \in Workers : Running =>
          WorkerGoes(w) \/ pc[w] = "stopped" \/ (pc[w] = "idle" /\ jobs = <<>> /\ ~Closed)
    /\ Running => SchedulerGoes \/ (sched = "drain" /\ \E w \in Workers : WorkerGoes(w))

\* The most steps worker w can make before it needs another job; a response
\* has as many listings as there are, at most, and each takes three.
StepsLeft(w) ==
    CASE pc[w] = "stopped" -> 0
      [] pc[w] = "idle" -> 1
      [] pc[w] = "search" -> 3 * Cardinality(Items) + 2
      [] pc[w] = "exists" -> 3 * Cardinality(todo[w]) + 1
      [] pc[w] = "save" -> 3 * Cardinality(todo[w])
      [] OTHER -> 3 * Cardinality(todo[w]) - 1

\* After close(jobs) the work only gets less: whatever touches the channel or a
\* worker shortens the channel, or brings one worker nearer to its end without
\* touching the others.  With NobodyStuck, a drain takes finitely many steps.
DrainCountsDown ==
    sched = "drain" /\ sched' = "drain" =>
        \/ UNCHANGED <<jobs, pc, todo>>
        \/ \E w \in Workers :
              /\ \A v \in Workers \ {w} : pc'[v] = pc[v] /\ todo'[v] = todo[v]
              /\ \/ Len(jobs') < Len(jobs)
                 \/ jobs' = jobs /\ StepsLeft(w)' < StepsLeft(w) /\ StepsLeft(w) \in Nat

\* The workers that are past Exists with listing i.
Racers(i) == {w \in Workers : Holds(w, i)}

\* Once a listing is on record no further worker starts to process it: copies
\* of it come from the workers that had passed Exists before it was saved,
\* and from nobody else while the record lives.
OnlyRacersDuplicate == \A i \in dedup : i \in dedup' => Racers(i)' \subseteq Racers(i)

LEMMA TodoFinite ==
  ASSUME TypeOK, NEW w \in Workers
  PROVE  /\ IsFiniteSet(todo[w]) /\ Cardinality(todo[w]) \in Nat
         /\ Cardinality(Items) \in Nat /\ Cardinality(todo[w]) <= Cardinality(Items)
  <1>1. todo[w] \subseteq Items /\ IsFiniteSet(Items)
    BY ScraperAssumption DEF ScraperAssumption, TypeOK
  <1>2. QED
    BY <1>1, FS_Subset, FS_CardinalityType

LEMMA NobodyIsStuck == TypeOK /\ Busy /\ IInv => NobodyStuck
  <1> SUFFICES ASSUME TypeOK, Busy, IInv, Running PROVE NobodyStuck
    BY DEF NobodyStuck
  <1>1. ASSUME NEW w \in Workers
        PROVE  WorkerGoes(w) \/ pc[w] = "stopped" \/ (pc[w] = "idle" /\ jobs = <<>> /\ ~Closed)
    <2>1. CASE pc[w] \in {"exists", "save", "publish"}
      <3>1. todo[w] \in SUBSET Nat /\ IsFiniteSet(todo[w]) /\ todo[w] # {} /\ todo[w] \subseteq Items
        BY <2>1, TodoFinite, ScraperAssumption DEF ScraperAssumption, TypeOK, Busy
      <3>2. PICK i \in todo[w] : \A j \in todo[w] : j <= i
        BY <3>1, GreatestNumber
      <3>3. QED
        BY <2>1, <3>1, <3>2 DEF WorkerGoes, Current
    <2>2. CASE pc[w] \in {"idle", "search", "stopped"}
      BY <2>2 DEF WorkerGoes
    <2>3. QED
      BY <2>1, <2>2 DEF TypeOK
  <1>2. SchedulerGoes \/ (sched = "drain" /\ \E w \in Workers : WorkerGoes(w))
    <2>1. CASE sched \in {"query", "send", "wait"}
      BY <2>1 DEF SchedulerGoes, Busy
    <2>2. CASE sched = "drain"
      BY <1>1, <2>2 DEF SchedulerGoes, Closed
    <2>3. QED
      BY <2>1, <2>2 DEF Running
  <1>3. QED
    BY <1>1, <1>2 DEF NobodyStuck

\* The next listing, or the end of the response.
LEMMA NextItemCounts ==
  ASSUME TypeOK, NEW w \in Workers, NEW i \in Items, Current(w, i), NextItem(w, i),
         pc[w] \in {"exists", "save", "publish"}
  PROVE  /\ StepsLeft(w)' < StepsLeft(w) /\ StepsLeft(w) \in Nat
         /\ \A v \in Workers \ {w} : pc'[v] = pc[v] /\ todo'[v] = todo[v]
  <1>1. i \in todo[w] /\ todo'[w] = todo[w] \ {i}
    BY DEF NextItem, Current, TypeOK
  <1>2. Cardinality(todo'[w]) = Cardinality(todo[w]) - 1 /\ Cardinality(todo'[w]) \in Nat
        /\ Cardinality(todo[w]) \in Nat
    <2>1. IsFiniteSet(todo'[w])
      BY <1>1, TodoFinite, FS_RemoveElement
    <2>2. QED
      BY <1>1, <2>1, TodoFinite, FS_RemoveElement, FS_CardinalityType
  <1>3. pc'[w] \in {"idle", "exists"}
    BY DEF NextItem, TypeOK
  <1>4. CASE pc'[w] = "idle"
    <2>1. StepsLeft(w)' = 1
      BY <1>4 DEF StepsLeft
    <2>2. StepsLeft(w) >= 2 /\ StepsLeft(w) \in Nat
      BY <1>2 DEF StepsLeft
    <2>3. QED
      BY <2>1, <2>2 DEF NextItem, TypeOK
  <1>5. CASE pc'[w] = "exists"
    <2>1. StepsLeft(w)' = 3 * Cardinality(todo'[w]) + 1
      BY <1>5 DEF StepsLeft
    <2>2. StepsLeft(w) >= 3 * Cardinality(todo[w]) - 1 /\ StepsLeft(w) \in Nat
      BY <1>2 DEF StepsLeft
    <2>3. QED
      BY <1>2, <2>1, <2>2 DEF NextItem, TypeOK
  <1>6. QED
    BY <1>3, <1>4, <1>5

LEMMA DrainingCountsDown == TypeOK /\ TypeOK' /\ Busy /\ [Next]_vars => [DrainCountsDown]_vars
  <1> SUFFICES ASSUME TypeOK, TypeOK', Busy, Next, sched = "drain", sched' = "drain"
               PROVE  \/ UNCHANGED <<jobs, pc, todo>>
                      \/ \E w \in Workers :
                            /\ \A v \in Workers \ {w} : pc'[v] = pc[v] /\ todo'[v] = todo[v]
                            /\ \/ Len(jobs') < Len(jobs)
                               \/ jobs' = jobs /\ StepsLeft(w)' < StepsLeft(w) /\ StepsLeft(w) \in Nat
    BY DEF DrainCountsDown
  <1> USE DEF scheduler, workers
  <1>1. ASSUME NEW w \in Workers, WorkerStep(w)
        PROVE  /\ \A v \in Workers \ {w} : pc'[v] = pc[v] /\ todo'[v] = todo[v]
               /\ \/ Len(jobs') < Len(jobs)
                  \/ jobs' = jobs /\ StepsLeft(w)' < StepsLeft(w) /\ StepsLeft(w) \in Nat
    <2>1. CASE Receive(w)
      <3>1. Len(Tail(jobs)) < Len(jobs)
        BY <2>1 DEF Receive, TypeOK
      <3>2. QED
        BY <2>1, <3>1 DEF Receive, TypeOK
    <2>2. CASE WorkerExit(w)
      BY <2>2 DEF WorkerExit, TypeOK, StepsLeft
    <2>3. CASE Search(w)
      <3>1. /\ pc[w] = "search" /\ pc'[w] \in {"idle", "exists"} /\ jobs' = jobs
            /\ \A v \in Workers \ {w} : pc'[v] = pc[v] /\ todo'[v] = todo[v]
        BY <2>3 DEF Search, TypeOK
      <3>2. Cardinality(todo'[w]) <= Cardinality(Items) /\ Cardinality(todo'[w]) \in Nat /\ Cardinality(Items) \in Nat
        <4>1. todo'[w] \subseteq Items /\ IsFiniteSet(Items)
          BY ScraperAssumption DEF ScraperAssumption, TypeOK
        <4>2. QED
          BY <4>1, FS_Subset, FS_CardinalityType
      <3>3. StepsLeft(w)' \in {1, 3 * Cardinality(todo'[w]) + 1} /\ StepsLeft(w) = 3 * Cardinality(Items) + 2
        BY <3>1 DEF StepsLeft
      <3>4. QED
        BY <3>1, <3>2, <3>3
    <2>4. ASSUME NEW i \in Items, Exists(w, i) \/ Save(w, i) \/ Publish(w, i), ~NextItem(w, i)
          PROVE  /\ \A v \in Workers \ {w} : pc'[v] = pc[v] /\ todo'[v] = todo[v]
                 /\ jobs' = jobs /\ StepsLeft(w)' < StepsLeft(w) /\ StepsLeft(w) \in Nat
      <3>1. /\ UNCHANGED <<todo, jobs>> /\ \A v \in Workers \ {w} : pc'[v] = pc[v]
            /\ (pc[w] = "exists" /\ pc'[w] = "save") \/ (pc[w] = "save" /\ pc'[w] = "publish")
            /\ todo[w] # {}
        BY <2>4 DEF Exists, Save, Publish, Current, TypeOK
      <3>2. Cardinality(todo[w]) \in Nat /\ Cardinality(todo[w]) # 0
        BY <3>1, TodoFinite, FS_EmptySet
      <3>3. QED
        BY <3>1, <3>2 DEF StepsLeft
    <2>5. ASSUME NEW i \in Items, Exists(w, i) \/ Save(w, i) \/ Publish(w, i), NextItem(w, i)
          PROVE  /\ \A v \in Workers \ {w} : pc'[v] = pc[v] /\ todo'[v] = todo[v]
                 /\ jobs' = jobs /\ StepsLeft(w)' < StepsLeft(w) /\ StepsLeft(w) \in Nat
      BY <2>5, NextItemCounts DEF Exists, Save, Publish
    <2>6. QED
      BY <1>1, <2>1, <2>2, <2>3, <2>4, <2>5 DEF WorkerStep
  <1>2. ASSUME NEW k \in Keywords, SearchesChange(k) \/ OfferJob(k) PROVE UNCHANGED <<jobs, pc, todo>>
    BY <1>2 DEF SearchesChange, OfferJob
  <1>3. ASSUME NEW i \in Items, ListingsChange(i) \/ Age(i) PROVE UNCHANGED <<jobs, pc, todo>>
    BY <1>3 DEF ListingsChange, Age
  <1>4. CASE GetActiveKeywords \/ AbandonDispatch \/ Tick \/ CloseJobs \/ Stop
    BY <1>4 DEF GetActiveKeywords, AbandonDispatch, Tick, CloseJobs, Stop
  <1>5. CASE DeleteOlderThan \/ Sigterm \/ Kill \/ Restart
    BY <1>5 DEF DeleteOlderThan, Sigterm, Kill, Restart, FreshProcess
  <1>6. QED
    BY <1>1, <1>2, <1>3, <1>4, <1>5 DEF Next, Dispatch

LEMMA RacersOnly == TypeOK /\ [Next]_vars => [OnlyRacersDuplicate]_vars
  <1> SUFFICES ASSUME TypeOK, Next, NEW i \in dedup, i \in dedup', NEW w \in Workers, Holds(w, i)'
               PROVE  Holds(w, i)
    BY DEF OnlyRacersDuplicate, Racers
  <1> USE DEF scheduler, workers, table
  <1>1. CASE pc'[w] = pc[w] /\ todo'[w] = todo[w]
    BY <1>1 DEF Holds, Current
  <1>2. ASSUME NEW v \in Workers, WorkerStep(v) PROVE Holds(w, i)
    <2>1. CASE v # w
      BY <1>1, <1>2, <2>1
         DEF WorkerStep, Receive, WorkerExit, Search, Exists, Save, Publish, NextItem, TypeOK
    <2>2. CASE v = w
      <3>1. PICK j \in Items : Exists(w, j) \/ Save(w, j) \/ Publish(w, j)
        BY <1>2, <2>2 DEF WorkerStep, Receive, WorkerExit, Search, Holds, TypeOK
      <3>2. ~NextItem(w, j)
        BY DEF NextItem, Holds, TypeOK
      <3>3. UNCHANGED todo /\ Current(w, j)
        BY <3>1, <3>2 DEF Exists, Save, Publish
      <3>4. i = j
        BY <3>3, CurrentIsOne DEF Holds, Current, TypeOK
      <3>5. ~Exists(w, j)
        BY <3>2, <3>4 DEF Exists
      <3>6. QED
        BY <3>1, <3>2, <3>3, <3>4, <3>5 DEF Save, Publish, Holds
    <2>3. QED
      BY <2>1, <2>2
  <1>3. ASSUME NEW k \in Keywords, SearchesChange(k) \/ OfferJob(k) PROVE Holds(w, i)
    BY <1>1, <1>3 DEF SearchesChange, OfferJob
  <1>4. ASSUME NEW j \in Items, ListingsChange(j) \/ Age(j) PROVE Holds(w, i)
    BY <1>1, <1>4 DEF ListingsChange, Age
  <1>5. CASE GetActiveKeywords \/ AbandonDispatch \/ Tick \/ CloseJobs \/ Stop
    BY <1>1, <1>5 DEF GetActiveKeywords, AbandonDispatch, Tick, CloseJobs, Stop
  <1>6. CASE DeleteOlderThan \/ Sigterm
    BY <1>1, <1>6 DEF DeleteOlderThan, Sigterm
  <1>7. CASE Kill \/ Restart
    BY <1>7 DEF Kill, Restart, FreshProcess, Holds
  <1>8. QED
    BY <1>2, <1>3, <1>4, <1>5, <1>6, <1>7 DEF Next, Dispatch

----------------------------------------------------------------------------
(* What follows from the invariant.                                        *)

\* No worker sends a listing twice while the row of the listing lives,
\* whatever fails and whenever the process is stopped or killed.
THEOREM AtMostOncePerWorkerAlways == Spec => []AtMostOncePerWorker
<1>1. IInv => AtMostOncePerWorker
  BY DEF IInv, Sending, SendingOf, AtMostOncePerWorker
<1>2. QED
  BY <1>1, Invariance, PTL

\* Whatever the bot was sent is on record: Save before Publish.
THEOREM SentIsRecordedAlways == Spec => []SentIsRecorded
<1>1. IInv => SentIsRecorded
  BY DEF IInv, Sending, SendingOf, SentIsRecorded
<1>2. QED
  BY <1>1, Invariance, PTL

\* A listing on record that will never be sent was given up for a cause: a
\* failed or unanswered call, or a kill; a graceful stop is not a cause.
THEOREM SilentLossHasCauseAlways == Spec => []SilentLossHasCause
<1>1. IInv => SilentLossHasCause
  BY DEF IInv
<1>2. QED
  BY <1>1, Invariance, PTL

\* A process that stopped by itself had emptied its channel and finished
\* every response.
THEOREM DrainedBeforeStopAlways == Spec => []DrainedBeforeStop
<1>1. IInv => DrainedBeforeStop
  BY DEF IInv, Idling, Ending, DrainedBeforeStop
<1>2. QED
  BY <1>1, Invariance, PTL

\* No goroutine waits for ever on another: the channel, wg.Wait() and the loops
\* of dispatchJobs and processSearch always leave somebody a step.
THEOREM NobodyStuckAlways == Spec => []NobodyStuck
<1>1. TypeOK /\ Busy /\ IInv => NobodyStuck
  BY NobodyIsStuck
<1>2. QED
  BY <1>1, TypeCorrect, BusyInvariance, Invariance, PTL

\* The drain after a SIGTERM takes a bounded number of steps, however many
\* workers, queued jobs and listings there are and whatever fails.
THEOREM DrainCountsDownAlways == Spec => [][DrainCountsDown]_vars
<1>1. TypeOK /\ TypeOK' /\ Busy /\ [Next]_vars => [DrainCountsDown]_vars
  BY DrainingCountsDown
<1>2. QED
  BY <1>1, TypeCorrect, BusyInvariance, PTL DEF Spec

\* The duplicates that Scraper_duplicate finds come from that race and from
\* nothing else.
THEOREM OnlyRacersDuplicateAlways == Spec => [][OnlyRacersDuplicate]_vars
<1>1. TypeOK /\ [Next]_vars => [OnlyRacersDuplicate]_vars
  BY RacersOnly
<1>2. QED
  BY <1>1, TypeCorrect, PTL DEF Spec

\* The scraper implements the ledger: its steps record a listing, send it
\* for the first time, forget expired records, or change nothing of these.
THEOREM ImplementsLedger == Spec => LedgerSpec
<1>1. Init => L!Init
  BY DEF Init, L!Init
<1>2. IInv /\ [Next]_vars => [L!Next]_<<dedup, published>>
  <2> SUFFICES ASSUME IInv, [Next]_vars PROVE [L!Next]_<<dedup, published>>
    OBVIOUS
  <2> USE DEF table, history
  <2>1. ASSUME NEW w \in Workers, NEW i \in Items, Save(w, i)
        PROVE  L!Record(i) \/ UNCHANGED <<dedup, published>>
    BY <2>1 DEF Save, InsertId, L!Record
  <2>2. ASSUME NEW w \in Workers, NEW i \in Items, Publish(w, i)
        PROVE  L!Send(w, i) \/ UNCHANGED <<dedup, published>>
    <3>1. published[w][i] = 0 /\ i \in dedup
      BY <2>2 DEF Publish, IInv, Sending, SendingOf, Holds
    <3>2. published' = [published EXCEPT ![w][i] = 1] \/ published' = published
      BY <2>2, <3>1 DEF Publish
    <3>3. QED
      BY <2>2, <3>1, <3>2 DEF Publish, L!Send
  <2>3. CASE DeleteOlderThan
    BY <2>3 DEF DeleteOlderThan, L!Forget, L!Next
  <2>4. CASE UNCHANGED <<dedup, published>>
    BY <2>4
  <2>5. UNCHANGED <<dedup, published>> \/ DeleteOlderThan
        \/ \E w \in Workers, i \in Items : Save(w, i) \/ Publish(w, i)
    BY DEF Next, Dispatch, WorkerStep, vars, SearchesChange, ListingsChange, GetActiveKeywords,
           OfferJob, AbandonDispatch, Tick, CloseJobs, Stop, Receive, WorkerExit, Search,
           Exists, Age, Sigterm, Kill, Restart, FreshProcess
  <2>6. QED
    BY <2>1, <2>2, <2>3, <2>4, <2>5 DEF L!Next
<1>3. QED
  BY <1>1, <1>2, Invariance, PTL DEF Spec, LedgerSpec, L!Spec
============================================================================
