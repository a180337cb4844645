------------------------------ MODULE Scraper ------------------------------
(***************************************************************************)
(* The Mercari scraper (scrapers/mercari): one process in which            *)
(*   - the scheduler (Scraper.Start, dispatchJobs) reads the active        *)
(*     keywords on every tick and offers them to a bounded channel without *)
(*     ever blocking,                                                      *)
(*   - the workers (worker, processSearch) take keywords from the channel, *)
(*     search Mercari and pass every listing through the table             *)
(*     mercari_parsed_items: Exists, then Save, then Publish,              *)
(*   - cleanupLoop deletes the rows that outlived the retention.           *)
(* The process may be told to stop (SIGTERM), be killed and be started     *)
(* again; the table outlives it.                                           *)
(*                                                                         *)
(* Time is left out: a tick, a jitter, a timeout or the end of a row's     *)
(* retention may come at any moment.  A worker that sleeps its jitter is   *)
(* an idle worker.  The publisher is used through what it promises (see    *)
(* PublishContract): a call either returns nil or an error, an error means *)
(* that the broker has no copy, nil only that the client wrote one.        *)
(***************************************************************************)
EXTENDS Naturals, Sequences, FiniteSets

CONSTANTS
    Workers,    \* the worker goroutines (numWorkers)
    Keywords,   \* the lower-cased keywords that searches may have
    NoKeyword,  \* a worker that is not searching
    Items,      \* Mercari listings, numbered in the order of their creation
    Hits,       \* Hits[k]: the listings whose search by k finds them
    BadPrice,   \* the listings whose price does not parse
    Capacity,   \* buffer of the jobs channel (100 in the code)
    PageSize,   \* listings per response (10 in the code)
    Faults,     \* the kinds of failure that may happen, see FaultKinds
    MaxStops    \* bound: SIGTERMs and kills in one behaviour

FaultKinds == {"keywords", "search", "exists", "save", "savedUnseen",
               "publish", "publishUnseen"}

ASSUME ScraperAssumption ==
    /\ Workers # {}
    /\ Items \subseteq Nat /\ IsFiniteSet(Items)
    /\ Hits \in [Keywords -> SUBSET Items]
    /\ NoKeyword \notin Keywords
    /\ Capacity \in Nat
    /\ MaxStops \in Nat

VARIABLES
    searches,   \* keywords of the active rows of table searches (the bot's)
    listed,     \* listings on sale at Mercari
    dedup,      \* ids in mercari_parsed_items
    aged,       \* the ids among them whose row is past dedupRetentionDays
    sched,      \* where the scheduler goroutine is
    pending,    \* keywords dispatchJobs has still to offer
    cancelled,  \* ctx is done: SIGTERM has arrived
    jobs,       \* the channel
    pc,         \* where each worker is
    kw,         \* the keyword each worker is searching
    todo,       \* what is left of each worker's response, current one included
    stops,      \* SIGTERMs and kills so far
    published,  \* history: published[w][i], copies of i worker w has sent
                \*   since the row of i was created
    lost        \* history: ids whose message was given up, with a cause

market == <<searches, listed>>
table == <<dedup, aged>>
scheduler == <<sched, pending, cancelled>>
workers == <<pc, kw, todo>>
history == <<published, lost>>
vars == <<market, table, scheduler, jobs, workers, stops, history>>

Running == sched \in {"query", "send", "wait", "drain"}

\* Variant: close(jobs) is forgotten.
NeverClosed == FALSE

\* close(jobs) has been called.
Closed == sched \in {"drain", "stopped"}

Init ==
    /\ searches \in SUBSET Keywords
    /\ listed \in SUBSET Items
    /\ dedup = {} /\ aged = {}
    /\ sched = "query" /\ pending = {} /\ cancelled = FALSE /\ jobs = <<>>
    /\ pc = [w \in Workers |-> "idle"]
    /\ kw = [w \in Workers |-> NoKeyword]
    /\ todo = [w \in Workers |-> {}]
    /\ stops = 0
    /\ published = [w \in Workers |-> [i \in Items |-> 0]]
    /\ lost = {}

----------------------------------------------------------------------------
(* What happens around the process.                                        *)

\* A user's search for k is added, restored or removed through the bot.
SearchesChange(k) ==
    /\ searches' = IF k \in searches THEN searches \ {k} ELSE searches \cup {k}
    /\ UNCHANGED <<listed, table, scheduler, jobs, workers, stops, history>>

\* Listing i goes on sale, or is sold.
ListingsChange(i) ==
    /\ listed' = IF i \in listed THEN listed \ {i} ELSE listed \cup {i}
    /\ UNCHANGED <<searches, table, scheduler, jobs, workers, stops, history>>

----------------------------------------------------------------------------
(* Start and dispatchJobs: the scheduler goroutine.                        *)

\* The rows come one by one, in an order the query does not fix.
NextRow(k) == k \in pending

\* repo.GetActiveKeywords(ctx); with a cancelled ctx it can only fail.
GetActiveKeywords ==
    /\ sched = "query"
    /\ \/ /\ ~cancelled
          /\ pending' = searches
          /\ sched' = IF searches = {} THEN "wait" ELSE "send"
       \/ /\ cancelled \/ "keywords" \in Faults
          /\ sched' = "wait"
          /\ UNCHANGED pending
    /\ UNCHANGED <<market, table, cancelled, jobs, workers, stops, history>>

\* Variant: a send that does not look at the buffer.
RoomAlways == TRUE

RoomForJob == Len(jobs) < Capacity

\* The select of dispatchJobs: send k, or drop it when the channel is full.
\* The default branch is taken only if neither other branch is ready.
OfferJob(k) ==
    /\ sched = "send" /\ NextRow(k)
    /\ \/ RoomForJob /\ jobs' = Append(jobs, k)
       \/ ~RoomForJob /\ ~cancelled /\ UNCHANGED jobs
    /\ pending' = pending \ {k}
    /\ sched' = IF pending = {k} THEN "wait" ELSE "send"
    /\ UNCHANGED <<market, table, cancelled, workers, stops, history>>

\* case <-ctx.Done() of the same select.
AbandonDispatch ==
    /\ sched = "send" /\ cancelled
    /\ pending' = {} /\ sched' = "wait"
    /\ UNCHANGED <<market, table, cancelled, jobs, workers, stops, history>>

\* case <-ticker.C of Start; the next dispatch.
Tick ==
    /\ sched = "wait" /\ sched' = "query"
    /\ UNCHANGED <<market, table, pending, cancelled, jobs, workers, stops, history>>

\* case <-ctx.Done() of Start: close(jobs), then wg.Wait().
CloseJobs ==
    /\ sched = "wait" /\ cancelled /\ sched' = "drain"
    /\ UNCHANGED <<market, table, pending, cancelled, jobs, workers, stops, history>>

\* wg.Wait() returns and run() ends.
Stop ==
    /\ sched = "drain" /\ \A w \in Workers : pc[w] = "stopped"
    /\ sched' = "stopped"
    /\ UNCHANGED <<market, table, pending, cancelled, jobs, workers, stops, history>>

----------------------------------------------------------------------------
(* worker and processSearch.                                               *)

\* Variant: the youngest job first.
ReceiveYoungest(w) ==
    /\ pc[w] = "idle" /\ jobs # <<>>
    /\ kw' = [kw EXCEPT ![w] = jobs[Len(jobs)]]
    /\ jobs' = SubSeq(jobs, 1, Len(jobs) - 1)
    /\ pc' = [pc EXCEPT ![w] = "search"]
    /\ UNCHANGED <<market, table, scheduler, todo, stops, history>>

\* for keyword := range jobs
Receive(w) ==
    /\ pc[w] = "idle" /\ jobs # <<>>
    /\ kw' = [kw EXCEPT ![w] = Head(jobs)] /\ jobs' = Tail(jobs)
    /\ pc' = [pc EXCEPT ![w] = "search"]
    /\ UNCHANGED <<market, table, scheduler, todo, stops, history>>

\* Variant: a worker that leaves its loop as soon as the channel is closed.
WorkerExitAtClose(w) ==
    /\ pc[w] = "idle" /\ Closed
    /\ pc' = [pc EXCEPT ![w] = "stopped"]
    /\ UNCHANGED <<market, table, scheduler, jobs, kw, todo, stops, history>>

\* Variant: a worker whose ctx is the scheduler's and that gives up with it.
WorkerExitAtCancel(w) ==
    /\ pc[w] # "stopped" /\ cancelled
    /\ pc' = [pc EXCEPT ![w] = "stopped"]
    /\ UNCHANGED <<market, table, scheduler, jobs, kw, todo, stops, history>>

\* The range ends once the channel is closed and empty; wg.Done().
WorkerExit(w) ==
    /\ pc[w] = "idle" /\ Closed /\ jobs = <<>>
    /\ pc' = [pc EXCEPT ![w] = "stopped"]
    /\ UNCHANGED <<market, table, scheduler, jobs, kw, todo, stops, history>>

\* The newest PageSize listings on sale; those without a price are dropped.
SearchItems(k) ==
    LET found == Hits[k] \cap listed
    IN  {i \in found : Cardinality({j \in found : j > i}) < PageSize} \ BadPrice

\* Variant: a worker that ends with a search that found nothing.
SearchOrEnd(w) ==
    /\ pc[w] = "search"
    /\ todo' = [todo EXCEPT ![w] = SearchItems(kw[w])]
    /\ pc' = [pc EXCEPT ![w] = IF todo'[w] = {} THEN "stopped" ELSE "exists"]
    /\ kw' = [kw EXCEPT ![w] = NoKeyword]
    /\ UNCHANGED <<market, table, scheduler, jobs, stops, history>>

\* gateway.SearchItems succeeds, or fails (429, 403, 5xx, network): in both
\* cases the worker is back in its loop when there is nothing to process.
Search(w) ==
    /\ pc[w] = "search"
    /\ \/ todo' = [todo EXCEPT ![w] = SearchItems(kw[w])]
       \/ "search" \in Faults /\ UNCHANGED todo
    /\ pc' = [pc EXCEPT ![w] = IF todo'[w] = {} THEN "idle" ELSE "exists"]
    /\ kw' = [kw EXCEPT ![w] = NoKeyword]
    /\ UNCHANGED <<market, table, scheduler, jobs, stops, history>>

\* A response is processed newest listing first.
Current(w, i) == i \in todo[w] /\ \A j \in todo[w] : j <= i

\* continue, or the end of the loop body: on to the next listing.
NextItem(w, i) ==
    /\ todo' = [todo EXCEPT ![w] = @ \ {i}]
    /\ pc' = [pc EXCEPT ![w] = IF todo[w] = {i} THEN "idle" ELSE "exists"]

\* repo.Exists: seen before, a database error, or new.
Exists(w, i) ==
    /\ pc[w] = "exists" /\ Current(w, i)
    /\ \/ /\ i \in dedup \/ "exists" \in Faults
          /\ NextItem(w, i)
       \/ /\ i \notin dedup
          /\ pc' = [pc EXCEPT ![w] = "save"]
          /\ UNCHANGED todo
    /\ UNCHANGED <<market, table, scheduler, jobs, kw, stops, history>>

\* Variant: the row is not committed.
InsertNothing(i) == dedup

\* INSERT ... ON CONFLICT DO NOTHING: no error if another worker was first.
InsertId(i) == dedup \cup {i}

\* Variant: the error of Save is logged, and the listing sent all the same.
SaveOrNot(w, i) ==
    /\ pc[w] = "save" /\ Current(w, i)
    /\ \/ dedup' = InsertId(i)
       \/ "save" \in Faults /\ UNCHANGED dedup
    /\ pc' = [pc EXCEPT ![w] = "publish"]
    /\ UNCHANGED <<market, aged, scheduler, jobs, kw, todo, stops, history>>

\* repo.Save: the row is there; or an error and no row; or the row is there
\* but the answer did not arrive, and the listing is skipped for good.
Save(w, i) ==
    /\ pc[w] = "save" /\ Current(w, i)
    /\ \/ /\ dedup' = InsertId(i)
          /\ pc' = [pc EXCEPT ![w] = "publish"]
          /\ UNCHANGED <<todo, lost>>
       \/ /\ "save" \in Faults
          /\ NextItem(w, i)
          /\ UNCHANGED <<dedup, lost>>
       \/ /\ "savedUnseen" \in Faults
          /\ dedup' = InsertId(i)
          /\ lost' = lost \cup {i}
          /\ NextItem(w, i)
    /\ UNCHANGED <<market, aged, scheduler, jobs, kw, stops, published>>

\* publisher.Publish: the broker has the message; or the call gave up; or it
\* returned nil although the message died with its connection.
Publish(w, i) ==
    /\ pc[w] = "publish" /\ Current(w, i)
    /\ \/ published' = [published EXCEPT ![w][i] = @ + 1] /\ UNCHANGED lost
       \/ /\ "publish" \in Faults \/ "publishUnseen" \in Faults
          /\ lost' = lost \cup {i}
          /\ UNCHANGED published
    /\ NextItem(w, i)
    /\ UNCHANGED <<market, table, scheduler, jobs, kw, stops>>

----------------------------------------------------------------------------
(* cleanupLoop.                                                            *)

\* Worker w is between Exists and the end of Publish with listing i.
Holds(w, i) == pc[w] \in {"save", "publish"} /\ Current(w, i)

\* The listings that a worker has saved and is about to send.
HalfDone == {i \in Items : \E w \in Workers : pc[w] = "publish" /\ Current(w, i)}

\* The row of i outlives its retention.  A worker holds a listing for seconds
\* or minutes, a retention is thirty days: no worker still holds i.
Age(i) ==
    /\ i \in dedup \ aged /\ \A w \in Workers : ~Holds(w, i)
    /\ aged' = aged \cup {i}
    /\ UNCHANGED <<market, dedup, scheduler, jobs, workers, stops, history>>

\* Variant: a DELETE without its WHERE.
EveryRow == dedup

\* DELETE ... WHERE created_at < NOW() - retention, in one statement.
Expired == aged

DeleteOlderThan ==
    /\ Running /\ ~cancelled /\ aged # {}
    /\ dedup' = dedup \ Expired /\ aged' = {}
    /\ published' = [w \in Workers |->
           [i \in Items |-> IF i \in dedup' THEN published[w][i] ELSE 0]]
    /\ lost' = lost \cap dedup'
    /\ UNCHANGED <<market, scheduler, jobs, workers, stops>>

----------------------------------------------------------------------------
(* The process: SIGTERM, kill, restart.                                    *)

\* signal.NotifyContext cancels ctx.
Sigterm ==
    /\ Running /\ ~cancelled /\ stops < MaxStops
    /\ cancelled' = TRUE /\ stops' = stops + 1
    /\ UNCHANGED <<market, table, sched, pending, jobs, workers, history>>

\* Everything the process kept in memory is gone or as main() creates it.
FreshProcess(where) ==
    /\ sched' = where /\ pending' = {} /\ cancelled' = FALSE /\ jobs' = <<>>
    /\ pc' = [w \in Workers |-> "idle"]
    /\ kw' = [w \in Workers |-> NoKeyword]
    /\ todo' = [w \in Workers |-> {}]
    /\ UNCHANGED <<market, table, published>>

\* SIGKILL, panic, power: what a worker had saved but not sent is lost.
Kill ==
    /\ Running /\ stops < MaxStops
    /\ FreshProcess("dead")
    /\ stops' = stops + 1
    /\ lost' = lost \cup HalfDone

\* The container starts again; NewRepository keeps an existing table.
Restart ==
    /\ sched \in {"stopped", "dead"}
    /\ FreshProcess("query")
    /\ UNCHANGED <<stops, lost>>

----------------------------------------------------------------------------
WorkerStep(w) ==
    \/ Receive(w) \/ WorkerExit(w) \/ Search(w)
    \/ \E i \in Items : Exists(w, i) \/ Save(w, i) \/ Publish(w, i)

Dispatch == GetActiveKeywords \/ AbandonDispatch \/ \E k \in Keywords : OfferJob(k)

Next ==
    \/ \E k \in Keywords : SearchesChange(k)
    \/ \E i \in Items : ListingsChange(i) \/ Age(i)
    \/ Dispatch \/ Tick \/ CloseJobs \/ Stop
    \/ \E w \in Workers : WorkerStep(w)
    \/ DeleteOlderThan \/ Sigterm \/ Kill \/ Restart

Spec == Init /\ [][Next]_vars

\* What the Go runtime and the ticker guarantee: every goroutine that can run
\* runs, and a select whose two branches stay ready takes each in turn (it
\* picks at random), so that a cancelled ctx is noticed between two ticks.
\* Nothing is assumed of users, sellers, failures, rows or restarts.
Fairness ==
    /\ WF_vars(Dispatch) /\ WF_vars(Tick) /\ SF_vars(CloseJobs) /\ WF_vars(Stop)
    /\ \A w \in Workers : WF_vars(WorkerStep(w))

LiveSpec == Spec /\ Fairness

----------------------------------------------------------------------------
(* Properties.                                                             *)

TypeOK ==
    /\ searches \in SUBSET Keywords
    /\ listed \in SUBSET Items
    /\ dedup \in SUBSET Items /\ aged \in SUBSET Items
    /\ sched \in {"query", "send", "wait", "drain", "stopped", "dead"}
    /\ pending \in SUBSET Keywords
    /\ cancelled \in BOOLEAN
    /\ jobs \in Seq(Keywords) /\ Len(jobs) <= Capacity
    /\ pc \in [Workers -> {"idle", "search", "exists", "save", "publish", "stopped"}]
    /\ kw \in [Workers -> Keywords \cup {NoKeyword}]
    /\ todo \in [Workers -> SUBSET Items]
    /\ stops \in 0..MaxStops
    /\ published \in [Workers -> [Items -> Nat]]
    /\ lost \in SUBSET Items

\* While the row of a listing lives, no worker sends the listing twice, not
\* after an error, a SIGTERM or a kill either: the bot may get at most one
\* copy per worker (processSearch, Exists and Save before Publish).
AtMostOncePerWorker == \A w \in Workers, i \in Items : published[w][i] <= 1

\* Save comes before Publish: what the bot was sent is in the table.
SentIsRecorded == \A w \in Workers, i \in Items : published[w][i] > 0 => i \in dedup

\* A recorded listing that nobody sent and nobody is about to send was lost
\* to a failure or a kill, never to the program's own control flow; in
\* particular a graceful stop loses nothing.
SilentLossHasCause ==
    \A i \in dedup \ (lost \cup HalfDone) : \E w \in Workers : published[w][i] > 0

\* "The workers eat up the remaining jobs" (Start): when the process has
\* stopped, the channel is empty and no worker has a response half done.
DrainedBeforeStop ==
    sched = "stopped" => jobs = <<>> /\ \A w \in Workers : todo[w] = {}

\* A SIGTERM ends the process, however many jobs are queued and whatever the
\* ticker does meanwhile.
ShutdownCompletes == cancelled ~> sched \in {"stopped", "dead"}

\* A keyword that got into the channel is searched, unless the process dies.
QueuedJobIsSearched ==
    \A k \in Keywords :
        (\E n \in DOMAIN jobs : jobs[n] = k)
            ~> (sched = "dead" \/ \E w \in Workers : pc[w] = "search" /\ kw[w] = k)

\* A listing that stays on the first page of the only active keyword is sent,
\* or lost to a failure after it was saved, unless the process stays down.
\* (With more keywords than places in the channel, those that come last may
\* find it full at every tick.)
ListingIsPublished ==
    \A k \in Keywords : \A i \in Items :
        []<>Running /\ <>[](searches = {k} /\ i \in SearchItems(k))
            => <>(i \in lost \/ \E w \in Workers : published[w][i] > 0)

\* A listing is sent to the bot at most once: the worst case of saving first
\* is a listing that is never sent, not a duplicate (scraper.go:181-184).
NoDuplicate ==
    \A i \in Items : \A w1, w2 \in Workers :
        published[w1][i] > 0 /\ published[w2][i] > 0 => w1 = w2

\* The scraper keeps the promise of an abstract ledger: a listing is recorded,
\* then each worker may send it once, until the record is forgotten.
L == INSTANCE Ledger WITH Senders <- Workers, known <- dedup, sent <- published
LedgerSpec == L!Spec
============================================================================
