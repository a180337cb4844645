# Marketplace Sniffer: TLA+ models, checks and proofs

This directory specifies the core of Marketplace Sniffer v2: the Go scraper of
Mercari (`scrapers/mercari`), the queue between the two programs, and the
Telegram bot (`bot/app`). Paths below are relative to the repository.

    tlc -config Scraper_safety.cfg MCScraper.tla     model-check one run
    tlapm Scraper_proofs.tla                         check the proofs of a module

`PROJECT.json` lists the components, runs, hazards, findings and theorems, for
every definition the lines of code it stands for, and for every property a
mutation of the model (a definition marked *Variant* in the modules) that the
property detects.

## The system

    users --> bot handlers --> searches, subscriptions, users (PostgreSQL)
                                  |                     |
                      active keywords            active searches
                                  v                     v
    Mercari --> scraper workers --> RabbitMQ --> bot consumer --> Telegram
                     |   ^
                  mercari_parsed_items (dedup)

| Component | State | Operations | What is hard | What makes it correct |
|---|---|---|---|---|
| Scraper use case `usecase/scraper.go` | jobs channel (100), worker goroutines, ctx | Start, dispatchJobs, worker, processSearch, cleanupLoop | several workers on one table; Exists, Save and Publish are three calls; full channel; SIGTERM or kill between any two steps | no worker repeats itself; losses have causes; a stop drains and ends; listings get through |
| Dedup repository `postgres/repository.go` | table `mercari_parsed_items` | Exists, Save (ON CONFLICT DO NOTHING), DeleteOlderThan, GetActiveKeywords | a row saved whose answer is lost; retention | what was sent is on record while its row lives |
| Mercari client `mercari/client.go` | DPoP key, HTTP client | SearchItems | ten listings per page, 429/403 | (environment) |
| RabbitMQ publisher `rabbitmq/publisher.go` | one connection and channel, a mutex | NewPublisher, connect, Publish, closeResources, Close | connection dies at any point; nested retries while other workers wait; no confirms | no connection leaks; at most one copy per call; every call returns |
| Bot consumer `services/rabbitmq.py` | iterator buffer, current message, semaphore, `_BLOCKED_USERS` | _consume_loop, _notify_one, reconnect, cancellation | manual ack, redelivery, stale channels, flood control, shutdown in the middle of a gather | every message settled; acked means tried; permits conserved |
| Search cache `_update_cache_loop` | `_ACTIVE_SEARCHES_CACHE` | refresh once a minute | failed refresh, empty cache at start, edits meanwhile | an active search misses nothing once loaded |
| Matcher `services/matcher.py`, `Search.matches_price` | none | find_matches_in_memory | word splitting, case, both ends of the range | agrees with a reference and with its unit tests |
| Search dialogue `handlers/search.py` | FSM state and data (memory), table `searches` | /add, keyword, prices, save, /cancel, delete | updates of one chat interleave at every await; limit checked long before the row is written; NULL prices in a unique constraint; rows as they were when the session began; commit after the answer | free limit, no search twice, valid ranges, what the user was told is watched is watched |
| Premium `handlers/premium.py`, `services/premium_service.py`, `services/subscription_service.py` | table `subscriptions`, open invoices | /premium, pre-checkout, successful_payment, expiry | several invoices open; overlapping subscriptions; rollback after payment; dropped updates | paid days add up |
| Session middleware, users, error handler `db/middleware.py`, `db/session.py`, `services/user_service.py`, `handlers/errors.py` | connection pool, table `users`, one transaction per update | load or insert the user, recompute is_premium, commit or roll back, report | a connection is kept while Telegram is called; row locks, in an order that is not always the same; two first updates of one user; overlapping writes of is_premium | no connection or lock leaks; no stale premium; every update ends |
| Menus, /start, /help, configuration, migrations, containers | none, or declarations | | | not modelled, see below |

The parts meet in three places: the bot writes `searches` and the scraper reads
its keywords; the scraper publishes messages and the bot consumes them; both
programs are stopped and restarted independently (`restart: always` in
`docker-compose.yml`).

## Modules

| Module | Models | Composed with |
|---|---|---|
| `Ledger` | abstract: a listing is recorded, then each sender may send it once, until the record is forgotten | |
| `Scraper` | scraper use case, dedup repository, process life cycle | implements `Ledger`: `known <- dedup, sent <- published` |
| `PublishContract` | abstract: at most one copy per call, none if the call returns an error | |
| `Publisher` | `publisher.go` statement by statement, and a broker that fails | implements `PublishContract`: `call <- CallState, queued <- copies` |
| `Consumption` | abstract: a message is taken against the copy of the searches, told at most once per delivery, acknowledged when everybody it matched was tried, otherwise given back; a stop costs one message | |
| `Notifier` | bot consumer, search cache, blocklist; RabbitMQ and Telegram as they are used | implements `Consumption`: `stock` is the set of messages of `held`, `told <- notified`, `copying <- (refresh = "assign")` |
| `Matcher` | operators: the words, platform and price rules | |
| `Pipeline` | from a listing to its alerts, and users who edit searches meanwhile | `Ledger` and `Consumption` side by side, with `Wanted` from `Matcher` |
| `SearchFlow` | dialogue and rows of one user, transactions | |
| `Sessions` | the life of an update: pool, locks, user, premium flag, commit, report | |
| `Premium` | invoices, payments and subscriptions | |
| `*_proofs` | theorems about `Scraper`, `Publisher`, `Notifier`, `Matcher`, `Pipeline`, `SearchFlow`, `Sessions`, `Premium` | |
| `MC*` | values of the constants for TLC; `MCPipeline` also the reference for `Matcher` | |

**Scraper.** `sched` is the program counter of `Start`/`dispatchJobs` (query,
send, wait, drain, stopped, dead); `pending` the rest of the keyword loop, in
any order; `jobs` the channel; `pc`, `kw`, `todo` the loop of each worker,
`todo` with the current listing included. `dedup` is the table; `aged` its rows
past the retention. `published` and `lost` are history and are reset when a row
expires. `Exists`, `Save` and `Publish` are one action each, because other
workers run between them; their branches are success, error, and for Save and
Publish an effect whose answer is lost. Tickers, jitters and timeouts may fire
at any time. A row does not expire while a worker holds its listing: a worker
holds it for at most minutes, rows live thirty days.

**Publisher.** `owner` is the mutex, `at`/`origin`/`attempt`/`dials` the
position of its holder in the nested loops. Connections are `alive`, `stale`
(peer gone, unnoticed) or `shut`. A write into a stale connection may return nil
or an error, into a shut one only an error. `NewPublisher` is the main goroutine
inside the same `connect`. After the dial, each of `SetupSteps` may fail: with its
connection, or by a refusal of the broker that closes the channel of a
connection that is fine; `CloseFresh(step)` is the error path of each.

**Notifier.** asyncio runs one step from await to await; `TakeUnmatched` and
`TakeMatched` are the steps that decode, match and start the tasks. Acquire,
Delivered, Forbidden, FloodControl and SendFails are `_notify_one`; waiting tasks
get a permit in any order. `live` says whether the channel of a delivery still
exists; the iterator yields what a lost channel has left first (`Yields`), and
settling one whose channel is gone raises, which closes iterator and connection
(`Settle`). `Shutdown` is `shutdown_handler`: the
cancelled `message.process()` rejects the message in hand. What a message
matched and who was excused is history, and is what `Consumption` speaks about.

**Matcher.** A text is a sequence over a small alphabet and `Lower` a table, so
that case, runs of spaces, repeated and overlapping words all occur. `Words` is
`lower().split()` as a set (`all()` asks for each word alike); `PriceMatches` is
`matches_price`, which the loop repeats.

**Pipeline.** Each pair of worker and listing is a message of its own: a copy.
The steps of the scraper are those of `Ledger`, plus `Lose` (a publish that
failed, a kill); those of the bot are of `Consumption`. `promised` are the pairs
of a search and a listing that was recorded while the search was active;
`AskedFor` says what the user asked for in words of its own, so that a wrong
rule in `Wanted` shows. `unseen` are the pairs taken before the bot's copy had
the search.

**SearchFlow.** Every update is a task; `pc` is the await it is at, `crit` and
`found` its locals. The middleware loads the user with all rows of `searches`
(`lazy="selectin"`), and SQLAlchemy does not refresh a loaded row when a later
query returns it: `loaded` has the flags as they were, `SeesActive` reads
`existing.is_active` from there, and an assignment that does not change the
loaded value writes nothing (`FindToDelete`). Only tasks that will save or stop
a search load; nobody else looks at the rows. The commit of the middleware is
the last step and may fail, which includes a keyword longer than its column. A
price that exceeds a 32-bit column (`TooLarge`) makes the query of
`_save_search` raise. Price buttons and the cancel button carry no state filter
and are enabled in every state. `watched` is history: the criteria, among those
observed (`Watched`), that the user was told are watched, by "created" or
"restored" whose commit met no fault or by "already exists", until a removal
button for them is pressed; `disturbed` are the tasks a removal overlapped, what
these say is not counted. `alone` says that no two tasks have been in process at
once, `limited` also that the user has never been premium.

**Sessions.** A task takes a connection at its first query (`Connect`) and
returns it with `Commit` or `Fail`. `lock` is the row lock PostgreSQL gives to
the transaction that has written the row (or inserted the telegram_id),
`sublock` that of the subscriptions it has set to EXPIRED; who needs one waits.
`LoadSubscriptions` and the flushes `Flush` (UPDATE users, which names only what
has changed) and `Expire` (UPDATE subscriptions, if some have run out) are
`get_or_create_user_in_session` and `refresh_premium_status`, `Handle` the
handler, `Activate` a payment, `Report` the error handler. `Activate` may write
the user's row after the subscriptions, against the order of the flushes: two
transactions may wait for each other, and PostgreSQL aborts one
(`DeadlockDetected`). The subscriptions of a user that have run out are one lock
and one flag (`lapsed`): two tasks that found different ones would not wait for
each other in the database, so the model waits more often, and `expires` keeps
track of whether a task has found all of them. `Watched` are the tasks observed
by the history variables and by EveryUpdateEnds; all tasks are alike.

**Premium.** A task sees the rows the middleware loaded (`sees`), and commits
one new row. `owed` is what payments add up to; `excused` names users who lost a
payment to a fault, to a restart with `drop_pending_updates`, or to paying
somebody else's invoice.

## Runs

Passing runs (each `TypeOK` is checked as well; in `Premium` it also bounds how
far subscriptions reach):

| Run | Shows | Bounds |
|---|---|---|
| `Scraper_safety` | AtMostOncePerWorker, SentIsRecorded, SilentLossHasCause, DrainedBeforeStop, and the refinement LedgerSpec, under every failure and one stop or kill | 2 workers, 1 keyword, 2 listings on one page, channel of 2, 1 stop |
| `Scraper_live` | ShutdownCompletes, QueuedJobIsSearched, ListingIsPublished | 2 workers, 2 keywords, 1 listing, channel of 2, failing publishes and saves, 1 stop |
| `Publisher_calls` | NoConnectionLeak, GivesUpOnlyAfterRetries, the refinement ContractSpec, EveryCallReturns | 2 callers, 2 connections, the code's 3 attempts and 7 dials |
| `Notifier_safety` | BrokerAndBotAgree, PermitsConserved, OncePerDelivery, WarmCacheMissesNothing, OneDeadLetterPerStop, and the refinement ConsumptionSpec (acknowledged means tried) | 2 messages, 2 users with a search each, prefetch 2, 1 permit, 2 breaks, stops or kills, one user who blocks the bot |
| `Notifier_live` | EveryMessageSettled, CacheFollowsDatabase | 2 messages, one invalid, 1 search that is edited, prefetch 1, 1 break |
| `Pipeline_delivery` | EveryAlertAccountedFor, AlertsPerCopy, EveryPromiseEnds; and, as assumptions TLC evaluates, the rules of `Matcher` against a reference and the cases of `bot/tests/test_matcher.py` | 2 workers (so 2 copies), 1 listing, 1 search that is stopped and restored, 1 break or stop; keywords of up to 4 and names of up to 3 characters out of 4 |
| `SearchFlow_safety` | ToldIsWatched and PriceRangeValid in every interleaving; LimitKeptWhenAlone and NoDuplicateWhenAlone as long as updates came one at a time | 2 updates at once (interchangeable: symmetry), 1 keyword, 1 minimum, 3 maxima (one below it, one too large for its column), limit 1, 2 rows; observed are a search with both prices, which the constraint covers, and one whose price fits no column |
| `Sessions_updates` | ConnectionsConserved, PremiumOnceCommitted, OnlyFirstUpdatesCollide, EveryUpdateEnds | 3 updates of 1 user, one of them observed, pool of 2, subscriptions that run out, failing handlers, commits and timeouts, restarts |
| `Premium_paid` | PaidTimeHonoured | 2 users, at most 2 invoices or payments of a user open, 3 payments, 6 days, duration 2, updates one at a time |

Why the bounds suffice: a race of the scraper is between two workers and one
listing; the second listing makes a page with a rest, the second place of the
channel makes order and drops possible, and one stop is followed by a restart
that meets the table the first life left. A publisher needs the owner of the
mutex, one that waits, and an old and a new connection. Two messages and one
permit make the consumer's tasks wait on each other and leave one message in
the iterator when the link breaks; two breaks allow a break after the recovery
from one. In the pipeline two copies of a listing meet one search that comes and
goes; a second listing or search would be independent of the first, since
nothing in `Ledger` and `Consumption` relates two of them but the break they
share. Two rows with a limit of one reach the limit, exceed it and repeat
criteria, and two updates are one that decides and one that commits or removes
meanwhile. Three updates over two connections make one wait for the pool while
one waits for a row; all rows and locks belong to one user, users share the
pool only. Three payments of two days within six days allow each payment to come
before, at and after the end of an earlier one. The safety properties of all
modules are also proved without these bounds, see below.

Runs that TLC refutes, and the disagreements they show:

| Run | Refuted | Against |
|---|---|---|
| `Scraper_duplicate` | NoDuplicate: two workers pass Exists for one listing before either saves; Save does not say whether it inserted | the comment at scraper.go:181-184: at worst a silent loss, never a duplicate |
| `Notifier_shutdown` | NoValidDeadLetter: a graceful stop dead-letters the message in hand | README.md:99 |
| `Premium_third` | PaidTimeHonoured with three open invoices: a payment may extend the subscription that ends first and add no day | the invoice text, premium_service.py:40 |

Observations made while modelling, which no run refutes:

- A keyword that finds the channel full is dropped until the next tick
  (`scraper.go:93`); nothing keeps the same one from finding it full each time,
  while README.md:16 says that every 30 seconds the active keywords are visited.
- The free limit is checked when a dialogue starts (`search.py:170`) and not when
  it is saved: with two updates at once a free user can exceed the two searches
  of `base.py:16`. Concurrent saves with an unset price may store a search
  twice, NULLs being distinct (`models/search.py:20`). The properties *WhenAlone*
  say when neither happens.
- The user is told "You'll get alerts when new items appear" (`search.py:143`)
  before the commit, and up to a minute before the bot's cache has the search: a
  listing taken in between is acknowledged as unmatched, and the dedup table
  keeps it from being sent again. The same holds for messages taken before the
  first cache query of a process (`rabbitmq.py:157`). The properties call these
  pairs `unseen`, these messages `missed`.
- A typed price beyond 32 bits passes the handler and fails at the query; the
  dialogue stays as it was.
- Two overlapping updates may leave `users.is_premium` wrong (the later UPDATE
  wins); the next update recomputes it before its handler runs.
- A row keeps the fields with which the session loaded it. If two updates stop
  and restore a search around it, `existing.is_active` (`search.py:116`) is old:
  "already exists" may be said of a search that is just being stopped, and the
  assignment `search.is_active = False` (`search.py:350`) writes nothing if the
  row was loaded as stopped and has been restored since, although the user is
  told that it stopped. ToldIsWatched holds in spite of the first; the second
  leaves a search active that the user believes stopped.
- An update that marks subscriptions as EXPIRED and then books a payment, and one
  that has changed the user's name and marks them too, wait for each other
  (`subscription_service.py:20`, `:62`). PostgreSQL aborts one; if that is the
  one with the payment, the payment is lost like one whose answer fails.
- Two first updates of a new user may both insert; the second fails and its
  update is lost. OnlyFirstUpdatesCollide bounds how often.
- The blocklist is read before the semaphore is waited for (`rabbitmq.py:89`);
  "Sent to queue" is logged although there are no publisher confirms
  (`publisher.go:144`); pre-checkout accepts the invoice of another user, which
  the payment handler refuses (`premium_service.py:56`); a payment whose answer
  to the user fails is rolled back; cleanupLoop's comment says one minute, its
  ticker makes the first cleanup an hour late (`scraper.go:108`).

## Fairness

- Scraper: weak fairness of the scheduler's and each worker's steps (the Go
  scheduler runs every runnable goroutine; a database or HTTP call ends by its
  timeout), strong fairness of noticing the cancelled context in `select`, which
  picks at random among ready branches. `ListingIsPublished` further presumes,
  in its statement, that the process is up again and again and that the keyword
  has no competitor: with one it may find the channel full for ever.
- Publisher: weak fairness of the owner's steps (a dial or a write returns),
  strong fairness of taking the mutex (Go hands it to a waiter after 1 ms of
  starvation). The broker may stay down.
- Notifier: weak fairness of the event loop's steps, of the reconnection and of
  the restart; strong fairness of delivery and of the cache query succeeding.
- Pipeline: weak fairness of handing over or losing a recorded listing, of
  delivery, of taking a delivery and of the first end of an alert; what `Scraper`
  and `Notifier` show. The cache need not be refreshed, nothing need break.
- Sessions: weak fairness of the steps that wait for nobody (queries and calls
  to Telegram return), strong fairness of those that wait for a connection or a
  lock (both are queues), weak fairness of PostgreSQL's deadlock detection, which
  runs after `deadlock_timeout` (a second by default, the statement timeout is
  thirty). Timeouts need not come: EveryUpdateEnds does not rest on them.

No fairness is assumed of users, Mercari, faults or the end of a retention.

## Proofs

Each module of proofs shows its theorems for any values of the constants that
satisfy the module's assumption: any number of workers, callers, messages,
searches, tasks, users, listings, any capacities, failures and bounds. Each
follows one plan: an inductive invariant, established by `Init`, kept by every
action (one step per action or a lemma of its own), from which the properties
follow; the refinements show that every action is a step of the abstract module
or leaves its variables alone.

The properties of the runs:

| Module | Proves | What the inductive invariant adds, and why |
|---|---|---|
| `Scraper_proofs` | TypeCorrect, AtMostOncePerWorker, SentIsRecorded, SilentLossHasCause, DrainedBeforeStop, ImplementsLedger | *OldRows*: only rows age, and none a worker holds, so retention never takes a record between Save and Publish. *Sending*: a worker past Exists has not sent its listing, one about to send has it on record; this makes Ledger's guard hold. *Idling*, *Ending*: a worker without a listing has an empty response; workers of an ended process have stopped. |
| `Publisher_proofs` | TypeCorrect, NoConnectionLeak, GivesUpOnlyAfterRetries, ImplementsContract | *Inside*: who holds the mutex and where. *Using*: which of the two connections exists at each place. *Looping*: the counters. *Unwritten*: an open call has left no copy. *Faults*: each attempt that failed or is bound to fail stands for a fault of its own. |
| `Notifier_proofs` | TypeCorrect, BrokerAndBotAgree, PermitsConserved, OncePerDelivery, WarmCacheMissesNothing, OneDeadLetterPerStop, ImplementsConsumption | *Shape*, *Channels*: what the program holds, live or stale, against what the broker waits for. *Limit*, *Semaphore*: cardinalities. *Counting*: notifications, deliveries in store and tasks to come add up to the deliveries. *Serving*: tasks are those of the searches the message matched. *Knowing*, *Covering*: a steady search is in table, copy and cache. OneDeadLetterPerStop is a property of steps: by *Channels* a message in hand over a live channel is not yet settled, so that of all steps only a stop with a message in hand buries one. |
| `Pipeline_proofs` | TypeCorrect, EveryAlertAccountedFor, AlertsPerCopy | *Linking*: the queue holds what the scraper has sent. *Counting*: deliveries against breaks. *Promising*, *Matching*, *Settling*: a promise is to a search that asked for the listing; a message that matched anything matched it, unless unseen; an acknowledged one has kept it. The lemma `MatcherIsRight` shows that the matcher's rules are what was asked for. |
| `SearchFlow_proofs` | TypeCorrect, PriceRangeValid, ToldIsWatched, LimitKeptWhenAlone, NoDuplicateWhenAlone | *Holdings*: what a task holds of a search is complete and its range checked. *Ranges*: the rows. *Watching*, for ToldIsWatched: what an undisturbed task has seen as active is active; what it refuses as existing is; what it inserts is not there or, by now, active (*Informed*); who stops an observed search has disturbed all that decide, and nobody is told of that search any more (*Warned*, *Forgotten*). Without the last two the stale copies of the rows would break it. *Solo*, as long as updates came one at a time: one task, room under the limit wherever a dialogue may still lead to a save, a dialogue that is over once its search is saved, and criteria not in the table when they are inserted. |
| `Sessions_proofs` | TypeCorrect, ConnectionsConserved, PremiumOnceCommitted, OnlyFirstUpdatesCollide | *Counted*, *Locking*: connections and locks belong to tasks between first query and end. *Rows*: a subscription has a user with a row. *Entitling*: where an entitled task may be, and what it knows there. *First*: once the row is there, collisions so far and to come are fewer than the tasks, and than the pool. |
| `Premium_proofs` | TypeCorrect; PaidTimeHonoured under `OneAtATime` | *Reach*: no row ends later than the booked payments allow. *Own*: a payment is answered to the user whose invoice it was. *Account(u)*, of each user apart and kept while u is *Uncrowded*: u has lost a payment, or is bound to (*Doomed*); or the task that books for u sees the rows as they are, and what is owed is covered by the rows and the payments still to book (*Owing*, *Seeing*, *Booking*). |

Beyond the runs, results that only a proof can state, because they hold of any
size or need a measure:

| Module | Theorem | What it says, and what it rests on |
|---|---|---|
| `Scraper_proofs` | NobodyStuck | A worker waits only for a job of an open channel, the scheduler only for workers that can go on; a full channel blocks nobody (`default` in the `select`). *Busy*: a worker in the loop over a response has a listing left. |
| | DrainCountsDown | After `close(jobs)` each step that touches the channel or a worker shortens the channel, or lowers `StepsLeft` of one worker and leaves the others alone. With NobodyStuck: ShutdownCompletes but for the fairness. |
| | OnlyRacersDuplicate | While a listing is on record, no further worker starts to process it. This bounds what `Scraper_duplicate` finds: copies come from workers that passed Exists before the row was there. |
| `Publisher_proofs` | CallIsBounded | `LeftOfCall` is at most 55 with the values of the code, every step of the owner lowers it, nothing the network or a waiting caller does raises it, and the owner is never blocked. |
| `Notifier_proofs` | BoundedRedelivery | At most one delivery, and one alert per search, plus two per break. Two and not one: a settlement over a lost channel raises, and the reconnection gives back what the new connection has brought (*Redelivery*). A user can so be told three times of a message after one break. |
| | SettledIsFinal | What is acknowledged or dead-lettered is never delivered again, and no task of an earlier delivery tells anybody of it. |
| | NoMessageStuck | Every message the broker waits for is in reach of the loop; tasks that wait for permits wait for one that can go on; an empty loop is below its prefetch limit. |
| `Sessions_proofs` | NoDeadlock | Who waits for a row waits for a task of the same user that can go on, or that waits for one that can, or that is in a circle of two, which the database breaks; no circle is larger and none goes through the pool, which when empty has such a task among the owners of its connections (*Owning*: who has a lock is past the statement that takes it). |
| | StepsToTheEnd | Each step of an update lowers its distance to the end, so EveryUpdateEnds but for the fairness. |
| | OneWriterPerRow | Rows are written by the commit of the lock's owner only. |
| `Pipeline_proofs` | AlertsAreAsked | A user is told only of listings that are on record and that the user asked for (*Justified*), through stale copies of the searches and breaks. |
| | PromisesWaitForSomething, PromisesComeNearer | An open promise waits for a hand-over, or for a step of one copy whose guard holds (*Working*); `Distance` (four per break still possible, and the stages of the message) never grows while it is open, and each step it waits for lowers it. EveryPromiseEnds but for the fairness. |
| | ImplementsLedger, ImplementsConsumption | The composition keeps both promises it is made of. By definition: its actions are conjunctions of theirs. |
| `Matcher_proofs` | KeywordIsItsParts, OneWordIsContained, PhraseMatches, NameIsItsParts, EveryLetterInOneWord, BlankFindsEverything | For all texts of any alphabet and any table of lower case: the order of words does not matter, a keyword of one word is a substring test, a phrase finds the names that have it, no word is found across a space, a longer name loses no match, `split()` puts every letter into one word and no other, and only a keyword without a letter matches a nameless listing (`item_name` may be missing), which then matches everything. |
| `Premium_proofs` | PaidTimeOfOneHonoured | Any number of updates in process, any number of invoices of other users: user u loses no paid day as long as `Uncrowded(u)`, which is at most two invoices, payments and running subscriptions of u together, and payments of u processed one after the other. |

`PaidTimeHonouredAlways` assumes `OneAtATime`: one update in process at a time
and at most two invoices or payments of a user open; it follows from the same
lemmas as `PaidTimeOfOneHonoured`, which makes no assumption on the constants
and states the condition on the behaviour of one user instead. Without such a
condition the property is false: the run `Premium_third` breaks it with a third
invoice, and two tasks that load the rows of a user at once would extend the
same subscription.

Assumptions beyond positive bounds: Mercari's listings are finitely many in
`Scraper` (a page has ten of them; measures count them), `Publisher` has a
connection to dial with for CallIsBounded.

Only model-checked: liveness under fairness and anything with ENABLED, which the
installed backends do not treat. The theorems on waiting and on measures are the
parts of these arguments that need no fairness. Where they name a guard in place
of ENABLED (`Waits`, `WaitsForPool`, `WorkerGoes`, `Runs`, `Awaits`), the
guard is written from the action it stands for; for `Sessions` and `Pipeline` it
was compared with ENABLED by TLC on the instances of the runs. Also only
model-checked is the agreement of `Matcher` with the recursive reference in
`MCPipeline`: it needs an induction over the reference's recursion. (Where a
least or a greatest number is enough, `Matcher_proofs` and `Scraper_proofs` take
it from the well-foundedness of the naturals.)

The proofs about `Pipeline` rest on the promises `Ledger` and `Consumption`,
which `ImplementsLedger` and `ImplementsConsumption` of `Scraper_proofs` and
`Notifier_proofs` show of the programs.

## Not modelled

- HTTP, DPoP tokens, proxies, response parsing: pure input and output.
- Texts, keyboards, /start, /help, /list and menu handlers: no state but what
  the middleware commits, which `Sessions` has.
- Environment parsing, migrations, start order of containers, recycling of
  pooled connections: declarations, or invisible to callers.
- Clock values: durations appear only as "may happen at any time" (days in
  `Premium`). So the first sleep of cleanupLoop and its one-hour ticker are not
  told apart from any other moment.
- Full Unicode: `Lower` maps characters to characters, while a few letters become
  two when lowered.
- Retention within `Pipeline`: rows do not expire in it; `Scraper` has that.

## Plan

1. Done: `Scraper` with `Ledger`, `Publisher` with its contract, `Notifier` with
   `Consumption`, `Matcher`, `Pipeline`, `SearchFlow`, `Sessions`, `Premium`;
   proofs of the safety properties and refinements of all of them; of the parts
   of the liveness arguments that need no fairness; of the matcher's rules for
   all texts.
2. Left: the waiting and the measures for the dialogue (`SearchFlow`: how far an
   update is from its end, who waits for whom at the unique constraint); stale
   removals, with a property that says what the user may rely on; `Scraper` and `Notifier`
   put together as one system that implements `Pipeline`; cleanupLoop against
   clock values; expiring rows in `Pipeline`; the blocklist that is read before
   the wait for a permit, for which no state goes wrong.
