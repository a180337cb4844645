------------------------------ MODULE Notifier ------------------------------
(***************************************************************************)
(* The bot's consumer (bot/app/services/rabbitmq.py): consume_rabbitmq     *)
(* runs _consume_loop over and over; the loop takes one message at a time, *)
(* matches it against the cached searches and runs one _notify_one task    *)
(* per match under a semaphore, then acknowledges the message.  A second   *)
(* task, _update_cache_loop, refreshes the cache from the database.        *)
(*                                                                         *)
(* RabbitMQ and aio_pika are modelled from how the code uses them: manual  *)
(* acknowledgement, a prefetch limit, redelivery of what a lost connection *)
(* leaves unsettled, a dead-letter queue for what is rejected, a robust    *)
(* connection that comes back under the loop while the messages handed     *)
(* over before keep their dead channel.  So is Telegram: a call delivers,  *)
(* is forbidden, is put off by flood control, or fails.                    *)
(*                                                                         *)
(* The event loop has one thread: from the moment the iterator yields a    *)
(* message to the first await, everything is one step.  Time is left out.  *)
(***************************************************************************)
EXTENDS Naturals, FiniteSets

CONSTANTS
    Messages,    \* the messages that reach new_items_queue
    Invalid,     \* those whose body does not validate
    Searches,    \* rows of table searches
    User,        \* User[s]: whose search s is
    Wanted,      \* Wanted[m]: the searches whose words and prices m satisfies
    Editable,    \* the searches that users stop and restore meanwhile
    Fickle,      \* the users who block and unblock the bot meanwhile
    Nothing,     \* no message is being processed
    Prefetch,    \* prefetch_count, 50 in the code
    Permits,     \* NOTIFY_CONCURRENCY, 10 in the code
    Failures,    \* what Telegram and the database may do, see FailureKinds
    MaxBreaks    \* bound: lost connections, stops and kills in one behaviour

FailureKinds == {"flood", "error", "database"}

Users == {User[s] : s \in Searches}

ASSUME NotifierAssumption ==
    /\ IsFiniteSet(Searches) /\ IsFiniteSet(Messages)
    /\ Wanted \in [Messages -> SUBSET Searches]
    /\ Nothing \notin [msg : Messages, live : BOOLEAN]
    /\ Prefetch \in Nat \ {0} /\ Permits \in Nat \ {0} /\ MaxBreaks \in Nat

VARIABLES
    where,       \* where[m]: "unsent", "ready" in the queue, "unacked",
                 \*   "acked", or "dead" in dead_letter_queue
    link,        \* the connection: "up" or "down"
    loop,        \* "connect", "consume", "notify", "backoff"; "ended"
    held,        \* the deliveries the queue iterator has in store
    cur,         \* the delivery being processed
    task,        \* task[s]: the _notify_one task of cur for search s
    permits,     \* of notify_sem
    active,      \* the searches that are active in the database
    cache,       \* _ACTIVE_SEARCHES_CACHE
    refresh,     \* the cache task: "query", "assign" or "sleep"
    rows,        \* what its query returned
    blocked,     \* _BLOCKED_USERS
    refusing,    \* the users who have blocked the bot at Telegram
    breaks,      \* lost connections, stops and kills so far
    deliveries,  \* history: deliveries of each message
    notified,    \* history: notified[m][s], notifications sent
    matched,     \* history: the searches m matched when last taken
    excused,     \* history: searches a task of m gave up on
    warm,        \* history: the cache was loaded since the process started
    missed       \* history: messages taken before it was

consumer == <<link, loop, held, cur>>
tasks == <<task, permits, blocked>>
caching == <<cache, refresh, rows>>
history == <<deliveries, notified, matched, excused, warm, missed>>
vars == <<where, consumer, tasks, active, caching, refusing, breaks, history>>

\* A message as the bot holds it; live: its channel still exists.
Delivery == [msg : Messages, live : BOOLEAN]

Idle == [s \in Searches |-> "none"]
Holding == {s \in Searches : task[s] \in {"send", "retry"}}
Unacked == {m \in Messages : where[m] = "unacked"}

Init ==
    /\ where = [m \in Messages |-> "unsent"]
    /\ link = "down" /\ loop = "connect" /\ held = {} /\ cur = Nothing
    /\ task = Idle /\ permits = Permits /\ blocked = {}
    /\ active \in {a \in SUBSET Searches : Searches \ Editable \subseteq a}
    /\ cache = {} /\ refresh = "query" /\ rows = {}
    /\ refusing = {} /\ breaks = 0
    /\ deliveries = [m \in Messages |-> 0]
    /\ notified = [m \in Messages |-> [s \in Searches |-> 0]]
    /\ matched = [m \in Messages |-> {}] /\ excused = [m \in Messages |-> {}]
    /\ warm = FALSE /\ missed = {}

----------------------------------------------------------------------------
(* The scraper and the users.                                              *)

Arrive(m) ==
    /\ where[m] = "unsent"
    /\ where' = [where EXCEPT ![m] = "ready"]
    /\ UNCHANGED <<consumer, tasks, active, caching, refusing, breaks, history>>

\* A search is stopped or restored through the bot.
EditSearch(s) ==
    /\ s \in Editable
    /\ active' = IF s \in active THEN active \ {s} ELSE active \cup {s}
    /\ UNCHANGED <<where, consumer, tasks, caching, refusing, breaks, history>>

\* A user blocks the bot, or unblocks it.
BlockBot(u) ==
    /\ u \in Fickle
    /\ refusing' = IF u \in refusing THEN refusing \ {u} ELSE refusing \cup {u}
    /\ UNCHANGED <<where, consumer, tasks, active, caching, breaks, history>>

----------------------------------------------------------------------------
(* The connection and the queue iterator.                                  *)

\* connect_robust, channel, set_qos, declare_queue, queue.iterator().
Connect ==
    /\ loop = "connect"
    /\ \/ loop' = "consume" /\ link' = "up" /\ UNCHANGED breaks
       \/ breaks < MaxBreaks /\ breaks' = breaks + 1 /\ loop' = "backoff" /\ UNCHANGED link
    /\ UNCHANGED <<where, held, cur, tasks, active, caching, refusing, history>>

\* Variant: an exception ends the consumer.
NoReconnect == FALSE

\* sleep(RECONNECT_DELAY_SECONDS).
Backoff ==
    /\ loop = "backoff" /\ loop' = "connect"
    /\ UNCHANGED <<where, link, held, cur, tasks, active, caching, refusing, breaks, history>>

\* basic.qos: the broker stops at prefetch_count unsettled messages.
BelowPrefetch == Cardinality(Unacked) < Prefetch

Deliver(m) ==
    /\ link = "up" /\ where[m] = "ready" /\ BelowPrefetch
    /\ where' = [where EXCEPT ![m] = "unacked"]
    /\ held' = held \cup {[msg |-> m, live |-> TRUE]}
    /\ deliveries' = [deliveries EXCEPT ![m] = @ + 1]
    /\ UNCHANGED <<link, loop, cur, tasks, active, caching, refusing, breaks,
                   notified, matched, excused, warm, missed>>

\* What the broker does with the unsettled messages of a connection.
Requeued == [m \in Messages |-> IF where[m] = "unacked" THEN "ready" ELSE where[m]]

\* Variant: the new channel is taken for the old one.
StaysLive(d) == d

\* A delivery whose channel is gone.
Stale(d) == [d EXCEPT !.live = FALSE]

\* The connection is lost.
BreakLink ==
    /\ link = "up" /\ breaks < MaxBreaks
    /\ link' = "down" /\ breaks' = breaks + 1
    /\ where' = Requeued
    /\ held' = {Stale(d) : d \in held}
    /\ cur' = IF cur = Nothing THEN Nothing ELSE Stale(cur)
    /\ UNCHANGED <<loop, tasks, active, caching, refusing, history>>

\* The robust connection comes back under a running loop.
RestoreLink ==
    /\ link = "down" /\ loop \in {"consume", "notify"}
    /\ link' = "up"
    /\ UNCHANGED <<where, loop, held, cur, tasks, active, caching, refusing, breaks, history>>

----------------------------------------------------------------------------
(* One message.                                                            *)

\* ack or reject of delivery d, which leaves the iterator with rest.  On a
\* channel that is gone the call raises: the iterator and the connection are
\* closed and consume_rabbitmq backs off.
Settle(d, fate, rest) ==
    \/ /\ d.live
       /\ where' = [where EXCEPT ![d.msg] = fate]
       /\ loop' = "consume" /\ held' = rest /\ UNCHANGED link
    \/ /\ ~d.live
       /\ where' = Requeued
       /\ loop' = "backoff" /\ held' = {} /\ link' = "down"

\* The iterator yields in the order of delivery: what a lost channel has left
\* comes before what the new one brought.
Yields(d) ==
    /\ loop = "consume" /\ d \in held
    /\ d.live => \A e \in held : e.live

\* The message does not validate: reject(requeue=False).
TakeInvalid(d) ==
    /\ Yields(d) /\ d.msg \in Invalid
    /\ Settle(d, "dead", held \ {d})
    /\ UNCHANGED <<cur, tasks, active, caching, refusing, breaks, history>>

\* find_matches_in_memory, on the cache as it is now.
Matches(m) == cache \cap Wanted[m]

RecordMatches(m) ==
    /\ matched' = [matched EXCEPT ![m] = Matches(m)]
    /\ missed' = IF warm THEN missed ELSE missed \cup {m}

\* Nobody is looking for it: ack.
TakeUnmatched(d) ==
    /\ Yields(d) /\ d.msg \notin Invalid /\ Matches(d.msg) = {}
    /\ RecordMatches(d.msg)
    /\ Settle(d, "acked", held \ {d})
    /\ UNCHANGED <<cur, tasks, active, caching, refusing, breaks, deliveries, notified, excused, warm>>

\* gather starts a task per match.
TakeMatched(d) ==
    /\ Yields(d) /\ d.msg \notin Invalid /\ Matches(d.msg) # {}
    /\ RecordMatches(d.msg)
    /\ cur' = d /\ held' = held \ {d} /\ loop' = "notify"
    /\ task' = [s \in Searches |-> IF s \in Matches(d.msg) THEN "new" ELSE "none"]
    /\ UNCHANGED <<where, link, permits, blocked, active, caching, refusing, breaks,
                   deliveries, notified, excused, warm>>

\* Variant: the message is acknowledged while its tasks are running.
NotAwaited == TRUE

\* gather returns when every task has.
AllDone == \A s \in Searches : task[s] \in {"none", "done"}

\* ack, once every notification has been tried.
Finish ==
    /\ loop = "notify" /\ AllDone
    /\ Settle(cur, "acked", held)
    /\ cur' = Nothing /\ task' = Idle
    /\ UNCHANGED <<permits, blocked, active, caching, refusing, breaks, history>>

----------------------------------------------------------------------------
(* _notify_one.                                                            *)

\* The task is over; message and search are excused from a notification.
Excuse(s) ==
    /\ task' = [task EXCEPT ![s] = "done"]
    /\ excused' = [excused EXCEPT ![cur.msg] = @ \cup {s}]
    /\ UNCHANGED notified

\* if _is_user_blocked(match.user_id): return
SkipBlocked(s) ==
    /\ task[s] = "new" /\ User[s] \in blocked
    /\ Excuse(s)
    /\ UNCHANGED <<where, consumer, permits, blocked, active, caching, refusing, breaks,
                   deliveries, matched, warm, missed>>

\* async with sem: at once, or after a wait.
Acquire(s) ==
    /\ \/ task[s] = "new" /\ User[s] \notin blocked
       \/ task[s] = "wait"
    /\ \/ /\ permits > 0
          /\ task' = [task EXCEPT ![s] = "send"] /\ permits' = permits - 1
       \/ /\ permits = 0 /\ task[s] = "new"
          /\ task' = [task EXCEPT ![s] = "wait"] /\ UNCHANGED permits
    /\ UNCHANGED <<where, consumer, blocked, active, caching, refusing, breaks, history>>

\* Variant: a retried task does not give its permit back.
ReleaseFirstTry(s) == permits' = IF task[s] = "send" THEN permits + 1 ELSE permits

\* Variant: a permit is given back twice.
ReleaseTwice(s) == permits' = permits + 2

\* The end of async with sem.
Release(s) == permits' = permits + 1

Delivered(s) ==
    /\ s \in Holding /\ User[s] \notin refusing
    /\ task' = [task EXCEPT ![s] = "done"]
    /\ notified' = [notified EXCEPT ![cur.msg][s] = @ + 1]
    /\ Release(s)
    /\ UNCHANGED <<where, consumer, blocked, active, caching, refusing, breaks,
                   deliveries, matched, excused, warm, missed>>

\* TelegramForbiddenError: _mark_user_blocked.
Forbidden(s) ==
    /\ s \in Holding /\ User[s] \in refusing
    /\ Excuse(s) /\ Release(s)
    /\ blocked' = blocked \cup {User[s]}
    /\ UNCHANGED <<where, consumer, active, caching, refusing, breaks, deliveries, matched, warm, missed>>

\* Variant: a first try that got through is repeated.
RepeatedSend(s) ==
    /\ task[s] = "send" /\ User[s] \notin refusing
    /\ task' = [task EXCEPT ![s] = "retry"]
    /\ notified' = [notified EXCEPT ![cur.msg][s] = @ + 1]
    /\ UNCHANGED <<where, consumer, permits, blocked, active, caching, refusing, breaks,
                   deliveries, matched, excused, warm, missed>>

\* TelegramRetryAfter at the first try: sleep, then try once more.
FloodControl(s) ==
    /\ task[s] = "send" /\ "flood" \in Failures
    /\ task' = [task EXCEPT ![s] = "retry"]
    /\ UNCHANGED <<where, consumer, permits, blocked, active, caching, refusing, breaks, history>>

\* Any other exception, which gather returns; or any at the second try.
SendFails(s) ==
    /\ s \in Holding
    /\ "error" \in Failures \/ (task[s] = "retry" /\ "flood" \in Failures)
    /\ Excuse(s) /\ Release(s)
    /\ UNCHANGED <<where, consumer, blocked, active, caching, refusing, breaks,
                   deliveries, matched, warm, missed>>

\* The entry of u outlives _BLOCKED_USER_TTL.
ForgetBlocked(u) ==
    /\ u \in blocked /\ blocked' = blocked \ {u}
    /\ UNCHANGED <<where, consumer, task, permits, active, caching, refusing, breaks, history>>

----------------------------------------------------------------------------
(* _update_cache_loop.                                                     *)

\* get_active_searches.
CacheQuery ==
    /\ refresh = "query"
    /\ rows' = active /\ refresh' = "assign"
    /\ UNCHANGED <<where, consumer, tasks, active, cache, refusing, breaks, history>>

\* Variant: a failed query leaves an empty cache.
KeepNothing == {}

\* The cache a failed query leaves.
KeepCache == cache

\* The query fails: the cache stays as it is.
CacheError ==
    /\ refresh = "query" /\ "database" \in Failures
    /\ refresh' = "sleep" /\ cache' = KeepCache
    /\ UNCHANGED <<where, consumer, tasks, active, rows, refusing, breaks, history>>

\* Variant: rows are added to the cache, never taken out.
Merged == cache \cup rows

\* The list that is assigned.
Fetched == rows

CacheAssign ==
    /\ refresh = "assign"
    /\ cache' = Fetched /\ rows' = {} /\ refresh' = "sleep" /\ warm' = TRUE
    /\ UNCHANGED <<where, consumer, tasks, active, refusing, breaks,
                   deliveries, notified, matched, excused, missed>>

\* asyncio.sleep(60).
CacheWake ==
    /\ refresh = "sleep" /\ refresh' = "query"
    /\ UNCHANGED <<where, consumer, tasks, active, cache, rows, refusing, breaks, history>>

----------------------------------------------------------------------------
(* The process.                                                            *)

\* Nothing of the process is left; w is where the messages are.
EndProcess(w) ==
    /\ loop # "ended" /\ breaks < MaxBreaks
    /\ loop' = "ended" /\ link' = "down" /\ held' = {} /\ cur' = Nothing
    /\ where' = w /\ breaks' = breaks + 1
    /\ task' = Idle /\ permits' = Permits /\ blocked' = {}
    /\ cache' = {} /\ refresh' = "query" /\ rows' = {} /\ warm' = FALSE
    /\ UNCHANGED <<active, refusing, deliveries, notified, matched, excused, missed>>

\* Variant: everything that was handed over is rejected, not only cur.
RejectAll == [m \in Messages |-> IF where[m] = "unacked" THEN "dead" ELSE where[m]]

\* shutdown_handler cancels consume_rabbitmq.  message.process() rejects the
\* message in hand, without requeueing it; the iterator gives back the rest.
RejectCurrent ==
    IF cur # Nothing /\ cur.live THEN [Requeued EXCEPT ![cur.msg] = "dead"] ELSE Requeued

Shutdown == EndProcess(RejectCurrent)

Kill == EndProcess(Requeued)

\* The container starts again.
Restart ==
    /\ loop = "ended" /\ loop' = "connect"
    /\ UNCHANGED <<where, link, held, cur, tasks, active, caching, refusing, breaks, history>>

----------------------------------------------------------------------------
TaskStep(s) == SkipBlocked(s) \/ Acquire(s) \/ Delivered(s) \/ Forbidden(s)
                   \/ FloodControl(s) \/ SendFails(s)

Take(d) == TakeInvalid(d) \/ TakeUnmatched(d) \/ TakeMatched(d)

\* The cache task runs as long as the process does.
CacheStep == loop # "ended" /\ (CacheQuery \/ CacheError \/ CacheAssign \/ CacheWake)

Next ==
    \/ \E m \in Messages : Arrive(m) \/ Deliver(m)
    \/ \E s \in Searches : EditSearch(s) \/ TaskStep(s)
    \/ \E u \in Users : BlockBot(u) \/ ForgetBlocked(u)
    \/ Connect \/ Backoff \/ BreakLink \/ RestoreLink
    \/ \E d \in Delivery : Take(d)
    \/ Finish \/ CacheStep \/ Shutdown \/ Kill \/ Restart

Spec == Init /\ [][Next]_vars

\* The event loop runs every task that is ready; calls to Telegram and to the
\* broker return; the broker delivers; the robust connection and the container
\* (restart: always) come back; a query that is made again and again succeeds
\* in the end.  Nothing is assumed of users, nor that anything breaks.
Fairness ==
    /\ WF_vars(Connect) /\ WF_vars(Backoff) /\ WF_vars(RestoreLink) /\ WF_vars(Restart)
    /\ WF_vars(Finish)
    /\ \A m \in Messages : SF_vars(Deliver(m))
    /\ \A d \in Delivery : WF_vars(Take(d))
    /\ \A s \in Searches : WF_vars(TaskStep(s))
    /\ WF_vars(CacheStep) /\ SF_vars(loop # "ended" /\ CacheQuery)

LiveSpec == Spec /\ Fairness

----------------------------------------------------------------------------
(* Properties.                                                             *)

TypeOK ==
    /\ where \in [Messages -> {"unsent", "ready", "unacked", "acked", "dead"}]
    /\ link \in {"up", "down"}
    /\ loop \in {"connect", "consume", "notify", "backoff", "ended"}
    /\ held \in SUBSET Delivery /\ cur \in Delivery \cup {Nothing}
    /\ task \in [Searches -> {"none", "new", "wait", "send", "retry", "done"}]
    /\ permits \in 0..Permits
    /\ active \in SUBSET Searches /\ cache \in SUBSET Searches /\ rows \in SUBSET Searches
    /\ refresh \in {"query", "assign", "sleep"}
    /\ blocked \in SUBSET Users /\ refusing \in SUBSET Users
    /\ breaks \in 0..MaxBreaks
    /\ deliveries \in [Messages -> Nat]
    /\ notified \in [Messages -> [Searches -> Nat]]
    /\ matched \in [Messages -> SUBSET Searches] /\ excused \in [Messages -> SUBSET Searches]
    /\ warm \in BOOLEAN /\ missed \in SUBSET Messages

\* What the broker waits for is what the bot still holds with a channel to
\* settle it on, and never more than prefetch_count: no message is forgotten
\* half-way and no prefetch slot leaks, whatever breaks.
BrokerAndBotAgree ==
    /\ Unacked = {d.msg : d \in {e \in held \cup ({cur} \ {Nothing}) : e.live}}
    /\ Cardinality(Unacked) <= Prefetch

\* Every permit is free or in the hands of a task that is sending; between
\* two messages all are free.
PermitsConserved ==
    /\ permits + Cardinality(Holding) = Permits
    /\ cur = Nothing => permits = Permits

\* A search is notified of a message once per delivery at most: duplicates
\* come from redelivery alone, not from retries.
OncePerDelivery ==
    \A m \in Messages, s \in Searches : notified[m][s] <= deliveries[m]

\* Once the cache has been loaded, a search that is active all the time does
\* not miss a message, through errors and refreshes alike.
WarmCacheMissesNothing ==
    \A m \in Messages \ (missed \cup Invalid) : \A s \in Wanted[m] \ Editable :
        where[m] = "acked" => notified[m][s] > 0 \/ s \in excused[m]

\* A message the bot can read is dead-lettered only by a graceful stop that
\* interrupts its notifications, and a stop dead-letters no other: neither a
\* lost connection, a failed refresh, a kill nor a late settlement does, and
\* what is in the iterator's store goes back to the queue.
Buried == {m \in Messages \ Invalid : where[m] = "dead"}
OneDeadLetterPerStop ==
    [][Buried' # Buried => /\ cur # Nothing /\ loop' = "ended"
                           /\ Buried' = Buried \cup {cur.msg}]_vars

\* Every message that reaches the queue is settled in the end, through lost
\* connections, stops, kills and flood control.
EveryMessageSettled ==
    \A m \in Messages : where[m] = "ready" ~> where[m] \in {"acked", "dead"}

\* The cache follows the database: a search that stays stopped leaves the
\* cache for good, one that stays active stays in it.
CacheFollowsDatabase ==
    \A s \in Searches :
        /\ <>[](s \notin active) => <>[](s \notin cache)
        /\ <>[](s \in active) => <>[](s \in cache)

\* "Graceful shutdown: all services end correctly without losing data"
\* (README.md:99): a message the bot can read never ends as a dead letter.
NoValidDeadLetter == \A m \in Messages \ Invalid : where[m] # "dead"

\* The consumer keeps the promise of Consumption, through reconnections,
\* flood control, blocked users, failed refreshes, stops and kills: among
\* others, a message is acknowledged only after every search it matched has
\* been notified of it or is excused (the user refused, or the call failed).
C == INSTANCE Consumption WITH stock <- {d.msg : d \in held}, told <- notified,
                               copying <- (refresh = "assign")
ConsumptionSpec == C!Spec
============================================================================
