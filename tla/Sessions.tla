------------------------------ MODULE Sessions ------------------------------
(***************************************************************************)
(* What every update of the bot goes through (bot/app/db/middleware.py,    *)
(* db/session.py, services/user_service.py, subscription_service.py        *)
(* refresh_premium_status, handlers/errors.py): a task takes a connection  *)
(* from a bounded pool at its first query and keeps it, through the        *)
(* handler and its calls to Telegram, until commit or rollback; it loads   *)
(* its user or inserts them, recomputes users.is_premium from their        *)
(* subscriptions, runs the handler and commits.  Whatever raises is rolled *)
(* back and reported once the session is closed.                           *)
(*                                                                         *)
(* PostgreSQL at READ COMMITTED: a query sees what is committed; a         *)
(* statement that writes a row waits for the transaction that has written  *)
(* it, and so does the INSERT of a telegram_id that another transaction    *)
(* has inserted; of two transactions that wait for each other it aborts    *)
(* one.  SQLAlchemy writes only what a task has changed, users before      *)
(* subscriptions.  The subscriptions of a user that have run out are one   *)
(* lock here: in the database, tasks that found different ones would not   *)
(* have to wait for each other.                                            *)
(***************************************************************************)
EXTENDS Naturals, FiniteSets

CONSTANTS
    Tasks,       \* the updates that may be in process at the same time
    Watched,     \* those that are observed: all are alike, so one is enough
    Users,       \* those they come from
    Nobody,      \* no user, no task
    PoolSize,    \* pool_size + max_overflow, 30 in the code
    Faults       \* what may fail: "answer", "commit", "timeout"

ASSUME SessionsAssumption ==
    /\ Nobody \notin Users \cup Tasks
    /\ IsFiniteSet(Tasks) /\ Tasks # {} /\ Watched \subseteq Tasks /\ PoolSize \in Nat \ {0}

VARIABLES
    row,         \* table users, of each: "absent", or is_premium
    subs,        \* each has a subscription in the database that runs
    lapsed,      \* each has some that have run out and still are ACTIVE there
    free,        \* connections in the pool
    lock,        \* the task whose transaction has written the row of each
    sublock,     \* the one that has written the subscriptions that ran out
    pc,          \* where each task is, "idle" if it has no update
    user,        \* of each task
    seen,        \* the row as the task has read it
    premium,     \* user.is_premium, the task's object
    write,       \* what its transaction has written to the row
    pays,        \* it has inserted a subscription
    expires,     \* of those that have run out, it found "nothing", "all"
                 \*   or, since others have run out meanwhile, "some"
    entitled,    \* history: tasks observed whose user has had one that
                 \*   runs all the time
    collisions   \* history: updates lost to the unique constraint, per user

database == <<row, subs, lapsed, lock, sublock>>
locals == <<user, seen, premium, write, pays, expires>>
history == <<entitled, collisions>>
vars == <<database, free, pc, locals, history>>

Flags == {"free", "premium"}
Flag(p) == IF p THEN "premium" ELSE "free"

Init ==
    /\ row = [u \in Users |-> "absent"] /\ subs = [u \in Users |-> FALSE]
    /\ lapsed = [u \in Users |-> FALSE]
    /\ lock = [u \in Users |-> Nobody] /\ sublock = [u \in Users |-> Nobody]
    /\ free = PoolSize
    /\ pc = [t \in Tasks |-> "idle"]
    /\ user = [t \in Tasks |-> Nobody] /\ seen = [t \in Tasks |-> "absent"]
    /\ premium = [t \in Tasks |-> FALSE] /\ pays = [t \in Tasks |-> FALSE]
    /\ write = [t \in Tasks |-> "nothing"] /\ expires = [t \in Tasks |-> "nothing"]
    /\ entitled = {} /\ collisions = [u \in Users |-> 0]

Goto(t, place) == pc' = [pc EXCEPT ![t] = place]

\* The locals of a task are gone, and with them what it held.
Forget(t) ==
    /\ user' = [user EXCEPT ![t] = Nobody] /\ seen' = [seen EXCEPT ![t] = "absent"]
    /\ premium' = [premium EXCEPT ![t] = FALSE] /\ pays' = [pays EXCEPT ![t] = FALSE]
    /\ write' = [write EXCEPT ![t] = "nothing"] /\ expires' = [expires EXCEPT ![t] = "nothing"]
    /\ entitled' = entitled \ {t}

\* Variant: the lock outlives the transaction.
KeepLocks(t, held) == held

\* The locks held, without those of the transaction of t.
ReleaseLocks(t, held) == [u \in Users |-> IF held[u] = t THEN Nobody ELSE held[u]]

EndTransaction(t) == lock' = ReleaseLocks(t, lock) /\ sublock' = ReleaseLocks(t, sublock)

\* Variant: the session is not closed.
KeepConnection == free

\* The session goes back to the pool.
ReturnConnection == free + 1

\* The transaction is rolled back and the session closed; the exception goes
\* up to the error handler.
Fail(t) ==
    /\ Goto(t, "report") /\ Forget(t)
    /\ EndTransaction(t) /\ free' = ReturnConnection
    /\ UNCHANGED <<row, subs, lapsed>>

----------------------------------------------------------------------------
(* The middleware and get_or_create_user_in_session.                       *)

Receive(t, u) ==
    /\ pc[t] = "idle" /\ Goto(t, "connect")
    /\ user' = [user EXCEPT ![t] = u]
    /\ entitled' = IF subs[u] /\ t \in Watched THEN entitled \cup {t} ELSE entitled
    /\ UNCHANGED <<database, free, seen, premium, write, pays, expires, collisions>>

\* Variant: the user is looked up by something that changes.
LookUpByName(u) == {row[u], "absent"}

\* SELECT ... WHERE telegram_id = ...
LookUp(u) == {row[u]}

\* The first query takes a connection.
Connect(t) ==
    /\ pc[t] = "connect" /\ free > 0
    /\ free' = free - 1
    /\ \E found \in LookUp(user[t]) :
          /\ seen' = [seen EXCEPT ![t] = found]
          /\ Goto(t, IF found = "absent" THEN "insert" ELSE "load")
    /\ UNCHANGED <<database, user, premium, write, pays, expires, history>>

\* Variant: closing it gives back a connection all the same.
PoolTimeoutReturns(t) ==
    /\ pc[t] = "connect" /\ free = 0 /\ "timeout" \in Faults
    /\ Fail(t) /\ UNCHANGED collisions

\* pool_timeout: the session never had a connection.
PoolTimeout(t) ==
    /\ pc[t] = "connect" /\ free = 0 /\ "timeout" \in Faults
    /\ Goto(t, "report") /\ Forget(t)
    /\ UNCHANGED <<database, free, collisions>>

\* Another transaction has written the row of user u.
Locked(t, u) == lock[u] \notin {t, Nobody}

\* session.add(user), flush: the INSERT waits for that of another task, and
\* fails if that one is committed.
Insert(t) ==
    LET u == user[t]
    IN  /\ pc[t] = "insert" /\ ~Locked(t, u)
        /\ \/ /\ row[u] = "absent"
              /\ lock' = [lock EXCEPT ![u] = t]
              /\ write' = [write EXCEPT ![t] = "free"]
              /\ Goto(t, "handler")
              /\ UNCHANGED <<row, subs, lapsed, sublock, free, user, seen, premium, pays, expires, history>>
           \/ /\ row[u] # "absent"
              /\ Fail(t)
              /\ collisions' = [collisions EXCEPT ![u] = @ + 1]

\* Variant: only a flag that is set is checked again.
CheckPremium(t) == seen[t] = "premium" /\ subs[user[t]]

\* refresh_premium_status: a subscription runs.
HasActive(t) == subs[user[t]]

\* Where the flushes lead: to the UPDATE of users if the task changes its row,
\* then to that of subscriptions if it has set some to EXPIRED.
ToExpire(found) == IF found = "nothing" THEN "handler" ELSE "expire"
ToFlush(changed, found) == IF changed THEN "flush" ELSE ToExpire(found)

\* selectinload(User.subscriptions) is a query of its own.  Of the row, the
\* flag changes, or what else Telegram says of the user (their name).
LoadSubscriptions(t) ==
    LET found == IF lapsed[user[t]] THEN "all" ELSE "nothing"
    IN  /\ pc[t] = "load"
        /\ premium' = [premium EXCEPT ![t] = HasActive(t)]
        /\ expires' = [expires EXCEPT ![t] = found]
        /\ \E renamed \in BOOLEAN :
              Goto(t, ToFlush(renamed \/ Flag(HasActive(t)) # seen[t], found))
        /\ UNCHANGED <<database, free, user, seen, write, pays, history>>

\* UPDATE users.  It names is_premium only if that has changed.
Flush(t) ==
    LET u == user[t]
        changed == Flag(premium[t]) # seen[t]
    IN  /\ pc[t] = "flush" /\ ~Locked(t, u) /\ Goto(t, ToExpire(expires[t]))
        /\ lock' = [lock EXCEPT ![u] = t]
        /\ write' = [write EXCEPT ![t] = IF changed THEN Flag(premium[t]) ELSE @]
        /\ UNCHANGED <<row, subs, lapsed, sublock, free, user, seen, premium, pays, expires, history>>

\* UPDATE subscriptions: their status is EXPIRED.
Expire(t) ==
    LET u == user[t]
    IN  /\ pc[t] = "expire" /\ sublock[u] \in {t, Nobody} /\ Goto(t, "handler")
        /\ sublock' = [sublock EXCEPT ![u] = t]
        /\ UNCHANGED <<row, subs, lapsed, lock, free, locals, history>>

\* The statement t is at has to wait for a transaction, that of Holder(t).
Holder(t) == IF pc[t] = "expire" THEN sublock[user[t]] ELSE lock[user[t]]
Waits(t) ==
    /\ \/ pc[t] \in {"insert", "flush", "expire"}
       \/ pc[t] = "activate" /\ ~premium[t]
    /\ Holder(t) \notin {t, Nobody}

\* Two transactions wait for each other.
Circle(t, o) == Waits(t) /\ Waits(o) /\ Holder(t) = o /\ Holder(o) = t

\* command_timeout.
StatementTimeout(t) ==
    /\ Waits(t) /\ "timeout" \in Faults
    /\ Fail(t) /\ UNCHANGED collisions

\* PostgreSQL aborts one of them.
DeadlockDetected(t) ==
    /\ \E o \in Tasks : Circle(t, o)
    /\ Fail(t) /\ UNCHANGED collisions

----------------------------------------------------------------------------
(* The handler and the commit.                                             *)

\* The handler answers, or raises, or has a payment to book.
Handle(t) ==
    /\ pc[t] = "handler"
    /\ \/ Goto(t, "commit") /\ UNCHANGED <<database, free, locals, entitled>>
       \/ /\ seen[t] # "absent" /\ Goto(t, "activate")
          /\ UNCHANGED <<database, free, locals, entitled>>
       \/ "answer" \in Faults /\ Fail(t)
    /\ UNCHANGED collisions

\* activate_stars_subscription and its flush.
Activate(t) ==
    LET u == user[t]
    IN  /\ pc[t] = "activate" /\ Goto(t, "commit")
        /\ pays' = [pays EXCEPT ![t] = TRUE] /\ premium' = [premium EXCEPT ![t] = TRUE]
        /\ \/ premium[t] /\ UNCHANGED <<lock, write>>
           \/ /\ ~premium[t] /\ ~Locked(t, u) /\ lock' = [lock EXCEPT ![u] = t]
              /\ write' = [write EXCEPT ![t] = "premium"]
        /\ UNCHANGED <<row, subs, lapsed, sublock, free, user, seen, expires, history>>

Commit(t) ==
    LET u == user[t]
    IN  /\ pc[t] = "commit"
        /\ \/ /\ row' = IF write[t] \in Flags THEN [row EXCEPT ![u] = write[t]] ELSE row
              /\ subs' = IF pays[t] THEN [subs EXCEPT ![u] = TRUE] ELSE subs
              /\ lapsed' = IF expires[t] = "all" THEN [lapsed EXCEPT ![u] = FALSE] ELSE lapsed
              /\ EndTransaction(t) /\ free' = ReturnConnection
              /\ Goto(t, "idle") /\ Forget(t)
           \/ "commit" \in Faults /\ Fail(t)
        /\ UNCHANGED collisions

\* global_error_handler: the administrator is told, the user gets an apology;
\* what fails there is swallowed.
Report(t) ==
    /\ pc[t] = "report" /\ Goto(t, "idle")
    /\ UNCHANGED <<database, free, locals, history>>

----------------------------------------------------------------------------
\* A subscription of u runs out, the last that runs or not.
RunOut(u) ==
    /\ subs[u] /\ lapsed' = [lapsed EXCEPT ![u] = TRUE]
    /\ expires' = [t \in Tasks |-> IF user[t] = u /\ expires[t] = "all" THEN "some" ELSE expires[t]]
    /\ \/ UNCHANGED <<subs, entitled>>
       \/ /\ subs' = [subs EXCEPT ![u] = FALSE]
          /\ entitled' = {t \in entitled : user[t] # u}
    /\ UNCHANGED <<row, lock, sublock, free, pc, user, seen, premium, write, pays, collisions>>

\* The bot is stopped or dies; the database rolls back what was open.
Restart ==
    /\ lock' = [u \in Users |-> Nobody] /\ sublock' = [u \in Users |-> Nobody]
    /\ free' = PoolSize
    /\ pc' = [t \in Tasks |-> "idle"]
    /\ user' = [t \in Tasks |-> Nobody] /\ seen' = [t \in Tasks |-> "absent"]
    /\ premium' = [t \in Tasks |-> FALSE] /\ pays' = [t \in Tasks |-> FALSE]
    /\ write' = [t \in Tasks |-> "nothing"] /\ expires' = [t \in Tasks |-> "nothing"]
    /\ entitled' = {}
    /\ UNCHANGED <<row, subs, lapsed, collisions>>

----------------------------------------------------------------------------
\* The steps that may have to wait for another task, and the others.
Contended(t) == Connect(t) \/ Insert(t) \/ Flush(t) \/ Expire(t) \/ Activate(t)
Free(t) == LoadSubscriptions(t) \/ Handle(t) \/ Commit(t) \/ Report(t)

Next ==
    \/ \E u \in Users : RunOut(u) \/ \E t \in Tasks : Receive(t, u)
    \/ \E t \in Tasks : \/ Contended(t) \/ Free(t) \/ PoolTimeout(t)
                       \/ StatementTimeout(t) \/ DeadlockDetected(t)
    \/ Restart

Spec == Init /\ [][Next]_vars

\* Every query and every call to Telegram returns; the pool and the locks are
\* queues: whoever waits gets there; the database looks for circles
\* (deadlock_timeout) and aborts one of the two.  Timeouts need not come.
Fairness ==
    /\ \A t \in Tasks : SF_vars(Contended(t)) /\ WF_vars(Free(t))
    /\ WF_vars(\E t \in Tasks : DeadlockDetected(t))

LiveSpec == Spec /\ Fairness

----------------------------------------------------------------------------
(* Properties.                                                             *)

Connected == {"insert", "load", "flush", "expire", "handler", "activate", "commit"}

TypeOK ==
    /\ row \in [Users -> Flags \cup {"absent"}] /\ subs \in [Users -> BOOLEAN]
    /\ lapsed \in [Users -> BOOLEAN] /\ free \in 0..PoolSize
    /\ lock \in [Users -> Tasks \cup {Nobody}] /\ sublock \in [Users -> Tasks \cup {Nobody}]
    /\ pc \in [Tasks -> Connected \cup {"idle", "connect", "report"}]
    /\ user \in [Tasks -> Users \cup {Nobody}]
    /\ seen \in [Tasks -> Flags \cup {"absent"}]
    /\ premium \in [Tasks -> BOOLEAN] /\ pays \in [Tasks -> BOOLEAN]
    /\ write \in [Tasks -> Flags \cup {"nothing"}]
    /\ expires \in [Tasks -> {"nothing", "all", "some"}]
    /\ entitled \in SUBSET Watched /\ collisions \in [Users -> Nat]

\* Every connection is in the pool or with a task between its first query
\* and its commit or rollback, whatever fails in between; and only such a
\* task has rows locked.
ConnectionsConserved ==
    /\ free + Cardinality({t \in Tasks : pc[t] \in Connected}) = PoolSize
    /\ \A u \in Users : \A holder \in {lock[u], sublock[u]} \ {Nobody} :
          pc[holder] \in Connected

\* Whoever has a subscription when an update arrives, and keeps it, is
\* premium in the handler of that update, although two tasks that overlap
\* may leave users.is_premium wrong (the later UPDATE wins).
PremiumOnceCommitted ==
    \A t \in entitled : pc[t] \in {"flush", "expire", "handler", "activate", "commit"} => premium[t]

\* Only the first updates of a user, those in process before any of them is
\* committed, can fail on the unique telegram_id: over the whole life of the
\* user, one less than can be in process, or connected, at once.
OnlyFirstUpdatesCollide ==
    \A u \in Users : collisions[u] < Cardinality(Tasks) /\ collisions[u] < PoolSize

\* Every update ends, with a pool smaller than the number of tasks and rows
\* locked while Telegram is being called, without the help of a timeout; of
\* two that wait for each other (one has marked the subscriptions that ran out
\* and books a payment, the other has written the user and marks them too),
\* one is given up by the database.
EveryUpdateEnds == \A t \in Watched : pc[t] # "idle" ~> pc[t] = "idle"
============================================================================
