------------------------------ MODULE Publisher ------------------------------
(***************************************************************************)
(* The RabbitMQ publisher of the scraper (publisher.go): the workers share *)
(* one connection and one channel behind a mutex.  Publish tries to write  *)
(* the message Retries times; it dials when there is no channel and again  *)
(* after every failed write.  connect dials up to MaxDials times, opens a  *)
(* channel, declares the exchange and the queues, and swaps the new        *)
(* connection in for the old one.                                          *)
(*                                                                         *)
(* A connection is "alive"; "stale" when its peer is gone and the client   *)
(* has not noticed, so that a write may succeed and be lost; "shut" when   *)
(* the client library has noticed and every write fails.  There are no     *)
(* publisher confirms.  A write that fails has not reached the queue: the  *)
(* frames of a message are flushed together and a partial one is dropped.  *)
(***************************************************************************)
EXTENDS Naturals, FiniteSets

CONSTANTS
    Callers,     \* the worker goroutines
    Main,        \* the goroutine of main(): NewPublisher and Close
    Conns,       \* connections; a closed one may be used again
    NoConn,      \* nil
    Nobody,      \* the mutex is free
    Retries,     \* publishRetries, 3 in the code
    MaxDials     \* maxReconnects, 7 in the code

ASSUME PublisherAssumption ==
    /\ Main \notin Callers /\ Nobody \notin Callers \cup {Main}
    /\ NoConn \notin Conns
    /\ Retries \in Nat \ {0} /\ MaxDials \in Nat \ {0}

VARIABLES
    broker,      \* "up" or "down"
    health,      \* health[s] of every connection
    held,        \* connections the process has opened and not closed
    conn,        \* p.conn, with p.ch on it
    fresh,       \* conn of connect(): dialled, not yet swapped in
    owner,       \* who is inside the mutex (Main: inside NewPublisher or Close)
    at,          \* where the owner is
    origin,      \* who called connect(): "new", "head" or "tail"
    attempt,     \* of the owner's Publish
    dials,       \* failed dials of the owner's connect()
    pc,          \* pc[c]: "idle", "waiting" for the mutex, or "inside"
    life,        \* of the process: "running" or "ended"
    copies,      \* history: copies of the last message of c in the queue
    result,      \* history: what the last call of c returned
    troubles     \* history: faults since the owner's call began, up to Retries

world == <<broker, health>>
resources == <<held, conn, fresh>>
control == <<owner, at, origin, attempt, dials>>
calls == <<pc, copies, result>>
vars == <<world, resources, control, calls, life, troubles>>

Outcomes == {"none", "nil", "error"}

\* A process starts in NewPublisher, which calls connect() before anybody can
\* call Publish.
Init ==
    /\ broker \in {"up", "down"}
    /\ health = [s \in Conns |-> "shut"]
    /\ held = {} /\ conn = NoConn /\ fresh = NoConn
    /\ owner = Main /\ at = "dial" /\ origin = "new" /\ attempt = 0 /\ dials = 0
    /\ pc = [c \in Callers |-> "idle"]
    /\ copies = [c \in Callers |-> 0]
    /\ result = [c \in Callers |-> "none"]
    /\ life = "running" /\ troubles = 0

----------------------------------------------------------------------------
(* The broker and the network.                                             *)

OneMore == IF troubles < Retries THEN troubles + 1 ELSE troubles

\* A connection is cut: the client does not know yet.
Break(s) ==
    /\ s \in held /\ health[s] = "alive"
    /\ health' = [health EXCEPT ![s] = "stale"]
    /\ troubles' = OneMore
    /\ UNCHANGED <<broker, resources, control, calls, life>>

\* The reader or the heartbeat of the client library notices.
Notice(s) ==
    /\ s \in held /\ health[s] = "stale"
    /\ health' = [health EXCEPT ![s] = "shut"]
    /\ UNCHANGED <<broker, resources, control, calls, life, troubles>>

BrokerFails ==
    /\ broker = "up" /\ broker' = "down"
    /\ health' = [s \in Conns |-> IF health[s] = "alive" THEN "stale" ELSE health[s]]
    /\ troubles' = OneMore
    /\ UNCHANGED <<resources, control, calls, life>>

BrokerRecovers ==
    /\ broker = "down" /\ broker' = "up"
    /\ UNCHANGED <<health, resources, control, calls, life, troubles>>

----------------------------------------------------------------------------
(* Publish and connect.                                                    *)

\* A worker calls Publish and waits at p.mu.Lock().
Call(c) ==
    /\ pc[c] = "idle" /\ life = "running" /\ origin # "new"
    /\ pc' = [pc EXCEPT ![c] = "waiting"]
    /\ copies' = [copies EXCEPT ![c] = 0]
    /\ result' = [result EXCEPT ![c] = "none"]
    /\ UNCHANGED <<world, resources, control, life, troubles>>

\* The mutex is granted.  A connection that broke before counts against the
\* first attempt.
Lock(c) ==
    /\ pc[c] = "waiting" /\ owner = Nobody
    /\ owner' = c /\ at' = "head" /\ attempt' = 1
    /\ pc' = [pc EXCEPT ![c] = "inside"]
    /\ troubles' = IF conn \in held /\ health[conn] # "alive" THEN 1 ELSE 0
    /\ UNCHANGED <<world, resources, origin, dials, copies, result, life>>

\* Variant: the error return forgets that the mutex is held.
KeepLock(r) ==
    /\ owner' = IF r = "error" THEN owner ELSE Nobody
    /\ at' = "free"
    /\ pc' = [pc EXCEPT ![owner] = "idle"]
    /\ result' = [result EXCEPT ![owner] = r]

\* return, with the deferred Unlock.
Return(r) ==
    /\ owner' = Nobody /\ at' = "free"
    /\ pc' = [pc EXCEPT ![owner] = "idle"]
    /\ result' = [result EXCEPT ![owner] = r]

\* Variant: the last attempt is not made.
TooFew == attempt >= Retries

\* Variant: it is tried until it works.
NeverExhausted == FALSE

\* for attempt := 1; attempt <= publishRetries
Exhausted == attempt > Retries

\* The head of the for loop of Publish.
LoopHead ==
    /\ at = "head"
    /\ \/ Exhausted /\ Return("error") /\ UNCHANGED <<origin, dials>>
       \/ /\ ~Exhausted /\ conn = NoConn
          /\ at' = "dial" /\ origin' = "head" /\ dials' = 0
          /\ UNCHANGED <<owner, pc, result>>
       \/ /\ ~Exhausted /\ conn # NoConn
          /\ at' = "write"
          /\ UNCHANGED <<owner, origin, dials, pc, result>>
    /\ UNCHANGED <<world, resources, attempt, copies, life, troubles>>

\* continue.
NextAttempt ==
    /\ at' = "head" /\ attempt' = attempt + 1
    /\ UNCHANGED <<owner, origin>>

\* connect() returned an error: the next attempt, or the end of the process.
ConnectFailed ==
    \/ origin # "new" /\ NextAttempt /\ UNCHANGED life
    \/ /\ origin = "new"
       /\ owner' = Nobody /\ at' = "free" /\ life' = "ended"
       /\ UNCHANGED <<origin, attempt>>

\* amqp.Dial, up to MaxDials times.
Dial ==
    /\ at = "dial"
    /\ \/ /\ broker = "up"
          /\ \E s \in Conns \ held :
                /\ fresh' = s /\ held' = held \cup {s}
                /\ health' = [health EXCEPT ![s] = "alive"]
          /\ at' = "setup"
          /\ UNCHANGED <<owner, origin, attempt, dials, life, troubles>>
       \/ /\ broker = "down"
          /\ dials' = dials + 1
          /\ \/ dials + 1 < MaxDials /\ UNCHANGED <<owner, at, origin, attempt, life, troubles>>
             \/ dials + 1 = MaxDials /\ ConnectFailed /\ troubles' = OneMore
          /\ UNCHANGED <<health, held, fresh>>
    /\ UNCHANGED <<broker, conn, calls>>

\* What connect() opens and declares after the dial, one after the other.
SetupSteps == {"channel", "exchange", "deadLetterQueue", "binding", "queue"}

\* Variant: the last error path of connect() does not close the new connection.
KeepFresh(step) == IF step = "queue" THEN held ELSE held \ {fresh}

\* The error path of a step: ch.Close(), conn.Close().
CloseFresh(step) == held \ {fresh}

\* A step fails with its connection; or the broker refuses it and closes the
\* channel, while the connection is fine.
SetupFails ==
    /\ at = "setup"
    /\ \E step \in SetupSteps : held' = CloseFresh(step)
    /\ troubles' = IF health[fresh] = "alive" THEN OneMore ELSE troubles
    /\ fresh' = NoConn
    /\ ConnectFailed
    /\ UNCHANGED <<world, conn, dials, calls>>

\* connect() swaps the connections and returns nil.
SetupSucceeds ==
    /\ at = "setup" /\ health[fresh] = "alive"
    /\ held' = held \ {conn}
    /\ conn' = fresh /\ fresh' = NoConn
    /\ \/ /\ origin = "head" /\ at' = "write"
          /\ UNCHANGED <<owner, origin, attempt>>
       \/ origin = "tail" /\ NextAttempt
       \/ /\ origin = "new" /\ owner' = Nobody /\ at' = "free" /\ origin' = "head"
          /\ UNCHANGED attempt
    /\ UNCHANGED <<world, dials, calls, life, troubles>>

\* p.ch.PublishWithContext returns nil: the message is in the queue, or it is
\* lost on its way through a connection nobody listens to any more.
WriteSucceeds ==
    /\ at = "write" /\ health[conn] # "shut"
    /\ copies' = [copies EXCEPT ![owner] = IF health[conn] = "alive" THEN @ + 1 ELSE @]
    /\ Return("nil")
    /\ UNCHANGED <<world, resources, origin, attempt, dials, life, troubles>>

\* Variant: a write that reached the queue is taken for a failure.
WriteUnsure ==
    /\ at = "write"
    /\ copies' = [copies EXCEPT ![owner] = IF health[conn] = "alive" THEN @ + 1 ELSE @]
    /\ held' = held \ {conn} /\ conn' = NoConn
    /\ at' = "dial" /\ origin' = "tail" /\ dials' = 0
    /\ UNCHANGED <<world, fresh, owner, attempt, pc, result, life, troubles>>

\* It returns an error: closeResources(), then connect() again.
WriteFails ==
    /\ at = "write" /\ health[conn] # "alive"
    /\ held' = held \ {conn} /\ conn' = NoConn
    /\ at' = "dial" /\ origin' = "tail" /\ dials' = 0
    /\ UNCHANGED <<world, fresh, owner, attempt, calls, life, troubles>>

\* Close(), deferred by run(), once the workers are done.
Close ==
    /\ life = "running" /\ owner = Nobody /\ \A c \in Callers : pc[c] = "idle"
    /\ held' = held \ {conn} /\ conn' = NoConn
    /\ life' = "ended"
    /\ UNCHANGED <<world, fresh, control, calls, troubles>>

\* The container is started again.
Restart ==
    /\ life = "ended"
    /\ held' = {} /\ conn' = NoConn /\ fresh' = NoConn
    /\ owner' = Main /\ at' = "dial" /\ origin' = "new" /\ attempt' = 0 /\ dials' = 0
    /\ result' = [c \in Callers |-> "none"] /\ copies' = [c \in Callers |-> 0]
    /\ life' = "running" /\ troubles' = 0
    /\ UNCHANGED <<world, pc>>

----------------------------------------------------------------------------
Step == LoopHead \/ Dial \/ SetupFails \/ SetupSucceeds \/ WriteSucceeds \/ WriteFails

Next ==
    \/ \E s \in Conns : Break(s) \/ Notice(s)
    \/ BrokerFails \/ BrokerRecovers
    \/ \E c \in Callers : Call(c) \/ Lock(c)
    \/ Step \/ Close \/ Restart

Spec == Init /\ [][Next]_vars

\* The owner of the mutex keeps going (a dial and a write always return), and
\* Go's mutex hands itself to whoever has waited too long.  The broker may
\* stay down for ever.
Fairness == WF_vars(Step) /\ \A c \in Callers : SF_vars(Lock(c))

LiveSpec == Spec /\ Fairness

----------------------------------------------------------------------------
(* Properties.                                                             *)

TypeOK ==
    /\ broker \in {"up", "down"}
    /\ health \in [Conns -> {"alive", "stale", "shut"}]
    /\ held \in SUBSET Conns
    /\ conn \in Conns \cup {NoConn} /\ fresh \in Conns \cup {NoConn}
    /\ owner \in Callers \cup {Main, Nobody}
    /\ at \in {"free", "head", "dial", "setup", "write"}
    /\ origin \in {"new", "head", "tail"}
    /\ attempt \in 0..(Retries + 1) /\ dials \in 0..MaxDials
    /\ pc \in [Callers -> {"idle", "waiting", "inside"}]
    /\ life \in {"running", "ended"}
    /\ copies \in [Callers -> Nat]
    /\ result \in [Callers -> Outcomes]
    /\ troubles \in 0..Retries

\* The process holds open the connection it uses and the one it is setting
\* up, and no other: no path through connect, Publish and Close leaks one.
NoConnectionLeak == held = {conn, fresh} \ {NoConn}

\* Publish gives up only after as many faults as it has attempts: up to
\* Retries - 1 broken connections in one call, the one it found broken
\* included, are survived as long as the broker takes new ones.
GivesUpOnlyAfterRetries ==
    [][\A c \in Callers : pc[c] = "inside" /\ result'[c] = "error" => troubles >= Retries]_vars

\* The publisher implements PublishContract: at most one copy per call, and
\* none if the call returns an error.
CallState(c) == IF pc[c] = "idle" THEN result[c] ELSE "open"

C == INSTANCE PublishContract WITH
         call <- [c \in Callers |-> CallState(c)], queued <- copies
ContractSpec == C!Spec

\* Every call of Publish returns, even if the broker never comes back.
EveryCallReturns == \A c \in Callers : pc[c] # "idle" ~> pc[c] = "idle"
============================================================================
