------------------------------ MODULE Premium ------------------------------
(***************************************************************************)
(* Premium paid with Telegram Stars: /premium sends an invoice, a payment  *)
(* becomes a row of table subscriptions (handlers/premium.py, services/    *)
(* premium_service.py, services/subscription_service.py).                  *)
(*                                                                         *)
(* The middleware loads the user with all subscriptions before the handler *)
(* runs, and commits after it: a handler decides on what it saw.  A row is *)
(* its expires_at.  Its status adds nothing: refresh_premium_status makes  *)
(* a row EXPIRED only once expires_at has passed, every reader looks at    *)
(* expires_at as well, and users.is_premium is computed anew from the rows *)
(* before each handler.  Time is counted in days.                          *)
(***************************************************************************)
EXTENDS Naturals, Sequences, FiniteSets

CONSTANTS
    Users,
    Nobody,        \* a task without an update
    Handlers,      \* updates that may be in process at the same time
    Duration,      \* premium_duration_days
    Faults,        \* what may fail: "answer", "commit", "restart"
    MaxDay,        \* bound: days
    MaxOpen,       \* at most so many invoices and payments of a user are open
    MaxPayments    \* bound: payments

ASSUME PremiumAssumption ==
    /\ Nobody \notin Users
    /\ Duration \in Nat \ {0}
    /\ MaxDay \in Nat \ {0} /\ MaxOpen \in Nat /\ MaxPayments \in Nat

VARIABLES
    today,
    expiries,   \* table subscriptions: expires_at of each row of each user
    invoices,   \* invoices in each chat that have not been paid
    inbox,      \* successful_payment updates Telegram has for the bot
    pc,         \* where each task is
    task,       \* the update of each task: who sent it, whose invoice it is
    sees,       \* user.subscriptions as the middleware loaded it
    payments,   \* history: payments so far
    owed,       \* history: the day until which each user has paid
    excused     \* history: users who lost a payment to a fault or a refusal

telegram == <<invoices, inbox>>
tasks == <<pc, task, sees>>
history == <<payments, owed, excused>>
vars == <<today, expiries, telegram, tasks, history>>

NoUpdate == [payer |-> Nobody, owner |-> Nobody]
Update == [payer : Users, owner : Users]
LastDay == MaxDay + MaxPayments * Duration

Init ==
    /\ today = 1
    /\ expiries = [u \in Users |-> {}]
    /\ invoices = [u \in Users |-> 0] /\ inbox = <<>>
    /\ pc = [h \in Handlers |-> "idle"]
    /\ task = [h \in Handlers |-> NoUpdate]
    /\ sees = [h \in Handlers |-> {}]
    /\ payments = 0 /\ excused = {}
    /\ owed = [u \in Users |-> 0]

\* The subscriptions among rows that have not run out.
Running(rows) == {e \in rows : e > today}

NextDay ==
    /\ today < MaxDay /\ today' = today + 1
    /\ UNCHANGED <<expiries, telegram, tasks, history>>

\* get_or_create_user_in_session: the task sees the rows of its user.
Load(h, update, place) ==
    /\ pc[h] = "idle"
    /\ pc' = [pc EXCEPT ![h] = place]
    /\ task' = [task EXCEPT ![h] = update]
    /\ sees' = [sees EXCEPT ![h] = expiries[update.payer]]

Finish(h) ==
    /\ pc' = [pc EXCEPT ![h] = "idle"]
    /\ task' = [task EXCEPT ![h] = NoUpdate]
    /\ sees' = [sees EXCEPT ![h] = {}]

----------------------------------------------------------------------------
(* /premium                                                                *)

PremiumCommand(h, u) ==
    /\ Load(h, [payer |-> u, owner |-> u], "command")
    /\ UNCHANGED <<today, expiries, telegram, history>>

Waiting(u) == {n \in DOMAIN inbox : inbox[n].payer = u}
InProcess(u) == {h \in Handlers : pc[h] \in {"payment", "answer"} /\ task[h].payer = u}
Open(u) == invoices[u] + Cardinality(Waiting(u)) + Cardinality(InProcess(u))

\* cmd_premium: a user who has Premium gets the date, the others an invoice
\* (none at the bound).
SendInvoice(h) ==
    LET u == task[h].payer
    IN  /\ pc[h] = "command"
        /\ \/ /\ Running(sees[h]) = {} /\ Open(u) < MaxOpen
              /\ invoices' = [invoices EXCEPT ![u] = @ + 1]
           \/ /\ Running(sees[h]) # {} \/ "answer" \in Faults \/ Open(u) >= MaxOpen
              /\ UNCHANGED invoices
        /\ Finish(h)
        /\ UNCHANGED <<today, expiries, inbox, history>>

----------------------------------------------------------------------------
(* The payment.                                                            *)

Later(d, e) == IF d > e THEN d ELSE e

\* User u pays an invoice, their own or a forwarded one: handle_pre_checkout
\* agrees to every payload that parses, Telegram takes the stars and queues
\* successful_payment.
Pay(u, owner) ==
    /\ invoices[owner] > 0 /\ payments < MaxPayments
    /\ invoices' = [invoices EXCEPT ![owner] = @ - 1]
    /\ inbox' = Append(inbox, [payer |-> u, owner |-> owner])
    /\ payments' = payments + 1
    /\ owed' = [owed EXCEPT ![u] = Later(@, today) + Duration]
    /\ UNCHANGED <<today, expiries, tasks, excused>>

ReceivePayment(h) ==
    /\ inbox # <<>> /\ inbox' = Tail(inbox)
    /\ Load(h, Head(inbox), "payment")
    /\ UNCHANGED <<today, expiries, invoices, history>>

\* Variant: the running subscription is overlooked.
FromToday(rows) == {today}

\* base_time: the first running row of a list in no particular order.
BaseTime(rows) == IF Running(rows) = {} THEN {today} ELSE Running(rows)

\* Variant: the payment counts twice.
ExtendTwice(day) == day + 2 * Duration

Extend(day) == day + Duration

\* activate_stars_subscription; the rows the task sees now hold the new row
\* only.  A payment of somebody else's invoice is refused.
Activate(h) ==
    /\ pc[h] = "payment"
    /\ \/ /\ task[h].payer # task[h].owner
          /\ Finish(h)
          /\ excused' = excused \cup {task[h].payer}
       \/ /\ task[h].payer = task[h].owner
          /\ \E base \in BaseTime(sees[h]) : sees' = [sees EXCEPT ![h] = {Extend(base)}]
          /\ pc' = [pc EXCEPT ![h] = "answer"]
          /\ UNCHANGED <<task, excused>>
    /\ UNCHANGED <<today, expiries, telegram, payments, owed>>

\* The answer and the commit; if either fails, the row is rolled back.
CommitPayment(h) ==
    LET u == task[h].payer
    IN  /\ pc[h] = "answer"
        /\ \/ expiries' = [expiries EXCEPT ![u] = @ \cup sees[h]] /\ UNCHANGED excused
           \/ /\ Faults \cap {"answer", "commit"} # {}
              /\ excused' = excused \cup {u}
              /\ UNCHANGED expiries
        /\ Finish(h)
        /\ UNCHANGED <<today, telegram, payments, owed>>

----------------------------------------------------------------------------
Paying(u) == Waiting(u) \cup InProcess(u) # {}

\* The bot goes down and comes back with drop_pending_updates=True.
Restart ==
    /\ "restart" \in Faults
    /\ excused' = excused \cup {u \in Users : Paying(u)}
    /\ inbox' = <<>>
    /\ pc' = [h \in Handlers |-> "idle"]
    /\ task' = [h \in Handlers |-> NoUpdate]
    /\ sees' = [h \in Handlers |-> {}]
    /\ UNCHANGED <<today, expiries, invoices, payments, owed>>

Next ==
    \/ NextDay \/ Restart
    \/ \E u, owner \in Users : Pay(u, owner)
    \/ \E h \in Handlers :
          \/ \E u \in Users : PremiumCommand(h, u)
          \/ SendInvoice(h) \/ ReceivePayment(h) \/ Activate(h) \/ CommitPayment(h)

Spec == Init /\ [][Next]_vars

----------------------------------------------------------------------------
(* Properties.                                                             *)

\* No subscription ends later than every payment in a row would end.
TypeOK ==
    /\ today \in 1..MaxDay
    /\ expiries \in [Users -> SUBSET (1..LastDay)]
    /\ invoices \in [Users -> 0..MaxOpen]
    /\ inbox \in Seq(Update)
    /\ pc \in [Handlers -> {"idle", "command", "payment", "answer"}]
    /\ task \in [Handlers -> Update \cup {NoUpdate}]
    /\ sees \in [Handlers -> SUBSET (1..LastDay)]
    /\ payments \in 0..MaxPayments
    /\ owed \in [Users -> 0..LastDay]
    /\ excused \in SUBSET Users

\* "Unlimited search alerts for N days" (premium_service.py:40): whoever has
\* paid n times has n times as many days, however the payments overlap with
\* a subscription that runs; save for users who lost a payment to a fault or
\* paid the invoice of somebody else.
PaidTimeHonoured ==
    \A u \in Users :
        owed[u] > 0 /\ u \notin excused /\ ~Paying(u) => \E e \in expiries[u] : e >= owed[u]
============================================================================
