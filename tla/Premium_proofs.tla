--------------------------- MODULE Premium_proofs ---------------------------
(***************************************************************************)
(* Proofs about Premium, for any users, duration, days and payments.       *)
(***************************************************************************)
EXTENDS Premium, FiniteSetTheorems, TLAPS

----------------------------------------------------------------------------
(* Types, and how far subscriptions reach.                                 *)

Busy == {h \in Handlers : pc[h] # "idle"}
Entering == {h \in Handlers : pc[h] = "payment"}

\* TypeOK but for the upper bounds, and what an update in process is.
Types ==
    /\ today \in 1..MaxDay
    /\ expiries \in [Users -> SUBSET (Nat \ {0})]
    /\ invoices \in [Users -> 0..MaxOpen]
    /\ inbox \in Seq(Update)
    /\ pc \in [Handlers -> {"idle", "command", "payment", "answer"}]
    /\ task \in [Handlers -> Update \cup {NoUpdate}]
    /\ sees \in [Handlers -> SUBSET (Nat \ {0})]
    /\ payments \in 0..MaxPayments
    /\ owed \in [Users -> Nat]
    /\ excused \in SUBSET Users
    /\ IsFiniteSet(Busy)
    /\ \A h \in Busy : task[h] \in Update

\* The payments that are booked or lost, and the day they reach at most.
Booked == payments - Len(inbox) - Cardinality(Entering)
Days(n) == MaxDay + n * Duration

\* A payment adds its days once it is booked, and to what is owed at once.
Reach ==
    /\ Booked \in Nat
    /\ \A u \in Users : \A e \in expiries[u] : e <= Days(Booked)
    /\ \A h \in Handlers : \A e \in sees[h] : e <= Days(Booked)
    /\ \A u \in Users : owed[u] <= Days(payments)

\* One payment more, and more of them.
LEMMA DaysFacts ==
    /\ \A n \in Nat : Days(n) \in Nat /\ MaxDay <= Days(n) /\ Days(n + 1) = Days(n) + Duration
    /\ \A m, n \in Nat : m <= n => Days(m) <= Days(n)
  <1>1. MaxDay \in Nat /\ Duration \in Nat
    BY PremiumAssumption DEF PremiumAssumption
  <1>2. ASSUME NEW n \in Nat
        PROVE  n * Duration \in Nat /\ (n + 1) * Duration = n * Duration + Duration
    BY <1>1, SMT
  <1>3. ASSUME NEW m \in Nat, NEW n \in Nat, m <= n
        PROVE  m * Duration <= n * Duration
    BY <1>1, <1>3, SMT
  <1> QED
    BY <1>1, <1>2, <1>3 DEF Days

\* The tasks that book a payment are among the busy ones.
LEMMA EnteringFacts == Types => IsFiniteSet(Entering) /\ Cardinality(Entering) \in Nat
  <1> SUFFICES ASSUME Types PROVE IsFiniteSet(Entering) /\ Cardinality(Entering) \in Nat
    OBVIOUS
  <1>1. Entering \in SUBSET Busy
    BY DEF Entering, Busy
  <1> QED
    BY <1>1, FS_Subset, FS_CardinalityType DEF Types

\* A task takes an update.
LEMMA LoadTypes ==
  ASSUME Types, NEW h \in Handlers, NEW up \in Update, NEW place \in {"command", "payment"},
         Load(h, up, place)
  PROVE  /\ pc' \in [Handlers -> {"idle", "command", "payment", "answer"}]
         /\ task' \in [Handlers -> Update \cup {NoUpdate}]
         /\ sees' \in [Handlers -> SUBSET (Nat \ {0})]
         /\ IsFiniteSet(Busy') /\ (\A g \in Busy' : task'[g] \in Update)
         /\ sees'[h] = expiries[up.payer] /\ \A g \in Handlers \ {h} : sees'[g] = sees[g]
         /\ Entering' = IF place = "payment" THEN Entering \cup {h} ELSE Entering
         /\ h \notin Entering
  <1>1. up.payer \in Users
    BY DEF Update
  <1>2. Busy' = Busy \cup {h}
    BY DEF Types, Load, Busy
  <1>3. IsFiniteSet(Busy')
    BY <1>2, FS_AddElement DEF Types
  <1> QED
    BY <1>1, <1>3 DEF Types, Load, Busy, Entering

\* A task is done.
LEMMA FinishTypes ==
  ASSUME Types, NEW h \in Handlers, Finish(h)
  PROVE  /\ pc' \in [Handlers -> {"idle", "command", "payment", "answer"}]
         /\ task' \in [Handlers -> Update \cup {NoUpdate}]
         /\ sees' \in [Handlers -> SUBSET (Nat \ {0})]
         /\ IsFiniteSet(Busy') /\ (\A g \in Busy' : task'[g] \in Update)
         /\ \A g \in Handlers : sees'[g] = IF g = h THEN {} ELSE sees[g]
         /\ Entering' = Entering \ {h}
  <1>1. Busy' = Busy \ {h}
    BY DEF Types, Finish, Busy
  <1>2. IsFiniteSet(Busy')
    BY <1>1, FS_RemoveElement DEF Types
  <1> QED
    BY <1>2 DEF Types, Finish, Busy, Entering

\* A step that books nothing and adds nothing.
LEMMA ReachStays ==
  ASSUME Types, Types', Reach, Booked' = Booked, payments <= payments',
         expiries' = expiries, owed' = owed,
         \A h \in Handlers : sees'[h] \in {sees[h], {}} \cup {expiries[u] : u \in Users}
  PROVE  Reach'
  <1>1. payments \in Nat /\ payments' \in Nat
    BY DEF Types
  <1>2. \A u \in Users : owed[u] \in Nat
    BY DEF Types
  <1>3. \A u \in Users : owed'[u] <= Days(payments')
    BY <1>1, <1>2, DaysFacts DEF Reach
  <1>4. \A h \in Handlers : \A e \in sees'[h] : e <= Days(Booked')
    BY DEF Reach, Days
  <1> QED
    BY <1>3, <1>4 DEF Reach, Days

\* The queue of updates.
LEMMA InboxFacts ==
  ASSUME Types, inbox # <<>>
  PROVE  /\ Head(inbox) \in Update /\ Tail(inbox) \in Seq(Update)
         /\ Len(inbox) \in Nat /\ Len(Tail(inbox)) = Len(inbox) - 1
         /\ \A n \in 1..(Len(inbox) - 1) : Tail(inbox)[n] = inbox[n + 1]
         /\ Head(inbox) = inbox[1]
  BY DEF Types

\* Only finitely many updates of a user are open.
LEMMA OpenFacts ==
  ASSUME Types, NEW u \in Users
  PROVE  /\ IsFiniteSet(Waiting(u)) /\ Cardinality(Waiting(u)) \in Nat
         /\ IsFiniteSet(InProcess(u)) /\ Cardinality(InProcess(u)) \in Nat
  <1>1. Len(inbox) \in Nat
    BY DEF Types
  <1>2. Waiting(u) \in SUBSET (1..Len(inbox))
    BY DEF Waiting, Types
  <1>3. IsFiniteSet(Waiting(u))
    <2>1. IsFiniteSet(1..Len(inbox))
      BY <1>1, FS_Interval
    <2> QED
      BY <1>2, <2>1, FS_Subset
  <1>4. InProcess(u) \in SUBSET Busy
    BY DEF InProcess, Busy
  <1>5. IsFiniteSet(InProcess(u))
    BY <1>4, FS_Subset DEF Types
  <1> QED
    BY <1>3, <1>5, FS_CardinalityType

\* The first day.
LEMMA InitTypes == Init => Types /\ Reach
  <1> SUFFICES ASSUME Init PROVE Types /\ Reach
    OBVIOUS
  <1> USE PremiumAssumption DEF PremiumAssumption
  <1>1. Busy = {} /\ Entering = {}
    BY DEF Init, Busy, Entering
  <1>2. IsFiniteSet(Busy) /\ Cardinality(Entering) = 0
    BY <1>1, FS_EmptySet
  <1>3. Types
    BY <1>1, <1>2 DEF Init, Types
  <1>4. Booked = 0 /\ payments = 0
    <2>1. payments = 0 /\ Len(inbox) = 0
      BY DEF Init
    <2> QED
      BY <1>2, <2>1 DEF Booked
  <1>5. Reach
    BY <1>4, DaysFacts DEF Init, Reach
  <1> QED
    BY <1>3, <1>5

\* A payment is owed for from the day it is made.
LEMMA PayTypes ==
  ASSUME Types, Reach, NEW u \in Users, NEW owner \in Users, Pay(u, owner)
  PROVE  Types' /\ Reach'
  <1> USE PremiumAssumption DEF PremiumAssumption
  <1>1. payments' = payments + 1 /\ payments \in Nat /\ payments' \in 0..MaxPayments /\ today <= MaxDay
    BY DEF Pay, Types
  <1>2. [payer |-> u, owner |-> owner] \in Update
    BY DEF Update
  <1>3. inbox' \in Seq(Update) /\ Len(inbox') = Len(inbox) + 1 /\ Len(inbox) \in Nat
    BY <1>2 DEF Pay, Types
  <1>4. \A v \in Users : owed[v] \in Nat /\ today \in Nat
    BY DEF Types
  <1>5. owed' \in [Users -> Nat]
    BY <1>4 DEF Pay, Types, Later
  <1>6. Types'
    <2>1. invoices' \in [Users -> 0..MaxOpen]
      BY DEF Pay, Types
    <2>2. Busy' = Busy
      BY DEF Pay, tasks, Busy
    <2> QED
      BY <1>1, <1>3, <1>5, <2>1, <2>2 DEF Pay, Types, tasks
  <1>7. Booked' = Booked
    <2>1. Entering' = Entering
      BY DEF Pay, tasks, Entering
    <2> QED
      BY <1>1, <1>3, <2>1, EnteringFacts DEF Booked
  <1>8. Days(payments) \in Nat /\ Days(payments') = Days(payments) + Duration /\ MaxDay <= Days(payments)
    BY <1>1, DaysFacts
  <1>9. \A v \in Users : owed'[v] <= Days(payments')
    BY <1>1, <1>4, <1>8 DEF Pay, Types, Later, Reach
  <1> QED
    BY <1>6, <1>7, <1>9 DEF Pay, tasks, Reach, Days

\* The update of a payment reaches the bot.
LEMMA ReceiveTypes ==
  ASSUME Types, Reach, NEW h \in Handlers, ReceivePayment(h)
  PROVE  Types' /\ Reach'
  <1>1. Head(inbox) \in Update /\ inbox' \in Seq(Update) /\ Len(inbox') = Len(inbox) - 1 /\ Len(inbox) \in Nat
    BY InboxFacts DEF ReceivePayment
  <1>2. Load(h, Head(inbox), "payment")
    BY DEF ReceivePayment
  <1> HIDE DEF Types
  <1>3. /\ pc' \in [Handlers -> {"idle", "command", "payment", "answer"}]
        /\ task' \in [Handlers -> Update \cup {NoUpdate}]
        /\ sees' \in [Handlers -> SUBSET (Nat \ {0})]
        /\ IsFiniteSet(Busy') /\ (\A g \in Busy' : task'[g] \in Update)
    BY <1>1, <1>2, LoadTypes
  <1>4. /\ sees'[h] = expiries[Head(inbox).payer] /\ \A g \in Handlers \ {h} : sees'[g] = sees[g]
        /\ Entering' = Entering \cup {h} /\ h \notin Entering
    BY <1>1, <1>2, LoadTypes
  <1>5. Types'
    BY <1>1, <1>3 DEF ReceivePayment, history, Types
  <1>6. Booked' = Booked
    <2>1. Cardinality(Entering') = Cardinality(Entering) + 1
      BY <1>4, EnteringFacts, FS_AddElement
    <2> QED
      BY <1>1, <2>1, EnteringFacts DEF Booked, ReceivePayment, history, Types
  <1>7. Head(inbox).payer \in Users
    BY <1>1 DEF Update
  <1> QED
    BY <1>4, <1>5, <1>6, <1>7, ReachStays DEF ReceivePayment, history, Types

\* A payment is booked, or refused.
LEMMA ActivateTypes ==
  ASSUME Types, Reach, NEW h \in Handlers, Activate(h)
  PROVE  Types' /\ Reach'
  <1> USE PremiumAssumption DEF PremiumAssumption
  <1>1. h \in Entering /\ h \in Busy /\ task[h] \in Update /\ task[h].payer \in Users
    BY DEF Activate, Entering, Busy, Types, Update
  <1>2. /\ today' = today /\ expiries' = expiries /\ invoices' = invoices /\ inbox' = inbox
        /\ payments' = payments /\ owed' = owed
    BY DEF Activate, telegram
  <1>3. Cardinality(Entering \ {h}) = Cardinality(Entering) - 1
    BY <1>1, EnteringFacts, FS_RemoveElement
  <1>4. Entering' = Entering \ {h} => Booked' = Booked + 1
    BY <1>2, <1>3, EnteringFacts DEF Booked, Types
  <1>5. /\ Booked \in Nat /\ Days(Booked) \in Nat /\ Days(Booked + 1) = Days(Booked) + Duration
        /\ MaxDay <= Days(Booked)
    BY DaysFacts DEF Reach
  <1>6. CASE Finish(h) /\ excused' = excused \cup {task[h].payer}
    <2>1. Types'
      BY <1>1, <1>2, <1>6, FinishTypes DEF Types
    <2>2. Entering' = Entering \ {h} /\ \A g \in Handlers : sees'[g] = IF g = h THEN {} ELSE sees[g]
      BY <1>6, FinishTypes
    <2>3. \A g \in Handlers : \A e \in sees'[g] : e <= Days(Booked')
      <3>1. \A g \in Handlers : sees[g] \subseteq Nat
        BY DEF Types
      <3>2. \A g \in Handlers : sees'[g] \subseteq sees[g]
        BY <2>2
      <3> QED
        BY <1>4, <1>5, <2>2, <3>1, <3>2 DEF Reach
    <2>4. \A v \in Users : \A e \in expiries'[v] : e <= Days(Booked')
      BY <1>2, <1>4, <1>5, <2>2 DEF Reach, Types
    <2> QED
      BY <1>2, <1>4, <1>5, <2>1, <2>2, <2>3, <2>4 DEF Reach, Days
  <1>7. CASE /\ \E base \in BaseTime(sees[h]) : sees' = [sees EXCEPT ![h] = {Extend(base)}]
             /\ pc' = [pc EXCEPT ![h] = "answer"]
             /\ UNCHANGED <<task, excused>>
    <2>1. PICK base \in BaseTime(sees[h]) : sees' = [sees EXCEPT ![h] = {Extend(base)}]
      BY <1>7
    <2>2. base \in Nat \ {0} /\ base <= Days(Booked)
      <3>1. today \in Nat \ {0} /\ today <= MaxDay
        BY DEF Types
      <3>2. sees[h] \subseteq Nat \ {0} /\ \A e \in sees[h] : e <= Days(Booked)
        BY DEF Types, Reach
      <3> QED
        BY <2>1, <3>1, <3>2, <1>5 DEF BaseTime, Running
    <2>3. Extend(base) \in Nat \ {0} /\ Extend(base) <= Days(Booked + 1)
      BY <2>2, <1>5 DEF Extend
    <2>4. sees' \in [Handlers -> SUBSET (Nat \ {0})]
      BY <2>1, <2>3 DEF Types
    <2>5. Busy' = Busy /\ Entering' = Entering \ {h}
      BY <1>1, <1>7 DEF Types, Busy, Entering
    <2>6. Types'
      BY <1>2, <1>7, <2>4, <2>5 DEF Types
    <2>7. \A g \in Handlers : \A e \in sees'[g] : e <= Days(Booked')
      <3>1. \A g \in Handlers : sees[g] \subseteq Nat
        BY DEF Types
      <3>2. \A g \in Handlers : g # h => sees'[g] = sees[g]
        BY <2>1 DEF Types
      <3>3. sees'[h] = {Extend(base)}
        BY <2>1 DEF Types
      <3> QED
        BY <1>4, <1>5, <2>3, <2>5, <3>1, <3>2, <3>3 DEF Reach
    <2>8. \A v \in Users : \A e \in expiries'[v] : e <= Days(Booked')
      BY <1>2, <1>4, <1>5, <2>5 DEF Reach, Types
    <2> QED
      BY <1>2, <1>4, <1>5, <2>5, <2>6, <2>7, <2>8 DEF Reach, Days
  <1> QED
    BY <1>6, <1>7 DEF Activate

\* A payment is committed, or lost with its transaction.
LEMMA CommitTypes ==
  ASSUME Types, Reach, NEW h \in Handlers, CommitPayment(h)
  PROVE  Types' /\ Reach'
  <1>1. h \in Busy /\ h \notin Entering /\ task[h] \in Update /\ task[h].payer \in Users
    BY DEF CommitPayment, Entering, Busy, Types, Update
  <1>2. /\ today' = today /\ invoices' = invoices /\ inbox' = inbox
        /\ payments' = payments /\ owed' = owed /\ Finish(h)
    BY DEF CommitPayment, telegram
  <1>3. Entering' = Entering /\ \A g \in Handlers : sees'[g] = IF g = h THEN {} ELSE sees[g]
    BY <1>1, <1>2, FinishTypes
  <1>4. expiries' = expiries \/ expiries' = [expiries EXCEPT ![task[h].payer] = @ \cup sees[h]]
    BY DEF CommitPayment
  <1>5. sees[h] \subseteq Nat \ {0} /\ \A e \in sees[h] : e <= Days(Booked)
    BY DEF Types, Reach
  <1>6. expiries' \in [Users -> SUBSET (Nat \ {0})]
    BY <1>1, <1>4, <1>5 DEF Types
  <1>7. excused' \in SUBSET Users
    BY <1>1 DEF CommitPayment, Types
  <1>8. Types'
    BY <1>2, <1>6, <1>7, FinishTypes DEF Types
  <1>9. Booked' = Booked /\ Days(Booked') = Days(Booked) /\ Days(payments') = Days(payments)
    BY <1>2, <1>3 DEF Booked, Days
  <1>10. \A v \in Users : expiries'[v] \subseteq expiries[v] \cup sees[h]
    BY <1>1, <1>4 DEF Types
  <1>11. \A v \in Users : \A e \in expiries'[v] : e <= Days(Booked')
    BY <1>5, <1>9, <1>10 DEF Reach
  <1>12. \A g \in Handlers : \A e \in sees'[g] : e <= Days(Booked')
    BY <1>3, <1>9 DEF Reach
  <1> QED
    BY <1>2, <1>8, <1>9, <1>11, <1>12 DEF Reach

\* Every step keeps the types and how far subscriptions reach.
LEMMA NextTypes == Types /\ Reach /\ [Next]_vars => Types' /\ Reach'
  <1> SUFFICES ASSUME Types, Reach, [Next]_vars PROVE Types' /\ Reach'
    OBVIOUS
  <1> USE PremiumAssumption DEF PremiumAssumption
  <1>1. CASE NextDay
    <2>1. Types'
      BY <1>1 DEF NextDay, telegram, tasks, history, Types, Busy
    <2>2. Booked' = Booked
      BY <1>1 DEF NextDay, telegram, tasks, history, Booked, Entering
    <2> QED
      BY <1>1, <2>1, <2>2, ReachStays DEF NextDay, tasks, history, Types
  <1>2. ASSUME NEW h \in Handlers, NEW u \in Users, PremiumCommand(h, u) PROVE Types' /\ Reach'
    <2>1. Load(h, [payer |-> u, owner |-> u], "command") /\ [payer |-> u, owner |-> u] \in Update
      BY <1>2 DEF PremiumCommand, Update
    <2>2. Types'
      BY <1>2, <2>1, LoadTypes DEF PremiumCommand, telegram, history, Types
    <2>3. Entering' = Entering /\ sees'[h] = expiries[u] /\ \A g \in Handlers \ {h} : sees'[g] = sees[g]
      BY <2>1, LoadTypes
    <2>4. Booked' = Booked
      BY <1>2, <2>3 DEF PremiumCommand, telegram, history, Booked
    <2> QED
      BY <1>2, <2>2, <2>3, <2>4, ReachStays DEF PremiumCommand, history, Types
  <1>3. ASSUME NEW h \in Handlers, SendInvoice(h) PROVE Types' /\ Reach'
    <2>1. Finish(h) /\ h \notin Entering /\ task[h].payer \in Users
      BY <1>3 DEF SendInvoice, Entering, Busy, Types, Update
    <2>2. invoices' \in [Users -> 0..MaxOpen]
      <3>1. Open(task[h].payer) < MaxOpen => invoices[task[h].payer] < MaxOpen
        BY <2>1, OpenFacts DEF Open, Types
      <3>2. invoices \in [Users -> 0..MaxOpen] /\ \A u \in Users : invoices[u] \in Nat
        BY DEF Types
      <3>3. ASSUME Open(task[h].payer) < MaxOpen,
                   invoices' = [invoices EXCEPT ![task[h].payer] = @ + 1]
            PROVE  invoices' \in [Users -> 0..MaxOpen]
        <4>1. invoices[task[h].payer] + 1 \in 0..MaxOpen
          BY <2>1, <3>1, <3>2, <3>3
        <4> QED
          BY <3>2, <3>3, <4>1
      <3>4. \/ UNCHANGED invoices
            \/ Open(task[h].payer) < MaxOpen /\ invoices' = [invoices EXCEPT ![task[h].payer] = @ + 1]
        BY <1>3 DEF SendInvoice
      <3> QED
        BY <3>2, <3>3, <3>4
    <2>3. Types'
      BY <1>3, <2>1, <2>2, FinishTypes DEF SendInvoice, history, Types
    <2>4. Entering' = Entering /\ \A g \in Handlers : sees'[g] = IF g = h THEN {} ELSE sees[g]
      BY <2>1, FinishTypes
    <2>5. Booked' = Booked
      BY <1>3, <2>4 DEF SendInvoice, history, Booked
    <2> QED
      BY <1>3, <2>3, <2>4, <2>5, ReachStays DEF SendInvoice, history, Types
  <1>4. CASE Restart
    <2>1. Busy' = {} /\ Entering' = {}
      BY <1>4 DEF Restart, Busy, Entering
    <2>2. IsFiniteSet(Busy') /\ Cardinality(Entering') = 0
      BY <2>1, FS_EmptySet
    <2>3. Types'
      BY <1>4, <2>1, <2>2 DEF Restart, Types
    <2>4. Booked' = payments /\ payments \in Nat
      <3>1. payments' = payments /\ Len(inbox') = 0
        BY <1>4 DEF Restart
      <3> QED
        BY <2>2, <3>1 DEF Booked, Types
    <2>5. Len(inbox) \in Nat /\ Cardinality(Entering) \in Nat
      BY EnteringFacts DEF Types
    <2>6. Booked \in Nat /\ Booked <= payments
      BY <2>4, <2>5 DEF Booked, Reach
    <2>7. Days(Booked) \in Nat /\ Days(Booked') \in Nat /\ Days(Booked) <= Days(Booked')
      BY <2>4, <2>6, DaysFacts
    <2>8. \A u \in Users : \A e \in expiries'[u] : e <= Days(Booked')
      <3>1. \A u \in Users : expiries[u] \subseteq Nat
        BY DEF Types
      <3> QED
        BY <1>4, <2>7, <3>1 DEF Restart, Reach
    <2>9. \A h \in Handlers : sees'[h] = {}
      BY <1>4 DEF Restart
    <2> QED
      BY <1>4, <2>3, <2>4, <2>8, <2>9 DEF Restart, Reach, Days
  <1>5. CASE UNCHANGED vars
    BY <1>5 DEF vars, telegram, tasks, history, Types, Reach, Booked, Busy, Entering, Days
  <1> QED
    BY <1>1, <1>2, <1>3, <1>4, <1>5, PayTypes, ReceiveTypes, ActivateTypes, CommitTypes DEF Next

\* What Reach says of the last day.
LEMMA WithinLastDay == Types /\ Reach => TypeOK
  <1> SUFFICES ASSUME Types, Reach PROVE TypeOK
    OBVIOUS
  <1>1. Len(inbox) \in Nat /\ Cardinality(Entering) \in Nat /\ payments \in Nat /\ payments <= MaxPayments
    BY EnteringFacts, PremiumAssumption DEF Types, PremiumAssumption
  <1>2. Booked \in Nat /\ Booked <= payments /\ MaxPayments \in Nat
    BY <1>1, PremiumAssumption DEF Booked, Reach, PremiumAssumption
  <1>3. /\ Days(Booked) <= LastDay /\ Days(payments) <= LastDay /\ LastDay \in Nat
        /\ Days(Booked) \in Nat /\ Days(payments) \in Nat
    <2>1. LastDay = Days(MaxPayments)
      BY DEF LastDay, Days
    <2>2. Booked <= MaxPayments
      BY <1>1, <1>2
    <2>3. /\ Days(Booked) \in Nat /\ Days(payments) \in Nat /\ Days(MaxPayments) \in Nat
          /\ Days(Booked) <= Days(MaxPayments) /\ Days(payments) <= Days(MaxPayments)
      BY <1>1, <1>2, <2>2, DaysFacts
    <2> QED
      BY <2>1, <2>3
  <1>4. expiries \in [Users -> SUBSET (1..LastDay)]
    BY <1>3 DEF Types, Reach
  <1>5. sees \in [Handlers -> SUBSET (1..LastDay)]
    BY <1>3 DEF Types, Reach
  <1>6. owed \in [Users -> 0..LastDay]
    BY <1>3 DEF Types, Reach
  <1> QED
    BY <1>4, <1>5, <1>6 DEF Types, TypeOK

\* Every variable keeps its type: with n payments no subscription ends later
\* than n durations after the last day, whoever pays whose invoice when.
THEOREM TypeCorrect == Spec => []TypeOK
  <1>1. Spec => [](Types /\ Reach)
    BY InitTypes, NextTypes, PTL DEF Spec
  <1> QED
    BY <1>1, WithinLastDay, PTL

----------------------------------------------------------------------------
(* Paid time.                                                              *)

\* A user who has lost a payment, or will: one of an invoice not their own.
Doomed(u) ==
    \/ u \in excused
    \/ \E n \in Waiting(u) : inbox[n].owner # u
    \/ \E h \in InProcess(u) : task[h].owner # u

\* The payments of u that are still to be booked.
Pending(u) == Cardinality(Waiting(u)) + Cardinality(InProcess(u))

\* What u has paid for is covered by the days already booked, or today, and
\* so many more.
Covered(u, more) ==
    \/ owed[u] <= today + more
    \/ \E e \in expiries[u] : owed[u] <= e + more

\* Every payment still to be booked adds its days.
Owing(u) ==
    /\ Pending(u) = 0 => owed[u] = 0 \/ \E e \in expiries[u] : owed[u] <= e
    /\ Pending(u) = 1 => Covered(u, Duration)
    /\ Pending(u) = 2 => Covered(u, Duration + Duration)

\* Of invoices, payments and running subscriptions there are two: a payment
\* that meets a running subscription meets one, the last.
Few(u) == Cardinality(Running(expiries[u])) + Open(u) <= 2

\* The payments of u are taken one after the other.
InTurn(u) == \A g, h \in InProcess(u) : g = h

\* What keeps the days of a user from being lost: nothing is asked of the
\* other users, nor of how many updates the bot has in process.
Uncrowded(u) == Few(u) /\ InTurn(u)
Uncomplicated(u) == Doomed(u) \/ Uncrowded(u)

\* A task adds a row for the payer's own invoice only.
Own == \A h \in Handlers : pc[h] = "answer" => task[h].owner = task[h].payer

\* A payment has the rows as they are, until it adds its own.
Seeing(u) == \A h \in InProcess(u) : pc[h] = "payment" => sees[h] = expiries[u]

\* The row about to be committed covers the payment it is for, and the one
\* that waits behind it.
Booking(u) ==
    \A h \in InProcess(u) :
        pc[h] = "answer" =>
            \E e \in Nat :
                /\ sees[h] = {e}
                /\ Pending(u) = 1 => owed[u] <= e
                /\ Pending(u) = 2 => owed[u] <= e + Duration \/ owed[u] <= today + Duration

Account(u) == Doomed(u) \/ (Owing(u) /\ Seeing(u) /\ Booking(u))

\* A payment joins the queue.
LEMMA Queued ==
  ASSUME Types, NEW up \in Update, inbox' = Append(inbox, up), NEW u \in Users
  PROVE  /\ Cardinality(Waiting(u)') = Cardinality(Waiting(u)) + IF up.payer = u THEN 1 ELSE 0
         /\ \A n \in Waiting(u) : n \in Waiting(u)' /\ inbox'[n] = inbox[n]
         /\ up.payer = u => (Len(inbox) + 1) \in Waiting(u)' /\ inbox'[Len(inbox) + 1] = up
  <1>1. Len(inbox) \in Nat /\ inbox \in Seq(Update)
    BY DEF Types
  <1>2. /\ DOMAIN inbox' = 1..(Len(inbox) + 1) /\ inbox'[Len(inbox) + 1] = up
        /\ \A n \in 1..Len(inbox) : inbox'[n] = inbox[n]
    BY <1>1
  <1>3. /\ Waiting(u)' = IF up.payer = u THEN Waiting(u) \cup {Len(inbox) + 1} ELSE Waiting(u)
        /\ (Len(inbox) + 1) \notin Waiting(u)
    BY <1>1, <1>2 DEF Waiting
  <1>4. IsFiniteSet(Waiting(u)) /\ Cardinality(Waiting(u)) \in Nat
    BY OpenFacts
  <1>5. Cardinality(Waiting(u)') = Cardinality(Waiting(u)) + IF up.payer = u THEN 1 ELSE 0
    <2>1. CASE up.payer = u
      <3>1. Waiting(u)' = Waiting(u) \cup {Len(inbox) + 1}
        BY <1>3, <2>1
      <3>2. Cardinality(Waiting(u) \cup {Len(inbox) + 1}) = Cardinality(Waiting(u)) + 1
        BY <1>3, <1>4, FS_AddElement
      <3> QED
        BY <2>1, <3>1, <3>2
    <2>2. CASE up.payer # u
      BY <1>3, <1>4, <2>2
    <2> QED
      BY <2>1, <2>2
  <1>6. \A n \in Waiting(u) : n \in Waiting(u)' /\ inbox'[n] = inbox[n]
    <2>1. Waiting(u) \subseteq 1..Len(inbox)
      BY <1>1 DEF Waiting
    <2> QED
      BY <1>2, <1>3, <2>1
  <1>7. up.payer = u => (Len(inbox) + 1) \in Waiting(u)' /\ inbox'[Len(inbox) + 1] = up
    BY <1>2, <1>3
  <1> QED
    BY <1>5, <1>6, <1>7

\* The first payment leaves the queue.
LEMMA Unqueued ==
  ASSUME Types, inbox # <<>>, inbox' = Tail(inbox), NEW u \in Users
  PROVE  /\ Cardinality(Waiting(u)) = Cardinality(Waiting(u)') + IF Head(inbox).payer = u THEN 1 ELSE 0
         /\ Cardinality(Waiting(u)') \in Nat
         /\ \A n \in Waiting(u) :
               \/ n = 1 /\ Head(inbox).payer = u /\ inbox[n] = Head(inbox)
               \/ (n - 1) \in Waiting(u)' /\ inbox'[n - 1] = inbox[n]
  <1> DEFINE W == Waiting(u)
             V == Waiting(u)'
             f == [n \in V |-> n + 1]
  <1>1. /\ Len(inbox) \in Nat \ {0} /\ DOMAIN inbox = 1..Len(inbox) /\ Head(inbox) = inbox[1]
        /\ Len(inbox') = Len(inbox) - 1 /\ DOMAIN inbox' = 1..(Len(inbox) - 1)
        /\ \A n \in 1..(Len(inbox) - 1) : inbox'[n] = inbox[n + 1]
    BY InboxFacts DEF Types
  <1>2. V = {n \in 1..(Len(inbox) - 1) : inbox[n + 1].payer = u} /\ W = {n \in 1..Len(inbox) : inbox[n].payer = u}
    BY <1>1 DEF Waiting
  <1>3. IsFiniteSet(W) /\ Cardinality(W) \in Nat
    BY OpenFacts
  <1>4. IsFiniteSet(V) /\ Cardinality(V) \in Nat
    <2>1. IsFiniteSet(1..Len(inbox))
      BY <1>1, FS_Interval
    <2>2. V \in SUBSET (1..Len(inbox))
      BY <1>1, <1>2
    <2> QED
      BY <2>1, <2>2, FS_Subset, FS_CardinalityType
  <1>5. f \in Bijection(V, W \ {1})
    <2>1. f \in [V -> W \ {1}]
      BY <1>1, <1>2
    <2>2. \A m, n \in V : f[m] = f[n] => m = n
      BY <1>1, <1>2
    <2>3. \A m \in W \ {1} : \E n \in V : f[n] = m
      <3> SUFFICES ASSUME NEW m \in W \ {1} PROVE \E n \in V : f[n] = m
        OBVIOUS
      <3>1. (m - 1) \in V /\ f[m - 1] = m
        BY <1>1, <1>2
      <3> QED
        BY <3>1
    <2> QED
      BY <2>1, <2>2, <2>3 DEF Bijection, Injection, Surjection, IsInjective
  <1>6. Cardinality(W \ {1}) = Cardinality(V)
    BY <1>4, <1>5, FS_Bijection DEF ExistsBijection
  <1>7. Cardinality(W \ {1}) = IF 1 \in W THEN Cardinality(W) - 1 ELSE Cardinality(W)
    BY <1>3, FS_RemoveElement
  <1>8. 1 \in W <=> Head(inbox).payer = u
    BY <1>1, <1>2
  <1>9. \A n \in W : n = 1 \/ ((n - 1) \in V /\ inbox'[n - 1] = inbox[n])
    BY <1>1, <1>2
  <1>10. \A n \in W : n = 1 => Head(inbox).payer = u /\ inbox[n] = Head(inbox)
    BY <1>1, <1>8
  <1>11. Cardinality(W) = Cardinality(V) + IF Head(inbox).payer = u THEN 1 ELSE 0
    <2>1. CASE 1 \in W
      BY <1>3, <1>6, <1>7, <1>8, <2>1
    <2>2. CASE 1 \notin W
      BY <1>3, <1>6, <1>7, <1>8, <2>2
    <2> QED
      BY <2>1, <2>2
  <1> QED
    BY <1>4, <1>9, <1>10, <1>11

\* Subscriptions are finitely many, and fewer run as days go by.
LEMMA RunningFacts ==
  ASSUME Types, Reach, NEW u \in Users
  PROVE  /\ expiries[u] \subseteq Nat /\ IsFiniteSet(expiries[u])
         /\ IsFiniteSet(Running(expiries[u])) /\ Cardinality(Running(expiries[u])) \in Nat
         /\ today \in Nat
  <1>1. expiries[u] \in SUBSET Nat /\ today \in Nat
    BY PremiumAssumption DEF Types, PremiumAssumption
  <1>2. Days(Booked) \in Nat
    BY DaysFacts DEF Reach
  <1>3. IsFiniteSet(expiries[u])
    BY <1>1, <1>2, FS_BoundedSetOfNaturals DEF Reach
  <1>4. Running(expiries[u]) \in SUBSET expiries[u]
    BY DEF Running
  <1> QED
    BY <1>1, <1>3, <1>4, FS_Subset, FS_CardinalityType

\* A step that neither books nor adds a payment of v, nor touches their rows.
LEMMA Undisturbed ==
  ASSUME Types, Types', NEW v \in Users, Account(v),
         Doomed(v) => Doomed(v)', Pending(v)' = Pending(v),
         expiries'[v] = expiries[v], owed'[v] = owed[v], today <= today',
         \A h \in InProcess(v)' :
             \/ h \in InProcess(v) /\ pc'[h] = pc[h] /\ sees'[h] = sees[h]
             \/ pc'[h] = "payment" /\ sees'[h] = expiries[v]
  PROVE  Account(v)'
  <1> SUFFICES ASSUME ~Doomed(v)' PROVE (Owing(v) /\ Seeing(v) /\ Booking(v))'
    BY DEF Account
  <1>1. Owing(v) /\ Seeing(v) /\ Booking(v)
    BY DEF Account
  <1>2. today \in Nat /\ today' \in Nat /\ Duration \in Nat /\ owed[v] \in Nat /\ expiries[v] \subseteq Nat
    BY PremiumAssumption DEF Types, PremiumAssumption
  <1>3. Owing(v)'
    BY <1>1, <1>2 DEF Owing, Covered
  <1>4. Seeing(v)'
    BY <1>1 DEF Seeing
  <1>5. Booking(v)'
    <2> SUFFICES ASSUME NEW h \in InProcess(v)', pc'[h] = "answer"
                 PROVE  \E e \in Nat :
                            /\ sees'[h] = {e}
                            /\ Pending(v)' = 1 => owed'[v] <= e
                            /\ Pending(v)' = 2 => owed'[v] <= e + Duration \/ owed'[v] <= today' + Duration
      BY DEF Booking
    <2>1. PICK e \in Nat :
              /\ sees[h] = {e}
              /\ Pending(v) = 1 => owed[v] <= e
              /\ Pending(v) = 2 => owed[v] <= e + Duration \/ owed[v] <= today + Duration
      BY <1>1 DEF Booking
    <2> QED
      BY <1>2, <2>1
  <1> QED
    BY <1>3, <1>4, <1>5

\* A task that books nothing comes or goes.
LEMMA QuietTask ==
  ASSUME Types, NEW h \in Handlers, pc[h] \notin {"payment", "answer"}, pc'[h] \notin {"payment", "answer"},
         \A g \in Handlers \ {h} : pc'[g] = pc[g] /\ task'[g] = task[g] /\ sees'[g] = sees[g],
         inbox' = inbox, excused' = excused, NEW v \in Users
  PROVE  /\ Waiting(v)' = Waiting(v) /\ InProcess(v)' = InProcess(v)
         /\ Pending(v)' = Pending(v) /\ (Doomed(v) => Doomed(v)')
         /\ \A g \in InProcess(v) : pc'[g] = pc[g] /\ sees'[g] = sees[g]
  <1>1. Waiting(v)' = Waiting(v)
    BY DEF Waiting
  <1>2. InProcess(v)' = InProcess(v) /\ h \notin InProcess(v)
    BY DEF InProcess
  <1>3. \A g \in InProcess(v) : g \in Handlers \ {h}
    BY <1>2 DEF InProcess
  <1> QED
    BY <1>1, <1>2, <1>3 DEF Pending, Doomed

\* The numbers that are kept of v.
LEMMA Numbers ==
  ASSUME Types, Reach, NEW v \in Users
  PROVE  /\ Cardinality(Waiting(v)) \in Nat /\ Cardinality(InProcess(v)) \in Nat /\ invoices[v] \in Nat
         /\ Pending(v) \in Nat /\ Open(v) \in Nat /\ Open(v) = invoices[v] + Pending(v)
         /\ today \in Nat /\ owed[v] \in Nat /\ Duration \in Nat /\ expiries[v] \subseteq Nat
         /\ IsFiniteSet(Running(expiries[v])) /\ Cardinality(Running(expiries[v])) \in Nat
  <1>1. Cardinality(Waiting(v)) \in Nat /\ Cardinality(InProcess(v)) \in Nat
    BY OpenFacts
  <1>2. invoices[v] \in Nat /\ owed[v] \in Nat /\ Duration \in Nat
    BY PremiumAssumption DEF Types, PremiumAssumption
  <1> QED
    BY <1>1, <1>2, RunningFacts DEF Pending, Open

----------------------------------------------------------------------------
(* What each step does to the payments of a user.                          *)

LEMMA PayFacts ==
  ASSUME Types, Reach, NEW u \in Users, NEW owner \in Users, Pay(u, owner), NEW v \in Users
  PROVE  /\ InProcess(v)' = InProcess(v) /\ (Doomed(v) => Doomed(v)')
         /\ Pending(v)' = Pending(v) + IF u = v THEN 1 ELSE 0
         /\ invoices'[v] = IF v = owner THEN invoices[v] - 1 ELSE invoices[v]
         /\ Open(v)' = invoices'[v] + Pending(v)'
         /\ v = owner => invoices[v] > 0
         /\ u = v /\ owner # v => Doomed(v)'
         /\ today' = today /\ expiries' = expiries /\ pc' = pc /\ sees' = sees
         /\ owed'[v] = IF u = v THEN Later(owed[v], today) + Duration ELSE owed[v]
  <1> DEFINE up == [payer |-> u, owner |-> owner]
  <1>1. /\ up \in Update /\ inbox' = Append(inbox, up) /\ up.payer = u /\ up.owner = owner
        /\ invoices[owner] > 0 /\ invoices' = [invoices EXCEPT ![owner] = @ - 1]
        /\ owed' = [owed EXCEPT ![u] = Later(@, today) + Duration]
        /\ today' = today /\ expiries' = expiries /\ excused' = excused
        /\ pc' = pc /\ task' = task /\ sees' = sees
    BY DEF Pay, tasks, Update
  <1> HIDE DEF up
  <1>2. InProcess(v)' = InProcess(v)
    BY <1>1 DEF InProcess
  <1>3. /\ Cardinality(Waiting(v)') = Cardinality(Waiting(v)) + IF up.payer = v THEN 1 ELSE 0
        /\ \A n \in Waiting(v) : n \in Waiting(v)' /\ inbox'[n] = inbox[n]
        /\ up.payer = v => (Len(inbox) + 1) \in Waiting(v)' /\ inbox'[Len(inbox) + 1] = up
    BY <1>1, Queued
  <1>4. Doomed(v) => Doomed(v)'
    BY <1>1, <1>2, <1>3 DEF Doomed
  <1>5. Pending(v)' = Pending(v) + IF u = v THEN 1 ELSE 0
    BY <1>1, <1>2, <1>3, Numbers DEF Pending
  <1>8. Open(v)' = invoices'[v] + Pending(v)'
    <2>1. Cardinality(Waiting(v)') \in Nat /\ Cardinality(InProcess(v)') \in Nat
      <3>1. Cardinality(Waiting(v)) \in Nat /\ Cardinality(InProcess(v)) \in Nat
        BY OpenFacts
      <3>2. Cardinality(InProcess(v)') = Cardinality(InProcess(v))
        BY <1>2
      <3>3. Cardinality(Waiting(v)') \in {Cardinality(Waiting(v)), Cardinality(Waiting(v)) + 1}
        BY <1>3, <3>1
      <3> QED
        BY <3>1, <3>2, <3>3
    <2>2. invoices'[v] \in Int
      BY <1>1, Numbers DEF Types
    <2> QED
      BY <2>1, <2>2 DEF Open, Pending
  <1>6. u = v /\ owner # v => Doomed(v)'
    BY <1>1, <1>3 DEF Doomed
  <1>7. /\ invoices'[v] = IF v = owner THEN invoices[v] - 1 ELSE invoices[v]
        /\ owed'[v] = IF u = v THEN Later(owed[v], today) + Duration ELSE owed[v]
    BY <1>1 DEF Types
  <1> QED
    BY <1>1, <1>2, <1>4, <1>5, <1>6, <1>7, <1>8

LEMMA ReceiveFacts ==
  ASSUME Types, Reach, NEW h \in Handlers, ReceivePayment(h), NEW v \in Users
  PROVE  /\ Pending(v)' = Pending(v) /\ Open(v)' = Open(v) /\ (Doomed(v) => Doomed(v)')
         /\ today' = today /\ expiries' = expiries /\ owed' = owed
         /\ \A g \in InProcess(v)' :
               \/ g \in InProcess(v) /\ pc'[g] = pc[g] /\ sees'[g] = sees[g]
               \/ pc'[g] = "payment" /\ sees'[g] = expiries[v]
  <1>1. /\ inbox # <<>> /\ inbox' = Tail(inbox) /\ Head(inbox) \in Update
        /\ pc[h] = "idle" /\ pc'[h] = "payment" /\ task'[h] = Head(inbox)
        /\ sees'[h] = expiries[Head(inbox).payer]
        /\ \A g \in Handlers \ {h} : pc'[g] = pc[g] /\ task'[g] = task[g] /\ sees'[g] = sees[g]
    BY InboxFacts DEF ReceivePayment, Load, Types
  <1>2. today' = today /\ expiries' = expiries /\ invoices' = invoices /\ excused' = excused /\ owed' = owed
    BY DEF ReceivePayment, history
  <1>3. /\ Cardinality(Waiting(v)) = Cardinality(Waiting(v)') + IF Head(inbox).payer = v THEN 1 ELSE 0
        /\ Cardinality(Waiting(v)') \in Nat
        /\ \A n \in Waiting(v) :
              \/ n = 1 /\ Head(inbox).payer = v /\ inbox[n] = Head(inbox)
              \/ (n - 1) \in Waiting(v)' /\ inbox'[n - 1] = inbox[n]
    BY <1>1, Unqueued
  <1>4. /\ h \notin InProcess(v)
        /\ InProcess(v)' = IF Head(inbox).payer = v THEN InProcess(v) \cup {h} ELSE InProcess(v)
        /\ \A g \in InProcess(v) : g # h /\ pc'[g] = pc[g] /\ task'[g] = task[g] /\ sees'[g] = sees[g]
    BY <1>1 DEF InProcess
  <1>5. Cardinality(InProcess(v)') = Cardinality(InProcess(v)) + IF Head(inbox).payer = v THEN 1 ELSE 0
    <2>1. IsFiniteSet(InProcess(v)) /\ Cardinality(InProcess(v)) \in Nat
      BY OpenFacts
    <2>2. Cardinality(InProcess(v) \cup {h}) = Cardinality(InProcess(v)) + 1
      BY <1>4, <2>1, FS_AddElement
    <2> QED
      BY <1>4, <2>1, <2>2
  <1>6. Pending(v)' = Pending(v) /\ Open(v)' = Open(v)
    <2>1. Cardinality(Waiting(v)') + Cardinality(InProcess(v)') = Cardinality(Waiting(v)) + Cardinality(InProcess(v))
      BY <1>3, <1>5, Numbers
    <2> QED
      BY <1>2, <1>3, <1>5, <2>1, Numbers DEF Pending, Open
  <1>7. Doomed(v) => Doomed(v)'
    <2>1. CASE v \in excused
      BY <1>2, <2>1 DEF Doomed
    <2>2. ASSUME NEW n \in Waiting(v), inbox[n].owner # v PROVE Doomed(v)'
      <3>1. CASE Head(inbox).payer = v /\ inbox[n] = Head(inbox)
        BY <1>1, <1>4, <2>2, <3>1 DEF Doomed
      <3>2. CASE (n - 1) \in Waiting(v)' /\ inbox'[n - 1] = inbox[n]
        BY <2>2, <3>2 DEF Doomed
      <3> QED
        BY <1>3, <3>1, <3>2
    <2>3. ASSUME NEW g \in InProcess(v), task[g].owner # v PROVE Doomed(v)'
      BY <1>4, <2>3 DEF Doomed
    <2> QED
      BY <2>1, <2>2, <2>3 DEF Doomed
  <1> QED
    BY <1>1, <1>2, <1>4, <1>6, <1>7

LEMMA ActivateFacts ==
  ASSUME Types, NEW h \in Handlers, Activate(h), NEW v \in Users
  PROVE  /\ today' = today /\ expiries' = expiries /\ invoices' = invoices /\ owed' = owed
         /\ pc[h] = "payment" /\ task[h].payer \in Users
         /\ Doomed(v) => Doomed(v)'
         /\ task[h].payer = v /\ task[h].owner # v => Doomed(v)'
         /\ task[h].payer # v \/ task[h].owner = v
               => InProcess(v)' = InProcess(v) /\ Pending(v)' = Pending(v) /\ Open(v)' = Open(v)
         /\ task[h].payer # v => \A g \in InProcess(v) : pc'[g] = pc[g] /\ sees'[g] = sees[g]
         /\ task[h].payer = v /\ task[h].owner = v
               => /\ h \in InProcess(v) /\ pc'[h] = "answer"
                  /\ \E base \in BaseTime(sees[h]) : sees'[h] = {Extend(base)}
  <1>1. /\ today' = today /\ expiries' = expiries /\ invoices' = invoices /\ inbox' = inbox /\ owed' = owed
        /\ pc[h] = "payment" /\ task[h].payer \in Users /\ excused \subseteq excused'
    BY DEF Activate, telegram, Types, Busy, Update
  <1>2. \A g \in Handlers \ {h} : pc'[g] = pc[g] /\ task'[g] = task[g] /\ sees'[g] = sees[g]
    BY DEF Activate, Finish, Types
  <1>3. Waiting(v)' = Waiting(v)
    BY <1>1 DEF Waiting
  <1>4. CASE task[h].payer # task[h].owner
    <2>1. task'[h] = NoUpdate /\ pc'[h] = "idle" /\ excused' = excused \cup {task[h].payer}
      BY <1>1, <1>4 DEF Activate, Finish, Types
    <2>2. task[h].payer = v => Doomed(v)'
      BY <2>1 DEF Doomed
    <2>3. task[h].payer # v => InProcess(v)' = InProcess(v) /\ h \notin InProcess(v)
      BY <1>2, <2>1 DEF InProcess
    <2>4. task[h].payer # v => \A g \in InProcess(v) : pc'[g] = pc[g] /\ sees'[g] = sees[g] /\ task'[g] = task[g]
      BY <1>2, <2>3 DEF InProcess
    <2>5. task[h].payer # v => Pending(v)' = Pending(v) /\ Open(v)' = Open(v) /\ (Doomed(v) => Doomed(v)')
      BY <1>1, <1>3, <2>3, <2>4 DEF Pending, Open, Doomed
    <2> QED
      BY <1>1, <1>4, <2>2, <2>3, <2>4, <2>5
  <1>5. CASE task[h].payer = task[h].owner
    <2>1. /\ pc'[h] = "answer" /\ task' = task /\ excused' = excused
          /\ \E base \in BaseTime(sees[h]) : sees'[h] = {Extend(base)}
      BY <1>1, <1>5 DEF Activate, Types
    <2>2. InProcess(v)' = InProcess(v)
      BY <1>1, <1>2, <2>1 DEF InProcess
    <2>3. Pending(v)' = Pending(v) /\ Open(v)' = Open(v) /\ (Doomed(v) => Doomed(v)')
      BY <1>1, <1>3, <2>1, <2>2 DEF Pending, Open, Doomed
    <2>4. task[h].payer # v => \A g \in InProcess(v) : pc'[g] = pc[g] /\ sees'[g] = sees[g]
      BY <1>2 DEF InProcess
    <2>5. task[h].payer = v => h \in InProcess(v)
      BY <1>1 DEF InProcess
    <2> QED
      BY <1>1, <1>5, <2>1, <2>2, <2>3, <2>4, <2>5
  <1> QED
    BY <1>4, <1>5

LEMMA CommitFacts ==
  ASSUME Types, Reach, Own, NEW h \in Handlers, CommitPayment(h), NEW v \in Users
  PROVE  /\ today' = today /\ invoices' = invoices /\ owed' = owed
         /\ pc[h] = "answer" /\ task[h].payer \in Users
         /\ Doomed(v) => Doomed(v)'
         /\ task[h].payer # v => /\ InProcess(v)' = InProcess(v) /\ Pending(v)' = Pending(v) /\ Open(v)' = Open(v)
                                 /\ expiries'[v] = expiries[v]
                                 /\ \A g \in InProcess(v) : pc'[g] = pc[g] /\ sees'[g] = sees[g]
         /\ task[h].payer = v => /\ h \in InProcess(v) /\ InProcess(v)' = InProcess(v) \ {h}
                                 /\ Pending(v)' = Pending(v) - 1 /\ Open(v)' = Open(v) - 1
                                 /\ v \in excused' \/ expiries'[v] = expiries[v] \cup sees[h]
  <1>1. /\ today' = today /\ invoices' = invoices /\ inbox' = inbox /\ owed' = owed
        /\ pc[h] = "answer" /\ pc'[h] = "idle" /\ task[h].payer \in Users /\ excused \subseteq excused'
        /\ task[h].owner = task[h].payer
    BY DEF CommitPayment, Finish, telegram, Types, Busy, Update, Own
  <1>2. \A g \in Handlers \ {h} : pc'[g] = pc[g] /\ task'[g] = task[g] /\ sees'[g] = sees[g]
    BY DEF CommitPayment, Finish, Types
  <1>3. /\ Waiting(v)' = Waiting(v) /\ InProcess(v)' = InProcess(v) \ {h}
        /\ h \in InProcess(v) <=> task[h].payer = v
    BY <1>1, <1>2 DEF Waiting, InProcess
  <1>4. \A g \in InProcess(v) \ {h} : pc'[g] = pc[g] /\ task'[g] = task[g] /\ sees'[g] = sees[g]
    BY <1>2 DEF InProcess
  <1>5. Doomed(v) => Doomed(v)'
    BY <1>1, <1>3, <1>4 DEF Doomed
  <1>6. Cardinality(InProcess(v)') = Cardinality(InProcess(v)) - IF task[h].payer = v THEN 1 ELSE 0
    <2>1. IsFiniteSet(InProcess(v)) /\ Cardinality(InProcess(v)) \in Nat
      BY OpenFacts
    <2>2. Cardinality(InProcess(v) \ {h}) =
            IF h \in InProcess(v) THEN Cardinality(InProcess(v)) - 1 ELSE Cardinality(InProcess(v))
      BY <2>1, FS_RemoveElement
    <2> QED
      BY <1>3, <2>1, <2>2
  <1>7. /\ Pending(v)' = Pending(v) - IF task[h].payer = v THEN 1 ELSE 0
        /\ Open(v)' = Open(v) - IF task[h].payer = v THEN 1 ELSE 0
    BY <1>1, <1>3, <1>6, Numbers DEF Pending, Open
  <1>8. /\ task[h].payer # v => expiries'[v] = expiries[v]
        /\ task[h].payer = v => v \in excused' \/ expiries'[v] = expiries[v] \cup sees[h]
    BY <1>1 DEF CommitPayment, Types
  <1>9. task[h].payer # v => InProcess(v) \ {h} = InProcess(v)
    BY <1>3
  <1> QED
    BY <1>1, <1>3, <1>4, <1>5, <1>7, <1>8, <1>9, Numbers

LEMMA RestartFacts ==
  ASSUME Types, Restart, NEW v \in Users
  PROVE  /\ Doomed(v) => Doomed(v)'
         /\ Doomed(v)' \/ (InProcess(v)' = {} /\ Pending(v)' = Pending(v) /\ Open(v)' = Open(v))
  <1>1. CASE Paying(v)
    BY <1>1 DEF Restart, Doomed
  <1>2. CASE ~Paying(v)
    <2>1. Waiting(v) = {} /\ InProcess(v) = {}
      BY <1>2 DEF Paying
    <2>2. Waiting(v)' = {} /\ InProcess(v)' = {}
      BY DEF Restart, Waiting, InProcess
    <2>3. /\ Pending(v)' = Pending(v) /\ Open(v)' = Open(v) /\ (Doomed(v) => Doomed(v)')
      BY <2>1, <2>2 DEF Pending, Open, Doomed, Restart
    <2> QED
      BY <2>2, <2>3
  <1> QED
    BY <1>1, <1>2

\* The payment of another's invoice is refused.
LEMMA NextOwn == Types /\ Own /\ [Next]_vars => Own'
  <1> SUFFICES ASSUME Types, Own, [Next]_vars PROVE Own'
    OBVIOUS
  <1>1. ASSUME NEW h \in Handlers, \A g \in Handlers \ {h} : pc'[g] = pc[g] /\ task'[g] = task[g], pc'[h] # "answer"
        PROVE  Own'
    BY <1>1 DEF Own
  <1>2. CASE UNCHANGED <<pc, task>>
    BY <1>2 DEF Own
  <1>3. ASSUME NEW h \in Handlers, NEW u \in Users, PremiumCommand(h, u)
        PROVE  Own'
    BY <1>1, <1>3 DEF PremiumCommand, Load, Types
  <1>4. ASSUME NEW h \in Handlers, SendInvoice(h) \/ ReceivePayment(h) \/ CommitPayment(h)
        PROVE  Own'
    BY <1>1, <1>4 DEF SendInvoice, ReceivePayment, CommitPayment, Load, Finish, Types
  <1>5. ASSUME NEW h \in Handlers, Activate(h)
        PROVE  Own'
    <2>1. CASE task[h].payer # task[h].owner
      BY <1>1, <1>5, <2>1 DEF Activate, Finish, Types
    <2>2. CASE task[h].payer = task[h].owner
      BY <1>5, <2>2 DEF Activate, Own, Types
    <2> QED
      BY <2>1, <2>2
  <1>6. CASE Restart
    BY <1>6 DEF Restart, Own
  <1>7. ASSUME UNCHANGED vars \/ NextDay \/ \E u, owner \in Users : Pay(u, owner)
        PROVE  Own'
    BY <1>2, <1>7 DEF vars, NextDay, Pay, tasks
  <1> QED
    BY <1>3, <1>4, <1>5, <1>6, <1>7 DEF Next

----------------------------------------------------------------------------
(* The account of a user, step by step.                                    *)

LEMMA InitAccount ==
  ASSUME NEW u \in Users, Init
  PROVE  Own /\ Account(u) /\ Few(u)
  <1>1. Own
    BY DEF Init, Own
  <1>2. Waiting(u) = {} /\ InProcess(u) = {} /\ Running(expiries[u]) = {}
    BY DEF Init, Waiting, InProcess, Running
  <1>3. Pending(u) = 0 /\ Open(u) = 0 /\ Cardinality(Running(expiries[u])) = 0
    <2>1. Cardinality({}) = 0
      BY FS_EmptySet
    <2>2. Pending(u) = 0
      BY <1>2, <2>1 DEF Pending
    <2>3. Open(u) = 0
      BY <1>2, <2>1 DEF Open, Init
    <2> QED
      BY <1>2, <2>1, <2>2, <2>3
  <1>4. Owing(u) /\ Seeing(u) /\ Booking(u)
    BY <1>2, <1>3 DEF Owing, Seeing, Booking, Init
  <1> QED
    BY <1>1, <1>3, <1>4 DEF Account, Few

\* The payment of an invoice of one's own takes its place; that of another's
\* dooms the payer.
LEMMA PayAccount ==
  ASSUME Types, Types', Reach, NEW v \in Users, Account(v), Uncomplicated(v),
         NEW u \in Users, NEW owner \in Users, Pay(u, owner)
  PROVE  Account(v)'
  <1>1. /\ InProcess(v)' = InProcess(v) /\ (Doomed(v) => Doomed(v)')
        /\ Pending(v)' = Pending(v) + IF u = v THEN 1 ELSE 0
        /\ v = owner => invoices[v] > 0
        /\ u = v /\ owner # v => Doomed(v)'
        /\ today' = today /\ expiries' = expiries /\ pc' = pc /\ sees' = sees
        /\ owed'[v] = IF u = v THEN Later(owed[v], today) + Duration ELSE owed[v]
    BY PayFacts
  <1>2. /\ Pending(v) \in Nat /\ Open(v) = invoices[v] + Pending(v) /\ invoices[v] \in Nat /\ Open(v) \in Nat
        /\ today \in Nat /\ owed[v] \in Nat /\ Duration \in Nat /\ expiries[v] \subseteq Nat
        /\ Cardinality(InProcess(v)) \in Nat /\ Cardinality(Waiting(v)) \in Nat
        /\ Cardinality(Running(expiries[v])) \in Nat
    BY Numbers
  <1>3. CASE u # v
    BY <1>1, <1>2, <1>3, Undisturbed
  <1>4. CASE u = v /\ owner # v
    BY <1>1, <1>4 DEF Account
  <1>5. CASE u = v /\ owner = v
    <2> SUFFICES ASSUME ~Doomed(v)' PROVE (Owing(v) /\ Seeing(v) /\ Booking(v))'
      BY DEF Account
    <2>1. Owing(v) /\ Seeing(v) /\ Booking(v) /\ Few(v)
      BY <1>1 DEF Account, Uncomplicated, Uncrowded
    <2>2. Pending(v)' = Pending(v) + 1 /\ owed'[v] = Later(owed[v], today) + Duration
      BY <1>1, <1>5
    <2>3. Pending(v) \in {0, 1} /\ (Pending(v) = 1 => Cardinality(Running(expiries[v])) = 0)
      BY <1>1, <1>2, <1>5, <2>1 DEF Few
    <2>4. Seeing(v)'
      BY <1>1, <2>1 DEF Seeing
    <2>5. CASE Pending(v) = 0
      <3>1. Covered(v, 0)
        BY <1>2, <2>1, <2>5 DEF Owing, Covered
      <3>2. Covered(v, Duration)'
        BY <1>1, <1>2, <2>2, <3>1 DEF Covered, Later
      <3>3. Owing(v)'
        BY <2>2, <2>5, <3>2 DEF Owing
      <3>4. InProcess(v)' = {}
        <4>1. Cardinality(InProcess(v)) = 0
          BY <1>2, <2>5 DEF Pending
        <4> QED
          BY <1>1, <4>1, OpenFacts, FS_EmptySet
      <3> QED
        BY <2>4, <3>3, <3>4 DEF Booking
    <2>6. CASE Pending(v) = 1
      <3>1. Running(expiries[v]) = {}
        BY <2>3, <2>6, RunningFacts, FS_EmptySet
      <3>2. \A e \in expiries[v] : e <= today
        BY <1>2, <3>1 DEF Running
      <3>3. owed[v] <= today + Duration
        BY <1>2, <2>1, <2>6, <3>2 DEF Owing, Covered
      <3>4. owed'[v] <= today + (Duration + Duration)
        BY <1>2, <2>2, <3>3 DEF Later
      <3>5. Owing(v)'
        BY <1>1, <2>2, <2>6, <3>4 DEF Owing, Covered
      <3>6. Booking(v)'
        <4> SUFFICES ASSUME NEW h \in InProcess(v), pc[h] = "answer"
                     PROVE  \E e \in Nat :
                                /\ sees[h] = {e}
                                /\ Pending(v)' = 1 => owed'[v] <= e
                                /\ Pending(v)' = 2 => owed'[v] <= e + Duration \/ owed'[v] <= today + Duration
          BY <1>1 DEF Booking
        <4>1. PICK e \in Nat : sees[h] = {e} /\ owed[v] <= e
          BY <2>1, <2>6 DEF Booking
        <4>2. owed'[v] <= e + Duration \/ owed'[v] <= today + Duration
          BY <1>2, <2>2, <4>1 DEF Later
        <4> QED
          BY <2>2, <2>6, <4>1, <4>2
      <3> QED
        BY <2>4, <3>5, <3>6
    <2> QED
      BY <2>3, <2>5, <2>6
  <1> QED
    BY <1>3, <1>4, <1>5

\* The payment of another's invoice is refused; the others meet at most one
\* running subscription and extend it.
LEMMA ActivateAccount ==
  ASSUME Types, Types', Reach, NEW v \in Users, Account(v), Uncomplicated(v), NEW h \in Handlers, Activate(h)
  PROVE  Account(v)'
  <1>1. /\ today' = today /\ expiries' = expiries /\ owed' = owed /\ (Doomed(v) => Doomed(v)') /\ pc[h] = "payment"
    BY ActivateFacts
  <1>2. /\ Pending(v) \in Nat /\ Open(v) = invoices[v] + Pending(v) /\ invoices[v] \in Nat
        /\ today \in Nat /\ owed[v] \in Nat /\ Duration \in Nat /\ expiries[v] \subseteq Nat
        /\ Cardinality(InProcess(v)) \in Nat /\ Cardinality(Waiting(v)) \in Nat
        /\ Cardinality(Running(expiries[v])) \in Nat
    BY Numbers
  <1>3. CASE task[h].payer # v
    <2>1. /\ InProcess(v)' = InProcess(v) /\ Pending(v)' = Pending(v)
          /\ \A g \in InProcess(v) : pc'[g] = pc[g] /\ sees'[g] = sees[g]
      BY <1>3, ActivateFacts
    <2> QED
      BY <1>1, <1>2, <2>1, Undisturbed
  <1>4. CASE task[h].payer = v /\ task[h].owner # v
    BY <1>4, ActivateFacts DEF Account
  <1>5. CASE task[h].payer = v /\ task[h].owner = v
    <2> SUFFICES ASSUME ~Doomed(v)' PROVE (Owing(v) /\ Seeing(v) /\ Booking(v))'
      BY DEF Account
    <2>1. /\ InProcess(v)' = InProcess(v) /\ Pending(v)' = Pending(v) /\ h \in InProcess(v) /\ pc'[h] = "answer"
          /\ \E base \in BaseTime(sees[h]) : sees'[h] = {Extend(base)}
      BY <1>5, ActivateFacts
    <2>2. Owing(v) /\ Seeing(v) /\ Few(v) /\ InTurn(v)
      BY <1>1 DEF Account, Uncomplicated, Uncrowded
    <2>3. InProcess(v) = {h} /\ Cardinality(InProcess(v)) = 1
      <3>1. InProcess(v) = {h}
        BY <2>1, <2>2 DEF InTurn
      <3> QED
        BY <3>1, FS_Singleton
    <2>4. Owing(v)'
      BY <1>1, <2>1, <2>2 DEF Owing, Covered
    <2>5. Seeing(v)'
      BY <2>1, <2>3 DEF Seeing
    <2>6. sees[h] = expiries[v]
      BY <1>1, <2>1, <2>2 DEF Seeing
    <2>7. Pending(v) \in {1, 2} /\ Cardinality(Running(expiries[v])) + Pending(v) <= 2
      BY <1>2, <2>2, <2>3 DEF Few, Pending
    <2>8. PICK base \in BaseTime(expiries[v]) : sees'[h] = {base + Duration}
      BY <2>1, <2>6 DEF Extend
    <2>9. CASE Running(expiries[v]) = {}
      <3>1. base = today /\ \A e \in expiries[v] : e <= today
        BY <1>2, <2>8, <2>9 DEF BaseTime, Running
      <3>2. Pending(v) = 1 => owed[v] <= today + Duration
        BY <1>2, <2>2, <3>1 DEF Owing, Covered
      <3>3. Pending(v) = 2 => owed[v] <= today + Duration + Duration
        BY <1>2, <2>2, <3>1 DEF Owing, Covered
      <3>4. today + Duration \in Nat
        BY <1>2
      <3> QED
        BY <1>1, <2>1, <2>3, <2>4, <2>5, <2>8, <3>1, <3>2, <3>3, <3>4 DEF Booking
    <2>10. CASE Running(expiries[v]) # {}
      <3>1. Cardinality(Running(expiries[v])) = 1 /\ Pending(v) = 1
        <4>1. Cardinality(Running(expiries[v])) # 0
          BY <2>10, RunningFacts, FS_EmptySet
        <4> QED
          BY <1>2, <2>7, <4>1
      <3>2. Running(expiries[v]) = {base}
        <4>1. \E x : Running(expiries[v]) = {x}
          BY <3>1, RunningFacts, FS_Singleton
        <4> QED
          BY <2>8, <2>10, <4>1 DEF BaseTime
      <3>3. base \in Nat /\ base > today /\ \A e \in expiries[v] : e <= base
        BY <1>2, <3>2 DEF Running
      <3>4. owed[v] <= base + Duration
        BY <1>2, <2>2, <3>1, <3>3 DEF Owing, Covered
      <3>5. base + Duration \in Nat
        BY <1>2, <3>3
      <3> QED
        BY <1>1, <2>1, <2>3, <2>4, <2>5, <2>8, <3>1, <3>4, <3>5 DEF Booking
    <2> QED
      BY <2>9, <2>10
  <1> QED
    BY <1>3, <1>4, <1>5

\* The row is in the table, or the payment is lost with its transaction.
LEMMA CommitAccount ==
  ASSUME Types, Types', Reach, Own, NEW v \in Users, Account(v), Uncomplicated(v),
         NEW h \in Handlers, CommitPayment(h)
  PROVE  Account(v)'
  <1>1. /\ today' = today /\ owed' = owed /\ (Doomed(v) => Doomed(v)') /\ pc[h] = "answer"
    BY CommitFacts
  <1>2. /\ Pending(v) \in Nat /\ Open(v) = invoices[v] + Pending(v) /\ invoices[v] \in Nat
        /\ today \in Nat /\ owed[v] \in Nat /\ Duration \in Nat /\ expiries[v] \subseteq Nat
        /\ Cardinality(InProcess(v)) \in Nat /\ Cardinality(Waiting(v)) \in Nat
        /\ Cardinality(Running(expiries[v])) \in Nat
    BY Numbers
  <1>3. CASE task[h].payer # v
    <2>1. /\ InProcess(v)' = InProcess(v) /\ Pending(v)' = Pending(v) /\ expiries'[v] = expiries[v]
          /\ \A g \in InProcess(v) : pc'[g] = pc[g] /\ sees'[g] = sees[g]
      BY <1>3, CommitFacts
    <2> QED
      BY <1>1, <1>2, <2>1, Undisturbed
  <1>4. CASE task[h].payer = v
    <2> SUFFICES ASSUME ~Doomed(v)' PROVE (Owing(v) /\ Seeing(v) /\ Booking(v))'
      BY DEF Account
    <2>1. /\ h \in InProcess(v) /\ InProcess(v)' = InProcess(v) \ {h} /\ Pending(v)' = Pending(v) - 1
          /\ expiries'[v] = expiries[v] \cup sees[h]
      BY <1>4, CommitFacts DEF Doomed
    <2>2. Owing(v) /\ Booking(v) /\ Few(v) /\ InTurn(v)
      BY <1>1 DEF Account, Uncomplicated, Uncrowded
    <2>3. InProcess(v) = {h} /\ Cardinality(InProcess(v)) = 1 /\ InProcess(v)' = {}
      BY <2>1, <2>2, FS_Singleton DEF InTurn
    <2>4. PICK e \in Nat :
              /\ sees[h] = {e}
              /\ Pending(v) = 1 => owed[v] <= e
              /\ Pending(v) = 2 => owed[v] <= e + Duration \/ owed[v] <= today + Duration
      BY <1>1, <2>1, <2>2 DEF Booking
    <2>5. Pending(v) \in {1, 2}
      BY <1>2, <2>2, <2>3 DEF Few, Pending
    <2>6. Owing(v)'
      BY <1>1, <1>2, <2>1, <2>4, <2>5 DEF Owing, Covered
    <2> QED
      BY <2>3, <2>6 DEF Seeing, Booking
  <1> QED
    BY <1>3, <1>4

LEMMA NextAccount ==
  ASSUME NEW v \in Users, Types, Types', Reach, Own, Account(v), Uncomplicated(v), [Next]_vars
  PROVE  Account(v)'
  <1>1. today \in Nat
    BY Numbers
  <1>2. ASSUME UNCHANGED <<expiries, inbox, excused, pc, task, sees, owed>>, today <= today'
        PROVE  Account(v)'
    <2>1. Waiting(v)' = Waiting(v) /\ InProcess(v)' = InProcess(v)
      BY <1>2 DEF Waiting, InProcess
    <2>2. Pending(v)' = Pending(v) /\ (Doomed(v) => Doomed(v)')
      BY <1>2, <2>1 DEF Pending, Doomed
    <2> QED
      BY <1>2, <2>1, <2>2, Undisturbed
  <1>3. CASE UNCHANGED vars
    BY <1>1, <1>2, <1>3 DEF vars, telegram, tasks, history
  <1>4. CASE NextDay
    BY <1>1, <1>2, <1>4 DEF NextDay, telegram, tasks, history
  <1>5. ASSUME NEW h \in Handlers, NEW u \in Users, PremiumCommand(h, u)
        PROVE  Account(v)'
    <2>1. /\ pc[h] = "idle" /\ pc'[h] = "command"
          /\ \A g \in Handlers \ {h} : pc'[g] = pc[g] /\ task'[g] = task[g] /\ sees'[g] = sees[g]
          /\ inbox' = inbox /\ excused' = excused /\ expiries' = expiries /\ owed' = owed /\ today' = today
      BY <1>5 DEF PremiumCommand, Load, Types, telegram, history
    <2>2. /\ InProcess(v)' = InProcess(v) /\ Pending(v)' = Pending(v) /\ (Doomed(v) => Doomed(v)')
          /\ \A g \in InProcess(v) : pc'[g] = pc[g] /\ sees'[g] = sees[g]
      BY <2>1, QuietTask
    <2> QED
      BY <1>1, <2>1, <2>2, Undisturbed
  <1>6. ASSUME NEW h \in Handlers, SendInvoice(h)
        PROVE  Account(v)'
    <2>1. /\ pc[h] = "command" /\ pc'[h] = "idle"
          /\ \A g \in Handlers \ {h} : pc'[g] = pc[g] /\ task'[g] = task[g] /\ sees'[g] = sees[g]
          /\ inbox' = inbox /\ excused' = excused /\ expiries' = expiries /\ owed' = owed /\ today' = today
      BY <1>6 DEF SendInvoice, Finish, Types, history
    <2>2. /\ InProcess(v)' = InProcess(v) /\ Pending(v)' = Pending(v) /\ (Doomed(v) => Doomed(v)')
          /\ \A g \in InProcess(v) : pc'[g] = pc[g] /\ sees'[g] = sees[g]
      BY <2>1, QuietTask
    <2> QED
      BY <1>1, <2>1, <2>2, Undisturbed
  <1>7. ASSUME NEW h \in Handlers, ReceivePayment(h)
        PROVE  Account(v)'
    <2>1. /\ Pending(v)' = Pending(v) /\ (Doomed(v) => Doomed(v)')
          /\ today' = today /\ expiries' = expiries /\ owed' = owed
          /\ \A g \in InProcess(v)' :
                \/ g \in InProcess(v) /\ pc'[g] = pc[g] /\ sees'[g] = sees[g]
                \/ pc'[g] = "payment" /\ sees'[g] = expiries[v]
      BY <1>7, ReceiveFacts
    <2> QED
      BY <1>1, <2>1, Undisturbed
  <1>8. CASE Restart
    <2>1. Doomed(v)' => Account(v)'
      BY DEF Account
    <2>2. /\ Doomed(v) => Doomed(v)'
          /\ Doomed(v)' \/ (InProcess(v)' = {} /\ Pending(v)' = Pending(v))
      BY <1>8, RestartFacts
    <2>3. today' = today /\ expiries' = expiries /\ owed' = owed
      BY <1>8 DEF Restart
    <2> QED
      BY <1>1, <2>1, <2>2, <2>3, Undisturbed
  <1> QED
    BY <1>3, <1>4, <1>5, <1>6, <1>7, <1>8, PayAccount, ActivateAccount, CommitAccount DEF Next

----------------------------------------------------------------------------
(* The results.                                                            *)

\* What is owed to u is there, once u has no payment open.
Honoured(u) ==
    owed[u] > 0 /\ u \notin excused /\ ~Paying(u) => \E e \in expiries[u] : e >= owed[u]

LEMMA AccountHonoured ==
  ASSUME Types, NEW u \in Users, Account(u)
  PROVE  Honoured(u)
  <1> SUFFICES ASSUME owed[u] > 0, u \notin excused, ~Paying(u) PROVE \E e \in expiries[u] : e >= owed[u]
    BY DEF Honoured
  <1>1. Waiting(u) = {} /\ InProcess(u) = {}
    BY DEF Paying
  <1>2. Pending(u) = 0 /\ ~Doomed(u)
    BY <1>1, FS_EmptySet DEF Pending, Doomed
  <1>3. PICK e \in expiries[u] : owed[u] <= e
    BY <1>2 DEF Account, Owing, Types
  <1>4. e \in Nat /\ owed[u] \in Nat
    BY DEF Types
  <1> QED
    BY <1>3, <1>4

\* A user whose payments are taken one after the other, and who never has more
\* than two invoices, payments and running subscriptions, loses no day that is
\* paid for: however many updates the bot has in process at a time, and
\* whatever the other users pay, forward or leave open.
THEOREM PaidTimeOfOneHonoured ==
  ASSUME NEW u \in Users
  PROVE  Spec /\ []Uncrowded(u) => []Honoured(u)
  <1>1. Init => Types /\ Reach /\ Own /\ Account(u)
    BY InitTypes, InitAccount
  <1>2. Types /\ Reach /\ Own /\ Account(u) /\ Uncrowded(u) /\ [Next]_vars => (Types /\ Reach /\ Own /\ Account(u))'
    BY NextTypes, NextOwn, NextAccount DEF Uncomplicated
  <1>3. Types /\ Account(u) => Honoured(u)
    BY AccountHonoured
  <1> QED
    BY <1>1, <1>2, <1>3, PTL DEF Spec

----------------------------------------------------------------------------
(* When the users cannot get in each other's way, nor a user in their own. *)

OneAtATime == MaxOpen <= 2 /\ \A g, h \in Handlers : g = h

\* The only task sees the rows as they are.
Reading == \A h \in Handlers : pc[h] = "command" => sees[h] = expiries[task[h].payer]

LEMMA NextReading ==
  ASSUME OneAtATime, Types, Reading, [Next]_vars
  PROVE  Reading'
  <1>1. CASE UNCHANGED vars \/ NextDay \/ \E u, owner \in Users : Pay(u, owner)
    BY <1>1 DEF vars, NextDay, Pay, tasks, Reading
  <1>2. ASSUME NEW h \in Handlers, pc'[h] # "command"
        PROVE  Reading'
    BY <1>2 DEF Reading, OneAtATime
  <1>3. ASSUME NEW h \in Handlers, NEW u \in Users, PremiumCommand(h, u)
        PROVE  Reading'
    BY <1>3 DEF PremiumCommand, Load, Types, Reading, OneAtATime
  <1>4. ASSUME NEW h \in Handlers, SendInvoice(h) \/ ReceivePayment(h) \/ Activate(h) \/ CommitPayment(h)
        PROVE  Reading'
    <2>1. pc'[h] # "command"
      BY <1>4 DEF SendInvoice, ReceivePayment, Activate, CommitPayment, Load, Finish, Types
    <2> QED
      BY <1>2, <2>1
  <1>5. CASE Restart
    BY <1>5 DEF Restart, Reading
  <1> QED
    BY <1>1, <1>3, <1>4, <1>5 DEF Next

\* Neither rows nor open payments become more.
LEMMA FewStays ==
  ASSUME Types, Types', Reach, NEW v \in Users, Few(v), today <= today',
         expiries'[v] = expiries[v], Open(v)' \in Int, Open(v)' <= Open(v)
  PROVE  Few(v)'
  <1>1. Running(expiries[v])' \in SUBSET Running(expiries[v])
    BY Numbers DEF Running, Types
  <1>2. /\ Cardinality(Running(expiries[v])') <= Cardinality(Running(expiries[v]))
        /\ Cardinality(Running(expiries[v])') \in Nat /\ Cardinality(Running(expiries[v])) \in Nat
    BY <1>1, RunningFacts, FS_Subset, FS_CardinalityType
  <1>3. Open(v) \in Nat
    BY Numbers
  <1> QED
    BY <1>2, <1>3 DEF Few

LEMMA InvoiceFew ==
  ASSUME OneAtATime, Types, Types', Reach, Reading, NEW v \in Users, Few(v), NEW h \in Handlers, SendInvoice(h)
  PROVE  Few(v)'
  <1> DEFINE u == task[h].payer
  <1>1. /\ pc[h] = "command" /\ pc'[h] = "idle" /\ u \in Users
        /\ \A g \in Handlers \ {h} : pc'[g] = pc[g] /\ task'[g] = task[g] /\ sees'[g] = sees[g]
        /\ inbox' = inbox /\ excused' = excused /\ expiries' = expiries /\ today' = today
    BY DEF SendInvoice, Finish, Types, Busy, Update, history
  <1>2. Waiting(v)' = Waiting(v) /\ InProcess(v)' = InProcess(v)
    BY <1>1, QuietTask
  <1>3. /\ Cardinality(Waiting(v)) \in Nat /\ Cardinality(InProcess(v)) \in Nat /\ invoices[v] \in Nat
        /\ Open(v) \in Nat /\ today \in Nat
    BY Numbers
  <1>4. CASE invoices'[v] = invoices[v]
    <2>1. Open(v)' = Open(v)
      BY <1>2, <1>4 DEF Open
    <2> QED
      BY <1>1, <1>3, <2>1, FewStays
  <1>5. CASE invoices'[v] # invoices[v]
    <2>1. v = u /\ invoices'[v] = invoices[v] + 1 /\ Running(sees[h]) = {} /\ Open(v) < MaxOpen
      BY <1>1, <1>5 DEF SendInvoice, Types
    <2>2. Cardinality(Running(expiries[v])') = 0
      <3>1. Running(expiries[v])' = {}
        BY <1>1, <2>1 DEF Reading, Running
      <3> QED
        BY <3>1, FS_EmptySet
    <2>3. Open(v)' = Open(v) + 1
      BY <1>2, <1>3, <2>1 DEF Open
    <2> QED
      BY <1>3, <2>1, <2>2, <2>3, PremiumAssumption DEF Few, OneAtATime, PremiumAssumption
  <1> QED
    BY <1>4, <1>5

LEMMA CommitFew ==
  ASSUME Types, Types', Reach, Own, NEW v \in Users, Few(v), Booking(v),
         NEW h \in Handlers, CommitPayment(h), task[h].payer = v
  PROVE  Doomed(v)' \/ Few(v)'
  <1> SUFFICES ASSUME ~Doomed(v)' PROVE Few(v)'
    OBVIOUS
  <1>1. /\ today' = today /\ pc[h] = "answer" /\ h \in InProcess(v) /\ Open(v)' = Open(v) - 1
        /\ expiries'[v] = expiries[v] \cup sees[h]
    BY CommitFacts DEF Doomed
  <1>2. PICK e \in Nat : sees[h] = {e}
    BY <1>1 DEF Booking
  <1>3. Open(v) \in Nat /\ IsFiniteSet(Running(expiries[v])) /\ Cardinality(Running(expiries[v])) \in Nat
    BY Numbers
  <1>4. Running(expiries[v])' \in SUBSET (Running(expiries[v]) \cup {e})
    BY <1>1, <1>2 DEF Running
  <1>5. /\ IsFiniteSet(Running(expiries[v]) \cup {e})
        /\ Cardinality(Running(expiries[v]) \cup {e}) <= Cardinality(Running(expiries[v])) + 1
    <2>1. /\ IsFiniteSet(Running(expiries[v]) \cup {e})
          /\ Cardinality(Running(expiries[v]) \cup {e}) =
               IF e \in Running(expiries[v]) THEN Cardinality(Running(expiries[v]))
                                             ELSE Cardinality(Running(expiries[v])) + 1
      BY <1>3, FS_AddElement
    <2> QED
      BY <1>3, <2>1
  <1>6. /\ Cardinality(Running(expiries[v])') <= Cardinality(Running(expiries[v]) \cup {e})
        /\ Cardinality(Running(expiries[v])') \in Nat
        /\ Cardinality(Running(expiries[v]) \cup {e}) \in Nat
    BY <1>4, <1>5, FS_Subset, FS_CardinalityType
  <1> QED
    BY <1>1, <1>3, <1>5, <1>6 DEF Few

LEMMA NextFew ==
  ASSUME OneAtATime, Types, Types', Reach, Own, Reading, NEW v \in Users, Account(v), Doomed(v) \/ Few(v),
         [Next]_vars
  PROVE  Doomed(v)' \/ Few(v)'
  <1>1. /\ today \in Nat /\ Open(v) \in Nat /\ invoices[v] \in Nat /\ Pending(v) \in Nat
        /\ Open(v) = invoices[v] + Pending(v)
    BY Numbers
  <1>2. ASSUME UNCHANGED <<expiries, inbox, excused, invoices, pc, task>>, today <= today'
        PROVE  Doomed(v)' \/ Few(v)'
    <2>1. Waiting(v)' = Waiting(v) /\ InProcess(v)' = InProcess(v)
      BY <1>2 DEF Waiting, InProcess
    <2>2. Open(v)' = Open(v) /\ (Doomed(v) => Doomed(v)')
      BY <1>2, <2>1 DEF Open, Doomed
    <2> QED
      BY <1>1, <1>2, <2>2, FewStays
  <1>3. CASE UNCHANGED vars
    BY <1>1, <1>2, <1>3 DEF vars, telegram, tasks, history
  <1>4. CASE NextDay
    BY <1>1, <1>2, <1>4 DEF NextDay, telegram, tasks, history
  <1>5. ASSUME NEW h \in Handlers, NEW u \in Users, PremiumCommand(h, u)
        PROVE  Doomed(v)' \/ Few(v)'
    <2>1. /\ pc[h] = "idle" /\ pc'[h] = "command"
          /\ \A g \in Handlers \ {h} : pc'[g] = pc[g] /\ task'[g] = task[g] /\ sees'[g] = sees[g]
          /\ inbox' = inbox /\ invoices' = invoices /\ excused' = excused /\ expiries' = expiries /\ today' = today
      BY <1>5 DEF PremiumCommand, Load, Types, telegram, history
    <2>2. Waiting(v)' = Waiting(v) /\ InProcess(v)' = InProcess(v) /\ (Doomed(v) => Doomed(v)')
      BY <2>1, QuietTask
    <2>3. Open(v)' = Open(v)
      BY <2>1, <2>2 DEF Open
    <2> QED
      BY <1>1, <2>1, <2>2, <2>3, FewStays
  <1>6. ASSUME NEW h \in Handlers, SendInvoice(h)
        PROVE  Doomed(v)' \/ Few(v)'
    <2>1. Doomed(v) => Doomed(v)'
      <3>1. /\ pc[h] = "command" /\ pc'[h] = "idle"
            /\ \A g \in Handlers \ {h} : pc'[g] = pc[g] /\ task'[g] = task[g] /\ sees'[g] = sees[g]
            /\ inbox' = inbox /\ excused' = excused
        BY <1>6 DEF SendInvoice, Finish, Types, history
      <3> QED
        BY <3>1, QuietTask
    <2> QED
      BY <1>6, <2>1, InvoiceFew
  <1>7. ASSUME NEW u \in Users, NEW owner \in Users, Pay(u, owner)
        PROVE  Doomed(v)' \/ Few(v)'
    <2>1. /\ InProcess(v)' = InProcess(v) /\ (Doomed(v) => Doomed(v)')
          /\ Pending(v)' = Pending(v) + IF u = v THEN 1 ELSE 0
          /\ invoices'[v] = IF v = owner THEN invoices[v] - 1 ELSE invoices[v]
          /\ u = v /\ owner # v => Doomed(v)'
          /\ today' = today /\ expiries' = expiries
      BY <1>7, PayFacts
    <2>2. Open(v)' = invoices'[v] + Pending(v)'
      BY <1>7, PayFacts
    <2>3. u # v \/ owner = v => Open(v)' \in Int /\ Open(v)' <= Open(v)
      BY <1>1, <2>1, <2>2
    <2> QED
      BY <1>1, <2>1, <2>3, FewStays
  <1>8. ASSUME NEW h \in Handlers, ReceivePayment(h)
        PROVE  Doomed(v)' \/ Few(v)'
    <2>1. Open(v)' = Open(v) /\ (Doomed(v) => Doomed(v)') /\ today' = today /\ expiries' = expiries
      BY <1>8, ReceiveFacts
    <2> QED
      BY <1>1, <2>1, FewStays
  <1>9. ASSUME NEW h \in Handlers, Activate(h)
        PROVE  Doomed(v)' \/ Few(v)'
    <2>1. /\ Doomed(v)' \/ Open(v)' = Open(v)
          /\ (Doomed(v) => Doomed(v)') /\ today' = today /\ expiries' = expiries
      BY <1>9, ActivateFacts
    <2> QED
      BY <1>1, <2>1, FewStays
  <1>10. ASSUME NEW h \in Handlers, CommitPayment(h)
         PROVE  Doomed(v)' \/ Few(v)'
    <2>1. (Doomed(v) => Doomed(v)') /\ today' = today
      BY <1>10, CommitFacts
    <2>2. CASE task[h].payer # v
      <3>1. Open(v)' = Open(v) /\ expiries'[v] = expiries[v]
        BY <1>10, <2>2, CommitFacts
      <3> QED
        BY <1>1, <2>1, <3>1, FewStays
    <2>3. CASE task[h].payer = v
      BY <1>10, <2>1, <2>3, CommitFew DEF Account
    <2> QED
      BY <2>2, <2>3
  <1>11. CASE Restart
    <2>1. /\ (Doomed(v) => Doomed(v)') /\ (Doomed(v)' \/ Open(v)' = Open(v))
          /\ today' = today /\ expiries' = expiries
      BY <1>11, RestartFacts DEF Restart
    <2> QED
      BY <1>1, <2>1, FewStays
  <1> QED
    BY <1>3, <1>4, <1>5, <1>6, <1>7, <1>8, <1>9, <1>10, <1>11 DEF Next

\* With updates processed one at a time and at most two invoices of a user
\* open, days that are paid for are never lost to an overlap, for any number
\* of users, payments and days; the third invoice breaks it.
THEOREM PaidTimeHonouredAlways ==
  ASSUME OneAtATime
  PROVE  Spec => []PaidTimeHonoured
  <1> DEFINE Orderly == \A u \in Users : Account(u) /\ (Doomed(u) \/ Few(u))
  <1>1. Init => Types /\ Reach /\ Own /\ Reading /\ Orderly
    <2> SUFFICES ASSUME Init PROVE Types /\ Reach /\ Own /\ Reading /\ Orderly
      OBVIOUS
    <2>1. Own /\ Reading
      BY DEF Init, Own, Reading
    <2> QED
      BY <2>1, InitTypes, InitAccount
  <1>2. Types /\ Reach /\ Own /\ Reading /\ Orderly /\ [Next]_vars => (Types /\ Reach /\ Own /\ Reading /\ Orderly)'
    <2> SUFFICES ASSUME Types, Reach, Own, Reading, Orderly, [Next]_vars
                 PROVE  (Types /\ Reach /\ Own /\ Reading /\ Orderly)'
      OBVIOUS
    <2>1. Types' /\ Reach' /\ Own' /\ Reading'
      BY NextTypes, NextOwn, NextReading
    <2>2. ASSUME NEW v \in Users PROVE Account(v)' /\ (Doomed(v)' \/ Few(v)')
      <3>1. InTurn(v)
        BY DEF OneAtATime, InTurn, InProcess
      <3>2. Account(v) /\ Uncomplicated(v) /\ (Doomed(v) \/ Few(v))
        BY <3>1 DEF Uncomplicated, Uncrowded
      <3> HIDE DEF Orderly
      <3> QED
        BY <2>1, <3>2, NextAccount, NextFew
    <2> QED
      BY <2>1, <2>2
  <1>3. Types /\ Orderly => PaidTimeHonoured
    BY AccountHonoured DEF Honoured, PaidTimeHonoured
  <1> HIDE DEF Orderly
  <1> QED
    BY <1>1, <1>2, <1>3, PTL DEF Spec
=============================================================================
