--------------------------- MODULE Sessions_proofs ---------------------------
(***************************************************************************)
(* Proofs about Sessions, for any users, any finite number of updates in   *)
(* process, any size of the pool, and any faults.                          *)
(***************************************************************************)
EXTENDS Sessions, FiniteSetTheorems, TLAPS

----------------------------------------------------------------------------
(* The inductive invariant.                                                *)

Places == Connected \cup {"idle", "connect", "report"}

\* TypeOK but for the upper bound of free and the collisions, each stated for
\* itself below.
Types ==
    /\ row \in [Users -> Flags \cup {"absent"}] /\ subs \in [Users -> BOOLEAN]
    /\ lapsed \in [Users -> BOOLEAN] /\ free \in Nat
    /\ lock \in [Users -> Tasks \cup {Nobody}] /\ sublock \in [Users -> Tasks \cup {Nobody}]
    /\ pc \in [Tasks -> Places]
    /\ user \in [Tasks -> Users \cup {Nobody}]
    /\ seen \in [Tasks -> Flags \cup {"absent"}]
    /\ premium \in [Tasks -> BOOLEAN] /\ pays \in [Tasks -> BOOLEAN]
    /\ write \in [Tasks -> Flags \cup {"nothing"}]
    /\ expires \in [Tasks -> {"nothing", "all", "some"}]
    /\ entitled \in SUBSET Watched /\ collisions \in [Users -> Nat]

\* The tasks that have a connection.
Holders == {t \in Tasks : pc[t] \in Connected}
Counted == free + Cardinality(Holders) = PoolSize
Open(held) == \A u \in Users : held[u] # Nobody => pc[held[u]] \in Connected
Locking == Open(lock) /\ Open(sublock)

\* A task works for its user until it is done with them.
Working == \A t \in Tasks : pc[t] \in Connected \cup {"connect"} => user[t] \in Users

\* A subscription belongs to a user with a row, and is booked by a task that
\* has read that row.
Rows ==
    /\ \A u \in Users : subs[u] => row[u] # "absent"
    /\ \A t \in Tasks : seen[t] # "absent" => user[t] \in Users /\ row[user[t]] # "absent"
    /\ \A t \in Tasks : pays[t] \/ pc[t] \in {"load", "flush", "expire", "activate"} => seen[t] # "absent"
    /\ \A t \in Tasks : pc[t] \notin Connected => seen[t] = "absent"

\* Whoever is entitled has a subscription: their task finds their row, and
\* with it the subscription.
Entitling ==
    \A t \in entitled :
        /\ user[t] \in Users /\ subs[user[t]]
        /\ \/ pc[t] \in {"connect", "load"}
           \/ pc[t] \in {"flush", "expire", "handler", "activate", "commit"} /\ premium[t]

IInv == Types /\ Counted /\ Locking /\ Working /\ Rows /\ Entitling

----------------------------------------------------------------------------
(* Connections and tasks.                                                  *)

LEMMA HoldersFinite == Types => IsFiniteSet(Holders) /\ Cardinality(Holders) \in Nat
  <1> SUFFICES ASSUME Types PROVE IsFiniteSet(Holders) /\ Cardinality(Holders) \in Nat
    OBVIOUS
  <1>1. Holders \subseteq Tasks
    BY DEF Holders
  <1>2. QED
    BY <1>1, FS_Subset, FS_CardinalityType, SessionsAssumption DEF SessionsAssumption

\* A task takes a connection.
LEMMA Taken ==
  ASSUME Types, Counted, NEW t \in Tasks, pc[t] \notin Connected, NEW p \in Connected, Goto(t, p),
         free > 0, free' = free - 1
  PROVE  Counted' /\ free' \in Nat
  <1>1. Holders' = Holders \cup {t} /\ t \notin Holders
    BY DEF Types, Goto, Holders
  <1>2. Cardinality(Holders') = Cardinality(Holders) + 1
    BY <1>1, HoldersFinite, FS_AddElement
  <1>3. free \in Nat /\ Cardinality(Holders) \in Nat /\ PoolSize \in Nat
    BY HoldersFinite, SessionsAssumption DEF Types, SessionsAssumption
  <1>4. QED
    BY <1>2, <1>3 DEF Counted

\* A task gives its connection back.
LEMMA Returned ==
  ASSUME Types, Counted, NEW t \in Tasks, pc[t] \in Connected, NEW p \in Places \ Connected, Goto(t, p),
         free' = free + 1
  PROVE  Counted' /\ free' \in Nat
  <1>1. Holders' = Holders \ {t} /\ t \in Holders
    BY DEF Types, Goto, Holders
  <1>2. Cardinality(Holders') = Cardinality(Holders) - 1
    BY <1>1, HoldersFinite, FS_RemoveElement
  <1>3. free \in Nat /\ Cardinality(Holders) \in Nat /\ PoolSize \in Nat
    BY HoldersFinite, SessionsAssumption DEF Types, SessionsAssumption
  <1>4. QED
    BY <1>2, <1>3 DEF Counted

\* A task goes on with or without a connection, as before.
LEMMA Kept ==
  ASSUME Types, Counted, NEW t \in Tasks, NEW p \in Places, pc[t] \in Connected <=> p \in Connected,
         Goto(t, p), free' = free
  PROVE  Counted' /\ free' \in Nat
  <1>1. Holders' = Holders
    BY DEF Types, Goto, Holders
  <1>2. QED
    BY <1>1 DEF Counted, Types

\* A task that goes on keeps what it has locked, and may lock more.
LEMMA OpenKept ==
  ASSUME Types, NEW held \in [Users -> Tasks \cup {Nobody}], NEW next, Open(held),
         NEW t \in Tasks, NEW p \in Places, Goto(t, p), pc[t] \in Connected => p \in Connected,
         \/ next = held
         \/ p \in Connected /\ \E u \in Users : next = [held EXCEPT ![u] = t]
  PROVE  \A u \in Users : next[u] # Nobody => pc'[next[u]] \in Connected
  <1>1. \A o \in Tasks : pc'[o] = IF o = t THEN p ELSE pc[o]
    BY DEF Goto, Types
  <1>2. CASE next = held
    BY <1>1, <1>2 DEF Open
  <1>3. ASSUME p \in Connected, NEW v \in Users, next = [held EXCEPT ![v] = t]
        PROVE  \A u \in Users : next[u] # Nobody => pc'[next[u]] \in Connected
    <2> TAKE u \in Users
    <2>1. CASE u = v
      BY <1>1, <1>3, <2>1
    <2>2. CASE u # v
      BY <1>1, <1>3, <2>2 DEF Open
    <2>3. QED
      BY <2>1, <2>2
  <1>4. QED
    BY <1>2, <1>3

LEMMA LockingKept ==
  ASSUME Types, Locking, NEW t \in Tasks, NEW p \in Places, Goto(t, p), pc[t] \in Connected => p \in Connected,
         lock' = lock \/ (p \in Connected /\ \E u \in Users : lock' = [lock EXCEPT ![u] = t]),
         sublock' = sublock \/ (p \in Connected /\ \E u \in Users : sublock' = [sublock EXCEPT ![u] = t])
  PROVE  Locking'
  <1>1. lock \in [Users -> Tasks \cup {Nobody}] /\ sublock \in [Users -> Tasks \cup {Nobody}]
    BY DEF Types
  <1>2. Open(lock)' /\ Open(sublock)'
    BY <1>1, OpenKept DEF Locking, Open
  <1>3. QED
    BY <1>2 DEF Locking

\* The end of a transaction.
LEMMA LockingEnds ==
  ASSUME Types, Locking, NEW t \in Tasks, NEW p \in Places, Goto(t, p), EndTransaction(t)
  PROVE  Locking'
  <1>1. \A o \in Tasks \ {t} : pc'[o] = pc[o]
    BY DEF Goto, Types
  <1>2. \A u \in Users : lock'[u] # Nobody => lock'[u] = lock[u] /\ lock[u] \in Tasks \ {t}
    BY DEF EndTransaction, ReleaseLocks, Types
  <1>3. \A u \in Users : sublock'[u] # Nobody => sublock'[u] = sublock[u] /\ sublock[u] \in Tasks \ {t}
    BY DEF EndTransaction, ReleaseLocks, Types
  <1>4. Open(lock)'
    BY <1>1, <1>2 DEF Open, Locking
  <1>5. Open(sublock)'
    BY <1>1, <1>3 DEF Open, Locking
  <1>6. QED
    BY <1>4, <1>5 DEF Locking

\* A task that fails keeps nothing.
LEMMA FailFacts ==
  ASSUME IInv, NEW t \in Tasks, pc[t] \in Connected, Fail(t), UNCHANGED collisions \/ collisions' \in [Users -> Nat]
  PROVE  IInv'
  <1>1. Goto(t, "report") /\ free' = free + 1
    BY DEF Fail, ReturnConnection
  <1>2. Counted' /\ free' \in Nat
    BY <1>1, Returned DEF IInv, Places, Connected
  <1>3. Types'
    BY <1>2 DEF IInv, Types, Fail, Goto, Forget, EndTransaction, ReleaseLocks, Places
  <1>4. Locking'
    BY <1>1, LockingEnds DEF IInv, Fail, Places
  <1>5. Working' /\ Rows' /\ Entitling'
    BY DEF IInv, Types, Working, Rows, Entitling, Fail, Goto, Forget, Connected
  <1>6. QED
    BY <1>2, <1>3, <1>4, <1>5 DEF IInv

LEMMA InitIInv == Init => IInv
  <1> SUFFICES ASSUME Init PROVE IInv
    OBVIOUS
  <1>1. Holders = {}
    BY DEF Init, Holders, Connected
  <1>2. Counted
    BY <1>1, FS_EmptySet, SessionsAssumption DEF Init, Counted, SessionsAssumption
  <1>3. Types /\ Locking /\ Working /\ Rows /\ Entitling
    BY SessionsAssumption
       DEF Init, Types, Flags, Places, Open, Locking, Working, Rows, Entitling, Connected, SessionsAssumption
  <1>4. QED
    BY <1>2, <1>3 DEF IInv

LEMMA NextIInv == IInv /\ [Next]_vars => IInv'
  <1> SUFFICES ASSUME IInv, [Next]_vars PROVE IInv'
    OBVIOUS
  <1> USE SessionsAssumption DEF SessionsAssumption, IInv, database, locals, history
  <1>1. ASSUME NEW u \in Users, RunOut(u) PROVE IInv'
    <2>1. Counted'
      BY <1>1 DEF RunOut, Counted, Holders
    <2>2. Types'
      BY <1>1, <2>1 DEF RunOut, Types
    <2>3. Locking' /\ Working' /\ Rows'
      BY <1>1 DEF RunOut, Types, Open, Locking, Working, Rows
    <2>4. Entitling'
      BY <1>1 DEF RunOut, Types, Entitling
    <2>5. QED
      BY <2>1, <2>2, <2>3, <2>4
  <1>2. ASSUME NEW t \in Tasks, NEW u \in Users, Receive(t, u) PROVE IInv'
    <2>1. Counted' /\ free' \in Nat
      BY <1>2, Kept DEF Receive, Places, Connected
    <2>2. Types'
      BY <1>2, <2>1 DEF Receive, Goto, Types, Places
    <2>3. Locking' /\ Working'
      BY <1>2, LockingKept DEF Receive, Goto, Types, Working, Connected, Places
    <2>4. Rows'
      BY <1>2 DEF Receive, Goto, Types, Rows, Working, Connected
    <2>5. Entitling'
      BY <1>2 DEF Receive, Goto, Types, Entitling, Working
    <2>6. QED
      BY <2>1, <2>2, <2>3, <2>4, <2>5
  <1>3. ASSUME NEW t \in Tasks, Connect(t) PROVE IInv'
    <2> DEFINE p == IF row[user[t]] = "absent" THEN "insert" ELSE "load"
    <2>1. /\ pc[t] = "connect" /\ user[t] \in Users /\ free > 0 /\ free' = free - 1
          /\ seen' = [seen EXCEPT ![t] = row[user[t]]] /\ Goto(t, p)
          /\ UNCHANGED <<database, user, premium, write, pays, expires, history>>
      BY <1>3 DEF Connect, LookUp, Working
    <2>2. Counted' /\ free' \in Nat
      BY <2>1, Taken DEF Connected
    <2>3. Types'
      BY <2>1, <2>2 DEF Goto, Types, Places, Connected
    <2>4. Locking' /\ Working'
      BY <2>1, LockingKept DEF Goto, Types, Working, Connected, Places
    <2>5. Rows'
      BY <2>1 DEF Goto, Types, Rows, Connected
    <2>6. Entitling'
      BY <2>1 DEF Goto, Types, Entitling, Rows
    <2>7. QED
      BY <2>2, <2>3, <2>4, <2>5, <2>6
  <1>4. ASSUME NEW t \in Tasks, PoolTimeout(t) PROVE IInv'
    <2>1. Counted' /\ free' \in Nat
      BY <1>4, Kept DEF PoolTimeout, Places, Connected
    <2>2. Types'
      BY <1>4, <2>1 DEF PoolTimeout, Goto, Forget, Types, Places
    <2>3. Locking' /\ Working'
      BY <1>4, LockingKept DEF PoolTimeout, Goto, Forget, Types, Working, Connected, Places
    <2>4. Rows' /\ Entitling'
      BY <1>4 DEF PoolTimeout, Goto, Forget, Types, Rows, Entitling, Connected
    <2>5. QED
      BY <2>1, <2>2, <2>3, <2>4
  <1>5. ASSUME NEW t \in Tasks, Insert(t) PROVE IInv'
    <2>1. pc[t] = "insert" /\ user[t] \in Users
      BY <1>5 DEF Insert, Working, Connected
    <2>2. CASE Fail(t)
      <3>1. UNCHANGED collisions \/ collisions' \in [Users -> Nat]
        BY <1>5, <2>1, <2>2 DEF Insert, Types
      <3>2. QED
        BY <2>1, <2>2, <3>1, FailFacts DEF Connected
    <2>3. CASE ~Fail(t)
      <3>1. /\ lock' = [lock EXCEPT ![user[t]] = t] /\ write' = [write EXCEPT ![t] = "free"] /\ Goto(t, "handler")
            /\ UNCHANGED <<row, subs, lapsed, sublock, free, user, seen, premium, pays, expires, history>>
        BY <1>5, <2>3 DEF Insert
      <3>2. Counted' /\ free' \in Nat
        BY <2>1, <3>1, Kept DEF Places, Connected
      <3>3. Types'
        BY <2>1, <3>1, <3>2 DEF Goto, Types, Places, Flags, Connected
      <3>4. Locking' /\ Working'
        BY <2>1, <3>1, LockingKept DEF Goto, Types, Working, Connected, Places
      <3>5. Rows' /\ Entitling'
        BY <2>1, <3>1 DEF Goto, Types, Rows, Entitling, Connected
      <3>6. QED
        BY <3>2, <3>3, <3>4, <3>5
    <2>4. QED
      BY <2>2, <2>3
  <1>6. ASSUME NEW t \in Tasks, LoadSubscriptions(t) PROVE IInv'
    <2>1. PICK p \in {"flush", "expire", "handler"} : Goto(t, p)
      BY <1>6 DEF LoadSubscriptions, ToFlush, ToExpire
    <2>2. Counted' /\ free' \in Nat
      BY <1>6, <2>1, Kept DEF LoadSubscriptions, Places, Connected
    <2>3. Types'
      BY <1>6, <2>1, <2>2 DEF LoadSubscriptions, Goto, HasActive, Types, Places, Connected, Rows
    <2>4. Locking' /\ Working'
      BY <1>6, <2>1, LockingKept DEF LoadSubscriptions, Goto, Types, Working, Connected, Places
    <2>5. Rows' /\ Entitling'
      BY <1>6, <2>1 DEF LoadSubscriptions, Goto, HasActive, Types, Rows, Entitling, Connected
    <2>6. QED
      BY <2>2, <2>3, <2>4, <2>5
  <1>7. ASSUME NEW t \in Tasks, Flush(t) \/ Expire(t) PROVE IInv'
    <2>1. PICK p \in {"expire", "handler"} : Goto(t, p)
      BY <1>7 DEF Flush, Expire, ToExpire
    <2>2. /\ pc[t] \in {"flush", "expire"} /\ user[t] \in Users
          /\ lock' = lock \/ lock' = [lock EXCEPT ![user[t]] = t]
          /\ sublock' = sublock \/ sublock' = [sublock EXCEPT ![user[t]] = t]
          /\ UNCHANGED <<row, subs, lapsed, free, user, seen, premium, pays, expires, history>>
      BY <1>7 DEF Flush, Expire, Working, Connected
    <2>3. write' \in [Tasks -> Flags \cup {"nothing"}]
      BY <1>7 DEF Flush, Expire, Types, Flag, Flags
    <2>4. Counted' /\ free' \in Nat
      BY <2>1, <2>2, Kept DEF Places, Connected
    <2>5. Types'
      BY <2>1, <2>2, <2>3, <2>4 DEF Goto, Types, Places, Connected
    <2>6. Locking' /\ Working'
      BY <2>1, <2>2, LockingKept DEF Goto, Types, Working, Connected, Places
    <2>7. Rows' /\ Entitling'
      BY <2>1, <2>2 DEF Goto, Types, Rows, Entitling, Connected
    <2>8. QED
      BY <2>4, <2>5, <2>6, <2>7
  <1>8. ASSUME NEW t \in Tasks, StatementTimeout(t) \/ DeadlockDetected(t) PROVE IInv'
    BY <1>8, FailFacts DEF StatementTimeout, DeadlockDetected, Circle, Waits, Connected
  <1>9. ASSUME NEW t \in Tasks, Handle(t) PROVE IInv'
    <2>1. CASE Fail(t)
      BY <1>9, <2>1, FailFacts DEF Handle, Connected
    <2>2. CASE ~Fail(t)
      <3>1. /\ pc[t] = "handler" /\ \E p \in {"commit", "activate"} : Goto(t, p) /\ (p = "activate" => seen[t] # "absent")
            /\ UNCHANGED <<database, free, locals, history>>
        BY <1>9, <2>2 DEF Handle
      <3>2. Counted' /\ free' \in Nat
        BY <3>1, Kept DEF Places, Connected
      <3>3. Types'
        BY <3>1, <3>2 DEF Goto, Types, Places, Connected
      <3>4. Locking' /\ Working'
        BY <3>1, LockingKept DEF Goto, Types, Working, Connected, Places
      <3>5. Rows' /\ Entitling'
        BY <3>1 DEF Goto, Types, Rows, Entitling, Connected
      <3>6. QED
        BY <3>2, <3>3, <3>4, <3>5
    <2>3. QED
      BY <2>1, <2>2
  <1>10. ASSUME NEW t \in Tasks, Activate(t) PROVE IInv'
    <2>1. /\ pc[t] = "activate" /\ user[t] \in Users /\ Goto(t, "commit")
          /\ lock' = lock \/ lock' = [lock EXCEPT ![user[t]] = t]
          /\ pays' = [pays EXCEPT ![t] = TRUE] /\ premium' = [premium EXCEPT ![t] = TRUE]
          /\ UNCHANGED <<row, subs, lapsed, sublock, free, user, seen, expires, history>>
      BY <1>10 DEF Activate, Working, Connected
    <2>2. write' \in [Tasks -> Flags \cup {"nothing"}]
      BY <1>10 DEF Activate, Types, Flags
    <2>3. Counted' /\ free' \in Nat
      BY <2>1, Kept DEF Places, Connected
    <2>4. Types'
      BY <2>1, <2>2, <2>3 DEF Goto, Types, Places, Connected
    <2>5. Locking' /\ Working'
      BY <2>1, LockingKept DEF Goto, Types, Working, Connected, Places
    <2>6. Rows' /\ Entitling'
      BY <2>1 DEF Goto, Types, Rows, Entitling, Connected
    <2>7. QED
      BY <2>3, <2>4, <2>5, <2>6
  <1>11. ASSUME NEW t \in Tasks, Commit(t) PROVE IInv'
    <2>1. pc[t] = "commit" /\ user[t] \in Users
      BY <1>11 DEF Commit, Working, Connected
    <2>2. CASE Fail(t)
      BY <1>11, <2>1, <2>2, FailFacts DEF Commit, Connected
    <2>3. CASE ~Fail(t)
      <3>1. /\ row' = IF write[t] \in Flags THEN [row EXCEPT ![user[t]] = write[t]] ELSE row
            /\ subs' = IF pays[t] THEN [subs EXCEPT ![user[t]] = TRUE] ELSE subs
            /\ lapsed' = lapsed \/ lapsed' = [lapsed EXCEPT ![user[t]] = FALSE]
            /\ EndTransaction(t) /\ free' = free + 1
            /\ Goto(t, "idle") /\ Forget(t) /\ UNCHANGED collisions
        BY <1>11, <2>3 DEF Commit, ReturnConnection
      <3>2. Counted' /\ free' \in Nat
        BY <2>1, <3>1, Returned DEF Places, Connected
      <3>3. row' \in [Users -> Flags \cup {"absent"}] /\ \A u \in Users : row[u] # "absent" => row'[u] # "absent"
        BY <2>1, <3>1 DEF Types, Flags
      <3>4. subs' \in [Users -> BOOLEAN] /\ \A u \in Users : subs'[u] => subs[u] \/ (u = user[t] /\ pays[t])
        BY <2>1, <3>1 DEF Types
      <3>5. \A u \in Users : subs[u] => subs'[u]
        BY <2>1, <3>1 DEF Types
      <3>6. Types'
        BY <3>1, <3>2, <3>3, <3>4 DEF Goto, Forget, EndTransaction, ReleaseLocks, Types, Places
      <3>7. Locking'
        BY <3>1, LockingEnds DEF Places
      <3>8. Working'
        BY <3>1 DEF Types, Working, Goto, Forget, Connected
      <3>9. Rows'
        BY <2>1, <3>1, <3>3, <3>4 DEF Types, Rows, Goto, Forget, Connected
      <3>10. Entitling'
        BY <3>1, <3>5 DEF Types, Entitling, Goto, Forget
      <3>11. QED
        BY <3>2, <3>6, <3>7, <3>8, <3>9, <3>10
    <2>4. QED
      BY <2>2, <2>3
  <1>12. ASSUME NEW t \in Tasks, Report(t) PROVE IInv'
    <2>1. Counted' /\ free' \in Nat
      BY <1>12, Kept DEF Report, Places, Connected
    <2>2. Types'
      BY <1>12, <2>1 DEF Report, Goto, Types, Places
    <2>3. Locking' /\ Working'
      BY <1>12, LockingKept DEF Report, Goto, Types, Working, Connected, Places
    <2>4. Rows' /\ Entitling'
      BY <1>12 DEF Report, Goto, Types, Rows, Entitling, Connected
    <2>5. QED
      BY <2>1, <2>2, <2>3, <2>4
  <1>13. CASE Restart
    <2>1. Holders' = {}
      BY <1>13 DEF Restart, Holders, Connected
    <2>2. Counted'
      BY <1>13, <2>1, FS_EmptySet DEF Restart, Counted
    <2>3. QED
      BY <1>13, <2>2 DEF Restart, Types, Places, Flags, Open, Locking, Working, Rows, Entitling, Connected
  <1>14. CASE UNCHANGED vars
    <2>1. Counted'
      BY <1>14 DEF vars, Counted, Holders
    <2>2. QED
      BY <1>14, <2>1 DEF vars, Types, Open, Locking, Working, Rows, Entitling
  <1>15. QED
    BY <1>1, <1>2, <1>3, <1>4, <1>5, <1>6, <1>7, <1>8, <1>9, <1>10, <1>11, <1>12, <1>13, <1>14
       DEF Next, Contended, Free

LEMMA Invariance == Spec => []IInv
  BY InitIInv, NextIInv, PTL DEF Spec

----------------------------------------------------------------------------
(* Collisions on telegram_id.                                              *)

\* The tasks that are about to insert user u.
Inserting(u) == {t \in Tasks : pc[t] = "insert" /\ user[t] = u}

\* Once the row is there, every collision that is still to come is one of a
\* task that is already inserting; none of those is the one that has won.
FirstOf(u) ==
    /\ row[u] = "absent" => collisions[u] = 0
    /\ row[u] # "absent" => /\ collisions[u] + Cardinality(Inserting(u)) < Cardinality(Tasks)
                            /\ collisions[u] + Cardinality(Inserting(u)) < PoolSize
First == \A u \in Users : FirstOf(u)

LEMMA Fewer ==
  ASSUME NEW S, IsFiniteSet(S), NEW T \in SUBSET S, NEW c \in Nat, NEW k \in Nat, c + Cardinality(S) < k
  PROVE  c + Cardinality(T) < k
  <1>1. IsFiniteSet(T) /\ Cardinality(T) <= Cardinality(S)
    BY FS_Subset
  <1>2. Cardinality(T) \in Nat /\ Cardinality(S) \in Nat
    BY <1>1, FS_CardinalityType
  <1>3. QED
    BY <1>1, <1>2

LEMMA InsertingFinite ==
  ASSUME NEW u
  PROVE  /\ IsFiniteSet(Inserting(u)) /\ Cardinality(Inserting(u)) \in Nat
         /\ IsFiniteSet(Tasks) /\ Cardinality(Tasks) \in Nat /\ Cardinality(Tasks) > 0
         /\ PoolSize \in Nat /\ PoolSize > 0
  <1>1. Inserting(u) \subseteq Tasks
    BY DEF Inserting
  <1>2. IsFiniteSet(Inserting(u)) /\ IsFiniteSet(Tasks)
    BY <1>1, FS_Subset, SessionsAssumption DEF SessionsAssumption
  <1>3. Cardinality(Inserting(u)) \in Nat /\ Cardinality(Tasks) \in Nat /\ Cardinality(Tasks) # 0
    BY <1>2, FS_CardinalityType, FS_EmptySet, SessionsAssumption DEF SessionsAssumption
  <1>4. QED
    BY <1>2, <1>3, SessionsAssumption DEF SessionsAssumption

\* A step after which no other task inserts u.
LEMMA NobodyElse ==
  ASSUME IInv, NEW u \in Users, FirstOf(u), row'[u] = "absent" <=> row[u] = "absent",
         collisions'[u] = collisions[u], row[u] # "absent" => Inserting(u)' \subseteq Inserting(u)
  PROVE  FirstOf(u)'
  <1>1. CASE row[u] = "absent"
    BY <1>1 DEF FirstOf
  <1>2. CASE row[u] # "absent"
    <2>1. collisions[u] \in Nat
      BY DEF IInv, Types
    <2>2. collisions[u] + Cardinality(Inserting(u)') < Cardinality(Tasks)
      BY <1>2, <2>1, Fewer, InsertingFinite DEF FirstOf
    <2>3. collisions[u] + Cardinality(Inserting(u)') < PoolSize
      BY <1>2, <2>1, Fewer, InsertingFinite DEF FirstOf
    <2>4. QED
      BY <1>2, <2>2, <2>3 DEF FirstOf
  <1>3. QED
    BY <1>1, <1>2

\* The INSERT that finds the row there.
LEMMA CollisionCounts ==
  ASSUME IInv, First, NEW t \in Tasks, pc[t] = "insert", row[user[t]] # "absent", Fail(t),
         collisions' = [collisions EXCEPT ![user[t]] = @ + 1]
  PROVE  First'
  <1> SUFFICES ASSUME NEW u \in Users PROVE FirstOf(u)'
    BY DEF First
  <1>1. FirstOf(u) /\ row' = row /\ user[t] \in Users
    BY DEF First, Fail, IInv, Working, Connected
  <1>2. Inserting(u)' = Inserting(u) \ {t}
    BY DEF Fail, Goto, Forget, Inserting, IInv, Types
  <1>3. CASE u # user[t]
    BY <1>1, <1>2, <1>3, NobodyElse DEF IInv, Types
  <1>4. CASE u = user[t]
    <2>1. collisions[u] \in Nat /\ collisions'[u] = collisions[u] + 1
      BY <1>4 DEF IInv, Types
    <2>2. t \in Inserting(u)
      BY <1>4 DEF Inserting
    <2>3. Cardinality(Inserting(u)') = Cardinality(Inserting(u)) - 1
      BY <1>2, <2>2, FS_RemoveElement, InsertingFinite
    <2>4. collisions'[u] + Cardinality(Inserting(u)') = collisions[u] + Cardinality(Inserting(u))
      BY <2>1, <2>3, InsertingFinite
    <2>5. QED
      BY <1>1, <1>4, <2>4 DEF FirstOf
  <1>5. QED
    BY <1>3, <1>4

\* The first commit: the winner is connected and does not insert any more.
LEMMA WinnerCounts ==
  ASSUME IInv, First, NEW t \in Tasks, pc[t] = "commit", NEW u \in Users, row[u] = "absent",
         UNCHANGED collisions, Inserting(u)' \subseteq Inserting(u)
  PROVE  FirstOf(u)'
  <1>1. collisions'[u] = 0
    BY DEF First, FirstOf
  <1>2. t \in Holders /\ Inserting(u) \subseteq Holders \ {t} /\ Inserting(u) \subseteq Tasks \ {t}
    BY DEF Holders, Inserting, Connected
  <1>3. IsFiniteSet(Holders \ {t}) /\ Cardinality(Holders \ {t}) = Cardinality(Holders) - 1
    BY <1>2, HoldersFinite, FS_RemoveElement DEF IInv
  <1>4. IsFiniteSet(Tasks \ {t}) /\ Cardinality(Tasks \ {t}) = Cardinality(Tasks) - 1
    BY InsertingFinite, FS_RemoveElement
  <1>5. 0 + Cardinality(Holders \ {t}) < PoolSize
    BY <1>3, HoldersFinite, InsertingFinite DEF IInv, Types, Counted
  <1>6. 0 + Cardinality(Tasks \ {t}) < Cardinality(Tasks)
    BY <1>4, InsertingFinite
  <1>7. 0 + Cardinality(Inserting(u)') < PoolSize
    BY <1>2, <1>3, <1>5, Fewer, InsertingFinite
  <1>8. 0 + Cardinality(Inserting(u)') < Cardinality(Tasks)
    BY <1>2, <1>4, <1>6, Fewer, InsertingFinite
  <1>9. QED
    BY <1>1, <1>7, <1>8 DEF FirstOf

LEMMA InitFirst == Init => First
  BY DEF Init, First, FirstOf

LEMMA NextFirst == IInv /\ First /\ [Next]_vars => First'
  <1> SUFFICES ASSUME IInv, First, [Next]_vars PROVE First'
    OBVIOUS
  <1> USE DEF database, locals, history
  <1>1. ASSUME UNCHANGED <<row, collisions>>,
               \A t \in Tasks : pc'[t] = "insert" => pc[t] = "insert" /\ user'[t] = user[t]
        PROVE  First'
    <2>1. \A u \in Users : Inserting(u)' \subseteq Inserting(u)
      BY <1>1 DEF Inserting
    <2>2. QED
      BY <1>1, <2>1, NobodyElse DEF First
  <1>2. ASSUME NEW t \in Tasks, Fail(t), UNCHANGED collisions PROVE First'
    BY <1>1, <1>2 DEF Fail, Goto, Forget, IInv, Types
  <1>3. ASSUME NEW t \in Tasks, Connect(t) PROVE First'
    <2>1. \A u \in Users : row[u] # "absent" => Inserting(u)' \subseteq Inserting(u)
      BY <1>3 DEF Connect, LookUp, Goto, Inserting, IInv, Types
    <2>2. QED
      BY <1>3, <2>1, NobodyElse DEF First, Connect
  <1>4. ASSUME NEW t \in Tasks, Insert(t) PROVE First'
    <2>1. CASE row[user[t]] = "absent"
      BY <1>1, <1>4, <2>1 DEF Insert, Goto, IInv, Types
    <2>2. CASE row[user[t]] # "absent"
      BY <1>4, <2>2, CollisionCounts DEF Insert
    <2>3. QED
      BY <2>1, <2>2
  <1>5. ASSUME NEW t \in Tasks, Commit(t) PROVE First'
    <2>1. CASE Fail(t)
      BY <1>2, <1>5, <2>1 DEF Commit
    <2>2. CASE ~Fail(t)
      <3>1. /\ pc[t] = "commit" /\ Goto(t, "idle") /\ Forget(t) /\ UNCHANGED collisions
            /\ row' = IF write[t] \in Flags THEN [row EXCEPT ![user[t]] = write[t]] ELSE row
        BY <1>5, <2>2 DEF Commit
      <3>2. \A u \in Users : Inserting(u)' \subseteq Inserting(u)
        BY <3>1 DEF Goto, Forget, Inserting, IInv, Types
      <3>3. \A u \in Users : row[u] # "absent" => row'[u] # "absent"
        BY <3>1 DEF IInv, Types, Flags
      <3>4. ASSUME NEW u \in Users PROVE FirstOf(u)'
        <4>1. CASE row[u] = "absent"
          BY <3>1, <3>2, <4>1, WinnerCounts
        <4>2. CASE row[u] # "absent"
          BY <3>1, <3>2, <3>3, <4>2, NobodyElse DEF First
        <4>3. QED
          BY <4>1, <4>2
      <3>5. QED
        BY <3>4 DEF First
    <2>3. QED
      BY <2>1, <2>2
  <1>6. ASSUME NEW t \in Tasks, Handle(t) PROVE First'
    <2>1. CASE Fail(t)
      BY <1>2, <1>6, <2>1 DEF Handle
    <2>2. CASE ~Fail(t)
      BY <1>1, <1>6, <2>2 DEF Handle, Goto, IInv, Types
    <2>3. QED
      BY <2>1, <2>2
  <1>7. ASSUME NEW t \in Tasks,
               PoolTimeout(t) \/ LoadSubscriptions(t) \/ Flush(t) \/ Expire(t) \/ Activate(t) \/ Report(t)
        PROVE  First'
    BY <1>1, <1>7 DEF PoolTimeout, LoadSubscriptions, ToFlush, ToExpire, Flush, Expire, Activate, Report, Goto,
                      Forget, IInv, Types
  <1>8. ASSUME NEW t \in Tasks, StatementTimeout(t) \/ DeadlockDetected(t) PROVE First'
    BY <1>2, <1>8 DEF StatementTimeout, DeadlockDetected
  <1>9. ASSUME NEW t \in Tasks, NEW u \in Users, Receive(t, u) PROVE First'
    BY <1>1, <1>9 DEF Receive, Goto, IInv, Types
  <1>10. ASSUME NEW u \in Users, RunOut(u) PROVE First'
    BY <1>1, <1>10 DEF RunOut
  <1>11. CASE Restart
    BY <1>1, <1>11 DEF Restart
  <1>12. CASE UNCHANGED vars
    BY <1>1, <1>12 DEF vars
  <1>13. QED
    BY <1>3, <1>4, <1>5, <1>6, <1>7, <1>8, <1>9, <1>10, <1>11, <1>12 DEF Next, Contended, Free

----------------------------------------------------------------------------
(* Who waits for whom.                                                     *)

WaitsForPool(t) == pc[t] = "connect" /\ free = 0

\* Where a task may be that has written the row of its user, or subscriptions.
PastExpire == {"handler", "activate", "commit"}
PastFlush == PastExpire \cup {"expire"}

\* A row is locked by a task of its user that is past the UPDATE that locks
\* it; and whatever a task has written is locked.
Owning ==
    /\ \A u \in Users : lock[u] # Nobody => pc[lock[u]] \in PastFlush /\ user[lock[u]] = u
    /\ \A u \in Users : sublock[u] # Nobody => pc[sublock[u]] \in PastExpire /\ user[sublock[u]] = u
    /\ \A t \in Tasks : write[t] # "nothing" => user[t] \in Users /\ lock[user[t]] = t

\* The end of a transaction.
LEMMA EndOwning ==
  ASSUME IInv, Owning, NEW t \in Tasks, NEW p \in Places, Goto(t, p), Forget(t), EndTransaction(t)
  PROVE  Owning'
  <1> USE SessionsAssumption DEF SessionsAssumption, EndTransaction
  <1>1. \A u \in Users : /\ lock'[u] # Nobody => lock'[u] = lock[u] /\ lock[u] \in Tasks \ {t}
                         /\ sublock'[u] # Nobody => sublock'[u] = sublock[u] /\ sublock[u] \in Tasks \ {t}
    BY DEF ReleaseLocks, IInv, Types
  <1>2. \A o \in Tasks \ {t} : pc'[o] = pc[o] /\ user'[o] = user[o] /\ write'[o] = write[o]
    BY DEF Goto, Forget, IInv, Types
  <1>3. write'[t] = "nothing"
    BY DEF Forget, IInv, Types
  <1>4. \A o \in Tasks \ {t} : write[o] # "nothing" => user[o] \in Users /\ lock'[user[o]] = o
    BY DEF Owning, ReleaseLocks
  <1>5. QED
    BY <1>1, <1>2, <1>3, <1>4 DEF Owning

\* A task that goes on, and locks the row of its user for what it writes, or
\* their subscriptions.
LEMMA GoOwning ==
  ASSUME IInv, Owning, NEW t \in Tasks, NEW p \in Places, Goto(t, p),
         pc[t] \in PastFlush => p \in PastFlush, pc[t] \in PastExpire => p \in PastExpire,
         UNCHANGED user,
         \/ UNCHANGED <<lock, write>>
         \/ /\ user[t] \in Users /\ lock[user[t]] \in {t, Nobody} /\ lock' = [lock EXCEPT ![user[t]] = t]
            /\ p \in PastFlush
            /\ \E w \in Flags \cup {"nothing"} : write' = [write EXCEPT ![t] = w],
         \/ UNCHANGED sublock
         \/ user[t] \in Users /\ sublock' = [sublock EXCEPT ![user[t]] = t] /\ p \in PastExpire
  PROVE  Owning'
  <1> USE SessionsAssumption DEF SessionsAssumption
  <1>1. \A o \in Tasks \ {t} : pc'[o] = pc[o]
    BY DEF Goto, IInv, Types
  <1>2. pc'[t] = p
    BY DEF Goto, IInv, Types
  <1>3. \A u \in Users : sublock'[u] # Nobody => pc'[sublock'[u]] \in PastExpire /\ user[sublock'[u]] = u
    <2>1. CASE UNCHANGED sublock
      BY <1>1, <1>2, <2>1 DEF Owning, IInv, Types
    <2>2. CASE user[t] \in Users /\ sublock' = [sublock EXCEPT ![user[t]] = t] /\ p \in PastExpire
      BY <1>1, <1>2, <2>2 DEF Owning, IInv, Types
    <2>3. QED
      BY <2>1, <2>2
  <1>4. CASE UNCHANGED <<lock, write>>
    BY <1>1, <1>2, <1>3, <1>4 DEF Owning, IInv, Types
  <1>5. CASE ~UNCHANGED <<lock, write>>
    <2>1. \A u \in Users : lock'[u] = IF u = user[t] THEN t ELSE lock[u]
      BY <1>5 DEF IInv, Types
    <2>2. \A o \in Tasks \ {t} : write'[o] = write[o]
      BY <1>5 DEF IInv, Types
    <2>3. \A o \in Tasks \ {t} : write[o] # "nothing" => user[o] # user[t]
      BY <1>5 DEF Owning
    <2>4. \A u \in Users : lock'[u] # Nobody => pc'[lock'[u]] \in PastFlush /\ user[lock'[u]] = u
      BY <1>1, <1>2, <1>5, <2>1 DEF Owning, IInv, Types
    <2>5. \A o \in Tasks : write'[o] # "nothing" => user[o] \in Users /\ lock'[user[o]] = o
      BY <1>5, <2>1, <2>2, <2>3 DEF Owning
    <2>6. QED
      BY <1>3, <2>4, <2>5 DEF Owning
  <1>6. QED
    BY <1>4, <1>5

LEMMA InitOwning == Init => Owning
  BY SessionsAssumption DEF Init, Owning, SessionsAssumption

LEMMA NextOwning == IInv /\ Owning /\ [Next]_vars => Owning'
  <1> SUFFICES ASSUME IInv, Owning, [Next]_vars PROVE Owning'
    OBVIOUS
  <1> USE DEF database, locals, history, PastFlush, PastExpire
  <1>1. ASSUME NEW t \in Tasks, Fail(t) PROVE Owning'
    BY <1>1, EndOwning DEF Fail, Places
  <1>2. ASSUME NEW t \in Tasks, Insert(t) PROVE Owning'
    <2>1. CASE Fail(t)
      BY <1>1, <2>1
    <2>2. CASE ~Fail(t)
      <3>1. /\ pc[t] = "insert" /\ lock[user[t]] \in {t, Nobody} /\ lock' = [lock EXCEPT ![user[t]] = t]
            /\ write' = [write EXCEPT ![t] = "free"] /\ Goto(t, "handler") /\ UNCHANGED <<user, sublock>>
        BY <1>2, <2>2 DEF Insert, Locked
      <3>2. user[t] \in Users
        BY <3>1 DEF IInv, Working, Connected
      <3>3. QED
        BY <3>1, <3>2, GoOwning DEF Places, Connected, Flags
    <2>3. QED
      BY <2>1, <2>2
  <1>3. ASSUME NEW t \in Tasks, Flush(t) \/ Expire(t) PROVE Owning'
    <2>1. CASE Flush(t)
      <3>1. /\ pc[t] = "flush" /\ user[t] \in Users /\ UNCHANGED <<user, sublock>>
            /\ lock[user[t]] \in {t, Nobody} /\ lock' = [lock EXCEPT ![user[t]] = t]
        BY <2>1 DEF Flush, Locked, IInv, Working, Connected
      <3>2. PICK p \in {"expire", "handler"} : Goto(t, p)
        BY <2>1 DEF Flush, ToExpire
      <3>3. \E w \in Flags \cup {"nothing"} : write' = [write EXCEPT ![t] = w]
        <4>1. write[t] \in Flags \cup {"nothing"} /\ Flag(premium[t]) \in Flags
          BY DEF IInv, Types, Flag, Flags
        <4>2. write' = [write EXCEPT ![t] = IF Flag(premium[t]) # seen[t] THEN Flag(premium[t]) ELSE write[t]]
          BY <2>1 DEF Flush
        <4>3. QED
          BY <4>1, <4>2
      <3>4. QED
        BY <3>1, <3>2, <3>3, GoOwning DEF Places, Connected
    <2>2. CASE Expire(t)
      <3>1. /\ pc[t] = "expire" /\ user[t] \in Users /\ Goto(t, "handler") /\ UNCHANGED <<user, lock, write>>
            /\ sublock' = [sublock EXCEPT ![user[t]] = t]
        BY <2>2 DEF Expire, IInv, Working, Connected
      <3>2. QED
        BY <3>1, GoOwning DEF Places, Connected
    <2>3. QED
      BY <1>3, <2>1, <2>2
  <1>4. ASSUME NEW t \in Tasks, Activate(t) PROVE Owning'
    <2>1. pc[t] = "activate" /\ user[t] \in Users /\ Goto(t, "commit") /\ UNCHANGED <<user, sublock>>
      BY <1>4 DEF Activate, IInv, Working, Connected
    <2>2. CASE UNCHANGED <<lock, write>>
      BY <2>1, <2>2, GoOwning DEF Places, Connected
    <2>3. CASE ~UNCHANGED <<lock, write>>
      <3>1. /\ lock[user[t]] \in {t, Nobody} /\ lock' = [lock EXCEPT ![user[t]] = t]
            /\ write' = [write EXCEPT ![t] = "premium"]
        BY <1>4, <2>3 DEF Activate, Locked
      <3>2. QED
        BY <2>1, <3>1, GoOwning DEF Places, Connected, Flags
    <2>4. QED
      BY <2>2, <2>3
  <1>5. ASSUME NEW t \in Tasks, Connect(t) \/ LoadSubscriptions(t) \/ Report(t) PROVE Owning'
    <2>1. /\ pc[t] \notin PastFlush /\ UNCHANGED <<lock, sublock, user, write>>
          /\ \E p \in Places : Goto(t, p)
      BY <1>5 DEF Connect, LookUp, LoadSubscriptions, ToFlush, ToExpire, Report, Places, Connected
    <2>2. QED
      BY <2>1, GoOwning
  <1>6. ASSUME NEW t \in Tasks, Handle(t) PROVE Owning'
    <2>1. CASE Fail(t)
      BY <1>1, <2>1
    <2>2. CASE ~Fail(t)
      BY <1>6, <2>2, GoOwning DEF Handle, Places, Connected
    <2>3. QED
      BY <2>1, <2>2
  <1>7. ASSUME NEW t \in Tasks, Commit(t) PROVE Owning'
    <2>1. CASE Fail(t)
      BY <1>1, <2>1
    <2>2. CASE ~Fail(t)
      BY <1>7, <2>2, EndOwning DEF Commit, Places
    <2>3. QED
      BY <2>1, <2>2
  <1>8. ASSUME NEW t \in Tasks, PoolTimeout(t) PROVE Owning'
    <2>1. EndTransaction(t)
      <3>1. \A u \in Users : lock[u] # t /\ sublock[u] # t
        BY <1>8, SessionsAssumption DEF PoolTimeout, IInv, Types, Open, Locking, Connected, SessionsAssumption
      <3>2. lock = ReleaseLocks(t, lock) /\ sublock = ReleaseLocks(t, sublock)
        BY <3>1 DEF ReleaseLocks, IInv, Types
      <3>3. QED
        BY <1>8, <3>2 DEF PoolTimeout, EndTransaction
    <2>2. QED
      BY <1>8, <2>1, EndOwning DEF PoolTimeout, Places
  <1>9. ASSUME NEW t \in Tasks, StatementTimeout(t) \/ DeadlockDetected(t) PROVE Owning'
    BY <1>1, <1>9 DEF StatementTimeout, DeadlockDetected
  <1>10. ASSUME NEW t \in Tasks, NEW u \in Users, Receive(t, u) PROVE Owning'
    <2>1. pc[t] = "idle" /\ UNCHANGED <<lock, sublock, write>>
      BY <1>10 DEF Receive
    <2>2. \A o \in Tasks \ {t} : pc'[o] = pc[o] /\ user'[o] = user[o]
      BY <1>10 DEF Receive, Goto, IInv, Types
    <2>3. \A v \in Users : /\ lock[v] # Nobody => lock[v] \in Tasks \ {t}
                           /\ sublock[v] # Nobody => sublock[v] \in Tasks \ {t}
      BY <2>1 DEF IInv, Types, Open, Locking, Connected
    <2>4. write[t] = "nothing"
      BY <2>1, <2>3, SessionsAssumption DEF Owning, SessionsAssumption
    <2>5. QED
      BY <2>1, <2>2, <2>3, <2>4 DEF Owning
  <1>11. ASSUME NEW u \in Users, RunOut(u) PROVE Owning'
    BY <1>11 DEF RunOut, Owning
  <1>12. CASE Restart
    BY <1>12 DEF Restart, Owning
  <1>13. CASE UNCHANGED vars
    BY <1>13 DEF vars, Owning
  <1>14. QED
    BY <1>2, <1>3, <1>4, <1>5, <1>6, <1>7, <1>8, <1>9, <1>10, <1>11, <1>12, <1>13 DEF Next, Contended, Free

LEMMA OwningInvariance == Spec => []Owning
  BY Invariance, InitOwning, NextOwning, PTL DEF Spec

----------------------------------------------------------------------------
(* How far an update is from its end.                                      *)

Left(p) ==
    CASE p = "connect" -> 9 [] p = "insert" -> 8 [] p = "load" -> 8 [] p = "flush" -> 7
      [] p = "expire" -> 6 [] p = "handler" -> 5 [] p = "activate" -> 4 [] p = "commit" -> 3 [] p = "report" -> 2
      [] OTHER -> 0

----------------------------------------------------------------------------
(* The results.                                                            *)

\* Every variable keeps its type: the pool never holds more connections than
\* it has.
THEOREM TypeCorrect == Spec => []TypeOK
  <1>1. IInv => TypeOK
    <2> SUFFICES ASSUME IInv PROVE TypeOK
      OBVIOUS
    <2>1. free \in Nat /\ Cardinality(Holders) \in Nat /\ PoolSize \in Nat /\ free + Cardinality(Holders) = PoolSize
      BY HoldersFinite, SessionsAssumption DEF IInv, Types, Counted, SessionsAssumption
    <2>2. free \in 0..PoolSize
      BY <2>1
    <2>3. QED
      BY <2>2 DEF IInv, Types, Places, TypeOK
  <1>2. QED
    BY <1>1, Invariance, PTL

\* No update keeps a connection or a lock beyond its end, however it ends.
THEOREM ConnectionsConservedAlways == Spec => []ConnectionsConserved
  <1>1. IInv => ConnectionsConserved
    BY DEF IInv, Counted, Holders, Open, Locking, ConnectionsConserved
  <1>2. QED
    BY <1>1, Invariance, PTL

\* Overlapping updates may leave users.is_premium wrong, but never make the
\* handler of an entitled user see it so.
THEOREM PremiumOnceCommittedAlways == Spec => []PremiumOnceCommitted
  <1>1. IInv => PremiumOnceCommitted
    BY DEF IInv, Entitling, PremiumOnceCommitted
  <1>2. QED
    BY <1>1, Invariance, PTL

\* Updates fail on the unique telegram_id only around the first update of a
\* user: over their whole life, fewer than can be in process or connected.
THEOREM OnlyFirstUpdatesCollideAlways == Spec => []OnlyFirstUpdatesCollide
  <1>1. IInv /\ First => OnlyFirstUpdatesCollide
    <2> SUFFICES ASSUME IInv, First, NEW u \in Users
                 PROVE  collisions[u] < Cardinality(Tasks) /\ collisions[u] < PoolSize
      BY DEF OnlyFirstUpdatesCollide
    <2>1. collisions[u] \in Nat /\ FirstOf(u)
      BY DEF IInv, Types, First
    <2>2. QED
      BY <2>1, InsertingFinite DEF FirstOf
  <1>2. Spec => []First
    BY Invariance, InitFirst, NextFirst, PTL DEF Spec
  <1>3. QED
    BY <1>1, <1>2, Invariance, PTL

\* Nobody waits for ever, for any number of updates over any pool.  Whoever
\* waits for a row waits for another update of the same user.  That one can go
\* on; or it waits for one that can; or it and another wait for each other,
\* which the database finds out.  There are no larger circles, nor do any go
\* through the pool: when it is empty, one of those who have a connection can
\* go on, or is in such a circle.  So no timeout is needed to get an update to
\* its end.
CanGoOn(t) == ~Waits(t) \/ \E o \in Tasks : Circle(t, o)
NoDeadlock ==
    \A t \in Tasks :
        /\ Waits(t) =>
              LET o == Holder(t) IN
              /\ o \in Tasks \ {t} /\ user[o] = user[t] /\ pc[o] \in Connected
              /\ CanGoOn(o) \/ ~Waits(Holder(o))
        /\ WaitsForPool(t) => \E o \in Tasks \ {t} : pc[o] \in Connected /\ CanGoOn(o)

\* Who a waiting task waits for.
LEMMA HolderFacts ==
  ASSUME IInv, Owning, NEW t \in Tasks, Waits(t)
  PROVE  /\ Holder(t) \in Tasks \ {t} /\ user[t] \in Users /\ user[Holder(t)] = user[t]
         /\ pc[Holder(t)] \in PastFlush
         /\ pc[t] = "expire" => Holder(t) = sublock[user[t]] /\ pc[Holder(t)] \in PastExpire
         /\ pc[t] # "expire" => Holder(t) = lock[user[t]]
  <1>1. user[t] \in Users
    BY DEF IInv, Working, Waits, Connected
  <1>2. Holder(t) \in Tasks \ {t} /\ Holder(t) # Nobody
    BY <1>1 DEF IInv, Types, Waits, Holder
  <1>3. CASE pc[t] = "expire"
    BY <1>1, <1>2, <1>3 DEF Holder, Owning, PastFlush
  <1>4. CASE pc[t] # "expire"
    BY <1>1, <1>2, <1>4 DEF Holder, Owning
  <1>5. QED
    BY <1>1, <1>2, <1>3, <1>4

\* Two steps along the chain of those who wait.
LEMMA ChainEnds ==
  ASSUME IInv, Owning, NEW t \in Tasks, Waits(t)
  PROVE  LET o == Holder(t) IN CanGoOn(o) \/ ~Waits(Holder(o))
  <1> DEFINE o == Holder(t)
  <1> DEFINE p == Holder(o)
  <1> SUFFICES ASSUME Waits(o), Waits(p) PROVE Circle(o, p)
    BY HolderFacts DEF CanGoOn
  <1>1. o \in Tasks /\ user[o] = user[t] /\ pc[o] \in PastFlush
    BY HolderFacts
  <1>2. p \in Tasks \ {o} /\ user[p] = user[o] /\ pc[p] \in PastFlush
    BY <1>1, HolderFacts
  <1>3. CASE pc[o] = "expire"
    <2>1. p = sublock[user[t]] /\ pc[p] \in PastExpire
      BY <1>1, <1>3, HolderFacts
    <2>2. pc[p] = "activate"
      BY <2>1 DEF Waits, PastExpire
    <2>3. pc[t] # "expire"
      BY <1>3, HolderFacts DEF PastExpire
    <2>4. Holder(p) = lock[user[t]] /\ o = lock[user[t]]
      BY <1>1, <1>2, <2>2, <2>3, HolderFacts
    <2>5. QED
      BY <2>4 DEF Circle
  <1>4. CASE pc[o] # "expire"
    <2>1. pc[o] = "activate" /\ p = lock[user[t]]
      BY <1>1, <1>4, HolderFacts DEF Waits, PastFlush, PastExpire
    <2>2. pc[p] = "expire"
      <3>1. CASE pc[p] # "expire"
        <4>1. Holder(p) = lock[user[p]]
          BY <1>2, <3>1, HolderFacts
        <4>2. Holder(p) = p
          BY <1>1, <1>2, <2>1, <4>1
        <4>3. QED
          BY <4>2 DEF Waits
      <3>2. QED
        BY <3>1
    <2>3. Holder(p) = sublock[user[t]]
      BY <1>1, <1>2, <2>2, HolderFacts
    <2>4. pc[t] = "expire"
      <3>1. CASE pc[t] # "expire"
        <4>1. o = lock[user[t]]
          BY <3>1, HolderFacts
        <4>2. QED
          BY <1>2, <2>1, <4>1
      <3>2. QED
        BY <3>1
    <2>5. o = sublock[user[t]]
      BY <2>4, HolderFacts
    <2>6. QED
      BY <2>3, <2>5 DEF Circle
  <1>5. QED
    BY <1>3, <1>4

THEOREM NoDeadlockAlways == Spec => []NoDeadlock
  <1>1. IInv /\ Owning => NoDeadlock
    <2> SUFFICES ASSUME IInv, Owning PROVE NoDeadlock
      OBVIOUS
    <2>1. ASSUME NEW t \in Tasks, Waits(t)
          PROVE  /\ Holder(t) \in Tasks \ {t} /\ user[Holder(t)] = user[t] /\ pc[Holder(t)] \in Connected
                 /\ CanGoOn(Holder(t)) \/ ~Waits(Holder(Holder(t)))
      BY <2>1, HolderFacts, ChainEnds DEF PastFlush, PastExpire, Connected
    <2>2. ASSUME NEW t \in Tasks, WaitsForPool(t)
          PROVE  \E o \in Tasks \ {t} : pc[o] \in Connected /\ CanGoOn(o)
      <3>1. Cardinality(Holders) # 0
        BY <2>2, HoldersFinite, SessionsAssumption DEF IInv, Counted, WaitsForPool, SessionsAssumption
      <3>2. PICK h \in Tasks : pc[h] \in Connected
        BY <3>1, FS_EmptySet DEF Holders
      <3>3. pc[t] = "connect"
        BY <2>2 DEF WaitsForPool
      <3>4. CASE ~Waits(h)
        BY <3>2, <3>3, <3>4 DEF Connected, CanGoOn
      <3>5. CASE Waits(h)
        <4>1. Holder(h) \in Tasks /\ pc[Holder(h)] \in Connected
          BY <2>1, <3>5
        <4>2. CASE CanGoOn(Holder(h))
          BY <3>3, <4>1, <4>2 DEF Connected
        <4>3. CASE Waits(Holder(h)) /\ ~Waits(Holder(Holder(h)))
          <5>1. Holder(Holder(h)) \in Tasks /\ pc[Holder(Holder(h))] \in Connected
            BY <2>1, <4>1, <4>3
          <5>2. QED
            BY <3>3, <4>3, <5>1 DEF Connected, CanGoOn
        <4>4. QED
          BY <2>1, <3>5, <4>2, <4>3 DEF CanGoOn
      <3>6. QED
        BY <3>4, <3>5
    <2>3. QED
      BY <2>1, <2>2 DEF NoDeadlock
  <1>2. QED
    BY <1>1, Invariance, OwningInvariance, PTL

\* Each step an update makes brings it nearer to its end: none is made twice,
\* the middleware, the handler and the error handler are gone through once.
StepsToTheEnd ==
    \A t \in Tasks : pc[t] # "idle" /\ pc'[t] # pc[t] => Left(pc'[t]) < Left(pc[t])

THEOREM StepsToTheEndAlways == Spec => [][StepsToTheEnd]_vars
  <1>1. IInv /\ [Next]_vars => [StepsToTheEnd]_vars
    <2> SUFFICES ASSUME IInv, Next PROVE StepsToTheEnd
      BY DEF StepsToTheEnd, vars
    <2>1. ASSUME NEW t \in Tasks, NEW p, Goto(t, p), pc[t] = "idle" \/ Left(p) < Left(pc[t]) PROVE StepsToTheEnd
      BY <2>1 DEF StepsToTheEnd, Goto, IInv, Types
    <2>2. ASSUME NEW t \in Tasks,
                 Contended(t) \/ Free(t) \/ PoolTimeout(t) \/ StatementTimeout(t) \/ DeadlockDetected(t)
          PROVE  StepsToTheEnd
      <3>1. CASE Connect(t)
        BY <2>1, <3>1 DEF Connect, Left
      <3>2. CASE Insert(t) \/ LoadSubscriptions(t) \/ Flush(t) \/ Expire(t)
        BY <2>1, <3>2 DEF Insert, LoadSubscriptions, ToFlush, ToExpire, Flush, Expire, Fail, Left
      <3>3. CASE Activate(t) \/ Handle(t) \/ Commit(t) \/ Report(t)
        BY <2>1, <3>3 DEF Activate, Handle, Commit, Report, Fail, Left
      <3>4. CASE PoolTimeout(t) \/ StatementTimeout(t) \/ DeadlockDetected(t)
        BY <2>1, <3>4 DEF PoolTimeout, StatementTimeout, DeadlockDetected, Circle, Waits, Fail, Left
      <3>5. QED
        BY <2>2, <3>1, <3>2, <3>3, <3>4 DEF Contended, Free
    <2>3. ASSUME NEW t \in Tasks, NEW u \in Users, Receive(t, u) PROVE StepsToTheEnd
      BY <2>1, <2>3 DEF Receive
    <2>4. ASSUME NEW u \in Users, RunOut(u) PROVE StepsToTheEnd
      BY <2>4 DEF RunOut, StepsToTheEnd
    <2>5. CASE Restart
      BY <2>5 DEF Restart, StepsToTheEnd, Left, IInv, Types, Places, Connected
    <2>6. QED
      BY <2>2, <2>3, <2>4, <2>5 DEF Next
  <1>2. QED
    BY <1>1, Invariance, PTL DEF Spec

\* The row of a user is written by the commit of the task that has it locked,
\* which lets go of it, and by nothing else; and no two open transactions have
\* written the same row.  What an update has read of its user can be stale, but
\* no update is undone by the rollback of another.
OneWriterPerRow ==
    /\ \A t, o \in Tasks : write[t] # "nothing" /\ write[o] # "nothing" /\ user[t] = user[o] => t = o
    /\ \A u \in Users : row'[u] # row[u] =>
          \E t \in Tasks : lock[u] = t /\ user[t] = u /\ row'[u] = write[t] /\ lock'[u] = Nobody

THEOREM OneWriterPerRowAlways == Spec => [][OneWriterPerRow]_vars
  <1>1. IInv /\ Owning /\ [Next]_vars => [OneWriterPerRow]_vars
    <2> SUFFICES ASSUME IInv, Owning, Next PROVE OneWriterPerRow
      BY DEF OneWriterPerRow, vars
    <2> USE DEF database, locals, history
    <2>1. \A t, o \in Tasks : write[t] # "nothing" /\ write[o] # "nothing" /\ user[t] = user[o] => t = o
      BY DEF Owning
    <2>2. CASE UNCHANGED row
      BY <2>2, <2>1 DEF OneWriterPerRow
    <2>3. ASSUME NEW t \in Tasks, Commit(t) PROVE OneWriterPerRow
      <3>1. CASE Fail(t)
        BY <2>2, <3>1 DEF Fail
      <3>2. CASE ~Fail(t)
        <4>1. /\ row' = IF write[t] \in Flags THEN [row EXCEPT ![user[t]] = write[t]] ELSE row
              /\ lock' = ReleaseLocks(t, lock) /\ user[t] \in Users
          BY <2>3, <3>2 DEF Commit, EndTransaction, IInv, Working, Connected
        <4>2. CASE write[t] \in Flags
          <5>1. lock[user[t]] = t /\ lock'[user[t]] = Nobody
            BY <4>1, <4>2 DEF Owning, ReleaseLocks, Flags
          <5>2. \A u \in Users : u # user[t] => row'[u] = row[u]
            BY <4>1, <4>2 DEF IInv, Types
          <5>3. row'[user[t]] = write[t]
            BY <4>1, <4>2 DEF IInv, Types
          <5>4. QED
            BY <2>1, <5>1, <5>2, <5>3 DEF OneWriterPerRow
        <4>3. CASE write[t] \notin Flags
          BY <2>2, <4>1, <4>3
        <4>4. QED
          BY <4>2, <4>3
      <3>3. QED
        BY <3>1, <3>2
    <2>4. ASSUME NEW t \in Tasks,
                 \/ Contended(t) \/ LoadSubscriptions(t) \/ Handle(t) \/ Report(t)
                 \/ PoolTimeout(t) \/ StatementTimeout(t) \/ DeadlockDetected(t)
          PROVE  UNCHANGED row
      BY <2>4 DEF Contended, Connect, Insert, Flush, Expire, Activate, LoadSubscriptions, Handle, Report,
                  PoolTimeout, StatementTimeout, DeadlockDetected, Fail
    <2>5. ASSUME NEW t \in Tasks, NEW u \in Users, Receive(t, u) PROVE UNCHANGED row
      BY <2>5 DEF Receive
    <2>6. ASSUME NEW u \in Users, RunOut(u) PROVE UNCHANGED row
      BY <2>6 DEF RunOut
    <2>7. QED
      BY <2>2, <2>3, <2>4, <2>5, <2>6 DEF Next, Free, Restart
  <1>2. QED
    BY <1>1, Invariance, OwningInvariance, PTL DEF Spec

=============================================================================
