-------------------------- MODULE Publisher_proofs --------------------------
(***************************************************************************)
(* Proofs about Publisher, for any callers, connections, number of         *)
(* attempts and number of dials, and any faults of network and broker.     *)
(***************************************************************************)
EXTENDS Publisher, Integers, TLAPS

----------------------------------------------------------------------------
(* The inductive invariant.                                                *)

\* Who is inside the mutex, and where: main() only before the first
\* connection is there, and until then nobody calls.
Inside ==
    /\ at = "free" <=> owner = Nobody
    /\ owner = Main <=> origin = "new" /\ at # "free"
    /\ owner = Main => at \in {"dial", "setup"}
    /\ \A c \in Callers : pc[c] = "inside" <=> owner = c
    /\ origin = "new" \/ life = "ended" => \A c \in Callers : pc[c] = "idle"

\* The connections of the process: the one it uses, or the one it sets up.
Using ==
    /\ fresh # NoConn <=> at = "setup"
    /\ at \in {"dial", "setup"} => conn = NoConn
    /\ at = "write" => conn # NoConn

\* The counters of the two loops.
Looping ==
    /\ owner \in Callers => attempt \in 1..(Retries + 1)
    /\ owner \in Callers /\ at # "head" => attempt <= Retries
    /\ at = "dial" => dials < MaxDials

\* A call that is under way has put nothing into the queue, nor returned.
Unwritten == \A c \in Callers : pc[c] # "idle" => copies[c] = 0 /\ result[c] = "none"

\* A broken connection that the call has still to find out, and an attempt
\* that is lost already: its write has failed.
Broken == \E s \in held : health[s] # "alive"
Lost == at \in {"dial", "setup"} /\ origin = "tail"

\* Every attempt that has failed, or will fail, stands for a fault of its own.
Covered ==
    /\ attempt <= troubles + 1
    /\ Broken \/ Lost => attempt <= troubles
    /\ Broken /\ Lost => attempt + 1 <= troubles
Faults == owner \in Callers => troubles >= Retries \/ Covered

IInv == TypeOK /\ NoConnectionLeak /\ Inside /\ Using /\ Looping /\ Unwritten

----------------------------------------------------------------------------
(* Types and connections.                                                  *)

LEMMA InitIInv == Init => IInv
  <1> SUFFICES ASSUME Init PROVE IInv
    OBVIOUS
  <1> USE PublisherAssumption DEF PublisherAssumption
  <1>1. TypeOK
    BY DEF Init, TypeOK, Outcomes
  <1>2. NoConnectionLeak /\ Inside /\ Using /\ Looping /\ Unwritten
    BY DEF Init, NoConnectionLeak, Inside, Using, Looping, Unwritten
  <1>3. QED
    BY <1>1, <1>2 DEF IInv

\* One more fault, up to the bound.
LEMMA OneMoreFacts ==
  ASSUME TypeOK
  PROVE  OneMore \in 0..Retries /\ OneMore >= troubles /\ (OneMore = troubles + 1 \/ OneMore >= Retries)
  BY PublisherAssumption DEF PublisherAssumption, TypeOK, OneMore

\* A call returns.
LEMMA ReturnFacts ==
  ASSUME IInv, owner \in Callers, NEW r \in {"nil", "error"}, Return(r)
  PROVE  /\ pc' \in [Callers -> {"idle", "waiting", "inside"}] /\ result' \in [Callers -> Outcomes]
         /\ owner' = Nobody /\ at' = "free"
         /\ \A c \in Callers : pc'[c] # "inside" /\ (pc'[c] # "idle" => pc[c] # "idle")
         /\ \A c \in Callers : c # owner => result'[c] = result[c] /\ pc'[c] = pc[c]
         /\ result'[owner] = r /\ pc'[owner] = "idle"
  BY DEF IInv, TypeOK, Inside, Return, Outcomes

LEMMA NextIInv == IInv /\ [Next]_vars => IInv'
  <1> SUFFICES ASSUME IInv, [Next]_vars PROVE IInv'
    OBVIOUS
  <1> USE PublisherAssumption
      DEF PublisherAssumption, IInv, TypeOK, NoConnectionLeak, Inside, Using, Looping, Unwritten,
          world, resources, control, calls
  <1>1. ASSUME NEW s \in Conns, Break(s) \/ Notice(s) PROVE IInv'
    BY <1>1, OneMoreFacts DEF Break, Notice
  <1>2. CASE BrokerFails \/ BrokerRecovers
    BY <1>2, OneMoreFacts DEF BrokerFails, BrokerRecovers
  <1>3. ASSUME NEW c \in Callers, Call(c) PROVE IInv'
    BY <1>3 DEF Call, Outcomes
  <1>4. ASSUME NEW c \in Callers, Lock(c) PROVE IInv'
    BY <1>4 DEF Lock
  <1>5. CASE LoopHead
    <2>1. owner \in Callers
      BY <1>5 DEF LoopHead
    <2>2. CASE Exhausted /\ Return("error")
      BY <1>5, <2>1, <2>2, ReturnFacts DEF LoopHead
    <2>3. CASE ~Exhausted
      BY <1>5, <2>1, <2>3 DEF LoopHead, Exhausted
    <2>4. QED
      BY <1>5, <2>2, <2>3 DEF LoopHead
  <1>6. CASE Dial
    <2>1. CASE \E s \in Conns \ held : fresh' = s /\ held' = held \cup {s} /\ health' = [health EXCEPT ![s] = "alive"]
      BY <1>6, <2>1 DEF Dial
    <2>2. CASE broker = "down" /\ dials + 1 < MaxDials
      BY <1>6, <2>2 DEF Dial
    <2>3. CASE broker = "down" /\ dials + 1 = MaxDials
      BY <1>6, <2>3, OneMoreFacts DEF Dial, ConnectFailed, NextAttempt
    <2>4. QED
      BY <1>6, <2>1, <2>2, <2>3 DEF Dial
  <1>7. CASE SetupFails
    <2>1. troubles' \in 0..Retries /\ held' = held \ {fresh}
      BY <1>7, OneMoreFacts DEF SetupFails, CloseFresh
    <2>2. QED
      BY <1>7, <2>1 DEF SetupFails, ConnectFailed, NextAttempt
  <1>8. CASE SetupSucceeds
    BY <1>8 DEF SetupSucceeds, NextAttempt
  <1>9. CASE WriteSucceeds
    <2>1. owner \in Callers /\ Return("nil")
      BY <1>9 DEF WriteSucceeds
    <2>2. copies' \in [Callers -> Nat] /\ \A c \in Callers : c # owner => copies'[c] = copies[c]
      BY <1>9, <2>1 DEF WriteSucceeds
    <2>3. QED
      BY <1>9, <2>1, <2>2, ReturnFacts DEF WriteSucceeds
  <1>10. CASE WriteFails
    BY <1>10 DEF WriteFails
  <1>11. CASE Close
    BY <1>11 DEF Close
  <1>12. CASE Restart
    BY <1>12 DEF Restart, Outcomes
  <1>13. CASE UNCHANGED vars
    BY <1>13 DEF vars
  <1>14. QED
    BY <1>1, <1>2, <1>3, <1>4, <1>5, <1>6, <1>7, <1>8, <1>9, <1>10, <1>11, <1>12, <1>13 DEF Next, Step

LEMMA Invariance == Spec => []IInv
  BY InitIInv, NextIInv, PTL DEF Spec

----------------------------------------------------------------------------
(* Attempts and faults.                                                    *)

\* The broken connection, by where the owner is.
LEMMA BrokenFacts ==
  ASSUME IInv
  PROVE  /\ at \in {"head", "write"} => (Broken <=> conn # NoConn /\ health[conn] # "alive")
         /\ at = "dial" => ~Broken
         /\ at = "setup" => (Broken <=> health[fresh] # "alive")
         /\ owner \in Callers => at \in {"head", "dial", "setup", "write"}
  BY PublisherAssumption
     DEF PublisherAssumption, IInv, TypeOK, NoConnectionLeak, Inside, Using, Broken

\* One more fault pays for one connection that it breaks.
LEMMA BreakCounts ==
  ASSUME IInv, Faults, UNCHANGED <<owner, at, origin, attempt>>, troubles' = OneMore
  PROVE  Faults'
  <1>1. troubles \in Nat /\ attempt \in Nat /\ Retries \in Nat
    BY PublisherAssumption DEF PublisherAssumption, IInv, TypeOK
  <1>2. CASE troubles < Retries
    BY <1>1, <1>2 DEF OneMore, Faults, Covered, Lost
  <1>3. CASE troubles >= Retries
    BY <1>1, <1>3 DEF OneMore, Faults
  <1>4. QED
    BY <1>1, <1>2, <1>3

LEMMA NextFaults == IInv /\ IInv' /\ Faults /\ [Next]_vars => Faults'
  <1> SUFFICES ASSUME IInv, IInv', Faults, [Next]_vars, owner' \in Callers
               PROVE  troubles' >= Retries \/ Covered'
    BY DEF Faults
  <1>a. /\ troubles \in Nat /\ attempt \in Nat /\ Retries \in Nat \ {0}
        /\ owner \in Callers => troubles >= Retries \/ Covered
    BY PublisherAssumption DEF PublisherAssumption, IInv, TypeOK, Faults
  <1> USE DEF world, resources, control, calls
  <1>1. ASSUME UNCHANGED <<owner, at, origin, attempt, troubles>>, Broken' => Broken
        PROVE  troubles' >= Retries \/ Covered'
    BY <1>a, <1>1 DEF Covered, Lost
  <1>2. ASSUME NEW s \in Conns, Break(s) PROVE troubles' >= Retries \/ Covered'
    BY <1>2, BreakCounts DEF Break, Faults
  <1>3. ASSUME NEW s \in Conns, Notice(s) PROVE troubles' >= Retries \/ Covered'
    <2>1. Broken' => Broken
      BY <1>3 DEF Notice, Broken, IInv, TypeOK
    <2>2. QED
      BY <1>1, <1>3, <2>1 DEF Notice
  <1>4. CASE BrokerFails
    BY <1>4, BreakCounts DEF BrokerFails, Faults
  <1>5. ASSUME BrokerRecovers \/ Close \/ (\E c \in Callers : Call(c)) \/ UNCHANGED vars
        PROVE  troubles' >= Retries \/ Covered'
    <2>1. Broken' => Broken
      BY <1>5 DEF BrokerRecovers, Close, Call, vars, Broken
    <2>2. QED
      BY <1>1, <1>5, <2>1 DEF BrokerRecovers, Close, Call, vars
  <1>6. ASSUME NEW c \in Callers, Lock(c) PROVE troubles' >= Retries \/ Covered'
    <2>1. at' = "head" /\ attempt' = 1 /\ UNCHANGED <<held, conn, health>> /\ ~Lost'
      BY <1>6 DEF Lock, Lost
    <2>2. troubles' = IF conn \in held /\ health[conn] # "alive" THEN 1 ELSE 0
      BY <1>6 DEF Lock
    <2>3. Broken' => conn \in held /\ health[conn] # "alive"
      BY <1>6, <2>1, PublisherAssumption
         DEF Lock, Broken, IInv, NoConnectionLeak, Using, Inside, PublisherAssumption
    <2>4. QED
      BY <2>1, <2>2, <2>3 DEF Covered
  <1>7. CASE LoopHead
    <2>1. CASE Return("error")
      BY <1>7, <2>1, PublisherAssumption DEF Return, PublisherAssumption
    <2>2. CASE ~Exhausted
      BY <1>a, <1>7, <2>2 DEF LoopHead, Return, Covered, Lost, Broken
    <2>3. QED
      BY <1>7, <2>1, <2>2 DEF LoopHead
  <1>8. CASE Dial
    <2>0. at = "dial" /\ ~Broken
      BY <1>8, BrokenFacts DEF Dial
    <2>1. CASE \E s \in Conns \ held : fresh' = s /\ held' = held \cup {s} /\ health' = [health EXCEPT ![s] = "alive"]
      <3>1. at' = "setup" /\ UNCHANGED <<owner, origin, attempt, troubles>>
        BY <1>8, <2>1, PublisherAssumption DEF Dial, IInv, TypeOK, PublisherAssumption
      <3>2. ~Broken'
        BY <2>0, <2>1 DEF IInv, TypeOK, Broken
      <3>3. QED
        BY <1>a, <2>0, <3>1, <3>2 DEF Covered, Lost
    <2>2. CASE broker = "down" /\ dials + 1 < MaxDials
      <3>1. UNCHANGED <<owner, at, origin, attempt, troubles, held, health>>
        BY <1>8, <2>2, PublisherAssumption DEF Dial, IInv, TypeOK, PublisherAssumption
      <3>2. QED
        BY <1>1, <3>1 DEF Broken
    <2>3. CASE broker = "down" /\ dials + 1 = MaxDials
      <3>1. ConnectFailed /\ troubles' = OneMore /\ UNCHANGED <<held, health>>
        BY <1>8, <2>3, PublisherAssumption DEF Dial, IInv, TypeOK, PublisherAssumption
      <3>2. at' = "head" /\ attempt' = attempt + 1 /\ owner' = owner
        BY <3>1, PublisherAssumption DEF ConnectFailed, NextAttempt, PublisherAssumption
      <3>3. ~Broken' /\ ~Lost'
        BY <2>0, <3>1, <3>2 DEF Broken, Lost
      <3>4. CASE troubles < Retries
        BY <1>a, <3>1, <3>2, <3>3, <3>4 DEF OneMore, Covered
      <3>5. CASE troubles >= Retries
        BY <1>a, <3>1, <3>5 DEF OneMore
      <3>6. QED
        BY <1>a, <3>4, <3>5
    <2>4. QED
      BY <1>8, <2>1, <2>2, <2>3 DEF Dial
  <1>9. CASE SetupFails
    <2>1. ConnectFailed /\ at = "setup" /\ held' = held \ {fresh}
      BY <1>9 DEF SetupFails, CloseFresh
    <2>2. at' = "head" /\ attempt' = attempt + 1 /\ owner' = owner
      BY <2>1, PublisherAssumption DEF ConnectFailed, NextAttempt, PublisherAssumption
    <2>3. ~Broken' /\ ~Lost'
      BY <2>1, <2>2, <1>9 DEF SetupFails, IInv, NoConnectionLeak, Using, Broken, Lost
    <2>4. CASE health[fresh] # "alive"
      <3>1. Broken /\ troubles' = troubles
        BY <1>9, <2>4, BrokenFacts DEF SetupFails
      <3>2. QED
        BY <1>a, <2>2, <2>3, <3>1 DEF Covered
    <2>5. CASE health[fresh] = "alive"
      <3>1. troubles' = OneMore
        BY <1>9, <2>5 DEF SetupFails
      <3>2. CASE troubles < Retries
        BY <1>a, <2>2, <2>3, <3>1, <3>2 DEF OneMore, Covered
      <3>3. CASE troubles >= Retries
        BY <1>a, <3>1, <3>3 DEF OneMore
      <3>4. QED
        BY <1>a, <3>2, <3>3
    <2>6. QED
      BY <2>4, <2>5
  <1>10. CASE SetupSucceeds
    <2>1. at = "setup" /\ health[fresh] = "alive" /\ conn' = fresh /\ UNCHANGED <<health, troubles>>
      BY <1>10 DEF SetupSucceeds
    <2>2. ~Broken /\ ~Broken'
      BY <2>1, <1>10, BrokenFacts DEF SetupSucceeds, Broken
    <2>3. CASE origin = "new"
      BY <1>10, <2>3, PublisherAssumption DEF SetupSucceeds, NextAttempt, PublisherAssumption
    <2>4. CASE origin = "head"
      BY <1>a, <1>10, <2>1, <2>2, <2>4 DEF SetupSucceeds, Covered, Lost
    <2>5. CASE origin = "tail"
      <3>1. at' = "head" /\ attempt' = attempt + 1 /\ owner' = owner
        BY <1>10, <2>5 DEF SetupSucceeds, NextAttempt
      <3>2. ~Lost' /\ Lost
        BY <2>1, <2>5, <3>1 DEF Lost
      <3>3. QED
        BY <1>a, <2>1, <2>2, <3>1, <3>2 DEF Covered
    <2>6. QED
      BY <2>3, <2>4, <2>5 DEF IInv, TypeOK
  <1>11. CASE WriteSucceeds
    BY <1>11, PublisherAssumption DEF WriteSucceeds, Return, PublisherAssumption
  <1>12. CASE WriteFails
    <2>1. at = "write" /\ conn # NoConn /\ health[conn] # "alive" /\ UNCHANGED <<owner, attempt, troubles>>
      BY <1>12 DEF WriteFails, IInv, Using
    <2>2. Broken
      BY <2>1, BrokenFacts
    <2>3. ~Broken'
      BY <1>12 DEF WriteFails, IInv, NoConnectionLeak, Using, Broken
    <2>4. QED
      BY <1>a, <2>1, <2>2, <2>3 DEF Covered
  <1>13. CASE Restart
    BY <1>13, PublisherAssumption DEF Restart, PublisherAssumption
  <1>14. QED
    BY <1>2, <1>3, <1>4, <1>5, <1>6, <1>7, <1>8, <1>9, <1>10, <1>11, <1>12, <1>13 DEF Next, Step

LEMMA InitFaults == Init => Faults
  BY PublisherAssumption DEF PublisherAssumption, Init, Faults

LEMMA FaultsInvariance == Spec => [](IInv /\ Faults)
  <1>1. Spec => []IInv
    BY Invariance
  <1>2. QED
    BY <1>1, InitFaults, NextFaults, PTL DEF Spec

----------------------------------------------------------------------------
(* The results.                                                            *)

\* Every variable keeps its type, and no counter leaves its range: attempt
\* stops at Retries + 1 and dials at MaxDials, whatever fails.
THEOREM TypeCorrect == Spec => []TypeOK
  BY Invariance, PTL DEF IInv

\* No path through connect, Publish and Close leaks a connection.
THEOREM NoConnectionLeakAlways == Spec => []NoConnectionLeak
  BY Invariance, PTL DEF IInv

LEMMA GivesUpStep ==
  ASSUME IInv, Faults, [Next]_vars, NEW c \in Callers, pc[c] = "inside", result'[c] = "error"
  PROVE  troubles >= Retries
  <1>1. owner = c /\ result[c] = "none" /\ result \in [Callers -> Outcomes] /\ pc \in [Callers -> {"idle", "waiting", "inside"}]
    BY DEF IInv, TypeOK, Inside, Unwritten
  <1>2. result' # result
    BY <1>1
  <1>3. life = "running" /\ origin # "new"
    BY <1>1 DEF IInv, TypeOK, Inside
  <1>4. LoopHead /\ Exhausted
    BY <1>1, <1>2, <1>3 DEF Next, Step, LoopHead, Dial, SetupFails, SetupSucceeds, WriteSucceeds, WriteFails,
       Close, Restart, Break, Notice, BrokerFails, BrokerRecovers, Call, Lock, Return, vars, calls
  <1>5. attempt > Retries /\ attempt \in Nat /\ troubles \in Nat /\ Retries \in Nat
    BY <1>4, PublisherAssumption DEF Exhausted, PublisherAssumption, IInv, TypeOK
  <1>6. troubles >= Retries \/ attempt <= troubles + 1
    BY <1>1 DEF Faults, Covered
  <1>7. QED
    BY <1>5, <1>6

\* Publish returns an error only after as many faults as it makes attempts.
THEOREM GivesUpOnlyAfterRetriesAlways == Spec => GivesUpOnlyAfterRetries
  <1>1. IInv /\ Faults /\ [Next]_vars
        => [\A c \in Callers : pc[c] = "inside" /\ result'[c] = "error" => troubles >= Retries]_vars
    BY GivesUpStep
  <1>2. QED
    BY <1>1, FaultsInvariance, PTL DEF Spec, GivesUpOnlyAfterRetries

----------------------------------------------------------------------------
(* How long a call may keep the mutex.                                     *)

\* The steps of one attempt that does all an attempt can do: the head, the
\* dials and the setup of the head, the write, the dials and the setup of the
\* tail.
AttemptSteps == 2 * MaxDials + 4

\* Those that are left of the attempt the owner is in.
LeftOfAttempt ==
    CASE at = "head" -> AttemptSteps
      [] at = "dial" /\ origin # "tail" -> (MaxDials - dials) + MaxDials + 3
      [] at = "setup" /\ origin # "tail" -> MaxDials + 3
      [] at = "write" -> MaxDials + 2
      [] at = "dial" /\ origin = "tail" -> (MaxDials - dials) + 1
      [] OTHER -> 1

\* And of the call, the head that finds the attempts exhausted included.
LeftOfCall == (Retries - attempt) * AttemptSteps + LeftOfAttempt + 1

\* All steps a call can make: every dial but the last fails, every write fails.
CallSteps == Retries * AttemptSteps + 1

\* A call in the mutex is never past its last step, nor further from it than
\* CallSteps.
CallIsBounded == owner \in Callers => LeftOfCall \in 1..CallSteps

\* Who has the mutex can make a step, in every state of network and broker.
OwnerGoesOn ==
    owner # Nobody => \/ at \in {"head", "setup", "write"}
                      \/ at = "dial" /\ (broker = "down" \/ Conns \ held # {})

\* Each step of the owner brings the call nearer to its end; nothing the
\* network, the broker or a waiting caller does takes it further away.
StepsCountDown ==
    owner \in Callers /\ owner' = owner => UNCHANGED control \/ LeftOfCall' < LeftOfCall

LEMMA Products ==
  ASSUME NEW a \in Int, NEW b \in Int, NEW p \in Nat
  PROVE  /\ (a - b) * p \in Int /\ a * p \in Int
         /\ (a - (b + 1)) * p = (a - b) * p - p
         /\ b >= 1 => (a - b) * p <= a * p - p
         /\ b <= a => (a - b) * p >= 0
  OBVIOUS

\* The numbers LeftOfCall is made of.
LEMMA Counters ==
  ASSUME IInv, owner \in Callers
  PROVE  /\ Retries \in Nat /\ MaxDials \in Nat /\ MaxDials >= 1 /\ AttemptSteps \in Nat
         /\ attempt \in Nat /\ attempt >= 1 /\ attempt <= Retries + 1 /\ dials \in Nat
         /\ at # "head" => attempt <= Retries
         /\ at = "dial" => dials < MaxDials
         /\ at \in {"head", "dial", "setup", "write"} /\ origin # "new" /\ owner # Main
  BY PublisherAssumption
     DEF PublisherAssumption, IInv, TypeOK, Inside, Looping, AttemptSteps

LEMMA AttemptBounded ==
  ASSUME IInv, owner \in Callers
  PROVE  /\ LeftOfAttempt \in 1..AttemptSteps
         /\ at = "head" => LeftOfAttempt = AttemptSteps
  BY Counters DEF LeftOfAttempt, AttemptSteps

LEMMA BoundedCall == IInv => CallIsBounded
  <1> SUFFICES ASSUME IInv, owner \in Callers PROVE LeftOfCall \in 1..CallSteps
    BY DEF CallIsBounded
  <1> DEFINE P == (Retries - attempt) * AttemptSteps
             Q == Retries * AttemptSteps
  <1>1. P \in Int /\ Q \in Int /\ P <= Q - AttemptSteps
    BY Counters, Products
  <1>2. attempt <= Retries => P >= 0
    BY Counters, Products
  <1>3. attempt = Retries + 1 => P = 0 - AttemptSteps
    <2>1. (Retries - Retries) * AttemptSteps = 0
      BY Counters
    <2>2. (Retries - (Retries + 1)) * AttemptSteps = (Retries - Retries) * AttemptSteps - AttemptSteps
      BY Counters, Products
    <2>3. QED
      BY <2>1, <2>2
  <1>4. LeftOfCall = P + LeftOfAttempt + 1 /\ CallSteps = Q + 1
    BY DEF LeftOfCall, CallSteps
  <1> HIDE DEF P, Q
  <1>5. QED
    BY <1>1, <1>2, <1>3, <1>4, Counters, AttemptBounded

LEMMA NeverBlocked ==
  ASSUME Conns # {}
  PROVE  IInv => OwnerGoesOn
  <1> SUFFICES ASSUME IInv, owner # Nobody PROVE \/ at \in {"head", "setup", "write"}
                                                 \/ at = "dial" /\ (broker = "down" \/ Conns \ held # {})
    BY DEF OwnerGoesOn
  <1>1. at \in {"head", "setup", "write", "dial"}
    BY DEF IInv, TypeOK, Inside
  <1>2. at = "dial" => held = {}
    BY DEF IInv, NoConnectionLeak, Using
  <1>3. QED
    BY <1>1, <1>2

LEMMA CountingDown ==
  ASSUME IInv, [Next]_vars, owner \in Callers, owner' = owner
  PROVE  UNCHANGED control \/ LeftOfCall' < LeftOfCall
  <1> USE DEF world, resources, control, calls
  <1>1. owner \in Callers /\ owner # Nobody /\ owner # Main
    BY PublisherAssumption DEF PublisherAssumption
  \* The same attempt: its own steps decide.
  <1>2. ASSUME attempt' = attempt, LeftOfAttempt' < LeftOfAttempt, LeftOfAttempt' \in Int
        PROVE  LeftOfCall' < LeftOfCall
    <2>1. (Retries - attempt) * AttemptSteps \in Int
      BY Counters, Products
    <2>2. LeftOfCall' = (Retries - attempt) * AttemptSteps + LeftOfAttempt' + 1
      BY <1>2 DEF LeftOfCall, AttemptSteps
    <2>3. QED
      BY <1>2, <2>1, <2>2, AttemptBounded, Counters DEF LeftOfCall
  \* The next attempt: a whole one less, and at most a whole one begun anew.
  <1>3. ASSUME NextAttempt PROVE LeftOfCall' < LeftOfCall
    <2>1. attempt' = attempt + 1 /\ LeftOfAttempt' = AttemptSteps
      BY <1>3 DEF NextAttempt, LeftOfAttempt, AttemptSteps
    <2>2. LeftOfCall' = (Retries - (attempt + 1)) * AttemptSteps + AttemptSteps + 1
      BY <2>1 DEF LeftOfCall, AttemptSteps
    <2>3. /\ (Retries - attempt) * AttemptSteps \in Int
          /\ (Retries - (attempt + 1)) * AttemptSteps = (Retries - attempt) * AttemptSteps - AttemptSteps
      BY Counters, Products
    <2>4. LeftOfCall = (Retries - attempt) * AttemptSteps + LeftOfAttempt + 1
      BY DEF LeftOfCall
    <2> DEFINE P == (Retries - attempt) * AttemptSteps
    <2> HIDE DEF P
    <2>5. P \in Int /\ LeftOfCall' = P + 1 /\ LeftOfCall = P + LeftOfAttempt + 1
      BY <2>2, <2>3, <2>4, Counters DEF P
    <2>6. QED
      BY <2>5, AttemptBounded, Counters
  <1>4. CASE LoopHead
    <2>1. ~Return("error")
      BY <1>1 DEF Return
    <2>2. attempt' = attempt /\ at = "head" /\ attempt <= Retries
      BY <1>4, <2>1, Counters DEF LoopHead, Exhausted
    <2>3. CASE conn = NoConn
      BY <1>2, <1>4, <2>1, <2>2, <2>3, Counters DEF LoopHead, LeftOfAttempt, AttemptSteps
    <2>4. CASE conn # NoConn
      BY <1>2, <1>4, <2>1, <2>2, <2>4, Counters DEF LoopHead, LeftOfAttempt, AttemptSteps
    <2>5. QED
      BY <2>3, <2>4
  <1>5. CASE Dial
    <2>1. CASE broker = "up"
      <3>1. at = "dial" /\ at' = "setup" /\ UNCHANGED <<origin, attempt, dials>>
        BY <1>5, <2>1 DEF Dial
      <3>2. QED
        BY <1>2, <3>1, Counters DEF LeftOfAttempt
    <2>2. CASE broker = "down" /\ dials + 1 < MaxDials
      <3>1. at = "dial" /\ at' = "dial" /\ dials' = dials + 1 /\ UNCHANGED <<origin, attempt>>
        BY <1>5, <2>2, Counters DEF Dial
      <3>2. QED
        BY <1>2, <3>1, Counters DEF LeftOfAttempt
    <2>3. CASE broker = "down" /\ dials + 1 = MaxDials
      BY <1>3, <1>5, <2>3, Counters DEF Dial, ConnectFailed
    <2>4. QED
      BY <1>5, <2>1, <2>2, <2>3 DEF Dial
  <1>6. CASE SetupFails
    BY <1>3, <1>6, Counters DEF SetupFails, ConnectFailed
  <1>7. CASE SetupSucceeds
    <2>1. CASE origin = "head"
      BY <1>2, <1>7, <2>1, Counters DEF SetupSucceeds, LeftOfAttempt
    <2>2. CASE origin # "head"
      BY <1>3, <1>7, <2>2, Counters DEF SetupSucceeds
    <2>3. QED
      BY <2>1, <2>2
  <1>8. CASE WriteSucceeds
    BY <1>1, <1>8 DEF WriteSucceeds, Return
  <1>9. CASE WriteFails
    BY <1>2, <1>9, Counters DEF WriteFails, LeftOfAttempt
  <1>10. CASE BrokerFails \/ BrokerRecovers \/ (\E s \in Conns : Break(s) \/ Notice(s)) \/ UNCHANGED vars
    BY <1>10 DEF BrokerFails, BrokerRecovers, Break, Notice, vars
  <1>11. ASSUME NEW c \in Callers, Call(c) \/ Lock(c) PROVE UNCHANGED control
    BY <1>1, <1>11 DEF Call, Lock
  <1>12. CASE Close \/ Restart
    BY <1>1, <1>12 DEF Close, Restart
  <1>13. QED
    BY <1>4, <1>5, <1>6, <1>7, <1>8, <1>9, <1>10, <1>11, <1>12 DEF Next, Step

\* The mutex is never kept for ever: an upper bound on the steps of a call,
\* which each step of the owner brings down and no step of anybody else moves,
\* and an owner that is never blocked.  With the
\* values of the code a call makes at most 55 steps, 42 of them dials.
THEOREM CallIsBoundedAlways ==
  ASSUME Conns # {}
  PROVE  Spec => [](CallIsBounded /\ OwnerGoesOn) /\ [][StepsCountDown]_vars
  <1>1. IInv => CallIsBounded /\ OwnerGoesOn
    BY BoundedCall, NeverBlocked
  <1>2. IInv /\ [Next]_vars => [StepsCountDown]_vars
    BY CountingDown DEF StepsCountDown
  <1>3. QED
    BY <1>1, <1>2, Invariance, PTL DEF Spec

----------------------------------------------------------------------------
(* Publisher implements PublishContract.                                   *)

callBar == [c \in Callers |-> CallState(c)]

LEMMA InitContract == Init => C!Init
  BY DEF Init, C!Init, CallState

\* Calls that neither begin nor return are steps of their own kind.
LEMMA SameCalls ==
  ASSUME UNCHANGED <<pc, result, copies>>
  PROVE  UNCHANGED <<callBar, copies>>
  BY DEF callBar, CallState

LEMMA ReturnRefines ==
  ASSUME IInv, owner \in Callers, NEW r \in {"nil", "error"}, Return(r)
  PROVE  pc[owner] = "inside" /\ callBar[owner] = "open" /\ callBar' = [callBar EXCEPT ![owner] = r]
  <1>1. pc[owner] = "inside"
    BY DEF IInv, TypeOK, Inside
  <1>2. \A c \in Callers : c # owner => result'[c] = result[c] /\ pc'[c] = pc[c]
    BY ReturnFacts
  <1>3. result'[owner] = r /\ pc'[owner] = "idle"
    BY ReturnFacts
  <1>4. QED
    BY <1>1, <1>2, <1>3 DEF callBar, CallState

LEMMA StepRefines == IInv /\ IInv' /\ [Next]_vars => [C!Next]_<<callBar, copies>>
  <1> SUFFICES ASSUME IInv, IInv', [Next]_vars PROVE C!Next \/ UNCHANGED <<callBar, copies>>
    OBVIOUS
  <1> USE DEF calls
  <1>1. CASE UNCHANGED <<pc, result, copies>>
    BY <1>1, SameCalls
  <1>2. ASSUME NEW c \in Callers, Call(c) PROVE C!Begin(c)
    <2>1. callBar[c] \in {"none", "nil", "error"}
      BY <1>2 DEF Call, callBar, CallState, IInv, TypeOK, Outcomes
    <2>2. callBar' = [callBar EXCEPT ![c] = "open"]
      BY <1>2 DEF Call, callBar, CallState, IInv, TypeOK
    <2>3. QED
      BY <1>2, <2>1, <2>2 DEF Call, C!Begin, callBar
  <1>3. ASSUME NEW c \in Callers, Lock(c) PROVE UNCHANGED <<callBar, copies>>
    BY <1>3 DEF Lock, callBar, CallState, IInv, TypeOK
  <1>4. ASSUME LoopHead, ~UNCHANGED <<pc, result, copies>> PROVE owner \in Callers /\ C!ReturnError(owner)
    <2>1. owner \in Callers /\ Return("error") /\ copies' = copies
      BY <1>4, PublisherAssumption DEF LoopHead, IInv, TypeOK, Inside, PublisherAssumption
    <2>2. QED
      BY <2>1, ReturnRefines DEF C!ReturnError, callBar
  <1>5. ASSUME WriteSucceeds PROVE owner \in Callers /\ C!ReturnNil(owner)
    <2>1. owner \in Callers /\ Return("nil")
      BY <1>5, PublisherAssumption DEF WriteSucceeds, IInv, TypeOK, Inside, PublisherAssumption
    <2>2. callBar[owner] = "open" /\ callBar' = [callBar EXCEPT ![owner] = "nil"] /\ pc[owner] = "inside"
      BY <2>1, ReturnRefines
    <2>3. copies[owner] = 0
      BY <2>1, <2>2 DEF IInv, Unwritten
    <2>4. \E n \in {0, 1} : copies' = [copies EXCEPT ![owner] = n]
      <3>1. CASE health[conn] = "alive"
        <4>1. copies' = [copies EXCEPT ![owner] = copies[owner] + 1]
          BY <1>5, <3>1 DEF WriteSucceeds
        <4>2. QED
          BY <2>3, <4>1
      <3>2. CASE health[conn] # "alive"
        <4>1. copies' = [copies EXCEPT ![owner] = copies[owner]]
          BY <1>5, <3>2 DEF WriteSucceeds
        <4>2. QED
          BY <2>3, <4>1
      <3>3. QED
        BY <3>1, <3>2
    <2>5. QED
      BY <2>1, <2>2, <2>4 DEF C!ReturnNil, callBar
  <1>6. ASSUME Restart PROVE C!Restart
    BY <1>6 DEF Restart, C!Restart, CallState, IInv, Inside
  <1>7. QED
    BY <1>1, <1>2, <1>3, <1>4, <1>5, <1>6
       DEF Next, Step, Dial, SetupFails, SetupSucceeds, WriteFails, Close, Break, Notice, BrokerFails, BrokerRecovers,
           vars, C!Next

\* Publish keeps its contract: one copy per call at the most, and none for a
\* call that returns an error, however often it wrote and dialled.
THEOREM ImplementsContract == Spec => ContractSpec
  <1>1. Init => C!Init
    BY InitContract
  <1>2. IInv /\ IInv' /\ [Next]_vars => [C!Next]_<<callBar, copies>>
    BY StepRefines
  <1>3. QED
    BY <1>1, <1>2, Invariance, PTL DEF Spec, ContractSpec, C!Spec, callBar

============================================================================
