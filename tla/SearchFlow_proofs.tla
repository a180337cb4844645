-------------------------- MODULE SearchFlow_proofs --------------------------
(***************************************************************************)
(* Proofs about SearchFlow, for any number of updates in process, any      *)
(* keywords, prices and limits, and any faults.                            *)
(***************************************************************************)
EXTENDS SearchFlow, SequenceTheorems, FiniteSetTheorems, TLAPS

----------------------------------------------------------------------------
(* The inductive invariant.                                                *)

Row == [crit : Criteria, active : BOOLEAN]
States == {"none", "keyword", "customMin", "customMax"}
DataSet == [keyword : Keywords \cup {NoKeyword}, min : MinLimits]
Partial == [keyword : Keywords \cup {NoKeyword}, min : MinLimits, max : MaxLimits]

Sound(c) == c \in Criteria /\ ~Inverted(c.min, c.max)

\* What a task holds: a search that is looked up, announced or saved is
\* complete and its range was checked; the row it found has its criteria.
Holding(h) ==
    /\ pc[h] \in {"find", "answer", "commit"} => Sound(crit[h])
    /\ pc[h] \in {"answer", "commit"} =>
           found[h] = 0 \/ (found[h] \in DOMAIN rows /\ rows[found[h]].crit = crit[h])
    /\ pc[h] = "remove" => found[h] \in DOMAIN rows
    /\ pc[h] = "delete" => found[h] = 0 \/ found[h] \in DOMAIN rows
Holdings == \A h \in Handlers : Holding(h)

Ranges == \A i \in DOMAIN rows : Sound(rows[i].crit)

IInv == TypeOK /\ Holdings /\ Ranges

----------------------------------------------------------------------------
(* Records and rows.                                                       *)

LEMMA PartialFacts ==
  /\ Blank \in Partial /\ Empty \in DataSet
  /\ \A m \in MinLimits, n \in MaxLimits : [Blank EXCEPT !.min = m, !.max = n] \in Partial
  BY DEF Blank, Empty, Partial, DataSet, MinLimits, MaxLimits

LEMMA DataFacts ==
  ASSUME NEW d \in DataSet
  PROVE  /\ d.keyword \in Keywords \cup {NoKeyword} /\ d.min \in MinLimits
         /\ \A k \in Keywords \cup {NoKeyword} : [d EXCEPT !.keyword = k] \in DataSet
         /\ \A m \in MinLimits : [d EXCEPT !.min = m] \in DataSet
  BY DEF DataSet

LEMMA CritFacts ==
  ASSUME NEW c \in Partial
  PROVE  c.keyword \in Keywords \cup {NoKeyword} /\ c.min \in MinLimits /\ c.max \in MaxLimits
  BY DEF Partial

LEMMA CriteriaFacts ==
  ASSUME NEW k \in Keywords, NEW m \in MinLimits, NEW n \in MaxLimits
  PROVE  /\ [keyword |-> k, min |-> m, max |-> n] \in Criteria
         /\ [keyword |-> k, min |-> m, max |-> n].min = m
         /\ [keyword |-> k, min |-> m, max |-> n].max = n
  BY DEF Criteria

LEMMA CriteriaPartial == Criteria \subseteq Partial
  BY DEF Criteria, Partial

LEMMA NormalFacts ==
  /\ \A raw \in MinPrices \cup {0} : NormalizePrice(raw) \in MinLimits
  /\ \A raw \in MaxPrices \cup {0} : NormalizePrice(raw) \in MaxLimits
  BY SearchFlowAssumption DEF SearchFlowAssumption, NormalizePrice, MinLimits, MaxLimits

LEMMA RowFacts ==
  ASSUME NEW c \in Criteria, NEW b \in BOOLEAN
  PROVE  /\ [crit |-> c, active |-> b] \in Row /\ [crit |-> c, active |-> b].crit = c
         /\ \A r \in Row : [r EXCEPT !.active = b] \in Row /\ [r EXCEPT !.active = b].crit = r.crit
         /\ \A r \in Row : r.crit \in Criteria
  BY DEF Row

\* Setting the flag of a row changes no criteria.
LEMMA FlagFacts ==
  ASSUME TypeOK, NEW i \in DOMAIN rows, NEW b \in BOOLEAN, rows' = [rows EXCEPT ![i].active = b]
  PROVE  /\ rows' \in Seq(Row) /\ Len(rows') = Len(rows) /\ DOMAIN rows' = DOMAIN rows
         /\ \A j \in DOMAIN rows : rows'[j].crit = rows[j].crit
         /\ \A j \in DOMAIN rows : rows'[j].active = IF j = i THEN b ELSE rows[j].active
  <1>1. rows \in Seq(Row) /\ DOMAIN rows = 1..Len(rows)
    BY LenProperties DEF TypeOK, Row
  <1>2. rows[i] \in Row
    BY <1>1, ElementOfSeq
  <1> DEFINE r == [rows[i] EXCEPT !.active = b]
  <1>3. r \in Row /\ r.crit = rows[i].crit /\ r.active = b
    BY <1>2 DEF Row
  <1>4. rows' = [rows EXCEPT ![i] = r]
    OBVIOUS
  <1> HIDE DEF r
  <1>5. rows' \in Seq(Row) /\ Len(rows') = Len(rows) /\ \A j \in 1..Len(rows) : rows'[j] = IF j = i THEN r ELSE rows[j]
    BY <1>1, <1>3, <1>4, ExceptSeq
  <1>6. DOMAIN rows' = 1..Len(rows')
    BY <1>5, LenProperties
  <1>7. QED
    BY <1>1, <1>3, <1>5, <1>6

LEMMA AppendFacts ==
  ASSUME TypeOK, NEW r \in Row, rows' = Append(rows, r)
  PROVE  /\ rows' \in Seq(Row) /\ Len(rows') = Len(rows) + 1 /\ Len(rows) \in Nat
         /\ DOMAIN rows = 1..Len(rows) /\ DOMAIN rows' = DOMAIN rows \cup {Len(rows) + 1}
         /\ \A j \in DOMAIN rows : rows'[j] = rows[j]
         /\ rows'[Len(rows) + 1] = r
  <1>1. rows \in Seq(Row) /\ DOMAIN rows = 1..Len(rows) /\ Len(rows) \in Nat
    BY LenProperties DEF TypeOK, Row
  <1>2. rows' \in Seq(Row) /\ Len(rows') = Len(rows) + 1
    BY <1>1
  <1>3. DOMAIN rows' = 1..Len(rows')
    BY <1>2, LenProperties
  <1>4. DOMAIN rows' = DOMAIN rows \cup {Len(rows) + 1}
    BY <1>1, <1>2, <1>3
  <1>5. \A j \in 1..Len(rows) : rows'[j] = rows[j]
    BY <1>1
  <1>6. rows'[Len(rows) + 1] = r
    BY <1>1
  <1>7. QED
    BY <1>1, <1>2, <1>4, <1>5, <1>6

----------------------------------------------------------------------------
(* Steps of a task.                                                        *)

\* What the sessions have loaded.
LEMMA ForgetFacts ==
  ASSUME TypeOK, NEW h \in Handlers, Forget(h), Len(rows) <= Len(rows'), Len(rows') \in Nat
  PROVE  LoadedOK'
  <1>1. <<>> \in Seq(BOOLEAN) /\ Len(<<>>) = 0
    BY EmptySeq
  <1>2. loaded' \in [Handlers -> Seq(BOOLEAN)] /\ loaded'[h] = <<>> /\ \A g \in Handlers : g # h => loaded'[g] = loaded[g]
    BY <1>1 DEF Forget, TypeOK, LoadedOK
  <1>3. Len(rows) \in Nat /\ \A g \in Handlers : Len(loaded[g]) \in Nat /\ Len(loaded[g]) <= Len(rows)
    BY LenProperties DEF TypeOK, LoadedOK
  <1>4. ASSUME NEW g \in Handlers PROVE Len(loaded'[g]) <= Len(rows')
    BY <1>1, <1>2, <1>3
  <1>5. QED
    BY <1>2, <1>4 DEF LoadedOK

LEMMA LoadFacts ==
  ASSUME TypeOK, NEW h \in Handlers, Load(h), rows' = rows
  PROVE  /\ LoadedOK' /\ DOMAIN loaded'[h] = DOMAIN rows
         /\ \A i \in DOMAIN rows : loaded'[h][i] = rows[i].active
         /\ \A g \in Handlers : g # h => loaded'[g] = loaded[g]
  <1> DEFINE l == [i \in DOMAIN rows |-> rows[i].active]
  <1>1. rows \in Seq(Row) /\ DOMAIN rows = 1..Len(rows) /\ Len(rows) \in Nat
    BY LenProperties DEF TypeOK, Row
  <1>2. \A i \in 1..Len(rows) : rows[i].active \in BOOLEAN
    <2>1. ASSUME NEW i \in 1..Len(rows) PROVE rows[i].active \in BOOLEAN
      <3>1. rows[i] \in Row
        BY <1>1, ElementOfSeq
      <3>2. QED
        BY <3>1 DEF Row
    <2>2. QED
      BY <2>1
  <1>3. l \in Seq(BOOLEAN) /\ Len(l) = Len(rows)
    BY <1>1, <1>2, IsASeq, SeqDef
  <1>4. loaded' = [loaded EXCEPT ![h] = l]
    BY DEF Load
  <1>5. DOMAIN l = DOMAIN rows /\ \A i \in DOMAIN rows : l[i] = rows[i].active
    OBVIOUS
  <1> HIDE DEF l
  <1>6. loaded' \in [Handlers -> Seq(BOOLEAN)] /\ loaded'[h] = l /\ \A g \in Handlers : g # h => loaded'[g] = loaded[g]
    BY <1>3, <1>4 DEF TypeOK, LoadedOK
  <1>7. ASSUME NEW g \in Handlers PROVE Len(loaded'[g]) <= Len(rows')
    <2>1. Len(loaded[g]) <= Len(rows) /\ Len(rows') = Len(rows) /\ Len(rows) <= Len(rows)
      BY <1>1 DEF TypeOK, LoadedOK
    <2>2. CASE g = h
      BY <1>3, <1>6, <2>1, <2>2
    <2>3. CASE g # h
      BY <1>6, <2>1, <2>3
    <2>4. QED
      BY <2>2, <2>3
  <1>8. QED
    BY <1>5, <1>6, <1>7 DEF LoadedOK

LEMMA GotoFacts ==
  ASSUME IInv, NEW h \in Handlers, NEW p \in Places, Goto(h, p)
  PROVE  /\ pc' \in [Handlers -> Places] /\ pc'[h] = p /\ \A g \in Handlers : g # h => pc'[g] = pc[g]
         /\ alone' \in BOOLEAN /\ limited' \in BOOLEAN
  <1>1. pc' = [pc EXCEPT ![h] = p] /\ pc \in [Handlers -> Places]
    BY DEF Goto, IInv, TypeOK
  <1>2. alone' \in BOOLEAN /\ limited' \in BOOLEAN
    BY DEF Goto
  <1>3. QED
    BY <1>1, <1>2

\* A task goes to p with criteria c and row f, and the table stays.
LEMMA TaskStep ==
  ASSUME IInv, NEW h \in Handlers, NEW p \in Places, Goto(h, p),
         NEW c \in Partial, crit' = [crit EXCEPT ![h] = c],
         NEW f \in 0..MaxRows, found' = [found EXCEPT ![h] = f],
         LoadedOK', disturbed' \subseteq Handlers, watched' \subseteq Watched,
         UNCHANGED <<rows, premium>>, fsm' \in States, data' \in DataSet,
         p \in {"find", "answer", "commit"} => Sound(c),
         p \in {"answer", "commit"} => f = 0 \/ (f \in DOMAIN rows /\ rows[f].crit = c),
         p = "remove" => f \in DOMAIN rows,
         p = "delete" => f = 0 \/ f \in DOMAIN rows
  PROVE  IInv'
  <1>1. pc' \in [Handlers -> Places] /\ pc'[h] = p /\ \A g \in Handlers : g # h => pc'[g] = pc[g]
    BY GotoFacts
  <1>2. crit' \in [Handlers -> Partial] /\ crit'[h] = c /\ \A g \in Handlers : g # h => crit'[g] = crit[g]
    BY DEF IInv, TypeOK, Partial
  <1>3. found' \in [Handlers -> 0..MaxRows] /\ found'[h] = f /\ \A g \in Handlers : g # h => found'[g] = found[g]
    BY DEF IInv, TypeOK
  <1>4. alone' \in BOOLEAN /\ limited' \in BOOLEAN
    BY GotoFacts
  <1>5. TypeOK'
    BY <1>1, <1>2, <1>3, <1>4 DEF IInv, TypeOK, Partial, States, DataSet
  <1>6. Holdings'
    BY <1>1, <1>2, <1>3 DEF IInv, Holdings, Holding
  <1>7. Ranges'
    BY DEF IInv, Ranges
  <1>8. QED
    BY <1>5, <1>6, <1>7 DEF IInv

LEMMA MyCrit ==
  ASSUME IInv, NEW h \in Handlers
  PROVE  /\ crit[h] \in Partial /\ found[h] \in 0..MaxRows /\ fsm \in States /\ data \in DataSet
         /\ crit = [crit EXCEPT ![h] = crit[h]] /\ found = [found EXCEPT ![h] = found[h]]
         /\ disturbed \subseteq Handlers /\ watched \subseteq Watched /\ TypeOK
         /\ Len(rows) \in Nat /\ Len(rows) <= Len(rows)
  BY LenProperties DEF IInv, TypeOK, Partial, States, DataSet

LEMMA SameLoaded ==
  ASSUME IInv, UNCHANGED <<rows, loaded>>
  PROVE  LoadedOK'
  BY DEF IInv, TypeOK, LoadedOK

\* A task that is done, or has given up.
LEMMA FinishStep ==
  ASSUME IInv, NEW h \in Handlers, Finish(h), UNCHANGED <<rows, premium>>, watched' \subseteq Watched,
         fsm' \in States, data' \in DataSet
  PROVE  IInv'
  <1>1. "idle" \in Places /\ 0 \in 0..MaxRows
    BY SearchFlowAssumption DEF Places, SearchFlowAssumption
  <1>2. Goto(h, "idle") /\ crit' = [crit EXCEPT ![h] = Blank] /\ found' = [found EXCEPT ![h] = 0] /\ Forget(h)
    BY DEF Finish, Hold
  <1>3. LoadedOK'
    BY <1>2, MyCrit, ForgetFacts
  <1>4. disturbed' \subseteq Handlers
    BY MyCrit DEF Finish
  <1>5. QED
    BY <1>1, <1>2, <1>3, <1>4, PartialFacts, TaskStep

\* A step without a task: it changes the dialogue alone.
LEMMA DialogueStep ==
  ASSUME IInv, UNCHANGED <<rows, watched, premium, tasks>>, fsm' \in States, data' \in DataSet
  PROVE  IInv'
  BY DEF IInv, TypeOK, LoadedOK, States, DataSet, tasks, locals, Holdings, Holding, Ranges

LEMMA BeginSaveStep ==
  ASSUME IInv, NEW h \in Handlers, NEW m \in MinLimits, NEW n \in MaxLimits, BeginSave(h, m, n)
  PROVE  IInv'
  <1>0. /\ fsm' \in States /\ data' \in DataSet /\ UNCHANGED <<rows, premium>>
        /\ watched' \subseteq Watched
    BY MyCrit DEF BeginSave, dialogue
  <1>1. CASE data.keyword = NoKeyword /\ Finish(h)
    BY <1>0, <1>1, FinishStep
  <1>2. CASE ~(data.keyword = NoKeyword /\ Finish(h))
    <2> DEFINE c == [keyword |-> data.keyword, min |-> m, max |-> n]
    <2>1. /\ data.keyword # NoKeyword /\ crit' = [crit EXCEPT ![h] = c] /\ found' = found /\ disturbed' = disturbed
          /\ \/ Inverted(m, n) /\ Goto(h, "refuse") /\ Forget(h)
             \/ ~Inverted(m, n) /\ Goto(h, "find") /\ UNCHANGED loaded
      BY <1>2 DEF BeginSave, Hold
    <2>2. data.keyword \in Keywords
      BY <2>1, MyCrit, DataFacts
    <2>3. c \in Criteria /\ c.min = m /\ c.max = n
      BY <2>2, CriteriaFacts
    <2>4. {"refuse", "find"} \subseteq Places
      BY DEF Places, Deciding
    <2> HIDE DEF c
    <2>6. c \in Partial
      BY <2>3, CriteriaPartial
    <2>7. found[h] \in 0..MaxRows /\ found' = [found EXCEPT ![h] = found[h]] /\ disturbed' \subseteq Handlers
      BY <2>1, MyCrit
    <2>8. LoadedOK'
      BY <1>0, <2>1, MyCrit, ForgetFacts, SameLoaded
    <2>9. CASE Goto(h, "refuse")
      BY <1>0, <2>1, <2>4, <2>6, <2>7, <2>8, <2>9, TaskStep
    <2>10. CASE Goto(h, "find") /\ ~Inverted(m, n)
      <3>1. Sound(c)
        BY <2>3, <2>10 DEF Sound
      <3>2. QED
        BY <1>0, <2>1, <2>4, <2>6, <2>7, <2>8, <2>10, <3>1, TaskStep
    <2>11. QED
      BY <2>1, <2>9, <2>10
  <1>3. QED
    BY <1>1, <1>2

----------------------------------------------------------------------------
(* The steps that know of rows.                                            *)

LEMMA FindExistingStep ==
  ASSUME IInv, NEW h \in Handlers, FindExisting(h)
  PROVE  IInv'
  <1> DEFINE hits == {i \in DOMAIN rows : Same(rows[i].crit, crit[h])}
             live == {i \in hits : SeesActive(h, i)}
  <1>0. /\ pc[h] = "find" /\ UNCHANGED <<rows, premium>> /\ Sound(crit[h])
        /\ watched' \subseteq Watched
    BY MyCrit DEF FindExisting, IInv, Holdings, Holding
  <1>m. {"refuse", "answer"} \subseteq Places
    BY DEF Places, Deciding
  <1>1. CASE Finish(h) /\ UNCHANGED dialogue
    BY <1>0, <1>1, FinishStep, MyCrit DEF dialogue
  <1>2. CASE Goto(h, "refuse") /\ Forget(h) /\ UNCHANGED <<crit, found, disturbed, dialogue>>
    <2>1. fsm' \in States /\ data' \in DataSet /\ LoadedOK' /\ disturbed' \subseteq Handlers
      BY <1>0, <1>2, MyCrit, ForgetFacts DEF dialogue
    <2>2. QED
      BY <1>0, <1>m, <1>2, <2>1, MyCrit, TaskStep
  <1>3. CASE /\ \E i \in IF hits = {} THEN {0} ELSE hits \ live : found' = [found EXCEPT ![h] = i]
             /\ Forget(h) /\ Goto(h, "answer") /\ Clear /\ UNCHANGED <<crit, disturbed>>
    <2>1. PICK i \in IF hits = {} THEN {0} ELSE hits \ live : found' = [found EXCEPT ![h] = i]
      BY <1>3
    <2>2. i = 0 \/ (i \in DOMAIN rows /\ rows[i].crit = crit[h])
      BY <2>1 DEF Same
    <2>3. DOMAIN rows = 1..Len(rows) /\ Len(rows) \in Nat /\ Len(rows) <= MaxRows /\ MaxRows \in Nat
      BY LenProperties, SearchFlowAssumption DEF IInv, TypeOK, SearchFlowAssumption
    <2>4. i \in 0..MaxRows
      BY <2>2, <2>3
    <2>5. fsm' \in States /\ data' \in DataSet /\ LoadedOK' /\ disturbed' \subseteq Handlers
      BY <1>0, <1>3, PartialFacts, MyCrit, ForgetFacts DEF Clear, States
    <2>6. crit[h] \in Partial /\ crit' = [crit EXCEPT ![h] = crit[h]]
      BY <1>3, MyCrit
    <2>7. QED
      BY <1>0, <1>m, <1>3, <2>1, <2>2, <2>4, <2>5, <2>6, TaskStep
  <1>4. QED
    BY <1>1, <1>2, <1>3 DEF FindExisting

\* The table changes as a task ends: no row goes, and none changes its
\* criteria.
LEMMA CommitStep ==
  ASSUME IInv, NEW h \in Handlers, Finish(h), UNCHANGED <<premium, dialogue>>,
         rows' \in Seq(Row), Len(rows') <= MaxRows, Len(rows) <= Len(rows'), watched' \subseteq Watched,
         DOMAIN rows \subseteq DOMAIN rows', \A j \in DOMAIN rows : rows'[j].crit = rows[j].crit
  PROVE  TypeOK' /\ Holdings'
  <1>1. "idle" \in Places /\ 0 \in 0..MaxRows
    BY SearchFlowAssumption DEF Places, SearchFlowAssumption
  <1>2. pc' \in [Handlers -> Places] /\ pc'[h] = "idle" /\ \A g \in Handlers : g # h => pc'[g] = pc[g]
    BY <1>1, GotoFacts DEF Finish
  <1>3. crit' \in [Handlers -> Partial] /\ \A g \in Handlers : g # h => crit'[g] = crit[g]
    BY PartialFacts DEF Finish, Hold, IInv, TypeOK, Partial
  <1>4. found' \in [Handlers -> 0..MaxRows] /\ \A g \in Handlers : g # h => found'[g] = found[g]
    BY <1>1 DEF Finish, IInv, TypeOK
  <1>5. alone' \in BOOLEAN /\ limited' \in BOOLEAN /\ disturbed' \subseteq Handlers
    BY <1>1, GotoFacts, MyCrit DEF Finish
  <1>l. LoadedOK'
    BY LenProperties, ForgetFacts, MyCrit DEF Finish
  <1>6. TypeOK'
    BY <1>2, <1>3, <1>4, <1>5, <1>l DEF IInv, TypeOK, Partial, Row, dialogue
  <1>7. Holdings'
    BY <1>2, <1>3, <1>4 DEF IInv, Holdings, Holding
  <1>8. QED
    BY <1>6, <1>7

\* What the commit of a save does to the table and to what the user knows.
LEMMA CommitSaveFacts ==
  ASSUME IInv, NEW h \in Handlers, CommitSave(h)
  PROVE  /\ pc[h] = "commit" /\ Finish(h) /\ UNCHANGED <<premium, dialogue>> /\ Sound(crit[h])
         /\ found[h] = 0 \/ (found[h] \in DOMAIN rows /\ rows[found[h]].crit = crit[h])
         /\ Tell(h, crit[h]) \/ watched' = watched
         /\ watched' \subseteq Watched
  BY MyCrit DEF CommitSave, Tell, IInv, Holdings, Holding

LEMMA CommitSaveStep ==
  ASSUME IInv, NEW h \in Handlers, CommitSave(h)
  PROVE  IInv'
  <1>0. /\ pc[h] = "commit" /\ Finish(h) /\ UNCHANGED <<premium, dialogue>> /\ Sound(crit[h])
        /\ found[h] = 0 \/ (found[h] \in DOMAIN rows /\ rows[found[h]].crit = crit[h])
        /\ watched' \subseteq Watched
    BY CommitSaveFacts
  <1>t. /\ crit[h] \in Criteria
        /\ rows \in Seq(Row) /\ Len(rows) \in Nat /\ Len(rows) <= MaxRows /\ MaxRows \in Nat
        /\ DOMAIN rows = 1..Len(rows)
    BY <1>0, LenProperties, SearchFlowAssumption DEF Sound, IInv, TypeOK, Row, SearchFlowAssumption
  <1>1. CASE found[h] # 0 /\ rows' = [rows EXCEPT ![found[h]].active = TRUE]
    <2>1. /\ rows' \in Seq(Row) /\ Len(rows') = Len(rows) /\ DOMAIN rows' = DOMAIN rows
          /\ \A j \in DOMAIN rows : rows'[j].crit = rows[j].crit
      BY <1>0, <1>1, FlagFacts DEF IInv
    <2>2. TypeOK' /\ Holdings'
      BY <1>0, <1>t, <2>1, CommitStep
    <2>3. QED
      BY <2>1, <2>2 DEF IInv, Ranges
  <1>2. CASE Len(rows) < MaxRows /\ rows' = Append(rows, [crit |-> crit[h], active |-> TRUE])
    <2>1. [crit |-> crit[h], active |-> TRUE] \in Row /\ [crit |-> crit[h], active |-> TRUE].crit = crit[h]
      BY <1>t, RowFacts
    <2>2. /\ rows' \in Seq(Row) /\ Len(rows') = Len(rows) + 1
          /\ DOMAIN rows' = DOMAIN rows \cup {Len(rows) + 1}
          /\ \A j \in DOMAIN rows : rows'[j] = rows[j]
          /\ rows'[Len(rows) + 1].crit = crit[h]
      BY <1>2, <2>1, AppendFacts DEF IInv
    <2>l. Len(rows') <= MaxRows /\ Len(rows) <= Len(rows')
      <3>1. Len(rows) + 1 <= MaxRows /\ Len(rows) <= Len(rows) + 1
        BY <1>t, <1>2
      <3>2. QED
        BY <2>2, <3>1
    <2>3. TypeOK' /\ Holdings'
      BY <1>0, <2>2, <2>l, CommitStep
    <2>4. Ranges'
      BY <1>0, <2>2 DEF IInv, Ranges
    <2>7. QED
      BY <2>3, <2>4 DEF IInv
  <1>3. CASE UNCHANGED rows
    BY <1>0, <1>3, MyCrit, FinishStep DEF dialogue
  <1>5. QED
    BY <1>1, <1>2, <1>3 DEF CommitSave

LEMMA CommitDeleteStep ==
  ASSUME IInv, NEW h \in Handlers, CommitDelete(h)
  PROVE  IInv'
  <1>0. /\ pc[h] = "delete" /\ Finish(h) /\ UNCHANGED <<watched, premium, dialogue>>
        /\ found[h] = 0 \/ found[h] \in DOMAIN rows
        /\ watched' \subseteq Watched
    BY MyCrit DEF CommitDelete, IInv, Holdings, Holding
  <1>1. CASE found[h] # 0 /\ rows' = [rows EXCEPT ![found[h]].active = FALSE]
    <2>1. /\ rows' \in Seq(Row) /\ Len(rows') = Len(rows) /\ DOMAIN rows' = DOMAIN rows
          /\ \A j \in DOMAIN rows : rows'[j].crit = rows[j].crit
      BY <1>0, <1>1, FlagFacts DEF IInv
    <2>2. TypeOK' /\ Holdings'
      BY <1>0, <2>1, MyCrit, CommitStep DEF IInv, TypeOK
    <2>4. QED
      BY <2>1, <2>2 DEF IInv, Ranges
  <1>2. CASE UNCHANGED rows
    <2>1. fsm' \in States /\ data' \in DataSet
      BY <1>0, MyCrit DEF dialogue
    <2>2. QED
      BY <1>0, <1>2, <2>1, FinishStep
  <1>3. QED
    BY <1>1, <1>2 DEF CommitDelete

\* A button that stops a search: the row is in the table.
LEMMA RemoveButtonStep ==
  ASSUME IInv, NEW h \in Handlers, NEW i \in DOMAIN rows, RemoveButton(h, i)
  PROVE  IInv'
  <1>1. DOMAIN rows = 1..Len(rows) /\ Len(rows) \in Nat /\ Len(rows) <= MaxRows /\ MaxRows \in Nat
    BY LenProperties, SearchFlowAssumption DEF IInv, TypeOK, SearchFlowAssumption
  <1>2. i \in 0..MaxRows /\ "remove" \in Places
    BY <1>1 DEF Places, Removing
  <1>3. LoadedOK' /\ disturbed' \subseteq Handlers /\ watched' \subseteq Watched
    BY MyCrit, LoadFacts DEF RemoveButton
  <1>4. /\ Goto(h, "remove") /\ found' = [found EXCEPT ![h] = i] /\ crit' = [crit EXCEPT ![h] = crit[h]]
        /\ UNCHANGED <<rows, premium>> /\ fsm' \in States /\ data' \in DataSet /\ crit[h] \in Partial
    BY MyCrit DEF RemoveButton, dialogue
  <1>5. QED
    BY <1>2, <1>3, <1>4, TaskStep

LEMMA FindToDeleteStep ==
  ASSUME IInv, NEW h \in Handlers, FindToDelete(h)
  PROVE  IInv'
  <1>0. /\ pc[h] = "remove" /\ UNCHANGED <<rows, premium>> /\ found[h] \in DOMAIN rows /\ watched' \subseteq Watched
        /\ fsm' \in States /\ data' \in DataSet /\ "delete" \in Places
        /\ 0 \in 0..MaxRows
    BY MyCrit, SearchFlowAssumption DEF FindToDelete, dialogue, IInv, Holdings, Holding, Places, Removing, SearchFlowAssumption
  <1>1. CASE Finish(h)
    BY <1>0, <1>1, FinishStep
  <1>2. CASE Goto(h, "delete") /\ Forget(h) /\ found' = [found EXCEPT ![h] = IF SeesActive(h, found[h]) THEN found[h] ELSE 0]
             /\ UNCHANGED <<crit, disturbed>>
    <2>1. PICK f \in {0, found[h]} : found' = [found EXCEPT ![h] = f]
      BY <1>2
    <2>2. f \in 0..MaxRows /\ (f = 0 \/ f \in DOMAIN rows)
      BY <1>0, <2>1, MyCrit
    <2>3. LoadedOK' /\ disturbed' \subseteq Handlers
      BY <1>0, <1>2, MyCrit, ForgetFacts
    <2>4. crit' = [crit EXCEPT ![h] = crit[h]] /\ crit[h] \in Partial
      BY <1>2, MyCrit
    <2>5. "delete" \notin {"find", "answer", "commit", "remove"}
      OBVIOUS
    <2>6. Goto(h, "delete")
      BY <1>2
    <2>7. QED
      BY <1>0, <2>1, <2>2, <2>3, <2>4, <2>5, <2>6, TaskStep
  <1>3. QED
    BY <1>1, <1>2 DEF FindToDelete

----------------------------------------------------------------------------
(* Every step.                                                             *)

LEMMA InitIInv == Init => IInv
  <1> SUFFICES ASSUME Init PROVE IInv
    OBVIOUS
  <1>1. rows \in Seq(Row) /\ Len(rows) = 0 /\ DOMAIN rows = {}
    BY EmptySeq, LenProperties DEF Init
  <1>z. 0 \in 0..MaxRows
    BY SearchFlowAssumption DEF SearchFlowAssumption
  <1>2. crit \in [Handlers -> Partial] /\ data \in DataSet /\ found \in [Handlers -> 0..MaxRows]
    BY <1>z, PartialFacts DEF Init
  <1>l. LoadedOK
    BY <1>1, EmptySeq DEF Init, LoadedOK
  <1>3. TypeOK
    BY <1>1, <1>2, <1>l, SearchFlowAssumption DEF Init, TypeOK, Row, Partial, DataSet, Places, SearchFlowAssumption
  <1>4. Holdings /\ Ranges
    BY <1>1 DEF Init, Holdings, Holding, Ranges
  <1>5. QED
    BY <1>3, <1>4 DEF IInv

LEMMA UpdateIInv ==
  ASSUME IInv, NEW h \in Handlers, Update(h)
  PROVE  IInv'
  <1>p. {"idle", "limit", "prompt", "keyword", "customMin", "customMax", "load", "max", "save", "commit"} \subseteq Places
    BY DEF Places, Deciding
  <1>m. /\ crit[h] \in Partial /\ found[h] \in 0..MaxRows /\ fsm \in States /\ data \in DataSet
        /\ crit = [crit EXCEPT ![h] = crit[h]] /\ found = [found EXCEPT ![h] = found[h]]
        /\ disturbed \subseteq Handlers /\ watched \subseteq Watched
    BY MyCrit
  <1>d. ASSUME NEW p, Decide(h, p) PROVE Goto(h, p) /\ disturbed' \subseteq Handlers
    BY <1>m, <1>d DEF Decide
  <1>1. CASE AddCommand(h)
    <2>1. \E p \in {"prompt", "limit"} : Goto(h, p)
      BY <1>1 DEF AddCommand
    <2>2. QED
      BY <1>p, <1>m, <1>1, <2>1, SameLoaded, TaskStep DEF AddCommand, dialogue, locals
  <1>2. CASE CheckLimit(h)
    <2>1. CASE Finish(h)
      BY <1>m, <1>2, <2>1, FinishStep DEF CheckLimit, dialogue
    <2>2. CASE Goto(h, "prompt") /\ UNCHANGED <<locals, disturbed>>
      BY <1>p, <1>m, <1>2, <2>2, SameLoaded, TaskStep DEF CheckLimit, dialogue, locals
    <2>3. QED
      BY <1>2, <2>1, <2>2 DEF CheckLimit
  <1>3. CASE StartAddFlow(h)
    <2>1. Finish(h) /\ fsm' \in States
      BY <1>m, <1>3 DEF StartAddFlow, AnswerFails, States
    <2>2. QED
      BY <1>m, <1>3, <2>1, FinishStep DEF StartAddFlow
  <1>4. CASE KeywordMessage(h)
    BY <1>p, <1>m, <1>4, SameLoaded, TaskStep DEF KeywordMessage, dialogue, locals
  <1>5. ASSUME NEW k \in Keywords, ProcessKeyword(h, k) PROVE IInv'
    <2>1. data' \in DataSet
      BY <1>m, <1>5, DataFacts DEF ProcessKeyword
    <2>2. QED
      BY <1>m, <1>5, <2>1, FinishStep DEF ProcessKeyword
  <1>6. ASSUME NEW v \in MinLimits \ TooLarge, PriceMinButton(h, v) PROVE IInv'
    <2>1. data' \in DataSet
      BY <1>m, <1>6, DataFacts DEF PriceMinButton
    <2>2. QED
      BY <1>m, <1>6, <2>1, DialogueStep DEF PriceMinButton, NoTask
  <1>7. CASE PriceMaxButton(h)
    <2>1. LoadedOK'
      BY <1>7, MyCrit, LoadFacts DEF PriceMaxButton
    <2>2. QED
      BY <1>p, <1>m, <1>d, <1>7, <2>1, TaskStep DEF PriceMaxButton, dialogue
  <1>8. ASSUME NEW state \in {"customMin", "customMax"}, CustomButton(h, state) PROVE IInv'
    BY <1>m, <1>8, DialogueStep DEF CustomButton, NoTask, States
  <1>9. CASE CustomMinMessage(h)
    BY <1>p, <1>m, <1>9, SameLoaded, TaskStep DEF CustomMinMessage, dialogue, locals
  <1>10. CASE CustomMaxMessage(h)
    BY <1>p, <1>m, <1>d, <1>10, SameLoaded, TaskStep DEF CustomMaxMessage, dialogue, locals
  <1>11. ASSUME NEW raw \in MinPrices \cup {0}, ProcessCustomMin(h, raw) PROVE IInv'
    <2>1. data' \in DataSet
      BY <1>m, <1>11, DataFacts, NormalFacts DEF ProcessCustomMin
    <2>2. QED
      BY <1>m, <1>11, <2>1, FinishStep DEF ProcessCustomMin
  <1>12. ASSUME NEW raw \in MaxPrices \cup {0}, ProcessCustomMax(h, raw) PROVE IInv'
    BY <1>m, <1>12, DataFacts, NormalFacts, BeginSaveStep DEF ProcessCustomMax
  <1>l. CASE LoadForMax(h)
    <2>1. LoadedOK'
      BY <1>l, MyCrit, LoadFacts DEF LoadForMax
    <2>2. QED
      BY <1>p, <1>m, <1>l, <2>1, TaskStep DEF LoadForMax, dialogue
  <1>n. ASSUME NEW v \in MaxLimits \ TooLarge, ReadMin(h, v) PROVE IInv'
    <2>1. CASE AnswerFails(h)
      BY <1>m, <1>n, <2>1, FinishStep DEF ReadMin, AnswerFails, dialogue
    <2>2. CASE /\ Goto(h, "save") /\ Hold(h, [Blank EXCEPT !.min = data.min, !.max = v])
               /\ UNCHANGED <<found, loaded, disturbed>>
      <3>1. /\ [Blank EXCEPT !.min = data.min, !.max = v] \in Partial
            /\ crit' = [crit EXCEPT ![h] = [Blank EXCEPT !.min = data.min, !.max = v]]
        BY <1>m, <1>n, <2>2, PartialFacts, DataFacts DEF Hold
      <3>2. QED
        BY <1>p, <1>m, <1>n, <2>2, <3>1, SameLoaded, TaskStep DEF ReadMin, dialogue
    <2>3. QED
      BY <1>n, <2>1, <2>2 DEF ReadMin
  <1>13. CASE SaveAfterButton(h)
    <2>1. CASE BeginSave(h, crit[h].min, crit[h].max)
      BY <1>m, <2>1, CritFacts, BeginSaveStep
    <2>2. CASE AnswerFails(h) /\ UNCHANGED <<rows, watched, premium, dialogue>>
      BY <1>m, <2>2, FinishStep DEF AnswerFails, dialogue
    <2>3. QED
      BY <1>13, <2>1, <2>2 DEF SaveAfterButton
  <1>14. CASE FindExisting(h) \/ CommitSave(h) \/ CommitDelete(h) \/ FindToDelete(h)
    BY <1>14, FindExistingStep, CommitSaveStep, CommitDeleteStep, FindToDeleteStep
  <1>15. CASE Refuse(h)
    <2>1. Finish(h) /\ fsm' \in States /\ data' \in DataSet
      BY <1>m, <1>15, PartialFacts DEF Refuse, AnswerFails, Clear, States, dialogue
    <2>2. watched' \subseteq Watched
      BY <1>m, <1>15 DEF Refuse, Tell
    <2>3. QED
      BY <1>15, <2>1, <2>2, FinishStep DEF Refuse
  <1>16. CASE Announce(h)
    <2>1. CASE Goto(h, "commit") /\ UNCHANGED <<locals, disturbed>>
      <3>1. Sound(crit[h]) /\ (found[h] = 0 \/ (found[h] \in DOMAIN rows /\ rows[found[h]].crit = crit[h]))
        BY <1>16 DEF Announce, IInv, Holdings, Holding
      <3>2. QED
        BY <1>p, <1>m, <1>16, <2>1, <3>1, SameLoaded, TaskStep DEF Announce, dialogue, locals
    <2>2. CASE AnswerFails(h)
      BY <1>m, <1>16, <2>2, FinishStep DEF Announce, AnswerFails, dialogue
    <2>3. QED
      BY <1>16, <2>1, <2>2 DEF Announce
  <1>17. CASE CancelAdd(h)
    BY <1>17, PartialFacts, DialogueStep DEF CancelAdd, NoTask, Clear, States
  <1>18. ASSUME NEW i \in DOMAIN rows, RemoveButton(h, i) PROVE IInv'
    BY <1>18, RemoveButtonStep
  <1>19. QED
    BY <1>1, <1>2, <1>3, <1>4, <1>5, <1>6, <1>7, <1>8, <1>9, <1>10, <1>11, <1>12, <1>l, <1>n, <1>13, <1>14,
       <1>15, <1>16, <1>17, <1>18 DEF Update

LEMMA NextIInv == IInv /\ [Next]_vars => IInv'
  <1> SUFFICES ASSUME IInv, [Next]_vars PROVE IInv'
    OBVIOUS
  <1> USE DEF Holdings, Holding, Ranges
  <1>1. CASE PremiumChanges
    <2>1. TypeOK'
      BY <1>1 DEF PremiumChanges, IInv, TypeOK, LoadedOK, dialogue, locals
    <2>2. QED
      BY <1>1, <2>1 DEF PremiumChanges, IInv, locals
  <1>2. CASE Restart
    <2>z. 0 \in 0..MaxRows
      BY SearchFlowAssumption DEF SearchFlowAssumption
    <2>1. crit' \in [Handlers -> Partial] /\ data' \in DataSet /\ found' \in [Handlers -> 0..MaxRows] /\ fsm' = "none"
      BY <1>2, <2>z, PartialFacts DEF Restart, Clear
    <2>l. LoadedOK'
      BY <1>2, EmptySeq, LenProperties DEF Restart, LoadedOK, IInv, TypeOK
    <2>2. TypeOK'
      BY <1>2, <2>1, <2>l DEF Restart, IInv, TypeOK, Partial, DataSet, Places
    <2>3. QED
      BY <1>2, <2>2 DEF Restart, IInv
  <1>3. ASSUME NEW h \in Handlers, Update(h) PROVE IInv'
    BY <1>3, UpdateIInv
  <1>4. CASE UNCHANGED vars
    BY <1>4, MyCrit, DialogueStep DEF vars, dialogue, IInv, TypeOK, States, DataSet
  <1>5. QED
    BY <1>1, <1>2, <1>3, <1>4 DEF Next

LEMMA Invariance == Spec => []IInv
  BY InitIInv, NextIInv, PTL DEF Spec

----------------------------------------------------------------------------
(* What the user was told.                                                 *)

Live(c) == \E i \in Active : rows[i].crit = c

\* What its session shows as active is active.
Sees(h) == \A i \in DOMAIN loaded[h] : loaded[h][i] /\ rows[i].crit \in Watched => rows[i].active

\* What a task knows that no removal has overlapped: what it calls existing
\* is active, and what it inserts is not there yet, or by now is, and active.
Informed(h) ==
    pc[h] \in Deciding /\ h \notin disturbed =>
        /\ pc[h] # "load" => Sees(h)
        /\ pc[h] = "refuse" /\ ~Inverted(crit[h].min, crit[h].max) /\ crit[h] \in Watched => Live(crit[h])
        /\ pc[h] \in {"answer", "commit"} /\ found[h] = 0 /\ crit[h] \in Watched =>
               /\ ~Overflows(crit[h])
               /\ \A i \in DOMAIN rows : rows[i].crit = crit[h] => rows[i].active

\* A search that is being stopped is not called watched any more, and who
\* decides meanwhile is disturbed.
Forgotten(r) == pc[r] \in Removing /\ found[r] # 0 => rows[found[r]].crit \notin watched
Warned == \A r, h \in Handlers : Stopping(r) /\ pc[h] \in Deciding => h \in disturbed

Watching == ToldIsWatched /\ Warned /\ \A h \in Handlers : Informed(h) /\ Forgotten(h)

\* A step of h leaves the other tasks alone; disturbing them is not excluded.
OthersStay(h) ==
    \A g \in Handlers : g # h => /\ pc'[g] = pc[g] /\ crit'[g] = crit[g]
                                 /\ found'[g] = found[g] /\ loaded'[g] = loaded[g]
                                 /\ g \in disturbed => g \in disturbed'

\* No observed search is stopped.
Kept ==
    /\ DOMAIN rows \subseteq DOMAIN rows'
    /\ \A j \in DOMAIN rows : /\ rows'[j].crit = rows[j].crit
                              /\ rows[j].active /\ rows[j].crit \in Watched => rows'[j].active
    /\ \A j \in DOMAIN rows' \ DOMAIN rows : rows'[j].active

LEMMA OthersFacts ==
  ASSUME IInv, NEW h \in Handlers, NEW p \in Places, Goto(h, p),
         crit' = crit \/ \E c : Hold(h, c),
         found' = found \/ \E f : found' = [found EXCEPT ![h] = f],
         loaded' = loaded \/ Load(h) \/ Forget(h),
         \A g \in Handlers \ {h} : g \in disturbed => g \in disturbed'
  PROVE  OthersStay(h) /\ pc'[h] = p
  <1>1. pc'[h] = p /\ \A g \in Handlers : g # h => pc'[g] = pc[g]
    BY GotoFacts
  <1>2. \A g \in Handlers : g # h => crit'[g] = crit[g] /\ found'[g] = found[g] /\ loaded'[g] = loaded[g]
    BY DEF Hold, Load, Forget, IInv, TypeOK, LoadedOK
  <1>3. QED
    BY <1>1, <1>2 DEF OthersStay

LEMMA LoadedInRows ==
  ASSUME IInv, NEW g \in Handlers
  PROVE  DOMAIN loaded[g] \subseteq DOMAIN rows
  <1>1. DOMAIN rows = 1..Len(rows) /\ Len(rows) \in Nat
    BY LenProperties DEF IInv, TypeOK
  <1>2. loaded[g] \in Seq(BOOLEAN) /\ Len(loaded[g]) <= Len(rows)
    BY DEF IInv, TypeOK, LoadedOK
  <1>3. DOMAIN loaded[g] = 1..Len(loaded[g]) /\ Len(loaded[g]) \in Nat
    BY <1>2, LenProperties
  <1>4. QED
    BY <1>1, <1>2, <1>3

\* The other tasks stay informed as long as nothing observed is stopped.
LEMMA OthersInformed ==
  ASSUME IInv, Watching, NEW h \in Handlers, OthersStay(h), Kept, NEW g \in Handlers, g # h
  PROVE  Informed(g)'
  <1>0. /\ pc'[g] = pc[g] /\ crit'[g] = crit[g] /\ found'[g] = found[g] /\ loaded'[g] = loaded[g]
        /\ g \in disturbed => g \in disturbed'
    BY DEF OthersStay
  <1> SUFFICES ASSUME pc[g] \in Deciding, g \notin disturbed
               PROVE  /\ pc[g] # "load" => Sees(g)'
                      /\ pc[g] = "refuse" /\ ~Inverted(crit[g].min, crit[g].max) /\ crit[g] \in Watched => Live(crit[g])'
                      /\ pc[g] \in {"answer", "commit"} /\ found[g] = 0 /\ crit[g] \in Watched =>
                             /\ ~Overflows(crit[g])
                             /\ \A i \in DOMAIN rows' : rows'[i].crit = crit[g] => rows'[i].active
    BY <1>0 DEF Informed, Overflows, Inverted, Live
  <1>1. Informed(g)
    BY DEF Watching
  <1>2. pc[g] # "load" => Sees(g)'
    BY <1>0, <1>1, LoadedInRows DEF Informed, Sees, Kept
  <1>3. Live(crit[g]) /\ crit[g] \in Watched => Live(crit[g])'
    BY <1>0 DEF Live, Active, Kept
  <1>4. QED
    BY <1>1, <1>2, <1>3 DEF Informed, Kept

\* What has to be shown of a step of task h.
LEMMA WatchingStep ==
  ASSUME IInv, Watching, NEW h \in Handlers, OthersStay(h), Kept, ToldIsWatched',
         \A g \in Handlers : g # h /\ Stopping(g) => rows[found[g]].crit \notin watched',
         watched' \subseteq Watched, Informed(h)', Forgotten(h)',
         Stopping(h)' => \A g \in Handlers : g # h /\ pc[g] \in Deciding => g \in disturbed',
         pc'[h] \in Deciding /\ h \notin disturbed' => \A r \in Handlers : r # h => ~Stopping(r)
  PROVE  Watching'
  <1>1. ASSUME NEW g \in Handlers PROVE Informed(g)'
    BY <1>1, OthersInformed
  <1>2. ASSUME NEW r \in Handlers, r # h, pc[r] \in Removing, found[r] # 0
        PROVE  found[r] \in DOMAIN rows /\ rows'[found[r]].crit = rows[found[r]].crit
    <2>1. found[r] \in DOMAIN rows
      BY <1>2 DEF Removing, IInv, Holdings, Holding
    <2>2. QED
      BY <2>1 DEF Kept
  <1>3. ASSUME NEW r \in Handlers PROVE Forgotten(r)'
    <2>1. CASE r = h
      BY <2>1
    <2>2. CASE r # h
      BY <1>2, <2>2 DEF Forgotten, Stopping, OthersStay
    <2>3. QED
      BY <2>1, <2>2
  <1>4. ASSUME NEW r \in Handlers, NEW g \in Handlers, Stopping(r)', pc'[g] \in Deciding PROVE g \in disturbed'
    <2>1. CASE r = h
      <3>1. g # h
        BY <1>4, <2>1 DEF Stopping, Removing, Deciding
      <3>2. QED
        BY <1>4, <2>1, <3>1 DEF OthersStay
    <2>2. CASE r # h
      <3>1. Stopping(r)
        BY <1>2, <1>4, <2>2 DEF Stopping, OthersStay
      <3>2. QED
        BY <1>4, <2>2, <3>1 DEF OthersStay, Watching, Warned
    <2>3. QED
      BY <2>1, <2>2
  <1>5. QED
    BY <1>1, <1>3, <1>4 DEF Watching, Warned

\* A step after which h neither decides nor stops anything.
LEMMA QuietStep ==
  ASSUME IInv, Watching, NEW h \in Handlers, OthersStay(h), UNCHANGED <<rows, watched>>,
         pc'[h] \notin Deciding \cup Removing
  PROVE  Watching'
  <1>1. Kept /\ ToldIsWatched' /\ watched' \subseteq Watched
    BY DEF Watching, Kept, ToldIsWatched, Active, IInv, TypeOK
  <1>2. Informed(h)' /\ Forgotten(h)' /\ ~Stopping(h)'
    BY DEF Informed, Forgotten, Stopping
  <1>3. \A g \in Handlers : g # h /\ Stopping(g) => rows[found[g]].crit \notin watched'
    BY DEF Watching, Forgotten, Stopping
  <1>4. QED
    BY <1>1, <1>2, <1>3, WatchingStep

LEMMA FinishOthers ==
  ASSUME IInv, NEW h \in Handlers, Finish(h)
  PROVE  OthersStay(h) /\ pc'[h] = "idle" /\ pc'[h] \notin Deciding \cup Removing
  <1>1. "idle" \in Places /\ "idle" \notin Deciding \cup Removing
    BY DEF Places, Deciding, Removing
  <1>2. QED
    BY <1>1, OthersFacts DEF Finish

LEMMA QuietFinish ==
  ASSUME IInv, Watching, NEW h \in Handlers, Finish(h), UNCHANGED <<rows, watched>>
  PROVE  Watching'
  BY FinishOthers, QuietStep

\* A task that has decided tells the user of c as it ends.
LEMMA TellStep ==
  ASSUME IInv, Watching, NEW h \in Handlers, Finish(h), pc[h] \in Deciding, NEW c, Tell(h, c), Kept,
         h \notin disturbed /\ c \in Watched => Live(c)'
  PROVE  Watching'
  <1>1. OthersStay(h) /\ pc'[h] \notin Deciding \cup Removing
    BY FinishOthers
  <1>2. watched' \subseteq Watched /\ watched \subseteq Watched
    BY MyCrit DEF Tell
  <1>3. ToldIsWatched'
    <2>1. ASSUME NEW d \in watched PROVE \E i \in Active' : rows'[i].crit = d
      BY <1>2, <2>1 DEF Watching, ToldIsWatched, Kept, Active
    <2>2. QED
      BY <2>1 DEF Tell, Live, ToldIsWatched
  <1>4. ASSUME NEW g \in Handlers, g # h, Stopping(g) PROVE rows[found[g]].crit \notin watched'
    <2>1. h \in disturbed
      BY <1>4 DEF Watching, Warned
    <2>2. watched' = watched
      BY <2>1 DEF Tell
    <2>3. QED
      BY <1>4, <2>2 DEF Watching, Forgotten, Stopping
  <1>5. Informed(h)' /\ Forgotten(h)' /\ ~Stopping(h)'
    BY <1>1 DEF Informed, Forgotten, Stopping
  <1>6. QED
    BY <1>1, <1>2, <1>3, <1>4, <1>5, WatchingStep

\* A task that decides goes on, or begins to, with the table as it is.
LEMMA DecidingStep ==
  ASSUME IInv, Watching, NEW h \in Handlers, OthersStay(h), UNCHANGED <<rows, watched>>,
         pc'[h] \in Deciding, Informed(h)',
         h \notin disturbed' => h \notin disturbed /\ (pc[h] \in Deciding \/ \A r \in Handlers : ~Stopping(r))
  PROVE  Watching'
  <1>1. Kept /\ ToldIsWatched' /\ watched' \subseteq Watched
    BY DEF Watching, Kept, ToldIsWatched, Active, IInv, TypeOK
  <1>2. Forgotten(h)' /\ ~Stopping(h)'
    BY DEF Forgotten, Stopping, Deciding, Removing
  <1>3. \A g \in Handlers : g # h /\ Stopping(g) => rows[found[g]].crit \notin watched'
    BY DEF Watching, Forgotten, Stopping
  <1>4. h \notin disturbed' => \A r \in Handlers : r # h => ~Stopping(r)
    BY DEF Watching, Warned
  <1>5. QED
    BY <1>1, <1>2, <1>3, <1>4, WatchingStep

LEMMA BeginSaveWatching ==
  ASSUME IInv, Watching, NEW h \in Handlers, pc[h] \in {"save", "customMax"}, NEW m, NEW n, BeginSave(h, m, n)
  PROVE  Watching'
  <1>0. UNCHANGED <<rows, watched>> /\ {"refuse", "find"} \subseteq Places \cap Deciding
    BY DEF BeginSave, Places, Deciding
  <1>1. CASE data.keyword = NoKeyword /\ Finish(h)
    BY <1>0, <1>1, QuietFinish
  <1>2. CASE ~(data.keyword = NoKeyword /\ Finish(h))
    <2> DEFINE c == [keyword |-> data.keyword, min |-> m, max |-> n]
    <2>1. /\ Hold(h, c) /\ UNCHANGED <<found, disturbed>>
          /\ \/ Inverted(m, n) /\ Goto(h, "refuse") /\ Forget(h)
             \/ Goto(h, "find") /\ UNCHANGED loaded
      BY <1>2 DEF BeginSave
    <2>2. crit'[h] = c
      BY <2>1 DEF Hold, IInv, TypeOK
    <2>3. c.min = m /\ c.max = n
      OBVIOUS
    <2> HIDE DEF c
    <2>4. pc[h] \in Deciding /\ Informed(h)
      BY DEF Deciding, Watching
    <2>5. CASE Inverted(m, n) /\ Goto(h, "refuse") /\ Forget(h)
      <3>1. OthersStay(h) /\ pc'[h] = "refuse"
        BY <1>0, <2>1, <2>5, OthersFacts
      <3>2. loaded'[h] = <<>>
        BY <2>5 DEF Forget, IInv, TypeOK, LoadedOK
      <3>3. Informed(h)'
        BY <2>2, <2>3, <2>5, <3>1, <3>2 DEF Informed, Sees, Inverted
      <3>4. QED
        BY <1>0, <2>1, <2>4, <3>1, <3>3, DecidingStep
    <2>6. CASE Goto(h, "find") /\ UNCHANGED loaded
      <3>1. OthersStay(h) /\ pc'[h] = "find"
        BY <1>0, <2>1, <2>6, OthersFacts
      <3>2. h \notin disturbed => Sees(h)
        BY <2>4 DEF Informed
      <3>3. Informed(h)'
        BY <1>0, <2>1, <2>6, <3>1, <3>2 DEF Informed, Sees
      <3>4. QED
        BY <1>0, <2>1, <2>4, <3>1, <3>3, DecidingStep
    <2>7. QED
      BY <2>1, <2>5, <2>6
  <1>3. QED
    BY <1>1, <1>2

LEMMA FindExistingWatching ==
  ASSUME IInv, Watching, NEW h \in Handlers, FindExisting(h)
  PROVE  Watching'
  <1> DEFINE hits == {i \in DOMAIN rows : Same(rows[i].crit, crit[h])}
             live == {i \in hits : SeesActive(h, i)}
  <1>0. /\ pc[h] = "find" /\ UNCHANGED <<rows, watched>> /\ {"refuse", "answer"} \subseteq Places \cap Deciding
        /\ pc[h] \in Deciding
    BY DEF FindExisting, Places, Deciding
  <1>i. h \notin disturbed => Sees(h)
    BY <1>0 DEF Watching, Informed
  <1>1. CASE Finish(h)
    BY <1>0, <1>1, QuietFinish
  <1>2. CASE live # {} /\ Goto(h, "refuse") /\ Forget(h) /\ UNCHANGED <<crit, found, disturbed, dialogue>>
    <2>1. OthersStay(h) /\ pc'[h] = "refuse"
      BY <1>0, <1>2, OthersFacts
    <2>2. loaded'[h] = <<>>
      BY <1>2 DEF Forget, IInv, TypeOK, LoadedOK
    <2>3. h \notin disturbed /\ crit[h] \in Watched => Live(crit[h])
      <3>1. PICK i \in DOMAIN rows : rows[i].crit = crit[h] /\ SeesActive(h, i)
        BY <1>2 DEF Same
      <3>2. QED
        BY <1>i, <3>1 DEF SeesActive, Sees, Live, Active
    <2>4. Informed(h)'
      BY <1>0, <1>2, <2>1, <2>2, <2>3 DEF Informed, Sees, Live, Active
    <2>5. QED
      BY <1>0, <1>2, <2>1, <2>4, DecidingStep
  <1>3. CASE /\ ~Overflows(crit[h])
             /\ \E i \in IF hits = {} THEN {0} ELSE hits \ live : found' = [found EXCEPT ![h] = i]
             /\ Forget(h) /\ Goto(h, "answer") /\ Clear /\ UNCHANGED <<crit, disturbed>>
    <2>1. OthersStay(h) /\ pc'[h] = "answer"
      BY <1>0, <1>3, OthersFacts
    <2>2. loaded'[h] = <<>>
      BY <1>3 DEF Forget, IInv, TypeOK, LoadedOK
    <2>3. found'[h] = 0 => \A i \in DOMAIN rows : rows[i].crit # crit[h]
      <3>1. PICK i \in IF hits = {} THEN {0} ELSE hits \ live : found' = [found EXCEPT ![h] = i]
        BY <1>3
      <3>2. found'[h] = i
        BY <3>1 DEF IInv, TypeOK
      <3>3. DOMAIN rows = 1..Len(rows) /\ Len(rows) \in Nat
        BY LenProperties DEF IInv, TypeOK
      <3>4. CASE hits = {}
        BY <3>4 DEF Same
      <3>5. CASE hits # {}
        <4>1. i \in 1..Len(rows)
          BY <3>1, <3>3, <3>5
        <4>2. QED
          BY <3>2, <3>3, <4>1
      <3>6. QED
        BY <3>4, <3>5
    <2>4. Informed(h)'
      BY <1>0, <1>3, <2>1, <2>2, <2>3 DEF Informed, Sees, Overflows
    <2>5. QED
      BY <1>0, <1>3, <2>1, <2>4, DecidingStep
  <1>4. QED
    BY <1>1, <1>2, <1>3 DEF FindExisting

LEMMA RefuseWatching ==
  ASSUME IInv, Watching, NEW h \in Handlers, Refuse(h)
  PROVE  Watching'
  <1>1. Finish(h) /\ rows' = rows /\ pc[h] = "refuse" /\ pc[h] \in Deciding
    BY DEF Refuse, AnswerFails, Deciding
  <1>2. CASE UNCHANGED watched
    BY <1>1, <1>2, QuietFinish
  <1>3. CASE ~Inverted(crit[h].min, crit[h].max) /\ Tell(h, crit[h])
    <2>1. Kept
      BY <1>1 DEF Kept
    <2>2. h \notin disturbed /\ crit[h] \in Watched => Live(crit[h])
      BY <1>1, <1>3 DEF Watching, Informed
    <2>3. QED
      <3>0. PICK c : c = crit[h]
        OBVIOUS
      <3>1. h \notin disturbed /\ c \in Watched => Live(c)'
        BY <1>1, <2>2, <3>0 DEF Live, Active
      <3>2. Tell(h, c)
        BY <1>3, <3>0
      <3>3. QED
        BY <1>1, <2>1, <3>1, <3>2, TellStep
  <1>4. QED
    BY <1>2, <1>3 DEF Refuse

LEMMA CommitSaveWatching ==
  ASSUME IInv, Watching, NEW h \in Handlers, CommitSave(h)
  PROVE  Watching'
  <1>0. /\ Finish(h) /\ pc[h] = "commit" /\ pc[h] \in Deciding /\ TypeOK
        /\ crit[h] \in Criteria
        /\ found[h] = 0 \/ (found[h] \in DOMAIN rows /\ rows[found[h]].crit = crit[h])
    BY CommitSaveFacts DEF Deciding, Sound, IInv
  <1>c. PICK c : c = crit[h]
    OBVIOUS
  <1>1. CASE UNCHANGED <<rows, watched>>
    BY <1>0, <1>1, QuietFinish
  <1>2. CASE found[h] # 0 /\ rows' = [rows EXCEPT ![found[h]].active = TRUE] /\ Tell(h, crit[h])
    <2>1. /\ DOMAIN rows' = DOMAIN rows
          /\ \A j \in DOMAIN rows : rows'[j].crit = rows[j].crit
          /\ \A j \in DOMAIN rows : rows'[j].active = IF j = found[h] THEN TRUE ELSE rows[j].active
      BY <1>0, <1>2, FlagFacts
    <2>2. Kept
      BY <2>1 DEF Kept
    <2>3. Live(c)'
      <3>1. found[h] \in DOMAIN rows' /\ rows'[found[h]].active /\ rows'[found[h]].crit = c
        BY <1>0, <1>c, <1>2, <2>1
      <3>2. QED
        BY <3>1 DEF Live, Active
    <2>4. QED
      <3>1. Tell(h, c)
        BY <1>c, <1>2
      <3>2. QED
        BY <1>0, <2>2, <2>3, <3>1, TellStep
  <1>3. CASE rows' = Append(rows, [crit |-> crit[h], active |-> TRUE]) /\ Tell(h, crit[h])
    <2>1. [crit |-> crit[h], active |-> TRUE] \in Row /\ [crit |-> crit[h], active |-> TRUE].crit = crit[h]
      BY <1>0, RowFacts
    <2>2. /\ DOMAIN rows' = DOMAIN rows \cup {Len(rows) + 1}
          /\ \A j \in DOMAIN rows : rows'[j] = rows[j]
          /\ rows'[Len(rows) + 1].crit = crit[h] /\ rows'[Len(rows) + 1].active
      BY <1>0, <1>3, <2>1, AppendFacts
    <2>3. Kept
      BY <2>2 DEF Kept
    <2>4. Live(c)'
      BY <1>c, <2>2 DEF Live, Active
    <2>5. Tell(h, c)
      BY <1>c, <1>3
    <2>6. QED
      BY <1>0, <2>3, <2>4, <2>5, TellStep
  <1>4. CASE found[h] = 0 /\ CannotInsert(crit[h]) /\ UNCHANGED rows /\ Tell(h, crit[h])
    <2>1. Kept
      BY <1>4 DEF Kept
    <2>2. ASSUME h \notin disturbed, c \in Watched PROVE Live(c)'
      <3>1. ~Overflows(crit[h]) /\ \A i \in DOMAIN rows : rows[i].crit = crit[h] => rows[i].active
        BY <1>0, <1>c, <1>4, <2>2 DEF Watching, Informed
      <3>2. PICK i \in DOMAIN rows : rows[i].crit = crit[h]
        BY <1>4, <3>1 DEF CannotInsert, ViolatesUnique
      <3>3. QED
        BY <1>c, <1>4, <3>1, <3>2 DEF Live, Active
    <2>3. Tell(h, c)
      BY <1>c, <1>4
    <2>4. QED
      BY <1>0, <2>1, <2>2, <2>3, TellStep
  <1>5. QED
    BY <1>1, <1>2, <1>3, <1>4 DEF CommitSave

LEMMA RemoveButtonWatching ==
  ASSUME IInv, Watching, NEW h \in Handlers, NEW i \in DOMAIN rows, RemoveButton(h, i)
  PROVE  Watching'
  <1>1. /\ "remove" \in Places \cap Removing /\ "remove" \notin Deciding /\ UNCHANGED rows
        /\ watched' = watched \ {rows[i].crit} /\ found' = [found EXCEPT ![h] = i]
        /\ disturbed' = disturbed \cup {g \in Handlers : pc[g] \in Deciding /\ rows[i].crit \in Watched}
    BY DEF RemoveButton, Places, Removing, Deciding
  <1>2. OthersStay(h) /\ pc'[h] = "remove" /\ found'[h] = i
    BY <1>1, OthersFacts DEF RemoveButton, IInv, TypeOK
  <1>3. Kept /\ ToldIsWatched' /\ watched' \subseteq Watched
    BY <1>1 DEF Watching, Kept, ToldIsWatched, Active, IInv, TypeOK
  <1>4. Informed(h)' /\ Forgotten(h)'
    BY <1>1, <1>2 DEF Informed, Forgotten
  <1>5. Stopping(h)' => \A g \in Handlers : g # h /\ pc[g] \in Deciding => g \in disturbed'
    BY <1>1, <1>2 DEF Stopping
  <1>6. \A g \in Handlers : g # h /\ Stopping(g) => rows[found[g]].crit \notin watched'
    BY <1>1 DEF Watching, Forgotten, Stopping
  <1>7. QED
    BY <1>1, <1>2, <1>3, <1>4, <1>5, <1>6, WatchingStep

LEMMA FindToDeleteWatching ==
  ASSUME IInv, Watching, NEW h \in Handlers, FindToDelete(h)
  PROVE  Watching'
  <1>0. pc[h] = "remove" /\ UNCHANGED <<rows, watched>>
    BY DEF FindToDelete
  <1>1. CASE Finish(h)
    BY <1>0, <1>1, QuietFinish
  <1>2. CASE Goto(h, "delete") /\ Forget(h) /\ found' = [found EXCEPT ![h] = IF SeesActive(h, found[h]) THEN found[h] ELSE 0]
             /\ UNCHANGED <<crit, disturbed>>
    <2>1. "delete" \in Places \cap Removing /\ "delete" \notin Deciding /\ pc[h] \in Removing
      BY <1>0 DEF Places, Removing, Deciding
    <2>2. OthersStay(h) /\ pc'[h] = "delete" /\ found'[h] \in {found[h], 0}
      BY <1>2, <2>1, OthersFacts DEF IInv, TypeOK
    <2>3. Kept /\ ToldIsWatched' /\ watched' \subseteq Watched
      BY <1>0 DEF Watching, Kept, ToldIsWatched, Active, IInv, TypeOK
    <2>4. Informed(h)' /\ Forgotten(h)'
      BY <1>0, <2>1, <2>2 DEF Informed, Forgotten, Watching
    <2>5. Stopping(h)' => Stopping(h)
      BY <1>0, <2>1, <2>2 DEF Stopping
    <2>6. Stopping(h)' => \A g \in Handlers : g # h /\ pc[g] \in Deciding => g \in disturbed'
      BY <1>2, <2>5 DEF Watching, Warned
    <2>7. \A g \in Handlers : g # h /\ Stopping(g) => rows[found[g]].crit \notin watched'
      BY <1>0 DEF Watching, Forgotten, Stopping
    <2>8. QED
      BY <2>1, <2>2, <2>3, <2>4, <2>6, <2>7, WatchingStep
  <1>3. QED
    BY <1>1, <1>2 DEF FindToDelete

\* The one step that stops a search: nobody calls it watched any more.
LEMMA CommitDeleteWatching ==
  ASSUME IInv, Watching, NEW h \in Handlers, CommitDelete(h)
  PROVE  Watching'
  <1>0. /\ pc[h] = "delete" /\ pc[h] \in Removing /\ Finish(h) /\ UNCHANGED watched
        /\ found[h] = 0 \/ found[h] \in DOMAIN rows
    BY DEF CommitDelete, Removing, IInv, Holdings, Holding
  <1>1. CASE UNCHANGED rows
    BY <1>0, <1>1, QuietFinish
  <1>2. CASE found[h] # 0 /\ rows' = [rows EXCEPT ![found[h]].active = FALSE]
    <2>1. /\ DOMAIN rows' = DOMAIN rows
          /\ \A j \in DOMAIN rows : rows'[j].crit = rows[j].crit
          /\ \A j \in DOMAIN rows : rows'[j].active = IF j = found[h] THEN FALSE ELSE rows[j].active
      BY <1>0, <1>2, FlagFacts DEF IInv
    <2>2. OthersStay(h) /\ pc'[h] \notin Deciding \cup Removing
      BY <1>0, FinishOthers
    <2>3. rows[found[h]].crit \notin watched
      BY <1>0, <1>2 DEF Watching, Forgotten
    <2>4. ToldIsWatched'
      <3>1. ASSUME NEW d \in watched PROVE \E i \in Active' : rows'[i].crit = d
        <4>1. PICK i \in Active : rows[i].crit = d
          BY DEF Watching, ToldIsWatched
        <4>2. i \in DOMAIN rows /\ rows[i].active /\ i # found[h]
          BY <2>3, <4>1 DEF Active
        <4>3. i \in DOMAIN rows' /\ rows'[i].active /\ rows'[i].crit = d
          BY <2>1, <4>1, <4>2
        <4>4. QED
          BY <4>3 DEF Active
      <3>2. QED
        BY <1>0, <3>1 DEF ToldIsWatched
    <2>5. CASE rows[found[h]].crit \notin Watched
      <3>1. Kept
        BY <2>1, <2>5 DEF Kept
      <3>2. Informed(h)' /\ Forgotten(h)' /\ ~Stopping(h)'
        BY <2>2 DEF Informed, Forgotten, Stopping
      <3>3. \A g \in Handlers : g # h /\ Stopping(g) => rows[found[g]].crit \notin watched'
        BY <1>0 DEF Watching, Forgotten, Stopping
      <3>4. watched' \subseteq Watched
        BY <1>0, MyCrit
      <3>5. QED
        BY <2>2, <2>4, <3>1, <3>2, <3>3, <3>4, WatchingStep
    <2>6. CASE rows[found[h]].crit \in Watched
      <3>1. Stopping(h)
        BY <1>0, <1>2, <2>6 DEF Stopping
      <3>2. \A g \in Handlers : pc'[g] \in Deciding => g \in disturbed'
        BY <2>2, <3>1 DEF Watching, Warned, OthersStay
      <3>3. \A g \in Handlers : Informed(g)'
        BY <3>2 DEF Informed
      <3>4. \A g \in Handlers : pc'[g] \in Removing => pc[g] = pc'[g] /\ found'[g] = found[g] /\ (found[g] # 0 => found[g] \in DOMAIN rows)
        BY <2>2 DEF OthersStay, Removing, IInv, Holdings, Holding
      <3>5. \A g \in Handlers : Forgotten(g)'
        BY <1>0, <2>1, <3>4 DEF Watching, Forgotten
      <3>6. QED
        BY <2>4, <3>2, <3>3, <3>5 DEF Watching, Warned
    <2>7. QED
      BY <2>5, <2>6
  <1>3. QED
    BY <1>1, <1>2 DEF CommitDelete

\* A step of no task.
LEMMA StillWatching ==
  ASSUME Watching, UNCHANGED <<rows, watched, pc, locals, disturbed>>
  PROVE  Watching'
  BY DEF Watching, ToldIsWatched, Active, Informed, Sees, Live, Overflows, Inverted, Forgotten, Warned, Stopping, locals

LEMMA UpdateWatching ==
  ASSUME IInv, Watching, NEW h \in Handlers, Update(h)
  PROVE  Watching'
  <1>p. /\ {"limit", "prompt", "keyword", "customMin"} \subseteq Places \ (Deciding \cup Removing)
        /\ {"load", "max", "customMax", "save", "answer", "commit"} \subseteq Places \cap Deciding
    BY DEF Places, Deciding, Removing
  <1>q. ASSUME NEW p \in {"limit", "prompt", "keyword", "customMin"}, Goto(h, p),
               UNCHANGED <<rows, watched, locals, disturbed>>
        PROVE  Watching'
    <2>1. OthersStay(h) /\ pc'[h] = p
      BY <1>p, <1>q, OthersFacts DEF locals
    <2>2. QED
      BY <1>p, <1>q, <2>1, QuietStep
  <1>d. ASSUME NEW p \in Deciding, Decide(h, p)
        PROVE  /\ Goto(h, p) /\ \A g \in Handlers \ {h} : g \in disturbed => g \in disturbed'
               /\ h \notin disturbed' => h \notin disturbed /\ \A r \in Handlers : ~Stopping(r)
    BY <1>d DEF Decide
  <1>l. ASSUME Load(h), pc'[h] \in {"max", "customMax"}, UNCHANGED rows PROVE Informed(h)'
    <2>1. DOMAIN loaded'[h] = DOMAIN rows /\ \A i \in DOMAIN rows : loaded'[h][i] = rows[i].active
      BY <1>l, MyCrit, LoadFacts
    <2>2. QED
      BY <1>l, <2>1 DEF Informed, Sees
  <1>1. CASE AddCommand(h) \/ KeywordMessage(h) \/ CustomMinMessage(h)
    <2>1. \E p \in {"limit", "prompt", "keyword", "customMin"} : Goto(h, p)
      BY <1>1 DEF AddCommand, KeywordMessage, CustomMinMessage
    <2>2. QED
      BY <1>q, <1>1, <2>1 DEF AddCommand, KeywordMessage, CustomMinMessage
  <1>2. CASE CheckLimit(h)
    <2>1. CASE Finish(h)
      BY <1>2, <2>1, QuietFinish DEF CheckLimit
    <2>2. CASE Goto(h, "prompt") /\ UNCHANGED <<locals, disturbed>>
      BY <1>q, <1>2, <2>2 DEF CheckLimit
    <2>3. QED
      BY <1>2, <2>1, <2>2 DEF CheckLimit
  <1>3. CASE StartAddFlow(h)
    BY <1>3, QuietFinish DEF StartAddFlow, AnswerFails
  <1>4. CASE \E k \in Keywords : ProcessKeyword(h, k)
    BY <1>4, QuietFinish DEF ProcessKeyword
  <1>5. CASE \E raw \in MinPrices \cup {0} : ProcessCustomMin(h, raw)
    BY <1>5, QuietFinish DEF ProcessCustomMin
  <1>6. CASE \/ \E v \in MinLimits \ TooLarge : PriceMinButton(h, v)
             \/ \E state \in {"customMin", "customMax"} : CustomButton(h, state)
             \/ CancelAdd(h)
    BY <1>6, StillWatching DEF PriceMinButton, CustomButton, CancelAdd, NoTask, tasks
  <1>7. CASE PriceMaxButton(h)
    <2>1. OthersStay(h) /\ pc'[h] = "max"
      BY <1>p, <1>d, <1>7, OthersFacts DEF PriceMaxButton
    <2>2. QED
      BY <1>p, <1>d, <1>l, <1>7, <2>1, DecidingStep DEF PriceMaxButton
  <1>8. CASE CustomMaxMessage(h)
    <2>1. OthersStay(h) /\ pc'[h] = "load"
      BY <1>p, <1>d, <1>8, OthersFacts DEF CustomMaxMessage, locals
    <2>2. Informed(h)'
      BY <2>1 DEF Informed
    <2>3. QED
      BY <1>p, <1>d, <1>8, <2>1, <2>2, DecidingStep DEF CustomMaxMessage
  <1>9. CASE LoadForMax(h)
    <2>1. OthersStay(h) /\ pc'[h] = "customMax"
      BY <1>p, <1>9, OthersFacts DEF LoadForMax
    <2>2. QED
      BY <1>p, <1>l, <1>9, <2>1, DecidingStep DEF LoadForMax
  <1>10. CASE \E raw \in MaxPrices \cup {0} : ProcessCustomMax(h, raw)
    BY <1>10, BeginSaveWatching DEF ProcessCustomMax
  <1>11. CASE \E v \in MaxLimits \ TooLarge : ReadMin(h, v)
    <2>1. PICK v : ReadMin(h, v)
      BY <1>11
    <2>2. CASE AnswerFails(h)
      BY <2>1, <2>2, QuietFinish DEF ReadMin, AnswerFails
    <2>3. CASE /\ Goto(h, "save") /\ Hold(h, [Blank EXCEPT !.min = data.min, !.max = v])
               /\ UNCHANGED <<found, loaded, disturbed>>
      <3>1. OthersStay(h) /\ pc'[h] = "save"
        BY <1>p, <2>3, OthersFacts
      <3>2. pc[h] = "max" /\ pc[h] \in Deciding /\ (h \notin disturbed => Sees(h)) /\ UNCHANGED <<rows, watched>>
        BY <1>p, <2>1 DEF ReadMin, Watching, Informed
      <3>3. Informed(h)'
        BY <2>3, <3>1, <3>2 DEF Informed, Sees
      <3>4. QED
        BY <1>p, <2>3, <3>1, <3>2, <3>3, DecidingStep
    <2>4. QED
      BY <2>1, <2>2, <2>3 DEF ReadMin
  <1>12. CASE SaveAfterButton(h)
    BY <1>12, BeginSaveWatching, QuietFinish DEF SaveAfterButton, AnswerFails
  <1>13. CASE Announce(h)
    <2>1. CASE AnswerFails(h)
      BY <1>13, <2>1, QuietFinish DEF Announce, AnswerFails
    <2>2. CASE Goto(h, "commit") /\ UNCHANGED <<locals, disturbed>>
      <3>1. OthersStay(h) /\ pc'[h] = "commit"
        BY <1>p, <2>2, OthersFacts DEF locals
      <3>2. pc[h] = "answer" /\ pc[h] \in Deciding /\ Informed(h) /\ UNCHANGED <<rows, watched>>
        BY <1>p, <1>13 DEF Announce, Watching
      <3>3. Informed(h)'
        BY <2>2, <3>1, <3>2 DEF Informed, Sees, Overflows, locals
      <3>4. QED
        BY <1>p, <2>2, <3>1, <3>2, <3>3, DecidingStep
    <2>3. QED
      BY <1>13, <2>1, <2>2 DEF Announce
  <1>14. CASE FindExisting(h) \/ Refuse(h) \/ CommitSave(h) \/ FindToDelete(h) \/ CommitDelete(h)
    BY <1>14, FindExistingWatching, RefuseWatching, CommitSaveWatching, FindToDeleteWatching, CommitDeleteWatching
  <1>15. CASE \E i \in DOMAIN rows : RemoveButton(h, i)
    BY <1>15, RemoveButtonWatching
  <1>16. QED
    BY <1>1, <1>2, <1>3, <1>4, <1>5, <1>6, <1>7, <1>8, <1>9, <1>10, <1>11, <1>12, <1>13, <1>14, <1>15 DEF Update

LEMMA NextWatching == IInv /\ Watching /\ [Next]_vars => Watching'
  <1> SUFFICES ASSUME IInv, Watching, [Next]_vars PROVE Watching'
    OBVIOUS
  <1>1. CASE PremiumChanges \/ UNCHANGED vars
    BY <1>1, StillWatching DEF PremiumChanges, vars, tasks
  <1>2. CASE Restart
    <2>1. /\ UNCHANGED <<rows, watched>>
          /\ \A h \in Handlers : pc'[h] \notin Deciding \cup Removing
      BY <1>2 DEF Restart, Deciding, Removing
    <2>2. QED
      BY <2>1 DEF Watching, ToldIsWatched, Active, Warned, Stopping, Informed, Forgotten
  <1>3. ASSUME NEW h \in Handlers, Update(h) PROVE Watching'
    BY <1>3, UpdateWatching
  <1>4. QED
    BY <1>1, <1>2, <1>3 DEF Next

LEMMA InitWatching == Init => Watching
  BY DEF Init, Watching, ToldIsWatched, Warned, Stopping, Informed, Forgotten, Deciding, Removing

----------------------------------------------------------------------------
(* One update at a time.                                                   *)

\* A task on its way to a new or restored search.
Saving == {"prompt", "keyword", "find", "answer", "commit"}

HasRoom == ~limited \/ Cardinality(Active) < FreeLimit
Within == ~limited \/ Cardinality(Active) <= FreeLimit

\* As long as updates came one at a time there is one task at the most, and
\* a dialogue that may still lead to a search has room for it; the dialogue of
\* a search that is about to be saved is over, and if the search is to be
\* inserted it is not there yet.
OneTask == \A g, h \in Handlers : pc[g] # "idle" /\ pc[h] # "idle" => g = h
Roomy == fsm = "keyword" \/ data.keyword # NoKeyword \/ (\E h \in Handlers : pc[h] \in Saving) => HasRoom
NewCriteria ==
    \A h \in Handlers : pc[h] \in {"answer", "commit"} /\ found[h] = 0
                            => \A i \in DOMAIN rows : rows[i].crit # crit[h]
Cleared == \A h \in Handlers : pc[h] \in {"answer", "commit"} => fsm # "keyword" /\ data.keyword = NoKeyword
Distinct == \A i, j \in DOMAIN rows : rows[i].crit = rows[j].crit => i = j

Solo ==
    /\ limited => alone /\ ~premium
    /\ alone => OneTask /\ Within /\ Roomy /\ Cleared /\ NewCriteria /\ Distinct

LEMMA ActiveFinite ==
  ASSUME TypeOK
  PROVE  IsFiniteSet(Active) /\ Cardinality(Active) \in Nat /\ FreeLimit \in Nat
  <1>1. DOMAIN rows = 1..Len(rows) /\ Len(rows) \in Nat
    BY LenProperties DEF TypeOK
  <1>2. IsFiniteSet(1..Len(rows)) /\ Active \subseteq 1..Len(rows)
    BY <1>1, FS_Interval DEF Active
  <1>3. QED
    BY <1>2, FS_Subset, FS_CardinalityType, SearchFlowAssumption DEF SearchFlowAssumption

\* While alone holds, a step of one task finds the others idle.
LEMMA AloneFacts ==
  ASSUME IInv, NEW h \in Handlers, NEW p \in Places, Goto(h, p), alone'
  PROVE  /\ alone /\ limited' = limited /\ pc'[h] = p
         /\ \A g \in Handlers : g # h => pc[g] = "idle" /\ pc'[g] = "idle"
  <1>1. alone /\ limited' = limited /\ \A g \in Handlers \ {h} : pc[g] = "idle"
    BY DEF Goto, IInv, TypeOK
  <1>2. QED
    BY <1>1, GotoFacts

\* A task goes to p, and the table stays.
LEMMA SoloStep ==
  ASSUME IInv, Solo, NEW h \in Handlers, NEW p \in Places, Goto(h, p), UNCHANGED <<rows, premium>>,
         alone => (fsm' = "keyword" \/ data'.keyword # NoKeyword \/ p \in Saving => HasRoom),
         alone => (p \in {"answer", "commit"} =>
                       /\ fsm' # "keyword" /\ data'.keyword = NoKeyword
                       /\ found'[h] # 0 \/ \A i \in DOMAIN rows : rows[i].crit # crit'[h])
  PROVE  Solo'
  <1> SUFFICES ASSUME alone' PROVE OneTask' /\ Within' /\ Roomy' /\ Cleared' /\ NewCriteria' /\ Distinct'
    BY DEF Solo, Goto
  <1>1. alone /\ limited' = limited /\ pc'[h] = p /\ \A g \in Handlers : g # h => pc'[g] = "idle"
    BY AloneFacts
  <1>2. OneTask'
    BY <1>1 DEF OneTask
  <1>3. HasRoom' = HasRoom /\ Within' /\ Distinct'
    BY <1>1 DEF Solo, HasRoom, Within, Distinct, Active
  <1>4. Roomy'
    BY <1>1, <1>3 DEF Roomy, Saving
  <1>5. NewCriteria' /\ Cleared'
    BY <1>1 DEF NewCriteria, Cleared
  <1>6. QED
    BY <1>2, <1>3, <1>4, <1>5

\* A task that ends without touching the table, and starts no dialogue.
LEMMA SoloFinish ==
  ASSUME IInv, Solo, NEW h \in Handlers, Finish(h), UNCHANGED <<rows, premium>>,
         alone => (fsm' = "keyword" \/ data'.keyword # NoKeyword => HasRoom)
  PROVE  Solo'
  BY SoloStep DEF Finish, Places, Saving

\* A step without a task.
LEMMA SoloDialogue ==
  ASSUME Solo, UNCHANGED <<rows, premium, tasks>>, fsm' # "keyword" \/ fsm' = fsm,
         data'.keyword = NoKeyword \/ data'.keyword = data.keyword
  PROVE  Solo'
  <1> SUFFICES ASSUME alone' PROVE OneTask' /\ Within' /\ Roomy' /\ Cleared' /\ NewCriteria' /\ Distinct'
    BY DEF Solo, tasks
  <1>1. alone /\ OneTask' /\ Within' /\ NewCriteria' /\ Distinct' /\ HasRoom' = HasRoom
    BY DEF Solo, OneTask, Within, NewCriteria, Distinct, HasRoom, Active, tasks, locals
  <1>2. Roomy' /\ Cleared'
    BY <1>1 DEF Solo, Roomy, Cleared, tasks
  <1>3. QED
    BY <1>1, <1>2

\* What Solo says of a dialogue.
LEMMA RoomFacts ==
  ASSUME Solo, alone
  PROVE  /\ fsm = "keyword" \/ data.keyword # NoKeyword => HasRoom
         /\ \A h \in Handlers : pc[h] \in Saving => HasRoom
  BY DEF Solo, Roomy

LEMMA SoloBeginSave ==
  ASSUME IInv, Solo, NEW h \in Handlers, NEW m, NEW n, BeginSave(h, m, n)
  PROVE  Solo'
  <1>1. CASE data.keyword = NoKeyword /\ Finish(h)
    BY <1>1, RoomFacts, SoloFinish DEF BeginSave, dialogue
  <1>2. CASE ~(data.keyword = NoKeyword /\ Finish(h))
    <2>1. /\ data.keyword # NoKeyword /\ UNCHANGED <<rows, premium, dialogue>>
          /\ \E p \in {"refuse", "find"} : Goto(h, p)
      BY <1>2 DEF BeginSave
    <2>2. QED
      BY <2>1, RoomFacts, SoloStep DEF Places, Deciding, Saving, dialogue
  <1>3. QED
    BY <1>1, <1>2

LEMMA Smaller ==
  ASSUME NEW S, IsFiniteSet(S), NEW T \in SUBSET S, NEW k \in Nat
  PROVE  (Cardinality(S) < k => Cardinality(T) < k) /\ (Cardinality(S) <= k => Cardinality(T) <= k)
  <1>1. IsFiniteSet(T) /\ Cardinality(T) <= Cardinality(S)
    BY FS_Subset
  <1>2. Cardinality(T) \in Nat /\ Cardinality(S) \in Nat
    BY <1>1, FS_CardinalityType
  <1>3. QED
    BY <1>1, <1>2

LEMMA OneLarger ==
  ASSUME NEW S, IsFiniteSet(S), NEW x, NEW k \in Nat, Cardinality(S) < k
  PROVE  Cardinality(S \cup {x}) <= k
  <1>1. Cardinality(S) \in Nat /\ Cardinality(S \cup {x}) = IF x \in S THEN Cardinality(S) ELSE Cardinality(S) + 1
    BY FS_AddElement, FS_CardinalityType
  <1>2. QED
    BY <1>1

\* At most one search more, and never twice the same.
LEMMA SoloCommitSave ==
  ASSUME IInv, Solo, NEW h \in Handlers, CommitSave(h)
  PROVE  Solo'
  <1> SUFFICES ASSUME alone' PROVE OneTask' /\ Within' /\ Roomy' /\ Cleared' /\ NewCriteria' /\ Distinct'
    BY DEF Solo, CommitSave, Finish, Goto
  <1>1. Goto(h, "idle") /\ "idle" \in Places /\ pc[h] = "commit" /\ UNCHANGED <<premium, fsm, data>>
    BY DEF CommitSave, Finish, Places, dialogue
  <1>2. alone /\ limited' = limited /\ \A g \in Handlers : pc'[g] = "idle"
    BY <1>1, AloneFacts
  <1>3. OneTask' /\ NewCriteria' /\ Cleared'
    BY <1>2 DEF OneTask, NewCriteria, Cleared
  <1>4. HasRoom /\ Distinct /\ Within /\ NewCriteria
    BY <1>1, <1>2, RoomFacts DEF Solo, Saving
  <1>5. Roomy'
    BY <1>1, <1>2 DEF Solo, Cleared, Roomy, Saving
  <1>t. /\ TypeOK /\ rows \in Seq(Row) /\ Len(rows) \in Nat /\ DOMAIN rows = 1..Len(rows)
        /\ found[h] = 0 \/ (found[h] \in DOMAIN rows /\ rows[found[h]].crit = crit[h])
        /\ crit[h] \in Criteria
    BY <1>1, LenProperties DEF IInv, TypeOK, Row, Holdings, Holding, Sound
  <1>6. ASSUME NEW x, Active' \subseteq Active \cup {x} PROVE Within'
    <2>1. CASE ~limited
      BY <1>2, <2>1 DEF Within
    <2>2. CASE Cardinality(Active) < FreeLimit
      <3>1. Cardinality(Active \cup {x}) <= FreeLimit
        BY <1>t, <2>2, ActiveFinite, OneLarger
      <3>2. IsFiniteSet(Active \cup {x})
        BY <1>t, ActiveFinite, FS_AddElement
      <3>3. Cardinality(Active') <= FreeLimit
        BY <1>6, <1>t, <3>1, <3>2, ActiveFinite, Smaller
      <3>4. QED
        BY <3>3 DEF Within
    <2>3. QED
      BY <1>4, <2>1, <2>2 DEF HasRoom
  <1>7. CASE found[h] # 0 /\ rows' = [rows EXCEPT ![found[h]].active = TRUE]
    <2>1. /\ DOMAIN rows' = DOMAIN rows
          /\ \A j \in DOMAIN rows : rows'[j].crit = rows[j].crit
          /\ \A j \in DOMAIN rows : rows'[j].active = IF j = found[h] THEN TRUE ELSE rows[j].active
      BY <1>7, <1>t, FlagFacts
    <2>2. Active' \subseteq Active \cup {found[h]}
      BY <2>1 DEF Active
    <2>3. Distinct'
      BY <1>4, <2>1 DEF Distinct
    <2>4. QED
      BY <1>3, <1>5, <1>6, <2>2, <2>3
  <1>8. CASE found[h] = 0 /\ rows' = Append(rows, [crit |-> crit[h], active |-> TRUE])
    <2>1. [crit |-> crit[h], active |-> TRUE] \in Row /\ [crit |-> crit[h], active |-> TRUE].crit = crit[h]
      BY <1>t, RowFacts
    <2>2. /\ DOMAIN rows' = DOMAIN rows \cup {Len(rows) + 1}
          /\ \A j \in DOMAIN rows : rows'[j] = rows[j]
          /\ rows'[Len(rows) + 1].crit = crit[h]
      BY <1>8, <1>t, <2>1, AppendFacts
    <2>3. Active' \subseteq Active \cup {Len(rows) + 1}
      BY <2>2 DEF Active
    <2>4. \A i \in DOMAIN rows : rows[i].crit # crit[h]
      BY <1>1, <1>4, <1>8 DEF NewCriteria
    <2>5. Distinct'
      BY <1>4, <2>2, <2>4 DEF Distinct
    <2>6. QED
      BY <1>3, <1>5, <1>6, <2>3, <2>5
  <1>9. CASE UNCHANGED rows
    <2>1. Within' /\ Distinct'
      BY <1>2, <1>4, <1>9 DEF Within, Distinct, Active
    <2>2. QED
      BY <1>3, <1>5, <2>1
  <1>10. QED
    BY <1>7, <1>8, <1>9 DEF CommitSave

LEMMA SoloCommitDelete ==
  ASSUME IInv, Solo, NEW h \in Handlers, CommitDelete(h)
  PROVE  Solo'
  <1>0. /\ Finish(h) /\ UNCHANGED <<premium, fsm, data>> /\ pc[h] = "delete"
        /\ TypeOK /\ (found[h] = 0 \/ found[h] \in DOMAIN rows)
    BY DEF CommitDelete, dialogue, IInv, Holdings, Holding
  <1>1. CASE found[h] # 0 /\ rows' = [rows EXCEPT ![found[h]].active = FALSE]
    <2> SUFFICES ASSUME alone' PROVE OneTask' /\ Within' /\ Roomy' /\ Cleared' /\ NewCriteria' /\ Distinct'
      BY <1>0 DEF Solo, Finish, Goto
    <2>1. alone /\ limited' = limited /\ \A g \in Handlers : pc'[g] = "idle"
      BY <1>0, AloneFacts DEF Finish, Places
    <2>2. /\ DOMAIN rows' = DOMAIN rows
          /\ \A j \in DOMAIN rows : rows'[j].crit = rows[j].crit
          /\ \A j \in DOMAIN rows : rows'[j].active = IF j = found[h] THEN FALSE ELSE rows[j].active
      BY <1>0, <1>1, FlagFacts
    <2>3. Active' \subseteq Active
      BY <2>2 DEF Active
    <2>4. (HasRoom => HasRoom') /\ (Within => Within')
      <3>1. /\ Cardinality(Active) < FreeLimit => Cardinality(Active') < FreeLimit
            /\ Cardinality(Active) <= FreeLimit => Cardinality(Active') <= FreeLimit
        BY <1>0, <2>3, ActiveFinite, Smaller
      <3>2. QED
        BY <2>1, <3>1 DEF HasRoom, Within
    <2>5. OneTask' /\ NewCriteria' /\ Cleared'
      BY <2>1 DEF OneTask, NewCriteria, Cleared
    <2>6. Distinct' /\ Within'
      BY <2>1, <2>2, <2>4 DEF Solo, Distinct
    <2>7. Roomy'
      BY <1>0, <2>1, <2>4 DEF Solo, Roomy, Saving
    <2>8. QED
      BY <2>5, <2>6, <2>7
  <1>2. CASE UNCHANGED rows
    BY <1>0, <1>2, RoomFacts, SoloFinish
  <1>3. QED
    BY <1>1, <1>2 DEF CommitDelete

LEMMA SoloFindExisting ==
  ASSUME IInv, Solo, NEW h \in Handlers, FindExisting(h)
  PROVE  Solo'
  <1> DEFINE hits == {i \in DOMAIN rows : Same(rows[i].crit, crit[h])}
             live == {i \in hits : SeesActive(h, i)}
  <1>0. pc[h] = "find" /\ UNCHANGED <<rows, premium>> /\ found[h] \in 0..MaxRows /\ found \in [Handlers -> 0..MaxRows]
    BY DEF FindExisting, IInv, TypeOK
  <1>m. {"refuse", "answer"} \subseteq Places
    BY DEF Places, Deciding
  <1>r. /\ alone => HasRoom
        /\ alone => (fsm = "keyword" \/ data.keyword # NoKeyword => HasRoom)
    BY <1>0, RoomFacts DEF Saving
  <1>1. CASE Finish(h) /\ UNCHANGED dialogue
    BY <1>0, <1>r, <1>1, SoloFinish DEF dialogue
  <1>2. CASE Goto(h, "refuse") /\ UNCHANGED <<crit, found, disturbed, dialogue>>
    BY <1>0, <1>m, <1>r, <1>2, SoloStep DEF dialogue, Saving
  <1>3. CASE /\ \E i \in IF hits = {} THEN {0} ELSE hits \ live : found' = [found EXCEPT ![h] = i]
             /\ Goto(h, "answer") /\ Clear /\ UNCHANGED <<crit, disturbed>>
    <2>1. PICK i \in IF hits = {} THEN {0} ELSE hits \ live : found' = [found EXCEPT ![h] = i]
      BY <1>3
    <2>2. found'[h] = i
      BY <1>0, <2>1
    <2>3. CASE hits = {}
      <3>1. \A j \in DOMAIN rows : rows[j].crit # crit'[h]
        BY <1>3, <2>3 DEF Same
      <3>2. fsm' # "keyword" /\ data'.keyword = NoKeyword
        BY <1>3 DEF Clear, Empty
      <3>3. QED
        BY <1>0, <1>m, <1>r, <1>3, <3>1, <3>2, SoloStep
    <2>4. CASE hits # {}
      <3>1. DOMAIN rows = 1..Len(rows) /\ Len(rows) \in Nat
        BY LenProperties DEF IInv, TypeOK
      <3>2. i \in 1..Len(rows)
        BY <2>1, <2>4, <3>1
      <3>3. found'[h] # 0
        BY <2>2, <3>1, <3>2
      <3>4. fsm' # "keyword" /\ data'.keyword = NoKeyword
        BY <1>3 DEF Clear, Empty
      <3>5. QED
        BY <1>0, <1>m, <1>r, <1>3, <3>3, <3>4, SoloStep
    <2>5. QED
      BY <2>3, <2>4
  <1>4. QED
    BY <1>1, <1>2, <1>3 DEF FindExisting

LEMMA InitSolo == Init => Solo
  <1> SUFFICES ASSUME Init PROVE Solo
    OBVIOUS
  <1>1. DOMAIN rows = {} /\ Active = {}
    BY DEF Init, Active
  <1>2. Cardinality(Active) = 0 /\ FreeLimit \in Nat
    BY <1>1, FS_EmptySet, SearchFlowAssumption DEF SearchFlowAssumption
  <1>3. Within
    BY <1>2 DEF Within
  <1>4. QED
    BY <1>1, <1>3 DEF Init, Solo, OneTask, Roomy, Cleared, NewCriteria, Distinct, Saving, Empty

LEMMA UpdateSolo ==
  ASSUME IInv, Solo, NEW h \in Handlers, Update(h)
  PROVE  Solo'
  <1>p. {"idle", "limit", "prompt", "keyword", "customMin", "customMax", "load", "max", "save", "commit", "remove", "delete"}
            \subseteq Places
    BY DEF Places, Deciding, Removing
  <1>r. /\ alone => (fsm = "keyword" \/ data.keyword # NoKeyword => HasRoom)
        /\ alone => (pc[h] \in Saving => HasRoom)
    BY RoomFacts
  <1>d. data \in DataSet
    BY MyCrit
  <1>1. CASE AddCommand(h)
    <2>1. Goto(h, IF premium THEN "prompt" ELSE "limit") /\ UNCHANGED <<rows, premium, fsm, data>>
      BY <1>1 DEF AddCommand, dialogue
    <2>2. CASE premium
      <3>1. HasRoom
        BY <2>2 DEF Solo, HasRoom
      <3>2. QED
        BY <1>p, <2>1, <2>2, <3>1, SoloStep
    <2>3. CASE ~premium
      BY <1>p, <1>r, <2>1, <2>3, SoloStep DEF Saving
    <2>4. QED
      BY <2>2, <2>3
  <1>2. CASE CheckLimit(h)
    <2>1. CASE Full /\ Finish(h)
      BY <1>r, <1>2, <2>1, SoloFinish DEF CheckLimit, dialogue
    <2>2. CASE ~Full /\ Goto(h, "prompt")
      <3>1. HasRoom
        BY <2>2, ActiveFinite DEF IInv, Full, HasRoom
      <3>2. QED
        BY <1>p, <1>2, <2>2, <3>1, SoloStep DEF CheckLimit, dialogue
    <2>3. QED
      BY <1>2, <2>1, <2>2 DEF CheckLimit
  <1>3. CASE StartAddFlow(h)
    <2>1. alone => HasRoom
      BY <1>r, <1>3 DEF StartAddFlow, Saving
    <2>2. QED
      BY <1>3, <2>1, SoloFinish DEF StartAddFlow, AnswerFails
  <1>4. CASE KeywordMessage(h)
    BY <1>p, <1>r, <1>4, SoloStep DEF KeywordMessage, dialogue
  <1>5. ASSUME NEW k, ProcessKeyword(h, k) PROVE Solo'
    BY <1>r, <1>5, SoloFinish DEF ProcessKeyword, Saving
  <1>6. ASSUME NEW v, PriceMinButton(h, v) PROVE Solo'
    BY <1>d, <1>6, SoloDialogue DEF PriceMinButton, NoTask, DataSet
  <1>7. CASE PriceMaxButton(h)
    BY <1>p, <1>r, <1>7, SoloStep DEF PriceMaxButton, Decide, dialogue, Saving
  <1>8. ASSUME NEW state \in {"customMin", "customMax"}, CustomButton(h, state) PROVE Solo'
    BY <1>8, SoloDialogue DEF CustomButton, NoTask
  <1>9. CASE CustomMinMessage(h)
    BY <1>p, <1>r, <1>9, SoloStep DEF CustomMinMessage, dialogue, Saving
  <1>10. CASE CustomMaxMessage(h)
    BY <1>p, <1>r, <1>10, SoloStep DEF CustomMaxMessage, Decide, dialogue, Saving
  <1>11. ASSUME NEW raw, ProcessCustomMin(h, raw) PROVE Solo'
    <2>1. fsm' = fsm /\ data'.keyword = data.keyword
      BY <1>d, <1>11 DEF ProcessCustomMin, DataSet
    <2>2. QED
      BY <1>r, <1>11, <2>1, SoloFinish DEF ProcessCustomMin
  <1>12. ASSUME NEW raw, ProcessCustomMax(h, raw) PROVE Solo'
    BY <1>12, SoloBeginSave DEF ProcessCustomMax
  <1>l. CASE LoadForMax(h)
    BY <1>p, <1>r, <1>l, SoloStep DEF LoadForMax, dialogue, Saving
  <1>n. ASSUME NEW v, ReadMin(h, v) PROVE Solo'
    <2>1. CASE AnswerFails(h)
      BY <1>r, <1>n, <2>1, SoloFinish DEF ReadMin, AnswerFails, dialogue
    <2>2. CASE Goto(h, "save")
      BY <1>p, <1>r, <1>n, <2>2, SoloStep DEF ReadMin, dialogue, Saving
    <2>3. QED
      BY <1>n, <2>1, <2>2 DEF ReadMin
  <1>13. CASE SaveAfterButton(h)
    <2>1. CASE BeginSave(h, crit[h].min, crit[h].max)
      BY <2>1, SoloBeginSave
    <2>2. CASE AnswerFails(h) /\ UNCHANGED <<rows, watched, premium, dialogue>>
      BY <1>r, <2>2, SoloFinish DEF AnswerFails, dialogue
    <2>3. QED
      BY <1>13, <2>1, <2>2 DEF SaveAfterButton
  <1>14. CASE FindExisting(h) \/ CommitSave(h) \/ CommitDelete(h)
    BY <1>14, SoloFindExisting, SoloCommitSave, SoloCommitDelete
  <1>15. CASE Refuse(h)
    BY <1>r, <1>15, SoloFinish DEF Refuse, AnswerFails, Clear, Empty, dialogue
  <1>16. CASE Announce(h)
    <2>1. CASE Goto(h, "commit") /\ UNCHANGED <<locals, disturbed>>
      <3>1. alone => /\ fsm # "keyword" /\ data.keyword = NoKeyword
                     /\ found[h] # 0 \/ \A i \in DOMAIN rows : rows[i].crit # crit[h]
        BY <1>16 DEF Announce, Solo, Cleared, NewCriteria
      <3>2. alone => HasRoom
        BY <1>r, <1>16 DEF Announce, Saving
      <3>3. QED
        BY <1>p, <1>16, <2>1, <3>1, <3>2, SoloStep DEF Announce, dialogue, locals
    <2>2. CASE AnswerFails(h)
      BY <1>r, <1>16, <2>2, SoloFinish DEF Announce, AnswerFails, dialogue
    <2>3. QED
      BY <1>16, <2>1, <2>2 DEF Announce
  <1>17. CASE CancelAdd(h)
    BY <1>17, SoloDialogue DEF CancelAdd, NoTask, Clear, Empty
  <1>18. ASSUME NEW i \in DOMAIN rows, RemoveButton(h, i) PROVE Solo'
    BY <1>p, <1>r, <1>18, SoloStep DEF RemoveButton, dialogue, Saving
  <1>f. CASE FindToDelete(h)
    <2>1. CASE Finish(h)
      BY <1>r, <1>f, <2>1, SoloFinish DEF FindToDelete, dialogue
    <2>2. CASE Goto(h, "delete")
      BY <1>p, <1>r, <1>f, <2>2, SoloStep DEF FindToDelete, dialogue, Saving
    <2>3. QED
      BY <1>f, <2>1, <2>2 DEF FindToDelete
  <1>19. QED
    BY <1>1, <1>2, <1>3, <1>4, <1>5, <1>6, <1>7, <1>8, <1>9, <1>10, <1>11, <1>12, <1>l, <1>n, <1>13, <1>14,
       <1>15, <1>16, <1>17, <1>18, <1>f DEF Update

LEMMA NextSolo == IInv /\ Solo /\ [Next]_vars => Solo'
  <1> SUFFICES ASSUME IInv, Solo, [Next]_vars PROVE Solo'
    OBVIOUS
  <1>1. CASE PremiumChanges
    <2>1. ~limited' /\ UNCHANGED <<rows, fsm, data, pc, crit, found, alone>>
      BY <1>1 DEF PremiumChanges, dialogue, locals
    <2>2. QED
      BY <2>1 DEF Solo, OneTask, Within, Roomy, HasRoom, Cleared, NewCriteria, Distinct
  <1>2. CASE Restart
    <2>1. /\ UNCHANGED <<rows, premium, limited, alone>> /\ fsm' = "none" /\ data'.keyword = NoKeyword
          /\ \A h \in Handlers : pc'[h] = "idle"
      BY <1>2 DEF Restart, Clear, Empty
    <2>2. OneTask' /\ Roomy' /\ Cleared' /\ NewCriteria'
      BY <2>1 DEF OneTask, Roomy, Cleared, NewCriteria, Saving
    <2>3. QED
      BY <2>1, <2>2 DEF Solo, Within, Distinct, Active
  <1>3. ASSUME NEW h \in Handlers, Update(h) PROVE Solo'
    BY <1>3, UpdateSolo
  <1>4. CASE UNCHANGED vars
    BY <1>4, SoloDialogue DEF vars, dialogue
  <1>5. QED
    BY <1>1, <1>2, <1>3, <1>4 DEF Next

----------------------------------------------------------------------------
(* The results.                                                            *)

\* Every variable keeps its type, whatever button is pressed when.
THEOREM TypeCorrect == Spec => []TypeOK
  BY Invariance, PTL DEF IInv

\* No interleaving of buttons and messages stores an inverted range.
THEOREM PriceRangeValidAlways == Spec => []PriceRangeValid
  <1>1. IInv => PriceRangeValid
    BY DEF IInv, Ranges, Sound, Inverted, PriceRangeValid
  <1>2. QED
    BY <1>1, Invariance, PTL

\* What the user was told is watched is watched until the user stops it, for
\* any set of observed criteria and however updates, stale rows, refused
\* inserts and restarts interleave.
THEOREM ToldIsWatchedAlways == Spec => []ToldIsWatched
  <1>1. Spec => []Watching
    BY Invariance, InitWatching, NextWatching, PTL DEF Spec
  <1>2. Watching => ToldIsWatched
    BY DEF Watching
  <1>3. QED
    BY <1>1, <1>2, PTL

LEMMA SoloInvariance == Spec => []Solo
  BY Invariance, InitSolo, NextSolo, PTL DEF Spec

\* Updates that come one at a time keep the free limit, although it is checked
\* when a dialogue begins and the row is written when it ends.
THEOREM LimitKeptWhenAloneAlways == Spec => []LimitKeptWhenAlone
  <1>1. Solo => LimitKeptWhenAlone
    BY DEF Solo, Within, LimitKeptWhenAlone
  <1>2. QED
    BY <1>1, SoloInvariance, PTL

\* Updates that come one at a time store no criteria twice, unset prices
\* included, which the constraint does not see.
THEOREM NoDuplicateWhenAloneAlways == Spec => []NoDuplicateWhenAlone
  <1>1. Solo => NoDuplicateWhenAlone
    BY DEF Solo, Distinct, NoDuplicateWhenAlone
  <1>2. QED
    BY <1>1, SoloInvariance, PTL

=============================================================================
