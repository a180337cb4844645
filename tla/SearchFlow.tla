----------------------------- MODULE SearchFlow -----------------------------
(***************************************************************************)
(* How a user of the bot adds and removes searches (bot/app/handlers/      *)
(* search.py).  The dialogue lives in the FSM storage, in memory; the rows *)
(* of table searches in the database.  Every update is a task of its own:  *)
(* the tasks of one chat interleave at every await, and nothing orders     *)
(* them.  A task has one database session; DbSessionMiddleware commits it  *)
(* after the handler has returned and rolls it back if it raised, so what  *)
(* a handler writes is seen by others only after its answers were sent.    *)
(* The middleware loads the user's rows with the user, and a row stays as  *)
(* it was loaded for the rest of the session: a later query finds rows in  *)
(* the database but takes their fields from there.                         *)
(*                                                                         *)
(* One user with one chat.  Sending to Telegram and committing may fail.   *)
(***************************************************************************)
EXTENDS Naturals, Sequences, FiniteSets

CONSTANTS
    Handlers,    \* the updates that may be in process at the same time
    Keywords,    \* keywords users type; not empty once stripped
    NoKeyword,   \* data has no "keyword"
    MinPrices,   \* prices the user may choose as minimum, above zero
    MaxPrices,   \* prices the user may choose as maximum, above zero
    TooLarge,    \* those among the prices that do not fit into an INTEGER
    NoPrice,     \* None
    FreeLimit,   \* FREE_SEARCH_LIMIT, 2 in the code
    Faults,      \* what may fail: "answer", "commit"
    Watched,     \* bound: the criteria whose searches are observed
    MaxRows      \* bound: rows of table searches

ASSUME SearchFlowAssumption ==
    /\ NoKeyword \notin Keywords
    /\ MinPrices \cup MaxPrices \subseteq Nat \ {0} /\ NoPrice \notin Nat
    /\ FreeLimit \in Nat /\ MaxRows \in Nat

MinLimits == MinPrices \cup {NoPrice}
MaxLimits == MaxPrices \cup {NoPrice}
Criteria == [keyword : Keywords, min : MinLimits, max : MaxLimits]

ASSUME WatchedAssumption == Watched \subseteq Criteria

Empty == [keyword |-> NoKeyword, min |-> NoPrice]
Blank == [keyword |-> NoKeyword, min |-> NoPrice, max |-> NoPrice]

VARIABLES
    rows,      \* table searches, in the order of insertion: [crit, active]
    premium,   \* the user has an active subscription
    fsm,       \* "none", "keyword", "customMin" or "customMax"
    data,      \* the FSM data: keyword and price_min
    pc,        \* where each task is, "idle" if it has no update
    crit,      \* what each task holds of the search it is to save
    found,     \* the row its query found, 0 for none
    loaded,    \* the flags of the rows as its session loaded them
    watched,   \* history: what the user was told is watched; see Tell
    disturbed, \* history: tasks that a removal overlapped
    alone,     \* history: no two tasks have been in process at once
    limited    \* history: alone, and the user has never been premium

dialogue == <<fsm, data>>
locals == <<crit, found, loaded>>
tasks == <<pc, locals, disturbed, alone, limited>>
vars == <<rows, watched, premium, dialogue, tasks>>

Active == {i \in DOMAIN rows : rows[i].active}

Init ==
    /\ rows = <<>> /\ watched = {} /\ disturbed = {} /\ premium \in BOOLEAN /\ limited = ~premium
    /\ fsm = "none" /\ data = Empty
    /\ pc = [h \in Handlers |-> "idle"]
    /\ crit = [h \in Handlers |-> Blank]
    /\ found = [h \in Handlers |-> 0]
    /\ loaded = [h \in Handlers |-> <<>>]
    /\ alone = TRUE

\* Task h awaits something before place.
Goto(h, place) ==
    /\ pc' = [pc EXCEPT ![h] = place]
    /\ alone' = (alone /\ \A g \in Handlers \ {h} : pc[g] = "idle")
    /\ limited' = (limited /\ alone')
Hold(h, c) == crit' = [crit EXCEPT ![h] = c]

\* The rows as they were loaded are of no more use.
Forget(h) == loaded' = [loaded EXCEPT ![h] = <<>>]

\* The update is handled; the task and its locals are gone.
Finish(h) ==
    /\ Goto(h, "idle") /\ Hold(h, Blank)
    /\ found' = [found EXCEPT ![h] = 0] /\ Forget(h)
    /\ disturbed' = disturbed \ {h}

\* A task that ends in the step it starts in.
NoTask(h) == pc[h] = "idle" /\ UNCHANGED tasks

\* An answer that does not get through raises; the session is rolled back.
AnswerFails(h) == "answer" \in Faults /\ Finish(h)

\* state.clear()
Clear == fsm' = "none" /\ data' = Empty

\* The selectin load of User.searches.
Load(h) == loaded' = [loaded EXCEPT ![h] = [i \in DOMAIN rows |-> rows[i].active]]

\* Variant: whatever the row says.
SeesRow(h, i) == i \in DOMAIN rows

\* is_active of a row that a query returned: as loaded with the user, unless
\* the row is younger.
SeesActive(h, i) == IF i \in DOMAIN loaded[h] THEN loaded[h][i] ELSE rows[i].active

\* Where a task is that decides on a search, and one that stops a search.
Deciding == {"load", "max", "customMax", "save", "find", "refuse", "answer", "commit"}
Removing == {"remove", "delete"}
Stopping(r) == pc[r] \in Removing /\ found[r] # 0 /\ rows[found[r]].crit \in Watched

\* A task h begins that will save or refuse a search.
Decide(h, place) ==
    /\ Goto(h, place)
    /\ disturbed' = disturbed \cup {g \in {h} : \E r \in Handlers : Stopping(r)}

\* The user learns that c is watched.  Whoever stops an observed search while
\* h is in process cannot know what to expect: that is not counted.
Tell(h, c) == watched' = watched \cup (IF h \in disturbed THEN {} ELSE {c} \cap Watched)

----------------------------------------------------------------------------
\* The user pays, or the subscription expires.
PremiumChanges ==
    /\ premium' = ~premium /\ limited' = FALSE
    /\ UNCHANGED <<rows, watched, dialogue, pc, locals, disturbed, alone>>

----------------------------------------------------------------------------
(* /add                                                                    *)

\* The middleware has loaded the user; is_premium is what it was then.
AddCommand(h) ==
    /\ pc[h] = "idle"
    /\ Goto(h, IF premium THEN "prompt" ELSE "limit")
    /\ UNCHANGED <<rows, watched, premium, dialogue, locals, disturbed>>

\* Variant: one search too many.
AlmostFull == Cardinality(Active) > FreeLimit

Full == Cardinality(Active) >= FreeLimit

\* _check_search_limit.
CheckLimit(h) ==
    /\ pc[h] = "limit"
    /\ \/ Full /\ Finish(h)
       \/ ~Full /\ Goto(h, "prompt") /\ UNCHANGED <<locals, disturbed>>
    /\ UNCHANGED <<rows, watched, premium, dialogue>>

\* _start_add_flow: the answer first, then the state; the data stay.
StartAddFlow(h) ==
    /\ pc[h] = "prompt"
    /\ \/ Finish(h) /\ fsm' = "keyword"
       \/ AnswerFails(h) /\ UNCHANGED fsm
    /\ UNCHANGED <<rows, watched, premium, data>>

----------------------------------------------------------------------------
(* Keyword and minimum.                                                    *)

\* The state filter looks at the state before the middleware's queries.  What
\* was typed or chosen appears when the handler gets to it.
KeywordMessage(h) ==
    /\ pc[h] = "idle" /\ fsm = "keyword"
    /\ Goto(h, "keyword")
    /\ UNCHANGED <<rows, watched, premium, dialogue, locals, disturbed>>

\* process_keyword; the state stays as it is.
ProcessKeyword(h, k) ==
    /\ pc[h] = "keyword"
    /\ data' = [data EXCEPT !.keyword = k]
    /\ Finish(h)
    /\ UNCHANGED <<rows, watched, premium, fsm>>

\* process_price_min_callback: a button works whatever the state is.
PriceMinButton(h, v) ==
    /\ NoTask(h)
    /\ data' = [data EXCEPT !.min = v]
    /\ UNCHANGED <<rows, watched, premium, fsm>>

\* "Custom amount" on either keyboard.
CustomButton(h, state) ==
    /\ NoTask(h)
    /\ fsm' = state
    /\ UNCHANGED <<rows, watched, premium, data>>

\* Variant: the zero that stands for no limit is kept.
KeepZero(raw) == raw

\* normalize_price
NormalizePrice(raw) == IF raw > 0 THEN raw ELSE NoPrice

\* process_custom_price_min: the state filter again looks early.
CustomMinMessage(h) ==
    /\ pc[h] = "idle" /\ fsm = "customMin"
    /\ Goto(h, "customMin")
    /\ UNCHANGED <<rows, watched, premium, dialogue, locals, disturbed>>

ProcessCustomMin(h, raw) ==
    /\ pc[h] = "customMin"
    /\ data' = [data EXCEPT !.min = NormalizePrice(raw)]
    /\ Finish(h)
    /\ UNCHANGED <<rows, watched, premium, fsm>>

----------------------------------------------------------------------------
(* Maximum and _save_search.                                               *)

\* Variant: the range is not checked.
NeverInverted(min, max) == FALSE

Inverted(min, max) == min # NoPrice /\ max # NoPrice /\ min > max

\* The head of _save_search, up to its first await: data["keyword"] raises
\* when the dialogue was cleared; an inverted range is refused.
BeginSave(h, min, max) ==
    /\ \/ data.keyword = NoKeyword /\ Finish(h)
       \/ /\ data.keyword # NoKeyword
          /\ Hold(h, [keyword |-> data.keyword, min |-> min, max |-> max])
          /\ \/ Inverted(min, max) /\ Goto(h, "refuse") /\ Forget(h)
             \/ ~Inverted(min, max) /\ Goto(h, "find") /\ UNCHANGED loaded
          /\ UNCHANGED <<found, disturbed>>
    /\ UNCHANGED <<rows, watched, premium, dialogue>>

\* process_price_max_callback: the middleware, then callback.answer(), ...
PriceMaxButton(h) ==
    /\ pc[h] = "idle"
    /\ Decide(h, "max") /\ Load(h)
    /\ UNCHANGED <<rows, watched, premium, dialogue, crit, found>>

\* ... then price_min is read, ...
ReadMin(h, v) ==
    /\ pc[h] = "max"
    /\ \/ /\ Goto(h, "save") /\ Hold(h, [Blank EXCEPT !.min = data.min, !.max = v])
          /\ UNCHANGED <<found, loaded, disturbed>>
       \/ AnswerFails(h)
    /\ UNCHANGED <<rows, watched, premium, dialogue>>

\* ... the keyboard is removed, and the keyword is read.
SaveAfterButton(h) ==
    /\ pc[h] = "save"
    /\ \/ BeginSave(h, crit[h].min, crit[h].max)
       \/ AnswerFails(h) /\ UNCHANGED <<rows, watched, premium, dialogue>>

\* process_custom_price_max: the state filter, the middleware, the handler.
CustomMaxMessage(h) ==
    /\ pc[h] = "idle" /\ fsm = "customMax"
    /\ Decide(h, "load")
    /\ UNCHANGED <<rows, watched, premium, dialogue, locals>>

LoadForMax(h) ==
    /\ pc[h] = "load"
    /\ Goto(h, "customMax") /\ Load(h)
    /\ UNCHANGED <<rows, watched, premium, dialogue, crit, found, disturbed>>

ProcessCustomMax(h, raw) ==
    /\ pc[h] = "customMax"
    /\ BeginSave(h, data.min, NormalizePrice(raw))

\* Variant: an unset price compared with "=", which is never true in SQL.
SameAndSet(c, d) == c = d /\ NoPrice \notin {c.min, c.max}

\* The WHERE of the query; an unset price is compared with IS NULL.
Same(c, d) == c = d

\* The query casts the prices to INTEGER.
Overflows(c) == {c.min, c.max} \cap TooLarge # {}

\* The query raises; or it returns any row that matches; unless that one is
\* seen active, the dialogue is cleared before the answer.
FindExisting(h) ==
    LET hits == {i \in DOMAIN rows : Same(rows[i].crit, crit[h])}
        live == {i \in hits : SeesActive(h, i)}
    IN  /\ pc[h] = "find"
        /\ \/ Overflows(crit[h]) /\ Finish(h) /\ UNCHANGED dialogue
           \/ /\ ~Overflows(crit[h]) /\ live # {} /\ Goto(h, "refuse")
              /\ Forget(h)
              /\ UNCHANGED <<crit, found, disturbed, dialogue>>
           \/ /\ ~Overflows(crit[h])
              /\ \E i \in IF hits = {} THEN {0} ELSE hits \ live :
                    found' = [found EXCEPT ![h] = i]
              /\ Forget(h)
              /\ Goto(h, "answer") /\ Clear
              /\ UNCHANGED <<crit, disturbed>>
        /\ UNCHANGED <<rows, watched, premium>>

\* "Minimum price cannot exceed maximum" or "already exists", then the clear.
Refuse(h) ==
    /\ pc[h] = "refuse"
    /\ \/ /\ Finish(h) /\ Clear
          /\ \/ Inverted(crit[h].min, crit[h].max) /\ UNCHANGED watched
             \/ ~Inverted(crit[h].min, crit[h].max) /\ Tell(h, crit[h])
       \/ AnswerFails(h) /\ UNCHANGED <<dialogue, watched>>
    /\ UNCHANGED <<rows, premium>>

\* "Search created!" or "Search restored!"
Announce(h) ==
    /\ pc[h] = "answer"
    /\ \/ Goto(h, "commit") /\ UNCHANGED <<locals, disturbed>>
       \/ AnswerFails(h)
    /\ UNCHANGED <<rows, watched, premium, dialogue>>

\* uq_searches_user_platform_criteria; NULLs are distinct in it.
ViolatesUnique(c) ==
    /\ NoPrice \notin {c.min, c.max}
    /\ \E i \in DOMAIN rows : rows[i].crit = c

CannotInsert(c) == ViolatesUnique(c) \/ Overflows(c)

\* session.commit() of the middleware: the INSERT or the UPDATE, or neither.
\* The user was told before (Announce): it counts once the commit has met no
\* fault.  A keyword that does not fit into its column is one of the faults.
CommitSave(h) ==
    /\ pc[h] = "commit"
    /\ \/ /\ \/ /\ found[h] # 0
                /\ rows' = [rows EXCEPT ![found[h]].active = TRUE]
             \/ /\ found[h] = 0 /\ ~CannotInsert(crit[h]) /\ Len(rows) < MaxRows
                /\ rows' = Append(rows, [crit |-> crit[h], active |-> TRUE])
             \/ found[h] = 0 /\ CannotInsert(crit[h]) /\ UNCHANGED rows
          /\ Tell(h, crit[h])
       \/ "commit" \in Faults /\ UNCHANGED <<rows, watched>>
    /\ Finish(h)
    /\ UNCHANGED <<premium, dialogue>>

----------------------------------------------------------------------------
(* /cancel, the cancel button, removal.                                    *)

CancelAdd(h) ==
    /\ NoTask(h) /\ Clear
    /\ UNCHANGED <<rows, watched, premium>>

\* A removal button of an old list: the middleware loads, ...
RemoveButton(h, i) ==
    /\ pc[h] = "idle" /\ i \in DOMAIN rows
    /\ found' = [found EXCEPT ![h] = i] /\ Load(h) /\ Goto(h, "remove")
    /\ watched' = watched \ {rows[i].crit}
    /\ disturbed' = disturbed \cup {g \in Handlers : pc[g] \in Deciding /\ rows[i].crit \in Watched}
    /\ UNCHANGED <<rows, premium, dialogue, crit>>

\* ... process_delete_search looks for an active row ("Already removed"); a
\* row that was not active when it was loaded does not change by the
\* assignment of False, so that nothing is written, ...
FindToDelete(h) ==
    /\ pc[h] = "remove"
    /\ \/ ~rows[found[h]].active /\ Finish(h)
       \/ /\ rows[found[h]].active /\ Goto(h, "delete")
          /\ found' = [found EXCEPT ![h] = IF SeesActive(h, found[h]) THEN found[h] ELSE 0]
          /\ Forget(h)
          /\ UNCHANGED <<crit, disturbed>>
    /\ UNCHANGED <<rows, watched, premium, dialogue>>

\* ... the answers, and the commit.
CommitDelete(h) ==
    /\ pc[h] = "delete"
    /\ \/ found[h] # 0 /\ rows' = [rows EXCEPT ![found[h]].active = FALSE]
       \/ (found[h] = 0 \/ Faults # {}) /\ UNCHANGED rows
    /\ Finish(h)
    /\ UNCHANGED <<watched, premium, dialogue>>

\* The bot is stopped or dies and comes back: MemoryStorage is empty.
Restart ==
    /\ Clear
    /\ pc' = [h \in Handlers |-> "idle"]
    /\ crit' = [h \in Handlers |-> Blank]
    /\ found' = [h \in Handlers |-> 0]
    /\ loaded' = [h \in Handlers |-> <<>>]
    /\ disturbed' = {}
    /\ UNCHANGED <<rows, watched, premium, alone, limited>>

----------------------------------------------------------------------------
Update(h) ==
    \/ AddCommand(h) \/ CheckLimit(h) \/ StartAddFlow(h)
    \/ KeywordMessage(h) \/ \E k \in Keywords : ProcessKeyword(h, k)
    \/ \E v \in MinLimits \ TooLarge : PriceMinButton(h, v)
    \/ \E state \in {"customMin", "customMax"} : CustomButton(h, state)
    \/ CustomMinMessage(h) \/ \E raw \in MinPrices \cup {0} : ProcessCustomMin(h, raw)
    \/ PriceMaxButton(h) \/ \E v \in MaxLimits \ TooLarge : ReadMin(h, v)
    \/ CustomMaxMessage(h) \/ LoadForMax(h)
    \/ \E raw \in MaxPrices \cup {0} : ProcessCustomMax(h, raw)
    \/ SaveAfterButton(h) \/ FindExisting(h) \/ Refuse(h) \/ Announce(h) \/ CommitSave(h)
    \/ CancelAdd(h)
    \/ \E i \in DOMAIN rows : RemoveButton(h, i)
    \/ FindToDelete(h) \/ CommitDelete(h)

Next == PremiumChanges \/ Restart \/ \E h \in Handlers : Update(h)

Spec == Init /\ [][Next]_vars

----------------------------------------------------------------------------
(* Properties.                                                             *)

Places == {"idle", "limit", "prompt", "keyword", "customMin"} \cup Deciding \cup Removing

LoadedOK ==
    /\ loaded \in [Handlers -> Seq(BOOLEAN)]
    /\ \A h \in Handlers : Len(loaded[h]) <= Len(rows)

TypeOK ==
    /\ rows \in Seq([crit : Criteria, active : BOOLEAN]) /\ Len(rows) <= MaxRows
    /\ premium \in BOOLEAN /\ alone \in BOOLEAN /\ limited \in BOOLEAN
    /\ watched \subseteq Watched /\ disturbed \subseteq Handlers
    /\ fsm \in {"none", "keyword", "customMin", "customMax"}
    /\ data \in [keyword : Keywords \cup {NoKeyword}, min : MinLimits]
    /\ pc \in [Handlers -> Places]
    /\ crit \in [Handlers -> [keyword : Keywords \cup {NoKeyword}, min : MinLimits, max : MaxLimits]]
    /\ found \in [Handlers -> 0..MaxRows]
    /\ LoadedOK

\* "Free plan: up to 2 active searches" (HELP_TEXT): a user who never paid
\* has no more as long as updates come one at a time, although the check and
\* the save are in different updates, and searches are stopped, restored and
\* added, and dialogues begun, in any order meanwhile.
LimitKeptWhenAlone == limited => Cardinality(Active) <= FreeLimit

\* A user has one row per criteria, however often a search is removed,
\* restored and added again, as long as updates come one at a time.
NoDuplicateWhenAlone ==
    alone => \A i, j \in DOMAIN rows : rows[i].crit = rows[j].crit => i = j

\* No stored search has a minimum above its maximum: such a search could
\* never match, although minimum and maximum are chosen in different updates
\* and an old keyboard may be pressed at any time.
PriceRangeValid ==
    \A i \in DOMAIN rows : ~(/\ NoPrice \notin {rows[i].crit.min, rows[i].crit.max}
                             /\ rows[i].crit.min > rows[i].crit.max)

\* What the user was told is watched is watched: after "created", "restored"
\* or "already exists" there is an active row with just these criteria, until
\* the user presses a button that stops such a search.  The answer precedes
\* the commit, the constraint may refuse the row, rows are seen as they were
\* when the session began, and a price that fits no column passes the handler.
\* Not counted: a commit that meets a fault, and what a task says while the
\* user stops a search.
ToldIsWatched == \A c \in watched : \E i \in Active : rows[i].crit = c
============================================================================
