------------------------------ MODULE Research ------------------------------
(***************************************************************************)
(* News and deep dives: the news jobs of app.py with NewsFetcher,          *)
(* NewsStore and NewsScorer, the weekly rotation of Opus' deep dives, and  *)
(* the extra dive a high-impact item triggers, at most one in an ISO week. *)
(*                                                                         *)
(* The scoring job and the rotation run on two threads of the scheduler;   *)
(* a call of a model takes up to a minute and may fail; the process may    *)
(* die anywhere, and what it had not written is lost.                      *)
(*                                                                         *)
(* Items are numbered in the order of publication.  A dive ends on the day *)
(* it began; odd days are Thursdays, two days make a week.                 *)
(***************************************************************************)
EXTENDS Integers, Sequences, FiniteSets, FiniteSetsExt

CONSTANTS
  Item,         \* news items (URLs), numbered by publication
  Symbol,       \* symbols, numbered: the order of holdings, then watchlist
  SymOf,        \* the symbol a high-impact item affects
  Limit,        \* items scored in one batch (unscored_recent's limit)
  MaxDay,       \* last day (a bound)
  MaxMishaps    \* crashes, and errors that cost a dive its mark (a bound)

ASSUME ResearchAssumption ==
  /\ Item \subseteq Nat /\ Symbol \subseteq Nat /\ SymOf \in [Item -> Symbol]
  /\ IsFiniteSet(Item) /\ IsFiniteSet(Symbol)
  /\ Limit \in Nat \ {0} /\ {MaxDay, MaxMishaps} \subseteq Nat

VARIABLES
  row,         \* NewsStore, per item: none, bare (no body), full (unscored),
               \* low or high (scored)
  aged,        \* items published more than 48 hours ago
  todo,        \* the batch being scored
  at,          \* where the scoring job is: its stage and the item
  turn,        \* where the rotation is: its stage and the symbol
  day,
  rotated,     \* the rotation has had its turn today
  pool,        \* Opus' holdings and watchlist within the plumbing universe
  lastDive,    \* Opus' memory last_deep_dive; 0: none
  quota,       \* Opus' memory extra_dives_iso_week_*, of this week: used up
  mishaps,     \* crashes, and errors that cost a dive its mark
  told,        \* history: items whose event was published, or a crash cut off
  extra,       \* history: extra dives given in this week
  unmarked,    \* history: those of them whose mark was never written
  waits        \* history: turns given to others since a symbol's last one

news == <<row, aged>>
scoring == <<todo, at>>
dives == <<turn, rotated, pool>>
memory == <<lastDive, quota>>
history == <<told, extra, unmarked, waits>>
researchVars == <<news, scoring, dives, day, memory, mishaps, history>>

NoItem == [stage |-> "idle", item |-> 0]
NoTurn == [stage |-> "idle", sym |-> 0]

InitResearch ==
  /\ row = [i \in Item |-> "none"] /\ aged = {}
  /\ todo = <<>> /\ at = NoItem /\ turn = NoTurn
  /\ day = 0 /\ rotated = FALSE /\ pool = {}
  /\ lastDive = [s \in Symbol |-> 0] /\ quota = FALSE /\ mishaps = 0
  /\ told = {} /\ extra = 0 /\ unmarked = 0 /\ waits = [s \in Symbol |-> 0]

-----------------------------------------------------------------------------
(* News *)

\* add_items: a known URL is left as it is.
Added(i, r) == [row EXCEPT ![i] = IF @ = "none" THEN r ELSE @]

\* fetch_for_universe and fetch_filings, of any job: an item comes with or
\* without a body.
Fetch(i) ==
  /\ \E r \in {"bare", "full"} : row' = Added(i, r)
  /\ UNCHANGED <<aged, scoring, dives, day, memory, mishaps, history>>

Age(i) ==
  /\ i \notin aged /\ \A j \in Item : j < i => j \in aged
  /\ aged' = aged \cup {i}
  /\ UNCHANGED <<row, scoring, dives, day, memory, mishaps, history>>

Pending == {i \in Item : row[i] = "full" /\ i \notin aged}

Ahead(i) == {j \in Pending : j < i}

\* Lists of Limit pending items or, when there are fewer, of all of them.
Lists == [1..Min({Limit, Cardinality(Pending)}) -> Pending]

\* The newest come first.
MutantBatches ==
  {b \in Lists : \A k \in DOMAIN b :
     Cardinality({j \in Pending : j > b[k]}) = k - 1}

\* unscored_recent: the oldest first.
Batches == {b \in Lists : \A k \in DOMAIN b : Cardinality(Ahead(b[k])) = k - 1}

\* _job_news_fetch, after the fetch.
ListBatch ==
  /\ at.stage = "idle" /\ Pending # {}
  /\ todo' \in Batches /\ at' = [NoItem EXCEPT !.stage = "score"]
  /\ UNCHANGED <<news, dives, day, memory, mishaps, history>>

NextItem ==
  /\ todo' = Tail(todo)
  /\ at' = IF Len(todo) = 1 THEN NoItem ELSE [NoItem EXCEPT !.stage = "score"]

\* _coerce_score: an answer that passes has one of these impacts.
Impacts == {"low", "high"}

\* score: not worth scoring, no answer, or none that parses; or an impact.
Score ==
  /\ at.stage = "score"
  /\ \/ NextItem
     \/ \E s \in Impacts :
          at' = [at EXCEPT !.stage = s, !.item = Head(todo)] /\ UNCHANGED todo
  /\ UNCHANGED <<news, dives, day, memory, mishaps, history>>

\* Events are published for impact 5 only.
MutantPersist ==
  /\ at.stage \in Impacts
  /\ row' = [row EXCEPT ![at.item] = at.stage]
  /\ \/ NextItem
     \/ at.stage = "high" /\ at' = [at EXCEPT !.stage = "publish"] /\ UNCHANGED todo
  /\ UNCHANGED <<aged, dives, day, memory, mishaps, history>>

\* update_score
Scored == [row EXCEPT ![at.item] = at.stage]

\* The write may fail; the event is published all the same.
Persist ==
  /\ at.stage \in Impacts
  /\ row' \in {Scored, row}
  /\ IF at.stage = "high"
     THEN at' = [at EXCEPT !.stage = "publish"] /\ UNCHANGED todo
     ELSE NextItem
  /\ UNCHANGED <<aged, dives, day, memory, mishaps, history>>

\* Every event is worth a dive.
MutantWorthADive == SymOf[at.item] \in pool

\* _on_news_high_impact, up to the dive: held or on the watchlist, and no
\* extra dive yet in this week.
WorthADive == SymOf[at.item] \in pool /\ ~quota

Publish ==
  /\ at.stage = "publish"
  /\ told' = told \cup {at.item}
  /\ IF WorthADive
     THEN at' = [at EXCEPT !.stage = "dive"] /\ UNCHANGED todo
     ELSE NextItem
  /\ UNCHANGED <<news, dives, day, memory, mishaps, extra, unmarked, waits>>

-----------------------------------------------------------------------------
(* Dives *)

\* The turn of s, if it was a scheduled one, counts for the others.
Turn(s, scheduled) ==
  /\ lastDive' = [lastDive EXCEPT ![s] = day]
  /\ waits' = [x \in Symbol |->
                 CASE x = s -> 0
                   [] scheduled /\ x \in pool \ {s} -> waits[x] + 1
                   [] OTHER -> waits[x]]

\* _opus_run_deep_dive: deep_dive answers {} when the model was not reached
\* or the budget is spent, and that counts as a dive.
Dived == Turn(SymOf[at.item], FALSE) /\ extra' = extra + 1

Mishap == mishaps < MaxMishaps /\ mishaps' = mishaps + 1

\* The dive ends well and the week is to be marked; or something raises, before
\* the dive or after it (the intent it wants, the snapshot, the submission),
\* and the handler returns without a mark.
ExtraDive ==
  /\ at.stage = "dive"
  /\ \/ /\ Dived /\ at' = [at EXCEPT !.stage = "mark"]
        /\ UNCHANGED <<todo, mishaps, unmarked>>
     \/ NextItem /\ UNCHANGED <<lastDive, waits, mishaps, extra, unmarked>>
     \/ Dived /\ Mishap /\ unmarked' = unmarked + 1 /\ NextItem
  /\ UNCHANGED <<news, dives, day, quota, told>>

Mark ==
  /\ at.stage = "mark"
  /\ quota' = TRUE
  /\ NextItem
  /\ UNCHANGED <<news, dives, day, lastDive, mishaps, history>>

\* The most recent dive first.
MutantOldest ==
  CHOOSE s \in pool : \A x \in pool :
    lastDive[s] > lastDive[x] \/ (lastDive[s] = lastDive[x] /\ s <= x)

\* _opus_deep_dive_rotation: a stable sort by the day of the last dive.
Oldest ==
  CHOOSE s \in pool : \A x \in pool :
    lastDive[s] < lastDive[x] \/ (lastDive[s] = lastDive[x] /\ s <= x)

Pick ==
  /\ day % 2 = 1 /\ ~rotated /\ turn.stage = "idle"
  /\ rotated' = TRUE
  /\ turn' = IF pool = {} THEN NoTurn ELSE [stage |-> "dive", sym |-> Oldest]
  /\ UNCHANGED <<news, scoring, day, pool, memory, mishaps, history>>

RotationDive ==
  /\ turn.stage = "dive"
  /\ turn' = NoTurn
  /\ Turn(turn.sym, TRUE) \/ UNCHANGED <<lastDive, waits>>
  /\ UNCHANGED <<news, scoring, rotated, pool, day, quota, mishaps, told, extra,
                 unmarked>>

-----------------------------------------------------------------------------
(* Around them *)

\* Opus buys, sells or changes its watchlist.
PoolChanges(s) ==
  /\ pool' = IF s \in pool THEN pool \ {s} ELSE pool \cup {s}
  /\ waits' = [waits EXCEPT ![s] = 0]
  /\ UNCHANGED <<news, scoring, turn, rotated, day, memory, mishaps, told, extra,
                 unmarked>>

\* A new week has a key of its own.
NewDay ==
  /\ day < MaxDay /\ turn.stage = "idle" /\ at.stage \notin {"dive", "mark"}
  /\ day' = day + 1 /\ rotated' = FALSE
  /\ IF day' % 2 = 0
     THEN quota' = FALSE /\ extra' = 0 /\ unmarked' = 0
     ELSE UNCHANGED <<quota, extra, unmarked>>
  /\ UNCHANGED <<news, scoring, turn, pool, lastDive, mishaps, told, waits>>

Crash ==
  /\ Mishap
  /\ todo' = <<>> /\ at' = NoItem /\ turn' = NoTurn
  /\ told' = told \cup IF at.stage = "publish" THEN {at.item} ELSE {}
  /\ unmarked' = unmarked + IF at.stage = "mark" THEN 1 ELSE 0
  /\ UNCHANGED <<news, rotated, pool, day, memory, extra, waits>>

JobStep == ListBatch \/ Score \/ Persist \/ Publish \/ ExtraDive \/ Mark

NextResearch ==
  \/ \E i \in Item : Fetch(i) \/ Age(i)
  \/ ListBatch \/ Score \/ Persist \/ Publish \/ ExtraDive \/ Mark
  \/ Pick \/ RotationDive
  \/ \E s \in Symbol : PoolChanges(s)
  \/ NewDay \/ Crash

\* The scheduler runs the scoring job every half hour, and every call of a
\* model ends.
SpecResearch == InitResearch /\ [][NextResearch]_researchVars /\ WF_researchVars(JobStep)

-----------------------------------------------------------------------------
(* Properties *)

\* Every variable has its type; in particular a batch keeps to its limit.
TypeOK ==
  /\ row \in [Item -> {"none", "bare", "full", "low", "high"}] /\ aged \subseteq Item
  /\ todo \in Seq(Item) /\ Len(todo) <= Limit
  /\ at.stage \in {"idle", "score", "low", "high", "publish", "dive", "mark"}
  /\ at.item \in Item \cup {0}
  /\ turn.stage \in {"idle", "dive"} /\ turn.sym \in Symbol \cup {0}
  /\ day \in 0..MaxDay /\ rotated \in BOOLEAN /\ pool \subseteq Symbol
  /\ lastDive \in [Symbol -> 0..MaxDay] /\ quota \in BOOLEAN
  /\ mishaps \in 0..MaxMishaps

\* Every variable has its type, and a high impact on record was announced, is
\* being announced, or the process died on the way: no other path loses the
\* event (NewsScorer.score).
HighImpactIsAnnounced ==
  /\ TypeOK
  /\ \A i \in Item : row[i] = "high" =>
       i \in told \/ (at.stage = "publish" /\ at.item = i)

\* At most one extra dive in a week, restarts included, and one more for each
\* whose mark was never written: the process died between dive and mark, or
\* what followed the dive raised (_on_news_high_impact).
ExtraDivesAreRare == extra <= unmarked + 1

\* Whoever stays in the pool is not passed over for ever: since its last turn
\* the others have had no more turns than there are symbols, and one more
\* where two dives share a day (_opus_deep_dive_rotation).
RotationIsFair == \A s \in Symbol : waits[s] <= Cardinality(Symbol)

\* An item that is fresh, has a body and fewer than Limit others before it is
\* scored or at least tried, unless it grows old or others come before it
\* (unscored_recent, score_batch).
EveryItemIsTried ==
  \A i \in Item :
    (i \in Pending /\ Cardinality(Ahead(i)) < Limit)
      ~> \/ i \notin Pending \/ Cardinality(Ahead(i)) >= Limit
         \/ (at.stage = "score" /\ Head(todo) = i)
=============================================================================
