----------------------------- MODULE Snapshots -----------------------------
(***************************************************************************)
(* The equity snapshotter (ops/equity_snapshotter.py): a thread that every *)
(* minute asks the broker for the account and the positions, lets the      *)
(* state tracker recompute the sleeves, writes a row to each of three      *)
(* tables and once a day thins the tables out; and the day's P&L that the  *)
(* dashboard reads from them.                                              *)
(*                                                                         *)
(* A call of the broker may hang for ever, a write or a prune may fail,    *)
(* the process may end anywhere.  Time is counted in minutes.  Retention   *)
(* is by the date: a row's timestamp has a T where SQLite's datetime() has *)
(* a space, so that a row of the cut-off's own date counts as later than   *)
(* it.                                                                     *)
(***************************************************************************)
EXTENDS Integers, FiniteSets, FiniteSetsExt

CONSTANTS
  BucketLen,    \* minutes of a bucket that is thinned to one row (5)
  DayLen,       \* minutes of a day
  FullDays,     \* days kept as they are (7)
  KeptDays,     \* days kept at all (30)
  MaxTime,      \* last minute (a bound)
  MaxFaults,    \* failed calls, writes and prunes (a bound)
  MaxTrades,    \* changes between flat and invested (a bound)
  MaxEnds       \* ends of the process (a bound)

ASSUME SnapshotsAssumption ==
  /\ {BucketLen, DayLen} \subseteq Nat \ {0} /\ DayLen % BucketLen = 0
  /\ {FullDays, KeptDays, MaxTime, MaxFaults, MaxTrades, MaxEnds} \subseteq Nat
  /\ FullDays <= KeptDays

VARIABLES
  minute,      \* the time
  tick,        \* the thread: where it is, the row it is making
  lastPrune,   \* last_prune, in memory; Never after a start
  rows,        \* the tables: the timestamps each has rows of
  navs,        \* those of the equity table with a NAV
  outage,      \* the broker fails every call, or lets it hang
  invested,    \* the broker has positions, the ledger open lots
  spent,       \* how often each bounded thing has happened
  written,     \* history: what was ever written to each table
  withNav,     \* history: what was ever written with a NAV
  prunedOn     \* history: the day of the last prune that succeeded

snapVars == <<minute, tick, lastPrune, rows, navs, outage, invested, spent,
              written, withNav, prunedOn>>
tables == <<rows, navs, written, withNav>>
world == <<outage, invested, spent>>

Table == {"equity", "position", "agent"}
Never == -DayLen
DayOf(t) == t \div DayLen
BucketOf(t) == t \div BucketLen

\* A row in the making: no NAV and no positions known yet.
Row(at, t) == [at |-> at, ts |-> t, nav |-> FALSE, listed |-> {}]

InitSnap ==
  /\ minute = 0 /\ tick = Row("idle", -1) /\ lastPrune = Never
  /\ rows = [k \in Table |-> {}] /\ navs = {}
  /\ outage = FALSE /\ invested = FALSE
  /\ spent = [faults |-> 0, trades |-> 0, ends |-> 0]
  /\ written = rows /\ withNav = {} /\ prunedOn = 0

Counted(what) == spent' = [spent EXCEPT ![what] = @ + 1]
Fault == spent.faults < MaxFaults /\ Counted("faults")

-----------------------------------------------------------------------------
(* One tick *)

StartTick ==
  /\ tick.at = "idle" /\ tick.ts < minute
  /\ tick' = Row("account", minute)
  /\ UNCHANGED <<minute, lastPrune, tables, world, prunedOn>>

\* The broker answers get_account; an equity that is not positive counts as
\* none (an outage may show itself so).
AccountAnswers ==
  /\ tick.at = "account" /\ ~outage
  /\ tick' = [tick EXCEPT !.at = "positions", !.nav = TRUE]
  /\ UNCHANGED <<minute, lastPrune, tables, world, prunedOn>>

\* The broker answers list_positions.
PositionsAnswer ==
  /\ tick.at = "positions" /\ ~outage
  /\ tick' = [tick EXCEPT !.at = "mark",
                          !.listed = IF invested THEN {"position"} ELSE {}]
  /\ UNCHANGED <<minute, lastPrune, tables, world, prunedOn>>

\* A call is waited for as long as it takes.
MutantBrokerCallFails == FALSE

\* _call_with_timeout: a call that raises, or has not come back in ten
\* seconds, has failed; its thread is left behind.
BrokerCallFails ==
  /\ tick.at \in {"account", "positions"} /\ outage
  /\ tick' = [tick EXCEPT !.at = IF @ = "account" THEN "positions" ELSE "mark"]
  /\ UNCHANGED <<minute, lastPrune, tables, world, prunedOn>>

\* update_on_mark and get_state of every sleeve (see Tracker) return, and the open
\* lots of each are read, with or without marks.
MarkSleeves ==
  /\ tick.at = "mark"
  /\ tick' = [tick EXCEPT !.at = "write",
                          !.listed = @ \cup IF invested THEN {"agent"} ELSE {}]
  /\ UNCHANGED <<minute, lastPrune, tables, world, prunedOn>>

\* A sleeve's drawdown got worse: the tracker publishes it on this thread, and
\* the application's handler asks the tracker whose lock the thread holds (see
\* Ladder); or another thread holds it for ever so.  The thread goes no further.
TrackerNeverReturns ==
  /\ tick.at = "mark"
  /\ tick' = [tick EXCEPT !.at = "stuck"]
  /\ UNCHANGED <<minute, lastPrune, tables, world, prunedOn>>

\* _write_rows: the rows of all tables in one transaction, or none.
WriteRows ==
  /\ tick.at = "write"
  /\ LET into == {"equity"} \cup tick.listed
         Add(T) ==
           [k \in Table |-> IF k \in into THEN T[k] \cup {tick.ts} ELSE T[k]]
         with == IF tick.nav THEN {tick.ts} ELSE {}
     IN \/ /\ rows' = Add(rows) /\ written' = Add(written)
           /\ navs' = navs \cup with /\ withNav' = withNav \cup with
           /\ UNCHANGED spent
        \/ Fault /\ UNCHANGED <<rows, navs, written, withNav>>
  /\ tick' = [tick EXCEPT !.at = "prune"]
  /\ UNCHANGED <<minute, lastPrune, outage, invested, prunedOn>>

-----------------------------------------------------------------------------
(* Retention: prune_old_snapshots *)

\* The first of its bucket among the rows R.
FirstOfBucket(R, t) == Min({u \in R : BucketOf(u) = BucketOf(t)})

Older(R, days) == {t \in R : DayOf(t) < DayOf(minute) - days}

\* The last row of a bucket is kept.
MutantThinned(R) ==
  {t \in R : t \in Older(R, FullDays) =>
               t = Max({u \in R : BucketOf(u) = BucketOf(t)})}

\* Beyond the full days, the earliest row of each bucket.
Thinned(R) ==
  {t \in R : t \in Older(R, FullDays) =>
               t = FirstOfBucket(Older(R, FullDays), t)}

Retained(R) == LET kept == R \ Older(R, KeptDays) IN Thinned(kept)

\* Once in 24 hours, and on the first tick; one transaction; a failure is
\* logged, and the next try is a day away.
Prune ==
  /\ tick.at = "prune"
  /\ tick' = [tick EXCEPT !.at = "idle"]
  /\ IF minute - lastPrune >= DayLen
     THEN /\ lastPrune' = minute
          /\ \/ /\ rows' = [k \in Table |-> Retained(rows[k])]
                /\ navs' = navs \cap rows'["equity"]
                /\ prunedOn' = DayOf(minute)
                /\ UNCHANGED spent
             \/ Fault /\ UNCHANGED <<rows, navs, prunedOn>>
     ELSE UNCHANGED <<lastPrune, rows, navs, prunedOn, spent>>
  /\ UNCHANGED <<minute, outage, invested, written, withNav>>

-----------------------------------------------------------------------------
(* Around the thread *)

\* A minute passes after every tick, or between a tick and its prune, or while
\* the process is down or the thread stuck.
Minute ==
  /\ minute < MaxTime /\ minute' = minute + 1
  /\ tick.at \in {"off", "stuck"} \/ (tick.at \in {"idle", "prune"} /\ tick.ts = minute)
  /\ UNCHANGED <<tick, lastPrune, tables, world, prunedOn>>

\* The broker goes away, and may come back.
Outage ==
  /\ outage \/ Fault
  /\ outage => UNCHANGED spent
  /\ outage' = ~outage
  /\ UNCHANGED <<minute, tick, lastPrune, tables, invested, prunedOn>>

Trade ==
  /\ spent.trades < MaxTrades /\ Counted("trades")
  /\ invested' = ~invested
  /\ UNCHANGED <<minute, tick, lastPrune, tables, outage, prunedOn>>

\* stop() waits five seconds for the thread, no longer: a tick may be cut off
\* as by a crash.
EndProcess ==
  /\ tick.at # "off" /\ spent.ends < MaxEnds /\ Counted("ends")
  /\ tick' = Row("off", tick.ts)
  /\ UNCHANGED <<minute, lastPrune, rows, navs, outage, invested, written,
                 withNav, prunedOn>>

StartProcess ==
  /\ tick.at = "off"
  /\ tick' = Row("idle", tick.ts)
  /\ lastPrune' = minute - DayLen
  /\ UNCHANGED <<minute, tables, world, prunedOn>>

\* The thread's steps: each call of the broker ends, by an answer or by its time
\* limit, and the tracker returns or never does.
TickStep ==
  \/ StartTick \/ AccountAnswers \/ PositionsAnswer \/ BrokerCallFails
  \/ MarkSleeves \/ TrackerNeverReturns \/ WriteRows \/ Prune

NextSnap ==
  \/ StartTick \/ AccountAnswers \/ PositionsAnswer \/ BrokerCallFails
  \/ MarkSleeves \/ TrackerNeverReturns \/ WriteRows \/ Prune
  \/ Minute \/ Outage \/ Trade \/ EndProcess \/ StartProcess

SpecSnap == InitSnap /\ [][NextSnap]_snapVars /\ WF_snapVars(TickStep)

-----------------------------------------------------------------------------
(* The dashboard *)

\* _nav_and_day_pnl: the last NAV and the first one of its day.
NavAndFirstOfDay(N) ==
  IF N = {} THEN <<>>
  ELSE <<Max(N), Min({t \in N : DayOf(t) = DayOf(Max(N))})>>

-----------------------------------------------------------------------------
(* Properties *)

\* Whatever fails and however often the process restarts, a prune takes only
\* what it may: the full days are complete, and of every older bucket the
\* earliest row survives to the end of the kept days; and what a prune leaves
\* is no more than that.  So the dashboard's P&L of the day runs from the
\* first NAV recorded that day, for as long as the day is a full one
\* (prune_old_snapshots, _nav_and_day_pnl).
HistoryIsKept ==
  /\ \A k \in Table : \A t \in written[k] :
       LET age == DayOf(minute) - DayOf(t) IN
         /\ age <= FullDays => t \in rows[k]
         /\ age <= KeptDays => FirstOfBucket(written[k], t) \in rows[k]
  /\ \A k \in Table : \A t \in rows[k] :
       LET age == prunedOn - DayOf(t) IN
         /\ age <= KeptDays
         /\ age > FullDays => t = FirstOfBucket(written[k], t)
  /\ (withNav # {} /\ DayOf(minute) - DayOf(Max(withNav)) <= FullDays)
       => NavAndFirstOfDay(navs) = NavAndFirstOfDay(withNav)

\* A broker that never answers does not stop a tick: it comes to its write,
\* unless the process ends or the tracker, which has no time limit, does not
\* return (_call_with_timeout: "Without this watchdog the snapshotter has been
\* observed to wedge").
BrokerCannotStopTicks ==
  (tick.at = "account") ~> (tick.at \in {"prune", "off", "stuck"})

\* What its proof takes from TLC: until then the thread can go on.
TickCanGoOn ==
  tick.at \in {"account", "positions", "mark", "write"} => ENABLED <<TickStep>>_snapVars
=============================================================================
