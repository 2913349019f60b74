----------------------------- MODULE LotLedger -----------------------------
(***************************************************************************)
(* The tax-lot ledger of execution/lots.py for one agent and one symbol,   *)
(* with what feeds it and what reads it: the OMS log whose fills it books, *)
(* App._on_fill_received, the recorder that scores closed lots             *)
(* (agents/calibration_recorder.py) and the profit the state tracker       *)
(* computes from them.                                                     *)
(*                                                                         *)
(* The OMS appends a fill to its log and then publishes it, holding its    *)
(* lock, so one fill is booked at a time.  Booking writes to two tables in *)
(* several transactions; the process may die, or a write may fail, between *)
(* any two of them.  A ledger whose table of booked fills is empty when    *)
(* the process starts is filled from the OMS log.                          *)
(*                                                                         *)
(* A fill is known by its place in the log.  A buy opens exactly one lot,  *)
(* known by the same number: quantity, price and date of a lot are those   *)
(* of its fill, and only what changes is kept in the lot.                  *)
(***************************************************************************)
EXTENDS Integers, Sequences, FiniteSets, FiniteSetsExt

CONSTANTS
  MaxFills,     \* fills that are logged (a bound)
  MaxQty,       \* largest quantity of a fill
  Price,        \* prices
  Deal,         \* side, quantity and price of the fills that may come
  Order,        \* orders that fills belong to
  Judged,       \* those of an intent whose conviction is on record
  Days,         \* days that pass (a bound)
  Dust,         \* notional below which what is left of a lot is dropped
  MaxMishaps,   \* crashes and failed writes (a bound)
  PastLogs      \* logs an older release left behind; their fills are of day 0

ASSUME SizeAssumption == MaxFills \in Nat /\ MaxQty \in Nat \ {0}
ASSUME DealAssumption ==
  /\ Deal \subseteq [side : {"buy", "sell"}, qty : 1..MaxQty, price : Price]
  /\ Judged \subseteq Order
ASSUME PriceAssumption == Price \subseteq Nat \ {0} /\ Dust \in Nat
ASSUME BoundAssumption == Days \in Nat \ {0} /\ MaxMishaps \in Nat

VARIABLES
  log,       \* FILL_RECEIVED events of the OMS, in the order they were appended
  day,       \* the current date
  mode,      \* down, replay (backfill in App.__init__) or up
  step,      \* where the booking of a fill stands
  cur,       \* the fill being booked, or booked last
  lots,      \* LotLedger._lots: per buy, its lot; pos is its place in the dict
  booked,    \* LotLedger._booked
  rows,      \* table lots: pos is the rowid
  bookedRows,\* table booked_fills
  dirty,     \* lots changed in memory and not written yet
  score,     \* table calibration: per order, win, loss, flat or none
  mishaps,   \* history: crashes and failed writes so far
  failed,    \* history: failed writes of this process
  dropped,   \* history: quantity of sells that found too little to close
  dusted     \* history: quantity dropped as dust

memory == <<lots, booked, dirty>>
disk == <<rows, bookedRows>>
history == <<mishaps, failed, dropped, dusted>>
vars == <<log, day, mode, step, cur, memory, disk, score, history>>

FillId == 1..MaxFills
Fill == [side : {"buy", "sell"}, qty : 1..MaxQty, price : Price,
         day : 0..Days, order : Order]
ASSUME PastAssumption ==
  \A l \in PastLogs : /\ l \in Seq(Fill) /\ Len(l) <= MaxFills
                      /\ \A n \in DOMAIN l : l[n].day = 0
Lot == [left : 0..MaxQty, exit : 0..MaxFills, pos : Nat]
NoLot == [left |-> 0, exit |-> 0, pos |-> 0]
Step == {"idle", "book", "mark", "lot", "write", "score"}
Outcome == {"none", "win", "loss", "flat"}

\* The sum of f[x] over the elements x of S.
SumOf(f, S) == MapThenSumSet(LAMBDA x : f[x], S)

Exists(f) == lots[f].pos # 0
IsOpen(f) == Exists(f) /\ lots[f].exit = 0
OpenLots == {f \in FillId : IsOpen(f)}
OpenQty == SumOf([f \in OpenLots |-> lots[f].left], OpenLots)

\* The place a row or a dictionary entry gets when it is added to table t.
NextPos(t) == 1 + Max({0} \cup {t[f].pos : f \in FillId})

Init ==
  /\ log \in PastLogs
  /\ day = 1 /\ mode = "down" /\ step = "idle" /\ cur = 0
  /\ lots = [f \in FillId |-> NoLot] /\ booked = {} /\ dirty = {}
  /\ rows = [f \in FillId |-> NoLot] /\ bookedRows = {}
  /\ score = [o \in Order |-> "none"]
  /\ mishaps = 0 /\ failed = 0 /\ dropped = 0 /\ dusted = 0

-----------------------------------------------------------------------------
(* A fill reaches the log and is published *)

\* _handle_fill: the row is appended first.
LogFill ==
  /\ mode = "up" /\ step = "idle" /\ Len(log) < MaxFills
  /\ \E d \in Deal, o \in Order :
       log' = Append(log, [side |-> d.side, qty |-> d.qty, price |-> d.price,
                           day |-> day, order |-> o])
  /\ cur' = Len(log) + 1
  /\ step' = "book"
  /\ UNCHANGED <<day, mode, memory, disk, score, history>>

NextDay ==
  /\ day < Days
  /\ day' = day + 1
  /\ UNCHANGED <<log, mode, step, cur, memory, disk, score, history>>

-----------------------------------------------------------------------------
(* book_fill.  A published fill goes on to the other subscribers, a        *)
(* replayed one does not.                                                  *)

Booked == IF mode = "up" THEN "score" ELSE "idle"

\* book_fill: a fill that is marked already is passed over.
MarkInMemory ==
  /\ step = "book"
  /\ IF cur \in booked
     THEN step' = Booked /\ UNCHANGED booked
     ELSE step' = "mark" /\ booked' = booked \cup {cur}
  /\ UNCHANGED <<log, day, mode, cur, lots, dirty, disk, score, history>>

\* _persist_booked.
MarkOnDisk ==
  /\ step = "mark"
  /\ bookedRows' = bookedRows \cup {cur}
  /\ step' = "lot"
  /\ UNCHANGED <<log, day, mode, cur, memory, rows, score, history>>

\* open_lot, in memory.
OpenLot ==
  /\ step = "lot" /\ log[cur].side = "buy"
  /\ lots' = [lots EXCEPT ![cur] = [left |-> log[cur].qty, exit |-> 0,
                                    pos |-> NextPos(lots)]]
  /\ dirty' = {cur}
  /\ step' = "write"
  /\ UNCHANGED <<log, day, mode, cur, booked, disk, score, history>>

\* The sort by entry date is reversed.
MutantBefore(f, g) ==
  \/ log[f].day > log[g].day
  \/ log[f].day = log[g].day /\ lots[f].pos < lots[g].pos

\* Candidates are taken by entry date; the sort is stable.
Before(f, g) ==
  \/ log[f].day < log[g].day
  \/ log[f].day = log[g].day /\ lots[f].pos < lots[g].pos

\* What each open lot gives towards quantity q, the oldest first.
Takes(q) ==
  {take \in [OpenLots -> 0..MaxQty] :
     /\ \A f \in OpenLots : take[f] <= lots[f].left
     /\ \A f, g \in OpenLots : Before(f, g) /\ take[g] > 0
                                 => take[f] = lots[f].left
     /\ SumOf(take, OpenLots) = q}

\* What is left of lot f; a sliver worth less than Dust is dropped.
Left(f, n) ==
  LET left == lots[f].left - n
  IN IF left * log[cur].price < Dust THEN 0 ELSE left

\* A lot that gives anything is closed.
MutantClosed(lot, left) == [lot EXCEPT !.left = left, !.exit = cur]

Closed(lot, left) ==
  [lot EXCEPT !.left = left, !.exit = IF left = 0 THEN cur ELSE @]

\* close_lots, in memory.
CloseLots ==
  /\ step = "lot" /\ log[cur].side = "sell"
  /\ \E take \in Takes(log[cur].qty) :
       LET hit == {f \in OpenLots : take[f] > 0}
       IN /\ lots' = [f \in FillId |->
                        IF f \in hit THEN Closed(lots[f], Left(f, take[f]))
                        ELSE lots[f]]
          /\ dirty' = hit
          /\ dusted' = dusted + SumOf(
               [f \in hit |-> lots[f].left - take[f] - Left(f, take[f])], hit)
  /\ step' = "write"
  /\ UNCHANGED <<log, day, mode, cur, booked, disk, score, mishaps, failed, dropped>>

\* close_lots raises ValueError, which book_fill swallows.
TooLittleToClose ==
  /\ step = "lot" /\ log[cur].side = "sell"
  /\ log[cur].qty > OpenQty
  /\ dropped' = dropped + log[cur].qty
  /\ step' = Booked
  /\ UNCHANGED <<log, day, mode, cur, memory, disk, score, mishaps, failed, dusted>>

\* Only the first lot of a sale is written.
MutantPersistLot ==
  /\ step = "write"
  /\ \E f \in dirty :
       /\ \A g \in dirty \ {f} : Before(f, g)
       /\ rows' = [rows EXCEPT ![f] = [lots[f] EXCEPT !.pos = NextPos(rows)]]
  /\ dirty' = {}
  /\ step' = Booked
  /\ UNCHANGED <<log, day, mode, cur, lots, booked, bookedRows, score, history>>

\* _persist_lot of one lot: INSERT OR REPLACE gives the row a new rowid.
PersistLot ==
  /\ step = "write"
  /\ \E f \in dirty :
       /\ \A g \in dirty \ {f} : Before(f, g)
       /\ LET others == [rows EXCEPT ![f] = NoLot]
          IN rows' = [rows EXCEPT ![f] = [lots[f] EXCEPT !.pos = NextPos(others)]]
       /\ dirty' = dirty \ {f}
       /\ step' = IF dirty = {f} THEN Booked ELSE "write"
  /\ UNCHANGED <<log, day, mode, cur, lots, booked, bookedRows, score, history>>

\* A write fails: the exception leaves book_fill and is logged by its caller.
WriteFails ==
  /\ step \in {"mark", "write"}
  /\ mishaps < MaxMishaps
  /\ mishaps' = mishaps + 1 /\ failed' = failed + 1
  /\ dirty' = {}
  /\ step' = Booked
  /\ mode' = "up"   \* the backfill is given up, App.__init__ goes on
  /\ UNCHANGED <<log, day, cur, lots, booked, disk, score, dropped, dusted>>

-----------------------------------------------------------------------------
(* CalibrationRecorder._on_fill *)

Outcomes(f) ==
  IF log[cur].price > log[f].price THEN "win"
  ELSE IF log[cur].price < log[f].price THEN "loss" ELSE "flat"

\* The recorder hears of the fill before the ledger does.
MutantScoreClosedLots ==
  /\ step = "score"
  /\ step' = "idle"
  /\ UNCHANGED <<log, day, mode, cur, memory, disk, score, history>>

\* Every lot this sell closed is scored for the order that opened it; of
\* several lots of one order the last in the ledger stays.
ScoreClosedLots ==
  /\ step = "score"
  /\ LET closed == {f \in FillId : Exists(f) /\ lots[f].exit = cur}
         of(o) == {f \in closed : log[f].order = o}
         last(o) == CHOOSE f \in of(o) : \A g \in of(o) : lots[g].pos <= lots[f].pos
     IN score' = [o \in Order |-> IF o \notin Judged \/ of(o) = {} THEN score[o]
                                  ELSE Outcomes(last(o))]
  /\ step' = "idle"
  /\ UNCHANGED <<log, day, mode, cur, memory, disk, history>>

-----------------------------------------------------------------------------
(* Crash, restart and backfill *)

Halt ==
  /\ mode # "down"
  /\ mode' = "down" /\ step' = "idle" /\ cur' = 0
  /\ lots' = [f \in FillId |-> NoLot] /\ booked' = {} /\ dirty' = {}
  /\ failed' = 0
  /\ UNCHANGED <<log, day, disk, score, dropped, dusted>>

\* The process ends between two fills.
Stop == step = "idle" /\ Halt /\ UNCHANGED mishaps

\* It dies while it books one.
Crash ==
  /\ step # "idle" /\ mishaps < MaxMishaps
  /\ Halt
  /\ mishaps' = mishaps + 1

\* __init__ with _load_from_db; an empty ledger is backfilled.
Start ==
  /\ mode = "down"
  /\ lots' = rows /\ booked' = bookedRows
  /\ mode' = IF bookedRows = {} THEN "replay" ELSE "up"
  /\ UNCHANGED <<log, day, step, cur, dirty, disk, score, history>>

\* replay_from_oms_store: the next fill of the log.
ReplayNext ==
  /\ mode = "replay" /\ step = "idle" /\ cur < Len(log)
  /\ cur' = cur + 1
  /\ step' = "book"
  /\ UNCHANGED <<log, day, mode, memory, disk, score, history>>

ReplayEnds ==
  /\ mode = "replay" /\ step = "idle" /\ cur = Len(log)
  /\ mode' = "up"
  /\ UNCHANGED <<log, day, step, cur, memory, disk, score, history>>

Next ==
  \/ LogFill \/ NextDay
  \/ MarkInMemory \/ MarkOnDisk \/ OpenLot \/ CloseLots \/ TooLittleToClose
  \/ PersistLot \/ WriteFails \/ ScoreClosedLots
  \/ Stop \/ Crash \/ Start \/ ReplayNext \/ ReplayEnds

Spec == Init /\ [][Next]_vars

-----------------------------------------------------------------------------
(* Properties *)

Quiet == mode = "up" /\ step = "idle"
Buys(F) == {f \in F : log[f].side = "buy"}
Sells(F) == {f \in F : log[f].side = "sell"}
Total(F) == SumOf([f \in F |-> log[f].qty], F)
Logged == DOMAIN log

TypeOK ==
  /\ log \in Seq(Fill) /\ Len(log) <= MaxFills
  /\ day \in 1..Days /\ mode \in {"down", "replay", "up"} /\ step \in Step
  /\ cur \in 0..MaxFills /\ (step # "idle" => cur \in Logged)
  /\ lots \in [FillId -> Lot] /\ rows \in [FillId -> Lot]
  /\ booked \subseteq Logged /\ bookedRows \subseteq Logged
  /\ dirty \subseteq FillId /\ score \in [Order -> Outcome]
  /\ mishaps \in 0..MaxMishaps /\ failed \in 0..mishaps
  /\ dropped \in Nat /\ dusted \in Nat

\* The largest sliver a sale may drop.
Sliver == Max({q \in 0..MaxQty : q = 0 \/ \E p \in Price : q * p < Dust})

\* Every variable has its type, and what the open lots hold is what the booked
\* fills bought and sold, up to the fill each crash or failed write caught
\* between its mark and its lots: booking first and then opening or closing
\* the lots never loses a second fill, and no fill is booked twice.
LotsAddUp ==
  LET net == Total(Buys(booked)) - Total(Sells(booked)) + dropped - dusted
      slack == mishaps * (MaxQty + Sliver)
  IN TypeOK /\ (Quiet => net - OpenQty \in -slack..slack)

\* A restart is transparent: but for the fill being booked and for what a
\* failed write left behind, the tables hold the lots and the marks that
\* memory holds, so the process may be stopped at any moment.
DiskFollowsMemory ==
  mode # "down" /\ failed = 0 =>
    /\ \A f \in FillId \ dirty : /\ lots[f].left = rows[f].left
                                 /\ lots[f].exit = rows[f].exit
                                 /\ Exists(f) <=> rows[f].pos # 0
    /\ bookedRows \subseteq booked
    /\ booked \ bookedRows \subseteq IF step = "mark" THEN {cur} ELSE {}

\* FIFO by entry date, also after restarts have changed the order in which
\* the lots are held: a lot gives only when every older one is used up.
OldestFirst ==
  [][mode = "up" /\ mode' = "up" =>
       \A f, g \in FillId :
         /\ Exists(f) /\ Exists(g) /\ log[f].day < log[g].day
         /\ lots'[g].left < lots[g].left
         => lots'[f].left = 0]_vars

\* Every lot that was ever closed has left an outcome for the order that
\* opened it, unless a crash or a failed write came between, or the lot was
\* closed by the backfill, which publishes nothing.
ClosedLotIsScored ==
  Quiet /\ mishaps = 0 =>
    \A f \in FillId :
      /\ lots[f].exit # 0 /\ log[lots[f].exit].day > 0
      /\ log[f].order \in Judged
      => score[log[f].order] # "none"

\* _realized_pnl: closed lots at the price of the sale that closed them.
Realized ==
  LET closed == {f \in FillId : lots[f].exit # 0}
      gain == [f \in closed |->
                 (log[lots[f].exit].price - log[f].price) * log[f].qty]
  IN SumOf(gain, closed)

\* _unrealized_pnl at mark price p; lots that cost less than Dust are skipped.
Unrealized(p) ==
  LET counted == {f \in OpenLots : lots[f].left * log[f].price >= Dust}
  IN SumOf([f \in counted |-> (p - log[f].price) * lots[f].left], counted)

-----------------------------------------------------------------------------
(* The daily profit and loss (ops/attribution.py) *)

\* The queues and the profit after fill n of the log.
Filled(n, state, gives) ==
  IF log[n].side = "buy" THEN [state EXCEPT !.left[n] = log[n].qty]
  ELSE [left |-> [f \in FillId |-> state.left[f] - gives[f]],
        gain |-> state.gain + SumOf(
          [f \in Logged |-> (log[n].price - log[f].price) * gives[f]], Logged)]

\* Of a sale of quantity q, what is left for each buy to give when the buys
\* in ahead[f] come before f.
FromQueue(left, q, ahead) ==
  [f \in FillId |->
     Min({left[f], Max({0, q - SumOf(left, ahead[f])})})]

\* The newest buy first.
MutantGives(left, q) ==
  FromQueue(left, q, [f \in FillId |-> {g \in FillId : g > f}])

\* What each buy gives to a sale of quantity q, first in first out.
Gives(left, q) ==
  FromQueue(left, q, [f \in FillId |-> {g \in FillId : g < f}])

\* _realized_by_agent_from_fills: every sale of the log against the buys
\* before it; what finds no buy is passed over.
Matched ==
  LET state[n \in 0..Len(log)] ==
        IF n = 0 THEN [left |-> [f \in FillId |-> 0], gain |-> 0]
        ELSE Filled(n, state[n - 1], Gives(state[n - 1].left, log[n].qty))
  IN state[Len(log)]

\* _lot_unrealized at mark price p; dust counts here.
LotUnrealized(f, p) == IF IsOpen(f) THEN (p - log[f].price) * lots[f].left ELSE 0

\* compute_daily_pnl of this sleeve, at the latest close p of its symbol.
DailyPnL(p) == Matched.gain + SumOf([f \in FillId |-> LotUnrealized(f, p)], FillId)

\* As long as every sale used up whole lots, the equity the tracker computes
\* from the lots is what the fills earned and what is held is worth, at any
\* mark.  (A lot sold in parts counts with the price of its last sale only.)
EquityIsExact ==
  LET whole == /\ \A s \in Sells(booked) :
                    Total({f \in FillId : lots[f].exit = s}) = log[s].qty
               /\ \A f \in OpenLots : /\ lots[f].left = log[f].qty
                                      /\ lots[f].left * log[f].price >= Dust
      value(F) == SumOf([f \in F |-> log[f].price * log[f].qty], F)
  IN Quiet /\ mishaps = 0 /\ whole =>
       \A p \in Price :
         Realized + Unrealized(p)
           = value(Sells(booked)) - value(Buys(booked)) + p * OpenQty

\* The daily profit, half of it read from the log and half from the lots, is
\* what the fills earned and what is held is worth, sales of parts of a lot
\* included: both sides match first in first out.  That ends where they do
\* not: the ledger drops dust and a sale beyond its lots, and may take lots
\* of one day in another order than the log's after a restart, which shows
\* once they had different prices.
DailyPnLIsExact ==
  LET value(F) == SumOf([f \in F |-> log[f].price * log[f].qty], F)
      onePrice == \A f, g \in Buys(Logged) :
                    log[f].day = log[g].day => log[f].price = log[g].price
  IN Quiet /\ mishaps = 0 /\ booked = Logged /\ dropped = 0 /\ dusted = 0 /\ onePrice =>
       \A p \in Price :
         DailyPnL(p) = value(Sells(Logged)) - value(Buys(Logged)) + p * OpenQty

\* Both computations of a sleeve's profit, the tracker's from the lots
\* (_realized_pnl, _unrealized_pnl) and the daily report's from log and lots
\* (compute_daily_pnl), give what the fills earned, across bookings, restarts
\* and backfills, as far as the two above say.
ProfitIsExact == EquityIsExact /\ DailyPnLIsExact
=============================================================================
