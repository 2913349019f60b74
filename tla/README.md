# A verification of the multi-agent trading platform

The platform runs four LLM agents that emit trade intents. A risk gate, a
review and a planner turn an intent into an order, an order management system
(OMS) sends it to a broker and follows it, and a reconciler, a lot ledger, a
state tracker, a budget and a kill switch keep the books and the limits.
Everything runs in one Python process with a handful of threads; only SQLite and
JSON files survive it.

This directory holds TLA+ modules translated from that code, the TLC
configurations that check them on small instances, and TLAPS proofs of the
properties that matter most. `PROJECT.json` maps every definition to the source
lines it stands for, names a mutant of the code for every property, and lists
the hazards the properties are for.

## Inventory

| Component (source) | State | Operations | What is hard | What makes it correct |
|---|---|---|---|---|
| Order FSM (`core/state_machine.py`) | state | `trigger` | events without an arc are refused silently | terminal states are final |
| OMS (`execution/oms.py`, `oms_store.py`) | orders, FSMs, broker ids, fills; the log | `submit_order`, `cancel_order`, broker callback, `recover`, `adopt_orphan_position`, `book_fee_offset` | callbacks inside calls, late and lost events, crashes between two appends, unavailable broker | write-ahead, no quantity twice, nothing forgotten, recovery agrees with the broker |
| Broker adapters (`execution/*_broker.py`) | orders at the venue; metadata; claims; dry-run prices | submit, cancel, look up, poll, stream | answers lost after the request got through, lookups that fail, two paths that show the same fill | idempotent submission, true answers |
| Reconciler (`execution/reconciler.py`) | announced state, alerted breaks | `reconcile_once` | works on what it read outside the OMS lock | differences are noticed, ended orders settled, the operator told |
| Kill switch (`execution/kill_switch.py`) | one state for six conditions; bench counters | updates by heartbeat, budget, reconciler | one condition overwrites another and its clearing clears both | a halt lasts as long as its cause |
| Budget (`execution/budget.py`, `agents/llm.py`) | date, total; watcher's latch | spend, reset, poll | check, then a long call, then spend; midnight in between | the limit holds, the halt follows |
| Lot ledger (`execution/lots.py`), calibration, attribution | lots, booked fills, scores | book, open, close, backfill | several writes with a crash in between; sells before buys | lots add up to the fills, profits are what the fills earned |
| Tracker (`execution/agent_state_tracker.py`) | equity, peak, bucket, losses, bench | fill, mark, read | copies written without the lock, day counting, a subscriber called under the lock | tightening at once, loosening late, nothing lost by a restart |
| Dispatch (`app.py`, `risk.py`, `planner.py`, `sizing.py`, agents, `outcome_recorder.py`) | jobs, intents, orders, outcomes | observe, gate, review, plan, guard, submit; reserve job | every stage reads lots or account, not the orders in flight | caps, halts, one outcome per order |
| News and dives (`news_*.py`, `app.py`) | items, batch, dive dates, weekly quota | fetch, score, publish, rotate, dive | marks and events after the deed, two threads | nobody starved, one extra dive a week while the marks get written |
| Manager (`manager_agent.py`, `manager_bridge.py`, `app.py`) | fingerprint, regime, weights file, stamp | Friday job, catch-up of a boot | two jobs past the same check, one temporary file | sane weights, spaced reallocations |
| Bar cache (`data/bar_cache.py`) | bars by symbol and day | `get_bars_batch` | several requests, failing sources, midnight | no hole, only final bars, answers that lack early days at most |
| Snapshotter (`ops/equity_snapshotter.py`), dashboard's day P&L | three tables | tick, prune, read | broker calls that hang, thinning under readers | no row goes early, the broker cannot stop the ticks |
| Approval queue (`execution/approval_queue.py`) | pending intents | enqueue, approve, reject, expire | nothing: one critical section each, and no caller | one decision per intent |

Feeds and parsers, prompts, analytics, backtests, configuration and scripts are
listed in `PROJECT.json` with the reason they are left out or the part that is
modelled.

How they interact. Agents run in scheduler jobs and reach the OMS through the
gate, the review, the planner and the account guard. The OMS calls the broker
while it holds its lock, and the broker calls back, either inside that call or
later from its stream thread. The OMS publishes events synchronously: the
application books each fill into the lot ledger and the tracker from there, and
the outcome recorder writes the agent's memory. The reconciler, the heartbeat
writer, the budget watcher and the snapshotter are threads with a timer each;
they meet the rest in the OMS, the tracker and the kill switch, which the gate
reads before an entry.

## Modules

| Module | Models | Extends or uses |
|---|---|---|
| `OrderFsm` | arcs and `trigger` of the order state machine | |
| `OMS` | the OMS, its log, the broker, the stream, crashes and `recover()` | `OrderFsm`, `FillLedger` |
| `FillLedger` | abstract: each executed unit is booked at most once and never forgotten | |
| `KillState` | the kill switch's states and the methods the application calls | |
| `Reconciler` | `reconcile_once` pass by pass beside the OMS, announcements, maintenance scripts | `OMS`, `KillState` |
| `Budget` | model calls, ledger, file, watcher, midnight job, kill switch | `KillState` |
| `LotLedger` | booking of fills, lots, scores, equity and daily profit | |
| `Tracker` | drawdown ladder and bench of a sleeve, their persistence | |
| `Ladder` | the tracker with the application's event handler | `Tracker` |
| `Dispatch` | from a parsed answer to an order and its outcome | |
| `Research` | news scoring, rotation of dives, extra dives | |
| `Adapters` | Alpaca, Robinhood live, Robinhood dry run | |
| `Strategy` | the Manager's Friday job and the catch-up of a boot | |
| `Bars` | the cache of daily bars | |
| `Snapshots` | the snapshotter, retention, the dashboard's day P&L | |
| `OMS_proofs` | theorems about orders, live and recovered, and passes | `Reconciler` and through it `OMS`, `FillLedger`; `SumTheorems` |
| `Budget_proofs` | theorems about the cap, its watcher and the snapshots | `Budget`, `Snapshots` |
| `Tracker_proofs`, `Dispatch_proofs`, `Adapters_proofs` | theorems | the module each is named after |
| `Stores_proofs` | theorems about lots and bars | `LotLedger`, `Bars` |
| `Jobs_proofs` | theorems about the jobs that think ahead | `Strategy`, `Research` |
| `SumTheorems` | sums, minima and maxima over finite sets of any size | |
| `MC...` | instances for TLC; `MCBudget`, `MCBooks` and `MCFaults` hold two machines each | |

`Reconciler` composes with `OMS` and `KillState`, `Ladder` with `Tracker`, and
`Budget` with `KillState`. The other modules meet at an interface that one of
them leaves open: a fill of the OMS is a `LogFill` of `LotLedger` and a `Trade`
of `Tracker`; the equity that `LotLedger` computes is any of `Equity` in
`Tracker`; the bucket that `Tracker` keeps is any of `Bucket` in `Dispatch`; the
broker in `OMS` is what `Adapters` refines operation by operation.

### OMS

`mem[o]` is what the process holds of an order: the snapshot's state, broker id
and `filled_qty`, the state of its FSM (kept apart because a replay forces the
one and triggers the other), its entry in the reverse map and the total of its
fill list. `durable[o]` is what a replay of the log into an empty OMS would
give. The log is read only by `_replay_log`, a left fold of
`_apply_logged_event`, so appending a row is applying `ApplyLoggedEvent` to that
value; nothing is lost by not keeping the rows. A handler is an operator on the
pair of both records (`HandleFill`, `RecordAccepted`, ...), used alike by the
stream, by `recover()` and by the reconciler.

`submit_order` keeps the OMS lock from the intent to the broker's answer, so it
is two actions with `call` naming the order in between: `SubmitOrder`, then one
of `SubmitAccepted`, `SubmitRejected`, `SubmitUnavailable`. `LockFree` guards
what other threads do under the lock; with `SyncCallbacks` the broker may call
back in between, as `FakeBroker` does and a re-entrant lock allows. A request
travels on `wire`: the broker may take it, refuse it, or (fault `LateArrival`)
take it after the caller has seen BrokerUnavailable or died. Events wait in
`stream[o]` in the order the broker emitted them and may be lost. A crash may
fall between any two actions, and inside the one handler that appends several
rows, the catch-up (`CrashInCatchUp`). `recover()` is `Recover` (replay), one
`ReconcileOpenOrder` per open order, and `RecoverReturns`, which is possible with
orders left over because a lookup that raises ends the loop and `App.start` goes
on.

### Reconciler

A pass is `StartPass` (heartbeat check and snapshot), `FetchStatus(o)` or
`FetchFails(o)` for each order of the snapshot, `ApplyStatus(o)`, then
`ComputeExpected`, `SumFills(o)` for each order, and `ComparePositions` or
`PositionsUnavailable`, with adoption, trip or clear, and the announcement of a
change. The broker's answer stays in `fetched` and the snapshot in `seen`, so all
other actions of the OMS, the broker and the stream run between what the pass
reads and what it does. `streaming` says whether the stream could be started.
`Tolerated` is the comparison's tolerance: a difference
below a share counts only if it is worth more than a dollar, at a price that is 0
when the broker has no position; a quantity is a number of units, `QtyTolerance` of
them a share, and an instrument has one `Price`. The maintenance scripts act while
the process is down.

### Budget

`StartCall` checks the ledger and stamps the call with its day, `EndCall` records
the cost under that day; midnight, crashes and other calls fall in between.
`ledger` and `file` are the day and total in memory and on disk. `check_once` is
three actions (`WatchReads`, `WatchTrips`, `WatchLatches`), the midnight job three
more. `recorded`, `straddled` and `torn` are history and guard nothing but the
bound on torn files.

### LotLedger

A fill is known by its place in the log; a buy opens the one lot of that number.
`book_fill` goes through `MarkInMemory`, `MarkOnDisk`, `OpenLot` or `CloseLots`,
and one `PersistLot` per lot it touched; `WriteFails` and `Crash` may come before
each. `rows` and `bookedRows` are the two tables, `lots`, `booked` and `dirty`
what the process holds. `Start`, `ReplayNext` and `ReplayEnds` are the constructor:
tables loaded, and a ledger without booked fills filled from the log.
`ScoreClosedLots` is the calibration recorder on the same event. Realized and
unrealized profit (tracker) and `DailyPnL` (attribution, which matches the log
again on its own) are operators on that state.

### Tracker and Ladder

An update of the record is one step under the lock (`Buy`, `SellAtLoss`,
`SellWell`, `Mark`); `_maybe_persist` is two, `Copy` and `Write`. `Laddered` is
`_apply_bucket_with_recovery`, `Classify` the kill switch's thresholds. `engine` is
the second loss counter. `Ladder` inserts the application's handler between the
publication and the assignment of the bucket (`MarkEscalates`, `StateIsBuilt`,
`ManagerAnswers`).

### Dispatch

`th[t]` is one job of `dispatch_observation` or a deep dive: `Observe` or
`DeepDive` (what it was shown), `Gate` (`check_intent` with its rules in `Vetoes`),
`Reviewed`, `Plan` (`Sized`, `Closing`), `Guard` (the account check), `Submit`, and
`RecordError`. What a model answers is any intent its parser lets pass (`Intents`).
`orders` holds what was submitted, with the outcome the agent's memory has of it;
`Fill`, `Die`, `Trip` and `Clear` are the world. `job` is the reserve job with its
two separate looks.

### Research, Strategy

One job per thread of the scheduler, one action per write or call. `row` is the
news table, `todo` and `at` the batch being scored, `turn` the rotation, `quota`
and `lastDive` the memory keys that guard dives. `ExtraDive` may raise before the
dive, or after it, when its intent is read or submitted: then the job returns and the
week's mark is not written (`unmarked`), as after a crash. In `Strategy`, `job[j]` is the
Friday job or the catch-up, `tmp` and `file` the weights, `stamp` and `regime`
the Manager's memory; `Call` is the model's answer, `Clamped` what becomes of it,
`WriteTmp` and `Replace` the atomic write that two jobs share.

### Adapters

`kind` picks the broker. Each caller is at a stage of one method; between stages
the server, the stream and the other callers move. `AlpacaSend` leaves open on
which side of the server's action a request broke, and `AlpacaLookup` asks again
by client id. For Robinhood, `Claim`, `Review`, `CallPlace`, `PlaceEnds` and
`Release` are `submit_order` around `_McpSdkClient.call_tool`, whose timeout leaves
a call running (`late`, `LateCall`). `Simulate` and `Simulated` are the dry run's
price lookup.

### Bars, Snapshots

A request of `Bars` reads the range, asks for the last dates, fetches (a source may
serve some symbols, none, or leave bars out), stores what is final and merges. Only
the last date of a symbol is looked at: a bar left out stays a hole for ever
(`skipped` remembers it), and after a short look-back the early days of a long one
are never asked for. A tick of `Snapshots` is `StartTick`, the account, the
positions (each answered or, in an outage, given up after ten seconds),
`MarkSleeves` or `TrackerNeverReturns`, `WriteRows`, and once a day `Prune`, whose
`Thinned` and `Older` are the two DELETE statements. The tracker is called on this
thread without a time limit, and `v_ladder` shows that it may not return.

## Runs

| Run | Instance | States | Shows |
|---|---|---|---|
| `core` | 2 orders of 2 units whose net is 1, one submission each, crashes, callbacks inside calls | 85,609 | NeverOverfilled, PositionIsSound, CrashLosesNothing, EndIsFinal, ReconciledOrderAgrees, refinement of `FillLedger` (LedgerSpec) |
| `faults` | 1 order of 3 units, FILLED from 2 on, 2 submissions, all faults; or a cache of bars with 2 symbols, 2 requests, 2 midnights, 1 short answer | 1.9 M | IInv, the inductive invariant of the proofs; OnlyEarlyDaysLack, StoredIsFinal |
| `reconciler` | 1 order of 2 half shares at 2 dollars each, FILLED from 1 on, with and without stream | 297,058 | PolledFillIsMissing; DifferenceIsNoticed, EndedOrderIsSettled, OperatorIsTold |
| `v_break` | the same | | MismatchFlips fails: see Findings |
| `budget` | 2 threads, limit 2, cost up to 2, 3 days, 1 torn file; or a snapshotter over 3 days of 2 minutes and the start of a fourth | 1.7 M | SpendIsBounded, CapSurvivesRestart, ExhaustionTrips; HistoryIsKept, BrokerCannotStopTicks |
| `books` | 4 fills of 6 kinds, 2 days, 2 mishaps, with and without an old log; or 1 marking thread and the fill thread, 3 days, 2 recovery days, trigger 2 | 6.6 M | LotsAddUp, DiskFollowsMemory, ClosedLotIsScored, ProfitIsExact, OldestFirst; BucketCoversDrawdown, DiskIsCurrent, LoosensSlowly |
| `v_ladder` | the tracker with the application's handler | | TighteningSettles fails: see Findings |
| `dispatch` | 3 sleeves with a job each, 2 symbols, 2 orders | 4.7 M | SleeveIsSound, AccountIsSound, TripStopsEntries, OutcomeMatchesOrder |
| `research` | 2 items about 2 symbols, batches of 1, 5 days, 1 mishap | 1.4 M | HighImpactIsAnnounced, ExtraDivesAreRare, RotationIsFair, EveryItemIsTried |
| `adapters` | 2 orders, 2 callers, 3 dry-run ids, 1 restart, at each broker | 3.1 M | SubmitIsIdempotent, AnswersAreTrue |
| `strategy` | 1 sleeve, reallocation every 2 weeks, 3 weeks, 1 restart | 1.5 M | WeightsAreSane, RegimeIsCurrent, ReallocationsAreSpaced, OverdueIsCaughtUp |
| `v_range` | 1 symbol, 1 request at a time with 2 look-backs | | RangeIsAnswered fails: see Findings |

`budget`, `books` and `faults` check two machines each that share nothing: a
behaviour is one of the two, chosen at the start, so that the state space is their
sum.

Each property of a passing run is accompanied by a variant of a modelled
definition (`Mutant...` in the modules) under which it fails.

### Bounds, and why they are enough

- OMS: orders meet only in the lock, in the list of open orders and in the
  positions. Two orders show the lock and a recovery that stops halfway; two units
  separate no fill, a partial fill and a full one, with a fill to lose and a fill
  to repeat; three with FILLED at two give the order that is short of its size.
- Reconciler: it takes orders one at a time, and its one order has every phase of
  a life in which a snapshot can be stale. Two units are a share: one alone is below
  the tolerance, at two dollars counts as long as the broker has a position, and does
  not when it has none.
- Budget: two threads suffice to overrun the cap, three days to have a midnight
  before and after one.
- LotLedger: four fills make two lots, a sale across both and a remainder; two
  mishaps a crash during the repair of another, or a failed write and a crash; two
  days the order of lots of one day and of different days.
- Tracker: one marking thread beside the fill thread makes two rows under way at
  once; three days are one more than the recovery takes; equities 80, 92 and 100
  lie in different buckets and allow skips.
- Dispatch: two jobs and an order in flight are needed for one order to be sized
  past another; the third job is the sleeve that neither builds a book nor goes on
  without a budget. Room among the two orders is kept for those already past
  planning (`NumberLeft`), so the bound cuts nothing off in the middle.
- Research: with a limit of one, one failing item already starves the other; five
  days are two weeks and a day; one crash, or one error after a dive, suffices for a
  mark to be missing.
- Adapters: two callers on one order are the race for a claim; the second order
  shows that ids and sides are kept apart; three dry-run ids are one more than
  there are orders.
- Strategy: three weeks with a period of two are a reallocation, a week in which
  it is not due and one in which it is; weights of sleeves are clamped one by one.
- Bars (`faults`): two requests of different width in both orders; two midnights put
  one before and one after a fetch. A request is for the first symbol or for both, so
  that a batch has a symbol that is ahead of the other (`Batches` in `MCFaults`).
- Snapshots: bucket and day of two minutes, minutes 0 to 6, one full day and two
  kept: every row passes through full, thinned and dropped, and one failed prune,
  outage or write, one trade and one end of the process fall anywhere between.

`MaxTries`, `MaxFills`, `Days`, `MaxTorn`, `MaxMishaps`, `MaxTicks`, `MaxPos`,
`MaxLosses`, `MaxOrders`, `MaxDay`, `MaxRestarts`, `DryId`, `MaxWeek`, `MaxFaults`,
`MaxTime`, `MaxTrades` and `MaxEnds` are the only bounds on behaviour, each named
as such where it is declared. Deadlock is checked in `core`, `faults`, `reconciler`
and `books`; the other instances end where a bound is used up (no day, order or
restart is left), and their configurations say so.

### Fairness

Nothing is assumed of agents, executions, the stream, heartbeats, crashes or the
clock.

- Reconciler (`LiveSpecRec`): its loop catches every exception and runs until the
  process ends (weak fairness of a pass's steps); a broker call ends in an answer
  or a timeout (weak fairness of the end of `submit_order`); and the broker's
  `get_order` and `list_positions`, asked every minute, do not fail for ever
  (strong fairness of `FetchStatus` and `ComparePositions`). The last one is an
  assumption on the environment.
- Budget: the watcher's thread polls for as long as the process runs (weak fairness
  of `WatchReads` and `WatchTrips`).
- Snapshots: the thread takes its next step; a call of the broker ends by an answer
  or by its time limit, a mark by returning or by never doing so, which is a step of
  its own (weak fairness of `TickStep`). No fairness of answers or of the tracker.
- Research: the scoring job goes on as long as the process runs (weak fairness of
  `JobStep`).
- Strategy: the scheduler runs the catch-up it was given at the boot, and that job
  goes on (weak fairness of `CatchUp` and of its steps); nothing is assumed of the
  Friday job. A broker call without a time limit while the Manager's state is built
  would break it: the code has no watchdog there.
- Ladder: a handler under way goes on, whenever its lock is free (weak fairness of
  its steps).

## Proofs

The proofs assume what the modules' ASSUMEs say, which TLC evaluates on every run,
and what a theorem states after ASSUME. The sets they range over (orders, sleeves,
threads, symbols, items, fills) may have any size, prices and quantities any value.

### Orders: `OMS_proofs`

For any set of orders, size, fee, number of submissions and set of faults:
`TypeCorrect`, `Invariant` (IInv), `NoDoubleCount` (NeverOverfilled), `NothingLost`
(CrashLosesNothing), `WriteAhead` (IntentBeforeBroker), and, for one submission per
order (`MaxTries = 1`), `ImplementsLedger`: every step of the OMS is a step of
`FillLedger` or a stutter. NeverOverfilled is not inductive: `_handle_fill` adds
what it is handed, so the bound rests on what may still arrive. `IInv` adds that (1)
memory and log agree on quantity, broker id and, up to a forced FILLED, the FSM; (2)
every undelivered fill, on top of what the log counts, stays within the broker's
cumulative quantity at that event, and each later event is on top of all earlier
ones (`StreamIsAhead`); (3) nothing is undelivered while the process is not up, so a
catch-up cannot be followed by an event it already covers; (4) an order unknown to
the log is unknown to memory, wire and broker. A delivery consumes (2) from the
front, an execution extends it at the back, a catch-up happens under (3). The
refinement is restricted to one submission because a retry starts `filled_qty` over
while the list of logged fills goes on.

- `PositionsAreSound` (PositionIsSound), for one submission per order and a
  `recover()` that is never called on a live OMS: beside `IInv`, the log's list of
  fills adds up to its `filled_qty`, and memory lists the same fills. A second
  `recover()` appends the logged fills to those in memory, so the assumption is needed.
- `EndsAreFinal` (EndIsFinal), for one submission per order, no request that arrives
  after its call gave up and lookups that do not deny an order the broker has
  (`Faithful`). The invariant is about records that a replay forced into an end
  their FSM has no arc to (`Stray`): such an order is over at the broker, and a live
  one hears nothing more. Each of the assumptions excludes a way in which the code
  gives up an order that goes on working.
- `RecoveredOrdersAgree` (ReconciledOrderAgrees), if lookups do not deny an order the
  broker has; retries, late requests, crashes at any append and recoveries of a live OMS
  included. The invariant (`Recoverable`) says that an FSM replayed from the log
  fits its rows (a broker id means it was accepted, PARTIAL that something was
  filled), that the broker's quantities fit its states, and that recovery asks only
  about open orders: then every event of a catch-up has an arc in the FSM.

Beside the reconciler, that is for `SpecRec`:

- `NothingLostBesideReconciler` (CrashLosesNothing and IntentBeforeBroker) with any
  faults and with the maintenance scripts between two lives. `IInv` does not carry
  over, since a poll may book a quantity twice; the agreement of memory and log
  needs no bound on what is booked.
- `PolledFillsAreMissing` (PolledFillIsMissing), for a `recover()` that is never
  called on a live OMS. The invariant (`PassInv`): without a stream, an order still to
  be polled has its broker id and is the order of the snapshot, since whatever else
  could book on it (its submission, a catch-up) is over by then, and the answer in
  hand is about such an order and not ahead of the broker.
- `EveryChangeIsTold` (OperatorIsTold), if `PassesCompare` (see Liveness): every step
  keeps `told \in {announced, Silence}`, and a comparison announces the switch as it is.
- `PollingSettles` (EndedOrderIsSettled), if `OpenOrdersAreAsked`, for any faults and
  double bookings. The invariant (`PollInv`) says what memory, log, broker and the
  answer in hand know of one another; by it an open order that is over at the broker
  has an arc to its end. While such an order stays open, its first answer drops what
  the pass noted before the end, the second makes up for the missing quantity, the
  third finds none missing and closes it.
- `DifferencesAreNoticed` (DifferenceIsNoticed), for finitely many orders, if
  `PassesCompare` and `TradingEnds`. A pass sums up the books order by order and
  releases the lock between two of them. After the first comparison without trading,
  the partial sums of every pass are those of the books at that moment, but for the
  orders still to come (`Fresh`), so the next comparison is of the books as they are:
  each symbol is equal at both, adopted, in the set that trips the switch, or differs
  by less than the tolerance and a dollar, which the property leaves out. That an
  order counts nothing before the OMS knows it is part of the invariant (`CountInv`).

### Money: `Budget_proofs`, `Stores_proofs`

For any finite number of threads, limit, price, days and torn files: `TypeCorrect`,
`Invariant` (BudgetInv), `CapHolds` (SpendIsBounded) and `RestartKeepsTotal`
(CapSurvivesRestart). The invariant is that, while no call was charged to a day that
was over and no file torn, memory and file hold exactly what was recorded today, no
later day has anything recorded, and today's amount plus the dearest cost of each
call under way stays within `Limit - 1 + MaxCost * |Thread|`. Admission turns "below
the limit" into that room, recording moves cost from the room into the amount, a new
day starts with an amount of zero.

`SpentBudgetTrips` (ExhaustionTrips): the watcher's look at a spent budget and its
trip are two stages; at each, every other step leaves the stage as it is, resets the
ledger or ends the process, and the watcher's own step advances it.
`TicksOutliveTheBroker` (BrokerCannotStopTicks) passes the stages of a tick in the
same way, up to the write or to a tracker that never returns. What both assume
besides is said under "Liveness" below.

`SnapshotsAreKept` (HistoryIsKept), for any lengths of a bucket and of a day that fit,
retention, faults and restarts: what is stored was written at a time gone by, of a
row in the making nothing is stored yet, no prune takes a row of the full days or
the first of a bucket of the kept ones, and what is older than the last prune is
what that prune left. It needs that the first row of a bucket stays its first
however many rows follow: rows are written in the order of time.

The lots, for any fills, orders, prices, crashes and failed writes:

- `RestartIsTransparent` (DiskFollowsMemory) and `FirstInFirstOut` (OldestFirst), from
  types and shapes: only the fill being booked is ahead of the disk, and positions
  follow days, also when a restart has changed the order in which lots are held.
- `ClosedLotsAreScored` (ClosedLotIsScored): while nothing has gone wrong, a lot
  that is closed in memory is scored or the fill being booked closed it, and one
  that is closed on disk while the process is down is scored.
- `BooksAddUp` (LotsAddUp). The invariant (`BalanceInv`) balances what the fills
  marked as booked bought and sold, less what was dropped or left as dust, with what
  the lots hold: in memory, less the fill in hand, up to one unit (the largest fill
  and its dust) for each mishap of an earlier process; on disk, up to one for each
  mishap. Between the two it bounds how far rows and lots are apart by the failed
  writes of this process, since a restart exchanges memory for the disk.
- `ProfitsAreExact` (ProfitIsExact). The invariant (`ProfitInv`, which TLC holds on the
  instance of `books`): the log is in the order of its dates and fills are booked in
  its order; while nothing has gone wrong, the table in use has one lot per settled
  buy, closed by a settled sale, and holds the latest days of what was bought
  (`TableHolds`), and no prefix of the log sells more than it buys unless something
  was dropped or left as dust (`NeverShort`). For the tracker's profit, the gains of
  closed lots are summed by the sale that closed them. For attribution's, which
  matches the log again from its beginning, `MatchIsRecursive` solves the recursion
  and `MatchedHolds` proves by induction over the log that its queue holds the net
  quantity, the latest buys of it, and that gains plus the cost of the queue are the
  cash that has moved. Lots and queue may differ in which buys of one day they hold,
  but not in how much of the day (`DayIsNoMore`, by `SumDecides`), so that with one
  price per day they cost the same.

The bars, for any symbols, requests, look-backs and failures of the source:

- `OnlyFinalBarsAreStored` (StoredIsFinal): a request that is about to write and on
  which no midnight has fallen fetched its bars today, so of them the cutoff of the
  write lets through only days that were over when they were fetched.
- `LaterDaysAreAnswered` (OnlyEarlyDaysLack): what an answer lacks of its range
  [start, end] are days before the first one the cache held, or days the source left
  out or failed to serve. `WholeInv` adds that the cache is a run of days without a
  hole, that the days a request is about to fetch or to store join what is stored by
  then, whoever stored it, and that what it read joins what it fetches. That the
  early days do lack is `v_range`.

### Sleeves: `Tracker_proofs`, `Dispatch_proofs`

For any equities, marking threads, trigger, recovery time and length of a day:
`SizingIsCovered` (BucketCoversDrawdown), `StoppingLosesNothing` (DiskIsCurrent) and
`RecoveryTakesItsTime` (LoosensSlowly). The invariant has types, the lock free between
steps, every record that exists anywhere (memory, a copy, the disk) covering its own
drawdown, and `RowsAreInOrder`: until two threads were persisting at once, at most
one row is being written, and either a thread is still to copy the record, or the row
under way is the record, or the disk has it. For the recovery, `DaysAreCounted` adds
that the counter never exceeds the number of different days in the current run of
marks at the better level, in memory, in copies and on disk; that is what a restart
cannot break. Records that differ in a bench that is over count as the same, since
the code lifts it when it is read.

For any sleeves, threads, symbols, answers, weights, caps and outcomes at the broker:

- `TypesAreKept`: in particular no order is for nothing, no agent's lots go negative,
  and `MaxOrders` bounds orders and jobs about to submit one together.
- `OneEntryAfterATrip` (TripStopsEntries): while the switch is tripped, a job that
  has sent a buy carries no other entry, since no opening passes the gate and only
  openings are sized as buys.
- `MemoriesMatch` (OutcomeMatchesOrder).
- `SleevesStaySound` (SleeveIsSound). A sleeve that was never sized past an open order
  or a fill has one open order at most, which fits under its gross cap or in its lots
  as they are now. The Manager's job has seen the cash it spends, and one purchase at
  most is under way or held, unless its order was filled between the job's looks.
- `AccountStaysSound` (AccountIsSound): as long as every order was submitted in the
  account that was looked at, one order at most is open and the account can bear it,
  and any job past the guard carries what the account it saw can bear.

### Jobs and brokers: `Jobs_proofs`, `Adapters_proofs`

The Manager's jobs, for any sleeves, inputs, answers, period, weeks and restarts:

- `PeriodIsKept` (ReallocationsAreSpaced): two jobs past the check of the date have
  overlapped; a job about to ask is still due; the week last asked in is that of the
  job that has asked or, when there is none, the stamp, unless a crash cut one off.
- `RegimeIsOfItsInputs` (RegimeIsCurrent): the fingerprint is that of the regime on
  record, except while the job is about to write it.
- `WeightsStaySane` (WeightsAreSane): what a job is about to write is clamped, and file
  and temporary file hold such weights or, after two jobs at once, half a file.
- `CatchUpComesToItsStamp` (OverdueIsCaughtUp): the catch-up a boot has scheduled is
  followed from stage to stage in the week it began in, while the Friday job, which
  may stamp the week first, takes any steps beside it.

News and dives, for any news, symbols, holdings, days, errors and crashes:

- `OneExtraDiveAWeek` (ExtraDivesAreRare): the extra dives of a week exceed one by no
  more than the dives that a crash or an error after them left unmarked. A week
  without the mark has seen only such dives and the one under way; with the mark, one
  more.
- `EveryHighImpactIsTold` (HighImpactIsAnnounced): a scoring job under way has a
  batch and an item, and a high impact on record was announced or is the item being
  announced.
- `NobodyIsPassedOver` (RotationIsFair): of the turns a symbol waited for, each but
  one went to a symbol that is behind it ever since. The odd one is the turn of
  another on the day the symbol had an extra dive.

The brokers, for any orders, callers, dry-run ids, prices and restarts:

- `OneIdPerOrder` (SubmitIsIdempotent): a caller inside `submit_order` is in the
  adapter of the kind in use; the in-flight mark is in `_submitted` exactly while one
  caller holds the claim; the ids given for an order are the one in the table (dry
  run) or the server's one id of it. No id equals one of the two marks
  (`NameAssumption`).
- `AnswersStayTrue` (AnswersAreTrue), from three invariants: what Alpaca's server
  has, some process registered, and a call nobody waits for has timed out
  (`Registered`); what the stream delivered, what it carries and what it lost come
  to what was executed (`Carried`); the price of a dry-run order is fetched by one
  caller at a time and shown as it is kept, but for the races the property names
  (`Stable`).

### Sums: `SumTheorems`

The sums, minima and maxima of the community modules are folds, about which nothing is
known of a set of any size. `SumTheorems` proves that the recursion under the fold
has a solution on every finite set, by induction on the number of elements as a set
of numbers without a least counterexample, and from it how a sum changes with one
element, that sums are monotone, that a sum may be taken group by group, and that a
minimum is the smallest element.

### Liveness

Fairness speaks of ENABLED, which the prover treats as an unknown, so every theorem
about liveness has a hypothesis that the prover cannot take from it.

- `SpentBudgetTrips`, `TicksOutliveTheBroker` and `CatchUpComesToItsStamp` take their
  specification's fairness and `[]WatcherCanRun`, `[]TickCanGoOn` or `[]CatchUpCanRun`:
  at the named stages the fair step can be taken. TLC found the three hold in every
  state of the instances of `budget` and `strategy`.
- The reconciler's three take, for a process that stays up, that passes come to their
  comparison (`PassesCompare`), that every order that stays open is asked about
  (`OpenOrdersAreAsked`) and that trading comes to rest (`TradingEnds`). A pass has a
  stage for each order and a life a bounded number of submissions and fills: that
  fairness brings the pass through them is induction on that number inside temporal
  logic. TLC found the three to be properties of `LiveSpecRec` on the instance of
  `reconciler`.

The hypotheses were checked in runs of their own and are not among the properties of
the runs listed above. They say that the thread goes on, never what it finds: what a
comparison or an answer must lead to, beside any interleaving, is what is proved.

### Model-checked only

Every safety property and action property of a passing run is a theorem. Of the
liveness properties, EveryItemIsTried is left to TLC: a scoring job has a stage for
each item of a batch, so that its chain of leads-to is as long as a set of any size.
TighteningSettles, MismatchFlips and RangeIsAnswered fail, see below. The six
hypotheses above are TLC's word alone.

## Findings

`v_ladder`: `update_on_mark` publishes the ladder event while it holds the tracker's
`threading.Lock`; the application's handler (`app.py:2074`) builds the Manager's
state and asks the same tracker for it on the same thread. The lock is never
released, the bucket never set, and every later mark, dispatch and fill waits; the
snapshotter, which marks on its own thread, is stopped with it. The tracker says
that failures of the publication are swallowed and that the transition matters more
than its delivery.

`v_break`: the reconciler's docstring has a mismatch of one share or one dollar flip
the kill switch (`reconciler.py:12`). The comparison takes its price from the
broker's position (`reconciler.py:273`), and a position that is closed there has
none: half a share left in the books, whatever it is worth, counts for nothing, pass
after pass. DifferenceIsNoticed is about the differences that do count.

`v_range`: the cache's header and the comment at `bar_cache.py:170` have it cover the
historical part of a range, and missing ranges fetched. Only the last date is looked
at: after a caller with a short look-back, one with a long look-back finds yesterday
cached, fetches today alone, and its answer lacks the early days although the source
has them. OnlyEarlyDaysLack is what remains true.

Seen while modelling, without a run of their own:

- OMS: a fill after a cancel is refused by the FSM but logged, and the replay
  forces the state, so a restart reopens or rewrites the order; an order without a
  broker id is cancelled locally although the broker may have it; recovery does not
  ask about orders that replay as terminal; a Robinhood lookup that fails answers
  None, and recovery abandons a working order.
- Reconciler: expected positions are computed before `list_positions` is asked
  (`reconciler.py:281`), so a fill that executes in between on flat books is
  adopted as an orphan and booked again when the stream delivers it; a poll
  measures the missing quantity against a snapshot and books a fill the stream
  delivered meanwhile again; a failed `list_positions` clears a break; only the
  first five mismatches alert, the sixth not until others clear; no "cleared"
  message after a restart; the alert's key suppresses a second trip within a
  minute. `reconcile_oms_after_flatten` commits its rollback in a dry run.
- Budget and kill switch: nothing clears BUDGET_EXHAUSTED at midnight; a heartbeat
  clears a spent-budget halt it has overwritten, and the watcher's latch keeps it
  cleared; a call that straddles midnight turns the ledger back to the day before;
  `update_nav` and `update_daily_pnl` are called by tests only, so the daily-loss and
  drawdown halts never engage.
- Tracker: tracker and engine count losses separately, so the engine benches only at
  the ninth loss; missing marks after a failed `list_positions` leave unrealized P&L
  out, which makes a false drawdown or a false lasting peak; the "30-day rolling
  high" is an all-time high; `rebuild_from_ledger` is never called.
- Books: a sell beyond the open lots is marked booked and dropped; attribution and
  lots may disagree on the order of lots of one day, on dust and on over-sells.
- Dispatch: the options cap sees no positions and the parsers set no legs, so
  openings of options are always vetoed; the gate's `capped_weight` is ignored;
  intents of a dive are not in `intent_log`; `record_sale` and `record_letf_open` are
  never called, so wash-sale and rotation rules never bite; the ladder's directive
  and the brief are never cleared.
- Manager: an answer with a NaN weight makes the clamp (`app.py:1828`) raise and
  ends the job without a stamp, and the model has no such answer; the fingerprint
  leaves out the aggregate equity; weights are clamped relative to the base, not per
  step as the prompt says; the fingerprint is stored after a failed regime read and
  hides it.
- Research: a dive that failed answers `{}` and uses up the week's quota; one that
  succeeded but whose intent cannot be read or submitted does not (`app.py:2041`).
- Adapters: after a restart every Alpaca stream fill is a BUY of HAIKU;
  Robinhood answers enveloped under `data` lose their id; a dry-run order is unknown
  after a restart.
- Bars: a bar the source leaves out once is a hole for ever, like the days before the
  first one cached.
- Snapshots: prune compares ISO timestamps with SQLite's form and keeps up to a day
  longer; thinning keeps the earliest row even when its NAV is missing; the
  dashboard's current positions are the last held ones once the account is flat;
  threads of hung calls are left behind at every tick of an outage.

## Not modelled

In the OMS: prices and averages, the broker states NEW (taken with ACCEPTED) and
UNKNOWN (ignored by the code), subscribers that raise inside a publish, disk errors.
In the reconciler: sells and short positions, a price per position rather than per
instrument, the message per symbol. In the adapters: account figures, OAuth, the
stream thread's reconnects. In the application: the volatility scanner, the Sunday
critique and the morning brief (prompts whose answers change later prompts only),
wiring and `main()`. The statistics of calibration and analytics, market-data
sources and files keyed by content, the backtest, configuration and the dashboard's
other views are computations or I/O without a protocol. The approval queue has no
caller.

## Plan

Done: `OrderFsm`, `OMS` with `FillLedger`, `KillState`, `Reconciler`, `Budget`,
`LotLedger`, `Tracker` with `Ladder`, `Dispatch`, `Research`, `Adapters`, `Strategy`,
`Bars`, `Snapshots`, and the proofs of every safety property that runs check. Next:

1. Theorems: EveryItemIsTried and the six hypotheses of the theorems about liveness,
   once the prover has ENABLED and temporal induction.
2. Abstract specifications: a ledger of lots as a bag of fills for `LotLedger`, one
   venue for the three brokers of `Adapters`.
3. Modules: the volatility scanner with its shock events, the alert's window of
   repeats.
