----------------------------- MODULE Reconciler -----------------------------
(***************************************************************************)
(* The reconciler thread of execution/reconciler.py beside the OMS, the    *)
(* broker and the trade-update stream.                                     *)
(*                                                                         *)
(* One pass takes a snapshot of the open orders, asks the broker about     *)
(* each of them in turn and hands the difference to the OMS as a           *)
(* synthesized event, then compares the positions the OMS expects with the *)
(* broker's, adopts positions the OMS knows nothing of and trips the kill  *)
(* switch on any other that counts.  The OMS lock is held for each read    *)
(* and each write, never from one to the next: agents, the stream thread   *)
(* and the broker run between any two steps of a pass.                     *)
(*                                                                         *)
(* Every order is a buy, and an instrument has one price.  A quantity is a *)
(* number of units; a share (QtyTolerance) may have several of them.  At   *)
(* its end the pass announces a change of the kill switch to the operator  *)
(* (ops/alerts.py, ops/telegram.py); passes are a minute apart, so that no *)
(* message repeats within the minute in which repeats are dropped.  The    *)
(* message sent for each mismatched symbol is left out.                    *)
(*                                                                         *)
(* While the process is down the operator may run the maintenance scripts  *)
(* of scripts/ against the broker and the log.                             *)
(***************************************************************************)
EXTENDS OMS, KillState, FiniteSetsExt

CONSTANTS
  Symbol,      \* the instruments traded
  SymbolOf,    \* the instrument of each order
  Price,       \* what a unit of each instrument costs
  QtyTolerance,     \* the least difference that counts whatever it is worth
  DollarTolerance,  \* what a smaller difference may be worth
  FeeQty,      \* fix_solusd_break: the in-kind fee written off
  NoStatus,    \* no broker status has been fetched
  Silence      \* no message about the last announced change got through

\* The broker's answer about one order.
Answer == [order : Order, state : BrokerState, filled : 0..Qty]

ASSUME SymbolAssumption == SymbolOf \in [Order -> Symbol]
ASSUME NoStatusAssumption == NoStatus \notin Answer
ASSUME FeeAssumption == FeeQty \in Nat
ASSUME ToleranceAssumption ==
  Price \in [Symbol -> Nat] /\ QtyTolerance \in Nat \ {0} /\ DollarTolerance \in Nat

VARIABLES
  streaming,  \* start_stream() succeeded at the last start
  pass,       \* the reconciler thread: idle, orders or positions
  todo,       \* orders the pass still has to ask about, or to sum up
  seen,       \* the snapshot: state and filled_qty of each order
  fetched,    \* the broker's answer about one order, not yet applied
  expected,   \* the positions computed from the OMS's fills
  ghost,      \* units adopted less units written off: ghost orders, logged
  zeroed,     \* units sold by the ghost-flatten orders in the log
  sold,       \* units sold at the broker by hand
  kill,       \* the kill switch
  announced,  \* _last_kill_state
  told        \* what the operator last heard, or Silence: the message was lost

passVars == <<pass, todo, seen, fetched, expected>>
bookVars == <<ghost, zeroed, sold>>
alertVars == <<announced, told>>
recVars == <<streaming, passVars, bookVars, kill, alertVars>>

\* The sum of f[x] over the elements x of S.
SumOf(f, S) == MapThenSumSet(LAMBDA x : f[x], S)

OrdersOf(s) == {o \in Order : SymbolOf[o] = s}
Position(s) ==
  ghost[s] - zeroed[s] + SumOf([o \in Order |-> mem[o].fills], OrdersOf(s))
BrokerPosition(s) ==
  SumOf([o \in Order |-> broker[o].filled], OrdersOf(s)) - sold[s]

InitRec ==
  /\ Init
  /\ streaming \in BOOLEAN
  /\ pass = "idle"
  /\ todo = {}
  /\ seen = [o \in Order |-> [state |-> "NONE", filled |-> 0]]
  /\ fetched = NoStatus
  /\ expected = [s \in Symbol |-> 0]
  /\ ghost = [s \in Symbol |-> 0]
  /\ zeroed = [s \in Symbol |-> 0]
  /\ sold = [s \in Symbol |-> 0]
  /\ kill = "OK" /\ announced = "OK" /\ told = "OK"

-----------------------------------------------------------------------------
(* One pass: reconcile_once *)

\* The heartbeat check, then the snapshot; orders without a broker id are
\* passed over.
StartPass ==
  /\ LockFree /\ pass = "idle"
  /\ \E overdue \in BOOLEAN : kill' = CheckHeartbeat(kill, overdue)
  /\ pass' = "orders"
  /\ todo' = {o \in Order : IsOpen(mem[o]) /\ mem[o].bid}
  /\ seen' = [o \in Order |-> [state |-> mem[o].state,
                               filled |-> mem[o].filled]]
  /\ UNCHANGED <<vars, streaming, fetched, expected, bookVars, alertVars>>

\* get_order answers.
FetchStatus(o) ==
  /\ mode = "up" /\ pass = "orders" /\ fetched = NoStatus
  /\ o \in todo
  /\ fetched' = [order |-> o, state |-> broker[o].state,
                 filled |-> broker[o].filled]
  /\ UNCHANGED <<vars, streaming, pass, todo, seen, expected, bookVars, kill,
                 alertVars>>

\* get_order raises: the order is left for the next pass.
FetchFails(o) ==
  /\ mode = "up" /\ pass = "orders" /\ fetched = NoStatus
  /\ o \in todo
  /\ todo' = todo \ {o}
  /\ UNCHANGED <<vars, streaming, pass, seen, fetched, expected, bookVars, kill,
                 alertVars>>

\* _status_requires_update: any broker state but ACCEPTED, since the snapshot
\* holds open orders only.
StatusRequiresUpdate(bstate) ==
  bstate \in {"FILLED", "PARTIALLY_FILLED", "CANCELED", "REJECTED", "EXPIRED"}

\* The broker's cumulative quantity is booked instead of the difference.
MutantPolledBooksWhole(p, s, b) ==
  CASE b.state \in {"PARTIALLY_FILLED", "FILLED"} /\ b.filled > s.filled ->
         HandleFill(p, b.filled)
    [] b.state = "FILLED" /\ b.filled <= s.filled -> ForceCloseFilled(p)
    [] b.state = "PARTIALLY_FILLED" /\ b.filled <= s.filled -> p
    [] b.state \notin {"PARTIALLY_FILLED", "FILLED"} ->
         OnBrokerEvent(p, [state |-> b.state, qty |-> 0])

\* An order the broker calls FILLED short of its size is not closed.
MutantPolledBooksOpen(p, s, b) ==
  CASE b.state \in {"PARTIALLY_FILLED", "FILLED"} ->
         IF b.filled > s.filled THEN HandleFill(p, b.filled - s.filled) ELSE p
    [] b.state \notin {"PARTIALLY_FILLED", "FILLED"} ->
         OnBrokerEvent(p, [state |-> b.state, qty |-> 0])

\* What the reconciler makes the OMS do about one order: the missing quantity,
\* measured against the snapshot, as a fill; a FILLED order without missing
\* quantity is closed; a fill event without a fill is ignored.
PolledBooks(p, s, b) ==
  CASE b.state \in {"PARTIALLY_FILLED", "FILLED"} /\ b.filled > s.filled ->
         HandleFill(p, b.filled - s.filled)
    [] b.state = "FILLED" /\ b.filled <= s.filled -> ForceCloseFilled(p)
    [] b.state = "PARTIALLY_FILLED" /\ b.filled <= s.filled -> p
    [] b.state \notin {"PARTIALLY_FILLED", "FILLED"} ->
         OnBrokerEvent(p, [state |-> b.state, qty |-> 0])

ApplyStatus(o) ==
  /\ LockFree /\ pass = "orders"
  /\ fetched # NoStatus /\ fetched.order = o
  /\ IF StatusRequiresUpdate(fetched.state)
     THEN Update(o, PolledBooks(Pair(o), seen[o], fetched))
     ELSE UNCHANGED <<mem, durable>>
  /\ todo' = todo \ {o}
  /\ fetched' = NoStatus
  /\ UNCHANGED <<mode, call, tries, pending, wire, broker, stream,
                 streaming, pass, seen, expected, bookVars, kill, alertVars>>

\* _compute_expected_positions: list_orders is one read, get_fills one read
\* per order.  Only this thread adds ghost orders.
ComputeExpected ==
  /\ LockFree /\ pass = "orders" /\ todo = {}
  /\ pass' = "positions"
  /\ todo' = {o \in Order : mem[o].state # "NONE"}
  /\ expected' = [s \in Symbol |-> ghost[s] - zeroed[s]]
  /\ UNCHANGED <<vars, streaming, seen, fetched, bookVars, kill, alertVars>>

SumFills(o) ==
  /\ LockFree /\ pass = "positions" /\ o \in todo
  /\ expected' = [expected EXCEPT ![SymbolOf[o]] = @ + mem[o].fills]
  /\ todo' = todo \ {o}
  /\ UNCHANGED <<vars, streaming, pass, seen, fetched, bookVars, kill,
                 alertVars>>

\* AlertManager posts to ntfy and to Telegram; a post that fails is logged and
\* not repeated.
Posted == BOOLEAN

\* Only what this pass did to the switch is announced.
MutantAnnounce(k) ==
  /\ announced' = k
  /\ \E ntfy, telegram \in Posted :
       told' = CASE k = kill -> told
                 [] k # kill /\ (ntfy \/ telegram) -> k
                 [] k # kill /\ ~(ntfy \/ telegram) -> Silence

\* The end of reconcile_once: the switch is announced when it is not what was
\* announced last, and counts as announced whether or not a post succeeds.
Announce(k) ==
  /\ announced' = k
  /\ \E ntfy, telegram \in Posted :
       told' = CASE k = announced -> told
                 [] k # announced /\ (ntfy \/ telegram) -> k
                 [] k # announced /\ ~(ntfy \/ telegram) -> Silence

Drift(ours, theirs) == IF ours > theirs THEN ours - theirs ELSE theirs - ours

\* A difference that does not count: less than the tolerance and worth no more
\* than a dollar, at the price of the broker's position; without a position
\* there is no price.
Tolerated(s, ours, theirs) ==
  LET price == IF theirs = 0 THEN 0 ELSE Price[s] IN
    Drift(ours, theirs) < QtyTolerance
      /\ Drift(ours, theirs) * price <= DollarTolerance

Differs(s) == ~Tolerated(s, expected[s], BrokerPosition(s))

\* A position the OMS has no record of.
IsOrphan(s) == Differs(s) /\ expected[s] = 0 /\ BrokerPosition(s) > 0

\* A filled ghost order of the whole position is put into memory and log.
AdoptOrphanPosition(s) ==
  IF IsOrphan(s) THEN ghost[s] + BrokerPosition(s) ELSE ghost[s]

Mismatched == {s \in Symbol : Differs(s) /\ ~IsOrphan(s)}

\* The break is cleared at the end of every pass.
MutantComparePositions ==
  /\ LockFree /\ pass = "positions" /\ todo = {}
  /\ ghost' = [s \in Symbol |-> AdoptOrphanPosition(s)]
  /\ kill' = IF Mismatched # {} THEN "OK" ELSE ClearReconciliationBreak(kill)
  /\ Announce(kill')
  /\ pass' = "idle"
  /\ UNCHANGED <<vars, streaming, todo, seen, fetched, expected, zeroed, sold>>

\* list_positions answers: orphans are adopted into ghost orders, any other
\* difference trips the switch, agreement clears it.  What the pass does after
\* the answer touches only ghost orders and the switch, so that nothing tells
\* the answer and its use apart.
ComparePositions ==
  /\ LockFree /\ pass = "positions" /\ todo = {}
  /\ ghost' = [s \in Symbol |-> AdoptOrphanPosition(s)]
  /\ kill' = IF Mismatched # {} THEN "RECONCILIATION_BREAK"
                                ELSE ClearReconciliationBreak(kill)
  /\ Announce(kill')
  /\ pass' = "idle"
  /\ UNCHANGED <<vars, streaming, todo, seen, fetched, expected, zeroed, sold>>

\* list_positions raises: (0, False) is returned, which is no mismatch.
PositionsUnavailable ==
  /\ mode = "up" /\ pass = "positions" /\ todo = {}
  /\ kill' = ClearReconciliationBreak(kill)
  /\ Announce(kill')
  /\ pass' = "idle"
  /\ UNCHANGED <<vars, streaming, todo, seen, fetched, expected, bookVars>>

-----------------------------------------------------------------------------
(* The rest of the system *)

\* The heartbeat writer's next beat.
Heartbeat ==
  /\ mode = "up"
  /\ kill' = RecordHeartbeat(kill)
  /\ UNCHANGED <<vars, streaming, passVars, bookVars, alertVars>>

\* The pass and the kill switch live in memory; ghost orders are in the log.  No
\* message says that a restart cleared the switch: the operator is taken to know.
\* adopt_orphan_position logs an intent, an acceptance and a fill: cut short,
\* the ghost replays as an open order the broker has no record of, and recover()
\* abandons it.
CrashRec ==
  /\ Crash
  /\ pass' = "idle" /\ todo' = {} /\ fetched' = NoStatus
  /\ seen' = [o \in Order |-> [state |-> "NONE", filled |-> 0]]
  /\ expected' = [s \in Symbol |-> 0]
  /\ kill' = "OK" /\ announced' = "OK" /\ told' = "OK"
  /\ UNCHANGED <<streaming, bookVars>>

\* App.start starts the reconciler and then the stream, if it will start.
StartThreads ==
  /\ RecoverReturns
  /\ streaming' \in BOOLEAN
  /\ UNCHANGED <<passVars, bookVars, kill, alertVars>>

-----------------------------------------------------------------------------
(* Maintenance, with the process stopped *)

\* flatten_alpaca_paper: the open orders are cancelled and every position is
\* sold.  The stream that would report it is not running.
Flatten ==
  /\ mode = "down"
  /\ \E s \in Symbol : BrokerPosition(s) > 0
  /\ broker' = [o \in Order |->
                  IF LiveAtBroker(broker[o])
                  THEN [broker[o] EXCEPT !.state = "CANCELED"] ELSE broker[o]]
  /\ sold' = [s \in Symbol |-> sold[s] + BrokerPosition(s)]
  /\ UNCHANGED <<mode, mem, durable, call, tries, pending, wire, stream,
                 streaming, passVars, ghost, zeroed, kill, alertVars>>

\* _compute_net_positions, the ghost-flatten orders apart.
NetLogged(s) ==
  ghost[s] + SumOf([o \in Order |-> durable[o].fills], OrdersOf(s))

\* reconcile_oms_after_flatten: earlier ghost-flatten orders are deleted, by a
\* dry run too; with --execute every net long is sold by a new one.  Run after
\* a flatten, as its documentation says.
ZeroOut(execute) ==
  /\ mode = "down" /\ \E s \in Symbol : sold[s] > 0
  /\ zeroed' = [s \in Symbol |->
                  IF execute /\ NetLogged(s) > 0 THEN NetLogged(s) ELSE 0]
  /\ UNCHANGED <<vars, streaming, passVars, ghost, sold, kill, alertVars>>

\* fix_solusd_break, run when the drift is the fee: book_fee_offset logs a sell.
BookFeeOffset(s) ==
  /\ mode = "down"
  /\ NetLogged(s) - zeroed[s] = BrokerPosition(s) + FeeQty
  /\ ghost' = [ghost EXCEPT ![s] = @ - FeeQty]
  /\ UNCHANGED <<vars, streaming, passVars, zeroed, sold, kill, alertVars>>

Maintenance ==
  \/ Flatten
  \/ \E execute \in BOOLEAN : ZeroOut(execute)
  \/ \E s \in Symbol : BookFeeOffset(s)

-----------------------------------------------------------------------------

OmsOrBroker(o) ==
  /\ \/ SubmitOrder(o) \/ SubmitAccepted(o) \/ SubmitRejected(o)
     \/ SubmitUnavailable(o) \/ CancelOrder(o)
     \/ (streaming /\ DeliverEvent(o))
     \/ ReconcileOpenOrder(o) \/ CrashInCatchUp(o)
     \/ BrokerStep(o)
  /\ UNCHANGED recVars

PassStep ==
  \/ StartPass \/ ComputeExpected \/ ComparePositions
  \/ \E o \in Order : FetchStatus(o) \/ ApplyStatus(o) \/ SumFills(o)

NextRec ==
  \/ \E o \in Order : OmsOrBroker(o) \/ FetchFails(o)
  \/ PassStep \/ PositionsUnavailable \/ Heartbeat \/ Maintenance
  \/ CrashRec \/ StartThreads \/ (Recover /\ UNCHANGED recVars)

allVars == <<vars, recVars>>

SpecRec == InitRec /\ [][NextRec]_allVars

\* The reconciler's thread is never stopped for good, a broker call ends, and
\* a request that is repeated every minute does not fail for ever.  Nothing is
\* assumed of the agents, the broker's executions, the stream or the heartbeat.
Fairness ==
  /\ WF_allVars(PassStep)
  /\ SF_allVars(ComparePositions)
  /\ \A o \in Order :
       /\ SF_allVars(FetchStatus(o))
       /\ WF_allVars((SubmitAccepted(o) \/ SubmitUnavailable(o))
                       /\ UNCHANGED recVars)

LiveSpecRec == SpecRec /\ Fairness

-----------------------------------------------------------------------------
(* Properties *)

\* Without a stream, the quantity a poll books is quantity the OMS misses: the
\* snapshot it is measured against is still what the OMS holds.
PolledFillIsMissing ==
  [][\A o \in Order :
       ApplyStatus(o) /\ ~streaming /\ mem'[o].filled > mem[o].filled
         => mem'[o].filled <= broker[o].filled]_allVars

\* Whatever was lost, delayed or counted twice, while the process stays up a
\* difference between the books and the broker that counts (of a share or more, or
\* worth more than a dollar of a position the broker has) is again and again found
\* gone or reported by the kill switch (_reconcile_positions).
DifferenceIsNoticed ==
  <>[](mode = "up") =>
    []<>(\/ \A s \in Symbol : Tolerated(s, Position(s), BrokerPosition(s))
         \/ kill = "RECONCILIATION_BREAK")

\* What the module says of itself: "A 1-share or $1 mismatch flips the system to
\* RECONCILIATION_BREAK" - also of what the broker has no position of any more,
\* which the code values at nothing (reconciler.py:12).
MismatchFlips ==
  <>[](mode = "up") =>
    []<>(\/ \A s \in Symbol :
              LET drift == Drift(Position(s), BrokerPosition(s)) IN
                drift < QtyTolerance /\ drift * Price[s] <= DollarTolerance
         \/ kill = "RECONCILIATION_BREAK")

\* An order the broker has ended does not stay open here while the process is
\* up, with or without a stream, whatever the broker calls its end and however
\* far its quantity falls short: polling settles it.  (A snapshot the replay
\* forced away from its FSM, by a cancel logged before a fill, is the exception.)
EndedOrderIsSettled ==
  <>[](mode = "up") =>
    \A o \in Order :
      []<>~(/\ IsOpen(mem[o]) /\ mem[o].bid /\ mem[o].state = mem[o].fsm
            /\ ~LiveAtBroker(broker[o]))

\* The operator hears of what the switch does, also of what it did between two
\* passes, unless no message about it got through: reconcile_once compares the
\* switch with what it announced last, not with what this pass found.
OperatorIsTold ==
  <>[](mode = "up") => []<>(told \in {kill, Silence})

\* What the proofs of the three take from TLC: while the process is up, the
\* thread comes to its comparison and to each open order again and again; and
\* trading, of a bounded quantity, comes to an end.
PassesCompare == <>[](mode = "up") => []<><<ComparePositions>>_allVars

OpenOrdersAreAsked ==
  \A o \in Order :
    <>[](mode = "up" /\ IsOpen(mem[o]) /\ mem[o].bid)
      => []<><<ApplyStatus(o)>>_allVars

Traded(o) == <<mem[o].fills, broker[o].filled>>

TradingEnds ==
  <>[](mode = "up") => <>[][\A o \in Order : UNCHANGED Traded(o)]_allVars
=============================================================================
