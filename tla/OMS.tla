-------------------------------- MODULE OMS --------------------------------
(***************************************************************************)
(* The order management system of execution/oms.py, its append-only event  *)
(* log (execution/oms_store.py), the broker behind the Broker protocol     *)
(* (execution/broker.py) and the trade-update stream that carries the      *)
(* broker's events back.                                                   *)
(*                                                                         *)
(* Covered: submit (accepted, rejected, BrokerUnavailable with and without *)
(* the order reaching the broker, retried by the caller), local and broker *)
(* cancels, stream events that are delayed or lost, the process dying at   *)
(* any point including between two appends of one handler, and recover():  *)
(* replay of the log followed by the reconciliation of each open order,    *)
(* one broker lookup at a time, any of which may raise.                    *)
(*                                                                         *)
(* Three abstractions.  The log is read only by _replay_log, a left fold   *)
(* of _apply_logged_event over the rows in append order; it is kept here   *)
(* as the value of that fold, order by order, so that to append a row is   *)
(* to apply ApplyLoggedEvent to durable[o].  An order has one broker id    *)
(* for ever (the protocol's idempotency contract), so ids are Booleans.    *)
(* Quantities are whole units; Qty is the size of every order, and the     *)
(* broker may call an order FILLED from NetQty units on, short of Qty      *)
(* where it keeps an in-kind fee or rounds.                                *)
(*                                                                         *)
(* Definitions named Mutant... are plausible bugs, not the code: each      *)
(* stands before the definition it is a variant of, and a property that    *)
(* holds of the code is shown to fail of the variant.                      *)
(***************************************************************************)
EXTENDS Integers, Sequences, OrderFsm

CONSTANTS
  Order,          \* the orders ever created by the agents
  Qty,            \* units of each order
  NetQty,         \* least quantity of an order the broker calls FILLED
  MaxTries,       \* submissions of one order by its caller (bounds retries)
  MaxFills,       \* largest total of fills recover() is repeated on (a bound)
  SyncCallbacks,  \* TRUE: the broker may call back inside submit_order
  Faults,         \* which of FaultKinds the environment shows
  NoOrder         \* no submit_order call is in progress

\* LateArrival: a request whose caller saw BrokerUnavailable, or died, still
\* reaches the broker.  FindReturnsNone: find_order_by_client_id answers None
\* for an order the broker holds.  RecoverTwice: recover() runs on a live OMS,
\* as a test does, with no broker event on its way.
FaultKinds == {"LateArrival", "FindReturnsNone", "RecoverTwice"}

ASSUME QtyAssumption == Qty \in Nat \ {0} /\ NetQty \in 1..Qty
ASSUME TriesAssumption == MaxTries \in Nat \ {0} /\ MaxFills \in Nat
ASSUME SyncAssumption == SyncCallbacks \in BOOLEAN
ASSUME FaultsAssumption == Faults \subseteq FaultKinds
ASSUME NoOrderAssumption == NoOrder \notin Order

VARIABLES
  mode,     \* the process: down, recovering (inside recover()) or up
  mem,      \* _orders, _fsms, _broker_id_to_order, _fills_by_order
  durable,  \* what replaying the log into an empty OMS gives
  call,     \* the order whose submit_order holds the lock, or NoOrder
  tries,    \* submissions each order's caller has used up
  pending,  \* open orders recover() has not asked the broker about yet
  wire,     \* requests sent to the broker that it has not processed
  broker,   \* the broker's own record of each order
  stream    \* per order, the broker events not yet delivered

vars == <<mode, mem, durable, call, tries, pending, wire, broker, stream>>

-----------------------------------------------------------------------------
(* Data *)

\* One order in memory: the Order snapshot's state, broker_order_id and
\* filled_qty, its FSM, whether _broker_id_to_order knows it, and the total
\* of _fills_by_order.  The state "NONE" is an order the OMS does not know.
OrderRec ==
  [state : OrderState \cup {"NONE"}, fsm : OrderState, bid : BOOLEAN,
   mapped : BOOLEAN, filled : Nat, fills : Nat]

Unknown == [state |-> "NONE", fsm |-> "PENDING", bid |-> FALSE,
            mapped |-> FALSE, filled |-> 0, fills |-> 0]

\* The order as its caller hands it in; the reverse map is keyed by broker id
\* and keeps what an earlier attempt put there.
Pending(mapped) == [state |-> "PENDING", fsm |-> "PENDING", bid |-> FALSE,
                    mapped |-> mapped, filled |-> 0, fills |-> 0]

BrokerState == {"NONE", "ACCEPTED", "PARTIALLY_FILLED", "FILLED",
                "CANCELED", "REJECTED", "EXPIRED"}

BrokerRec == [state : BrokerState, filled : 0..Qty]

\* A BrokerOrderEvent; qty is the payload of a fill event.  upto, the broker's
\* cumulative quantity at that event, is not read by the OMS.
BrokerEvent == [state : BrokerState \ {"NONE"}, qty : 0..Qty,
                upto : 0..Qty]

LogKind == {"SUBMIT_INTENT", "ACCEPTED", "REJECTED", "FILL_RECEIVED",
            "CANCELLED", "EXPIRED"}

IsOpen(r) == r.state \notin TerminalStates \cup {"NONE"}
LiveAtBroker(b) == b.state \in {"ACCEPTED", "PARTIALLY_FILLED"}
IsFullyFilled(filled) == filled >= Qty

-----------------------------------------------------------------------------
(* The log: what one row does when it is replayed *)

\* The FSM is triggered but the snapshot's state is forced, arc or no arc.
ForceState(r, e, state) == [r EXCEPT !.fsm = Trigger(@, e), !.state = state]

ApplyLoggedEvent(r, kind, qty) ==
  CASE kind = "SUBMIT_INTENT" ->
         [r EXCEPT !.state = "SUBMITTED", !.fsm = Trigger("PENDING", "SUBMIT"),
                   !.bid = FALSE, !.filled = 0]
    [] kind = "ACCEPTED" ->
         ForceState([r EXCEPT !.bid = TRUE, !.mapped = TRUE], "ACCEPT", "ACCEPTED")
    [] kind = "REJECTED" -> ForceState(r, "REJECT", "REJECTED")
    [] kind = "FILL_RECEIVED" ->
         LET f == [r EXCEPT !.filled = @ + qty, !.fills = @ + qty]
         IN  IF IsFullyFilled(f.filled)
             THEN ForceState(f, "FULL_FILL", "FILLED")
             ELSE ForceState(f, "PARTIAL_FILL", "PARTIAL")
    [] kind = "CANCELLED" -> ForceState(r, "CANCEL", "CANCELLED")
    [] kind = "EXPIRED" -> ForceState(r, "EXPIRE", "EXPIRED")

-----------------------------------------------------------------------------
(* The handlers, on one order as a pair of its live and durable record *)

Book == [live : OrderRec, dur : OrderRec]

\* OMSStore.append.
Append1(p, kind, qty) == [p EXCEPT !.dur = ApplyLoggedEvent(@, kind, qty)]

\* _transition: without an arc the snapshot keeps its state.
Transition(p, e) ==
  IF CanTrigger(p.live.fsm, e)
  THEN [p EXCEPT !.live.fsm = Trigger(@, e),
                 !.live.state = Trigger(p.live.fsm, e)]
  ELSE p

RecordAccepted(p) ==
  IF p.live.bid
  THEN p
  ELSE LET q == Append1(p, "ACCEPTED", 0)
       IN  Transition([q EXCEPT !.live.bid = TRUE, !.live.mapped = TRUE],
                      "ACCEPT")

\* The fill is counted before it is persisted, and the append forgotten.
MutantHandleFillUnlogged(p, qty) ==
  LET r == [p EXCEPT !.live.filled = @ + qty, !.live.fills = @ + qty]
  IN  Transition(r, IF IsFullyFilled(r.live.filled)
                    THEN "FULL_FILL" ELSE "PARTIAL_FILL")

\* The snapshot's state is set outright, as the replay does.
MutantHandleFillForced(p, qty) ==
  LET q == Append1(p, "FILL_RECEIVED", qty)
      full == IsFullyFilled(q.live.filled + qty)
  IN  [q EXCEPT !.live.filled = @ + qty, !.live.fills = @ + qty,
                !.live.fsm = Trigger(@, IF full THEN "FULL_FILL"
                                                ELSE "PARTIAL_FILL"),
                !.live.state = IF full THEN "FILLED" ELSE "PARTIAL"]

HandleFill(p, qty) ==
  LET q == Append1(p, "FILL_RECEIVED", qty)
      r == [q EXCEPT !.live.filled = @ + qty, !.live.fills = @ + qty]
  IN  Transition(r, IF IsFullyFilled(r.live.filled)
                    THEN "FULL_FILL" ELSE "PARTIAL_FILL")

\* force_close_filled appends nothing.
ForceCloseFilled(p) ==
  IF p.live.state \in TerminalStates THEN p ELSE Transition(p, "FULL_FILL")

HandleCancellation(p) ==
  IF p.live.state \in TerminalStates
  THEN p ELSE Transition(Append1(p, "CANCELLED", 0), "CANCEL")

HandleRejection(p) ==
  IF p.live.state \in TerminalStates
  THEN p ELSE Transition(Append1(p, "REJECTED", 0), "REJECT")

HandleExpiry(p) ==
  IF p.live.state \in TerminalStates
  THEN p ELSE Transition(Append1(p, "EXPIRED", 0), "EXPIRE")

\* _on_broker_event: no fill is ever compared with the state or with fills
\* already recorded.
OnBrokerEvent(p, e) ==
  CASE p.live.state = "NONE" -> p
    [] p.live.state # "NONE" /\ e.state = "ACCEPTED" ->
         IF p.live.mapped THEN p ELSE RecordAccepted(p)
    [] p.live.state # "NONE" /\ e.state \in {"PARTIALLY_FILLED", "FILLED"} ->
         HandleFill(p, e.qty)
    [] p.live.state # "NONE" /\ e.state = "CANCELED" -> HandleCancellation(p)
    [] p.live.state # "NONE" /\ e.state = "REJECTED" -> HandleRejection(p)
    [] p.live.state # "NONE" /\ e.state = "EXPIRED" -> HandleExpiry(p)

LocalState(bstate) ==
  CASE bstate = "ACCEPTED" -> "ACCEPTED"
    [] bstate = "PARTIALLY_FILLED" -> "PARTIAL"
    [] bstate = "FILLED" -> "FILLED"
    [] bstate = "CANCELED" -> "CANCELLED"
    [] bstate = "REJECTED" -> "REJECTED"
    [] bstate = "EXPIRED" -> "EXPIRED"

BrokerStateMatches(r, b) ==
  r.bid /\ r.filled = b.filled /\ LocalState(b.state) = r.state

\* The broker's cumulative quantity is booked instead of the difference.
MutantCatchUpFillWhole(p, b) ==
  LET q == RecordAccepted(p)
  IN  IF b.filled > q.live.filled THEN HandleFill(q, b.filled) ELSE q

\* _catch_up_from_broker, in its three stages: the broker id, the quantity,
\* the state.
CatchUpFill(p, b) ==
  LET q == RecordAccepted(p)
  IN  IF b.filled > q.live.filled
      THEN HandleFill(q, b.filled - q.live.filled) ELSE q

\* The last stage runs without the fill stage.
MutantCatchUpStateOnly(p, b) ==
  LET q == RecordAccepted(p)
  IN  CASE b.state = "CANCELED" -> HandleCancellation(q)
        [] b.state = "REJECTED" -> HandleRejection(q)
        [] b.state = "EXPIRED" -> HandleExpiry(q)
        [] b.state = "FILLED" -> ForceCloseFilled(q)
        [] b.state \in {"ACCEPTED", "PARTIALLY_FILLED"} -> q

CatchUpFromBroker(p, b) ==
  LET q == CatchUpFill(p, b)
  IN  CASE b.state = "CANCELED" -> HandleCancellation(q)
        [] b.state = "REJECTED" -> HandleRejection(q)
        [] b.state = "EXPIRED" -> HandleExpiry(q)
        [] b.state = "FILLED" -> ForceCloseFilled(q)
        [] b.state \in {"ACCEPTED", "PARTIALLY_FILLED"} -> q

-----------------------------------------------------------------------------
(* State helpers *)

Pair(o) == [live |-> mem[o], dur |-> durable[o]]

Update(o, p) == /\ mem' = [mem EXCEPT ![o] = p.live]
                /\ durable' = [durable EXCEPT ![o] = p.dur]

\* The broker publishes an event; nobody listens before the stream starts,
\* which App.start does after recover().
Emit(o, state, qty, upto) ==
  stream' = IF mode = "up"
            THEN [stream EXCEPT ![o] =
                    Append(@, [state |-> state, qty |-> qty, upto |-> upto])]
            ELSE stream

\* The lock is free for another thread.
LockFree == mode = "up" /\ call = NoOrder

Init ==
  /\ mode = "up"
  /\ mem = [o \in Order |-> Unknown]
  /\ durable = [o \in Order |-> Unknown]
  /\ call = NoOrder
  /\ tries = [o \in Order |-> 0]
  /\ pending = {}
  /\ wire = {}
  /\ broker = [o \in Order |-> [state |-> "NONE", filled |-> 0]]
  /\ stream = [o \in Order |-> <<>>]

-----------------------------------------------------------------------------
(* submit_order: the lock is held from the intent to the broker's answer *)

\* SUBMIT_INTENT is appended and the order set to SUBMITTED before the broker
\* is called.  A retry passes the PENDING order again and starts it over.
SubmitOrder(o) ==
  /\ LockFree
  /\ tries[o] < MaxTries
  /\ tries' = [tries EXCEPT ![o] = @ + 1]
  /\ LET p == Append1(Pair(o), "SUBMIT_INTENT", 0)
         fresh == [p EXCEPT !.live = Pending(mem[o].mapped)]
     IN  Update(o, Transition(fresh, "SUBMIT"))
  /\ call' = o
  /\ wire' = wire \cup {o}
  /\ UNCHANGED <<mode, pending, broker, stream>>

\* The broker returned an id: recorded unless a callback already did.
SubmitAccepted(o) ==
  /\ mode = "up" /\ call = o
  /\ broker[o].state # "NONE"
  /\ IF mem[o].mapped THEN UNCHANGED <<mem, durable>>
                      ELSE Update(o, RecordAccepted(Pair(o)))
  /\ call' = NoOrder
  /\ tries' = [tries EXCEPT ![o] = MaxTries]
  /\ wire' = wire \ {o}
  /\ UNCHANGED <<mode, pending, broker, stream>>

\* BrokerRejection: the broker refused and keeps no record.
SubmitRejected(o) ==
  /\ mode = "up" /\ call = o
  /\ broker[o].state = "NONE"
  /\ Update(o, HandleRejection(Pair(o)))
  /\ call' = NoOrder
  /\ tries' = [tries EXCEPT ![o] = MaxTries]
  /\ wire' = wire \ {o}
  /\ UNCHANGED <<mode, pending, broker, stream>>

\* BrokerUnavailable is re-raised: the request may or may not have got through.
SubmitUnavailable(o) ==
  /\ mode = "up" /\ call = o
  /\ call' = NoOrder
  /\ wire' = IF "LateArrival" \in Faults THEN wire ELSE wire \ {o}
  /\ UNCHANGED <<mode, mem, durable, tries, pending, broker, stream>>

-----------------------------------------------------------------------------
(* Other entry points of the OMS *)

\* cancel_order.  Without a broker id the order is cancelled locally; with one
\* the broker is asked, and its CANCELED event does the rest.
CancelOrder(o) ==
  /\ LockFree
  /\ IsOpen(mem[o])
  /\ \/ /\ ~mem[o].bid
        /\ Update(o, Transition(Append1(Pair(o), "CANCELLED", 0), "CANCEL"))
        /\ UNCHANGED <<broker, stream>>
     \/ /\ mem[o].bid
        /\ LiveAtBroker(broker[o])
        /\ broker' = [broker EXCEPT ![o].state = "CANCELED"]
        /\ Emit(o, "CANCELED", 0, broker[o].filled)
        /\ UNCHANGED <<mem, durable>>
  /\ UNCHANGED <<mode, call, tries, pending, wire>>

\* A delivered event is not taken off and comes again.
MutantDeliverEventAgain(o) ==
  /\ mode = "up"
  /\ call = NoOrder \/ (SyncCallbacks /\ call = o)
  /\ stream[o] # <<>>
  /\ Update(o, OnBrokerEvent(Pair(o), Head(stream[o])))
  /\ UNCHANGED <<mode, call, tries, pending, wire, broker, stream>>

\* The stream thread delivers an order's next event; it waits for the lock,
\* unless the broker calls back from inside submit_order.
DeliverEvent(o) ==
  /\ mode = "up"
  /\ call = NoOrder \/ (SyncCallbacks /\ call = o)
  /\ stream[o] # <<>>
  /\ Update(o, OnBrokerEvent(Pair(o), Head(stream[o])))
  /\ stream' = [stream EXCEPT ![o] = Tail(@)]
  /\ UNCHANGED <<mode, call, tries, pending, wire, broker>>

-----------------------------------------------------------------------------
(* Crash and recovery *)

\* The process dies: memory, the callers' order objects and the undelivered
\* events are gone.
Stop ==
  /\ mode' = "down"
  /\ mem' = [o \in Order |-> Unknown]
  /\ call' = NoOrder
  /\ tries' = [o \in Order |-> IF tries[o] = 0 THEN 0 ELSE MaxTries]
  /\ pending' = {}
  /\ wire' = IF "LateArrival" \in Faults THEN wire ELSE {}
  /\ stream' = [o \in Order |-> <<>>]
  /\ UNCHANGED broker

Crash == mode # "down" /\ Stop /\ UNCHANGED durable

\* _replay_log: every logged order is rebuilt; the fills of an order already
\* in memory are kept and its logged ones appended to them.
ReplayLog ==
  mem' = [o \in Order |->
            IF durable[o].state = "NONE" THEN mem[o]
            ELSE [durable[o] EXCEPT !.fills = mem[o].fills + @]]

\* recover() starts: the log is replayed, the open orders remain to be checked.
Recover ==
  /\ \/ mode = "down"
     \/ /\ LockFree /\ "RecoverTwice" \in Faults
        /\ \A o \in Order : stream[o] = <<>> /\ mem[o].fills <= MaxFills
  /\ mode' = "recovering"
  /\ ReplayLog
  /\ pending' = {o \in Order : IsOpen(mem'[o])}
  /\ stream' = [o \in Order |-> <<>>]
  /\ UNCHANGED <<durable, call, tries, wire, broker>>

\* One turn of _reconcile_open_orders: no record means abandon, agreement
\* means nothing to do, anything else is caught up.
ReconcileOpenOrder(o) ==
  /\ mode = "recovering" /\ o \in pending
  /\ \/ /\ broker[o].state = "NONE" \/ "FindReturnsNone" \in Faults
        /\ Update(o, HandleRejection(Pair(o)))
     \/ /\ broker[o].state # "NONE"
        /\ BrokerStateMatches(mem[o], broker[o])
        /\ UNCHANGED <<mem, durable>>
     \/ /\ broker[o].state # "NONE"
        /\ ~BrokerStateMatches(mem[o], broker[o])
        /\ Update(o, CatchUpFromBroker(Pair(o), broker[o]))
  /\ pending' = pending \ {o}
  /\ UNCHANGED <<mode, call, tries, wire, broker, stream>>

\* The process dies between two appends of one catch-up.
CrashInCatchUp(o) ==
  /\ mode = "recovering" /\ o \in pending
  /\ broker[o].state # "NONE"
  /\ ~BrokerStateMatches(mem[o], broker[o])
  /\ \E p \in {RecordAccepted(Pair(o)), CatchUpFill(Pair(o), broker[o])} :
        durable' = [durable EXCEPT ![o] = p.dur]
  /\ Stop

\* recover() returns, or a lookup raised and App.start went on without it.
RecoverReturns ==
  /\ mode = "recovering"
  /\ mode' = "up"
  /\ pending' = {}
  /\ UNCHANGED <<mem, durable, call, tries, wire, broker, stream>>

-----------------------------------------------------------------------------
(* The broker *)

BrokerReceives(o) ==
  /\ o \in wire
  /\ wire' = wire \ {o}
  /\ IF broker[o].state = "NONE"
     THEN /\ broker' = [broker EXCEPT ![o].state = "ACCEPTED"]
          /\ Emit(o, "ACCEPTED", 0, 0)
     ELSE UNCHANGED <<broker, stream>>
  /\ UNCHANGED <<mode, mem, durable, call, tries, pending>>

BrokerFills(o) ==
  /\ LiveAtBroker(broker[o])
  /\ \E k \in 1..(Qty - broker[o].filled),
        state \in {"PARTIALLY_FILLED", "FILLED"} :
       LET total == broker[o].filled + k
       IN  /\ IF state = "FILLED" THEN total >= NetQty ELSE total < Qty
           /\ broker' = [broker EXCEPT ![o] = [state |-> state,
                                               filled |-> total]]
           /\ Emit(o, state, k, total)
  /\ UNCHANGED <<mode, mem, durable, call, tries, pending, wire>>

\* A venue cancel, a rejection after acceptance, the end of time in force.
BrokerEnds(o) ==
  /\ LiveAtBroker(broker[o])
  /\ \E state \in {"CANCELED", "REJECTED", "EXPIRED"} :
       /\ state = "REJECTED" => broker[o].filled = 0
       /\ broker' = [broker EXCEPT ![o].state = state]
       /\ Emit(o, state, 0, broker[o].filled)
  /\ UNCHANGED <<mode, mem, durable, call, tries, pending, wire>>

\* An event is lost: a reconnect of the websocket, or a payload-less fill.
LoseEvent(o) ==
  /\ stream[o] # <<>>
  /\ stream' = [stream EXCEPT ![o] = Tail(@)]
  /\ UNCHANGED <<mode, mem, durable, call, tries, pending, wire, broker>>

-----------------------------------------------------------------------------

OmsStep(o) ==
  \/ SubmitOrder(o) \/ SubmitAccepted(o) \/ SubmitRejected(o)
  \/ SubmitUnavailable(o) \/ CancelOrder(o) \/ DeliverEvent(o)
  \/ ReconcileOpenOrder(o) \/ CrashInCatchUp(o)

BrokerStep(o) ==
  BrokerReceives(o) \/ BrokerFills(o) \/ BrokerEnds(o) \/ LoseEvent(o)

Next ==
  \/ \E o \in Order : OmsStep(o) \/ BrokerStep(o)
  \/ Crash \/ Recover \/ RecoverReturns

Spec == Init /\ [][Next]_vars

TypeOK ==
  /\ mode \in {"down", "recovering", "up"}
  /\ mem \in [Order -> OrderRec]
  /\ durable \in [Order -> OrderRec]
  /\ call \in Order \cup {NoOrder}
  /\ tries \in [Order -> 0..MaxTries]
  /\ pending \subseteq Order
  /\ wire \subseteq Order
  /\ broker \in [Order -> BrokerRec]
  /\ stream \in [Order -> Seq(BrokerEvent)]

-----------------------------------------------------------------------------
(* Safety *)

\* No quantity is counted twice in an order's filled_qty, in memory or on
\* disk.  _handle_fill has no duplicate check, so this rests on each fill
\* having one way in: a stream event, or a catch-up while no stream is
\* connected.
NeverOverfilled ==
  \A o \in Order : /\ mem[o].filled <= broker[o].filled
                   /\ durable[o].filled <= broker[o].filled

\* Nor in the lists of fills that positions and lots are computed from, which
\* a restart rebuilds as they were: _fills_by_order and filled_qty are kept by
\* different assignments, live and in replay.
PositionIsSound ==
  \A o \in Order :
    /\ durable[o].fills <= broker[o].filled
    /\ mode # "down" => mem[o].fills = durable[o].fills

\* A crash at any moment loses nothing the running process knew: the log
\* replays to the same filled_qty, broker id and FSM.  The FSM may be ahead of
\* the log only where force_close_filled put it (FILLED).
CrashLosesNothing ==
  mode # "down" =>
    \A o \in Order :
      /\ mem[o].filled = durable[o].filled
      /\ mem[o].bid = durable[o].bid
      /\ mem[o].fsm = durable[o].fsm \/ mem[o].fsm = "FILLED"

\* Write-ahead: an order on its way to the broker, or held by it, is in the
\* log, so that a restart knows whom to ask about.
IntentBeforeBroker ==
  \A o \in Order :
    o \in wire \/ broker[o].state # "NONE" => durable[o].state # "NONE"

\* Once recover() has asked the broker about an order, the quantity held
\* locally is the broker's.  If the replayed snapshot and its FSM agreed, the
\* order stays open when the broker still works it, and ends as it ended there.
ReconciledOrderAgrees ==
  [][\A o \in Order :
       o \in pending \ pending' /\ mode' = "recovering" =>
         /\ mem'[o].filled = broker[o].filled
         /\ mem[o].state = mem[o].fsm /\ broker[o].state # "NONE" =>
              IF LiveAtBroker(broker[o])
              THEN IsOpen(mem'[o])
              ELSE mem'[o].state = LocalState(broker[o].state)]_vars

\* An end is one.  While the process runs, an order in a terminal state stays
\* in it, whatever stale, late or duplicate news the stream brings; and an order
\* given up as rejected, by the broker's answer or by recovery's "broker has no
\* record", is not working at the broker.
EndIsFinal ==
  /\ [][\A o \in Order :
          mode = "up" /\ mode' = "up" /\ mem[o].state \in TerminalStates
            => mem'[o].state = mem[o].state]_vars
  /\ [](\A o \in Order :
          mem[o].state = "REJECTED" => ~LiveAtBroker(broker[o]))

-----------------------------------------------------------------------------
(* The inductive invariant behind NeverOverfilled, CrashLosesNothing and   *)
(* IntentBeforeBroker (OMS_proofs)                                         *)

\* The live and the durable record of one order hold the same quantity and
\* broker id, and the same FSM unless force_close_filled ended the live one.
Agree(p) ==
  /\ p.live.filled = p.dur.filled
  /\ p.live.bid = p.dur.bid
  /\ p.live.fsm = p.dur.fsm \/ p.live.fsm = "FILLED"

\* The fills still to be delivered are executions the log does not count, each
\* later one on top of all earlier ones.
StreamIsAhead(o) ==
  \A i \in DOMAIN stream[o] :
    LET e == stream[o][i]
    IN  /\ e.upto <= broker[o].filled
        /\ durable[o].filled + e.qty <= e.upto
        /\ \A j \in 1..(i - 1) : stream[o][j].upto + e.qty <= e.upto

OrderInv(o) ==
  /\ mode # "up" => stream[o] = <<>>
  /\ mode = "down" => mem[o] = Unknown
  /\ mode # "down" => Agree(Pair(o))
  /\ durable[o].state = "NONE" => /\ durable[o] = Unknown /\ mem[o] = Unknown
                                  /\ o # call /\ o \notin pending
  /\ tries[o] = 0 => durable[o].state = "NONE"
  /\ o \in wire \/ broker[o].state # "NONE" => durable[o].state # "NONE"
  /\ broker[o].state = "NONE" => broker[o].filled = 0
  /\ durable[o].filled <= broker[o].filled
  /\ StreamIsAhead(o)

\* What every step preserves: together with TypeOK it is inductive.
IInv == (mode # "up" => call = NoOrder) /\ \A o \in Order : OrderInv(o)

-----------------------------------------------------------------------------
(* The OMS implements the ledger of fills *)

Ledger == INSTANCE FillLedger WITH
            Units <- Qty,
            executed <- [o \in Order |-> broker[o].filled],
            booked <- [o \in Order |-> durable[o].fills]

\* Every unit executed by the broker is logged at most once and never lost
\* again, across callbacks, crashes and recoveries.
LedgerSpec == Ledger!Spec
=============================================================================
