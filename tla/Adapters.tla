------------------------------ MODULE Adapters ------------------------------
(***************************************************************************)
(* The two brokers the application can be built with: AlpacaBroker, and    *)
(* RobinhoodBroker live or in dry run, behind the one protocol of          *)
(* execution/broker.py.  Any number of callers submit, cancel, look up and *)
(* poll; a call may be cut off before or after the server has acted; the   *)
(* process restarts and loses the adapter's tables.                        *)
(*                                                                         *)
(* The server is external: it keeps one order per client id (ref_id), and  *)
(* its id of an order is the order itself.                                 *)
(***************************************************************************)
EXTENDS Integers, FiniteSets, FiniteSetsExt

CONSTANTS
  Order,        \* client order ids
  SideOf,       \* the side of each order
  Size,         \* units an order asks for
  Lot,          \* what a unit counts
  Fee,          \* what the broker keeps of a unit of crypto that is bought
  Crypto,       \* the orders are for a crypto symbol
  Caller,       \* threads of the process that call the adapter
  Price,        \* prices a quote may show
  DryId,        \* ids of dry-run orders (a bound)
  MaxRestarts   \* restarts (a bound)

ASSUME AdaptersAssumption ==
  /\ SideOf \in [Order -> {"BUY", "SELL"}]
  /\ {Size, Lot, Fee, MaxRestarts} \subseteq Nat /\ Crypto \in BOOLEAN
  /\ IsFiniteSet(Order)

VARIABLES
  kind,        \* the broker in use: alpaca, live or dry (robinhood)
  at,          \* per caller: where it is in the adapter, for which order or id
  submitted,   \* RobinhoodBroker._submitted
  holder,      \* the caller inside _McpSdkClient.call_tool, which has a lock
  meta,        \* keys of AlpacaBroker._order_meta
  dryOrder,    \* RobinhoodBroker._dry_run_orders: id -> order
  dryFill,     \* RobinhoodBroker._dry_run_fills: id -> price
  server,      \* the broker's side of each order
  filled,      \* units of it that are filled
  late,        \* orders whose place call timed out and is still under way
  wire,        \* per order, units filled on Alpaca's stream, not yet delivered
  restarts,
  given,       \* history: ids given for an order since the start
  shown,       \* history: prices shown of a dry-run id
  raced,       \* history: dry-run ids with two price lookups at once
  enveloped,   \* history: placed orders whose answer had its id under "data"
  overslept,   \* history: orders a place call of which has timed out
  early,       \* history: orders submitted in an earlier life
  handed,      \* history: per order, the sides of the fills handed to the OMS
  counted,     \* history: and the quantity they add up to
  missed       \* history: units of fills the stream lost

tables == <<submitted, meta, dryOrder, dryFill>>
outside == <<server, filled, late, wire>>
delivered == <<handed, counted, missed>>
history == <<given, shown, raced, enveloped, overslept, early, delivered>>
vars == <<kind, at, holder, tables, outside, restarts, history>>

Unset == "none"
Lost == "lost"
Inflight == "__INFLIGHT__"
Nobody == "nobody"
NoPrice == "None"
Idle == [stage |-> "idle", of |-> Unset]

\* No id of an order and no price is one of the marks in the tables.
ASSUME NameAssumption ==
  /\ {Unset, Lost, Inflight} \cap (Order \cup DryId) = {}
  /\ Unset \notin Price

Init ==
  /\ kind \in {"alpaca", "live", "dry"}
  /\ at = [c \in Caller |-> Idle] /\ holder = Nobody
  /\ submitted = [o \in Order |-> Unset] /\ meta = {}
  /\ dryOrder = [i \in DryId |-> Unset] /\ dryFill = [i \in DryId |-> Unset]
  /\ server = [o \in Order |-> "none"] /\ filled = [o \in Order |-> 0]
  /\ late = {} /\ wire = [o \in Order |-> 0] /\ restarts = 0
  /\ given = [o \in Order |-> {}] /\ shown = [i \in DryId |-> {}] /\ raced = {}
  /\ enveloped = {} /\ overslept = {} /\ early = {}
  /\ handed = [o \in Order |-> {}] /\ counted = [o \in Order |-> 0]
  /\ missed = [o \in Order |-> 0]

\* The caller goes on to a stage for the same order, or comes back with an
\* outcome (got, rejected, unavailable), which is a stage too.
Goes(c, stage) == at' = [at EXCEPT ![c].stage = stage]

Gets(c, id) == Goes(c, "got") /\ given' = [given EXCEPT ![at[c].of] = @ \cup {id}]

\* The caller takes the outcome and leaves.
Return(c) ==
  /\ at[c].stage \in {"got", "rejected", "unavailable", "absent", "refused"}
  /\ at' = [at EXCEPT ![c] = Idle]
  /\ UNCHANGED <<kind, holder, tables, outside, restarts, history>>

Begins(c, stage, x) ==
  /\ at[c] = Idle
  /\ at' = [at EXCEPT ![c] = [stage |-> stage, of |-> x]]

-----------------------------------------------------------------------------
(* AlpacaBroker *)

\* find_order_by_client_id: what is known, or a failure.
FindOutcomes(o) ==
  {"unavailable"} \cup IF server[o] = "none" THEN {"absent"} ELSE {"got"}

\* submit_order: the order is registered before the request leaves.
AlpacaSubmit(c, o) ==
  /\ kind = "alpaca"
  /\ Begins(c, "send", o)
  /\ meta' = meta \cup {o}
  /\ UNCHANGED <<kind, holder, submitted, dryOrder, dryFill, outside, restarts,
                 history>>

\* The request: the order is taken, and the answer arrives or is lost; it is
\* refused (400, 403, 404) or answered 422, for a duplicate id or another
\* fault; or it never arrives.
AlpacaSend(c) ==
  /\ at[c].stage = "send"
  /\ LET o == at[c].of IN
       \/ /\ server[o] = "none" /\ server' = [server EXCEPT ![o] = "working"]
          /\ Gets(c, o) \/ (Goes(c, "unavailable") /\ UNCHANGED given)
       \/ /\ server[o] = "none"
          /\ Goes(c, "rejected") /\ UNCHANGED <<server, given>>
       \/ /\ \E s \in {"lookup", "unavailable"} : Goes(c, s)
          /\ UNCHANGED <<server, given>>
  /\ UNCHANGED <<kind, holder, tables, filled, late, wire, restarts, shown, raced,
                 enveloped, overslept, early, delivered>>

\* A 422 is a rejection, whatever it is about.
MutantAlpacaLookup(c) ==
  /\ at[c].stage = "lookup"
  /\ Goes(c, "rejected")
  /\ UNCHANGED <<kind, holder, tables, outside, restarts, history>>

\* After a 422: the order's id if the broker has it, else a rejection.
AlpacaLookup(c) ==
  /\ at[c].stage = "lookup"
  /\ LET o == at[c].of IN
       \/ "got" \in FindOutcomes(o) /\ Gets(c, o)
       \/ "absent" \in FindOutcomes(o) /\ Goes(c, "rejected") /\ UNCHANGED given
       \/ Goes(c, "unavailable") /\ UNCHANGED given
  /\ UNCHANGED <<kind, holder, tables, outside, restarts, shown, raced,
                 enveloped, overslept, early, delivered>>

\* The broker fills a unit of an order and says so on the stream (external).
Fill(o) ==
  /\ kind # "dry" /\ server[o] = "working"
  /\ filled' = [filled EXCEPT ![o] = @ + 1]
  /\ server' = [server EXCEPT ![o] = IF filled'[o] = Size THEN "filled" ELSE @]
  /\ wire' = IF kind = "alpaca" THEN [wire EXCEPT ![o] = @ + 1] ELSE wire
  /\ UNCHANGED <<kind, at, holder, tables, late, restarts, history>>

\* The side of an order as the adapter knows it when its fill arrives: an
\* order this process did not submit is taken for a BUY.
StreamSide(o) == IF o \in meta THEN SideOf[o] ELSE "BUY"

\* What n filled units count on a side: the fee of a crypto buy is kept in
\* kind, that of a sale in dollars.
Net(n, side) == n * IF Crypto /\ side = "BUY" THEN Lot - Fee ELSE Lot

\* _on_update and _trade_update_to_event; OMS._handle_fill then corrects the
\* agent and the symbol, not the side.
Deliver(o) ==
  /\ wire[o] > 0 /\ wire' = [wire EXCEPT ![o] = @ - 1]
  /\ handed' = [handed EXCEPT ![o] = @ \cup {StreamSide(o)}]
  /\ counted' = [counted EXCEPT ![o] = @ + Net(1, StreamSide(o))]
  /\ UNCHANGED <<kind, at, holder, tables, server, filled, late, restarts, given,
                 shown, raced, enveloped, overslept, early, missed>>

\* The stream breaks, and what it carried is gone when it is back (external).
StreamBreaks ==
  /\ \E o \in Order : wire[o] > 0
  /\ missed' = [o \in Order |-> missed[o] + wire[o]]
  /\ wire' = [o \in Order |-> 0]
  /\ UNCHANGED <<kind, at, holder, tables, server, filled, late, restarts, given,
                 shown, raced, enveloped, overslept, early, handed, counted>>

\* What get_order shows of an order: Alpaca's is net of the fee too.
AlpacaTranslateOrder(o) ==
  [side |-> SideOf[o], filled |-> Net(filled[o], SideOf[o])]

RobinhoodTranslateOrder(o) == [side |-> SideOf[o], filled |-> filled[o] * Lot]

TranslateOrder(o) ==
  IF kind = "alpaca" THEN AlpacaTranslateOrder(o) ELSE RobinhoodTranslateOrder(o)

\* What the orders add up to, sales against buys.
SignedSum(qty) ==
  LET signed == [o \in Order |-> IF SideOf[o] = "BUY" THEN qty[o] ELSE 0 - qty[o]]
  IN MapThenSumSet(LAMBDA o : signed[o], Order)

\* The position as the broker keeps it: an amount, and long or short
\* (external).
Position ==
  LET sum == SignedSum([o \in Order |-> Net(filled[o], SideOf[o])])
  IN IF sum < 0 THEN [qty |-> 0 - sum, side |-> "short"]
     ELSE [qty |-> sum, side |-> "long"]

\* list_positions with _translate_position: one signed quantity.
TranslatePosition(p) == IF p.side = "short" THEN 0 - p.qty ELSE p.qty

-----------------------------------------------------------------------------
(* RobinhoodBroker: submit_order *)

\* Under the lock: the id there is, or "retry" while another caller is at it,
\* or the claim.
Claim(c, o) ==
  /\ kind \in {"live", "dry"}
  /\ CASE submitted[o] = Inflight ->
            Begins(c, "unavailable", o) /\ UNCHANGED <<submitted, given>>
       [] submitted[o] = Unset ->
            /\ Begins(c, IF kind = "dry" THEN "dry" ELSE "review", o)
            /\ submitted' = [submitted EXCEPT ![o] = Inflight]
            /\ UNCHANGED given
       [] OTHER -> /\ Begins(c, "got", o)
                   /\ given' = [given EXCEPT ![o] = @ \cup {submitted[o]}]
                   /\ UNCHANGED submitted
  /\ UNCHANGED <<kind, holder, meta, dryOrder, dryFill, outside, restarts, shown,
                 raced, enveloped, overslept, early, delivered>>

\* A dry run: a fresh id, recorded with its order.
DryPlace(c) ==
  /\ at[c].stage = "dry"
  /\ \E i \in DryId : dryOrder[i] = Unset
  /\ LET i == CHOOSE i \in DryId : dryOrder[i] = Unset IN
       /\ submitted' = [submitted EXCEPT ![at[c].of] = i]
       /\ dryOrder' = [dryOrder EXCEPT ![i] = at[c].of]
       /\ Gets(c, i)
  /\ UNCHANGED <<kind, holder, meta, dryFill, outside, restarts, shown, raced,
                 enveloped, overslept, early, delivered>>

\* review_equity_order: a failure is only logged.
Review(c) ==
  /\ at[c].stage = "review" /\ holder = Nobody
  /\ Goes(c, "place")
  /\ UNCHANGED <<kind, holder, tables, outside, restarts, history>>

\* call_tool: one at a time.
CallPlace(c) ==
  /\ at[c].stage = "place" /\ holder = Nobody
  /\ holder' = c /\ Goes(c, "calling")
  /\ UNCHANGED <<kind, tables, outside, restarts, history>>

\* The server takes the order, once (external).
ServerPlaces(c) ==
  /\ at[c].stage = "calling"
  /\ server' = [server EXCEPT ![at[c].of] = IF @ = "none" THEN "working" ELSE @]
  /\ Goes(c, "answered")
  /\ UNCHANGED <<kind, holder, tables, filled, late, wire, restarts, history>>

MutantRelease(o, how) ==
  submitted' = IF how = "rejected" THEN submitted
               ELSE [submitted EXCEPT ![o] = Unset]

\* Every failure gives the claim back.
Release(o, how) == submitted' = [submitted EXCEPT ![o] = Unset]

\* The call ends: with a tool error, a broken connection or the timeout, after
\* which the coroutine goes on; with an answer that shows its id; or with one
\* that does not, as it is wrapped under "data".
PlaceEnds(c) ==
  /\ at[c].stage \in {"calling", "answered"} /\ holder' = Nobody
  /\ LET o == at[c].of IN
       \/ /\ at[c].stage = "calling" /\ server[o] = "none"
          /\ Goes(c, "rejected") /\ Release(o, "rejected")
          /\ UNCHANGED <<late, given, enveloped, overslept>>
       \/ /\ Goes(c, "unavailable") /\ Release(o, "unavailable")
          /\ UNCHANGED <<late, given, enveloped, overslept>>
       \/ /\ at[c].stage = "calling"
          /\ Goes(c, "unavailable") /\ Release(o, "unavailable")
          /\ late' = late \cup {o} /\ overslept' = overslept \cup {o}
          /\ UNCHANGED <<given, enveloped>>
       \/ /\ at[c].stage = "answered"
          /\ submitted' = [submitted EXCEPT ![o] = o] /\ Gets(c, o)
          /\ UNCHANGED <<late, enveloped, overslept>>
       \/ /\ at[c].stage = "answered"
          /\ Goes(c, "rejected") /\ Release(o, "rejected")
          /\ enveloped' = enveloped \cup {o}
          /\ UNCHANGED <<late, given, overslept>>
  /\ UNCHANGED <<kind, meta, dryOrder, dryFill, server, filled, wire, restarts, shown,
                 raced, early, delivered>>

\* A call nobody waits for reaches the server after all, or fails.
LateCall(o) ==
  /\ o \in late /\ late' = late \ {o}
  /\ \/ server' = [server EXCEPT ![o] = IF @ = "none" THEN "working" ELSE @]
     \/ UNCHANGED server
  /\ UNCHANGED <<kind, at, holder, tables, filled, wire, restarts, history>>

-----------------------------------------------------------------------------
(* Lookups and cancellation *)

\* The server cancels what it works, whether its answer arrives or not.
Cancels(c, o) ==
  /\ server[o] = "working" /\ server' = [server EXCEPT ![o] = "canceled"]
  /\ \E s \in {"got", "unavailable"} : Begins(c, s, o)

\* AlpacaBroker.cancel_order: done, refused, or not reached.
AlpacaCancel(c, o) ==
  /\ kind = "alpaca"
  /\ \/ Cancels(c, o)
     \/ server[o] # "working" /\ Begins(c, "refused", o) /\ UNCHANGED server
     \/ Begins(c, "unavailable", o) /\ UNCHANGED server
  /\ UNCHANGED <<kind, holder, tables, filled, late, wire, restarts, history>>

\* RobinhoodBroker.cancel_order: nothing in a dry run; every failure is one
\* of the connection.
RobinhoodCancel(c, o) ==
  /\ \/ kind = "dry" /\ Begins(c, "got", o) /\ UNCHANGED server
     \/ kind = "live" /\ Cancels(c, o)
     \/ kind = "live" /\ Begins(c, "unavailable", o) /\ UNCHANGED server
  /\ UNCHANGED <<kind, holder, tables, filled, late, wire, restarts, history>>

\* find_order_by_client_id: Robinhood's says None when the call fails, and
\* always in a dry run.
Find(c, o) ==
  /\ holder = Nobody
  /\ \E s \in CASE kind = "alpaca" -> FindOutcomes(o)
                [] kind = "live" -> (FindOutcomes(o) \ {"unavailable"}) \cup {"absent"}
                [] OTHER -> {"absent"} :
       Begins(c, s, o)
  /\ UNCHANGED <<kind, holder, tables, outside, restarts, history>>

\* AlpacaBroker.get_order: an id the broker does not know is a rejection.
AlpacaGetOrder(c, o) ==
  /\ kind = "alpaca"
  /\ \E s \in {"unavailable", IF server[o] = "none" THEN "refused" ELSE "got"} :
       Begins(c, s, o)
  /\ UNCHANGED <<kind, holder, tables, outside, restarts, history>>

\* RobinhoodBroker.get_order: an empty list is a failure like any other.
RobinhoodGetOrder(c, o) ==
  /\ kind = "live" /\ holder = Nobody
  /\ \E s \in {"unavailable", IF server[o] = "none" THEN "unavailable" ELSE "got"} :
       Begins(c, s, o)
  /\ UNCHANGED <<kind, holder, tables, outside, restarts, history>>

\* get_order of a dry-run id, _simulate_fill: an id of an earlier life is
\* unknown; a price looked up before is used again; else it is looked up,
\* outside the lock.
Simulate(c, i) ==
  /\ dryOrder[i] # Unset
  /\ CASE dryOrder[i] = Lost -> Begins(c, "unavailable", i) /\ UNCHANGED <<shown, raced>>
       [] dryOrder[i] # Lost /\ dryFill[i] # Unset ->
            /\ Begins(c, "got", i)
            /\ shown' = [shown EXCEPT ![i] = @ \cup {dryFill[i]}]
            /\ UNCHANGED raced
       [] OTHER ->
            /\ Begins(c, "price", i)
            /\ raced' = IF \E d \in Caller : at[d] = [stage |-> "price", of |-> i]
                        THEN raced \cup {i} ELSE raced
            /\ UNCHANGED shown
  /\ UNCHANGED <<kind, holder, tables, outside, restarts, given, enveloped,
                 overslept, early, delivered>>

\* The quote, the limit price, or neither: all three are remembered.
Simulated(c) ==
  /\ at[c].stage = "price"
  /\ \E p \in Price \cup {NoPrice} :
       /\ dryFill' = [dryFill EXCEPT ![at[c].of] = p]
       /\ shown' = [shown EXCEPT ![at[c].of] = @ \cup {p}]
  /\ Goes(c, "got")
  /\ UNCHANGED <<kind, holder, submitted, meta, dryOrder, outside, restarts,
                 given, raced, enveloped, overslept, early, delivered>>

-----------------------------------------------------------------------------
\* The process ends and a new one builds its broker; what the stream carried
\* is lost.  Dry-run ids are not given twice (uuid4).
Restart ==
  /\ restarts < MaxRestarts /\ restarts' = restarts + 1
  /\ at' = [c \in Caller |-> Idle] /\ holder' = Nobody
  /\ submitted' = [o \in Order |-> Unset] /\ meta' = {}
  /\ dryOrder' = [i \in DryId |-> IF dryOrder[i] = Unset THEN Unset ELSE Lost]
  /\ dryFill' = [i \in DryId |-> Unset]
  /\ late' = {} /\ wire' = [o \in Order |-> 0]
  /\ missed' = [o \in Order |-> missed[o] + wire[o]]
  /\ given' = [o \in Order |-> {}]
  /\ early' = early \cup meta
  /\ UNCHANGED <<kind, server, filled, shown, raced, enveloped, overslept, handed,
                 counted>>

Next ==
  \/ \E c \in Caller, o \in Order :
       AlpacaSubmit(c, o) \/ Claim(c, o) \/ Find(c, o)
       \/ AlpacaCancel(c, o) \/ RobinhoodCancel(c, o)
       \/ AlpacaGetOrder(c, o) \/ RobinhoodGetOrder(c, o)
  \/ \E c \in Caller :
       \/ AlpacaSend(c) \/ AlpacaLookup(c)
       \/ DryPlace(c) \/ Review(c) \/ CallPlace(c) \/ ServerPlaces(c) \/ PlaceEnds(c)
       \/ Simulated(c) \/ Return(c)
  \/ \E c \in Caller, i \in DryId : Simulate(c, i)
  \/ StreamBreaks
  \/ \E o \in Order : Fill(o) \/ Deliver(o) \/ LateCall(o)
  \/ Restart

Spec == Init /\ [][Next]_vars

-----------------------------------------------------------------------------
(* Properties *)

AtIt(o) == {c \in Caller : /\ at[c].of = o
                           /\ at[c].stage \in {"dry", "review", "place", "calling",
                                               "answered"}}

\* Submission is idempotent: a claim is held by exactly one caller that will
\* give it back or replace it, so that no order is locked out for ever; and
\* whoever gets an id for an order in one life of the process gets the same
\* one (RobinhoodBroker.submit_order; "return the SAME broker_order_id").
SubmitIsIdempotent ==
  \A o \in Order :
    /\ Cardinality(AtIt(o)) = IF submitted[o] = Inflight THEN 1 ELSE 0
    /\ Cardinality(given[o]) <= 1

RejectionIsTrue(c) ==
  (at[c].stage # "rejected" /\ at'[c].stage = "rejected")
    => \/ server[at[c].of] = "none" /\ at[c].of \notin late
       \/ at[c].of \in enveloped' \cup overslept

FillsAreTrue ==
  \A o \in Order \ early :
    /\ handed[o] \subseteq {TranslateOrder(o).side}
    /\ kind = "alpaca" =>
         counted[o] + Net(wire[o] + missed[o], SideOf[o]) = TranslateOrder(o).filled

PositionIsTrue ==
  kind = "alpaca" /\ early = {} =>
    TranslatePosition(Position)
      = SignedSum([o \in Order |-> TranslateOrder(o).filled])

PricesAreStable == \A i \in DryId \ raced : Cardinality(shown[i]) <= 1

\* What a caller is told is true.
\*
\* Of a rejection: the broker does not have the order and no call is under way
\* that might still place it - but for Robinhood's answers under "data", and
\* place calls given up after a minute.
\*
\* Of a fill: on the stream it has the order's side when this process submitted
\* it, whatever became of the request (_order_meta), and the quantities handed
\* on, net of the fee, are what polling the order shows and what the position
\* moved by, but for what the stream lost ("so OMS books match the broker
\* position").  In a dry run it keeps its price however often it is polled,
\* unless two polls looked it up at the same time (_simulate_fill: "a stable
\* fill price").
AnswersAreTrue ==
  /\ [][\A c \in Caller : RejectionIsTrue(c)]_vars
  /\ []FillsAreTrue /\ []PositionIsTrue /\ []PricesAreStable
=============================================================================
