------------------------------ MODULE Dispatch ------------------------------
(***************************************************************************)
(* From an agent's answer to an order: App.build_agent_state,              *)
(* dispatch_observation, _opus_run_deep_dive and _submit_one_intent        *)
(* (app.py), what the agents make of a model's answer, the risk gate       *)
(* (risk.py), the Manager's review, the planner (planner.py), the account  *)
(* guard, the submission, the agents' memories with the outcome recorder   *)
(* (outcome_recorder.py), and the Manager's weekly reserve job.            *)
(*                                                                         *)
(* Dispatch jobs run on threads of their own; a review may take a minute;  *)
(* orders fill, are rejected or expire at any moment, and so does the kill *)
(* switch change.  Each stage reads what it reads in one step and leaves   *)
(* the rest of the system time to move before the next.                    *)
(*                                                                         *)
(* Everything costs 1, so quantity, notional and value are the same        *)
(* number, and an intent's weight is its target after volatility scaling.  *)
(* Orders fill whole (module OMS has the parts).                           *)
(***************************************************************************)
EXTENDS Integers, Sequences, FiniteSets, FiniteSetsExt

CONSTANTS
  Sleeve,        \* sleeve agents
  Cheap,         \* the one that goes on when the budget is spent (Haiku)
  Builder,       \* the one that builds a book and dives (Opus)
  Manager,       \* the Manager, who holds the reserve
  Symbol,
  Spy,           \* the symbol of the reserve
  Letf,          \* leveraged funds (LETF_WHITELIST)
  Thread,        \* dispatch jobs
  SleeveOf,      \* whose job it is
  Weight,        \* targets that answers name
  TargetHoldings, \* holdings of a full book
  Starter,       \* largest target of a purchase that builds the book
  OptionCap,     \* largest target of an intent for an option
  NameCap,       \* AGENT_SINGLE_NAME_CAPS
  BaseGross,     \* a sleeve's gross cap in bucket NORMAL
  ReviewFrom,    \* target from which the Manager reviews
  Band,          \* no order for a smaller difference
  Reserve,       \* size of the reserve
  Equity,        \* equity of the account
  Bucket,        \* drawdown buckets that occur
  BuyingPower,   \* buying power the broker may report
  MaxOrders      \* orders submitted (a bound)

ASSUME SleeveAssumption ==
  /\ {Cheap, Builder} \subseteq Sleeve /\ Cheap # Builder
  /\ Manager \notin Sleeve \cup Thread
  /\ IsFiniteSet(Symbol) /\ Spy \in Symbol /\ Letf \subseteq Symbol
  /\ SleeveOf \in [Thread -> Sleeve]
ASSUME NumberAssumption ==
  /\ Weight \subseteq Nat /\ BuyingPower \subseteq Nat
  /\ {BaseGross, ReviewFrom, Equity, MaxOrders} \subseteq Nat /\ Reserve \in Nat \ {0}
  /\ {TargetHoldings, Starter, OptionCap, NameCap} \subseteq Nat
  /\ Band \in Nat \ {0} /\ 0 \in Bucket /\ Bucket \subseteq 0..4

VARIABLES
  kill,      \* KillSwitchEngine._state: ok, blocked (no entries), budget
  th,        \* per dispatch job: its stage, what the agent was asked for
             \* (mode) and what it carries: the intent, the order, the
             \* sleeve's lots (own) and the account (all) it saw, and the
             \* number of the order it submitted
  job,       \* the reserve job
  lots,      \* per agent and symbol: open quantity in the lot ledger
  account,   \* per symbol: position at the broker
  orders,    \* submitted orders, each with the outcome on record of its
             \* intent, if the agent put the intent on record
  late,      \* history: per job, buys submitted since the kill switch tripped
  crossed,   \* history: sleeves that were sized past an open order or a fill
  passedBy,  \* history: an order was submitted past the account guard's view
  slipped    \* history: the reserve was filled between the job's two looks

books == <<lots, account>>
history == <<late, crossed, passedBy, slipped>>
vars == <<kill, th, job, books, orders, history>>

Agent == Sleeve \cup {Manager}
Action == {"buy", "sell", "rebalance", "close"}
Opening == {"buy", "rebalance"}
OrderIds == 1..MaxOrders
Stage == {"idle", "observed", "plan", "guard", "submit", "error"}
Mode == {"check", "start", "dive"}
NoOrder == [side |-> "none", qty |-> 0]
Nothing == [s \in Symbol |-> 0]
Quiet == [stage |-> "idle", mode |-> "check", bucket |-> 0, action |-> "close", sym |-> Spy,
          weight |-> 0, order |-> NoOrder, own |-> Nothing, all |-> 0,
          number |-> 0]

SumOf(f, S) == MapThenSumSet(LAMBDA x : f[x], S)
Gross(a) == SumOf(lots[a], Symbol)
Long == SumOf(account, Symbol)
Open == {i \in DOMAIN orders : orders[i].state = "open"}
OpenOf(a) == {i \in Open : orders[i].agent = a}

\* A bound: whatever may become an order has its number kept for it.
Pending ==
  {t \in Thread : th[t].stage \in {"plan", "guard", "submit"}}
    \cup {a \in {Manager} : job.stage # "idle"}
NumberLeft == Len(orders) + Cardinality(Pending) < MaxOrders

Init ==
  /\ kill = "ok"
  /\ th = [t \in Thread |-> Quiet]
  /\ job = [stage |-> "idle", seen |-> 0]
  /\ lots = [a \in Agent |-> Nothing] /\ account = Nothing
  /\ orders = <<>>
  /\ late = [t \in Thread |-> 0] /\ crossed = {}
  /\ passedBy = FALSE /\ slipped = FALSE

-----------------------------------------------------------------------------
(* dispatch_observation *)

At(t, stage) == th[t].stage = stage
Go(t, stage) == th' = [th EXCEPT ![t].stage = stage]

\* On to the next intent; a dive has no more than one.
Done(t) ==
  LET mode == th[t].mode
  IN th' = [th EXCEPT ![t] = IF mode = "dive" THEN Quiet
                             ELSE [Quiet EXCEPT !.stage = "observed", !.mode = mode]]

\* build_agent_state: the positions a sleeve is shown are those the broker
\* lists in symbols of its own lots, and none at all when the call fails.
Views(a) == {{s \in Symbol : account[s] # 0 /\ lots[a][s] > 0}, {}}

\* OpusAgent.observe: a book that shows too few holdings is being built.
ModeFor(a, view) ==
  IF a = Builder /\ Cardinality(view) < TargetHoldings THEN "start" ELSE "check"

\* The state is built and, unless its fingerprint is the last one, the agent
\* is asked.
Observe(t) ==
  /\ At(t, "idle")
  /\ kill = "budget" => SleeveOf[t] = Cheap
  /\ \E view \in Views(SleeveOf[t]) :
       th' = [th EXCEPT ![t].stage = "observed", ![t].mode = ModeFor(SleeveOf[t], view)]
  /\ UNCHANGED <<kill, job, books, orders, history>>

EndDispatch(t) ==
  /\ At(t, "observed")
  /\ th' = [th EXCEPT ![t] = Quiet]
  /\ UNCHANGED <<kill, job, books, orders, history>>

\* _opus_run_deep_dive asks neither the switch nor the fingerprint.
DeepDive(t) ==
  /\ At(t, "idle") /\ SleeveOf[t] = Builder
  /\ th' = [th EXCEPT ![t].stage = "observed", ![t].mode = "dive"]
  /\ UNCHANGED <<kill, job, books, orders, history>>

-----------------------------------------------------------------------------
(* What the agents make of an answer.  No parser fills in option legs.     *)

\* HaikuAgent._parse_intents
HaikuIntents == [action : Action, weight : Weight, kind : {"stock", "option"}]

\* SonnetAgent._parse_intents: "trim", "add" and "exit" become sell and buy.
SonnetIntents == [action : Action, weight : Weight, kind : {"stock"}]

\* OpusAgent._parse_daily_intents: starters are small.
OpusIntents(mode) ==
  {IF mode = "start" /\ i.action = "buy"
   THEN [i EXCEPT !.weight = Min({@, Starter})] ELSE i
     : i \in SonnetIntents}

\* OpusAgent.extract_deep_dive_intent: what is not on the list is a "hold".
DiveIntents == [action : Action \ {"close"}, weight : Weight, kind : {"stock"}]

Intents(t) ==
  CASE SleeveOf[t] = Cheap      -> HaikuIntents
    [] th[t].mode = "dive"      -> DiveIntents
    [] SleeveOf[t] = Builder    -> OpusIntents(th[t].mode)
    [] OTHER                    -> SonnetIntents

\* record_intent: what observe returns is on record; a dive's intent is not.
OnRecord(mode) == mode # "dive"

-----------------------------------------------------------------------------
(* The risk gate.  What the model leaves open (a bench, the age of a lot,  *)
(* a gross of 0 when the state was built) is one fact per intent.          *)

Fact == {"none", "benched", "aged", "flat"}

\* _check_wash_sale, of sales at a loss on record; nothing records one.
LossSales == {}
WashSale(a, s) == <<a, s>> \in LossSales

\* _check_letf: no more of a fund held too long.
HeldTooLong(a, s, fact) == lots[a][s] > 0 /\ fact = "aged"

\* _check_letf_rotation, of openings on record; nothing records one.
LetfOpenings(a) == 0
RotatesTooMuch(a) == LetfOpenings(a) >= 3

\* _check_options, for the positions the gate is given: none.
OverOptionCap(i) == i.weight > OptionCap

\* _check_options_structure: an opening without legs is naked.
Naked(i) == i.action \in Opening

\* can_open_new
CanOpenNew == kill = "ok"

\* The switch is asked when the agent is, not for every intent.
MutantVetoes(a, i, s, bucket, fact) ==
  \/ fact = "benched"
  \/ bucket = 4 /\ i.action \in Opening

\* check_intent.  A weight over the cap for one name skips the last check.
Vetoes(a, i, s, bucket, fact) ==
  LET opens == i.action \in Opening
  IN \/ opens /\ ~CanOpenNew
     \/ fact = "benched"
     \/ opens /\ (bucket = 4 \/ WashSale(a, s))
     \/ /\ i.kind = "stock" /\ s \in Letf /\ opens
        /\ HeldTooLong(a, s, fact) \/ RotatesTooMuch(a)
     \/ i.kind = "option" /\ (OverOptionCap(i) \/ Naked(i))
     \/ opens /\ fact = "flat" /\ i.weight <= NameCap

\* _evaluate_with_risk_gate: the intents that some facts let through, each
\* with its symbol and the sleeve's bucket.
Approved(t) ==
  {x \in Intents(t) \X Symbol \X Bucket :
     \E fact \in Fact : ~Vetoes(SleeveOf[t], x[1], x[2], x[3], fact)}

\* The next intent of the answer passes the gate (one that is vetoed leaves
\* no trace but its outcome).  Its bucket is the one get_state gives, which
\* moves as module Tracker says.
Gate(t) ==
  /\ At(t, "observed") /\ NumberLeft
  /\ \E x \in Approved(t) :
       th' = [th EXCEPT ![t] = [Quiet EXCEPT
                !.stage = "plan", !.mode = th[t].mode, !.action = x[1].action,
                !.weight = x[1].weight, !.sym = x[2], !.bucket = x[3]]]
  /\ UNCHANGED <<kill, job, books, orders, history>>

-----------------------------------------------------------------------------
(* _submit_one_intent, after the gate *)

\* risk_check and risk_check_lite: a decision, or {}, which decides nothing.
Reviews ==
  [decision : {"veto", "other"}, weight : {0}]
    \cup [decision : {"downsize"}, weight : Weight]

\* _maybe_manager_risk_check: small intents pass, and so does one whose
\* review fails; "downsize" takes any weight.  Empty after a veto.
Reviewed(r, review) ==
  CASE r.weight < ReviewFrom \/ review.decision = "other" -> {r}
    [] r.weight >= ReviewFrom /\ review.decision = "downsize" ->
         {[r EXCEPT !.weight = review.weight]}
    [] OTHER -> {}

\* _build_market_snapshot: the symbols that have bars have a mark.
Marks == SUBSET Symbol

\* effective_max_gross * sleeve_equity: a quarter less per bucket.
Cap(b) == (BaseGross * (4 - b)) \div 4

\* An order below the minimal notional is none.
Order(side, n) == IF n = 0 THEN NoOrder ELSE [side |-> side, qty |-> n]

\* The notional an intent aims at.
Target(r) == Min({r.weight, Cap(r.bucket)})

\* _plan_close: all that is held.
Closing(a, s) == Order("sell", lots[a][s])

\* Every order is sized as if nothing were held.
MutantSized(a, r) ==
  CASE r.action = "close" -> Closing(a, r.sym)
    [] r.action = "sell"  -> Order("sell", Min({lots[a][r.sym], Target(r)}))
    [] OTHER              -> Order("buy", Target(r))

\* plan: the difference to the target, as far as the action allows its
\* direction, if it is worth an order and the sleeve has room.
Sized(a, r) ==
  LET held == lots[a][r.sym]
      delta == Target(r) - held
      room == Gross(a) + delta <= Cap(r.bucket)
  IN CASE r.action = "close" \/ (r.action = "sell" /\ r.weight = 0)
                              -> Closing(a, r.sym)
       [] r.action \in Opening /\ delta >= Band /\ room
                              -> Order("buy", delta)
       [] r.action \in {"sell", "rebalance"} /\ held > 0 /\ -delta >= Band
                              -> Order("sell", Min({held, -delta}))
       [] OTHER               -> NoOrder

\* What the Manager lets through, if it has a mark and makes an order.
Planned(t) ==
  {r \in UNION {Reviewed(th[t], review) : review \in Reviews} :
     (\E marks \in Marks : r.sym \in marks) /\ Sized(SleeveOf[t], r) # NoOrder}

\* Vetoed by the Manager, without a mark, not sized; or planned.
Plan(t) ==
  /\ At(t, "plan")
  /\ \/ Done(t)
     \/ \E r \in Planned(t) :
          th' = [th EXCEPT ![t] = [Quiet EXCEPT
                   !.stage = "guard", !.mode = r.mode, !.sym = r.sym,
                   !.own = lots[SleeveOf[t]], !.order = Sized(SleeveOf[t], r)]]
  /\ UNCHANGED <<kill, job, books, orders, history>>

\* The leverage backstop alone.
MutantAllowed(n) == TRUE

\* _account_level_pre_check for a buy of n, given the account.
Allowed(n) == 2 * (Long + n) <= 3 * Equity

Guard(t) ==
  LET n == th[t].order.qty
      pass == th' = [th EXCEPT ![t].stage = "submit", ![t].all = Long]
  IN /\ At(t, "guard")
     /\ \/ th[t].order.side = "sell" /\ pass /\ UNCHANGED passedBy
        \/ /\ th[t].order.side = "buy"
           /\ \E bp \in BuyingPower :
                IF 10 * n <= 9 * bp /\ Allowed(n) THEN pass ELSE Done(t)
           /\ UNCHANGED passedBy
        \/ /\ th[t].order.side = "buy"             \* get_account failed
           /\ pass /\ passedBy' = TRUE
     /\ UNCHANGED <<kill, job, books, orders, late, crossed, slipped>>

-----------------------------------------------------------------------------
(* submit_order.  Whether the broker took an order that ended in           *)
(* BrokerUnavailable is not known; it may still fill.                      *)

\* record_outcome changes the row there is.
Outcome(o, what) == IF o.recorded THEN [o EXCEPT !.outcome = what] ELSE o

Submitted(a, s, order, recorded, state, raised) ==
  LET o == [agent |-> a, sym |-> s, side |-> order.side, qty |-> order.qty,
            state |-> state, raised |-> raised, recorded |-> recorded,
            outcome |-> "none"]
  IN orders' = Append(orders, IF state = "dead" THEN Outcome(o, "dead") ELSE o)

Past(a, own, all) ==
  /\ crossed' = crossed \cup {x \in Sleeve \cap {a} : OpenOf(a) # {} \/ lots[a] # own}
  /\ passedBy' = (passedBy \/ Open # {} \/ Long # all)

Submit(t) ==
  LET r == th[t]
      a == SleeveOf[t]
  IN /\ At(t, "submit")
     /\ \/ /\ \E state \in {"open", "dead"} :
                Submitted(a, r.sym, r.order, OnRecord(r.mode), state, FALSE)
           /\ Done(t)
        \/ /\ Submitted(a, r.sym, r.order, OnRecord(r.mode), "open", TRUE)
           /\ th' = [th EXCEPT ![t] = [Quiet EXCEPT !.stage = "error",
                                    !.mode = r.mode, !.number = Len(orders) + 1]]
     /\ Past(a, r.own, r.all)
     /\ late' = IF kill # "ok" /\ r.order.side = "buy"
                THEN [late EXCEPT ![t] = @ + 1] ELSE late
     /\ UNCHANGED <<kill, job, books, slipped>>

\* The exception is caught and the intent recorded as failed, whatever has
\* happened to the order meanwhile.
RecordError(t) ==
  /\ At(t, "error")
  /\ orders' = [orders EXCEPT ![th[t].number] = Outcome(@, "submit_error")]
  /\ Done(t)
  /\ UNCHANGED <<kill, job, books, history>>

-----------------------------------------------------------------------------
(* The Manager's reserve: look for lots, then for open orders, then at the *)
(* cash, then buy.  The job does not ask the kill switch.                  *)

Job(stage) == job' = [job EXCEPT !.stage = stage]

ReserveLots ==
  /\ job.stage = "idle" /\ NumberLeft
  /\ lots[Manager][Spy] = 0
  /\ Job("lots")
  /\ UNCHANGED <<kill, th, books, orders, history>>

ReserveOrders ==
  /\ job.stage = "lots"
  /\ IF OpenOf(Manager) = {} THEN Job("cash") ELSE Job("idle")
  /\ UNCHANGED <<kill, th, books, orders, history>>

ReserveCash ==
  /\ job.stage = "cash"
  /\ job' = IF Equity - Long >= Reserve THEN [stage |-> "buy", seen |-> Long]
            ELSE [job EXCEPT !.stage = "idle"]
  /\ UNCHANGED <<kill, th, books, orders, history>>

ReserveBuy ==
  /\ job.stage = "buy"
  /\ \E state \in {"open", "dead"} :
       Submitted(Manager, Spy, Order("buy", Reserve), FALSE, state, FALSE)
  /\ Past(Manager, lots[Manager], job.seen)
  /\ Job("idle")
  /\ UNCHANGED <<kill, th, books, late, slipped>>
-----------------------------------------------------------------------------
(* What the broker reports of an order: the lots first, then the tracker,  *)
(* then the recorder.                                                      *)

\* book_fill: a sell beyond the open lots closes none.
Booked(o) ==
  [lots EXCEPT ![o.agent][o.sym] =
     CASE o.side = "buy" -> @ + o.qty
       [] o.side = "sell" /\ o.qty <= @ -> @ - o.qty
       [] OTHER -> @]

Fill(i) ==
  LET o == orders[i]
  IN /\ i \in Open
     /\ orders' = [orders EXCEPT ![i] =
                     Outcome([@ EXCEPT !.state = "filled"], "filled")]
     /\ lots' = Booked(o)
     /\ account' = [account EXCEPT ![o.sym] =
                      IF o.side = "buy" THEN @ + o.qty ELSE @ - o.qty]
     /\ slipped' = (slipped \/ (o.agent = Manager /\ job.stage = "lots"))
     /\ UNCHANGED <<kill, th, job, late, crossed, passedBy>>

\* CANCELLED is no outcome.
MutantDie(i) ==
  /\ i \in Open
  /\ orders' = [orders EXCEPT ![i].state = "dead"]
  /\ UNCHANGED <<kill, th, job, books, history>>

\* Rejected, cancelled or expired.
Die(i) ==
  /\ i \in Open
  /\ orders' = [orders EXCEPT ![i] = Outcome([@ EXCEPT !.state = "dead"], "dead")]
  /\ UNCHANGED <<kill, th, job, books, history>>

-----------------------------------------------------------------------------
(* The kill switch: modules KillState, Reconciler and Budget.              *)

Trip ==
  /\ kill = "ok" /\ kill' \in {"blocked", "budget"}
  /\ late' = [t \in Thread |-> 0]
  /\ UNCHANGED <<th, job, books, orders, crossed, passedBy, slipped>>

Clear ==
  /\ kill # "ok" /\ kill' = "ok"
  /\ late' = [t \in Thread |-> 0]
  /\ UNCHANGED <<th, job, books, orders, crossed, passedBy, slipped>>

Next ==
  \/ \E t \in Thread : \/ Observe(t) \/ EndDispatch(t) \/ DeepDive(t)
                       \/ Gate(t) \/ Plan(t)
                       \/ Guard(t) \/ Submit(t) \/ RecordError(t)
  \/ ReserveLots \/ ReserveOrders \/ ReserveCash \/ ReserveBuy
  \/ \E i \in DOMAIN orders : Fill(i) \/ Die(i)
  \/ Trip \/ Clear

Spec == Init /\ [][Next]_vars

-----------------------------------------------------------------------------
(* Properties *)

\* Every variable has its type; in particular no order is for nothing (plan,
\* _plan_close) and no agent's lots go negative, whatever is filled.
TypeOK ==
  /\ kill \in {"ok", "blocked", "budget"}
  /\ \A t \in Thread :
       /\ th[t].stage \in Stage /\ th[t].mode \in Mode /\ th[t].bucket \in 0..4
       /\ th[t].action \in Action
       /\ th[t].sym \in Symbol /\ th[t].weight \in Weight \cup {0, Starter}
       /\ th[t].order.qty \in Nat /\ th[t].own \in [Symbol -> Nat]
       /\ th[t].all \in Int /\ th[t].number \in 0..Len(orders)
  /\ job.stage \in {"idle", "lots", "cash", "buy"} /\ job.seen \in Int
  /\ lots \in [Agent -> [Symbol -> Nat]] /\ account \in [Symbol -> Int]
  /\ Len(orders) <= MaxOrders
  /\ \A i \in DOMAIN orders :
       /\ orders[i].agent \in Agent /\ orders[i].sym \in Symbol
       /\ orders[i].side \in {"buy", "sell"} /\ orders[i].qty \in Nat \ {0}
       /\ orders[i].state \in {"open", "filled", "dead"}
       /\ orders[i].outcome \in {"none", "filled", "dead", "submit_error"}
  /\ late \in [Thread -> 0..MaxOrders] /\ crossed \subseteq Agent
  /\ passedBy \in BOOLEAN /\ slipped \in BOOLEAN

\* Every variable has its type.  A sleeve none of whose orders was sized on
\* lots another of its orders was about to change, or had changed since, never
\* holds more than its gross cap, and what it is selling it holds
\* (ExecutionPlanner.plan).  The Manager's reserve is bought once, unless its
\* order is filled between the job's look at the lots and its look at the open
\* orders (_job_manager_reserve_check).
SleeveIsSound ==
  /\ TypeOK
  /\ \A a \in Sleeve \ crossed :
       /\ Gross(a) <= BaseGross
       /\ \A i \in OpenOf(a) : orders[i].side = "sell" =>
            orders[i].qty <= lots[a][orders[i].sym]
  /\ ~slipped =>
       lots[Manager][Spy]
         + SumOf([i \in DOMAIN orders |-> orders[i].qty], OpenOf(Manager)) <= Reserve

\* As long as no order was submitted past the account guard, or while the
\* account it looked at was about to change or had changed, the account holds
\* at most one and a half times its equity (_account_level_pre_check, with
\* the reserve job's own cash check).
AccountIsSound == ~passedBy => 2 * Long <= 3 * Equity

\* After the kill switch has tripped a dispatch job sends at most one more
\* buy: the one that had passed the gate (check_intent, once per intent).
TripStopsEntries == \A t \in Thread : late[t] <= 1

\* What an agent's memory says of an intent whose order has ended is what
\* became of the order, unless submit_order raised: then it may say
\* submit_error of an order that was filled (OutcomeRecorder).  Of a dive's
\* intent and of the reserve it says nothing.
OutcomeMatchesOrder ==
  \A i \in DOMAIN orders :
    orders[i].state # "open" /\ orders[i].recorded =>
      \/ orders[i].outcome = orders[i].state
      \/ orders[i].raised /\ orders[i].outcome = "submit_error"

=============================================================================
