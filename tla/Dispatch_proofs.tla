--------------------------- MODULE Dispatch_proofs ---------------------------
(***************************************************************************)
(* Theorems about the way from an agent's answer to an order, for any      *)
(* sleeves, symbols, answers, weights, caps and outcomes at the broker:    *)
(* after the kill switch has tripped a dispatch job sends at most one more *)
(* buy, though only the gate asks the switch; a sleeve stays within what   *)
(* it was sized on, the account within what the guards looked at; and the  *)
(* agents remember what became of their orders.                            *)
(***************************************************************************)
EXTENDS Dispatch, SumTheorems, TLAPS

Fields == {"stage", "mode", "bucket", "action", "sym", "weight", "order", "own",
           "all", "number"}
IsJob(r) == DOMAIN r = Fields /\ r = [f \in Fields |-> r[f]]
Types ==
  /\ DOMAIN th = Thread /\ th = [t \in Thread |-> th[t]]
  /\ \A t \in Thread : IsJob(th[t])
  /\ late \in [Thread -> {0, 1}]

\* What a job carries past the gate may become a buy.
Entry(r) ==
  \/ r.stage = "plan" /\ r.action \in Opening
  \/ r.stage \in {"guard", "submit"} /\ r.order.side = "buy"

\* While the switch is tripped, a job that has sent a buy carries no other.
NoSecondEntry == kill # "ok" => \A t \in Thread : late[t] = 1 => ~Entry(th[t])

Inv == Types /\ NoSecondEntry

-----------------------------------------------------------------------------
(* Kinds of steps *)

\* A job that carries no entry after its step, or did before it.
LEMMA JobStep ==
  ASSUME Inv, NEW t \in Thread, NEW q, IsJob(q), th' = [th EXCEPT ![t] = q],
         UNCHANGED <<kill, late>>,
         kill # "ok" /\ Entry(q) => Entry(th[t])
  PROVE  Inv'
<1>1. /\ th'[t] = q /\ \A u \in Thread \ {t} : th'[u] = th[u]
      /\ DOMAIN th' = Thread /\ th' = [u \in Thread |-> th'[u]]
  BY DEF Inv, Types
<1>2. Types'
  BY <1>1 DEF Inv, Types
<1>3. NoSecondEntry'
  BY <1>1 DEF Inv, NoSecondEntry
<1> QED
  BY <1>2, <1>3 DEF Inv

\* A job that waits for its next intent.
LEMMA Waiting ==
  ASSUME NEW stage, NEW mode
  PROVE  LET q == [Quiet EXCEPT !.stage = stage, !.mode = mode]
         IN IsJob(q) /\ q.stage = stage
<1> DEFINE q == [Quiet EXCEPT !.stage = stage, !.mode = mode]
<1>1. DOMAIN q = Fields /\ q = [f \in Fields |-> q[f]] /\ q.stage = stage
  BY DEF Quiet, Fields
<1> QED
  BY <1>1 DEF IsJob

\* A job that waits for its next dispatch.
LEMMA QuietIsJob == IsJob(Quiet) /\ Quiet.stage = "idle"
<1>1. DOMAIN Quiet = Fields /\ Quiet = [f \in Fields |-> Quiet[f]] /\ Quiet.stage = "idle"
  BY DEF Quiet, Fields
<1> QED
  BY <1>1 DEF IsJob

\* A job that is done with an intent carries nothing.
LEMMA DoneLeavesNothing ==
  ASSUME NEW t \in Thread, Done(t)
  PROVE  \E q : IsJob(q) /\ ~Entry(q) /\ th' = [th EXCEPT ![t] = q]
<1> DEFINE p == [Quiet EXCEPT !.stage = "observed", !.mode = th[t].mode]
<1>1. IsJob(p) /\ p.stage = "observed"
  BY Waiting
<1> DEFINE q == IF th[t].mode = "dive" THEN Quiet ELSE p
<1>2. th' = [th EXCEPT ![t] = q]
  BY DEF Done
<1> HIDE DEF p
<1>3. IsJob(q) /\ q.stage \in {"idle", "observed"}
  BY <1>1, QuietIsJob
<1>4. ~Entry(q)
  BY <1>3 DEF Entry
<1> QED
  BY <1>2, <1>3, <1>4

-----------------------------------------------------------------------------
(* Up to the gate *)

\* The agent is asked.
LEMMA ObserveKeeps ==
  ASSUME Inv, NEW t \in Thread, Observe(t) \/ DeepDive(t)
  PROVE  Inv'
<1>1. PICK mode : th' = [th EXCEPT ![t].stage = "observed", ![t].mode = mode]
  BY DEF Observe, DeepDive
<1> DEFINE q == [th[t] EXCEPT !.stage = "observed", !.mode = mode]
<1>2. DOMAIN q = Fields /\ q = [f \in Fields |-> q[f]] /\ q.stage = "observed"
  BY DEF Inv, Types, IsJob, Fields
<1>3. th' = [th EXCEPT ![t] = q]
  BY <1>1 DEF Inv, Types
<1>4. UNCHANGED <<kill, late>>
  BY DEF Observe, DeepDive, history
<1> HIDE DEF q
<1>5. IsJob(q) /\ ~Entry(q)
  BY <1>2 DEF IsJob, Entry
<1> QED
  BY <1>3, <1>4, <1>5, JobStep

\* The dispatch ends.
LEMMA EndKeeps ==
  ASSUME Inv, NEW t \in Thread, EndDispatch(t)
  PROVE  Inv'
<1>1. ~Entry(Quiet)
  BY QuietIsJob DEF Entry
<1>2. th' = [th EXCEPT ![t] = Quiet] /\ UNCHANGED <<kill, late>>
  BY DEF EndDispatch, history
<1> QED
  BY <1>1, <1>2, QuietIsJob, JobStep

\* While the switch is tripped, no opening passes the gate.
LEMMA GateKeeps ==
  ASSUME Inv, NEW t \in Thread, Gate(t)
  PROVE  Inv'
<1>1. PICK x \in Approved(t) :
        th' = [th EXCEPT ![t] = [Quiet EXCEPT
                 !.stage = "plan", !.mode = th[t].mode, !.action = x[1].action,
                 !.weight = x[1].weight, !.sym = x[2], !.bucket = x[3]]]
  BY DEF Gate
<1> DEFINE q == [Quiet EXCEPT
                   !.stage = "plan", !.mode = th[t].mode, !.action = x[1].action,
                   !.weight = x[1].weight, !.sym = x[2], !.bucket = x[3]]
<1>2. DOMAIN q = Fields /\ q = [f \in Fields |-> q[f]]
  BY DEF Quiet, Fields
<1>3. q.stage = "plan" /\ q.action = x[1].action
  BY DEF Quiet
<1>4. th' = [th EXCEPT ![t] = q] /\ UNCHANGED <<kill, late>>
  BY <1>1 DEF Gate, history
<1>5. kill # "ok" => x[1].action \notin Opening
  BY DEF Approved, Vetoes, CanOpenNew
<1> HIDE DEF q
<1>6. IsJob(q) /\ (kill # "ok" => ~Entry(q))
  BY <1>2, <1>3, <1>5 DEF IsJob, Entry
<1> QED
  BY <1>4, <1>6, JobStep

-----------------------------------------------------------------------------
(* From the gate to the broker *)

\* Only an opening is sized as a buy.
LEMMA BuysAreOpenings ==
  ASSUME NEW a, NEW r, Sized(a, r).side = "buy"
  PROVE  r.action \in Opening
<1>1. \A n : Order("sell", n).side # "buy"
  BY DEF Order, NoOrder
<1>2. NoOrder.side # "buy"
  BY DEF NoOrder
<1> QED
  BY <1>1, <1>2 DEF Sized, Closing

\* The Manager changes an intent's weight, and nothing else.
LEMMA ReviewKeepsAction ==
  ASSUME Types, NEW t \in Thread, NEW review, NEW r \in Reviewed(th[t], review)
  PROVE  r.action = th[t].action
BY DEF Reviewed, Types, IsJob, Fields

\* What is sized as a buy was an opening.
LEMMA PlanKeeps ==
  ASSUME Inv, NEW t \in Thread, Plan(t)
  PROVE  Inv'
<1>1. UNCHANGED <<kill, late>> /\ th[t].stage = "plan"
  BY DEF Plan, history, At
<1>2. CASE Done(t)
  BY <1>1, <1>2, DoneLeavesNothing, JobStep
<1>3. ASSUME NEW r \in Planned(t),
             th' = [th EXCEPT ![t] = [Quiet EXCEPT
                      !.stage = "guard", !.mode = r.mode, !.sym = r.sym,
                      !.own = lots[SleeveOf[t]], !.order = Sized(SleeveOf[t], r)]]
      PROVE  Inv'
  <2> DEFINE q == [Quiet EXCEPT
                     !.stage = "guard", !.mode = r.mode, !.sym = r.sym,
                     !.own = lots[SleeveOf[t]], !.order = Sized(SleeveOf[t], r)]
  <2>1. DOMAIN q = Fields /\ q = [f \in Fields |-> q[f]]
    BY DEF Quiet, Fields
  <2>2. q.stage = "guard" /\ q.order = Sized(SleeveOf[t], r)
    BY DEF Quiet
  <2>3. th' = [th EXCEPT ![t] = q]
    BY <1>3
  <2>4. r.action = th[t].action
    BY ReviewKeepsAction DEF Planned, Inv
  <2> HIDE DEF q
  <2>5. Entry(q) => Entry(th[t])
    BY <1>1, <2>2, <2>4, BuysAreOpenings DEF Entry
  <2> QED
    BY <1>1, <2>1, <2>3, <2>5, JobStep DEF IsJob
<1> QED
  BY <1>2, <1>3 DEF Plan

\* The account guard lets an order pass, or the job is done with it.
LEMMA GuardKeeps ==
  ASSUME Inv, NEW t \in Thread, Guard(t)
  PROVE  Inv'
<1>1. UNCHANGED <<kill, late>> /\ th[t].stage = "guard"
  BY DEF Guard, At
<1>2. CASE Done(t)
  BY <1>1, <1>2, DoneLeavesNothing, JobStep
<1>3. CASE th' = [th EXCEPT ![t].stage = "submit", ![t].all = Long]
  <2> DEFINE q == [th[t] EXCEPT !.stage = "submit", !.all = Long]
  <2>1. DOMAIN q = Fields /\ q = [f \in Fields |-> q[f]]
    BY DEF Inv, Types, IsJob
  <2>2. q.stage = "submit" /\ q.order = th[t].order
    BY DEF Inv, Types, IsJob, Fields
  <2>3. th' = [th EXCEPT ![t] = q]
    BY <1>3 DEF Inv, Types
  <2> HIDE DEF q
  <2>4. Entry(q) => Entry(th[t])
    BY <1>1, <2>2 DEF Entry
  <2> QED
    BY <1>1, <2>1, <2>3, <2>4, JobStep DEF IsJob
<1> QED
  BY <1>2, <1>3 DEF Guard

\* The one entry a job carried is counted, and gone.
LEMMA SubmitKeeps ==
  ASSUME Inv, NEW t \in Thread, Submit(t)
  PROVE  Inv'
<1>1. /\ th[t].stage = "submit" /\ UNCHANGED kill
      /\ late' = IF kill # "ok" /\ th[t].order.side = "buy"
                 THEN [late EXCEPT ![t] = @ + 1] ELSE late
  BY DEF Submit, At
<1>2. PICK q : IsJob(q) /\ ~Entry(q) /\ th' = [th EXCEPT ![t] = q]
  <2>1. CASE Done(t)
    BY <2>1, DoneLeavesNothing
  <2>2. CASE th' = [th EXCEPT ![t] = [Quiet EXCEPT !.stage = "error",
                                        !.mode = th[t].mode, !.number = Len(orders) + 1]]
    <3> DEFINE p == [Quiet EXCEPT !.stage = "error", !.mode = th[t].mode,
                                  !.number = Len(orders) + 1]
    <3>1. DOMAIN p = Fields /\ p = [f \in Fields |-> p[f]] /\ p.stage = "error"
      BY DEF Quiet, Fields
    <3>2. th' = [th EXCEPT ![t] = p]
      BY <2>2
    <3> HIDE DEF p
    <3>3. IsJob(p) /\ ~Entry(p)
      BY <3>1 DEF IsJob, Entry
    <3> QED
      BY <3>2, <3>3
  <2> QED
    BY <2>1, <2>2 DEF Submit
<1>3. /\ th'[t] = q /\ \A u \in Thread \ {t} : th'[u] = th[u]
      /\ DOMAIN th' = Thread /\ th' = [u \in Thread |-> th'[u]]
  BY <1>2 DEF Inv, Types
<1>4. /\ late' \in [Thread -> {0, 1}]
      /\ \A u \in Thread \ {t} : late'[u] = late[u]
  <2>1. CASE kill # "ok" /\ th[t].order.side = "buy"
    <3>1. late[t] = 0
      BY <1>1, <2>1 DEF Inv, NoSecondEntry, Entry, Types
    <3> QED
      BY <1>1, <2>1, <3>1 DEF Inv, Types
  <2>2. CASE ~(kill # "ok" /\ th[t].order.side = "buy")
    BY <1>1, <2>2 DEF Inv, Types
  <2> QED
    BY <2>1, <2>2
<1>5. Types'
  BY <1>2, <1>3, <1>4 DEF Inv, Types
<1>6. NoSecondEntry'
  BY <1>1, <1>2, <1>3, <1>4 DEF Inv, NoSecondEntry
<1> QED
  BY <1>5, <1>6 DEF Inv

\* The exception of a submission ends the intent.
LEMMA ErrorKeeps ==
  ASSUME Inv, NEW t \in Thread, RecordError(t)
  PROVE  Inv'
<1>1. Done(t) /\ UNCHANGED <<kill, late>>
  BY DEF RecordError, history
<1> QED
  BY <1>1, DoneLeavesNothing, JobStep

-----------------------------------------------------------------------------
(* The rest of the system *)

\* The reserve job, the broker and the recorder leave the jobs alone.
LEMMA OthersKeep ==
  ASSUME Inv, UNCHANGED <<kill, th, late>>
  PROVE  Inv'
BY DEF Inv, Types, NoSecondEntry

\* A change of the switch starts the count again.
LEMMA SwitchKeeps ==
  ASSUME Inv, Trip \/ Clear
  PROVE  Inv'
<1>1. UNCHANGED th /\ late' = [t \in Thread |-> 0]
  BY DEF Trip, Clear
<1> QED
  BY <1>1 DEF Inv, Types, NoSecondEntry

\* At the start no job runs and the switch has not tripped.
LEMMA InitEntry == Init => Inv
<1> SUFFICES ASSUME Init PROVE Inv
  OBVIOUS
<1>1. kill = "ok" /\ th = [t \in Thread |-> Quiet] /\ late = [t \in Thread |-> 0]
  BY DEF Init
<1> QED
  BY <1>1, QuietIsJob DEF Inv, Types, NoSecondEntry

\* No step lets a second entry through after a trip; one step per action.
LEMMA NextKeepsEntry == Inv /\ [Next]_vars => Inv'
<1> SUFFICES ASSUME Inv, [Next]_vars PROVE Inv'
  OBVIOUS
<1>1. CASE UNCHANGED vars
  BY <1>1, OthersKeep DEF vars, history
<1>2. CASE ReserveLots \/ ReserveOrders \/ ReserveCash \/ ReserveBuy
  BY <1>2, OthersKeep
     DEF ReserveLots, ReserveOrders, ReserveCash, ReserveBuy, history
<1>3. ASSUME NEW i \in DOMAIN orders, Fill(i) \/ Die(i)
      PROVE  Inv'
  BY <1>3, OthersKeep DEF Fill, Die, history
<1> QED
  BY <1>1, <1>2, <1>3, ObserveKeeps, EndKeeps, GateKeeps, PlanKeeps, GuardKeeps,
     SubmitKeeps, ErrorKeeps, SwitchKeeps DEF Next

\* After a trip a dispatch job sends at most one more buy (check_intent is the
\* only one to ask the switch, once per intent).
THEOREM OneEntryAfterATrip == Spec => []TripStopsEntries
<1>1. Inv => TripStopsEntries
  BY DEF Inv, Types, TripStopsEntries
<1> QED
  BY <1>1, InitEntry, NextKeepsEntry, PTL DEF Spec

-----------------------------------------------------------------------------
(* Types *)

OrderSet ==
  [agent : Agent, sym : Symbol, side : {"buy", "sell"}, qty : Nat \ {0},
   state : {"open", "filled", "dead"}, raised : BOOLEAN, recorded : BOOLEAN,
   outcome : {"none", "filled", "dead", "submit_error"}]

\* An order that was sized fits the lots it was sized on.
OrderFits(r) ==
  /\ r.order.side \in {"buy", "sell"} /\ r.order.qty \in Nat \ {0}
  /\ r.order.side = "buy" => SumOf(r.own, Symbol) + r.order.qty <= BaseGross
  /\ r.order.side = "sell" => r.order.qty <= r.own[r.sym]

JobTypes(r) ==
  /\ IsJob(r)
  /\ r.stage \in Stage /\ r.mode \in Mode /\ r.bucket \in 0..4
  /\ r.action \in Action /\ r.sym \in Symbol /\ r.weight \in Weight \cup {0, Starter}
  /\ r.order.qty \in Nat /\ r.own \in [Symbol -> Nat]
  /\ r.all \in Int /\ r.number \in Nat
  /\ r.stage \in {"guard", "submit"} => OrderFits(r)

\* The number a job carries after an exception is the one of its order.
Numbered ==
  \A t \in Thread :
    /\ th[t].number <= Len(orders)
    /\ th[t].stage = "error" =>
         th[t].number \in DOMAIN orders /\ orders[th[t].number].raised

TypeInv ==
  /\ kill \in {"ok", "blocked", "budget"}
  /\ DOMAIN th = Thread /\ th = [t \in Thread |-> th[t]]
  /\ \A t \in Thread : JobTypes(th[t])
  /\ job \in [stage : {"idle", "lots", "cash", "buy"}, seen : Int]
  /\ lots \in [Agent -> [Symbol -> Nat]] /\ account \in [Symbol -> Int]
  /\ orders \in Seq(OrderSet)
  /\ crossed \subseteq Sleeve /\ passedBy \in BOOLEAN /\ slipped \in BOOLEAN
  /\ Numbered

Move(t, q) == th' = [th EXCEPT ![t] = q] /\ JobTypes(q)

\* The sum of a book of integers is an integer.
LEMMA BookSum ==
  ASSUME NEW f \in [Symbol -> Int]
  PROVE  SumOf(f, Symbol) \in Int
<1>1. SumOf(f, Symbol) = SumOver(f, Symbol)
  BY DEF SumOf, SumOver
<1>2. \A s \in Symbol : f[s] \in Int
  OBVIOUS
<1> QED
  BY <1>1, <1>2, SumIsInt, SleeveAssumption

\* What is bought or sold in one symbol changes the book's sum by as much.
LEMMA BookChanges ==
  ASSUME NEW f \in [Symbol -> Int], NEW s \in Symbol, NEW v \in Int
  PROVE  SumOf([f EXCEPT ![s] = v], Symbol) = SumOf(f, Symbol) - f[s] + v
<1> DEFINE h == [f EXCEPT ![s] = v]
<1>1. \A y \in Symbol : f[y] \in Int /\ h[y] \in Int
  OBVIOUS
<1>2. h[s] = v /\ \A y \in Symbol \ {s} : h[y] = f[y]
  OBVIOUS
<1> HIDE DEF h
<1>3. SumOver(h, Symbol) = SumOver(f, Symbol) - f[s] + h[s]
  <2>1. IsFiniteSet(Symbol)
    BY SleeveAssumption
  <2>2. \A y \in Symbol \ {s} : h[y] = f[y]
    BY <1>2
  <2> QED
    BY <1>1, <2>1, <2>2, SumChanges
<1>4. SumOf(h, Symbol) = SumOver(h, Symbol) /\ SumOf(f, Symbol) = SumOver(f, Symbol)
  BY DEF SumOf, SumOver
<1> QED
  BY <1>2, <1>3, <1>4 DEF h

\* Nothing sums to 0.
LEMMA EmptyBook == SumOf(Nothing, Symbol) = 0
<1>1. \A s \in Symbol : Nothing[s] = 0
  BY DEF Nothing
<1>2. SumOver(Nothing, Symbol) = 0
  BY <1>1, SumOfZeros, SleeveAssumption
<1> QED
  BY <1>2 DEF SumOf, SumOver

\* The smaller of two numbers.
LEMMA MinOfTwo ==
  ASSUME NEW m \in Int, NEW n \in Int
  PROVE  Min({m, n}) \in {m, n} /\ Min({m, n}) <= m /\ Min({m, n}) <= n
<1>1. \E x \in {m, n} : \A y \in {m, n} : x <= y
  OBVIOUS
<1>2. Min({m, n}) \in {m, n} /\ \A y \in {m, n} : Min({m, n}) <= y
  BY <1>1 DEF Min
<1> QED
  BY <1>2

\* What a job is before its next intent or dispatch.
LEMMA QuietHasTypes == JobTypes(Quiet) /\ Quiet.number = 0
<1>1. /\ Quiet.stage = "idle" /\ Quiet.mode = "check" /\ Quiet.bucket = 0
      /\ Quiet.action = "close" /\ Quiet.sym = Spy /\ Quiet.weight = 0
      /\ Quiet.order.qty = 0 /\ Quiet.own = Nothing /\ Quiet.all = 0 /\ Quiet.number = 0
  BY DEF Quiet, NoOrder
<1>2. Nothing \in [Symbol -> Nat]
  BY DEF Nothing
<1> QED
  BY <1>1, <1>2, QuietIsJob, SleeveAssumption DEF JobTypes, Stage, Mode, Action

\* A job that waits, or has observed and nothing more, is well typed.
LEMMA WaitingHasTypes ==
  ASSUME NEW stage \in {"idle", "observed"}, NEW mode \in Mode
  PROVE  LET q == [Quiet EXCEPT !.stage = stage, !.mode = mode]
         IN JobTypes(q) /\ q.stage = stage /\ q.number = 0
<1> DEFINE q == [Quiet EXCEPT !.stage = stage, !.mode = mode]
<1>1. /\ q.stage = stage /\ q.mode = mode /\ q.bucket = 0
      /\ q.action = "close" /\ q.sym = Spy /\ q.weight = 0
      /\ q.order.qty = 0 /\ q.own = Nothing /\ q.all = 0 /\ q.number = 0
  BY DEF Quiet, NoOrder
<1>2. Nothing \in [Symbol -> Nat]
  BY DEF Nothing
<1>3. IsJob(q)
  BY Waiting
<1> HIDE DEF q
<1>4. JobTypes(q)
  BY <1>1, <1>2, <1>3, SleeveAssumption DEF JobTypes, Stage, Action
<1> QED
  BY <1>1, <1>4 DEF q

-----------------------------------------------------------------------------
(* What the steps of a job make of it *)

\* The end of one decision: a dive ends the job, the others wait for the next.
LEMMA DoneMoves ==
  ASSUME TypeInv, NEW t \in Thread, Done(t)
  PROVE  \E q : Move(t, q) /\ q.stage \in {"idle", "observed"} /\ q.number = 0
<1>1. th[t].mode \in Mode
  BY DEF TypeInv, JobTypes
<1> DEFINE p == [Quiet EXCEPT !.stage = "observed", !.mode = th[t].mode]
           q == IF th[t].mode = "dive" THEN Quiet ELSE p
<1>2. JobTypes(p) /\ p.stage = "observed" /\ p.number = 0
  BY <1>1, WaitingHasTypes
<1>3. th' = [th EXCEPT ![t] = q]
  BY DEF Done
<1> HIDE DEF p
<1>4. JobTypes(q) /\ q.stage \in {"idle", "observed"} /\ q.number = 0
  BY <1>2, QuietHasTypes, QuietIsJob
<1> QED
  BY <1>3, <1>4 DEF Move

\* Observing and a deep dive change the stage and the mode and keep the number.
LEMMA ObserveMoves ==
  ASSUME TypeInv, NEW t \in Thread, Observe(t) \/ DeepDive(t)
  PROVE  \E q : Move(t, q) /\ q.stage = "observed" /\ q.number = th[t].number
<1>1. PICK mode \in Mode :
        th' = [th EXCEPT ![t].stage = "observed", ![t].mode = mode]
  BY DEF Observe, DeepDive, ModeFor, Mode
<1> DEFINE q == [th[t] EXCEPT !.stage = "observed", !.mode = mode]
<1>2. IsJob(th[t])
  BY DEF TypeInv, JobTypes
<1>3. DOMAIN q = Fields /\ q = [f \in Fields |-> q[f]]
  BY <1>2 DEF IsJob, Fields
<1>4. /\ q.stage = "observed" /\ q.mode = mode /\ q.bucket = th[t].bucket
      /\ q.action = th[t].action /\ q.sym = th[t].sym /\ q.weight = th[t].weight
      /\ q.order = th[t].order /\ q.own = th[t].own /\ q.all = th[t].all
      /\ q.number = th[t].number
  BY <1>2 DEF IsJob, Fields
<1>5. th' = [th EXCEPT ![t] = q]
  BY <1>1 DEF TypeInv
<1> HIDE DEF q
<1>6. IsJob(q)
  BY <1>3 DEF IsJob
<1>7. JobTypes(q)
  BY <1>4, <1>6 DEF TypeInv, JobTypes, Stage
<1> QED
  BY <1>4, <1>5, <1>7 DEF Move

\* A symbol, a target and a bucket the model knows.
LEMMA IntentTypes ==
  ASSUME NEW t \in Thread, NEW x \in Approved(t)
  PROVE  /\ x[1].action \in Action /\ x[1].weight \in Weight \cup {0, Starter}
         /\ x[2] \in Symbol /\ x[3] \in 0..4
<1>1. x[1] \in Intents(t) /\ x[2] \in Symbol /\ x[3] \in Bucket
  BY DEF Approved
<1>2. \A i \in HaikuIntents \cup SonnetIntents \cup DiveIntents :
        i.action \in Action /\ i.weight \in Weight
  BY DEF HaikuIntents, SonnetIntents, DiveIntents
<1>3. ASSUME NEW mode, NEW i \in OpusIntents(mode)
      PROVE  i.action \in Action /\ i.weight \in Weight \cup {Starter}
  <2>1. PICK j \in SonnetIntents :
          i = IF mode = "start" /\ j.action = "buy"
              THEN [j EXCEPT !.weight = Min({@, Starter})] ELSE j
    BY DEF OpusIntents
  <2>2. j.weight \in Weight /\ j.action \in Action
    BY DEF SonnetIntents
  <2>3. Min({j.weight, Starter}) \in {j.weight, Starter}
    <3>1. Weight \subseteq Int /\ Starter \in Int
      BY NumberAssumption
    <3>2. j.weight \in Int
      BY <2>2, <3>1
    <3> QED
      BY <3>1, <3>2, MinOfTwo
  <2>4. [j EXCEPT !.weight = Min({@, Starter})].weight = Min({j.weight, Starter})
        /\ [j EXCEPT !.weight = Min({@, Starter})].action = j.action
    BY DEF SonnetIntents
  <2> QED
    BY <2>1, <2>2, <2>3, <2>4
<1>4. x[1].action \in Action /\ x[1].weight \in Weight \cup {Starter}
  BY <1>1, <1>2, <1>3 DEF Intents
<1>5. Bucket \subseteq 0..4
  BY NumberAssumption
<1> QED
  BY <1>1, <1>4, <1>5

\* The risk gate hands a job one approved decision and no order yet.
LEMMA GateMoves ==
  ASSUME TypeInv, NEW t \in Thread, Gate(t)
  PROVE  \E q : Move(t, q) /\ q.stage = "plan" /\ q.number = 0
<1>1. PICK x \in Approved(t) :
        th' = [th EXCEPT ![t] = [Quiet EXCEPT
                 !.stage = "plan", !.mode = th[t].mode, !.action = x[1].action,
                 !.weight = x[1].weight, !.sym = x[2], !.bucket = x[3]]]
  BY DEF Gate
<1> DEFINE q == [Quiet EXCEPT
                   !.stage = "plan", !.mode = th[t].mode, !.action = x[1].action,
                   !.weight = x[1].weight, !.sym = x[2], !.bucket = x[3]]
<1>2. DOMAIN q = Fields /\ q = [f \in Fields |-> q[f]]
  BY DEF Quiet, Fields
<1>3. /\ q.stage = "plan" /\ q.mode = th[t].mode /\ q.bucket = x[3]
      /\ q.action = x[1].action /\ q.sym = x[2] /\ q.weight = x[1].weight
      /\ q.order.qty = 0 /\ q.own = Nothing /\ q.all = 0 /\ q.number = 0
  BY DEF Quiet, NoOrder
<1>4. th' = [th EXCEPT ![t] = q]
  BY <1>1
<1>5. Nothing \in [Symbol -> Nat] /\ th[t].mode \in Mode
  BY DEF Nothing, TypeInv, JobTypes
<1> HIDE DEF q
<1>6. JobTypes(q)
  BY <1>2, <1>3, <1>5, IntentTypes DEF IsJob, JobTypes, Stage
<1> QED
  BY <1>3, <1>4, <1>6 DEF Move

\* A bucket leaves a sleeve no more than its gross cap.
LEMMA CapIsBounded ==
  ASSUME NEW b \in 0..4
  PROVE  Cap(b) \in Nat /\ Cap(b) <= BaseGross
<1>1. BaseGross \in Nat
  BY NumberAssumption
<1>2. b = 0 \/ b = 1 \/ b = 2 \/ b = 3 \/ b = 4
  OBVIOUS
<1>3. CASE b = 0
  BY <1>1, <1>3 DEF Cap
<1>4. CASE b = 1
  BY <1>1, <1>4 DEF Cap
<1>5. CASE b = 2
  BY <1>1, <1>5 DEF Cap
<1>6. CASE b = 3
  BY <1>1, <1>6 DEF Cap
<1>7. CASE b = 4
  BY <1>1, <1>7 DEF Cap
<1> QED
  BY <1>2, <1>3, <1>4, <1>5, <1>6, <1>7

\* plan leaves a sleeve under its cap, and sells no more than it holds.
LEMMA SizedFits ==
  ASSUME TypeInv, NEW a \in Agent, NEW r, r.sym \in Symbol, r.action \in Action,
         r.weight \in Nat, r.bucket \in 0..4, Sized(a, r) # NoOrder
  PROVE  LET o == Sized(a, r)
         IN /\ o.side \in {"buy", "sell"} /\ o.qty \in Nat \ {0}
            /\ o.side = "buy" => Gross(a) + o.qty <= BaseGross
            /\ o.side = "sell" => o.qty <= lots[a][r.sym]
<1> DEFINE held == lots[a][r.sym]
           target == Target(r)
           gross == Gross(a)
           cap == Cap(r.bucket)
           o == Sized(a, r)
<1>1. held \in Nat
  BY DEF TypeInv
<1>2. cap \in Nat /\ cap <= BaseGross /\ BaseGross \in Nat /\ Band \in Nat \ {0}
  BY CapIsBounded, NumberAssumption
<1>3. target \in Nat
  <2>1. r.weight \in Int /\ cap \in Int
    BY <1>2
  <2> HIDE DEF cap
  <2>2. Min({r.weight, cap}) \in {r.weight, cap}
    BY <2>1, MinOfTwo
  <2> QED
    BY <1>2, <2>2 DEF Target, cap
<1>4. gross \in Int
  <2>1. lots[a] \in [Symbol -> Int]
    BY DEF TypeInv
  <2> QED
    BY <2>1, BookSum DEF Gross
<1>5. \/ o = Order("sell", held)
      \/ /\ target - held >= Band /\ gross + (target - held) <= cap
         /\ o = Order("buy", target - held)
      \/ /\ held > 0 /\ held - target >= Band
         /\ o = Order("sell", Min({held, -(target - held)}))
  BY <1>1, <1>2, <1>3 DEF Sized, Closing
<1> HIDE DEF held, target, gross, cap, o
<1>6. ASSUME NEW side, NEW n, Order(side, n) # NoOrder
      PROVE  Order(side, n).side = side /\ Order(side, n).qty = n /\ n # 0
  BY <1>6 DEF Order
<1>7. o # NoOrder
  BY DEF o
<1>8. CASE o = Order("sell", held)
  BY <1>1, <1>6, <1>7, <1>8 DEF o, held
<1>9. CASE /\ target - held >= Band /\ gross + (target - held) <= cap
           /\ o = Order("buy", target - held)
  <2>1. o.side = "buy" /\ o.qty = target - held
    BY <1>6, <1>7, <1>9
  <2>2. o.qty \in Nat \ {0} /\ gross + o.qty <= BaseGross
    BY <1>1, <1>2, <1>3, <1>4, <1>9, <2>1
  <2> QED
    BY <2>1, <2>2 DEF o, gross
<1>10. CASE /\ held > 0 /\ held - target >= Band
            /\ o = Order("sell", Min({held, -(target - held)}))
  <2> DEFINE n == Min({held, -(target - held)})
  <2>1. n \in {held, -(target - held)} /\ n <= held
    BY <1>1, <1>3, MinOfTwo
  <2> HIDE DEF n
  <2>2. o.side = "sell" /\ o.qty = n
    BY <1>6, <1>7, <1>10 DEF n
  <2>3. n \in Nat \ {0}
    BY <1>1, <1>2, <1>3, <1>10, <2>1
  <2> QED
    BY <2>1, <2>2, <2>3 DEF o, held
<1> QED
  BY <1>5, <1>8, <1>9, <1>10 DEF o

\* What the Manager lets through differs in its weight, if at all.
LEMMA ReviewedTypes ==
  ASSUME TypeInv, NEW t \in Thread, NEW r \in Planned(t)
  PROVE  /\ r.sym \in Symbol /\ r.action \in Action /\ r.weight \in Nat
         /\ r.bucket \in 0..4 /\ r.mode \in Mode
<1>1. PICK review \in Reviews : r \in Reviewed(th[t], review)
  BY DEF Planned
<1>2. IsJob(th[t]) /\ JobTypes(th[t])
  BY DEF TypeInv, JobTypes
<1>3. Weight \cup {0, Starter} \subseteq Nat
  <2>1. Weight \subseteq Nat /\ Starter \in Nat
    BY NumberAssumption
  <2> QED
    BY <2>1
<1>4. CASE r = th[t]
  BY <1>2, <1>3, <1>4 DEF JobTypes
<1>5. CASE review.decision = "downsize" /\ r = [th[t] EXCEPT !.weight = review.weight]
  <2>1. review.weight \in Weight
    BY <1>1, <1>5 DEF Reviews
  <2>2. /\ r.sym = th[t].sym /\ r.action = th[t].action /\ r.mode = th[t].mode
        /\ r.bucket = th[t].bucket /\ r.weight = review.weight
    BY <1>2, <1>5 DEF IsJob, Fields
  <2> QED
    BY <1>2, <1>3, <2>1, <2>2 DEF JobTypes
<1>6. r = th[t] \/ (review.decision = "downsize" /\ r = [th[t] EXCEPT !.weight = review.weight])
  BY <1>1 DEF Reviewed
<1> QED
  BY <1>4, <1>5, <1>6

\* Planning either drops the decision or sizes an order for the entry guard.
LEMMA PlanMoves ==
  ASSUME TypeInv, NEW t \in Thread, Plan(t)
  PROVE  \E q : Move(t, q) /\ q.stage \in {"idle", "observed", "guard"} /\ q.number = 0
<1>1. CASE Done(t)
  BY <1>1, DoneMoves
<1>2. ASSUME NEW r \in Planned(t),
             th' = [th EXCEPT ![t] = [Quiet EXCEPT
                      !.stage = "guard", !.mode = r.mode, !.sym = r.sym,
                      !.own = lots[SleeveOf[t]], !.order = Sized(SleeveOf[t], r)]]
      PROVE  \E q : Move(t, q) /\ q.stage = "guard" /\ q.number = 0
  <2> DEFINE o == Sized(SleeveOf[t], r)
             q == [Quiet EXCEPT
                     !.stage = "guard", !.mode = r.mode, !.sym = r.sym,
                     !.own = lots[SleeveOf[t]], !.order = o]
  <2>1. DOMAIN q = Fields /\ q = [f \in Fields |-> q[f]]
    BY DEF Quiet, Fields
  <2>2. /\ q.stage = "guard" /\ q.mode = r.mode /\ q.bucket = 0
        /\ q.action = "close" /\ q.sym = r.sym /\ q.weight = 0
        /\ q.order = o /\ q.own = lots[SleeveOf[t]] /\ q.all = 0 /\ q.number = 0
    BY DEF Quiet
  <2>3. th' = [th EXCEPT ![t] = q]
    BY <1>2
  <2>4. SleeveOf[t] \in Agent /\ o # NoOrder
    BY SleeveAssumption DEF Planned, Agent
  <2>5. /\ r.sym \in Symbol /\ r.action \in Action /\ r.weight \in Nat
        /\ r.bucket \in 0..4 /\ r.mode \in Mode
    BY ReviewedTypes
  <2>6. /\ o.side \in {"buy", "sell"} /\ o.qty \in Nat \ {0}
        /\ o.side = "buy" => SumOf(lots[SleeveOf[t]], Symbol) + o.qty <= BaseGross
        /\ o.side = "sell" => o.qty <= lots[SleeveOf[t]][r.sym]
    BY <2>4, <2>5, SizedFits DEF Gross
  <2>7. lots[SleeveOf[t]] \in [Symbol -> Nat]
    BY <2>4 DEF TypeInv
  <2> HIDE DEF o, q
  <2>8. IsJob(q)
    BY <2>1 DEF IsJob
  <2>9. OrderFits(q)
    BY <2>2, <2>6 DEF OrderFits
  <2>10. JobTypes(q)
    BY <2>2, <2>5, <2>6, <2>7, <2>8, <2>9 DEF JobTypes, Stage, Action
  <2> QED
    BY <2>2, <2>3, <2>10 DEF Move
<1> QED
  BY <1>1, <1>2 DEF Plan

\* What passes the account guard is the order, with the account it looked at.
LEMMA GuardMoves ==
  ASSUME TypeInv, NEW t \in Thread, Guard(t)
  PROVE  \E q : /\ Move(t, q) /\ q.number \in {0, th[t].number}
                /\ \/ q.stage \in {"idle", "observed"}
                   \/ /\ q.stage = "submit" /\ q.order = th[t].order /\ q.all = Long
                      /\ q.order.side = "buy" => Allowed(q.order.qty) \/ passedBy'
<1>1. CASE Done(t)
  BY <1>1, DoneMoves
<1>2. ASSUME th' = [th EXCEPT ![t].stage = "submit", ![t].all = Long]
      PROVE  \E q : Move(t, q) /\ q.stage = "submit" /\ q.order = th[t].order
                    /\ q.all = Long /\ q.number = th[t].number
  <2> DEFINE q == [th[t] EXCEPT !.stage = "submit", !.all = Long]
  <2>1. IsJob(th[t]) /\ JobTypes(th[t])
    BY DEF TypeInv, JobTypes
  <2>2. DOMAIN q = Fields /\ q = [f \in Fields |-> q[f]]
    BY <2>1 DEF IsJob, Fields
  <2>3. /\ q.stage = "submit" /\ q.mode = th[t].mode /\ q.bucket = th[t].bucket
        /\ q.action = th[t].action /\ q.sym = th[t].sym /\ q.weight = th[t].weight
        /\ q.order = th[t].order /\ q.own = th[t].own /\ q.all = Long
        /\ q.number = th[t].number
    BY <2>1 DEF IsJob, Fields
  <2>4. th' = [th EXCEPT ![t] = q]
    BY <1>2 DEF TypeInv
  <2>5. Long \in Int
    BY BookSum DEF Long, TypeInv
  <2>6. OrderFits(th[t])
    BY <2>1 DEF JobTypes, Guard, At
  <2> HIDE DEF q
  <2>7. OrderFits(q)
    BY <2>3, <2>6 DEF OrderFits
  <2>8. IsJob(q)
    BY <2>2 DEF IsJob
  <2>9. JobTypes(q)
    BY <2>1, <2>3, <2>5, <2>7, <2>8 DEF JobTypes, Stage
  <2> QED
    BY <2>3, <2>4, <2>9 DEF Move
<1>3. \/ Done(t)
      \/ /\ th' = [th EXCEPT ![t].stage = "submit", ![t].all = Long]
         /\ th[t].order.side = "buy" => Allowed(th[t].order.qty) \/ passedBy'
  BY DEF Guard
<1> QED
  BY <1>1, <1>2, <1>3

\* Submitting ends the intent, or raises.
LEMMA SubmitMoves ==
  ASSUME TypeInv, NEW t \in Thread, Submit(t)
  PROVE  \E q, state, raised :
           /\ Move(t, q) /\ state \in {"open", "dead"} /\ raised \in BOOLEAN
           /\ Submitted(SleeveOf[t], th[t].sym, th[t].order, OnRecord(th[t].mode), state, raised)
           /\ \/ q.stage \in {"idle", "observed"} /\ q.number = 0
              \/ q.stage = "error" /\ q.number = Len(orders) + 1 /\ raised
<1>1. CASE /\ \E state \in {"open", "dead"} :
                Submitted(SleeveOf[t], th[t].sym, th[t].order, OnRecord(th[t].mode), state, FALSE)
           /\ Done(t)
  BY <1>1, DoneMoves
<1>2. CASE /\ Submitted(SleeveOf[t], th[t].sym, th[t].order, OnRecord(th[t].mode), "open", TRUE)
           /\ th' = [th EXCEPT ![t] = [Quiet EXCEPT !.stage = "error",
                                         !.mode = th[t].mode, !.number = Len(orders) + 1]]
  <2> DEFINE q == [Quiet EXCEPT !.stage = "error", !.mode = th[t].mode,
                                !.number = Len(orders) + 1]
  <2>1. DOMAIN q = Fields /\ q = [f \in Fields |-> q[f]]
    BY DEF Quiet, Fields
  <2>2. /\ q.stage = "error" /\ q.mode = th[t].mode /\ q.bucket = 0
        /\ q.action = "close" /\ q.sym = Spy /\ q.weight = 0
        /\ q.order.qty = 0 /\ q.own = Nothing /\ q.all = 0 /\ q.number = Len(orders) + 1
    BY DEF Quiet, NoOrder
  <2>3. th' = [th EXCEPT ![t] = q]
    BY <1>2
  <2>4. Nothing \in [Symbol -> Nat] /\ th[t].mode \in Mode /\ Len(orders) \in Nat
    BY DEF Nothing, TypeInv, JobTypes
  <2> HIDE DEF q
  <2>5. JobTypes(q)
    BY <2>1, <2>2, <2>4, SleeveAssumption DEF JobTypes, IsJob, Stage, Action
  <2> QED
    BY <1>2, <2>2, <2>3, <2>5 DEF Move
<1> QED
  BY <1>1, <1>2 DEF Submit

\* An agent whose cycle raised ends like one that is done.
LEMMA ErrorMoves ==
  ASSUME TypeInv, NEW t \in Thread, RecordError(t)
  PROVE  \E q : Move(t, q) /\ q.stage \in {"idle", "observed"} /\ q.number = 0
BY DoneMoves DEF RecordError

-----------------------------------------------------------------------------
(* What the steps make of the orders *)

\* An outcome goes on record, or not; all else stays.
LEMMA OutcomeTypes ==
  ASSUME NEW o \in OrderSet, NEW what \in {"filled", "dead", "submit_error"}
  PROVE  LET p == Outcome(o, what)
         IN /\ p \in OrderSet
            /\ p.agent = o.agent /\ p.sym = o.sym /\ p.side = o.side /\ p.qty = o.qty
            /\ p.state = o.state /\ p.raised = o.raised /\ p.recorded = o.recorded
            /\ p.outcome = IF o.recorded THEN what ELSE o.outcome
BY DEF Outcome, OrderSet

\* A new order is the last one.
LEMMA SubmittedTypes ==
  ASSUME TypeInv, NEW a \in Agent, NEW s \in Symbol, NEW order,
         order.side \in {"buy", "sell"}, order.qty \in Nat \ {0},
         NEW recorded \in BOOLEAN, NEW state \in {"open", "dead"}, NEW raised \in BOOLEAN,
         Submitted(a, s, order, recorded, state, raised)
  PROVE  \E o \in OrderSet :
           /\ orders' = Append(orders, o)
           /\ o.agent = a /\ o.sym = s /\ o.side = order.side /\ o.qty = order.qty
           /\ o.state = state /\ o.raised = raised /\ o.recorded = recorded
           /\ o.outcome = IF state = "dead" /\ recorded THEN "dead" ELSE "none"
<1> DEFINE o == [agent |-> a, sym |-> s, side |-> order.side, qty |-> order.qty,
                 state |-> state, raised |-> raised, recorded |-> recorded,
                 outcome |-> "none"]
           p == IF state = "dead" THEN Outcome(o, "dead") ELSE o
<1>1. o \in OrderSet
  BY DEF OrderSet
<1>2. /\ o.agent = a /\ o.sym = s /\ o.side = order.side /\ o.qty = order.qty
      /\ o.state = state /\ o.raised = raised /\ o.recorded = recorded
      /\ o.outcome = "none"
  OBVIOUS
<1>3. orders' = Append(orders, p)
  BY DEF Submitted
<1> HIDE DEF o
<1>4. /\ p \in OrderSet
      /\ p.agent = a /\ p.sym = s /\ p.side = order.side /\ p.qty = order.qty
      /\ p.state = state /\ p.raised = raised /\ p.recorded = recorded
      /\ p.outcome = IF state = "dead" /\ recorded THEN "dead" ELSE "none"
  BY <1>1, <1>2, OutcomeTypes
<1> QED
  BY <1>3, <1>4

\* o is the order p, but for its state and outcome.
SameOrder(o, p) ==
  /\ o \in OrderSet
  /\ o.agent = p.agent /\ o.sym = p.sym /\ o.side = p.side /\ o.qty = p.qty
  /\ o.raised = p.raised /\ o.recorded = p.recorded

\* An order that ends has its end on record, if its intent is.
LEMMA EndOfOrder ==
  ASSUME TypeInv, NEW i \in DOMAIN orders, Fill(i) \/ Die(i)
  PROVE  /\ i \in Open
         /\ \E o : /\ orders' = [orders EXCEPT ![i] = o] /\ SameOrder(o, orders[i])
                   /\ o.state \in {"filled", "dead"}
                   /\ o.recorded => o.outcome = o.state
<1>1. orders[i] \in OrderSet
  BY DEF TypeInv
<1>2. ASSUME NEW state \in {"filled", "dead"},
             orders' = [orders EXCEPT ![i] = Outcome([@ EXCEPT !.state = state], state)]
      PROVE  \E o : /\ orders' = [orders EXCEPT ![i] = o] /\ SameOrder(o, orders[i])
                    /\ o.state \in {"filled", "dead"}
                    /\ o.recorded => o.outcome = o.state
  <2> DEFINE p == [orders[i] EXCEPT !.state = state]
             o == Outcome(p, state)
  <2>1. p \in OrderSet
    BY <1>1 DEF OrderSet
  <2>2. /\ p.agent = orders[i].agent /\ p.sym = orders[i].sym /\ p.side = orders[i].side
        /\ p.qty = orders[i].qty /\ p.raised = orders[i].raised
        /\ p.recorded = orders[i].recorded /\ p.state = state
    BY <1>1 DEF OrderSet
  <2>3. orders' = [orders EXCEPT ![i] = o]
    BY <1>2
  <2> HIDE DEF p
  <2>4. /\ o \in OrderSet
        /\ o.agent = p.agent /\ o.sym = p.sym /\ o.side = p.side /\ o.qty = p.qty
        /\ o.state = p.state /\ o.raised = p.raised /\ o.recorded = p.recorded
        /\ o.outcome = IF p.recorded THEN state ELSE p.outcome
    BY <2>1, OutcomeTypes
  <2> QED
    BY <2>2, <2>3, <2>4 DEF SameOrder
<1>3. i \in Open
  BY DEF Fill, Die
<1>4. \E state \in {"filled", "dead"} :
        orders' = [orders EXCEPT ![i] = Outcome([@ EXCEPT !.state = state], state)]
  BY DEF Fill, Die
<1> QED
  BY <1>2, <1>3, <1>4

\* After an exception of submit_order the record says submit_error.
LEMMA ErrorOfOrder ==
  ASSUME TypeInv, NEW t \in Thread, RecordError(t)
  PROVE  LET i == th[t].number
         IN /\ i \in DOMAIN orders /\ orders[i].raised
            /\ \E o : /\ orders' = [orders EXCEPT ![i] = o] /\ SameOrder(o, orders[i])
                      /\ o.state = orders[i].state
                      /\ o.recorded => o.outcome = "submit_error"
<1> DEFINE i == th[t].number
           o == Outcome(orders[i], "submit_error")
<1>1. i \in DOMAIN orders /\ orders[i].raised /\ orders[i] \in OrderSet
  BY DEF TypeInv, Numbered, RecordError, At
<1>2. orders' = [orders EXCEPT ![i] = o]
  BY DEF RecordError
<1> HIDE DEF i
<1>3. SameOrder(o, orders[i]) /\ o.state = orders[i].state
      /\ (o.recorded => o.outcome = "submit_error")
  BY <1>1, OutcomeTypes DEF SameOrder
<1> QED
  BY <1>1, <1>2, <1>3 DEF i

\* One order changes.
LEMMA OrderChanges ==
  ASSUME orders \in Seq(OrderSet), NEW i \in DOMAIN orders, NEW o \in OrderSet,
         orders' = [orders EXCEPT ![i] = o]
  PROVE  /\ orders' \in Seq(OrderSet) /\ Len(orders') = Len(orders)
         /\ DOMAIN orders' = DOMAIN orders /\ orders'[i] = o
         /\ \A j \in DOMAIN orders \ {i} : orders'[j] = orders[j]
OBVIOUS

\* An order is added.
LEMMA OrderIsAdded ==
  ASSUME orders \in Seq(OrderSet), NEW o \in OrderSet, orders' = Append(orders, o)
  PROVE  /\ orders' \in Seq(OrderSet) /\ Len(orders') = Len(orders) + 1
         /\ DOMAIN orders' = DOMAIN orders \cup {Len(orders) + 1}
         /\ Len(orders) + 1 \notin DOMAIN orders
         /\ orders'[Len(orders) + 1] = o
         /\ \A j \in DOMAIN orders : orders'[j] = orders[j]
<1>1. Len(orders) \in Nat /\ DOMAIN orders = 1..Len(orders)
  OBVIOUS
<1>2. /\ orders' \in Seq(OrderSet) /\ Len(orders') = Len(orders) + 1
      /\ DOMAIN orders' = 1..(Len(orders) + 1)
      /\ orders'[Len(orders) + 1] = o
      /\ \A j \in DOMAIN orders : orders'[j] = orders[j]
  OBVIOUS
<1>3. 1..(Len(orders) + 1) = 1..Len(orders) \cup {Len(orders) + 1}
  BY <1>1
<1> QED
  BY <1>1, <1>2, <1>3

\* An order is bought for a sleeve.
LEMMA SubmitAdds ==
  ASSUME TypeInv, NEW t \in Thread, Submit(t)
  PROVE  \E q : \E o \in OrderSet :
           /\ Move(t, q) /\ orders' = Append(orders, o)
           /\ o.agent = SleeveOf[t] /\ o.sym = th[t].sym
           /\ o.side = th[t].order.side /\ o.qty = th[t].order.qty
           /\ o.state \in {"open", "dead"} /\ (o.state = "dead" /\ o.recorded => o.outcome = "dead")
           /\ \/ q.stage \in {"idle", "observed"} /\ q.number = 0
              \/ q.stage = "error" /\ q.number = Len(orders) + 1 /\ o.raised
<1>1. PICK q, state, raised :
           /\ Move(t, q) /\ state \in {"open", "dead"} /\ raised \in BOOLEAN
           /\ Submitted(SleeveOf[t], th[t].sym, th[t].order, OnRecord(th[t].mode), state, raised)
           /\ \/ q.stage \in {"idle", "observed"} /\ q.number = 0
              \/ q.stage = "error" /\ q.number = Len(orders) + 1 /\ raised
  BY SubmitMoves
<1>2. /\ th[t].sym \in Symbol /\ th[t].order.side \in {"buy", "sell"}
      /\ th[t].order.qty \in Nat \ {0}
  BY DEF TypeInv, JobTypes, OrderFits, Submit, At
<1>3. SleeveOf[t] \in Agent /\ OnRecord(th[t].mode) \in BOOLEAN
  BY SleeveAssumption DEF Agent, OnRecord
<1>4. \E o \in OrderSet :
           /\ orders' = Append(orders, o)
           /\ o.agent = SleeveOf[t] /\ o.sym = th[t].sym
           /\ o.side = th[t].order.side /\ o.qty = th[t].order.qty
           /\ o.state = state /\ o.raised = raised
           /\ o.outcome = IF state = "dead" /\ o.recorded THEN "dead" ELSE "none"
  BY <1>1, <1>2, <1>3, SubmittedTypes
<1> QED
  BY <1>1, <1>4

\* The reserve is bought for the Manager.
LEMMA ReserveAdds ==
  ASSUME TypeInv, ReserveBuy
  PROVE  \E o \in OrderSet :
           /\ orders' = Append(orders, o)
           /\ o.agent = Manager /\ o.sym = Spy /\ o.side = "buy" /\ o.qty = Reserve
           /\ o.state \in {"open", "dead"} /\ ~o.recorded
<1>1. PICK state \in {"open", "dead"} :
        Submitted(Manager, Spy, Order("buy", Reserve), FALSE, state, FALSE)
  BY DEF ReserveBuy
<1>2. /\ Order("buy", Reserve).side = "buy" /\ Order("buy", Reserve).qty = Reserve
      /\ Reserve \in Nat \ {0}
  BY NumberAssumption DEF Order
<1>3. Manager \in Agent /\ Spy \in Symbol /\ FALSE \in BOOLEAN
  BY SleeveAssumption DEF Agent
<1> DEFINE order == Order("buy", Reserve)
           no == FALSE
<1>4. /\ order.side \in {"buy", "sell"} /\ order.qty \in Nat \ {0} /\ no \in BOOLEAN
      /\ order.side = "buy" /\ order.qty = Reserve /\ ~no
  BY <1>2
<1>5. Submitted(Manager, Spy, order, no, state, no)
  BY <1>1
<1> HIDE DEF order, no
<1>6. \E o \in OrderSet :
        /\ orders' = Append(orders, o)
        /\ o.agent = Manager /\ o.sym = Spy /\ o.side = order.side /\ o.qty = order.qty
        /\ o.state = state /\ o.raised = no /\ o.recorded = no
  BY <1>3, <1>4, <1>5, SubmittedTypes
<1> QED
  BY <1>1, <1>4, <1>6

-----------------------------------------------------------------------------
(* The types are kept *)

\* A job moves on; the orders it knows stay.
LEMMA MoveKeepsTypes ==
  ASSUME TypeInv, NEW t \in Thread, NEW q, Move(t, q),
         orders' \in Seq(OrderSet), Len(orders') >= Len(orders),
         DOMAIN orders \subseteq DOMAIN orders',
         \A i \in DOMAIN orders : orders'[i].raised = orders[i].raised,
         q.number <= Len(orders'),
         q.stage = "error" => q.number \in DOMAIN orders' /\ orders'[q.number].raised,
         UNCHANGED <<kill, job, lots, account, slipped>>,
         crossed' \subseteq Sleeve, passedBy' \in BOOLEAN
  PROVE  TypeInv'
<1>1. /\ th'[t] = q /\ \A u \in Thread \ {t} : th'[u] = th[u]
      /\ DOMAIN th' = Thread /\ th' = [u \in Thread |-> th'[u]]
  BY DEF TypeInv, Move
<1>2. \A u \in Thread : JobTypes(th'[u])
  BY <1>1 DEF TypeInv, Move
<1>3. Len(orders) \in Nat /\ Len(orders') \in Nat
  BY DEF TypeInv
<1>4. ASSUME NEW u \in Thread
      PROVE  /\ th'[u].number <= Len(orders')
             /\ th'[u].stage = "error" =>
                  th'[u].number \in DOMAIN orders' /\ orders'[th'[u].number].raised
  <2>1. CASE u = t
    BY <1>1, <2>1
  <2>2. CASE u # t
    <3>1. th'[u] = th[u] /\ th[u].number \in Nat
      BY <1>1, <2>2 DEF TypeInv, JobTypes
    <3>2. /\ th[u].number <= Len(orders)
          /\ th[u].stage = "error" =>
               th[u].number \in DOMAIN orders /\ orders[th[u].number].raised
      BY DEF TypeInv, Numbered
    <3> QED
      BY <1>3, <3>1, <3>2
  <2> QED
    BY <2>1, <2>2
<1>5. Numbered'
  BY <1>4 DEF Numbered
<1> QED
  BY <1>1, <1>2, <1>5 DEF TypeInv

\* So it is when the orders stay as they are.
LEMMA QuietMoveKeepsTypes ==
  ASSUME TypeInv, NEW t \in Thread, NEW q, Move(t, q), q.stage # "error",
         q.number \in {0, th[t].number},
         UNCHANGED <<kill, job, lots, account, orders, slipped, crossed>>,
         passedBy' \in BOOLEAN
  PROVE  TypeInv'
<1>1. q.number <= Len(orders) /\ Len(orders) \in Nat
  BY DEF TypeInv, Numbered
<1>2. crossed' \subseteq Sleeve /\ orders' \in Seq(OrderSet)
  BY DEF TypeInv
<1>3. Len(orders') >= Len(orders) /\ DOMAIN orders \subseteq DOMAIN orders'
      /\ \A i \in DOMAIN orders : orders'[i].raised = orders[i].raised
  BY <1>1
<1> QED
  BY <1>1, <1>2, <1>3, MoveKeepsTypes

\* The rest of the system leaves the jobs alone.
LEMMA OthersKeepTypes ==
  ASSUME TypeInv, UNCHANGED th,
         orders' \in Seq(OrderSet), Len(orders') >= Len(orders),
         DOMAIN orders \subseteq DOMAIN orders',
         \A i \in DOMAIN orders : orders'[i].raised = orders[i].raised,
         kill' \in {"ok", "blocked", "budget"},
         job' \in [stage : {"idle", "lots", "cash", "buy"}, seen : Int],
         lots' \in [Agent -> [Symbol -> Nat]], account' \in [Symbol -> Int],
         crossed' \subseteq Sleeve, passedBy' \in BOOLEAN, slipped' \in BOOLEAN
  PROVE  TypeInv'
<1>1. Len(orders) \in Nat /\ Len(orders') \in Nat
  BY DEF TypeInv
<1>2. ASSUME NEW u \in Thread
      PROVE  /\ th'[u].number <= Len(orders')
             /\ th'[u].stage = "error" =>
                  th'[u].number \in DOMAIN orders' /\ orders'[th'[u].number].raised
  <2>1. th'[u] = th[u] /\ th[u].number \in Nat
    BY DEF TypeInv, JobTypes
  <2>2. /\ th[u].number <= Len(orders)
        /\ th[u].stage = "error" =>
             th[u].number \in DOMAIN orders /\ orders[th[u].number].raised
    BY DEF TypeInv, Numbered
  <2> QED
    BY <1>1, <2>1, <2>2
<1>3. Numbered'
  BY <1>2 DEF Numbered
<1> QED
  BY <1>3 DEF TypeInv

\* A submission, and what follows its exception.
LEMMA SubmitKeepsTypes ==
  ASSUME TypeInv, NEW t \in Thread, Submit(t) \/ RecordError(t)
  PROVE  TypeInv'
<1>0. orders \in Seq(OrderSet)
  BY DEF TypeInv
<1>1. CASE Submit(t)
  <2>1. PICK q : \E o \in OrderSet :
           /\ Move(t, q) /\ orders' = Append(orders, o)
           /\ \/ q.stage \in {"idle", "observed"} /\ q.number = 0
              \/ q.stage = "error" /\ q.number = Len(orders) + 1 /\ o.raised
    BY <1>1, SubmitAdds
  <2>2. PICK o \in OrderSet :
           /\ Move(t, q) /\ orders' = Append(orders, o)
           /\ \/ q.stage \in {"idle", "observed"} /\ q.number = 0
              \/ q.stage = "error" /\ q.number = Len(orders) + 1 /\ o.raised
    BY <2>1
  <2>3. /\ orders' \in Seq(OrderSet) /\ Len(orders') = Len(orders) + 1
        /\ DOMAIN orders' = DOMAIN orders \cup {Len(orders) + 1}
        /\ orders'[Len(orders) + 1] = o
        /\ \A j \in DOMAIN orders : orders'[j] = orders[j]
    BY <1>0, <2>2, OrderIsAdded
  <2>4. /\ UNCHANGED <<kill, job, lots, account, slipped>>
        /\ crossed' \subseteq Sleeve /\ passedBy' \in BOOLEAN
    BY <1>1 DEF Submit, Past, books, TypeInv
  <2>5. Len(orders) \in Nat
    BY <1>0
  <2>6. /\ q.number <= Len(orders')
        /\ q.stage = "error" => q.number \in DOMAIN orders' /\ orders'[q.number].raised
    BY <2>2, <2>3, <2>5
  <2>7. Len(orders') >= Len(orders) /\ DOMAIN orders \subseteq DOMAIN orders'
        /\ \A i \in DOMAIN orders : orders'[i].raised = orders[i].raised
    BY <2>3, <2>5
  <2> QED
    BY <2>2, <2>3, <2>4, <2>6, <2>7, MoveKeepsTypes
<1>2. CASE RecordError(t)
  <2>1. PICK q : Move(t, q) /\ q.stage \in {"idle", "observed"} /\ q.number = 0
    BY <1>2, ErrorMoves
  <2> DEFINE i == th[t].number
  <2>2. PICK o : i \in DOMAIN orders /\ orders' = [orders EXCEPT ![i] = o] /\ SameOrder(o, orders[i])
    BY <1>2, ErrorOfOrder
  <2>3. o \in OrderSet /\ o.raised = orders[i].raised
    BY <2>2 DEF SameOrder
  <2> HIDE DEF i
  <2>4. /\ orders' \in Seq(OrderSet) /\ Len(orders') = Len(orders)
        /\ DOMAIN orders' = DOMAIN orders /\ orders'[i] = o
        /\ \A j \in DOMAIN orders \ {i} : orders'[j] = orders[j]
    BY <1>0, <2>2, <2>3, OrderChanges
  <2>5. \A j \in DOMAIN orders : orders'[j].raised = orders[j].raised
    BY <2>3, <2>4
  <2>6. /\ UNCHANGED <<kill, job, lots, account, slipped>>
        /\ crossed' \subseteq Sleeve /\ passedBy' \in BOOLEAN
    BY <1>2 DEF RecordError, history, books, TypeInv
  <2>7. Len(orders) \in Nat
    BY <1>0
  <2>8. q.number <= Len(orders') /\ q.stage # "error" /\ Len(orders') >= Len(orders)
        /\ DOMAIN orders \subseteq DOMAIN orders'
    BY <2>1, <2>4, <2>7
  <2> QED
    BY <2>1, <2>4, <2>5, <2>6, <2>8, MoveKeepsTypes
<1> QED
  BY <1>1, <1>2

\* A fill or another end of an order.
LEMMA EndKeepsTypes ==
  ASSUME TypeInv, NEW i \in DOMAIN orders, Fill(i) \/ Die(i)
  PROVE  TypeInv'
<1>1. PICK o : orders' = [orders EXCEPT ![i] = o] /\ SameOrder(o, orders[i])
  BY EndOfOrder
<1>2. o \in OrderSet /\ o.raised = orders[i].raised
  BY <1>1 DEF SameOrder
<1>3. orders \in Seq(OrderSet)
  BY DEF TypeInv
<1>4. /\ orders' \in Seq(OrderSet) /\ Len(orders') = Len(orders)
      /\ DOMAIN orders' = DOMAIN orders /\ orders'[i] = o
      /\ \A j \in DOMAIN orders \ {i} : orders'[j] = orders[j]
  BY <1>1, <1>2, <1>3, OrderChanges
<1>5. /\ \A j \in DOMAIN orders : orders'[j].raised = orders[j].raised
      /\ Len(orders') >= Len(orders) /\ DOMAIN orders \subseteq DOMAIN orders'
  <2>1. Len(orders) \in Nat
    BY <1>3
  <2> QED
    BY <1>2, <1>4, <2>1
<1>6. orders[i] \in OrderSet
  BY <1>3
<1>7. /\ orders[i].agent \in Agent /\ orders[i].sym \in Symbol /\ orders[i].qty \in Nat
  BY <1>6 DEF OrderSet
<1>8. lots' \in [Agent -> [Symbol -> Nat]] /\ account' \in [Symbol -> Int]
  <2>1. CASE Fill(i)
    <3> DEFINE a == orders[i].agent
               s == orders[i].sym
               n == orders[i].qty
               v == CASE orders[i].side = "buy" -> lots[a][s] + n
                      [] orders[i].side = "sell" /\ n <= lots[a][s] -> lots[a][s] - n
                      [] OTHER -> lots[a][s]
    <3>1. lots' = [lots EXCEPT ![a][s] = v]
      BY <2>1 DEF Fill, Booked
    <3>2. account' = [account EXCEPT ![s] = IF orders[i].side = "buy" THEN @ + n ELSE @ - n]
      BY <2>1 DEF Fill
    <3>3. lots[a][s] \in Nat /\ account[s] \in Int
      BY <1>7 DEF TypeInv
    <3>4. v \in Nat
      BY <1>7, <3>3
    <3> HIDE DEF v
    <3> QED
      BY <1>7, <3>1, <3>2, <3>4 DEF TypeInv
  <2>2. CASE Die(i)
    BY <2>2 DEF Die, books, TypeInv
  <2> QED
    BY <2>1, <2>2
<1>9. /\ UNCHANGED <<kill, th, job>> /\ crossed' \subseteq Sleeve /\ passedBy' \in BOOLEAN
      /\ slipped' \in BOOLEAN
  BY DEF Fill, Die, history, TypeInv
<1>10. /\ kill' \in {"ok", "blocked", "budget"}
       /\ job' \in [stage : {"idle", "lots", "cash", "buy"}, seen : Int]
  BY <1>9 DEF TypeInv
<1> QED
  BY <1>4, <1>5, <1>8, <1>9, <1>10, OthersKeepTypes

\* The reserve job.
LEMMA ReserveKeepsTypes ==
  ASSUME TypeInv, ReserveLots \/ ReserveOrders \/ ReserveCash \/ ReserveBuy
  PROVE  TypeInv'
<1>0. orders \in Seq(OrderSet) /\ Len(orders) \in Nat
  BY DEF TypeInv
<1>1. /\ orders' \in Seq(OrderSet) /\ Len(orders') >= Len(orders)
      /\ DOMAIN orders \subseteq DOMAIN orders'
      /\ \A i \in DOMAIN orders : orders'[i].raised = orders[i].raised
  <2>1. CASE ReserveBuy
    <3>1. PICK o \in OrderSet : orders' = Append(orders, o)
      BY <2>1, ReserveAdds
    <3>2. /\ orders' \in Seq(OrderSet) /\ Len(orders') = Len(orders) + 1
          /\ DOMAIN orders' = DOMAIN orders \cup {Len(orders) + 1}
          /\ \A j \in DOMAIN orders : orders'[j] = orders[j]
      BY <1>0, <3>1, OrderIsAdded
    <3> QED
      BY <1>0, <3>2
  <2>2. CASE UNCHANGED orders
    BY <1>0, <2>2
  <2> QED
    BY <2>1, <2>2 DEF ReserveLots, ReserveOrders, ReserveCash
<1>2. Long \in Int
  BY BookSum DEF Long, TypeInv
<1>3. job' \in [stage : {"idle", "lots", "cash", "buy"}, seen : Int]
  <2>1. job \in [stage : {"idle", "lots", "cash", "buy"}, seen : Int]
    BY DEF TypeInv
  <2>2. \A stage \in {"idle", "lots", "cash", "buy"} : Job(stage) =>
          job' \in [stage : {"idle", "lots", "cash", "buy"}, seen : Int]
    BY <2>1 DEF Job
  <2>3. ReserveCash => job' = [stage |-> "buy", seen |-> Long] \/ Job("idle")
    BY DEF ReserveCash, Job
  <2>4. ReserveLots \/ ReserveOrders \/ ReserveBuy => Job("lots") \/ Job("cash") \/ Job("idle")
    BY DEF ReserveLots, ReserveOrders, ReserveBuy
  <2> QED
    BY <1>2, <2>2, <2>3, <2>4
<1>4. /\ UNCHANGED <<th, kill, lots, account>>
      /\ crossed' \subseteq Sleeve /\ passedBy' \in BOOLEAN /\ slipped' \in BOOLEAN
  BY DEF ReserveLots, ReserveOrders, ReserveCash, ReserveBuy, Past, books, history, TypeInv
<1>5. /\ kill' \in {"ok", "blocked", "budget"}
      /\ lots' \in [Agent -> [Symbol -> Nat]] /\ account' \in [Symbol -> Int]
  BY <1>4 DEF TypeInv
<1> QED
  BY <1>1, <1>3, <1>4, <1>5, OthersKeepTypes

\* A step of a job that submits nothing.
QuietStep(t) ==
  Observe(t) \/ EndDispatch(t) \/ DeepDive(t) \/ Gate(t) \/ Plan(t) \/ Guard(t)

\* A step that submits nothing moves one job and leaves books and orders alone.
LEMMA QuietStepMoves ==
  ASSUME TypeInv, NEW t \in Thread, QuietStep(t)
  PROVE  /\ UNCHANGED <<kill, job, lots, account, orders, slipped, crossed, late>>
         /\ passedBy' \in {TRUE, passedBy}
         /\ \E q : /\ Move(t, q) /\ q.number \in {0, th[t].number}
                   /\ q.stage \in {"idle", "observed", "plan", "guard", "submit"}
<1>1. /\ UNCHANGED <<kill, job, lots, account, orders, slipped, crossed, late>>
      /\ passedBy' \in {TRUE, passedBy}
  BY DEF QuietStep, Observe, EndDispatch, DeepDive, Gate, Plan, Guard, books, history
<1>2. EndDispatch(t) => Move(t, Quiet) /\ Quiet.number = 0 /\ Quiet.stage = "idle"
  BY QuietHasTypes, QuietIsJob DEF EndDispatch, Move
<1> QED
  BY <1>1, <1>2, ObserveMoves, GateMoves, PlanMoves, GuardMoves DEF QuietStep

\* The initial state is well typed.
LEMMA InitTypes == Init => TypeInv
<1> SUFFICES ASSUME Init PROVE TypeInv
  OBVIOUS
<1>1. /\ kill = "ok" /\ th = [t \in Thread |-> Quiet]
      /\ job = [stage |-> "idle", seen |-> 0]
      /\ lots = [a \in Agent |-> Nothing] /\ account = Nothing /\ orders = <<>>
      /\ crossed = {} /\ passedBy = FALSE /\ slipped = FALSE
  BY DEF Init
<1>2. Nothing \in [Symbol -> Nat] /\ Nothing \in [Symbol -> Int]
  BY DEF Nothing
<1>3. \A t \in Thread : th[t] = Quiet
  BY <1>1
<1>4. DOMAIN th = Thread /\ th = [t \in Thread |-> th[t]] /\ \A t \in Thread : JobTypes(th[t])
  BY <1>1, QuietHasTypes
<1>5. Quiet.number = 0 /\ Quiet.stage # "error"
  BY QuietHasTypes, QuietIsJob
<1>6. Numbered
  BY <1>1, <1>3, <1>5 DEF Numbered
<1>7. orders \in Seq(OrderSet) /\ lots \in [Agent -> [Symbol -> Nat]]
  BY <1>1, <1>2
<1>8. job \in [stage : {"idle", "lots", "cash", "buy"}, seen : Int]
  BY <1>1
<1>9. kill \in {"ok", "blocked", "budget"} /\ account \in [Symbol -> Int]
      /\ crossed \subseteq Sleeve
  BY <1>1, <1>2
<1>10. passedBy \in BOOLEAN /\ slipped \in BOOLEAN
  BY <1>1
<1> QED
  BY <1>4, <1>6, <1>7, <1>8, <1>9, <1>10 DEF TypeInv

\* Every step keeps the types.
LEMMA NextKeepsTypes == TypeInv /\ [Next]_vars => TypeInv'
<1> SUFFICES ASSUME TypeInv, [Next]_vars PROVE TypeInv'
  OBVIOUS
<1>1. CASE UNCHANGED vars
  BY <1>1 DEF vars, books, history, TypeInv, Numbered
<1>2. ASSUME NEW t \in Thread, QuietStep(t) PROVE TypeInv'
  <2>1. PICK q : /\ Move(t, q) /\ q.number \in {0, th[t].number}
                 /\ q.stage \in {"idle", "observed", "plan", "guard", "submit"}
    BY <1>2, QuietStepMoves
  <2>2. passedBy' \in BOOLEAN
    BY <1>2, QuietStepMoves DEF TypeInv
  <2> QED
    BY <1>2, <2>1, <2>2, QuietStepMoves, QuietMoveKeepsTypes
<1>3. CASE Trip \/ Clear
  <2>1. UNCHANGED <<th, job, lots, account, orders, crossed, passedBy, slipped>>
        /\ kill' \in {"ok", "blocked", "budget"}
    BY <1>3 DEF Trip, Clear, books
  <2> QED
    BY <2>1 DEF TypeInv, Numbered
<1> QED
  BY <1>1, <1>2, <1>3, SubmitKeepsTypes, EndKeepsTypes, ReserveKeepsTypes DEF Next, QuietStep

\* Every reachable state is well typed.
LEMMA SpecTypes == Spec => []TypeInv
BY InitTypes, NextKeepsTypes, PTL DEF Spec

-----------------------------------------------------------------------------
(* The agents' memories *)

\* What is on record of an order that ended is what became of it, or
\* submit_error (OutcomeRecorder).
THEOREM MemoriesMatch == Spec => []OutcomeMatchesOrder
<1>1. Init => OutcomeMatchesOrder
  BY DEF Init, OutcomeMatchesOrder
<1>2. TypeInv /\ OutcomeMatchesOrder /\ [Next]_vars => OutcomeMatchesOrder'
  <2> SUFFICES ASSUME TypeInv, OutcomeMatchesOrder, [Next]_vars
               PROVE  OutcomeMatchesOrder'
    OBVIOUS
  <2>0. orders \in Seq(OrderSet)
    BY DEF TypeInv
  <2>1. CASE UNCHANGED orders
    BY <2>1 DEF OutcomeMatchesOrder
  <2>2. ASSUME NEW o \in OrderSet, orders' = Append(orders, o),
               o.state = "dead" /\ o.recorded => o.outcome = "dead",
               o.state \in {"open", "dead"}
        PROVE  OutcomeMatchesOrder'
    <3>1. /\ DOMAIN orders' = DOMAIN orders \cup {Len(orders) + 1}
          /\ orders'[Len(orders) + 1] = o
          /\ \A j \in DOMAIN orders : orders'[j] = orders[j]
      BY <2>0, <2>2, OrderIsAdded
    <3> QED
      BY <2>2, <3>1 DEF OutcomeMatchesOrder
  <2>3. ASSUME NEW i \in DOMAIN orders, NEW o, orders' = [orders EXCEPT ![i] = o],
               SameOrder(o, orders[i]),
               \/ o.recorded => o.outcome = o.state
               \/ orders[i].raised /\ (o.recorded => o.outcome = "submit_error")
        PROVE  OutcomeMatchesOrder'
    <3>1. o \in OrderSet /\ o.raised = orders[i].raised
      BY <2>3 DEF SameOrder
    <3>2. /\ DOMAIN orders' = DOMAIN orders /\ orders'[i] = o
          /\ \A j \in DOMAIN orders \ {i} : orders'[j] = orders[j]
      BY <2>0, <2>3, <3>1, OrderChanges
    <3> QED
      BY <2>3, <3>1, <3>2 DEF OutcomeMatchesOrder
  <2>4. ASSUME NEW t \in Thread, Submit(t) PROVE OutcomeMatchesOrder'
    <3>1. PICK o \in OrderSet : /\ orders' = Append(orders, o) /\ o.state \in {"open", "dead"}
                                /\ o.state = "dead" /\ o.recorded => o.outcome = "dead"
      BY <2>4, SubmitAdds
    <3> QED
      BY <2>2, <3>1
  <2>5. CASE ReserveBuy
    <3>1. PICK o \in OrderSet : /\ orders' = Append(orders, o) /\ o.state \in {"open", "dead"}
                                /\ ~o.recorded
      BY <2>5, ReserveAdds
    <3> QED
      BY <2>2, <3>1
  <2>6. ASSUME NEW t \in Thread, RecordError(t) PROVE OutcomeMatchesOrder'
    <3> DEFINE i == th[t].number
    <3>1. i \in DOMAIN orders /\ orders[i].raised
      BY <2>6, ErrorOfOrder
    <3>2. PICK o : /\ orders' = [orders EXCEPT ![i] = o] /\ SameOrder(o, orders[i])
                   /\ o.recorded => o.outcome = "submit_error"
      BY <2>6, ErrorOfOrder
    <3> HIDE DEF i
    <3> QED
      BY <2>3, <3>1, <3>2
  <2>7. ASSUME NEW i \in DOMAIN orders, Fill(i) \/ Die(i) PROVE OutcomeMatchesOrder'
    <3>1. PICK o : /\ orders' = [orders EXCEPT ![i] = o] /\ SameOrder(o, orders[i])
                   /\ o.recorded => o.outcome = o.state
      BY <2>7, EndOfOrder
    <3> QED
      BY <2>3, <3>1
  <2>8. ASSUME NEW t \in Thread, QuietStep(t) PROVE UNCHANGED orders
    BY <2>8, QuietStepMoves
  <2>9. UNCHANGED vars \/ ReserveLots \/ ReserveOrders \/ ReserveCash \/ Trip \/ Clear
          => UNCHANGED orders
    BY DEF vars, ReserveLots, ReserveOrders, ReserveCash, Trip, Clear
  <2> QED
    BY <2>1, <2>4, <2>5, <2>6, <2>7, <2>8, <2>9 DEF Next, QuietStep
<1> QED
  BY <1>1, <1>2, SpecTypes, PTL DEF Spec

-----------------------------------------------------------------------------
(* The bound on the orders *)

\* Whatever may become an order has its number kept for it.
Bound ==
  /\ IsFiniteSet(Pending) /\ Len(orders) + Cardinality(Pending) <= MaxOrders
  /\ \A t \in Thread : late[t] # 0 => Len(orders) > 0

\* Fewer may become an order.
LEMMA FewerPend ==
  ASSUME TypeInv, Bound, Pending' \subseteq Pending, UNCHANGED orders
  PROVE  IsFiniteSet(Pending)' /\ (Len(orders) + Cardinality(Pending) <= MaxOrders)'
<1>1. IsFiniteSet(Pending') /\ Cardinality(Pending') <= Cardinality(Pending)
  BY FS_Subset DEF Bound
<1>2. /\ Cardinality(Pending') \in Nat /\ Cardinality(Pending) \in Nat
      /\ Len(orders) \in Nat /\ MaxOrders \in Nat
  BY <1>1, FS_CardinalityType, NumberAssumption DEF Bound, TypeInv
<1> QED
  BY <1>1, <1>2 DEF Bound

\* One more may.
LEMMA OneMorePends ==
  ASSUME TypeInv, Bound, NumberLeft, NEW x, Pending' \subseteq Pending \cup {x},
         UNCHANGED orders
  PROVE  IsFiniteSet(Pending)' /\ (Len(orders) + Cardinality(Pending) <= MaxOrders)'
<1>1. /\ IsFiniteSet(Pending \cup {x})
      /\ Cardinality(Pending \cup {x}) <= Cardinality(Pending) + 1
      /\ Cardinality(Pending) \in Nat
  <2>1. IsFiniteSet(Pending)
    BY DEF Bound
  <2>2. /\ IsFiniteSet(Pending \cup {x})
        /\ Cardinality(Pending \cup {x}) =
             IF x \in Pending THEN Cardinality(Pending) ELSE Cardinality(Pending) + 1
    BY <2>1, FS_AddElement
  <2>3. Cardinality(Pending) \in Nat
    BY <2>1, FS_CardinalityType
  <2> QED
    BY <2>2, <2>3
<1>2. IsFiniteSet(Pending') /\ Cardinality(Pending') <= Cardinality(Pending \cup {x})
  BY <1>1, FS_Subset
<1>3. /\ Cardinality(Pending') \in Nat /\ Cardinality(Pending \cup {x}) \in Nat
      /\ Len(orders) \in Nat /\ MaxOrders \in Nat
  BY <1>1, <1>2, FS_CardinalityType, NumberAssumption DEF TypeInv
<1>4. Len(orders) + Cardinality(Pending) < MaxOrders
  BY DEF NumberLeft
<1> QED
  BY <1>1, <1>2, <1>3, <1>4

\* One has.
LEMMA OneIsSubmitted ==
  ASSUME TypeInv, Bound, NEW x \in Pending, Pending' \subseteq Pending \ {x},
         Len(orders') = Len(orders) + 1
  PROVE  IsFiniteSet(Pending)' /\ (Len(orders) + Cardinality(Pending) <= MaxOrders)'
<1>1. /\ IsFiniteSet(Pending \ {x})
      /\ Cardinality(Pending \ {x}) = Cardinality(Pending) - 1
      /\ Cardinality(Pending) \in Nat
  BY FS_RemoveElement, FS_CardinalityType DEF Bound
<1>2. IsFiniteSet(Pending') /\ Cardinality(Pending') <= Cardinality(Pending \ {x})
  BY <1>1, FS_Subset
<1>3. /\ Cardinality(Pending') \in Nat /\ Cardinality(Pending \ {x}) \in Nat
      /\ Len(orders) \in Nat /\ MaxOrders \in Nat
  BY <1>1, <1>2, FS_CardinalityType, NumberAssumption DEF TypeInv
<1> QED
  BY <1>1, <1>2, <1>3 DEF Bound

\* A job moves, the reserve job does not.
LEMMA MovePends ==
  ASSUME TypeInv, NEW t \in Thread, NEW q, Move(t, q), UNCHANGED job
  PROVE  /\ q.stage \notin {"plan", "guard", "submit"} => Pending' = Pending \ {t}
         /\ th[t].stage \in {"plan", "guard", "submit"} => t \in Pending /\ Pending' \subseteq Pending
         /\ Pending' \subseteq Pending \cup {t}
<1>1. th'[t] = q /\ \A u \in Thread \ {t} : th'[u] = th[u]
  BY DEF TypeInv, Move
<1>2. t # Manager
  BY SleeveAssumption
<1> QED
  BY <1>1, <1>2 DEF Pending

\* At the start there is no order and no job is about to submit one.
LEMMA InitBound == Init => Bound
<1> SUFFICES ASSUME Init PROVE Bound
  OBVIOUS
<1>1. \A t \in Thread : th[t] = Quiet /\ late[t] = 0
  BY DEF Init
<1>2. Pending = {} /\ Len(orders) = 0
  BY <1>1, QuietIsJob DEF Pending, Init
<1> QED
  BY <1>1, <1>2, FS_EmptySet, NumberAssumption DEF Bound

\* Orders and the jobs about to submit one stay within MaxOrders together.
LEMMA NextKeepsBound == TypeInv /\ Types /\ Bound /\ [Next]_vars => Bound'
<1> SUFFICES ASSUME TypeInv, Types, Bound, [Next]_vars PROVE Bound'
  OBVIOUS
<1> DEFINE Kept == IsFiniteSet(Pending)' /\ (Len(orders) + Cardinality(Pending) <= MaxOrders)'
<1>0. orders \in Seq(OrderSet) /\ Len(orders) \in Nat
  BY DEF TypeInv
<1>1. CASE UNCHANGED vars
  BY <1>1 DEF vars, books, history, Bound, Pending
<1>2. ASSUME NEW t \in Thread, QuietStep(t) PROVE Bound'
  <2>1. UNCHANGED <<job, orders, late>>
    BY <1>2, QuietStepMoves
  <2>2. CASE Gate(t)
    <3>1. PICK q : Move(t, q)
      BY <2>2, GateMoves
    <3>2. Pending' \subseteq Pending \cup {t} /\ NumberLeft
      BY <2>1, <2>2, <3>1, MovePends DEF Gate
    <3>3. Kept
      BY <2>1, <3>2, OneMorePends
    <3> QED
      BY <2>1, <3>3 DEF Bound
  <2>3. CASE Plan(t) \/ Guard(t)
    <3>1. PICK q : Move(t, q)
      BY <2>3, PlanMoves, GuardMoves
    <3>2. th[t].stage \in {"plan", "guard", "submit"}
      BY <2>3 DEF Plan, Guard, At
    <3>3. Pending' \subseteq Pending
      BY <2>1, <3>1, <3>2, MovePends
    <3>4. Kept
      BY <2>1, <3>3, FewerPend
    <3> QED
      BY <2>1, <3>4 DEF Bound
  <2>4. CASE Observe(t) \/ EndDispatch(t) \/ DeepDive(t)
    <3>1. PICK q : Move(t, q) /\ q.stage \in {"idle", "observed"}
      BY <2>4, ObserveMoves, QuietHasTypes, QuietIsJob DEF EndDispatch, Move
    <3>2. Pending' \subseteq Pending
      BY <2>1, <3>1, MovePends
    <3>3. Kept
      BY <2>1, <3>2, FewerPend
    <3> QED
      BY <2>1, <3>3 DEF Bound
  <2> QED
    BY <1>2, <2>2, <2>3, <2>4 DEF QuietStep
<1>3. ASSUME NEW t \in Thread, Submit(t) PROVE Bound'
  <2>1. PICK q : \E o \in OrderSet :
          Move(t, q) /\ orders' = Append(orders, o) /\ q.stage \in {"idle", "observed", "error"}
    BY <1>3, SubmitAdds
  <2>2. Len(orders') = Len(orders) + 1
    BY <1>0, <2>1
  <2>3. UNCHANGED job /\ th[t].stage = "submit"
    BY <1>3 DEF Submit, At
  <2>4. t \in Pending /\ Pending' = Pending \ {t}
    BY <2>1, <2>3, MovePends
  <2>5. Kept
    BY <2>2, <2>4, OneIsSubmitted
  <2> QED
    BY <1>0, <2>2, <2>5 DEF Bound
<1>4. ASSUME NEW t \in Thread, RecordError(t) PROVE Bound'
  <2>1. PICK q : Move(t, q) /\ q.stage \in {"idle", "observed"}
    BY <1>4, ErrorMoves
  <2>2. UNCHANGED <<job, late>> /\ th[t].stage = "error"
    BY <1>4 DEF RecordError, history, At
  <2>3. Pending' \subseteq Pending
    BY <2>1, <2>2, MovePends
  <2>4. PICK o : th[t].number \in DOMAIN orders /\ orders' = [orders EXCEPT ![th[t].number] = o]
                 /\ SameOrder(o, orders[th[t].number])
    BY <1>4, ErrorOfOrder
  <2>5. Len(orders') = Len(orders)
    BY <1>0, <2>4
  <2>6. IsFiniteSet(Pending') /\ Cardinality(Pending') <= Cardinality(Pending)
    BY <2>3, FS_Subset DEF Bound
  <2>7. /\ Cardinality(Pending') \in Nat /\ Cardinality(Pending) \in Nat /\ MaxOrders \in Nat
    BY <2>6, FS_CardinalityType, NumberAssumption DEF Bound
  <2> QED
    BY <1>0, <2>2, <2>5, <2>6, <2>7 DEF Bound
<1>5. ASSUME NEW i \in DOMAIN orders, Fill(i) \/ Die(i) PROVE Bound'
  <2>1. UNCHANGED <<th, job, late>>
    BY <1>5 DEF Fill, Die, history
  <2>2. PICK o : orders' = [orders EXCEPT ![i] = o]
    BY <1>5, EndOfOrder
  <2>3. Len(orders') = Len(orders)
    BY <1>0, <2>2
  <2>4. Pending' = Pending
    BY <2>1 DEF Pending
  <2> QED
    BY <2>1, <2>3, <2>4 DEF Bound
<1>6. CASE Trip \/ Clear
  <2>1. UNCHANGED <<th, job, orders>> /\ late' = [t \in Thread |-> 0]
    BY <1>6 DEF Trip, Clear
  <2>2. Pending' = Pending
    BY <2>1 DEF Pending
  <2> QED
    BY <2>1, <2>2 DEF Bound
<1>7. CASE ReserveLots
  <2>1. UNCHANGED <<th, orders, late>> /\ NumberLeft
    BY <1>7 DEF ReserveLots, history
  <2>2. Pending' \subseteq Pending \cup {Manager}
    BY <2>1 DEF Pending
  <2>3. Kept
    BY <2>1, <2>2, OneMorePends
  <2> QED
    BY <2>1, <2>3 DEF Bound
<1>8. CASE ReserveOrders \/ ReserveCash
  <2>1. UNCHANGED <<th, orders, late>> /\ job.stage # "idle"
    BY <1>8 DEF ReserveOrders, ReserveCash, history
  <2>2. Pending' \subseteq Pending
    BY <2>1 DEF Pending
  <2>3. Kept
    BY <2>1, <2>2, FewerPend
  <2> QED
    BY <2>1, <2>3 DEF Bound
<1>9. CASE ReserveBuy
  <2>1. UNCHANGED <<th, late>> /\ job.stage # "idle" /\ job'.stage = "idle"
    BY <1>9 DEF ReserveBuy, Job, TypeInv
  <2>2. PICK o \in OrderSet : orders' = Append(orders, o)
    BY <1>9, ReserveAdds
  <2>3. Len(orders') = Len(orders) + 1
    BY <1>0, <2>2
  <2>4. Manager \in Pending /\ Pending' \subseteq Pending \ {Manager}
    BY <2>1, SleeveAssumption DEF Pending
  <2>5. Kept
    BY <2>3, <2>4, OneIsSubmitted
  <2> QED
    BY <1>0, <2>1, <2>3, <2>5 DEF Bound
<1> QED
  BY <1>1, <1>2, <1>3, <1>4, <1>5, <1>6, <1>7, <1>8, <1>9 DEF Next, QuietStep

\* Every variable has its type: no order is for nothing, whatever the plan
\* (_plan_close), and no agent's lots go negative, whatever is filled.
THEOREM TypesAreKept == Spec => []TypeOK
<1>1. TypeInv /\ Inv /\ Bound => TypeOK
  <2> SUFFICES ASSUME TypeInv, Inv, Bound PROVE TypeOK
    OBVIOUS
  <2>1. ASSUME NEW t \in Thread
        PROVE  /\ th[t].stage \in Stage /\ th[t].mode \in Mode /\ th[t].bucket \in 0..4
               /\ th[t].action \in Action
               /\ th[t].sym \in Symbol /\ th[t].weight \in Weight \cup {0, Starter}
               /\ th[t].order.qty \in Nat /\ th[t].own \in [Symbol -> Nat]
               /\ th[t].all \in Int /\ th[t].number \in 0..Len(orders)
    <3>1. JobTypes(th[t]) /\ th[t].number <= Len(orders) /\ Len(orders) \in Nat
      BY DEF TypeInv, Numbered
    <3> QED
      BY <3>1 DEF JobTypes
  <2>2. Len(orders) <= MaxOrders /\ Len(orders) \in Nat /\ MaxOrders \in Nat
    <3>1. Cardinality(Pending) \in Nat /\ Len(orders) \in Nat /\ MaxOrders \in Nat
      BY FS_CardinalityType, NumberAssumption DEF Bound, TypeInv
    <3> QED
      BY <3>1 DEF Bound
  <2>3. late \in [Thread -> 0..MaxOrders]
    <3>1. late \in [Thread -> {0, 1}]
      BY DEF Inv, Types
    <3>2. \A t \in Thread : late[t] # 0 => 1 <= MaxOrders
      BY <2>2 DEF Bound
    <3>3. \A t \in Thread : late[t] \in 0..MaxOrders
      BY <2>2, <3>1, <3>2
    <3> QED
      BY <3>1, <3>3
  <2>4. ASSUME NEW i \in DOMAIN orders
        PROVE  /\ orders[i].agent \in Agent /\ orders[i].sym \in Symbol
               /\ orders[i].side \in {"buy", "sell"} /\ orders[i].qty \in Nat \ {0}
               /\ orders[i].state \in {"open", "filled", "dead"}
               /\ orders[i].outcome \in {"none", "filled", "dead", "submit_error"}
    <3>1. orders[i] \in OrderSet
      BY DEF TypeInv
    <3> QED
      BY <3>1 DEF OrderSet
  <2>5. job.stage \in {"idle", "lots", "cash", "buy"} /\ job.seen \in Int
    BY DEF TypeInv
  <2>6. kill \in {"ok", "blocked", "budget"}
    BY DEF TypeInv
  <2>7. lots \in [Agent -> [Symbol -> Nat]] /\ account \in [Symbol -> Int]
        /\ crossed \subseteq Agent /\ passedBy \in BOOLEAN /\ slipped \in BOOLEAN
    BY DEF TypeInv, Agent
  <2> QED
    BY <2>1, <2>2, <2>3, <2>4, <2>5, <2>6, <2>7 DEF TypeOK
<1>2. Inv => Types
  BY DEF Inv
<1> QED
  BY <1>1, <1>2, InitTypes, NextKeepsTypes, InitEntry, NextKeepsEntry,
     InitBound, NextKeepsBound, PTL DEF Spec

-----------------------------------------------------------------------------
(* The open orders *)

\* A new order is open, if it is not dead.
LEMMA OpenAfterSubmission ==
  ASSUME TypeInv, NEW o \in OrderSet, orders' = Append(orders, o)
  PROVE  /\ \A a : a # o.agent => OpenOf(a)' = OpenOf(a)
         /\ OpenOf(o.agent)' \subseteq OpenOf(o.agent) \cup {Len(orders) + 1}
         /\ Open' \subseteq Open \cup {Len(orders) + 1}
         /\ orders'[Len(orders) + 1] = o /\ Len(orders) + 1 \notin DOMAIN orders
         /\ \A j \in DOMAIN orders : orders'[j] = orders[j]
<1>1. /\ DOMAIN orders' = DOMAIN orders \cup {Len(orders) + 1}
      /\ Len(orders) + 1 \notin DOMAIN orders
      /\ orders'[Len(orders) + 1] = o
      /\ \A j \in DOMAIN orders : orders'[j] = orders[j]
  BY OrderIsAdded DEF TypeInv
<1>2. Open' \subseteq Open \cup {Len(orders) + 1} /\ Open \subseteq Open'
  BY <1>1 DEF Open
<1> QED
  BY <1>1, <1>2 DEF OpenOf, Open

\* An order that ends is open no more; one whose record changes is what it was.
LEMMA OpenAfterChange ==
  ASSUME TypeInv, NEW i \in DOMAIN orders, NEW o, orders' = [orders EXCEPT ![i] = o],
         SameOrder(o, orders[i])
  PROVE  /\ o.state # "open" => /\ Open' = Open \ {i}
                                /\ \A a : OpenOf(a)' = OpenOf(a) \ {i}
         /\ o.state = orders[i].state => Open' = Open /\ \A a : OpenOf(a)' = OpenOf(a)
         /\ DOMAIN orders' = DOMAIN orders
         /\ \A j \in DOMAIN orders :
              /\ orders'[j].agent = orders[j].agent /\ orders'[j].sym = orders[j].sym
              /\ orders'[j].side = orders[j].side /\ orders'[j].qty = orders[j].qty
<1>1. o \in OrderSet
  BY DEF SameOrder
<1>2. /\ DOMAIN orders' = DOMAIN orders /\ orders'[i] = o
      /\ \A j \in DOMAIN orders \ {i} : orders'[j] = orders[j]
  BY <1>1, OrderChanges DEF TypeInv
<1>3. \A j \in DOMAIN orders :
        /\ orders'[j].agent = orders[j].agent /\ orders'[j].sym = orders[j].sym
        /\ orders'[j].side = orders[j].side /\ orders'[j].qty = orders[j].qty
  BY <1>2 DEF SameOrder
<1>4. o.state # "open" => Open' = Open \ {i}
  BY <1>2 DEF Open
<1>5. o.state = orders[i].state => Open' = Open
  BY <1>2 DEF Open
<1> QED
  BY <1>2, <1>3, <1>4, <1>5 DEF OpenOf, Open

-----------------------------------------------------------------------------
(* A sleeve's cap *)

Alone(a) == \A i, j \in OpenOf(a) : i = j

\* No open order takes the sleeve over its cap, or sells what it has not got.
Fits(a, i) ==
  /\ orders[i].side = "buy" => Gross(a) + orders[i].qty <= BaseGross
  /\ orders[i].side = "sell" => orders[i].qty <= lots[a][orders[i].sym]
SleeveOk(a) == Alone(a) /\ Gross(a) <= BaseGross /\ \A i \in OpenOf(a) : Fits(a, i)
SleeveInv == \A a \in Sleeve \ crossed : SleeveOk(a)

\* A sleeve whose lots stay, and that has no new order.
LEMMA SleeveStays ==
  ASSUME NEW a, SleeveOk(a), lots'[a] = lots[a], OpenOf(a)' \subseteq OpenOf(a),
         \A i \in OpenOf(a) : /\ orders'[i].sym = orders[i].sym
                              /\ orders'[i].side = orders[i].side
                              /\ orders'[i].qty = orders[i].qty
  PROVE  SleeveOk(a)'
<1>1. Gross(a)' = Gross(a)
  BY DEF Gross
<1>2. Alone(a)'
  BY DEF SleeveOk, Alone
<1>3. \A i \in OpenOf(a)' : Fits(a, i)'
  BY <1>1 DEF SleeveOk, Fits
<1> QED
  BY <1>1, <1>2, <1>3 DEF SleeveOk

\* An order of a sleeve that had no other, sized on the lots there are.
LEMMA SubmitKeepsSleeves ==
  ASSUME TypeInv, SleeveInv, NEW t \in Thread, Submit(t)
  PROVE  SleeveInv'
<1> SUFFICES ASSUME NEW a \in Sleeve \ crossed' PROVE SleeveOk(a)'
  BY DEF SleeveInv
<1>1. PICK o \in OrderSet :
        /\ orders' = Append(orders, o) /\ o.agent = SleeveOf[t] /\ o.sym = th[t].sym
        /\ o.side = th[t].order.side /\ o.qty = th[t].order.qty
  BY SubmitAdds
<1>2. UNCHANGED lots /\ th[t].stage = "submit"
  BY DEF Submit, books, At
<1>3. crossed' = crossed \cup {x \in Sleeve \cap {SleeveOf[t]} :
                                  OpenOf(SleeveOf[t]) # {} \/ lots[SleeveOf[t]] # th[t].own}
  BY DEF Submit, Past
<1>4. SleeveOk(a)
  BY <1>3 DEF SleeveInv
<1>0. PICK n : n = Len(orders) + 1
  OBVIOUS
<1>5. /\ a # o.agent => OpenOf(a)' = OpenOf(a)
      /\ OpenOf(o.agent)' \subseteq OpenOf(o.agent) \cup {n}
      /\ orders'[n] = o /\ n \notin DOMAIN orders
      /\ \A j \in DOMAIN orders : orders'[j] = orders[j]
  BY <1>0, <1>1, OpenAfterSubmission
<1>6. CASE a # SleeveOf[t]
  <2>1. OpenOf(a) \subseteq DOMAIN orders
    BY DEF OpenOf, Open
  <2> QED
    BY <1>1, <1>2, <1>4, <1>5, <1>6, <2>1, SleeveStays
<1>7. CASE a = SleeveOf[t]
  <2>1. OpenOf(a) = {} /\ lots[a] = th[t].own
    BY <1>3, <1>7
  <2>2. OpenOf(a)' \subseteq {n}
    BY <1>1, <1>5, <1>7, <2>1
  <2>3. OrderFits(th[t])
    BY <1>2 DEF TypeInv, JobTypes
  <2>4. Gross(a)' = Gross(a) /\ Gross(a) = SumOf(th[t].own, Symbol)
    BY <1>2, <2>1 DEF Gross
  <2>5. Fits(a, n)'
    BY <1>1, <1>2, <1>5, <2>1, <2>3, <2>4 DEF Fits, OrderFits
  <2>6. Alone(a)'
    BY <2>2 DEF Alone
  <2> QED
    BY <1>4, <2>2, <2>4, <2>5, <2>6 DEF SleeveOk
<1> QED
  BY <1>6, <1>7

\* The lots after a fill.
LEMMA LotsAfterFill ==
  ASSUME TypeInv, NEW i \in DOMAIN orders, Fill(i),
         NEW o, o = orders[i], NEW a, a = o.agent, NEW s, s = o.sym
  PROVE  /\ \A b \in Agent \ {a} : lots'[b] = lots[b]
         /\ o.side = "buy" =>
              /\ lots'[a] = [lots[a] EXCEPT ![s] = lots[a][s] + o.qty]
              /\ Gross(a)' = Gross(a) + o.qty
         /\ o.side = "sell" /\ o.qty <= lots[a][s] => Gross(a)' = Gross(a) - o.qty
<1> DEFINE v == CASE o.side = "buy" -> lots[a][s] + o.qty
                  [] o.side = "sell" /\ o.qty <= lots[a][s] -> lots[a][s] - o.qty
                  [] OTHER -> lots[a][s]
<1>1. o \in OrderSet
  BY DEF TypeInv
<1>2. a \in Agent /\ s \in Symbol /\ o.qty \in Nat
  BY <1>1 DEF OrderSet
<1>3. lots' = [lots EXCEPT ![a][s] = v]
  BY DEF Fill, Booked
<1>4. lots[a] \in [Symbol -> Int] /\ lots[a][s] \in Nat
  BY <1>2 DEF TypeInv
<1>5. v \in Int
  BY <1>2, <1>4
<1>6. /\ o.side = "buy" => v = lots[a][s] + o.qty
      /\ o.side = "sell" /\ o.qty <= lots[a][s] => v = lots[a][s] - o.qty
  OBVIOUS
<1> HIDE DEF v
<1>7. lots'[a] = [lots[a] EXCEPT ![s] = v] /\ \A b \in Agent \ {a} : lots'[b] = lots[b]
  BY <1>2, <1>3 DEF TypeInv
<1>8. SumOf([lots[a] EXCEPT ![s] = v], Symbol) = SumOf(lots[a], Symbol) - lots[a][s] + v
  BY <1>2, <1>4, <1>5, BookChanges
<1>9. Gross(a)' = Gross(a) - lots[a][s] + v
  BY <1>7, <1>8 DEF Gross
<1>10. Gross(a) \in Int
  BY <1>4, BookSum DEF Gross
<1> QED
  BY <1>2, <1>4, <1>5, <1>6, <1>7, <1>9, <1>10

\* The one order of a sleeve fills, or ends without.
LEMMA EndKeepsSleeves ==
  ASSUME TypeInv, SleeveInv, NEW i \in DOMAIN orders, Fill(i) \/ Die(i)
  PROVE  SleeveInv'
<1>1. UNCHANGED crossed
  BY DEF Fill, Die, history
<1> SUFFICES ASSUME NEW a \in Sleeve \ crossed PROVE SleeveOk(a)'
  BY <1>1 DEF SleeveInv
<1>2. SleeveOk(a) /\ a \in Agent
  BY DEF SleeveInv, Agent
<1>3. PICK p : /\ orders' = [orders EXCEPT ![i] = p] /\ SameOrder(p, orders[i])
               /\ p.state \in {"filled", "dead"}
  BY EndOfOrder
<1>4. /\ OpenOf(a)' = OpenOf(a) \ {i} /\ i \in Open
      /\ \A j \in OpenOf(a) : /\ orders'[j].sym = orders[j].sym
                              /\ orders'[j].side = orders[j].side
                              /\ orders'[j].qty = orders[j].qty
  BY <1>3, OpenAfterChange, EndOfOrder DEF OpenOf, Open
<1>5. CASE lots'[a] = lots[a]
  BY <1>2, <1>4, <1>5, SleeveStays
<1>6. CASE Fill(i) /\ orders[i].agent = a
  <2>1. i \in OpenOf(a)
    BY <1>4, <1>6 DEF OpenOf
  <2>2. OpenOf(a)' = {}
    BY <1>2, <1>4, <2>1 DEF SleeveOk, Alone
  <2>3. Fits(a, i)
    BY <1>2, <2>1 DEF SleeveOk
  <2>4. orders[i] \in OrderSet
    BY DEF TypeInv
  <2>5. orders[i].side \in {"buy", "sell"} /\ orders[i].qty \in Nat
    BY <2>4 DEF OrderSet
  <2>6. \/ Gross(a)' = Gross(a) + orders[i].qty /\ orders[i].side = "buy"
        \/ Gross(a)' = Gross(a) - orders[i].qty
    <3>1. /\ orders[i].side = "buy" => Gross(a)' = Gross(a) + orders[i].qty
          /\ orders[i].side = "sell" /\ orders[i].qty <= lots[a][orders[i].sym] =>
               Gross(a)' = Gross(a) - orders[i].qty
      BY <1>6, LotsAfterFill
    <3> QED
      BY <2>3, <2>5, <3>1 DEF Fits
  <2>7. Gross(a) \in Int /\ BaseGross \in Nat
    <3>1. lots[a] \in [Symbol -> Int]
      BY <1>2 DEF TypeInv
    <3> QED
      BY <3>1, BookSum, NumberAssumption DEF Gross
  <2>8. Gross(a)' <= BaseGross
    BY <1>2, <2>3, <2>5, <2>6, <2>7 DEF SleeveOk, Fits
  <2> QED
    BY <2>2, <2>8 DEF SleeveOk, Alone
<1>7. Die(i) => UNCHANGED lots
  BY DEF Die, books
<1>8. ASSUME Fill(i), orders[i].agent # a PROVE lots'[a] = lots[a]
  <2>1. \A b \in Agent \ {orders[i].agent} : lots'[b] = lots[b]
    BY <1>8, LotsAfterFill
  <2> QED
    BY <1>2, <1>8, <2>1
<1> QED
  BY <1>5, <1>6, <1>7, <1>8

\* Every step keeps what the sleeves own and ordered sound.
LEMMA NextKeepsSleeves == TypeInv /\ SleeveInv /\ [Next]_vars => SleeveInv'
<1> SUFFICES ASSUME TypeInv, SleeveInv, [Next]_vars PROVE SleeveInv'
  OBVIOUS
<1>1. CASE UNCHANGED <<lots, orders, crossed>>
  BY <1>1 DEF SleeveInv, SleeveOk, Alone, Fits, Gross, OpenOf, Open
<1>2. CASE ReserveBuy
  <2>1. PICK o \in OrderSet : orders' = Append(orders, o) /\ o.agent = Manager
    BY <1>2, ReserveAdds
  <2>2. UNCHANGED lots /\ crossed \subseteq crossed'
    BY <1>2 DEF ReserveBuy, books, Past
  <2> SUFFICES ASSUME NEW a \in Sleeve \ crossed PROVE SleeveOk(a)'
    BY <2>2 DEF SleeveInv
  <2>3. a # Manager
    BY SleeveAssumption
  <2>4. OpenOf(a)' = OpenOf(a) /\ \A j \in DOMAIN orders : orders'[j] = orders[j]
    BY <2>1, <2>3, OpenAfterSubmission
  <2>5. OpenOf(a) \subseteq DOMAIN orders /\ SleeveOk(a)
    BY DEF OpenOf, Open, SleeveInv
  <2> QED
    BY <2>2, <2>4, <2>5, SleeveStays
<1>3. ASSUME NEW t \in Thread, RecordError(t) PROVE SleeveInv'
  <2> DEFINE i == th[t].number
  <2>1. PICK o : /\ i \in DOMAIN orders /\ orders' = [orders EXCEPT ![i] = o]
                 /\ SameOrder(o, orders[i]) /\ o.state = orders[i].state
    BY <1>3, ErrorOfOrder
  <2>2. UNCHANGED <<lots, crossed>>
    BY <1>3 DEF RecordError, books, history
  <2> HIDE DEF i
  <2> SUFFICES ASSUME NEW a \in Sleeve \ crossed PROVE SleeveOk(a)'
    BY <2>2 DEF SleeveInv
  <2>3. /\ OpenOf(a)' = OpenOf(a)
        /\ \A j \in DOMAIN orders : /\ orders'[j].sym = orders[j].sym
                                    /\ orders'[j].side = orders[j].side
                                    /\ orders'[j].qty = orders[j].qty
    BY <2>1, OpenAfterChange
  <2>4. OpenOf(a) \subseteq DOMAIN orders /\ SleeveOk(a)
    BY DEF OpenOf, Open, SleeveInv
  <2> QED
    BY <2>2, <2>3, <2>4, SleeveStays
<1>4. ASSUME NEW t \in Thread, QuietStep(t) PROVE UNCHANGED <<lots, orders, crossed>>
  BY <1>4, QuietStepMoves
<1>5. UNCHANGED vars \/ ReserveLots \/ ReserveOrders \/ ReserveCash \/ Trip \/ Clear
        => UNCHANGED <<lots, orders, crossed>>
  BY DEF vars, ReserveLots, ReserveOrders, ReserveCash, Trip, Clear, books, history
<1> QED
  BY <1>1, <1>2, <1>3, <1>4, <1>5, SubmitKeepsSleeves, EndKeepsSleeves DEF Next, QuietStep

\* At the start no sleeve owns or orders anything.
LEMMA InitSleeves == Init => SleeveInv
<1> SUFFICES ASSUME Init, NEW a \in Sleeve PROVE SleeveOk(a)
  BY DEF SleeveInv
<1>1. lots[a] = Nothing /\ OpenOf(a) = {}
  BY DEF Init, Agent, OpenOf, Open
<1>2. Gross(a) = 0
  BY <1>1, EmptyBook DEF Gross
<1> QED
  BY <1>1, <1>2, NumberAssumption DEF SleeveOk, Alone

-----------------------------------------------------------------------------
(* The Manager's reserve *)

\* The Manager's orders are for the reserve; the job buys it for cash it saw.
ReserveOrdersOnly ==
  \A i \in DOMAIN orders : orders[i].agent = Manager =>
    orders[i].sym = Spy /\ orders[i].side = "buy" /\ orders[i].qty = Reserve
CashSeen == job.stage = "buy" => Equity - job.seen >= Reserve

\* Unless an order was filled between the two looks, there is one at a time,
\* and none while there are lots; the job goes on while there are neither.
OneReserve ==
  ~slipped =>
    /\ Alone(Manager)
    /\ lots[Manager][Spy] <= Reserve
    /\ OpenOf(Manager) # {} => lots[Manager][Spy] = 0
    /\ job.stage # "idle" => lots[Manager][Spy] = 0
    /\ job.stage \in {"cash", "buy"} => OpenOf(Manager) = {}
ReserveInv == ReserveOrdersOnly /\ CashSeen /\ OneReserve

\* The Manager's lots and orders stay, and the job does no more than end.
LEMMA ReserveStays ==
  ASSUME TypeInv, ReserveInv, lots'[Manager] = lots[Manager],
         OpenOf(Manager)' \subseteq OpenOf(Manager),
         \A i \in DOMAIN orders' :
           orders'[i].agent = Manager =>
             /\ i \in DOMAIN orders /\ orders[i].agent = Manager
             /\ orders'[i].sym = orders[i].sym
             /\ orders'[i].side = orders[i].side /\ orders'[i].qty = orders[i].qty,
         job' = job \/ job'.stage = "idle", slipped => slipped'
  PROVE  ReserveInv'
<1>1. ReserveOrdersOnly'
  BY DEF ReserveInv, ReserveOrdersOnly
<1>2. CashSeen'
  BY DEF ReserveInv, CashSeen
<1>3. OneReserve'
  <2> SUFFICES ASSUME ~slipped' PROVE OneReserve'
    BY DEF OneReserve
  <2>1. OneReserve /\ ~slipped
    BY DEF ReserveInv
  <2>2. Alone(Manager)'
    BY <2>1 DEF OneReserve, Alone
  <2> QED
    BY <2>1, <2>2 DEF OneReserve
<1> QED
  BY <1>1, <1>2, <1>3 DEF ReserveInv

\* The reads of the reserve job, before it buys.
LEMMA ReserveJobKeeps ==
  ASSUME TypeInv, ReserveInv, ReserveLots \/ ReserveOrders \/ ReserveCash
  PROVE  ReserveInv'
<1>1. UNCHANGED <<lots, orders, slipped>>
  BY DEF ReserveLots, ReserveOrders, ReserveCash, books, history
<1>2. OpenOf(Manager)' = OpenOf(Manager) /\ (Alone(Manager) => Alone(Manager)')
  BY <1>1 DEF OpenOf, Open, Alone
<1>3. Long \in Int /\ job \in [stage : {"idle", "lots", "cash", "buy"}, seen : Int]
  BY BookSum DEF Long, TypeInv
<1>4. CASE ReserveLots
  <2>1. job'.stage = "lots" /\ lots[Manager][Spy] = 0
    BY <1>3, <1>4 DEF ReserveLots, Job
  <2> QED
    BY <1>1, <1>2, <2>1 DEF ReserveInv, ReserveOrdersOnly, CashSeen, OneReserve
<1>5. CASE ReserveOrders
  <2>1. /\ job.stage = "lots"
        /\ job'.stage = "idle" \/ (job'.stage = "cash" /\ OpenOf(Manager) = {})
    BY <1>3, <1>5 DEF ReserveOrders, Job
  <2> QED
    BY <1>1, <1>2, <2>1 DEF ReserveInv, ReserveOrdersOnly, CashSeen, OneReserve
<1>6. CASE ReserveCash
  <2>1. /\ job.stage = "cash"
        /\ \/ job'.stage = "idle"
           \/ job'.stage = "buy" /\ job'.seen = Long /\ Equity - Long >= Reserve
    BY <1>3, <1>6 DEF ReserveCash
  <2> QED
    BY <1>1, <1>2, <2>1 DEF ReserveInv, ReserveOrdersOnly, CashSeen, OneReserve
<1> QED
  BY <1>4, <1>5, <1>6

\* The reserve job's purchase, of the quantity its reads asked for.
LEMMA ReserveBuyKeeps ==
  ASSUME TypeInv, ReserveInv, ReserveBuy
  PROVE  ReserveInv'
<1>1. PICK o \in OrderSet :
        /\ orders' = Append(orders, o)
        /\ o.agent = Manager /\ o.sym = Spy /\ o.side = "buy" /\ o.qty = Reserve
  BY ReserveAdds
<1>2. /\ UNCHANGED <<lots, slipped>> /\ job.stage = "buy" /\ job'.stage = "idle"
  BY DEF ReserveBuy, books, Job, TypeInv
<1>0. PICK n : n = Len(orders) + 1
  OBVIOUS
<1>3. /\ OpenOf(Manager)' \subseteq OpenOf(Manager) \cup {n}
      /\ orders'[n] = o /\ \A j \in DOMAIN orders : orders'[j] = orders[j]
      /\ DOMAIN orders' = DOMAIN orders \cup {n}
  BY <1>0, <1>1, OpenAfterSubmission, OrderIsAdded DEF TypeInv
<1>4. ReserveOrdersOnly' /\ CashSeen'
  BY <1>1, <1>2, <1>3 DEF ReserveInv, ReserveOrdersOnly, CashSeen
<1>5. OneReserve'
  <2> SUFFICES ASSUME ~slipped' PROVE OneReserve'
    BY DEF OneReserve
  <2>1. lots[Manager][Spy] = 0 /\ OpenOf(Manager) = {}
    BY <1>2 DEF ReserveInv, OneReserve
  <2>2. OpenOf(Manager)' \subseteq {n}
    BY <1>3, <2>1
  <2>3. Alone(Manager)'
    BY <2>2 DEF Alone
  <2> QED
    BY <1>2, <2>1, <2>3, NumberAssumption DEF OneReserve
<1> QED
  BY <1>4, <1>5 DEF ReserveInv

\* An order that ends, filled or dead.
LEMMA EndKeepsReserve ==
  ASSUME TypeInv, ReserveInv, NEW i \in DOMAIN orders, Fill(i) \/ Die(i)
  PROVE  ReserveInv'
<1>1. PICK o : /\ orders' = [orders EXCEPT ![i] = o] /\ SameOrder(o, orders[i])
               /\ o.state \in {"filled", "dead"}
  BY EndOfOrder
<1>2. /\ OpenOf(Manager)' = OpenOf(Manager) \ {i} /\ i \in Open
      /\ DOMAIN orders' = DOMAIN orders
      /\ \A j \in DOMAIN orders :
           /\ orders'[j].agent = orders[j].agent /\ orders'[j].sym = orders[j].sym
           /\ orders'[j].side = orders[j].side /\ orders'[j].qty = orders[j].qty
  BY <1>1, OpenAfterChange, EndOfOrder
<1>3. UNCHANGED job /\ (slipped => slipped')
  <2>1. Fill(i) => UNCHANGED job /\ (slipped => slipped')
    BY DEF Fill
  <2>2. Die(i) => UNCHANGED <<job, slipped>>
    BY DEF Die, history
  <2> QED
    BY <2>1, <2>2
<1>4. CASE lots'[Manager] = lots[Manager]
  BY <1>2, <1>3, <1>4, ReserveStays
<1>5. CASE Fill(i) /\ orders[i].agent = Manager
  <2>1. slipped' = (slipped \/ job.stage = "lots")
    BY <1>5 DEF Fill
  <2>2. i \in OpenOf(Manager)
    BY <1>2, <1>5 DEF OpenOf
  <2>3. orders[i].sym = Spy /\ orders[i].side = "buy" /\ orders[i].qty = Reserve
    BY <1>5 DEF ReserveInv, ReserveOrdersOnly
  <2>4. lots'[Manager] = [lots[Manager] EXCEPT ![Spy] = lots[Manager][Spy] + Reserve]
    BY <1>5, <2>3, LotsAfterFill
  <2>5. lots[Manager] \in [Symbol -> Nat] /\ Spy \in Symbol
    BY SleeveAssumption DEF TypeInv, Agent
  <2>6. ReserveOrdersOnly' /\ CashSeen'
    BY <1>2, <1>3 DEF ReserveInv, ReserveOrdersOnly, CashSeen
  <2>7. OneReserve'
    <3> SUFFICES ASSUME ~slipped' PROVE OneReserve'
      BY DEF OneReserve
    <3>1. ~slipped /\ job.stage # "lots" /\ OneReserve
      BY <2>1 DEF ReserveInv
    <3>2. lots[Manager][Spy] = 0 /\ OpenOf(Manager)' = {}
      BY <1>2, <2>2, <3>1 DEF OneReserve, Alone
    <3>3. job.stage = "idle"
      BY <2>2, <3>1 DEF OneReserve, TypeInv
    <3>4. lots'[Manager][Spy] = Reserve /\ Reserve \in Nat
      BY <2>4, <2>5, <3>2, NumberAssumption
    <3> QED
      BY <1>3, <3>2, <3>3, <3>4 DEF OneReserve, Alone
  <2> QED
    BY <2>6, <2>7 DEF ReserveInv
<1>6. Die(i) => UNCHANGED lots
  BY DEF Die, books
<1>7. ASSUME Fill(i), orders[i].agent # Manager PROVE lots'[Manager] = lots[Manager]
  <2>1. \A b \in Agent \ {orders[i].agent} : lots'[b] = lots[b]
    BY <1>7, LotsAfterFill
  <2> QED
    BY <1>7, <2>1 DEF Agent
<1> QED
  BY <1>4, <1>5, <1>6, <1>7

\* Every step keeps what the reserve job has seen and bought in order.
LEMMA NextKeepsReserve == TypeInv /\ ReserveInv /\ [Next]_vars => ReserveInv'
<1> SUFFICES ASSUME TypeInv, ReserveInv, [Next]_vars PROVE ReserveInv'
  OBVIOUS
<1>1. CASE UNCHANGED <<lots, orders, job, slipped>>
  <2>1. OpenOf(Manager)' = OpenOf(Manager)
    BY <1>1 DEF OpenOf, Open
  <2> QED
    BY <1>1, <2>1, ReserveStays
<1>2. ASSUME NEW t \in Thread, Submit(t) PROVE ReserveInv'
  <2>1. PICK o \in OrderSet : orders' = Append(orders, o) /\ o.agent = SleeveOf[t]
    BY <1>2, SubmitAdds
  <2>2. UNCHANGED <<lots, job, slipped>>
    BY <1>2 DEF Submit, books
  <2>3. o.agent # Manager
    BY <2>1, SleeveAssumption
  <2>4. /\ OpenOf(Manager)' = OpenOf(Manager)
        /\ orders'[Len(orders) + 1] = o /\ \A j \in DOMAIN orders : orders'[j] = orders[j]
        /\ DOMAIN orders' = DOMAIN orders \cup {Len(orders) + 1}
    BY <2>1, <2>3, OpenAfterSubmission, OrderIsAdded DEF TypeInv
  <2> QED
    BY <2>2, <2>3, <2>4, ReserveStays
<1>3. ASSUME NEW t \in Thread, RecordError(t) PROVE ReserveInv'
  <2> DEFINE i == th[t].number
  <2>1. PICK o : /\ i \in DOMAIN orders /\ orders' = [orders EXCEPT ![i] = o]
                 /\ SameOrder(o, orders[i]) /\ o.state = orders[i].state
    BY <1>3, ErrorOfOrder
  <2>2. UNCHANGED <<lots, job, slipped>>
    BY <1>3 DEF RecordError, books, history
  <2> HIDE DEF i
  <2>3. /\ OpenOf(Manager)' = OpenOf(Manager) /\ DOMAIN orders' = DOMAIN orders
        /\ \A j \in DOMAIN orders :
             /\ orders'[j].agent = orders[j].agent /\ orders'[j].sym = orders[j].sym
             /\ orders'[j].side = orders[j].side /\ orders'[j].qty = orders[j].qty
    BY <2>1, OpenAfterChange
  <2> QED
    BY <2>2, <2>3, ReserveStays
<1>4. ASSUME NEW t \in Thread, QuietStep(t) PROVE UNCHANGED <<lots, orders, job, slipped>>
  BY <1>4, QuietStepMoves
<1>5. UNCHANGED vars \/ Trip \/ Clear => UNCHANGED <<lots, orders, job, slipped>>
  BY DEF vars, Trip, Clear, books, history
<1> QED
  BY <1>1, <1>2, <1>3, <1>4, <1>5, ReserveJobKeeps, ReserveBuyKeeps, EndKeepsReserve
     DEF Next, QuietStep

\* At the start the manager owns and orders nothing.
LEMMA InitReserve == Init => ReserveInv
<1> SUFFICES ASSUME Init PROVE ReserveInv
  OBVIOUS
<1>1. /\ lots[Manager][Spy] = 0 /\ OpenOf(Manager) = {} /\ job.stage = "idle"
      /\ DOMAIN orders = {}
  BY SleeveAssumption DEF Init, Agent, OpenOf, Open, Nothing
<1> QED
  BY <1>1, NumberAssumption
     DEF ReserveInv, ReserveOrdersOnly, CashSeen, OneReserve, Alone

\* In every reachable state the manager holds at most one reserve, unless its
\* order was filled between the two looks.
LEMMA SpecReserve == Spec => []ReserveInv
BY SpecTypes, InitReserve, NextKeepsReserve, PTL DEF Spec

\* A sleeve that was sized on the lots it had stays under its gross cap and
\* sells what it holds; the Manager's reserve is bought once, unless its order
\* is filled between the job's looks (ExecutionPlanner.plan,
\* _job_manager_reserve_check).
THEOREM SleevesStaySound == Spec => []SleeveIsSound
<1>1. TypeInv /\ TypeOK /\ SleeveInv /\ ReserveInv => SleeveIsSound
  <2> SUFFICES ASSUME TypeInv, TypeOK, SleeveInv, ReserveInv PROVE SleeveIsSound
    OBVIOUS
  <2>1. ASSUME NEW a \in Sleeve \ crossed
        PROVE  /\ Gross(a) <= BaseGross
               /\ \A i \in OpenOf(a) : orders[i].side = "sell" =>
                    orders[i].qty <= lots[a][orders[i].sym]
    BY DEF SleeveInv, SleeveOk, Fits
  <2>2. ASSUME ~slipped
        PROVE  lots[Manager][Spy]
                 + SumOf([i \in DOMAIN orders |-> orders[i].qty], OpenOf(Manager)) <= Reserve
    <3> DEFINE f == [i \in DOMAIN orders |-> orders[i].qty]
    <3>1. SumOf(f, OpenOf(Manager)) = SumOver(f, OpenOf(Manager))
      BY DEF SumOf, SumOver
    <3>2. OneReserve /\ lots[Manager][Spy] \in Nat /\ Reserve \in Nat
      BY SleeveAssumption, NumberAssumption DEF ReserveInv, TypeInv, Agent
    <3>3. CASE OpenOf(Manager) = {}
      <4>1. SumOver(f, OpenOf(Manager)) = 0
        BY <3>3, SumOfNothing
      <4> QED
        BY <2>2, <3>1, <3>2, <4>1 DEF OneReserve
    <3>4. CASE OpenOf(Manager) # {}
      <4>1. PICK i : OpenOf(Manager) = {i}
        BY <2>2, <3>2, <3>4 DEF OneReserve, Alone
      <4>2. f[i] = Reserve
        BY <4>1 DEF ReserveInv, ReserveOrdersOnly, OpenOf, Open
      <4> HIDE DEF f
      <4>3. SumOver(f, {i}) = f[i] + SumOver(f, {i} \ {i})
        <5>1. IsFiniteSet({i})
          BY FS_Singleton
        <5>2. i \in {i} /\ \A y \in {i} : f[y] \in Int
          BY <3>2, <4>2
        <5> QED
          BY <5>1, <5>2, SumTakesOut
      <4>4. SumOver(f, {i} \ {i}) = 0
        <5>1. {i} \ {i} = {}
          OBVIOUS
        <5> QED
          BY <5>1, SumOfNothing
      <4>5. SumOver(f, OpenOf(Manager)) = Reserve
        BY <3>2, <4>1, <4>2, <4>3, <4>4
      <4>6. lots[Manager][Spy] = 0
        BY <2>2, <3>2, <3>4 DEF OneReserve
      <4>7. SumOf(f, OpenOf(Manager)) = Reserve
        BY <3>1, <4>5
      <4>8. lots[Manager][Spy] + SumOf(f, OpenOf(Manager)) <= Reserve
        BY <3>2, <4>6, <4>7
      <4> QED
        BY <4>8 DEF f
    <3> QED
      BY <3>3, <3>4
  <2> QED
    BY <2>1, <2>2 DEF SleeveIsSound
<1> QED
  BY <1>1, TypesAreKept, SpecTypes, SpecReserve, InitSleeves, NextKeepsSleeves, PTL DEF Spec

-----------------------------------------------------------------------------
(* The account *)

\* What a job that passed the guard adds to the account it looked at.
GuardedJob(r) ==
  r.stage = "submit" /\ r.order.side = "buy" => 2 * (r.all + r.order.qty) <= 3 * Equity

\* No two orders are open at a time, and the one that is takes the account to
\* no more than it may hold.
Guarded ==
  /\ \A i, j \in Open : i = j
  /\ 2 * Long <= 3 * Equity
  /\ \A i \in Open : orders[i].side = "buy" => 2 * (Long + orders[i].qty) <= 3 * Equity
  /\ \A t \in Thread : GuardedJob(th[t])
AccountInv == ~passedBy => Guarded

\* The account and its open orders stay, or one is gone.
LEMMA AccountStays ==
  ASSUME Guarded, UNCHANGED account, Open' \subseteq Open,
         \A i \in Open : orders'[i].side = orders[i].side /\ orders'[i].qty = orders[i].qty,
         \A t \in Thread : GuardedJob(th'[t])
  PROVE  Guarded'
<1>1. Long' = Long
  BY DEF Long
<1>2. \A t \in Thread : GuardedJob(th[t])'
  BY DEF GuardedJob
<1> QED
  BY <1>1, <1>2 DEF Guarded

\* A job moves, to where it submits nothing unguarded.
LEMMA MoveKeepsGuard ==
  ASSUME TypeInv, Guarded, NEW t \in Thread, NEW q, Move(t, q), GuardedJob(q)
  PROVE  \A u \in Thread : GuardedJob(th'[u])
<1>1. th'[t] = q /\ \A u \in Thread \ {t} : th'[u] = th[u]
  BY DEF TypeInv, Move
<1> QED
  BY <1>1 DEF Guarded

\* A step that submits nothing keeps what the guards allowed.
LEMMA QuietStepKeepsAccount ==
  ASSUME TypeInv, AccountInv, NEW t \in Thread, QuietStep(t)
  PROVE  AccountInv'
<1> SUFFICES ASSUME ~passedBy' PROVE Guarded'
  BY DEF AccountInv
<1>1. UNCHANGED <<account, orders>> /\ ~passedBy
  BY QuietStepMoves DEF TypeInv
<1>2. Guarded
  BY <1>1 DEF AccountInv
<1>3. PICK q : Move(t, q) /\ GuardedJob(q)
  <2>1. CASE Guard(t)
    <3>1. PICK q : /\ Move(t, q)
                   /\ \/ q.stage \in {"idle", "observed"}
                      \/ /\ q.stage = "submit" /\ q.order = th[t].order /\ q.all = Long
                         /\ q.order.side = "buy" => Allowed(q.order.qty) \/ passedBy'
      BY <2>1, GuardMoves
    <3>2. q.stage = "submit" /\ q.order.side = "buy" =>
            q.all = Long /\ 2 * (Long + q.order.qty) <= 3 * Equity
      BY <3>1 DEF Allowed
    <3> QED
      BY <3>1, <3>2 DEF GuardedJob
  <2>2. CASE ~Guard(t)
    <3>1. \E q : Move(t, q) /\ q.stage # "submit"
      <4>1. EndDispatch(t) => Move(t, Quiet) /\ Quiet.stage = "idle"
        BY QuietHasTypes, QuietIsJob DEF EndDispatch, Move
      <4>2. Observe(t) \/ DeepDive(t) => \E q : Move(t, q) /\ q.stage # "submit"
        BY ObserveMoves
      <4>3. Gate(t) => \E q : Move(t, q) /\ q.stage # "submit"
        BY GateMoves
      <4>4. Plan(t) => \E q : Move(t, q) /\ q.stage # "submit"
        BY PlanMoves
      <4> QED
        BY <2>2, <4>1, <4>2, <4>3, <4>4 DEF QuietStep
    <3> QED
      BY <3>1 DEF GuardedJob
  <2> QED
    BY <2>1, <2>2
<1>4. \A u \in Thread : GuardedJob(th'[u])
  BY <1>2, <1>3, MoveKeepsGuard
<1>5. Open' = Open
  BY <1>1 DEF Open
<1> QED
  BY <1>1, <1>2, <1>4, <1>5, AccountStays

\* The only open order is the new one, in the account the guard looked at.
LEMMA SubmitKeepsAccount ==
  ASSUME TypeInv, AccountInv, NEW o \in OrderSet, orders' = Append(orders, o),
         UNCHANGED account, ~passedBy, Open = {},
         o.side = "buy" => 2 * (Long + o.qty) <= 3 * Equity,
         \A t \in Thread : GuardedJob(th'[t])
  PROVE  AccountInv'
<1>1. Guarded
  BY DEF AccountInv
<1>2. PICK n : n = Len(orders) + 1
  OBVIOUS
<1>3. Open' \subseteq {n} /\ orders'[n] = o
  BY <1>1, <1>2, OpenAfterSubmission
<1>4. Long' = Long
  BY DEF Long
<1>5. \A i, j \in Open' : i = j
  BY <1>3
<1>6. \A i \in Open' : orders'[i].side = "buy" => 2 * (Long' + orders'[i].qty) <= 3 * Equity
  BY <1>3, <1>4
<1>7. \A t \in Thread : GuardedJob(th[t])'
  BY DEF GuardedJob
<1> QED
  BY <1>1, <1>4, <1>5, <1>6, <1>7 DEF AccountInv, Guarded

\* The account after a fill.
LEMMA AccountAfterFill ==
  ASSUME TypeInv, NEW i \in DOMAIN orders, Fill(i)
  PROVE  Long' = IF orders[i].side = "buy" THEN Long + orders[i].qty ELSE Long - orders[i].qty
<1> DEFINE o == orders[i]
           v == IF o.side = "buy" THEN account[o.sym] + o.qty ELSE account[o.sym] - o.qty
<1>1. o \in OrderSet
  BY DEF TypeInv
<1>2. o.sym \in Symbol /\ o.qty \in Nat
  BY <1>1 DEF OrderSet
<1>3. account' = [account EXCEPT ![o.sym] = v]
  BY DEF Fill
<1>4. account \in [Symbol -> Int] /\ account[o.sym] \in Int /\ v \in Int
  BY <1>2 DEF TypeInv
<1>5. Long' = Long - account[o.sym] + v
  <2>1. SumOf([account EXCEPT ![o.sym] = v], Symbol)
          = SumOf(account, Symbol) - account[o.sym] + v
    BY <1>2, <1>4, BookChanges
  <2> QED
    BY <1>3, <2>1 DEF Long
<1>6. Long \in Int
  BY <1>4, BookSum DEF Long
<1> QED
  BY <1>2, <1>4, <1>5, <1>6

\* An order that ends keeps the account within what the guards allowed.
LEMMA EndKeepsAccount ==
  ASSUME TypeInv, AccountInv, NEW i \in DOMAIN orders, Fill(i) \/ Die(i)
  PROVE  AccountInv'
<1>1. UNCHANGED <<th, passedBy>>
  BY DEF Fill, Die, history
<1> SUFFICES ASSUME ~passedBy PROVE Guarded'
  BY <1>1 DEF AccountInv
<1>2. Guarded
  BY DEF AccountInv
<1>3. PICK o : /\ orders' = [orders EXCEPT ![i] = o] /\ SameOrder(o, orders[i])
               /\ o.state \in {"filled", "dead"}
  BY EndOfOrder
<1>4. /\ Open' = Open \ {i} /\ i \in Open
      /\ \A j \in DOMAIN orders : orders'[j].side = orders[j].side /\ orders'[j].qty = orders[j].qty
  BY <1>3, OpenAfterChange, EndOfOrder
<1>5. \A t \in Thread : GuardedJob(th'[t])
  BY <1>1, <1>2 DEF Guarded
<1>6. CASE Die(i)
  <2>1. UNCHANGED account /\ Open \subseteq DOMAIN orders
    BY <1>6 DEF Die, books, Open
  <2> QED
    BY <1>2, <1>4, <1>5, <2>1, AccountStays
<1>7. CASE Fill(i)
  <2>1. Open' = {}
    BY <1>2, <1>4 DEF Guarded
  <2>2. orders[i] \in OrderSet
    BY DEF TypeInv
  <2>3. orders[i].qty \in Nat
    BY <2>2 DEF OrderSet
  <2>4. Long \in Int /\ Equity \in Nat
    BY BookSum, NumberAssumption DEF Long, TypeInv
  <2>5. /\ 2 * Long <= 3 * Equity
        /\ orders[i].side = "buy" => 2 * (Long + orders[i].qty) <= 3 * Equity
    BY <1>2, <1>4 DEF Guarded
  <2>6. Long' = IF orders[i].side = "buy" THEN Long + orders[i].qty ELSE Long - orders[i].qty
    BY <1>7, AccountAfterFill
  <2>7. 2 * Long' <= 3 * Equity
    BY <2>3, <2>4, <2>5, <2>6
  <2>8. \A t \in Thread : GuardedJob(th[t])'
    BY <1>5 DEF GuardedJob
  <2> QED
    BY <2>1, <2>7, <2>8 DEF Guarded
<1> QED
  BY <1>6, <1>7

\* Every step keeps the account within what the guards allowed.
LEMMA NextKeepsAccount == TypeInv /\ ReserveInv /\ AccountInv /\ [Next]_vars => AccountInv'
<1> SUFFICES ASSUME TypeInv, ReserveInv, AccountInv, [Next]_vars PROVE AccountInv'
  OBVIOUS
<1>1. CASE UNCHANGED <<th, account, orders, passedBy>>
  <2>1. Open' = Open /\ Long' = Long
    BY <1>1 DEF Open, Long
  <2> QED
    BY <1>1, <2>1 DEF AccountInv, Guarded, GuardedJob
<1>2. ASSUME NEW t \in Thread, Submit(t) PROVE AccountInv'
  <2> SUFFICES ASSUME ~passedBy' PROVE AccountInv'
    BY DEF AccountInv
  <2>1. /\ th[t].stage = "submit" /\ UNCHANGED account
        /\ passedBy' = (passedBy \/ Open # {} \/ Long # th[t].all)
    BY <1>2 DEF Submit, At, books, Past
  <2>2. ~passedBy /\ Long = th[t].all /\ Guarded
    BY <2>1 DEF AccountInv
  <2>3. PICK q : \E o \in OrderSet :
          /\ Move(t, q) /\ orders' = Append(orders, o)
          /\ o.side = th[t].order.side /\ o.qty = th[t].order.qty
          /\ q.stage \in {"idle", "observed", "error"}
    BY <1>2, SubmitAdds
  <2>4. PICK o \in OrderSet :
          /\ Move(t, q) /\ orders' = Append(orders, o)
          /\ o.side = th[t].order.side /\ o.qty = th[t].order.qty
          /\ q.stage \in {"idle", "observed", "error"}
    BY <2>3
  <2>5. GuardedJob(q)
    BY <2>4 DEF GuardedJob
  <2>6. \A u \in Thread : GuardedJob(th'[u])
    BY <2>2, <2>4, <2>5, MoveKeepsGuard
  <2>7. o.side = "buy" => 2 * (Long + o.qty) <= 3 * Equity
    BY <2>1, <2>2, <2>4 DEF Guarded, GuardedJob
  <2>8. Open = {}
    BY <2>1
  <2> QED
    BY <2>1, <2>2, <2>4, <2>6, <2>7, <2>8, SubmitKeepsAccount
<1>3. CASE ReserveBuy
  <2> SUFFICES ASSUME ~passedBy' PROVE AccountInv'
    BY DEF AccountInv
  <2>1. /\ job.stage = "buy" /\ UNCHANGED <<th, account>>
        /\ passedBy' = (passedBy \/ Open # {} \/ Long # job.seen)
    BY <1>3 DEF ReserveBuy, books, Past
  <2>2. ~passedBy /\ Long = job.seen /\ Guarded /\ Equity - job.seen >= Reserve
    BY <2>1 DEF AccountInv, ReserveInv, CashSeen
  <2>3. PICK o \in OrderSet : orders' = Append(orders, o) /\ o.qty = Reserve
    BY <1>3, ReserveAdds
  <2>4. 2 * (Long + o.qty) <= 3 * Equity
    <3>1. Long \in Int /\ Equity \in Nat /\ Reserve \in Nat
      BY BookSum, NumberAssumption DEF Long, TypeInv
    <3> QED
      BY <2>2, <2>3, <3>1
  <2>5. \A u \in Thread : GuardedJob(th'[u])
    BY <2>1, <2>2 DEF Guarded
  <2>6. Open = {}
    BY <2>1
  <2> QED
    BY <2>1, <2>2, <2>3, <2>4, <2>5, <2>6, SubmitKeepsAccount
<1>4. ASSUME NEW t \in Thread, RecordError(t) PROVE AccountInv'
  <2> DEFINE i == th[t].number
  <2>1. UNCHANGED <<account, passedBy>>
    BY <1>4 DEF RecordError, books, history
  <2> SUFFICES ASSUME ~passedBy PROVE Guarded'
    BY <2>1 DEF AccountInv
  <2>2. PICK q : Move(t, q) /\ q.stage \in {"idle", "observed"}
    BY <1>4, ErrorMoves
  <2>3. Guarded /\ GuardedJob(q)
    BY <2>2 DEF AccountInv, GuardedJob
  <2>4. \A u \in Thread : GuardedJob(th'[u])
    BY <2>2, <2>3, MoveKeepsGuard
  <2>5. PICK o : /\ i \in DOMAIN orders /\ orders' = [orders EXCEPT ![i] = o]
                 /\ SameOrder(o, orders[i]) /\ o.state = orders[i].state
    BY <1>4, ErrorOfOrder
  <2> HIDE DEF i
  <2>6. /\ Open' = Open
        /\ \A j \in DOMAIN orders :
             orders'[j].side = orders[j].side /\ orders'[j].qty = orders[j].qty
    BY <2>5, OpenAfterChange
  <2>7. Open \subseteq DOMAIN orders
    BY DEF Open
  <2> QED
    BY <2>1, <2>3, <2>4, <2>6, <2>7, AccountStays
<1>5. UNCHANGED vars \/ ReserveLots \/ ReserveOrders \/ ReserveCash \/ Trip \/ Clear
        => UNCHANGED <<th, account, orders, passedBy>>
  BY DEF vars, ReserveLots, ReserveOrders, ReserveCash, Trip, Clear, books, history
<1> QED
  BY <1>1, <1>2, <1>3, <1>4, <1>5, QuietStepKeepsAccount, EndKeepsAccount DEF Next, QuietStep

\* At the start the account is empty.
LEMMA InitAccount == Init => AccountInv
<1> SUFFICES ASSUME Init PROVE AccountInv
  OBVIOUS
<1>1. Open = {} /\ account = Nothing /\ \A t \in Thread : th[t] = Quiet
  BY DEF Init, Open
<1>2. Long = 0
  BY <1>1, EmptyBook DEF Long
<1>3. GuardedJob(Quiet)
  BY QuietIsJob DEF GuardedJob
<1> QED
  BY <1>1, <1>2, <1>3, NumberAssumption DEF AccountInv, Guarded

\* As long as every order was submitted in the account the guard or the
\* reserve job looked at, the account holds at most one and a half times its
\* equity (_account_level_pre_check).
THEOREM AccountStaysSound == Spec => []AccountIsSound
<1>1. AccountInv => AccountIsSound
  BY DEF AccountInv, Guarded, AccountIsSound
<1> QED
  BY <1>1, SpecTypes, SpecReserve, InitAccount, NextKeepsAccount, PTL DEF Spec
=============================================================================
